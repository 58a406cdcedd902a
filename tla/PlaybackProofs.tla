---------------------------- MODULE PlaybackProofs ----------------------------
(***************************************************************************)
(* What holds of Playback for every set of videos and handlers, every       *)
(* lifetime, timeout and size of the cache: the three promises about who is  *)
(* let through to a video, each from one inductive invariant, and that the   *)
(* map and the list of the cache agree.                                    *)
(*                                                                         *)
(* The argument is about time. What a fetch has read, or the cache holds,     *)
(* may disagree with the row only if the row changed since it was read, and   *)
(* that was no longer ago than the fetch has run and the entry has lived.    *)
(***************************************************************************)
EXTENDS Playback, FiniteSetTheorems, TLAPS

\* The sizes are natural numbers, a window covers a slow fetch and a whole lifetime.
LEMMA Sizes ==
    /\ TTL \in Nat /\ NegTTL \in Nat /\ Timeout \in Nat /\ Window \in Nat
    /\ MaxEdits \in Nat /\ MaxFaults \in Nat
    /\ NegTTL <= TTL /\ TTL + Timeout <= Window
  BY SizesAssumption, WindowAssumption DEF SizesAssumption, WindowAssumption

USE Sizes

-----------------------------------------------------------------------------
(* The invariant *)

Busy(r) == request[r].at \in {"lookup", "fetch", "read", "vod"}

\* What was learnt about v and the row disagree on who may play it.
Outdated(vis, v) == (vis = "private") # (row[v].vis = "private")

\* A fetch that has read the row learnt a verdict, and the row changed after the
\* fetch began if the two disagree.
ReadInTime ==
    \A r \in Handlers : At(r, "read") =>
        /\ request[r].meta # "unknown"
        /\ Outdated(request[r].meta, request[r].video)
           => age[request[r].video] <= Timeout - request[r].left

\* The same of an entry, which has lived TTL - left since the fetch ended.
EntriesInTime ==
    \A v \in Videos : Live(v) =>
        /\ entries[v].vis # "unknown"
        /\ Outdated(entries[v].vis, v) => age[v] <= Timeout + TTL - entries[v].left

\* A video that was ready when it was shown stays so until it is deleted: a late
\* "failed" ends the note that it was shown.
ShownStaysReady ==
    \A r \in Handlers : Busy(r) /\ request[r].shown
        => row[request[r].video].vis = "deleted" \/ HasMapping(request[r].video)

\* The declared types, but for the list, whose order tells nothing about time.
Typed == MetadataType /\ EntriesType /\ RequestType /\ faults \in 0..MaxFaults

IInv == Typed /\ ReadInTime /\ EntriesInTime /\ ShownStaysReady

-----------------------------------------------------------------------------
(* Lemmas *)

\* A busy request is one of the records declared for it.
LEMMA BusyType ==
    ASSUME RequestType, NEW r \in Handlers, Busy(r)
    PROVE  request[r] \in Asking
  BY DEF RequestType, Busy, Answers, Asking

\* A late "failed" leaves every request what it was, and is noted in those of the
\* video (VideoRepo.UpdateStatus).
LEMMA FailedStep ==
    ASSUME RequestType, NEW v \in Videos, request' = Failed(v)
    PROVE  /\ RequestType'
           /\ \A r \in Handlers :
                /\ request'[r].at = request[r].at
                /\ Busy(r) => /\ request'[r].video = request[r].video
                              /\ request'[r].meta = request[r].meta
                              /\ request'[r].left = request[r].left
                              /\ request'[r].shown => request[r].shown
                              /\ request[r].video = v => ~request'[r].shown
<1>1. ASSUME NEW r \in Handlers
      PROVE  /\ request'[r] \in Asking \cup [at : Answers]
             /\ request'[r].at = request[r].at
             /\ Busy(r) => /\ request'[r].video = request[r].video
                           /\ request'[r].meta = request[r].meta
                           /\ request'[r].left = request[r].left
                           /\ request'[r].shown => request[r].shown
                           /\ request[r].video = v => ~request'[r].shown
  <2>1. CASE request[r].at \notin Answers /\ request[r].video = v
    <3>1. request[r] \in Asking
      BY <2>1 DEF RequestType
    <3>2. request'[r] = [request[r] EXCEPT !.shown = FALSE]
      BY <2>1 DEF Failed
    <3>3. QED
      BY <3>1, <3>2 DEF Asking
  <2>2. CASE ~(request[r].at \notin Answers /\ request[r].video = v)
    <3>1. request'[r] = request[r]
      BY <2>2 DEF Failed
    <3>2. Busy(r) => request[r].video # v
      BY <2>2 DEF Busy, Answers
    <3>3. QED
      BY <3>1, <3>2 DEF RequestType
  <2>3. QED
    BY <2>1, <2>2
<1>2. request' = [r \in Handlers |-> request'[r]]
  BY DEF Failed
<1>3. QED
  BY <1>1, <1>2 DEF RequestType

\* A change of the row keeps the types and the invariant, if the video it makes or
\* keeps is not one that was ready and is so no longer, but for a failure that is
\* noted (VideoRepo.Update, Delete, UpdateStatus).
LEMMA SetRowInv ==
    ASSUME IInv, NEW v \in Videos, NEW vis \in Visibility \cup {"deleted"},
           NEW ready \in BOOLEAN, SetRow(v, vis, ready),
           \/ UNCHANGED request /\ (HasMapping(v) => vis = "deleted" \/ ready)
           \/ request' = Failed(v),
           row[v].vis # "deleted"
    PROVE  IInv'
<1>0. /\ RequestType'
      /\ \A r \in Handlers :
           /\ request'[r].at = request[r].at
           /\ Busy(r) => /\ request'[r].video = request[r].video
                         /\ request'[r].meta = request[r].meta
                         /\ request'[r].left = request[r].left
                         /\ request'[r].shown => request[r].shown
                         /\ request[r].video = v /\ request'[r].shown /\ HasMapping(v)
                            => vis = "deleted" \/ ready
  <2>1. CASE UNCHANGED request /\ (HasMapping(v) => vis = "deleted" \/ ready)
    BY <2>1 DEF IInv, Typed, RequestType
  <2>2. CASE request' = Failed(v)
    BY <2>2, FailedStep DEF IInv, Typed
  <2>3. QED
    BY <2>1, <2>2
<1>1. Typed'
  BY <1>0 DEF IInv, Typed, SetRow, MetadataType, EntriesType, cache
<1>2. /\ row' = [row EXCEPT ![v] = [vis |-> vis, ready |-> ready]]
      /\ UNCHANGED entries
  BY DEF SetRow, cache
<1>3. \A u \in Videos :
        \/ age'[u] = 0
        \/ age'[u] = age[u] /\ (row'[u].vis = "private") = (row[u].vis = "private")
  <2>1. TAKE u \in Videos
  <2>2. row \in [Videos -> [vis : Visibility \cup {"none", "deleted"}, ready : BOOLEAN]]
        /\ age \in [Videos -> 0..(Window + 1)]
    BY DEF IInv, Typed, MetadataType
  <2>3. CASE u # v
    BY <2>2, <2>3, <1>2 DEF SetRow, Outdated
  <2>4. CASE u = v
    <3>1. row'[u].vis = vis
      BY <2>2, <2>4, <1>2
    <3>2. CASE (vis = "private") = (row[v].vis = "private")
      BY <2>4, <3>1, <3>2 DEF SetRow, Outdated
    <3>3. CASE (vis = "private") # (row[v].vis = "private")
      BY <2>2, <2>4, <3>3 DEF SetRow
    <3>4. QED
      BY <3>2, <3>3
  <2>5. QED
    BY <2>3, <2>4
<1>4. ReadInTime'
  <2>1. SUFFICES ASSUME NEW r \in Handlers, request[r].at = "read"
                 PROVE  /\ request[r].meta # "unknown"
                        /\ (request[r].meta = "private")
                             # (row'[request[r].video].vis = "private")
                           => age'[request[r].video] <= Timeout - request[r].left
    BY <1>0 DEF ReadInTime, At, Outdated, Busy
  <2>2. request[r] \in Asking
    BY <2>1, BusyType DEF IInv, Typed, Busy
  <2>3. request[r].video \in Videos /\ request[r].meta \in Verdict
        /\ request[r].left \in 0..Timeout
    BY <2>2 DEF Asking
  <2>4. /\ request[r].meta # "unknown"
        /\ Outdated(request[r].meta, request[r].video)
           => age[request[r].video] <= Timeout - request[r].left
    BY <2>1 DEF IInv, ReadInTime, At
  <2>5. CASE age'[request[r].video] = 0
    BY <2>3, <2>4, <2>5
  <2>6. CASE age'[request[r].video] # 0
    <3>1. /\ age'[request[r].video] = age[request[r].video]
          /\ (row'[request[r].video].vis = "private")
               = (row[request[r].video].vis = "private")
      BY <1>3, <2>3, <2>6
    <3>2. QED
      BY <2>3, <2>4, <3>1 DEF Outdated
  <2>7. QED
    BY <2>5, <2>6
<1>5. EntriesInTime'
  <2>1. SUFFICES ASSUME NEW u \in Videos, Live(u)
                 PROVE  /\ entries[u].vis # "unknown"
                        /\ Outdated(entries[u].vis, u)'
                           => age'[u] <= Timeout + TTL - entries[u].left
    BY <1>2 DEF EntriesInTime, Live, Outdated
  <2>2. entries[u].vis \in Verdict /\ entries[u].left \in 0..TTL
    BY <2>1 DEF IInv, Typed, EntriesType, Live
  <2>3. /\ entries[u].vis # "unknown"
        /\ Outdated(entries[u].vis, u) => age[u] <= Timeout + TTL - entries[u].left
    BY <2>1 DEF IInv, EntriesInTime
  <2>4. CASE age'[u] = 0
    BY <2>2, <2>3, <2>4
  <2>5. CASE age'[u] # 0
    BY <1>2, <1>3, <2>2, <2>3, <2>5 DEF Outdated
  <2>6. QED
    BY <2>4, <2>5
<1>6. ShownStaysReady'
  <2>1. SUFFICES ASSUME NEW r \in Handlers, Busy(r), request'[r].shown
                 PROVE  \/ row'[request[r].video].vis = "deleted"
                        \/ /\ row'[request[r].video].vis \in Visibility
                           /\ row'[request[r].video].ready
    BY <1>0 DEF ShownStaysReady, Busy, HasMapping, Exists
  <2>2. request[r].video \in Videos /\ request[r].shown
    BY <1>0, <2>1, BusyType DEF IInv, Typed, Asking
  <2>3. row'[v] = [vis |-> vis, ready |-> ready]
    BY <1>2 DEF IInv, Typed, MetadataType
  <2>4. \A u \in Videos \ {v} : row'[u] = row[u]
    BY <1>2 DEF IInv, Typed, MetadataType
  <2>5. row[request[r].video].vis = "deleted" \/ HasMapping(request[r].video)
    BY <2>1, <2>2 DEF IInv, ShownStaysReady
  <2>6. CASE request[r].video # v
    BY <2>2, <2>4, <2>5, <2>6 DEF HasMapping, Exists
  <2>7. CASE request[r].video = v
    <3>1. HasMapping(v)
      BY <2>5, <2>7
    <3>2. vis = "deleted" \/ (vis \in Visibility /\ ready)
      BY <1>0, <2>1, <2>7, <3>1
    <3>3. QED
      BY <2>3, <2>7, <3>2
  <2>8. QED
    BY <2>6, <2>7
<1>7. QED
  BY <1>1, <1>4, <1>5, <1>6 DEF IInv

\* A handler that moves on by itself keeps the invariant on requests, if what it has
\* read is in time and what it asked for is ready if it was shown.
LEMMA RequestStep ==
    ASSUME IInv, NEW r \in Handlers, NEW req \in Asking \cup [at : Answers],
           request' = [request EXCEPT ![r] = req], UNCHANGED <<row, age>>,
           req.at = "read" =>
               /\ req.meta # "unknown"
               /\ Outdated(req.meta, req.video) => age[req.video] <= Timeout - req.left,
           req \in Asking /\ req.shown =>
               row[req.video].vis = "deleted" \/ HasMapping(req.video)
    PROVE  RequestType' /\ ReadInTime' /\ ShownStaysReady'
<1>1. request' \in [Handlers -> Asking \cup [at : Answers]]
  BY DEF IInv, Typed, RequestType
<1>2. request'[r] = req /\ \A q \in Handlers \ {r} : request'[q] = request[q]
  BY DEF IInv, Typed, RequestType
<1>3. ReadInTime'
  <2>1. SUFFICES ASSUME NEW q \in Handlers, request'[q].at = "read"
                 PROVE  /\ request'[q].meta # "unknown"
                        /\ Outdated(request[q].meta, request[q].video)'
                           => age'[request'[q].video] <= Timeout - request'[q].left
    BY DEF ReadInTime, At
  <2>2. CASE q = r
    BY <1>2, <2>1, <2>2 DEF Outdated
  <2>3. CASE q # r
    BY <1>2, <2>1, <2>3 DEF IInv, ReadInTime, At, Outdated
  <2>4. QED
    BY <2>2, <2>3
<1>4. ShownStaysReady'
  <2>1. SUFFICES ASSUME NEW q \in Handlers, Busy(q)', request'[q].shown
                 PROVE  \/ row'[request'[q].video].vis = "deleted"
                        \/ HasMapping(request[q].video)'
    BY DEF ShownStaysReady
  <2>2. CASE q = r
    <3>1. req \in Asking
      BY <1>2, <2>1, <2>2 DEF Busy, Answers
    <3>2. QED
      BY <1>2, <2>1, <2>2, <3>1 DEF HasMapping, Exists
  <2>3. CASE q # r
    BY <1>2, <2>1, <2>3 DEF IInv, ShownStaysReady, Busy, HasMapping, Exists
  <2>4. QED
    BY <2>2, <2>3
<1>5. QED
  BY <1>1, <1>3, <1>4 DEF RequestType

\* An answer ends what is known of a request.
LEMMA AnswerStep ==
    ASSUME IInv, NEW r \in Handlers, NEW a \in Answers, Answer(r, a), UNCHANGED <<row, age>>
    PROVE  RequestType' /\ ReadInTime' /\ ShownStaysReady'
<1> DEFINE req == [at |-> a]
<1>1. /\ req \in [at : Answers] /\ req.at # "read"
      /\ req \notin Asking
  BY DEF Answers, Asking
<1>2. request' = [request EXCEPT ![r] = req]
  BY DEF Answer
<1> HIDE DEF req
<1>3. QED
  BY <1>1, <1>2, RequestStep

\* Whatever HLSAuth decides about a busy request, and upon whatever verdict.
LEMMA DecideStep ==
    ASSUME IInv, NEW r \in Handlers, Busy(r), NEW meta, Decide(r, meta),
           UNCHANGED <<row, age>>
    PROVE  RequestType' /\ ReadInTime' /\ ShownStaysReady'
<1>1. request[r] \in Asking
  BY BusyType DEF IInv, Typed
<1>2. CASE Open(meta) \/ request[r].cred # "none"
  <2> DEFINE req == [request[r] EXCEPT !.at = "vod", !.cred = "none",
                                       !.meta = "unknown", !.left = 0]
  <2>1. req \in Asking /\ req.at = "vod" /\ req.video = request[r].video
        /\ req.shown = request[r].shown
    <3>1. req \in Asking
      <4>1. "none" \in Creds /\ "unknown" \in Verdict /\ 0 \in 0..Timeout
        BY DEF Creds, Verdict
      <4>2. QED
        BY <1>1, <4>1 DEF Asking
    <3>2. req.at = "vod" /\ req.video = request[r].video /\ req.shown = request[r].shown
      BY <1>1 DEF Asking
    <3>3. QED
      BY <3>1, <3>2
  <2>2. request' = [request EXCEPT ![r] = req]
    BY <1>2 DEF Decide, IInv, Typed, RequestType
  <2>3. request[r].shown => \/ row[request[r].video].vis = "deleted"
                            \/ HasMapping(request[r].video)
    BY DEF IInv, ShownStaysReady
  <2> HIDE DEF req
  <2>4. QED
    BY <2>1, <2>2, <2>3, RequestStep
<1>3. CASE ~(Open(meta) \/ request[r].cred # "none")
  BY <1>3, AnswerStep DEF Decide, Answers
<1>4. QED
  BY <1>2, <1>3

\* The cache may lose entries.
LEMMA EntriesStep ==
    ASSUME IInv, UNCHANGED <<row, age>>,
           entries' \in [Videos -> [vis : Verdict, left : -1..TTL]],
           \A v \in Videos :
               \/ entries'[v] = entries[v] \/ entries'[v] = NoEntry
               \/ /\ entries'[v].vis # "unknown"
                  /\ Outdated(entries'[v].vis, v)
                     => age[v] <= Timeout + TTL - entries'[v].left
    PROVE  EntriesType' /\ EntriesInTime'
<1>1. SUFFICES ASSUME NEW v \in Videos, entries'[v].left >= 0
               PROVE  /\ entries'[v].vis # "unknown"
                      /\ Outdated(entries[v].vis, v)'
                         => age'[v] <= Timeout + TTL - entries'[v].left
  BY DEF EntriesType, EntriesInTime, Live
<1>2. entries'[v] # NoEntry
  BY <1>1 DEF NoEntry
<1>3. QED
  BY <1>1, <1>2 DEF IInv, EntriesInTime, Live, Outdated

\* What Store puts into the cache is in time: no entry lives longer than TTL
\* (metaCache.put).
LEMMA PutStep ==
    ASSUME IInv, UNCHANGED <<row, age>>, NEW r \in Handlers, At(r, "read"),
           Put(request[r].video, request[r].meta)
    PROVE  EntriesType' /\ EntriesInTime'
<1> DEFINE v == request[r].video
           vis == request[r].meta
<1>1. v \in Videos /\ vis \in Verdict /\ request[r].left \in 0..Timeout
  BY BusyType DEF IInv, Typed, Busy, At, Asking
<1>2. LifeTime(vis) \in 0..TTL
  BY DEF LifeTime
<1>3. /\ DOMAIN entries' = Videos
      /\ entries' = [u \in Videos |-> entries'[u]]
      /\ entries'[v] = [vis |-> vis, left |-> LifeTime(vis)] \/ entries'[v] = NoEntry
      /\ \A u \in Videos \ {v} : entries'[u] = entries[u] \/ entries'[u] = NoEntry
  BY <1>1 DEF Put, Stored, IInv, Typed, EntriesType
<1>4. [vis |-> vis, left |-> LifeTime(vis)] \in [vis : Verdict, left : -1..TTL]
  BY <1>1, <1>2
<1>5. NoEntry \in [vis : Verdict, left : -1..TTL]
  BY DEF NoEntry, Verdict
<1>6. \A u \in Videos : entries'[u] \in [vis : Verdict, left : -1..TTL]
  BY <1>3, <1>4, <1>5 DEF IInv, Typed, EntriesType
<1>7. /\ vis # "unknown"
      /\ Outdated(vis, v) => age[v] <= Timeout - request[r].left
  BY DEF IInv, ReadInTime
<1>8. Outdated(vis, v) => age[v] <= Timeout + TTL - LifeTime(vis)
  BY <1>1, <1>2, <1>7 DEF IInv, Typed, MetadataType
<1> HIDE DEF vis
<1>9. entries' \in [Videos -> [vis : Verdict, left : -1..TTL]]
  BY <1>3, <1>6
<1>10. \A u \in Videos :
         \/ entries'[u] = entries[u] \/ entries'[u] = NoEntry
         \/ /\ entries'[u].vis # "unknown"
            /\ Outdated(entries'[u].vis, u)
               => age[u] <= Timeout + TTL - entries'[u].left
  <2>1. TAKE u \in Videos
  <2>2. CASE u = v
    BY <1>3, <1>7, <1>8, <2>2 DEF Outdated
  <2>3. CASE u # v
    BY <1>3, <2>3
  <2>4. QED
    BY <2>2, <2>3
<1>11. QED
  BY <1>9, <1>10, EntriesStep

\* Time passes for what was read, for what is cached and for the row alike.
LEMMA TickStep == IInv /\ Tick => IInv'
<1> SUFFICES ASSUME IInv, Tick PROVE IInv'
  OBVIOUS
<1>1. \A v \in Videos : /\ age[v] \in 0..(Window + 1)
                       /\ age'[v] \in 0..(Window + 1)
                       /\ age'[v] <= age[v] + 1
  BY DEF IInv, Typed, MetadataType, Tick
<1>2. \A v \in Videos :
        /\ entries[v] \in [vis : Verdict, left : -1..TTL]
        /\ Live(v) => entries'[v] = [entries[v] EXCEPT !.left = @ - 1]
        /\ ~Live(v) => entries'[v] = entries[v]
  BY DEF IInv, Typed, EntriesType, Tick
<1>3. \A r \in Handlers :
        /\ InFetch(r) => /\ request[r] \in Asking /\ request[r].left > 0
                         /\ request'[r] = [request[r] EXCEPT !.left = @ - 1]
        /\ ~InFetch(r) => request'[r] = request[r]
  BY BusyType DEF IInv, Typed, Tick, InFetch, Busy
<1>4. MetadataType'
  BY <1>1 DEF IInv, Typed, MetadataType, Tick
<1>5. EntriesType'
  <2>1. ASSUME NEW v \in Videos PROVE entries'[v] \in [vis : Verdict, left : -1..TTL]
    <3>1. CASE Live(v)
      <4>1. entries[v].left \in -1..TTL /\ entries[v].left >= 0
        BY <1>2, <3>1 DEF Live
      <4>2. entries[v].left - 1 \in -1..TTL
        BY <4>1
      <4>3. QED
        BY <1>2, <3>1, <4>2
    <3>2. CASE ~Live(v)
      BY <1>2, <3>2
    <3>3. QED
      BY <3>1, <3>2
  <2>2. QED
    BY <2>1 DEF EntriesType, Tick
<1>6. \A r \in Handlers : InFetch(r) =>
        /\ request'[r] \in Asking
        /\ request'[r].at = request[r].at /\ request'[r].video = request[r].video
        /\ request'[r].meta = request[r].meta /\ request'[r].shown = request[r].shown
        /\ request'[r].left = request[r].left - 1
  <2>1. TAKE r \in Handlers
  <2>2. HAVE InFetch(r)
  <2>3. request[r] \in Asking /\ request[r].left > 0
        /\ request'[r] = [request[r] EXCEPT !.left = @ - 1]
    BY <1>3, <2>2
  <2>4. request[r].left - 1 \in 0..Timeout
    BY <2>3 DEF Asking
  <2>5. QED
    BY <2>3, <2>4 DEF Asking
<1>7. RequestType'
  BY <1>3, <1>6 DEF IInv, Typed, RequestType, Tick
<1>8. ReadInTime'
  <2>1. SUFFICES ASSUME NEW r \in Handlers, request'[r].at = "read"
                 PROVE  /\ request'[r].meta # "unknown"
                        /\ Outdated(request[r].meta, request[r].video)'
                           => age'[request'[r].video] <= Timeout - request'[r].left
    BY DEF ReadInTime, At
  <2>2. InFetch(r)
    BY <1>3, <2>1 DEF InFetch
  <2>3. request[r].at = "read" /\ request[r].video \in Videos
        /\ request[r].left \in 0..Timeout
    BY <1>3, <1>6, <2>1, <2>2 DEF Asking
  <2>4. /\ request[r].meta # "unknown"
        /\ Outdated(request[r].meta, request[r].video)
           => age[request[r].video] <= Timeout - request[r].left
    BY <2>3 DEF IInv, ReadInTime, At
  <2>5. QED
    BY <1>1, <1>6, <2>2, <2>3, <2>4 DEF Tick, Outdated
<1>9. EntriesInTime'
  <2>1. SUFFICES ASSUME NEW v \in Videos, entries'[v].left >= 0
                 PROVE  /\ entries'[v].vis # "unknown"
                        /\ Outdated(entries[v].vis, v)'
                           => age'[v] <= Timeout + TTL - entries'[v].left
    BY DEF EntriesInTime, Live
  <2>2. Live(v)
    BY <1>2, <2>1 DEF Live
  <2>3. entries'[v].vis = entries[v].vis /\ entries'[v].left = entries[v].left - 1
        /\ entries[v].left \in -1..TTL
    BY <1>2, <2>2
  <2>4. /\ entries[v].vis # "unknown"
        /\ Outdated(entries[v].vis, v) => age[v] <= Timeout + TTL - entries[v].left
    BY <2>2 DEF IInv, EntriesInTime
  <2>5. QED
    BY <1>1, <2>3, <2>4 DEF Tick, Outdated
<1>10. ShownStaysReady'
  <2>1. SUFFICES ASSUME NEW r \in Handlers, Busy(r)', request'[r].shown
                 PROVE  \/ row'[request'[r].video].vis = "deleted"
                        \/ HasMapping(request[r].video)'
    BY DEF ShownStaysReady
  <2>2. Busy(r) /\ request[r].shown /\ request'[r].video = request[r].video
    BY <1>3, <1>6, <2>1 DEF Busy, InFetch
  <2>3. QED
    BY <2>2 DEF IInv, ShownStaysReady, Tick, HasMapping, Exists
<1>11. faults' \in 0..MaxFaults
  BY DEF IInv, Typed, Tick
<1>12. QED
  BY <1>4, <1>5, <1>7, <1>8, <1>9, <1>10, <1>11 DEF IInv, Typed

LEMMA InitInv == Init => IInv
<1> SUFFICES ASSUME Init PROVE IInv
  OBVIOUS
<1>1. MetadataType
  <2>1. /\ age = [v \in Videos |-> Window + 1] /\ Window + 1 \in 0..(Window + 1)
        /\ edits = MaxEdits
    BY DEF Init
  <2>2. row \in [Videos -> [vis : Visibility, ready : {TRUE}]
                          \cup [vis : {"none"}, ready : {FALSE}]]
    BY DEF Init
  <2>3. \A x \in [vis : Visibility, ready : {TRUE}] \cup [vis : {"none"}, ready : {FALSE}] :
          x \in [vis : Visibility \cup {"none", "deleted"}, ready : BOOLEAN]
    OBVIOUS
  <2>4. row \in [Videos -> [vis : Visibility \cup {"none", "deleted"}, ready : BOOLEAN]]
    BY <2>2, <2>3
  <2>5. QED
    BY <2>1, <2>4 DEF MetadataType
<1>2. EntriesType
  BY DEF Init, EntriesType, NoEntry, Verdict
<1>3. \A r \in Handlers : request[r] = [at |-> "done"]
  BY DEF Init
<1>4. RequestType
  BY DEF Init, RequestType, Answers
<1>5. QED
  BY <1>1, <1>2, <1>3, <1>4
      DEF Init, IInv, Typed, ReadInTime, EntriesInTime, ShownStaysReady, Busy, At, Live,
       NoEntry

\* The steps of a handler.
LEMMA HandlerStep ==
    ASSUME IInv, NEW r \in Handlers,
           Ask(r) \/ Lookup(r) \/ Read(r) \/ Store(r) \/ FetchFails(r) \/ Vod(r)
    PROVE  IInv'
<1>1. UNCHANGED <<row, age, edits>>
  BY DEF Ask, Lookup, Read, Store, FetchFails, Vod, metadata
<1>2. MetadataType'
  BY <1>1 DEF IInv, Typed, MetadataType
<1>3. faults' \in 0..MaxFaults
  BY DEF IInv, Typed, Ask, Lookup, Read, Store, FetchFails, Vod
<1>4. ASSUME UNCHANGED entries
      PROVE  EntriesType' /\ EntriesInTime'
  BY <1>1, <1>4 DEF IInv, Typed, EntriesType, EntriesInTime, Live, Outdated
<1>5. CASE Ask(r)
  <2>1. PICK v \in Videos, cred \in Creds :
          request' = [request EXCEPT ![r] =
              [at |-> "lookup", video |-> v, cred |-> cred, meta |-> "unknown", left |-> 0,
               shown |-> Shown(cred = "owner", v) /\ row[v].ready]]
    BY <1>5 DEF Ask
  <2> DEFINE shown == Shown(cred = "owner", v) /\ row[v].ready
             req == [at |-> "lookup", video |-> v, cred |-> cred, meta |-> "unknown",
                     left |-> 0, shown |-> shown]
  <2>2. shown \in BOOLEAN /\ (shown => HasMapping(v))
    BY DEF Shown, HasMapping
  <2>3. req.at # "read" /\ req.video = v /\ req.shown = shown
    OBVIOUS
  <2>4. request' = [request EXCEPT ![r] = req]
    BY <2>1
  <2> HIDE DEF shown
  <2>5. req \in Asking
    BY <2>2 DEF Asking, Verdict
  <2> HIDE DEF req
  <2>6. RequestType' /\ ReadInTime' /\ ShownStaysReady'
    BY <1>1, <2>2, <2>3, <2>4, <2>5, RequestStep
  <2>7. QED
    BY <1>2, <1>3, <1>4, <1>5, <2>6 DEF IInv, Typed, Ask, cache
<1>6. CASE Lookup(r)
  <2>1. Busy(r) /\ request[r] \in Asking /\ request[r].video \in Videos
    BY <1>6, BusyType DEF IInv, Typed, Lookup, Busy, At, Asking
  <2>2. EntriesType' /\ EntriesInTime'
    <3>1. CASE UNCHANGED entries
      BY <1>4, <3>1
    <3>2. CASE Expire(request[r].video)
      <4>1. NoEntry \in [vis : Verdict, left : -1..TTL]
        BY DEF NoEntry, Verdict
      <4>2. /\ entries' \in [Videos -> [vis : Verdict, left : -1..TTL]]
            /\ \A v \in Videos : entries'[v] = entries[v] \/ entries'[v] = NoEntry
        BY <2>1, <3>2, <4>1 DEF Expire, IInv, Typed, EntriesType
      <4>3. QED
        BY <1>1, <4>2, EntriesStep
    <3>3. QED
      BY <1>6, <3>1, <3>2 DEF Lookup, Get, cache
  <2>3. RequestType' /\ ReadInTime' /\ ShownStaysReady'
    <3>1. CASE Decide(r, entries[request[r].video].vis)
      BY <1>1, <2>1, <3>1, DecideStep
    <3>2. CASE request' = [request EXCEPT ![r] = Fetching(@)]
      <4> DEFINE req == Fetching(request[r])
      <4>1. req \in Asking /\ req.at = "fetch" /\ req.video = request[r].video
            /\ req.shown = request[r].shown
        <5>1. Timeout \in 0..Timeout
          OBVIOUS
        <5>2. QED
          BY <2>1, <5>1 DEF Fetching, Asking
      <4>2. request' = [request EXCEPT ![r] = req]
        BY <3>2
      <4>3. request[r].shown => \/ row[request[r].video].vis = "deleted"
                                \/ HasMapping(request[r].video)
        BY <2>1 DEF IInv, ShownStaysReady
      <4> HIDE DEF req
      <4>4. QED
        BY <1>1, <4>1, <4>2, <4>3, RequestStep
    <3>3. QED
      BY <1>6, <3>1, <3>2 DEF Lookup
  <2>4. QED
    BY <1>2, <1>3, <2>2, <2>3 DEF IInv, Typed
<1>7. CASE Read(r)
  <2>1. Busy(r) /\ request[r] \in Asking /\ request[r].video \in Videos
        /\ request[r].left \in 0..Timeout
    BY <1>7, BusyType DEF IInv, Typed, Read, Busy, At, Asking
  <2> DEFINE v == request[r].video
             req == [request[r] EXCEPT !.at = "read", !.meta = Fetched(v)]
  <2>2. Fetched(v) \in Verdict /\ Fetched(v) # "unknown" /\ ~Outdated(Fetched(v), v)
    BY <2>1 DEF Fetched, Exists, Verdict, Visibility, Outdated, IInv, Typed, MetadataType
  <2>3. request' = [request EXCEPT ![r] = req]
    BY <1>7 DEF Read, IInv, Typed, RequestType
  <2>4. req \in Asking /\ req.at = "read" /\ req.video = v /\ req.meta = Fetched(v)
        /\ req.shown = request[r].shown
    BY <2>1, <2>2 DEF Asking
  <2>5. request[r].shown => row[v].vis = "deleted" \/ HasMapping(v)
    BY <2>1 DEF IInv, ShownStaysReady
  <2> HIDE DEF v, req
  <2>6. RequestType' /\ ReadInTime' /\ ShownStaysReady'
    BY <1>1, <2>2, <2>3, <2>4, <2>5, RequestStep
  <2>7. QED
    BY <1>2, <1>3, <1>4, <1>7, <2>6 DEF IInv, Typed, Read, cache
<1>8. CASE Store(r)
  <2>1. EntriesType' /\ EntriesInTime'
    BY <1>1, <1>8, PutStep DEF Store
  <2>2. RequestType' /\ ReadInTime' /\ ShownStaysReady'
    BY <1>1, <1>8, DecideStep DEF Store, Busy, At
  <2>3. QED
    BY <1>2, <1>3, <2>1, <2>2 DEF IInv, Typed
<1>9. CASE FetchFails(r) \/ Vod(r)
  <2>1. RequestType' /\ ReadInTime' /\ ShownStaysReady'
    BY <1>1, <1>9, AnswerStep DEF FetchFails, Vod, Answers
  <2>2. QED
    BY <1>2, <1>3, <1>4, <1>9, <2>1 DEF IInv, Typed, FetchFails, Vod, cache
<1>10. QED
  BY <1>5, <1>6, <1>7, <1>8, <1>9

\* Every step keeps the invariant.
LEMMA StepInv == IInv /\ [Next]_vars => IInv'
<1> SUFFICES ASSUME IInv, [Next]_vars PROVE IInv'
  OBVIOUS
<1>1. ASSUME NEW v \in Videos, Create(v) PROVE IInv'
  <2>1. UNCHANGED request /\ \E vis \in Visibility : SetRow(v, vis, FALSE)
    BY <1>1 DEF Create
  <2>2. row[v].vis = "none" /\ ~HasMapping(v)
    BY <1>1 DEF Create, HasMapping, Exists, Visibility
  <2>3. QED
    BY <2>1, <2>2, SetRowInv
<1>2. ASSUME NEW v \in Videos, Update(v) PROVE IInv'
  <2>1. UNCHANGED request /\ \E vis \in Visibility : SetRow(v, vis, row[v].ready)
    BY <1>2 DEF Update
  <2>2. row[v].vis # "deleted" /\ row[v].ready \in BOOLEAN
    BY <1>2 DEF Update, Exists, Visibility, IInv, Typed, MetadataType
  <2>3. HasMapping(v) => row[v].ready
    BY DEF HasMapping
  <2>4. QED
    BY <2>1, <2>2, <2>3, SetRowInv
<1>3. ASSUME NEW v \in Videos, Delete(v) PROVE IInv'
  <2>1. row[v].vis # "deleted" /\ SetRow(v, "deleted", FALSE) /\ UNCHANGED request
    BY <1>3 DEF Delete, Exists, Visibility
  <2>2. QED
    BY <2>1, SetRowInv
<1>4. ASSUME NEW v \in Videos, UpdateStatus(v) PROVE IInv'
  <2>1. row[v].vis \in Visibility /\ row[v].vis # "deleted"
    BY <1>4 DEF UpdateStatus, Exists, Visibility
  <2>2. PICK status \in {"processing", "ready", "failed"} :
          /\ ~Kept(v, status)
          /\ SetRow(v, row[v].vis, status = "ready")
          /\ request' = IF status = "failed" THEN Failed(v) ELSE request
    BY <1>4 DEF UpdateStatus
  <2>3. CASE status = "failed"
    BY <2>1, <2>2, <2>3, SetRowInv
  <2>4. CASE status # "failed"
    <3>1. UNCHANGED request
      BY <2>2, <2>4
    <3>2. HasMapping(v) => status = "ready"
      BY <2>2, <2>4 DEF Kept, HasMapping
    <3>3. QED
      BY <2>1, <2>2, <3>1, <3>2, SetRowInv
  <2>5. QED
    BY <2>3, <2>4
<1>5. ASSUME NEW r \in Handlers,
             Ask(r) \/ Lookup(r) \/ Read(r) \/ Store(r) \/ FetchFails(r) \/ Vod(r)
      PROVE  IInv'
  BY <1>5, HandlerStep
<1>6. CASE Tick
  BY <1>6, TickStep
<1>7. CASE Restart
  <2>1. Typed'
    BY <1>7
        DEF Restart, IInv, Typed, MetadataType, EntriesType, RequestType, metadata, NoEntry,
         Verdict, Answers
  <2>2. \A v \in Videos : ~Live(v)'
    BY <1>7 DEF Restart, Live, NoEntry
  <2>3. \A r \in Handlers : ~At(r, "read")' /\ ~Busy(r)'
    BY <1>7 DEF Restart, At, Busy
  <2>4. QED
    BY <2>1, <2>2, <2>3 DEF IInv, ReadInTime, EntriesInTime, ShownStaysReady
<1>8. CASE UNCHANGED vars
  BY <1>8
      DEF vars, metadata, cache, IInv, Typed, MetadataType, EntriesType, RequestType,
       ReadInTime, EntriesInTime, ShownStaysReady, At, Busy, Live, Outdated, HasMapping,
       Exists
<1>9. QED
  BY <1>1, <1>2, <1>3, <1>4, <1>5, <1>6, <1>7, <1>8 DEF Next

\* The metadata service answers no request, and moves none on.
LEMMA MetadataStep ==
    ASSUME IInv, NEW v \in Videos, Create(v) \/ Update(v) \/ Delete(v) \/ UpdateStatus(v)
    PROVE  \A r \in Handlers : request'[r].at = request[r].at
<1>1. UNCHANGED request \/ request' = Failed(v)
  BY DEF Create, Update, Delete, UpdateStatus
<1>2. QED
  BY <1>1, FailedStep DEF IInv, Typed

-----------------------------------------------------------------------------
(* Theorems *)

\* The invariant holds in every reachable state.
LEMMA Invariance == Spec => []IInv
<1>1. QED
  BY InitInv, StepInv, PTL DEF Spec

\* What a busy request is decided upon, and how its record tells the decision.
LEMMA Decision ==
    ASSUME IInv, [Next]_vars, NEW r \in Handlers, NEW a \in {"vod", "403"}, Decides(r, a)
    PROVE  /\ request[r].video \in Videos /\ request[r].cred \in Creds
           /\ \E meta \in Verdict :
                /\ meta # "unknown"
                /\ Outdated(meta, request[r].video) => Recently(request[r].video)
                /\ (a = "vod") <=> (Open(meta) \/ Owner(r))
<1>1. Busy(r) /\ request[r] \in Asking
  BY BusyType DEF Decides, IInv, Typed, Busy
<1>2. request[r].video \in Videos /\ request[r].cred \in Creds
      /\ request[r].left \in 0..Timeout
  BY <1>1 DEF Asking
<1>3. Lookup(r) \/ Store(r)
  <2>1. request'[r].at # request[r].at /\ request'[r].at # "done"
        /\ request'[r].at \notin {"fetch", "read", "lookup"}
    BY DEF Decides
  <2>2. PICK q \in Handlers :
          Ask(q) \/ Lookup(q) \/ Read(q) \/ Store(q) \/ FetchFails(q) \/ Vod(q)
    <3>1. request' # request
      BY <2>1
    <3>2. ~UNCHANGED vars
      BY <3>1 DEF vars
    <3>3. ~Restart
      BY <2>1 DEF Restart
    <3>4. ~Tick
      BY <1>1, <2>1 DEF Tick, Asking
    <3>5. \A v \in Videos : ~(Create(v) \/ Update(v) \/ Delete(v) \/ UpdateStatus(v))
      BY <2>1, MetadataStep
    <3>6. QED
      BY <3>2, <3>3, <3>4, <3>5 DEF Next
  <2>3. q = r
    <3>1. request \in [Handlers -> Asking \cup [at : Answers]]
      BY DEF IInv, Typed, RequestType
    <3>2. ASSUME q # r PROVE request'[r] = request[r]
      BY <2>2, <3>1, <3>2 DEF Ask, Lookup, Read, Store, FetchFails, Vod, Decide, Answer
    <3>3. QED
      BY <2>1, <3>2
  <2>4. ~Ask(r) /\ ~Read(r) /\ ~FetchFails(r) /\ ~Vod(r)
    <3>1. ~Ask(r) /\ ~Vod(r)
      BY DEF Decides, Ask, Vod, At, Answers
    <3>2. ~Read(r)
      BY DEF Decides, Read, At
    <3>3. ~FetchFails(r)
      BY <2>1 DEF FetchFails, Answer, IInv, Typed, RequestType
    <3>4. QED
      BY <3>1, <3>2, <3>3
  <2>5. QED
    BY <2>2, <2>3, <2>4
<1>4. ASSUME NEW meta \in Verdict, Decide(r, meta)
      PROVE  (a = "vod") <=> (Open(meta) \/ Owner(r))
  <2>1. request \in [Handlers -> Asking \cup [at : Answers]]
    BY DEF IInv, Typed, RequestType
  <2>2. CASE Open(meta) \/ Owner(r)
    BY <1>1, <1>4, <2>1, <2>2 DEF Decide, Decides, Owner, Asking
  <2>3. CASE ~(Open(meta) \/ Owner(r))
    BY <1>4, <2>1, <2>3 DEF Decide, Decides, Owner, Answer
  <2>4. QED
    BY <2>2, <2>3
<1>5. CASE Lookup(r)
  <2> DEFINE v == request[r].video
  <2>1. Live(v) /\ Decide(r, entries[v].vis)
    <3>1. request' # [request EXCEPT ![r] = Fetching(@)]
      BY <1>1 DEF Decides, Fetching, IInv, Typed, RequestType, Asking
    <3>2. QED
      BY <1>5, <3>1 DEF Lookup
  <2>2. entries[v].vis \in Verdict /\ entries[v].left \in 0..TTL
    BY <1>2, <2>1 DEF IInv, Typed, EntriesType, Live
  <2>3. /\ entries[v].vis # "unknown"
        /\ Outdated(entries[v].vis, v) => age[v] <= Timeout + TTL - entries[v].left
    BY <1>2, <2>1 DEF IInv, EntriesInTime
  <2>4. Outdated(entries[v].vis, v) => Recently(v)
    BY <1>2, <2>2, <2>3 DEF Recently, IInv, Typed, MetadataType
  <2>5. QED
    BY <1>2, <1>4, <2>1, <2>2, <2>3, <2>4
<1>6. CASE Store(r)
  <2> DEFINE v == request[r].video
  <2>1. At(r, "read") /\ Decide(r, request[r].meta) /\ request[r].meta \in Verdict
    BY <1>1, <1>6 DEF Store, Asking
  <2>2. /\ request[r].meta # "unknown"
        /\ Outdated(request[r].meta, v) => age[v] <= Timeout - request[r].left
    BY <2>1 DEF IInv, ReadInTime
  <2>3. Outdated(request[r].meta, v) => Recently(v)
    BY <1>2, <2>2 DEF Recently, IInv, Typed, MetadataType
  <2>4. QED
    BY <1>2, <1>4, <2>1, <2>2, <2>3
<1>7. QED
  BY <1>3, <1>5, <1>6

\* For any number of videos, handlers and cached entries: whoever is let through to
\* a video would be shown it by the metadata service, or its visibility changed within
\* the window (hlsauth.go:243-259).
THEOREM AdmittedOnlyInWindow == Spec => AdmittedInWindow
<1>1. ASSUME IInv, [Next]_vars, NEW r \in Handlers, Decides(r, "vod"),
             Exists(request[r].video)
      PROVE  Shown(Owner(r), request[r].video) \/ Recently(request[r].video)
  <2>1. PICK meta \in Verdict :
          /\ Outdated(meta, request[r].video) => Recently(request[r].video)
          /\ Open(meta) \/ Owner(r)
    BY <1>1, Decision
  <2>2. CASE Owner(r)
    BY <1>1, <2>2 DEF Shown
  <2>3. CASE Open(meta)
    BY <1>1, <2>1, <2>3 DEF Open, Outdated, Shown
  <2>4. QED
    BY <2>1, <2>2, <2>3
<1>2. IInv /\ [Next]_vars =>
        \A r \in Handlers :
          Decides(r, "vod") /\ Exists(request[r].video)
          => Shown(Owner(r), request[r].video) \/ Recently(request[r].video)
  BY <1>1
<1>3. QED
  BY <1>2, Invariance, PTL DEF Spec, AdmittedInWindow

\* Whoever is refused a video would not be shown it, or its visibility changed within
\* the window: for every lifetime of an entry and every timeout that the window
\* covers (hlsauth.go:281-312).
THEOREM RefusedOnlyForAReason == Spec => RefusedForAReason
<1>1. ASSUME IInv, [Next]_vars, NEW r \in Handlers, Decides(r, "403")
      PROVE  ~Shown(Owner(r), request[r].video) \/ Recently(request[r].video)
  <2>1. PICK meta \in Verdict :
          /\ meta # "unknown"
          /\ Outdated(meta, request[r].video) => Recently(request[r].video)
          /\ ~Open(meta) /\ ~Owner(r)
    BY <1>1, Decision
  <2>2. meta = "private"
    BY <2>1 DEF Verdict, Visibility, Open
  <2>3. QED
    BY <2>1, <2>2 DEF Outdated, Shown
<1>2. IInv /\ [Next]_vars =>
        \A r \in Handlers :
          Decides(r, "403")
          => ~Shown(Owner(r), request[r].video) \/ Recently(request[r].video)
  BY <1>1
<1>3. QED
  BY <1>2, Invariance, PTL DEF Spec, RefusedForAReason

\* A ready video that was shown keeps its mapping on the way to nginx-vod, unless it
\* is deleted, a late "failed" is written to it or the renditions query fails
\* (handler video.go:247, repository video.go:195).
THEOREM ShownAlwaysMapped == Spec => ShownHasMapping
<1>1. ASSUME IInv, [Next]_vars, NEW r \in Handlers, At(r, "vod"), request[r].shown,
             request'[r].at = "404"
      PROVE  row[request[r].video].vis = "deleted" \/ faults' < faults
  <2>1. row[request[r].video].vis = "deleted" \/ HasMapping(request[r].video)
    BY <1>1 DEF IInv, ShownStaysReady, Busy, At
  <2>2. request[r].at = "vod" /\ request'[r].at = "404" /\ request' # request
    BY <1>1 DEF At
  <2>3. PICK q \in Handlers :
          Ask(q) \/ Lookup(q) \/ Read(q) \/ Store(q) \/ FetchFails(q) \/ Vod(q)
    <3>1. ~UNCHANGED vars
      BY <2>2 DEF vars
    <3>2. ~Restart
      BY <2>2 DEF Restart
    <3>3. ~Tick
      BY <2>2 DEF Tick, InFetch
    <3>4. \A v \in Videos : ~(Create(v) \/ Update(v) \/ Delete(v) \/ UpdateStatus(v))
      BY <1>1, <2>2, MetadataStep
    <3>5. QED
      BY <1>1, <3>1, <3>2, <3>3, <3>4 DEF Next
  <2>4. q = r
    <3>1. request \in [Handlers -> Asking \cup [at : Answers]]
      BY <1>1 DEF IInv, Typed, RequestType
    <3>2. ASSUME q # r PROVE request'[r] = request[r]
      BY <2>3, <3>1, <3>2 DEF Ask, Lookup, Read, Store, FetchFails, Vod, Decide, Answer
    <3>3. QED
      BY <2>2, <3>2
  <2>5. Vod(r)
    BY <2>2, <2>3, <2>4 DEF Ask, Lookup, Read, Store, FetchFails, At, Answers
  <2>6. QED
    BY <1>1, <2>1, <2>2, <2>5 DEF Vod, Answer, IInv, Typed, RequestType
<1>2. IInv /\ [Next]_vars =>
        \A r \in Handlers :
          At(r, "vod") /\ request[r].shown /\ request'[r].at = "404"
          => row[request[r].video].vis = "deleted" \/ faults' < faults
  BY <1>1
<1>3. QED
  BY <1>2, Invariance, PTL DEF Spec, ShownHasMapping

-----------------------------------------------------------------------------
(* The map and the list of the cache *)

\* What the map holds.
Cached == {v \in Videos : Known(v)}

\* A list that holds some videos once each.
Distinct(l) == l \in Seq(Videos) /\ IsInjective(l)

ListInv == Distinct(lru) /\ ToSet(lru) = Cached /\ Len(lru) <= MaxEntries

CacheInv == IInv /\ ListInv

\* Such a list is as long as there are videos in it.
LEMMA DistinctLength ==
    ASSUME NEW l, Distinct(l)
    PROVE  Cardinality(ToSet(l)) = Len(l)
<1>1. Len(l) \in Nat /\ DOMAIN l = 1..Len(l) /\ l \in [1..Len(l) -> ToSet(l)]
  BY DEF Distinct, ToSet
<1>2. l \in Bijection(1..Len(l), ToSet(l))
  BY <1>1 DEF Distinct, IsInjective, Bijection, Injection, Surjection, ToSet
<1>3. ExistsBijection(1..Len(l), ToSet(l))
  BY <1>2 DEF ExistsBijection
<1>4. IsFiniteSet(1..Len(l)) /\ Cardinality(1..Len(l)) = Len(l)
  BY <1>1, FS_Interval
<1>5. QED
  BY <1>3, <1>4, FS_Bijection

\* Taking out one position closes the gap.
LEMMA Closed ==
    ASSUME NEW l \in Seq(Videos), NEW p \in 1..Len(l)
    PROVE  /\ RemoveAt(l, p) \in Seq(Videos) /\ Len(RemoveAt(l, p)) = Len(l) - 1
           /\ \A i \in 1..(Len(l) - 1) :
                RemoveAt(l, p)[i] = IF i < p THEN l[i] ELSE l[i + 1]
<1> DEFINE a == SubSeq(l, 1, p - 1)
           b == SubSeq(l, p + 1, Len(l))
<1>1. a \in Seq(Videos) /\ Len(a) = p - 1 /\ \A i \in 1..(p - 1) : a[i] = l[i]
  OBVIOUS
<1>2. b \in Seq(Videos) /\ Len(b) = Len(l) - p /\ \A i \in 1..(Len(l) - p) : b[i] = l[p + i]
  OBVIOUS
<1> HIDE DEF a, b
<1>3. a \o b \in Seq(Videos) /\ Len(a \o b) = Len(l) - 1
  <2>1. a \o b \in Seq(Videos) /\ Len(a \o b) = Len(a) + Len(b)
    <3>1. a \in Seq(Videos) /\ b \in Seq(Videos)
      BY <1>1, <1>2
    <3>2. QED
      BY ONLY <3>1
  <2>2. (p - 1) + (Len(l) - p) = Len(l) - 1
    OBVIOUS
  <2>3. QED
    BY <1>1, <1>2, <2>1, <2>2
<1>4. ASSUME NEW i \in 1..(Len(l) - 1)
      PROVE  (a \o b)[i] = IF i < p THEN l[i] ELSE l[i + 1]
  <2>1. CASE i < p
    BY <1>1, <1>2, <2>1
  <2>2. CASE ~(i < p)
    <3>1. (a \o b)[i] = b[i - (p - 1)]
      BY <1>1, <1>2, <2>2
    <3>2. i - (p - 1) \in 1..(Len(l) - p) /\ p + (i - (p - 1)) = i + 1
      BY <2>2
    <3>3. QED
      BY <1>2, <2>2, <3>1, <3>2
  <2>3. QED
    BY <2>1, <2>2
<1>5. QED
  BY <1>3, <1>4 DEF RemoveAt, a, b

\* The list without v holds the others once each (container/list Remove).
LEMMA WithoutList ==
    ASSUME NEW l, Distinct(l), NEW v
    PROVE  /\ Distinct(Without(l, v)) /\ ToSet(Without(l, v)) = ToSet(l) \ {v}
           /\ Len(Without(l, v)) = IF v \in ToSet(l) THEN Len(l) - 1 ELSE Len(l)
<1>1. l \in Seq(Videos) /\ DOMAIN l = 1..Len(l) /\ Len(l) \in Nat
      /\ \A i, j \in 1..Len(l) : l[i] = l[j] => i = j
  BY DEF Distinct, IsInjective
<1>2. CASE v \notin ToSet(l)
  BY <1>2 DEF Without
<1>3. CASE v \in ToSet(l)
  <2> DEFINE p == CHOOSE i \in DOMAIN l : l[i] = v
             m == RemoveAt(l, p)
  <2>1. p \in 1..Len(l) /\ l[p] = v
    BY <1>1, <1>3 DEF ToSet
  <2>2. Without(l, v) = m
    BY <1>3 DEF Without
  <2> HIDE DEF p
  <2>3. /\ m \in Seq(Videos) /\ Len(m) = Len(l) - 1
        /\ \A i \in 1..(Len(l) - 1) : m[i] = IF i < p THEN l[i] ELSE l[i + 1]
    BY <1>1, <2>1, Closed
  <2> HIDE DEF m
  <2>4. DOMAIN m = 1..(Len(l) - 1)
    BY <2>3
  <2>5. \A i, j \in 1..(Len(l) - 1) : m[i] = m[j] => i = j
    BY <1>1, <2>1, <2>3
  <2>6. ASSUME NEW i \in 1..(Len(l) - 1)
        PROVE  m[i] \in ToSet(l) \ {v}
    <3>1. CASE i < p
      BY <1>1, <2>1, <2>3, <3>1 DEF ToSet
    <3>2. CASE ~(i < p)
      BY <1>1, <2>1, <2>3, <3>2 DEF ToSet
    <3>3. QED
      BY <3>1, <3>2
  <2>7. ASSUME NEW u \in ToSet(l) \ {v} PROVE \E i \in 1..(Len(l) - 1) : m[i] = u
    <3>1. PICK j \in 1..Len(l) : l[j] = u
      BY <1>1 DEF ToSet
    <3>2. CASE j < p
      BY <1>1, <2>1, <2>3, <3>1, <3>2
    <3>3. CASE j > p
      <4>1. j - 1 \in 1..(Len(l) - 1) /\ ~(j - 1 < p) /\ (j - 1) + 1 = j
        BY <1>1, <2>1, <3>3
      <4>2. m[j - 1] = l[j]
        BY <2>3, <4>1
      <4>3. QED
        BY <3>1, <4>1, <4>2
    <3>4. j # p
      BY <2>1, <3>1
    <3>5. QED
      BY <1>1, <2>1, <3>2, <3>3, <3>4
  <2>8. ToSet(m) = ToSet(l) \ {v}
    BY <2>4, <2>6, <2>7 DEF ToSet
  <2>9. Distinct(m)
    BY <2>3, <2>4, <2>5 DEF Distinct, IsInjective
  <2>10. QED
    BY <1>3, <2>2, <2>3, <2>8, <2>9
<1>4. QED
  BY <1>2, <1>3

\* The list with v in front holds v and the others once each (MoveToFront, PushFront).
LEMMA InFrontList ==
    ASSUME NEW l, Distinct(l), NEW v \in Videos
    PROVE  /\ Distinct(InFront(l, v)) /\ ToSet(InFront(l, v)) = ToSet(l) \cup {v}
           /\ Len(InFront(l, v)) = IF v \in ToSet(l) THEN Len(l) ELSE Len(l) + 1
<1> DEFINE m == Without(l, v)
           n == InFront(l, v)
<1>1. /\ Distinct(m) /\ ToSet(m) = ToSet(l) \ {v} /\ Len(l) \in Nat
      /\ Len(m) = IF v \in ToSet(l) THEN Len(l) - 1 ELSE Len(l)
  BY WithoutList DEF Distinct
<1>2. m \in Seq(Videos) /\ DOMAIN m = 1..Len(m) /\ Len(m) \in Nat
      /\ \A i, j \in 1..Len(m) : m[i] = m[j] => i = j
  BY <1>1 DEF Distinct, IsInjective
<1>3. n = <<v>> \o m
  BY DEF InFront
<1> HIDE DEF m, n
<1>4. /\ n \in Seq(Videos) /\ Len(n) = Len(m) + 1 /\ DOMAIN n = 1..(Len(m) + 1)
      /\ n[1] = v /\ \A i \in 2..(Len(m) + 1) : n[i] = m[i - 1]
  BY <1>2, <1>3
<1>5. \A i \in 1..Len(m) : m[i] # v
  BY <1>1, <1>2 DEF ToSet
<1>6. \A i, j \in 1..(Len(m) + 1) : n[i] = n[j] => i = j
  <2>1. SUFFICES ASSUME NEW i \in 1..(Len(m) + 1), NEW j \in 1..(Len(m) + 1), n[i] = n[j]
                 PROVE  i = j
    OBVIOUS
  <2>2. CASE i = 1 \/ j = 1
    <3>1. \A k \in 2..(Len(m) + 1) : n[k] # v
      BY <1>2, <1>4, <1>5
    <3>2. QED
      BY <1>2, <1>4, <2>1, <2>2, <3>1
  <2>3. CASE i # 1 /\ j # 1
    <3>1. i - 1 \in 1..Len(m) /\ j - 1 \in 1..Len(m) /\ m[i - 1] = m[j - 1]
      BY <1>2, <1>4, <2>1, <2>3
    <3>2. i - 1 = j - 1
      BY <1>2, <3>1
    <3>3. QED
      BY <1>2, <3>2
  <2>4. QED
    BY <2>2, <2>3
<1>7. ToSet(n) = {v} \cup ToSet(m)
  <2>1. ASSUME NEW i \in 1..(Len(m) + 1) PROVE n[i] \in {v} \cup ToSet(m)
    <3>1. CASE i = 1
      BY <1>4, <3>1
    <3>2. CASE i # 1
      <4>1. i - 1 \in 1..Len(m) /\ n[i] = m[i - 1]
        BY <1>2, <1>4, <3>2
      <4>2. QED
        BY <1>2, <4>1 DEF ToSet
    <3>3. QED
      BY <3>1, <3>2
  <2>2. ASSUME NEW i \in 1..Len(m) PROVE m[i] \in ToSet(n)
    <3>1. i + 1 \in 1..(Len(m) + 1) /\ n[i + 1] = m[i]
      <4>1. i + 1 \in 2..(Len(m) + 1) /\ (i + 1) - 1 = i
        BY <1>2
      <4>2. n[i + 1] = m[(i + 1) - 1]
        BY <1>4, <4>1
      <4>3. QED
        BY <1>2, <4>1, <4>2
    <3>2. QED
      BY <1>4, <3>1 DEF ToSet
  <2>3. v \in ToSet(n)
    BY <1>2, <1>4 DEF ToSet
  <2>4. QED
    BY <1>2, <1>4, <2>1, <2>2, <2>3 DEF ToSet
<1>8. Distinct(n)
  BY <1>4, <1>6 DEF Distinct, IsInjective
<1>9. Len(n) = IF v \in ToSet(l) THEN Len(l) ELSE Len(l) + 1
  BY <1>1, <1>4
<1>10. QED
  BY <1>1, <1>7, <1>8, <1>9 DEF n

\* The list without its last video (Back, Remove).
LEMMA FrontList ==
    ASSUME NEW l, Distinct(l), Len(l) > 0
    PROVE  /\ Distinct(Front(l)) /\ ToSet(Front(l)) = ToSet(l) \ {Last(l)}
           /\ Len(Front(l)) = Len(l) - 1
<1>1. l \in Seq(Videos) /\ DOMAIN l = 1..Len(l) /\ Len(l) \in Nat
      /\ \A i, j \in 1..Len(l) : l[i] = l[j] => i = j
  BY DEF Distinct, IsInjective
<1> DEFINE m == SubSeq(l, 1, Len(l) - 1)
<1>2. /\ m \in Seq(Videos) /\ Len(m) = Len(l) - 1 /\ DOMAIN m = 1..(Len(l) - 1)
      /\ \A i \in 1..(Len(l) - 1) : m[i] = l[i]
  BY <1>1
<1>3. Front(l) = m /\ Last(l) = l[Len(l)]
  BY DEF Front, Last
<1> HIDE DEF m
<1>4. Distinct(m)
  BY <1>1, <1>2 DEF Distinct, IsInjective
<1>5. ToSet(m) = ToSet(l) \ {l[Len(l)]}
  <2>1. ASSUME NEW i \in 1..(Len(l) - 1) PROVE m[i] \in ToSet(l) \ {l[Len(l)]}
    BY <1>1, <1>2 DEF ToSet
  <2>2. ASSUME NEW u \in ToSet(l) \ {l[Len(l)]} PROVE \E i \in 1..(Len(l) - 1) : m[i] = u
    BY <1>1, <1>2 DEF ToSet
  <2>3. QED
    BY <1>2, <2>1, <2>2 DEF ToSet
<1>6. QED
  BY <1>2, <1>3, <1>4, <1>5

LEMMA ListInit == Init => ListInv
<1> SUFFICES ASSUME Init PROVE ListInv
  OBVIOUS
<1>1. lru = <<>> /\ Cached = {}
  BY DEF Init, Cached, Known
<1>2. lru \in Seq(Videos) /\ Len(lru) = 0 /\ DOMAIN lru = {}
  BY <1>1
<1>3. 0 <= MaxEntries
  BY SizesAssumption DEF SizesAssumption
<1>4. QED
  BY <1>1, <1>2, <1>3 DEF ListInv, Distinct, IsInjective, ToSet

\* A hit moves the video of an entry that is there (metaCache.get).
LEMMA GetList ==
    ASSUME ListInv, NEW v \in Videos, Known(v), Get(v)
    PROVE  ListInv'
<1>1. Cached' = Cached /\ v \in ToSet(lru)
  BY DEF Get, Cached, Known, ListInv
<1>2. /\ Distinct(InFront(lru, v)) /\ ToSet(InFront(lru, v)) = ToSet(lru)
      /\ Len(InFront(lru, v)) = Len(lru)
  <2>1. Distinct(lru)
    BY DEF ListInv
  <2>2. ToSet(InFront(lru, v)) = ToSet(lru) \cup {v}
    BY <2>1, InFrontList
  <2>3. QED
    BY <1>1, <2>1, <2>2, InFrontList
<1>3. Distinct(lru') /\ ToSet(lru') = ToSet(lru) /\ Len(lru') = Len(lru)
  BY <1>2 DEF Get
<1>4. QED
  BY <1>1, <1>3 DEF ListInv, Distinct

\* An entry past its time leaves the map and the list (metaCache.get).
LEMMA ExpireList ==
    ASSUME CacheInv, NEW v \in Videos, Known(v), Expire(v)
    PROVE  ListInv'
<1>1. Cached' = Cached \ {v} /\ v \in ToSet(lru)
  BY DEF Expire, Cached, Known, CacheInv, ListInv, IInv, Typed, EntriesType
<1>2. /\ Distinct(Without(lru, v)) /\ ToSet(Without(lru, v)) = ToSet(lru) \ {v}
      /\ Len(Without(lru, v)) = Len(lru) - 1
  BY <1>1, WithoutList DEF CacheInv, ListInv
<1>3. Distinct(lru') /\ ToSet(lru') = ToSet(lru) \ {v} /\ Len(lru') = Len(lru) - 1
  BY <1>2 DEF Expire
<1>4. Len(lru') <= MaxEntries
  <2>1. Len(lru) \in Nat /\ MaxEntries \in Nat /\ Len(lru) <= MaxEntries
    BY SizesAssumption DEF SizesAssumption, CacheInv, ListInv, Distinct
  <2>2. QED
    BY <1>3, <2>1
<1>5. QED
  BY <1>1, <1>3, <1>4 DEF CacheInv, ListInv, Distinct

\* A new entry that is one too many takes the place of the last of the list
\* (metaCache.put).
LEMMA PutList ==
    ASSUME CacheInv, NEW v \in Videos, NEW vis \in Verdict, Put(v, vis)
    PROVE  ListInv'
<1> DEFINE list == InFront(lru, v)
<1>1. /\ Distinct(list) /\ ToSet(list) = Cached \cup {v}
      /\ Len(list) = IF Known(v) THEN Len(lru) ELSE Len(lru) + 1
  BY InFrontList DEF CacheInv, ListInv, Cached
<1>2. /\ Len(lru) \in Nat /\ MaxEntries \in Nat \ {0} /\ Len(lru) <= MaxEntries
      /\ Cardinality(Cached) = Len(lru)
  BY DistinctLength, SizesAssumption DEF SizesAssumption, CacheInv, ListInv, Distinct
<1>3. Overfull(v) <=> ~Known(v) /\ Len(lru) + 1 > MaxEntries
  BY <1>2 DEF Overfull, Cached
<1>4. LifeTime(vis) >= 0 /\ LifeTime(vis) \in Int
  BY DEF LifeTime
<1>5. [vis |-> vis, left |-> LifeTime(vis)] # NoEntry
  BY <1>4 DEF NoEntry
<1>6. entries \in [Videos -> [vis : Verdict, left : -1..TTL]]
  BY DEF CacheInv, IInv, Typed, EntriesType
<1> HIDE DEF list
<1>7. CASE ~Overfull(v) /\ entries' = Stored(v, vis) /\ lru' = list
  <2>1. Cached' = Cached \cup {v}
    BY <1>5, <1>6, <1>7 DEF Cached, Known, Stored
  <2>2. Len(list) <= MaxEntries
    BY <1>1, <1>2, <1>3, <1>7
  <2>3. QED
    BY <1>1, <1>7, <2>1, <2>2 DEF ListInv, Distinct
<1>8. CASE /\ Overfull(v) /\ lru' = Front(list)
           /\ entries' = [Stored(v, vis) EXCEPT ![Last(list)] = NoEntry]
  <2>1. Cached' = (Cached \cup {v}) \ {Last(list)}
    BY <1>5, <1>6, <1>8 DEF Cached, Known, Stored
  <2>2. Len(list) = Len(lru) + 1 /\ Len(list) > 0
    BY <1>1, <1>2, <1>3, <1>8
  <2>3. /\ Distinct(Front(list)) /\ ToSet(Front(list)) = ToSet(list) \ {Last(list)}
        /\ Len(Front(list)) = Len(list) - 1
    BY <1>1, <2>2, FrontList
  <2>4. Len(Front(list)) <= MaxEntries
    BY <1>2, <2>2, <2>3
  <2>5. QED
    BY <1>1, <1>8, <2>1, <2>3, <2>4 DEF ListInv, Distinct
<1>9. QED
  BY <1>7, <1>8 DEF Put, list

LEMMA ListStep == CacheInv /\ [Next]_vars => CacheInv'
<1> SUFFICES ASSUME CacheInv, [Next]_vars PROVE ListInv'
  BY StepInv DEF CacheInv
<1>1. CASE UNCHANGED cache
  BY <1>1 DEF cache, CacheInv, ListInv, Distinct, Cached, Known
<1>2. ASSUME NEW r \in Handlers, Lookup(r) PROVE ListInv'
  <2>1. request[r].video \in Videos
    BY <1>2, BusyType DEF CacheInv, IInv, Typed, Lookup, Busy, At, Asking
  <2>2. QED
    BY <1>1, <1>2, <2>1, GetList, ExpireList DEF Lookup, CacheInv
<1>3. ASSUME NEW r \in Handlers, Store(r) PROVE ListInv'
  <2>1. request[r].video \in Videos /\ request[r].meta \in Verdict
    BY <1>3, BusyType DEF CacheInv, IInv, Typed, Store, Busy, At, Asking
  <2>2. QED
    BY <1>3, <2>1, PutList DEF Store
<1>4. CASE Tick
  <2>1. entries \in [Videos -> [vis : Verdict, left : -1..TTL]]
        /\ \A v \in Videos : Live(v) => entries[v].vis # "unknown"
    BY DEF CacheInv, IInv, Typed, EntriesType, EntriesInTime
  <2>2. ASSUME NEW v \in Videos PROVE Known(v)' <=> Known(v)
    <3>1. CASE Live(v)
      <4>1. entries'[v] = [entries[v] EXCEPT !.left = @ - 1]
        BY <1>4, <3>1 DEF Tick
      <4>2. entries'[v].vis = entries[v].vis
        BY <2>1, <4>1
      <4>3. NoEntry.vis = "unknown"
        BY DEF NoEntry
      <4>4. QED
        BY <2>1, <3>1, <4>2, <4>3 DEF Known
    <3>2. CASE ~Live(v)
      BY <1>4, <3>2 DEF Tick, Known
    <3>3. QED
      BY <3>1, <3>2
  <2>3. UNCHANGED lru /\ Cached' = Cached
    BY <1>4, <2>2 DEF Tick, Cached
  <2>4. QED
    BY <2>3 DEF CacheInv, ListInv, Distinct
<1>5. CASE Restart
  <2>1. lru' = <<>> /\ Cached' = {}
    BY <1>5 DEF Restart, Cached, Known
  <2>2. lru' \in Seq(Videos) /\ Len(lru') = 0 /\ DOMAIN lru' = {}
    BY <2>1
  <2>3. 0 <= MaxEntries
    BY SizesAssumption DEF SizesAssumption
  <2>4. QED
    BY <2>1, <2>2, <2>3 DEF ListInv, Distinct, IsInjective, ToSet
<1>6. ASSUME NEW v \in Videos, Create(v) \/ Update(v) \/ Delete(v) \/ UpdateStatus(v)
      PROVE  UNCHANGED cache
  BY <1>6 DEF Create, Update, Delete, UpdateStatus, SetRow
<1>7. ASSUME NEW r \in Handlers, Ask(r) \/ Read(r) \/ FetchFails(r) \/ Vod(r)
      PROVE  UNCHANGED cache
  BY <1>7 DEF Ask, Read, FetchFails, Vod
<1>8. UNCHANGED vars => UNCHANGED cache
  BY DEF vars
<1>9. QED
  BY <1>1, <1>2, <1>3, <1>4, <1>5, <1>6, <1>7, <1>8 DEF Next

LEMMA CacheInvariance == Spec => []CacheInv
<1>1. Init => CacheInv
  BY InitInv, ListInit DEF CacheInv
<1>2. QED
  BY <1>1, ListStep, PTL DEF Spec

\* Every variable keeps its type: an entry never outlives its lifetime, however often it
\* is hit, stored again or put while it is still there (hlsauth.go:196-236).
THEOREM TypeCorrect == Spec => []TypeOK
<1>1. CacheInv => TypeOK
  BY DEF CacheInv, ListInv, Distinct, IInv, Typed, TypeOK
<1>2. QED
  BY <1>1, CacheInvariance, PTL

\* For any size of the cache and any number of handlers that look up, expire and store at
\* the same time: the map and the list hold the same videos, each once, and no more than
\* the bound (hlsauth.go:196-236).
THEOREM CacheAlwaysConsistent == Spec => []CacheConsistent
<1>1. CacheInv => CacheConsistent
  BY DEF CacheInv, ListInv, Distinct, Cached, CacheConsistent
<1>2. QED
  BY <1>1, CacheInvariance, PTL

==============================================================================
