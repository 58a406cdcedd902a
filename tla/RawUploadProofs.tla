---------------------------- MODULE RawUploadProofs ----------------------------
(***************************************************************************)
(* What holds of RawUpload for a file of any number of pieces, any tabs and   *)
(* chunk requests and any number of failures: chunks sent one at a time       *)
(* leave a beginning of the file, what a client was told is complete is the   *)
(* whole file, parts are joined to the whole file or to nothing, and all     *)
(* four ways to upload implement Handoff.                                    *)
(***************************************************************************)
EXTENDS RawUpload, FiniteSetTheorems, TLAPS

\* What the proofs need of the constants.
LEMMA Sizes == N \in Nat /\ N > 0 /\ "nobody" \notin Chunks
  BY SizesAssumption, IdleAssumption DEF SizesAssumption, IdleAssumption

USE Sizes

-----------------------------------------------------------------------------
(* The invariant *)

Handled(c) == chunk[c].at # "idle"

\* The first pieces of the file.
Beginning(s) == s \in Seq(Nat) /\ Len(s) <= N /\ \A i \in 1..Len(s) : s[i] = i

Typed ==
    /\ tab \in [Tabs -> TabPc]
    /\ offset \in Nat /\ awaits \in Chunks \cup {"nobody"}
    /\ chunk \in [Chunks -> [at : ChunkPc, start : Nat, got : Seq(Nat)]]
    /\ route \in {"none", "resumable"} => raw \in Seq(Nat)

Told == events \cap {"finish", "direct"} # {}

\* Each way to upload the video has its own steps.
RouteInv ==
    /\ \A t \in Tabs : tab[t] # "idle" => route = "multipart"
    /\ resumeKey => route = "multipart"
    /\ finish # "no" => route \in {"presigned", "direct", "resumable"}
    /\ finish = "store" => route = "direct"
    /\ finish = "stat" => route # "direct"
    /\ offset # 0 \/ awaits # "nobody" \/ confirmed \/ InHandler => route = "resumable"
    /\ Told => finish = "done"
    /\ route = "none" => raw = <<>>

\* Whoever is about to announce the file, or has, has stored it or believes so.
WholeInv ==
    /\ route = "presigned" /\ finish # "no" => raw = File
    /\ route = "direct" /\ (finish = "publish" \/ Told) => raw = File
    /\ route = "resumable" /\ finish # "no" => offset = N /\ awaits = "nobody"
    /\ confirmed => offset = N /\ awaits = "nobody"

\* The client waits for a chunk that is being handled, and not when all is stored.
ClientInv == awaits # "nobody" => offset # N /\ Handled(awaits)

\* A chunk being handled starts where the stored object ended when its size was read;
\* what it has read is the beginning before it.
ChunkInv(c) ==
    /\ chunk[c].start < N
    /\ chunk[c].at = "get" => chunk[c].start = Len(raw)
    /\ chunk[c].at = "put" => Beginning(chunk[c].got) /\ Len(chunk[c].got) = chunk[c].start

\* One chunk at a time: the object is a beginning of the file, and all of it once the
\* client believes so; then no chunk is left that could shorten it.
OrderInv ==
    route = "resumable" /\ ~overlapped =>
        /\ Beginning(raw)
        /\ \A c \in Chunks : Handled(c) => ChunkInv(c)
        /\ \A c, d \in Chunks : Handled(c) /\ Handled(d) => c = d
        /\ offset = N => raw = File /\ ~InHandler

IInv == Typed /\ RouteInv /\ WholeInv /\ ClientInv /\ OrderInv

-----------------------------------------------------------------------------
(* Beginnings of the file *)

LEMMA FileSeq == File \in Seq(Nat) /\ Len(File) = N /\ \A i \in 1..N : File[i] = i
  BY DEF File

LEMMA EmptyBeginning == Beginning(<<>>) /\ Len(<<>>) = 0
  BY DEF Beginning

LEMMA FileBeginning == Beginning(File)
  BY FileSeq DEF Beginning

\* One more piece is again a beginning (resumable.go:198-216).
LEMMA NextPiece ==
    ASSUME NEW s, Beginning(s), Len(s) < N
    PROVE  /\ Beginning(Append(s, Len(s) + 1))
           /\ Len(Append(s, Len(s) + 1)) = Len(s) + 1
<1>1. s \in Seq(Nat) /\ Len(s) \in Nat /\ Len(s) + 1 \in Nat
  BY DEF Beginning
<1>2. /\ Append(s, Len(s) + 1) \in Seq(Nat)
      /\ Len(Append(s, Len(s) + 1)) = Len(s) + 1
      /\ \A i \in 1..(Len(s) + 1) :
           Append(s, Len(s) + 1)[i] = IF i = Len(s) + 1 THEN Len(s) + 1 ELSE s[i]
  BY <1>1
<1>3. QED
  BY <1>1, <1>2 DEF Beginning

\* The beginning with N pieces is the file.
LEMMA AllPieces ==
    ASSUME NEW s, Beginning(s), Len(s) = N
    PROVE  s = File
<1>1. s \in Seq(Nat) /\ \A i \in 1..N : s[i] = i
  BY DEF Beginning
<1>2. s = [i \in 1..N |-> s[i]]
  BY <1>1
<1>3. QED
  BY <1>1, <1>2 DEF File

LEMMA BeginningIsPrefix ==
    ASSUME NEW s, Beginning(s)
    PROVE  IsPrefix(s, File)
  BY FileSeq DEF Beginning, IsPrefix

-----------------------------------------------------------------------------
(* Steps *)

LEMMA InitInv == Init => IInv
<1> SUFFICES ASSUME Init PROVE IInv
  OBVIOUS
<1>1. Typed
  BY DEF Init, Typed, TabPc, ChunkPc, NoChunk
<1>2. \A c \in Chunks : ~Handled(c)
  BY DEF Init, Handled, NoChunk
<1>3. RouteInv
  BY <1>2 DEF Init, RouteInv, InHandler, Handled, Told
<1>4. WholeInv /\ ClientInv /\ OrderInv
  BY DEF Init, WholeInv, ClientInv, OrderInv
<1>5. QED
  BY <1>1, <1>3, <1>4 DEF IInv

\* What the invariant is about.
watched == <<raw, route, resumeKey, tab, offset, awaits, chunk, overlapped, confirmed, finish>>

LEMMA Unwatched ==
    ASSUME IInv, UNCHANGED watched, Told' <=> Told
    PROVE  IInv'
<1>1. Typed'
  BY DEF IInv, Typed, watched
<1>2. InHandler' <=> InHandler
  BY DEF InHandler, watched
<1>3. RouteInv'
  BY <1>2 DEF IInv, RouteInv, watched
<1>4. WholeInv'
  BY DEF IInv, WholeInv, watched
<1>5. ClientInv'
  BY DEF IInv, ClientInv, Handled, watched
<1>6. OrderInv'
  BY <1>2 DEF IInv, OrderInv, ChunkInv, Handled, watched
<1>7. QED
  BY <1>1, <1>3, <1>4, <1>5, <1>6 DEF IInv

\* While a video is uploaded in parts, nothing is known of its object, and nothing of the
\* other ways to upload it has happened.
LEMMA PartsInv ==
    ASSUME IInv, route \in {"none", "multipart"}, route' = "multipart",
           tab' \in [Tabs -> TabPc], UNCHANGED <<chunked, finish>>, Told' <=> Told
    PROVE  IInv'
<1>1. awaits = "nobody" /\ ~confirmed /\ ~InHandler /\ finish = "no" /\ ~Told /\ offset = 0
  BY DEF IInv, RouteInv
<1>2. /\ UNCHANGED <<offset, awaits, chunk, overlapped, confirmed, finish>>
      /\ ~InHandler' /\ ~confirmed'
  BY <1>1 DEF chunked, InHandler
<1>3. Typed'
  BY <1>2 DEF IInv, Typed
<1>4. RouteInv'
  BY <1>1, <1>2 DEF RouteInv
<1>5. WholeInv' /\ ClientInv' /\ OrderInv'
  BY <1>1, <1>2 DEF WholeInv, ClientInv, OrderInv
<1>6. QED
  BY <1>3, <1>4, <1>5 DEF IInv

LEMMA TabInv ==
    ASSUME IInv, NEW t \in Tabs, StartUpload(t) \/ TabStep(t)
    PROVE  IInv'
<1>1. tab \in [Tabs -> TabPc] /\ (tab[t] # "idle" => route = "multipart")
      /\ (resumeKey => route = "multipart")
  BY DEF IInv, Typed, RouteInv
<1>2. ASSUME NEW l \in TabPc, Goto(t, l) PROVE tab' \in [Tabs -> TabPc]
  BY <1>1, <1>2 DEF Goto
<1>3. CASE StartUpload(t)
  <2>1. "list" \in TabPc /\ "create" \in TabPc
    BY DEF TabPc
  <2>2. tab' \in [Tabs -> TabPc] /\ route \in {"none", "multipart"} /\ route' = "multipart"
    BY <1>1, <1>2, <1>3, <2>1 DEF StartUpload
  <2>3. UNCHANGED <<chunked, finish>> /\ (Told' <=> Told)
    BY <1>3 DEF StartUpload, Told
  <2>4. QED
    BY <2>2, <2>3, PartsInv
<1>4. CASE TabStep(t)
  <2>1. tab[t] # "idle"
    BY <1>4
        DEF TabStep, ListForResume, Create, PresignPart, PutPart, FindSession, ListPage,
         Assemble, StatAssembled, PublishAssembled, Done, SessionGone, GiveUp
  <2>2. UNCHANGED <<route, chunked, finish>>
    BY <1>4
        DEF TabStep, ListForResume, Create, PresignPart, PutPart, FindSession, ListPage,
         Assemble, StatAssembled, PublishAssembled, Done, SessionGone, GiveUp, others, kind
  <2>3. events' \in {events, events \cup {"multipart"}}
    BY <1>4
        DEF TabStep, ListForResume, Create, PresignPart, PutPart, FindSession, ListPage,
         Assemble, StatAssembled, PublishAssembled, Done, SessionGone, GiveUp, others
  <2>4. \E l \in TabPc : Goto(t, l) \/ UNCHANGED tab
    BY <1>4
        DEF TabStep, ListForResume, Create, PresignPart, PutPart, FindSession, ListPage,
         Assemble, StatAssembled, PublishAssembled, Done, SessionGone, GiveUp, TabPc
  <2>5. tab' \in [Tabs -> TabPc]
    BY <1>1, <1>2, <2>4
  <2>6. Told' <=> Told
    BY <2>3 DEF Told
  <2>7. QED
    BY <1>1, <2>1, <2>2, <2>5, <2>6, PartsInv
<1>5. QED
  BY <1>3, <1>4

\* A new video that is not uploaded in parts has no object yet (Presign, Upload,
\* CreateMeta).
LEMMA NewInv ==
    ASSUME IInv, NEW r \in {"presigned", "direct", "resumable"}, NewRow(r),
           finish' = finish \/ (r = "direct" /\ finish' = "store")
    PROVE  IInv'
<1>1. /\ route = "none" /\ raw = <<>> /\ awaits = "nobody" /\ ~confirmed /\ ~InHandler
      /\ finish = "no" /\ ~Told /\ ~resumeKey /\ offset = 0
      /\ \A t \in Tabs : tab[t] = "idle"
  BY DEF IInv, RouteInv, NewRow
<1>2. /\ route' = r
      /\ UNCHANGED <<raw, events, offset, awaits, chunk, overlapped, confirmed, resumeKey, tab>>
  BY DEF NewRow, still, browser, chunked
<1>3. ~InHandler' /\ ~Told'
  BY <1>1, <1>2 DEF InHandler, Told
<1>4. Typed'
  BY <1>1, <1>2 DEF IInv, Typed
<1>5. RouteInv'
  BY <1>1, <1>2, <1>3 DEF RouteInv
<1>6. WholeInv' /\ ClientInv'
  BY <1>1, <1>2, <1>3 DEF WholeInv, ClientInv
<1>7. OrderInv'
  <2>1. Beginning(raw') /\ offset' # N
    BY <1>1, <1>2, EmptyBeginning
  <2>2. \A c \in Chunks : ~Handled(c)'
    BY <1>3 DEF Handled, InHandler
  <2>3. QED
    BY <2>1, <2>2 DEF OrderInv
<1>8. QED
  BY <1>4, <1>5, <1>6, <1>7 DEF IInv

\* A presigned PUT and a direct upload (PutPresigned, StoreBody), and the complete call
\* that may follow (StatFinished, PublishFinished).
LEMMA FinishInv ==
    ASSUME IInv, PutPresigned \/ StoreBody \/ StatFinished \/ PublishFinished
    PROVE  IInv'
<1>1. UNCHANGED <<route, resumeKey, tab, offset, awaits, chunk, overlapped, confirmed>>
  BY DEF PutPresigned, StoreBody, StatFinished, PublishFinished, kind, still, browser, chunked
<1>2. InHandler' <=> InHandler
  BY <1>1 DEF InHandler
<1>3. CASE PutPresigned
  <2>1. route = "presigned" /\ raw' = File /\ finish' = "stat" /\ ~Told /\ ~Told'
    BY <1>3 DEF PutPresigned, IInv, RouteInv, Told
  <2>2. Typed' /\ RouteInv' /\ WholeInv' /\ ClientInv' /\ OrderInv'
    BY <1>1, <1>2, <2>1
        DEF IInv, Typed, RouteInv, WholeInv, ClientInv, OrderInv, Handled
  <2>3. QED
    BY <2>2 DEF IInv
<1>4. CASE StoreBody
  <2>1. /\ route = "direct" /\ ~Told /\ ~Told'
        /\ finish' \in {"publish", "done"} /\ (finish' = "publish" => raw' = File)
    BY <1>4 DEF StoreBody, IInv, RouteInv, Told
  <2>2. Typed' /\ RouteInv' /\ WholeInv' /\ ClientInv' /\ OrderInv'
    BY <1>1, <1>2, <2>1
        DEF IInv, Typed, RouteInv, WholeInv, ClientInv, OrderInv, Handled
  <2>3. QED
    BY <2>2 DEF IInv
<1>5. CASE StatFinished
  <2>1. /\ finish = "stat" /\ finish' \in {"publish", "done"} /\ UNCHANGED raw
        /\ ~Told /\ ~Told' /\ route \in {"presigned", "resumable"}
    BY <1>5 DEF StatFinished, IInv, RouteInv, Told
  <2>2. Typed' /\ RouteInv' /\ WholeInv' /\ ClientInv'
    BY <1>1, <1>2, <2>1 DEF IInv, Typed, RouteInv, WholeInv, ClientInv, Handled
  <2>3. OrderInv'
    BY <1>1, <1>2, <2>1 DEF IInv, OrderInv, ChunkInv, Handled
  <2>4. QED
    BY <2>2, <2>3 DEF IInv
<1>6. CASE PublishFinished
  <2>1. /\ finish = "publish" /\ finish' = "done" /\ UNCHANGED raw
        /\ route \in {"presigned", "direct", "resumable"}
    BY <1>6 DEF PublishFinished, IInv, RouteInv
  <2>2. Typed' /\ RouteInv' /\ WholeInv' /\ ClientInv'
    BY <1>1, <1>2, <2>1 DEF IInv, Typed, RouteInv, WholeInv, ClientInv, Handled
  <2>3. OrderInv'
    BY <1>1, <1>2, <2>1 DEF IInv, OrderInv, ChunkInv, Handled
  <2>4. QED
    BY <2>2, <2>3 DEF IInv
<1>7. QED
  BY <1>3, <1>4, <1>5, <1>6

\* The parts of the invariant that no step of a chunk or of its client touches.
LEMMA ChunkedFrame ==
    ASSUME IInv, route = "resumable", finish = "no" \/ finish' = finish,
           UNCHANGED <<route, resumeKey, tab, events>>,
           finish' \in {finish, "stat"},
           finish' # "no" => offset' = N /\ awaits' = "nobody",
           confirmed' => offset' = N /\ awaits' = "nobody"
    PROVE  RouteInv' /\ WholeInv'
<1>1. Told' <=> Told
  BY DEF Told
<1>2. Told => finish' = "done"
  BY DEF IInv, RouteInv
<1>3. RouteInv'
  BY <1>1, <1>2 DEF IInv, RouteInv
<1>4. WholeInv'
  BY DEF WholeInv
<1>5. QED
  BY <1>3, <1>4

\* The client asks for the size, sends the whole file, or stops waiting (AskOffset,
\* PutWhole, LoseAnswer): what a handler does meanwhile is no longer in order.
LEMMA ClientStep ==
    ASSUME IInv, AskOffset \/ PutWhole \/ LoseAnswer \/ FinishChunks
    PROVE  IInv'
<1>1. /\ UNCHANGED <<route, resumeKey, tab, events, chunk, confirmed>>
      /\ InHandler' <=> InHandler
  BY DEF AskOffset, PutWhole, LoseAnswer, FinishChunks, quiet, kind, still, browser, InHandler
<1>2. route = "resumable"
  BY DEF AskOffset, PutWhole, LoseAnswer, FinishChunks, ResumableClient, IInv, RouteInv
<1>3. raw \in Seq(Nat) /\ Len(raw) \in Nat
  BY <1>2 DEF IInv, Typed
<1>4. CASE AskOffset
  <2>1. /\ finish = "no" /\ UNCHANGED <<finish, raw, awaits>> /\ awaits = "nobody"
        /\ offset' \in {Len(raw), 0} /\ offset # N
        /\ overlapped' = (overlapped \/ InHandler)
    BY <1>4 DEF AskOffset, ResumableClient
  <2>2. RouteInv' /\ WholeInv'
    BY <1>1, <1>2, <2>1, ChunkedFrame DEF IInv, WholeInv
  <2>3. Typed' /\ ClientInv'
    BY <1>1, <1>3, <2>1 DEF IInv, Typed, ClientInv
  <2>4. OrderInv'
    <3>1. SUFFICES ASSUME ~overlapped, ~InHandler
                   PROVE  /\ Beginning(raw)
                          /\ offset' = N => raw = File
                          /\ \A c \in Chunks : ~Handled(c)
      BY <1>1, <2>1 DEF OrderInv, Handled, InHandler
    <3>2. Beginning(raw)
      BY <1>2, <3>1 DEF IInv, OrderInv
    <3>3. QED
      BY <2>1, <3>1, <3>2, AllPieces DEF Handled, InHandler
  <2>5. QED
    BY <2>2, <2>3, <2>4 DEF IInv
<1>5. CASE PutWhole
  <2>1. /\ finish = "no" /\ UNCHANGED <<finish, awaits>> /\ awaits = "nobody"
        /\ offset # N /\ offset' \in {offset, N} /\ raw' \in {raw, File}
        /\ offset' = N => raw' = File
        /\ overlapped' = (overlapped \/ InHandler)
    BY <1>5 DEF PutWhole, ResumableClient
  <2>2. RouteInv' /\ WholeInv'
    BY <1>1, <1>2, <2>1, ChunkedFrame DEF IInv, WholeInv
  <2>3. Typed' /\ ClientInv'
    BY <1>1, <1>3, <2>1, FileSeq DEF IInv, Typed, ClientInv
  <2>4. OrderInv'
    <3>1. SUFFICES ASSUME ~overlapped, ~InHandler
                   PROVE  Beginning(raw') /\ \A c \in Chunks : ~Handled(c)
      BY <1>1, <2>1 DEF OrderInv, Handled, InHandler
    <3>2. Beginning(raw)
      BY <1>2, <3>1 DEF IInv, OrderInv
    <3>3. QED
      BY <2>1, <3>1, <3>2, FileBeginning DEF Handled, InHandler
  <2>5. QED
    BY <2>2, <2>3, <2>4 DEF IInv
<1>6. CASE LoseAnswer
  <2>1. /\ UNCHANGED <<finish, raw, offset, overlapped>>
        /\ awaits # "nobody" /\ awaits' = "nobody"
    BY <1>6 DEF LoseAnswer
  <2>2. RouteInv' /\ WholeInv'
    BY <1>1, <1>2, <2>1, ChunkedFrame DEF IInv, WholeInv
  <2>3. Typed' /\ ClientInv'
    BY <1>1, <1>3, <2>1 DEF IInv, Typed, ClientInv
  <2>4. OrderInv'
    BY <1>1, <2>1 DEF IInv, OrderInv, ChunkInv, Handled
  <2>5. QED
    BY <2>2, <2>3, <2>4 DEF IInv
<1>7. CASE FinishChunks
  <2>1. /\ finish = "no" /\ finish' = "stat" /\ awaits = "nobody" /\ offset = N
        /\ UNCHANGED <<raw, offset, awaits>>
        /\ overlapped' = (overlapped \/ InHandler)
    BY <1>7 DEF FinishChunks, ResumableClient
  <2>2. RouteInv' /\ WholeInv'
    BY <1>1, <1>2, <2>1, ChunkedFrame DEF IInv, WholeInv
  <2>3. Typed' /\ ClientInv'
    BY <1>1, <1>3, <2>1 DEF IInv, Typed, ClientInv
  <2>4. OrderInv'
    BY <1>1, <2>1 DEF IInv, OrderInv, ChunkInv, Handled
  <2>5. QED
    BY <2>2, <2>3, <2>4 DEF IInv
<1>8. QED
  BY <1>4, <1>5, <1>6, <1>7

\* The client sends a chunk; if another is still being handled they overlap.
LEMMA SendStep ==
    ASSUME IInv, NEW c \in Chunks, SendChunk(c)
    PROVE  IInv'
<1>1. /\ route = "resumable" /\ finish = "no" /\ awaits = "nobody" /\ offset # N /\ offset < N
      /\ chunk[c].at = "idle" /\ awaits' = c
      /\ overlapped' = (overlapped \/ InHandler)
      /\ UNCHANGED <<route, resumeKey, tab, events, raw, offset, confirmed, finish>>
  BY DEF SendChunk, ResumableClient, quiet, kind, still, browser, IInv, Typed
<1>2. /\ chunk' \in [Chunks -> [at : ChunkPc, start : Nat, got : Seq(Nat)]]
      /\ chunk'[c] = [at |-> "stat", start |-> offset, got |-> <<>>]
      /\ \A d \in Chunks \ {c} : chunk'[d] = chunk[d]
  <2> DEFINE k == [at |-> "stat", start |-> offset, got |-> <<>>]
  <2>1. k \in [at : ChunkPc, start : Nat, got : Seq(Nat)]
    BY DEF IInv, Typed, ChunkPc
  <2>2. chunk' = [chunk EXCEPT ![c] = k]
    BY DEF SendChunk
  <2> HIDE DEF k
  <2>3. chunk' \in [Chunks -> [at : ChunkPc, start : Nat, got : Seq(Nat)]]
        /\ chunk'[c] = k /\ \A d \in Chunks \ {c} : chunk'[d] = chunk[d]
    BY <2>1, <2>2 DEF IInv, Typed
  <2>4. QED
    BY <2>3 DEF k
<1>3. ~confirmed
  BY <1>1 DEF IInv, WholeInv
<1>4. RouteInv' /\ WholeInv'
  BY <1>1, <1>3, ChunkedFrame
<1>5. Typed'
  BY <1>1, <1>2 DEF IInv, Typed
<1>6. ClientInv'
  BY <1>1, <1>2 DEF ClientInv, Handled
<1>7. OrderInv'
  <2>1. SUFFICES ASSUME ~overlapped, ~InHandler
                 PROVE  /\ Beginning(raw)
                        /\ \A d \in Chunks : Handled(d)' => ChunkInv(d)'
                        /\ \A d, e \in Chunks : Handled(d)' /\ Handled(e)' => d = e
    BY <1>1 DEF OrderInv
  <2>2. \A d \in Chunks : Handled(d)' => d = c
    BY <1>2, <2>1 DEF Handled, InHandler
  <2>3. ChunkInv(c)'
    BY <1>1, <1>2 DEF ChunkInv
  <2>4. Beginning(raw)
    BY <1>1, <2>1 DEF IInv, OrderInv
  <2>5. QED
    BY <2>2, <2>3, <2>4
<1>8. QED
  BY <1>4, <1>5, <1>6, <1>7 DEF IInv

\* A handler goes on with its chunk (StatChunk, GetStored).
LEMMA ProceedStep ==
    ASSUME IInv, NEW c \in Chunks, chunk[c].at # "idle",
           NEW l \in {"get", "put"}, NEW data \in Seq(Nat), Proceed(c, l, data),
           UNCHANGED <<raw, offset, awaits, overlapped, confirmed, finish, quiet>>,
           route = "resumable" /\ ~overlapped =>
             IF l = "get" THEN chunk[c].start = Len(raw)
             ELSE Beginning(data) /\ Len(data) = chunk[c].start
    PROVE  IInv'
<1>1. /\ UNCHANGED <<route, resumeKey, tab, events, raw, offset, awaits, overlapped, confirmed,
                    finish>>
      /\ route = "resumable"
  BY DEF quiet, kind, still, browser, IInv, RouteInv, InHandler
<1>2. /\ chunk' \in [Chunks -> [at : ChunkPc, start : Nat, got : Seq(Nat)]]
      /\ chunk'[c].at = l /\ chunk'[c].start = chunk[c].start /\ chunk'[c].got = data
      /\ \A d \in Chunks \ {c} : chunk'[d] = chunk[d]
  <2> DEFINE k == [chunk[c] EXCEPT !.at = l, !.got = data]
  <2>1. chunk[c] \in [at : ChunkPc, start : Nat, got : Seq(Nat)] /\ l \in ChunkPc
    BY DEF IInv, Typed, ChunkPc
  <2>2. k \in [at : ChunkPc, start : Nat, got : Seq(Nat)]
        /\ k.at = l /\ k.start = chunk[c].start /\ k.got = data
    BY <2>1
  <2>3. chunk' = [chunk EXCEPT ![c] = k]
    BY DEF Proceed, IInv, Typed
  <2> HIDE DEF k
  <2>4. QED
    BY <2>2, <2>3 DEF IInv, Typed
<1>3. \A d \in Chunks : Handled(d)' <=> Handled(d)
  BY <1>2 DEF Handled
<1>4. RouteInv' /\ WholeInv'
  BY <1>1, ChunkedFrame DEF IInv, WholeInv
<1>5. Typed' /\ ClientInv'
  BY <1>1, <1>2, <1>3 DEF IInv, Typed, ClientInv
<1>6. OrderInv'
  <2>1. SUFFICES ASSUME ~overlapped
                 PROVE  /\ Beginning(raw)
                        /\ \A d \in Chunks : Handled(d)' => ChunkInv(d)'
                        /\ \A d, e \in Chunks : Handled(d)' /\ Handled(e)' => d = e
                        /\ offset # N
    BY <1>1 DEF OrderInv
  <2>2. /\ Beginning(raw) /\ offset # N /\ ChunkInv(c)
        /\ \A d, e \in Chunks : Handled(d) /\ Handled(e) => d = e
    BY <1>1, <2>1 DEF IInv, OrderInv, Handled, InHandler
  <2>3. ChunkInv(c)'
    BY <1>1, <1>2, <2>1, <2>2 DEF ChunkInv
  <2>4. \A d \in Chunks : Handled(d) => d = c
    BY <2>2 DEF Handled
  <2>5. QED
    BY <1>3, <2>2, <2>3, <2>4
<1>7. QED
  BY <1>4, <1>5, <1>6 DEF IInv

\* A handler answers, and the object is raw' by then (StatChunk, PutChunk, FailChunk):
\* the client that waits for it learns n.
LEMMA AnswerStep ==
    ASSUME IInv, NEW c \in Chunks, chunk[c].at # "idle", NEW n \in Nat, Answer(c, n),
           UNCHANGED <<overlapped, finish, quiet>>, raw' \in Seq(Nat),
           confirmed' => confirmed \/ (awaits = c /\ n = N),
           route = "resumable" /\ ~overlapped => Beginning(raw') /\ (n = N => raw' = File)
    PROVE  IInv'
<1>1. /\ UNCHANGED <<route, resumeKey, tab, events, overlapped, finish>>
      /\ route = "resumable"
  BY DEF quiet, kind, still, browser, IInv, RouteInv, InHandler
<1>2. /\ chunk' \in [Chunks -> [at : ChunkPc, start : Nat, got : Seq(Nat)]]
      /\ chunk'[c].at = "idle" /\ \A d \in Chunks \ {c} : chunk'[d] = chunk[d]
  <2>1. NoChunk \in [at : ChunkPc, start : Nat, got : Seq(Nat)] /\ NoChunk.at = "idle"
    BY DEF NoChunk, ChunkPc
  <2>2. QED
    BY <2>1 DEF Answer, IInv, Typed
<1>3. \/ awaits = c /\ awaits' = "nobody" /\ offset' = n
      \/ awaits # c /\ UNCHANGED <<awaits, offset>>
  BY DEF Answer
<1>4. awaits = c => offset # N /\ finish = "no" /\ ~confirmed
  <2>1. c # "nobody"
    OBVIOUS
  <2>2. QED
    BY <1>1, <2>1 DEF IInv, ClientInv, WholeInv
<1>5. RouteInv' /\ WholeInv'
  <2>1. finish' # "no" => offset' = N /\ awaits' = "nobody"
    BY <1>1, <1>3, <1>4 DEF IInv, WholeInv
  <2>2. confirmed' => offset' = N /\ awaits' = "nobody"
    BY <1>3, <1>4 DEF IInv, WholeInv
  <2>3. QED
    BY <1>1, <2>1, <2>2, ChunkedFrame
<1>6. Typed'
  BY <1>1, <1>2, <1>3 DEF IInv, Typed
<1>7. ClientInv'
  BY <1>2, <1>3 DEF IInv, ClientInv, Handled, Typed
<1>8. OrderInv'
  <2>1. SUFFICES ASSUME ~overlapped
                 PROVE  /\ Beginning(raw') /\ \A d \in Chunks : ~Handled(d)'
                        /\ offset' = N => raw' = File
    BY <1>1 DEF OrderInv, Handled, InHandler
  <2>2. offset # N /\ \A d, e \in Chunks : Handled(d) /\ Handled(e) => d = e
    BY <1>1, <2>1 DEF IInv, OrderInv, Handled, InHandler
  <2>3. \A d \in Chunks : ~Handled(d)'
    BY <1>2, <2>2 DEF Handled
  <2>4. QED
    BY <1>1, <1>3, <2>1, <2>2, <2>3
<1>9. QED
  BY <1>5, <1>6, <1>7, <1>8 DEF IInv

\* The steps of a handler.
LEMMA ChunkStepInv ==
    ASSUME IInv, NEW c \in Chunks, ChunkStep(c)
    PROVE  IInv'
<1>1. /\ chunk[c].at # "idle" /\ route = "resumable"
      /\ chunk[c].start \in Nat /\ chunk[c].got \in Seq(Nat)
      /\ raw \in Seq(Nat) /\ Len(raw) \in Nat /\ offset \in Nat
  BY DEF ChunkStep, StatChunk, GetStored, PutChunk, FailChunk, IInv, Typed, RouteInv, InHandler
<1>2. ASSUME ~overlapped
      PROVE  Beginning(raw) /\ ChunkInv(c) /\ offset # N
  BY <1>1, <1>2 DEF IInv, OrderInv, Handled, InHandler
<1>3. CASE StatChunk(c)
  <2>1. PICK size \in {Len(raw), 0} :
          \/ chunk[c].start # size /\ Answer(c, size)
          \/ /\ chunk[c].start = size
             /\ Proceed(c, IF size = 0 THEN "put" ELSE "get", <<>>)
             /\ UNCHANGED <<awaits, offset>>
    BY <1>3 DEF StatChunk
  <2>2. UNCHANGED <<raw, overlapped, confirmed, finish, quiet>>
    BY <1>3 DEF StatChunk
  <2>3. CASE Answer(c, size)
    <3>1. ~overlapped => Beginning(raw') /\ (size = N => raw' = File)
      BY <1>1, <1>2, <2>1, <2>2, AllPieces
    <3>2. size \in Nat /\ raw' \in Seq(Nat)
      BY <1>1, <2>1, <2>2
    <3>3. QED
      BY <1>1, <2>2, <2>3, <3>1, <3>2, AnswerStep
  <2>4. CASE /\ chunk[c].start = size
             /\ Proceed(c, IF size = 0 THEN "put" ELSE "get", <<>>)
             /\ UNCHANGED <<awaits, offset>>
    <3>1. CASE size = 0
      <4>1. Proceed(c, "put", <<>>)
        BY <2>4, <3>1
      <4>2. <<>> \in Seq(Nat) /\ Beginning(<<>>) /\ Len(<<>>) = chunk[c].start
        BY <2>4, <3>1, EmptyBeginning
      <4>3. QED
        BY <1>1, <2>2, <2>4, <4>1, <4>2, ProceedStep
    <3>2. CASE size # 0
      <4>1. Proceed(c, "get", <<>>) /\ chunk[c].start = Len(raw)
        BY <2>1, <2>4, <3>2
      <4>2. <<>> \in Seq(Nat)
        OBVIOUS
      <4>3. QED
        BY <1>1, <2>2, <2>4, <4>1, <4>2, ProceedStep
    <3>3. QED
      BY <3>1, <3>2
  <2>5. QED
    BY <2>1, <2>3, <2>4
<1>4. CASE GetStored(c)
  <2>1. /\ chunk[c].at = "get" /\ Proceed(c, "put", raw)
        /\ UNCHANGED <<raw, offset, awaits, overlapped, confirmed, finish, quiet>>
    BY <1>4 DEF GetStored
  <2>2. ~overlapped => Beginning(raw) /\ Len(raw) = chunk[c].start
    BY <1>2, <2>1 DEF ChunkInv
  <2>3. QED
    BY <1>1, <2>1, <2>2, ProceedStep
<1>5. CASE PutChunk(c)
  <2>1. /\ chunk[c].at = "put"
        /\ raw' = Append(chunk[c].got, chunk[c].start + 1)
        /\ UNCHANGED <<overlapped, finish, quiet>>
    BY <1>5 DEF PutChunk
  <2>2. raw' \in Seq(Nat) /\ Len(raw') \in Nat
    BY <1>1, <2>1
  <2>3. ASSUME ~overlapped PROVE Beginning(raw')
    BY <1>2, <2>1, <2>3, NextPiece DEF ChunkInv
  <2>4. CASE /\ Answer(c, Len(raw'))
             /\ confirmed' = (confirmed \/ (awaits = c /\ Len(raw') = N))
    <3>1. ~overlapped => Beginning(raw') /\ (Len(raw') = N => raw' = File)
      BY <2>3, AllPieces
    <3>2. confirmed' => confirmed \/ (awaits = c /\ Len(raw') = N)
      BY <2>4
    <3>3. QED
      BY <1>1, <2>1, <2>2, <2>4, <3>1, <3>2, AnswerStep
  <2>5. CASE Answer(c, offset) /\ UNCHANGED confirmed
    <3>1. ~overlapped => Beginning(raw') /\ (offset = N => raw' = File)
      BY <1>2, <2>3
    <3>2. QED
      BY <1>1, <2>1, <2>2, <2>5, <3>1, AnswerStep
  <2>6. QED
    BY <1>5, <2>4, <2>5 DEF PutChunk
<1>6. CASE FailChunk(c)
  <2>1. Answer(c, offset) /\ UNCHANGED <<raw, overlapped, confirmed, finish, quiet>>
    BY <1>6 DEF FailChunk
  <2>2. ~overlapped => Beginning(raw') /\ (offset = N => raw' = File)
    BY <1>2, <2>1
  <2>3. raw' \in Seq(Nat)
    BY <1>1, <2>1
  <2>4. QED
    BY <1>1, <2>1, <2>2, <2>3, AnswerStep
<1>7. QED
  BY <1>3, <1>4, <1>5, <1>6 DEF ChunkStep

LEMMA StepInv == IInv /\ [Next]_vars => IInv'
<1> SUFFICES ASSUME IInv, [Next]_vars PROVE IInv'
  OBVIOUS
<1>1. ASSUME NEW t \in Tabs, StartUpload(t) \/ TabStep(t) PROVE IInv'
  BY <1>1, TabInv
<1>2. CASE Presign
  BY <1>2, NewInv DEF Presign
<1>3. CASE Upload
  BY <1>3, NewInv DEF Upload
<1>4. CASE CreateMeta
  BY <1>4, NewInv DEF CreateMeta
<1>5. CASE PutPresigned \/ StoreBody \/ StatFinished \/ PublishFinished
  BY <1>5, FinishInv
<1>6. CASE AskOffset \/ PutWhole \/ LoseAnswer \/ FinishChunks
  BY <1>6, ClientStep
<1>7. ASSUME NEW c \in Chunks, SendChunk(c) \/ ChunkStep(c) PROVE IInv'
  BY <1>7, SendStep, ChunkStepInv
<1>8. CASE Age \/ RecList \/ RecStep \/ TakeEvent
  <2>1. UNCHANGED watched
    BY <1>8
        DEF Age, RecList, RecStep, RecStat, RecRepublish, RecAbort, RecFail, TakeEvent,
         beside, kind, browser, chunked, watched
  <2>2. events' \in {events, events \cup {"reconciler"}}
    BY <1>8 DEF Age, RecList, RecStep, RecStat, RecRepublish, RecAbort, RecFail, TakeEvent
  <2>3. Told' <=> Told
    BY <2>2 DEF Told
  <2>4. QED
    BY <2>1, <2>3, Unwatched
<1>9. CASE UNCHANGED vars
  <2>1. UNCHANGED watched /\ (Told' <=> Told)
    BY <1>9 DEF vars, minio, kind, browser, chunked, watched, Told
  <2>2. QED
    BY <2>1, Unwatched
<1>10. QED
  BY <1>1, <1>2, <1>3, <1>4, <1>5, <1>6, <1>7, <1>8, <1>9 DEF Next

-----------------------------------------------------------------------------
(* Theorems *)

LEMMA Invariance == Spec => []IInv
<1>1. QED
  BY InitInv, StepInv, PTL DEF Spec

\* For a file of any size and any number of requests: chunks handled one at a time
\* leave a beginning of the file, whatever is lost, repeated or restarted and whichever
\* sizes could not be read (resumable.go:158-219).
THEOREM ChunksAlwaysInOrder == Spec => []ChunksInOrder
<1>1. IInv => ChunksInOrder
  BY BeginningIsPrefix DEF IInv, OrderInv, ChunksInOrder
<1>2. QED
  BY <1>1, Invariance, PTL

\* What was answered complete, or announced by the client's complete call or its direct
\* upload, is the whole file for as long as no chunk was left behind in a handler.
LEMMA ToldWhole ==
    ASSUME IInv, confirmed \/ Told, ~overlapped
    PROVE  raw = File
<1>1. confirmed => route = "resumable" /\ offset = N
  BY DEF IInv, RouteInv, WholeInv
<1>2. Told => route \in {"presigned", "direct", "resumable"} /\ finish = "done"
  BY DEF IInv, RouteInv
<1>3. CASE route = "resumable"
  BY <1>1, <1>2, <1>3 DEF IInv, WholeInv, OrderInv
<1>4. CASE route \in {"presigned", "direct"}
  BY <1>1, <1>2, <1>4 DEF IInv, WholeInv
<1>5. QED
  BY <1>1, <1>2, <1>3, <1>4

-----------------------------------------------------------------------------
(* Numbers in order: the latest session, the last part seen, the parts joined *)

UpTo(S, p) == {q \in S : q <= p}
Rank(S, p) == Cardinality(UpTo(S, p))

LEMMA UpToFinite ==
    ASSUME NEW S \in SUBSET Nat, IsFiniteSet(S), NEW p \in S
    PROVE  /\ UpTo(S, p) \in SUBSET S /\ IsFiniteSet(UpTo(S, p)) /\ p \in UpTo(S, p)
           /\ Cardinality(S) \in Nat /\ Rank(S, p) \in 1..Cardinality(S)
  <1>1. UpTo(S, p) \in SUBSET S /\ p \in UpTo(S, p)
    BY DEF UpTo
  <1>2. IsFiniteSet(UpTo(S, p)) /\ Cardinality(UpTo(S, p)) <= Cardinality(S)
    BY <1>1, FS_Subset
  <1>3. Cardinality(S) \in Nat /\ Cardinality(UpTo(S, p)) \in Nat
    BY <1>2, FS_CardinalityType
  <1>4. Cardinality(UpTo(S, p)) # 0
    BY <1>1, <1>2, FS_EmptySet
  <1> QED
    BY <1>1, <1>2, <1>3, <1>4 DEF Rank

\* Every number up to the size of a finite set is the rank of one of its members.
LEMMA Ranked ==
    ASSUME NEW S \in SUBSET Nat, IsFiniteSet(S), NEW i \in 1..Cardinality(S)
    PROVE  \E p \in S : Rank(S, p) = i
  <1> DEFINE n == Cardinality(S)
             f == [p \in S |-> Rank(S, p)]
  <1>1. n \in Nat
    BY FS_CardinalityType
  <1>2. f \in [S -> 1..n]
    BY UpToFinite
  <1>3. ASSUME NEW p \in S, NEW q \in S, p < q
        PROVE  Rank(S, p) # Rank(S, q)
    <2>1. UpTo(S, p) \in SUBSET UpTo(S, q) /\ q \in UpTo(S, q) /\ q \notin UpTo(S, p)
      <3>1. p \in Nat /\ q \in Nat /\ \A r \in S : r \in Nat
        OBVIOUS
      <3>2. \A r \in S : r <= p => r <= q
        BY <1>3, <3>1
      <3>3. q <= q /\ ~(q <= p)
        BY <1>3, <3>1
      <3> QED
        BY <3>2, <3>3 DEF UpTo
    <2>2. IsFiniteSet(UpTo(S, q))
      BY UpToFinite
    <2> QED
      BY <2>1, <2>2, FS_Subset DEF Rank
  <1>4. \A p, q \in S : Rank(S, p) = Rank(S, q) => p = q
    <2> SUFFICES ASSUME NEW p \in S, NEW q \in S, p # q
                 PROVE  Rank(S, p) # Rank(S, q)
      OBVIOUS
    <2>1. p < q \/ q < p
      OBVIOUS
    <2> QED
      BY <1>3, <2>1
  <1>5. \A p, q \in S : f[p] = f[q] => p = q
    BY <1>4
  <1> HIDE DEF n
  <1>6. IsFiniteSet(1..n) /\ Cardinality(1..n) = n
    BY <1>1, FS_Interval
  <1>7. f \in Injection(S, 1..n)
    BY <1>2, <1>5 DEF Injection, IsInjective
  <1>8. Cardinality(S) = Cardinality(1..n)
    BY <1>6 DEF n
  <1> HIDE DEF f
  <1>9. f \in Surjection(S, 1..n)
    BY <1>6, <1>7, <1>8, FS_Injection
  <1>10. PICK p \in S : f[p] = i
    BY <1>9 DEF Surjection, n
  <1> QED
    BY <1>10 DEF f

\* A finite set of numbers has a last one.
LEMMA LastIs ==
    ASSUME NEW S \in SUBSET Nat, IsFiniteSet(S), S # {}
    PROVE  \E p \in S : \A q \in S : q <= p
  <1>1. Cardinality(S) \in Nat /\ Cardinality(S) # 0
    BY FS_CardinalityType, FS_EmptySet
  <1>2. PICK p \in S : Rank(S, p) = Cardinality(S)
    BY <1>1, Ranked
  <1>3. UpTo(S, p) = S
    BY <1>2, UpToFinite, FS_Subset DEF Rank
  <1> QED
    BY <1>3 DEF UpTo

LEMMA PartsFinite ==
    ASSUME NEW S \in SUBSET Parts
    PROVE  S \in SUBSET Nat /\ IsFiniteSet(S)
  <1>1. IsFiniteSet(Parts)
    BY FS_Interval DEF Parts
  <1>2. S \in SUBSET Nat
    BY DEF Parts
  <1> QED
    BY <1>1, <1>2, FS_Subset

LEMMA MarkerIs ==
    ASSUME NEW S \in SUBSET Parts, S # {}
    PROVE  Marker(S) \in S /\ \A q \in S : q <= Marker(S)
  <1>1. \E p \in S : \A q \in S : q <= p
    BY PartsFinite, LastIs
  <1> QED
    BY <1>1 DEF Marker

LEMMA LatestIs ==
    ASSUME OpenIds # {}
    PROVE  Latest \in OpenIds
  <1>1. OpenIds \in SUBSET Ids /\ IsFiniteSet(Ids) /\ Ids \in SUBSET Nat
    BY FS_Interval, SizesAssumption DEF OpenIds, Ids, SizesAssumption
  <1>2. IsFiniteSet(OpenIds) /\ OpenIds \in SUBSET Nat
    BY <1>1, FS_Subset
  <1>3. \E i \in OpenIds : \A j \in OpenIds : j <= i
    BY <1>2, LastIs
  <1> QED
    BY <1>3 DEF Latest

\* Parts are joined to a sequence of their pieces, and all of them to the file.
LEMMA JoinedType ==
    ASSUME NEW S \in SUBSET Parts
    PROVE  Joined(S) \in Seq(Parts)
  <1>1. S \in SUBSET Nat /\ IsFiniteSet(S)
    BY PartsFinite
  <1>2. Cardinality(S) \in Nat
    BY <1>1, FS_CardinalityType
  <1>3. \A i \in 1..Cardinality(S) : (CHOOSE p \in S : Rank(S, p) = i) \in Parts
    BY <1>1, Ranked
  <1>4. Joined(S) = [i \in 1..Cardinality(S) |-> CHOOSE p \in S : Rank(S, p) = i]
    BY DEF Joined, Rank, UpTo
  <1> QED
    BY <1>2, <1>3, <1>4

LEMMA JoinedWhole == Joined(Parts) = File
  <1>1. Cardinality(Parts) = N
    BY FS_Interval DEF Parts
  <1>2. \A p \in Parts : Rank(Parts, p) = p
    <2> SUFFICES ASSUME NEW p \in Parts
                 PROVE  Cardinality(UpTo(Parts, p)) = p
      BY DEF Rank
    <2>1. UpTo(Parts, p) = 1..p /\ p \in Nat /\ p >= 1
      BY DEF UpTo, Parts
    <2> QED
      BY <2>1, FS_Interval
  <1>3. \A i \in 1..N : (CHOOSE p \in Parts : Rank(Parts, p) = i) = i
    BY <1>2 DEF Parts
  <1>4. Joined(Parts) = [i \in 1..N |-> CHOOSE p \in Parts : Rank(Parts, p) = i]
    BY <1>1 DEF Joined, Rank, UpTo
  <1> QED
    BY <1>3, <1>4 DEF File

-----------------------------------------------------------------------------
(* Types *)

\* A chunk starts within the file, so what is stored consists of its pieces.
TypeInv == TypeOK /\ \A c \in Chunks : chunk[c].start < N

LEMMA Bounds ==
    /\ MaxSessions \in Nat \ {0} /\ MaxStarts \in Nat /\ MaxFaults \in Nat
    /\ 1 \in Ids /\ 1 \in Parts
  BY SizesAssumption DEF SizesAssumption, Ids, Parts

Sessions   == [open : BOOLEAN, used : BOOLEAN, parts : SUBSET Parts]
ChunkCalls == [at : ChunkPc, start : Nat, got : Seq(Parts)]

LEMMA FileType == File \in Seq(Parts)
  BY DEF File, Parts

\* What the tabs and their calls change.
TabTypes ==
    /\ row \in {"none", "uploaded", "processing", "failed"}
    /\ session \in [Ids -> Sessions]
    /\ raw \in Seq(Parts)
    /\ events \subseteq {"multipart", "finish", "direct", "reconciler"}
    /\ route \in {"none", "multipart", "presigned", "resumable", "direct"}
    /\ ctype \in {"video", "octet"}
    /\ resumeKey \in BOOLEAN /\ tab \in [Tabs -> TabPc] /\ part \in [Tabs -> Parts]
    /\ found \in [Tabs -> Ids] /\ listed \in [Tabs -> SUBSET Parts]
    /\ starts \in 0..MaxStarts /\ faults \in 0..MaxFaults

\* What the other uploads and the reconciler change.
RestTypes ==
    /\ aged \in BOOLEAN
    /\ offset \in Nat /\ awaits \in Chunks \cup {"nobody"}
    /\ chunk \in [Chunks -> ChunkCalls] /\ \A c \in Chunks : chunk[c].start < N
    /\ finish \in {"no", "store", "stat", "publish", "done"}
    /\ rec \in {"off", "stat", "republish", "find", "fail"}
    /\ aborted \in BOOLEAN /\ overlapped \in BOOLEAN /\ confirmed \in BOOLEAN

LEMMA TypeParts == TypeInv <=> TabTypes /\ RestTypes
  BY DEF TypeInv, TypeOK, TabTypes, RestTypes, Sessions, ChunkCalls

LEMMA InitTypes == Init => TypeInv
  <1> SUFFICES ASSUME Init PROVE TypeInv
    OBVIOUS
  <1>1. NoChunk \in ChunkCalls /\ NoChunk.start < N
    BY DEF NoChunk, ChunkCalls, ChunkPc
  <1>2. chunk \in [Chunks -> ChunkCalls] /\ \A c \in Chunks : chunk[c].start < N
    BY <1>1 DEF Init
  <1>3. session \in [Ids -> Sessions]
    BY DEF Init, Sessions
  <1>4. RestTypes
    BY <1>2 DEF Init, RestTypes
  <1>5. /\ tab \in [Tabs -> TabPc] /\ part \in [Tabs -> Parts] /\ found \in [Tabs -> Ids]
        /\ listed \in [Tabs -> SUBSET Parts]
    BY Bounds DEF Init, TabPc
  <1>6. starts \in 0..MaxStarts /\ faults \in 0..MaxFaults
    BY Bounds DEF Init
  <1>7. raw \in Seq(Parts) /\ row = "none" /\ route = "none" /\ ctype = "video"
        /\ events = {} /\ resumeKey = FALSE
    BY DEF Init
  <1>8. TabTypes
    BY <1>3, <1>5, <1>6, <1>7 DEF TabTypes
  <1> QED
    BY <1>4, <1>8, TypeParts

LEMMA FaultType ==
    ASSUME faults \in 0..MaxFaults, Fault \/ Smooth
    PROVE  faults' \in 0..MaxFaults
  BY Bounds DEF Fault, Smooth

\* Storing a part, completing and aborting keep the type of a session.
LEMMA SessionType ==
    ASSUME NEW f \in [Ids -> Sessions], NEW i \in Ids
    PROVE  /\ \A p \in Parts : [f EXCEPT ![i].parts = @ \cup {p}] \in [Ids -> Sessions]
           /\ [f EXCEPT ![i].open = FALSE, ![i].parts = {}] \in [Ids -> Sessions]
  BY DEF Sessions

LEMMA TabTypesKept ==
    ASSUME TabTypes, NEW t \in Tabs, StartUpload(t) \/ TabStep(t)
    PROVE  TabTypes'
  <1>1. /\ tab \in [Tabs -> TabPc] /\ part \in [Tabs -> Parts] /\ found \in [Tabs -> Ids]
        /\ listed \in [Tabs -> SUBSET Parts] /\ session \in [Ids -> Sessions]
        /\ faults \in 0..MaxFaults /\ starts \in 0..MaxStarts
    BY DEF TabTypes
  <1>2. \A l \in TabPc : Goto(t, l) => tab' \in [Tabs -> TabPc]
    BY <1>1 DEF Goto
  <1>3. {"idle", "list", "create", "presign", "put", "find", "pages", "assemble", "stat",
         "publish", "answer"} \subseteq TabPc
    BY DEF TabPc
  <1>4. CASE StartUpload(t)
    <2>1. starts' \in 0..MaxStarts
      BY <1>1, <1>4, Bounds DEF StartUpload
    <2>2. tab' \in [Tabs -> TabPc] /\ route' \in {route, "multipart"}
      BY <1>2, <1>3, <1>4 DEF StartUpload
    <2> QED
      BY <1>4, <2>1, <2>2 DEF StartUpload, TabTypes, meta, minio, mpCall
  <1>5. CASE ListForResume(t)
    <2>1. tab' \in [Tabs -> TabPc] /\ resumeKey' \in {resumeKey, FALSE}
      BY <1>2, <1>3, <1>5 DEF ListForResume
    <2>2. part' \in [Tabs -> Parts]
      BY <1>1, <1>5, Bounds DEF ListForResume
    <2>3. faults' \in 0..MaxFaults
      BY <1>1, <1>5, FaultType DEF ListForResume
    <2> QED
      BY <1>5, <2>1, <2>2, <2>3 DEF ListForResume, TabTypes, minio, mpCall, others, kind
  <1>6. CASE Create(t)
    <2>1. PICK k \in 0..MaxSessions :
            /\ session' = [i \in Ids |-> [session[i] EXCEPT !.open = i <= k, !.used = i <= k]]
            /\ \/ /\ k > 0 /\ faults >= k - 1
                  /\ faults' = faults - (k - 1)
                  /\ Goto(t, "presign") /\ resumeKey' = TRUE
               \/ Fault /\ Goto(t, "idle") /\ UNCHANGED resumeKey
      BY <1>6 DEF Create
    <2>2. session' \in [Ids -> Sessions]
      <3> SUFFICES ASSUME NEW i \in Ids
                   PROVE  [session[i] EXCEPT !.open = i <= k, !.used = i <= k] \in Sessions
        BY <2>1
      <3>1. session[i] \in Sessions /\ (i <= k) \in BOOLEAN
        BY <1>1
      <3> QED
        BY <3>1 DEF Sessions
    <2>3. faults' \in 0..MaxFaults
      <3>1. CASE Fault
        BY <1>1, <3>1, FaultType
      <3>2. CASE k > 0 /\ faults >= k - 1 /\ faults' = faults - (k - 1)
        BY <1>1, <3>2, Bounds
      <3> QED
        BY <2>1, <3>1, <3>2
    <2>4. tab' \in [Tabs -> TabPc] /\ resumeKey' \in {resumeKey, TRUE}
      BY <1>2, <1>3, <2>1
    <2>5. part' \in [Tabs -> Parts]
      BY <1>1, <1>6, Bounds DEF Create
    <2> QED
      BY <1>6, <2>2, <2>3, <2>4, <2>5 DEF Create, TabTypes, mpCall
  <1>7. CASE PresignPart(t)
    <2>1. Latest \in Ids
      BY <1>7, LatestIs DEF PresignPart, OpenIds
    <2>2. tab' \in [Tabs -> TabPc] /\ found' \in [Tabs -> Ids]
      BY <1>1, <1>2, <1>3, <1>7, <2>1 DEF PresignPart
    <2> QED
      BY <1>7, <2>2 DEF PresignPart, TabTypes, minio, others, kind
  <1>8. CASE PutPart(t)
    <2>1. session' \in [Ids -> Sessions]
      BY <1>1, <1>8, SessionType DEF PutPart, StorePart
    <2>2. tab' \in [Tabs -> TabPc]
      BY <1>1, <1>2, <1>3, <1>8 DEF PutPart
    <2>3. part' \in [Tabs -> Parts]
      BY <1>1, <1>8 DEF PutPart, Parts
    <2>4. faults' \in 0..MaxFaults
      BY <1>1, <1>8, FaultType DEF PutPart
    <2> QED
      BY <1>8, <2>1, <2>2, <2>3, <2>4 DEF PutPart, TabTypes, mpCall, others, kind
  <1>9. CASE FindSession(t)
    <2>1. Latest \in Ids
      BY <1>9, LatestIs DEF FindSession, OpenIds
    <2>2. tab' \in [Tabs -> TabPc] /\ found' \in [Tabs -> Ids]
          /\ listed' \in [Tabs -> SUBSET Parts]
      BY <1>1, <1>2, <1>3, <1>9, <2>1 DEF FindSession
    <2> QED
      BY <1>9, <2>2 DEF FindSession, TabTypes, minio, others, kind
  <1>10. CASE ListPage(t)
    <2>1. session[found[t]].parts \subseteq Parts /\ listed[t] \subseteq Parts
      BY <1>1 DEF Sessions
    <2>2. listed' \in [Tabs -> SUBSET Parts]
      BY <1>1, <1>10, <2>1 DEF ListPage, PageAfter
    <2>3. tab' \in [Tabs -> TabPc]
      BY <1>2, <1>3, <1>10 DEF ListPage
    <2> QED
      BY <1>10, <2>2, <2>3 DEF ListPage, TabTypes, minio, others, kind
  <1>11. CASE Assemble(t)
    <2>1. raw' \in Seq(Parts)
      BY <1>1, <1>11, JoinedType DEF Assemble
    <2>2. session' \in [Ids -> Sessions]
      BY <1>1, <1>11, SessionType DEF Assemble
    <2>3. tab' \in [Tabs -> TabPc]
      BY <1>2, <1>3, <1>11 DEF Assemble
    <2> QED
      BY <1>11, <2>1, <2>2, <2>3 DEF Assemble, TabTypes, mpCall, others, kind
  <1>12. CASE StatAssembled(t) \/ PublishAssembled(t) \/ Done(t) \/ SessionGone(t) \/ GiveUp(t)
    <2>1. \E l \in {"publish", "idle", "answer"} : Goto(t, l)
      BY <1>12 DEF StatAssembled, PublishAssembled, Done, SessionGone, GiveUp
    <2>2. tab' \in [Tabs -> TabPc]
      BY <1>2, <1>3, <2>1
    <2>3. faults' \in 0..MaxFaults
      BY <1>1, <1>12, FaultType
         DEF StatAssembled, PublishAssembled, Done, SessionGone, GiveUp, Smooth
    <2>4. events' \in {events, events \cup {"multipart"}} /\ resumeKey' \in {resumeKey, FALSE}
      BY <1>12 DEF StatAssembled, PublishAssembled, Done, SessionGone, GiveUp, others
    <2>5. UNCHANGED <<row, session, raw, route, ctype, part, found, listed, starts>>
      BY <1>12 DEF StatAssembled, PublishAssembled, Done, SessionGone, GiveUp, minio, mpCall,
         others, kind, meta
    <2> QED
      BY <2>2, <2>3, <2>4, <2>5 DEF TabTypes
  <1> QED
    BY <1>4, <1>5, <1>6, <1>7, <1>8, <1>9, <1>10, <1>11, <1>12 DEF TabStep

\* Nothing that a tab does concerns the others.
LEMMA TabRestKept ==
    ASSUME RestTypes, NEW t \in Tabs, StartUpload(t) \/ TabStep(t)
    PROVE  RestTypes'
  <1>1. UNCHANGED <<aged, chunked, finish, rec, aborted>>
    BY DEF StartUpload, TabStep, ListForResume, Create, PresignPart, PutPart, FindSession,
       ListPage, Assemble, StatAssembled, PublishAssembled, Done, SessionGone, GiveUp, others,
       meta
  <1> QED
    BY <1>1 DEF RestTypes, chunked

\* A chunk request that is idle, or at a step with what it has read.
LEMMA ChunkTyped ==
    ASSUME RestTypes, NEW c \in Chunks, NEW k \in ChunkCalls, k.start < N,
           chunk' = [chunk EXCEPT ![c] = k]
    PROVE  chunk' \in [Chunks -> ChunkCalls] /\ \A d \in Chunks : chunk'[d].start < N
  BY DEF RestTypes

LEMMA AnswerTyped ==
    ASSUME RestTypes, NEW c \in Chunks, NEW n \in Nat, Answer(c, n)
    PROVE  /\ chunk' \in [Chunks -> ChunkCalls] /\ \A d \in Chunks : chunk'[d].start < N
           /\ awaits' \in Chunks \cup {"nobody"} /\ offset' \in Nat
  <1>1. NoChunk \in ChunkCalls /\ NoChunk.start < N
    BY DEF NoChunk, ChunkCalls, ChunkPc
  <1>2. chunk' = [chunk EXCEPT ![c] = NoChunk]
    BY DEF Answer
  <1>3. awaits' \in Chunks \cup {"nobody"} /\ offset' \in Nat
    BY DEF Answer, RestTypes
  <1> QED
    BY <1>1, <1>2, <1>3, ChunkTyped

LEMMA ProceedTyped ==
    ASSUME RestTypes, NEW c \in Chunks, NEW l \in ChunkPc, NEW data \in Seq(Parts),
           Proceed(c, l, data)
    PROVE  chunk' \in [Chunks -> ChunkCalls] /\ \A d \in Chunks : chunk'[d].start < N
  <1> DEFINE k == [chunk[c] EXCEPT !.at = l, !.got = data]
  <1>1. chunk[c] \in ChunkCalls /\ chunk[c].start < N
    BY DEF RestTypes
  <1>2. k \in ChunkCalls /\ k.start < N
    BY <1>1 DEF ChunkCalls
  <1>3. chunk' = [chunk EXCEPT ![c] = k]
    BY DEF Proceed, RestTypes
  <1> HIDE DEF k
  <1> QED
    BY <1>2, <1>3, ChunkTyped

\* No call of a tab is touched.
LEMMA TabTypesFrame ==
    ASSUME TabTypes, UNCHANGED <<session, browser, mpCall>>,
           row' \in {row, "uploaded", "processing", "failed"},
           raw' \in Seq(Parts),
           events' \subseteq events \cup {"finish", "direct", "reconciler"},
           route' \in {route, "presigned", "resumable", "direct"},
           ctype' \in {"video", "octet"},
           faults' \in 0..MaxFaults
    PROVE  TabTypes'
  BY DEF TabTypes, browser, mpCall

\* The other ways to upload.
LEMMA RestSteps ==
    ASSUME TabTypes, RestTypes,
           \/ Presign \/ Upload \/ CreateMeta \/ PutPresigned
           \/ StoreBody \/ StatFinished \/ PublishFinished
           \/ AskOffset \/ PutWhole \/ LoseAnswer \/ FinishChunks
    PROVE  TabTypes' /\ RestTypes'
  <1>1. raw \in Seq(Parts) /\ Len(raw) \in Nat /\ File \in Seq(Parts)
        /\ ctype \in {"video", "octet"} /\ faults \in 0..MaxFaults
    BY FileType DEF TabTypes
  <1>2. UNCHANGED <<session, browser, mpCall, aged, rec, aborted, chunk>>
    BY DEF Presign, Upload, CreateMeta, NewRow, PutPresigned, StoreBody, StatFinished,
       PublishFinished, AskOffset, PutWhole, LoseAnswer, FinishChunks, quiet, still, chunked
  <1>3. raw' \in Seq(Parts)
    BY <1>1 DEF Presign, Upload, CreateMeta, NewRow, PutPresigned, StoreBody, StatFinished,
       PublishFinished, AskOffset, PutWhole, LoseAnswer, FinishChunks
  <1>4. faults' \in 0..MaxFaults
    BY <1>1, FaultType DEF Presign, Upload, CreateMeta, NewRow, PutPresigned, StoreBody,
       StatFinished, PublishFinished, AskOffset, PutWhole, LoseAnswer, FinishChunks, Smooth
  <1>5. row' \in {row, "uploaded"} /\ ctype' \in {"video", "octet"}
        /\ route' \in {route, "presigned", "resumable", "direct"}
        /\ events' \subseteq events \cup {"finish", "direct"}
    BY <1>1 DEF Presign, Upload, CreateMeta, NewRow, PutPresigned, StoreBody, StatFinished,
       PublishFinished, AskOffset, PutWhole, LoseAnswer, FinishChunks, quiet, kind
  <1>6. TabTypes'
    BY <1>2, <1>3, <1>4, <1>5, TabTypesFrame
  <1>7. finish' \in {finish, "store", "stat", "publish", "done"}
    BY DEF Presign, Upload, CreateMeta, NewRow, PutPresigned, StoreBody, StatFinished,
       PublishFinished, AskOffset, PutWhole, LoseAnswer, FinishChunks
  <1>8. offset' \in {offset, Len(raw), 0, N} /\ awaits' \in {awaits, "nobody"}
        /\ overlapped' \in {overlapped, overlapped \/ InHandler} /\ UNCHANGED confirmed
    BY DEF Presign, Upload, CreateMeta, NewRow, PutPresigned, StoreBody, StatFinished,
       PublishFinished, AskOffset, PutWhole, LoseAnswer, FinishChunks, quiet, still, chunked
  <1>9. offset' \in Nat
    BY <1>1, <1>8 DEF RestTypes
  <1>10. overlapped' \in BOOLEAN
    BY <1>8 DEF RestTypes
  <1> QED
    BY <1>2, <1>6, <1>7, <1>8, <1>9, <1>10 DEF RestTypes

\* The client's chunks and their handlers.
LEMMA ChunkTypes ==
    ASSUME TabTypes, RestTypes, NEW c \in Chunks, SendChunk(c) \/ ChunkStep(c)
    PROVE  TabTypes' /\ RestTypes'
  <1>1. /\ raw \in Seq(Parts) /\ Len(raw) \in Nat /\ offset \in Nat /\ faults \in 0..MaxFaults
        /\ chunk[c] \in ChunkCalls /\ chunk[c].start < N /\ ctype \in {"video", "octet"}
    BY DEF TabTypes, RestTypes
  <1>2. UNCHANGED <<session, browser, mpCall, row, events, route, ctype, aged, rec, aborted,
                    finish>>
    BY DEF SendChunk, ChunkStep, StatChunk, GetStored, PutChunk, FailChunk, quiet, still, kind
  <1>3. ASSUME raw' \in Seq(Parts), faults' \in 0..MaxFaults PROVE TabTypes'
    BY <1>1, <1>2, <1>3, TabTypesFrame
  <1>4. ASSUME chunk' \in [Chunks -> ChunkCalls] /\ \A d \in Chunks : chunk'[d].start < N,
               awaits' \in Chunks \cup {"nobody"} /\ offset' \in Nat,
               overlapped' \in BOOLEAN, confirmed' \in BOOLEAN
        PROVE  RestTypes'
    BY <1>2, <1>4 DEF RestTypes
  <1>5. awaits \in Chunks \cup {"nobody"} /\ overlapped \in BOOLEAN /\ confirmed \in BOOLEAN
    BY DEF RestTypes
  <1>6. "stat" \in ChunkPc /\ "get" \in ChunkPc /\ "put" \in ChunkPc
    BY DEF ChunkPc
  <1>7. CASE SendChunk(c)
    <2> DEFINE k == [at |-> "stat", start |-> offset, got |-> <<>>]
    <2>1. k \in ChunkCalls /\ k.start < N
      BY <1>1, <1>6, <1>7 DEF SendChunk, ChunkCalls
    <2>2. chunk' = [chunk EXCEPT ![c] = k] /\ awaits' = c
          /\ overlapped' = (overlapped \/ InHandler) /\ UNCHANGED <<raw, offset, confirmed, faults>>
      BY <1>7 DEF SendChunk
    <2> HIDE DEF k
    <2>3. chunk' \in [Chunks -> ChunkCalls] /\ \A d \in Chunks : chunk'[d].start < N
      BY <2>1, <2>2, ChunkTyped
    <2>4. overlapped' \in BOOLEAN
      BY <2>2
    <2> QED
      BY <1>1, <1>3, <1>4, <1>5, <2>2, <2>3, <2>4
  <1>8. CASE StatChunk(c)
    <2>1. PICK size \in {Len(raw), 0} :
            \/ Answer(c, size)
            \/ /\ Proceed(c, IF size = 0 THEN "put" ELSE "get", <<>>)
               /\ UNCHANGED <<awaits, offset>>
      BY <1>8 DEF StatChunk
    <2>2. UNCHANGED <<raw, overlapped, confirmed>> /\ (Fault \/ Smooth)
      BY <1>8 DEF StatChunk
    <2>3. faults' \in 0..MaxFaults
      BY <1>1, <2>2, FaultType
    <2>4. CASE Answer(c, size)
      <3>1. size \in Nat
        BY <1>1
      <3> QED
        BY <1>1, <1>3, <1>4, <1>5, <2>2, <2>3, <2>4, <3>1, AnswerTyped
    <2>5. CASE /\ Proceed(c, IF size = 0 THEN "put" ELSE "get", <<>>)
               /\ UNCHANGED <<awaits, offset>>
      <3>1. (IF size = 0 THEN "put" ELSE "get") \in ChunkPc /\ <<>> \in Seq(Parts)
        BY <1>6
      <3>2. chunk' \in [Chunks -> ChunkCalls] /\ \A d \in Chunks : chunk'[d].start < N
        BY <2>5, <3>1, ProceedTyped
      <3> QED
        BY <1>1, <1>3, <1>4, <1>5, <2>2, <2>3, <2>5, <3>2
    <2> QED
      BY <2>1, <2>4, <2>5
  <1>9. CASE GetStored(c)
    <2>1. Proceed(c, "put", raw) /\ UNCHANGED <<raw, offset, awaits, overlapped, confirmed, faults>>
      BY <1>9 DEF GetStored
    <2>2. chunk' \in [Chunks -> ChunkCalls] /\ \A d \in Chunks : chunk'[d].start < N
      BY <1>1, <1>6, <2>1, ProceedTyped
    <2> QED
      BY <1>1, <1>3, <1>4, <1>5, <2>1, <2>2
  <1>10. CASE PutChunk(c)
    <2>1. raw' \in Seq(Parts)
      <3>1. chunk[c].start + 1 \in Parts /\ chunk[c].got \in Seq(Parts)
        BY <1>1 DEF ChunkCalls, Parts
      <3>2. raw' = Append(chunk[c].got, chunk[c].start + 1)
        BY <1>10 DEF PutChunk
      <3> QED
        BY <3>1, <3>2
    <2>2. \E n \in Nat : Answer(c, n)
      BY <1>1, <1>10, <2>1 DEF PutChunk
    <2>3. faults' \in 0..MaxFaults
      BY <1>1, <1>10, FaultType DEF PutChunk
    <2>4. UNCHANGED overlapped /\ confirmed' \in BOOLEAN
      BY <1>5, <1>10 DEF PutChunk
    <2> QED
      BY <1>3, <1>4, <1>5, <2>1, <2>2, <2>3, <2>4, AnswerTyped
  <1>11. CASE FailChunk(c)
    <2>1. Answer(c, offset) /\ UNCHANGED <<raw, overlapped, confirmed>> /\ Fault
      BY <1>11 DEF FailChunk
    <2>2. faults' \in 0..MaxFaults
      BY <1>1, <2>1, FaultType
    <2> QED
      BY <1>1, <1>3, <1>4, <1>5, <2>1, <2>2, AnswerTyped
  <1> QED
    BY <1>7, <1>8, <1>9, <1>10, <1>11 DEF ChunkStep

\* The reconciler, and the worker.
LEMMA BesideTypes ==
    ASSUME TabTypes, RestTypes, Age \/ RecList \/ RecStep \/ TakeEvent
    PROVE  TabTypes' /\ RestTypes'
  <1>1. UNCHANGED <<raw, kind, browser, mpCall, chunked, finish>>
    BY DEF Age, RecList, RecStep, RecStat, RecRepublish, RecAbort, RecFail, TakeEvent, beside
  <1>2. session' \in [Ids -> Sessions]
    <2>1. session \in [Ids -> Sessions]
      BY DEF TabTypes
    <2>2. CASE UNCHANGED session
      BY <2>1, <2>2
    <2>3. CASE OpenIds # {}
               /\ session' = [session EXCEPT ![Latest].open = FALSE, ![Latest].parts = {}]
      BY <2>1, <2>3, LatestIs, SessionType DEF OpenIds
    <2> QED
      BY <2>2, <2>3
         DEF Age, RecList, RecStep, RecStat, RecRepublish, RecAbort, RecFail, TakeEvent
  <1>3. faults' \in 0..MaxFaults
    BY FaultType DEF TabTypes, Age, RecList, RecStep, RecStat, RecRepublish, RecAbort, RecFail,
       TakeEvent, Smooth
  <1>4. /\ row' \in {row, "failed", "processing"} /\ aged' \in {aged, TRUE}
        /\ events' \subseteq events \cup {"reconciler"}
        /\ rec' \in {rec, "off", "stat", "republish", "find", "fail"}
        /\ aborted' \in {aborted, TRUE}
    BY DEF Age, RecList, RecStep, RecStat, RecRepublish, RecAbort, RecFail, TakeEvent, meta
  <1>5. TabTypes'
    BY <1>1, <1>2, <1>3, <1>4 DEF TabTypes, kind, browser, mpCall
  <1>6. RestTypes'
    BY <1>1, <1>4 DEF RestTypes, chunked
  <1> QED
    BY <1>5, <1>6

LEMMA NextTypes == TypeInv /\ [Next]_vars => TypeInv'
  <1> SUFFICES ASSUME TypeInv, [Next]_vars PROVE TypeInv'
    OBVIOUS
  <1>1. TabTypes /\ RestTypes
    BY TypeParts
  <1>2. TabTypes' /\ RestTypes'
    <2>1. ASSUME NEW t \in Tabs, StartUpload(t) \/ TabStep(t) PROVE TabTypes' /\ RestTypes'
      BY <1>1, <2>1, TabTypesKept, TabRestKept
    <2>2. ASSUME NEW c \in Chunks, SendChunk(c) \/ ChunkStep(c) PROVE TabTypes' /\ RestTypes'
      BY <1>1, <2>2, ChunkTypes
    <2>3. CASE UNCHANGED vars
      BY <1>1, <2>3 DEF vars, TabTypes, RestTypes, meta, minio, kind, browser, mpCall, chunked
    <2> QED
      BY <1>1, <2>1, <2>2, <2>3, RestSteps, BesideTypes DEF Next
  <1>3. (TabTypes /\ RestTypes)' <=> TypeInv'
    BY TypeParts, PTL
  <1> QED
    BY <1>2, <1>3

\* What is stored consists of pieces of the file, perhaps repeated, whatever chunks,
\* sessions and calls it was put together from, and no tab or session counts a part that
\* the file does not have (multipart.go:235-263, resumable.go:158-219).
THEOREM TypeCorrect == Spec => []TypeOK
  <1>1. TypeInv => TypeOK
    BY DEF TypeInv
  <1> QED
    BY <1>1, InitTypes, NextTypes, PTL DEF Spec

-----------------------------------------------------------------------------
(* The whole file in parts *)

\* Create left one session, or none.
Single == \A i, j \in Ids : session[i].used /\ session[j].used => i = j

\* No session has been opened at the key.
Unopened == \A i \in Ids : ~session[i].open /\ ~session[i].used

\* Only the tab that creates the video knows of it, and sessions are opened once.
SessionInv ==
    /\ route = "none" => Unopened
    /\ \A t \in Tabs : tab[t] = "create" =>
         Unopened /\ ~resumeKey /\ \A u \in Tabs \ {t} : tab[u] = "idle"
    /\ \A i \in Ids : session[i].open => session[i].used

\* The first parts of the file, or none.
FirstParts(S) == S \subseteq Parts /\ \A p \in S, q \in Parts : q <= p => q \in S

Holds(s, S) == \A i \in Ids : s[i].open => S \subseteq s[i].parts

\* Where a tab is: what it has sent is in the session that is open, and what it has
\* listed are the first parts, in the end all.
Progress(at, p, f, l, s) ==
    /\ at \in {"presign", "put"} => Holds(s, 1..(p - 1))
    /\ at = "find" => Holds(s, Parts)
    /\ at = "pages" => FirstParts(l) /\ (s[f].open => s[f].parts = Parts)
    /\ at = "assemble" => l = Parts

WholeFile ==
    Single =>
        /\ \A t \in Tabs : Progress(tab[t], part[t], found[t], listed[t], session)
        /\ route = "multipart" => raw \in {<<>>, File}

PartsWhole == IInv /\ TypeInv /\ SessionInv /\ WholeFile

\* A page after the first parts leaves the first parts, and the last page all
\* (ListObjectParts).
LEMMA PageOfFirst ==
    ASSUME NEW S, FirstParts(S)
    PROVE  FirstParts(S \cup PageAfter(Parts, Marker(S)))
  <1> DEFINE m == Marker(S)
             P == PageAfter(Parts, m)
  <1>1. S \in SUBSET Parts /\ P \subseteq Parts
    BY DEF FirstParts, PageAfter
  <1>2. m \in Nat /\ \A q \in Parts : q <= m => q \in S
    <2>1. CASE S = {}
      BY <2>1 DEF Marker, Parts
    <2>2. CASE S # {}
      <3>1. m \in S
        BY <1>1, <2>2, MarkerIs
      <3> HIDE DEF m
      <3>2. m \in Nat
        BY <1>1, <3>1 DEF Parts
      <3>3. \A q \in Parts : q <= m => q \in S
        BY <3>1 DEF FirstParts
      <3> QED
        BY <3>2, <3>3
    <2> QED
      BY <2>1, <2>2
  <1> HIDE DEF m
  <1>3. ASSUME NEW p \in P, NEW q \in Parts, q <= p, ~(q <= m)
        PROVE  q \in P
    <2> DEFINE Between(x) == {y \in Parts : m < y /\ y <= x}
    <2>1. Cardinality(Between(p)) <= PageSize /\ p \in Parts
      BY DEF PageAfter
    <2>2. p \in Nat /\ q \in Nat /\ \A y \in Parts : y \in Nat
      BY <2>1 DEF Parts
    <2>3. Between(q) \in SUBSET Between(p) /\ Between(p) \in SUBSET Parts
      <3>1. \A y \in Parts : y <= q => y <= p
        BY <1>3, <2>2
      <3> QED
        BY <3>1
    <2>4. IsFiniteSet(Between(p)) /\ IsFiniteSet(Between(q))
      BY <2>3, PartsFinite, FS_Subset
    <2>5. Cardinality(Between(q)) <= Cardinality(Between(p))
          /\ Cardinality(Between(q)) \in Nat /\ Cardinality(Between(p)) \in Nat
      BY <2>3, <2>4, FS_Subset, FS_CardinalityType
    <2>6. Cardinality(Between(q)) <= PageSize
      <3> HIDE DEF Between
      <3>1. PageSize \in Nat
        BY SizesAssumption DEF SizesAssumption
      <3> QED
        BY <2>1, <2>5, <3>1
    <2>7. q > m
      BY <1>2, <1>3, <2>2
    <2> QED
      BY <2>6, <2>7 DEF PageAfter
  <1>4. ASSUME NEW p \in S \cup P, NEW q \in Parts, q <= p
        PROVE  q \in S \cup P
    <2>1. CASE q <= m
      BY <1>2, <2>1
    <2>2. CASE p \in S
      BY <1>4, <2>2 DEF FirstParts
    <2>3. CASE p \in P /\ ~(q <= m)
      BY <1>3, <1>4, <2>3
    <2> QED
      BY <2>1, <2>2, <2>3
  <1>5. FirstParts(S \cup P)
    BY <1>1, <1>4 DEF FirstParts
  <1> QED
    BY <1>5 DEF m

LEMMA LastPage ==
    ASSUME NEW S, FirstParts(S), ~Truncated(Parts, S)
    PROVE  S = Parts
  <1>1. S \in SUBSET Parts /\ N \in Parts
    BY DEF FirstParts, Parts
  <1>2. ~(N > Marker(S))
    BY <1>1 DEF Truncated
  <1>3. S # {}
    BY <1>2 DEF Marker
  <1>4. Marker(S) \in S /\ Marker(S) \in Parts
    BY <1>1, <1>3, MarkerIs
  <1>5. Marker(S) = N
    BY <1>2, <1>4 DEF Parts
  <1>6. \A q \in Parts : q <= N
    BY DEF Parts
  <1> QED
    BY <1>1, <1>4, <1>5, <1>6 DEF FirstParts

LEMMA InitWhole == Init => PartsWhole
  <1> SUFFICES ASSUME Init PROVE PartsWhole
    OBVIOUS
  <1>1. SessionInv
    BY DEF Init, SessionInv, Unopened
  <1>2. WholeFile
    BY DEF Init, WholeFile, Progress
  <1> QED
    BY <1>1, <1>2, InitInv, InitTypes DEF PartsWhole

\* While the open sessions stay or end, and keep their parts, tabs stay where they are.
LEMMA ProgressStays ==
    ASSUME NEW at, NEW p, NEW f \in Ids, NEW l, NEW s, NEW u, Progress(at, p, f, l, s),
           \A i \in Ids : u[i].open => s[i].open /\ s[i].parts \subseteq u[i].parts
                                       /\ u[i].parts \subseteq Parts
    PROVE  Progress(at, p, f, l, u)
  <1>1. \A S : Holds(s, S) => Holds(u, S)
    BY DEF Holds
  <1> QED
    BY <1>1 DEF Progress

\* A step that opens no session.
Ends(s, u) ==
    \A i \in Ids : /\ u[i].used = s[i].used
                   /\ u[i].open => s[i].open /\ s[i].parts \subseteq u[i].parts
                                   /\ u[i].parts \subseteq Parts

\* No tab moves: the reconciler, and the other ways to upload.
LEMMA TabsStay ==
    ASSUME PartsWhole, IInv', TypeInv', UNCHANGED <<tab, part, found, listed>>,
           Ends(session, session'), UNCHANGED resumeKey,
           route' = route \/ (route = "none" /\ route' # "multipart"),
           route = "multipart" => raw' = raw
    PROVE  PartsWhole'
  <1>1. \A t \in Tabs : tab[t] # "idle" => route = "multipart"
    BY DEF PartsWhole, IInv, RouteInv
  <1>2. SessionInv'
    <2>0. Unopened => Unopened'
      BY DEF Unopened, Ends
    <2>1. route' = "none" => Unopened'
      BY <2>0 DEF PartsWhole, SessionInv
    <2>2. ASSUME NEW t \in Tabs, tab'[t] = "create"
          PROVE  Unopened' /\ ~resumeKey' /\ \A u \in Tabs \ {t} : tab'[u] = "idle"
      <3>1. tab[t] = "create" /\ Unopened /\ ~resumeKey /\ \A u \in Tabs \ {t} : tab[u] = "idle"
        BY <2>2 DEF PartsWhole, SessionInv
      <3> QED
        BY <2>0, <3>1
    <2>3. \A i \in Ids : session'[i].open => session'[i].used
      BY DEF PartsWhole, SessionInv, Ends
    <2> QED
      BY <2>1, <2>2, <2>3 DEF SessionInv
  <1>3. WholeFile'
    <2> SUFFICES ASSUME Single'
                 PROVE  /\ \A t \in Tabs : Progress(tab'[t], part'[t], found'[t], listed'[t], session')
                        /\ route' = "multipart" => raw' \in {<<>>, File}
      BY DEF WholeFile, Progress, Holds, FirstParts
    <2>1. Single
      BY DEF Single, Ends
    <2>2. /\ \A t \in Tabs : Progress(tab[t], part[t], found[t], listed[t], session)
          /\ route = "multipart" => raw \in {<<>>, File}
      BY <2>1 DEF PartsWhole, WholeFile
    <2>3. found \in [Tabs -> Ids]
      BY DEF PartsWhole, TypeInv, TypeOK
    <2>4. \A t \in Tabs : Progress(tab[t], part[t], found[t], listed[t], session')
      BY <2>2, <2>3, ProgressStays DEF Ends
    <2>5. \A t \in Tabs : Progress(tab'[t], part'[t], found'[t], listed'[t], session')
      BY <2>4
    <2>6. route' = "multipart" => raw' \in {<<>>, File}
      BY <2>2
    <2> QED
      BY <2>5, <2>6
  <1> QED
    BY <1>2, <1>3 DEF PartsWhole


\* Tab t moves, without a word to localStorage but to forget the video.
LEMMA TabMoves ==
    ASSUME PartsWhole, IInv', TypeInv', NEW t \in Tabs, tab[t] \notin {"idle", "create"},
           tab'[t] # "create",
           \A u \in Tabs \ {t} : /\ tab'[u] = tab[u] /\ part'[u] = part[u]
                                 /\ found'[u] = found[u] /\ listed'[u] = listed[u],
           Ends(session, session'), UNCHANGED route, resumeKey' => resumeKey,
           WholeFile => (Single => /\ Progress(tab'[t], part'[t], found'[t], listed'[t], session')
                                   /\ raw' \in {<<>>, File})
    PROVE  PartsWhole'
  <1>1. route = "multipart" /\ \A u \in Tabs : tab'[u] # "create"
    BY DEF PartsWhole, IInv, RouteInv, SessionInv
  <1>2. SessionInv'
    BY <1>1 DEF PartsWhole, SessionInv, Ends
  <1>3. WholeFile'
    <2> SUFFICES ASSUME Single'
                 PROVE  /\ \A u \in Tabs : Progress(tab'[u], part'[u], found'[u], listed'[u], session')
                        /\ raw' \in {<<>>, File}
      BY DEF WholeFile, Progress, Holds, FirstParts
    <2>1. Single
      BY DEF Single, Ends
    <2>2. WholeFile /\ \A u \in Tabs : Progress(tab[u], part[u], found[u], listed[u], session)
      BY <2>1 DEF PartsWhole, WholeFile
    <2>3. found \in [Tabs -> Ids]
      BY DEF PartsWhole, TypeInv, TypeOK
    <2>4. \A u \in Tabs : Progress(tab[u], part[u], found[u], listed[u], session')
      BY <2>2, <2>3, ProgressStays DEF Ends
    <2>5. \A u \in Tabs \ {t} : Progress(tab'[u], part'[u], found'[u], listed'[u], session')
      BY <2>4
    <2> QED
      BY <2>1, <2>2, <2>5
  <1> QED
    BY <1>2, <1>3 DEF PartsWhole

\* The parts of the open session when there is one: it is the one that was created.
LEMMA OneOpen ==
    ASSUME SessionInv, Single, NEW i \in Ids, NEW j \in Ids, session[i].open, session[j].open
    PROVE  i = j
  BY DEF SessionInv, Single

LEMMA TabWhole ==
    ASSUME PartsWhole, IInv', TypeInv', NEW t \in Tabs, StartUpload(t) \/ TabStep(t)
    PROVE  PartsWhole'
  <1>1. /\ tab \in [Tabs -> TabPc] /\ part \in [Tabs -> Parts] /\ found \in [Tabs -> Ids]
        /\ listed \in [Tabs -> SUBSET Parts] /\ session \in [Ids -> Sessions]
        /\ SessionInv /\ WholeFile /\ \A u \in Tabs : tab[u] # "idle" => route = "multipart"
    BY DEF PartsWhole, TypeInv, TypeOK, Sessions, IInv, RouteInv
  <1>2. Ends(session, session)
    BY <1>1 DEF Ends, Sessions
  <1>3. ASSUME NEW l, Goto(t, l)
        PROVE  tab'[t] = l /\ \A u \in Tabs \ {t} : tab'[u] = tab[u]
    BY <1>1, <1>3 DEF Goto
  <1>4. Single => /\ \A u \in Tabs : Progress(tab[u], part[u], found[u], listed[u], session)
                  /\ route = "multipart" => raw \in {<<>>, File}
    BY <1>1 DEF WholeFile
  <1>5. CASE StartUpload(t)
    <2>1. /\ tab[t] = "idle" /\ UNCHANGED <<session, raw, resumeKey, part, found, listed>>
          /\ \/ resumeKey /\ Goto(t, "list") /\ UNCHANGED route
             \/ route = "none" /\ route' = "multipart" /\ Goto(t, "create")
      BY <1>5 DEF StartUpload, minio, mpCall
    <2>2. SessionInv'
      <3>1. CASE resumeKey /\ Goto(t, "list") /\ UNCHANGED route
        <4>1. tab'[t] = "list" /\ \A u \in Tabs \ {t} : tab'[u] = tab[u]
          BY <1>3, <3>1
        <4>2. \A u \in Tabs : tab[u] # "create"
          BY <1>1, <3>1 DEF SessionInv
        <4>3. \A u \in Tabs : tab'[u] # "create"
          BY <4>1, <4>2
        <4> QED
          BY <1>1, <2>1, <3>1, <4>3 DEF SessionInv, Unopened
      <3>2. CASE route = "none" /\ route' = "multipart" /\ Goto(t, "create")
        <4>1. tab'[t] = "create" /\ \A u \in Tabs \ {t} : tab'[u] = tab[u] /\ tab[u] = "idle"
          BY <1>1, <1>3, <3>2
        <4>2. Unopened /\ ~resumeKey
          BY <1>1, <3>2 DEF SessionInv, PartsWhole, IInv, RouteInv
        <4> QED
          BY <1>1, <2>1, <3>2, <4>1, <4>2 DEF SessionInv, Unopened
      <3> QED
        BY <2>1, <3>1, <3>2
    <2>3. WholeFile'
      <3>1. \A u \in Tabs : tab'[u] = tab[u] \/ tab'[u] \in {"list", "create"}
        BY <1>3, <2>1
      <3>2. route' = "multipart" => route = "multipart" \/ raw = <<>>
        BY <2>1 DEF PartsWhole, IInv, RouteInv
      <3> SUFFICES ASSUME Single
                   PROVE  /\ \A u \in Tabs : Progress(tab'[u], part[u], found[u], listed[u], session)
                          /\ route' = "multipart" => raw \in {<<>>, File}
        BY <2>1 DEF WholeFile, Single, Progress, Holds, FirstParts
      <3>3. \A u \in Tabs : Progress(tab'[u], part[u], found[u], listed[u], session)
        BY <1>4, <3>1 DEF Progress
      <3> QED
        BY <1>4, <3>2, <3>3
    <2> QED
      BY <2>2, <2>3 DEF PartsWhole
  <1>6. CASE Create(t)
    <2>1. /\ tab[t] = "create" /\ UNCHANGED <<raw, route, found, listed>>
          /\ part' = [part EXCEPT ![t] = 1]
      BY <1>6 DEF Create, mpCall
    <2>2. PICK k \in 0..MaxSessions :
            /\ session' = [i \in Ids |-> [session[i] EXCEPT !.open = i <= k, !.used = i <= k]]
            /\ Goto(t, "presign") \/ Goto(t, "idle")
      BY <1>6 DEF Create
    <2>3. /\ tab'[t] \in {"presign", "idle"} /\ part'[t] = 1
          /\ \A u \in Tabs \ {t} : tab'[u] = "idle"
      BY <1>1, <1>3, <2>1, <2>2 DEF SessionInv
    <2>4. \A i \in Ids : session'[i].open = (i <= k) /\ session'[i].used = (i <= k)
      BY <1>1, <2>2 DEF Sessions
    <2>5. route = "multipart" /\ route' = "multipart"
      BY <1>1, <2>1
    <2>6. \A u \in Tabs : tab'[u] \in {"presign", "idle"}
      BY <2>3
    <2>7. SessionInv'
      BY <2>4, <2>5, <2>6 DEF SessionInv
    <2>8. Single
      BY <1>1, <2>1 DEF SessionInv, Unopened, Single
    <2>9. WholeFile'
      <3>1. \A u \in Tabs : tab'[u] = "presign" => part'[u] = 1
        BY <2>3
      <3>2. \A u \in Tabs : Progress(tab'[u], part'[u], found'[u], listed'[u], session')
        <4> SUFFICES ASSUME NEW u \in Tabs
                     PROVE  Progress(tab'[u], part'[u], found'[u], listed'[u], session')
          OBVIOUS
        <4>1. tab'[u] = "presign" => Holds(session', 1..(part'[u] - 1))
          <5> SUFFICES ASSUME tab'[u] = "presign"
                       PROVE  Holds(session', 1..(part'[u] - 1))
            OBVIOUS
          <5>1. 1..(part'[u] - 1) = {}
            BY <3>1
          <5> QED
            BY <5>1 DEF Holds
        <4> QED
          BY <2>6, <4>1 DEF Progress
      <3>3. raw' \in {<<>>, File}
        BY <1>4, <2>1, <2>5, <2>8
      <3> QED
        BY <3>2, <3>3 DEF WholeFile, Progress, Holds, FirstParts
    <2> QED
      BY <2>7, <2>9 DEF PartsWhole
  <1>7. ASSUME NEW l, Goto(t, l), l # "create", tab[t] \notin {"idle", "create"},
               UNCHANGED route, resumeKey' => resumeKey,
               \A u \in Tabs \ {t} : /\ part'[u] = part[u]
                                     /\ found'[u] = found[u] /\ listed'[u] = listed[u],
               Ends(session, session'),
               Single => Progress(l, part'[t], found'[t], listed'[t], session')
                         /\ raw' \in {<<>>, File}
        PROVE  PartsWhole'
    <2>1. tab'[t] = l /\ \A u \in Tabs \ {t} : tab'[u] = tab[u]
      BY <1>3, <1>7
    <2> QED
      BY <1>7, <2>1, TabMoves
  <1>8. Single /\ tab[t] # "idle" => raw \in {<<>>, File}
    BY <1>1, <1>4
  <1>9. CASE ListForResume(t)
    <2>1. PICK l \in {"presign", "idle"} : Goto(t, l)
      BY <1>9 DEF ListForResume
    <2>2. /\ tab[t] = "list" /\ UNCHANGED <<session, raw, route, found, listed>>
          /\ part' = [part EXCEPT ![t] = 1] /\ (resumeKey' => resumeKey)
      BY <1>9 DEF ListForResume, minio, mpCall, others, kind
    <2>3. part'[t] = 1 /\ \A u \in Tabs \ {t} : part'[u] = part[u]
      BY <1>1, <2>2
    <2>4. Progress(l, part'[t], found'[t], listed'[t], session')
      <3>1. 1..(part'[t] - 1) = {}
        BY <2>3
      <3> QED
        BY <2>1, <3>1 DEF Progress, Holds
    <2> QED
      BY <1>2, <1>7, <1>8, <2>1, <2>2, <2>3, <2>4
  <1>10. CASE PresignPart(t)
    <2>1. /\ tab[t] = "presign" /\ Goto(t, "put")
          /\ UNCHANGED <<session, raw, route, resumeKey, part, listed>>
          /\ found' = [found EXCEPT ![t] = Latest]
      BY <1>10 DEF PresignPart, minio, others, kind
    <2>2. \A u \in Tabs \ {t} : found'[u] = found[u]
      BY <1>1, <2>1
    <2>3. Single => Progress("put", part'[t], found'[t], listed'[t], session')
      BY <1>4, <2>1 DEF Progress
    <2> QED
      BY <1>2, <1>7, <1>8, <2>1, <2>2, <2>3
  <1>11. CASE PutPart(t)
    <2> DEFINE i == found[t]
               p == part[t]
    <2>1. /\ tab[t] = "put" /\ session[i].open /\ i \in Ids /\ p \in Parts
          /\ session' = [session EXCEPT ![i].parts = @ \cup {p}]
          /\ UNCHANGED <<raw, route, resumeKey, found, listed>>
      BY <1>1, <1>11 DEF PutPart, StorePart, mpCall, others, kind
    <2>2. /\ session'[i].parts = session[i].parts \cup {p} /\ session'[i].open
          /\ session'[i].used = session[i].used
          /\ \A j \in Ids \ {i} : session'[j] = session[j]
      BY <1>1, <2>1 DEF Sessions
    <2>3. Ends(session, session')
      BY <1>1, <2>1, <2>2 DEF Ends, Sessions
    <2>4. ASSUME Single PROVE Holds(session', 1..p)
      <3>1. Holds(session, 1..(p - 1))
        BY <1>4, <2>1, <2>4 DEF Progress
      <3>2. 1..p \subseteq 1..(p - 1) \cup {p}
        BY <2>1 DEF Parts
      <3>3. 1..p \subseteq session'[i].parts
        BY <2>1, <2>2, <3>1, <3>2 DEF Holds
      <3>4. \A j \in Ids : session'[j].open => j = i
        BY <1>1, <2>1, <2>2, <2>4, OneOpen
      <3> QED
        BY <3>3, <3>4 DEF Holds
    <2>5. CASE p < N /\ Goto(t, "presign") /\ part' = [part EXCEPT ![t] = @ + 1]
      <3>1. part'[t] = p + 1 /\ \A u \in Tabs \ {t} : part'[u] = part[u]
        BY <1>1, <2>5
      <3>2. (p + 1) - 1 = p
        BY <2>1 DEF Parts
      <3>3. Single => Progress("presign", part'[t], found'[t], listed'[t], session')
        BY <2>4, <3>1, <3>2 DEF Progress
      <3> QED
        BY <1>7, <1>8, <2>1, <2>3, <2>5, <3>1, <3>3
    <2>6. CASE p = N /\ Goto(t, "find") /\ UNCHANGED part
      <3>1. Single => Holds(session', Parts)
        BY <2>4, <2>6 DEF Parts
      <3>2. Single => Progress("find", part'[t], found'[t], listed'[t], session')
        BY <3>1 DEF Progress
      <3> QED
        BY <1>7, <1>8, <2>1, <2>3, <2>6, <3>2
    <2>7. CASE UNCHANGED <<tab, part>>
      <3>1. Goto(t, "put")
        BY <1>1, <2>1, <2>7 DEF Goto
      <3>2. 1..(p - 1) \subseteq 1..p
        BY <2>1 DEF Parts
      <3>3. Single => Progress("put", part'[t], found'[t], listed'[t], session')
        BY <2>4, <2>7, <3>2 DEF Progress, Holds
      <3> QED
        BY <1>7, <1>8, <2>1, <2>3, <2>7, <3>1, <3>3
    <2> QED
      BY <1>11, <2>5, <2>6, <2>7 DEF PutPart
  <1>12. CASE FindSession(t)
    <2>1. /\ tab[t] = "find" /\ Goto(t, "pages") /\ OpenIds # {}
          /\ UNCHANGED <<session, raw, route, resumeKey, part>>
          /\ found' = [found EXCEPT ![t] = Latest] /\ listed' = [listed EXCEPT ![t] = {}]
      BY <1>12 DEF FindSession, minio, others, kind
    <2>2. Latest \in Ids /\ session[Latest].open
      BY <2>1, LatestIs DEF OpenIds
    <2>3. /\ found'[t] = Latest /\ listed'[t] = {}
          /\ \A u \in Tabs \ {t} : found'[u] = found[u] /\ listed'[u] = listed[u]
      BY <1>1, <2>1
    <2>4. Single => session[Latest].parts = Parts
      <3>1. session[Latest].parts \subseteq Parts
        BY <1>1, <2>2 DEF Sessions
      <3> QED
        BY <1>4, <2>1, <2>2, <3>1 DEF Progress, Holds
    <2>5. Single => Progress("pages", part'[t], found'[t], listed'[t], session')
      BY <2>1, <2>3, <2>4 DEF Progress, FirstParts
    <2> QED
      BY <1>2, <1>7, <1>8, <2>1, <2>3, <2>5
  <1>13. CASE ListPage(t)
    <2> DEFINE parts == session[found[t]].parts
               seen  == listed[t] \cup PageAfter(parts, Marker(listed[t]))
    <2>1. /\ tab[t] = "pages" /\ session[found[t]].open
          /\ Goto(t, IF Truncated(parts, seen) THEN "pages" ELSE "assemble")
          /\ UNCHANGED <<session, raw, route, resumeKey, part, found>>
          /\ listed' = [listed EXCEPT ![t] = seen]
      BY <1>13 DEF ListPage, minio, others, kind
    <2>2. listed'[t] = seen /\ \A u \in Tabs \ {t} : listed'[u] = listed[u]
      BY <1>1, <2>1
    <2>3. ASSUME Single
          PROVE  parts = Parts /\ FirstParts(seen) /\ (~Truncated(parts, seen) => seen = Parts)
      <3>1. parts = Parts /\ FirstParts(listed[t])
        BY <1>4, <2>1, <2>3 DEF Progress
      <3>2. FirstParts(seen)
        BY <3>1, PageOfFirst
      <3> HIDE DEF seen
      <3> QED
        BY <3>1, <3>2, LastPage
    <2> HIDE DEF seen
    <2> DEFINE l == IF Truncated(parts, seen) THEN "pages" ELSE "assemble"
    <2>4. Single => Progress(l, part'[t], found'[t], listed'[t], session')
      BY <2>1, <2>2, <2>3 DEF Progress
    <2>5. l # "create" /\ Goto(t, l)
      BY <2>1
    <2> HIDE DEF l
    <2> QED
      BY <1>2, <1>7, <1>8, <2>1, <2>2, <2>4, <2>5
  <1>14. CASE Assemble(t)
    <2>1. /\ tab[t] = "assemble" /\ Goto(t, "stat") /\ raw' = Joined(listed[t])
          /\ session' = [session EXCEPT ![found[t]].open = FALSE, ![found[t]].parts = {}]
          /\ UNCHANGED <<route, resumeKey, part, found, listed>>
      BY <1>14 DEF Assemble, mpCall, others, kind
    <2>2. Ends(session, session')
      BY <1>1, <2>1 DEF Ends, Sessions
    <2>3. Single => raw' = File
      <3>1. Single => listed[t] = Parts
        BY <1>4, <2>1 DEF Progress
      <3> QED
        BY <2>1, <3>1, JoinedWhole
    <2>4. Progress("stat", part'[t], found'[t], listed'[t], session')
      BY DEF Progress
    <2> QED
      BY <1>7, <2>1, <2>2, <2>3, <2>4
  <1>15. CASE StatAssembled(t) \/ PublishAssembled(t) \/ Done(t) \/ SessionGone(t) \/ GiveUp(t)
    <2>1. PICK l \in {"publish", "answer", "idle"} : Goto(t, l)
      BY <1>15 DEF StatAssembled, PublishAssembled, Done, SessionGone, GiveUp
    <2>2. /\ tab[t] \notin {"idle", "create"} /\ (resumeKey' => resumeKey)
          /\ UNCHANGED <<session, raw, route, part, found, listed>>
      BY <1>15 DEF StatAssembled, PublishAssembled, Done, SessionGone, GiveUp, minio, mpCall,
         others, kind
    <2>3. Progress(l, part'[t], found'[t], listed'[t], session')
      BY <2>1 DEF Progress
    <2> QED
      BY <1>2, <1>7, <1>8, <2>1, <2>2, <2>3
  <1> QED
    BY <1>5, <1>6, <1>9, <1>10, <1>11, <1>12, <1>13, <1>14, <1>15 DEF TabStep

LEMMA NextWhole == PartsWhole /\ [Next]_vars => PartsWhole'
  <1> SUFFICES ASSUME PartsWhole, [Next]_vars PROVE PartsWhole'
    OBVIOUS
  <1>1. IInv /\ IInv' /\ TypeInv /\ TypeInv'
    BY StepInv, NextTypes DEF PartsWhole
  <1>2. ASSUME NEW t \in Tabs, StartUpload(t) \/ TabStep(t) PROVE PartsWhole'
    BY <1>1, <1>2, TabWhole
  <1>3. session \in [Ids -> Sessions]
    BY <1>1 DEF TypeInv, TypeOK, Sessions
  <1>4. Ends(session, session)
    BY <1>3 DEF Ends, Sessions
  <1>5. finish = "store" => route = "direct"
    BY <1>1 DEF IInv, RouteInv
  <1>6. InHandler => route = "resumable"
    BY <1>1 DEF IInv, RouteInv
  <1>7. CASE \/ Presign \/ Upload \/ CreateMeta \/ PutPresigned
             \/ StoreBody \/ StatFinished \/ PublishFinished
             \/ AskOffset \/ PutWhole \/ LoseAnswer \/ FinishChunks
    <2>1. UNCHANGED <<session, resumeKey, tab, part, found, listed>>
      BY <1>7 DEF Presign, Upload, CreateMeta, NewRow, PutPresigned, StoreBody, StatFinished,
         PublishFinished, AskOffset, PutWhole, LoseAnswer, FinishChunks, quiet, still, browser,
         mpCall
    <2>2. route' = route \/ (route = "none" /\ route' # "multipart")
      BY <1>7 DEF Presign, Upload, CreateMeta, NewRow, PutPresigned, StoreBody, StatFinished,
         PublishFinished, AskOffset, PutWhole, LoseAnswer, FinishChunks, quiet, kind
    <2>3. route = "multipart" => raw' = raw
      BY <1>5, <1>7 DEF Presign, Upload, CreateMeta, NewRow, PutPresigned, StoreBody,
         StatFinished, PublishFinished, AskOffset, PutWhole, LoseAnswer, FinishChunks,
         ResumableClient
    <2> QED
      BY <1>1, <1>4, <2>1, <2>2, <2>3, TabsStay
  <1>8. ASSUME NEW c \in Chunks, SendChunk(c) \/ ChunkStep(c) PROVE PartsWhole'
    <2>1. UNCHANGED <<session, resumeKey, tab, part, found, listed, route>>
      BY <1>8 DEF SendChunk, ChunkStep, StatChunk, GetStored, PutChunk, FailChunk, quiet, still,
         kind, browser, mpCall
    <2>2. route = "resumable"
      BY <1>6, <1>8 DEF SendChunk, ChunkStep, StatChunk, GetStored, PutChunk, FailChunk,
         ResumableClient, InHandler
    <2> QED
      BY <1>1, <1>4, <2>1, <2>2, TabsStay
  <1>9. CASE Age \/ RecList \/ RecStep \/ TakeEvent
    <2>1. UNCHANGED <<raw, route, resumeKey, tab, part, found, listed>>
      BY <1>9 DEF Age, RecList, RecStep, RecStat, RecRepublish, RecAbort, RecFail, TakeEvent,
         beside, kind, browser, mpCall
    <2>2. Ends(session, session')
      <3>1. CASE UNCHANGED session
        BY <1>4, <3>1
      <3>2. CASE OpenIds # {}
                 /\ session' = [session EXCEPT ![Latest].open = FALSE, ![Latest].parts = {}]
        <4>1. Latest \in Ids
          BY <3>2, LatestIs DEF OpenIds
        <4> QED
          BY <1>3, <3>2, <4>1 DEF Ends, Sessions
      <3> QED
        BY <1>9, <3>1, <3>2
           DEF Age, RecList, RecStep, RecStat, RecRepublish, RecAbort, RecFail, TakeEvent
    <2> QED
      BY <1>1, <2>1, <2>2, TabsStay
  <1>10. CASE UNCHANGED vars
    <2>1. UNCHANGED <<session, raw, route, resumeKey, tab, part, found, listed>>
      BY <1>10 DEF vars, minio, kind, browser, mpCall
    <2> QED
      BY <1>1, <1>4, <2>1, TabsStay
  <1> QED
    BY <1>2, <1>7, <1>8, <1>9, <1>10 DEF Next

\* One session is at most one number.
LEMMA OneIsSingle == TypeOK /\ OneSession => Single
  <1> DEFINE U == {i \in Ids : session[i].used}
  <1> SUFFICES ASSUME Cardinality(U) <= 1 PROVE Single
    BY DEF OneSession
  <1>1. U \in SUBSET Ids /\ IsFiniteSet(Ids)
    BY FS_Interval, SizesAssumption DEF Ids, SizesAssumption
  <1>2. IsFiniteSet(U) /\ Cardinality(U) \in Nat /\ Cardinality(U) <= 1
    BY <1>1, FS_Subset, FS_CardinalityType
  <1> HIDE DEF U
  <1>3. Cardinality(U) = 0 \/ Cardinality(U) = 1
    BY <1>2
  <1>4. U = {} \/ \E x : U = {x}
    BY <1>2, <1>3, FS_EmptySet, FS_Singleton
  <1>5. \A i, j \in U : i = j
    BY <1>4
  <1> QED
    BY <1>5 DEF Single, U

\* For a file of any number of parts, pages of any size and any number of tabs: the object
\* of a multipart upload whose Create left one session is the whole file or is not there,
\* whoever resumes it, completes it twice or aborts it (multipart.go:235-263,
\* minio.go:199-267).
THEOREM MultipartAlwaysWhole == Spec => []MultipartWhole
  <1>1. PartsWhole => MultipartWhole
    BY OneIsSingle DEF PartsWhole, TypeInv, WholeFile, MultipartWhole
  <1> QED
    BY <1>1, InitWhole, NextWhole, PTL DEF Spec

-----------------------------------------------------------------------------
(* The uploads implement Handoff *)

Handed == <<Row, Kept, Announced, {}>>

\* Whoever may write the object or the event comes after the row.
MadeInv ==
    /\ route = "none" => row = "none"
    /\ route \notin {"none", "multipart"} => row # "none"
    /\ \A t \in Tabs : tab[t] = "create" => row = "none"
    /\ \A t \in Tabs : tab[t] \notin {"idle", "list", "create"} => row # "none"
    /\ \A i \in Ids : session[i].open => row # "none"
    /\ rec # "off" => row # "none"

\* Whoever is about to announce the video, or has, has seen an object that is there.
StoredInv ==
    /\ \A t \in Tabs : tab[t] = "assemble" => listed[t] # {}
    /\ \A t \in Tabs : tab[t] = "publish" => raw # <<>>
    /\ finish = "publish" => raw # <<>>
    /\ rec = "republish" => raw # <<>>
    /\ events # {} => raw # <<>>

HandoverInv == PartsWhole /\ MadeInv /\ StoredInv

LEMMA SameHanded ==
    ASSUME UNCHANGED <<row, raw, events>>
    PROVE  UNCHANGED Handed
  BY DEF Handed, Row, Kept, Announced

\* The object is written, for the first time or again.
LEMMA StoreHanded ==
    ASSUME row # "none", raw' # <<>>, UNCHANGED <<row, events>>
    PROVE  [Handover!Next]_Handed
  <1>1. Kept' = Kept \cup {"video"} /\ UNCHANGED <<Row, Announced>>
    BY DEF Kept, Row, Announced, Video
  <1>2. Row["video"] # "none" /\ "video" \in Video
    BY DEF Row, Video
  <1>3. Handover!Keep("video")
    BY <1>1, <1>2 DEF Handover!Keep
  <1> QED
    BY <1>2, <1>3 DEF Handover!Next

\* The event is published.
LEMMA AnnounceHanded ==
    ASSUME row # "none", raw # <<>>, events' # {}, UNCHANGED <<row, raw>>
    PROVE  [Handover!Next]_Handed
  <1>1. Announced' = Announced \cup {"video"} /\ UNCHANGED <<Row, Kept>>
    BY DEF Kept, Row, Announced, Video
  <1>2. Row["video"] # "none" /\ "video" \in Video /\ "video" \in Kept
    BY DEF Row, Video, Kept
  <1>3. Handover!Announce("video")
    BY <1>1, <1>2 DEF Handover!Announce
  <1> QED
    BY <1>2, <1>3 DEF Handover!Next

\* The row is made, taken up or failed.
LEMMA RowHanded ==
    ASSUME UNCHANGED <<raw, events>>, row \in {"none", "uploaded", "processing", "failed"},
           \/ row = "none" /\ row' = "uploaded"
           \/ row = "uploaded" /\ events # {} /\ row' = "processing"
           \/ row # "none" /\ row' = "failed"
    PROVE  [Handover!Next]_Handed
  <1>1. UNCHANGED <<Kept, Announced>> /\ "video" \in Video
    BY DEF Kept, Announced, Video
  <1>2. Row["video"] = row /\ Row' = [Row EXCEPT !["video"] = row']
    BY DEF Row, Video
  <1>3. CASE row = "none" /\ row' = "uploaded"
    <2>1. Handover!Make("video")
      BY <1>1, <1>2, <1>3 DEF Handover!Make, Handover!Become
    <2> QED
      BY <1>1, <2>1 DEF Handover!Next
  <1>4. CASE row = "uploaded" /\ events # {} /\ row' = "processing"
    <2>1. "video" \in Announced
      BY <1>1, <1>4 DEF Announced
    <2>2. Handover!Work("video")
      BY <1>1, <1>2, <1>4, <2>1 DEF Handover!Work, Handover!Become, Handover!Live
    <2> QED
      BY <1>1, <2>2 DEF Handover!Next
  <1>5. CASE row # "none" /\ row' = "failed"
    <2>1. Handover!Fail("video")
      BY <1>1, <1>2, <1>5 DEF Handover!Fail, Handover!Become, Handover!Live
    <2> QED
      BY <1>1, <2>1 DEF Handover!Next
  <1> QED
    BY <1>3, <1>4, <1>5

\* A tab goes on: it comes to a later call only when the row was made, and leaves
\* nothing where something was stored.
LEMMA TabHands ==
    ASSUME TabTypes, MadeInv, StoredInv, NEW t \in Tabs, NEW l, Goto(t, l),
           UNCHANGED <<row, route, finish, rec>>,
           l # "create",
           l \notin {"idle", "list"} => row # "none",
           raw' = raw \/ (raw' # <<>> /\ row # "none"),
           events' = events \/ (raw # <<>> /\ row # "none" /\ raw' = raw /\ events' # {}),
           \A i \in Ids : session'[i].open => session[i].open,
           \A u \in Tabs \ {t} : listed'[u] = listed[u],
           l = "assemble" => listed'[t] # {},
           l = "publish" => raw' # <<>>
    PROVE  MadeInv' /\ StoredInv' /\ [Handover!Next]_Handed
  <1>1. tab'[t] = l /\ \A u \in Tabs \ {t} : tab'[u] = tab[u]
    BY DEF Goto, TabTypes
  <1>2. MadeInv'
    BY <1>1 DEF MadeInv
  <1>3. raw # <<>> => raw' # <<>>
    OBVIOUS
  <1>4. StoredInv'
    BY <1>1, <1>3 DEF StoredInv
  <1>5. [Handover!Next]_Handed
    BY SameHanded, StoreHanded, AnnounceHanded
  <1> QED
    BY <1>2, <1>4, <1>5

\* A page of parts is not empty.
LEMMA PageFound ==
    ASSUME NEW P \in SUBSET Parts, P # {}, NEW L \in SUBSET Parts,
           ~Truncated(P, L \cup PageAfter(P, Marker(L)))
    PROVE  L \cup PageAfter(P, Marker(L)) # {}
  <1> DEFINE S == L \cup PageAfter(P, Marker(L))
  <1>1. CASE S = {}
    <2>1. Marker(S) = 0
      BY <1>1 DEF Marker
    <2>2. PICK p \in P : p \in Parts
      OBVIOUS
    <2>3. p > 0
      BY <2>2 DEF Parts
    <2> QED
      BY <2>1, <2>2, <2>3 DEF Truncated
  <1> QED
    BY <1>1

LEMMA JoinedFound ==
    ASSUME NEW P \in SUBSET Parts, P # {}
    PROVE  Joined(P) # <<>>
  <1>1. IsFiniteSet(P) /\ Cardinality(P) \in Nat /\ Cardinality(P) # 0
    BY PartsFinite, FS_EmptySet, FS_CardinalityType
  <1>2. DOMAIN Joined(P) = 1..Cardinality(P)
    BY DEF Joined
  <1> QED
    BY <1>1, <1>2

LEMMA TabHandover ==
    ASSUME HandoverInv, NEW t \in Tabs, StartUpload(t) \/ TabStep(t)
    PROVE  MadeInv' /\ StoredInv' /\ [Handover!Next]_Handed
  <1>1. TabTypes /\ MadeInv /\ StoredInv /\ RouteInv /\ SessionInv
    BY TypeParts DEF HandoverInv, PartsWhole, IInv
  <1>2. session \in [Ids -> Sessions] /\ listed[t] \subseteq Parts /\ found[t] \in Ids
    BY <1>1 DEF TabTypes
  <1>3. OpenIds # {} => row # "none"
    BY <1>1 DEF OpenIds, MadeInv
  <1>4. tab[t] \notin {"idle", "list", "create"} => row # "none"
    BY <1>1 DEF MadeInv
  <1>5. ASSUME NEW l, Goto(t, l), l # "create", l \notin {"idle", "list"} => row # "none",
               UNCHANGED <<row, raw, events, route, finish, rec, session>>,
               \A u \in Tabs \ {t} : listed'[u] = listed[u],
               l = "assemble" => listed'[t] # {}, l = "publish" => raw # <<>>
        PROVE  MadeInv' /\ StoredInv' /\ [Handover!Next]_Handed
    BY <1>1, <1>5, TabHands
  <1>6. CASE StartUpload(t)
    <2>1. UNCHANGED <<row, raw, events, finish, rec, session, listed>>
      BY <1>6 DEF StartUpload, meta, minio, mpCall
    <2>2. CASE Goto(t, "list") /\ UNCHANGED route
      BY <1>5, <2>1, <2>2
    <2>3. CASE route = "none" /\ route' = "multipart" /\ Goto(t, "create")
      <3>1. tab'[t] = "create" /\ \A u \in Tabs \ {t} : tab'[u] = tab[u]
        BY <1>1, <2>3 DEF Goto, TabTypes
      <3>2. row = "none"
        BY <1>1, <2>3 DEF MadeInv
      <3>3. MadeInv'
        BY <1>1, <2>1, <2>3, <3>1, <3>2 DEF MadeInv
      <3>4. StoredInv'
        BY <1>1, <2>1, <3>1 DEF StoredInv
      <3> QED
        BY <2>1, <3>3, <3>4, SameHanded
    <2> QED
      BY <1>6, <2>2, <2>3 DEF StartUpload
  <1>7. CASE ListForResume(t)
    <2>1. UNCHANGED <<row, raw, events, route, finish, rec, session, listed>>
      BY <1>7 DEF ListForResume, minio, mpCall, others, kind
    <2>2. (OpenIds # {} /\ Goto(t, "presign")) \/ Goto(t, "idle")
      BY <1>7 DEF ListForResume
    <2> QED
      BY <1>3, <1>5, <2>1, <2>2
  <1>8. CASE Create(t)
    <2>1. row' = "uploaded" /\ UNCHANGED <<raw, route, events, listed, finish, rec>>
          /\ (Goto(t, "presign") \/ Goto(t, "idle"))
      BY <1>8 DEF Create, mpCall
    <2>2. row = "none" /\ \A u \in Tabs \ {t} : tab[u] = "idle"
      BY <1>1, <1>8 DEF Create, MadeInv, SessionInv
    <2>3. tab'[t] \in {"presign", "idle"} /\ \A u \in Tabs \ {t} : tab'[u] = "idle"
      BY <1>1, <2>1, <2>2 DEF Goto, TabTypes
    <2>4. route = "multipart"
      BY <1>1, <1>8 DEF Create, RouteInv
    <2>5. MadeInv'
      BY <2>1, <2>3, <2>4 DEF MadeInv
    <2>6. StoredInv'
      BY <1>1, <2>1, <2>3 DEF StoredInv
    <2>7. [Handover!Next]_Handed
      BY <2>1, <2>2, RowHanded
    <2> QED
      BY <2>5, <2>6, <2>7
  <1>9. CASE PresignPart(t)
    <2>1. UNCHANGED <<row, raw, events, route, finish, rec, session, listed>> /\ Goto(t, "put")
          /\ row # "none"
      BY <1>4, <1>9 DEF PresignPart, minio, mpCall, others, kind
    <2> QED
      BY <1>5, <2>1
  <1>10. CASE PutPart(t)
    <2>1. UNCHANGED <<row, raw, events, route, finish, rec, listed>> /\ row # "none"
      BY <1>4, <1>10 DEF PutPart, mpCall, others, kind
    <2>2. \A i \in Ids : session'[i].open => session[i].open
      BY <1>2, <1>10 DEF PutPart, StorePart, Sessions
    <2>3. \E l \in {"presign", "find", "put"} : Goto(t, l)
      BY <1>1, <1>10 DEF PutPart, Goto, TabTypes
    <2> QED
      BY <1>1, <2>1, <2>2, <2>3, TabHands
  <1>11. CASE FindSession(t)
    <2>1. UNCHANGED <<row, raw, events, route, finish, rec, session>> /\ Goto(t, "pages")
          /\ row # "none" /\ listed' = [listed EXCEPT ![t] = {}]
      BY <1>4, <1>11 DEF FindSession, minio, others, kind
    <2>2. \A u \in Tabs \ {t} : listed'[u] = listed[u]
      BY <1>1, <2>1 DEF TabTypes
    <2> QED
      BY <1>5, <2>1, <2>2
  <1>12. CASE ListPage(t)
    <2> DEFINE P == session[found[t]].parts
               S == listed[t] \cup PageAfter(P, Marker(listed[t]))
    <2>1. UNCHANGED <<row, raw, events, route, finish, rec, session>> /\ row # "none"
          /\ listed' = [listed EXCEPT ![t] = S] /\ P # {}
          /\ Goto(t, IF Truncated(P, S) THEN "pages" ELSE "assemble")
      BY <1>4, <1>12 DEF ListPage, minio, others, kind
    <2>2. listed'[t] = S /\ \A u \in Tabs \ {t} : listed'[u] = listed[u]
      BY <1>1, <2>1 DEF TabTypes
    <2>3. P \in SUBSET Parts
      BY <1>2 DEF Sessions
    <2>4. ~Truncated(P, S) => S # {}
      BY <1>2, <2>1, <2>3, PageFound
    <2> HIDE DEF P, S
    <2> QED
      BY <1>5, <2>1, <2>2, <2>4
  <1>13. CASE Assemble(t)
    <2>1. UNCHANGED <<row, events, route, finish, rec, listed>> /\ Goto(t, "stat")
          /\ row # "none" /\ raw' = Joined(listed[t]) /\ tab[t] = "assemble"
      BY <1>4, <1>13 DEF Assemble, mpCall, others, kind
    <2>2. raw' # <<>>
      BY <1>1, <1>2, <2>1, JoinedFound DEF StoredInv
    <2>3. \A i \in Ids : session'[i].open => session[i].open
      BY <1>2, <1>13 DEF Assemble, Sessions
    <2> QED
      BY <1>1, <2>1, <2>2, <2>3, TabHands
  <1>14. CASE StatAssembled(t)
    <2>1. UNCHANGED <<row, raw, events, route, finish, rec, session, listed>> /\ row # "none"
          /\ Goto(t, IF raw # <<>> /\ ctype = "video" THEN "publish" ELSE "idle")
      BY <1>4, <1>14 DEF StatAssembled, minio, mpCall, others, kind
    <2> QED
      BY <1>5, <2>1
  <1>15. CASE PublishAssembled(t)
    <2>1. UNCHANGED <<row, raw, route, finish, rec, session, listed>> /\ row # "none"
          /\ Goto(t, "answer") /\ events' # {} /\ tab[t] = "publish"
      BY <1>4, <1>15 DEF PublishAssembled, meta, minio, mpCall, kind
    <2>2. raw # <<>>
      BY <1>1, <2>1 DEF StoredInv
    <2> QED
      BY <1>1, <2>1, <2>2, TabHands
  <1>16. CASE Done(t) \/ SessionGone(t) \/ GiveUp(t)
    <2>1. UNCHANGED <<row, raw, events, route, finish, rec, session, listed>> /\ Goto(t, "idle")
      BY <1>16 DEF Done, SessionGone, GiveUp, minio, mpCall, others, kind
    <2> QED
      BY <1>5, <2>1
  <1> QED
    BY <1>6, <1>7, <1>8, <1>9, <1>10, <1>11, <1>12, <1>13, <1>14, <1>15, <1>16 DEF TabStep

\* The other uploads store the object and announce it as the tabs do.
LEMMA RestHandover ==
    ASSUME HandoverInv,
           \/ Presign \/ Upload \/ CreateMeta \/ PutPresigned
           \/ StoreBody \/ StatFinished \/ PublishFinished
           \/ AskOffset \/ PutWhole \/ LoseAnswer \/ FinishChunks
    PROVE  MadeInv' /\ StoredInv' /\ [Handover!Next]_Handed
  <1>1. TabTypes /\ MadeInv /\ StoredInv /\ RouteInv
    BY TypeParts DEF HandoverInv, PartsWhole, IInv
  <1>2. UNCHANGED <<session, tab, listed, rec>>
    BY DEF Presign, Upload, CreateMeta, NewRow, PutPresigned, StoreBody, StatFinished,
       PublishFinished, AskOffset, PutWhole, LoseAnswer, FinishChunks, quiet, still, browser,
       mpCall
  <1>3. File # <<>>
    BY FileSeq
  <1>4. CASE Presign \/ Upload \/ CreateMeta
    <2>1. route = "none" /\ row = "none" /\ row' = "uploaded" /\ UNCHANGED <<raw, events>>
          /\ route' \in {"presigned", "direct", "resumable"} /\ finish' \in {finish, "store"}
      BY <1>4 DEF Presign, Upload, CreateMeta, NewRow
    <2>2. \A t \in Tabs : tab[t] = "idle"
      BY <1>1, <2>1 DEF RouteInv
    <2>3. MadeInv'
      BY <1>2, <2>1, <2>2 DEF MadeInv
    <2>4. StoredInv'
      BY <1>1, <1>2, <2>1 DEF StoredInv
    <2>5. [Handover!Next]_Handed
      BY <2>1, RowHanded
    <2> QED
      BY <2>3, <2>4, <2>5
  <1>5. CASE PutPresigned \/ StoreBody \/ StatFinished \/ PublishFinished
             \/ AskOffset \/ PutWhole \/ LoseAnswer \/ FinishChunks
    <2>1. route \notin {"none", "multipart"}
      BY <1>1, <1>5 DEF PutPresigned, StoreBody, StatFinished, PublishFinished, AskOffset,
         PutWhole, LoseAnswer, FinishChunks, ResumableClient, RouteInv
    <2>2. row # "none"
      BY <1>1, <2>1 DEF MadeInv
    <2>3. UNCHANGED <<row, route>> /\ raw' \in {raw, File}
      BY <1>5 DEF PutPresigned, StoreBody, StatFinished, PublishFinished, AskOffset, PutWhole,
         LoseAnswer, FinishChunks, kind, quiet
    <2>4. events' = events \/ (events' # {} /\ finish = "publish" /\ raw' = raw)
      BY <1>5 DEF PutPresigned, StoreBody, StatFinished, PublishFinished, AskOffset, PutWhole,
         LoseAnswer, FinishChunks, quiet
    <2>5. finish' = "publish" => finish = "publish" \/ raw' # <<>>
      BY <1>3, <1>5 DEF PutPresigned, StoreBody, StatFinished, PublishFinished, AskOffset,
         PutWhole, LoseAnswer, FinishChunks
    <2>6. MadeInv'
      BY <1>1, <1>2, <2>3 DEF MadeInv
    <2>7. raw # <<>> => raw' # <<>>
      BY <1>3, <2>3
    <2>8. StoredInv'
      BY <1>1, <1>2, <2>4, <2>5, <2>7 DEF StoredInv
    <2>9. [Handover!Next]_Handed
      <3>1. CASE events' # events
        BY <1>1, <2>2, <2>3, <2>4, <3>1, AnnounceHanded DEF StoredInv
      <3>2. CASE events' = events /\ raw' = raw
        BY <2>3, <3>2, SameHanded
      <3>3. CASE events' = events /\ raw' = File
        BY <1>3, <2>2, <2>3, <3>3, StoreHanded
      <3> QED
        BY <2>3, <3>1, <3>2, <3>3
    <2> QED
      BY <2>6, <2>8, <2>9
  <1> QED
    BY <1>4, <1>5

\* So do chunks: none is empty.
LEMMA ChunkHandover ==
    ASSUME HandoverInv, NEW c \in Chunks, SendChunk(c) \/ ChunkStep(c)
    PROVE  MadeInv' /\ StoredInv' /\ [Handover!Next]_Handed
  <1>1. TabTypes /\ RestTypes /\ MadeInv /\ StoredInv /\ RouteInv
    BY TypeParts DEF HandoverInv, PartsWhole, IInv
  <1>2. UNCHANGED <<row, events, route, session, tab, listed, finish, rec>>
    BY DEF SendChunk, ChunkStep, StatChunk, GetStored, PutChunk, FailChunk, quiet, still, kind,
       browser, mpCall
  <1>3. route = "resumable"
    BY <1>1 DEF SendChunk, ChunkStep, StatChunk, GetStored, PutChunk, FailChunk,
       ResumableClient, InHandler, RouteInv
  <1>4. raw' = raw \/ raw' # <<>>
    <2>1. CASE PutChunk(c)
      <3>1. chunk[c].got \in Seq(Parts) /\ raw' = Append(chunk[c].got, chunk[c].start + 1)
        BY <1>1, <2>1 DEF PutChunk, RestTypes, ChunkCalls
      <3>2. Len(raw') = Len(chunk[c].got) + 1 /\ Len(chunk[c].got) \in Nat
        BY <3>1
      <3> QED
        BY <3>2
    <2> QED
      BY <2>1 DEF SendChunk, ChunkStep, StatChunk, GetStored, FailChunk
  <1>5. row # "none"
    BY <1>1, <1>3 DEF MadeInv
  <1>6. MadeInv'
    BY <1>1, <1>2 DEF MadeInv
  <1>7. StoredInv'
    BY <1>1, <1>2, <1>4 DEF StoredInv
  <1>8. [Handover!Next]_Handed
    BY <1>2, <1>4, <1>5, SameHanded, StoreHanded
  <1> QED
    BY <1>6, <1>7, <1>8

\* The reconciler announces what it has seen, and fails rows that were made; a worker
\* takes an event up.
LEMMA BesideHandover ==
    ASSUME HandoverInv, Age \/ RecList \/ RecStep \/ TakeEvent
    PROVE  MadeInv' /\ StoredInv' /\ [Handover!Next]_Handed
  <1>1. TabTypes /\ MadeInv /\ StoredInv
    BY TypeParts DEF HandoverInv, PartsWhole
  <1>2. UNCHANGED <<raw, route, tab, listed, finish>>
    BY DEF Age, RecList, RecStep, RecStat, RecRepublish, RecAbort, RecFail, TakeEvent, beside,
       kind, browser, mpCall
  <1>3. \A i \in Ids : session'[i].open => session[i].open
    <2>1. CASE OpenIds # {}
               /\ session' = [session EXCEPT ![Latest].open = FALSE, ![Latest].parts = {}]
      <3>1. Latest \in Ids /\ session \in [Ids -> Sessions]
        BY <1>1, <2>1, LatestIs DEF OpenIds, TabTypes
      <3> QED
        BY <2>1, <3>1 DEF Sessions
    <2> QED
      BY <2>1 DEF Age, RecList, RecStep, RecStat, RecRepublish, RecAbort, RecFail, TakeEvent
  <1>4. rec' # "off" => rec # "off" \/ row = "uploaded"
    BY DEF Age, RecList, RecStep, RecStat, RecRepublish, RecAbort, RecFail, TakeEvent
  <1>5. rec' = "republish" => rec = "republish" \/ raw # <<>>
    BY DEF Age, RecList, RecStep, RecStat, RecRepublish, RecAbort, RecFail, TakeEvent
  <1>6. row' = row \/ \/ rec # "off" /\ row' = "failed" /\ events' = events
                      \/ /\ row = "uploaded" /\ events # {} /\ row' = "processing"
                         /\ events' = events
    BY DEF Age, RecList, RecStep, RecStat, RecRepublish, RecAbort, RecFail, TakeEvent, meta
  <1>7. events' = events \/ (rec = "republish" /\ events' # {} /\ row' = row)
    BY DEF Age, RecList, RecStep, RecStat, RecRepublish, RecAbort, RecFail, TakeEvent, meta
  <1>8. rec # "off" => row # "none"
    BY <1>1 DEF MadeInv
  <1>9. row = "none" => row' = "none"
    BY <1>6, <1>8
  <1>10. row' = "none" => row = "none"
    BY <1>6
  <1>11. MadeInv'
    BY <1>1, <1>2, <1>3, <1>4, <1>9, <1>10 DEF MadeInv
  <1>12. StoredInv'
    BY <1>1, <1>2, <1>5, <1>7 DEF StoredInv
  <1>13. [Handover!Next]_Handed
    <2>1. CASE events' # events
      <3>1. rec = "republish" /\ events' # {} /\ row' = row
        BY <1>7, <2>1
      <3>2. raw # <<>> /\ row # "none"
        BY <1>1, <1>8, <3>1 DEF StoredInv
      <3> QED
        BY <1>2, <3>1, <3>2, AnnounceHanded
    <2>2. CASE events' = events /\ row' = row
      BY <1>2, <2>2, SameHanded
    <2>3. CASE events' = events /\ row' # row
      BY <1>1, <1>2, <1>6, <1>8, <2>3, RowHanded DEF TabTypes
    <2> QED
      BY <2>1, <2>2, <2>3
  <1> QED
    BY <1>11, <1>12, <1>13

LEMMA NextHandover ==
    HandoverInv /\ [Next]_vars => HandoverInv' /\ [Handover!Next]_Handed
  <1> SUFFICES ASSUME HandoverInv, [Next]_vars
               PROVE  HandoverInv' /\ [Handover!Next]_Handed
    OBVIOUS
  <1>1. PartsWhole'
    BY NextWhole DEF HandoverInv
  <1>2. MadeInv' /\ StoredInv' /\ [Handover!Next]_Handed
    <2>1. CASE UNCHANGED vars
      <3>1. UNCHANGED <<row, raw, events, route, session, tab, listed, finish, rec>>
        BY <2>1 DEF vars, meta, minio, kind, browser, mpCall
      <3>2. MadeInv' /\ StoredInv'
        BY <3>1 DEF HandoverInv, MadeInv, StoredInv
      <3> QED
        BY <3>1, <3>2, SameHanded
    <2> QED
      BY <2>1, TabHandover, RestHandover, ChunkHandover, BesideHandover DEF Next
  <1> QED
    BY <1>1, <1>2 DEF HandoverInv

\* HandoffKept: whichever way a file takes, for any number of pieces, tabs and sessions
\* and whatever fails, its row comes before its object and its object before its event
\* (multipart.go:235-289, presign.go:146-163, reconciler.go:86-107).
THEOREM UploadsImplementHandoff == Spec => HandoffKept
  <1>1. Init => HandoverInv /\ Handover!Init
    <2>1. Init => Handover!Init
      BY DEF Init, Handover!Init, Row, Kept, Announced, Video
    <2>2. Init => MadeInv /\ StoredInv
      BY DEF Init, MadeInv, StoredInv
    <2> QED
      BY <2>1, <2>2, InitWhole DEF HandoverInv
  <1>2. HandoverInv /\ [Next]_vars =>
          HandoverInv' /\ [Handover!Next]_<<Row, Kept, Announced, {}>>
    BY NextHandover DEF Handed
  <1> QED
    BY <1>1, <1>2, PTL DEF Spec, HandoffKept, Handover!Spec

-----------------------------------------------------------------------------
(* What was announced is whole *)

\* The tabs announce what was uploaded in parts.
JoinedInv == "multipart" \in events => route = "multipart"

AnnouncedInv == HandoverInv /\ JoinedInv

LEMMA NextJoined == AnnouncedInv /\ [Next]_vars => JoinedInv'
  <1> SUFFICES ASSUME IInv, JoinedInv, [Next]_vars PROVE JoinedInv'
    BY DEF AnnouncedInv, HandoverInv, PartsWhole
  <1>1. ASSUME NEW t \in Tabs, StartUpload(t) PROVE JoinedInv'
    BY <1>1 DEF JoinedInv, StartUpload
  <1>2. ASSUME NEW t \in Tabs, TabStep(t) PROVE JoinedInv'
    <2>1. UNCHANGED route
      BY <1>2
          DEF TabStep, ListForResume, Create, PresignPart, PutPart, FindSession, ListPage,
           Assemble, StatAssembled, PublishAssembled, Done, SessionGone, GiveUp, others, kind
    <2>2. CASE PublishAssembled(t)
      BY <2>1, <2>2 DEF PublishAssembled, IInv, RouteInv, JoinedInv
    <2>3. CASE ~PublishAssembled(t)
      <3>1. UNCHANGED events
        BY <1>2, <2>3
            DEF TabStep, ListForResume, Create, PresignPart, PutPart, FindSession, ListPage,
             Assemble, StatAssembled, Done, SessionGone, GiveUp, others
      <3> QED
        BY <2>1, <3>1 DEF JoinedInv
    <2> QED
      BY <2>2, <2>3
  <1>3. CASE Presign \/ Upload \/ CreateMeta
    <2>1. route = "none" /\ UNCHANGED events
      BY <1>3 DEF Presign, Upload, CreateMeta, NewRow
    <2> QED
      BY <2>1 DEF JoinedInv
  <1>4. CASE PutPresigned \/ StoreBody \/ StatFinished \/ PublishFinished
    <2>1. UNCHANGED route /\ ("multipart" \in events' => "multipart" \in events)
      BY <1>4 DEF PutPresigned, StoreBody, StatFinished, PublishFinished, kind
    <2> QED
      BY <2>1 DEF JoinedInv
  <1>5. CASE AskOffset \/ PutWhole \/ LoseAnswer \/ FinishChunks
    <2>1. UNCHANGED <<route, events>>
      BY <1>5 DEF AskOffset, PutWhole, LoseAnswer, FinishChunks, quiet, kind
    <2> QED
      BY <2>1 DEF JoinedInv
  <1>6. ASSUME NEW c \in Chunks, SendChunk(c) \/ ChunkStep(c) PROVE JoinedInv'
    <2>1. UNCHANGED <<route, events>>
      BY <1>6 DEF SendChunk, ChunkStep, StatChunk, GetStored, PutChunk, FailChunk, quiet, kind
    <2> QED
      BY <2>1 DEF JoinedInv
  <1>7. CASE Age \/ RecList \/ RecStep \/ TakeEvent
    <2>1. UNCHANGED route /\ ("multipart" \in events' => "multipart" \in events)
      BY <1>7
          DEF Age, RecList, RecStep, RecStat, RecRepublish, RecAbort, RecFail, TakeEvent,
           beside, kind
    <2> QED
      BY <2>1 DEF JoinedInv
  <1>8. CASE UNCHANGED vars
    BY <1>8 DEF vars, kind, JoinedInv
  <1> QED
    BY <1>1, <1>2, <1>3, <1>4, <1>5, <1>6, <1>7, <1>8 DEF Next

\* For any number of pieces, requests and failures: what was answered complete, or
\* announced by the client's complete call or its direct upload, is the whole file for as
\* long as no chunk was left behind in a handler, and so is what a tab announced if
\* Create left one session (resumable.go:220-222, presign.go:146-163, upload.go:125-140,
\* multipart.go:264-289).
THEOREM CompleteAlwaysWhole == Spec => []CompleteMeansWhole
  <1>1. Init => AnnouncedInv
    <2>1. Init => MadeInv /\ StoredInv /\ JoinedInv
      BY DEF Init, MadeInv, StoredInv, JoinedInv
    <2> QED
      BY <2>1, InitWhole DEF AnnouncedInv, HandoverInv
  <1>2. AnnouncedInv /\ [Next]_vars => AnnouncedInv'
    BY NextHandover, NextJoined DEF AnnouncedInv
  <1>3. AnnouncedInv => CompleteMeansWhole
    <2>1. ASSUME AnnouncedInv, "multipart" \in events, OneSession PROVE raw = File
      <3>1. raw # <<>> /\ route = "multipart"
        BY <2>1 DEF AnnouncedInv, HandoverInv, StoredInv, JoinedInv
      <3>2. Single
        BY <2>1, OneIsSingle DEF AnnouncedInv, HandoverInv, PartsWhole, TypeInv
      <3> QED
        BY <2>1, <3>1, <3>2 DEF AnnouncedInv, HandoverInv, PartsWhole, WholeFile
    <2>2. AnnouncedInv => IInv
      BY DEF AnnouncedInv, HandoverInv, PartsWhole
    <2> QED
      BY <2>1, <2>2, ToldWhole DEF CompleteMeansWhole, Told
  <1> QED
    BY <1>1, <1>2, <1>3, PTL DEF Spec

==============================================================================
