------------------------------ MODULE RawUpload ------------------------------
(***************************************************************************)
(* How the bytes of one video reach raw/{id}/original.mp4 in MinIO, and     *)
(* when they are announced: S3 multipart sessions driven by browser tabs    *)
(* (handler/multipart.go, storage/minio.go), chunks with Content-Range      *)
(* (handler/resumable.go), a presigned PUT (handler/presign.go), the direct *)
(* upload (handler/upload.go), and the reconciler beside all of them.       *)
(*                                                                         *)
(* The file is N pieces: part n of a session, or chunk n, holds piece n.    *)
(* The raw keys of two videos are disjoint, so one video is enough. A step  *)
(* is one call to MinIO, to the metadata service or to the queue.           *)
(***************************************************************************)
EXTENDS Naturals, Sequences, SequencesExt, FiniteSets

CONSTANTS
    Tabs,         \* browser tabs with the same file: they share localStorage
    Chunks,       \* resumable requests the service handles at the same time
    N,            \* pieces of the file
    PageSize,     \* parts in one answer of ListObjectParts (1000)
    MaxSessions,  \* multipart sessions one Create may leave at the key
    MaxStarts,    \* bound on the uploads started or resumed by the tabs
    MaxFaults     \* bound on failed calls, lost answers and closed tabs

ASSUME SizesAssumption ==
    /\ N \in Nat \ {0} /\ PageSize \in Nat \ {0} /\ MaxSessions \in Nat \ {0}
    /\ MaxStarts \in Nat /\ MaxFaults \in Nat
ASSUME IdleAssumption == "nobody" \notin Chunks

VARIABLES
    \* metadata service
    row,        \* status of the video: "none" before its row exists
    aged,       \* created_at is older than UPLOAD_STALE_TTL_SECONDS
    \* MinIO
    session,    \* multipart sessions of the key, in the order of Initiated
    raw,        \* pieces of raw/{id}/original.mp4; empty: no such object
    \* RabbitMQ
    events,     \* who has published video.uploaded for this video
    \* clients
    route,      \* how this video is uploaded
    ctype,      \* its Content-Type: "video" is video/*, "octet" an octet stream
    resumeKey,  \* localStorage holds this video's id for the file
    tab, part,  \* where each tab is in uploadVideoMultipart, and its part
    offset,     \* what the resumable client believes is stored
    awaits,     \* the chunk request whose answer it waits for
    finish,     \* the client's complete call after a PUT or the last chunk
    \* upload service, one Complete call per tab, one Upload call per chunk
    found,      \* the session a presigned URL or a Complete call is bound to
    listed,     \* parts that call has listed
    chunk,      \* the chunk request being handled
    rec,        \* the reconciler's pass over this video
    \* bounds, and history used by the properties
    starts, faults,
    aborted,    \* the reconciler has aborted a session
    overlapped, \* the client went on while a chunk was still being handled
    confirmed   \* a chunk was answered "complete"

meta    == <<row, aged>>
minio   == <<session, raw>>
browser == <<resumeKey, tab, part, starts>>
mpCall  == <<found, listed>>
chunked == <<offset, awaits, chunk, overlapped, confirmed>>
kind    == <<route, ctype>>
vars    == <<meta, minio, events, kind, browser, mpCall, chunked, finish, rec,
             faults, aborted>>

File     == [i \in 1..N |-> i]
Parts    == 1..N
Ids      == 1..MaxSessions
NoChunk  == [at |-> "idle", start |-> 0, got |-> <<>>]
TabPc    == {"idle", "list", "create", "presign", "put", "find", "pages",
             "assemble", "stat", "publish", "answer"}
ChunkPc  == {"idle", "stat", "get", "put"}

TypeOK ==
    /\ row \in {"none", "uploaded", "processing", "failed"} /\ aged \in BOOLEAN
    /\ session \in [Ids -> [open : BOOLEAN, used : BOOLEAN, parts : SUBSET Parts]]
    /\ raw \in Seq(Parts)
    /\ events \subseteq {"multipart", "finish", "direct", "reconciler"}
    /\ route \in {"none", "multipart", "presigned", "resumable", "direct"}
    /\ ctype \in {"video", "octet"}
    /\ resumeKey \in BOOLEAN /\ tab \in [Tabs -> TabPc] /\ part \in [Tabs -> Parts]
    /\ found \in [Tabs -> Ids] /\ listed \in [Tabs -> SUBSET Parts]
    /\ offset \in Nat /\ awaits \in Chunks \cup {"nobody"}
    /\ chunk \in [Chunks -> [at : ChunkPc, start : Nat, got : Seq(Parts)]]
    /\ finish \in {"no", "store", "stat", "publish", "done"}
    /\ rec \in {"off", "stat", "republish", "find", "fail"}
    /\ starts \in 0..MaxStarts /\ faults \in 0..MaxFaults
    /\ aborted \in BOOLEAN /\ overlapped \in BOOLEAN /\ confirmed \in BOOLEAN

Init ==
    /\ row = "none" /\ aged = FALSE
    /\ session = [i \in Ids |-> [open |-> FALSE, used |-> FALSE, parts |-> {}]]
    /\ raw = <<>> /\ events = {}
    /\ route = "none" /\ ctype = "video"
    /\ resumeKey = FALSE
    /\ tab = [t \in Tabs |-> "idle"] /\ part = [t \in Tabs |-> 1]
    /\ found = [t \in Tabs |-> 1] /\ listed = [t \in Tabs |-> {}]
    /\ offset = 0 /\ awaits = "nobody" /\ chunk = [c \in Chunks |-> NoChunk]
    /\ finish = "no" /\ rec = "off"
    /\ starts = MaxStarts /\ faults = MaxFaults
    /\ aborted = FALSE /\ overlapped = FALSE /\ confirmed = FALSE

Fault  == faults > 0 /\ faults' = faults - 1
Smooth == UNCHANGED faults

-----------------------------------------------------------------------------
(* MinIO and its client *)

OpenIds == {i \in Ids : session[i].open}

\* FindUploadID: the latest session of the key that is still in progress.
Latest == CHOOSE i \in OpenIds : \A j \in OpenIds : j <= i

\* ListObjectParts after a marker: the next page, in the order of part numbers.
PageAfter(parts, marker) ==
    {p \in parts : p > marker /\ Cardinality({q \in parts : marker < q /\ q <= p}) <= PageSize}

Marker(parts) == IF parts = {} THEN 0 ELSE CHOOSE p \in parts : \A q \in parts : q <= p

\* Mutant of Truncated: the loop ends after the first page.
NeverTruncated(parts, seen) == FALSE

\* IsTruncated: there are parts after those seen.
Truncated(parts, seen) == \E p \in parts : p > Marker(seen)

\* CompleteMultipartUpload: the parts it is given, in the order of their numbers.
Joined(parts) ==
    [i \in 1..Cardinality(parts) |->
        CHOOSE p \in parts : Cardinality({q \in parts : q <= p}) = i]

-----------------------------------------------------------------------------
(* Multipart: the tabs and the service *)

others == <<aged, kind, events, chunked, finish, rec, aborted>>

Goto(t, l) == tab' = [tab EXCEPT ![t] = l]

\* The file is chosen: resume the video localStorage remembers, or create one.
StartUpload(t) ==
    /\ tab[t] = "idle" /\ starts > 0
    /\ starts' = starts - 1
    /\ \/ resumeKey /\ Goto(t, "list") /\ UNCHANGED route
       \/ route = "none" /\ route' = "multipart" /\ Goto(t, "create")
    /\ UNCHANGED <<meta, minio, events, ctype, resumeKey, part, mpCall, chunked,
                   finish, rec, faults, aborted>>

\* Parts. The answer names a part PartNumber and the client reads part_number, so
\* no part is skipped. After an error the tab forgets this video for a new one.
ListForResume(t) ==
    /\ tab[t] = "list"
    /\ \/ OpenIds # {} /\ Goto(t, "presign") /\ UNCHANGED resumeKey /\ Smooth
       \/ OpenIds = {} /\ Goto(t, "idle") /\ resumeKey' = FALSE /\ Smooth
       \/ Goto(t, "idle") /\ resumeKey' = FALSE /\ Fault
    /\ part' = [part EXCEPT ![t] = 1]
    /\ UNCHANGED <<row, minio, starts, mpCall, others>>

\* Create: the row, then the session. The MinIO client repeats a request whose
\* answer was lost, and each try that arrived has opened a session.
Create(t) ==
    /\ tab[t] = "create"
    /\ row' = "uploaded"
    /\ ctype' \in {"video", "octet"}
    /\ part' = [part EXCEPT ![t] = 1]
    /\ \E k \in 0..MaxSessions :
        /\ session' = [i \in Ids |-> [session[i] EXCEPT !.open = i <= k, !.used = i <= k]]
        /\ \/ /\ k > 0 /\ faults >= k - 1
              /\ faults' = faults - (k - 1)
              /\ Goto(t, "presign") /\ resumeKey' = TRUE
           \/ Fault /\ Goto(t, "idle") /\ UNCHANGED resumeKey
    /\ UNCHANGED <<aged, raw, route, events, starts, mpCall, chunked, finish, rec, aborted>>

\* PresignPart: the URL is bound to the session the key has now.
PresignPart(t) ==
    /\ tab[t] = "presign" /\ OpenIds # {}
    /\ found' = [found EXCEPT ![t] = Latest]
    /\ Goto(t, "put")
    /\ UNCHANGED <<row, minio, resumeKey, part, starts, listed, faults, others>>

StorePart(t) ==
    session' = [session EXCEPT ![found[t]].parts = @ \cup {part[t]}]

\* Mutant of PutPart: one part number too many.
PutPartBeyond(t) ==
    /\ tab[t] = "put" /\ session[found[t]].open
    /\ StorePart(t)
    /\ IF part[t] > N THEN Goto(t, "find") /\ UNCHANGED part
       ELSE Goto(t, "presign") /\ part' = [part EXCEPT ![t] = @ + 1]
    /\ Smooth
    /\ UNCHANGED <<row, raw, resumeKey, starts, mpCall, others>>

\* putPartToPresignedUrl, up to three times: a PUT whose answer is lost has stored
\* the part and is sent again.
PutPart(t) ==
    /\ tab[t] = "put" /\ session[found[t]].open
    /\ StorePart(t)
    /\ \/ part[t] < N /\ Goto(t, "presign") /\ part' = [part EXCEPT ![t] = @ + 1] /\ Smooth
       \/ part[t] = N /\ Goto(t, "find") /\ UNCHANGED part /\ Smooth
       \/ UNCHANGED <<tab, part>> /\ Fault
    /\ UNCHANGED <<row, raw, resumeKey, starts, mpCall, others>>

\* Complete: FindUploadID.
FindSession(t) ==
    /\ tab[t] = "find" /\ OpenIds # {}
    /\ found' = [found EXCEPT ![t] = Latest]
    /\ listed' = [listed EXCEPT ![t] = {}]
    /\ Goto(t, "pages")
    /\ UNCHANGED <<row, minio, resumeKey, part, starts, faults, others>>

\* Complete: one page of ListParts.
ListPage(t) ==
    LET parts == session[found[t]].parts
        seen  == listed[t] \cup PageAfter(parts, Marker(listed[t])) IN
    /\ tab[t] = "pages" /\ session[found[t]].open /\ parts # {}
    /\ listed' = [listed EXCEPT ![t] = seen]
    /\ Goto(t, IF Truncated(parts, seen) THEN "pages" ELSE "assemble")
    /\ UNCHANGED <<row, minio, resumeKey, part, starts, found, faults, others>>

\* Complete: CompleteMultipartUpload joins the listed parts and ends the session.
Assemble(t) ==
    /\ tab[t] = "assemble" /\ session[found[t]].open
    /\ raw' = Joined(listed[t])
    /\ session' = [session EXCEPT ![found[t]].open = FALSE, ![found[t]].parts = {}]
    /\ Goto(t, "stat")
    /\ UNCHANGED <<row, resumeKey, part, starts, mpCall, faults, others>>

\* Complete: StatObjectInfo. An octet stream was allowed at Create and is refused.
StatAssembled(t) ==
    /\ tab[t] = "stat"
    /\ Goto(t, IF raw # <<>> /\ ctype = "video" THEN "publish" ELSE "idle")
    /\ UNCHANGED <<row, minio, resumeKey, part, starts, mpCall, faults, others>>

\* Complete: Publish.
PublishAssembled(t) ==
    /\ tab[t] = "publish"
    /\ events' = events \cup {"multipart"}
    /\ Goto(t, "answer")
    /\ UNCHANGED <<meta, minio, kind, resumeKey, part, starts, mpCall, chunked,
                   finish, rec, faults, aborted>>

\* The tab has its answer and forgets the video.
Done(t) ==
    /\ tab[t] = "answer"
    /\ resumeKey' = FALSE
    /\ Goto(t, "idle")
    /\ UNCHANGED <<row, minio, part, starts, mpCall, faults, others>>

\* The session is gone: 404 from the service or from MinIO ends the attempt.
SessionGone(t) ==
    /\ \/ tab[t] \in {"presign", "find"} /\ OpenIds = {}
       \/ tab[t] \in {"put", "pages", "assemble"} /\ ~session[found[t]].open
       \/ tab[t] = "pages" /\ session[found[t]].parts = {}
    /\ Goto(t, "idle")
    /\ UNCHANGED <<row, minio, resumeKey, part, starts, mpCall, faults, others>>

\* A call fails for good, its answer is lost, or the tab is closed: the request's
\* context is cancelled and the handler makes no further call.
GiveUp(t) ==
    /\ tab[t] \notin {"idle", "list", "create"} /\ Fault
    /\ Goto(t, "idle")
    /\ UNCHANGED <<row, minio, resumeKey, part, starts, mpCall, others>>

TabStep(t) ==
    \/ ListForResume(t) \/ Create(t) \/ PresignPart(t) \/ PutPart(t) \/ FindSession(t)
    \/ ListPage(t) \/ Assemble(t) \/ StatAssembled(t) \/ PublishAssembled(t) \/ Done(t)
    \/ SessionGone(t) \/ GiveUp(t)

-----------------------------------------------------------------------------
(* The other ways to upload *)

still == <<aged, session, browser, mpCall, rec, aborted>>

NewRow(r) ==
    /\ route = "none" /\ row = "none"
    /\ route' = r /\ row' = "uploaded"
    /\ ctype' \in {"video", "octet"}
    /\ UNCHANGED <<raw, events, chunked, faults, still>>

\* Presign: the row, and a URL for one PUT of the whole file.
Presign == NewRow("presigned") /\ UNCHANGED finish

\* Upload: the row, then the body of the same request.
Upload == NewRow("direct") /\ finish' = "store"

\* POST /api/v1/videos: a row for a resumable upload.
CreateMeta == NewRow("resumable") /\ UNCHANGED finish

\* The presigned PUT; the client goes on to call complete.
PutPresigned ==
    /\ route = "presigned" /\ finish = "no"
    /\ raw' = File /\ finish' = "stat"
    /\ UNCHANGED <<row, events, kind, chunked, faults, still>>

\* Upload: PutObject, which may fail before or after it took effect.
StoreBody ==
    /\ finish = "store"
    /\ \/ raw' = File /\ finish' = "publish" /\ Smooth
       \/ raw' \in {raw, File} /\ finish' = "done" /\ Fault
    /\ UNCHANGED <<row, events, kind, chunked, still>>

\* presign.go Complete: StatObjectInfo, and its refusals.
StatFinished ==
    /\ finish = "stat"
    /\ \/ finish' = (IF raw # <<>> /\ ctype = "video" THEN "publish" ELSE "done") /\ Smooth
       \/ finish' = "done" /\ Fault
    /\ UNCHANGED <<row, raw, events, kind, chunked, still>>

\* Upload and presign.go Complete: Publish.
PublishFinished ==
    /\ finish = "publish" /\ finish' = "done"
    /\ \/ /\ events' = events \cup {IF route = "direct" THEN "direct" ELSE "finish"}
          /\ Smooth
       \/ UNCHANGED events /\ Fault
    /\ UNCHANGED <<row, raw, kind, chunked, still>>

-----------------------------------------------------------------------------
(* Chunks with Content-Range *)

ResumableClient == route = "resumable" /\ finish = "no" /\ awaits = "nobody"

quiet == <<row, events, kind, still>>

\* A chunk, perhaps one the client has given up, is being handled.
InHandler == \E d \in Chunks : chunk[d].at # "idle"

\* Status: any error of StatObject is answered as nothing uploaded.
AskOffset ==
    /\ ResumableClient /\ offset < N
    /\ \/ offset' = Len(raw) /\ Smooth
       \/ offset' = 0 /\ Fault
    /\ overlapped' = (overlapped \/ InHandler)
    /\ UNCHANGED <<raw, awaits, chunk, confirmed, finish, quiet>>

\* The client sends the next piece; the one before may still be in a handler.
SendChunk(c) ==
    /\ ResumableClient /\ offset < N /\ chunk[c].at = "idle"
    /\ chunk' = [chunk EXCEPT ![c] = [at |-> "stat", start |-> offset, got |-> <<>>]]
    /\ awaits' = c
    /\ overlapped' = (overlapped \/ InHandler)
    /\ UNCHANGED <<raw, offset, confirmed, finish, faults, quiet>>

\* Upload without Content-Range: the whole file replaces what is stored.
PutWhole ==
    /\ ResumableClient /\ offset < N
    /\ \/ raw' = File /\ offset' = N /\ Smooth
       \/ raw' \in {raw, File} /\ UNCHANGED offset /\ Fault
    /\ overlapped' = (overlapped \/ InHandler)
    /\ UNCHANGED <<awaits, chunk, confirmed, finish, quiet>>

\* The handler answers c: the stored size, or an error (n = offset).
Answer(c, n) ==
    /\ chunk' = [chunk EXCEPT ![c] = NoChunk]
    /\ IF awaits = c THEN awaits' = "nobody" /\ offset' = n
       ELSE UNCHANGED <<awaits, offset>>

Proceed(c, l, data) == chunk' = [chunk EXCEPT ![c].at = l, ![c].got = data]

\* Mutant of StatChunk: a chunk that starts below the size is taken.
StatChunkBelow(c) ==
    /\ chunk[c].at = "stat"
    /\ \E size \in {Len(raw), 0} :
        /\ IF size = Len(raw) THEN Smooth ELSE Fault
        /\ IF chunk[c].start > size THEN Answer(c, size)
           ELSE /\ Proceed(c, IF size = 0 THEN "put" ELSE "get", <<>>)
                /\ UNCHANGED <<awaits, offset>>
    /\ UNCHANGED <<raw, overlapped, confirmed, finish, quiet>>

\* Upload: StatObjectSize (an error counts as 0), then 416 with the size unless
\* the chunk starts there.
StatChunk(c) ==
    /\ chunk[c].at = "stat"
    /\ \E size \in {Len(raw), 0} :
        /\ IF size = Len(raw) THEN Smooth ELSE Fault
        /\ IF chunk[c].start # size THEN Answer(c, size)
           ELSE /\ Proceed(c, IF size = 0 THEN "put" ELSE "get", <<>>)
                /\ UNCHANGED <<awaits, offset>>
    /\ UNCHANGED <<raw, overlapped, confirmed, finish, quiet>>

\* Upload: GetObject, all that is stored by now.
GetStored(c) ==
    /\ chunk[c].at = "get"
    /\ Proceed(c, "put", raw)
    /\ UNCHANGED <<raw, offset, awaits, overlapped, confirmed, finish, faults, quiet>>

\* Mutant of PutChunk: "complete" is answered one piece early.
PutChunkEarly(c) ==
    /\ chunk[c].at = "put"
    /\ raw' = Append(chunk[c].got, chunk[c].start + 1)
    /\ Answer(c, Len(raw')) /\ Smooth
    /\ confirmed' = (confirmed \/ (awaits = c /\ Len(raw') >= N - 1))
    /\ UNCHANGED <<overlapped, finish, quiet>>

\* Upload: PutObject of what was read and the chunk; 200 "complete" at the total.
PutChunk(c) ==
    /\ chunk[c].at = "put"
    /\ raw' = Append(chunk[c].got, chunk[c].start + 1)
    /\ \/ /\ Answer(c, Len(raw')) /\ Smooth
          /\ confirmed' = (confirmed \/ (awaits = c /\ Len(raw') = N))
       \/ Answer(c, offset) /\ Fault /\ UNCHANGED confirmed
    /\ UNCHANGED <<overlapped, finish, quiet>>

\* The body breaks off, a call fails or the service restarts: nothing is stored.
FailChunk(c) ==
    /\ chunk[c].at # "idle" /\ Fault
    /\ Answer(c, offset)
    /\ UNCHANGED <<raw, overlapped, confirmed, finish, quiet>>

\* The client's own timeout: the handler goes on.
LoseAnswer ==
    /\ awaits # "nobody" /\ Fault
    /\ awaits' = "nobody"
    /\ UNCHANGED <<raw, offset, chunk, overlapped, confirmed, finish, quiet>>

\* All is stored, as far as the client knows: it calls complete.
FinishChunks ==
    /\ ResumableClient /\ offset = N
    /\ finish' = "stat"
    /\ overlapped' = (overlapped \/ InHandler)
    /\ UNCHANGED <<raw, offset, awaits, chunk, confirmed, faults, quiet>>

ChunkStep(c) == StatChunk(c) \/ GetStored(c) \/ PutChunk(c) \/ FailChunk(c)

-----------------------------------------------------------------------------
(* The reconciler, and the worker that takes an event *)

beside == <<raw, kind, browser, mpCall, chunked, finish>>

\* The upload is older than UPLOAD_STALE_TTL_SECONDS.
Age ==
    /\ row # "none" /\ ~aged /\ aged' = TRUE
    /\ UNCHANGED <<row, session, events, rec, faults, aborted, beside>>

RecList ==
    /\ row = "uploaded" /\ aged /\ rec = "off"
    /\ rec' = "stat"
    /\ UNCHANGED <<meta, session, events, faults, aborted, beside>>

\* Mutant of RecStat: the content-type check of Complete is made here too.
RecStatVideoOnly ==
    /\ rec = "stat"
    /\ \/ raw # <<>> /\ rec' = (IF ctype = "video" THEN "republish" ELSE "off") /\ Smooth
       \/ raw = <<>> /\ rec' = "find" /\ Smooth
       \/ rec' = "find" /\ Fault
    /\ UNCHANGED <<meta, session, events, aborted, beside>>

\* Mutant of RecStat: an error counts as a finished upload.
RecStatTrusting ==
    /\ rec = "stat"
    /\ \/ rec' = (IF raw # <<>> THEN "republish" ELSE "find") /\ Smooth
       \/ rec' = "republish" /\ Fault
    /\ UNCHANGED <<meta, session, events, aborted, beside>>

\* Any object counts as a finished upload, any error as none.
RecStat ==
    /\ rec = "stat"
    /\ \/ rec' = (IF raw # <<>> THEN "republish" ELSE "find") /\ Smooth
       \/ rec' = "find" /\ Fault
    /\ UNCHANGED <<meta, session, events, aborted, beside>>

RecRepublish ==
    /\ rec = "republish" /\ rec' = "off"
    /\ \/ events' = events \cup {"reconciler"} /\ Smooth
       \/ UNCHANGED events /\ Fault
    /\ UNCHANGED <<meta, session, aborted, beside>>

\* FindUploadID and AbortMultipartUpload: the latest session, and only that one.
RecAbort ==
    /\ rec = "find" /\ rec' = "fail"
    /\ \/ OpenIds = {} /\ UNCHANGED <<session, aborted>> /\ Smooth
       \/ /\ OpenIds # {} /\ aborted' = TRUE /\ Smooth
          /\ session' = [session EXCEPT ![Latest].open = FALSE, ![Latest].parts = {}]
       \/ UNCHANGED <<session, aborted>> /\ Fault
    /\ UNCHANGED <<meta, events, beside>>

RecFail ==
    /\ rec = "fail" /\ rec' = "off"
    /\ \/ row' = "failed" /\ Smooth
       \/ UNCHANGED row /\ Fault
    /\ UNCHANGED <<aged, session, events, aborted, beside>>

RecStep == RecStat \/ RecRepublish \/ RecAbort \/ RecFail

\* A worker marks the video (VideoPipeline has the rest of its life).
TakeEvent ==
    /\ events # {} /\ row = "uploaded" /\ row' = "processing"
    /\ UNCHANGED <<aged, session, events, rec, faults, aborted, beside>>

-----------------------------------------------------------------------------
Next ==
    \/ \E t \in Tabs : StartUpload(t) \/ TabStep(t)
    \/ Presign \/ Upload \/ CreateMeta \/ PutPresigned
    \/ StoreBody \/ StatFinished \/ PublishFinished
    \/ AskOffset \/ PutWhole \/ LoseAnswer \/ FinishChunks
    \/ \E c \in Chunks : SendChunk(c) \/ ChunkStep(c)
    \/ Age \/ RecList \/ RecStep \/ TakeEvent

Spec == Init /\ [][Next]_vars

\* Rows grow old and the reconciler's ticker keeps firing; clients owe nothing.
FairSpec == Spec /\ WF_vars(Age) /\ WF_vars(RecList) /\ WF_vars(RecStep)

-----------------------------------------------------------------------------
(* Properties *)

\* Create has left one session at the key, or none: it opens a second one when the
\* answer to the first is lost.
OneSession == Cardinality({i \in Ids : session[i].used}) <= 1

\* A multipart upload stores the whole file or nothing, whatever tabs resume it,
\* lose answers or meet the reconciler, as long as its Create left one session
\* (multipart.go:235-263, minio.go:199-267). With a second one it does not hold:
\* when the latest session ends, the older one is the latest again.
MultipartWhole ==
    route = "multipart" /\ OneSession => raw \in {<<>>, File}

\* Chunks sent one at a time leave a beginning of the file, through lost answers,
\* repeated chunks, restarts and sizes that could not be read (resumable.go:158-219).
\* With one still in its handler they do not: both may read the same size.
ChunksInOrder == route = "resumable" /\ ~overlapped => IsPrefix(raw, File)

\* What a client was told is complete is the file, and stays the file: the 200 for
\* the last chunk, the event its complete call or its direct upload published, and the
\* one a tab published after it joined the parts (resumable.go:220-222,
\* presign.go:146-163, upload.go:125-140, multipart.go:264-289). A client that goes on
\* with a chunk still in its handler may lose the file: if its stat fails, a late first
\* chunk replaces all that is stored. So may a tab whose parts are in two sessions.
CompleteMeansWhole ==
    /\ (confirmed \/ events \cap {"finish", "direct"} # {}) /\ ~overlapped => raw = File
    /\ "multipart" \in events /\ OneSession => raw = File

\* The one video of this module, as a set.
Video     == {"video"}
Row       == [v \in Video |-> row]
Kept      == {v \in Video : raw # <<>>}
Announced == {v \in Video : events # {}}

Handover == INSTANCE Handoff
    WITH Videos <- Video, row <- Row, kept <- Kept, announced <- Announced, finished <- {}

\* Row, original and event come in this order, whichever way the file takes and
\* whatever fails on it: nobody announces a video without an object
\* (multipart.go:235-289, presign.go:146-163, reconciler.go:86-107).
HandoffKept == Handover!Spec

\* A stored file is announced or failed in the end, also when Complete refused its
\* Content-Type, failed to publish or was cut off (reconciler.go:86-99).
StoredIsAnnounced ==
    (raw = File /\ row = "uploaded") ~> (events # {} \/ row = "failed")

=============================================================================
