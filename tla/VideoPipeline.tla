--------------------------- MODULE VideoPipeline ---------------------------
(***************************************************************************)
(* The life of an uploaded video in Flowix, across four processes that     *)
(* share a database, an object store and a queue:                          *)
(*                                                                         *)
(*   - the upload service creates the row, lets the client store the       *)
(*     bytes, and publishes video.uploaded (handler/multipart.go,          *)
(*     handler/presign.go, handler/upload.go);                             *)
(*   - transcoder workers consume the event with a retry queue and a dead  *)
(*     letter queue (transcoder/app/consumer.py);                          *)
(*   - the reconciler of the upload service repairs rows that stay         *)
(*     'uploaded' (reconciler/reconciler.go);                              *)
(*   - the metadata service keeps status and renditions and deletes videos *)
(*     (repository/video.go, handler/video.go).                            *)
(*                                                                         *)
(* A step of the model is one call that one process makes on a shared      *)
(* store, so the other processes may act between any two calls.            *)
(***************************************************************************)
EXTENDS Naturals

CONSTANTS
    Videos,      \* video ids (UUIDs: a deleted id is never issued again)
    Workers,     \* transcoder processes
    MsgIds,      \* identities of the messages in flight: bounds their number
    Qualities,   \* RENDITIONS_SPEC: "360p", "720p", "1080p"
    Ladder,      \* Ladder[v]: the renditions the height of v calls for
    Corrupt,     \* videos whose bytes ffmpeg cannot transcode
    KeepRaw,     \* KEEP_RAW: keep the original after 'ready'
    MaxRetries,  \* MAX_RETRIES
    MaxFaults,   \* bound on transient failures and worker crashes
    MaxDrops,    \* bound on AMQP connections lost under a running worker
    NoJob        \* a worker that handles no message

Message == [id : MsgIds, video : Videos, tries : 0..MaxRetries]

ASSUME LadderAssumption ==
    Ladder \in [Videos -> SUBSET Qualities] /\ \A v \in Videos : Ladder[v] # {}
ASSUME BoundsAssumption ==
    MaxRetries \in Nat /\ MaxFaults \in Nat /\ MaxDrops \in Nat
ASSUME KeepRawAssumption == KeepRaw \in BOOLEAN
ASSUME NoJobAssumption == NoJob \notin Message

VARIABLES
    \* Postgres, behind the metadata service
    row,        \* "none", a status, or "deleted"
    rends,      \* qualities with a row in video_renditions
    aged,       \* created_at is older than UPLOAD_STALE_TTL_SECONDS
    \* MinIO
    raw,        \* raw/{id}/original.mp4 exists
    grant,      \* how the client may still store it: "session", "url", "none"
    objs,       \* qualities with an object renditions/{id}/{q}.mp4
    \* RabbitMQ
    main,       \* QUEUE, ready messages
    retryQ,     \* RETRY_QUEUE, waiting for their TTL
    dlq,        \* videos with a message in DLQ
    \* transcoder workers
    pc, job,    \* where a worker is and the message it handles
    linked,     \* its AMQP connection is open
    todo, made, \* renditions of this run to encode; encoded and stored
    \* upload service: the complete call of each video, and the reconciler
    up, rec,
    \* metadata service: the delete call of each video
    del,
    \* bounds, and history used by the properties
    faults, drops,
    published,  \* the broker took a video.uploaded for this video
    everReady   \* the row has been 'ready'

db      == <<row, rends, everReady>>
store   == <<raw, grant, objs>>
broker  == <<main, retryQ, dlq>>
worker  == <<pc, job, linked, todo, made>>
upload  == <<up, published>>
bounds  == <<faults, drops>>
vars    == <<db, aged, store, broker, worker, upload, rec, del, bounds>>

Status == {"uploaded", "processing", "ready", "failed"}

WorkerPc == {"idle", "check", "mark", "fetch", "encode", "report", "ready",
             "clean", "ack", "stalled", "fail", "republished", "markfailed", "nack"}

\* No rendition has been made yet.
Unbegun == {"idle", "check", "mark", "fetch"}

RecStage == {"off", "listed", "republish", "abort", "fail"}

DbType ==
    /\ row \in [Videos -> Status \cup {"none", "deleted"}]
    /\ rends \in [Videos -> SUBSET Qualities]
    /\ everReady \in [Videos -> BOOLEAN]
    /\ aged \in [Videos -> BOOLEAN]

StoreType ==
    /\ raw \in [Videos -> BOOLEAN]
    /\ grant \in [Videos -> {"none", "session", "url"}]
    /\ objs \in [Videos -> SUBSET Qualities]

BrokerType ==
    /\ main \subseteq Message
    /\ retryQ \subseteq Message
    /\ dlq \subseteq Videos

WorkerType ==
    /\ pc \in [Workers -> WorkerPc]
    /\ job \in [Workers -> Message \cup {NoJob}]
    /\ linked \in [Workers -> BOOLEAN]
    /\ todo \in [Workers -> SUBSET Qualities]
    /\ made \in [Workers -> SUBSET Qualities]
    /\ \A w \in Workers :
        /\ pc[w] = "idle" <=> job[w] = NoJob
        /\ pc[w] \in Unbegun => made[w] = {}

ServiceType ==
    /\ up \in [Videos -> {"idle", "checked", "stored"}]
    /\ published \in [Videos -> BOOLEAN]
    /\ rec \in [Videos -> RecStage]
    /\ del \in [Videos -> {"no", "keys", "prefix", "done", "cut"}]

BoundsType == faults \in 0..MaxFaults /\ drops \in 0..MaxDrops

TypeOK ==
    /\ DbType /\ StoreType /\ BrokerType /\ WorkerType /\ ServiceType /\ BoundsType

-----------------------------------------------------------------------------
Init ==
    /\ row = [v \in Videos |-> "none"]
    /\ rends = [v \in Videos |-> {}]
    /\ aged = [v \in Videos |-> FALSE]
    /\ raw = [v \in Videos |-> FALSE]
    /\ grant = [v \in Videos |-> "none"]
    /\ objs = [v \in Videos |-> {}]
    /\ main = {} /\ retryQ = {} /\ dlq = {}
    /\ pc = [w \in Workers |-> "idle"]
    /\ job = [w \in Workers |-> NoJob]
    /\ linked = [w \in Workers |-> TRUE]
    /\ todo = [w \in Workers |-> {}] /\ made = [w \in Workers |-> {}]
    /\ up = [v \in Videos |-> "idle"]
    /\ rec = [v \in Videos |-> "off"]
    /\ del = [v \in Videos |-> "no"]
    /\ faults = MaxFaults /\ drops = MaxDrops
    /\ published = [v \in Videos |-> FALSE]
    /\ everReady = [v \in Videos |-> FALSE]

\* A call that fails for a reason of its own: one of the MaxFaults allowed.
Fault == faults > 0 /\ faults' = faults - 1 /\ UNCHANGED drops

Smooth == UNCHANGED bounds

-----------------------------------------------------------------------------
(* The metadata service *)

\* Mutant of UpdateStatus: no check of the row's current status.
UpdateAnyStatus(v, s, Q) ==
    /\ row[v] \in Status
    /\ row' = [row EXCEPT ![v] = s]
    /\ rends' = [rends EXCEPT ![v] = @ \cup Q]
    /\ everReady' = [everReady EXCEPT ![v] = @ \/ s = "ready"]

\* VideoRepo.UpdateStatus: one transaction under SELECT ... FOR UPDATE. A ready
\* row ignores 'processing' and 'uploaded' together with their renditions.
UpdateStatus(v, s, Q) ==
    /\ row[v] \in Status
    /\ IF row[v] = "ready" /\ s \in {"processing", "uploaded"}
       THEN UNCHANGED db
       ELSE /\ row' = [row EXCEPT ![v] = s]
            /\ rends' = [rends EXCEPT ![v] = @ \cup Q]
            /\ everReady' = [everReady EXCEPT ![v] = @ \/ s = "ready"]

\* The caller saw the call succeed.
Applied(v, s, Q) == UpdateStatus(v, s, Q) /\ Smooth

\* The call changed nothing: no row (the handler answers 500), or a failed request.
NotApplied(v) ==
    /\ UNCHANGED db
    /\ \/ row[v] \notin Status /\ Smooth
       \/ Fault

\* The call was applied, and the caller timed out waiting for the answer.
Unheard(v, s, Q) == UpdateStatus(v, s, Q) /\ Fault

\* A caller that does not look at the result.
TryUpdate(v, s, Q) == Applied(v, s, Q) \/ NotApplied(v)

-----------------------------------------------------------------------------
(* Messages *)

Messages == main \cup retryQ \cup {job[w] : w \in {x \in Workers : pc[x] # "idle"}}

InUse == {m.id : m \in Messages}

\* VideoUploadedEvent for v, published on the main queue.
PublishEvent(v) ==
    /\ \E i \in MsgIds \ InUse : main' = main \cup {[id |-> i, video |-> v, tries |-> 0]}
    /\ published' = [published EXCEPT ![v] = TRUE]

-----------------------------------------------------------------------------
(* The upload service *)

\* Presign, MultipartHandler.Create, UploadHandler.Upload: the row comes first.
\* A multipart session that cannot be created leaves the row without a grant.
Create(v) ==
    /\ row[v] = "none"
    /\ row' = [row EXCEPT ![v] = "uploaded"]
    /\ \/ \E g \in {"session", "url"} : grant' = [grant EXCEPT ![v] = g] /\ Smooth
       \/ UNCHANGED grant /\ Fault
    /\ UNCHANGED <<rends, everReady, aged, raw, objs, broker, worker, upload, rec, del>>

\* The client's PUT to the presigned URL (or PutObject of the direct upload).
PutRaw(v) ==
    /\ grant[v] = "url"
    /\ raw' = [raw EXCEPT ![v] = TRUE]
    /\ grant' = [grant EXCEPT ![v] = "none"]
    /\ UNCHANGED <<db, aged, objs, broker, worker, upload, rec, del, bounds>>

\* Both Complete handlers start with requireOwnership, which reads the row.
BeginComplete(v) ==
    /\ up[v] = "idle" /\ row[v] \in Status
    /\ up' = [up EXCEPT ![v] = "checked"]
    /\ UNCHANGED <<db, aged, store, broker, worker, published, rec, del, bounds>>

\* MultipartHandler.Complete: the session's parts become the raw object.
AssembleSession(v) ==
    /\ up[v] = "checked" /\ grant[v] = "session"
    /\ raw' = [raw EXCEPT ![v] = TRUE]
    /\ grant' = [grant EXCEPT ![v] = "none"]
    /\ up' = [up EXCEPT ![v] = "stored"]
    /\ UNCHANGED <<db, aged, objs, broker, worker, published, rec, del, bounds>>

\* Mutant of FindRaw: the client is believed that it has stored the object.
FindRawUnchecked(v) ==
    /\ up[v] = "checked"
    /\ up' = [up EXCEPT ![v] = "stored"]
    /\ UNCHANGED <<db, aged, store, broker, worker, published, rec, del, bounds>>

\* PresignHandler.Complete: the object is there, however it was stored.
FindRaw(v) ==
    /\ up[v] = "checked" /\ raw[v]
    /\ up' = [up EXCEPT ![v] = "stored"]
    /\ UNCHANGED <<db, aged, store, broker, worker, published, rec, del, bounds>>

\* No session, no object, no parts, an empty object: an error answer.
RejectComplete(v) ==
    /\ up[v] = "checked"
    /\ up' = [up EXCEPT ![v] = "idle"]
    /\ UNCHANGED <<db, aged, store, broker, worker, published, rec, del, bounds>>

\* The event is published and the client told so, or the publish fails (500).
PublishUploaded(v) ==
    /\ up[v] = "stored"
    /\ up' = [up EXCEPT ![v] = "idle"]
    /\ \/ PublishEvent(v) /\ Smooth
       \/ UNCHANGED <<main, published>> /\ Fault
    /\ UNCHANGED <<db, aged, store, retryQ, dlq, worker, rec, del>>

-----------------------------------------------------------------------------
(* The reconciler of the upload service: one list, then one video at a time *)

\* created_at passes the TTL; nothing reads it once the row has left 'uploaded'.
Age(v) ==
    /\ row[v] = "uploaded" /\ ~aged[v]
    /\ aged' = [aged EXCEPT ![v] = TRUE]
    /\ UNCHANGED <<db, store, broker, worker, upload, rec, del, bounds>>

Stale(v) == row[v] = "uploaded" /\ aged[v]

\* ListStaleUploaded: what the pass works on is what the table said once.
RecList ==
    /\ \A v \in Videos : rec[v] = "off"
    /\ \E v \in Videos : Stale(v)
    /\ rec' = [v \in Videos |-> IF Stale(v) THEN "listed" ELSE "off"]
    /\ UNCHANGED <<db, aged, store, broker, worker, upload, del, bounds>>

\* Mutant of RecStat: no object yet means the client is still uploading.
RecStatWaits(v) ==
    /\ rec[v] = "listed"
    /\ \A u \in Videos : rec[u] \in {"off", "listed"}
    /\ rec' = [rec EXCEPT ![v] = IF raw[v] THEN "republish" ELSE "off"]
    /\ UNCHANGED <<db, aged, store, broker, worker, upload, del, bounds>>

\* StatObjectSize: an error counts as a missing object.
RecStat(v) ==
    /\ rec[v] = "listed"
    /\ \A u \in Videos : rec[u] \in {"off", "listed"}
    /\ \/ raw[v] /\ rec' = [rec EXCEPT ![v] = "republish"] /\ Smooth
       \/ ~raw[v] /\ rec' = [rec EXCEPT ![v] = "abort"] /\ Smooth
       \/ raw[v] /\ rec' = [rec EXCEPT ![v] = "abort"] /\ Fault
    /\ UNCHANGED <<db, aged, store, broker, worker, upload, del>>

RecRepublish(v) ==
    /\ rec[v] = "republish"
    /\ rec' = [rec EXCEPT ![v] = "off"]
    /\ \/ PublishEvent(v) /\ Smooth
       \/ UNCHANGED <<main, published>> /\ Fault
    /\ UNCHANGED <<db, aged, store, retryQ, dlq, worker, up, del>>

\* FindUploadID and AbortMultipartUpload, best effort.
RecAbort(v) ==
    /\ rec[v] = "abort"
    /\ rec' = [rec EXCEPT ![v] = "fail"]
    /\ \/ /\ grant' = [grant EXCEPT ![v] = IF @ = "session" THEN "none" ELSE @]
          /\ Smooth
       \/ grant[v] = "session" /\ UNCHANGED grant /\ Fault
    /\ UNCHANGED <<db, aged, raw, objs, broker, worker, upload, del>>

\* SetStatus(failed), whatever became of the video since the list and the stat.
RecFail(v) ==
    /\ rec[v] = "fail"
    /\ rec' = [rec EXCEPT ![v] = "off"]
    /\ TryUpdate(v, "failed", {})
    /\ UNCHANGED <<aged, store, broker, worker, upload, del>>

Reconcile(v) == RecStat(v) \/ RecRepublish(v) \/ RecAbort(v) \/ RecFail(v)

\* The upload service restarts: its open calls and the reconciler's pass are gone.
RestartUpload ==
    /\ \E v \in Videos : up[v] # "idle" \/ rec[v] # "off"
    /\ Fault
    /\ up' = [v \in Videos |-> "idle"]
    /\ rec' = [v \in Videos |-> "off"]
    /\ UNCHANGED <<db, aged, store, broker, worker, published, del>>

-----------------------------------------------------------------------------
(* VideoHandler.Delete: the row and its renditions first, then the objects *)

DeleteRow(v) ==
    /\ row[v] \in Status
    /\ row' = [row EXCEPT ![v] = "deleted"]
    /\ rends' = [rends EXCEPT ![v] = {}]
    /\ del' = [del EXCEPT ![v] = "keys"]
    /\ UNCHANGED <<everReady, aged, store, broker, worker, upload, rec, bounds>>

\* RemoveObjects: the raw key and the renditions GetByID had listed, best effort.
SweepKeys(v) ==
    /\ del[v] = "keys"
    /\ del' = [del EXCEPT ![v] = "prefix"]
    /\ \/ /\ \E K \in SUBSET objs[v] : objs' = [objs EXCEPT ![v] = @ \ K]
          /\ raw' = [raw EXCEPT ![v] = FALSE]
          /\ Smooth
       \/ UNCHANGED <<objs, raw>> /\ Fault
    /\ UNCHANGED <<db, aged, grant, broker, worker, upload, rec>>

\* RemovePrefix of renditions/{id}/ and raw/{id}/, best effort.
SweepPrefix(v) ==
    /\ del[v] = "prefix"
    /\ del' = [del EXCEPT ![v] = "done"]
    /\ \/ /\ objs' = [objs EXCEPT ![v] = {}]
          /\ raw' = [raw EXCEPT ![v] = FALSE]
          /\ Smooth
       \/ UNCHANGED <<objs, raw>> /\ Fault
    /\ UNCHANGED <<db, aged, grant, broker, worker, upload, rec>>

\* The metadata service restarts: a delete between its steps is not resumed.
RestartMetadata ==
    /\ \E v \in Videos : del[v] \in {"keys", "prefix"}
    /\ Fault
    /\ del' = [v \in Videos |-> IF del[v] \in {"keys", "prefix"} THEN "cut" ELSE del[v]]
    /\ UNCHANGED <<db, aged, store, broker, worker, upload, rec>>

-----------------------------------------------------------------------------
(* The transcoder worker: handle_message and process_message *)

run    == <<todo, made>>
others == <<aged, grant, upload, rec, del>>

Video(w) == job[w].video

Goto(w, l) == pc' = [pc EXCEPT ![w] = l]

\* handle_message returns: the worker may take the next message.
Release(w) ==
    /\ Goto(w, "idle")
    /\ job' = [job EXCEPT ![w] = NoJob]
    /\ todo' = [todo EXCEPT ![w] = {}]
    /\ made' = [made EXCEPT ![w] = {}]

\* prefetch_count=1: a message is delivered to a worker that holds none.
Deliver(w) ==
    /\ pc[w] = "idle" /\ linked[w]
    /\ \E m \in main :
        /\ main' = main \ {m}
        /\ job' = [job EXCEPT ![w] = m]
    /\ Goto(w, "check")
    /\ UNCHANGED <<db, store, retryQ, dlq, linked, run, others, bounds>>

\* Mutant of CheckStatus: an unanswered status request skips the message.
CheckStatusOrSkip(w) ==
    /\ pc[w] = "check"
    /\ \/ row[Video(w)] \in {"ready", "failed"} /\ Goto(w, "ack") /\ Smooth
       \/ row[Video(w)] \notin {"ready", "failed"} /\ Goto(w, "mark") /\ Smooth
       \/ row[Video(w)] \notin {"ready", "failed"} /\ Goto(w, "ack") /\ Fault
    /\ UNCHANGED <<db, store, broker, job, linked, run, others>>

\* Mutant of CheckStatus: 'processing' is taken to be another worker's video.
CheckStatusClaimed(w) ==
    /\ pc[w] = "check"
    /\ Goto(w, IF row[Video(w)] \in {"processing", "ready", "failed"} THEN "ack" ELSE "mark")
    /\ UNCHANGED <<db, store, broker, job, linked, run, others, bounds>>

\* _get_status: None (no row, no answer) and the other statuses go on.
CheckStatus(w) ==
    /\ pc[w] = "check"
    /\ \/ row[Video(w)] \in {"ready", "failed"} /\ Goto(w, "ack") /\ Smooth
       \/ row[Video(w)] \notin {"ready", "failed"} /\ Goto(w, "mark") /\ Smooth
       \/ row[Video(w)] \in {"ready", "failed"} /\ Goto(w, "mark") /\ Fault
    /\ UNCHANGED <<db, store, broker, job, linked, run, others>>

\* update_status(processing), result ignored.
MarkProcessing(w) ==
    /\ pc[w] = "mark"
    /\ TryUpdate(Video(w), "processing", {})
    /\ Goto(w, "fetch")
    /\ UNCHANGED <<store, broker, job, linked, run, others>>

\* stat_object, disk check and fget_object; then ffprobe, whose failure is not
\* fatal: select_ladder takes every rendition when the height is unknown.
Fetch(w) ==
    /\ pc[w] = "fetch"
    /\ \/ /\ raw[Video(w)] /\ Goto(w, "encode")
          /\ \/ todo' = [todo EXCEPT ![w] = Ladder[Video(w)]] /\ Smooth
             \/ todo' = [todo EXCEPT ![w] = Qualities] /\ Fault
       \/ ~raw[Video(w)] /\ Goto(w, "fail") /\ UNCHANGED todo /\ Smooth
       \/ raw[Video(w)] /\ Goto(w, "fail") /\ UNCHANGED todo /\ Fault
    /\ UNCHANGED <<db, store, broker, job, linked, made, others>>

\* transcode_one and fput_object of one rendition; the order is left open.
Encode(w) ==
    /\ pc[w] = "encode" /\ Video(w) \notin Corrupt
    /\ \E q \in todo[w] :
        /\ objs' = [objs EXCEPT ![Video(w)] = @ \cup {q}]
        /\ todo' = [todo EXCEPT ![w] = @ \ {q}]
        /\ made' = [made EXCEPT ![w] = @ \cup {q}]
        /\ Goto(w, IF todo[w] = {q} THEN "ready" ELSE "report")
    /\ UNCHANGED <<db, raw, broker, job, linked, others, bounds>>

\* ffmpeg or fput_object fails: on a corrupt original, in every attempt.
EncodeFails(w) ==
    /\ pc[w] = "encode"
    /\ Goto(w, "fail")
    /\ \/ Video(w) \in Corrupt /\ Smooth
       \/ Video(w) \notin Corrupt /\ Fault
    /\ UNCHANGED <<db, store, broker, job, linked, run, others>>

\* Mutant of ReportPartial: the list also names the rendition under way.
ReportAhead(w) ==
    /\ pc[w] = "report"
    /\ \E q \in todo[w] : TryUpdate(Video(w), "processing", made[w] \cup {q})
    /\ Goto(w, "encode")
    /\ UNCHANGED <<store, broker, job, linked, run, others>>

\* The incremental update_status(processing, renditions_so_far), result ignored.
ReportPartial(w) ==
    /\ pc[w] = "report"
    /\ TryUpdate(Video(w), "processing", made[w])
    /\ Goto(w, "encode")
    /\ UNCHANGED <<store, broker, job, linked, run, others>>

\* Mutant of MarkReady: the result of the last update is ignored like the others.
MarkReadyUnchecked(w) ==
    /\ pc[w] = "ready"
    /\ TryUpdate(Video(w), "ready", made[w])
    /\ Goto(w, "clean")
    /\ UNCHANGED <<store, broker, job, linked, run, others>>

\* The final update_status(ready, renditions): only its success goes on.
MarkReady(w) ==
    /\ pc[w] = "ready"
    /\ \/ Applied(Video(w), "ready", made[w]) /\ Goto(w, "clean")
       \/ (NotApplied(Video(w)) \/ Unheard(Video(w), "ready", made[w])) /\ Goto(w, "fail")
    /\ UNCHANGED <<store, broker, job, linked, run, others>>

\* remove_object of the original, non-fatal.
CleanRaw(w) ==
    /\ pc[w] = "clean"
    /\ \/ raw' = [raw EXCEPT ![Video(w)] = @ /\ KeepRaw] /\ Smooth
       \/ UNCHANGED raw /\ Fault
    /\ Goto(w, "ack")
    /\ UNCHANGED <<db, objs, broker, job, linked, run, others>>

\* basic_ack after process_message. With the heartbeat thread still inside pika
\* nothing is acked; on a lost connection basic_ack raises into the handler, or
\* goes nowhere if the loss is not noticed yet.
Ack(w) ==
    /\ pc[w] = "ack"
    /\ \/ Release(w) /\ Smooth
       \/ linked[w] /\ Goto(w, "stalled") /\ UNCHANGED <<job, run>> /\ Fault
       \/ ~linked[w] /\ Goto(w, "fail") /\ UNCHANGED <<job, run>> /\ Smooth
    /\ UNCHANGED <<db, store, broker, linked, others>>

\* Mutant of HasRetries: one retry too many.
HasOneMoreRetry(w) == job[w].tries <= MaxRetries

HasRetries(w) == job[w].tries < MaxRetries

\* The same body with x-retry-count + 1. The copy has the identity of its original
\* or a free one; with every identity taken it joins the equal copy in flight.
RetryCopies(w) ==
    LET copy(i) == [id |-> i, video |-> Video(w), tries |-> job[w].tries + 1]
        new == {copy(i) : i \in (MsgIds \ InUse) \cup {job[w].id}} \ Messages
    IN  IF new = {} THEN {copy(job[w].id)} ELSE new

\* The exception handler: a copy with x-retry-count + 1 goes to RETRY_QUEUE (to
\* nowhere, if a lost connection is not noticed yet), unless the retries are
\* exhausted or the publish fails.
HandleFailure(w) ==
    /\ pc[w] = "fail"
    /\ \/ /\ HasRetries(w)
          /\ IF linked[w] THEN \E m \in RetryCopies(w) : retryQ' = retryQ \cup {m}
                          ELSE UNCHANGED retryQ
          /\ Goto(w, "republished") /\ Smooth
       \/ /\ HasRetries(w)
          /\ IF linked[w] THEN Fault ELSE Smooth
          /\ Goto(w, "markfailed") /\ UNCHANGED retryQ
       \/ ~HasRetries(w) /\ Goto(w, "markfailed") /\ Smooth /\ UNCHANGED retryQ
    /\ UNCHANGED <<db, store, main, dlq, job, linked, run, others>>

\* basic_ack of the original after its copy was published.
AckOriginal(w) ==
    /\ pc[w] = "republished"
    /\ \/ Release(w)
       \/ ~linked[w] /\ Goto(w, "markfailed") /\ UNCHANGED <<job, run>>
    /\ UNCHANGED <<db, store, broker, linked, others, bounds>>

\* update_status(failed), result ignored.
MarkFailed(w) ==
    /\ pc[w] = "markfailed"
    /\ TryUpdate(Video(w), "failed", {})
    /\ Goto(w, "nack")
    /\ UNCHANGED <<store, broker, job, linked, run, others>>

\* Mutant of Nack: a queue without x-dead-letter-exchange drops the message.
NackDrops(w) ==
    /\ pc[w] = "nack"
    /\ Release(w)
    /\ UNCHANGED <<db, store, broker, linked, others, bounds>>

\* basic_nack(requeue=False): the broker dead-letters the message. On a lost
\* connection it raises, and main reconnects; the broker has the message back.
Nack(w) ==
    /\ pc[w] = "nack"
    /\ dlq' = IF linked[w] THEN dlq \cup {Video(w)} ELSE dlq
    /\ Release(w)
    /\ UNCHANGED <<db, store, main, retryQ, linked, others, bounds>>

\* main(): reconnect after an AMQP error.
Reconnect(w) ==
    /\ pc[w] = "idle" /\ ~linked[w]
    /\ linked' = [linked EXCEPT ![w] = TRUE]
    /\ UNCHANGED <<db, store, broker, pc, job, run, others, bounds>>

-----------------------------------------------------------------------------
(* RabbitMQ, and what it does with the message of a worker it loses *)

\* What a worker holds under an open connection is requeued.
Requeue(w) == main' = IF linked[w] /\ pc[w] # "idle" THEN main \cup {job[w]} ELSE main

\* The connection is lost and the worker does not know yet: it goes on.
LoseLink(w) ==
    /\ drops > 0 /\ drops' = drops - 1 /\ UNCHANGED faults
    /\ linked[w] /\ pc[w] \notin {"idle", "stalled"}
    /\ linked' = [linked EXCEPT ![w] = FALSE]
    /\ Requeue(w)
    /\ UNCHANGED <<db, store, retryQ, dlq, pc, job, run, others>>

\* The worker process dies (or is killed after SIGTERM) and is started again.
Crash(w) ==
    /\ pc[w] # "idle" /\ Fault
    /\ Requeue(w)
    /\ Release(w)
    /\ linked' = [linked EXCEPT ![w] = TRUE]
    /\ UNCHANGED <<db, store, retryQ, dlq, others>>

\* A delivery never acked: the broker closes the channel and main reconnects.
AckTimeout(w) ==
    /\ pc[w] = "stalled"
    /\ Requeue(w)
    /\ Release(w)
    /\ UNCHANGED <<db, store, retryQ, dlq, linked, others, bounds>>

\* RETRY_TTL_MS is over: the retry queue dead-letters to the main queue.
RetryExpires(m) ==
    /\ m \in retryQ
    /\ retryQ' = retryQ \ {m}
    /\ main' = main \cup {m}
    /\ UNCHANGED <<db, store, dlq, worker, others, bounds>>

-----------------------------------------------------------------------------
WorkerStep(w) ==
    \/ CheckStatus(w) \/ MarkProcessing(w) \/ Fetch(w) \/ Encode(w) \/ EncodeFails(w)
    \/ ReportPartial(w) \/ MarkReady(w) \/ CleanRaw(w) \/ Ack(w) \/ HandleFailure(w)
    \/ AckOriginal(w) \/ MarkFailed(w) \/ Nack(w) \/ Reconnect(w)

UploadStep(v) ==
    \/ Create(v) \/ PutRaw(v) \/ BeginComplete(v) \/ AssembleSession(v)
    \/ FindRaw(v) \/ RejectComplete(v) \/ PublishUploaded(v)

Next ==
    \/ \E v \in Videos : UploadStep(v) \/ Age(v) \/ Reconcile(v)
    \/ RecList \/ RestartUpload \/ RestartMetadata
    \/ \E v \in Videos : DeleteRow(v) \/ SweepKeys(v) \/ SweepPrefix(v)
    \/ \E w \in Workers :
        Deliver(w) \/ WorkerStep(w) \/ LoseLink(w) \/ Crash(w) \/ AckTimeout(w)
    \/ \E m \in retryQ : RetryExpires(m)

Spec == Init /\ [][Next]_vars

-----------------------------------------------------------------------------
(* Every process runs to the end of what it has begun, the reconciler's ticker
   keeps firing, rows grow old, the retry queue's TTL expires, and the broker
   closes a channel that never acks. Clients and owners owe nothing. *)
Fairness ==
    /\ \A w \in Workers :
        WF_vars(Deliver(w)) /\ WF_vars(WorkerStep(w)) /\ WF_vars(AckTimeout(w))
    /\ \A v \in Videos :
        /\ WF_vars(PublishUploaded(v)) /\ WF_vars(Age(v)) /\ WF_vars(Reconcile(v))
        /\ WF_vars(SweepKeys(v)) /\ WF_vars(SweepPrefix(v))
    /\ WF_vars(RecList)
    /\ WF_vars(\E m \in retryQ : RetryExpires(m))

FairSpec == Spec /\ Fairness

-----------------------------------------------------------------------------
(* Safety *)

\* A playable row never lies: every rendition the metadata service lists has its
\* object in MinIO, and a ready row lists its whole ladder, whatever duplicates,
\* retries and zombies of the worker wrote around it (video.go:184-210,
\* consumer.py:565-614).
RenditionsBacked ==
    \A v \in Videos : row[v] \in Status =>
        /\ rends[v] \subseteq objs[v]
        /\ row[v] = "ready" => Ladder[v] \subseteq rends[v]

\* The original outlives every attempt that may still need it: it is there from
\* the event's publication until the video has been ready or is deleted
\* (consumer.py:614-628, reconciler.go:91-107).
RawUntilReady ==
    \A v \in Videos :
        published[v] /\ ~everReady[v] /\ row[v] # "deleted" => raw[v]

\* Worker w holds its message unacked and still has to bring it to a verdict.
Owes(w) ==
    linked[w] /\ pc[w] \notin {"idle", "clean", "ack", "stalled", "republished"}

\* Work that will reach v: a queued message, or one that a worker owes.
InFlight(v) ==
    \/ \E m \in main \cup retryQ : m.video = v
    \/ \E w \in Workers : Owes(w) /\ Video(w) = v

NotLostIn(S) ==
    \A v \in Videos : published[v] /\ row[v] \in S => InFlight(v) \/ v \in dlq

\* The event of a video no worker has marked yet is never acked away: it is
\* queued, held, or dead-lettered (consumer.py:482-491, 731-779).
UploadedNotLost == NotLostIn({"uploaded"})

\* The same for a video left 'processing': acks follow a verdict
\* (consumer.py:616-621). It needs connections that outlive their worker's run:
\* a worker that lost its own marks a video whose message another one has acked.
NoSilentLoss == drops = MaxDrops => NotLostIn({"uploaded", "processing"})

\* The pipeline keeps the promise the metadata service makes to its readers.
Lifecycle == INSTANCE VideoLifecycle
    WITH status <- row, listed <- rends

LifecycleKept == Lifecycle!Spec

Kept      == {v \in Videos : raw[v]}
Announced == {v \in Videos : published[v]}
Finished  == {v \in Videos : everReady[v]}

Handover == INSTANCE Handoff
    WITH kept <- Kept, announced <- Announced, finished <- Finished

\* Row, original and event come in this order, and the original goes last, whoever
\* publishes again or cleans up (reconciler.go:86-112, consumer.py:616-628,
\* handler/video.go:371-408): a worker begins and ends its work on announced videos.
HandoffKept == Handover!Spec

-----------------------------------------------------------------------------
(* Inductive invariants behind the safety properties *)

DeleteInv == \A v \in Videos : del[v] # "no" => row[v] = "deleted"

\* Row by row, what RenditionsBacked asks of the table.
RowsBacked ==
    \A v \in Videos :
        /\ row[v] # "deleted" => rends[v] \subseteq objs[v]
        /\ row[v] = "ready" => Ladder[v] \subseteq rends[v]

Running == {"encode", "report", "ready"}

\* A run has stored what it will report, and will not end short of its ladder.
RunBacked(w) ==
    pc[w] \in Running =>
        /\ row[Video(w)] # "deleted" => made[w] \subseteq objs[Video(w)]
        /\ Ladder[Video(w)] \subseteq made[w] \cup todo[w]
        /\ pc[w] = "ready" => todo[w] = {}

BackedInv == RowsBacked /\ \A w \in Workers : RunBacked(w)

\* The original is there for whoever is about to publish or to fetch it.
RawKept(v) ==
    /\ published[v] \/ up[v] = "stored" \/ rec[v] = "republish"
    /\ ~everReady[v] /\ row[v] # "deleted"
    => raw[v]

RawInv ==
    /\ \A v \in Videos : RawKept(v)
    /\ \A w \in Workers : pc[w] = "clean" => everReady[Video(w)]

Covered == IF drops = MaxDrops THEN {"uploaded", "processing"} ELSE {"uploaded"}

\* Nothing is published, completed or reconciled before its row exists.
RowFirst(v) == published[v] \/ up[v] # "idle" \/ rec[v] # "off" => row[v] # "none"

LinkInv == drops = MaxDrops => \A w \in Workers : linked[w]

LossInv == NotLostIn(Covered) /\ (\A v \in Videos : RowFirst(v)) /\ LinkInv

\* Messages are about videos that were announced, and a client can store bytes only
\* after the row was made.
HandoffInv ==
    /\ \A m \in main \cup retryQ : published[m.video]
    /\ \A w \in Workers : pc[w] # "idle" => published[Video(w)]
    /\ \A v \in Videos : grant[v] # "none" => row[v] # "none"

-----------------------------------------------------------------------------
(* Liveness *)

\* No row stays 'uploaded' for ever: a lost event is published again, an
\* abandoned upload fails (reconciler.go:1-12, services-pipeline.md:98).
UploadSelfHeals == \A v \in Videos : row[v] = "uploaded" ~> row[v] # "uploaded"

Settled(v) == row[v] \in {"ready", "failed", "deleted"}

\* An event the broker took ends in a verdict the viewer can see or in the DLQ
\* for an operator, when no connection is lost under a worker.
PublishedSettles == \A v \in Videos : published[v] ~> Settled(v) \/ v \in dlq

-----------------------------------------------------------------------------
(* What the repository says of the program, and the code does not do *)

\* "don't downgrade terminal ready" (video.go:194).
ReadyIsFinal ==
    [][\A v \in Videos : row[v] = "ready" => row'[v] \in {"ready", "deleted"}]_vars

\* "must not fail a completed upload" (reconciler_test.go:68).
CompletedUploadNotFailed ==
    [][\A v \in Videos : RecFail(v) /\ raw[v] => row' = row]_vars

\* "instead of acking a video that would stay processing forever"
\* (consumer.py:616-619): every published video gets a verdict.
EveryVideoGetsVerdict == \A v \in Videos : published[v] ~> Settled(v)

\* "Also clean prefix orphans (e.g., video deleted while transcoding)"
\* (handler/video.go:405): no object outlives the delete and the workers.
NoOrphans ==
    \A v \in Videos :
        /\ del[v] = "done"
        /\ \A w \in Workers : pc[w] = "idle"
        => objs[v] = {}

====
