------------------------- MODULE VideoPipelineProofs -------------------------
(***************************************************************************)
(* What holds of VideoPipeline for every set of videos, workers and        *)
(* messages, every ladder and every bound: type correctness first, then    *)
(* the safety properties, each from an inductive invariant, and the two     *)
(* specifications it implements.                                           *)
(***************************************************************************)
EXTENDS VideoPipeline, TLAPS

USE NoJobAssumption, BoundsAssumption, LadderAssumption

-----------------------------------------------------------------------------
(* Type correctness *)

\* An update of the row, whatever status and renditions it writes, keeps the
\* types of the database (VideoRepo.UpdateStatus).
LEMMA UpdateStatusType ==
    ASSUME DbType, NEW v \in Videos, NEW s \in Status, NEW Q \in SUBSET Qualities,
           UpdateStatus(v, s, Q), aged' = aged
    PROVE  DbType'
<1>1. CASE UNCHANGED db
  BY <1>1 DEF DbType, db
<1>2. CASE /\ row' = [row EXCEPT ![v] = s]
           /\ rends' = [rends EXCEPT ![v] = @ \cup Q]
           /\ everReady' = [everReady EXCEPT ![v] = @ \/ s = "ready"]
  <2>1. row' \in [Videos -> Status \cup {"none", "deleted"}]
    BY <1>2 DEF DbType
  <2>2. rends' \in [Videos -> SUBSET Qualities]
    BY <1>2 DEF DbType
  <2>3. everReady' \in [Videos -> BOOLEAN]
    BY <1>2 DEF DbType
  <2>4. QED
    BY <2>1, <2>2, <2>3 DEF DbType
<1>3. QED
  BY <1>1, <1>2 DEF UpdateStatus

\* The same when the caller ignores whether the update was applied.
LEMMA TryUpdateType ==
    ASSUME DbType, NEW v \in Videos, NEW s \in Status, NEW Q \in SUBSET Qualities,
           TryUpdate(v, s, Q), aged' = aged
    PROVE  DbType'
<1>1. CASE Applied(v, s, Q)
  BY <1>1, UpdateStatusType DEF Applied
<1>2. CASE NotApplied(v)
  BY <1>2 DEF NotApplied, DbType, db
<1>3. QED
  BY <1>1, <1>2 DEF TryUpdate

\* A call that succeeds or that spends one of the faults keeps the bounds.
LEMMA BoundsStep ==
    ASSUME BoundsType, Smooth \/ Fault
    PROVE  BoundsType'
  BY DEF BoundsType, Smooth, Fault, bounds

\* What PublishEvent puts on the main queue is a message.
LEMMA PublishType ==
    ASSUME BrokerType, NEW v \in Videos, PublishEvent(v)
    PROVE  main' \subseteq Message
  BY DEF BrokerType, PublishEvent, Message

\* A retry copy is a message about the same video (the exception handler of
\* handle_message keeps the body and increments x-retry-count).
LEMMA RetryCopyType ==
    ASSUME NEW w \in Workers, job[w] \in Message, HasRetries(w),
           NEW m \in RetryCopies(w)
    PROVE  m \in Message /\ m.video = Video(w)
<1>1. PICK i \in MsgIds : m = [id |-> i, video |-> Video(w), tries |-> job[w].tries + 1]
  BY DEF RetryCopies, Message
<1>2. job[w].tries + 1 \in 0..MaxRetries
  BY DEF Message, HasRetries
<1>3. QED
  BY <1>1, <1>2 DEF Message, Video

\* A worker that is not idle holds a message about some video.
LEMMA Held ==
    ASSUME TypeOK, NEW w \in Workers, pc[w] # "idle"
    PROVE  job[w] \in Message /\ Video(w) \in Videos
  BY DEF TypeOK, WorkerType, Message, Video

\* Releasing the message keeps the types of the workers.
LEMMA ReleaseType ==
    ASSUME WorkerType, NEW w \in Workers, Release(w), linked' \in [Workers -> BOOLEAN]
    PROVE  WorkerType'
  BY DEF WorkerType, WorkerPc, Unbegun, Release, Goto

\* So does going on with it.
LEMMA GotoType ==
    ASSUME WorkerType, NEW w \in Workers, NEW l \in WorkerPc \ Unbegun,
           pc[w] # "idle", Goto(w, l), UNCHANGED <<job, linked, run>>
    PROVE  WorkerType'
  BY DEF WorkerType, Goto, run, Unbegun

\* The initial states have the declared types.
LEMMA TypeInit == Init => TypeOK
  BY DEF Init, TypeOK, DbType, StoreType, BrokerType, WorkerType, ServiceType,
         BoundsType, Status, WorkerPc, Unbegun, RecStage

\* Every step keeps the declared types.
LEMMA TypeStep == TypeOK /\ [Next]_vars => TypeOK'
<1> SUFFICES ASSUME TypeOK, [Next]_vars PROVE TypeOK'
  OBVIOUS
<1>1. ASSUME NEW v \in Videos, Create(v) PROVE TypeOK'
  <2>1. BrokerType' /\ WorkerType' /\ ServiceType'
    BY <1>1
        DEF Create, TypeOK, BrokerType, WorkerType, ServiceType, broker, worker, upload,
         others
  <2>2. DbType'
    BY <1>1 DEF Create, TypeOK, DbType, Status, db
  <2>3. StoreType'
    BY <1>1 DEF Create, TypeOK, StoreType
  <2>4. BoundsType'
    BY <1>1, BoundsStep DEF Create, TypeOK, BoundsType, Smooth, Fault, bounds
  <2>5. QED
    BY <2>1, <2>2, <2>3, <2>4 DEF TypeOK
<1>2. ASSUME NEW v \in Videos, PutRaw(v) PROVE TypeOK'
  <2>1. DbType' /\ BrokerType' /\ WorkerType' /\ ServiceType'
    BY <1>2
        DEF PutRaw, TypeOK, DbType, BrokerType, WorkerType, ServiceType, db, broker, worker,
         upload, others
  <2>2. StoreType'
    BY <1>2 DEF PutRaw, TypeOK, StoreType
  <2>3. BoundsType'
    BY <1>2, BoundsStep DEF PutRaw, TypeOK, BoundsType, Smooth, Fault, bounds
  <2>4. QED
    BY <2>1, <2>2, <2>3 DEF TypeOK
<1>3. ASSUME NEW v \in Videos, BeginComplete(v) PROVE TypeOK'
  <2>1. DbType' /\ StoreType' /\ BrokerType' /\ WorkerType'
    BY <1>3
        DEF BeginComplete, TypeOK, DbType, StoreType, BrokerType, WorkerType, db, store,
         broker, worker, others
  <2>2. ServiceType'
    BY <1>3 DEF BeginComplete, TypeOK, ServiceType, RecStage, upload
  <2>3. BoundsType'
    BY <1>3, BoundsStep DEF BeginComplete, TypeOK, BoundsType, Smooth, Fault, bounds
  <2>4. QED
    BY <2>1, <2>2, <2>3 DEF TypeOK
<1>4. ASSUME NEW v \in Videos, AssembleSession(v) PROVE TypeOK'
  <2>1. DbType' /\ BrokerType' /\ WorkerType'
    BY <1>4
        DEF AssembleSession, TypeOK, DbType, BrokerType, WorkerType, db, broker, worker,
         others
  <2>2. StoreType'
    BY <1>4 DEF AssembleSession, TypeOK, StoreType
  <2>3. ServiceType'
    BY <1>4 DEF AssembleSession, TypeOK, ServiceType, RecStage, upload
  <2>4. BoundsType'
    BY <1>4, BoundsStep DEF AssembleSession, TypeOK, BoundsType, Smooth, Fault, bounds
  <2>5. QED
    BY <2>1, <2>2, <2>3, <2>4 DEF TypeOK
<1>5. ASSUME NEW v \in Videos, FindRaw(v) PROVE TypeOK'
  <2>1. DbType' /\ StoreType' /\ BrokerType' /\ WorkerType'
    BY <1>5
        DEF FindRaw, TypeOK, DbType, StoreType, BrokerType, WorkerType, db, store, broker,
         worker, others
  <2>2. ServiceType'
    BY <1>5 DEF FindRaw, TypeOK, ServiceType, RecStage, upload
  <2>3. BoundsType'
    BY <1>5, BoundsStep DEF FindRaw, TypeOK, BoundsType, Smooth, Fault, bounds
  <2>4. QED
    BY <2>1, <2>2, <2>3 DEF TypeOK
<1>6. ASSUME NEW v \in Videos, RejectComplete(v) PROVE TypeOK'
  <2>1. DbType' /\ StoreType' /\ BrokerType' /\ WorkerType'
    BY <1>6
        DEF RejectComplete, TypeOK, DbType, StoreType, BrokerType, WorkerType, db, store,
         broker, worker, others
  <2>2. ServiceType'
    BY <1>6 DEF RejectComplete, TypeOK, ServiceType, RecStage, upload
  <2>3. BoundsType'
    BY <1>6, BoundsStep DEF RejectComplete, TypeOK, BoundsType, Smooth, Fault, bounds
  <2>4. QED
    BY <2>1, <2>2, <2>3 DEF TypeOK
<1>7. ASSUME NEW v \in Videos, PublishUploaded(v) PROVE TypeOK'
  <2>1. DbType' /\ StoreType' /\ WorkerType'
    BY <1>7
        DEF PublishUploaded, TypeOK, DbType, StoreType, WorkerType, db, store, worker,
         others
  <2>2. BrokerType'
    BY <1>7, PublishType DEF PublishUploaded, TypeOK, BrokerType
  <2>3. ServiceType'
    BY <1>7 DEF PublishUploaded, TypeOK, ServiceType, RecStage, upload, PublishEvent
  <2>4. BoundsType'
    BY <1>7, BoundsStep DEF PublishUploaded, TypeOK, BoundsType, Smooth, Fault, bounds
  <2>5. QED
    BY <2>1, <2>2, <2>3, <2>4 DEF TypeOK
<1>8. ASSUME NEW v \in Videos, Age(v) PROVE TypeOK'
  <2>1. StoreType' /\ BrokerType' /\ WorkerType' /\ ServiceType'
    BY <1>8
        DEF Age, TypeOK, StoreType, BrokerType, WorkerType, ServiceType, store, broker,
         worker, upload, others
  <2>2. DbType'
    BY <1>8 DEF Age, TypeOK, DbType, Status, db
  <2>3. BoundsType'
    BY <1>8, BoundsStep DEF Age, TypeOK, BoundsType, Smooth, Fault, bounds
  <2>4. QED
    BY <2>1, <2>2, <2>3 DEF TypeOK
<1>9. ASSUME NEW v \in Videos, RecStat(v) PROVE TypeOK'
  <2>1. DbType' /\ StoreType' /\ BrokerType' /\ WorkerType'
    BY <1>9
        DEF RecStat, TypeOK, DbType, StoreType, BrokerType, WorkerType, db, store, broker,
         worker, others
  <2>2. ServiceType'
    BY <1>9 DEF RecStat, TypeOK, ServiceType, RecStage, upload
  <2>3. BoundsType'
    BY <1>9, BoundsStep DEF RecStat, TypeOK, BoundsType, Smooth, Fault, bounds
  <2>4. QED
    BY <2>1, <2>2, <2>3 DEF TypeOK
<1>10. ASSUME NEW v \in Videos, RecRepublish(v) PROVE TypeOK'
  <2>1. DbType' /\ StoreType' /\ WorkerType'
    BY <1>10 DEF RecRepublish, TypeOK, DbType, StoreType, WorkerType, db, store, worker, others
  <2>2. BrokerType'
    BY <1>10, PublishType DEF RecRepublish, TypeOK, BrokerType
  <2>3. ServiceType'
    BY <1>10 DEF RecRepublish, TypeOK, ServiceType, RecStage, upload, PublishEvent
  <2>4. BoundsType'
    BY <1>10, BoundsStep DEF RecRepublish, TypeOK, BoundsType, Smooth, Fault, bounds
  <2>5. QED
    BY <2>1, <2>2, <2>3, <2>4 DEF TypeOK
<1>11. ASSUME NEW v \in Videos, RecAbort(v) PROVE TypeOK'
  <2>1. DbType' /\ BrokerType' /\ WorkerType'
    BY <1>11 DEF RecAbort, TypeOK, DbType, BrokerType, WorkerType, db, broker, worker, others
  <2>2. StoreType'
    BY <1>11 DEF RecAbort, TypeOK, StoreType
  <2>3. ServiceType'
    BY <1>11 DEF RecAbort, TypeOK, ServiceType, RecStage, upload
  <2>4. BoundsType'
    BY <1>11, BoundsStep DEF RecAbort, TypeOK, BoundsType, Smooth, Fault, bounds
  <2>5. QED
    BY <2>1, <2>2, <2>3, <2>4 DEF TypeOK
<1>12. ASSUME NEW v \in Videos, RecFail(v) PROVE TypeOK'
  <2>1. StoreType' /\ BrokerType' /\ WorkerType'
    BY <1>12
        DEF RecFail, TypeOK, StoreType, BrokerType, WorkerType, store, broker, worker,
         others
  <2>2. DbType'
    BY <1>12, TryUpdateType DEF RecFail, TypeOK, DbType, Status, db
  <2>3. ServiceType'
    BY <1>12 DEF RecFail, TypeOK, ServiceType, RecStage, upload
  <2>4. BoundsType'
    BY <1>12, BoundsStep
        DEF RecFail, TypeOK, BoundsType, Smooth, Fault, bounds, TryUpdate, Applied,
         NotApplied, Unheard
  <2>5. QED
    BY <2>1, <2>2, <2>3, <2>4 DEF TypeOK
<1>13. ASSUME NEW v \in Videos, DeleteRow(v) PROVE TypeOK'
  <2>1. StoreType' /\ BrokerType' /\ WorkerType'
    BY <1>13
        DEF DeleteRow, TypeOK, StoreType, BrokerType, WorkerType, store, broker, worker,
         others
  <2>2. DbType'
    BY <1>13 DEF DeleteRow, TypeOK, DbType, Status, db
  <2>3. ServiceType'
    BY <1>13 DEF DeleteRow, TypeOK, ServiceType, RecStage, upload
  <2>4. BoundsType'
    BY <1>13, BoundsStep DEF DeleteRow, TypeOK, BoundsType, Smooth, Fault, bounds
  <2>5. QED
    BY <2>1, <2>2, <2>3, <2>4 DEF TypeOK
<1>14. ASSUME NEW v \in Videos, SweepKeys(v) PROVE TypeOK'
  <2>1. DbType' /\ BrokerType' /\ WorkerType'
    BY <1>14 DEF SweepKeys, TypeOK, DbType, BrokerType, WorkerType, db, broker, worker, others
  <2>2. StoreType'
    BY <1>14 DEF SweepKeys, TypeOK, StoreType
  <2>3. ServiceType'
    BY <1>14 DEF SweepKeys, TypeOK, ServiceType, RecStage, upload
  <2>4. BoundsType'
    BY <1>14, BoundsStep DEF SweepKeys, TypeOK, BoundsType, Smooth, Fault, bounds
  <2>5. QED
    BY <2>1, <2>2, <2>3, <2>4 DEF TypeOK
<1>15. ASSUME NEW v \in Videos, SweepPrefix(v) PROVE TypeOK'
  <2>1. DbType' /\ BrokerType' /\ WorkerType'
    BY <1>15 DEF SweepPrefix, TypeOK, DbType, BrokerType, WorkerType, db, broker, worker, others
  <2>2. StoreType'
    BY <1>15 DEF SweepPrefix, TypeOK, StoreType
  <2>3. ServiceType'
    BY <1>15 DEF SweepPrefix, TypeOK, ServiceType, RecStage, upload
  <2>4. BoundsType'
    BY <1>15, BoundsStep DEF SweepPrefix, TypeOK, BoundsType, Smooth, Fault, bounds
  <2>5. QED
    BY <2>1, <2>2, <2>3, <2>4 DEF TypeOK
<1>16. CASE RecList
  <2>1. DbType' /\ StoreType' /\ BrokerType' /\ WorkerType'
    BY <1>16
        DEF RecList, TypeOK, DbType, StoreType, BrokerType, WorkerType, db, store, broker,
         worker, others
  <2>2. ServiceType'
    BY <1>16 DEF RecList, TypeOK, ServiceType, RecStage, upload
  <2>3. BoundsType'
    BY <1>16, BoundsStep DEF RecList, TypeOK, BoundsType, Smooth, Fault, bounds
  <2>4. QED
    BY <2>1, <2>2, <2>3 DEF TypeOK
<1>17. CASE RestartUpload
  <2>1. DbType' /\ StoreType' /\ BrokerType' /\ WorkerType'
    BY <1>17
        DEF RestartUpload, TypeOK, DbType, StoreType, BrokerType, WorkerType, db, store,
         broker, worker, others
  <2>2. ServiceType'
    BY <1>17 DEF RestartUpload, TypeOK, ServiceType, RecStage, upload
  <2>3. BoundsType'
    BY <1>17, BoundsStep DEF RestartUpload, TypeOK, BoundsType, Smooth, Fault, bounds
  <2>4. QED
    BY <2>1, <2>2, <2>3 DEF TypeOK
<1>18. CASE RestartMetadata
  <2>1. DbType' /\ StoreType' /\ BrokerType' /\ WorkerType'
    BY <1>18
        DEF RestartMetadata, TypeOK, DbType, StoreType, BrokerType, WorkerType, db, store,
         broker, worker, others
  <2>2. ServiceType'
    BY <1>18 DEF RestartMetadata, TypeOK, ServiceType, RecStage, upload
  <2>3. BoundsType'
    BY <1>18, BoundsStep DEF RestartMetadata, TypeOK, BoundsType, Smooth, Fault, bounds
  <2>4. QED
    BY <2>1, <2>2, <2>3 DEF TypeOK
<1>19. ASSUME NEW w \in Workers, Deliver(w) PROVE TypeOK'
  <2>1. DbType' /\ StoreType' /\ ServiceType'
    BY <1>19 DEF Deliver, TypeOK, DbType, StoreType, ServiceType, db, store, upload, others
  <2>2. BrokerType'
    BY <1>19 DEF Deliver, TypeOK, BrokerType
  <2>3. WorkerType'
    BY <1>19 DEF Deliver, TypeOK, WorkerType, WorkerPc, Unbegun, Goto, BrokerType, run
  <2>4. BoundsType'
    BY <1>19, BoundsStep DEF Deliver, TypeOK, BoundsType, Smooth, Fault, bounds
  <2>5. QED
    BY <2>1, <2>2, <2>3, <2>4 DEF TypeOK
<1>20. ASSUME NEW w \in Workers, CheckStatus(w) PROVE TypeOK'
  <2>1. DbType' /\ StoreType' /\ BrokerType' /\ ServiceType'
    BY <1>20
        DEF CheckStatus, TypeOK, DbType, StoreType, BrokerType, ServiceType, db, store,
         broker, upload, others
  <2>2. WorkerType'
    BY <1>20, Held DEF CheckStatus, TypeOK, WorkerType, WorkerPc, Unbegun, Goto, Release, run
  <2>3. BoundsType'
    BY <1>20, BoundsStep DEF CheckStatus, TypeOK, BoundsType, Smooth, Fault, bounds
  <2>4. QED
    BY <2>1, <2>2, <2>3 DEF TypeOK
<1>21. ASSUME NEW w \in Workers, MarkProcessing(w) PROVE TypeOK'
  <2>1. StoreType' /\ BrokerType' /\ ServiceType'
    BY <1>21
        DEF MarkProcessing, TypeOK, StoreType, BrokerType, ServiceType, store, broker,
         upload, others
  <2>2. DbType'
    BY <1>21, Held, TryUpdateType DEF MarkProcessing, TypeOK, DbType, Status, db, others
  <2>3. WorkerType'
    BY <1>21, Held DEF MarkProcessing, TypeOK, WorkerType, WorkerPc, Unbegun, Goto, Release, run
  <2>4. BoundsType'
    BY <1>21, BoundsStep
        DEF MarkProcessing, TypeOK, BoundsType, Smooth, Fault, bounds, TryUpdate, Applied,
         NotApplied, Unheard
  <2>5. QED
    BY <2>1, <2>2, <2>3, <2>4 DEF TypeOK
<1>22. ASSUME NEW w \in Workers, Fetch(w) PROVE TypeOK'
  <2>1. DbType' /\ StoreType' /\ BrokerType' /\ ServiceType'
    BY <1>22
        DEF Fetch, TypeOK, DbType, StoreType, BrokerType, ServiceType, db, store, broker,
         upload, others
  <2>2. WorkerType'
    BY <1>22, Held DEF Fetch, TypeOK, WorkerType, WorkerPc, Unbegun, Goto, Message, Video
  <2>3. BoundsType'
    BY <1>22, BoundsStep DEF Fetch, TypeOK, BoundsType, Smooth, Fault, bounds
  <2>4. QED
    BY <2>1, <2>2, <2>3 DEF TypeOK
<1>23. ASSUME NEW w \in Workers, Encode(w) PROVE TypeOK'
  <2>1. DbType' /\ BrokerType' /\ ServiceType'
    BY <1>23 DEF Encode, TypeOK, DbType, BrokerType, ServiceType, db, broker, upload, others
  <2>2. StoreType'
    <3>1. PICK q \in todo[w] : objs' = [objs EXCEPT ![Video(w)] = @ \cup {q}]
      BY <1>23 DEF Encode
    <3>2. q \in Qualities
      BY DEF TypeOK, WorkerType
    <3>3. QED
      BY <1>23, <3>1, <3>2, Held DEF Encode, TypeOK, StoreType, others
  <2>3. WorkerType'
    BY <1>23, Held DEF Encode, TypeOK, WorkerType, WorkerPc, Unbegun, Goto, Release, run
  <2>4. BoundsType'
    BY <1>23, BoundsStep DEF Encode, TypeOK, BoundsType, Smooth, Fault, bounds
  <2>5. QED
    BY <2>1, <2>2, <2>3, <2>4 DEF TypeOK
<1>24. ASSUME NEW w \in Workers, EncodeFails(w) PROVE TypeOK'
  <2>1. DbType' /\ StoreType' /\ BrokerType' /\ ServiceType'
    BY <1>24
        DEF EncodeFails, TypeOK, DbType, StoreType, BrokerType, ServiceType, db, store,
         broker, upload, others
  <2>2. WorkerType'
    BY <1>24, Held DEF EncodeFails, TypeOK, WorkerType, WorkerPc, Unbegun, Goto, Release, run
  <2>3. BoundsType'
    BY <1>24, BoundsStep DEF EncodeFails, TypeOK, BoundsType, Smooth, Fault, bounds
  <2>4. QED
    BY <2>1, <2>2, <2>3 DEF TypeOK
<1>25. ASSUME NEW w \in Workers, ReportPartial(w) PROVE TypeOK'
  <2>1. StoreType' /\ BrokerType' /\ ServiceType'
    BY <1>25
        DEF ReportPartial, TypeOK, StoreType, BrokerType, ServiceType, store, broker, upload,
         others
  <2>2. DbType'
    BY <1>25, Held, TryUpdateType
        DEF ReportPartial, TypeOK, DbType, Status, db, WorkerType, others
  <2>3. WorkerType'
    BY <1>25, Held DEF ReportPartial, TypeOK, WorkerType, WorkerPc, Unbegun, Goto, Release, run
  <2>4. BoundsType'
    BY <1>25, BoundsStep
        DEF ReportPartial, TypeOK, BoundsType, Smooth, Fault, bounds, TryUpdate, Applied,
         NotApplied, Unheard
  <2>5. QED
    BY <2>1, <2>2, <2>3, <2>4 DEF TypeOK
<1>26. ASSUME NEW w \in Workers, MarkReady(w) PROVE TypeOK'
  <2>1. StoreType' /\ BrokerType' /\ ServiceType'
    BY <1>26
        DEF MarkReady, TypeOK, StoreType, BrokerType, ServiceType, store, broker, upload,
         others
  <2>2. DbType'
    <3>1. Video(w) \in Videos /\ made[w] \in SUBSET Qualities
      BY <1>26, Held DEF MarkReady, TypeOK, WorkerType
    <3>2. CASE NotApplied(Video(w))
      BY <1>26, <3>2 DEF MarkReady, NotApplied, TypeOK, DbType, db, others
    <3>3. CASE UpdateStatus(Video(w), "ready", made[w])
      BY <1>26, <3>1, <3>3, UpdateStatusType DEF MarkReady, TypeOK, Status, others
    <3>4. QED
      BY <1>26, <3>2, <3>3 DEF MarkReady, Applied, Unheard
  <2>3. WorkerType'
    BY <1>26, Held DEF MarkReady, TypeOK, WorkerType, WorkerPc, Unbegun, Goto, Release, run
  <2>4. BoundsType'
    BY <1>26, BoundsStep
        DEF MarkReady, TypeOK, BoundsType, Smooth, Fault, bounds, TryUpdate, Applied,
         NotApplied, Unheard
  <2>5. QED
    BY <2>1, <2>2, <2>3, <2>4 DEF TypeOK
<1>27. ASSUME NEW w \in Workers, CleanRaw(w) PROVE TypeOK'
  <2>1. DbType' /\ BrokerType' /\ ServiceType'
    BY <1>27 DEF CleanRaw, TypeOK, DbType, BrokerType, ServiceType, db, broker, upload, others
  <2>2. StoreType'
    BY <1>27, Held, KeepRawAssumption DEF CleanRaw, TypeOK, StoreType, others
  <2>3. WorkerType'
    BY <1>27, Held DEF CleanRaw, TypeOK, WorkerType, WorkerPc, Unbegun, Goto, Release, run
  <2>4. BoundsType'
    BY <1>27, BoundsStep DEF CleanRaw, TypeOK, BoundsType, Smooth, Fault, bounds
  <2>5. QED
    BY <2>1, <2>2, <2>3, <2>4 DEF TypeOK
<1>28. ASSUME NEW w \in Workers, Ack(w) PROVE TypeOK'
  <2>1. DbType' /\ StoreType' /\ BrokerType' /\ ServiceType'
    BY <1>28
        DEF Ack, TypeOK, DbType, StoreType, BrokerType, ServiceType, db, store, broker,
         upload, others
  <2>2. WorkerType'
    BY <1>28, ReleaseType, GotoType DEF Ack, TypeOK, WorkerType, WorkerPc, Unbegun
  <2>3. BoundsType'
    BY <1>28, BoundsStep DEF Ack, TypeOK, BoundsType, Smooth, Fault, bounds
  <2>4. QED
    BY <2>1, <2>2, <2>3 DEF TypeOK
<1>29. ASSUME NEW w \in Workers, HandleFailure(w) PROVE TypeOK'
  <2>1. DbType' /\ StoreType' /\ ServiceType'
    BY <1>29
        DEF HandleFailure, TypeOK, DbType, StoreType, ServiceType, db, store, upload, others
  <2>2. BrokerType'
    BY <1>29, Held, RetryCopyType DEF HandleFailure, TypeOK, BrokerType
  <2>3. WorkerType'
    BY <1>29, Held DEF HandleFailure, TypeOK, WorkerType, WorkerPc, Unbegun, Goto, Release, run
  <2>4. BoundsType'
    BY <1>29, BoundsStep DEF HandleFailure, TypeOK, BoundsType, Smooth, Fault, bounds
  <2>5. QED
    BY <2>1, <2>2, <2>3, <2>4 DEF TypeOK
<1>30. ASSUME NEW w \in Workers, AckOriginal(w) PROVE TypeOK'
  <2>1. DbType' /\ StoreType' /\ BrokerType' /\ ServiceType'
    BY <1>30
        DEF AckOriginal, TypeOK, DbType, StoreType, BrokerType, ServiceType, db, store,
         broker, upload, others
  <2>2. WorkerType'
    BY <1>30, ReleaseType, GotoType DEF AckOriginal, TypeOK, WorkerType, WorkerPc, Unbegun
  <2>3. BoundsType'
    BY <1>30, BoundsStep DEF AckOriginal, TypeOK, BoundsType, Smooth, Fault, bounds
  <2>4. QED
    BY <2>1, <2>2, <2>3 DEF TypeOK
<1>31. ASSUME NEW w \in Workers, MarkFailed(w) PROVE TypeOK'
  <2>1. StoreType' /\ BrokerType' /\ ServiceType'
    BY <1>31
        DEF MarkFailed, TypeOK, StoreType, BrokerType, ServiceType, store, broker, upload,
         others
  <2>2. DbType'
    BY <1>31, Held, TryUpdateType DEF MarkFailed, TypeOK, DbType, Status, db, others
  <2>3. WorkerType'
    BY <1>31, Held DEF MarkFailed, TypeOK, WorkerType, WorkerPc, Unbegun, Goto, Release, run
  <2>4. BoundsType'
    BY <1>31, BoundsStep
        DEF MarkFailed, TypeOK, BoundsType, Smooth, Fault, bounds, TryUpdate, Applied,
         NotApplied, Unheard
  <2>5. QED
    BY <2>1, <2>2, <2>3, <2>4 DEF TypeOK
<1>32. ASSUME NEW w \in Workers, Nack(w) PROVE TypeOK'
  <2>1. DbType' /\ StoreType' /\ ServiceType'
    BY <1>32 DEF Nack, TypeOK, DbType, StoreType, ServiceType, db, store, upload, others
  <2>2. BrokerType'
    BY <1>32, Held DEF Nack, TypeOK, BrokerType
  <2>3. WorkerType'
    BY <1>32, Held DEF Nack, TypeOK, WorkerType, WorkerPc, Unbegun, Goto, Release, run
  <2>4. BoundsType'
    BY <1>32, BoundsStep DEF Nack, TypeOK, BoundsType, Smooth, Fault, bounds
  <2>5. QED
    BY <2>1, <2>2, <2>3, <2>4 DEF TypeOK
<1>33. ASSUME NEW w \in Workers, Reconnect(w) PROVE TypeOK'
  <2>1. DbType' /\ StoreType' /\ BrokerType' /\ ServiceType'
    BY <1>33
        DEF Reconnect, TypeOK, DbType, StoreType, BrokerType, ServiceType, db, store, broker,
         upload, others
  <2>2. WorkerType'
    BY <1>33, Held DEF Reconnect, TypeOK, WorkerType, WorkerPc, Unbegun, Goto, Release, run
  <2>3. BoundsType'
    BY <1>33, BoundsStep DEF Reconnect, TypeOK, BoundsType, Smooth, Fault, bounds
  <2>4. QED
    BY <2>1, <2>2, <2>3 DEF TypeOK
<1>34. ASSUME NEW w \in Workers, LoseLink(w) PROVE TypeOK'
  <2>1. DbType' /\ StoreType' /\ ServiceType'
    BY <1>34 DEF LoseLink, TypeOK, DbType, StoreType, ServiceType, db, store, upload, others
  <2>2. BrokerType'
    BY <1>34, Held DEF LoseLink, TypeOK, BrokerType, Requeue
  <2>3. WorkerType'
    BY <1>34, Held DEF LoseLink, TypeOK, WorkerType, WorkerPc, Unbegun, Goto, Release, run
  <2>4. BoundsType'
    BY <1>34, BoundsStep DEF LoseLink, TypeOK, BoundsType, Smooth, Fault, bounds
  <2>5. QED
    BY <2>1, <2>2, <2>3, <2>4 DEF TypeOK
<1>35. ASSUME NEW w \in Workers, Crash(w) PROVE TypeOK'
  <2>1. DbType' /\ StoreType' /\ ServiceType'
    BY <1>35 DEF Crash, TypeOK, DbType, StoreType, ServiceType, db, store, upload, others
  <2>2. BrokerType'
    BY <1>35, Held DEF Crash, TypeOK, BrokerType, Requeue
  <2>3. WorkerType'
    BY <1>35, Held DEF Crash, TypeOK, WorkerType, WorkerPc, Unbegun, Goto, Release, run
  <2>4. BoundsType'
    BY <1>35, BoundsStep DEF Crash, TypeOK, BoundsType, Smooth, Fault, bounds
  <2>5. QED
    BY <2>1, <2>2, <2>3, <2>4 DEF TypeOK
<1>36. ASSUME NEW w \in Workers, AckTimeout(w) PROVE TypeOK'
  <2>1. DbType' /\ StoreType' /\ ServiceType'
    BY <1>36 DEF AckTimeout, TypeOK, DbType, StoreType, ServiceType, db, store, upload, others
  <2>2. BrokerType'
    BY <1>36, Held DEF AckTimeout, TypeOK, BrokerType, Requeue
  <2>3. WorkerType'
    BY <1>36, Held DEF AckTimeout, TypeOK, WorkerType, WorkerPc, Unbegun, Goto, Release, run
  <2>4. BoundsType'
    BY <1>36, BoundsStep DEF AckTimeout, TypeOK, BoundsType, Smooth, Fault, bounds
  <2>5. QED
    BY <2>1, <2>2, <2>3, <2>4 DEF TypeOK
<1>37. ASSUME NEW m \in retryQ, RetryExpires(m) PROVE TypeOK'
  BY <1>37
      DEF RetryExpires, TypeOK, DbType, StoreType, BrokerType, WorkerType, ServiceType,
       BoundsType, db, store, broker, worker, upload, bounds, others
<1>38. CASE UNCHANGED vars
  BY <1>38
      DEF vars, TypeOK, DbType, StoreType, BrokerType, WorkerType, ServiceType, BoundsType,
       db, store, broker, worker, upload, bounds
<1>39. QED
  BY <1>1, <1>2, <1>3, <1>4, <1>5, <1>6, <1>7, <1>8, <1>9, <1>10, <1>11, <1>12, <1>13, <1>14,
       <1>15, <1>16, <1>17, <1>18, <1>19, <1>20, <1>21, <1>22, <1>23, <1>24, <1>25, <1>26,
       <1>27, <1>28, <1>29, <1>30, <1>31, <1>32, <1>33, <1>34, <1>35, <1>36, <1>37, <1>38
  DEF Next, UploadStep, Reconcile, WorkerStep

\* Every reachable state of the pipeline has the declared types: a worker holds a
\* message exactly while handle_message runs, and a retry count never passes
\* MAX_RETRIES (consumer.py:735-752).
THEOREM TypeCorrect == Spec => []TypeOK
<1>1. Init => TypeOK
  BY TypeInit
<1>2. TypeOK /\ [Next]_vars => TypeOK'
  BY TypeStep
<1>3. QED
  BY <1>1, <1>2, PTL DEF Spec

-----------------------------------------------------------------------------
(* What a step does to the other workers *)

\* Worker x and its run are untouched.
Stays(x) ==
    /\ pc'[x] = pc[x] /\ job'[x] = job[x]
    /\ todo'[x] = todo[x] /\ made'[x] = made[x]

Elsewhere(w) == \A x \in Workers \ {w} : Stays(x)

\* Going on moves one worker and leaves the others where they are.
LEMMA GotoElsewhere ==
    ASSUME TypeOK, NEW w \in Workers, NEW l, Goto(w, l), UNCHANGED <<job, run>>
    PROVE  pc'[w] = l /\ Elsewhere(w)
  BY DEF Goto, Elsewhere, Stays, run, TypeOK, WorkerType

\* So does the end of handle_message.
LEMMA ReleaseElsewhere ==
    ASSUME TypeOK, NEW w \in Workers, Release(w)
    PROVE  pc'[w] = "idle" /\ Elsewhere(w)
  BY DEF Release, Goto, Elsewhere, Stays, TypeOK, WorkerType

-----------------------------------------------------------------------------
(* A rendition that is listed is stored *)

\* No row comes back from 'deleted'.
Undeleted == \A v \in Videos : row[v] = "deleted" => row'[v] = "deleted"

\* An update keeps the table backed if the renditions it lists are stored, and
\* are the whole ladder when it says 'ready' (VideoRepo.UpdateStatus).
LEMMA UpdateBacked ==
    ASSUME TypeOK, RowsBacked,
           NEW v \in Videos, NEW s \in Status, NEW Q \in SUBSET Qualities,
           row[v] \in Status => Q \subseteq objs[v],
           s = "ready" => Ladder[v] \subseteq Q,
           UpdateStatus(v, s, Q) \/ UNCHANGED db, objs' = objs
    PROVE  RowsBacked' /\ Undeleted
<1>1. CASE UNCHANGED db
  BY <1>1 DEF db, RowsBacked, Undeleted
<1>2. CASE /\ row[v] \in Status
           /\ row' = [row EXCEPT ![v] = s]
           /\ rends' = [rends EXCEPT ![v] = @ \cup Q]
  BY <1>2 DEF RowsBacked, Undeleted, TypeOK, DbType, Status
<1>3. QED
  BY <1>1, <1>2 DEF UpdateStatus

\* The same for a caller that ignores the result and does not say 'ready'.
LEMMA TryUpdateBacked ==
    ASSUME TypeOK, BackedInv,
           NEW v \in Videos, NEW s \in Status \ {"ready"}, NEW Q \in SUBSET Qualities,
           row[v] \in Status => Q \subseteq objs[v],
           TryUpdate(v, s, Q), objs' = objs
    PROVE  RowsBacked' /\ Undeleted
  BY UpdateBacked DEF TryUpdate, Applied, NotApplied, BackedInv

\* A run that is untouched stays backed while objects are only added to the live
\* videos.
LEMMA RunStays ==
    ASSUME TypeOK, NEW x \in Workers, RunBacked(x), Stays(x), Undeleted,
           \A u \in Videos : objs[u] \subseteq objs'[u]
    PROVE  RunBacked(x)'
<1>1. CASE pc[x] = "idle"
  BY <1>1 DEF RunBacked, Running, Stays
<1>2. CASE pc[x] # "idle"
  <2>1. Video(x) \in Videos /\ Video(x)' = Video(x)
    BY <1>2, Held DEF Stays, Video
  <2>2. QED
    BY <2>1 DEF RunBacked, Stays, Undeleted
<1>3. QED
  BY <1>1, <1>2

\* A delete that has begun has deleted the row (VideoHandler.Delete).
LEMMA DeleteStep == TypeOK /\ DeleteInv /\ [Next]_vars => DeleteInv'
<1> SUFFICES ASSUME TypeOK, DeleteInv, [Next]_vars PROVE DeleteInv'
  OBVIOUS
<1>d. Undeleted /\ UNCHANGED del => DeleteInv'
  BY DEF Undeleted, DeleteInv
<1>1. ASSUME NEW v \in Videos, Create(v) PROVE DeleteInv'
  BY <1>1, <1>d DEF Create, Undeleted, TypeOK, DbType
<1>2. ASSUME NEW v \in Videos, PutRaw(v) PROVE DeleteInv'
  BY <1>2, <1>d DEF PutRaw, Undeleted, db, others
<1>3. ASSUME NEW v \in Videos, BeginComplete(v) PROVE DeleteInv'
  BY <1>3, <1>d DEF BeginComplete, Undeleted, db, others
<1>4. ASSUME NEW v \in Videos, AssembleSession(v) PROVE DeleteInv'
  BY <1>4, <1>d DEF AssembleSession, Undeleted, db, others
<1>5. ASSUME NEW v \in Videos, FindRaw(v) PROVE DeleteInv'
  BY <1>5, <1>d DEF FindRaw, Undeleted, db, others
<1>6. ASSUME NEW v \in Videos, RejectComplete(v) PROVE DeleteInv'
  BY <1>6, <1>d DEF RejectComplete, Undeleted, db, others
<1>7. ASSUME NEW v \in Videos, PublishUploaded(v) PROVE DeleteInv'
  BY <1>7, <1>d DEF PublishUploaded, Undeleted, db, others
<1>8. ASSUME NEW v \in Videos, Age(v) PROVE DeleteInv'
  BY <1>8, <1>d DEF Age, Undeleted, db, others
<1>9. ASSUME NEW v \in Videos, RecStat(v) PROVE DeleteInv'
  BY <1>9, <1>d DEF RecStat, Undeleted, db, others
<1>10. ASSUME NEW v \in Videos, RecRepublish(v) PROVE DeleteInv'
  BY <1>10, <1>d DEF RecRepublish, Undeleted, db, others
<1>11. ASSUME NEW v \in Videos, RecAbort(v) PROVE DeleteInv'
  BY <1>11, <1>d DEF RecAbort, Undeleted, db, others
<1>12. ASSUME NEW v \in Videos, RecFail(v) PROVE DeleteInv'
  BY <1>12, <1>d
      DEF RecFail, TryUpdate, Applied, NotApplied, Unheard, UpdateStatus, Undeleted, Status,
       TypeOK, DbType, db, others
<1>13. ASSUME NEW v \in Videos, DeleteRow(v) PROVE DeleteInv'
  BY <1>13 DEF DeleteRow, DeleteInv, TypeOK, DbType, ServiceType, db
<1>14. ASSUME NEW v \in Videos, SweepKeys(v) PROVE DeleteInv'
  BY <1>14 DEF SweepKeys, DeleteInv, TypeOK, DbType, ServiceType, db
<1>15. ASSUME NEW v \in Videos, SweepPrefix(v) PROVE DeleteInv'
  BY <1>15 DEF SweepPrefix, DeleteInv, TypeOK, DbType, ServiceType, db
<1>16. CASE RecList
  BY <1>16, <1>d DEF RecList, Undeleted, db, others
<1>17. CASE RestartUpload
  BY <1>17, <1>d DEF RestartUpload, Undeleted, db, others
<1>18. CASE RestartMetadata
  BY <1>18 DEF RestartMetadata, DeleteInv, TypeOK, ServiceType, db
<1>19. ASSUME NEW w \in Workers, Deliver(w) PROVE DeleteInv'
  BY <1>19, <1>d DEF Deliver, Undeleted, db, others
<1>20. ASSUME NEW w \in Workers, CheckStatus(w) PROVE DeleteInv'
  BY <1>20, <1>d DEF CheckStatus, Undeleted, db, others
<1>21. ASSUME NEW w \in Workers, MarkProcessing(w) PROVE DeleteInv'
  BY <1>21, <1>d
      DEF MarkProcessing, TryUpdate, Applied, NotApplied, Unheard, UpdateStatus, Undeleted,
       Status, TypeOK, DbType, db, others
<1>22. ASSUME NEW w \in Workers, Fetch(w) PROVE DeleteInv'
  BY <1>22, <1>d DEF Fetch, Undeleted, db, others
<1>23. ASSUME NEW w \in Workers, Encode(w) PROVE DeleteInv'
  BY <1>23, <1>d DEF Encode, Undeleted, db, others
<1>24. ASSUME NEW w \in Workers, EncodeFails(w) PROVE DeleteInv'
  BY <1>24, <1>d DEF EncodeFails, Undeleted, db, others
<1>25. ASSUME NEW w \in Workers, ReportPartial(w) PROVE DeleteInv'
  BY <1>25, <1>d
      DEF ReportPartial, TryUpdate, Applied, NotApplied, Unheard, UpdateStatus, Undeleted,
       Status, TypeOK, DbType, db, others
<1>26. ASSUME NEW w \in Workers, MarkReady(w) PROVE DeleteInv'
  BY <1>26, <1>d
      DEF MarkReady, TryUpdate, Applied, NotApplied, Unheard, UpdateStatus, Undeleted,
       Status, TypeOK, DbType, db, others
<1>27. ASSUME NEW w \in Workers, CleanRaw(w) PROVE DeleteInv'
  BY <1>27, <1>d DEF CleanRaw, Undeleted, db, others
<1>28. ASSUME NEW w \in Workers, Ack(w) PROVE DeleteInv'
  BY <1>28, <1>d DEF Ack, Undeleted, db, others
<1>29. ASSUME NEW w \in Workers, HandleFailure(w) PROVE DeleteInv'
  BY <1>29, <1>d DEF HandleFailure, Undeleted, db, others
<1>30. ASSUME NEW w \in Workers, AckOriginal(w) PROVE DeleteInv'
  BY <1>30, <1>d DEF AckOriginal, Undeleted, db, others
<1>31. ASSUME NEW w \in Workers, MarkFailed(w) PROVE DeleteInv'
  BY <1>31, <1>d
      DEF MarkFailed, TryUpdate, Applied, NotApplied, Unheard, UpdateStatus, Undeleted,
       Status, TypeOK, DbType, db, others
<1>32. ASSUME NEW w \in Workers, Nack(w) PROVE DeleteInv'
  BY <1>32, <1>d DEF Nack, Undeleted, db, others
<1>33. ASSUME NEW w \in Workers, Reconnect(w) PROVE DeleteInv'
  BY <1>33, <1>d DEF Reconnect, Undeleted, db, others
<1>34. ASSUME NEW w \in Workers, LoseLink(w) PROVE DeleteInv'
  BY <1>34, <1>d DEF LoseLink, Undeleted, db, others
<1>35. ASSUME NEW w \in Workers, Crash(w) PROVE DeleteInv'
  BY <1>35, <1>d DEF Crash, Undeleted, db, others
<1>36. ASSUME NEW w \in Workers, AckTimeout(w) PROVE DeleteInv'
  BY <1>36, <1>d DEF AckTimeout, Undeleted, db, others
<1>37. ASSUME NEW m \in retryQ, RetryExpires(m) PROVE DeleteInv'
  BY <1>37, <1>d DEF RetryExpires, Undeleted, db, others
<1>38. CASE UNCHANGED vars
  BY <1>38 DEF vars, DeleteInv, db
<1>39. QED
  BY <1>1, <1>2, <1>3, <1>4, <1>5, <1>6, <1>7, <1>8, <1>9, <1>10, <1>11, <1>12,
     <1>13, <1>14, <1>15, <1>16, <1>17, <1>18, <1>19, <1>20, <1>21, <1>22, <1>23,
     <1>24, <1>25, <1>26, <1>27, <1>28, <1>29, <1>30, <1>31, <1>32, <1>33, <1>34,
     <1>35, <1>36, <1>37, <1>38
  DEF Next, UploadStep, Reconcile, WorkerStep

\* What the table lists and what a run will report is in MinIO.
LEMMA BackedStep == TypeOK /\ DeleteInv /\ BackedInv /\ [Next]_vars => BackedInv'
<1> SUFFICES ASSUME TypeOK, DeleteInv, BackedInv, [Next]_vars PROVE BackedInv'
  OBVIOUS
<1>a. UNCHANGED <<row, rends, objs, pc, job, todo, made>> => BackedInv'
  BY DEF BackedInv, RowsBacked, RunBacked, Video
<1>b. ASSUME NEW w \in Workers, UNCHANGED <<row, rends, objs>>,
             Elsewhere(w), pc'[w] \notin Running
      PROVE  BackedInv'
  BY <1>b, RunStays DEF BackedInv, RowsBacked, RunBacked, Elsewhere, Undeleted
<1>c. ASSUME NEW w \in Workers, RowsBacked', Undeleted,
             Elsewhere(w), UNCHANGED <<objs, job, todo, made>>, Video(w) \in Videos,
             \/ pc'[w] \notin Running
             \/ pc[w] = "report" /\ pc'[w] = "encode"
      PROVE  BackedInv'
  <2>1. ASSUME NEW x \in Workers \ {w} PROVE RunBacked(x)'
    BY <1>c, RunStays DEF BackedInv, Elsewhere
  <2>2. RunBacked(w)'
    BY <1>c DEF BackedInv, RunBacked, Running, Video, Undeleted
  <2>3. QED
    BY <1>c, <2>1, <2>2 DEF BackedInv
<1>1. ASSUME NEW v \in Videos, Create(v) PROVE BackedInv'
  BY <1>1 DEF Create, BackedInv, RowsBacked, RunBacked, TypeOK, DbType, Video, worker
<1>2. ASSUME NEW v \in Videos, PutRaw(v) PROVE BackedInv'
  BY <1>2, <1>a DEF PutRaw, db, store, others, bounds, worker, run, upload, broker
<1>3. ASSUME NEW v \in Videos, BeginComplete(v) PROVE BackedInv'
  BY <1>3, <1>a DEF BeginComplete, db, store, others, bounds, worker, run, upload, broker
<1>4. ASSUME NEW v \in Videos, AssembleSession(v) PROVE BackedInv'
  BY <1>4, <1>a DEF AssembleSession, db, store, others, bounds, worker, run, upload, broker
<1>5. ASSUME NEW v \in Videos, FindRaw(v) PROVE BackedInv'
  BY <1>5, <1>a DEF FindRaw, db, store, others, bounds, worker, run, upload, broker
<1>6. ASSUME NEW v \in Videos, RejectComplete(v) PROVE BackedInv'
  BY <1>6, <1>a DEF RejectComplete, db, store, others, bounds, worker, run, upload, broker
<1>7. ASSUME NEW v \in Videos, PublishUploaded(v) PROVE BackedInv'
  BY <1>7, <1>a DEF PublishUploaded, db, store, others, bounds, worker, run, upload, broker
<1>8. ASSUME NEW v \in Videos, Age(v) PROVE BackedInv'
  BY <1>8, <1>a DEF Age, db, store, others, bounds, worker, run, upload, broker
<1>9. ASSUME NEW v \in Videos, RecStat(v) PROVE BackedInv'
  BY <1>9, <1>a DEF RecStat, db, store, others, bounds, worker, run, upload, broker
<1>10. ASSUME NEW v \in Videos, RecRepublish(v) PROVE BackedInv'
  BY <1>10, <1>a DEF RecRepublish, db, store, others, bounds, worker, run, upload, broker
<1>11. ASSUME NEW v \in Videos, RecAbort(v) PROVE BackedInv'
  BY <1>11, <1>a DEF RecAbort, db, store, others, bounds, worker, run, upload, broker
<1>12. ASSUME NEW v \in Videos, RecFail(v) PROVE BackedInv'
  <2>1. "failed" \in Status \ {"ready"} /\ {} \in SUBSET Qualities
    BY DEF Status
  <2>2. RowsBacked' /\ Undeleted
    BY <1>12, <2>1, TryUpdateBacked DEF RecFail, store
  <2>3. \A x \in Workers : Stays(x)
    BY <1>12 DEF RecFail, Stays, worker
  <2>4. QED
    BY <1>12, <2>2, <2>3, RunStays DEF RecFail, BackedInv, store
<1>13. ASSUME NEW v \in Videos, DeleteRow(v) PROVE BackedInv'
  BY <1>13 DEF DeleteRow, BackedInv, RowsBacked, RunBacked, TypeOK, DbType, Video, worker, store
<1>14. ASSUME NEW v \in Videos, SweepKeys(v) PROVE BackedInv'
  <2>1. \A u \in Videos : row[u] # "deleted" => objs'[u] = objs[u]
    BY <1>14 DEF SweepKeys, DeleteInv, TypeOK, StoreType, ServiceType
  <2>2. UNCHANGED <<row, rends, pc, job, todo, made>>
    BY <1>14 DEF SweepKeys, db, worker
  <2>3. RowsBacked'
    BY <2>1, <2>2 DEF BackedInv, RowsBacked
  <2>4. ASSUME NEW x \in Workers PROVE RunBacked(x)'
    <3>1. pc[x] # "idle" => Video(x) \in Videos
      BY Held
    <3>2. QED
      BY <2>1, <2>2, <3>1 DEF BackedInv, RunBacked, Running, Video
  <2>5. QED
    BY <2>3, <2>4 DEF BackedInv
<1>15. ASSUME NEW v \in Videos, SweepPrefix(v) PROVE BackedInv'
  <2>1. \A u \in Videos : row[u] # "deleted" => objs'[u] = objs[u]
    BY <1>15 DEF SweepPrefix, DeleteInv, TypeOK, StoreType, ServiceType
  <2>2. UNCHANGED <<row, rends, pc, job, todo, made>>
    BY <1>15 DEF SweepPrefix, db, worker
  <2>3. RowsBacked'
    BY <2>1, <2>2 DEF BackedInv, RowsBacked
  <2>4. ASSUME NEW x \in Workers PROVE RunBacked(x)'
    <3>1. pc[x] # "idle" => Video(x) \in Videos
      BY Held
    <3>2. QED
      BY <2>1, <2>2, <3>1 DEF BackedInv, RunBacked, Running, Video
  <2>5. QED
    BY <2>3, <2>4 DEF BackedInv
<1>16. CASE RecList
  BY <1>16, <1>a DEF RecList, db, store, others, bounds, worker, run, upload, broker
<1>17. CASE RestartUpload
  BY <1>17, <1>a DEF RestartUpload, db, store, others, bounds, worker, run, upload, broker
<1>18. CASE RestartMetadata
  BY <1>18, <1>a DEF RestartMetadata, db, store, others, bounds, worker, run, upload, broker
<1>19. ASSUME NEW w \in Workers, Deliver(w) PROVE BackedInv'
  <2>1. Elsewhere(w) /\ pc'[w] \notin Running
    BY <1>19 DEF Deliver, Elsewhere, Stays, Running, Goto, run, TypeOK, WorkerType
  <2>2. QED
    BY <1>19, <2>1, <1>b DEF Deliver, db, store
<1>20. ASSUME NEW w \in Workers, CheckStatus(w) PROVE BackedInv'
  <2>1. Elsewhere(w) /\ pc'[w] \notin Running
    BY <1>20, GotoElsewhere, ReleaseElsewhere DEF CheckStatus, Running
  <2>2. QED
    BY <1>20, <2>1, <1>b DEF CheckStatus, db, store
<1>21. ASSUME NEW w \in Workers, MarkProcessing(w) PROVE BackedInv'
  <2>1. "processing" \in Status \ {"ready"} /\ {} \in SUBSET Qualities /\ Video(w) \in Videos
    BY <1>21, Held DEF MarkProcessing, Status, TypeOK, WorkerType
  <2>2. row[Video(w)] \in Status => {} \subseteq objs[Video(w)]
    BY <1>21 DEF MarkProcessing, BackedInv, RunBacked, Running, Status
  <2>3. RowsBacked' /\ Undeleted
    BY <1>21, <2>1, <2>2, TryUpdateBacked DEF MarkProcessing, store
  <2>4. Elsewhere(w) /\ pc'[w] = "fetch" /\ UNCHANGED <<objs, job, todo, made>>
    BY <1>21, GotoElsewhere DEF MarkProcessing, store, run
  <2>5. QED
    BY <1>21, <2>1, <2>3, <2>4, <1>c DEF MarkProcessing, Running
<1>22. ASSUME NEW w \in Workers, Fetch(w) PROVE BackedInv'
  <2>1. RowsBacked'
    BY <1>22 DEF Fetch, BackedInv, RowsBacked, db, store
  <2>2. RunBacked(w)'
    <3>1. job[w] \in Message /\ Video(w) \in Videos
      BY <1>22, Held DEF Fetch
    <3>2. \/ pc' = [pc EXCEPT ![w] = "fail"]
          \/ /\ pc' = [pc EXCEPT ![w] = "encode"]
             /\ \/ todo' = [todo EXCEPT ![w] = Ladder[Video(w)]]
                \/ todo' = [todo EXCEPT ![w] = Qualities]
      BY <1>22 DEF Fetch, Goto
    <3>3. made'[w] = {} /\ job' = job
      BY <1>22 DEF Fetch, TypeOK, WorkerType, Unbegun
    <3>4. QED
      BY <3>1, <3>2, <3>3 DEF RunBacked, Running, Video, TypeOK, WorkerType
  <2>3. ASSUME NEW x \in Workers \ {w} PROVE Stays(x)
    BY <1>22 DEF Fetch, Stays, Goto, TypeOK, WorkerType
  <2>4. QED
    BY <1>22, <2>1, <2>2, <2>3, RunStays DEF BackedInv, Fetch, Undeleted, db, store
<1>23. ASSUME NEW w \in Workers, Encode(w) PROVE BackedInv'
  <2>1. PICK q \in todo[w] :
            /\ objs' = [objs EXCEPT ![Video(w)] = @ \cup {q}]
            /\ todo' = [todo EXCEPT ![w] = @ \ {q}]
            /\ made' = [made EXCEPT ![w] = @ \cup {q}]
            /\ pc' = [pc EXCEPT ![w] = IF todo[w] = {q} THEN "ready" ELSE "report"]
    BY <1>23 DEF Encode, Goto
  <2>2. UNCHANGED <<row, rends, job>> /\ pc[w] = "encode" /\ Video(w) \in Videos
    BY <1>23, Held DEF Encode, db
  <2>3. \A u \in Videos : objs[u] \subseteq objs'[u]
    <3>1. objs \in [Videos -> SUBSET Qualities]
      BY DEF TypeOK, StoreType
    <3>2. ASSUME NEW u \in Videos PROVE objs'[u] \in {objs[u], objs[u] \cup {q}}
      BY <2>1, <3>1
    <3>3. QED
      BY <3>2
  <2>4. RowsBacked'
    BY <2>2, <2>3 DEF BackedInv, RowsBacked
  <2>5. RunBacked(w)'
    <3>1. /\ objs'[Video(w)] = objs[Video(w)] \cup {q}
          /\ todo'[w] = todo[w] \ {q} /\ made'[w] = made[w] \cup {q}
      BY <2>1, <2>2 DEF TypeOK, WorkerType, StoreType
    <3>2. pc'[w] = (IF todo[w] = {q} THEN "ready" ELSE "report")
      BY <2>1 DEF TypeOK, WorkerType
    <3>3. /\ row[Video(w)] # "deleted" => made[w] \subseteq objs[Video(w)]
          /\ Ladder[Video(w)] \subseteq made[w] \cup todo[w]
      BY <2>2 DEF BackedInv, RunBacked, Running
    <3>4. QED
      BY <2>2, <3>1, <3>2, <3>3 DEF RunBacked, Video
  <2>6. ASSUME NEW x \in Workers \ {w} PROVE Stays(x)
    BY <2>1, <2>2 DEF Stays, TypeOK, WorkerType
  <2>7. QED
    BY <2>2, <2>3, <2>4, <2>5, <2>6, RunStays DEF BackedInv, Undeleted
<1>24. ASSUME NEW w \in Workers, EncodeFails(w) PROVE BackedInv'
  <2>1. Elsewhere(w) /\ pc'[w] \notin Running
    BY <1>24, GotoElsewhere, ReleaseElsewhere DEF EncodeFails, Running
  <2>2. QED
    BY <1>24, <2>1, <1>b DEF EncodeFails, db, store
<1>25. ASSUME NEW w \in Workers, ReportPartial(w) PROVE BackedInv'
  <2>1. "processing" \in Status \ {"ready"} /\ made[w] \in SUBSET Qualities /\ Video(w) \in Videos
    BY <1>25, Held DEF ReportPartial, Status, TypeOK, WorkerType
  <2>2. row[Video(w)] \in Status => made[w] \subseteq objs[Video(w)]
    BY <1>25 DEF ReportPartial, BackedInv, RunBacked, Running, Status
  <2>3. RowsBacked' /\ Undeleted
    BY <1>25, <2>1, <2>2, TryUpdateBacked DEF ReportPartial, store
  <2>4. Elsewhere(w) /\ pc'[w] = "encode" /\ UNCHANGED <<objs, job, todo, made>>
    BY <1>25, GotoElsewhere DEF ReportPartial, store, run
  <2>5. QED
    BY <1>25, <2>1, <2>3, <2>4, <1>c DEF ReportPartial, Running
<1>26. ASSUME NEW w \in Workers, MarkReady(w) PROVE BackedInv'
  <2>1. "ready" \in Status /\ made[w] \in SUBSET Qualities /\ Video(w) \in Videos
    BY <1>26, Held DEF MarkReady, Status, TypeOK, WorkerType
  <2>2. /\ row[Video(w)] \in Status => made[w] \subseteq objs[Video(w)]
        /\ Ladder[Video(w)] \subseteq made[w]
    BY <1>26 DEF MarkReady, BackedInv, RunBacked, Running, Status
  <2>3. UpdateStatus(Video(w), "ready", made[w]) \/ UNCHANGED db
    BY <1>26 DEF MarkReady, Applied, NotApplied, Unheard
  <2>4. objs' = objs /\ RowsBacked
    BY <1>26 DEF MarkReady, store, BackedInv
  <2>5. RowsBacked' /\ Undeleted
    BY <2>1, <2>2, <2>3, <2>4, UpdateBacked
  <2>6. Elsewhere(w) /\ pc'[w] \in {"clean", "fail"} /\ UNCHANGED <<job, todo, made>>
    BY <1>26, GotoElsewhere DEF MarkReady, run
  <2>7. QED
    BY <1>26, <2>1, <2>4, <2>5, <2>6, <1>c DEF MarkReady, Running
<1>27. ASSUME NEW w \in Workers, CleanRaw(w) PROVE BackedInv'
  <2>1. Elsewhere(w) /\ pc'[w] \notin Running
    BY <1>27, GotoElsewhere, ReleaseElsewhere DEF CleanRaw, Running
  <2>2. QED
    BY <1>27, <2>1, <1>b DEF CleanRaw, db, store
<1>28. ASSUME NEW w \in Workers, Ack(w) PROVE BackedInv'
  <2>1. Elsewhere(w) /\ pc'[w] \notin Running
    BY <1>28, GotoElsewhere, ReleaseElsewhere DEF Ack, Running
  <2>2. QED
    BY <1>28, <2>1, <1>b DEF Ack, db, store
<1>29. ASSUME NEW w \in Workers, HandleFailure(w) PROVE BackedInv'
  <2>1. Elsewhere(w) /\ pc'[w] \notin Running
    BY <1>29, GotoElsewhere, ReleaseElsewhere DEF HandleFailure, Running
  <2>2. QED
    BY <1>29, <2>1, <1>b DEF HandleFailure, db, store
<1>30. ASSUME NEW w \in Workers, AckOriginal(w) PROVE BackedInv'
  <2>1. Elsewhere(w) /\ pc'[w] \notin Running
    BY <1>30, GotoElsewhere, ReleaseElsewhere DEF AckOriginal, Running
  <2>2. QED
    BY <1>30, <2>1, <1>b DEF AckOriginal, db, store
<1>31. ASSUME NEW w \in Workers, MarkFailed(w) PROVE BackedInv'
  <2>1. "failed" \in Status \ {"ready"} /\ {} \in SUBSET Qualities /\ Video(w) \in Videos
    BY <1>31, Held DEF MarkFailed, Status, TypeOK, WorkerType
  <2>2. row[Video(w)] \in Status => {} \subseteq objs[Video(w)]
    BY <1>31 DEF MarkFailed, BackedInv, RunBacked, Running, Status
  <2>3. RowsBacked' /\ Undeleted
    BY <1>31, <2>1, <2>2, TryUpdateBacked DEF MarkFailed, store
  <2>4. Elsewhere(w) /\ pc'[w] = "nack" /\ UNCHANGED <<objs, job, todo, made>>
    BY <1>31, GotoElsewhere DEF MarkFailed, store, run
  <2>5. QED
    BY <1>31, <2>1, <2>3, <2>4, <1>c DEF MarkFailed, Running
<1>32. ASSUME NEW w \in Workers, Nack(w) PROVE BackedInv'
  <2>1. Elsewhere(w) /\ pc'[w] \notin Running
    BY <1>32, GotoElsewhere, ReleaseElsewhere DEF Nack, Running
  <2>2. QED
    BY <1>32, <2>1, <1>b DEF Nack, db, store
<1>33. ASSUME NEW w \in Workers, Reconnect(w) PROVE BackedInv'
  BY <1>33, <1>a DEF Reconnect, db, store, others, bounds, worker, run, upload, broker
<1>34. ASSUME NEW w \in Workers, LoseLink(w) PROVE BackedInv'
  BY <1>34, <1>a DEF LoseLink, db, store, others, bounds, worker, run, upload, broker
<1>35. ASSUME NEW w \in Workers, Crash(w) PROVE BackedInv'
  <2>1. Elsewhere(w) /\ pc'[w] \notin Running
    BY <1>35, GotoElsewhere, ReleaseElsewhere DEF Crash, Running
  <2>2. QED
    BY <1>35, <2>1, <1>b DEF Crash, db, store
<1>36. ASSUME NEW w \in Workers, AckTimeout(w) PROVE BackedInv'
  <2>1. Elsewhere(w) /\ pc'[w] \notin Running
    BY <1>36, GotoElsewhere, ReleaseElsewhere DEF AckTimeout, Running
  <2>2. QED
    BY <1>36, <2>1, <1>b DEF AckTimeout, db, store
<1>37. ASSUME NEW m \in retryQ, RetryExpires(m) PROVE BackedInv'
  BY <1>37, <1>a DEF RetryExpires, db, store, others, bounds, worker, run, upload, broker
<1>38. CASE UNCHANGED vars
  BY <1>38, <1>a DEF vars, db, store, others, bounds, worker, run, upload, broker
<1>39. QED
  BY <1>1, <1>2, <1>3, <1>4, <1>5, <1>6, <1>7, <1>8, <1>9, <1>10, <1>11, <1>12,
     <1>13, <1>14, <1>15, <1>16, <1>17, <1>18, <1>19, <1>20, <1>21, <1>22, <1>23,
     <1>24, <1>25, <1>26, <1>27, <1>28, <1>29, <1>30, <1>31, <1>32, <1>33, <1>34,
     <1>35, <1>36, <1>37, <1>38
  DEF Next, UploadStep, Reconcile, WorkerStep

\* RenditionsBacked in every reachable state: whatever duplicates, retries, zombies
\* and deletes do around a run, the metadata service lists only stored renditions,
\* and a ready row lists its whole ladder (video.go:184-210, consumer.py:565-614).
THEOREM RenditionsAlwaysBacked == Spec => []RenditionsBacked
<1>1. Init => TypeOK /\ DeleteInv /\ BackedInv
  <2>1. Init => DeleteInv /\ BackedInv
    BY DEF Init, DeleteInv, BackedInv, RowsBacked, RunBacked, Running
  <2>2. QED
    BY <2>1, TypeInit
<1>2. TypeOK /\ DeleteInv /\ BackedInv /\ [Next]_vars => (TypeOK /\ DeleteInv /\ BackedInv)'
  BY TypeStep, DeleteStep, BackedStep
<1>3. TypeOK /\ DeleteInv /\ BackedInv => RenditionsBacked
  BY DEF BackedInv, RowsBacked, RenditionsBacked, Status
<1>4. QED
  BY <1>1, <1>2, <1>3, PTL DEF Spec

-----------------------------------------------------------------------------
(* The original is there until the video has been ready *)

\* An update neither revives a deleted row nor makes the pipeline forget that a
\* video has been ready.
LEMMA UpdateForgets ==
    ASSUME TypeOK, NEW v \in Videos, NEW s \in Status, NEW Q,
           UpdateStatus(v, s, Q) \/ UNCHANGED db
    PROVE  Undeleted /\ \A u \in Videos : everReady[u] => everReady'[u]
  BY DEF UpdateStatus, Undeleted, Status, TypeOK, DbType, db

\* The same for a caller that ignores the result.
LEMMA TryUpdateForgets ==
    ASSUME TypeOK, NEW v \in Videos, NEW s \in Status, NEW Q, TryUpdate(v, s, Q)
    PROVE  Undeleted /\ \A u \in Videos : everReady[u] => everReady'[u]
  BY UpdateForgets DEF TryUpdate, Applied, NotApplied

\* A published video that has not been ready keeps its original, and a worker
\* removes one only after the ready update succeeded.
LEMMA RawStep == TypeOK /\ DeleteInv /\ RawInv /\ [Next]_vars => RawInv'
<1> SUFFICES ASSUME TypeOK, DeleteInv, RawInv, [Next]_vars PROVE RawInv'
  OBVIOUS
<1>a. ASSUME Undeleted, \A u \in Videos : everReady[u] => everReady'[u],
             UNCHANGED <<raw, up, published>>,
             \A u \in Videos : rec'[u] = "republish" => rec[u] = "republish",
             \A x \in Workers : pc'[x] = "clean" => everReady'[job'[x].video]
      PROVE  RawInv'
  BY <1>a DEF RawInv, RawKept, Undeleted, Video
<1>b. ASSUME UNCHANGED <<db, raw, up, published, rec>>,
             \A x \in Workers : pc'[x] = "clean" => pc[x] = "clean" /\ job'[x] = job[x]
      PROVE  RawInv'
  BY <1>b DEF RawInv, RawKept, Video, db
<1>c. ASSUME NEW w \in Workers, Undeleted,
             \A u \in Videos : everReady[u] => everReady'[u],
             UNCHANGED <<raw, up, published, rec, job>>, Elsewhere(w),
             pc'[w] = "clean" => everReady'[Video(w)]
      PROVE  RawInv'
  <2>1. ASSUME NEW x \in Workers, pc'[x] = "clean" PROVE everReady'[Video(x)]
    <3>1. CASE x = w
      BY <1>c, <2>1, <3>1
    <3>2. CASE x # w
      BY <1>c, <2>1, <3>2, Held DEF RawInv, Elsewhere, Stays
    <3>3. QED
      BY <3>1, <3>2
  <2>2. QED
    BY <1>a, <1>c, <2>1 DEF Video, Undeleted
<1>1. ASSUME NEW v \in Videos, Create(v) PROVE RawInv'
  BY <1>1 DEF Create, RawInv, RawKept, Video, TypeOK, DbType, worker, upload, store
<1>2. ASSUME NEW v \in Videos, PutRaw(v) PROVE RawInv'
  BY <1>2 DEF PutRaw, RawInv, RawKept, Video, TypeOK, StoreType, worker, upload, db
<1>3. ASSUME NEW v \in Videos, BeginComplete(v) PROVE RawInv'
  BY <1>3 DEF BeginComplete, RawInv, RawKept, Video, TypeOK, ServiceType, worker, db, store
<1>4. ASSUME NEW v \in Videos, AssembleSession(v) PROVE RawInv'
  BY <1>4
      DEF AssembleSession, RawInv, RawKept, Video, TypeOK, StoreType, ServiceType, worker,
       db
<1>5. ASSUME NEW v \in Videos, FindRaw(v) PROVE RawInv'
  BY <1>5 DEF FindRaw, RawInv, RawKept, Video, TypeOK, ServiceType, worker, db, store
<1>6. ASSUME NEW v \in Videos, RejectComplete(v) PROVE RawInv'
  BY <1>6 DEF RejectComplete, RawInv, RawKept, Video, TypeOK, ServiceType, worker, db, store
<1>7. ASSUME NEW v \in Videos, PublishUploaded(v) PROVE RawInv'
  BY <1>7
      DEF PublishUploaded, PublishEvent, RawInv, RawKept, Video, TypeOK, ServiceType, worker,
       db, store
<1>8. ASSUME NEW v \in Videos, Age(v) PROVE RawInv'
  BY <1>8, <1>b DEF Age, db, store, others, worker, upload, broker, run
<1>9. ASSUME NEW v \in Videos, RecStat(v) PROVE RawInv'
  BY <1>9 DEF RecStat, RawInv, RawKept, Video, TypeOK, ServiceType, worker, db, store, upload
<1>10. ASSUME NEW v \in Videos, RecRepublish(v) PROVE RawInv'
  BY <1>10
      DEF RecRepublish, PublishEvent, RawInv, RawKept, Video, TypeOK, ServiceType, worker,
       db, store
<1>11. ASSUME NEW v \in Videos, RecAbort(v) PROVE RawInv'
  BY <1>11 DEF RecAbort, RawInv, RawKept, Video, TypeOK, ServiceType, worker, db, upload
<1>12. ASSUME NEW v \in Videos, RecFail(v) PROVE RawInv'
  <2>1. Undeleted /\ \A u \in Videos : everReady[u] => everReady'[u]
    BY <1>12, TryUpdateForgets DEF RecFail, Status
  <2>2. \A u \in Videos : rec'[u] = "republish" => rec[u] = "republish"
    BY <1>12 DEF RecFail, TypeOK, ServiceType
  <2>3. \A x \in Workers : pc'[x] = "clean" => everReady'[job'[x].video]
    <3>1. ASSUME NEW x \in Workers, pc[x] = "clean" PROVE everReady'[Video(x)]
      BY <3>1, <2>1, Held DEF RawInv
    <3>2. QED
      BY <1>12, <3>1 DEF RecFail, worker, Video
  <2>4. QED
    BY <1>12, <2>1, <2>2, <2>3, <1>a DEF RecFail, store, upload
<1>13. ASSUME NEW v \in Videos, DeleteRow(v) PROVE RawInv'
  BY <1>13 DEF DeleteRow, RawInv, RawKept, Video, TypeOK, DbType, worker, upload, store
<1>14. ASSUME NEW v \in Videos, SweepKeys(v) PROVE RawInv'
  <2>1. \A u \in Videos : row[u] # "deleted" => raw'[u] = raw[u]
    BY <1>14 DEF SweepKeys, DeleteInv, TypeOK, StoreType, ServiceType
  <2>2. UNCHANGED <<db, worker, upload, rec>>
    BY <1>14 DEF SweepKeys
  <2>3. QED
    BY <2>1, <2>2 DEF RawInv, RawKept, Video, db, worker, upload
<1>15. ASSUME NEW v \in Videos, SweepPrefix(v) PROVE RawInv'
  <2>1. \A u \in Videos : row[u] # "deleted" => raw'[u] = raw[u]
    BY <1>15 DEF SweepPrefix, DeleteInv, TypeOK, StoreType, ServiceType
  <2>2. UNCHANGED <<db, worker, upload, rec>>
    BY <1>15 DEF SweepPrefix
  <2>3. QED
    BY <2>1, <2>2 DEF RawInv, RawKept, Video, db, worker, upload
<1>16. CASE RecList
  BY <1>16 DEF RecList, RawInv, RawKept, Video, worker, db, store, upload
<1>17. CASE RestartUpload
  BY <1>17 DEF RestartUpload, RawInv, RawKept, Video, worker, db, store
<1>18. CASE RestartMetadata
  BY <1>18, <1>b DEF RestartMetadata, db, store, others, worker, upload, broker, run
<1>19. ASSUME NEW w \in Workers, Deliver(w) PROVE RawInv'
  <2>1. Elsewhere(w) /\ pc'[w] # "clean"
    BY <1>19 DEF Deliver, Elsewhere, Stays, Goto, run, TypeOK, WorkerType
  <2>2. QED
    BY <1>19, <2>1, <1>b DEF Deliver, Elsewhere, Stays, db, store, others, upload
<1>20. ASSUME NEW w \in Workers, CheckStatus(w) PROVE RawInv'
  <2>1. Elsewhere(w) /\ pc'[w] # "clean"
    BY <1>20, GotoElsewhere, ReleaseElsewhere DEF CheckStatus
  <2>2. QED
    BY <1>20, <2>1, <1>b DEF CheckStatus, Elsewhere, Stays, db, store, others, upload
<1>21. ASSUME NEW w \in Workers, MarkProcessing(w) PROVE RawInv'
  <2>1. Undeleted /\ \A u \in Videos : everReady[u] => everReady'[u]
    BY <1>21, Held, TryUpdateForgets DEF MarkProcessing, Status
  <2>2. Elsewhere(w) /\ pc'[w] # "clean" /\ job' = job
    BY <1>21, GotoElsewhere DEF MarkProcessing
  <2>3. QED
    BY <1>21, <2>1, <2>2, <1>c DEF MarkProcessing, store, others, upload
<1>22. ASSUME NEW w \in Workers, Fetch(w) PROVE RawInv'
  <2>1. \A x \in Workers : pc'[x] = "clean" => pc[x] = "clean" /\ job'[x] = job[x]
    BY <1>22 DEF Fetch, Goto, TypeOK, WorkerType
  <2>2. QED
    BY <1>22, <2>1, <1>b DEF Fetch, db, store, others, upload
<1>23. ASSUME NEW w \in Workers, Encode(w) PROVE RawInv'
  <2>1. \A x \in Workers : pc'[x] = "clean" => pc[x] = "clean" /\ job'[x] = job[x]
    BY <1>23 DEF Encode, Goto, TypeOK, WorkerType
  <2>2. QED
    BY <1>23, <2>1, <1>b DEF Encode, db, others, upload
<1>24. ASSUME NEW w \in Workers, EncodeFails(w) PROVE RawInv'
  <2>1. Elsewhere(w) /\ pc'[w] # "clean"
    BY <1>24, GotoElsewhere, ReleaseElsewhere DEF EncodeFails
  <2>2. QED
    BY <1>24, <2>1, <1>b DEF EncodeFails, Elsewhere, Stays, db, store, others, upload
<1>25. ASSUME NEW w \in Workers, ReportPartial(w) PROVE RawInv'
  <2>1. Undeleted /\ \A u \in Videos : everReady[u] => everReady'[u]
    BY <1>25, Held, TryUpdateForgets DEF ReportPartial, Status
  <2>2. Elsewhere(w) /\ pc'[w] # "clean" /\ job' = job
    BY <1>25, GotoElsewhere DEF ReportPartial
  <2>3. QED
    BY <1>25, <2>1, <2>2, <1>c DEF ReportPartial, store, others, upload
<1>26. ASSUME NEW w \in Workers, MarkReady(w) PROVE RawInv'
  <2>1. Undeleted /\ \A u \in Videos : everReady[u] => everReady'[u]
    BY <1>26, Held, UpdateForgets DEF MarkReady, Applied, NotApplied, Unheard, Status
  <2>2. Elsewhere(w) /\ job' = job
    BY <1>26, GotoElsewhere DEF MarkReady
  <2>3. pc'[w] = "clean" => everReady'[Video(w)]
    <3>1. CASE UpdateStatus(Video(w), "ready", made[w])
      BY <3>1, <1>26, Held DEF MarkReady, UpdateStatus, TypeOK, DbType
    <3>2. CASE NotApplied(Video(w)) /\ Goto(w, "fail")
      BY <3>2, <1>26 DEF Goto, TypeOK, WorkerType
    <3>3. QED
      BY <1>26, <3>1, <3>2 DEF MarkReady, Applied, Unheard
  <2>4. QED
    BY <1>26, <2>1, <2>2, <2>3, <1>c DEF MarkReady, store, others, upload
<1>27. ASSUME NEW w \in Workers, CleanRaw(w) PROVE RawInv'
  <2>1. Elsewhere(w) /\ pc'[w] # "clean" /\ UNCHANGED <<db, job, others>>
    BY <1>27, GotoElsewhere DEF CleanRaw
  <2>2. everReady[Video(w)] /\ Video(w) \in Videos
    BY <1>27, Held DEF CleanRaw, RawInv
  <2>3. \A u \in Videos : ~everReady[u] => raw'[u] = raw[u]
    BY <1>27, <2>2 DEF CleanRaw, TypeOK, StoreType
  <2>4. \A u \in Videos : RawKept(u)'
    BY <2>1, <2>3 DEF RawInv, RawKept, db, others, upload
  <2>5. \A x \in Workers : pc'[x] = "clean" => everReady'[job'[x].video]
    BY <2>1 DEF RawInv, Video, Elsewhere, Stays, db
  <2>6. QED
    BY <2>4, <2>5 DEF RawInv, Video
<1>28. ASSUME NEW w \in Workers, Ack(w) PROVE RawInv'
  <2>1. Elsewhere(w) /\ pc'[w] # "clean"
    BY <1>28, GotoElsewhere, ReleaseElsewhere DEF Ack
  <2>2. QED
    BY <1>28, <2>1, <1>b DEF Ack, Elsewhere, Stays, db, store, others, upload
<1>29. ASSUME NEW w \in Workers, HandleFailure(w) PROVE RawInv'
  <2>1. Elsewhere(w) /\ pc'[w] # "clean"
    BY <1>29, GotoElsewhere, ReleaseElsewhere DEF HandleFailure
  <2>2. QED
    BY <1>29, <2>1, <1>b DEF HandleFailure, Elsewhere, Stays, db, store, others, upload
<1>30. ASSUME NEW w \in Workers, AckOriginal(w) PROVE RawInv'
  <2>1. Elsewhere(w) /\ pc'[w] # "clean"
    BY <1>30, GotoElsewhere, ReleaseElsewhere DEF AckOriginal
  <2>2. QED
    BY <1>30, <2>1, <1>b DEF AckOriginal, Elsewhere, Stays, db, store, others, upload
<1>31. ASSUME NEW w \in Workers, MarkFailed(w) PROVE RawInv'
  <2>1. Undeleted /\ \A u \in Videos : everReady[u] => everReady'[u]
    BY <1>31, Held, TryUpdateForgets DEF MarkFailed, Status
  <2>2. Elsewhere(w) /\ pc'[w] # "clean" /\ job' = job
    BY <1>31, GotoElsewhere DEF MarkFailed
  <2>3. QED
    BY <1>31, <2>1, <2>2, <1>c DEF MarkFailed, store, others, upload
<1>32. ASSUME NEW w \in Workers, Nack(w) PROVE RawInv'
  <2>1. Elsewhere(w) /\ pc'[w] # "clean"
    BY <1>32, GotoElsewhere, ReleaseElsewhere DEF Nack
  <2>2. QED
    BY <1>32, <2>1, <1>b DEF Nack, Elsewhere, Stays, db, store, others, upload
<1>33. ASSUME NEW w \in Workers, Reconnect(w) PROVE RawInv'
  BY <1>33, <1>b DEF Reconnect, db, store, others, worker, upload, broker, run
<1>34. ASSUME NEW w \in Workers, LoseLink(w) PROVE RawInv'
  BY <1>34, <1>b DEF LoseLink, db, store, others, worker, upload, broker, run
<1>35. ASSUME NEW w \in Workers, Crash(w) PROVE RawInv'
  <2>1. Elsewhere(w) /\ pc'[w] # "clean"
    BY <1>35, GotoElsewhere, ReleaseElsewhere DEF Crash
  <2>2. QED
    BY <1>35, <2>1, <1>b DEF Crash, Elsewhere, Stays, db, store, others, upload
<1>36. ASSUME NEW w \in Workers, AckTimeout(w) PROVE RawInv'
  <2>1. Elsewhere(w) /\ pc'[w] # "clean"
    BY <1>36, GotoElsewhere, ReleaseElsewhere DEF AckTimeout
  <2>2. QED
    BY <1>36, <2>1, <1>b DEF AckTimeout, Elsewhere, Stays, db, store, others, upload
<1>37. ASSUME NEW m \in retryQ, RetryExpires(m) PROVE RawInv'
  BY <1>37, <1>b DEF RetryExpires, db, store, others, worker, upload, broker, run
<1>38. CASE UNCHANGED vars
  BY <1>38, <1>b DEF vars, db, store, others, worker, upload, broker, run
<1>39. QED
  BY <1>1, <1>2, <1>3, <1>4, <1>5, <1>6, <1>7, <1>8, <1>9, <1>10, <1>11, <1>12,
     <1>13, <1>14, <1>15, <1>16, <1>17, <1>18, <1>19, <1>20, <1>21, <1>22, <1>23,
     <1>24, <1>25, <1>26, <1>27, <1>28, <1>29, <1>30, <1>31, <1>32, <1>33, <1>34,
     <1>35, <1>36, <1>37, <1>38
  DEF Next, UploadStep, Reconcile, WorkerStep

\* RawUntilReady in every reachable state: the original of a published video is not
\* removed before the video has been ready or is deleted (consumer.py:614-628,
\* reconciler.go:91-107).
THEOREM RawAlwaysKept == Spec => []RawUntilReady
<1>1. Init => TypeOK /\ DeleteInv /\ RawInv
  <2>1. Init => DeleteInv /\ RawInv
    BY DEF Init, DeleteInv, RawInv, RawKept
  <2>2. QED
    BY <2>1, TypeInit
<1>2. TypeOK /\ DeleteInv /\ RawInv /\ [Next]_vars => (TypeOK /\ DeleteInv /\ RawInv)'
  BY TypeStep, DeleteStep, RawStep
<1>3. TypeOK /\ DeleteInv /\ RawInv => RawUntilReady
  BY DEF RawInv, RawKept, RawUntilReady
<1>4. QED
  BY <1>1, <1>2, <1>3, PTL DEF Spec

-----------------------------------------------------------------------------
(* The pipeline implements VideoLifecycle *)

\* An update is one of the steps the readers of the row were promised, or none: a
\* ready row ignores 'processing', and 'ready' comes with the whole ladder.
LEMMA UpdateRefines ==
    ASSUME TypeOK, NEW v \in Videos, NEW s, NEW Q \in SUBSET Qualities,
           \/ s = "processing"
           \/ s = "failed" /\ Q = {}
           \/ s = "ready" /\ Ladder[v] \subseteq Q,
           UpdateStatus(v, s, Q) \/ UNCHANGED db
    PROVE  [Lifecycle!Next]_<<row, rends>>
<1>1. CASE UNCHANGED db
  BY <1>1 DEF db
<1>2. CASE /\ row[v] \in Status
           /\ ~(row[v] = "ready" /\ s = "processing")
           /\ row' = [row EXCEPT ![v] = s]
           /\ rends' = [rends EXCEPT ![v] = @ \cup Q]
  <2>1. CASE s = "processing"
    <3>1. Lifecycle!Work(v)
      BY <1>2, <2>1 DEF Lifecycle!Work, Lifecycle!Live, Status
    <3>2. QED
      BY <3>1 DEF Lifecycle!Next
  <2>2. CASE s = "failed" /\ Q = {}
    <3>1. rends' = rends
      BY <1>2, <2>2 DEF TypeOK, DbType
    <3>2. Lifecycle!Fail(v)
      BY <1>2, <2>2, <3>1 DEF Lifecycle!Fail, Lifecycle!Live, Status
    <3>3. QED
      BY <3>2 DEF Lifecycle!Next
  <2>3. CASE s = "ready" /\ Ladder[v] \subseteq Q
    <3>1. Lifecycle!Finish(v)
      BY <1>2, <2>3 DEF Lifecycle!Finish, Lifecycle!Live, Status
    <3>2. QED
      BY <3>1 DEF Lifecycle!Next
  <2>4. QED
    BY <2>1, <2>2, <2>3
<1>3. QED
  BY <1>1, <1>2 DEF UpdateStatus

\* Every step of the pipeline is a step of the lifecycle or leaves the row and its
\* renditions alone.
LEMMA LifecycleStep ==
    TypeOK /\ BackedInv /\ [Next]_vars => [Lifecycle!Next]_<<row, rends>>
<1> SUFFICES ASSUME TypeOK, BackedInv, [Next]_vars
             PROVE  [Lifecycle!Next]_<<row, rends>>
  OBVIOUS
<1>1. ASSUME NEW v \in Videos, Create(v) PROVE [Lifecycle!Next]_<<row, rends>>
  <2>1. Lifecycle!Upload(v)
    BY <1>1 DEF Create, Lifecycle!Upload
  <2>2. QED
    BY <2>1 DEF Lifecycle!Next
<1>2. ASSUME NEW v \in Videos, PutRaw(v) PROVE [Lifecycle!Next]_<<row, rends>>
  BY <1>2 DEF PutRaw, db, store
<1>3. ASSUME NEW v \in Videos, BeginComplete(v) PROVE [Lifecycle!Next]_<<row, rends>>
  BY <1>3 DEF BeginComplete, db, store
<1>4. ASSUME NEW v \in Videos, AssembleSession(v) PROVE [Lifecycle!Next]_<<row, rends>>
  BY <1>4 DEF AssembleSession, db, store
<1>5. ASSUME NEW v \in Videos, FindRaw(v) PROVE [Lifecycle!Next]_<<row, rends>>
  BY <1>5 DEF FindRaw, db, store
<1>6. ASSUME NEW v \in Videos, RejectComplete(v) PROVE [Lifecycle!Next]_<<row, rends>>
  BY <1>6 DEF RejectComplete, db, store
<1>7. ASSUME NEW v \in Videos, PublishUploaded(v) PROVE [Lifecycle!Next]_<<row, rends>>
  BY <1>7 DEF PublishUploaded, db, store
<1>8. ASSUME NEW v \in Videos, Age(v) PROVE [Lifecycle!Next]_<<row, rends>>
  BY <1>8 DEF Age, db, store
<1>9. ASSUME NEW v \in Videos, RecStat(v) PROVE [Lifecycle!Next]_<<row, rends>>
  BY <1>9 DEF RecStat, db, store
<1>10. ASSUME NEW v \in Videos, RecRepublish(v) PROVE [Lifecycle!Next]_<<row, rends>>
  BY <1>10 DEF RecRepublish, db, store
<1>11. ASSUME NEW v \in Videos, RecAbort(v) PROVE [Lifecycle!Next]_<<row, rends>>
  BY <1>11 DEF RecAbort, db, store
<1>12. ASSUME NEW v \in Videos, RecFail(v) PROVE [Lifecycle!Next]_<<row, rends>>
  BY <1>12, UpdateRefines DEF RecFail, TryUpdate, Applied, NotApplied
<1>13. ASSUME NEW v \in Videos, DeleteRow(v) PROVE [Lifecycle!Next]_<<row, rends>>
  <2>1. Lifecycle!Delete(v)
    BY <1>13 DEF DeleteRow, Lifecycle!Delete, Lifecycle!Live, Status
  <2>2. QED
    BY <2>1 DEF Lifecycle!Next
<1>14. ASSUME NEW v \in Videos, SweepKeys(v) PROVE [Lifecycle!Next]_<<row, rends>>
  BY <1>14 DEF SweepKeys, db, store
<1>15. ASSUME NEW v \in Videos, SweepPrefix(v) PROVE [Lifecycle!Next]_<<row, rends>>
  BY <1>15 DEF SweepPrefix, db, store
<1>16. CASE RecList
  BY <1>16 DEF RecList, db, store
<1>17. CASE RestartUpload
  BY <1>17 DEF RestartUpload, db, store
<1>18. CASE RestartMetadata
  BY <1>18 DEF RestartMetadata, db, store
<1>19. ASSUME NEW w \in Workers, Deliver(w) PROVE [Lifecycle!Next]_<<row, rends>>
  BY <1>19 DEF Deliver, db, store
<1>20. ASSUME NEW w \in Workers, CheckStatus(w) PROVE [Lifecycle!Next]_<<row, rends>>
  BY <1>20 DEF CheckStatus, db, store
<1>21. ASSUME NEW w \in Workers, MarkProcessing(w) PROVE [Lifecycle!Next]_<<row, rends>>
  BY <1>21, Held, UpdateRefines DEF MarkProcessing, TryUpdate, Applied, NotApplied
<1>22. ASSUME NEW w \in Workers, Fetch(w) PROVE [Lifecycle!Next]_<<row, rends>>
  BY <1>22 DEF Fetch, db, store
<1>23. ASSUME NEW w \in Workers, Encode(w) PROVE [Lifecycle!Next]_<<row, rends>>
  BY <1>23 DEF Encode, db, store
<1>24. ASSUME NEW w \in Workers, EncodeFails(w) PROVE [Lifecycle!Next]_<<row, rends>>
  BY <1>24 DEF EncodeFails, db, store
<1>25. ASSUME NEW w \in Workers, ReportPartial(w) PROVE [Lifecycle!Next]_<<row, rends>>
  <2>1. Video(w) \in Videos /\ made[w] \in SUBSET Qualities
    BY <1>25, Held DEF ReportPartial, TypeOK, WorkerType
  <2>2. QED
    BY <1>25, <2>1, UpdateRefines DEF ReportPartial, TryUpdate, Applied, NotApplied
<1>26. ASSUME NEW w \in Workers, MarkReady(w) PROVE [Lifecycle!Next]_<<row, rends>>
  <2>1. Video(w) \in Videos /\ made[w] \in SUBSET Qualities
    BY <1>26, Held DEF MarkReady, TypeOK, WorkerType
  <2>2. Ladder[Video(w)] \subseteq made[w]
    BY <1>26 DEF MarkReady, BackedInv, RunBacked, Running
  <2>3. QED
    BY <1>26, <2>1, <2>2, UpdateRefines DEF MarkReady, Applied, NotApplied, Unheard
<1>27. ASSUME NEW w \in Workers, CleanRaw(w) PROVE [Lifecycle!Next]_<<row, rends>>
  BY <1>27 DEF CleanRaw, db, store
<1>28. ASSUME NEW w \in Workers, Ack(w) PROVE [Lifecycle!Next]_<<row, rends>>
  BY <1>28 DEF Ack, db, store
<1>29. ASSUME NEW w \in Workers, HandleFailure(w) PROVE [Lifecycle!Next]_<<row, rends>>
  BY <1>29 DEF HandleFailure, db, store
<1>30. ASSUME NEW w \in Workers, AckOriginal(w) PROVE [Lifecycle!Next]_<<row, rends>>
  BY <1>30 DEF AckOriginal, db, store
<1>31. ASSUME NEW w \in Workers, MarkFailed(w) PROVE [Lifecycle!Next]_<<row, rends>>
  BY <1>31, Held, UpdateRefines DEF MarkFailed, TryUpdate, Applied, NotApplied
<1>32. ASSUME NEW w \in Workers, Nack(w) PROVE [Lifecycle!Next]_<<row, rends>>
  BY <1>32 DEF Nack, db, store
<1>33. ASSUME NEW w \in Workers, Reconnect(w) PROVE [Lifecycle!Next]_<<row, rends>>
  BY <1>33 DEF Reconnect, db, store
<1>34. ASSUME NEW w \in Workers, LoseLink(w) PROVE [Lifecycle!Next]_<<row, rends>>
  BY <1>34 DEF LoseLink, db, store
<1>35. ASSUME NEW w \in Workers, Crash(w) PROVE [Lifecycle!Next]_<<row, rends>>
  BY <1>35 DEF Crash, db, store
<1>36. ASSUME NEW w \in Workers, AckTimeout(w) PROVE [Lifecycle!Next]_<<row, rends>>
  BY <1>36 DEF AckTimeout, db, store
<1>37. ASSUME NEW m \in retryQ, RetryExpires(m) PROVE [Lifecycle!Next]_<<row, rends>>
  BY <1>37 DEF RetryExpires, db, store
<1>38. CASE UNCHANGED vars
  BY <1>38 DEF vars, db
<1>39. QED
  BY <1>1, <1>2, <1>3, <1>4, <1>5, <1>6, <1>7, <1>8, <1>9, <1>10, <1>11, <1>12,
     <1>13, <1>14, <1>15, <1>16, <1>17, <1>18, <1>19, <1>20, <1>21, <1>22, <1>23,
     <1>24, <1>25, <1>26, <1>27, <1>28, <1>29, <1>30, <1>31, <1>32, <1>33, <1>34,
     <1>35, <1>36, <1>37, <1>38
  DEF Next, UploadStep, Reconcile, WorkerStep

\* The pipeline implements the lifecycle of docs/services-pipeline.md:96 as the
\* metadata service keeps it: uploads, workers, the reconciler and deletes together
\* take a row only through the steps of VideoLifecycle.
THEOREM PipelineImplementsLifecycle == Spec => LifecycleKept
<1>1. Init => Lifecycle!Init
  BY DEF Init, Lifecycle!Init
<1>2. Init => TypeOK /\ DeleteInv /\ BackedInv
  BY TypeInit DEF Init, DeleteInv, BackedInv, RowsBacked, RunBacked, Running
<1>3. TypeOK /\ DeleteInv /\ BackedInv /\ [Next]_vars => (TypeOK /\ DeleteInv /\ BackedInv)'
  BY TypeStep, DeleteStep, BackedStep
<1>4. TypeOK /\ BackedInv /\ [Next]_vars => [Lifecycle!Next]_<<row, rends>>
  BY LifecycleStep
<1>5. QED
  BY <1>1, <1>2, <1>3, <1>4, PTL DEF Spec, LifecycleKept, Lifecycle!Spec

-----------------------------------------------------------------------------
(* The event of a video is not lost *)

\* A connection is lost only against the budget of drops.
LEMMA LinkStep ==
    ASSUME TypeOK, LinkInv, [Next]_vars
    PROVE  LinkInv' /\ Covered' \subseteq Covered
<1>a. ASSUME UNCHANGED drops, \A x \in Workers : linked[x] => linked'[x]
      PROVE  LinkInv' /\ Covered' \subseteq Covered
  BY <1>a DEF LinkInv, Covered
<1>1. ASSUME NEW v \in Videos, Create(v) PROVE LinkInv' /\ Covered' \subseteq Covered
  BY <1>1, <1>a
      DEF Create, worker, bounds, Smooth, Fault, TryUpdate, Applied, NotApplied, Unheard
<1>2. ASSUME NEW v \in Videos, PutRaw(v) PROVE LinkInv' /\ Covered' \subseteq Covered
  BY <1>2, <1>a
      DEF PutRaw, worker, bounds, Smooth, Fault, TryUpdate, Applied, NotApplied, Unheard
<1>3. ASSUME NEW v \in Videos, BeginComplete(v) PROVE LinkInv' /\ Covered' \subseteq Covered
  BY <1>3, <1>a
      DEF BeginComplete, worker, bounds, Smooth, Fault, TryUpdate, Applied, NotApplied,
       Unheard
<1>4. ASSUME NEW v \in Videos, AssembleSession(v) PROVE LinkInv' /\ Covered' \subseteq Covered
  BY <1>4, <1>a
      DEF AssembleSession, worker, bounds, Smooth, Fault, TryUpdate, Applied, NotApplied,
       Unheard
<1>5. ASSUME NEW v \in Videos, FindRaw(v) PROVE LinkInv' /\ Covered' \subseteq Covered
  BY <1>5, <1>a
      DEF FindRaw, worker, bounds, Smooth, Fault, TryUpdate, Applied, NotApplied, Unheard
<1>6. ASSUME NEW v \in Videos, RejectComplete(v) PROVE LinkInv' /\ Covered' \subseteq Covered
  BY <1>6, <1>a
      DEF RejectComplete, worker, bounds, Smooth, Fault, TryUpdate, Applied, NotApplied,
       Unheard
<1>7. ASSUME NEW v \in Videos, PublishUploaded(v) PROVE LinkInv' /\ Covered' \subseteq Covered
  BY <1>7, <1>a
      DEF PublishUploaded, worker, bounds, Smooth, Fault, TryUpdate, Applied, NotApplied,
       Unheard
<1>8. ASSUME NEW v \in Videos, Age(v) PROVE LinkInv' /\ Covered' \subseteq Covered
  BY <1>8, <1>a DEF Age, worker, bounds, Smooth, Fault, TryUpdate, Applied, NotApplied, Unheard
<1>9. ASSUME NEW v \in Videos, RecStat(v) PROVE LinkInv' /\ Covered' \subseteq Covered
  BY <1>9, <1>a
      DEF RecStat, worker, bounds, Smooth, Fault, TryUpdate, Applied, NotApplied, Unheard
<1>10. ASSUME NEW v \in Videos, RecRepublish(v) PROVE LinkInv' /\ Covered' \subseteq Covered
  BY <1>10, <1>a
      DEF RecRepublish, worker, bounds, Smooth, Fault, TryUpdate, Applied, NotApplied,
       Unheard
<1>11. ASSUME NEW v \in Videos, RecAbort(v) PROVE LinkInv' /\ Covered' \subseteq Covered
  BY <1>11, <1>a
      DEF RecAbort, worker, bounds, Smooth, Fault, TryUpdate, Applied, NotApplied, Unheard
<1>12. ASSUME NEW v \in Videos, RecFail(v) PROVE LinkInv' /\ Covered' \subseteq Covered
  BY <1>12, <1>a
      DEF RecFail, worker, bounds, Smooth, Fault, TryUpdate, Applied, NotApplied, Unheard
<1>13. ASSUME NEW v \in Videos, DeleteRow(v) PROVE LinkInv' /\ Covered' \subseteq Covered
  BY <1>13, <1>a
      DEF DeleteRow, worker, bounds, Smooth, Fault, TryUpdate, Applied, NotApplied, Unheard
<1>14. ASSUME NEW v \in Videos, SweepKeys(v) PROVE LinkInv' /\ Covered' \subseteq Covered
  BY <1>14, <1>a
      DEF SweepKeys, worker, bounds, Smooth, Fault, TryUpdate, Applied, NotApplied, Unheard
<1>15. ASSUME NEW v \in Videos, SweepPrefix(v) PROVE LinkInv' /\ Covered' \subseteq Covered
  BY <1>15, <1>a
      DEF SweepPrefix, worker, bounds, Smooth, Fault, TryUpdate, Applied, NotApplied,
       Unheard
<1>16. CASE RecList
  BY <1>16, <1>a
      DEF RecList, worker, bounds, Smooth, Fault, TryUpdate, Applied, NotApplied, Unheard
<1>17. CASE RestartUpload
  BY <1>17, <1>a
      DEF RestartUpload, worker, bounds, Smooth, Fault, TryUpdate, Applied, NotApplied,
       Unheard
<1>18. CASE RestartMetadata
  BY <1>18, <1>a
      DEF RestartMetadata, worker, bounds, Smooth, Fault, TryUpdate, Applied, NotApplied,
       Unheard
<1>19. ASSUME NEW w \in Workers, Deliver(w) PROVE LinkInv' /\ Covered' \subseteq Covered
  BY <1>19, <1>a
      DEF Deliver, worker, bounds, Smooth, Fault, TryUpdate, Applied, NotApplied, Unheard
<1>20. ASSUME NEW w \in Workers, CheckStatus(w) PROVE LinkInv' /\ Covered' \subseteq Covered
  BY <1>20, <1>a
      DEF CheckStatus, worker, bounds, Smooth, Fault, TryUpdate, Applied, NotApplied,
       Unheard
<1>21. ASSUME NEW w \in Workers, MarkProcessing(w) PROVE LinkInv' /\ Covered' \subseteq Covered
  BY <1>21, <1>a
      DEF MarkProcessing, worker, bounds, Smooth, Fault, TryUpdate, Applied, NotApplied,
       Unheard
<1>22. ASSUME NEW w \in Workers, Fetch(w) PROVE LinkInv' /\ Covered' \subseteq Covered
  BY <1>22, <1>a
      DEF Fetch, worker, bounds, Smooth, Fault, TryUpdate, Applied, NotApplied, Unheard
<1>23. ASSUME NEW w \in Workers, Encode(w) PROVE LinkInv' /\ Covered' \subseteq Covered
  BY <1>23, <1>a
      DEF Encode, worker, bounds, Smooth, Fault, TryUpdate, Applied, NotApplied, Unheard
<1>24. ASSUME NEW w \in Workers, EncodeFails(w) PROVE LinkInv' /\ Covered' \subseteq Covered
  BY <1>24, <1>a
      DEF EncodeFails, worker, bounds, Smooth, Fault, TryUpdate, Applied, NotApplied,
       Unheard
<1>25. ASSUME NEW w \in Workers, ReportPartial(w) PROVE LinkInv' /\ Covered' \subseteq Covered
  BY <1>25, <1>a
      DEF ReportPartial, worker, bounds, Smooth, Fault, TryUpdate, Applied, NotApplied,
       Unheard
<1>26. ASSUME NEW w \in Workers, MarkReady(w) PROVE LinkInv' /\ Covered' \subseteq Covered
  BY <1>26, <1>a
      DEF MarkReady, worker, bounds, Smooth, Fault, TryUpdate, Applied, NotApplied, Unheard
<1>27. ASSUME NEW w \in Workers, CleanRaw(w) PROVE LinkInv' /\ Covered' \subseteq Covered
  BY <1>27, <1>a
      DEF CleanRaw, worker, bounds, Smooth, Fault, TryUpdate, Applied, NotApplied, Unheard
<1>28. ASSUME NEW w \in Workers, Ack(w) PROVE LinkInv' /\ Covered' \subseteq Covered
  BY <1>28, <1>a DEF Ack, worker, bounds, Smooth, Fault, TryUpdate, Applied, NotApplied, Unheard
<1>29. ASSUME NEW w \in Workers, HandleFailure(w) PROVE LinkInv' /\ Covered' \subseteq Covered
  BY <1>29, <1>a
      DEF HandleFailure, worker, bounds, Smooth, Fault, TryUpdate, Applied, NotApplied,
       Unheard
<1>30. ASSUME NEW w \in Workers, AckOriginal(w) PROVE LinkInv' /\ Covered' \subseteq Covered
  BY <1>30, <1>a
      DEF AckOriginal, worker, bounds, Smooth, Fault, TryUpdate, Applied, NotApplied,
       Unheard
<1>31. ASSUME NEW w \in Workers, MarkFailed(w) PROVE LinkInv' /\ Covered' \subseteq Covered
  BY <1>31, <1>a
      DEF MarkFailed, worker, bounds, Smooth, Fault, TryUpdate, Applied, NotApplied, Unheard
<1>32. ASSUME NEW w \in Workers, Nack(w) PROVE LinkInv' /\ Covered' \subseteq Covered
  BY <1>32, <1>a
      DEF Nack, worker, bounds, Smooth, Fault, TryUpdate, Applied, NotApplied, Unheard
<1>33. ASSUME NEW w \in Workers, Reconnect(w) PROVE LinkInv' /\ Covered' \subseteq Covered
  BY <1>33, <1>a DEF Reconnect, TypeOK, WorkerType, bounds
<1>34. ASSUME NEW w \in Workers, LoseLink(w) PROVE LinkInv' /\ Covered' \subseteq Covered
  BY <1>34 DEF LoseLink, LinkInv, Covered, TypeOK, BoundsType
<1>35. ASSUME NEW w \in Workers, Crash(w) PROVE LinkInv' /\ Covered' \subseteq Covered
  BY <1>35, <1>a DEF Crash, TypeOK, WorkerType, Fault
<1>36. ASSUME NEW w \in Workers, AckTimeout(w) PROVE LinkInv' /\ Covered' \subseteq Covered
  BY <1>36, <1>a
      DEF AckTimeout, worker, bounds, Smooth, Fault, TryUpdate, Applied, NotApplied, Unheard
<1>37. ASSUME NEW m \in retryQ, RetryExpires(m) PROVE LinkInv' /\ Covered' \subseteq Covered
  BY <1>37, <1>a
      DEF RetryExpires, worker, bounds, Smooth, Fault, TryUpdate, Applied, NotApplied,
       Unheard
<1>38. CASE UNCHANGED vars
  BY <1>38, <1>a DEF vars, worker, bounds
<1>39. QED
  BY <1>1, <1>2, <1>3, <1>4, <1>5, <1>6, <1>7, <1>8, <1>9, <1>10, <1>11, <1>12,
     <1>13, <1>14, <1>15, <1>16, <1>17, <1>18, <1>19, <1>20, <1>21, <1>22, <1>23,
     <1>24, <1>25, <1>26, <1>27, <1>28, <1>29, <1>30, <1>31, <1>32, <1>33, <1>34,
     <1>35, <1>36, <1>37, <1>38
  DEF Next, UploadStep, Reconcile, WorkerStep

\* An update does not make a row disappear.
LEMMA UpdateKeepsRow ==
    ASSUME TypeOK, NEW v \in Videos, NEW s \in Status, NEW Q,
           UpdateStatus(v, s, Q) \/ UNCHANGED db
    PROVE  \A u \in Videos : row'[u] = "none" => row[u] = "none"
  BY DEF UpdateStatus, Status, TypeOK, DbType, db

\* The row of a video comes before everything else that is done about it.
LEMMA RowFirstStep ==
    ASSUME TypeOK, \A v \in Videos : RowFirst(v), [Next]_vars
    PROVE  \A v \in Videos : RowFirst(v)'
<1>a. ASSUME \A u \in Videos : row'[u] = "none" => row[u] = "none",
             \A u \in Videos : published'[u] => published[u] \/ up[u] # "idle" \/ rec[u] # "off",
             \A u \in Videos : up'[u] # "idle" => up[u] # "idle",
             \A u \in Videos : rec'[u] # "off" => rec[u] # "off"
      PROVE  \A u \in Videos : RowFirst(u)'
  BY <1>a DEF RowFirst
<1>1. ASSUME NEW v \in Videos, Create(v) PROVE \A u \in Videos : RowFirst(u)'
  BY <1>1 DEF Create, RowFirst, TypeOK, DbType, upload
<1>2. ASSUME NEW v \in Videos, PutRaw(v) PROVE \A u \in Videos : RowFirst(u)'
  BY <1>2, <1>a DEF PutRaw, db, store, others, worker, upload, broker, run
<1>3. ASSUME NEW v \in Videos, BeginComplete(v) PROVE \A u \in Videos : RowFirst(u)'
  BY <1>3 DEF BeginComplete, RowFirst, TypeOK, ServiceType, Status, db
<1>4. ASSUME NEW v \in Videos, AssembleSession(v) PROVE \A u \in Videos : RowFirst(u)'
  BY <1>4, <1>a DEF AssembleSession, TypeOK, ServiceType, db
<1>5. ASSUME NEW v \in Videos, FindRaw(v) PROVE \A u \in Videos : RowFirst(u)'
  BY <1>5, <1>a DEF FindRaw, TypeOK, ServiceType, db
<1>6. ASSUME NEW v \in Videos, RejectComplete(v) PROVE \A u \in Videos : RowFirst(u)'
  BY <1>6, <1>a DEF RejectComplete, TypeOK, ServiceType, db
<1>7. ASSUME NEW v \in Videos, PublishUploaded(v) PROVE \A u \in Videos : RowFirst(u)'
  BY <1>7, <1>a DEF PublishUploaded, PublishEvent, TypeOK, ServiceType, db
<1>8. ASSUME NEW v \in Videos, Age(v) PROVE \A u \in Videos : RowFirst(u)'
  BY <1>8, <1>a DEF Age, db, store, others, worker, upload, broker, run
<1>9. ASSUME NEW v \in Videos, RecStat(v) PROVE \A u \in Videos : RowFirst(u)'
  BY <1>9, <1>a DEF RecStat, TypeOK, ServiceType, db, upload
<1>10. ASSUME NEW v \in Videos, RecRepublish(v) PROVE \A u \in Videos : RowFirst(u)'
  BY <1>10, <1>a DEF RecRepublish, PublishEvent, TypeOK, ServiceType, db
<1>11. ASSUME NEW v \in Videos, RecAbort(v) PROVE \A u \in Videos : RowFirst(u)'
  BY <1>11, <1>a DEF RecAbort, TypeOK, ServiceType, db, upload
<1>12. ASSUME NEW v \in Videos, RecFail(v) PROVE \A u \in Videos : RowFirst(u)'
  <2>1. \A u \in Videos : row'[u] = "none" => row[u] = "none"
    BY <1>12, UpdateKeepsRow DEF RecFail, TryUpdate, Applied, NotApplied, Status
  <2>2. QED
    BY <1>12, <2>1, <1>a DEF RecFail, TypeOK, ServiceType, upload
<1>13. ASSUME NEW v \in Videos, DeleteRow(v) PROVE \A u \in Videos : RowFirst(u)'
  BY <1>13 DEF DeleteRow, RowFirst, TypeOK, DbType, upload
<1>14. ASSUME NEW v \in Videos, SweepKeys(v) PROVE \A u \in Videos : RowFirst(u)'
  BY <1>14, <1>a DEF SweepKeys, db, store, others, worker, upload, broker, run
<1>15. ASSUME NEW v \in Videos, SweepPrefix(v) PROVE \A u \in Videos : RowFirst(u)'
  BY <1>15, <1>a DEF SweepPrefix, db, store, others, worker, upload, broker, run
<1>16. CASE RecList
  BY <1>16 DEF RecList, RowFirst, Stale, TypeOK, ServiceType, db, upload
<1>17. CASE RestartUpload
  BY <1>17, <1>a DEF RestartUpload, db
<1>18. CASE RestartMetadata
  BY <1>18, <1>a DEF RestartMetadata, db, store, others, worker, upload, broker, run
<1>19. ASSUME NEW w \in Workers, Deliver(w) PROVE \A u \in Videos : RowFirst(u)'
  BY <1>19, <1>a DEF Deliver, db, store, others, worker, upload, broker, run
<1>20. ASSUME NEW w \in Workers, CheckStatus(w) PROVE \A u \in Videos : RowFirst(u)'
  BY <1>20, <1>a DEF CheckStatus, db, store, others, worker, upload, broker, run
<1>21. ASSUME NEW w \in Workers, MarkProcessing(w) PROVE \A u \in Videos : RowFirst(u)'
  <2>1. \A u \in Videos : row'[u] = "none" => row[u] = "none"
    BY <1>21, Held, UpdateKeepsRow
        DEF MarkProcessing, TryUpdate, Applied, NotApplied, Unheard, Status
  <2>2. QED
    BY <1>21, <2>1, <1>a DEF MarkProcessing, others, upload
<1>22. ASSUME NEW w \in Workers, Fetch(w) PROVE \A u \in Videos : RowFirst(u)'
  BY <1>22, <1>a DEF Fetch, db, store, others, worker, upload, broker, run
<1>23. ASSUME NEW w \in Workers, Encode(w) PROVE \A u \in Videos : RowFirst(u)'
  BY <1>23, <1>a DEF Encode, db, store, others, worker, upload, broker, run
<1>24. ASSUME NEW w \in Workers, EncodeFails(w) PROVE \A u \in Videos : RowFirst(u)'
  BY <1>24, <1>a DEF EncodeFails, db, store, others, worker, upload, broker, run
<1>25. ASSUME NEW w \in Workers, ReportPartial(w) PROVE \A u \in Videos : RowFirst(u)'
  <2>1. \A u \in Videos : row'[u] = "none" => row[u] = "none"
    BY <1>25, Held, UpdateKeepsRow
        DEF ReportPartial, TryUpdate, Applied, NotApplied, Unheard, Status
  <2>2. QED
    BY <1>25, <2>1, <1>a DEF ReportPartial, others, upload
<1>26. ASSUME NEW w \in Workers, MarkReady(w) PROVE \A u \in Videos : RowFirst(u)'
  <2>1. \A u \in Videos : row'[u] = "none" => row[u] = "none"
    BY <1>26, Held, UpdateKeepsRow
        DEF MarkReady, TryUpdate, Applied, NotApplied, Unheard, Status
  <2>2. QED
    BY <1>26, <2>1, <1>a DEF MarkReady, others, upload
<1>27. ASSUME NEW w \in Workers, CleanRaw(w) PROVE \A u \in Videos : RowFirst(u)'
  BY <1>27, <1>a DEF CleanRaw, db, store, others, worker, upload, broker, run
<1>28. ASSUME NEW w \in Workers, Ack(w) PROVE \A u \in Videos : RowFirst(u)'
  BY <1>28, <1>a DEF Ack, db, store, others, worker, upload, broker, run
<1>29. ASSUME NEW w \in Workers, HandleFailure(w) PROVE \A u \in Videos : RowFirst(u)'
  BY <1>29, <1>a DEF HandleFailure, db, store, others, worker, upload, broker, run
<1>30. ASSUME NEW w \in Workers, AckOriginal(w) PROVE \A u \in Videos : RowFirst(u)'
  BY <1>30, <1>a DEF AckOriginal, db, store, others, worker, upload, broker, run
<1>31. ASSUME NEW w \in Workers, MarkFailed(w) PROVE \A u \in Videos : RowFirst(u)'
  <2>1. \A u \in Videos : row'[u] = "none" => row[u] = "none"
    BY <1>31, Held, UpdateKeepsRow
        DEF MarkFailed, TryUpdate, Applied, NotApplied, Unheard, Status
  <2>2. QED
    BY <1>31, <2>1, <1>a DEF MarkFailed, others, upload
<1>32. ASSUME NEW w \in Workers, Nack(w) PROVE \A u \in Videos : RowFirst(u)'
  BY <1>32, <1>a DEF Nack, db, store, others, worker, upload, broker, run
<1>33. ASSUME NEW w \in Workers, Reconnect(w) PROVE \A u \in Videos : RowFirst(u)'
  BY <1>33, <1>a DEF Reconnect, db, store, others, worker, upload, broker, run
<1>34. ASSUME NEW w \in Workers, LoseLink(w) PROVE \A u \in Videos : RowFirst(u)'
  BY <1>34, <1>a DEF LoseLink, db, store, others, worker, upload, broker, run
<1>35. ASSUME NEW w \in Workers, Crash(w) PROVE \A u \in Videos : RowFirst(u)'
  BY <1>35, <1>a DEF Crash, db, store, others, worker, upload, broker, run
<1>36. ASSUME NEW w \in Workers, AckTimeout(w) PROVE \A u \in Videos : RowFirst(u)'
  BY <1>36, <1>a DEF AckTimeout, db, store, others, worker, upload, broker, run
<1>37. ASSUME NEW m \in retryQ, RetryExpires(m) PROVE \A u \in Videos : RowFirst(u)'
  BY <1>37, <1>a DEF RetryExpires, db, store, others, worker, upload, broker, run
<1>38. CASE UNCHANGED vars
  BY <1>38, <1>a DEF vars, db, upload
<1>39. QED
  BY <1>1, <1>2, <1>3, <1>4, <1>5, <1>6, <1>7, <1>8, <1>9, <1>10, <1>11, <1>12,
     <1>13, <1>14, <1>15, <1>16, <1>17, <1>18, <1>19, <1>20, <1>21, <1>22, <1>23,
     <1>24, <1>25, <1>26, <1>27, <1>28, <1>29, <1>30, <1>31, <1>32, <1>33, <1>34,
     <1>35, <1>36, <1>37, <1>38
  DEF Next, UploadStep, Reconcile, WorkerStep

\* What one worker's step must show: the queues and the DLQ lose nothing, a row that
\* comes back to be covered is its own, and a message it no longer owes is queued,
\* dead-lettered, or has its verdict.
LEMMA WorkerLoss ==
    ASSUME TypeOK, LossInv, Covered' \subseteq Covered, NEW w \in Workers, Elsewhere(w),
           \A x \in Workers \ {w} : linked'[x] = linked[x],
           main \cup retryQ \subseteq main' \cup retryQ', dlq \subseteq dlq',
           UNCHANGED published,
           \A u \in Videos : row'[u] \in Covered =>
              row[u] \in Covered \/ (u = Video(w) /\ Owes(w)' /\ job'[w] = job[w]),
           Owes(w) => \/ Owes(w)' /\ job'[w] = job[w]
                      \/ \E m \in main' \cup retryQ' : m.video = Video(w)
                      \/ Video(w) \in dlq'
                      \/ row'[Video(w)] \notin Covered
    PROVE  NotLostIn(Covered)'
<1> SUFFICES ASSUME NEW u \in Videos, published[u], row'[u] \in Covered
             PROVE  InFlight(u)' \/ u \in dlq'
  BY DEF NotLostIn
<1>1. CASE u = Video(w) /\ Owes(w)' /\ job'[w] = job[w]
  BY <1>1 DEF InFlight, Video
<1>2. CASE row[u] \in Covered
  <2>1. InFlight(u) \/ u \in dlq
    BY <1>2 DEF LossInv, NotLostIn
  <2>2. CASE u \in dlq
    BY <2>2
  <2>3. CASE \E m \in main \cup retryQ : m.video = u
    BY <2>3 DEF InFlight
  <2>4. CASE \E x \in Workers \ {w} : Owes(x) /\ Video(x) = u
    <3>1. PICK x \in Workers \ {w} : Owes(x) /\ Video(x) = u
      BY <2>4
    <3>2. Owes(x)' /\ job'[x] = job[x]
      BY <3>1 DEF Elsewhere, Stays, Owes
    <3>3. QED
      BY <3>1, <3>2 DEF InFlight, Video
  <2>5. CASE Owes(w) /\ Video(w) = u
    BY <2>5 DEF InFlight, Video
  <2>6. QED
    BY <2>1, <2>2, <2>3, <2>4, <2>5 DEF InFlight
<1>3. QED
  BY <1>1, <1>2

\* No step loses the event of a covered video.
LEMMA NotLostStep ==
    ASSUME TypeOK, LossInv, [Next]_vars, Covered' \subseteq Covered
    PROVE  NotLostIn(Covered)'
<1>a. ASSUME UNCHANGED <<db, worker, broker, published>>
      PROVE  NotLostIn(Covered)'
  BY <1>a DEF LossInv, NotLostIn, InFlight, Owes, Video, db, worker, broker
<1>b. ASSUME UNCHANGED <<worker, dlq, published>>,
             main \cup retryQ \subseteq main' \cup retryQ',
             \A u \in Videos : published[u] /\ row'[u] \in Covered => row'[u] = row[u]
      PROVE  NotLostIn(Covered)'
  <2>1. ASSUME NEW u \in Videos, InFlight(u) PROVE InFlight(u)'
    BY <1>b, <2>1 DEF InFlight, Owes, Video, worker
  <2>2. QED
    BY <1>b, <2>1 DEF LossInv, NotLostIn
<1>1. ASSUME NEW v \in Videos, Create(v) PROVE NotLostIn(Covered)'
  <2>1. ~published[v] /\ row'[v] = "uploaded"
    BY <1>1 DEF Create, LossInv, RowFirst, TypeOK, DbType
  <2>2. \A u \in Videos \ {v} : row'[u] = row[u]
    BY <1>1 DEF Create, TypeOK, DbType
  <2>3. QED
    BY <1>1, <2>1, <2>2, <1>b DEF Create, worker, broker, upload
<1>2. ASSUME NEW v \in Videos, PutRaw(v) PROVE NotLostIn(Covered)'
  BY <1>2, <1>a DEF PutRaw, upload
<1>3. ASSUME NEW v \in Videos, BeginComplete(v) PROVE NotLostIn(Covered)'
  BY <1>3, <1>a DEF BeginComplete, upload
<1>4. ASSUME NEW v \in Videos, AssembleSession(v) PROVE NotLostIn(Covered)'
  BY <1>4, <1>a DEF AssembleSession, upload
<1>5. ASSUME NEW v \in Videos, FindRaw(v) PROVE NotLostIn(Covered)'
  BY <1>5, <1>a DEF FindRaw, upload
<1>6. ASSUME NEW v \in Videos, RejectComplete(v) PROVE NotLostIn(Covered)'
  BY <1>6, <1>a DEF RejectComplete, upload
<1>7. ASSUME NEW v \in Videos, PublishUploaded(v) PROVE NotLostIn(Covered)'
  <2>1. UNCHANGED <<row, worker, retryQ, dlq>> /\ main \subseteq main'
    BY <1>7 DEF PublishUploaded, PublishEvent, db
  <2>2. \A u \in Videos : published'[u] => published[u] \/ \E m \in main' : m.video = u
    <3>1. CASE published' = published
      BY <3>1
    <3>2. CASE PublishEvent(v)
      <4>1. PICK i \in MsgIds : main' = main \cup {[id |-> i, video |-> v, tries |-> 0]}
        BY <3>2 DEF PublishEvent
      <4>2. [id |-> i, video |-> v, tries |-> 0].video = v
        OBVIOUS
      <4>3. \E m \in main' : m.video = v
        BY <4>1, <4>2
      <4>4. QED
        BY <3>2, <4>3 DEF PublishEvent, TypeOK, ServiceType
    <3>3. QED
      BY <1>7, <3>1, <3>2 DEF PublishUploaded, upload
  <2>3. ASSUME NEW u \in Videos, InFlight(u) PROVE InFlight(u)'
    BY <2>1, <2>3 DEF InFlight, Owes, Video, worker
  <2>4. QED
    BY <2>1, <2>2, <2>3 DEF LossInv, NotLostIn, InFlight
<1>8. ASSUME NEW v \in Videos, Age(v) PROVE NotLostIn(Covered)'
  BY <1>8, <1>a DEF Age, upload
<1>9. ASSUME NEW v \in Videos, RecStat(v) PROVE NotLostIn(Covered)'
  BY <1>9, <1>a DEF RecStat, upload
<1>10. ASSUME NEW v \in Videos, RecRepublish(v) PROVE NotLostIn(Covered)'
  <2>1. UNCHANGED <<row, worker, retryQ, dlq>> /\ main \subseteq main'
    BY <1>10 DEF RecRepublish, PublishEvent, db
  <2>2. \A u \in Videos : published'[u] => published[u] \/ \E m \in main' : m.video = u
    <3>1. CASE published' = published
      BY <3>1
    <3>2. CASE PublishEvent(v)
      <4>1. PICK i \in MsgIds : main' = main \cup {[id |-> i, video |-> v, tries |-> 0]}
        BY <3>2 DEF PublishEvent
      <4>2. [id |-> i, video |-> v, tries |-> 0].video = v
        OBVIOUS
      <4>3. \E m \in main' : m.video = v
        BY <4>1, <4>2
      <4>4. QED
        BY <3>2, <4>3 DEF PublishEvent, TypeOK, ServiceType
    <3>3. QED
      BY <1>10, <3>1, <3>2 DEF RecRepublish, upload
  <2>3. ASSUME NEW u \in Videos, InFlight(u) PROVE InFlight(u)'
    BY <2>1, <2>3 DEF InFlight, Owes, Video, worker
  <2>4. QED
    BY <2>1, <2>2, <2>3 DEF LossInv, NotLostIn, InFlight
<1>11. ASSUME NEW v \in Videos, RecAbort(v) PROVE NotLostIn(Covered)'
  BY <1>11, <1>a DEF RecAbort, upload
<1>12. ASSUME NEW v \in Videos, RecFail(v) PROVE NotLostIn(Covered)'
  <2>1. \A u \in Videos : row'[u] \in Covered => row'[u] = row[u]
    BY <1>12
        DEF RecFail, TryUpdate, Applied, NotApplied, UpdateStatus, Covered, TypeOK, DbType,
         db
  <2>2. QED
    BY <1>12, <2>1, <1>b DEF RecFail, worker, broker, upload
<1>13. ASSUME NEW v \in Videos, DeleteRow(v) PROVE NotLostIn(Covered)'
  <2>1. row'[v] \notin Covered /\ \A u \in Videos \ {v} : row'[u] = row[u]
    BY <1>13 DEF DeleteRow, Covered, TypeOK, DbType
  <2>2. QED
    BY <1>13, <2>1, <1>b DEF DeleteRow, worker, broker, upload
<1>14. ASSUME NEW v \in Videos, SweepKeys(v) PROVE NotLostIn(Covered)'
  BY <1>14, <1>a DEF SweepKeys, upload
<1>15. ASSUME NEW v \in Videos, SweepPrefix(v) PROVE NotLostIn(Covered)'
  BY <1>15, <1>a DEF SweepPrefix, upload
<1>16. CASE RecList
  BY <1>16, <1>a DEF RecList, upload
<1>17. CASE RestartUpload
  BY <1>17, <1>a DEF RestartUpload, upload
<1>18. CASE RestartMetadata
  BY <1>18, <1>a DEF RestartMetadata, upload
<1>19. ASSUME NEW w \in Workers, Deliver(w) PROVE NotLostIn(Covered)'
  <2>1. PICK m \in main : main' = main \ {m} /\ job' = [job EXCEPT ![w] = m]
    BY <1>19 DEF Deliver
  <2>2. /\ pc'[w] = "check" /\ linked'[w] /\ job'[w] = m /\ pc[w] = "idle"
        /\ UNCHANGED <<row, published, retryQ, dlq>>
        /\ \A x \in Workers \ {w} : Stays(x) /\ linked'[x] = linked[x]
    BY <1>19, <2>1 DEF Deliver, Goto, Stays, TypeOK, WorkerType, db, others, upload, run
  <2>3. ASSUME NEW u \in Videos, InFlight(u) PROVE InFlight(u)'
    <3>1. CASE m.video = u
      BY <3>1, <2>2 DEF InFlight, Owes, Video
    <3>2. CASE \E k \in (main \cup retryQ) \ {m} : k.video = u
      BY <3>2, <2>1, <2>2 DEF InFlight
    <3>3. CASE \E x \in Workers : Owes(x) /\ Video(x) = u
      BY <3>3, <2>2 DEF InFlight, Owes, Video, Stays
    <3>4. QED
      BY <2>3, <3>1, <3>2, <3>3 DEF InFlight
  <2>4. QED
    BY <2>2, <2>3 DEF LossInv, NotLostIn
<1>20. ASSUME NEW w \in Workers, CheckStatus(w) PROVE NotLostIn(Covered)'
  <2>1. Elsewhere(w) /\ UNCHANGED <<row, main, retryQ, dlq, linked, published, job>>
    BY <1>20, GotoElsewhere DEF CheckStatus, broker, others, upload, db
  <2>2. pc'[w] = "mark" \/ row'[Video(w)] \notin Covered
    BY <1>20, GotoElsewhere DEF CheckStatus, Covered, db
  <2>3. QED
    BY <2>1, <2>2, WorkerLoss DEF Owes
<1>21. ASSUME NEW w \in Workers, MarkProcessing(w) PROVE NotLostIn(Covered)'
  <2>1. Elsewhere(w) /\ pc'[w] = "fetch"
        /\ UNCHANGED <<main, retryQ, dlq, linked, published, job>>
    BY <1>21, GotoElsewhere DEF MarkProcessing, broker, others, upload
  <2>2. \A u \in Videos : row'[u] \in Covered => row[u] \in Covered \/ (u = Video(w) /\ linked[w])
    BY <1>21
        DEF MarkProcessing, TryUpdate, Applied, NotApplied, UpdateStatus, Covered, LossInv,
         LinkInv,
             TypeOK, DbType, db
  <2>3. QED
    BY <2>1, <2>2, WorkerLoss DEF Owes
<1>22. ASSUME NEW w \in Workers, Fetch(w) PROVE NotLostIn(Covered)'
  <2>1. Elsewhere(w) /\ pc'[w] \in {"encode", "fail"}
    BY <1>22 DEF Fetch, Elsewhere, Stays, Goto, TypeOK, WorkerType
  <2>2. UNCHANGED <<row, main, retryQ, dlq, linked, published, job>>
    BY <1>22 DEF Fetch, broker, others, upload, db
  <2>3. QED
    BY <2>1, <2>2, WorkerLoss DEF Owes
<1>23. ASSUME NEW w \in Workers, Encode(w) PROVE NotLostIn(Covered)'
  <2>1. Elsewhere(w) /\ pc'[w] \in {"ready", "report"}
    BY <1>23 DEF Encode, Elsewhere, Stays, Goto, TypeOK, WorkerType
  <2>2. UNCHANGED <<row, main, retryQ, dlq, linked, published, job>>
    BY <1>23 DEF Encode, broker, others, upload, db
  <2>3. QED
    BY <2>1, <2>2, WorkerLoss DEF Owes
<1>24. ASSUME NEW w \in Workers, EncodeFails(w) PROVE NotLostIn(Covered)'
  <2>1. Elsewhere(w) /\ pc'[w] = "fail"
    BY <1>24, GotoElsewhere DEF EncodeFails
  <2>2. UNCHANGED <<row, main, retryQ, dlq, linked, published, job>>
    BY <1>24 DEF EncodeFails, broker, others, upload, db
  <2>3. QED
    BY <2>1, <2>2, WorkerLoss DEF Owes
<1>25. ASSUME NEW w \in Workers, ReportPartial(w) PROVE NotLostIn(Covered)'
  <2>1. Elsewhere(w) /\ pc'[w] = "encode"
        /\ UNCHANGED <<main, retryQ, dlq, linked, published, job>>
    BY <1>25, GotoElsewhere DEF ReportPartial, broker, others, upload
  <2>2. \A u \in Videos : row'[u] \in Covered => row[u] \in Covered \/ (u = Video(w) /\ linked[w])
    BY <1>25
        DEF ReportPartial, TryUpdate, Applied, NotApplied, UpdateStatus, Covered, LossInv,
         LinkInv,
             TypeOK, DbType, db
  <2>3. QED
    BY <2>1, <2>2, WorkerLoss DEF Owes
<1>26. ASSUME NEW w \in Workers, MarkReady(w) PROVE NotLostIn(Covered)'
  <2>1. Elsewhere(w) /\ UNCHANGED <<main, retryQ, dlq, linked, published, job>>
    BY <1>26, GotoElsewhere DEF MarkReady, broker, others, upload
  <2>2. \A u \in Videos : row'[u] \in Covered => row'[u] = row[u]
    BY <1>26
        DEF MarkReady, Applied, NotApplied, Unheard, UpdateStatus, Covered, TypeOK, DbType,
         db
  <2>3. pc'[w] = "fail" \/ row'[Video(w)] \notin Covered
    <3>1. CASE UpdateStatus(Video(w), "ready", made[w])
      BY <3>1, <1>26, Held DEF MarkReady, UpdateStatus, Covered, TypeOK, DbType
    <3>2. CASE NotApplied(Video(w)) /\ Goto(w, "fail")
      BY <3>2, <1>26 DEF Goto, TypeOK, WorkerType
    <3>3. QED
      BY <1>26, <3>1, <3>2 DEF MarkReady, Applied, Unheard
  <2>4. QED
    BY <2>1, <2>2, <2>3, WorkerLoss DEF Owes
<1>27. ASSUME NEW w \in Workers, CleanRaw(w) PROVE NotLostIn(Covered)'
  <2>1. Elsewhere(w) /\ ~Owes(w)
    BY <1>27, GotoElsewhere, ReleaseElsewhere DEF CleanRaw, Owes
  <2>2. UNCHANGED <<row, main, retryQ, dlq, linked, published>>
    BY <1>27 DEF CleanRaw, broker, others, upload, db
  <2>3. QED
    BY <2>1, <2>2, WorkerLoss
<1>28. ASSUME NEW w \in Workers, Ack(w) PROVE NotLostIn(Covered)'
  <2>1. Elsewhere(w) /\ ~Owes(w)
    BY <1>28, GotoElsewhere, ReleaseElsewhere DEF Ack, Owes
  <2>2. UNCHANGED <<row, main, retryQ, dlq, linked, published>>
    BY <1>28 DEF Ack, broker, others, upload, db
  <2>3. QED
    BY <2>1, <2>2, WorkerLoss
<1>29. ASSUME NEW w \in Workers, HandleFailure(w) PROVE NotLostIn(Covered)'
  <2>1. Elsewhere(w) /\ UNCHANGED <<row, main, dlq, linked, published, job>>
    BY <1>29, GotoElsewhere DEF HandleFailure, others, upload, db
  <2>2. retryQ \subseteq retryQ'
    BY <1>29 DEF HandleFailure
  <2>3. Owes(w) => pc'[w] = "markfailed" \/ \E m \in retryQ' : m.video = Video(w)
    BY <1>29, Held, RetryCopyType, GotoElsewhere DEF HandleFailure, Owes
  <2>4. QED
    BY <2>1, <2>2, <2>3, WorkerLoss DEF Owes
<1>30. ASSUME NEW w \in Workers, AckOriginal(w) PROVE NotLostIn(Covered)'
  <2>1. Elsewhere(w) /\ ~Owes(w)
    BY <1>30, GotoElsewhere, ReleaseElsewhere DEF AckOriginal, Owes
  <2>2. UNCHANGED <<row, main, retryQ, dlq, linked, published>>
    BY <1>30 DEF AckOriginal, broker, others, upload, db
  <2>3. QED
    BY <2>1, <2>2, WorkerLoss
<1>31. ASSUME NEW w \in Workers, MarkFailed(w) PROVE NotLostIn(Covered)'
  <2>1. Elsewhere(w) /\ pc'[w] = "nack"
        /\ UNCHANGED <<main, retryQ, dlq, linked, published, job>>
    BY <1>31, GotoElsewhere DEF MarkFailed, broker, others, upload
  <2>2. \A u \in Videos : row'[u] \in Covered => row[u] \in Covered \/ (u = Video(w) /\ linked[w])
    BY <1>31
        DEF MarkFailed, TryUpdate, Applied, NotApplied, UpdateStatus, Covered, LossInv,
         LinkInv,
             TypeOK, DbType, db
  <2>3. QED
    BY <2>1, <2>2, WorkerLoss DEF Owes
<1>32. ASSUME NEW w \in Workers, Nack(w) PROVE NotLostIn(Covered)'
  <2>1. Elsewhere(w) /\ UNCHANGED <<row, main, retryQ, linked, published>>
    BY <1>32, ReleaseElsewhere DEF Nack, others, upload, db
  <2>2. dlq \subseteq dlq' /\ (Owes(w) => Video(w) \in dlq')
    BY <1>32 DEF Nack, Owes
  <2>3. QED
    BY <2>1, <2>2, WorkerLoss
<1>33. ASSUME NEW w \in Workers, Reconnect(w) PROVE NotLostIn(Covered)'
  <2>1. Elsewhere(w) /\ ~Owes(w) /\ UNCHANGED <<row, main, retryQ, dlq, published>>
    BY <1>33 DEF Reconnect, Owes, Elsewhere, Stays, run, broker, others, upload, db
  <2>2. \A x \in Workers \ {w} : linked'[x] = linked[x]
    BY <1>33 DEF Reconnect, TypeOK, WorkerType
  <2>3. QED
    BY <2>1, <2>2, WorkerLoss
<1>34. ASSUME NEW w \in Workers, LoseLink(w) PROVE NotLostIn(Covered)'
  <2>1. Elsewhere(w) /\ UNCHANGED <<row, retryQ, dlq, published>>
    BY <1>34, ReleaseElsewhere DEF LoseLink, Elsewhere, Stays, run, others, upload, db
  <2>2. \A x \in Workers \ {w} : linked'[x] = linked[x]
    BY <1>34 DEF LoseLink, TypeOK, WorkerType
  <2>3. main \subseteq main' /\ (Owes(w) => job[w] \in main')
    BY <1>34 DEF LoseLink, Requeue, Owes
  <2>4. QED
    BY <2>1, <2>2, <2>3, WorkerLoss DEF Video
<1>35. ASSUME NEW w \in Workers, Crash(w) PROVE NotLostIn(Covered)'
  <2>1. Elsewhere(w) /\ UNCHANGED <<row, retryQ, dlq, published>>
    BY <1>35, ReleaseElsewhere DEF Crash, Elsewhere, Stays, run, others, upload, db
  <2>2. \A x \in Workers \ {w} : linked'[x] = linked[x]
    BY <1>35 DEF Crash, TypeOK, WorkerType
  <2>3. main \subseteq main' /\ (Owes(w) => job[w] \in main')
    BY <1>35 DEF Crash, Requeue, Owes
  <2>4. QED
    BY <2>1, <2>2, <2>3, WorkerLoss DEF Video
<1>36. ASSUME NEW w \in Workers, AckTimeout(w) PROVE NotLostIn(Covered)'
  <2>1. Elsewhere(w) /\ UNCHANGED <<row, retryQ, dlq, published>>
    BY <1>36, ReleaseElsewhere DEF AckTimeout, Elsewhere, Stays, run, others, upload, db
  <2>2. \A x \in Workers \ {w} : linked'[x] = linked[x]
    BY <1>36 DEF AckTimeout, TypeOK, WorkerType
  <2>3. main \subseteq main' /\ (Owes(w) => job[w] \in main')
    BY <1>36 DEF AckTimeout, Requeue, Owes
  <2>4. QED
    BY <2>1, <2>2, <2>3, WorkerLoss DEF Video
<1>37. ASSUME NEW m \in retryQ, RetryExpires(m) PROVE NotLostIn(Covered)'
  <2>1. main \cup retryQ \subseteq main' \cup retryQ'
    BY <1>37 DEF RetryExpires
  <2>2. QED
    BY <1>37, <2>1, <1>b DEF RetryExpires, db, worker, others, upload
<1>38. CASE UNCHANGED vars
  BY <1>38, <1>a DEF vars, upload
<1>39. QED
  BY <1>1, <1>2, <1>3, <1>4, <1>5, <1>6, <1>7, <1>8, <1>9, <1>10, <1>11, <1>12,
     <1>13, <1>14, <1>15, <1>16, <1>17, <1>18, <1>19, <1>20, <1>21, <1>22, <1>23,
     <1>24, <1>25, <1>26, <1>27, <1>28, <1>29, <1>30, <1>31, <1>32, <1>33, <1>34,
     <1>35, <1>36, <1>37, <1>38
  DEF Next, UploadStep, Reconcile, WorkerStep

\* TypeOK and LossInv are inductive together.
LEMMA LossStep == TypeOK /\ LossInv /\ [Next]_vars => LossInv'
  BY LinkStep, RowFirstStep, NotLostStep DEF LossInv

\* Initially nothing has been published, so nothing is lost.
LEMMA LossInit == Init => LossInv
  BY DEF Init, LossInv, NotLostIn, RowFirst, LinkInv

\* UploadedNotLost in every reachable state: whatever connections and workers are
\* lost, the event of a video that is still 'uploaded' is queued, held by a worker
\* that owes it a verdict, or dead-lettered (consumer.py:482-491, 731-779).
THEOREM UploadedNeverLost == Spec => []UploadedNotLost
<1>1. Init => TypeOK /\ LossInv
  BY TypeInit, LossInit
<1>2. TypeOK /\ LossInv /\ [Next]_vars => (TypeOK /\ LossInv)'
  BY TypeStep, LossStep
<1>3. TypeOK /\ LossInv => UploadedNotLost
  BY DEF LossInv, UploadedNotLost, NotLostIn, Covered
<1>4. QED
  BY <1>1, <1>2, <1>3, PTL DEF Spec

\* NoSilentLoss in every reachable state: as long as no connection was lost under a
\* running worker, the event of an 'uploaded' or 'processing' video is not acked
\* away before a verdict (consumer.py:616-621).
THEOREM NothingSilentlyLost == Spec => []NoSilentLoss
<1>1. Init => TypeOK /\ LossInv
  BY TypeInit, LossInit
<1>2. TypeOK /\ LossInv /\ [Next]_vars => (TypeOK /\ LossInv)'
  BY TypeStep, LossStep
<1>3. TypeOK /\ LossInv => NoSilentLoss
  BY DEF LossInv, NoSilentLoss, NotLostIn, Covered
<1>4. QED
  BY <1>1, <1>2, <1>3, PTL DEF Spec

-----------------------------------------------------------------------------
(* The pipeline implements Handoff *)

\* No row is taken back to before it was made.
RowsStay  == \A u \in Videos : row'[u] = "none" => row[u] = "none"

\* Messages stay about announced videos: copies and requeued ones keep their video.
LEMMA HandoffStep == TypeOK /\ HandoffInv /\ [Next]_vars => HandoffInv'
<1> SUFFICES ASSUME TypeOK, HandoffInv, [Next]_vars PROVE HandoffInv'
  OBVIOUS
<1>a. ASSUME RowsStay, UNCHANGED <<worker, published, grant>>,
             main' \cup retryQ' \subseteq main \cup retryQ
      PROVE  HandoffInv'
  BY <1>a DEF HandoffInv, RowsStay, worker, Video
<1>b. ASSUME NEW w \in Workers, RowsStay, UNCHANGED <<published, grant>>, Elsewhere(w),
             pc'[w] # "idle" => pc[w] # "idle" /\ job'[w] = job[w],
             \A m \in main' \cup retryQ' :
                 m \in main \cup retryQ \/ (pc[w] # "idle" /\ m.video = Video(w))
      PROVE  HandoffInv'
  <2>1. \A x \in Workers : pc'[x] # "idle" => published'[job'[x].video]
    BY <1>b DEF HandoffInv, Elsewhere, Stays, Video
  <2>2. \A m \in main' \cup retryQ' : published'[m.video]
    BY <1>b DEF HandoffInv
  <2>3. QED
    BY <1>b, <2>1, <2>2 DEF HandoffInv, RowsStay, Video
<1>c. ASSUME NEW v \in Videos, RowsStay, PublishEvent(v) \/ UNCHANGED <<main, published>>,
             UNCHANGED <<worker, retryQ, grant>>
      PROVE  HandoffInv'
  <2>1. \A u \in Videos : published[u] => published'[u]
    BY <1>c DEF PublishEvent, TypeOK, ServiceType
  <2>2. \A m \in main' \cup retryQ' : m \in main \cup retryQ \/ (m.video = v /\ published'[v])
    BY <1>c DEF PublishEvent, TypeOK, ServiceType
  <2>3. \A m \in main \cup retryQ : m.video \in Videos
    BY DEF TypeOK, BrokerType, Message
  <2>4. \A x \in Workers : pc[x] # "idle" => Video(x) \in Videos
    BY Held
  <2>5. \A m \in main' \cup retryQ' : published'[m.video]
    BY <2>1, <2>2, <2>3 DEF HandoffInv
  <2>6. \A x \in Workers : pc'[x] # "idle" => published'[job'[x].video]
    BY <1>c, <2>1, <2>4 DEF HandoffInv, worker, Video
  <2>7. QED
    BY <1>c, <2>5, <2>6 DEF HandoffInv, RowsStay, Video
<1>1. ASSUME NEW v \in Videos, Create(v) PROVE HandoffInv'
  BY <1>1 DEF Create, HandoffInv, Video, TypeOK, DbType, StoreType, broker, worker, store, upload
<1>2. ASSUME NEW v \in Videos, PutRaw(v) PROVE HandoffInv'
  BY <1>2 DEF PutRaw, HandoffInv, Video, TypeOK, StoreType, db, broker, worker, upload
<1>3. ASSUME NEW v \in Videos, BeginComplete(v) PROVE HandoffInv'
  BY <1>3, <1>a DEF BeginComplete, RowsStay, db, store, others, worker, upload, broker, run
<1>4. ASSUME NEW v \in Videos, AssembleSession(v) PROVE HandoffInv'
  BY <1>4 DEF AssembleSession, HandoffInv, Video, TypeOK, StoreType, db, broker, worker, upload
<1>5. ASSUME NEW v \in Videos, FindRaw(v) PROVE HandoffInv'
  BY <1>5, <1>a DEF FindRaw, RowsStay, db, store, others, worker, upload, broker, run
<1>6. ASSUME NEW v \in Videos, RejectComplete(v) PROVE HandoffInv'
  BY <1>6, <1>a DEF RejectComplete, RowsStay, db, store, others, worker, upload, broker, run
<1>7. ASSUME NEW v \in Videos, PublishUploaded(v) PROVE HandoffInv'
  BY <1>7, <1>c DEF PublishUploaded, RowsStay, db, store
<1>8. ASSUME NEW v \in Videos, Age(v) PROVE HandoffInv'
  BY <1>8, <1>a DEF Age, RowsStay, db, store, others, worker, upload, broker, run
<1>9. ASSUME NEW v \in Videos, RecStat(v) PROVE HandoffInv'
  BY <1>9, <1>a DEF RecStat, RowsStay, db, store, others, worker, upload, broker, run
<1>10. ASSUME NEW v \in Videos, RecRepublish(v) PROVE HandoffInv'
  BY <1>10, <1>c DEF RecRepublish, RowsStay, db, store
<1>11. ASSUME NEW v \in Videos, RecAbort(v) PROVE HandoffInv'
  BY <1>11 DEF RecAbort, HandoffInv, Video, TypeOK, StoreType, db, broker, worker, upload
<1>12. ASSUME NEW v \in Videos, RecFail(v) PROVE HandoffInv'
  <2>1. RowsStay
    BY <1>12, UpdateKeepsRow DEF RecFail, TryUpdate, Applied, NotApplied, Status, RowsStay
  <2>2. QED
    BY <1>12, <2>1, <1>a DEF RecFail, store, broker, upload
<1>13. ASSUME NEW v \in Videos, DeleteRow(v) PROVE HandoffInv'
  BY <1>13 DEF DeleteRow, HandoffInv, Video, TypeOK, DbType, StoreType, broker, worker, store,
     upload
<1>14. ASSUME NEW v \in Videos, SweepKeys(v) PROVE HandoffInv'
  BY <1>14, <1>a DEF SweepKeys, RowsStay, db, store, others, worker, upload, broker, run
<1>15. ASSUME NEW v \in Videos, SweepPrefix(v) PROVE HandoffInv'
  BY <1>15, <1>a DEF SweepPrefix, RowsStay, db, store, others, worker, upload, broker, run
<1>16. CASE RecList
  BY <1>16, <1>a DEF RecList, RowsStay, db, store, others, worker, upload, broker, run
<1>17. CASE RestartUpload
  BY <1>17, <1>a DEF RestartUpload, RowsStay, db, store, others, worker, upload, broker, run
<1>18. CASE RestartMetadata
  BY <1>18, <1>a DEF RestartMetadata, RowsStay, db, store, others, worker, upload, broker, run
<1>19. ASSUME NEW w \in Workers, Deliver(w) PROVE HandoffInv'
  <2>1. Elsewhere(w) /\ published[job'[w].video] /\ main' \subseteq main
    BY <1>19 DEF Deliver, Goto, Elsewhere, Stays, run, TypeOK, WorkerType, HandoffInv
  <2>2. RowsStay /\ UNCHANGED <<published, grant, retryQ>>
    BY <1>19 DEF Deliver, RowsStay, db, store, others, worker, upload, broker, run
  <2>3. \A x \in Workers : pc'[x] # "idle" => published'[job'[x].video]
    BY <2>1, <2>2 DEF HandoffInv, Elsewhere, Stays, Video
  <2>4. QED
    BY <2>1, <2>2, <2>3 DEF HandoffInv, RowsStay, Video
<1>20. ASSUME NEW w \in Workers, CheckStatus(w) PROVE HandoffInv'
  <2>1. Elsewhere(w) /\ (pc'[w] # "idle" => job'[w] = job[w])
    BY <1>20, GotoElsewhere, ReleaseElsewhere DEF CheckStatus, run
  <2>2. RowsStay /\ UNCHANGED <<published, grant, main, retryQ>>
    BY <1>20 DEF CheckStatus, RowsStay, db, store, others, worker, upload, broker, run
  <2>3. QED
    BY <1>20, <2>1, <2>2, <1>b DEF CheckStatus
<1>21. ASSUME NEW w \in Workers, MarkProcessing(w) PROVE HandoffInv'
  <2>1. RowsStay
    BY <1>21, Held, UpdateKeepsRow
        DEF MarkProcessing, TryUpdate, Applied, NotApplied, Unheard, Status, RowsStay
  <2>2. Elsewhere(w) /\ job' = job
    BY <1>21, GotoElsewhere DEF MarkProcessing
  <2>3. QED
    BY <1>21, <2>1, <2>2, <1>b DEF MarkProcessing, store, others, upload, broker
<1>22. ASSUME NEW w \in Workers, Fetch(w) PROVE HandoffInv'
  <2>1. Elsewhere(w) /\ (pc'[w] # "idle" => job'[w] = job[w])
    BY <1>22 DEF Fetch, Goto, Elsewhere, Stays, TypeOK, WorkerType
  <2>2. RowsStay /\ UNCHANGED <<published, grant, main, retryQ>>
    BY <1>22 DEF Fetch, RowsStay, db, store, others, worker, upload, broker, run
  <2>3. QED
    BY <1>22, <2>1, <2>2, <1>b DEF Fetch
<1>23. ASSUME NEW w \in Workers, Encode(w) PROVE HandoffInv'
  <2>1. Elsewhere(w) /\ (pc'[w] # "idle" => job'[w] = job[w])
    BY <1>23 DEF Encode, Goto, Elsewhere, Stays, TypeOK, WorkerType
  <2>2. RowsStay /\ UNCHANGED <<published, grant, main, retryQ>>
    BY <1>23 DEF Encode, RowsStay, db, store, others, worker, upload, broker, run
  <2>3. QED
    BY <1>23, <2>1, <2>2, <1>b DEF Encode
<1>24. ASSUME NEW w \in Workers, EncodeFails(w) PROVE HandoffInv'
  <2>1. Elsewhere(w) /\ (pc'[w] # "idle" => job'[w] = job[w])
    BY <1>24, GotoElsewhere, ReleaseElsewhere DEF EncodeFails, run
  <2>2. RowsStay /\ UNCHANGED <<published, grant, main, retryQ>>
    BY <1>24 DEF EncodeFails, RowsStay, db, store, others, worker, upload, broker, run
  <2>3. QED
    BY <1>24, <2>1, <2>2, <1>b DEF EncodeFails
<1>25. ASSUME NEW w \in Workers, ReportPartial(w) PROVE HandoffInv'
  <2>1. RowsStay
    BY <1>25, Held, UpdateKeepsRow
        DEF ReportPartial, TryUpdate, Applied, NotApplied, Unheard, Status, RowsStay
  <2>2. Elsewhere(w) /\ job' = job
    BY <1>25, GotoElsewhere DEF ReportPartial
  <2>3. QED
    BY <1>25, <2>1, <2>2, <1>b DEF ReportPartial, store, others, upload, broker
<1>26. ASSUME NEW w \in Workers, MarkReady(w) PROVE HandoffInv'
  <2>1. RowsStay
    BY <1>26, Held, UpdateKeepsRow
        DEF MarkReady, TryUpdate, Applied, NotApplied, Unheard, Status, RowsStay
  <2>2. Elsewhere(w) /\ job' = job
    BY <1>26, GotoElsewhere DEF MarkReady
  <2>3. QED
    BY <1>26, <2>1, <2>2, <1>b DEF MarkReady, store, others, upload, broker
<1>27. ASSUME NEW w \in Workers, CleanRaw(w) PROVE HandoffInv'
  <2>1. Elsewhere(w) /\ (pc'[w] # "idle" => job'[w] = job[w])
    BY <1>27, GotoElsewhere, ReleaseElsewhere DEF CleanRaw, run
  <2>2. RowsStay /\ UNCHANGED <<published, grant, main, retryQ>>
    BY <1>27 DEF CleanRaw, RowsStay, db, store, others, worker, upload, broker, run
  <2>3. QED
    BY <1>27, <2>1, <2>2, <1>b DEF CleanRaw
<1>28. ASSUME NEW w \in Workers, Ack(w) PROVE HandoffInv'
  <2>1. Elsewhere(w) /\ (pc'[w] # "idle" => job'[w] = job[w])
    BY <1>28, GotoElsewhere, ReleaseElsewhere DEF Ack, run
  <2>2. RowsStay /\ UNCHANGED <<published, grant, main, retryQ>>
    BY <1>28 DEF Ack, RowsStay, db, store, others, worker, upload, broker, run
  <2>3. QED
    BY <1>28, <2>1, <2>2, <1>b DEF Ack
<1>29. ASSUME NEW w \in Workers, HandleFailure(w) PROVE HandoffInv'
  <2>1. Elsewhere(w) /\ job' = job
    BY <1>29, GotoElsewhere DEF HandleFailure
  <2>2. RowsStay /\ UNCHANGED <<published, grant, main>>
    BY <1>29 DEF HandleFailure, RowsStay, db, store, others, worker, upload, broker, run
  <2>3. \A m \in retryQ' : m \in retryQ \/ m.video = Video(w)
    BY <1>29, Held, RetryCopyType DEF HandleFailure
  <2>4. QED
    BY <1>29, <2>1, <2>2, <2>3, <1>b DEF HandleFailure
<1>30. ASSUME NEW w \in Workers, AckOriginal(w) PROVE HandoffInv'
  <2>1. Elsewhere(w) /\ (pc'[w] # "idle" => job'[w] = job[w])
    BY <1>30, GotoElsewhere, ReleaseElsewhere DEF AckOriginal, run
  <2>2. RowsStay /\ UNCHANGED <<published, grant, main, retryQ>>
    BY <1>30 DEF AckOriginal, RowsStay, db, store, others, worker, upload, broker, run
  <2>3. QED
    BY <1>30, <2>1, <2>2, <1>b DEF AckOriginal
<1>31. ASSUME NEW w \in Workers, MarkFailed(w) PROVE HandoffInv'
  <2>1. RowsStay
    BY <1>31, Held, UpdateKeepsRow
        DEF MarkFailed, TryUpdate, Applied, NotApplied, Unheard, Status, RowsStay
  <2>2. Elsewhere(w) /\ job' = job
    BY <1>31, GotoElsewhere DEF MarkFailed
  <2>3. QED
    BY <1>31, <2>1, <2>2, <1>b DEF MarkFailed, store, others, upload, broker
<1>32. ASSUME NEW w \in Workers, Nack(w) PROVE HandoffInv'
  <2>1. Elsewhere(w) /\ (pc'[w] # "idle" => job'[w] = job[w])
    BY <1>32, GotoElsewhere, ReleaseElsewhere DEF Nack, run
  <2>2. RowsStay /\ UNCHANGED <<published, grant, main, retryQ>>
    BY <1>32 DEF Nack, RowsStay, db, store, others, worker, upload, broker, run
  <2>3. QED
    BY <1>32, <2>1, <2>2, <1>b DEF Nack
<1>33. ASSUME NEW w \in Workers, Reconnect(w) PROVE HandoffInv'
  <2>1. Elsewhere(w) /\ UNCHANGED <<pc, job>>
    BY <1>33 DEF Reconnect, Elsewhere, Stays, run
  <2>2. QED
    BY <1>33, <2>1, <1>b DEF Reconnect, RowsStay, db, store, others, worker, upload, broker, run
<1>34. ASSUME NEW w \in Workers, LoseLink(w) PROVE HandoffInv'
  <2>1. Elsewhere(w) /\ UNCHANGED <<pc, job>>
    BY <1>34 DEF LoseLink, Elsewhere, Stays, run
  <2>2. RowsStay /\ UNCHANGED <<published, grant, retryQ>>
    BY <1>34 DEF LoseLink, RowsStay, db, store, others, worker, upload, broker, run
  <2>3. main' \subseteq main \cup {job[w]}
    BY <1>34 DEF LoseLink, Requeue
  <2>4. QED
    BY <1>34, <2>1, <2>2, <2>3, <1>b DEF LoseLink, Video
<1>35. ASSUME NEW w \in Workers, Crash(w) PROVE HandoffInv'
  <2>1. Elsewhere(w) /\ pc'[w] = "idle"
    BY <1>35, ReleaseElsewhere DEF Crash
  <2>2. RowsStay /\ UNCHANGED <<published, grant, retryQ>>
    BY <1>35 DEF Crash, RowsStay, db, store, others, worker, upload, broker, run
  <2>3. main' \subseteq main \cup {job[w]}
    BY <1>35 DEF Crash, Requeue
  <2>4. QED
    BY <1>35, <2>1, <2>2, <2>3, <1>b DEF Crash, Video
<1>36. ASSUME NEW w \in Workers, AckTimeout(w) PROVE HandoffInv'
  <2>1. Elsewhere(w) /\ pc'[w] = "idle"
    BY <1>36, ReleaseElsewhere DEF AckTimeout
  <2>2. RowsStay /\ UNCHANGED <<published, grant, retryQ>>
    BY <1>36 DEF AckTimeout, RowsStay, db, store, others, worker, upload, broker, run
  <2>3. main' \subseteq main \cup {job[w]}
    BY <1>36 DEF AckTimeout, Requeue
  <2>4. QED
    BY <1>36, <2>1, <2>2, <2>3, <1>b DEF AckTimeout, Video
<1>37. ASSUME NEW m \in retryQ, RetryExpires(m) PROVE HandoffInv'
  BY <1>37, <1>a DEF RetryExpires, RowsStay, db, store, others, worker, upload, broker, run
<1>38. CASE UNCHANGED vars
  BY <1>38, <1>a DEF vars, RowsStay, db, store, others, worker, upload, broker, run
<1>39. QED
  BY <1>1, <1>2, <1>3, <1>4, <1>5, <1>6, <1>7, <1>8, <1>9, <1>10, <1>11, <1>12,
     <1>13, <1>14, <1>15, <1>16, <1>17, <1>18, <1>19, <1>20, <1>21, <1>22, <1>23,
     <1>24, <1>25, <1>26, <1>27, <1>28, <1>29, <1>30, <1>31, <1>32, <1>33, <1>34,
     <1>35, <1>36, <1>37, <1>38
  DEF Next, UploadStep, Reconcile, WorkerStep

Handed     == <<row, Kept, Announced, Finished>>
HandoffAll == TypeOK /\ DeleteInv /\ RawInv /\ LossInv /\ HandoffInv

\* A step that leaves row, original, announcement and history alone.
LEMMA Unhanded ==
    ASSUME UNCHANGED <<db, raw, published>>
    PROVE  UNCHANGED Handed
  BY DEF Handed, Kept, Announced, Finished, db

\* The bytes arrive.
LEMMA KeepHanded ==
    ASSUME TypeOK, NEW v \in Videos, row[v] # "none",
           raw' = [raw EXCEPT ![v] = TRUE], UNCHANGED <<db, published>>
    PROVE  Handover!Next
<1>1. Kept' = Kept \cup {v}
  BY DEF Kept, TypeOK, StoreType
<1>2. UNCHANGED <<row, Announced, Finished>>
  BY DEF Announced, Finished, db
<1>3. Handover!Keep(v)
  BY <1>1, <1>2 DEF Handover!Keep
<1>4. QED
  BY <1>3 DEF Handover!Next

\* An event is published: the upload is stored, or is not needed any more.
LEMMA PublishHanded ==
    ASSUME TypeOK, RawInv, LossInv, NEW v \in Videos,
           up[v] = "stored" \/ rec[v] = "republish",
           PublishEvent(v) \/ UNCHANGED published, UNCHANGED <<db, raw>>
    PROVE  [Handover!Next]_Handed
<1>1. CASE UNCHANGED published
  BY <1>1, Unhanded
<1>2. CASE PublishEvent(v)
  <2>1. Announced' = Announced \cup {v}
    BY <1>2 DEF PublishEvent, Announced, TypeOK, ServiceType
  <2>2. UNCHANGED <<row, Kept, Finished>>
    BY DEF Kept, Finished, db
  <2>3. row[v] # "none" /\ (v \in Kept \/ v \in Finished \/ row[v] = "deleted")
    BY DEF LossInv, RowFirst, RawInv, RawKept, Kept, Finished
  <2>4. Handover!Announce(v)
    BY <2>1, <2>2, <2>3 DEF Handover!Announce, Handover!Over
  <2>5. QED
    BY <2>4 DEF Handover!Next
<1>3. QED
  BY <1>1, <1>2

\* A status is written: work and its end are about announced videos.
LEMMA UpdateHanded ==
    ASSUME TypeOK, NEW v \in Videos, NEW s, NEW Q,
           s = "failed" \/ (s \in {"processing", "ready"} /\ published[v]),
           UpdateStatus(v, s, Q) \/ UNCHANGED db, UNCHANGED <<raw, published>>
    PROVE  [Handover!Next]_Handed
<1>1. CASE UNCHANGED db
  BY <1>1, Unhanded
<1>2. CASE /\ row[v] \in Status
           /\ ~(row[v] = "ready" /\ s = "processing")
           /\ row' = [row EXCEPT ![v] = s]
           /\ everReady' = [everReady EXCEPT ![v] = @ \/ s = "ready"]
  <2>1. UNCHANGED <<Kept, Announced>>
    BY DEF Kept, Announced
  <2>2. s # "ready" => UNCHANGED Finished
    BY <1>2 DEF Finished, TypeOK, DbType
  <2>3. s = "ready" => Finished' = Finished \cup {v}
    BY <1>2 DEF Finished, TypeOK, DbType
  <2>4. published[v] => v \in Announced
    BY DEF Announced
  <2>5. CASE s = "failed"
    <3>1. Handover!Fail(v)
      BY <1>2, <2>1, <2>2, <2>5 DEF Handover!Fail, Handover!Live, Handover!Become, Status
    <3>2. QED
      BY <3>1 DEF Handover!Next
  <2>6. CASE s = "processing"
    <3>1. Handover!Work(v)
      BY <1>2, <2>1, <2>2, <2>4, <2>6 DEF Handover!Work, Handover!Live, Handover!Become, Status
    <3>2. QED
      BY <3>1 DEF Handover!Next
  <2>7. CASE s = "ready"
    <3>1. Handover!Finish(v)
      BY <1>2, <2>1, <2>3, <2>4, <2>7 DEF Handover!Finish, Handover!Live, Handover!Become, Status
    <3>2. QED
      BY <3>1 DEF Handover!Next
  <2>8. QED
    BY <2>5, <2>6, <2>7
<1>3. QED
  BY <1>1, <1>2 DEF UpdateStatus

\* The original is removed: nothing needs it any more.
LEMMA DiscardHanded ==
    ASSUME TypeOK, NEW v \in Videos, everReady[v] \/ row[v] = "deleted",
           \E b \in BOOLEAN : raw' = [raw EXCEPT ![v] = @ /\ b], UNCHANGED <<db, published>>
    PROVE  [Handover!Next]_Handed
<1>1. Kept' = Kept \/ Kept' = Kept \ {v}
  BY DEF Kept, TypeOK, StoreType
<1>2. UNCHANGED <<row, Announced, Finished>>
  BY DEF Announced, Finished, db
<1>3. v \in Finished \/ row[v] = "deleted"
  BY DEF Finished
<1>4. Kept' = Kept \ {v} => Handover!Discard(v)
  BY <1>2, <1>3 DEF Handover!Discard, Handover!Over
<1>5. QED
  BY <1>1, <1>2, <1>4 DEF Handover!Next, Handed

\* Every step of the pipeline is a step of Handoff or leaves what it is about alone.
LEMMA HandoverStep == HandoffAll /\ [Next]_vars => [Handover!Next]_Handed
<1> SUFFICES ASSUME TypeOK, DeleteInv, RawInv, LossInv, HandoffInv, [Next]_vars
             PROVE  [Handover!Next]_Handed
  BY DEF HandoffAll
<1>1. ASSUME NEW v \in Videos, Create(v) PROVE [Handover!Next]_Handed
  <2>1. UNCHANGED <<Kept, Announced, Finished>>
    BY <1>1 DEF Create, upload, Kept, Announced, Finished
  <2>2. Handover!Make(v)
    BY <1>1, <2>1 DEF Create, Handover!Make, Handover!Become
  <2>3. QED
    BY <2>2 DEF Handover!Next
<1>2. ASSUME NEW v \in Videos, PutRaw(v) PROVE [Handover!Next]_Handed
  <2>1. row[v] # "none"
    BY <1>2 DEF PutRaw, HandoffInv
  <2>2. QED
    BY <1>2, <2>1, KeepHanded DEF PutRaw, upload
<1>3. ASSUME NEW v \in Videos, BeginComplete(v) PROVE [Handover!Next]_Handed
  BY <1>3, Unhanded DEF BeginComplete, store, others, upload
<1>4. ASSUME NEW v \in Videos, AssembleSession(v) PROVE [Handover!Next]_Handed
  <2>1. row[v] # "none"
    BY <1>4 DEF AssembleSession, LossInv, RowFirst
  <2>2. QED
    BY <1>4, <2>1, KeepHanded DEF AssembleSession
<1>5. ASSUME NEW v \in Videos, FindRaw(v) PROVE [Handover!Next]_Handed
  BY <1>5, Unhanded DEF FindRaw, store, others, upload
<1>6. ASSUME NEW v \in Videos, RejectComplete(v) PROVE [Handover!Next]_Handed
  BY <1>6, Unhanded DEF RejectComplete, store, others, upload
<1>7. ASSUME NEW v \in Videos, PublishUploaded(v) PROVE [Handover!Next]_Handed
  BY <1>7, PublishHanded DEF PublishUploaded, store
<1>8. ASSUME NEW v \in Videos, Age(v) PROVE [Handover!Next]_Handed
  BY <1>8, Unhanded DEF Age, store, others, upload
<1>9. ASSUME NEW v \in Videos, RecStat(v) PROVE [Handover!Next]_Handed
  BY <1>9, Unhanded DEF RecStat, store, others, upload
<1>10. ASSUME NEW v \in Videos, RecRepublish(v) PROVE [Handover!Next]_Handed
  BY <1>10, PublishHanded DEF RecRepublish, store
<1>11. ASSUME NEW v \in Videos, RecAbort(v) PROVE [Handover!Next]_Handed
  BY <1>11, Unhanded DEF RecAbort, store, others, upload
<1>12. ASSUME NEW v \in Videos, RecFail(v) PROVE [Handover!Next]_Handed
  BY <1>12, UpdateHanded DEF RecFail, TryUpdate, Applied, NotApplied, store, upload
<1>13. ASSUME NEW v \in Videos, DeleteRow(v) PROVE [Handover!Next]_Handed
  <2>1. UNCHANGED <<Kept, Announced, Finished>>
    BY <1>13 DEF DeleteRow, store, upload, Kept, Announced, Finished
  <2>2. Handover!Delete(v)
    BY <1>13, <2>1 DEF DeleteRow, Handover!Delete, Handover!Become, Handover!Live, Status
  <2>3. QED
    BY <2>2 DEF Handover!Next
<1>14. ASSUME NEW v \in Videos, SweepKeys(v) PROVE [Handover!Next]_Handed
  <2>1. row[v] = "deleted"
    BY <1>14 DEF SweepKeys, DeleteInv
  <2>2. UNCHANGED <<db, published>>
    BY <1>14 DEF SweepKeys, upload
  <2>3. raw' = raw \/ raw' = [raw EXCEPT ![v] = @ /\ FALSE]
    BY <1>14 DEF SweepKeys
  <2>4. QED
    BY <2>1, <2>2, <2>3, DiscardHanded, Unhanded
<1>15. ASSUME NEW v \in Videos, SweepPrefix(v) PROVE [Handover!Next]_Handed
  <2>1. row[v] = "deleted"
    BY <1>15 DEF SweepPrefix, DeleteInv
  <2>2. UNCHANGED <<db, published>>
    BY <1>15 DEF SweepPrefix, upload
  <2>3. raw' = raw \/ raw' = [raw EXCEPT ![v] = @ /\ FALSE]
    BY <1>15 DEF SweepPrefix
  <2>4. QED
    BY <2>1, <2>2, <2>3, DiscardHanded, Unhanded
<1>16. CASE RecList
  BY <1>16, Unhanded DEF RecList, store, others, upload
<1>17. CASE RestartUpload
  BY <1>17, Unhanded DEF RestartUpload, store, others, upload
<1>18. CASE RestartMetadata
  BY <1>18, Unhanded DEF RestartMetadata, store, others, upload
<1>19. ASSUME NEW w \in Workers, Deliver(w) PROVE [Handover!Next]_Handed
  BY <1>19, Unhanded DEF Deliver, store, others, upload
<1>20. ASSUME NEW w \in Workers, CheckStatus(w) PROVE [Handover!Next]_Handed
  BY <1>20, Unhanded DEF CheckStatus, store, others, upload
<1>21. ASSUME NEW w \in Workers, MarkProcessing(w) PROVE [Handover!Next]_Handed
  <2>1. Video(w) \in Videos /\ published[Video(w)]
    BY <1>21, Held DEF MarkProcessing, HandoffInv
  <2>2. QED
    BY <1>21, <2>1, UpdateHanded
        DEF MarkProcessing, TryUpdate, Applied, NotApplied, Unheard, store, others, upload
<1>22. ASSUME NEW w \in Workers, Fetch(w) PROVE [Handover!Next]_Handed
  BY <1>22, Unhanded DEF Fetch, store, others, upload
<1>23. ASSUME NEW w \in Workers, Encode(w) PROVE [Handover!Next]_Handed
  BY <1>23, Unhanded DEF Encode, store, others, upload
<1>24. ASSUME NEW w \in Workers, EncodeFails(w) PROVE [Handover!Next]_Handed
  BY <1>24, Unhanded DEF EncodeFails, store, others, upload
<1>25. ASSUME NEW w \in Workers, ReportPartial(w) PROVE [Handover!Next]_Handed
  <2>1. Video(w) \in Videos /\ published[Video(w)]
    BY <1>25, Held DEF ReportPartial, HandoffInv
  <2>2. QED
    BY <1>25, <2>1, UpdateHanded
        DEF ReportPartial, TryUpdate, Applied, NotApplied, Unheard, store, others, upload
<1>26. ASSUME NEW w \in Workers, MarkReady(w) PROVE [Handover!Next]_Handed
  <2>1. Video(w) \in Videos /\ published[Video(w)]
    BY <1>26, Held DEF MarkReady, HandoffInv
  <2>2. QED
    BY <1>26, <2>1, UpdateHanded
        DEF MarkReady, TryUpdate, Applied, NotApplied, Unheard, store, others, upload
<1>27. ASSUME NEW w \in Workers, CleanRaw(w) PROVE [Handover!Next]_Handed
  <2>1. Video(w) \in Videos /\ everReady[Video(w)]
    BY <1>27, Held DEF CleanRaw, RawInv
  <2>2. UNCHANGED <<db, published>>
    BY <1>27 DEF CleanRaw, others, upload
  <2>3. raw' = raw \/ raw' = [raw EXCEPT ![Video(w)] = @ /\ KeepRaw]
    BY <1>27 DEF CleanRaw
  <2>4. QED
    BY <2>1, <2>2, <2>3, DiscardHanded, Unhanded, KeepRawAssumption DEF KeepRawAssumption
<1>28. ASSUME NEW w \in Workers, Ack(w) PROVE [Handover!Next]_Handed
  BY <1>28, Unhanded DEF Ack, store, others, upload
<1>29. ASSUME NEW w \in Workers, HandleFailure(w) PROVE [Handover!Next]_Handed
  BY <1>29, Unhanded DEF HandleFailure, store, others, upload
<1>30. ASSUME NEW w \in Workers, AckOriginal(w) PROVE [Handover!Next]_Handed
  BY <1>30, Unhanded DEF AckOriginal, store, others, upload
<1>31. ASSUME NEW w \in Workers, MarkFailed(w) PROVE [Handover!Next]_Handed
  <2>1. Video(w) \in Videos /\ published[Video(w)]
    BY <1>31, Held DEF MarkFailed, HandoffInv
  <2>2. QED
    BY <1>31, <2>1, UpdateHanded
        DEF MarkFailed, TryUpdate, Applied, NotApplied, Unheard, store, others, upload
<1>32. ASSUME NEW w \in Workers, Nack(w) PROVE [Handover!Next]_Handed
  BY <1>32, Unhanded DEF Nack, store, others, upload
<1>33. ASSUME NEW w \in Workers, Reconnect(w) PROVE [Handover!Next]_Handed
  BY <1>33, Unhanded DEF Reconnect, store, others, upload
<1>34. ASSUME NEW w \in Workers, LoseLink(w) PROVE [Handover!Next]_Handed
  BY <1>34, Unhanded DEF LoseLink, store, others, upload
<1>35. ASSUME NEW w \in Workers, Crash(w) PROVE [Handover!Next]_Handed
  BY <1>35, Unhanded DEF Crash, store, others, upload
<1>36. ASSUME NEW w \in Workers, AckTimeout(w) PROVE [Handover!Next]_Handed
  BY <1>36, Unhanded DEF AckTimeout, store, others, upload
<1>37. ASSUME NEW m \in retryQ, RetryExpires(m) PROVE [Handover!Next]_Handed
  BY <1>37, Unhanded DEF RetryExpires, store, others, upload
<1>38. CASE UNCHANGED vars
  BY <1>38, Unhanded DEF vars, store, others, upload
<1>39. QED
  BY <1>1, <1>2, <1>3, <1>4, <1>5, <1>6, <1>7, <1>8, <1>9, <1>10, <1>11, <1>12,
     <1>13, <1>14, <1>15, <1>16, <1>17, <1>18, <1>19, <1>20, <1>21, <1>22, <1>23,
     <1>24, <1>25, <1>26, <1>27, <1>28, <1>29, <1>30, <1>31, <1>32, <1>33, <1>34,
     <1>35, <1>36, <1>37, <1>38
  DEF Next, UploadStep, Reconcile, WorkerStep

\* HandoffKept: uploads, the reconciler, workers and deletes keep the order of row,
\* original and event, for any number of videos and whatever fails (reconciler.go:86-112,
\* consumer.py:616-628).
THEOREM PipelineImplementsHandoff == Spec => HandoffKept
<1>1. Init => Handover!Init
  BY DEF Init, Handover!Init, Kept, Announced, Finished
<1>2. Init => HandoffAll
  <2>1. Init => DeleteInv /\ RawInv /\ HandoffInv
    BY DEF Init, DeleteInv, RawInv, RawKept, HandoffInv
  <2>2. QED
    BY <2>1, TypeInit, LossInit DEF HandoffAll
<1>3. HandoffAll /\ [Next]_vars => HandoffAll'
  BY TypeStep, DeleteStep, RawStep, LossStep, HandoffStep DEF HandoffAll
<1>4. HandoffAll /\ [Next]_vars => [Handover!Next]_<<row, Kept, Announced, Finished>>
  BY HandoverStep DEF Handed
<1>5. QED
  BY <1>1, <1>2, <1>3, <1>4, PTL DEF Spec, HandoffKept, Handover!Spec

====
