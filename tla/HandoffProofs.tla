--------------------------- MODULE HandoffProofs ---------------------------
(***************************************************************************)
(* What Handoff promises, and so whatever implements it: RawUpload and      *)
(* VideoPipeline do.                                                        *)
(***************************************************************************)
EXTENDS Handoff, TLAPS

\* A deleted row stays deleted, which takes that rows have statuses.
Inv ==
    /\ row \in [Videos -> Live \cup {"none", "deleted"}]
    /\ kept \subseteq Videos /\ announced \subseteq Videos
    /\ EventFindsOriginal

\* EventFindsOriginal: an event is published for a stored original only, and the original
\* goes only when the video has been ready or was deleted, both of which are for good.
THEOREM EventsFindOriginals == Spec => []EventFindsOriginal
<1>1. Init => Inv
  BY DEF Init, Inv, EventFindsOriginal
<1>2. Inv /\ [Next]_<<row, kept, announced, finished>> => Inv'
  <2> SUFFICES ASSUME Inv, [Next]_<<row, kept, announced, finished>> PROVE Inv'
    OBVIOUS
  <2>1. ASSUME NEW v \in Videos, Make(v) \/ Work(v) \/ Finish(v) \/ Fail(v) \/ Delete(v)
        PROVE  Inv'
    <3>1. /\ row' \in [Videos -> Live \cup {"none", "deleted"}]
          /\ \A u \in Videos : row[u] = "deleted" => row'[u] = "deleted"
          /\ finished \subseteq finished' /\ UNCHANGED <<kept, announced>>
      BY <2>1 DEF Make, Work, Finish, Fail, Delete, Become, Inv, Live
    <3>2. QED
      BY <3>1 DEF Inv, EventFindsOriginal, Over
  <2>2. ASSUME NEW v \in Videos, Keep(v) \/ Announce(v) \/ Discard(v)
        PROVE  Inv'
    BY <2>2 DEF Keep, Announce, Discard, Inv, EventFindsOriginal, Over
  <2>3. CASE UNCHANGED <<row, kept, announced, finished>>
    BY <2>3 DEF Inv, EventFindsOriginal, Over
  <2>4. QED
    BY <2>1, <2>2, <2>3 DEF Next
<1>3. Inv => EventFindsOriginal
  BY DEF Inv
<1>4. QED
  BY <1>1, <1>2, <1>3, PTL DEF Spec

=============================================================================
