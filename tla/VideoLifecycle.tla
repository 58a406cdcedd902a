--------------------------- MODULE VideoLifecycle ---------------------------
(***************************************************************************)
(* What the metadata service promises to those who read a video (the       *)
(* player, the gateway, nginx-vod), whatever uploads, workers, the         *)
(* reconciler and the owner do: each step of a row is one of five, the     *)
(* rendition list of a live row only grows, 'ready' comes with the whole   *)
(* ladder and is never taken back to 'processing' or 'uploaded' by a step, *)
(* and a deleted video stays deleted.                                      *)
(***************************************************************************)
CONSTANTS Videos, Qualities, Ladder  \* Ladder[v]: what v is to be served in

VARIABLES status, listed

Live == {"uploaded", "processing", "ready", "failed"}

Init ==
    /\ status = [v \in Videos |-> "none"]
    /\ listed = [v \in Videos |-> {}]

Upload(v) ==
    /\ status[v] = "none"
    /\ status' = [status EXCEPT ![v] = "uploaded"]
    /\ UNCHANGED listed

Work(v) ==
    /\ status[v] \in Live \ {"ready"}
    /\ status' = [status EXCEPT ![v] = "processing"]
    /\ \E Q \in SUBSET Qualities : listed' = [listed EXCEPT ![v] = @ \cup Q]

Finish(v) ==
    /\ status[v] \in Live
    /\ status' = [status EXCEPT ![v] = "ready"]
    /\ \E Q \in SUBSET Qualities :
        Ladder[v] \subseteq Q /\ listed' = [listed EXCEPT ![v] = @ \cup Q]

Fail(v) ==
    /\ status[v] \in Live
    /\ status' = [status EXCEPT ![v] = "failed"]
    /\ UNCHANGED listed

Delete(v) ==
    /\ status[v] \in Live
    /\ status' = [status EXCEPT ![v] = "deleted"]
    /\ listed' = [listed EXCEPT ![v] = {}]

Next == \E v \in Videos : Upload(v) \/ Work(v) \/ Finish(v) \/ Fail(v) \/ Delete(v)

Spec == Init /\ [][Next]_<<status, listed>>
====
