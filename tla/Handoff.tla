------------------------------ MODULE Handoff -------------------------------
(***************************************************************************)
(* What upload and transcoding rely on of each other: a video has a row,    *)
(* then its original, then an event, in this order, and only an event makes  *)
(* a worker begin. The original is given up once the video has been ready     *)
(* or was deleted, and never before, so whoever takes an event finds it.     *)
(* Everything else about the three stores is left to those who write them.   *)
(***************************************************************************)
CONSTANT Videos

VARIABLES
    row,        \* "none", a status, or "deleted"
    kept,       \* the videos whose original is stored
    announced,  \* the videos an event was published for
    finished    \* the videos that have been ready

Live == {"uploaded", "processing", "ready", "failed"}

\* Nothing needs the original of v any more.
Over(v) == v \in finished \/ row[v] = "deleted"

Init ==
    /\ row = [v \in Videos |-> "none"]
    /\ kept = {} /\ announced = {} /\ finished = {}

Become(v, s) == row' = [row EXCEPT ![v] = s]

Make(v) == row[v] = "none" /\ Become(v, "uploaded") /\ UNCHANGED <<kept, announced, finished>>

\* Bytes may come late, after a verdict or a delete.
Keep(v) ==
    /\ row[v] # "none"
    /\ kept' = kept \cup {v}
    /\ UNCHANGED <<row, announced, finished>>

\* So may an event, repeated from a list that is out of date.
Announce(v) ==
    /\ row[v] # "none" /\ (v \in kept \/ Over(v))
    /\ announced' = announced \cup {v}
    /\ UNCHANGED <<row, kept, finished>>

Work(v) ==
    /\ v \in announced /\ row[v] \in Live \ {"ready"}
    /\ Become(v, "processing")
    /\ UNCHANGED <<kept, announced, finished>>

Finish(v) ==
    /\ v \in announced /\ row[v] \in Live
    /\ Become(v, "ready") /\ finished' = finished \cup {v}
    /\ UNCHANGED <<kept, announced>>

Fail(v) == row[v] \in Live /\ Become(v, "failed") /\ UNCHANGED <<kept, announced, finished>>

Delete(v) == row[v] \in Live /\ Become(v, "deleted") /\ UNCHANGED <<kept, announced, finished>>

Discard(v) ==
    /\ Over(v)
    /\ kept' = kept \ {v}
    /\ UNCHANGED <<row, announced, finished>>

Next ==
    \E v \in Videos :
        \/ Make(v) \/ Keep(v) \/ Announce(v) \/ Work(v) \/ Finish(v)
        \/ Fail(v) \/ Delete(v) \/ Discard(v)

Spec == Init /\ [][Next]_<<row, kept, announced, finished>>

\* What the order is for: whoever takes an event finds the original, or need not begin
\* (the stat and the status check of consumer.py:482-493).
EventFindsOriginal == \A v \in announced : v \in kept \/ Over(v)

=============================================================================
