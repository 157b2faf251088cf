---------------------------- MODULE MCActionRuns ----------------------------
(* Instances of ActionRuns for TLC.                                        *)
EXTENDS ActionRuns, TLC

CONSTANTS a1, e1, e2

OneAction == [e \in Runs |-> a1]

NetworkOr5xx == [a \in Actions |-> "network_5xx"]

\* Three results and the row of a run that a crash has cut off.
OldResults ==
    {[id |-> 1, action |-> a1, status |-> "success", at |-> 0, by |-> Old],
     [id |-> 2, action |-> a1, status |-> "failed", at |-> 0, by |-> Old],
     [id |-> 3, action |-> a1, status |-> "running", at |-> 1, by |-> Old],
     [id |-> 4, action |-> a1, status |-> "ignored_cooldown", at |-> 1, by |-> Old]}
=============================================================================
