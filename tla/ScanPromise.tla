----------------------------- MODULE ScanPromise -----------------------------
(***************************************************************************)
(* What the scanner bridge and B2M promise together about a physical scan, *)
(* with no outbox, no network, no database and no pool: a scan that was    *)
(* taken is served once, by an effect or by an error the user sees, and it *)
(* is settled only when it has been served.                                *)
(***************************************************************************)
CONSTANT Scans

VARIABLES
    taken,      \* scans the bridge has accepted responsibility for
    outcome,    \* what became of each scan
    settled     \* scans nobody holds any longer

vars == <<taken, outcome, settled>>

Init ==
    /\ taken = {}
    /\ outcome = [d \in Scans |-> "none"]
    /\ settled = {}

Take(d) ==
    /\ d \notin taken
    /\ taken' = taken \cup {d}
    /\ UNCHANGED <<outcome, settled>>

\* The one step that serves the scan; its last holder may let go with it.
Serve(d) ==
    /\ d \in taken
    /\ outcome[d] = "none"
    /\ \E result \in {"effect", "error"} : outcome' = [outcome EXCEPT ![d] = result]
    /\ settled' = settled \/ settled' = settled \cup {d}
    /\ UNCHANGED taken

Settle(d) ==
    /\ d \in taken
    /\ outcome[d] # "none"
    /\ settled' = settled \cup {d}
    /\ UNCHANGED <<taken, outcome>>

Next == \E d \in Scans : Take(d) \/ Serve(d) \/ Settle(d)

Spec == Init /\ [][Next]_vars
=============================================================================
