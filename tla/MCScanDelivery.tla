--------------------------- MODULE MCScanDelivery ---------------------------
(* Instances of ScanDelivery for TLC.                                      *)
EXTENDS ScanDelivery, TLC

CONSTANTS c1, c2, c3, s1, s2

\* Connections and pool slots are interchangeable.
Symmetry == Permutations(Conns) \cup Permutations(Slots)

AllFaults == FaultKinds

\* Faults that delay a delivery without emptying the pool.
DelayingFaults == {"timeout", "loss", "db_error", "slow_handler"}

JustServerRestart == {"server_restart"}
=============================================================================
