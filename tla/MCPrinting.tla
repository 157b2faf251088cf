----------------------------- MODULE MCPrinting -----------------------------
(***************************************************************************)
(* PrintJobs and PrinterLink for TLC, one of them in each behaviour: they  *)
(* share no state of B2M but the intent to be connected, which printing    *)
(* does not read.                                                          *)
(***************************************************************************)
EXTENDS PrintJobs

CONSTANTS j1, j2, j3, d1, p1, p2, Polls, User, MaxClicks, MaxDrops

VARIABLES
    part,   \* the component that runs
    desired, linked, recent, pc, wants, attempt, wish, clicks, drops

linkVars == <<desired, linked, recent, pc, wants, attempt, wish, clicks, drops>>

all == <<part, vars, linkVars>>

L == INSTANCE PrinterLink WITH connected <- linked

MCInit == part \in {"jobs", "link"} /\ Init /\ L!Init

MCNext ==
    /\ UNCHANGED part
    /\ \/ part = "jobs" /\ Next /\ UNCHANGED linkVars
       \/ part = "link" /\ L!Next /\ UNCHANGED vars

\* The fairness of each component, as it states it.
MCSpec ==
    /\ MCInit /\ [][MCNext]_all
    /\ WF_vars(part = "jobs" /\ Worker)
    /\ \A c \in Clients : WF_vars(part = "jobs" /\ Printing(c))
    /\ \A j \in Jobs : WF_vars(part = "jobs" /\ req[j] # "none" /\ Submission(j))
    /\ WF_linkVars(part = "link" /\ L!PeriodEnds)
    /\ WF_linkVars(part = "link" /\ L!Disconnect)
    /\ \A p \in Polls : WF_linkVars(part = "link" /\ L!Poll(p))
    /\ \A r \in Polls \cup {User} : WF_linkVars(part = "link" /\ L!Connecting(r))

-----------------------------------------------------------------------------
\* A connection the user wants comes back (_poll_status).
Reconnects == L!Reconnects
=============================================================================
