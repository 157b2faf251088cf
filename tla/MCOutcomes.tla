----------------------------- MODULE MCOutcomes -----------------------------
(***************************************************************************)
(* RoutePools and ShoppingNotes for TLC: what becomes of the scan of a     *)
(* linked barcode, and of one that is not linked. One of them runs in each *)
(* behaviour: a scan goes one way or the other.                            *)
(***************************************************************************)
EXTENDS RoutePools, TLC

CONSTANTS
    r1, r2, q1, t1, t2, t3, t4, l1, l2, l3, c1, c2, n1, n2,
    Parts,  \* those of "pools" and "notes" that may run
    Codes, Requests, CodeOf, MaxAttempts, Edits, MaxEdits, Faults, MaxFaults

VARIABLES
    part,   \* the component that runs
    cached, noteId, link, queue, paused, shown, open, nextItem, recipes, phase,
    got, batch, item, posted, task, edits, faults, tries, made, retry

noteVars == <<cached, noteId, link, queue, paused, shown, open, nextItem, recipes,
              phase, got, batch, item, posted, task, edits, faults, tries, made,
              retry>>

all == <<part, vars, noteVars>>

N == INSTANCE ShoppingNotes

ASSUME NotesConstants == N!NotesAssumption

\* Two scans and an app scan; recipes with two lists and with one.
RecipeKids ==
    (r1 :> <<t1, t2>>) @@ (r2 :> <<t3>>) @@ (q1 :> <<t4>>)
    @@ (t1 :> <<l1, l2>>) @@ (t2 :> <<>>) @@ (t3 :> <<l3>>) @@ (t4 :> <<>>)
    @@ (l1 :> <<>>) @@ (l2 :> <<>>) @@ (l3 :> <<>>)

OneEach == [p \in Pools |-> 1]

\* Room to queue in the middle pool only: the other two refuse and block.
QueueOfOne == [p \in Pools |-> IF p = "target" THEN 1 ELSE 0]

\* Two requests scan the same barcode, or one barcode each.
OneCode == [r \in Requests |-> c1]

TwoCodes == (n1 :> c1) @@ (n2 :> c2)

\* One of the edits or one of the faults is left out.
NotesInit == IF part = "notes" THEN edits + faults = 1 ELSE edits + faults = 0

MCInit == part \in Parts /\ Init /\ N!Init /\ NotesInit

MCNext ==
    /\ UNCHANGED part
    /\ \/ part = "pools" /\ Next /\ UNCHANGED noteVars
       \/ part = "notes" /\ N!Next /\ UNCHANGED vars

\* The fairness of each component, as it states it.
MCFairness ==
    /\ \A j \in Jobs : WF_vars(part = "pools" /\ Step(j))
    /\ \A r \in Requests : WF_noteVars(part = "notes" /\ N!RequestGoesOn(r))
    /\ WF_noteVars(part = "notes" /\ N!JobStep)
    /\ WF_noteVars(part = "notes" /\ \E q \in queue : N!BackoffOver(q))
    /\ \A t \in N!Tasks : WF_noteVars(part = "notes" /\ N!TaskStep(t))
    /\ WF_noteVars(part = "notes" /\ N!Resume)

MCSpec == MCInit /\ [][MCNext]_all /\ MCFairness

-----------------------------------------------------------------------------
\* A stored retry is kept until it is delivered or visibly given up, if one
\* barcode is scanned, not deleted and not linked to a recipe (_process_retry_queue,
\* reconcile_linked_barcode).
NoneForgotten == N!NoneForgotten

\* No scan makes two entries while failed calls have no effect (enqueue_retry,
\* _process_retry_queue).
NoneTwice == N!NoneTwice

\* Every retry leaves the queue (_process_retry_queue).
EveryRetryEnds == N!EveryRetryEnds
=============================================================================
