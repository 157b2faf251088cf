----------------------------- MODULE RoutePools -----------------------------
(***************************************************************************)
(* The three bounded pools that a scan of a linked barcode goes through:   *)
(* its route in scan-route (app/routers/scan_fast_v11.py), one job per     *)
(* target in target-route, and one job per list of a recipe in             *)
(* target-subroute (app/services/multitarget.py), each behind the          *)
(* semaphore of app/services/bounded_executor.py. A route occupies its     *)
(* worker while it waits for room in the next pool and for the results.    *)
(*                                                                         *)
(* Which jobs a route submits is fixed by its targets, so it is a constant *)
(* here: Kids[j] lists the jobs that j submits, in order.                  *)
(***************************************************************************)
EXTENDS Integers, Sequences, FiniteSets

CONSTANTS
    Routes,     \* _route_known_targets jobs: one per scan by the bridge
    Inline,     \* route_targets on a request thread (app scans, auto-mapping)
    Targets,    \* _route_food and _route_recipe jobs
    Lists,      \* the jobs of a recipe: a shopping list or Home Assistant
    Kids,       \* the jobs that each job submits
    Unroutable, \* drivers with a target that fails without a job
    Workers,    \* max_workers of each pool
    Pending     \* max_pending of each pool

Drivers == Routes \cup Inline

Jobs == Drivers \cup Targets \cup Lists

Pools == {"scan", "target", "subtarget"}

KidsOf(j) == {Kids[j][i] : i \in 1..Len(Kids[j])}

ASSUME JobsAssumption ==
    /\ IsFiniteSet(Jobs)
    /\ Routes \cap Inline = {} /\ Drivers \cap Targets = {}
    /\ Drivers \cap Lists = {} /\ Targets \cap Lists = {}
    /\ Unroutable \subseteq Drivers

ASSUME KidsAssumption ==
    /\ Kids \in [Jobs -> Seq(Jobs)]
    /\ \A d \in Drivers : KidsOf(d) \subseteq Targets
    /\ \A t \in Targets : KidsOf(t) \subseteq Lists
    /\ \A l \in Lists : Kids[l] = <<>>
    \* every job is submitted in one place
    /\ \A j, k \in Jobs : \A m \in 1..Len(Kids[j]) : \A n \in 1..Len(Kids[k]) :
          Kids[j][m] = Kids[k][n] => j = k /\ m = n

ASSUME PoolsAssumption ==
    /\ Workers \in [Pools -> Nat \ {0}]
    /\ Pending \in [Pools -> Nat]

VARIABLES
    permits,    \* per pool: what is left of its BoundedSemaphore
    stage,      \* per job: how far it is
    sent,       \* per job: how many of its kids it has submitted
    outcome,    \* per job: how it ended
    closing     \* the interpreter shuts down; submit raises from now on

vars == <<permits, stage, sent, outcome, closing>>

Stages == {"new", "refused", "queued", "running", "done"}

Outcomes == {"none", "ok", "partial", "failed", "raised"}

Capacity(p) == Workers[p] + Pending[p]

\* Mutant: a recipe submits its lists to the pool it runs in itself.
PoolOfShared(j) == IF j \in Routes THEN "scan" ELSE "target"

\* The pool a job is submitted to; nothing ever queues a driver on a request
\* thread, so that its pool does not matter.
PoolOf(j) == IF j \in Lists THEN "subtarget"
             ELSE IF j \in Targets THEN "target" ELSE "scan"

InPool(p) == {j \in Jobs \ Inline : PoolOf(j) = p /\ stage[j] \in {"queued", "running"}}

Running(p) == {j \in Jobs \ Inline : PoolOf(j) = p /\ stage[j] = "running"}

TypeOK ==
    /\ permits \in [Pools -> Nat]
    /\ stage \in [Jobs -> Stages]
    /\ sent \in [Jobs -> Nat]
    /\ \A j \in Jobs : sent[j] <= Len(Kids[j])
    /\ outcome \in [Jobs -> Outcomes]
    /\ \A j \in Jobs : stage[j] = "done" <=> outcome[j] # "none"
    /\ closing \in BOOLEAN

Init ==
    /\ permits = [p \in Pools |-> Capacity(p)]
    /\ stage = [j \in Jobs |-> "new"]
    /\ sent = [j \in Jobs |-> 0]
    /\ outcome = [j \in Jobs |-> "none"]
    /\ closing = FALSE

-----------------------------------------------------------------------------
(* BoundedExecutor.                                                        *)

\* submit: a permit is taken, and the job is in the queue of the executor.
Submitted(j) ==
    /\ permits[PoolOf(j)] > 0
    /\ ~closing
    /\ permits' = [permits EXCEPT ![PoolOf(j)] = @ - 1]
    /\ stage' = [stage EXCEPT ![j] = "queued"]

\* Mutant: the permit of a job the executor did not take is not given back.
KeptBack(p) == [permits EXCEPT ![p] = @ - 1]

\* submit, when the executor raises: the permit is taken and given back.
GivenBack(p) == permits

\* A worker that is free takes a job. (The executor's queue is first in,
\* first out; nothing here depends on that.)
Start(j) ==
    /\ stage[j] = "queued"
    /\ Cardinality(Running(PoolOf(j))) < Workers[PoolOf(j)]
    /\ stage' = [stage EXCEPT ![j] = "running"]
    /\ UNCHANGED <<permits, sent, outcome, closing>>

\* The job returns or raises, and the callback of its future gives back its
\* permit; a driver on a request thread has none.
Ends(j, left, result) ==
    /\ stage[j] = "running"
    /\ stage' = [stage EXCEPT ![j] = "done"]
    /\ outcome' = [outcome EXCEPT ![j] = result]
    /\ permits' = IF j \in Inline THEN left ELSE [left EXCEPT ![PoolOf(j)] = @ + 1]
    /\ UNCHANGED <<sent, closing>>

-----------------------------------------------------------------------------
(* fast_scan_barcode and the request threads.                              *)

\* The route of a scan is admitted ...
Admit(j) ==
    /\ j \in Routes
    /\ stage[j] = "new"
    /\ Submitted(j)
    /\ UNCHANGED <<sent, outcome, closing>>

\* ... or not: ExecutorSaturated without waiting, or the executor raises.
Refuse(j) ==
    /\ j \in Routes
    /\ stage[j] = "new"
    /\ \/ permits["scan"] = 0 /\ UNCHANGED permits
       \/ permits["scan"] > 0 /\ closing /\ permits' = GivenBack("scan")
    /\ stage' = [stage EXCEPT ![j] = "refused"]
    /\ UNCHANGED <<sent, outcome, closing>>

\* _process_scan calls _process_targets on the request thread.
RunInline(j) ==
    /\ j \in Inline
    /\ stage[j] = "new"
    /\ stage' = [stage EXCEPT ![j] = "running"]
    /\ UNCHANGED <<permits, sent, outcome, closing>>

-----------------------------------------------------------------------------
(* route_targets and _route_recipe submit their jobs, then wait.           *)

Submitting(j) == stage[j] = "running" /\ sent[j] < Len(Kids[j])

Waiting(j) == stage[j] = "running" /\ sent[j] = Len(Kids[j])

NextKid(j) == Kids[j][sent[j] + 1]

\* submit(..., block=True) waits for a permit.
Submit(j) ==
    /\ Submitting(j)
    /\ Submitted(NextKid(j))
    /\ sent' = [sent EXCEPT ![j] = @ + 1]
    /\ UNCHANGED <<outcome, closing>>

\* submit raises, and so does j; kids already submitted go on unheard.
SubmitFails(j) ==
    /\ Submitting(j)
    /\ permits[PoolOf(NextKid(j))] > 0
    /\ closing
    /\ Ends(j, GivenBack(PoolOf(NextKid(j))), "raised")

\* _route_food, add_recipe_to_list, notify_shopping_route: they add, report
\* a failure, or raise. A recipe without a list to add it to fails.
Work(j) ==
    /\ j \in Targets \cup Lists
    /\ Waiting(j)
    /\ Kids[j] = <<>>
    /\ \E result \in {"ok", "failed", "raised"} : Ends(j, permits, result)

AllEnded(j) == \A k \in KidsOf(j) : stage[k] = "done"

\* _route_recipe: the results are awaited in order, the first exception is
\* raised at once; otherwise every list has to have succeeded.
JoinRecipe(j) ==
    /\ j \in Targets
    /\ Waiting(j)
    /\ Kids[j] # <<>>
    /\ \/ \E i \in 1..Len(Kids[j]) :
            /\ \A h \in 1..(i - 1) : outcome[Kids[j][h]] \in {"ok", "failed"}
            /\ outcome[Kids[j][i]] = "raised"
            /\ Ends(j, permits, "raised")
       \/ /\ AllEnded(j)
          /\ \A k \in KidsOf(j) : outcome[k] # "raised"
          /\ Ends(j, permits,
                  IF \A k \in KidsOf(j) : outcome[k] = "ok" THEN "ok" ELSE "failed")

\* Mutant: one success is enough.
RoutedAny(d) ==
    IF \E k \in KidsOf(d) : outcome[k] = "ok" THEN "ok" ELSE "failed"

\* route_targets: "added" only if nothing failed, "partial" if something did
\* not. A target whose route raised counts as failed.
Routed(d) ==
    LET good == {k \in KidsOf(d) : outcome[k] = "ok"}
    IN  IF good = KidsOf(d) /\ d \notin Unroutable /\ good # {} THEN "ok"
        ELSE IF good # {} THEN "partial" ELSE "failed"

\* Mutant: an exception in the future of a target is not expected.
JoinTargetsUnlessRaised(d) ==
    /\ d \in Drivers
    /\ Waiting(d)
    /\ AllEnded(d)
    /\ \A k \in KidsOf(d) : outcome[k] # "raised"
    /\ Ends(d, permits, Routed(d))

\* route_targets waits for all its jobs, whatever they do.
JoinTargets(d) ==
    /\ d \in Drivers
    /\ Waiting(d)
    /\ AllEnded(d)
    /\ Ends(d, permits, Routed(d))

\* The process is told to stop: _python_exit of concurrent.futures.
Close ==
    /\ ~closing
    /\ closing' = TRUE
    /\ UNCHANGED <<permits, stage, sent, outcome>>

-----------------------------------------------------------------------------
Step(j) ==
    \/ Start(j) \/ Submit(j) \/ SubmitFails(j)
    \/ Work(j) \/ JoinRecipe(j) \/ JoinTargets(j)

Next ==
    \/ \E j \in Jobs : Admit(j) \/ Refuse(j) \/ RunInline(j) \/ Step(j)
    \/ Close

Spec == Init /\ [][Next]_vars

\* Worker threads and request threads are scheduled, a waiting acquire gets
\* its permit, and every HTTP call of a job returns (it has a time-out).
Fairness == \A j \in Jobs : WF_vars(Step(j))

FairSpec == Spec /\ Fairness

-----------------------------------------------------------------------------
(* What the pools have to achieve.                                         *)

InFlight == {j \in Jobs : stage[j] \in {"queued", "running"}}

\* The semaphore counts: what is taken from it is what is queued or running,
\* whichever way jobs and submissions end, so that capacity neither leaks nor
\* grows.
PermitsConserved ==
    \A p \in Pools : permits[p] + Cardinality(InPool(p)) = Capacity(p)

\* What a job needs to go on, from the guards of its actions.
CanStart(j) ==
    stage[j] = "queued" /\ Cardinality(Running(PoolOf(j))) < Workers[PoolOf(j)]

CanSubmit(j) == Submitting(j) /\ permits[PoolOf(NextKid(j))] > 0

CanEnd(j) == Waiting(j) /\ AllEnded(j)

\* The routes never wait for each other in a circle: while anything is queued
\* or running, some job can go on, although jobs hold a worker of one pool
\* while they wait for room in the next one (block=True).
NoCircularWait ==
    InFlight # {} => \E j \in InFlight : CanStart(j) \/ CanSubmit(j) \/ CanEnd(j)

\* "Added to destinations" is said of a scan only if every job of every one
\* of its targets was submitted, has ended and succeeded.
AddedMeansAll ==
    \A d \in Drivers : outcome[d] = "ok" =>
        /\ d \notin Unroutable
        /\ \A t \in KidsOf(d) :
             /\ outcome[t] = "ok"
             /\ \A l \in KidsOf(t) : outcome[l] = "ok"

\* Every scan that was admitted, and every scan on a request thread, gets its
\* result, even when the process is being stopped.
EveryRouteEnds == \A d \in Drivers : stage[d] \in {"queued", "running"} ~> stage[d] = "done"
=============================================================================
