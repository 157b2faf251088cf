----------------------------- MODULE ActionRuns -----------------------------
(***************************************************************************)
(* Executions of barcode actions (app/services/actions.py): a scan, the    *)
(* dashboard or a test reserves an execution row, calls the action's       *)
(* webhook with retries, and stores the result together with the action's  *)
(* all-time statistics (app/services/action_stats.py), which a start-up    *)
(* job builds from the rows of older versions and which must survive the   *)
(* purge of old rows.                                                      *)
(*                                                                         *)
(* Executions run on request and background threads, one commit at a time. *)
(***************************************************************************)
EXTENDS Integers, FiniteSets, FiniteSetsExt

CONSTANTS
    Actions,
    Runs,       \* calls of execute_action
    ActionOf,   \* the action each calls
    Forced,     \* the runs started by the test button (force=True)
    PolicyOf,   \* action.retry_policy
    Retries,    \* action.retries
    Cooldown,   \* action.cooldown_seconds
    OldRows,    \* rows an older version has left: [id, action, status, at, by]
    BatchSize,  \* _BATCH_SIZE of the backfill
    Retention,  \* age after which rows are purged
    MaxTime,    \* bound of the clock
    MaxEdits,   \* bound: edits of actions by the user
    MaxFaults   \* bound: failures of the database and crashes

Policies == {"never", "network", "5xx", "network_5xx", "always"}

\* "old": a run of an older version, whose row is in OldRows.
Old == "old"

Statuses == {"running", "success", "failed", "ignored_cooldown", "disabled"}

Row == [id : Nat \ {0}, action : Actions, status : Statuses, at : Nat,
        by : Runs \cup {Old}]

ASSUME RunsAssumption ==
    /\ ActionOf \in [Runs -> Actions]
    /\ Forced \subseteq Runs
    /\ PolicyOf \in [Actions -> Policies]
    /\ Retries \in Nat /\ Cooldown \in Nat /\ Retention \in Nat
    /\ BatchSize \in Nat \ {0}
    /\ MaxTime \in Nat /\ MaxEdits \in Nat /\ MaxFaults \in Nat
    /\ OldRows \subseteq Row /\ IsFiniteSet(OldRows)
    /\ \A p, q \in OldRows : p.id = q.id => p = q
    /\ Old \notin Runs
    /\ \A q \in OldRows : q.by = Old /\ q.at <= MaxTime

VARIABLES
    \* the database
    exists,    \* actions
    enabled,   \* the enabled ones
    rows,      \* action_executions
    stat,      \* action_aggregates, per action
    complete,  \* the backfill's mark in system_state
    \* B2M
    phase,     \* "clear", "fill": start-up; "up": serving
    filled,    \* the rows the backfill has added
    pc,        \* per run: its next step
    rowId,     \* per run: the row it has reserved
    attempt,   \* per run: calls made
    status,    \* per run: last_status, "none" before a first answer
    failure,   \* per run: how the last call failed
    now, edits, faults,
    \* history
    ends,      \* results that were stored: [action, status, at, id]
    saw,       \* per run: the runs with a row when it looked for one
    storedAt,  \* per run: when its reservation was committed, -1 before
    retried,   \* per run: the failures it has tried again after
    swapped    \* a run has stored its result in the row of another one

dbVars == <<exists, enabled, rows, stat, complete>>
runVars == <<pc, rowId, attempt, status, failure>>
historyVars == <<ends, saw, storedAt, retried, swapped>>
vars == <<dbVars, phase, filled, runVars, now, edits, faults, historyVars>>

NoStat == [total |-> 0, success |-> 0, failed |-> 0, ignored |-> 0,
           last |-> "none", lastAt |-> -1]

Stat == [total : Nat, success : Nat, failed : Nat, ignored : Nat,
         last : Statuses \cup {"none"}, lastAt : Nat \cup {-1}]

Steps == {"idle", "disabled", "ignore", "error", "reserve", "send", "decide", "success",
          "failed", "done", "gone"}

Failures == {"4xx", "5xx", "network"}

End == [action : Actions, status : Statuses \ {"running"}, at : Nat, id : Nat,
        by : Runs \cup {Old}]

TypeOK ==
    /\ exists \subseteq Actions /\ enabled \subseteq exists
    /\ rows \subseteq Row
    /\ \A p, q \in rows : p.id = q.id => p = q
    /\ stat \in [Actions -> Stat]
    /\ complete \in BOOLEAN
    /\ phase \in {"clear", "fill", "up"}
    /\ filled \subseteq rows
    /\ phase # "fill" => filled = {}
    /\ pc \in [Runs -> Steps]
    /\ phase # "up" => \A e \in Runs : pc[e] \in {"idle", "done", "gone"}
    /\ rowId \in [Runs -> Nat]
    /\ attempt \in [Runs -> 0..(Retries + 1)]
    /\ status \in [Runs -> {"none", "ok", "4xx", "5xx"}]
    /\ failure \in [Runs -> Failures \cup {"none"}]
    /\ now \in 0..MaxTime /\ edits \in 0..MaxEdits /\ faults \in 0..MaxFaults
    /\ ends \subseteq End
    /\ saw \in [Runs -> SUBSET (Runs \cup {Old})]
    /\ storedAt \in [Runs -> Nat \cup {-1}]
    /\ retried \in [Runs -> SUBSET Failures]
    /\ swapped \in BOOLEAN

EndOf(q) == [action |-> q.action, status |-> q.status, at |-> q.at, id |-> q.id,
             by |-> q.by]

Init ==
    /\ exists = Actions /\ enabled = Actions
    /\ rows = OldRows
    /\ stat = [a \in Actions |-> NoStat]
    /\ complete = FALSE
    /\ phase = "clear" /\ filled = {}
    /\ pc = [e \in Runs |-> "idle"] /\ rowId = [e \in Runs |-> 0]
    /\ attempt = [e \in Runs |-> 0] /\ status = [e \in Runs |-> "none"]
    /\ failure = [e \in Runs |-> "none"]
    /\ now = IF OldRows = {} THEN 0 ELSE Max({q.at : q \in OldRows})
    /\ edits = 0 /\ faults = 0
    /\ ends = {EndOf(q) : q \in {p \in OldRows : p.status # "running"}}
    /\ saw = [e \in Runs |-> {}] /\ storedAt = [e \in Runs |-> -1]
    /\ retried = [e \in Runs |-> {}]
    /\ swapped = FALSE

-----------------------------------------------------------------------------
(* action_aggregates.                                                      *)

One(yes) == IF yes THEN 1 ELSE 0

\* _UPSERT: one more terminal result; a result of an older run, stored late,
\* does not become the last one.
Upserted(s, result, at) ==
    [total |-> s.total + 1,
     success |-> s.success + One(result = "success"),
     failed |-> s.failed + One(result = "failed"),
     ignored |-> s.ignored + One(result = "ignored_cooldown"),
     last |-> IF at >= s.lastAt THEN result ELSE s.last,
     lastAt |-> IF at >= s.lastAt THEN at ELSE s.lastAt]

Recorded(a, result, at) == [stat EXCEPT ![a] = Upserted(@, result, at)]

NewId == 1 + (IF rows = {} THEN 0 ELSE Max({q.id : q \in rows}))

-----------------------------------------------------------------------------
(* execute_action.                                                         *)

Goes(e, step) == pc' = [pc EXCEPT ![e] = step]

\* Mutant: only finished executions count.
CoolingDownAfterEnd(a) ==
    LET tried == {q \in rows : q.action = a /\ q.status \in {"success", "failed"}} IN
    tried # {} /\ now < Max({q.at : q \in tried}) + Cooldown

\* The latest execution, ignored ones aside, is within the cooldown.
CoolingDown(a) ==
    LET tried == {q \in rows : q.action = a /\ q.status # "ignored_cooldown"} IN
    tried # {} /\ now < Max({q.at : q \in tried}) + Cooldown

\* The action is found, and the cooldown is checked.
Look(e) ==
    LET a == ActionOf[e] IN
    /\ phase = "up"
    /\ pc[e] = "idle"
    /\ Goes(e, IF a \notin exists THEN "done"
               ELSE IF a \notin enabled /\ e \notin Forced THEN "disabled"
               ELSE IF e \notin Forced /\ Cooldown > 0 /\ CoolingDown(a) THEN "ignore"
               ELSE "reserve")
    /\ saw' = [saw EXCEPT ![e] = {q.by : q \in rows}]
    /\ UNCHANGED <<dbVars, phase, filled, rowId, attempt, status, failure, now,
                   edits, faults, ends, storedAt, retried, swapped>>

\* The database fails the queries: the exception handler, which looks again,
\* stores "failed" for an action it finds.
LookFails(e) ==
    /\ phase = "up"
    /\ pc[e] = "idle"
    /\ faults < MaxFaults /\ faults' = faults + 1
    /\ Goes(e, "done") \/ (ActionOf[e] \in exists /\ Goes(e, "error"))
    /\ UNCHANGED <<dbVars, phase, filled, rowId, attempt, status, failure, now,
                   edits, historyVars>>

\* _create_terminal.
StoreTerminal(e) ==
    LET a == ActionOf[e]
        result == CASE pc[e] = "ignore" -> "ignored_cooldown"
                    [] pc[e] = "disabled" -> "disabled"
                    [] pc[e] = "error" -> "failed"
        row == [id |-> NewId, action |-> a, status |-> result, at |-> now, by |-> e]
    IN
    /\ pc[e] \in {"ignore", "disabled", "error"}
    /\ rows' = rows \cup {row}
    /\ stat' = Recorded(a, result, now)
    /\ ends' = ends \cup {EndOf(row)}
    /\ Goes(e, "done")
    /\ UNCHANGED <<exists, enabled, complete, phase, filled, rowId, attempt, status,
                   failure, now, edits, faults, saw, storedAt, retried,
                   swapped>>

\* The execution is reserved as "running" before any network I/O.
Reserve(e) ==
    /\ pc[e] = "reserve"
    /\ rows' = rows \cup {[id |-> NewId, action |-> ActionOf[e], status |-> "running",
                           at |-> now, by |-> e]}
    /\ rowId' = [rowId EXCEPT ![e] = NewId]
    /\ storedAt' = [storedAt EXCEPT ![e] = now]
    /\ Goes(e, "send")
    /\ UNCHANGED <<exists, enabled, stat, complete, phase, filled, attempt, status,
                   failure, now, edits, faults, ends, saw, retried, swapped>>

\* One call of the webhook; a network error leaves last_status as it was, and a
\* request that cannot be made (a bad URL) ends the run.
Send(e) ==
    /\ pc[e] = "send"
    /\ attempt' = [attempt EXCEPT ![e] = @ + 1]
    /\ \/ Goes(e, "success") /\ status' = [status EXCEPT ![e] = "ok"]
          /\ UNCHANGED failure
       \/ \E answer \in {"4xx", "5xx"} :
            /\ Goes(e, "decide")
            /\ status' = [status EXCEPT ![e] = answer]
            /\ failure' = [failure EXCEPT ![e] = answer]
       \/ /\ Goes(e, "decide")
          /\ failure' = [failure EXCEPT ![e] = "network"]
          /\ UNCHANGED status
       \/ Goes(e, "failed") /\ UNCHANGED <<status, failure>>
    /\ UNCHANGED <<dbVars, phase, filled, rowId, now, edits, faults, historyVars>>

\* _retryable(policy, network_error, last_status).
Retryable(policy, network, last) ==
    \/ policy = "network" /\ network
    \/ policy = "5xx" /\ last = "5xx"
    \/ policy = "network_5xx" /\ (network \/ last = "5xx")
    \/ policy = "always" /\ (network \/ last \in {"4xx", "5xx"})

\* The next attempt, or the end.
Decide(e) ==
    LET again == /\ attempt[e] < Retries + 1
                 /\ Retryable(PolicyOf[ActionOf[e]], failure[e] = "network", status[e])
    IN
    /\ pc[e] = "decide"
    /\ Goes(e, IF again THEN "send" ELSE "failed")
    /\ retried' = [retried EXCEPT ![e] = IF again THEN @ \cup {failure[e]} ELSE @]
    /\ UNCHANGED <<dbVars, phase, filled, rowId, attempt, status, failure, now,
                   edits, faults, ends, saw, storedAt, swapped>>

Reserved(e) == {q \in rows : q.id = rowId[e]}

\* Mutant: a run whose row is gone waits for it.
FinishThere(e) ==
    /\ pc[e] \in {"success", "failed"}
    /\ \E q \in Reserved(e) :
         /\ Goes(e, "done")
         /\ rows' = (rows \ {q}) \cup {[q EXCEPT !.status = pc[e]]}
         /\ stat' = Recorded(ActionOf[e], pc[e], storedAt[e])
         /\ ends' = ends \cup {[action |-> ActionOf[e], status |-> pc[e],
                                at |-> storedAt[e], id |-> q.id, by |-> e]}
         /\ swapped' = (swapped \/ q.by # e)
    /\ UNCHANGED <<exists, enabled, complete, phase, filled, rowId, attempt, status,
                   failure, now, edits, faults, saw, storedAt, retried>>

\* _finish: row and statistics in one commit. When the row is gone, the commit
\* fails with StaleDataError and nothing is stored.
Finish(e) ==
    /\ pc[e] \in {"success", "failed"}
    /\ Goes(e, "done")
    /\ \/ /\ Reserved(e) # {}
          /\ \E q \in Reserved(e) :
               /\ rows' = (rows \ {q}) \cup {[q EXCEPT !.status = pc[e]]}
               /\ stat' = Recorded(ActionOf[e], pc[e], storedAt[e])
               /\ ends' = ends \cup {[action |-> ActionOf[e], status |-> pc[e],
                                      at |-> storedAt[e], id |-> q.id, by |-> e]}
               /\ swapped' = (swapped \/ q.by # e)
       \/ Reserved(e) = {} /\ UNCHANGED <<rows, stat, ends, swapped>>
    /\ UNCHANGED <<exists, enabled, complete, phase, filled, rowId, attempt, status,
                   failure, now, edits, faults, saw, storedAt, retried>>

\* The database is busy when a row is stored. After a flush or a commit that
\* failed, the session takes no statement before a rollback: the exception
\* handler raises as well, and nothing is stored, so a row that was reserved stays
\* "running". Only when the statistics were refused does the handler store the
\* row, as "failed".
StoreBusy(e) ==
    /\ pc[e] \in {"ignore", "disabled", "error", "reserve", "success", "failed"}
    /\ faults < MaxFaults /\ faults' = faults + 1
    /\ Goes(e, "done") \/ (pc[e] = "success" /\ Goes(e, "failed"))
    /\ UNCHANGED <<dbVars, phase, filled, rowId, attempt, status, failure, now,
                   edits, historyVars>>

-----------------------------------------------------------------------------
(* Start-up and purge.                                                     *)

\* Mutant: it goes on from what an earlier attempt has left.
BackfillGoesOn ==
    /\ phase = "clear"
    /\ phase' = IF complete THEN "up" ELSE "fill"
    /\ UNCHANGED <<dbVars, filled, runVars, now, edits, faults, historyVars>>

\* ensure_action_stats_backfilled starts from nothing unless it is complete.
BackfillStarts ==
    /\ phase = "clear"
    /\ phase' = IF complete THEN "up" ELSE "fill"
    /\ stat' = IF complete THEN stat ELSE [a \in Actions |-> NoStat]
    /\ UNCHANGED <<exists, enabled, rows, complete, filled, runVars, now, edits,
                   faults, historyVars>>

Unfilled == {q \in rows \ filled : q.status # "running"}

\* The next rows by id; one commit per batch.
NextBatch ==
    {q \in Unfilled : Cardinality({p \in Unfilled : p.id < q.id}) < BatchSize}

LastRow(S) == CHOOSE q \in S : \A p \in S : p.id <= q.id

\* The statistics of an action after the rows of a batch, in the order of ids.
Filled(s, batch) ==
    LET f[S \in SUBSET batch] ==
          IF S = {} THEN s
          ELSE Upserted(f[S \ {LastRow(S)}], LastRow(S).status, LastRow(S).at)
    IN f[batch]

BackfillBatch ==
    /\ phase = "fill"
    /\ NextBatch # {}
    /\ stat' = [a \in Actions |->
                  Filled(stat[a], {q \in NextBatch : q.action = a})]
    /\ filled' = filled \cup NextBatch
    /\ UNCHANGED <<exists, enabled, rows, complete, phase, runVars, now, edits,
                   faults, historyVars>>

BackfillEnds ==
    /\ phase = "fill"
    /\ Unfilled = {}
    /\ complete' = TRUE
    /\ phase' = "up" /\ filled' = {}
    /\ UNCHANGED <<exists, enabled, rows, stat, runVars, now, edits, faults,
                   historyVars>>

\* An exception ends the backfill; start_scheduler logs it and goes on.
BackfillFails ==
    /\ phase = "fill"
    /\ faults < MaxFaults /\ faults' = faults + 1
    /\ phase' = "up" /\ filled' = {}
    /\ UNCHANGED <<dbVars, runVars, now, edits, historyVars>>

\* Assumed: no execution lasts as long as rows are kept.
InUse(q) == \E e \in Runs : pc[e] \in {"send", "decide", "success", "failed"}
                            /\ rowId[e] = q.id

PurgeAllowed == complete

\* purge_action_executions. Its batches, each looked up and then deleted by id,
\* are one step: a row that is deleted in between is gone either way. That its
\* id is given again in between is left out here (PurgesOldOnly of ScanStats).
Purge ==
    LET old == {q \in rows : q.at + Retention < now /\ ~InUse(q)} IN
    /\ phase = "up"
    /\ PurgeAllowed
    /\ old # {}
    /\ rows' = rows \ old
    /\ UNCHANGED <<exists, enabled, stat, complete, phase, filled, runVars, now,
                   edits, faults, historyVars>>

\* B2M dies and starts again; "running" rows stay as they are.
Crash ==
    /\ faults < MaxFaults /\ faults' = faults + 1
    /\ phase' = "clear" /\ filled' = {}
    /\ pc' = [e \in Runs |-> IF pc[e] \in {"idle", "done"} THEN pc[e] ELSE "gone"]
    /\ UNCHANGED <<dbVars, rowId, attempt, status, failure, now, edits, historyVars>>

-----------------------------------------------------------------------------
(* The user, and time.                                                     *)

Edit == phase = "up" /\ edits < MaxEdits /\ edits' = edits + 1

Toggle(a) ==
    /\ Edit
    /\ a \in exists
    /\ enabled' = IF a \in enabled THEN enabled \ {a} ELSE enabled \cup {a}
    /\ UNCHANGED <<exists, rows, stat, complete, phase, filled, runVars, now,
                   faults, historyVars>>

\* action_delete: with its executions and statistics.
Delete(a) ==
    /\ Edit
    /\ a \in exists
    /\ exists' = exists \ {a} /\ enabled' = enabled \ {a}
    /\ rows' = {q \in rows : q.action # a}
    /\ stat' = [stat EXCEPT ![a] = NoStat]
    /\ ends' = {x \in ends : x.action # a}
    /\ UNCHANGED <<complete, phase, filled, runVars, now, faults, saw, storedAt,
                   retried, swapped>>

\* action_create with the id of a deleted action.
Create(a) ==
    /\ Edit
    /\ a \notin exists
    /\ exists' = exists \cup {a} /\ enabled' = enabled \cup {a}
    /\ UNCHANGED <<rows, stat, complete, phase, filled, runVars, now, faults,
                   historyVars>>

Tick ==
    /\ now < MaxTime
    /\ now' = now + 1
    /\ UNCHANGED <<dbVars, phase, filled, runVars, edits, faults, historyVars>>

-----------------------------------------------------------------------------
RunGoesOn(e) ==
    StoreTerminal(e) \/ Reserve(e) \/ Send(e) \/ Decide(e) \/ Finish(e)

StartUp == BackfillStarts \/ BackfillBatch \/ BackfillEnds

Next ==
    \/ \E e \in Runs : Look(e) \/ LookFails(e) \/ RunGoesOn(e) \/ StoreBusy(e)
    \/ StartUp \/ BackfillFails \/ Purge \/ Crash
    \/ \E a \in Actions : Toggle(a) \/ Delete(a) \/ Create(a)
    \/ Tick

Spec == Init /\ [][Next]_vars

\* Threads run on, and every webhook call has its time-outs.
Fairness == WF_vars(StartUp) /\ \A e \in Runs : WF_vars(RunGoesOn(e))

FairSpec == Spec /\ Fairness

-----------------------------------------------------------------------------
(* Properties.                                                             *)

Ends(a) == {x \in ends : x.action = a}

Latest(a) == {x \in Ends(a) : \A y \in Ends(a) : y.at <= x.at}

\* Once the backfill is complete, an action's statistics are those of all the
\* results ever stored for it, each counted once, whatever crashed, failed half
\* way, was purged since or was stored out of order; the last status is one of a
\* run that started last (record_action_result, ensure_action_stats_backfilled,
\* purge_action_executions). Not so once a run has stored its result in a row
\* that got the id of its own one, deleted with the action.
StatsAreExact ==
    complete /\ ~swapped =>
        \A a \in Actions :
            /\ stat[a].total = Cardinality(Ends(a))
            /\ \A s \in {"success", "failed"} :
                 stat[a][s] = Cardinality({x \in Ends(a) : x.status = s})
            /\ stat[a].ignored =
                 Cardinality({x \in Ends(a) : x.status = "ignored_cooldown"})
            /\ Ends(a) # {} =>
                 \E x \in Latest(a) : stat[a].last = x.status /\ stat[a].lastAt = x.at

\* The failures after which the policy promises another attempt.
Allowed(policy) ==
    CASE policy = "never" -> {}
      [] policy = "network" -> {"network"}
      [] policy = "5xx" -> {"5xx"}
      [] policy = "network_5xx" -> {"network", "5xx"}
      [] policy = "always" -> Failures

\* A call is repeated only after a failure the action's policy names
\* (_retryable and the loop of execute_action).
PolicyKept == \A e \in Runs : retried[e] \subseteq Allowed(PolicyOf[ActionOf[e]])

Called(e) == storedAt[e] >= 0

\* A run that looks after another one has reserved its execution keeps the
\* cooldown, also while that one is still running, after it has failed or after
\* it was left behind by a crash (execute_action).
SpacedOut ==
    \A d, e \in Runs :
        /\ ActionOf[d] = ActionOf[e] /\ e \notin Forced
        /\ Called(d) /\ Called(e) /\ d \in saw[e]
        => storedAt[e] >= storedAt[d] + Cooldown

\* How often and when the webhooks are called (execute_action).
CallsCorrect == TypeOK /\ PolicyKept /\ SpacedOut

\* actions.py:149-150: "Reserve the execution before doing network I/O. This makes
\* async duplicate scans safe: a second background job sees this 'running' row
\* immediately." Not kept (README, Divergences).
OnePerCooldown ==
    \A d, e \in Runs :
        /\ d # e /\ ActionOf[d] = ActionOf[e]
        /\ Called(d) /\ Called(e)
        => storedAt[e] >= storedAt[d] + Cooldown \/ storedAt[d] >= storedAt[e] + Cooldown

\* Every run returns, unless the process dies under it.
EveryRunReturns ==
    \A e \in Runs : pc[e] # "idle" ~> pc[e] \in {"done", "gone"}
=============================================================================
