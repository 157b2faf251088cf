---------------------------- MODULE ShoppingNotes ----------------------------
(***************************************************************************)
(* Scans of barcodes that are not linked yet: each puts a note on the      *)
(* Mealie shopping list or, when Mealie does not take it, a row in the     *)
(* retry queue (app/routers/scan.py, app/services/mealie.py). A scheduled  *)
(* job works off the queue (app/services/scheduler.py) unless additions    *)
(* are paused (app/pause.py). When the user links the barcode, a           *)
(* background task replaces its note and its retry by the new target       *)
(* (reconcile_linked_barcode), while requests and the job go on.           *)
(*                                                                         *)
(* Each session reads its rows once and keeps them (expire_on_commit is    *)
(* off), and SQLite gives a new row the highest id in use plus one.        *)
(***************************************************************************)
EXTENDS Integers

CONSTANTS
    Codes,        \* barcodes
    Requests,     \* scan requests, one scan each
    CodeOf,       \* the barcode each request scans
    MaxAttempts,  \* settings.max_retry_attempts
    Edits,        \* the kinds of edits the user makes in this instance
    MaxEdits,     \* bound: edits in one behaviour
    Faults,       \* the kinds of fault in this instance
    MaxFaults     \* bound: faults in one behaviour

EditKinds == {"food", "recipe", "unlink", "delete", "pause", "buy"}

FaultKinds ==
    {"refused",    \* a call to Mealie fails and has no effect
     "ambiguous",  \* a POST takes effect but its answer is lost or an error
     "no_id",      \* a POST succeeds but its answer names no created item
     "crash"}      \* the B2M process dies and is started again

\* What MCOutcomes assumes of the constants.
NotesAssumption ==
    /\ Codes # {} /\ CodeOf \in [Requests -> Codes]
    /\ MaxAttempts \in Nat \ {0}
    /\ MaxEdits \in Nat /\ MaxFaults \in Nat
    /\ Edits \subseteq EditKinds /\ Faults \subseteq FaultKinds

NoItem == 0

\* One reconcile_linked_barcode task per edit that links a barcode.
Tasks == 1..MaxEdits

VARIABLES
    \* the database
    cached,    \* barcodes with a barcode_cache row
    noteId,    \* per barcode: cached.shopping_item_id
    link,      \* per barcode: its primary target
    queue,     \* rows of retry_queue
    paused,    \* is_paused
    shown,     \* barcodes with a "retry_failed" notification
    \* Mealie
    open,      \* open entries of the shopping list made for a barcode
    nextItem,  \* the id of the next entry
    recipes,   \* barcodes whose recipe a reconciliation added
    \* B2M
    phase,     \* per request: how far it is
    got,       \* per request: the id of the entry it made
    batch,     \* the rows the job has loaded and not worked off
    item,      \* the row it is working on, none if {}
    posted,    \* what became of its POST
    task,      \* per reconciliation: how far it is and what it has read
    edits, faults,
    \* history
    tries,     \* per request: failed POSTs of its retry
    made,      \* per request: entries made for its barcode (2: at least)
    retry      \* per request: what became of its retry

dbVars == <<cached, noteId, link, queue, paused, shown>>
mealieVars == <<open, nextItem, recipes>>
requestVars == <<phase, got>>
jobVars == <<batch, item, posted>>
historyVars == <<tries, made, retry>>
vars == <<dbVars, mealieVars, requestVars, jobVars, task, edits, faults, historyVars>>

Phases == {"new", "post", "store", "enqueue", "insert",
           "noted", "queued", "elsewhere", "failed"}

Kinds == {"note", "food"}

\* A row of retry_queue; "by" is the request that made it.
Row == [id : Nat, code : Codes, kind : Kinds, for : Codes, attempts : Nat,
        wait : Nat, by : Requests]

Entry == [id : Nat, code : Codes, kind : Kinds]

\* "owed": a row was inserted for the request, and neither of the rest yet.
Fates == {"none", "owed", "given_up", "replaced", "deleted"}

\* A reconciliation: its next step, the primary target it found, the note and
\* the rows it has read, and whether it will add the recipe.
TaskState == [step : {"none", "read", "rewrite", "drop", "get", "put", "delete",
                      "forget", "add"},
              code : Codes, kind : {"none", "food", "recipe"}, id : Nat,
              rows : SUBSET Row, add : BOOLEAN]

NoTask == [step |-> "none", code |-> CHOOSE c \in Codes : TRUE, kind |-> "none",
           id |-> NoItem, rows |-> {}, add |-> FALSE]

TypeOK ==
    /\ cached \subseteq Codes
    /\ noteId \in [Codes -> Nat]
    /\ link \in [Codes -> {"none", "food", "recipe"}]
    /\ queue \subseteq Row
    /\ \A p, q \in queue : p.id = q.id => p = q
    /\ paused \in BOOLEAN
    /\ shown \subseteq Codes /\ recipes \subseteq Codes
    /\ open \subseteq Entry
    /\ \A e \in open : e.id < nextItem
    /\ phase \in [Requests -> Phases]
    /\ got \in [Requests -> Nat]
    /\ batch \subseteq Row /\ item \subseteq batch /\ \A p, q \in item : p = q
    /\ posted \in {"none", "ok", "failed"}
    /\ posted = "none" <=> item = {}
    /\ task \in [Tasks -> TaskState]
    /\ edits \in 0..MaxEdits /\ faults \in 0..MaxFaults
    /\ tries \in [Requests -> Nat] /\ made \in [Requests -> 0..2]
    /\ retry \in [Requests -> Fates]

Init ==
    /\ cached = {} /\ noteId = [c \in Codes |-> NoItem]
    /\ link = [c \in Codes |-> "none"]
    /\ queue = {} /\ paused = FALSE /\ shown = {}
    /\ open = {} /\ nextItem = 1 /\ recipes = {}
    /\ phase = [r \in Requests |-> "new"]
    /\ got = [r \in Requests |-> NoItem]
    /\ batch = {} /\ item = {} /\ posted = "none"
    /\ task = [t \in Tasks |-> NoTask]
    /\ edits \in 0..MaxEdits /\ faults \in 0..MaxFaults   \* left of the bounds
    /\ tries = [r \in Requests |-> 0]
    /\ made = [r \in Requests |-> 0]
    /\ retry = [r \in Requests |-> "none"]

Fault(kind) == kind \in Faults /\ faults < MaxFaults /\ faults' = faults + 1

Edit(kind) == kind \in Edits /\ edits < MaxEdits /\ edits' = edits + 1

NoFault == UNCHANGED faults

-----------------------------------------------------------------------------
(* Mealie's answer to a POST of a shopping list entry.                     *)

Bump(n) == IF n < 2 THEN n + 1 ELSE n

\* The entry is made, on behalf of request r.
Makes(c, kind, r) ==
    /\ open' = open \cup {[id |-> nextItem, code |-> c, kind |-> kind]}
    /\ nextItem' = nextItem + 1
    /\ made' = IF c = CodeOf[r] THEN [made EXCEPT ![r] = Bump(@)] ELSE made

MakesNothing == UNCHANGED <<open, nextItem, made>>

\* _post_shopping_item returned False.
PostFails(c, kind, r) ==
    \/ Fault("refused") /\ MakesNothing
    \/ Fault("ambiguous") /\ Makes(c, kind, r)

-----------------------------------------------------------------------------
(* A scan request.                                                         *)

Goes(r, p) == phase' = [phase EXCEPT ![r] = p]

\* _process_scan: linked barcodes are routed and paused additions skipped;
\* otherwise the cache row exists before the note is sent.
Begin(r) ==
    /\ phase[r] = "new"
    /\ IF link[CodeOf[r]] # "none" THEN Goes(r, "elsewhere") /\ UNCHANGED cached
       ELSE /\ cached' = cached \cup {CodeOf[r]}
            /\ Goes(r, IF paused THEN "elsewhere" ELSE "post")
    /\ UNCHANGED <<noteId, link, queue, paused, shown, mealieVars, got, jobVars,
                   task, edits, faults, historyVars>>

\* add_shopping_note.
AddNote(r) ==
    /\ phase[r] = "post"
    /\ \/ Makes(CodeOf[r], "note", r) /\ got' = [got EXCEPT ![r] = nextItem]
          /\ Goes(r, "store") /\ NoFault
       \/ Makes(CodeOf[r], "note", r) /\ Goes(r, "noted") /\ UNCHANGED got
          /\ Fault("no_id")
       \/ PostFails(CodeOf[r], "note", r) /\ Goes(r, "enqueue") /\ UNCHANGED got
    /\ UNCHANGED <<dbVars, recipes, jobVars, task, edits, tries, retry>>

\* cached.shopping_item_id is stored; StaleDataError without a cache row.
StoreId(r) ==
    /\ phase[r] = "store"
    /\ IF CodeOf[r] \in cached
       THEN noteId' = [noteId EXCEPT ![CodeOf[r]] = got[r]] /\ Goes(r, "noted")
       ELSE Goes(r, "failed") /\ UNCHANGED noteId
    /\ UNCHANGED <<cached, link, queue, paused, shown, mealieVars, got, jobVars,
                   task, edits, faults, historyVars>>

\* enqueue_retry: one retry per barcode is enough, says the first query ...
EnqueueChecks(r) ==
    /\ phase[r] = "enqueue"
    /\ Goes(r, IF \E q \in queue : q.code = CodeOf[r] THEN "queued" ELSE "insert")
    /\ UNCHANGED <<dbVars, mealieVars, got, jobVars, task, edits, faults, historyVars>>

\* SQLite's choice of a rowid.
NewId == 1 + (IF queue = {} THEN 0
              ELSE CHOOSE n \in {q.id : q \in queue} : \A q \in queue : q.id <= n)

\* ... and the row is inserted.
EnqueueInserts(r) ==
    /\ phase[r] = "insert"
    /\ queue' = queue \cup {[id |-> NewId, code |-> CodeOf[r], kind |-> "note",
                             for |-> CodeOf[r], attempts |-> 0, wait |-> 0, by |-> r]}
    /\ Goes(r, "queued")
    /\ retry' = [retry EXCEPT ![r] = "owed"]
    /\ UNCHANGED <<cached, noteId, link, paused, shown, mealieVars, got, jobVars,
                   task, edits, faults, tries, made>>

-----------------------------------------------------------------------------
(* _process_retry_queue.                                                   *)

\* Mutant: next_retry_at is not set again after a failure.
DueAtFirst == {q \in queue : q.attempts = 0}

Due == {q \in queue : q.wait = 0}

\* The due rows are loaded once per run (the limit of 50 is not reached).
JobLoads ==
    /\ batch = {}
    /\ ~paused
    /\ Due # {}
    /\ batch' = Due
    /\ UNCHANGED <<dbVars, mealieVars, requestVars, item, posted, task, edits,
                   faults, historyVars>>

\* The payload goes out as it was loaded.
JobPosts(q) ==
    /\ item = {}
    /\ q \in batch
    /\ item' = {q}
    /\ \/ Makes(q.for, q.kind, q.by) /\ posted' = "ok" /\ NoFault /\ UNCHANGED tries
       \/ PostFails(q.for, q.kind, q.by) /\ posted' = "failed"
          /\ tries' = [tries EXCEPT ![q.by] = @ + 1]
    /\ UNCHANGED <<dbVars, recipes, requestVars, batch, task, edits, retry>>

\* min(2**attempts, 480) minutes.
Backoff(n) == IF n < 9 THEN <<2, 4, 8, 16, 32, 64, 128, 256>>[n] ELSE 480

\* The row with the id of the loaded one, whoever's row it is by now.
Stored(q) == {p \in queue : p.id = q.id}

\* Mutant: the deletion is never committed.
JobForgets(q) ==
    /\ UNCHANGED queue
    /\ batch' = batch \ {q}

\* db.delete: a row that is gone already only makes a warning.
JobDeletes(q) ==
    /\ queue' = queue \ Stored(q)
    /\ batch' = batch \ {q}

\* db.commit of a row's new attempts and next_retry_at; a row that is gone
\* raises StaleDataError, which ends the run.
JobUpdates(q) ==
    /\ queue' = (queue \ Stored(q)) \cup
                {[p EXCEPT !.attempts = q.attempts + 1,
                           !.wait = Backoff(q.attempts + 1)] : p \in Stored(q)}
    /\ batch' = IF Stored(q) = {} THEN {} ELSE batch \ {q}

\* Mutant: the attempt is counted twice.
RetryFailedEarly(q) ==
    \/ /\ q.attempts + 2 >= MaxAttempts
       /\ JobDeletes(q)
       /\ shown' = shown \cup {q.code}
       /\ retry' = [retry EXCEPT ![q.by] = IF @ = "owed" THEN "given_up" ELSE @]
    \/ /\ q.attempts + 2 < MaxAttempts
       /\ JobUpdates(q)
       /\ UNCHANGED <<shown, retry>>

\* _retry_failed: the end of the retry, with a notification, or a later attempt.
RetryFailed(q) ==
    \/ /\ q.attempts + 1 >= MaxAttempts
       /\ JobDeletes(q)
       /\ shown' = shown \cup {q.code}
       /\ retry' = [retry EXCEPT ![q.by] = IF @ = "owed" THEN "given_up" ELSE @]
    \/ /\ q.attempts + 1 < MaxAttempts
       /\ JobUpdates(q)
       /\ UNCHANGED <<shown, retry>>

\* What the answer to the POST leads to.
JobCommits(q) ==
    /\ q \in item
    /\ item' = {} /\ posted' = "none"
    /\ \/ posted = "ok" /\ JobDeletes(q) /\ UNCHANGED <<shown, retry>>
       \/ posted = "failed" /\ RetryFailed(q)
    /\ UNCHANGED <<cached, noteId, link, paused, mealieVars, requestVars, task,
                   edits, faults, tries, made>>

BackoffOver(q) ==
    /\ q \in queue
    /\ q.wait > 0
    /\ queue' = (queue \ {q}) \cup {[q EXCEPT !.wait = 0]}
    /\ UNCHANGED <<cached, noteId, link, paused, shown, mealieVars, requestVars,
                   jobVars, task, edits, faults, historyVars>>

-----------------------------------------------------------------------------
(* reconcile_linked_barcode.                                               *)

Enters(t, step) == task' = [task EXCEPT ![t].step = step]

Ends(t) == task' = [task EXCEPT ![t] = NoTask]

\* The end of the task, or the POST of the recipe.
AddsOrEnds(t, add) ==
    task' = [task EXCEPT ![t] = IF add THEN [@ EXCEPT !.step = "add", !.add = TRUE]
                                ELSE NoTask]

\* The primary target, the cache row and the barcode's retries are read.
TaskReads(t) ==
    LET c == task[t].code IN
    /\ task[t].step = "read"
    /\ task' = [task EXCEPT ![t] =
                  IF link[c] = "none" THEN NoTask
                  ELSE [step |-> IF link[c] = "food" THEN "rewrite" ELSE "drop",
                        code |-> c, kind |-> link[c], id |-> noteId[c],
                        rows |-> {q \in queue : q.code = c}, add |-> FALSE]]
    /\ UNCHANGED <<dbVars, mealieVars, requestVars, jobVars, edits, faults, historyVars>>

Rewritten(q, c) == [q EXCEPT !.kind = "food", !.for = c]

\* Food: the payload of the retries becomes the food's, row by row id; a row
\* that is gone raises StaleDataError, which ends the task.
TaskRewrites(t) ==
    LET c == task[t].code
        ids == {q.id : q \in {p \in task[t].rows : p.kind = "note"}}
        hit == {q \in queue : q.id \in ids}
    IN
    /\ task[t].step = "rewrite"
    /\ \/ /\ \A i \in ids : \E q \in queue : q.id = i
          /\ queue' = (queue \ hit) \cup {Rewritten(q, c) : q \in hit}
          /\ IF task[t].id = NoItem THEN Ends(t) ELSE Enters(t, "get")
       \/ /\ \E i \in ids : \A q \in queue : q.id # i
          /\ Ends(t) /\ UNCHANGED queue
    /\ UNCHANGED <<cached, noteId, link, paused, shown, mealieVars, requestVars,
                   jobVars, edits, faults, historyVars>>

\* Recipe: the retries are deleted, row by row id; the recipe will replace them.
TaskDrops(t) ==
    LET rows == task[t].rows IN
    /\ task[t].step = "drop"
    /\ queue' = {q \in queue : \A p \in rows : p.id # q.id}
    /\ retry' = [r \in Requests |->
                   IF retry[r] = "owed" /\ \E p \in rows : p.by = r
                   THEN "replaced" ELSE retry[r]]
    /\ IF task[t].id = NoItem THEN AddsOrEnds(t, rows # {})
       ELSE task' = [task EXCEPT ![t].step = "get", ![t].add = rows # {}]
    /\ UNCHANGED <<cached, noteId, link, paused, shown, mealieVars, requestVars,
                   jobVars, edits, faults, tries, made>>

Noted(t) == {e \in open : e.id = task[t].id}

\* _get_shopping_item: an entry that is gone, bought or not readable is forgotten.
TaskGets(t) ==
    /\ task[t].step = "get"
    /\ \/ /\ Noted(t) # {} /\ NoFault
          /\ Enters(t, IF task[t].kind = "food" THEN "put" ELSE "delete")
       \/ Noted(t) = {} /\ NoFault /\ Enters(t, "forget")
       \/ Fault("refused") /\ Enters(t, "forget")
    /\ UNCHANGED <<dbVars, mealieVars, requestVars, jobVars, edits, historyVars>>

\* _put_shopping_item; when it fails the note's id is kept.
TaskPuts(t) ==
    LET foods == {[e EXCEPT !.kind = "food"] : e \in Noted(t)} IN
    /\ task[t].step = "put"
    /\ \/ /\ Noted(t) # {} /\ NoFault
          /\ open' = (open \ Noted(t)) \cup foods /\ Enters(t, "forget")
       \/ /\ Fault("ambiguous")
          /\ open' = (open \ Noted(t)) \cup foods /\ Ends(t)
       \/ Noted(t) = {} /\ NoFault /\ Ends(t) /\ UNCHANGED open
       \/ Fault("refused") /\ Ends(t) /\ UNCHANGED open
    /\ UNCHANGED <<dbVars, nextItem, recipes, requestVars, jobVars, edits, historyVars>>

\* _delete_shopping_item; only an entry known to be deleted is replaced.
TaskDeletes(t) ==
    LET deleted == task' = [task EXCEPT ![t].step = "forget", ![t].add = TRUE] IN
    /\ task[t].step = "delete"
    /\ \/ Noted(t) # {} /\ NoFault /\ open' = open \ Noted(t) /\ deleted
       \/ Fault("ambiguous") /\ open' = open \ Noted(t) /\ Enters(t, "forget")
       \/ Noted(t) = {} /\ NoFault /\ Enters(t, "forget") /\ UNCHANGED open
       \/ Fault("refused") /\ Enters(t, "forget") /\ UNCHANGED open
    /\ UNCHANGED <<dbVars, nextItem, recipes, requestVars, jobVars, edits, historyVars>>

\* cached.shopping_item_id = None; StaleDataError without a cache row.
TaskForgets(t) ==
    LET c == task[t].code IN
    /\ task[t].step = "forget"
    /\ noteId' = IF c \in cached THEN [noteId EXCEPT ![c] = NoItem] ELSE noteId
    /\ AddsOrEnds(t, c \in cached /\ task[t].add)
    /\ UNCHANGED <<cached, link, queue, paused, shown, mealieVars, requestVars,
                   jobVars, edits, faults, historyVars>>

\* add_recipe_to_shopping_list; a failure is only logged.
TaskAddsRecipe(t) ==
    /\ task[t].step = "add"
    /\ Ends(t)
    /\ \/ recipes' = recipes \cup {task[t].code} /\ NoFault
       \/ recipes' = recipes \cup {task[t].code} /\ Fault("ambiguous")
       \/ UNCHANGED recipes /\ Fault("refused")
    /\ UNCHANGED <<dbVars, open, nextItem, requestVars, jobVars, edits, historyVars>>

-----------------------------------------------------------------------------
(* The user.                                                               *)

\* A barcode's first target is its primary one; reconciliation follows as a
\* background task.
LinkCode(c, kind) ==
    /\ Edit(kind)
    /\ link' = [link EXCEPT ![c] = IF @ = "none" THEN kind ELSE @]
    /\ task' = [task EXCEPT ![edits + 1] = [NoTask EXCEPT !.step = "read", !.code = c]]
    /\ UNCHANGED <<cached, noteId, queue, paused, shown, mealieVars, requestVars,
                   jobVars, faults, historyVars>>

Unlink(c) ==
    /\ Edit("unlink")
    /\ link' = [link EXCEPT ![c] = "none"]
    /\ UNCHANGED <<cached, noteId, queue, paused, shown, mealieVars, requestVars,
                   jobVars, task, faults, historyVars>>

\* barcode_delete: everything the database keeps about the barcode.
DeleteCode(c) ==
    /\ Edit("delete")
    /\ queue' = {q \in queue : q.code # c}
    /\ retry' = [r \in Requests |->
                   IF \/ CodeOf[r] = c /\ retry[r] = "given_up"
                      \/ retry[r] = "owed" /\ \E q \in queue : q.code = c /\ q.by = r
                   THEN "deleted" ELSE retry[r]]
    /\ link' = [link EXCEPT ![c] = "none"]
    /\ shown' = shown \ {c}
    /\ cached' = cached \ {c}
    /\ noteId' = [noteId EXCEPT ![c] = NoItem]
    /\ UNCHANGED <<paused, mealieVars, requestVars, jobVars, task, faults, tries, made>>

Pause ==
    /\ Edit("pause")
    /\ paused' = TRUE
    /\ UNCHANGED <<cached, noteId, link, queue, shown, mealieVars, requestVars,
                   jobVars, task, faults, historyVars>>

\* resume_now, or the end of the pause.
Resume ==
    /\ paused
    /\ paused' = FALSE
    /\ UNCHANGED <<cached, noteId, link, queue, shown, mealieVars, requestVars,
                   jobVars, task, edits, faults, historyVars>>

\* An entry is checked or removed in Mealie.
Bought(e) ==
    /\ Edit("buy")
    /\ open' = open \ {e}
    /\ UNCHANGED <<dbVars, nextItem, recipes, requestVars, jobVars, task, faults,
                   historyVars>>

Final == {"new", "noted", "queued", "elsewhere", "failed"}

\* The process dies and starts again: requests, the job's run and background
\* tasks are gone.
Crash ==
    /\ Fault("crash")
    /\ phase' = [r \in Requests |-> IF phase[r] \in Final THEN phase[r] ELSE "failed"]
    /\ batch' = {} /\ item' = {} /\ posted' = "none"
    /\ task' = [t \in Tasks |-> NoTask]
    /\ UNCHANGED <<dbVars, mealieVars, got, edits, historyVars>>

-----------------------------------------------------------------------------
RequestGoesOn(r) == AddNote(r) \/ StoreId(r) \/ EnqueueChecks(r) \/ EnqueueInserts(r)

JobStep ==
    \/ JobLoads
    \/ \E q \in batch : JobPosts(q)
    \/ \E q \in item : JobCommits(q)

TaskStep(t) ==
    \/ TaskReads(t) \/ TaskRewrites(t) \/ TaskDrops(t) \/ TaskGets(t) \/ TaskPuts(t)
    \/ TaskDeletes(t) \/ TaskForgets(t) \/ TaskAddsRecipe(t)

UserStep ==
    \/ \E c \in Codes :
         \/ \E kind \in {"food", "recipe"} : LinkCode(c, kind)
         \/ Unlink(c)
         \/ DeleteCode(c)
    \/ Pause
    \/ \E e \in open : Bought(e)

Next ==
    \/ \E r \in Requests : Begin(r) \/ RequestGoesOn(r)
    \/ JobStep
    \/ \E q \in queue : BackoffOver(q)
    \/ \E t \in Tasks : TaskStep(t)
    \/ UserStep
    \/ Resume
    \/ Crash

Spec == Init /\ [][Next]_vars

\* Request and background threads and the scheduler run on, backoffs and pauses
\* run out; scans, the user, Mealie's failures and crashes are free.
Fairness ==
    /\ \A r \in Requests : WF_vars(RequestGoesOn(r))
    /\ WF_vars(JobStep)
    /\ WF_vars(\E q \in queue : BackoffOver(q))
    /\ \A t \in Tasks : WF_vars(TaskStep(t))
    /\ WF_vars(Resume)

FairSpec == Spec /\ Fairness

-----------------------------------------------------------------------------
(* Properties.                                                             *)

Queued(r) == \E q \in queue : q.by = r /\ q.for = CodeOf[r]

\* A scan whose note Mealie did not take is not forgotten: once its retry is
\* stored, the retry stays in the queue until the barcode's entry has been made,
\* or it is given up after MaxAttempts failed POSTs and the user can see that
\* (_retry_failed, _process_retry_queue, reconcile_linked_barcode).
NothingForgotten ==
    \A r \in Requests :
        /\ retry[r] = "owed" => made[r] > 0 \/ Queued(r)
        /\ retry[r] = "given_up" => tries[r] >= MaxAttempts /\ CodeOf[r] \in shown

\* While a failed call to Mealie has no effect and B2M does not crash, one scan
\* makes one entry, whatever the linking and the retries in between
\* (enqueue_retry, _process_retry_queue).
AddedOnce == \A r \in Requests : made[r] <= 1

\* No scan whose note Mealie did not take is forgotten, and the types hold. This
\* takes that the requests scan one barcode, which is neither deleted nor linked
\* to a recipe: else db.delete and db.commit hit rows by ids that are others' by
\* now (_process_retry_queue, reconcile_linked_barcode; README, Divergences).
NoneForgotten == TypeOK /\ NothingForgotten

\* No scan is added twice while failed calls have no effect, and the types hold
\* (enqueue_retry, _process_retry_queue).
NoneTwice == TypeOK /\ AddedOnce

\* Every retry leaves the queue: delivered, given up, replaced or deleted, even
\* if rows vanish under the job (_process_retry_queue).
EveryRetryEnds ==
    \A r \in Requests : (\E q \in queue : q.by = r) ~> ~(\E q \in queue : q.by = r)

-----------------------------------------------------------------------------
(* What the documentation says and the code does not keep (README,         *)
(* Divergences).                                                           *)

\* The retries a recipe took over from are not lost with it: the recipe has been
\* added or is about to be (reconcile_linked_barcode).
ReplacedIsAdded ==
    \A r \in Requests :
        retry[r] = "replaced" =>
            \/ CodeOf[r] \in recipes
            \/ \E t \in Tasks : task[t].code = CodeOf[r] /\ task[t].add

Quiet ==
    /\ \A r \in Requests : phase[r] \in Final \ {"new"}
    /\ batch = {} /\ queue = {}
    /\ \A t \in Tasks : task[t] = NoTask

\* Once a barcode has a food and everything has come to rest, none of its
\* entries is a plain note any more (reconcile_linked_barcode).
ReplacedByTarget ==
    Quiet => \A e \in open : link[e.code] = "food" => e.kind = "food"

\* i18n.py:30: "Scans will still be processed and linked, but nothing will be
\* added to your shopping list" in Scan & Link mode: linking adds no recipe then
\* (reconcile_linked_barcode).
NoRecipeInPause == [][paused => recipes' = recipes]_vars

\* The waiting time of a retry never exceeds the documented hour.
DocumentedBackoff == \A q \in queue : q.wait <= 60
=============================================================================
