--------------------------- MODULE ShoppingLists ---------------------------
(***************************************************************************)
(* Mealie's shopping lists as B2M knows them (app/services/shopping.py):   *)
(* the lists, kept for two minutes; the numbers of open rows, which stand  *)
(* for the additions they hold, kept for two seconds and dropped by what   *)
(* B2M adds; the list an administrator chose for scans; and the task that  *)
(* writes the open rows of a Food again after the Food was saved           *)
(* (app/services/mealie_extras.py).                                        *)
(*                                                                         *)
(* Every request runs in a thread; a load is read in Mealie in one step    *)
(* and kept in another. The owner changes lists and rows in Mealie itself. *)
(***************************************************************************)
EXTENDS Naturals, FiniteSets

CONSTANTS
    Lists, Rows, Foods,
    Threads,
    MaxQuantity,
    MaxRequests,   \* bound: requests
    MaxChanges,    \* bound: changes the owner makes
    MaxFailures    \* bound: calls of Mealie that fail

VARIABLES
    mealie,        \* the lists it has; the id of a list is never used again
    past,          \* lists deleted
    rows,          \* [Rows -> row, or None]
    lists,         \* _list_cache
    counts,        \* _counts_cache
    chosen,        \* mealie.default_shopping_list_id
    legacy,        \* MEALIE_SHOPPING_LIST_ID
    job,
    requests, changes, failures,
    posted,        \* rows B2M posted (history)
    done           \* posted, when the last addition was answered (history)

vars == <<mealie, past, rows, lists, counts, chosen, legacy, job,
          requests, changes, failures, posted, done>>

None == [none |-> TRUE]

\* Mealie's versions have more than one flag for a row that is done: `checked`,
\* and others (isChecked, checkedAt, completedAt). Which fields a PUT leaves as
\* they are when it does not name them is Mealie's, and left out.
Row == [list : Lists, food : Foods, quantity : 0..MaxQuantity,
        done : {"no", "checked", "otherwise"}]

Stages == {"free", "look", "lists", "get", "keep", "configured", "items",
           "store", "answer", "set", "post", "invalidate", "rows", "put"}

Job == [op : {"counts", "default", "choose", "add", "quick", "refresh"},
        force : BOOLEAN, at : Stages, then : Stages,
        lists : SUBSET Lists, failed : BOOLEAN,
        seen : 0..MaxRequests, crossed : BOOLEAN,
        list : Lists \cup {None}, food : Foods,
        todo : SUBSET [id : Rows, row : Row]]

TypeOK ==
    /\ mealie \subseteq Lists \ past
    /\ rows \in [Rows -> Row \cup {None}]
    /\ \A r \in Rows : rows[r] # None => rows[r].list \in mealie
    /\ lists \in [rows : SUBSET Lists, young : BOOLEAN] \cup {None}
    /\ counts \in [young : BOOLEAN, failed : BOOLEAN,
                   seen : 0..MaxRequests, crossed : BOOLEAN] \cup {None}
    /\ chosen \in Lists \cup {None} /\ legacy \in Lists \cup {None}
    /\ job \in [Threads -> Job]
    /\ done <= posted

Free == [op |-> "counts", force |-> FALSE, at |-> "free", then |-> "free",
         lists |-> {}, failed |-> FALSE, seen |-> 0,
         crossed |-> FALSE, list |-> None,
         food |-> CHOOSE f \in Foods : TRUE, todo |-> {}]

Init ==
    /\ mealie \in SUBSET Lists /\ past = {}
    /\ rows \in [Rows -> [list : mealie, food : Foods,
                          quantity : 0..1, done : {"no"}] \cup {None}]
    /\ lists = None /\ counts = None
    /\ chosen = None
    /\ legacy \in mealie \cup {None}
    /\ job = [t \in Threads |-> Free]
    /\ changes \in 0..MaxChanges /\ failures \in 0..MaxFailures   \* left of the bounds
    /\ requests = 0 /\ posted = 0 /\ done = 0

OpenRows(l) == {r \in Rows : rows[r] # None /\ rows[r].list = l
                               /\ rows[r].done = "no"}

-----------------------------------------------------------------------------
(* The owner, in Mealie.                                                   *)

Owner == changes < MaxChanges /\ changes' = changes + 1

Known == <<lists, counts, chosen, legacy>>

ChangesRow(r) ==
    /\ Owner /\ rows[r] # None
    /\ \E row \in {None}
                \cup {[rows[r] EXCEPT !.done = d] : d \in {"no", "checked", "otherwise"}}
                \cup {[rows[r] EXCEPT !.quantity = q] : q \in 1..MaxQuantity} :
           row # rows[r] /\ rows' = [rows EXCEPT ![r] = row]
    /\ UNCHANGED <<mealie, past, Known, job, requests, failures, posted, done>>

MakesList(l) ==
    /\ Owner /\ l \notin mealie \cup past
    /\ mealie' = mealie \cup {l}
    /\ UNCHANGED <<past, rows, Known, job, requests, failures, posted, done>>

DropsList(l) ==
    /\ Owner /\ l \in mealie
    /\ mealie' = mealie \ {l} /\ past' = past \cup {l}
    /\ rows' = [r \in Rows |-> IF rows[r] # None /\ rows[r].list = l
                               THEN None ELSE rows[r]]
    /\ UNCHANGED <<Known, job, requests, failures, posted, done>>

\* The two seconds, or the two minutes, pass.
Expire ==
    /\ \/ /\ counts # None /\ counts' = [counts EXCEPT !.young = FALSE]
          /\ UNCHANGED lists
       \/ /\ lists # None
          /\ lists' = [lists EXCEPT !.young = FALSE]
          /\ counts' = IF counts = None THEN None
                       ELSE [counts EXCEPT !.young = FALSE]
    /\ <<counts, lists>>' # <<counts, lists>>
    /\ UNCHANGED <<mealie, past, rows, chosen, legacy, job,
                   requests, changes, failures, posted, done>>

-----------------------------------------------------------------------------
Quiet == UNCHANGED <<mealie, past, rows, requests, changes, posted, done>>

Goes(t, j) == job' = [job EXCEPT ![t] = j]

Ends(t) == Goes(t, Free)

At(t, stage) == [job[t] EXCEPT !.at = stage]

Calls(t) == [job[t] EXCEPT !.at = "lists"]

Fails == failures < MaxFailures /\ failures' = failures + 1

\* save_default_list is handled on the event loop, one at a time.
Asks(t, op, force, list, food) ==
    /\ job[t].at = "free" /\ requests < MaxRequests
    /\ op = "choose" => \A u \in Threads : job[u].at # "free" => job[u].op # "choose"
    /\ requests' = requests + 1
    /\ Goes(t, [Free EXCEPT !.op = op, !.list = list, !.food = food,
                   !.force = force \/ op = "choose",
                   !.at = CASE op = "counts" -> "look"
                            [] op = "default" -> "lists"
                            [] op \in {"choose", "quick"} -> "lists"
                            [] op = "add" -> "configured"
                            [] op = "refresh" -> "rows",
                   !.then = CASE op = "counts" -> "items"
                              [] op = "default" -> "configured"
                              [] op = "choose" -> "set"
                              [] op = "refresh" -> "put"
                              [] OTHER -> "post"])
    /\ UNCHANGED <<mealie, past, rows, Known, changes, failures, posted, done>>

\* get_shopping_list_counts
Look(t) ==
    /\ job[t].at = "look"
    /\ IF ~job[t].force /\ counts # None /\ counts.young THEN Ends(t)
       ELSE Goes(t, Calls(t))
    /\ Quiet /\ UNCHANGED <<Known, failures>>

\* get_shopping_lists
ListsLook(t) ==
    /\ job[t].at = "lists"
    /\ Goes(t, IF ~job[t].force /\ lists # None /\ lists.young
               THEN [job[t] EXCEPT !.lists = lists.rows, !.at = job[t].then]
               ELSE At(t, "get"))
    /\ Quiet /\ UNCHANGED <<Known, failures>>

\* A load that fails answers what was kept, however old.
ListsGet(t) ==
    /\ job[t].at = "get"
    /\ \/ /\ Goes(t, [job[t] EXCEPT !.lists = mealie, !.at = "keep"])
          /\ UNCHANGED failures
       \/ /\ Fails
          /\ Goes(t, [job[t] EXCEPT
                         !.lists = IF lists = None THEN {} ELSE lists.rows,
                         !.failed = TRUE, !.at = job[t].then])
    /\ Quiet /\ UNCHANGED Known

ListsKeep(t) ==
    /\ job[t].at = "keep"
    /\ lists' = [rows |-> job[t].lists, young |-> TRUE]
    /\ Goes(t, At(t, job[t].then))
    /\ Quiet /\ UNCHANGED <<counts, chosen, legacy, failures>>

\* The open rows are counted; when the call fails there are none. A default
\* list that was never chosen is looked for among the lists once more.
Items(t) ==
    /\ job[t].at = "items"
    /\ LET next == [job[t] EXCEPT !.seen = posted, !.force = FALSE,
                        !.then = "store",
                        !.at = IF chosen = None /\ legacy = None
                               THEN "lists" ELSE "store"]
       IN \/ Goes(t, next) /\ UNCHANGED failures
          \/ Fails /\ Goes(t, [next EXCEPT !.failed = TRUE])
    /\ Quiet /\ UNCHANGED Known

Store(t) ==
    /\ job[t].at = "store"
    /\ counts' = [young |-> TRUE, failed |-> job[t].failed,
                  seen |-> job[t].seen, crossed |-> job[t].crossed]
    /\ Ends(t)
    /\ Quiet /\ UNCHANGED <<lists, chosen, legacy, failures>>

-----------------------------------------------------------------------------
\* get_default_shopping_list_id: the choice is read first. A scan trusts it.
Configured(t) ==
    /\ job[t].at = "configured"
    /\ LET known == IF chosen # None THEN chosen ELSE legacy
           go == IF job[t].op = "add" THEN "post" ELSE "answer"
           next == [job[t] EXCEPT !.list = IF job[t].op = "add" THEN known
                                           ELSE chosen, !.then = go]
       IN Goes(t, IF ~job[t].force /\ known # None
                  THEN [next EXCEPT !.at = go, !.list = known]
                  ELSE [next EXCEPT !.at = "lists"])
    /\ Quiet /\ UNCHANGED <<Known, failures>>

Available(t, l) == l # None /\ (job[t].lists = {} \/ l \in job[t].lists)

\* The first list of the answer stands for a choice that is not there.
Defaults(t) ==
    IF ~job[t].force /\ job[t].list # None THEN {job[t].list}
    ELSE IF Available(t, job[t].list) THEN {job[t].list}
    ELSE IF Available(t, legacy) THEN {legacy}
    ELSE IF job[t].lists # {} THEN job[t].lists ELSE {legacy}

Answer(t) ==
    /\ job[t].at = "answer"
    /\ Ends(t)
    /\ Quiet /\ UNCHANGED <<Known, failures>>

\* set_default_shopping_list_id
Set(t) ==
    /\ job[t].at = "set"
    /\ chosen' = IF job[t].list \in job[t].lists THEN job[t].list ELSE chosen
    /\ Ends(t)
    /\ Quiet /\ UNCHANGED <<lists, counts, legacy, failures>>

-----------------------------------------------------------------------------
\* External: Mealie adds to an open row of the Food on the list, or makes one.
Posted(l, food) ==
    LET same == {r \in OpenRows(l) : rows[r].food = food}
    IN {[rows EXCEPT ![r].quantity = @ + 1] :
            r \in {x \in same : rows[x].quantity < MaxQuantity}}
       \cup {[rows EXCEPT ![r] = [list |-> l, food |-> food,
                                  quantity |-> 1, done |-> "no"]] :
                r \in {x \in Rows : rows[x] = None}}

\* The dashboard adds to a list of the user's choice, which has to be known.
Targets(t) ==
    IF job[t].op # "quick" THEN Defaults(t)
    ELSE IF job[t].list \in job[t].lists THEN {job[t].list} ELSE {None}

\* add_food_to_list: without a list, or when Mealie refuses, nothing is added;
\* an answer that is lost counts as a failure.
Post(t) ==
    /\ job[t].at = "post"
    /\ \E l \in Targets(t) :
           \/ /\ l # None /\ l \in mealie
              /\ rows' \in Posted(l, job[t].food)
              /\ \/ Goes(t, At(t, "invalidate")) /\ UNCHANGED failures
                 \/ Fails /\ Ends(t)
              /\ posted' = posted + 1
           \/ /\ l # None => l \notin mealie
              /\ Ends(t) /\ UNCHANGED <<rows, posted, failures>>
    /\ UNCHANGED <<mealie, past, Known, requests, changes, done>>

\* Mutant: the lists are dropped and the numbers are kept.
CountsKept == counts

Dropped == None

\* _invalidate_counts_cache. Loads under way are marked (history).
Invalidate(t) ==
    /\ job[t].at = "invalidate"
    /\ counts' = Dropped
    /\ done' = posted
    /\ job' = [u \in Threads |->
                   IF u = t THEN Free
                   ELSE IF job[u].op = "counts" /\ job[u].then = "store"
                   THEN [job[u] EXCEPT !.crossed = TRUE] ELSE job[u]]
    /\ UNCHANGED <<mealie, past, rows, lists, chosen, legacy,
                   requests, changes, failures, posted>>

-----------------------------------------------------------------------------

\* The refresh looks at `checked` alone, and writes what it read of a row but
\* a quantity of 0, which becomes 1.
Refreshed(food) ==
    {r \in Rows : rows[r] # None /\ rows[r].food = food /\ rows[r].done # "checked"}

Payload(row) == [row EXCEPT !.quantity = IF @ = 0 THEN 1 ELSE @]

\* refresh_open_shopping_items_for_food: the default list is asked for as well.
ReadRows(t) ==
    /\ job[t].at = "rows"
    /\ \/ /\ Goes(t, [job[t] EXCEPT
                         !.at = IF chosen = None /\ legacy = None
                                THEN "lists" ELSE "put",
                         !.todo = {[id |-> r, row |-> Payload(rows[r])] :
                                       r \in Refreshed(job[t].food)}])
          /\ UNCHANGED failures
       \/ Fails /\ Ends(t)
    /\ Quiet /\ UNCHANGED Known

\* Each row is written as it was read, with `checked` unset, which a Mealie
\* that goes by another flag may not look at; it refuses when the row is gone.
Written(entry) ==
    IF rows[entry.id] # None /\ entry.row.list \in mealie
    THEN {[rows EXCEPT ![entry.id] = [entry.row EXCEPT !.done = d]] :
              d \in {"no", rows[entry.id].done} \ {"checked"}}
    ELSE {rows}

\* A call that fails may have been carried out.
Put(t, entry) ==
    /\ job[t].at = "put" /\ entry \in job[t].todo
    /\ \/ rows' \in Written(entry) /\ UNCHANGED failures
       \/ rows' \in Written(entry) \cup {rows} /\ Fails
    /\ Goes(t, [job[t] EXCEPT !.todo = @ \ {entry}])
    /\ UNCHANGED <<mealie, past, Known, requests, changes, posted, done>>

PutsEnd(t) ==
    /\ job[t].at = "put" /\ job[t].todo = {}
    /\ Ends(t)
    /\ Quiet /\ UNCHANGED <<Known, failures>>

-----------------------------------------------------------------------------
Next ==
    \/ \E r \in Rows : ChangesRow(r)
    \/ \E l \in Lists : MakesList(l) \/ DropsList(l)
    \/ Expire
    \/ \E t \in Threads :
           \/ \E op \in {"counts", "default"}, force \in BOOLEAN :
                  Asks(t, op, force, None, Free.food)
           \/ \E l \in Lists : Asks(t, "choose", TRUE, l, Free.food)
           \/ \E l \in Lists, f \in Foods : Asks(t, "quick", FALSE, l, f)
           \/ \E op \in {"add", "refresh"}, f \in Foods : Asks(t, op, FALSE, None, f)
           \/ Look(t) \/ ListsLook(t) \/ ListsGet(t) \/ ListsKeep(t)
           \/ Items(t) \/ Store(t)
           \/ Configured(t) \/ Answer(t) \/ Set(t)
           \/ Post(t) \/ Invalidate(t)
           \/ ReadRows(t) \/ PutsEnd(t)
           \/ \E entry \in job[t].todo : Put(t, entry)

Spec == Init /\ [][Next]_vars

-----------------------------------------------------------------------------
\* The numbers on the dashboard hold all that B2M has added, whatever the age
\* of the cache, unless an addition was answered while they were counted or
\* the count failed, which shows none.
CountsHoldAdditions ==
    counts # None /\ ~counts.crossed /\ ~counts.failed => counts.seen >= done

\* Who asks for the lists anew (force) is told the default list that was
\* chosen, if Mealie has it, whatever the cache holds; the calls not failing.
ChoiceStands ==
    \A t \in Threads :
        (/\ job[t].at = "answer" /\ job[t].force /\ ~job[t].failed
         /\ job[t].list # None /\ job[t].list \in mealie)
        => Defaults(t) = {job[t].list}

\* The numbers and the choice of the dashboard (get_active_lists_counts,
\* get_default_shopping_list).
DashboardCorrect == TypeOK /\ CountsHoldAdditions /\ ChoiceStands

-----------------------------------------------------------------------------
\* What app/services/mealie_extras.py:187 says of the refresh ("Touch every
\* open shopping-list entry"): it reopens or writes no row that is done. It
\* does: a row that Mealie marks by another flag than `checked` is taken for
\* an open one, and a row that is checked between its being read and written
\* is opened again.
TouchesOpenOnly ==
    [][\A t \in Threads, r \in Rows :
           (/\ job[t].at = "put" /\ \E e \in job[t].todo \ job'[t].todo : e.id = r
            /\ rows'[r] # rows[r])
           => rows[r].done = "no"]_vars
=============================================================================
