----------------------------- MODULE FoodMirror -----------------------------
(***************************************************************************)
(* The mirror of Mealie's Foods in the table items, and the targets that   *)
(* name them: the sync with Mealie (app/services/mealie_extras.py), the    *)
(* edit of a Food on its page (app/routers/items.py) and on a target       *)
(* (app/routers/target_editor_v6.py), the import of a Food that is linked  *)
(* (app/routers/barcodes.py), and what users change in Mealie itself.      *)
(*                                                                         *)
(* A request reads rows, asks Mealie for seconds without a transaction,    *)
(* and writes in one transaction at its end, so requests overlap. Of a     *)
(* Food there are its name, which stands for its aliases and label too,    *)
(* and its default unit, which stands for the default quantity.            *)
(***************************************************************************)
EXTENDS Naturals, FiniteSets

CONSTANTS
    Foods,       \* ids of Mealie Foods
    Names,       \* names
    Units,       \* units
    Codes,       \* barcodes
    Syncs,       \* syncs that may run at once: the scheduler's, a user's
    Requests,    \* slow requests of users
    MaxOutside   \* bound: changes made in Mealie itself, and quick requests

ASSUME MirrorAssumption ==
    MaxOutside \in Nat /\ Syncs \cap Requests = {}

VARIABLES
    mealie,    \* per id: Mealie's Food
    mirror,    \* per id: its row of items
    targets,   \* the rows of barcode_targets
    sync,      \* per sync: how far it is
    req,       \* per request: how far it is
    outside,
    crossed    \* syncs and requests during which others wrote (history)

vars == <<mealie, mirror, targets, sync, req, outside, crossed>>

NoUnit == "no unit"
Food == [name : Names, unit : Units \cup {NoUnit}]

Never == [food |-> "never"]
Gone == [food |-> "gone"]
NoItem == [item |-> "none"]

\* own: the unit that the user gave this target, while it has never been the
\* default of its Food (history).
Target == [code : Codes, food : Foods, name : Names,
           unit : Units \cup {NoUnit}, own : Units \cup {NoUnit}]

NoTarget == [target |-> "none"]

Sync == [at : {"idle", "fetched", "started"},
         list : [Foods -> Food \cup {Never, Gone}],   \* what Mealie answered
         loaded : [Foods -> Food \cup {NoItem}],      \* the rows it has read
         newer : SUBSET Foods,                        \* synced_at >= sync_started
         before : SUBSET Syncs,                       \* with an earlier sync_started
         alone : BOOLEAN]                             \* no other ran (history)

Request == [at : {"idle", "edit", "import", "write", "add", "ended"},
            op : {"page", "target", "map", "create"},
            food : Foods, code : Codes,
            new : Food,                       \* the edit
            got : Food \cup {Never},          \* Mealie's answer
            loaded : Food \cup {NoItem},      \* the row of items it has read
            seen : Target \cup {NoTarget}]    \* the row of barcode_targets

TypeOK ==
    /\ mealie \in [Foods -> Food \cup {Never, Gone}]
    /\ mirror \in [Foods -> Food \cup {NoItem}]
    /\ targets \subseteq Target
    /\ sync \in [Syncs -> Sync] /\ req \in [Requests -> Request]
    /\ outside \in 0..MaxOutside
    /\ crossed \subseteq Syncs \cup Requests

In(f) == mealie[f] \in Food
Mirrored(f) == mirror[f] # NoItem

NoSync == [at |-> "idle", list |-> [f \in Foods |-> Never],
           loaded |-> [f \in Foods |-> NoItem], newer |-> {}, before |-> {},
           alone |-> TRUE]

\* Mealie's Foods are mirrored, and some are linked.
Init ==
    /\ mealie \in [Foods -> [name : Names, unit : {NoUnit}] \cup {Never}]
    /\ mirror = [f \in Foods |-> IF In(f) THEN mealie[f] ELSE NoItem]
    /\ targets \in SUBSET
           {[code |-> c, food |-> f, name |-> mirror[f].name,
             unit |-> NoUnit, own |-> NoUnit] : c \in Codes, f \in {g \in Foods : In(g)}}
    /\ sync = [s \in Syncs |-> NoSync]
    /\ req \in [Requests -> [at : {"idle"},
                             op : {"page", "target", "map", "create"},
                             food : Foods, code : Codes, new : Food,
                             got : {Never}, loaded : {NoItem},
                             seen : {NoTarget}]]
    /\ outside = 0 /\ crossed = {}

Busy(p) == IF p \in Syncs THEN sync[p].at # "idle"
           ELSE req[p].at \notin {"idle", "ended"}

\* p writes to Mealie or to the database.
Writes(p) ==
    crossed' = crossed \cup {q \in (Syncs \cup Requests) \ {p} : Busy(q)}

\* A column of an UPDATE: it is set if it differs from what was loaded.
Column(loaded, new, current) == IF new = loaded THEN current ELSE new

Columns(loaded, new, current) ==
    [name |-> Column(loaded.name, new.name, current.name),
     unit |-> Column(loaded.unit, new.unit, current.unit)]

\* A unit that becomes the default is not the target's own any more.
Disowned(ts, m) ==
    {IF m[t.food] # NoItem /\ m[t.food].unit = t.own
     THEN [t EXCEPT !.own = NoUnit] ELSE t : t \in ts}

-----------------------------------------------------------------------------
(* sync_items_enhanced: a GET, sync_started, the rows, one transaction.    *)

\* A GET that fails ends the sync: nothing has happened.
SyncFetches(s) ==
    /\ sync[s].at = "idle"
    /\ sync' = [q \in Syncs |->
           IF q = s THEN [NoSync EXCEPT !.at = "fetched", !.list = mealie,
                                        !.alone = \A p \in Syncs : ~Busy(p)]
           ELSE [sync[q] EXCEPT !.alone = @ /\ ~Busy(q)]]
    /\ crossed' = crossed \ {s}
    /\ UNCHANGED <<mealie, mirror, targets, req, outside>>

SyncStarts(s) ==
    /\ sync[s].at = "fetched"
    /\ sync' = [sync EXCEPT ![s].at = "started", ![s].loaded = mirror,
                            ![s].before = {q \in Syncs : sync[q].at = "started"}]
    /\ UNCHANGED <<mealie, mirror, targets, req, outside, crossed>>

Listed(s) == {f \in Foods : sync[s].list[f] \in Food}

\* Mutant: rows written since it started count as stale too.
StaleIfUnlisted(s) == {f \in Foods \ Listed(s) : Mirrored(f)}

\* Item.synced_at < sync_started
StaleItems(s) == {f \in Foods \ Listed(s) : Mirrored(f) /\ f \notin sync[s].newer}

\* s is over.
SyncEnds(s) ==
    [q \in Syncs |-> IF q = s THEN NoSync
                     ELSE [sync[q] EXCEPT !.before = @ \ {s}]]

\* The synced_at of fs is now that of sync s: earlier than a later one's start.
SyncedAt(s, fs) ==
    [q \in Syncs |->
        IF q = s \/ sync[q].at # "started" THEN SyncEnds(s)[q]
        ELSE [SyncEnds(s)[q] EXCEPT
                 !.newer = IF q \in sync[s].before THEN @ \cup fs ELSE @ \ fs]]

SyncedRow(s, f) ==
    IF sync[s].loaded[f] = NoItem THEN sync[s].list[f]
    ELSE Columns(sync[s].loaded[f], sync[s].list[f], mirror[f])

\* Mutant: the targets of a Food that goes stay behind.
TargetsStay(s) == targets

TargetsKept(s) == {t \in targets : t.food \notin StaleItems(s)}

\* A row inserted or deleted by others since it was read fails the sync.
SyncConflicts(s) ==
    \E f \in Listed(s) : (sync[s].loaded[f] = NoItem) = Mirrored(f)

\* Mutant: it stops there for ever.
SyncHangs(s) == sync[s].at = "started" /\ SyncConflicts(s) /\ UNCHANGED vars

SyncFails(s) ==
    /\ sync[s].at = "started" /\ SyncConflicts(s)
    /\ sync' = SyncEnds(s)
    /\ UNCHANGED <<mealie, mirror, targets, req, outside, crossed>>

SyncWrites(s) ==
    /\ sync[s].at = "started" /\ ~SyncConflicts(s)
    /\ mirror' = [f \in Foods |-> IF f \in Listed(s) THEN SyncedRow(s, f)
                                  ELSE IF f \in StaleItems(s) THEN NoItem
                                  ELSE mirror[f]]
    /\ targets' = Disowned(TargetsKept(s), mirror')
    /\ sync' = SyncedAt(s, Listed(s))
    /\ Writes(s)
    /\ UNCHANGED <<mealie, req, outside>>

-----------------------------------------------------------------------------
Goes(r, new) == req' = [req EXCEPT ![r] = new]
Ends(r) == Goes(r, [req[r] EXCEPT !.at = "ended"])

\* synced_at is now, after the start of every sync that runs.
SyncedNow(f) ==
    sync' = [s \in Syncs |-> IF sync[s].at = "started"
                             THEN [sync[s] EXCEPT !.newer = @ \cup {f}]
                             ELSE sync[s]]

(* edit_mealie_item and save_target_food_v6                                *)

PageEditBegins(r) ==
    LET f == req[r].food IN
    /\ req[r].at = "idle" /\ req[r].op = "page" /\ Mirrored(f)
    /\ Goes(r, [req[r] EXCEPT !.at = "edit", !.loaded = mirror[f]])
    /\ UNCHANGED <<mealie, mirror, targets, sync, outside, crossed>>

TargetEditBegins(r) ==
    /\ req[r].at = "idle" /\ req[r].op = "target"
    /\ \E t \in targets :
           /\ t.code = req[r].code /\ t.food = req[r].food
           /\ Goes(r, [req[r] EXCEPT !.at = "edit", !.seen = t])
    /\ UNCHANGED <<mealie, mirror, targets, sync, outside, crossed>>

\* get_food and the PUT. The editor of a target reads the row of items after
\* it. Without an answer the edit is given up, made or not.
Puts(r) ==
    LET f == req[r].food IN
    /\ req[r].at = "edit" /\ In(f)
    /\ mealie' = [mealie EXCEPT ![f] = req[r].new]
    /\ \/ Ends(r)
       \/ Goes(r, [req[r] EXCEPT
                      !.at = "write",
                      !.loaded = IF req[r].op = "page" THEN @ ELSE mirror[f]])
    /\ Writes(r)
    /\ UNCHANGED <<mirror, targets, sync, outside>>

PutFails(r) ==
    /\ req[r].at = "edit"
    /\ Ends(r)
    /\ UNCHANGED <<mealie, mirror, targets, sync, outside, crossed>>

\* The default unit reaches the targets that have none or the previous one.
UnitAfterEdit(t, seen, old, new) ==
    IF seen \in {NoUnit, old} THEN Column(seen, new, t.unit) ELSE t.unit

\* The rows of barcode_targets are read with the write, but for the one that
\* the editor of a target holds.
TargetsEdited(r) ==
    LET old == IF req[r].loaded = NoItem THEN NoUnit ELSE req[r].loaded.unit IN
    {IF t.food # req[r].food THEN t
     ELSE LET seen == IF req[r].seen # NoTarget /\ t.code = req[r].code
                      THEN req[r].seen ELSE t
          IN [t EXCEPT !.name = Column(seen.name, req[r].new.name, t.name),
                       !.unit = UnitAfterEdit(t, seen.unit, old, req[r].new.unit)]
     : t \in targets}

EditWrites(r) ==
    LET f == req[r].food IN
    /\ req[r].at = "write"
    /\ req[r].loaded # NoItem => Mirrored(f)
    /\ mirror' = [mirror EXCEPT ![f] =
           IF req[r].loaded = NoItem THEN @
           ELSE Columns(req[r].loaded, req[r].new, @)]
    /\ targets' = Disowned(TargetsEdited(r), mirror')
    /\ IF req[r].op = "page" THEN SyncedNow(f) ELSE UNCHANGED sync
    /\ Ends(r)
    /\ Writes(r)
    /\ UNCHANGED <<mealie, outside>>

\* The row is gone: StaleDataError.
EditFails(r) ==
    /\ req[r].at = "write"
    /\ req[r].loaded # NoItem /\ ~Mirrored(req[r].food)
    /\ Ends(r)
    /\ UNCHANGED <<mealie, mirror, targets, sync, outside, crossed>>

-----------------------------------------------------------------------------
(* barcode_map and barcode_create_and_map                                  *)

\* A Food of the mirror is linked, another one is loaded from Mealie.
MapBegins(r) ==
    LET f == req[r].food IN
    /\ req[r].at = "idle" /\ req[r].op = "map"
    /\ \/ /\ Mirrored(f)
          /\ Goes(r, [req[r] EXCEPT !.at = "add", !.loaded = mirror[f]])
       \/ /\ ~Mirrored(f) /\ In(f)
          /\ Goes(r, [req[r] EXCEPT !.at = "import", !.got = mealie[f]])
    /\ UNCHANGED <<mealie, mirror, targets, sync, outside, crossed>>

\* find_food_by_name
FoodsByName(name) == {f \in Foods : In(f) /\ mealie[f].name = name}

\* create_food
NewFood(name) == [name |-> name, unit |-> NoUnit]

\* Mealie refuses a second Food of a name, and the first is looked for once
\* more when it does or when its answer is lost: found or created, as one.
CreateBegins(r) ==
    LET name == req[r].new.name
        got(f, food) == [req[r] EXCEPT !.at = "import", !.food = f, !.got = food]
    IN
    /\ req[r].at = "idle" /\ req[r].op = "create"
    /\ \/ \E f \in FoodsByName(name) :
              /\ Goes(r, got(f, mealie[f]))
              /\ UNCHANGED <<mealie, crossed>>
       \/ /\ FoodsByName(name) = {}
          /\ \E f \in Foods :
                 /\ mealie[f] = Never
                 /\ mealie' = [mealie EXCEPT ![f] = NewFood(name)]
                 /\ Goes(r, got(f, NewFood(name)))
          /\ Writes(r)
    /\ UNCHANGED <<mirror, targets, sync, outside>>

Linked(r, item) ==
    LET same == {t \in targets : t.code = req[r].code /\ t.food = req[r].food} IN
    (targets \ same) \cup
        {[code |-> req[r].code, food |-> req[r].food, name |-> item.name,
          unit |-> item.unit, own |-> NoUnit]}

\* _cache_food. The Food just created or found is linked with it, the one
\* that was chosen after a commit.
Imports(r) ==
    LET f == req[r].food IN
    /\ req[r].at = "import"
    /\ mirror' = [mirror EXCEPT ![f] = req[r].got]
    /\ SyncedNow(f)
    /\ IF req[r].op = "create"
       THEN /\ targets' = Disowned(Linked(r, req[r].got), mirror')
            /\ Ends(r)
       ELSE /\ targets' = Disowned(targets, mirror')
            /\ Goes(r, [req[r] EXCEPT !.at = "add", !.loaded = req[r].got])
    /\ Writes(r)
    /\ UNCHANGED <<mealie, outside>>

\* add_target, with the row of items that was read.
Links(r) ==
    /\ req[r].at = "add"
    /\ targets' = Linked(r, req[r].loaded)
    /\ Ends(r)
    /\ Writes(r)
    /\ UNCHANGED <<mealie, mirror, sync, outside>>

-----------------------------------------------------------------------------
(* In Mealie itself, and the quick requests.                               *)

Outside ==
    /\ outside < MaxOutside
    /\ outside' = outside + 1
    /\ crossed' = crossed \cup {q \in Syncs \cup Requests : Busy(q)}
    /\ UNCHANGED <<sync, req>>

MealieChanges(f) ==
    /\ Outside
    /\ \/ In(f) /\ mealie' = [mealie EXCEPT ![f] = Gone]
       \/ \E new \in Food :
              /\ mealie[f] # Gone /\ mealie[f] # new
              /\ mealie' = [mealie EXCEPT ![f] = new]
    /\ UNCHANGED <<mirror, targets>>

\* barcode_target_settings: a unit for this target alone. barcode_target_delete.
TargetChanges(t) ==
    /\ Outside
    /\ \/ \E u \in Units :
              targets' = Disowned((targets \ {t}) \cup
                                  {[t EXCEPT !.unit = u, !.own = u]}, mirror)
       \/ targets' = targets \ {t}
    /\ UNCHANGED <<mealie, mirror>>

-----------------------------------------------------------------------------
SyncSteps(s) ==
    SyncFetches(s) \/ SyncStarts(s) \/ SyncFails(s) \/ SyncWrites(s)

RequestSteps(r) ==
    \/ PageEditBegins(r) \/ TargetEditBegins(r) \/ Puts(r) \/ PutFails(r)
    \/ EditWrites(r) \/ EditFails(r)
    \/ MapBegins(r) \/ CreateBegins(r) \/ Imports(r) \/ Links(r)

Next ==
    \/ \E s \in Syncs : SyncSteps(s)
    \/ \E r \in Requests : RequestSteps(r)
    \/ \E f \in Foods : MealieChanges(f)
    \/ \E t \in targets : TargetChanges(t)

\* The scheduler syncs again and again, and a call of Mealie times out.
Spec ==
    /\ Init /\ [][Next]_vars
    /\ \A s \in Syncs : WF_vars(SyncSteps(s))
    /\ \A r \in Requests : WF_vars(RequestSteps(r))

-----------------------------------------------------------------------------
\* A target belongs to a Food of the mirror, from which a scan takes its
\* route and list, as long as no sync ran into a request that links.
TargetsMirrored ==
    crossed \cap Requests = {} => \A t \in targets : Mirrored(t.food)

\* A unit that the user chose for one target survives every change of its
\* Food's default, unless requests overlapped: an edit tells it from an
\* inherited one by comparing it with the previous default only.
OwnUnitsKept ==
    crossed \cap Requests = {} =>
        \A t \in targets : t.own # NoUnit => t.unit = t.own

\* A sync that nothing crossed leaves exactly Mealie's Foods.
MirrorsAll(s) ==
    SyncWrites(s) /\ s \notin crossed =>
        \A f \in Foods : mirror'[f] = IF In(f) THEN mealie[f] ELSE NoItem

\* No sync that nothing crossed leaves the mirror behind Mealie.
SyncsMirror == [][\A s \in Syncs : MirrorsAll(s)]_vars

\* A sync takes a row away, and its targets with it, if Mealie deleted the
\* Food, or created it when the answer was on the way and B2M mirrored it
\* before sync_started was taken, or another sync ran.
RemovesDeleted(s, f) ==
    SyncWrites(s) /\ Mirrored(f) /\ mirror'[f] = NoItem =>
        \/ mealie[f] = Gone
        \/ /\ sync[s].list[f] = Never
           /\ sync[s].loaded[f] # NoItem \/ ~sync[s].alone

\* No sync takes a Food away for another reason.
SyncsRemoveDeleted == [][\A s \in Syncs, f \in Foods : RemovesDeleted(s, f)]_vars

\* An edit of a Food that nothing crossed shows everywhere: the row is what
\* Mealie has, and the targets carry its name.
ShowsEdit(r) ==
    LET f == req[r].food IN
    EditWrites(r) /\ r \notin crossed =>
        /\ Mirrored(f) => mirror'[f] = mealie[f]
        /\ \A t \in targets' : t.food = f => t.name = mealie[f].name

\* No edit that nothing crossed leaves a row or a target behind Mealie.
EditsShow == [][\A r \in Requests : ShowsEdit(r)]_vars

\* Whatever requests and syncs overlap, and whatever they undo, the syncs
\* bring the mirror back to what Mealie has.
MirrorSettles ==
    <>[](\A f \in Foods : mirror[f] = IF In(f) THEN mealie[f] ELSE NoItem)

\* What targets take from the mirror (add_target, sync_items_enhanced,
\* edit_mealie_item).
TargetsCorrect == TypeOK /\ TargetsMirrored /\ OwnUnitsKept

\* What a sync or an edit writes is what Mealie has (sync_items_enhanced,
\* edit_mealie_item, save_target_food_v6).
WritesMirror == SyncsMirror /\ SyncsRemoveDeleted /\ EditsShow

-----------------------------------------------------------------------------
(* What the sources say and the code does not keep (README, Divergences).  *)

\* "was deleted in Mealie - remap needed" (mealie_extras.py:171): a sync that
\* removes a mirrored Food and breaks its targets found it deleted.
BrokenMeansDeleted ==
    [][\A s \in Syncs, f \in Foods :
           /\ SyncWrites(s) /\ Mirrored(f) /\ mirror'[f] = NoItem
           /\ \E t \in targets : t.food = f
               => mealie[f] = Gone]_vars
=============================================================================
