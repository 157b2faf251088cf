---------------------------- MODULE BarcodeLinks ----------------------------
(***************************************************************************)
(* What B2M knows of a barcode: its row of barcode_cache, with what the    *)
(* product databases or the user said of it, and its rows of               *)
(* barcode_targets. Scans look a barcode up and link it automatically      *)
(* (app/routers/scan.py, app/services/barcode_lookup.py, fuzzy.py), users  *)
(* link, edit, look up again and delete it (app/routers/barcodes.py,       *)
(* app/services/targets.py), and the gateway and the barcode pages restore *)
(* or drop empty cache rows (app/services/barcode_state.py).               *)
(*                                                                         *)
(* Nothing holds a transaction over the seconds of a lookup, nor over the  *)
(* SELECT and the write of a row: requests of one barcode overlap.         *)
(***************************************************************************)
EXTENDS Integers, FiniteSets, FiniteSetsExt

CONSTANTS
    Codes,     \* barcodes
    Numeric,   \* those of digits only, which the providers are asked for
    Foods,     \* Mealie Foods
    Requests,  \* scans and slow requests of the user
    MaxEdits   \* bound: quick requests of the user, and expiries

VARIABLES
    cache,     \* per barcode: its row of barcode_cache
    targets,   \* the rows of barcode_targets
    known,     \* barcodes with a row in activities
    req,       \* per request: how far it is
    edits,
    crossed,   \* requests during which another one wrote (history)
    deleted    \* barcodes deleted and not used since (history)

vars == <<cache, targets, known, req, edits, crossed, deleted>>

\* found; a title by a provider; a title by the user; lookup_attempted_at;
\* source is "scan": a shell that no provider was asked for.
Row == [found : BOOLEAN, title : BOOLEAN, custom : BOOLEAN,
        tried : {"never", "fresh", "old"}, shell : BOOLEAN]

NoRow == [none |-> TRUE]

Has(c) == cache[c] # NoRow

NoFood == [food |-> "none"]
NoTarget == 0

\* own: the user chose the food or its settings.
Target == [id : Nat \ {NoTarget}, code : Codes, food : Foods,
           by : {"manual", "auto", "auto_confirmed"}, own : BOOLEAN]

TargetsOf(c) == {t \in targets : t.code = c}

Ids(ts) == {t.id : t \in ts}

Stages == {"idle", "gate", "route", "process", "lookup", "store", "match",
           "add", "ended"}

Answers == {"none", "routed", "failed", "unknown", "noted"}

Request ==
    [at : Stages, op : {"scan", "map", "lookup"}, code : Codes,
     ids : SUBSET Nat,             \* targets read earlier, or routed
     loaded : Row \cup {NoRow},    \* the cache row in its session
     hit : BOOLEAN,                \* a provider knew the product
     food : Foods \cup {NoFood}, answer : Answers]

TypeOK ==
    /\ cache \in [Codes -> Row \cup {NoRow}]
    /\ targets \subseteq Target /\ IsFiniteSet(targets)
    /\ known \subseteq Codes
    /\ req \in [Requests -> Request]
    /\ edits \in 0..MaxEdits
    /\ crossed \subseteq Requests /\ deleted \subseteq Codes

Init ==
    /\ cache = [c \in Codes |-> NoRow] /\ targets = {} /\ known = {}
    /\ req \in [Requests ->
           [at : {"idle"}, op : {"scan", "map", "lookup"}, code : Codes,
            ids : {{}}, loaded : {NoRow}, hit : {FALSE}, food : {NoFood},
            answer : {"none"}]]
    /\ edits = 0 /\ crossed = {} /\ deleted = {}

Busy(r) == req[r].at \notin {"idle", "ended"}

\* Request r moves on; the others on its barcode are crossed by what it wrote.
Writes(c, rs) ==
    crossed' = crossed \cup {q \in Requests \ rs : Busy(q) /\ req[q].code = c}

Begin(r, op, c) == req[r].at = "idle" /\ req[r].op = op /\ req[r].code = c

Goes(r, new) == req' = [req EXCEPT ![r] = new]

Ends(r, answer) == Goes(r, [req[r] EXCEPT !.at = "ended", !.answer = answer])

-----------------------------------------------------------------------------
(* app/services/barcode_state.py                                           *)

Shell == [found |-> FALSE, title |-> FALSE, custom |-> FALSE,
          tried |-> "never", shell |-> TRUE]

\* ensure_cache_shell
Restored(c) == IF Has(c) THEN cache ELSE [cache EXCEPT ![c] = Shell]

\* drop_stale_lookup_shell: a row that never stood for a lookup goes, so that
\* the providers are asked.
DropsStaleShell(c) ==
    IF /\ c \in Numeric /\ TargetsOf(c) = {} /\ Has(c)
       /\ cache[c].shell /\ ~cache[c].found /\ cache[c].tried = "never"
    THEN [cache EXCEPT ![c] = NoRow]
    ELSE cache

-----------------------------------------------------------------------------
(* A scan: scan_gateway.scan, fast_scan_barcode, _route_known_targets.     *)

ScanArrives(r, c) ==
    /\ Begin(r, "scan", c)
    /\ cache' = IF TargetsOf(c) = {} THEN DropsStaleShell(c) ELSE Restored(c)
    /\ Goes(r, [req[r] EXCEPT !.at = "gate"])
    /\ Writes(c, {r})
    /\ deleted' = deleted \ {c}
    /\ UNCHANGED <<targets, known, edits>>

\* _local_label finds the targets, whose ids the job takes along, or none.
ScanLooks(r, c) ==
    /\ req[r].at = "gate" /\ req[r].code = c
    /\ known' = known \cup {c}
    /\ Goes(r, [req[r] EXCEPT !.ids = Ids(TargetsOf(c)),
                              !.at = IF TargetsOf(c) = {} THEN "process"
                                                          ELSE "route"])
    /\ UNCHANGED <<cache, targets, edits, crossed, deleted>>

\* The pool thread reads them again by id, whatever barcode they are of now.
Route(r) ==
    /\ req[r].at = "route"
    /\ LET rows == {t \in targets : t.id \in req[r].ids} IN
       Goes(r, [req[r] EXCEPT
                   !.at = "ended", !.ids = Ids(rows),
                   !.answer = IF rows = {} THEN "failed" ELSE "routed"])
    /\ UNCHANGED <<cache, targets, known, edits, crossed, deleted>>

\* _ensure_raw_custom_cache
Raw == [found |-> FALSE, title |-> TRUE, custom |-> FALSE,
        tried |-> "fresh", shell |-> FALSE]

\* Mutant: a product that was found is looked up again when it is old.
NeedsLookupAgain(c) ==
    c \in Numeric /\ (Has(c) => cache[c].tried = "old")

\* A scan asks the providers: no row, or a miss that has expired.
NeedsLookup(c) ==
    c \in Numeric /\ (Has(c) => ~cache[c].found /\ cache[c].tried = "old")

\* _process_scan up to the lookup.
Process(r, c) ==
    /\ req[r].at = "process" /\ req[r].code = c
    /\ UNCHANGED <<targets, known, edits, deleted>>
    /\ \/ /\ TargetsOf(c) # {}
          /\ Goes(r, [req[r] EXCEPT !.at = "ended", !.answer = "routed",
                                    !.ids = Ids(TargetsOf(c))])
          /\ UNCHANGED <<cache, crossed>>
       \/ /\ TargetsOf(c) = {} /\ NeedsLookup(c)
          /\ Goes(r, [req[r] EXCEPT !.at = "lookup", !.loaded = cache[c]])
          /\ UNCHANGED <<cache, crossed>>
       \/ /\ TargetsOf(c) = {} /\ ~NeedsLookup(c) /\ Has(c)
          /\ IF cache[c].found THEN Goes(r, [req[r] EXCEPT !.at = "match"])
                               ELSE Ends(r, "unknown")
          /\ UNCHANGED <<cache, crossed>>
       \/ /\ TargetsOf(c) = {} /\ ~NeedsLookup(c) /\ ~Has(c)
          /\ cache' = [cache EXCEPT ![c] = Raw]
          /\ Ends(r, "unknown")
          /\ Writes(c, {r})

-----------------------------------------------------------------------------
(* perform_lookup: the primary provider, then the secondary one within a   *)
(* budget of three seconds, then the cache row.                            *)

\* lookup_openfoodfacts, lookup_upcdatabase: a product with a title, or a
\* miss, which an error status, an unreadable body or a time-out is too.
ProviderAnswers == BOOLEAN

\* The first of the providers that has an answer within the budget. A row
\* that the session has loaded is not read again.
Answered(r, c) ==
    /\ req[r].at = "lookup" /\ req[r].code = c
    /\ \E hit \in ProviderAnswers :
           Goes(r, [req[r] EXCEPT
                       !.at = "store", !.hit = hit,
                       !.loaded = IF @ = NoRow THEN cache[c] ELSE @])
    /\ UNCHANGED <<cache, targets, known, edits, crossed, deleted>>

\* An UPDATE sets the columns that differ from what the session has loaded.
Stored(row, loaded, hit) ==
    [row EXCEPT !.found = IF loaded.found = hit THEN @ ELSE hit,
                !.title = @ \/ hit, !.tried = "fresh", !.shell = FALSE]

\* A row inserted by another request (IntegrityError) or deleted by one
\* (StaleDataError) fails the request; so do a busy database and a restart.
StoreFails(r, c) ==
    /\ req[r].at = "store" /\ req[r].code = c
    /\ Ends(r, "failed")
    /\ UNCHANGED <<cache, targets, known, edits, crossed, deleted>>

Store(r, c) ==
    LET new == IF req[r].loaded = NoRow
               THEN Stored(Shell, Shell, req[r].hit)
               ELSE Stored(cache[c], req[r].loaded, req[r].hit)
    IN
    /\ req[r].at = "store" /\ req[r].code = c
    /\ (req[r].loaded = NoRow) = (cache[c] = NoRow)
    /\ cache' = [cache EXCEPT ![c] = new]
    /\ IF req[r].op = "scan" /\ new.found
       THEN Goes(r, [req[r] EXCEPT !.at = "match"])
       ELSE Ends(r, IF req[r].op = "scan" THEN "unknown" ELSE "none")
    /\ Writes(c, {r})
    /\ UNCHANGED <<targets, known, edits, deleted>>

\* barcode_retry_lookup; barcode_refresh_lookup drops the user's title first
\* and keeps the row it has loaded.
LookUpAgain(r, c) ==
    /\ Begin(r, "lookup", c)
    /\ \/ /\ c \in Numeric
          /\ Goes(r, [req[r] EXCEPT !.at = "lookup"])
          /\ UNCHANGED <<cache, crossed>>
       \/ /\ Has(c)
          /\ LET row == [cache[c] EXCEPT !.custom = FALSE] IN
             /\ cache' = [cache EXCEPT ![c] = row]
             /\ Goes(r, [req[r] EXCEPT
                            !.loaded = row,
                            !.at = IF c \in Numeric THEN "lookup" ELSE "ended"])
          /\ Writes(c, {r})
    /\ deleted' = deleted \ {c}
    /\ UNCHANGED <<targets, known, edits>>

-----------------------------------------------------------------------------
(* add_target                                                              *)

\* Mutant: it does not look for a target it may update.
SameTargetNever(c, f) == {}

SameTarget(c, f) == {t \in TargetsOf(c) : t.food = f}

AddLooks(r, c, f) ==
    Goes(r, [req[r] EXCEPT !.at = "add", !.food = f,
                           !.ids = IF SameTarget(c, f) = {} THEN {}
                                   ELSE {Min(Ids(SameTarget(c, f)))}])

\* fuzzy_match ranks the Foods by the title: any may come out first, or none
\* well enough or clearly enough.
BestMatches == Foods \cup {NoFood}

\* try_auto_map: the best Food is linked, or the scan becomes a note.
Match(r, c) ==
    /\ req[r].at = "match" /\ req[r].code = c
    /\ \E f \in BestMatches :
           IF f = NoFood THEN Ends(r, "noted") ELSE AddLooks(r, c, f)
    /\ UNCHANGED <<cache, targets, known, edits, crossed, deleted>>

\* barcode_map, barcode_create_and_map and barcode_map_recipe once the Food
\* is in the mirror.
Map(r, c) ==
    /\ Begin(r, "map", c)
    /\ \E f \in Foods : AddLooks(r, c, f)
    /\ deleted' = deleted \ {c}
    /\ UNCHANGED <<cache, targets, known, edits, crossed>>

\* SQLite gives the greatest id in use plus one.
NewId == 1 + Max({0} \cup Ids(targets))

\* The row found is overwritten as a whole, else one is added. A scan then
\* routes every target there is.
Add(r, c) ==
    LET user == req[r].op = "map"
        set(id) == [id |-> id, code |-> c, food |-> req[r].food, own |-> user,
                    by |-> IF user THEN "manual" ELSE "auto"]
    IN
    /\ req[r].at = "add" /\ req[r].code = c
    /\ \/ req[r].ids = {} /\ targets' = targets \cup {set(NewId)}
       \/ \E t \in targets :
              /\ req[r].ids = {t.id}
              /\ targets' = (targets \ {t})
                            \cup {[set(t.id) EXCEPT !.code = t.code, !.food = t.food]}
    /\ Goes(r, [req[r] EXCEPT
                   !.at = "ended",
                   !.answer = IF user THEN "none" ELSE "routed",
                   !.ids = Ids({t \in targets' : t.code = c})])
    /\ Writes(c, {r})
    /\ UNCHANGED <<cache, known, edits, deleted>>

\* The row found is gone: StaleDataError.
AddFails(r, c) ==
    /\ req[r].at = "add" /\ req[r].code = c
    /\ req[r].ids # {} /\ req[r].ids \cap Ids(targets) = {}
    /\ Ends(r, "failed")
    /\ UNCHANGED <<cache, targets, known, edits, crossed, deleted>>

-----------------------------------------------------------------------------
(* The quick requests of the user: one transaction each.                   *)

Edit(c) ==
    /\ edits < MaxEdits
    /\ edits' = edits + 1
    /\ Writes(c, {})
    /\ UNCHANGED req

\* barcode_target_settings, barcode_mapping_settings
Settings ==
    \E t \in targets :
        /\ Edit(t.code)
        /\ targets' = (targets \ {t}) \cup {[t EXCEPT !.own = TRUE]}
        /\ UNCHANGED <<cache, known, deleted>>

\* barcode_confirm
Confirm(c) ==
    /\ Edit(c)
    /\ \E t \in TargetsOf(c) : t.by = "auto"
    /\ targets' = {IF t.code = c /\ t.by = "auto"
                   THEN [t EXCEPT !.by = "auto_confirmed", !.own = TRUE]
                   ELSE t : t \in targets}
    /\ UNCHANGED <<cache, known, deleted>>

\* barcode_target_delete, remove_item_mapping
DeleteTarget ==
    \E t \in targets :
        /\ Edit(t.code)
        /\ targets' = targets \ {t}
        /\ UNCHANGED <<cache, known, deleted>>

\* barcode_unmap
Unmap(c) ==
    /\ Edit(c)
    /\ TargetsOf(c) # {}
    /\ targets' = targets \ TargetsOf(c)
    /\ UNCHANGED <<cache, known, deleted>>

\* barcode_delete
Delete(c) ==
    /\ Edit(c)
    /\ targets' = targets \ TargetsOf(c)
    /\ cache' = [cache EXCEPT ![c] = NoRow]
    /\ known' = known \ {c}
    /\ deleted' = IF \E r \in Requests : Busy(r) /\ req[r].code = c
                  THEN deleted ELSE deleted \cup {c}

\* barcode_metadata: the user's title, or none.
Metadata(c) ==
    /\ Edit(c)
    /\ Has(c)
    /\ \E given \in BOOLEAN :
           cache' = [cache EXCEPT ![c].custom = given,
                                  ![c].found = given \/ cache[c].title]
    /\ UNCHANGED <<targets, known, deleted>>

\* barcode_create_manual: with or without a title.
CreateManual(c) ==
    /\ Edit(c)
    /\ \E given \in BOOLEAN :
           cache' = [cache EXCEPT ![c] =
               IF ~Has(c)
               THEN [found |-> given, title |-> given, custom |-> given,
                     tried |-> "fresh", shell |-> FALSE]
               ELSE [cache[c] EXCEPT !.custom = @ \/ given, !.found = @ \/ given]]
    /\ deleted' = deleted \ {c}
    /\ UNCHANGED <<targets, known>>

\* recover_known_barcode_cache, before the page of a barcode is rendered.
ViewPage(c) ==
    /\ Edit(c)
    /\ c \in known \/ TargetsOf(c) # {}
    /\ ~Has(c)
    /\ cache' = Restored(c)
    /\ UNCHANGED <<targets, known, deleted>>

\* LOOKUP_TTL_DAYS pass. No request takes as long.
Expire(c) ==
    /\ edits < MaxEdits
    /\ edits' = edits + 1
    /\ Has(c) /\ cache[c].tried = "fresh"
    /\ \A r \in Requests : ~Busy(r)
    /\ cache' = [cache EXCEPT ![c].tried = "old"]
    /\ UNCHANGED <<targets, known, req, crossed, deleted>>

-----------------------------------------------------------------------------
Handles(r, c) ==
    \/ ScanArrives(r, c) \/ ScanLooks(r, c) \/ Process(r, c)
    \/ Answered(r, c) \/ StoreFails(r, c) \/ Store(r, c) \/ LookUpAgain(r, c)
    \/ Match(r, c) \/ Map(r, c) \/ Add(r, c) \/ AddFails(r, c)

Next ==
    \/ \E r \in Requests : Route(r) \/ \E c \in Codes : Handles(r, c)
    \/ \E c \in Codes :
           \/ Confirm(c) \/ Unmap(c) \/ Delete(c) \/ Metadata(c)
           \/ CreateManual(c) \/ ViewPage(c) \/ Expire(c)
    \/ Settings \/ DeleteTarget

Spec == Init /\ [][Next]_vars

-----------------------------------------------------------------------------
Steps(r) == req[r].op = "scan" /\ req'[r] # req[r]

\* "A Food/recipe already attached to the barcode is updated in place instead
\* of creating another identical row" (targets.py:82-83), which a scan would
\* add twice from then on: so it is, as long as no two requests of the
\* barcode overlapped.
NoTwins ==
    crossed = {} => \A t, u \in targets : t.code = u.code /\ t.food = u.food => t = u

\* A barcode that counts as found has a title, by which it is matched and
\* put on the list, except while its title is looked up again or after that
\* failed: the user's title is dropped before (barcodes.py:298-300).
FoundHasTitle ==
    \A c \in Numeric :
        Has(c) /\ cache[c].found => \/ cache[c].title \/ cache[c].custom
                                    \/ \E r \in Requests :
                                           /\ req[r].op = "lookup" /\ req[r].code = c
                                           /\ Busy(r) \/ req[r].answer = "failed"

\* A deleted barcode stays deleted until it is scanned, created or linked
\* again: opening its page does not bring it back.
StaysDeleted == \A c \in deleted : ~Has(c) /\ TargetsOf(c) = {}

\* Whatever earlier requests left behind, a scan that no other request of
\* its barcode crosses adds a target only to a barcode without any, takes
\* nothing from those that are linked, and keeps what was found.
KeepsLinks(r) ==
    /\ targets \subseteq targets'
    /\ targets' # targets => TargetsOf(req[r].code) = {}
    /\ Has(req[r].code) /\ cache[req[r].code].found => cache'[req[r].code].found

ScansKeepLinks ==
    [][\A r \in Requests : Steps(r) /\ r \notin crossed' => KeepsLinks(r)]_vars

\* Such a scan routes all targets of its barcode and no other ones, and it
\* calls a barcode unknown only when its providers were asked.
RoutesLinks(r) ==
    /\ req'[r].answer = "routed" =>
           req'[r].ids = Ids({u \in targets' : u.code = req[r].code})
    /\ req'[r].answer = "unknown" /\ req[r].code \in Numeric =>
           cache'[req[r].code].tried # "never"

ScansRouteLinks ==
    [][\A r \in Requests : Steps(r) /\ r \notin crossed' => RoutesLinks(r)]_vars

\* The rows of a barcode belong together: one link to a Food, a title where
\* it is called found, and none of it left after it was deleted (add_target,
\* lookup_barcode, delete_barcode).
LinksCorrect == TypeOK /\ NoTwins /\ FoundHasTitle /\ StaysDeleted

\* What a scan does with the links and rows that it finds (_process_scan).
ScansObeyLinks == ScansKeepLinks /\ ScansRouteLinks

-----------------------------------------------------------------------------
(* What the sources say and the code does not keep (README, Divergences).  *)

\* A job whose targets are gone fails with "No enabled targets remain for
\* this barcode" (scan_fast_v11.py:131): no scan routes another barcode's.
RoutesOwnTargets ==
    [][\A r \in Requests : Steps(r) /\ req'[r].answer = "routed" =>
           \A t \in targets' : t.id \in req'[r].ids => t.code = req[r].code]_vars
=============================================================================
