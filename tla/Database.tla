------------------------------ MODULE Database ------------------------------
(***************************************************************************)
(* The life of what B2M has stored: an upgrade from an old release at      *)
(* start-up (app/database.py, app/services/schema_migrations.py), the      *)
(* label generator, which still writes the legacy table of links           *)
(* (app/routers/labels.py), the maintenance pages, which delete whole      *)
(* tables (app/routers/settings.py, access_v23.py), and the backup of the  *)
(* running server (app/services/database_backup.py), which the operator    *)
(* may put in the place of the database.                                   *)
(*                                                                         *)
(* A request is one transaction. A start-up is many: pysqlite commits a    *)
(* schema change at once, and the server may be killed after each.         *)
(***************************************************************************)
EXTENDS Integers, FiniteSets

CONSTANTS
    Codes,      \* barcodes
    Foods,      \* Mealie Foods
    MaxWrites,  \* bound: requests that write
    MaxStarts   \* bound: start-ups

ASSUME DatabaseAssumption == MaxWrites \in Nat /\ MaxStarts \in Nat

VARIABLES
    db,         \* what is committed
    at,         \* the server: down, a step of its start-up, or up
    copy,       \* the backup in the making, or the last one made
    writes, starts,
    deleted,    \* barcodes deleted and not used since (history)
    touched,    \* barcodes that requests linked, unlinked or registered since
                \* the server started (history)
    before,     \* what was stored when the server was last up (history)
    cut         \* columns left without their values by a kill (history)

vars == <<db, at, copy, writes, starts, deleted, touched, before, cut>>

NoFood == [food |-> "none"]
NoRow == [none |-> TRUE]

\* The columns whose values an upgrade computes from the old ones, and the
\* migrations of the registry.
Columns == {"is_dismissed", "updated_at"}
Migrations == {"forward-barcode-targets", "item-default-quantity"}

Row == [found : BOOLEAN, custom : BOOLEAN]

\* A column is there with the values of the rows that are older ("filled"),
\* or without them ("empty").
Content ==
    [links : SUBSET (Codes \X Foods),           \* barcode_targets
     mapping : [Codes -> Foods \cup {NoFood}],  \* barcode_mappings
     ids : BOOLEAN,                             \* it names its targets by id
     cache : [Codes -> Row \cup {NoRow}],       \* barcode_cache
     items : SUBSET Foods,
     seen : SUBSET Codes,                       \* activities, retry_queue
     tables : {"none", "old", "all"},
     columns : [Columns -> {"missing", "empty", "filled"}],
     done : SUBSET Migrations]                  \* schema_migrations

Steps == {"is_dismissed", "is_dismissed_rows", "cache", "updated_at",
          "updated_at_rows", "mappings", "tables", "migrations"}

\* The column whose values a step fills in.
Fills == [is_dismissed |-> "is_dismissed_rows", updated_at |-> "updated_at_rows"]

NoCopy == [at |-> "idle"]

TypeOK ==
    /\ db \in Content
    /\ at \in {"down", "up"} \cup Steps
    /\ \/ copy = NoCopy
       \/ /\ DOMAIN copy = {"at", "first", "last", "version"}
          /\ copy.at \in {"begun", "half", "done"}
          /\ copy.first \in Content /\ copy.last \in Content
          /\ copy.version \in 0..MaxWrites
    /\ writes \in 0..MaxWrites /\ starts \in 0..MaxStarts
    /\ deleted \subseteq Codes /\ touched \subseteq Codes
    /\ before \in Content /\ cut \subseteq Columns

Linked(d, c) == {f \in Foods : <<c, f>> \in d.links}

\* A new installation, or the database of a release that knew no
\* barcode_targets, none of the columns and no registry of migrations. Older
\* ones named the target of a link by something else than its id.
Old(d) ==
    /\ d.tables = "old" /\ d.links = {} /\ d.done = {}
    /\ d.columns = [k \in Columns |-> "missing"]
    /\ \A c \in Codes : d.mapping[c] # NoFood => d.mapping[c] \in d.items

New(d) ==
    /\ d.tables = "none" /\ d.ids /\ d.links = {} /\ d.done = {}
    /\ d.columns = [k \in Columns |-> "missing"]
    /\ d.mapping = [c \in Codes |-> NoFood] /\ d.items = {}

Init ==
    /\ db \in [links : {{}}, mapping : [Codes -> Foods \cup {NoFood}],
               ids : BOOLEAN,
               cache : {[c \in Codes |-> NoRow]}, items : SUBSET Foods,
               seen : {{}}, tables : {"none", "old"},
               columns : {[k \in Columns |-> "missing"]}, done : {{}}]
    /\ Old(db) \/ New(db)
    /\ at = "down" /\ copy = NoCopy
    /\ writes = 0 /\ starts = 0 /\ deleted = {} /\ touched = {}
    /\ before = db /\ cut = {}

-----------------------------------------------------------------------------
(* Start-up: init_db.                                                      *)

Starts ==
    /\ at = "down" /\ starts < MaxStarts
    /\ at' = "is_dismissed" /\ starts' = starts + 1 /\ touched' = {}
    /\ UNCHANGED <<db, copy, writes, deleted, before, cut>>

Step(from, to, new) ==
    /\ at = from /\ at' = to
    /\ db' = new
    /\ before' = IF to = "up" THEN new ELSE before
    /\ UNCHANGED <<copy, writes, starts, deleted, touched, cut>>

\* A column is added, and in a transaction of its own its values; a table
\* that is not there is passed over.
AddColumn(k, rows, next) ==
    IF db.tables # "none" /\ db.columns[k] = "missing"
    THEN Step(k, rows, [db EXCEPT !.columns[k] = "empty"])
    ELSE Step(k, next, db)

FillColumn(k, rows, next) == Step(rows, next, [db EXCEPT !.columns[k] = "filled"])

\* A barcode with a title by the user counts as found.
RepairCache ==
    Step("cache", "updated_at",
         [db EXCEPT !.cache = [c \in Codes |->
             IF db.cache[c] # NoRow /\ db.cache[c].custom
             THEN [db.cache[c] EXCEPT !.found = TRUE] ELSE db.cache[c]]])

NoMapping == [c \in Codes |-> NoFood]
NoCache == [c \in Codes |-> NoRow]

\* Mutant: the table is dropped whatever its columns.
DropAnyMappings ==
    Step("mappings", "tables",
         IF db.tables # "none" THEN [db EXCEPT !.mapping = NoMapping, !.ids = TRUE]
                               ELSE db)

\* A table of links that knows no target ids is dropped with its rows, and
\* made again without them by the next step or the next start.
DropMappings ==
    Step("mappings", "tables",
         IF db.tables # "none" /\ ~db.ids
         THEN [db EXCEPT !.mapping = NoMapping, !.ids = TRUE] ELSE db)

\* Base.metadata.create_all: what is missing, with all its columns.
CreateTables ==
    Step("tables", "migrations",
         [db EXCEPT !.tables = "all",
                    !.columns = IF db.tables = "none"
                                THEN [k \in Columns |-> "filled"] ELSE @])

\* Mutant: only the first start-up forwards them.
ForwardedOnce(d) ==
    IF d.done # {} THEN d.links
    ELSE d.links \cup {<<c, d.mapping[c]>> :
                           c \in {x \in Codes : d.mapping[x] # NoFood}}

\* _forward_barcode_targets
Forwarded(d) ==
    d.links \cup {<<c, d.mapping[c]>> :
                      c \in {x \in Codes : d.mapping[x] # NoFood /\ Linked(d, x) = {}}}

\* run_schema_migrations: one transaction.
Migrate ==
    Step("migrations", "up",
         [db EXCEPT !.links = Forwarded(db), !.done = Migrations])

\* A stop, or a kill at any point.
Stops ==
    /\ at # "down"
    /\ at' = "down"
    /\ cut' = cut \cup {k \in Columns : at = Fills[k]}
    /\ copy' = IF copy # NoCopy /\ copy.at # "done" THEN NoCopy ELSE copy
    /\ UNCHANGED <<db, writes, starts, deleted, touched, before>>

StartsUp ==
    \/ Starts
    \/ AddColumn("is_dismissed", "is_dismissed_rows", "cache")
    \/ FillColumn("is_dismissed", "is_dismissed_rows", "cache")
    \/ RepairCache
    \/ AddColumn("updated_at", "updated_at_rows", "mappings")
    \/ FillColumn("updated_at", "updated_at_rows", "mappings")
    \/ DropMappings
    \/ CreateTables
    \/ Migrate

-----------------------------------------------------------------------------
(* create_verified_backup: SQLite copies the pages in portions and begins  *)
(* again when a portion follows a write.                                   *)

BackupBegins ==
    /\ at = "up"
    /\ copy = NoCopy \/ copy.at = "done"
    /\ copy' = [at |-> "begun", first |-> db, last |-> db, version |-> writes]
    /\ UNCHANGED <<db, at, writes, starts, deleted, touched, before, cut>>

CopyFirst ==
    /\ copy # NoCopy /\ copy.at = "begun"
    /\ copy' = [copy EXCEPT !.at = "half", !.first = db, !.last = db,
                            !.version = writes]
    /\ UNCHANGED <<db, at, writes, starts, deleted, touched, before, cut>>

Copied(c, version, d) ==
    IF c.version # version THEN [c EXCEPT !.at = "begun"]
                           ELSE [c EXCEPT !.at = "done", !.last = d]

CopyLast ==
    /\ copy # NoCopy /\ copy.at = "half"
    /\ copy' = Copied(copy, writes, db)
    /\ UNCHANGED <<db, at, writes, starts, deleted, touched, before, cut>>

\* The tables in the first portion and those in the last one.
InBackup == [copy.last EXCEPT !.links = copy.first.links,
                              !.mapping = copy.first.mapping]

\* The operator puts the backup in the place of the database.
Restore ==
    /\ at = "down" /\ copy # NoCopy /\ copy.at = "done"
    /\ db' = InBackup /\ before' = InBackup
    /\ deleted' = {}
    /\ UNCHANGED <<at, copy, writes, starts, touched, cut>>

-----------------------------------------------------------------------------
(* Requests                                                                *)

Request(new) ==
    /\ at = "up" /\ writes < MaxWrites
    /\ db' = new /\ before' = new
    /\ writes' = writes + 1
    /\ UNCHANGED <<at, copy, starts, cut>>

Uses(c) == deleted' = deleted \ {c}

\* register_labels_batch: a generated code gets a title, and a Food's its
\* row of the mirror and of the legacy table.
Register(c, f) ==
    /\ Request([db EXCEPT
          !.cache[c] = [found |-> TRUE, custom |-> TRUE],
          !.items = @ \cup ({f} \ {NoFood}),
          !.mapping[c] = IF f = NoFood THEN @ ELSE f])
    /\ Uses(c) /\ touched' = touched \cup {c}

\* A scan: it is recorded, and a barcode with a title but no link may be
\* linked by that.
Scan(c) ==
    /\ \E fs \in {{}} \cup {{f} : f \in db.items} :
          /\ fs # {} => /\ Linked(db, c) = {}
                        /\ db.cache[c] # NoRow /\ db.cache[c].found
          /\ Request([db EXCEPT
                !.seen = @ \cup {c},
                !.cache[c] = IF @ = NoRow THEN [found |-> FALSE, custom |-> FALSE]
                                          ELSE @,
                !.links = @ \cup ({c} \X fs)])
    /\ Uses(c) /\ touched' = touched \cup {c}

\* barcode_map
Link(c, f) ==
    /\ f \in db.items
    /\ Request([db EXCEPT !.links = @ \cup {<<c, f>>}])
    /\ Uses(c) /\ touched' = touched \cup {c}

\* barcode_unmap, barcode_target_delete, remove_item_mapping
Unlink(c) ==
    /\ \E fs \in SUBSET Linked(db, c) \ {{}} :
          Request([db EXCEPT !.links = @ \ ({c} \X fs)])
    /\ touched' = touched \cup {c} /\ UNCHANGED deleted

\* barcode_metadata sets a title, and with it that the barcode is found, or
\* takes it back; a lookup hits or misses and leaves the title alone.
Rename(c) ==
    /\ db.cache[c] # NoRow
    /\ \E row \in Row :
          /\ row.custom => row.found \/ db.cache[c].custom
          /\ Request([db EXCEPT !.cache[c] = row])
    /\ Uses(c) /\ UNCHANGED touched

DeletedFrom(d, c) ==
    [d EXCEPT !.links = @ \ ({c} \X Foods), !.cache[c] = NoRow,
              !.seen = @ \ {c}, !.mapping[c] = NoFood]

\* barcode_delete
Delete(c) ==
    /\ Request(DeletedFrom(db, c))
    /\ deleted' = deleted \cup {c} /\ touched' = touched \cup {c}

\* bulk_delete: the row of the legacy table stays, and the next start links
\* the barcode by it again.
BulkDelete(c) ==
    /\ Request([db EXCEPT !.links = @ \ ({c} \X Foods), !.cache[c] = NoRow,
                          !.seen = @ \ {c}])
    /\ touched' = touched \cup {c} /\ UNCHANGED deleted

\* sync_items_enhanced: Mealie's Foods; targets of those that are gone go.
Sync ==
    /\ \E fs \in SUBSET Foods :
          Request([db EXCEPT
              !.items = fs,
              !.links = {l \in @ : l[2] \notin db.items \ fs}])
    /\ touched' = Codes /\ UNCHANGED deleted

\* admin_purge_table, database_purge. Links to Foods are not in the list.
Purged(d, table) ==
    CASE table = "barcode_cache" -> [d EXCEPT !.cache = NoCache]
      [] table = "barcode_mappings" -> [d EXCEPT !.mapping = NoMapping]
      [] table = "items" -> [d EXCEPT !.items = {}, !.mapping = NoMapping]
      [] table = "activities" -> [d EXCEPT !.seen = {}]

Purge ==
    /\ \E table \in {"barcode_cache", "barcode_mappings", "items", "activities"} :
          Request(Purged(db, table))
    /\ touched' = Codes /\ UNCHANGED deleted

\* admin_reset; admin_factory_reset deletes the scanners' tokens too.
Reset ==
    /\ Request([db EXCEPT !.mapping = NoMapping, !.cache = NoCache,
                          !.items = {}, !.seen = {}])
    /\ touched' = Codes /\ UNCHANGED deleted

Next ==
    \/ StartsUp \/ Stops \/ Restore
    \/ BackupBegins \/ CopyFirst \/ CopyLast
    \/ \E c \in Codes :
           \/ \E f \in Foods \cup {NoFood} : Register(c, f)
           \/ \E f \in Foods : Link(c, f)
           \/ Scan(c) \/ Unlink(c) \/ Rename(c) \/ Delete(c) \/ BulkDelete(c)
    \/ Sync \/ Purge \/ Reset

Spec == Init /\ [][Next]_vars

-----------------------------------------------------------------------------
\* However often the server was killed on its way up, once it is up nothing
\* of an upgrade is left to do but the values of a column whose start-up was
\* killed before it had them, and a barcode that the old release or the label
\* generator linked is linked, unless a request of this run of the server
\* changed it.
Upgraded ==
    at = "up" =>
        /\ db.tables = "all" /\ db.ids /\ db.done = Migrations
        /\ \A k \in Columns \ cut : db.columns[k] = "filled"
        /\ \A k \in cut : db.columns[k] # "missing"
        /\ \A c \in Codes \ touched :
               db.mapping[c] # NoFood => Linked(db, c) # {}

\* A deleted barcode stays deleted through any number of restarts: "Remove
\* all barcode-owned state. FOOD:<id> codes created in the label generator
\* may still have a legacy BarcodeMapping row" (barcodes.py:467).
DeletedStaysGone ==
    \A c \in deleted : /\ Linked(db, c) = {} /\ db.mapping[c] = NoFood
                       /\ db.cache[c] = NoRow /\ c \notin db.seen

\* What one whole start-up makes of a row of barcode_cache.
Mended(old, new) ==
    IF old = NoRow THEN new = NoRow
    ELSE new = [custom |-> old.custom, found |-> old.found \/ old.custom]

\* e holds what d held: a table of links with target ids as it was, the links
\* of a linked barcode, one link for a barcode that only the legacy table
\* links, and every Food, scan and title.
Continues(d, e) ==
    /\ e.items = d.items /\ e.seen = d.seen
    /\ \A c \in Codes :
          /\ e.mapping[c] = IF d.ids THEN d.mapping[c] ELSE NoFood
          /\ Linked(e, c) = IF Linked(d, c) # {} THEN Linked(d, c)
                            ELSE {e.mapping[c]} \ {NoFood}
          /\ Mended(d.cache[c], e.cache[c])

StartContinues == at # "up" /\ at' = "up" => Continues(before, db')

\* Killed as often as it may be, with what its earlier tries have changed, a
\* start-up ends with what an undisturbed one would have made of the database
\* the server was last up with, or of the old release's (init_db,
\* run_schema_migrations).
StartsWhole == [][StartContinues]_vars

\* A backup holds what was committed at one moment since it was begun,
\* though requests write while it is made.
BackupIsSnapshot ==
    copy # NoCopy /\ copy.at = "done" => InBackup = copy.last

\* The database is whole when the server is up, what was deleted stays away,
\* and a backup is what the database was at one moment (init_db,
\* run_schema_migrations, barcode_delete, create_verified_sqlite_backup).
StoreCorrect == TypeOK /\ Upgraded /\ DeletedStaysGone /\ BackupIsSnapshot

-----------------------------------------------------------------------------
(* What the sources say and the code does not keep (README, Divergences).  *)

\* "Food, Recipe and Action entries create stable codes tied to the selected
\* target" (docs/using-the-app.md:43): a registered code is linked to the
\* Food it was registered for and to no other one.
LabelsTied ==
    \A c \in Codes : at = "up" /\ c \in touched /\ c \in db.seen /\ db.mapping[c] # NoFood
                         => db.mapping[c] \in Linked(db, c)

\* "Compatibility pass for pre-versioned additive SQLite schema changes"
\* (app/database.py:67): the upgrade of an old database takes no link away.
AdditiveUpgrade ==
    [][at \notin {"up", "down"} =>
           \A c \in Codes : db.mapping[c] # NoFood => db'.mapping[c] = db.mapping[c]]_vars
=============================================================================
