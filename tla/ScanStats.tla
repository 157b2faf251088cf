----------------------------- MODULE ScanStats -----------------------------
(***************************************************************************)
(* The all-time statistics of scans (app/services/scan_stats.py, per       *)
(* target and barcode, and barcode_stats.py, per barcode) beside the raw   *)
(* scan rows of app/models.py. A scan adds its row and its counts in one   *)
(* transaction; start-up builds each of the two tables once from the rows  *)
(* of older versions, before B2M serves; a daily job removes old rows, and *)
(* users remove rows and barcodes (barcodes.py, integrations.py,           *)
(* settings.py).                                                           *)
(*                                                                         *)
(* Counts are added up over the days they are filed under. A scan has an   *)
(* entry of one table for each of its targets, and one of the other, under *)
(* AnyTarget, for itself.                                                  *)
(***************************************************************************)
EXTENDS Integers, FiniteSets, FiniteSetsExt

CONSTANTS
    Codes, Targets,
    Retention,   \* age after which rows are removed
    PurgeBatch,  \* batch_size of the removal
    MaxOld,      \* bound: rows of an older version
    MaxScans,    \* bound: scans
    MaxEdits,    \* bound: removals by users
    MaxFaults,   \* bound: failures and restarts
    MaxTime      \* bound of the clock

Tables == {"targets", "codes"}

AnyTarget == "any"

StatKeys == (Targets \cup {AnyTarget}) \X Codes

KeysOf(table) == IF table = "targets" THEN Targets \X Codes
                 ELSE {AnyTarget} \X Codes

VARIABLES
    raw,        \* rows of Activity that are scan events
    stat,       \* scan_daily_stats, barcode_daily_stats
    complete,   \* tables with a mark in system_state
    phase,      \* "clear", "fill": start-up builds the table; "up": serving
    table, filled,
    job,        \* the daily removal
    now, scans, edits, faults,
    seen        \* scans, each with the tables that count it (history)

bounds == <<now, scans, edits, faults>>

vars == <<raw, stat, complete, phase, table, filled, job, bounds, seen>>

Row == [id : Nat \ {0}, n : 1..(MaxOld + MaxScans), code : Codes,
        targets : SUBSET Targets, at : 0..MaxTime]

NoStat == [count |-> 0, first |-> -1, last |-> -1]

Stat == [count : Nat, first : (0..MaxTime) \cup {-1}, last : (0..MaxTime) \cup {-1}]

Idle == [at |-> "idle", cutoff |-> 0, ids |-> {}]

TypeOK ==
    /\ raw \subseteq Row /\ \A p, q \in raw : p.id = q.id => p = q
    /\ stat \in [StatKeys -> Stat]
    /\ complete \subseteq Tables
    /\ phase \in {"clear", "fill", "up"} /\ table \in Tables
    /\ filled \subseteq raw
    /\ job \in [at : {"idle", "look", "delete"}, cutoff : Int, ids : SUBSET Nat]
    /\ phase # "up" => job = Idle
    /\ now \in 0..MaxTime /\ scans \in 0..MaxScans
    /\ edits \in 0..MaxEdits /\ faults \in 0..MaxFaults

-----------------------------------------------------------------------------
(* What a row counts for.                                                  *)

\* activity_targets, _aggregate_rows: each target once; _row: the barcode.
Counted(p) == (p.targets \cup {AnyTarget}) \X {p.code}

\* INSERT ... ON CONFLICT DO UPDATE
Upserted(s, at) ==
    IF s.count = 0 THEN [count |-> 1, first |-> at, last |-> at]
    ELSE [count |-> s.count + 1, first |-> Min({s.first, at}),
          last |-> Max({s.last, at})]

With(s, p, keys) ==
    [k \in StatKeys |-> IF k \in keys \cap Counted(p) THEN Upserted(s[k], p.at)
                    ELSE s[k]]

\* The statistics of a set of rows under a key.
StatOf(ps, k) ==
    LET mine == {p \in ps : k \in Counted(p)}
    IN IF mine = {} THEN NoStat
       ELSE [count |-> Cardinality(mine), first |-> Min({p.at : p \in mine}),
             last |-> Max({p.at : p \in mine})]

\* target_scan_stats: a target on its page, over all barcodes.
TargetStats(f) ==
    LET ks == {k \in KeysOf("targets") : k[1] = f /\ stat[k].count > 0}
    IN IF ks = {} THEN NoStat
       ELSE [count |-> MapThenSumSet(LAMBDA k : stat[k].count, ks),
             first |-> Min({stat[k].first : k \in ks}),
             last |-> Max({stat[k].last : k \in ks})]

\* barcode_scan_stats
CodeStats(c) == stat[<<AnyTarget, c>>]

\* frequent_targets: most uses first, then the last used.
UsedMore(f, g) ==
    LET a == TargetStats(f)
        b == TargetStats(g)
    IN \/ a.count > b.count
       \/ a.count = b.count /\ a.last > b.last

\* Older versions kept rows only, or the statistics of targets as well.
Init ==
    /\ \E n \in 0..MaxOld :
           \E of \in [1..n -> Codes], to \in [1..n -> SUBSET Targets] :
               raw = {[id |-> i, n |-> i, code |-> of[i], targets |-> to[i],
                       at |-> 0] : i \in 1..n}
    /\ complete \in {{}, {"targets"}}
    /\ stat = [k \in StatKeys |-> IF \E t \in complete : k \in KeysOf(t)
                              THEN StatOf(raw, k) ELSE NoStat]
    /\ phase = "clear" /\ table = "targets" /\ filled = {} /\ job = Idle
    /\ now = 0 /\ scans = 0 /\ edits = 0 /\ faults = 0
    /\ seen = {[row |-> p, in |-> Tables] : p \in raw}

-----------------------------------------------------------------------------
(* Start-up (start_scheduler): one table after the other, serving after    *)
(* both, whether or not they were built.                                   *)

Onward ==
    IF table = "targets" THEN phase' = "clear" /\ table' = "codes"
    ELSE phase' = "up" /\ table' = "targets"

BuildStarts ==
    /\ phase = "clear"
    /\ IF table \in complete THEN Onward /\ UNCHANGED stat
       ELSE /\ phase' = "fill" /\ UNCHANGED table
            /\ stat' = [k \in StatKeys |-> IF k \in KeysOf(table) THEN NoStat
                                       ELSE stat[k]]
    /\ UNCHANGED <<raw, complete, filled, job, bounds, seen>>

\* A commit for each batch; the batches here have one row, so that start-up
\* can stop after any of them.
BuildBatch ==
    /\ phase = "fill"
    /\ \E p \in raw \ filled :
           /\ \A q \in raw \ filled : p.id <= q.id
           /\ stat' = With(stat, p, KeysOf(table))
           /\ filled' = filled \cup {p}
    /\ UNCHANGED <<raw, complete, phase, table, job, bounds, seen>>

BuildEnds ==
    /\ phase = "fill" /\ filled = raw
    /\ complete' = complete \cup {table} /\ filled' = {}
    /\ Onward
    /\ UNCHANGED <<raw, stat, job, bounds, seen>>

\* An exception is logged, and start-up goes on.
BuildFails ==
    /\ phase = "fill" /\ faults < MaxFaults
    /\ faults' = faults + 1 /\ filled' = {}
    /\ Onward
    /\ UNCHANGED <<raw, stat, complete, job, now, scans, edits, seen>>

Restart ==
    /\ faults < MaxFaults
    /\ faults' = faults + 1
    /\ phase' = "clear" /\ table' = "targets" /\ filled' = {} /\ job' = Idle
    /\ UNCHANGED <<raw, stat, complete, now, scans, edits, seen>>

-----------------------------------------------------------------------------
(* Scans and removals.                                                     *)

\* SQLite gives the greatest id and one more.
NewId == 1 + Max({0} \cup {p.id : p \in raw})

Scan(c, ts) ==
    LET p == [id |-> NewId, n |-> MaxOld + scans + 1, code |-> c, targets |-> ts,
              at |-> now] IN
    /\ phase = "up" /\ scans < MaxScans
    /\ raw' = raw \cup {p}
    /\ stat' = With(stat, p, StatKeys)
    /\ scans' = scans + 1
    /\ seen' = seen \cup {[row |-> p, in |-> Tables]}
    /\ UNCHANGED <<complete, phase, table, filled, job, now, edits, faults>>

Edit == phase = "up" /\ edits < MaxEdits /\ edits' = edits + 1

\* barcode_delete: rows and statistics, in one transaction.
DeleteCode(c) ==
    /\ Edit
    /\ raw' = {p \in raw : p.code # c}
    /\ stat' = [k \in StatKeys |-> IF k[2] = c THEN NoStat ELSE stat[k]]
    /\ seen' = {s \in seen : s.row.code # c}
    /\ UNCHANGED <<complete, phase, table, filled, job, now, scans, faults>>

\* Rows without their statistics: bulk_delete of barcodes or of rows, and the
\* resets of the settings page. A table that is still to be built will not
\* count them.
Forget(ps) ==
    /\ Edit
    /\ raw' = raw \ ps
    /\ seen' = {[s EXCEPT !.in = IF s.row \in ps THEN @ \cap complete ELSE @] :
                    s \in seen}
    /\ UNCHANGED <<stat, complete, phase, table, filled, job, now, scans, faults>>

BulkDelete == \/ \E c \in Codes : Forget({p \in raw : p.code = c})
              \/ \E p \in raw : Forget({p})

ResetActivities == Forget(raw)

\* Mutant: the other table is not asked for.
TargetsComplete == "targets" \in complete

\* barcode_stats_ready, and the mark purge_raw_scan_history looks for.
MayPurge == "codes" \in complete /\ "targets" \in complete

PurgeStarts ==
    /\ phase = "up" /\ job = Idle /\ MayPurge
    /\ \E p \in raw : p.at < now - Retention
    /\ job' = [at |-> "look", cutoff |-> now - Retention, ids |-> {}]
    /\ UNCHANGED <<raw, stat, complete, phase, table, filled, bounds, seen>>

PurgeLook ==
    LET old == {p \in raw : p.at < job.cutoff}
        first == {p.id : p \in {q \in old :
                     Cardinality({o \in old : o.id < q.id}) < PurgeBatch}} IN
    /\ job.at = "look"
    /\ job' = IF first = {} THEN Idle
              ELSE [job EXCEPT !.at = "delete", !.ids = first]
    /\ UNCHANGED <<raw, stat, complete, phase, table, filled, bounds, seen>>

\* By the ids that were read.
PurgeDelete ==
    /\ job.at = "delete"
    /\ raw' = {p \in raw : p.id \notin job.ids}
    /\ job' = [job EXCEPT !.at = "look", !.ids = {}]
    /\ UNCHANGED <<stat, complete, phase, table, filled, bounds, seen>>

Tick ==
    /\ now < MaxTime /\ phase = "up"
    /\ now' = now + 1
    /\ UNCHANGED <<raw, stat, complete, phase, table, filled, job, scans, edits,
                   faults, seen>>

Next ==
    \/ BuildStarts \/ BuildBatch \/ BuildEnds \/ BuildFails \/ Restart
    \/ \E c \in Codes : DeleteCode(c) \/ \E ts \in SUBSET Targets : Scan(c, ts)
    \/ BulkDelete \/ ResetActivities
    \/ PurgeStarts \/ PurgeLook \/ PurgeDelete
    \/ Tick

Spec == Init /\ [][Next]_vars

-----------------------------------------------------------------------------
Counts(t) == {s.row : s \in {x \in seen : t \in x.in}}

\* A table with its mark counts every scan once for each of its targets, also
\* those whose rows are gone, whatever start-up was stopped at.
TablesExact ==
    \A t \in complete : \A k \in KeysOf(t) : stat[k] = StatOf(Counts(t), k)

\* No row is removed that a table without its mark has still to count.
RowsWait == \A t \in Tables \ complete : Counts(t) = raw

\* A page shows a barcode and a target the scans each had, and puts the target
\* in front that had more of them, or had its last one later.
PagesAgree ==
    /\ "codes" \in complete => \A c \in Codes :
           CodeStats(c).count = Cardinality({p \in Counts("codes") : p.code = c})
    /\ "targets" \in complete =>
           LET Mine(f) == {p \in Counts("targets") : f \in p.targets} IN
           /\ \A f \in Targets : TargetStats(f).count = Cardinality(Mine(f))
           /\ \A f, g \in Targets :
                  /\ Mine(f) # {} /\ Mine(g) \subseteq Mine(f)
                  => ~UsedMore(g, f)

\* The statistics outlive rows, failed start-ups and restarts
\* (ensure_scan_stats_backfilled, purge_raw_scan_history).
ScanStatsCorrect == TypeOK /\ TablesExact /\ RowsWait /\ PagesAgree

-----------------------------------------------------------------------------
(* What the sources say and the code does not keep (README, Divergences).  *)

\* "Delete old raw scan rows" (scan_stats.py:289): the daily job removes no
\* row that is not old.
PurgesOldOnly ==
    [][job.at = "delete" /\ job'.at = "look" =>
           \A p \in raw \ raw' : p.at < job.cutoff]_vars
=============================================================================
