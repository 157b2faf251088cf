----------------------------- MODULE MCStorage -----------------------------
(***************************************************************************)
(* Database, Accounts, Settings and ScanStats for TLC: what outlives a     *)
(* restart. One of them runs in each behaviour: they use tables of their   *)
(* own.                                                                    *)
(***************************************************************************)
EXTENDS Database, TLC

CONSTANTS
    c1, f1, f2, n1, n2, b1, b2, q1, q2, k1, k2, v1, v2, low, wrong,
    Names, Browsers, Slots, MaxRequests,
    Keys, Raws, Values, Clamp, Bad, MaxForms,
    d1, d2, g1, g2,
    Bars, Goals, Retention, PurgeBatch, MaxOld, MaxScans, MaxRemovals,
    MaxFaults, MaxTime

VARIABLES
    part,   \* the component that runs
    users, manages, onboarded, cookie, req, count, had, crossed, setups,
    env, rows, memory, up, form, forms, boots, overlapped,
    raw, stat, complete, phase, table, filled, job, now, scans, removals,
    faults, seen

accountVars ==
    <<users, manages, onboarded, cookie, req, count, had, crossed, setups>>

settingVars == <<env, rows, memory, up, form, forms, boots, overlapped>>

statVars == <<raw, stat, complete, phase, table, filled, job, now, scans,
              removals, faults, seen>>

all == <<part, vars, accountVars, settingVars, statVars>>

A == INSTANCE Accounts

S == INSTANCE Settings WITH
         req <- form, count <- forms, starts <- boots, crossed <- overlapped,
         MaxRequests <- MaxForms

T == INSTANCE ScanStats WITH
         Codes <- Bars, Targets <- Goals, MaxEdits <- MaxRemovals,
         edits <- removals

\* The server answers a finite number of requests at a time, to some user of
\* some browser.
ASSUME AccountsAssumption ==
    /\ IsFiniteSet(Slots) /\ MaxRequests \in Nat
    /\ Names # {} /\ Browsers # {}

\* A page has settings, each with values; what is taken from a form or a row
\* is a value, or nothing, and no value stands for a row that is not there.
ASSUME SettingsAssumption ==
    /\ IsFiniteSet(Keys) /\ Keys # {} /\ MaxForms \in Nat
    /\ Values \subseteq Raws /\ Bad \notin Values /\ S!None \notin Raws
    /\ Clamp \in [Raws -> Values \cup {Bad}]

\* No target stands for a barcode itself.
ASSUME StatsAssumption ==
    /\ MaxOld \in Nat /\ MaxScans \in Nat /\ MaxRemovals \in Nat /\ MaxFaults \in Nat
    /\ MaxTime \in Nat /\ Retention \in Nat
    /\ T!AnyTarget \notin Goals

\* Two values, a number below the least one, and what is no choice.
MCClamp == v1 :> v1 @@ v2 :> v2 @@ low :> v1 @@ wrong :> Bad

DatabaseRests == db.mapping = [c \in Codes |-> NoFood] /\ db.items = {}
                 /\ db.tables = "none"

SettingsRest == /\ env = [k \in Keys |-> v1]
                /\ rows = [k \in Keys |-> S!None]

StatsRest == raw = {} /\ complete = {}

MCInit ==
    /\ part \in {"database", "accounts", "settings", "stats"}
    /\ Init /\ (part = "database" \/ DatabaseRests)
    /\ A!Init
    /\ S!Init /\ (part = "settings" \/ SettingsRest)
    /\ T!Init /\ (part = "stats" \/ StatsRest)

MCNext ==
    /\ UNCHANGED part
    /\ \/ part = "database" /\ Next
             /\ UNCHANGED <<accountVars, settingVars, statVars>>
       \/ part = "accounts" /\ A!Next
             /\ UNCHANGED <<vars, settingVars, statVars>>
       \/ part = "settings" /\ S!Next
             /\ UNCHANGED <<vars, accountVars, statVars>>
       \/ part = "stats" /\ T!Next
             /\ UNCHANGED <<vars, accountVars, settingVars>>

\* Requests are alike, and so are the barcodes and the targets of scans.
Alike == Permutations({q1, q2}) \cup Permutations({d1, d2})
             \cup Permutations({g1, g2})

MCSpec == MCInit /\ [][MCNext]_all

-----------------------------------------------------------------------------
\* The database is whole, what was deleted stays away, and backups are
\* consistent (Database).
DatabaseCorrect == part = "database" => StoreCorrect

\* A start of the server, killed and repeated as often as may be, goes on with
\* the rows that were stored and changes no setting; the links of a table from
\* before target ids and the rows of settings that repeat the environment are
\* what it deletes (init_db, load_overrides_from_db).
RestartsKeep == StartsWhole /\ S!RestartsKeep

\* Somebody can always sign in and administer B2M (Accounts).
AccountsCorrect == part = "accounts" => A!AccountsCorrect

\* A request acts, and a cookie speaks, for rights the account has (Accounts).
RightsCurrent == A!RightsCurrent

\* Memory and database agree on each setting (Settings).
SettingsCorrect == part = "settings" => S!SettingsCorrect

\* The statistics of scans count every scan once (ScanStats).
ScanStatsCorrect == part = "stats" => T!ScanStatsCorrect
=============================================================================
