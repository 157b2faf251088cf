------------------------------ MODULE Settings ------------------------------
(***************************************************************************)
(* The settings an administrator changes while B2M runs (SettingsManager   *)
(* in app/config.py and the pages of app/routers/settings.py, scanner.py). *)
(* A value goes before the one of the environment; it is kept in memory,   *)
(* from where the program reads it, and in the database, from where the    *)
(* next start takes it.                                                    *)
(*                                                                         *)
(* A page is saved on the event loop, key by key, and a reset runs in a    *)
(* thread: nothing keeps the database and the memory of a key together.    *)
(***************************************************************************)
EXTENDS Integers, Sequences, FiniteSets

CONSTANTS
    Keys,
    Raws,          \* what a form sends or a row holds
    Values,        \* values as they are shown, some of Raws
    Clamp,         \* [Raws -> Values, or Bad]: the value that is taken
    Bad,
    Slots,         \* requests that are handled at a time
    MaxRequests,   \* bound: requests
    MaxStarts      \* bound: restarts

VARIABLES
    env, rows, memory,
    up,        \* the server runs
    req, count, starts,
    crossed    \* keys whose last changes overlapped (history)

vars == <<env, rows, memory, up, req, count, starts, crossed>>

None == [none |-> TRUE]

Ops == {"save", "reset"}

\* The keys of a page that are still to be saved, with what is sent for them.
Forms == UNION {[1..n -> Keys \X Raws] : n \in 0..Cardinality(Keys)}

Request == [op : Ops, at : {"free", "look", "commit", "memory"}, form : Forms,
            row : BOOLEAN]

TypeOK ==
    /\ env \in [Keys -> Values]
    /\ rows \in [Keys -> Raws \cup {None}]
    /\ memory \in [Keys -> Values \cup {None}]
    /\ up \in BOOLEAN
    /\ req \in [Slots -> Request]
    /\ \A r, q \in Slots :
           (req[r].at # "free" /\ req[q].at # "free"
                /\ req[r].op = "save" /\ req[q].op = "save") => r = q
    /\ count \in 0..MaxRequests /\ starts \in 0..MaxStarts
    /\ crossed \subseteq Keys

Free == [op |-> "reset", at |-> "free", form |-> <<>>, row |-> FALSE]

\* _coerce
Coerce(raw) == Clamp[raw]

Effective(m, e, k) == IF m[k] = None THEN e[k] ELSE m[k]

\* load_overrides_from_db: what equals the environment is deleted.
Redundant(e) == {k \in Keys : rows[k] # None /\ Coerce(rows[k]) = e[k]}

Loaded(rs) == [k \in Keys |-> IF rs[k] = None THEN None ELSE Coerce(rs[k])]

Loads(e) ==
    LET rs == [k \in Keys |-> IF k \in Redundant(e) THEN None ELSE rows[k]]
    IN /\ rows' = rs
       /\ memory' = Loaded(rs)

Init ==
    /\ env \in [Keys -> Values]
    /\ rows \in [Keys -> Raws \cup {None}]
    /\ \A k \in Keys : rows[k] # None => Coerce(rows[k]) # Bad
    /\ memory = [k \in Keys |-> None]
    /\ up = FALSE /\ req = [r \in Slots |-> Free]
    /\ count = 0 /\ starts = 0 /\ crossed = {}

Key(r) == req[r].form[1][1]

Changing(k) == \E r \in Slots : req[r].at \in {"commit", "memory"} /\ Key(r) = k

\* Requests under way are lost; the environment may be another one.
Stops ==
    /\ up
    /\ up' = FALSE
    /\ req' = [r \in Slots |-> Free]
    /\ crossed' = crossed \cup {k \in Keys : Changing(k)}
    /\ UNCHANGED <<env, rows, memory, count, starts>>

Starts ==
    /\ ~up /\ starts < MaxStarts
    /\ up' = TRUE /\ starts' = starts + 1
    /\ env' \in [Keys -> Values]
    /\ Loads(env')
    /\ crossed' = {}
    /\ UNCHANGED <<req, count>>

-----------------------------------------------------------------------------
Goes(r, m) == req' = [req EXCEPT ![r] = m]

Raw(r) == req[r].form[1][2]

\* The key is done; the next one, or the answer.
Done(r) ==
    LET rest == Tail(req[r].form)
    IN IF rest = <<>> THEN Free
       ELSE [req[r] EXCEPT !.at = "look", !.form = rest, !.row = FALSE]

\* A page holds its keys in one order; the event loop saves one at a time.
Saves(r) ==
    /\ up /\ req[r].at = "free" /\ count < MaxRequests
    /\ \A q \in Slots : req[q].at # "free" => req[q].op # "save"
    /\ \E form \in [Keys -> Raws], order \in [1..Cardinality(Keys) -> Keys] :
           /\ \A i, j \in DOMAIN order : order[i] = order[j] => i = j
           /\ Goes(r, [Free EXCEPT !.op = "save", !.at = "look",
                          !.form = [i \in DOMAIN order |->
                                        <<order[i], form[order[i]]>>]])
    /\ count' = count + 1
    /\ UNCHANGED <<env, rows, memory, up, starts, crossed>>

Resets(r) ==
    /\ up /\ req[r].at = "free" /\ count < MaxRequests
    /\ \E k \in Keys :
           Goes(r, [Free EXCEPT !.op = "reset", !.at = "look",
                                !.form = <<<<k, env[k]>>>>])
    /\ count' = count + 1
    /\ UNCHANGED <<env, rows, memory, up, starts, crossed>>

\* A key the user left as it was shown, or with a value that is not valid,
\* is passed over. The row is loaded.
Look(r) ==
    LET k == Key(r) IN
    /\ req[r].at = "look"
    /\ IF req[r].op = "save" /\ (\/ Raw(r) = Effective(memory, env, k)
                                 \/ Coerce(Raw(r)) = Bad)
       THEN Goes(r, Done(r)) /\ UNCHANGED crossed
       ELSE /\ Goes(r, [req[r] EXCEPT !.at = "commit", !.row = (rows[k] # None)])
            /\ crossed' =
                   IF \E q \in Slots \ {r} :
                          req[q].at \in {"commit", "memory"} /\ Key(q) = k
                   THEN crossed \cup {k} ELSE crossed
    /\ UNCHANGED <<env, rows, memory, up, count, starts>>

\* A value that equals the environment's is a reset.
IsReset(r) == req[r].op = "reset" \/ Coerce(Raw(r)) = env[Key(r)]

\* Mutant: a reset leaves the row.
RowKept(r) == IF IsReset(r) THEN rows[Key(r)] ELSE Raw(r)

RowAfter(r) ==
    IF IsReset(r) THEN IF req[r].row THEN None ELSE rows[Key(r)]
    ELSE Raw(r)

\* save_override, reset_override: the database first. A row that is gone
\* since it was loaded cannot be updated: the request fails (StaleDataError)
\* and with it the rest of the page.
Commit(r) ==
    LET k == Key(r) IN
    /\ req[r].at = "commit"
    /\ IF ~IsReset(r) /\ req[r].row /\ rows[k] = None
       THEN Goes(r, Free) /\ UNCHANGED rows
       ELSE /\ rows' = [rows EXCEPT ![k] = RowAfter(r)]
            /\ Goes(r, [req[r] EXCEPT !.at = "memory"])
    /\ UNCHANGED <<env, memory, up, count, starts, crossed>>

MemoryAfter(r) == IF IsReset(r) THEN None ELSE Coerce(Raw(r))

Remember(r) ==
    LET k == Key(r) IN
    /\ req[r].at = "memory"
    /\ memory' = [memory EXCEPT ![k] = MemoryAfter(r)]
    /\ Goes(r, Done(r))
    /\ UNCHANGED <<env, rows, up, count, starts, crossed>>

Next ==
    \/ Stops \/ Starts
    \/ \E r \in Slots : \/ Saves(r) \/ Resets(r)
                        \/ Look(r) \/ Commit(r) \/ Remember(r)

Spec == Init /\ [][Next]_vars

-----------------------------------------------------------------------------
\* What the program reads of a setting is what the next start would take from
\* the database, unless the last changes of it overlapped or one is under way.
SettingsAgree ==
    up => \A k \in Keys \ crossed :
              ~Changing(k) => memory[k] = Loaded(rows)[k] /\ memory[k] # env[k]

\* A restart in the same environment changes no setting.
RestartKeeps ==
    ~up /\ up' /\ starts > 0 =>
        \A k \in Keys \ crossed :
            env'[k] = env[k] =>
                Effective(memory', env', k) = Effective(memory, env, k)

\* No setting changes by a restart (load_overrides_from_db).
RestartsKeep == [][RestartKeeps]_vars

\* The two copies of a setting (save_override, reset_override).
SettingsCorrect == TypeOK /\ SettingsAgree
=============================================================================
