---------------------------- MODULE CatalogCache ----------------------------
(***************************************************************************)
(* The units and labels of Mealie that the pages of a Food offer           *)
(* (app/services/mealie_extras.py): each catalog is kept for five minutes, *)
(* one thread at a time loads it, and saving a Food clears them all.       *)
(*                                                                         *)
(* A catalog stands for its state in Mealie, which counts up from 1, or is *)
(* empty (0): a load that fails answers that, and it is kept as well.      *)
(***************************************************************************)
EXTENDS Naturals, FiniteSets

CONSTANTS
    Names,         \* the catalogs
    Threads,       \* request threads that read or clear
    MaxRequests,   \* bound: requests
    MaxEdits       \* bound: changes of a catalog in Mealie

VARIABLES
    mealie,        \* [Names -> Nat]
    cache,         \* _cache: None, or an entry
    lock,          \* the holders of _refresh_locks
    job,
    count,
    cleared,       \* what Mealie had at the last clearing (history)
    newest         \* the newest that was kept so far (history)

vars == <<mealie, cache, lock, job, count, cleared, newest>>

None == [none |-> TRUE]

Nothing == 0

Catalogs == 0..(MaxEdits + 1)

\* crossed: the cache was cleared while it was loaded (history).
Entry == [value : Catalogs, young : BOOLEAN, crossed : BOOLEAN]

Job == [at : {"free", "look", "wait", "again", "load", "store", "clear"},
        name : Names, value : Catalogs, crossed : BOOLEAN]

TypeOK ==
    /\ mealie \in [Names -> Catalogs \ {Nothing}]
    /\ cache \in [Names -> Entry \cup {None}]
    /\ lock \in [Names -> Threads \cup {None}]
    /\ job \in [Threads -> Job]
    /\ count \in 0..MaxRequests
    /\ cleared \in [Names -> Catalogs] /\ newest \in [Names -> Catalogs]

Free == [at |-> "free", name |-> CHOOSE n \in Names : TRUE,
         value |-> Nothing, crossed |-> FALSE]

Init ==
    /\ mealie = [n \in Names |-> 1]
    /\ cache = [n \in Names |-> None]
    /\ lock = [n \in Names |-> None]
    /\ job = [t \in Threads |-> Free]
    /\ count = 0
    /\ cleared = [n \in Names |-> 0] /\ newest = [n \in Names |-> 0]

Name(t) == job[t].name

Goes(t, j) == job' = [job EXCEPT ![t] = j]

Young(n) == cache[n] # None /\ cache[n].young

\* External: the owner adds a unit or a label in Mealie.
Edit(n) ==
    /\ mealie[n] <= MaxEdits
    /\ mealie' = [mealie EXCEPT ![n] = @ + 1]
    /\ UNCHANGED <<cache, lock, job, count, cleared, newest>>

\* _CACHE_TTL passes.
Expire(n) ==
    /\ Young(n)
    /\ cache' = [cache EXCEPT ![n].young = FALSE]
    /\ UNCHANGED <<mealie, lock, job, count, cleared, newest>>

\* A page asks (cached_units, cached_labels), or a Food was saved.
Asks(t, n, at) ==
    /\ job[t].at = "free" /\ count < MaxRequests
    /\ count' = count + 1
    /\ Goes(t, [Free EXCEPT !.name = n, !.at = at])
    /\ UNCHANGED <<mealie, cache, lock, cleared, newest>>

\* _cached: what is young is answered.
Look(t) ==
    /\ job[t].at = "look"
    /\ Goes(t, IF Young(Name(t)) THEN Free ELSE [job[t] EXCEPT !.at = "wait"])
    /\ UNCHANGED <<mealie, cache, lock, count, cleared, newest>>

Locks(t) ==
    /\ job[t].at = "wait"
    /\ lock' = [lock EXCEPT ![Name(t)] = t]
    /\ Goes(t, [job[t] EXCEPT !.at = "again"])
    /\ UNCHANGED <<mealie, cache, count, cleared, newest>>

\* Mutant: a lock of its own for each request.
EntersAnyway(t) == Locks(t)

\* _refresh_lock
Enter(t) == lock[Name(t)] = None /\ Locks(t)

\* The thread before may have loaded it.
Again(t) ==
    /\ job[t].at = "again"
    /\ IF Young(Name(t))
       THEN Goes(t, Free) /\ lock' = [lock EXCEPT ![Name(t)] = None]
       ELSE Goes(t, [job[t] EXCEPT !.at = "load"]) /\ UNCHANGED lock
    /\ UNCHANGED <<mealie, cache, count, cleared, newest>>

\* _load_catalog: a load that fails answers Nothing.
Load(t) ==
    /\ job[t].at = "load"
    /\ \E v \in {mealie[Name(t)], Nothing} :
           Goes(t, [job[t] EXCEPT !.at = "store", !.value = v])
    /\ UNCHANGED <<mealie, cache, lock, count, cleared, newest>>

Store(t) ==
    /\ job[t].at = "store"
    /\ cache' = [cache EXCEPT ![Name(t)] =
                     [value |-> job[t].value, young |-> TRUE,
                      crossed |-> job[t].crossed]]
    /\ newest' = [newest EXCEPT ![Name(t)] =
                      IF job[t].value > @ THEN job[t].value ELSE @]
    /\ lock' = [lock EXCEPT ![Name(t)] = None]
    /\ Goes(t, Free)
    /\ UNCHANGED <<mealie, count, cleared>>

\* Mutant: only the catalog of the page is cleared, of which the Food may
\* hold another.
ClearOne(t) == [cache EXCEPT ![Name(t)] = None]

Emptied(t) == [n \in Names |-> None]

\* clear_catalog_cache
Clear(t) ==
    /\ job[t].at = "clear"
    /\ cache' = Emptied(t)
    /\ cleared' = mealie
    /\ job' = [u \in Threads |->
                   IF u = t THEN Free
                   ELSE IF job[u].at = "store" THEN [job[u] EXCEPT !.crossed = TRUE]
                   ELSE job[u]]
    /\ UNCHANGED <<mealie, lock, count, newest>>

Steps(t) ==
    Look(t) \/ Enter(t) \/ Again(t) \/ Load(t) \/ Store(t) \/ Clear(t)

Next ==
    \/ \E n \in Names : Edit(n) \/ Expire(n)
    \/ \E t \in Threads, n \in Names : Asks(t, n, "look")
    \/ \E t \in Threads : Asks(t, Free.name, "clear")
    \/ \E t \in Threads : Steps(t)

Spec == Init /\ [][Next]_vars

-----------------------------------------------------------------------------
\* After a Food was saved no page is offered a catalog from before, unless
\* the cache was cleared while that catalog was loaded, or the load failed.
ClearedIsGone ==
    \A n \in Names :
        cache[n] # None /\ ~cache[n].crossed /\ cache[n].value # Nothing
            => cache[n].value >= cleared[n]

\* A page is never offered a catalog older than one that was kept before: two
\* loads of a catalog do not overtake each other, even when the cache was
\* cleared, or grew old, between them (_cached, "one in-flight refresh per
\* catalog").
NoneOlder ==
    \A n \in Names : cache[n] # None /\ cache[n].value # Nothing
                         => cache[n].value = newest[n]

\* What is cleared (_cached, clear_catalog_cache).
CacheCorrect == TypeOK /\ ClearedIsGone
=============================================================================
