---------------------------- MODULE ListsProofs ----------------------------
(***************************************************************************)
(* What holds of the catalogs, the lists and the numbers that pages show   *)
(* of Mealie (CatalogCache, ShoppingLists), and of the lists they print    *)
(* (ListPrint), for any number of catalogs, lists, rows and requests.      *)
(*                                                                         *)
(* CacheInv says what a thread is about to keep, and that no other one     *)
(* loads that catalog meanwhile (Alone); ShopInv says of each request how  *)
(* it got where it is (Way), what it counted (Counted) and what it was     *)
(* told (Told), whatever the owner and other requests do in between.       PrintInv says what a request that changes *)
(* a printed list holds at each of its steps (RequestFits), and that this  *)
(* is up to date unless another one has stored the document since.         *)
(***************************************************************************)
EXTENDS MCLists, FiniteSetTheorems, SequenceTheorems, WellFoundedInduction, TLAPS

-----------------------------------------------------------------------------
(* Catalogs.                                                               *)

\* What a thread is about to keep is not older than the last clearing, unless
\* that came between.
LoadedSince(t) ==
    reader[t].at = "store" /\ ~reader[t].crossed /\ reader[t].value # C!Nothing
        => reader[t].value >= cleared[reader[t].name]

\* Who loads a catalog holds its lock.
Alone(t) ==
    reader[t].at \in {"again", "load", "store"} => lock[reader[t].name] = t

\* What a thread is about to keep is Mealie's, and not older than what was kept
\* before.
NotOvertaken(t) ==
    reader[t].at = "store" =>
        /\ reader[t].value <= catalog[reader[t].name]
        /\ reader[t].value # C!Nothing => reader[t].value >= newest[reader[t].name]

CacheInv ==
    /\ C!TypeOK /\ C!ClearedIsGone /\ C!NoneOlder
    /\ \A n \in CatalogNames : cleared[n] <= catalog[n] /\ newest[n] <= catalog[n]
    /\ \A t \in Readers : LoadedSince(t) /\ Alone(t) /\ NotOvertaken(t)

LEMMA CatalogsAreNumbers ==
    C!Catalogs = 0..(MaxEdits + 1) /\ C!Catalogs \subseteq Nat /\ C!Nothing = 0
BY CatalogAssumption DEF C!Catalogs, C!Nothing

LEMMA ReaderParts ==
    ASSUME C!TypeOK, NEW t \in Readers
    PROVE  /\ reader[t] \in C!Job
           /\ reader[t].at \in {"free", "look", "wait", "again", "load", "store", "clear"}
           /\ reader[t].name \in CatalogNames /\ reader[t].value \in C!Catalogs
           /\ reader[t].crossed \in BOOLEAN
BY DEF C!TypeOK, C!Job

LEMMA FreeReader == C!Free \in C!Job /\ C!Free.at = "free" /\ C!Free.name \in CatalogNames
BY CatalogAssumption, CatalogsAreNumbers DEF C!Free, C!Job

\* A step of a thread that leaves what is kept as it is, and the locks that
\* others hold.
LEMMA ReaderSteps ==
    ASSUME CacheInv, NEW t \in Readers, NEW j \in C!Job, C!Goes(t, j),
           UNCHANGED <<catalog, cache, cleared, newest>>, reads' \in 0..MaxReads,
           lock' \in [CatalogNames -> Readers \cup {C!None}],
           \A n \in CatalogNames : lock'[n] = lock[n] \/ lock[n] \in {t, C!None},
           j.at \in {"again", "load", "store"} => lock'[j.name] = t,
           j.at = "store" =>
               /\ j.value <= catalog[j.name]
               /\ j.value # C!Nothing
                      => /\ ~j.crossed => j.value >= cleared[j.name]
                         /\ j.value >= newest[j.name]
    PROVE  CacheInv'
<1>1. /\ reader' \in [Readers -> C!Job] /\ reader'[t] = j
      /\ \A u \in Readers \ {t} : reader'[u] = reader[u]
  BY DEF CacheInv, C!TypeOK, C!Goes
<1>2. C!TypeOK'
  BY <1>1 DEF CacheInv, C!TypeOK
<1>3. \A u \in Readers : LoadedSince(u)' /\ NotOvertaken(u)'
  BY <1>1 DEF CacheInv, LoadedSince, NotOvertaken
<1>4. C!ClearedIsGone' /\ C!NoneOlder'
      /\ \A n \in CatalogNames : cleared'[n] <= catalog'[n] /\ newest'[n] <= catalog'[n]
  BY DEF CacheInv, C!ClearedIsGone, C!NoneOlder
<1>5. ASSUME NEW u \in Readers PROVE Alone(u)'
  <2>1. CASE u = t
    BY <1>1, <2>1 DEF Alone
  <2>2. CASE u # t
    <3>1. reader'[u] = reader[u] /\ reader[u].name \in CatalogNames /\ Alone(u)
      BY <1>1, <2>2, ReaderParts DEF CacheInv
    <3>2. u # C!None
      BY CatalogAssumption
    <3>3. QED
      BY <2>2, <3>1, <3>2 DEF Alone
  <2>3. QED
    BY <2>1, <2>2
<1>6. QED
  BY <1>2, <1>3, <1>4, <1>5 DEF CacheInv

LEMMA ReadersKeep ==
    ASSUME CacheInv, NEW t \in Readers,
           \/ \E n \in CatalogNames : C!Asks(t, n, "look")
           \/ C!Asks(t, C!Free.name, "clear")
           \/ C!Look(t) \/ C!Enter(t) \/ C!Again(t) \/ C!Load(t)
    PROVE  CacheInv'
<1>0. /\ C!TypeOK /\ reader[t] \in C!Job
      /\ lock \in [CatalogNames -> Readers \cup {C!None}] /\ reads \in 0..MaxReads
      /\ reader[t].name \in CatalogNames
  BY ReaderParts DEF CacheInv, C!TypeOK
<1>1. ASSUME NEW n \in CatalogNames, NEW at \in {"look", "clear"}, C!Asks(t, n, at)
      PROVE  CacheInv'
  <2> DEFINE j == [C!Free EXCEPT !.name = n, !.at = at]
  <2>1. /\ C!Goes(t, j) /\ reads < MaxReads /\ reads' = reads + 1
        /\ UNCHANGED <<catalog, cache, lock, cleared, newest>>
    BY <1>1 DEF C!Asks
  <2>2. j \in C!Job /\ j.at \notin {"again", "load", "store"}
    BY FreeReader DEF C!Job
  <2> HIDE DEF j
  <2>3. reads' \in 0..MaxReads
    BY <1>0, <2>1, CatalogAssumption
  <2>4. QED
    BY <1>0, <2>1, <2>2, <2>3, ReaderSteps
<1>2. ASSUME C!Look(t) \/ C!Enter(t) \/ C!Again(t) PROVE CacheInv'
  <2>1. \A at \in {"wait", "again", "load"} :
            /\ [reader[t] EXCEPT !.at = at] \in C!Job
            /\ [reader[t] EXCEPT !.at = at].at = at
            /\ [reader[t] EXCEPT !.at = at].name = reader[t].name
    BY <1>0 DEF C!Job
  <2>2. UNCHANGED <<catalog, cache, reads, cleared, newest>>
    BY <1>2 DEF C!Look, C!Enter, C!Again, C!Locks
  <2>3. /\ lock' \in [CatalogNames -> Readers \cup {C!None}]
        /\ \A n \in CatalogNames : lock'[n] = lock[n] \/ lock[n] \in {t, C!None}
    <3>1. reader[t].at = "again" => lock[reader[t].name] = t
      BY DEF CacheInv, Alone
    <3>2. QED
      BY <1>0, <1>2, <3>1 DEF C!Look, C!Enter, C!Locks, C!Again, C!Name
  <2>4. PICK j \in C!Job : /\ C!Goes(t, j) /\ j.at \in {"free", "wait", "again", "load"}
                           /\ j.at \in {"again", "load"} => lock'[j.name] = t
    <3>1. CASE C!Look(t)
      BY <2>1, <3>1, FreeReader DEF C!Look
    <3>2. CASE C!Enter(t)
      <4>1. lock'[reader[t].name] = t
        BY <1>0, <3>2 DEF C!Enter, C!Locks, C!Name
      <4>2. QED
        BY <2>1, <3>2, <4>1 DEF C!Enter, C!Locks
    <3>3. CASE C!Again(t)
      <4>1. reader[t].at = "again" /\ lock[reader[t].name] = t
        BY <3>3 DEF C!Again, CacheInv, Alone
      <4>2. QED
        BY <2>1, <3>3, <4>1, FreeReader DEF C!Again
    <3>4. QED
      BY <1>2, <3>1, <3>2, <3>3
  <2>5. QED
    BY <1>0, <2>2, <2>3, <2>4, ReaderSteps
<1>3. ASSUME C!Load(t) PROVE CacheInv'
  <2>1. PICK v \in {catalog[C!Name(t)], C!Nothing} :
           C!Goes(t, [reader[t] EXCEPT !.at = "store", !.value = v])
    BY <1>3 DEF C!Load
  <2> DEFINE j == [reader[t] EXCEPT !.at = "store", !.value = v]
  <2>2. /\ v \in C!Catalogs /\ v <= catalog[reader[t].name]
        /\ v # C!Nothing => v >= cleared[reader[t].name] /\ v >= newest[reader[t].name]
    <3> DEFINE n == reader[t].name
    <3>1. v \in {catalog[n], C!Nothing}
      BY <2>1 DEF C!Name
    <3>2. catalog[n] \in C!Catalogs /\ cleared[n] \in C!Catalogs /\ newest[n] \in C!Catalogs
      BY <1>0 DEF C!TypeOK
    <3>3. cleared[n] <= catalog[n] /\ newest[n] <= catalog[n]
      BY <1>0 DEF CacheInv
    <3> HIDE DEF n
    <3>4. /\ v \in C!Catalogs /\ v <= catalog[n]
          /\ v # C!Nothing => v >= cleared[n] /\ v >= newest[n]
      <4>1. CASE v = catalog[n]
        <5>1. catalog[n] >= cleared[n] /\ catalog[n] >= newest[n] /\ catalog[n] <= catalog[n]
          BY <3>2, <3>3, CatalogsAreNumbers
        <5>2. QED
          BY <3>2, <4>1, <5>1
      <4>2. CASE v = C!Nothing
        BY <3>2, <4>2, CatalogsAreNumbers, CatalogAssumption
      <4>3. QED
        BY <3>1, <4>1, <4>2
    <3>5. QED
      BY <3>4 DEF n
  <2>3. j \in C!Job /\ j.value = v /\ j.name = reader[t].name
    BY <1>0, <2>2 DEF C!Job
  <2>4. /\ C!Goes(t, j) /\ UNCHANGED <<catalog, cache, lock, reads, cleared, newest>>
        /\ lock[reader[t].name] = t
    BY <1>3, <2>1 DEF C!Load, CacheInv, Alone
  <2> HIDE DEF j
  <2>5. QED
    BY <1>0, <2>2, <2>3, <2>4, ReaderSteps
<1>4. QED
  BY <1>1, <1>2, <1>3, FreeReader

LEMMA StoreKeeps ==
    ASSUME CacheInv, NEW t \in Readers, C!Store(t)
    PROVE  CacheInv'
<1> DEFINE n == reader[t].name
           e == [value |-> reader[t].value, young |-> TRUE, crossed |-> reader[t].crossed]
           m == IF reader[t].value > newest[n] THEN reader[t].value ELSE newest[n]
<1>0. /\ C!TypeOK /\ n \in CatalogNames /\ reader[t].value \in C!Catalogs
      /\ reader[t].crossed \in BOOLEAN /\ LoadedSince(t) /\ Alone(t) /\ NotOvertaken(t)
      /\ newest[n] \in C!Catalogs /\ newest[n] <= catalog[n]
      /\ catalog[n] \in C!Catalogs
  BY ReaderParts DEF CacheInv, C!TypeOK
<1>1. /\ reader[t].at = "store" /\ cache' = [cache EXCEPT ![n] = e]
      /\ newest' = [newest EXCEPT ![n] = m]
      /\ lock' = [lock EXCEPT ![n] = C!None] /\ C!Goes(t, C!Free)
      /\ UNCHANGED <<catalog, reads, cleared>>
  BY DEF C!Store, C!Name
<1>2. /\ e \in C!Entry
      /\ ~e.crossed /\ e.value # C!Nothing => e.value >= cleared[n]
      /\ m \in C!Catalogs /\ m <= catalog[n]
      /\ e.value # C!Nothing => e.value = m
  BY <1>0, <1>1, CatalogsAreNumbers DEF C!Entry, LoadedSince, NotOvertaken
<1> HIDE DEF e, m
<1>3. /\ reader' \in [Readers -> C!Job] /\ reader'[t] = C!Free
      /\ \A u \in Readers \ {t} : reader'[u] = reader[u]
  BY <1>0, <1>1, FreeReader DEF C!TypeOK, C!Goes
<1>4. C!TypeOK'
  BY <1>0, <1>1, <1>2, <1>3 DEF C!TypeOK
<1>5. C!ClearedIsGone' /\ C!NoneOlder'
  BY <1>0, <1>1, <1>2 DEF C!ClearedIsGone, C!NoneOlder, CacheInv, C!TypeOK
<1>6. ASSUME NEW u \in Readers PROVE LoadedSince(u)' /\ Alone(u)' /\ NotOvertaken(u)'
  <2>1. CASE u = t
    BY <1>3, <2>1, FreeReader DEF LoadedSince, Alone, NotOvertaken
  <2>2. CASE u # t
    <3>1. reader'[u] = reader[u] /\ reader[u].name \in CatalogNames
      BY <1>0, <1>3, <2>2, ReaderParts
    <3>2. LoadedSince(u)'
      BY <1>1, <3>1 DEF LoadedSince, CacheInv
    <3>3. reader[u].at \in {"again", "load", "store"} => reader[u].name # n
      BY <1>0, <1>1, <2>2 DEF Alone, CacheInv
    <3>4. \A x \in CatalogNames \ {n} : lock'[x] = lock[x] /\ newest'[x] = newest[x]
      BY <1>0, <1>1 DEF C!TypeOK
    <3>5. Alone(u)' /\ NotOvertaken(u)'
      BY <1>1, <3>1, <3>3, <3>4 DEF Alone, NotOvertaken, CacheInv
    <3>6. QED
      BY <3>2, <3>5
  <2>3. QED
    BY <2>1, <2>2
<1>7. \A x \in CatalogNames : cleared'[x] <= catalog'[x] /\ newest'[x] <= catalog'[x]
  BY <1>0, <1>1, <1>2 DEF CacheInv, C!TypeOK
<1>8. QED
  BY <1>4, <1>5, <1>6, <1>7 DEF CacheInv

LEMMA ClearKeeps ==
    ASSUME CacheInv, NEW t \in Readers, C!Clear(t)
    PROVE  CacheInv'
<1>0. C!TypeOK
  BY DEF CacheInv
<1>1. /\ cache' = [n \in CatalogNames |-> C!None] /\ cleared' = catalog
      /\ reader' = [u \in Readers |->
                       IF u = t THEN C!Free
                       ELSE IF reader[u].at = "store" THEN [reader[u] EXCEPT !.crossed = TRUE]
                       ELSE reader[u]]
      /\ UNCHANGED <<catalog, lock, reads, newest>>
  BY DEF C!Clear, C!Emptied
<1>2. \A u \in Readers : /\ reader'[u] \in C!Job
                         /\ reader'[u].at = "store" => reader'[u].crossed
                         /\ \/ reader'[u].at = "free"
                            \/ /\ reader'[u].at = reader[u].at
                               /\ reader'[u].name = reader[u].name
                               /\ reader'[u].value = reader[u].value
  <2> SUFFICES ASSUME NEW u \in Readers
               PROVE  /\ reader'[u] \in C!Job
                      /\ reader'[u].at = "store" => reader'[u].crossed
                      /\ \/ reader'[u].at = "free"
                         \/ /\ reader'[u].at = reader[u].at
                            /\ reader'[u].name = reader[u].name
                            /\ reader'[u].value = reader[u].value
    OBVIOUS
  <2>1. reader[u] \in C!Job
    BY <1>0, ReaderParts
  <2>2. [reader[u] EXCEPT !.crossed = TRUE] \in C!Job
        /\ [reader[u] EXCEPT !.crossed = TRUE].crossed
        /\ [reader[u] EXCEPT !.crossed = TRUE].at = reader[u].at
        /\ [reader[u] EXCEPT !.crossed = TRUE].name = reader[u].name
        /\ [reader[u] EXCEPT !.crossed = TRUE].value = reader[u].value
    BY <2>1 DEF C!Job
  <2>3. QED
    BY <1>1, <2>1, <2>2, FreeReader
<1>3. C!TypeOK'
  <2>1. cleared' \in [CatalogNames -> C!Catalogs]
    BY <1>0, <1>1 DEF C!TypeOK
  <2>2. reader' \in [Readers -> C!Job]
    BY <1>1, <1>2
  <2>3. QED
    BY <1>0, <1>1, <2>1, <2>2 DEF C!TypeOK
<1>4. /\ C!ClearedIsGone' /\ C!NoneOlder'
      /\ \A u \in Readers : LoadedSince(u)' /\ Alone(u)' /\ NotOvertaken(u)'
  <2>1. C!ClearedIsGone' /\ C!NoneOlder'
    BY <1>1 DEF C!ClearedIsGone, C!NoneOlder
  <2>2. ASSUME NEW u \in Readers
        PROVE  LoadedSince(u)' /\ Alone(u)' /\ NotOvertaken(u)'
    <3>1. Alone(u) /\ NotOvertaken(u)
      BY DEF CacheInv
    <3>2. LoadedSince(u)'
      BY <1>2 DEF LoadedSince
    <3>3. Alone(u)'
      BY <1>1, <1>2, <3>1 DEF Alone
    <3>4. NotOvertaken(u)'
      BY <1>1, <1>2, <3>1 DEF NotOvertaken
    <3>5. QED
      BY <3>2, <3>3, <3>4
  <2>3. QED
    BY <2>1, <2>2
<1>5. \A n \in CatalogNames : cleared'[n] <= catalog'[n] /\ newest'[n] <= catalog'[n]
  BY <1>0, <1>1, CatalogsAreNumbers DEF C!TypeOK, CacheInv
<1>6. QED
  BY <1>3, <1>4, <1>5 DEF CacheInv

LEMMA EditKeeps ==
    ASSUME CacheInv, NEW n \in CatalogNames, C!Edit(n)
    PROVE  CacheInv'
<1>0. C!TypeOK
  BY DEF CacheInv
<1>1. /\ catalog[n] <= MaxEdits /\ catalog' = [catalog EXCEPT ![n] = @ + 1]
      /\ UNCHANGED <<cache, lock, reader, reads, cleared, newest>>
  BY DEF C!Edit
<1>2. C!TypeOK'
  <2>1. catalog[n] \in C!Catalogs \ {C!Nothing}
    BY <1>0 DEF C!TypeOK
  <2>2. catalog[n] + 1 \in C!Catalogs \ {C!Nothing}
    BY <1>1, <2>1, CatalogsAreNumbers, CatalogAssumption
  <2>3. QED
    BY <1>0, <1>1, <2>2 DEF C!TypeOK
<1>3. \A m \in CatalogNames : cleared'[m] <= catalog'[m] /\ newest'[m] <= catalog'[m]
  BY <1>0, <1>1, CatalogsAreNumbers DEF CacheInv, C!TypeOK
<1>4. /\ C!ClearedIsGone' /\ C!NoneOlder'
      /\ \A t \in Readers : LoadedSince(t)' /\ Alone(t)'
  BY <1>1 DEF CacheInv, C!ClearedIsGone, C!NoneOlder, LoadedSince, Alone
<1>5. ASSUME NEW t \in Readers PROVE NotOvertaken(t)'
  <2>1. reader[t].name \in CatalogNames /\ reader[t].value \in C!Catalogs
    BY <1>0, ReaderParts
  <2>2. catalog[reader[t].name] \in Nat /\ catalog'[reader[t].name] >= catalog[reader[t].name]
    BY <1>0, <1>1, <2>1, CatalogsAreNumbers DEF C!TypeOK
  <2>3. catalog'[reader[t].name] \in Nat
    BY <1>2, <2>1, CatalogsAreNumbers DEF C!TypeOK
  <2>4. QED
    BY <1>1, <2>1, <2>2, <2>3, CatalogsAreNumbers DEF CacheInv, NotOvertaken
<1>6. QED
  BY <1>2, <1>3, <1>4, <1>5 DEF CacheInv

LEMMA ExpireKeeps ==
    ASSUME CacheInv, NEW n \in CatalogNames, C!Expire(n)
    PROVE  CacheInv'
<1>0. C!TypeOK
  BY DEF CacheInv
<1>1. /\ cache[n] # C!None /\ cache' = [cache EXCEPT ![n].young = FALSE]
      /\ UNCHANGED <<catalog, lock, reader, reads, cleared, newest>>
  BY DEF C!Expire, C!Young
<1>2. cache[n] \in C!Entry
  BY <1>0, <1>1 DEF C!TypeOK
<1>3. /\ cache'[n] \in C!Entry /\ cache'[n].value = cache[n].value
      /\ cache'[n].crossed = cache[n].crossed
      /\ \A m \in CatalogNames \ {n} : cache'[m] = cache[m]
  BY <1>0, <1>1, <1>2 DEF C!TypeOK, C!Entry
<1>4. C!TypeOK'
  BY <1>0, <1>1, <1>3 DEF C!TypeOK
<1>5. C!ClearedIsGone' /\ C!NoneOlder'
  BY <1>1, <1>3 DEF CacheInv, C!ClearedIsGone, C!NoneOlder
<1>6. QED
  BY <1>1, <1>4, <1>5 DEF CacheInv, LoadedSince, Alone, NotOvertaken

LEMMA CacheInvInit == C!Init => CacheInv
<1> SUFFICES ASSUME C!Init PROVE CacheInv
  OBVIOUS
<1>1. /\ catalog = [n \in CatalogNames |-> 1] /\ cache = [n \in CatalogNames |-> C!None]
      /\ lock = [n \in CatalogNames |-> C!None] /\ reader = [t \in Readers |-> C!Free]
      /\ reads = 0 /\ cleared = [n \in CatalogNames |-> 0]
      /\ newest = [n \in CatalogNames |-> 0]
  BY DEF C!Init
<1>2. 1 \in C!Catalogs \ {C!Nothing} /\ 0 \in C!Catalogs /\ reads \in 0..MaxReads
  BY <1>1, CatalogsAreNumbers, CatalogAssumption
<1>3. C!TypeOK
  BY <1>1, <1>2, FreeReader DEF C!TypeOK
<1>4. QED
  BY <1>1, <1>3, FreeReader DEF CacheInv, C!ClearedIsGone, C!NoneOlder, LoadedSince,
     Alone, NotOvertaken

LEMMA CacheStep == CacheInv /\ [C!Next]_(C!vars) => CacheInv'
<1> SUFFICES ASSUME CacheInv, [C!Next]_(C!vars) PROVE CacheInv'
  OBVIOUS
<1>1. CASE UNCHANGED C!vars
  <2>1. UNCHANGED <<catalog, cache, lock, reader, reads, cleared, newest>>
    BY <1>1 DEF C!vars
  <2>2. QED
    BY <2>1 DEF CacheInv, C!TypeOK, C!ClearedIsGone, C!NoneOlder, LoadedSince, Alone,
                NotOvertaken
<1>2. ASSUME NEW t \in Readers, C!Steps(t) PROVE CacheInv'
  BY <1>2, ReadersKeep, StoreKeeps, ClearKeeps DEF C!Steps
<1>3. QED
  BY <1>1, <1>2, EditKeeps, ExpireKeeps, ReadersKeep DEF C!Next

\* In a behaviour of all that pages show of Mealie the catalogs move or rest.
LEMMA CacheMoves == [MCNext]_all => [C!Next]_(C!vars)
BY DEF MCNext, all, cacheVars, C!vars

LEMMA CacheInvAlways == MCSpec => []CacheInv
<1>1. MCInit => CacheInv
  BY CacheInvInit DEF MCInit
<1>2. CacheInv /\ [MCNext]_all => CacheInv'
  BY CacheStep, CacheMoves
<1>3. QED
  BY <1>1, <1>2, PTL DEF MCSpec

\* After a Food was saved, no page is offered a catalog that was loaded before
\* the cache was cleared, for any number of catalogs, threads and changes
\* (_cached, clear_catalog_cache).
THEOREM CacheCorrectAlways == MCSpec => []CacheCorrect
<1>1. CacheInv => CacheCorrect
  BY DEF CacheInv, CacheCorrect, C!CacheCorrect
<1>2. QED
  BY <1>1, CacheInvAlways, PTL

\* The loads of a catalog do not overtake each other: no page is offered one
\* older than a page was offered before, for any number of catalogs, threads,
\* clearings and changes (_cached, clear_catalog_cache).
THEOREM CatalogsAdvanceAlways == MCSpec => []CatalogsAdvance
<1>1. CacheInv => CatalogsAdvance
  BY DEF CacheInv, CatalogsAdvance
<1>2. QED
  BY <1>1, CacheInvAlways, PTL

-----------------------------------------------------------------------------
(* Shopping lists.                                                         *)

\* The lists that Mealie has or had.
Ever == mealie \cup past

\* Requests that may still add a row.
Pending == {t \in Threads : job[t].at \notin {"free", "invalidate"}}

\* As many rows as requests at most: the numbers stay in their bounds.
Room ==
    /\ posted \in Nat /\ done \in Nat /\ requests \in 0..MaxAsks
    /\ posted + Cardinality(Pending) <= requests

\* B2M knows no list that Mealie never had.
ListsKnown ==
    /\ chosen # S!None => chosen \in Ever
    /\ lists # S!None => lists.rows \subseteq Ever

\* The ways of a request.
Way(q) ==
    /\ q.at \in {"look", "items", "store"} => q.op = "counts"
    /\ q.at = "look" => q.then = "items"
    /\ q.at = "store" => q.then = "store"
    /\ q.at \in {"lists", "get", "keep"} =>
           \/ q.op = "counts" /\ q.then \in {"items", "store"}
           \/ q.op = "default" /\ q.then \in {"configured", "answer"}
           \/ q.op = "choose" /\ q.then = "set"
           \/ q.op \in {"add", "quick"} /\ q.then = "post"
           \/ q.op = "refresh" /\ q.then = "put"
    /\ q.at = "configured" => q.op \in {"default", "add"}
    /\ q.at \in {"rows", "put"} => q.op = "refresh" /\ q.then = "put"
    /\ q.at = "answer" => q.op = "default" /\ q.then = "answer"

\* What a load has counted holds every addition answered before.
Counted(q) ==
    q.at # "free" /\ q.op = "counts" /\ q.then = "store" /\ ~q.crossed /\ ~q.failed
        => q.seen >= done

\* A request that asks anew has the chosen list among those it was told.
Asked(q) ==
    /\ q.at \in {"lists", "get", "keep", "answer"}
    /\ q.op = "default" /\ q.then = "answer" /\ q.force /\ q.list # S!None

Told(q) ==
    /\ q.lists \subseteq Ever
    /\ Asked(q) => /\ q.list \in Ever
                   /\ q.at \in {"keep", "answer"} /\ ~q.failed /\ q.list \in mealie
                          => q.list \in q.lists

Fine(q) == q \in S!Job /\ Way(q) /\ Counted(q) /\ Told(q)

\* What B2M keeps of the lists.
AtHand ==
    /\ lists \in [rows : SUBSET Lists, young : BOOLEAN] \cup {S!None}
    /\ counts \in [young : BOOLEAN, failed : BOOLEAN,
                   seen : 0..MaxAsks, crossed : BOOLEAN] \cup {S!None}
    /\ chosen \in Lists \cup {S!None} /\ legacy \in Lists \cup {S!None}
    /\ ListsKnown /\ S!CountsHoldAdditions

\* What Mealie holds.
Held ==
    /\ mealie \subseteq Lists \ past
    /\ rows \in [Rows -> S!Row \cup {S!None}]
    /\ \A r \in Rows : rows[r] # S!None => rows[r].list \in mealie
    /\ done <= posted /\ Room

ShopInv ==
    /\ Held /\ AtHand
    /\ job \in [Threads -> S!Job]
    /\ \A t \in Threads : Fine(job[t])

LEMMA ShopInvIs ==
    ShopInv => S!TypeOK /\ S!CountsHoldAdditions
BY DEF ShopInv, Held, AtHand, S!TypeOK

LEMMA FreeIs ==
    /\ S!Free \in S!Job
    /\ S!Free.at = "free" /\ S!Free.op = "counts" /\ S!Free.then = "free"
    /\ S!Free.lists = {} /\ S!Free.list = S!None /\ S!Free.todo = {}
    /\ S!Free.seen = 0 /\ ~S!Free.force /\ ~S!Free.failed /\ S!Free.food \in Goods
BY ShopAssumption DEF S!Free, S!Job, S!Stages

LEMMA FreeIsFine == Fine(S!Free)
BY FreeIs DEF Fine, Way, Counted, Told, Asked

\* What is written of a row is a row.
LEMMA RowsAreRows ==
    ASSUME NEW row \in S!Row
    PROVE  row # S!None /\ row.list \in Lists /\ S!Payload(row) \in S!Row
<1>1. row # S!None /\ row.list \in Lists
  BY DEF S!Row, S!None
<1>2. S!Payload(row) = IF row.quantity = 0 THEN [row EXCEPT !.quantity = 1] ELSE row
  BY DEF S!Payload, S!Row
<1>3. [row EXCEPT !.quantity = 1] \in S!Row
  BY ShopAssumption DEF S!Row
<1>4. QED
  BY <1>1, <1>2, <1>3

\* The requests that may still add a row are finitely many.
LEMMA PendingIsFinite ==
    /\ IsFiniteSet(Pending) /\ Cardinality(Pending) \in Nat
    /\ IsFiniteSet(Pending') /\ Cardinality(Pending') \in Nat
<1>1. Pending \subseteq Threads /\ Pending' \subseteq Threads
  BY DEF Pending
<1>2. QED
  BY <1>1, ShopAssumption, FS_Subset, FS_CardinalityType

LEMMA RoomLeft == ShopInv => posted \in Nat /\ posted \in 0..MaxAsks /\ done \in Nat
BY PendingIsFinite, ShopAssumption DEF ShopInv, Held, Room

LEMMA KeptStays ==
    AtHand /\ UNCHANGED <<mealie, past, lists, counts, chosen, legacy, done>> => AtHand'
BY DEF AtHand, ListsKnown, S!CountsHoldAdditions, Ever

\* A step of a request that is not at rest.
LEMMA RoomStays ==
    ASSUME ShopInv, NEW t \in Threads, NEW q, S!Goes(t, q),
           job[t].at \notin {"free", "invalidate"},
           UNCHANGED <<requests, posted, done>>
    PROVE  Room'
<1>1. Pending' \subseteq Pending
  BY DEF Pending, ShopInv, S!Goes
<1>2. Cardinality(Pending') <= Cardinality(Pending)
  BY <1>1, PendingIsFinite, FS_Subset
<1>3. QED
  BY <1>2, PendingIsFinite DEF ShopInv, Held, Room

LEMMA RequestMoves ==
    ASSUME ShopInv, NEW t \in Threads, NEW q, S!Goes(t, q), Fine(q),
           UNCHANGED <<mealie, past, rows, posted, done>>, AtHand', Room'
    PROVE  ShopInv'
<1>1. /\ job' \in [Threads -> S!Job] /\ job'[t] = q
      /\ \A u \in Threads \ {t} : job'[u] = job[u]
  BY DEF ShopInv, S!Goes, Fine
<1>2. \A u \in Threads : Fine(job[u])'
  <2> SUFFICES ASSUME NEW u \in Threads PROVE Fine(job[u])'
    OBVIOUS
  <2>1. job'[u] = q \/ job'[u] = job[u]
    BY <1>1
  <2>2. Fine(q) /\ Fine(job[u])
    BY DEF ShopInv
  <2>3. job'[u] \in S!Job
    BY <1>1
  <2>4. Way(job[u])' /\ Counted(job[u])'
    BY <2>1, <2>2 DEF Fine, Way, Counted
  <2>5. Told(job[u])'
    BY <2>1, <2>2 DEF Fine, Told, Asked, Ever
  <2>6. QED
    BY <2>3, <2>4, <2>5 DEF Fine
<1>3. Held'
  BY DEF ShopInv, Held
<1>4. QED
  BY <1>1, <1>2, <1>3 DEF ShopInv

LEMMA QuietStep ==
    ASSUME ShopInv, NEW t \in Threads, NEW q, S!Goes(t, q), Fine(q),
           job[t].at \notin {"free", "invalidate"}, S!Quiet, AtHand'
    PROVE  ShopInv'
<1>1. UNCHANGED <<mealie, past, rows, requests, posted, done>>
  BY DEF S!Quiet
<1>2. QED
  BY <1>1, RoomStays, RequestMoves

LEMMA RequestIs ==
    ASSUME ShopInv, NEW t \in Threads
    PROVE  /\ job[t] \in S!Job /\ Fine(job[t])
           /\ job[t].op \in {"counts", "default", "choose", "add", "quick", "refresh"}
           /\ job[t].then \in S!Stages /\ job[t].lists \in SUBSET Lists
           /\ job[t].force \in BOOLEAN /\ job[t].failed \in BOOLEAN
           /\ job[t].list \in Lists \cup {S!None} /\ job[t].food \in Goods
           /\ Way(job[t]) /\ Counted(job[t]) /\ Told(job[t])
BY DEF ShopInv, Fine, S!Job

\* Requests that are answered, or have no more to do.
LEMMA EndsKeep ==
    ASSUME ShopInv, NEW t \in Threads, S!Goes(t, S!Free),
           job[t].at \notin {"free", "invalidate"}, S!Quiet,
           UNCHANGED <<lists, counts, chosen, legacy>>
    PROVE  ShopInv'
<1>1. AtHand'
  BY KeptStays DEF ShopInv, S!Quiet
<1>2. QED
  BY <1>1, FreeIsFine, QuietStep

LEMMA AsksKeep ==
    ASSUME ShopInv, NEW t \in Threads,
           NEW op \in {"counts", "default", "choose", "add", "quick", "refresh"},
           NEW force \in BOOLEAN, NEW list \in Lists \cup {S!None}, NEW food \in Goods,
           S!Asks(t, op, force, list, food)
    PROVE  ShopInv'
<1> DEFINE at == CASE op = "counts" -> "look"
                   [] op = "default" -> "lists"
                   [] op \in {"choose", "quick"} -> "lists"
                   [] op = "add" -> "configured"
                   [] op = "refresh" -> "rows"
           then == CASE op = "counts" -> "items"
                     [] op = "default" -> "configured"
                     [] op = "choose" -> "set"
                     [] op = "refresh" -> "put"
                     [] OTHER -> "post"
           anew == force \/ op = "choose"
           q == [S!Free EXCEPT !.op = op, !.list = list, !.food = food,
                    !.force = anew, !.at = at, !.then = then]
<1>1. /\ S!Goes(t, q) /\ requests < MaxAsks /\ requests' = requests + 1
      /\ UNCHANGED <<mealie, past, rows, lists, counts, chosen, legacy, posted, done>>
  BY DEF S!Asks, S!Known
<1>2. /\ op = "counts" => at = "look" /\ then = "items"
      /\ op = "default" => at = "lists" /\ then = "configured"
      /\ op = "choose" => at = "lists" /\ then = "set"
      /\ op = "quick" => at = "lists" /\ then = "post"
      /\ op = "add" => at = "configured" /\ then = "post"
      /\ op = "refresh" => at = "rows" /\ then = "put"
  OBVIOUS
<1>3. at \in S!Stages /\ then \in S!Stages /\ anew \in BOOLEAN
  BY <1>2 DEF S!Stages
<1> HIDE DEF at, then, anew
<1>4. /\ q \in S!Job /\ q.op = op /\ q.at = at /\ q.then = then /\ q.lists = {}
  BY <1>3, FreeIs DEF S!Job
<1> HIDE DEF q
<1>5. Way(q) /\ Counted(q) /\ Told(q)
  BY <1>2, <1>4 DEF Way, Counted, Told, Asked
<1>6. Room'
  <2>1. Pending' \subseteq Pending \cup {t}
    BY <1>1 DEF Pending, ShopInv, S!Goes
  <2>2. /\ IsFiniteSet(Pending \cup {t})
        /\ \/ Cardinality(Pending \cup {t}) = Cardinality(Pending)
           \/ Cardinality(Pending \cup {t}) = Cardinality(Pending) + 1
    BY PendingIsFinite, FS_AddElement
  <2>3. Cardinality(Pending') <= Cardinality(Pending \cup {t})
    BY <2>1, <2>2, FS_Subset
  <2>4. Cardinality(Pending') <= Cardinality(Pending) + 1
    BY <2>2, <2>3, PendingIsFinite
  <2>5. QED
    BY <1>1, <2>4, PendingIsFinite, ShopAssumption DEF ShopInv, Held, Room
<1>7. AtHand'
  BY <1>1, KeptStays DEF ShopInv
<1>8. QED
  BY <1>1, <1>4, <1>5, <1>6, <1>7, RequestMoves DEF Fine

LEMMA LookKeeps ==
    ASSUME ShopInv, NEW t \in Threads, S!Look(t)
    PROVE  ShopInv'
<1>1. /\ job[t].at = "look" /\ S!Quiet /\ UNCHANGED <<lists, counts, chosen, legacy>>
      /\ S!Goes(t, S!Free) \/ S!Goes(t, [job[t] EXCEPT !.at = "lists"])
  BY DEF S!Look, S!Ends, S!Calls, S!Known
<1>2. CASE S!Goes(t, S!Free)
  BY <1>1, <1>2, EndsKeep
<1>3. CASE S!Goes(t, [job[t] EXCEPT !.at = "lists"])
  <2> DEFINE q == [job[t] EXCEPT !.at = "lists"]
  <2>1. job[t] \in S!Job /\ Way(job[t]) /\ Counted(job[t]) /\ Told(job[t])
    BY RequestIs
  <2>2. /\ q \in S!Job /\ q.at = "lists" /\ q.lists = job[t].lists
        /\ q.op = job[t].op /\ q.then = job[t].then
        /\ q.seen = job[t].seen /\ q.crossed = job[t].crossed /\ q.failed = job[t].failed
    BY <2>1 DEF S!Job, S!Stages
  <2> HIDE DEF q
  <2>3. Fine(q)
    BY <1>1, <2>1, <2>2 DEF Fine, Way, Counted, Told, Asked
  <2>4. AtHand'
    BY <1>1, KeptStays DEF ShopInv, S!Quiet
  <2>5. S!Goes(t, q)
    BY <1>3 DEF q
  <2>6. QED
    BY <1>1, <2>3, <2>4, <2>5, QuietStep
<1>4. QED
  BY <1>1, <1>2, <1>3

\* The ways lead from the lists to what they were asked for.
LEMMA WaysOn ==
    ASSUME NEW j \in S!Job, Way(j), j.at \in {"lists", "get", "keep"},
           NEW q \in S!Job, q.at = j.then, q.op = j.op, q.then = j.then
    PROVE  /\ Way(q)
           /\ q.at \in {"items", "store", "configured", "answer", "set", "post", "put"}
BY DEF Way

LEMMA ListsLookKeeps ==
    ASSUME ShopInv, NEW t \in Threads, S!ListsLook(t)
    PROVE  ShopInv'
<1>0. /\ job[t] \in S!Job /\ job[t].then \in S!Stages
      /\ Way(job[t]) /\ Counted(job[t]) /\ Told(job[t])
  BY RequestIs
<1>1. /\ job[t].at = "lists" /\ S!Quiet /\ UNCHANGED <<lists, counts, chosen, legacy>>
  BY DEF S!ListsLook, S!Known
<1>2. AtHand'
  BY <1>1, KeptStays DEF ShopInv, S!Quiet
<1>3. CASE ~job[t].force /\ lists # S!None /\ lists.young
  <2> DEFINE q == [job[t] EXCEPT !.lists = lists.rows, !.at = job[t].then]
  <2>1. S!Goes(t, q)
    BY <1>3 DEF S!ListsLook
  <2>2. lists.rows \in SUBSET Lists /\ lists.rows \subseteq Ever
    BY <1>3 DEF ShopInv, AtHand, ListsKnown
  <2>3. /\ q \in S!Job /\ q.at = job[t].then /\ q.lists = lists.rows
        /\ q.op = job[t].op /\ q.then = job[t].then /\ q.force = job[t].force
        /\ q.list = job[t].list /\ q.failed = job[t].failed
        /\ q.seen = job[t].seen /\ q.crossed = job[t].crossed
    BY <1>0, <2>2 DEF S!Job
  <2> HIDE DEF q
  <2>4. Way(q) /\ q.at \in {"items", "store", "configured", "answer", "set", "post", "put"}
    BY <1>0, <1>1, <2>3, WaysOn
  <2>5. Counted(q)
    BY <1>0, <1>1, <2>3 DEF Counted
  <2>6. Told(q)
    BY <1>3, <2>2, <2>3 DEF Told, Asked
  <2>7. Fine(q)
    BY <2>3, <2>4, <2>5, <2>6 DEF Fine
  <2>8. QED
    BY <1>1, <1>2, <2>1, <2>7, QuietStep
<1>4. CASE ~(~job[t].force /\ lists # S!None /\ lists.young)
  <2> DEFINE q == [job[t] EXCEPT !.at = "get"]
  <2>1. S!Goes(t, q)
    BY <1>4 DEF S!ListsLook, S!At
  <2>2. /\ q \in S!Job /\ q.at = "get" /\ q.lists = job[t].lists
        /\ q.op = job[t].op /\ q.then = job[t].then /\ q.force = job[t].force
        /\ q.list = job[t].list /\ q.failed = job[t].failed
        /\ q.seen = job[t].seen /\ q.crossed = job[t].crossed
    BY <1>0 DEF S!Job, S!Stages
  <2> HIDE DEF q
  <2>3. Fine(q)
    BY <1>0, <1>1, <2>2 DEF Fine, Way, Counted, Told, Asked
  <2>4. QED
    BY <1>1, <1>2, <2>1, <2>3, QuietStep
<1>5. QED
  BY <1>3, <1>4

LEMMA ListsGetKeeps ==
    ASSUME ShopInv, NEW t \in Threads, S!ListsGet(t)
    PROVE  ShopInv'
<1>0. /\ job[t] \in S!Job /\ job[t].then \in S!Stages
      /\ Way(job[t]) /\ Counted(job[t]) /\ Told(job[t])
  BY RequestIs
<1>1. /\ job[t].at = "get" /\ S!Quiet /\ UNCHANGED <<lists, counts, chosen, legacy>>
  BY DEF S!ListsGet, S!Known
<1>2. AtHand'
  BY <1>1, KeptStays DEF ShopInv, S!Quiet
<1>3. CASE S!Goes(t, [job[t] EXCEPT !.lists = mealie, !.at = "keep"])
  <2> DEFINE q == [job[t] EXCEPT !.lists = mealie, !.at = "keep"]
  <2>1. S!Goes(t, q)
    BY <1>3
  <2>2. mealie \in SUBSET Lists /\ mealie \subseteq Ever
    BY DEF ShopInv, Held, Ever
  <2>3. /\ q \in S!Job /\ q.at = "keep" /\ q.lists = mealie
        /\ q.op = job[t].op /\ q.then = job[t].then /\ q.force = job[t].force
        /\ q.list = job[t].list /\ q.failed = job[t].failed
        /\ q.seen = job[t].seen /\ q.crossed = job[t].crossed
    BY <1>0, <2>2 DEF S!Job, S!Stages
  <2> HIDE DEF q
  <2>4. Way(q) /\ Counted(q)
    BY <1>0, <1>1, <2>3 DEF Way, Counted
  <2>5. Told(q)
    BY <1>0, <1>1, <2>2, <2>3 DEF Told, Asked
  <2>6. Fine(q)
    BY <2>3, <2>4, <2>5 DEF Fine
  <2>7. QED
    BY <1>1, <1>2, <2>1, <2>6, QuietStep
<1>4. CASE S!Goes(t, [job[t] EXCEPT
                         !.lists = IF lists = S!None THEN {} ELSE lists.rows,
                         !.failed = TRUE, !.at = job[t].then])
  <2> DEFINE ls == IF lists = S!None THEN {} ELSE lists.rows
             q == [job[t] EXCEPT !.lists = ls, !.failed = TRUE, !.at = job[t].then]
  <2>1. S!Goes(t, q)
    BY <1>4
  <2>2. ls \in SUBSET Lists /\ ls \subseteq Ever
    BY DEF ShopInv, AtHand, ListsKnown
  <2> HIDE DEF ls
  <2>3. /\ q \in S!Job /\ q.at = job[t].then /\ q.lists = ls /\ q.failed
        /\ q.op = job[t].op /\ q.then = job[t].then /\ q.force = job[t].force
        /\ q.list = job[t].list
    BY <1>0, <2>2 DEF S!Job
  <2> HIDE DEF q
  <2>4. Way(q) /\ q.at \in {"items", "store", "configured", "answer", "set", "post", "put"}
    BY <1>0, <1>1, <2>3, WaysOn
  <2>5. Told(q)
    BY <1>0, <1>1, <2>2, <2>3 DEF Told, Asked
  <2>6. Fine(q)
    BY <2>3, <2>4, <2>5 DEF Fine, Counted
  <2>7. QED
    BY <1>1, <1>2, <2>1, <2>6, QuietStep
<1>5. QED
  BY <1>3, <1>4 DEF S!ListsGet

LEMMA ListsKeepKeeps ==
    ASSUME ShopInv, NEW t \in Threads, S!ListsKeep(t)
    PROVE  ShopInv'
<1> DEFINE q == [job[t] EXCEPT !.at = job[t].then]
           l == [rows |-> job[t].lists, young |-> TRUE]
<1>0. /\ job[t] \in S!Job /\ job[t].then \in S!Stages /\ job[t].lists \in SUBSET Lists
      /\ Way(job[t]) /\ Counted(job[t]) /\ Told(job[t])
  BY RequestIs
<1>1. /\ job[t].at = "keep" /\ S!Goes(t, q) /\ lists' = l
      /\ S!Quiet /\ UNCHANGED <<counts, chosen, legacy>>
  BY DEF S!ListsKeep, S!At
<1>2. /\ l \in [rows : SUBSET Lists, young : BOOLEAN] /\ l.rows \subseteq Ever
  BY <1>0 DEF Told
<1> HIDE DEF l
<1>3. AtHand'
  <2>1. UNCHANGED <<mealie, past, done>>
    BY <1>1 DEF S!Quiet
  <2>2. ListsKnown'
    BY <1>1, <1>2, <2>1 DEF ShopInv, AtHand, ListsKnown, Ever
  <2>3. S!CountsHoldAdditions'
    BY <1>1, <2>1 DEF ShopInv, AtHand, S!CountsHoldAdditions
  <2>4. QED
    BY <1>1, <1>2, <2>2, <2>3 DEF ShopInv, AtHand
<1>4. /\ q \in S!Job /\ q.at = job[t].then /\ q.lists = job[t].lists
        /\ q.op = job[t].op /\ q.then = job[t].then /\ q.force = job[t].force
        /\ q.list = job[t].list /\ q.failed = job[t].failed
        /\ q.seen = job[t].seen /\ q.crossed = job[t].crossed
  BY <1>0 DEF S!Job
<1> HIDE DEF q
<1>5. Way(q) /\ q.at \in {"items", "store", "configured", "answer", "set", "post", "put"}
  BY <1>0, <1>1, <1>4, WaysOn
<1>6. Counted(q) /\ Told(q)
  BY <1>0, <1>1, <1>4 DEF Counted, Told, Asked
<1>7. Fine(q)
  BY <1>4, <1>5, <1>6 DEF Fine
<1>8. QED
  BY <1>1, <1>3, <1>7, QuietStep

LEMMA ItemsKeep ==
    ASSUME ShopInv, NEW t \in Threads, S!Items(t)
    PROVE  ShopInv'
<1>0. /\ job[t] \in S!Job /\ Way(job[t]) /\ Told(job[t])
  BY RequestIs
<1> DEFINE at == IF chosen = S!None /\ legacy = S!None THEN "lists" ELSE "store"
           next == [job[t] EXCEPT !.seen = posted, !.force = FALSE,
                        !.then = "store", !.at = at]
           lost == [next EXCEPT !.failed = TRUE]
<1>1. /\ job[t].at = "items"
      /\ S!Goes(t, next) \/ S!Goes(t, lost)
      /\ S!Quiet /\ UNCHANGED <<lists, counts, chosen, legacy>>
  BY DEF S!Items, S!Known
<1>2. at \in {"lists", "store"}
  OBVIOUS
<1> HIDE DEF at
<1>3. posted \in 0..MaxAsks /\ posted \in Nat /\ done \in Nat /\ done <= posted
  BY RoomLeft DEF ShopInv, Held
<1>4. /\ next \in S!Job /\ next.at = at /\ next.then = "store" /\ next.op = job[t].op
      /\ next.seen = posted /\ next.lists = job[t].lists
  BY <1>0, <1>2, <1>3 DEF S!Job, S!Stages
<1> HIDE DEF next
<1>5. /\ lost \in S!Job /\ lost.at = at /\ lost.then = "store" /\ lost.op = job[t].op
      /\ lost.seen = posted /\ lost.lists = job[t].lists
  BY <1>4 DEF S!Job
<1> HIDE DEF lost
<1>6. AtHand'
  BY <1>1, KeptStays DEF ShopInv, S!Quiet
<1>7. PICK q \in S!Job : /\ S!Goes(t, q) /\ q.at = at /\ q.then = "store"
                         /\ q.op = job[t].op /\ q.seen = posted /\ q.lists = job[t].lists
  BY <1>1, <1>4, <1>5
<1>8. Fine(q)
  BY <1>0, <1>1, <1>2, <1>3, <1>7 DEF Fine, Way, Counted, Told, Asked
<1>9. QED
  BY <1>1, <1>6, <1>7, <1>8, QuietStep

LEMMA StoreCountsKeeps ==
    ASSUME ShopInv, NEW t \in Threads, S!Store(t)
    PROVE  ShopInv'
<1> DEFINE c == [young |-> TRUE, failed |-> job[t].failed,
                 seen |-> job[t].seen, crossed |-> job[t].crossed]
<1>0. /\ job[t] \in S!Job /\ Way(job[t]) /\ Counted(job[t])
  BY RequestIs
<1>1. /\ job[t].at = "store" /\ S!Goes(t, S!Free) /\ counts' = c
      /\ S!Quiet /\ UNCHANGED <<lists, chosen, legacy>>
  BY DEF S!Store, S!Ends
<1>2. /\ c \in [young : BOOLEAN, failed : BOOLEAN,
                seen : 0..MaxAsks, crossed : BOOLEAN]
      /\ ~c.crossed /\ ~c.failed => c.seen >= done
  BY <1>0, <1>1 DEF S!Job, Way, Counted
<1> HIDE DEF c
<1>3. UNCHANGED <<mealie, past, done>>
  BY <1>1 DEF S!Quiet
<1>4. S!CountsHoldAdditions'
  BY <1>1, <1>2, <1>3 DEF S!CountsHoldAdditions
<1>5. ListsKnown'
  BY <1>1, <1>3 DEF ShopInv, AtHand, ListsKnown, Ever
<1>6. AtHand'
  BY <1>1, <1>2, <1>4, <1>5 DEF ShopInv, AtHand
<1>7. QED
  BY <1>1, <1>6, FreeIsFine, QuietStep

LEMMA ConfiguredKeeps ==
    ASSUME ShopInv, NEW t \in Threads, S!Configured(t)
    PROVE  ShopInv'
<1>0. /\ job[t] \in S!Job /\ Way(job[t]) /\ Counted(job[t]) /\ Told(job[t])
  BY RequestIs
<1> DEFINE known == IF chosen # S!None THEN chosen ELSE legacy
           go == IF job[t].op = "add" THEN "post" ELSE "answer"
           list == IF job[t].op = "add" THEN known ELSE chosen
           next == [job[t] EXCEPT !.list = list, !.then = go]
           trusted == [next EXCEPT !.at = go, !.list = known]
           asks == [next EXCEPT !.at = "lists"]
<1>1. /\ job[t].at = "configured"
      /\ S!Goes(t, IF ~job[t].force /\ known # S!None THEN trusted ELSE asks)
      /\ S!Quiet /\ UNCHANGED <<lists, counts, chosen, legacy>>
  BY DEF S!Configured, S!Known
<1>2. /\ known \in Lists \cup {S!None} /\ list \in Lists \cup {S!None}
      /\ go \in S!Stages
      /\ job[t].op = "add" => go = "post"
      /\ job[t].op # "add" => go = "answer" /\ list = chosen
      /\ chosen # S!None => chosen \in Ever
  BY DEF ShopInv, AtHand, ListsKnown, S!Stages
<1> HIDE DEF known, go, list
<1>3. /\ next \in S!Job /\ next.list = list /\ next.then = go /\ next.op = job[t].op
      /\ next.force = job[t].force /\ next.lists = job[t].lists
  BY <1>0, <1>2 DEF S!Job
<1> HIDE DEF next
<1>4. AtHand'
  BY <1>1, KeptStays DEF ShopInv, S!Quiet
<1>5. CASE ~job[t].force /\ known # S!None
  <2>1. /\ trusted \in S!Job /\ trusted.at = go /\ trusted.then = go
        /\ trusted.op = job[t].op /\ trusted.force = job[t].force
        /\ trusted.lists = job[t].lists
    BY <1>2, <1>3 DEF S!Job
  <2>2. S!Goes(t, trusted)
    BY <1>1, <1>5
  <2> HIDE DEF trusted
  <2>3. Fine(trusted)
    BY <1>0, <1>1, <1>2, <1>5, <2>1 DEF Fine, Way, Counted, Told, Asked
  <2>4. QED
    BY <1>1, <1>4, <2>2, <2>3, QuietStep
<1>6. CASE ~(~job[t].force /\ known # S!None)
  <2>1. /\ asks \in S!Job /\ asks.at = "lists" /\ asks.then = go
        /\ asks.op = job[t].op /\ asks.list = list /\ asks.lists = job[t].lists
    BY <1>3 DEF S!Job, S!Stages
  <2>2. S!Goes(t, asks)
    BY <1>1, <1>6
  <2> HIDE DEF asks
  <2>3. Fine(asks)
    BY <1>0, <1>1, <1>2, <2>1 DEF Fine, Way, Counted, Told, Asked
  <2>4. QED
    BY <1>1, <1>4, <2>2, <2>3, QuietStep
<1>7. QED
  BY <1>5, <1>6

LEMMA SetKeeps ==
    ASSUME ShopInv, NEW t \in Threads, S!Set(t)
    PROVE  ShopInv'
<1>0. /\ job[t].lists \in SUBSET Lists /\ job[t].lists \subseteq Ever
  BY RequestIs DEF Told
<1>1. /\ job[t].at = "set" /\ S!Goes(t, S!Free)
      /\ chosen' = IF job[t].list \in job[t].lists THEN job[t].list ELSE chosen
      /\ S!Quiet /\ UNCHANGED <<lists, counts, legacy>>
  BY DEF S!Set, S!Ends
<1>2. UNCHANGED <<mealie, past, done>>
  BY <1>1 DEF S!Quiet
<1>3. chosen' \in Lists \cup {S!None} /\ ListsKnown'
  BY <1>0, <1>1, <1>2 DEF ShopInv, AtHand, ListsKnown, Ever
<1>4. S!CountsHoldAdditions'
  BY <1>1, <1>2 DEF ShopInv, AtHand, S!CountsHoldAdditions
<1>5. AtHand'
  BY <1>1, <1>3, <1>4 DEF ShopInv, AtHand
<1>6. QED
  BY <1>1, <1>5, FreeIsFine, QuietStep

LEMMA ReadRowsKeeps ==
    ASSUME ShopInv, NEW t \in Threads, S!ReadRows(t)
    PROVE  ShopInv'
<1> DEFINE found == S!Refreshed(job[t].food)
           todo == {[id |-> r, row |-> S!Payload(rows[r])] : r \in found}
           at == IF chosen = S!None /\ legacy = S!None THEN "lists" ELSE "put"
           q == [job[t] EXCEPT !.at = at, !.todo = todo]
<1>0. /\ job[t] \in S!Job /\ Told(job[t]) /\ Way(job[t])
  BY RequestIs
<1>1. /\ job[t].at = "rows" /\ S!Quiet /\ UNCHANGED <<lists, counts, chosen, legacy>>
      /\ S!Goes(t, S!Free) \/ S!Goes(t, q)
  BY DEF S!ReadRows, S!Ends, S!Known
<1>2. \A r \in found : S!Payload(rows[r]) \in S!Row
  <2>1. \A r \in found : r \in Rows /\ rows[r] # S!None
    BY DEF S!Refreshed
  <2> HIDE DEF found
  <2>2. \A r \in found : rows[r] \in S!Row
    BY <2>1 DEF ShopInv, Held
  <2>3. QED
    BY <2>1, <2>2, RowsAreRows
<1>3. found \subseteq Rows /\ at \in {"lists", "put"}
  BY DEF S!Refreshed
<1> HIDE DEF found, at
<1>4. todo \in SUBSET [id : Rows, row : S!Row]
  BY <1>2, <1>3
<1> HIDE DEF todo
<1>5. q \in S!Job /\ q.at = at /\ q.lists = job[t].lists
      /\ q.op = job[t].op /\ q.then = job[t].then
  BY <1>0, <1>3, <1>4 DEF S!Job, S!Stages
<1> HIDE DEF q
<1>6. CASE S!Goes(t, q)
  <2>1. Fine(q)
    BY <1>0, <1>1, <1>3, <1>5 DEF Fine, Way, Counted, Told, Asked
  <2>2. AtHand'
    BY <1>1, KeptStays DEF ShopInv, S!Quiet
  <2>3. QED
    BY <1>1, <1>6, <2>1, <2>2, QuietStep
<1>7. QED
  BY <1>1, <1>6, EndsKeep

LEMMA RoomRests ==
    ASSUME Room, \A u \in Threads : job'[u].at = job[u].at,
           UNCHANGED <<requests, posted, done>>
    PROVE  Room'
<1>1. Pending' = Pending
  BY DEF Pending
<1>2. QED
  BY <1>1 DEF Room

LEMMA OwnerKeeps ==
    ASSUME ShopInv, \/ \E r \in Rows : S!ChangesRow(r)
                    \/ \E l \in Lists : S!MakesList(l) \/ S!DropsList(l)
    PROVE  ShopInv'
<1>0. Held /\ AtHand /\ job \in [Threads -> S!Job] /\ \A u \in Threads : Fine(job[u])
  BY DEF ShopInv
<1>1. ASSUME NEW r \in Rows, S!ChangesRow(r) PROVE ShopInv'
  <2>1. /\ rows[r] # S!None
        /\ UNCHANGED <<mealie, past, lists, counts, chosen, legacy, job, requests, posted, done>>
    BY <1>1 DEF S!ChangesRow, S!Known
  <2>2. PICK row \in {S!None}
                     \cup {[rows[r] EXCEPT !.done = d] : d \in {"no", "checked", "otherwise"}}
                     \cup {[rows[r] EXCEPT !.quantity = q] : q \in 1..MaxQuantity} :
               rows' = [rows EXCEPT ![r] = row]
    BY <1>1 DEF S!ChangesRow
  <2>3. rows[r] \in S!Row /\ rows[r].list \in mealie
    BY <1>0, <2>1 DEF Held
  <2>4. row \in S!Row \cup {S!None} /\ (row # S!None => row.list \in mealie)
    <3>1. \A d \in {"no", "checked", "otherwise"} :
              /\ [rows[r] EXCEPT !.done = d] \in S!Row
              /\ [rows[r] EXCEPT !.done = d].list = rows[r].list
      BY <2>3 DEF S!Row
    <3>2. \A q \in 1..MaxQuantity : /\ [rows[r] EXCEPT !.quantity = q] \in S!Row
                                    /\ [rows[r] EXCEPT !.quantity = q].list = rows[r].list
      BY <2>3, ShopAssumption DEF S!Row
    <3>3. QED
      BY <2>2, <2>3, <3>1, <3>2
  <2>5. \A u \in Threads : Fine(job[u])'
    BY <1>0, <2>1 DEF Fine, Way, Counted, Told, Asked, Ever
  <2>6. Held'
    <3>1. Room'
      BY <1>0, <2>1, <2>5, RoomRests DEF Held
    <3>2. QED
      BY <1>0, <2>1, <2>2, <2>4, <3>1 DEF Held
  <2>7. AtHand'
    BY <1>0, <2>1, KeptStays
  <2>8. QED
    BY <1>0, <2>1, <2>5, <2>6, <2>7 DEF ShopInv
<1>2. ASSUME NEW l \in Lists, S!MakesList(l) PROVE ShopInv'
  <2>1. /\ l \notin Ever /\ mealie' = mealie \cup {l}
        /\ UNCHANGED <<past, rows, lists, counts, chosen, legacy, job, requests, posted, done>>
    BY <1>2 DEF S!MakesList, S!Known, Ever
  <2>2. Ever' = Ever \cup {l}
    BY <2>1 DEF Ever
  <2>3. \A u \in Threads : Fine(job[u])'
    BY <1>0, <2>1, <2>2 DEF Fine, Way, Counted, Told, Asked
  <2>4. AtHand'
    BY <1>0, <2>1, <2>2 DEF AtHand, ListsKnown, S!CountsHoldAdditions
  <2>5. Room'
    BY <1>0, <2>1, RoomRests DEF Held
  <2>6. Held'
    BY <1>0, <2>1, <2>5 DEF Held, Ever
  <2>7. QED
    BY <1>0, <2>1, <2>3, <2>4, <2>6 DEF ShopInv
<1>3. ASSUME NEW l \in Lists, S!DropsList(l) PROVE ShopInv'
  <2>1. /\ l \in mealie /\ mealie' = mealie \ {l} /\ past' = past \cup {l}
        /\ rows' = [r \in Rows |-> IF rows[r] # S!None /\ rows[r].list = l
                                   THEN S!None ELSE rows[r]]
        /\ UNCHANGED <<lists, counts, chosen, legacy, job, requests, posted, done>>
    BY <1>3 DEF S!DropsList, S!Known
  <2>2. Ever' = Ever /\ mealie' \subseteq mealie
    BY <2>1 DEF Ever
  <2>3. \A u \in Threads : Fine(job[u])'
    BY <1>0, <2>1, <2>2 DEF Fine, Way, Counted, Told, Asked
  <2>4. AtHand'
    BY <1>0, <2>1, <2>2 DEF AtHand, ListsKnown, S!CountsHoldAdditions
  <2>5. Room'
    BY <1>0, <2>1, RoomRests DEF Held
  <2>6. Held'
    BY <1>0, <2>1, <2>5 DEF Held
  <2>7. QED
    BY <1>0, <2>1, <2>3, <2>4, <2>6 DEF ShopInv
<1>4. QED
  BY <1>1, <1>2, <1>3

LEMMA ListsExpireKeeps ==
    ASSUME ShopInv, S!Expire
    PROVE  ShopInv'
<1>0. Held /\ AtHand /\ job \in [Threads -> S!Job] /\ \A u \in Threads : Fine(job[u])
  BY DEF ShopInv
<1>1. UNCHANGED <<mealie, past, rows, chosen, legacy, job, requests, posted, done>>
  BY DEF S!Expire
<1>2. \/ lists' = lists
      \/ lists # S!None /\ lists' = [lists EXCEPT !.young = FALSE]
  BY DEF S!Expire
<1>3. \/ counts' = counts
      \/ counts # S!None /\ counts' = [counts EXCEPT !.young = FALSE]
  BY DEF S!Expire
<1>4. /\ lists' \in [rows : SUBSET Lists, young : BOOLEAN] \cup {S!None}
      /\ lists' # S!None => lists # S!None /\ lists'.rows = lists.rows
  BY <1>0, <1>2 DEF AtHand
<1>5. /\ counts' \in [young : BOOLEAN, failed : BOOLEAN,
                      seen : 0..MaxAsks, crossed : BOOLEAN] \cup {S!None}
      /\ counts' # S!None => /\ counts # S!None /\ counts'.crossed = counts.crossed
                             /\ counts'.failed = counts.failed /\ counts'.seen = counts.seen
  BY <1>0, <1>3 DEF AtHand
<1>6. ListsKnown'
  BY <1>0, <1>1, <1>4 DEF AtHand, ListsKnown, Ever
<1>7. S!CountsHoldAdditions'
  BY <1>0, <1>1, <1>5 DEF AtHand, S!CountsHoldAdditions
<1>8. AtHand'
  BY <1>0, <1>1, <1>4, <1>5, <1>6, <1>7 DEF AtHand
<1>9. Held'
  BY <1>0, <1>1 DEF Held, Room, Pending
<1>10. \A u \in Threads : Fine(job[u])'
  BY <1>0, <1>1 DEF Fine, Way, Counted, Told, Asked, Ever
<1>11. QED
  BY <1>0, <1>1, <1>8, <1>9, <1>10 DEF ShopInv

\* Mealie gives a row one more, or has a new one.
LEMMA PostedRows ==
    ASSUME Held, NEW l \in mealie, NEW food \in Goods, NEW rs \in S!Posted(l, food)
    PROVE  /\ rs \in [Rows -> S!Row \cup {S!None}]
           /\ \A r \in Rows : rs[r] # S!None => rs[r].list \in mealie
<1> DEFINE same == {r \in S!OpenRows(l) : rows[r].food = food}
           new == [list |-> l, food |-> food, quantity |-> 1, done |-> "no"]
<1>0. /\ rows \in [Rows -> S!Row \cup {S!None}] /\ l \in Lists
      /\ \A r \in Rows : rows[r] # S!None => rows[r].list \in mealie
  BY DEF Held
<1>1. new \in S!Row /\ new.list = l
  BY <1>0, ShopAssumption DEF S!Row
<1> HIDE DEF new
<1>2. \/ \E r \in {x \in same : rows[x].quantity < MaxQuantity} :
             rs = [rows EXCEPT ![r].quantity = @ + 1]
      \/ \E r \in {x \in Rows : rows[x] = S!None} : rs = [rows EXCEPT ![r] = new]
  BY DEF S!Posted, new
<1>3. CASE \E r \in {x \in same : rows[x].quantity < MaxQuantity} :
               rs = [rows EXCEPT ![r].quantity = @ + 1]
  <2>1. PICK r \in Rows : /\ rows[r] # S!None /\ rows[r].quantity < MaxQuantity
                          /\ rs = [rows EXCEPT ![r].quantity = @ + 1]
    BY <1>3 DEF S!OpenRows
  <2>2. rows[r] \in S!Row
    BY <1>0, <2>1
  <2> DEFINE row == [rows[r] EXCEPT !.quantity = @ + 1]
  <2>3. row \in S!Row /\ row.list = rows[r].list
    BY <2>1, <2>2, ShopAssumption DEF S!Row
  <2>4. rs = [rows EXCEPT ![r] = row]
    BY <2>1
  <2> HIDE DEF row
  <2>5. QED
    BY <1>0, <2>1, <2>3, <2>4
<1>4. CASE \E r \in {x \in Rows : rows[x] = S!None} : rs = [rows EXCEPT ![r] = new]
  BY <1>0, <1>1, <1>4
<1>5. QED
  BY <1>2, <1>3, <1>4

LEMMA PostKeeps ==
    ASSUME ShopInv, NEW t \in Threads, S!Post(t)
    PROVE  ShopInv'
<1>0. Held /\ AtHand /\ job \in [Threads -> S!Job] /\ \A u \in Threads : Fine(job[u])
  BY DEF ShopInv
<1>1. /\ job[t].at = "post"
      /\ UNCHANGED <<mealie, past, lists, counts, chosen, legacy, requests, moves, done>>
  BY DEF S!Post, S!Known
<1>2. AtHand'
  BY <1>0, <1>1, KeptStays
<1> DEFINE q == [job[t] EXCEPT !.at = "invalidate"]
<1>3. Fine(q) /\ q.at = "invalidate"
  <2>1. job[t] \in S!Job /\ Way(job[t]) /\ Counted(job[t]) /\ Told(job[t])
    BY RequestIs
  <2>2. /\ q \in S!Job /\ q.at = "invalidate" /\ q.lists = job[t].lists
        /\ q.op = job[t].op /\ q.then = job[t].then
        /\ q.seen = job[t].seen /\ q.crossed = job[t].crossed /\ q.failed = job[t].failed
    BY <2>1 DEF S!Job, S!Stages
  <2> HIDE DEF q
  <2>3. QED
    BY <1>1, <2>1, <2>2 DEF Fine, Way, Counted, Told, Asked
<1>4. \/ S!Goes(t, S!Free) /\ UNCHANGED <<rows, posted>>
      \/ /\ posted' = posted + 1
         /\ \E l \in mealie : rows' \in S!Posted(l, job[t].food)
         /\ \E x \in {q, S!Free} : S!Goes(t, x)
  BY DEF S!Post, S!At, S!Ends
<1> HIDE DEF q
<1>5. CASE S!Goes(t, S!Free) /\ UNCHANGED <<rows, posted>>
  <2>1. Room'
    BY <1>1, <1>5, RoomStays
  <2>2. QED
    BY <1>1, <1>2, <1>5, <2>1, FreeIsFine, RequestMoves
<1>6. CASE /\ posted' = posted + 1
           /\ \E l \in mealie : rows' \in S!Posted(l, job[t].food)
           /\ \E x \in {q, S!Free} : S!Goes(t, x)
  <2>1. PICK x \in {q, S!Free} : S!Goes(t, x)
    BY <1>6
  <2>2. Fine(x) /\ x.at \in {"invalidate", "free"}
    BY <1>3, <2>1, FreeIsFine, FreeIs
  <2>3. /\ job' \in [Threads -> S!Job] /\ job'[t] = x
        /\ \A u \in Threads \ {t} : job'[u] = job[u]
    BY <1>0, <2>1, <2>2 DEF Fine, S!Goes
  <2>4. \A u \in Threads : Fine(job[u])'
    <3> SUFFICES ASSUME NEW u \in Threads PROVE Fine(job[u])'
      OBVIOUS
    <3>1. Fine(job'[u])
      BY <1>0, <2>2, <2>3
    <3>2. QED
      BY <1>1, <3>1 DEF Fine, Way, Counted, Told, Asked, Ever
  <2>5. Room'
    <3>1. Pending' = Pending \ {t} /\ t \in Pending
      BY <1>1, <2>2, <2>3 DEF Pending
    <3>2. Cardinality(Pending') = Cardinality(Pending) - 1
      BY <3>1, PendingIsFinite, FS_RemoveElement
    <3>3. QED
      BY <1>0, <1>1, <1>6, <3>2, PendingIsFinite DEF Held, Room
  <2>6. Held'
    <3>1. PICK l \in mealie : rows' \in S!Posted(l, job[t].food)
      BY <1>6
    <3>2. job[t].food \in Goods
      BY RequestIs
    <3>3. /\ rows' \in [Rows -> S!Row \cup {S!None}]
          /\ \A r \in Rows : rows'[r] # S!None => rows'[r].list \in mealie
      BY <1>0, <3>1, <3>2, PostedRows
    <3>4. done' <= posted'
      BY <1>0, <1>1, <1>6, RoomLeft DEF Held
    <3>5. QED
      BY <1>0, <1>1, <2>5, <3>3, <3>4 DEF Held
  <2>7. QED
    BY <1>2, <2>3, <2>4, <2>6 DEF ShopInv
<1>7. QED
  BY <1>4, <1>5, <1>6

LEMMA InvalidateKeeps ==
    ASSUME ShopInv, NEW t \in Threads, S!Invalidate(t)
    PROVE  ShopInv'
<1>0. Held /\ AtHand /\ job \in [Threads -> S!Job] /\ \A u \in Threads : Fine(job[u])
  BY DEF ShopInv
<1>1. /\ job[t].at = "invalidate" /\ counts' = S!None /\ done' = posted
      /\ job' = [u \in Threads |->
                     IF u = t THEN S!Free
                     ELSE IF job[u].op = "counts" /\ job[u].then = "store"
                     THEN [job[u] EXCEPT !.crossed = TRUE] ELSE job[u]]
      /\ UNCHANGED <<mealie, past, rows, lists, chosen, legacy, requests, posted>>
  BY DEF S!Invalidate, S!Dropped
<1>2. ASSUME NEW u \in Threads
      PROVE  /\ job'[u] \in S!Job /\ Fine(job[u])'
             /\ job'[u].at \in {job[u].at, "free"}
  <2>1. job'[u] = IF u = t THEN S!Free
                  ELSE IF job[u].op = "counts" /\ job[u].then = "store"
                  THEN [job[u] EXCEPT !.crossed = TRUE] ELSE job[u]
    BY <1>1
  <2>2. job[u] \in S!Job /\ Fine(job[u])
    BY RequestIs
  <2>3. CASE u = t
    BY <1>1, <2>1, <2>3, FreeIs DEF Fine, Way, Counted, Told, Asked
  <2>4. CASE u # t /\ job[u].op = "counts" /\ job[u].then = "store"
    <3> DEFINE q == [job[u] EXCEPT !.crossed = TRUE]
    <3>1. /\ q \in S!Job /\ q.at = job[u].at /\ q.lists = job[u].lists
          /\ q.op = job[u].op /\ q.then = job[u].then /\ q.crossed
      BY <2>2 DEF S!Job
    <3>2. job'[u] = q
      BY <2>1, <2>4
    <3> HIDE DEF q
    <3>3. Way(job[u])' /\ Counted(job[u])' /\ Told(job[u])'
      BY <1>1, <2>2, <2>4, <3>1, <3>2 DEF Fine, Way, Counted, Told, Asked, Ever
    <3>4. QED
      BY <3>1, <3>2, <3>3 DEF Fine
  <2>5. CASE u # t /\ ~(job[u].op = "counts" /\ job[u].then = "store")
    <3>1. job'[u] = job[u]
      BY <2>1, <2>5
    <3>2. QED
      BY <1>1, <2>2, <2>5, <3>1 DEF Fine, Way, Counted, Told, Asked, Ever
  <2>6. QED
    BY <2>3, <2>4, <2>5
<1>3. job' \in [Threads -> S!Job]
  BY <1>1, <1>2
<1>4. Room'
  <2>1. Pending' \subseteq Pending
    BY <1>2 DEF Pending
  <2>2. Cardinality(Pending') <= Cardinality(Pending)
    BY <2>1, PendingIsFinite, FS_Subset
  <2>3. QED
    BY <1>0, <1>1, <2>2, PendingIsFinite DEF Held, Room
<1>5. Held'
  BY <1>0, <1>1, <1>4, RoomLeft DEF Held
<1>6. AtHand'
  BY <1>0, <1>1 DEF AtHand, ListsKnown, S!CountsHoldAdditions, Ever
<1>7. QED
  BY <1>2, <1>3, <1>5, <1>6 DEF ShopInv

LEMMA PutKeeps ==
    ASSUME ShopInv, NEW t \in Threads, NEW entry \in job[t].todo, S!Put(t, entry)
    PROVE  ShopInv'
<1> DEFINE q == [job[t] EXCEPT !.todo = @ \ {entry}]
<1>0. Held /\ AtHand /\ job \in [Threads -> S!Job] /\ \A u \in Threads : Fine(job[u])
  BY DEF ShopInv
<1>1. /\ job[t].at = "put" /\ S!Goes(t, q)
      /\ UNCHANGED <<mealie, past, lists, counts, chosen, legacy, requests, posted, done>>
      /\ rows' \in S!Written(entry) \cup {rows}
  BY DEF S!Put, S!Known
<1>2. entry.id \in Rows /\ entry.row \in S!Row
  <2>1. job[t] \in S!Job
    BY <1>0
  <2>2. QED
    BY <2>1 DEF S!Job
<1>3. /\ rows' \in [Rows -> S!Row \cup {S!None}]
      /\ \A r \in Rows : rows'[r] # S!None => rows'[r].list \in mealie
  <2>1. CASE rows' = rows
    BY <1>0, <2>1 DEF Held
  <2>2. CASE rows' # rows
    <3>1. rows[entry.id] # S!None /\ entry.row.list \in mealie
      BY <1>1, <2>2 DEF S!Written
    <3>2. PICK d \in {"no", rows[entry.id].done} :
              rows' = [rows EXCEPT ![entry.id] = [entry.row EXCEPT !.done = d]]
      BY <1>1, <2>2, <3>1 DEF S!Written
    <3>3. d \in {"no", "checked", "otherwise"}
      <4>1. rows[entry.id] \in S!Row
        BY <1>0, <1>2, <3>1 DEF Held
      <4>2. QED
        BY <3>2, <4>1 DEF S!Row
    <3> DEFINE row == [entry.row EXCEPT !.done = d]
    <3>4. row \in S!Row /\ row.list \in mealie
      BY <1>2, <3>1, <3>3 DEF S!Row
    <3>5. rows' = [rows EXCEPT ![entry.id] = row]
      BY <3>2
    <3> HIDE DEF row
    <3>6. QED
      BY <1>0, <1>2, <3>4, <3>5 DEF Held
  <2>3. QED
    BY <2>1, <2>2
<1>4. Fine(q) /\ q.at = job[t].at
  <2>1. job[t] \in S!Job /\ Way(job[t]) /\ Counted(job[t]) /\ Told(job[t])
    BY RequestIs
  <2>2. /\ q \in S!Job /\ q.at = job[t].at /\ q.lists = job[t].lists
        /\ q.op = job[t].op /\ q.then = job[t].then
        /\ q.seen = job[t].seen /\ q.crossed = job[t].crossed /\ q.failed = job[t].failed
    BY <2>1 DEF S!Job
  <2> HIDE DEF q
  <2>3. QED
    BY <1>1, <2>1, <2>2 DEF Fine, Way, Counted, Told, Asked
<1> HIDE DEF q
<1>5. /\ job' \in [Threads -> S!Job] /\ job'[t] = q
      /\ \A u \in Threads \ {t} : job'[u] = job[u]
  BY <1>0, <1>1, <1>4 DEF Fine, S!Goes
<1>6. \A u \in Threads : Fine(job[u])' /\ job'[u].at = job[u].at
  <2> SUFFICES ASSUME NEW u \in Threads PROVE Fine(job[u])' /\ job'[u].at = job[u].at
    OBVIOUS
  <2>1. Fine(job'[u]) /\ job'[u].at = job[u].at
    BY <1>0, <1>4, <1>5
  <2>2. QED
    BY <1>1, <2>1 DEF Fine, Way, Counted, Told, Asked, Ever
<1>7. Room'
  BY <1>0, <1>1, <1>6, RoomRests DEF Held
<1>8. Held'
  BY <1>0, <1>1, <1>3, <1>7 DEF Held
<1>9. AtHand'
  BY <1>0, <1>1, KeptStays
<1>10. QED
  BY <1>5, <1>6, <1>8, <1>9 DEF ShopInv

LEMMA ShopInvInit == S!Init => ShopInv
<1> SUFFICES ASSUME S!Init PROVE ShopInv
  OBVIOUS
<1>1. /\ mealie \in SUBSET Lists /\ past = {} /\ lists = S!None /\ counts = S!None
      /\ chosen = S!None /\ legacy \in mealie \cup {S!None}
      /\ job = [t \in Threads |-> S!Free] /\ requests = 0 /\ posted = 0 /\ done = 0
      /\ rows \in [Rows -> [list : mealie, food : Goods,
                            quantity : 0..1, done : {"no"}] \cup {S!None}]
  BY DEF S!Init
<1>2. \A t \in Threads : Fine(job[t]) /\ job[t].at = "free"
  BY <1>1, FreeIsFine, FreeIs
<1>3. job \in [Threads -> S!Job]
  BY <1>1, FreeIs
<1>4. Room
  <2>1. Pending = {}
    BY <1>2 DEF Pending
  <2>2. QED
    BY <1>1, <2>1, FS_EmptySet, ShopAssumption DEF Room
<1>5. /\ rows \in [Rows -> S!Row \cup {S!None}]
      /\ \A r \in Rows : rows[r] # S!None => rows[r].list \in mealie
  <2>1. [list : mealie, food : Goods, quantity : 0..1, done : {"no"}] \subseteq S!Row
    <3>1. 0..1 \subseteq 0..MaxQuantity /\ mealie \subseteq Lists
      BY <1>1, ShopAssumption
    <3>2. QED
      BY <3>1 DEF S!Row
  <2>2. QED
    BY <1>1, <2>1
<1>6. Held
  BY <1>1, <1>4, <1>5 DEF Held
<1>7. AtHand
  BY <1>1 DEF AtHand, ListsKnown, S!CountsHoldAdditions
<1>8. QED
  BY <1>2, <1>3, <1>6, <1>7 DEF ShopInv

LEMMA ShopStep == ShopInv /\ [S!Next]_(S!vars) => ShopInv'
<1> SUFFICES ASSUME ShopInv, [S!Next]_(S!vars) PROVE ShopInv'
  OBVIOUS
<1>1. CASE UNCHANGED S!vars
  <2>1. UNCHANGED <<mealie, past, rows, lists, counts, chosen, legacy, job,
                    requests, posted, done>>
    BY <1>1 DEF S!vars
  <2>2. Held' /\ AtHand'
    BY <2>1 DEF ShopInv, Held, AtHand, Room, Pending, ListsKnown, Ever,
                S!CountsHoldAdditions
  <2>3. \A u \in Threads : Fine(job[u])'
    BY <2>1 DEF ShopInv, Fine, Way, Counted, Told, Asked, Ever
  <2>4. QED
    BY <2>1, <2>2, <2>3 DEF ShopInv
<1>2. ASSUME NEW t \in Threads,
             NEW op \in {"counts", "default", "choose", "add", "quick", "refresh"},
             NEW force \in BOOLEAN, NEW list \in Lists \cup {S!None}, NEW food \in Goods,
             S!Asks(t, op, force, list, food)
      PROVE  ShopInv'
  BY <1>2, AsksKeep
<1>3. ASSUME NEW t \in Threads,
             \/ S!Look(t) \/ S!ListsLook(t) \/ S!ListsGet(t) \/ S!ListsKeep(t)
             \/ S!Items(t) \/ S!Store(t) \/ S!Configured(t) \/ S!Set(t)
      PROVE  ShopInv'
  BY <1>3, LookKeeps, ListsLookKeeps, ListsGetKeeps, ListsKeepKeeps, ItemsKeep,
     StoreCountsKeeps, ConfiguredKeeps, SetKeeps
<1>4. ASSUME NEW t \in Threads,
             \/ S!Answer(t) \/ S!PutsEnd(t) \/ S!Post(t) \/ S!Invalidate(t)
             \/ S!ReadRows(t) \/ \E entry \in job[t].todo : S!Put(t, entry)
      PROVE  ShopInv'
  <2>1. CASE S!Answer(t) \/ S!PutsEnd(t)
    BY <2>1, EndsKeep DEF S!Answer, S!PutsEnd, S!Ends, S!Known
  <2>2. QED
    BY <1>4, <2>1, PostKeeps, InvalidateKeeps, ReadRowsKeeps, PutKeeps
<1>5. S!Free.food \in Goods
  BY FreeIs
<1>6. QED
  BY <1>1, <1>2, <1>3, <1>4, <1>5, OwnerKeeps, ListsExpireKeeps DEF S!Next

LEMMA ShopMoves == [MCNext]_all => [S!Next]_(S!vars)
BY DEF MCNext, all, shopVars, S!vars

LEMMA ShopInvAlways == MCSpec => []ShopInv
<1>1. MCInit => ShopInv
  BY ShopInvInit DEF MCInit
<1>2. ShopInv /\ [MCNext]_all => ShopInv'
  BY ShopStep, ShopMoves
<1>3. QED
  BY <1>1, <1>2, PTL DEF MCSpec

\* The list that was chosen is the one of the answer.
LEMMA ChoiceIsTold == ShopInv => S!ChoiceStands
<1> SUFFICES ASSUME ShopInv, NEW t \in Threads,
                    job[t].at = "answer", job[t].force, ~job[t].failed,
                    job[t].list # S!None, job[t].list \in mealie
             PROVE  S!Defaults(t) = {job[t].list}
  BY DEF S!ChoiceStands
<1>1. job[t].list \in job[t].lists
  BY RequestIs DEF Way, Told, Asked
<1>2. S!Available(t, job[t].list)
  BY <1>1 DEF S!Available
<1>3. QED
  BY <1>2 DEF S!Defaults

\* The numbers of the dashboard hold what B2M has added whatever the age of
\* the cache, and who asks anew is told the list that was chosen, for any
\* number of requests that overlap (_invalidate_counts_cache,
\* get_default_shopping_list).
THEOREM DashboardCorrectAlways == MCSpec => []DashboardCorrect
<1>1. ShopInv => DashboardCorrect
  BY ShopInvIs, ChoiceIsTold DEF DashboardCorrect, S!DashboardCorrect
<1>2. QED
  BY <1>1, ShopInvAlways, PTL

-----------------------------------------------------------------------------
(* Printed lists.                                                          *)

-----------------------------------------------------------------------------
(* Names, aliases and orders of sections.                                  *)

\* Natural numbers have a least.
LEMMA LeastNumber ==
    ASSUME NEW T \in SUBSET Nat, T # {}
    PROVE  \E n \in T : \A m \in T : n <= m
<1> DEFINE R == {ss \in Nat \X Nat : ss[1] < ss[2]}
<1>1. IsWellFoundedOn(R, Nat)
  BY NatLessThanWellFounded DEF OpToRel
<1>2. PICK n \in T : \A m \in T : <<m, n>> \notin R
  BY <1>1, WFMin
<1>3. \A m \in T : m \in Nat /\ n \in Nat /\ ~(m < n)
  BY <1>2
<1>4. QED
  BY <1>3

\* The last of some places is one of them.
LEMMA LastIsOne ==
    ASSUME NEW n \in Nat, NEW T \in SUBSET (1..n), T # {}
    PROVE  Last(T) \in T /\ \A j \in T : j <= Last(T)
<1> DEFINE D == {d \in Nat : n - d \in T}
<1>1. D # {}
  <2>1. PICK i \in T : TRUE
    OBVIOUS
  <2>2. n - i \in Nat /\ n - (n - i) = i
    OBVIOUS
  <2>3. n - i \in D
    BY <2>1, <2>2
  <2>4. QED
    BY <2>3
<1>2. PICK d \in D : \A e \in D : d <= e
  BY <1>1, LeastNumber
<1>3. n - d \in T /\ \A j \in T : j <= n - d
  <2>1. \A j \in T : n - j \in Nat /\ n - (n - j) = j
    OBVIOUS
  <2>2. \A j \in T : n - j \in D
    BY <2>1
  <2>3. QED
    BY <1>2, <2>1, <2>2
<1>4. QED
  BY <1>3 DEF Last

\* What is left of aliases is at places of a list, of names that differ.
LEMMA LeftOfFacts ==
    ASSUME NEW c, LeftOf(c)
    PROVE  /\ \E n \in Nat : DOMAIN c \subseteq 1..n
           /\ \A i \in DOMAIN c : /\ c[i].of \in Names /\ c[i].as \in Names
                                  /\ KeyOf[c[i].as] # KeyOf[c[i].of]
<1>1. PICK aka \in Aliases \cup {<<>>} :
          \E places \in SUBSET DOMAIN Renaming(aka) : c = Restrict(aka, places)
  BY DEF LeftOf
<1>2. PICK places \in SUBSET DOMAIN Renaming(aka) : c = Restrict(aka, places)
  BY <1>1
<1>3. aka \in Seq(Alias) /\ DOMAIN aka = 1..Len(aka) /\ Len(aka) \in Nat
  <2>1. Aliases \subseteq Seq(Alias)
    BY PrintAssumption
  <2>a. <<>> \in Seq(Alias)
    BY EmptySeq
  <2>2. aka \in Seq(Alias)
    BY <1>1, <2>1, <2>a
  <2>3. QED
    BY <2>2
<1>4. DOMAIN c = places /\ \A i \in places : c[i] = aka[i]
  BY <1>2 DEF Restrict
<1>5. \A i \in places : i \in DOMAIN aka /\ KeyOf[aka[i].as] # KeyOf[aka[i].of]
  BY <1>2 DEF Renaming, Restrict
<1>6. \A i \in DOMAIN aka : aka[i] \in Alias
  BY <1>3, ElementOfSeq
<1>7. QED
  BY <1>3, <1>4, <1>5, <1>6 DEF Alias

\* Taking some of what is left leaves some.
LEMMA LeftOfLess ==
    ASSUME NEW c, LeftOf(c), NEW places \in SUBSET DOMAIN c
    PROVE  LeftOf(Restrict(c, places))
<1>1. PICK aka \in Aliases \cup {<<>>} :
          \E ps \in SUBSET DOMAIN Renaming(aka) : c = Restrict(aka, ps)
  BY DEF LeftOf
<1>2. PICK ps \in SUBSET DOMAIN Renaming(aka) : c = Restrict(aka, ps)
  BY <1>1
<1>3. places \in SUBSET DOMAIN Renaming(aka) /\ Restrict(c, places) = Restrict(aka, places)
  BY <1>2 DEF Restrict
<1>4. QED
  BY <1>1, <1>3 DEF LeftOf

\* No aliases, and those that have just been sent, are some that are left.
LEMMA LeftOfSent ==
    /\ LeftOf(<<>>)
    /\ \A aka \in Aliases : LeftOf(Renaming(aka))
<1>1. LeftOf(<<>>)
  <2>1. <<>> = Restrict(<<>>, {}) /\ {} \in SUBSET DOMAIN Renaming(<<>>)
    BY DEF Restrict
  <2>2. QED
    BY <2>1 DEF LeftOf
<1>2. ASSUME NEW aka \in Aliases PROVE LeftOf(Renaming(aka))
  <2>1. Renaming(aka) = Restrict(aka, DOMAIN Renaming(aka))
    BY DEF Renaming, Restrict
  <2>2. QED
    BY <2>1 DEF LeftOf
<1>3. QED
  BY <1>1, <1>2

\* The name that is picked has the key, and is one of those there are.
LEMMA PickIs ==
    ASSUME NEW A, NEW B, NEW n
    PROVE  /\ KeyOf[Pick(OfKey(A, KeyOf[n]), OfKey(B, KeyOf[n]), n)] = KeyOf[n]
           /\ Pick(OfKey(A, KeyOf[n]), OfKey(B, KeyOf[n]), n) \in A \cup B \cup {n}
<1> DEFINE P == OfKey(A, KeyOf[n])
           Q == OfKey(B, KeyOf[n])
<1>1. \A m \in P : m \in A /\ KeyOf[m] = KeyOf[n]
  BY DEF OfKey
<1>2. \A m \in Q : m \in B /\ KeyOf[m] = KeyOf[n]
  BY DEF OfKey
<1> HIDE DEF P, Q
<1>3. /\ KeyOf[Pick(P, Q, n)] = KeyOf[n]
      /\ Pick(P, Q, n) \in A \cup B \cup {n}
  BY <1>1, <1>2 DEF Pick
<1>4. QED
  BY <1>3 DEF P, Q

\* The categories of the rows and the sources of the aliases are names.
LEMMA NamesInUse ==
    ASSUME open \subseteq Rows
    PROVE  /\ \A l \in Lists : Official(l) \subseteq Names
           /\ \A aka : LeftOf(aka) => Sources(aka) \subseteq Names
<1>1. \A l \in Lists : Official(l) \subseteq Names
  BY PrintAssumption DEF Official, OpenOn
<1>2. QED
  BY <1>1, LeftOfFacts DEF Sources

\* The last alias of a text is one of that text.
LEMMA CalledIsOne ==
    ASSUME NEW aka, LeftOf(aka), NEW k, Called(aka, k) # {}
    PROVE  /\ Last(Called(aka, k)) \in DOMAIN aka
           /\ KeyOf[aka[Last(Called(aka, k))].as] = k
<1>1. PICK n \in Nat : DOMAIN aka \subseteq 1..n
  BY LeftOfFacts
<1>2. Called(aka, k) \in SUBSET (1..n) /\ Called(aka, k) \subseteq DOMAIN aka
  BY <1>1 DEF Called
<1>3. Last(Called(aka, k)) \in Called(aka, k)
  BY <1>2, LastIsOne
<1>4. QED
  BY <1>3 DEF Called

\* A canonical name has the key of the name.
LEMMA CanonicalIs ==
    ASSUME open \subseteq Rows, NEW l \in Lists, NEW aka, LeftOf(aka), NEW n \in Names
    PROVE  /\ Canonical(l, aka, n) \in Names
           /\ KeyOf[Canonical(l, aka, n)] = KeyOf[n]
BY NamesInUse, PickIs DEF Canonical

\* The key of the section of a name.
LEMMA ResolvedIs ==
    ASSUME open \subseteq Rows, NEW l \in Lists, NEW aka, LeftOf(aka), NEW n \in Names
    PROVE  /\ Resolved(l, aka, n) \in Names
           /\ KeyOf[Resolved(l, aka, n)]
                = IF Called(aka, KeyOf[n]) = {} THEN KeyOf[n]
                  ELSE KeyOf[aka[Last(Called(aka, KeyOf[n]))].of]
<1> DEFINE called == Called(aka, KeyOf[n])
           source == IF called = {} THEN n ELSE aka[Last(called)].of
<1>1. source \in Names
  BY CalledIsOne, LeftOfFacts
<1>2. Canonical(l, aka, source) \in Names /\ KeyOf[Canonical(l, aka, source)] = KeyOf[source]
  BY <1>1, CanonicalIs
<1>3. Resolved(l, aka, n) = Canonical(l, aka, source)
  BY DEF Resolved
<1> HIDE DEF source
<1>4. QED
  BY <1>2, <1>3 DEF source

\* What StandsFor gives for an alias, from what it gives for those before it.
Stands(aka, to, i) ==
    LET earlier == {j \in Called(aka, KeyOf[aka[i].of]) : j < i}
    IN IF earlier = {} THEN aka[i].of ELSE to[Last(earlier)]

\* The alias before one that is followed is an alias.
LEMMA EarlierIs ==
    ASSUME NEW aka, LeftOf(aka), NEW i \in DOMAIN aka,
           {j \in Called(aka, KeyOf[aka[i].of]) : j < i} # {}
    PROVE  LET last == Last({j \in Called(aka, KeyOf[aka[i].of]) : j < i})
           IN /\ last \in DOMAIN aka /\ last < i
              /\ KeyOf[aka[last].as] = KeyOf[aka[i].of]
<1> DEFINE earlier == {j \in Called(aka, KeyOf[aka[i].of]) : j < i}
<1>1. PICK n \in Nat : DOMAIN aka \subseteq 1..n
  BY LeftOfFacts
<1>2. earlier \in SUBSET (1..n) /\ earlier \subseteq DOMAIN aka
  BY <1>1 DEF Called
<1>3. Last(earlier) \in earlier
  BY <1>2, LastIsOne
<1>4. QED
  BY <1>3 DEF Called

\* The function exists: one alias more extends that of the ones before.
LEMMA StandsForExists ==
    ASSUME NEW aka, LeftOf(aka)
    PROVE  StandsFor(aka) = [i \in DOMAIN aka |-> Stands(aka, StandsFor(aka), i)]
<1>1. PICK n \in Nat : DOMAIN aka \subseteq 1..n
  BY LeftOfFacts
<1> DEFINE upto(k) == {i \in DOMAIN aka : i <= k}
           solves(f, k) == f = [i \in upto(k) |-> Stands(aka, f, i)]
           bad == {k \in Nat : \A f : ~solves(f, k)}
<1>2. ASSUME NEW k \in Nat, NEW f, solves(f, k)
      PROVE  \E g : solves(g, k + 1)
  <2> DEFINE g == [i \in upto(k + 1) |-> Stands(aka, f, i)]
  <2>1. \A i \in upto(k) : g[i] = f[i]
    <3>1. \A i \in upto(k) : i \in upto(k + 1)
      BY <1>1
    <3>2. QED
      BY <1>2, <3>1
  <2>2. \A i \in upto(k + 1) : Stands(aka, g, i) = Stands(aka, f, i)
    <3> SUFFICES ASSUME NEW i \in upto(k + 1)
                 PROVE  Stands(aka, g, i) = Stands(aka, f, i)
      OBVIOUS
    <3> DEFINE earlier == {j \in Called(aka, KeyOf[aka[i].of]) : j < i}
    <3>1. ASSUME earlier # {} PROVE g[Last(earlier)] = f[Last(earlier)]
      <4>1. Last(earlier) \in DOMAIN aka /\ Last(earlier) < i
        BY <3>1, EarlierIs
      <4>2. Last(earlier) \in upto(k)
        BY <1>1, <4>1
      <4>3. QED
        BY <2>1, <4>2
    <3> HIDE DEF g, earlier
    <3>2. Stands(aka, g, i) = (IF earlier = {} THEN aka[i].of ELSE g[Last(earlier)])
      BY DEF Stands, earlier
    <3>3. Stands(aka, f, i) = (IF earlier = {} THEN aka[i].of ELSE f[Last(earlier)])
      BY DEF Stands, earlier
    <3>4. QED
      BY <3>1, <3>2, <3>3
  <2>3. g = [i \in upto(k + 1) |-> Stands(aka, g, i)]
    <3> DEFINE h == [i \in upto(k + 1) |-> Stands(aka, g, i)]
    <3>1. DOMAIN g = upto(k + 1) /\ DOMAIN h = upto(k + 1)
      OBVIOUS
    <3>2. \A i \in upto(k + 1) : g[i] = h[i]
      <4>1. \A i \in upto(k + 1) : g[i] = Stands(aka, f, i)
        OBVIOUS
      <4>2. \A i \in upto(k + 1) : h[i] = Stands(aka, g, i)
        OBVIOUS
      <4> HIDE DEF g, h
      <4>3. QED
        BY <2>2, <4>1, <4>2
    <3>3. g = [i \in upto(k + 1) |-> g[i]] /\ h = [i \in upto(k + 1) |-> h[i]]
      OBVIOUS
    <3> HIDE DEF g, h
    <3>4. g = h
      BY <3>2, <3>3
    <3>5. QED
      BY <3>4 DEF h
  <2>4. QED
    BY <2>3
<1>3. \E f : solves(f, 0)
  <2>1. upto(0) = {}
    BY <1>1
  <2> DEFINE f == [i \in {} |-> 0]
  <2>2. f = [i \in {} |-> Stands(aka, f, i)]
    OBVIOUS
  <2>3. QED
    BY <2>1, <2>2
<1>4. bad = {}
  <2> SUFFICES ASSUME bad # {} PROVE FALSE
    OBVIOUS
  <2>1. PICK k \in bad : \A j \in bad : k <= j
    <3>1. bad \in SUBSET Nat
      OBVIOUS
    <3> HIDE DEF bad
    <3>2. QED
      BY <3>1, LeastNumber
  <2>2. k \in Nat /\ \A f : ~solves(f, k)
    BY <2>1
  <2>3. k # 0
    BY <1>3, <2>2
  <2>4. k - 1 \in Nat /\ (k - 1) + 1 = k /\ ~(k <= k - 1)
    BY <2>2, <2>3
  <2>5. k - 1 \notin bad
    BY <2>1, <2>4
  <2>6. PICK f : solves(f, k - 1)
    BY <2>4, <2>5
  <2> HIDE DEF solves, bad
  <2>7. \E g : solves(g, (k - 1) + 1)
    BY <1>2, <2>4, <2>6
  <2>8. QED
    BY <2>2, <2>4, <2>7
<1>5. upto(n) = DOMAIN aka
  BY <1>1
<1>6. PICK f : f = [i \in DOMAIN aka |-> Stands(aka, f, i)]
  <2>1. \E g : solves(g, n)
    BY <1>4
  <2>2. QED
    BY <1>5, <2>1
<1>7. StandsFor(aka) = CHOOSE g : g = [i \in DOMAIN aka |-> Stands(aka, g, i)]
  BY DEF StandsFor, Stands
<1>8. QED
  BY <1>6, <1>7

\* Aliases stand for names, and for their sources if no source is renamed.
LEMMA StandsForIs ==
    ASSUME NEW aka, LeftOf(aka)
    PROVE  /\ \A i \in DOMAIN aka : StandsFor(aka)[i] \in Names
           /\ (\A i, j \in DOMAIN aka : KeyOf[aka[i].as] # KeyOf[aka[j].of])
                => \A i \in DOMAIN aka : StandsFor(aka)[i] = aka[i].of
<1> DEFINE to == StandsFor(aka)
           earlier(i) == {j \in Called(aka, KeyOf[aka[i].of]) : j < i}
<1>1. \A i \in DOMAIN aka :
          to[i] = IF earlier(i) = {} THEN aka[i].of ELSE to[Last(earlier(i))]
  <2> SUFFICES ASSUME NEW i \in DOMAIN aka
               PROVE  to[i] = IF earlier(i) = {} THEN aka[i].of ELSE to[Last(earlier(i))]
    OBVIOUS
  <2>1. to[i] = Stands(aka, to, i)
    BY StandsForExists
  <2> HIDE DEF to
  <2>2. QED
    BY <2>1 DEF Stands
<1>2. PICK n \in Nat : DOMAIN aka \subseteq 1..n
  BY LeftOfFacts
<1>3. \A i \in DOMAIN aka : to[i] \in Names
  <2> DEFINE bad == {i \in DOMAIN aka : to[i] \notin Names}
  <2>1. SUFFICES ASSUME bad # {} PROVE FALSE
    OBVIOUS
  <2>2. PICK i \in bad : \A j \in bad : i <= j
    <3>1. bad \in SUBSET Nat
      BY <1>2
    <3> HIDE DEF bad
    <3>2. QED
      BY <2>1, <3>1, LeastNumber
  <2> HIDE DEF to
  <2>3. CASE earlier(i) = {}
    BY <1>1, <2>2, <2>3, LeftOfFacts
  <2>4. CASE earlier(i) # {}
    <3>1. Last(earlier(i)) \in DOMAIN aka /\ Last(earlier(i)) < i
      BY <2>2, <2>4, EarlierIs
    <3>2. to[Last(earlier(i))] \notin Names
      BY <1>1, <2>2, <2>4
    <3>3. i <= Last(earlier(i))
      BY <2>2, <3>1, <3>2
    <3>4. QED
      BY <1>2, <2>2, <3>1, <3>3
  <2>5. QED
    BY <2>3, <2>4
<1>4. ASSUME \A i, j \in DOMAIN aka : KeyOf[aka[i].as] # KeyOf[aka[j].of],
             NEW i \in DOMAIN aka
      PROVE  to[i] = aka[i].of
  <2>1. earlier(i) = {}
    BY <1>4 DEF Called
  <2>2. QED
    BY <1>1, <2>1
<1>5. QED
  BY <1>3, <1>4

\* Sections are names.
LEMMA ResolvedNames ==
    ASSUME open \subseteq Rows, NEW l \in Lists, NEW aka, LeftOf(aka), NEW es \in Entries
    PROVE  /\ Sections(l, aka, es) \subseteq Names
           /\ Named(l, es) \subseteq Names
           /\ \A i \in DOMAIN es : es[i] \in Names
<1>1. \A i \in DOMAIN es : es[i] \in Names
  BY DEF Entries
<1>2. \A i \in DOMAIN Normalized(l, aka, es) :
          /\ i \in DOMAIN es
          /\ Normalized(l, aka, es)[i] = Resolved(l, aka, es[i])
  BY DEF Normalized
<1>3. \A i \in DOMAIN Normalized(l, aka, es) : Normalized(l, aka, es)[i] \in Names
  BY <1>1, <1>2, ResolvedIs
<1>4. QED
  BY <1>1, <1>3, NamesInUse DEF Sections, Named

\* The key of the section a name is filed under.
LEMMA FiledIs ==
    ASSUME open \subseteq Rows, NEW l \in Lists, NEW aka, LeftOf(aka), NEW es \in Entries,
           NEW n \in Names
    PROVE  /\ Filed(l, aka, es, n) \in Names
           /\ (\A i, j \in DOMAIN aka : KeyOf[aka[i].as] # KeyOf[aka[j].of])
                => KeyOf[Filed(l, aka, es, n)]
                     = IF Called(aka, KeyOf[n]) = {} THEN KeyOf[n]
                       ELSE KeyOf[aka[Last(Called(aka, KeyOf[n]))].of]
<1> DEFINE called == Called(aka, KeyOf[n])
           source == IF called = {} THEN n ELSE StandsFor(aka)[Last(called)]
           A == Sections(l, aka, es)
           B == Sources(aka)
<1>1. Filed(l, aka, es, n)
          = Pick(OfKey(A, KeyOf[source]), OfKey(B, KeyOf[source]), source)
  BY DEF Filed
<1>2. called # {} => Last(called) \in DOMAIN aka
  BY CalledIsOne
<1>3. source \in Names
  BY <1>2, StandsForIs
<1>4. A \subseteq Names /\ B \subseteq Names
  BY ResolvedNames, NamesInUse
<1>5. (\A i, j \in DOMAIN aka : KeyOf[aka[i].as] # KeyOf[aka[j].of])
          => source = IF called = {} THEN n ELSE aka[Last(called)].of
  BY <1>2, StandsForIs
<1> HIDE DEF source, A, B
<1>6. /\ Filed(l, aka, es, n) \in A \cup B \cup {source}
      /\ KeyOf[Filed(l, aka, es, n)] = KeyOf[source]
  <2> DEFINE p == Pick(OfKey(A, KeyOf[source]), OfKey(B, KeyOf[source]), source)
  <2>1. p \in A \cup B \cup {source} /\ KeyOf[p] = KeyOf[source]
    BY PickIs
  <2>2. Filed(l, aka, es, n) = p
    BY <1>1
  <2> HIDE DEF p
  <2>3. QED
    BY <2>1, <2>2
<1>7. Filed(l, aka, es, n) \in Names
  BY <1>3, <1>4, <1>6
<1>8. QED
  BY <1>5, <1>6, <1>7

\* As long as no alias is the name of a source, what was filed stays there.
LEMMA FiledStays ==
    ASSUME open \subseteq Rows, NEW l \in Lists, NEW aka, LeftOf(aka), NEW es \in Entries,
           \A i, j \in DOMAIN aka : KeyOf[aka[i].as] # KeyOf[aka[j].of],
           NEW n \in Names
    PROVE  /\ KeyOf[Resolved(l, aka, Filed(l, aka, es, n))] = KeyOf[Filed(l, aka, es, n)]
           /\ KeyOf[Filed(l, aka, es, n)] = KeyOf[Resolved(l, aka, n)]
<1> DEFINE called == Called(aka, KeyOf[n])
           f == Filed(l, aka, es, n)
<1>1. f \in Names /\ KeyOf[f] = IF called = {} THEN KeyOf[n] ELSE KeyOf[aka[Last(called)].of]
  BY FiledIs
<1>2. KeyOf[Resolved(l, aka, n)] = IF called = {} THEN KeyOf[n] ELSE KeyOf[aka[Last(called)].of]
  BY ResolvedIs
<1>3. Called(aka, KeyOf[f]) = {}
  <2>1. CASE called = {}
    BY <1>1, <2>1
  <2>2. CASE called # {}
    <3>1. Last(called) \in DOMAIN aka
      BY <2>2, CalledIsOne
    <3>2. \A i \in DOMAIN aka : KeyOf[aka[i].as] # KeyOf[f]
      BY <1>1, <2>2, <3>1
    <3>3. QED
      BY <3>2 DEF Called
  <2>3. QED
    BY <2>1, <2>2
<1>4. KeyOf[Resolved(l, aka, f)] = KeyOf[f]
  <2> HIDE DEF f
  <2>1. QED
    BY <1>1, <1>3, ResolvedIs
<1>5. QED
  BY <1>1, <1>2, <1>4

\* There are finitely many keys, and they are numbers.
LEMMA KeySetFacts == IsFiniteSet(KeySet) /\ KeySet \subseteq Int
<1> DEFINE f == [n \in Names |-> KeyOf[n]]
<1>1. f \in Surjection(Names, KeySet)
  BY DEF Surjection, KeySet
<1>2. IsFiniteSet(KeySet)
  BY <1>1, FS_Surjection, PrintAssumption
<1>3. KeySet \subseteq Int
  BY PrintAssumption DEF KeySet
<1>4. QED
  BY <1>2, <1>3

\* One key before another gets the lower place.
LEMMA OrderedRises ==
    ASSUME NEW keys \in SUBSET KeySet, NEW order, Placing(order),
           NEW j \in keys, NEW k \in keys, Before(order, j, k)
    PROVE  Ordered(keys, order)[j] < Ordered(keys, order)[k]
<1> DEFINE to(i) == {h \in keys : Before(order, h, i)}
<1>1. /\ \A h \in keys : h \in Int
      /\ \A h \in DOMAIN order : order[h] \in Nat
  BY KeySetFacts DEF Placing
<1>2. to(j) \subseteq to(k) /\ j \in to(k) /\ j \notin to(j)
  <2>1. \A h \in keys : Before(order, h, j) => Before(order, h, k)
    BY <1>1 DEF Before
  <2>2. ~Before(order, j, j)
    BY <1>1 DEF Before
  <2>3. QED
    BY <2>1, <2>2
<1>3. IsFiniteSet(to(k)) /\ IsFiniteSet(to(j))
  <2>1. to(j) \in SUBSET KeySet /\ to(k) \in SUBSET KeySet
    OBVIOUS
  <2> HIDE DEF to
  <2>2. QED
    BY <2>1, KeySetFacts, FS_Subset
<1>4. Ordered(keys, order)[j] = 1 + Cardinality(to(j))
      /\ Ordered(keys, order)[k] = 1 + Cardinality(to(k))
  BY DEF Ordered
<1> HIDE DEF to
<1>5. /\ Cardinality(to(j)) \in Nat /\ Cardinality(to(k)) \in Nat
      /\ Cardinality(to(j)) <= Cardinality(to(k))
      /\ Cardinality(to(k)) # Cardinality(to(j))
  BY <1>2, <1>3, FS_CardinalityType, FS_Subset
<1>6. QED
  BY <1>4, <1>5

\* Sections in order have places of their own.
LEMMA OrderedPlaces ==
    ASSUME NEW keys \in SUBSET KeySet, NEW order, Placing(order)
    PROVE  Placing(Ordered(keys, order)) /\ DOMAIN Ordered(keys, order) = keys
<1> DEFINE o == Ordered(keys, order)
<1>1. DOMAIN o = keys
  BY DEF Ordered
<1>2. ASSUME NEW k \in keys PROVE o[k] \in Nat \ {0}
  <2> DEFINE to == {h \in keys : Before(order, h, k)}
  <2>1. to \in SUBSET KeySet
    OBVIOUS
  <2>2. o[k] = 1 + Cardinality(to)
    BY DEF Ordered
  <2> HIDE DEF to, o
  <2>3. Cardinality(to) \in Nat
    BY <2>1, KeySetFacts, FS_Subset, FS_CardinalityType
  <2>4. QED
    BY <2>2, <2>3
<1>3. o \in [keys -> Nat \ {0}]
  BY <1>2 DEF Ordered
<1>4. ASSUME NEW j \in keys, NEW k \in keys, j # k PROVE o[j] # o[k]
  <2>1. j \in Int /\ k \in Int /\ (\A h \in DOMAIN order : order[h] \in Nat)
    BY KeySetFacts DEF Placing
  <2>2. Before(order, j, k) \/ Before(order, k, j)
    BY <1>4, <2>1 DEF Before, Placing
  <2>3. o[j] < o[k] \/ o[k] < o[j]
    BY <2>2, OrderedRises
  <2>4. o[j] \in Nat /\ o[k] \in Nat
    BY <1>2
  <2> HIDE DEF o
  <2>5. QED
    BY <2>3, <2>4
<1> HIDE DEF o
<1>5. Placing(o)
  BY <1>1, <1>3, <1>4 DEF Placing
<1>6. QED
  BY <1>1, <1>5 DEF o

\* So have the names that a page has sent.
LEMMA PlacesPlace ==
    ASSUME NEW ns \in Orders
    PROVE  Placing(Places(ns))
<1> DEFINE p == Places(ns)
           keys == {KeyOf[ns[i]] : i \in DOMAIN ns}
<1>1. DOMAIN ns = 1..Len(ns) /\ Len(ns) \in Nat /\ \A i \in DOMAIN ns : ns[i] \in Names
  <2>1. Orders \subseteq Seq(Names)
    BY PrintAssumption
  <2>2. ns \in Seq(Names)
    BY <2>1
  <2>3. QED
    BY <2>2, ElementOfSeq
<1>2. DOMAIN p = keys /\ p = [k \in keys |-> p[k]]
  BY DEF Places
<1>3. ASSUME NEW k \in keys
      PROVE  p[k] \in DOMAIN ns /\ KeyOf[ns[p[k]]] = k
  <2> DEFINE there == {i \in DOMAIN ns : KeyOf[ns[i]] = k}
  <2>1. PICK i \in there : \A j \in there : i <= j
    <3>1. there \in SUBSET Nat
      BY <1>1
    <3>2. there # {}
      OBVIOUS
    <3> HIDE DEF there
    <3>3. QED
      BY <3>1, <3>2, LeastNumber
  <2>2. \A j \in 1..(i - 1) : KeyOf[ns[j]] # k
    <3> SUFFICES ASSUME NEW j \in 1..(i - 1), KeyOf[ns[j]] = k PROVE FALSE
      OBVIOUS
    <3>1. j \in DOMAIN ns /\ ~(i <= j)
      BY <1>1, <2>1
    <3>2. j \in there
      BY <3>1
    <3>3. QED
      BY <2>1, <3>1, <3>2
  <2>3. p[k] = CHOOSE h \in DOMAIN ns : /\ KeyOf[ns[h]] = k
                   /\ \A j \in 1..(h - 1) : KeyOf[ns[j]] # k
    BY DEF Places
  <2>4. i \in DOMAIN ns /\ KeyOf[ns[i]] = k
    BY <2>1
  <2> HIDE DEF p, there
  <2>5. QED
    BY <2>2, <2>3, <2>4
<1>4. keys \subseteq KeySet
  BY <1>1 DEF KeySet
<1> HIDE DEF p, keys
<1>5. \A k \in keys : p[k] \in Nat \ {0}
  BY <1>1, <1>3
<1>6. p \in [keys -> Nat \ {0}]
  BY <1>2, <1>5
<1>7. Placing(p)
  BY <1>2, <1>3, <1>4, <1>6 DEF Placing
<1>8. QED
  BY <1>7 DEF p

\* And so have none at all.
LEMMA NonePlaced == Placing(<<>>)
BY DEF Placing

-----------------------------------------------------------------------------
(* Overrides.                                                              *)

\* An override goes to the row it is stored for, or to the one row of its Food.
LEMMA OneRow ==
    ASSUME open \subseteq Rows
    PROVE  OneRowPerOverride
<1> SUFFICES ASSUME NEW l \in Lists, NEW k \in Keys
             PROVE  Cardinality({x \in OpenOn(l) :
                        OverrideOf(doc["overrides"][l], OpenOn(l), x) = {k}}) <= 1
  BY DEF OneRowPerOverride
<1> DEFINE shown == OpenOn(l)
           keys == doc["overrides"][l]
           T == {x \in shown : OverrideOf(keys, shown, x) = {k}}
<1>1. IsFiniteSet(shown) /\ shown \subseteq Rows
  <2>1. shown \in SUBSET Rows
    BY DEF OpenOn
  <2>2. QED
    BY <2>1, PrintAssumption, FS_Subset
<1>2. ASSUME NEW x \in T, NEW y \in T PROVE x = y
  <2>1. /\ x \in shown /\ y \in shown /\ x \in Rows /\ y \in Rows
        /\ RowOf[x].food \notin Rows /\ RowOf[y].food \notin Rows
    BY <1>1, PrintAssumption DEF Foods
  <2>2. OverrideOf(keys, shown, x) = {k} /\ OverrideOf(keys, shown, y) = {k}
    OBVIOUS
  <2> HIDE DEF T
  <2>3. CASE k \in Rows
    <3>1. ASSUME NEW z \in {x, y}, OverrideOf(keys, shown, z) = {k} PROVE z = k
      <4>1. RowOf[z].food # k
        BY <2>1, <2>3
      <4>2. k \in OverrideOf(keys, shown, z)
        BY <3>1
      <4>3. z \in keys
        BY <4>1, <4>2 DEF OverrideOf
      <4>4. k \in {z}
        BY <4>2, <4>3 DEF OverrideOf
      <4>5. QED
        BY <4>4
    <3>2. QED
      BY <2>2, <3>1
  <2>4. CASE k \notin Rows
    <3> DEFINE same(f) == {z \in shown : RowOf[z].food = f}
    <3>1. \A z \in {x, y} : /\ RowOf[z].food = k
                            /\ Cardinality(same(RowOf[z].food)) = 1
      <4>1. \A z \in {x, y} : z \in Rows /\ OverrideOf(keys, shown, z) = {k}
        BY <2>1, <2>2
      <4> SUFFICES ASSUME NEW z \in {x, y}
                   PROVE  RowOf[z].food = k /\ Cardinality(same(RowOf[z].food)) = 1
        OBVIOUS
      <4>2. z \notin keys
        BY <2>4, <4>1 DEF OverrideOf
      <4>3. Cardinality(same(RowOf[z].food)) = 1
        BY <4>1, <4>2 DEF OverrideOf
      <4>4. {RowOf[z].food} \cap keys = {k}
        BY <4>1, <4>2, <4>3 DEF OverrideOf
      <4>5. QED
        BY <4>3, <4>4
    <3>2. IsFiniteSet(same(k)) /\ Cardinality(same(k)) = 1
      <4>1. same(k) \in SUBSET shown
        OBVIOUS
      <4>2. IsFiniteSet(same(k))
        BY <1>1, <4>1, FS_Subset
      <4>3. QED
        BY <3>1, <4>2
    <3>3. x \in same(k) /\ y \in same(k)
      BY <2>1, <3>1
    <3> HIDE DEF same
    <3>4. QED
      BY <3>2, <3>3, FS_Singleton
  <2>5. QED
    BY <2>3, <2>4
<1> HIDE DEF T
<1>3. CASE T = {}
  <2>1. Cardinality(T) = 0
    BY <1>3, FS_EmptySet
  <2>2. QED
    BY <2>1 DEF T
<1>4. CASE T # {}
  <2>1. PICK x \in T : T = {x}
    BY <1>2, <1>4
  <2>2. Cardinality(T) = 1
    BY <2>1, FS_Singleton
  <2>3. QED
    BY <2>2 DEF T
<1>5. QED
  BY <1>3, <1>4

-----------------------------------------------------------------------------
(* The handlers.                                                           *)

\* The handlers step by step.
LEMMA ResponseSteps ==
    /\ Len(Response) = 6
    /\ Response[1] = Do("show") /\ Response[2] = Get("orders")
    /\ Response[3] = Put("orders") /\ Response[4] = Get("aliases")
    /\ Response[5] = Put("aliases") /\ Response[6] = Do("answer")
BY DEF Response

\* Each handler.
LEMMA ContentProgram ==
    /\ Len(Program("content")) = 9
    /\ Program("content")[1] = Do("file") /\ Program("content")[2] = Get("local")
    /\ Program("content")[3] = Put("local") /\ Program("content")[4] = Do("show")
    /\ Program("content")[5] = Get("orders") /\ Program("content")[6] = Put("orders")
    /\ Program("content")[7] = Get("aliases") /\ Program("content")[8] = Put("aliases")
    /\ Program("content")[9] = Do("answer")
BY DEF Program, ContentSteps, Response

LEMMA AddProgram ==
    /\ Len(Program("add")) = 10
    /\ Program("add")[1] = Do("look") /\ Program("add")[2] = Do("file")
    /\ Program("add")[3] = Get("local") /\ Program("add")[4] = Put("local")
    /\ Program("add")[5] = Do("show")
    /\ Program("add")[6] = Get("orders") /\ Program("add")[7] = Put("orders")
    /\ Program("add")[8] = Get("aliases") /\ Program("add")[9] = Put("aliases")
    /\ Program("add")[10] = Do("answer")
BY DEF Program, AddSteps, Response

LEMMA RemoveProgram ==
    /\ Len(Program("remove")) = 9
    /\ Program("remove")[1] = Do("look") /\ Program("remove")[2] = Get("local")
    /\ Program("remove")[3] = Put("local") /\ Program("remove")[4] = Do("show")
    /\ Program("remove")[5] = Get("orders") /\ Program("remove")[6] = Put("orders")
    /\ Program("remove")[7] = Get("aliases") /\ Program("remove")[8] = Put("aliases")
    /\ Program("remove")[9] = Do("answer")
BY DEF Program, RemoveSteps, Response

LEMMA ShortPrograms ==
    /\ Len(Program("order")) = 4
    /\ Program("order")[1] = Get("orders") /\ Program("order")[2] = Put("orders")
    /\ Program("order")[3] = Get("aliases") /\ Program("order")[4] = Put("aliases")
    /\ Len(Program("override")) = 3
    /\ Program("override")[1] = Get("overrides") /\ Program("override")[2] = Put("overrides")
    /\ Program("override")[3] = Do("answer")
    /\ Len(Program("settings")) = 3
    /\ Program("settings")[1] = Put("main") /\ Program("settings")[2] = Put("margin")
    /\ Program("settings")[3] = Put("marker")
BY DEF Program, OrderSteps, OverrideSteps, SettingsSteps

LEMMA ResetProgram ==
    /\ Len(Program("reset")) = 9
    /\ Program("reset")[1] = Get("orders") /\ Program("reset")[2] = Put("orders")
    /\ Program("reset")[3] = Get("aliases") /\ Program("reset")[4] = Put("aliases")
    /\ Program("reset")[5] = Get("local") /\ Program("reset")[6] = Put("local")
    /\ Program("reset")[7] = Get("overrides") /\ Program("reset")[8] = Put("overrides")
    /\ Program("reset")[9] = Do("answer")
BY DEF Program, ResetSteps

\* Where the requests read and store each document.
LocalAt == {<<"content", 2>>, <<"add", 3>>, <<"remove", 2>>, <<"reset", 5>>}
OrderAt == {<<"content", 5>>, <<"add", 6>>, <<"remove", 5>>, <<"order", 1>>, <<"reset", 1>>}
AliasesAt == {<<"content", 7>>, <<"add", 8>>, <<"remove", 7>>, <<"order", 3>>, <<"reset", 3>>}
OverridesAt == {<<"override", 1>>, <<"reset", 7>>}

ReadAt(d) ==
    CASE d = "local" -> LocalAt
      [] d = "orders" -> OrderAt
      [] d = "aliases" -> AliasesAt
      [] d = "overrides" -> OverridesAt

\* What is known of a step and the one after it.
StepFits(op, i, n, p) ==
    /\ p[i].do = "look" => op \in {"add", "remove"} /\ i = 1 /\ i < n
                           /\ p[i + 1].do \in {"file", "get"}
    /\ p[i].do = "file" => /\ <<op, i>> \in {<<"content", 1>>, <<"add", 2>>}
                           /\ i < n /\ p[i + 1].do = "get"
    /\ p[i].do = "show" => /\ <<op, i>> \in {<<"content", 4>>, <<"remove", 4>>, <<"add", 5>>}
                           /\ i < n /\ p[i + 1].do = "get"
    /\ p[i].do = "get" => /\ p[i].doc \in Docs /\ <<op, i>> \in ReadAt(p[i].doc)
                          /\ i < n /\ p[i + 1].do = "put" /\ p[i + 1].doc = p[i].doc
    /\ p[i].do = "put" => \/ op = "settings"
                          \/ /\ p[i].doc \in Docs /\ i > 1 /\ <<op, i - 1>> \in ReadAt(p[i].doc)
                             /\ i < n => p[i + 1].do # "put"
    /\ op = "settings" => /\ n = 3 /\ p[i].do = "put"
                           /\ p[i].doc = IF i = 1 THEN "main"
                                         ELSE IF i = 2 THEN "margin" ELSE "marker"
    /\ op # "settings" /\ p[i].do = "put" => p[i].doc \in Docs

\* The tables, handler by handler.
LEMMA ContentTable ==
    ASSUME NEW i \in 1..9
    PROVE  StepFits("content", i, 9, Program("content"))
<1> DEFINE p == Program("content")
<1>1. /\ p[1].do = "file"
      /\ p[2].do = "get" /\ p[2].doc = "local"
      /\ p[3].do = "put" /\ p[3].doc = "local"
      /\ p[4].do = "show"
      /\ p[5].do = "get" /\ p[5].doc = "orders"
      /\ p[6].do = "put" /\ p[6].doc = "orders"
      /\ p[7].do = "get" /\ p[7].doc = "aliases"
      /\ p[8].do = "put" /\ p[8].doc = "aliases"
      /\ p[9].do = "answer"
  BY ContentProgram DEF Get, Put, Do
<1> HIDE DEF p
<1>2. ASSUME i = 1 PROVE StepFits("content", i, 9, p)
  BY <1>1, <1>2 DEF StepFits, ReadAt, LocalAt, OrderAt, AliasesAt, OverridesAt, Docs
<1>3. ASSUME i = 2 PROVE StepFits("content", i, 9, p)
  BY <1>1, <1>3 DEF StepFits, ReadAt, LocalAt, OrderAt, AliasesAt, OverridesAt, Docs
<1>4. ASSUME i = 3 PROVE StepFits("content", i, 9, p)
  BY <1>1, <1>4 DEF StepFits, ReadAt, LocalAt, OrderAt, AliasesAt, OverridesAt, Docs
<1>5. ASSUME i = 4 PROVE StepFits("content", i, 9, p)
  BY <1>1, <1>5 DEF StepFits, ReadAt, LocalAt, OrderAt, AliasesAt, OverridesAt, Docs
<1>6. ASSUME i = 5 PROVE StepFits("content", i, 9, p)
  BY <1>1, <1>6 DEF StepFits, ReadAt, LocalAt, OrderAt, AliasesAt, OverridesAt, Docs
<1>7. ASSUME i = 6 PROVE StepFits("content", i, 9, p)
  BY <1>1, <1>7 DEF StepFits, ReadAt, LocalAt, OrderAt, AliasesAt, OverridesAt, Docs
<1>8. ASSUME i = 7 PROVE StepFits("content", i, 9, p)
  BY <1>1, <1>8 DEF StepFits, ReadAt, LocalAt, OrderAt, AliasesAt, OverridesAt, Docs
<1>9. ASSUME i = 8 PROVE StepFits("content", i, 9, p)
  BY <1>1, <1>9 DEF StepFits, ReadAt, LocalAt, OrderAt, AliasesAt, OverridesAt, Docs
<1>10. ASSUME i = 9 PROVE StepFits("content", i, 9, p)
  BY <1>1, <1>10 DEF StepFits, ReadAt, LocalAt, OrderAt, AliasesAt, OverridesAt, Docs
<1>11. QED
  BY <1>2, <1>3, <1>4, <1>5, <1>6, <1>7, <1>8, <1>9, <1>10 DEF p

LEMMA AddTable ==
    ASSUME NEW i \in 1..10
    PROVE  StepFits("add", i, 10, Program("add"))
<1> DEFINE p == Program("add")
<1>1. /\ p[1].do = "look"
      /\ p[2].do = "file"
      /\ p[3].do = "get" /\ p[3].doc = "local"
      /\ p[4].do = "put" /\ p[4].doc = "local"
      /\ p[5].do = "show"
      /\ p[6].do = "get" /\ p[6].doc = "orders"
      /\ p[7].do = "put" /\ p[7].doc = "orders"
      /\ p[8].do = "get" /\ p[8].doc = "aliases"
      /\ p[9].do = "put" /\ p[9].doc = "aliases"
      /\ p[10].do = "answer"
  BY AddProgram DEF Get, Put, Do
<1> HIDE DEF p
<1>2. ASSUME i = 1 PROVE StepFits("add", i, 10, p)
  BY <1>1, <1>2 DEF StepFits, ReadAt, LocalAt, OrderAt, AliasesAt, OverridesAt, Docs
<1>3. ASSUME i = 2 PROVE StepFits("add", i, 10, p)
  BY <1>1, <1>3 DEF StepFits, ReadAt, LocalAt, OrderAt, AliasesAt, OverridesAt, Docs
<1>4. ASSUME i = 3 PROVE StepFits("add", i, 10, p)
  BY <1>1, <1>4 DEF StepFits, ReadAt, LocalAt, OrderAt, AliasesAt, OverridesAt, Docs
<1>5. ASSUME i = 4 PROVE StepFits("add", i, 10, p)
  BY <1>1, <1>5 DEF StepFits, ReadAt, LocalAt, OrderAt, AliasesAt, OverridesAt, Docs
<1>6. ASSUME i = 5 PROVE StepFits("add", i, 10, p)
  BY <1>1, <1>6 DEF StepFits, ReadAt, LocalAt, OrderAt, AliasesAt, OverridesAt, Docs
<1>7. ASSUME i = 6 PROVE StepFits("add", i, 10, p)
  BY <1>1, <1>7 DEF StepFits, ReadAt, LocalAt, OrderAt, AliasesAt, OverridesAt, Docs
<1>8. ASSUME i = 7 PROVE StepFits("add", i, 10, p)
  BY <1>1, <1>8 DEF StepFits, ReadAt, LocalAt, OrderAt, AliasesAt, OverridesAt, Docs
<1>9. ASSUME i = 8 PROVE StepFits("add", i, 10, p)
  BY <1>1, <1>9 DEF StepFits, ReadAt, LocalAt, OrderAt, AliasesAt, OverridesAt, Docs
<1>10. ASSUME i = 9 PROVE StepFits("add", i, 10, p)
  BY <1>1, <1>10 DEF StepFits, ReadAt, LocalAt, OrderAt, AliasesAt, OverridesAt, Docs
<1>11. ASSUME i = 10 PROVE StepFits("add", i, 10, p)
  BY <1>1, <1>11 DEF StepFits, ReadAt, LocalAt, OrderAt, AliasesAt, OverridesAt, Docs
<1>12. QED
  BY <1>2, <1>3, <1>4, <1>5, <1>6, <1>7, <1>8, <1>9, <1>10, <1>11 DEF p

LEMMA RemoveTable ==
    ASSUME NEW i \in 1..9
    PROVE  StepFits("remove", i, 9, Program("remove"))
<1> DEFINE p == Program("remove")
<1>1. /\ p[1].do = "look"
      /\ p[2].do = "get" /\ p[2].doc = "local"
      /\ p[3].do = "put" /\ p[3].doc = "local"
      /\ p[4].do = "show"
      /\ p[5].do = "get" /\ p[5].doc = "orders"
      /\ p[6].do = "put" /\ p[6].doc = "orders"
      /\ p[7].do = "get" /\ p[7].doc = "aliases"
      /\ p[8].do = "put" /\ p[8].doc = "aliases"
      /\ p[9].do = "answer"
  BY RemoveProgram DEF Get, Put, Do
<1> HIDE DEF p
<1>2. ASSUME i = 1 PROVE StepFits("remove", i, 9, p)
  BY <1>1, <1>2 DEF StepFits, ReadAt, LocalAt, OrderAt, AliasesAt, OverridesAt, Docs
<1>3. ASSUME i = 2 PROVE StepFits("remove", i, 9, p)
  BY <1>1, <1>3 DEF StepFits, ReadAt, LocalAt, OrderAt, AliasesAt, OverridesAt, Docs
<1>4. ASSUME i = 3 PROVE StepFits("remove", i, 9, p)
  BY <1>1, <1>4 DEF StepFits, ReadAt, LocalAt, OrderAt, AliasesAt, OverridesAt, Docs
<1>5. ASSUME i = 4 PROVE StepFits("remove", i, 9, p)
  BY <1>1, <1>5 DEF StepFits, ReadAt, LocalAt, OrderAt, AliasesAt, OverridesAt, Docs
<1>6. ASSUME i = 5 PROVE StepFits("remove", i, 9, p)
  BY <1>1, <1>6 DEF StepFits, ReadAt, LocalAt, OrderAt, AliasesAt, OverridesAt, Docs
<1>7. ASSUME i = 6 PROVE StepFits("remove", i, 9, p)
  BY <1>1, <1>7 DEF StepFits, ReadAt, LocalAt, OrderAt, AliasesAt, OverridesAt, Docs
<1>8. ASSUME i = 7 PROVE StepFits("remove", i, 9, p)
  BY <1>1, <1>8 DEF StepFits, ReadAt, LocalAt, OrderAt, AliasesAt, OverridesAt, Docs
<1>9. ASSUME i = 8 PROVE StepFits("remove", i, 9, p)
  BY <1>1, <1>9 DEF StepFits, ReadAt, LocalAt, OrderAt, AliasesAt, OverridesAt, Docs
<1>10. ASSUME i = 9 PROVE StepFits("remove", i, 9, p)
  BY <1>1, <1>10 DEF StepFits, ReadAt, LocalAt, OrderAt, AliasesAt, OverridesAt, Docs
<1>11. QED
  BY <1>2, <1>3, <1>4, <1>5, <1>6, <1>7, <1>8, <1>9, <1>10 DEF p

LEMMA OrderTable ==
    ASSUME NEW i \in 1..4
    PROVE  StepFits("order", i, 4, Program("order"))
<1> DEFINE p == Program("order")
<1>1. /\ p[1].do = "get" /\ p[1].doc = "orders"
      /\ p[2].do = "put" /\ p[2].doc = "orders"
      /\ p[3].do = "get" /\ p[3].doc = "aliases"
      /\ p[4].do = "put" /\ p[4].doc = "aliases"
  BY ShortPrograms DEF Get, Put, Do
<1> HIDE DEF p
<1>2. ASSUME i = 1 PROVE StepFits("order", i, 4, p)
  BY <1>1, <1>2 DEF StepFits, ReadAt, LocalAt, OrderAt, AliasesAt, OverridesAt, Docs
<1>3. ASSUME i = 2 PROVE StepFits("order", i, 4, p)
  BY <1>1, <1>3 DEF StepFits, ReadAt, LocalAt, OrderAt, AliasesAt, OverridesAt, Docs
<1>4. ASSUME i = 3 PROVE StepFits("order", i, 4, p)
  BY <1>1, <1>4 DEF StepFits, ReadAt, LocalAt, OrderAt, AliasesAt, OverridesAt, Docs
<1>5. ASSUME i = 4 PROVE StepFits("order", i, 4, p)
  BY <1>1, <1>5 DEF StepFits, ReadAt, LocalAt, OrderAt, AliasesAt, OverridesAt, Docs
<1>6. QED
  BY <1>2, <1>3, <1>4, <1>5 DEF p

LEMMA OverrideTable ==
    ASSUME NEW i \in 1..3
    PROVE  StepFits("override", i, 3, Program("override"))
<1> DEFINE p == Program("override")
<1>1. /\ p[1].do = "get" /\ p[1].doc = "overrides"
      /\ p[2].do = "put" /\ p[2].doc = "overrides"
      /\ p[3].do = "answer"
  BY ShortPrograms DEF Get, Put, Do
<1> HIDE DEF p
<1>2. ASSUME i = 1 PROVE StepFits("override", i, 3, p)
  BY <1>1, <1>2 DEF StepFits, ReadAt, LocalAt, OrderAt, AliasesAt, OverridesAt, Docs
<1>3. ASSUME i = 2 PROVE StepFits("override", i, 3, p)
  BY <1>1, <1>3 DEF StepFits, ReadAt, LocalAt, OrderAt, AliasesAt, OverridesAt, Docs
<1>4. ASSUME i = 3 PROVE StepFits("override", i, 3, p)
  BY <1>1, <1>4 DEF StepFits, ReadAt, LocalAt, OrderAt, AliasesAt, OverridesAt, Docs
<1>5. QED
  BY <1>2, <1>3, <1>4 DEF p

LEMMA SettingsTable ==
    ASSUME NEW i \in 1..3
    PROVE  StepFits("settings", i, 3, Program("settings"))
<1> DEFINE p == Program("settings")
<1>1. /\ p[1].do = "put" /\ p[1].doc = "main"
      /\ p[2].do = "put" /\ p[2].doc = "margin"
      /\ p[3].do = "put" /\ p[3].doc = "marker"
  BY ShortPrograms DEF Get, Put, Do
<1> HIDE DEF p
<1>2. ASSUME i = 1 PROVE StepFits("settings", i, 3, p)
  BY <1>1, <1>2 DEF StepFits, ReadAt, LocalAt, OrderAt, AliasesAt, OverridesAt, Docs
<1>3. ASSUME i = 2 PROVE StepFits("settings", i, 3, p)
  BY <1>1, <1>3 DEF StepFits, ReadAt, LocalAt, OrderAt, AliasesAt, OverridesAt, Docs
<1>4. ASSUME i = 3 PROVE StepFits("settings", i, 3, p)
  BY <1>1, <1>4 DEF StepFits, ReadAt, LocalAt, OrderAt, AliasesAt, OverridesAt, Docs
<1>5. QED
  BY <1>2, <1>3, <1>4 DEF p

LEMMA ResetTable ==
    ASSUME NEW i \in 1..9
    PROVE  StepFits("reset", i, 9, Program("reset"))
<1> DEFINE p == Program("reset")
<1>1. /\ p[1].do = "get" /\ p[1].doc = "orders"
      /\ p[2].do = "put" /\ p[2].doc = "orders"
      /\ p[3].do = "get" /\ p[3].doc = "aliases"
      /\ p[4].do = "put" /\ p[4].doc = "aliases"
      /\ p[5].do = "get" /\ p[5].doc = "local"
      /\ p[6].do = "put" /\ p[6].doc = "local"
      /\ p[7].do = "get" /\ p[7].doc = "overrides"
      /\ p[8].do = "put" /\ p[8].doc = "overrides"
      /\ p[9].do = "answer"
  BY ResetProgram DEF Get, Put, Do
<1> HIDE DEF p
<1>2. ASSUME i = 1 PROVE StepFits("reset", i, 9, p)
  BY <1>1, <1>2 DEF StepFits, ReadAt, LocalAt, OrderAt, AliasesAt, OverridesAt, Docs
<1>3. ASSUME i = 2 PROVE StepFits("reset", i, 9, p)
  BY <1>1, <1>3 DEF StepFits, ReadAt, LocalAt, OrderAt, AliasesAt, OverridesAt, Docs
<1>4. ASSUME i = 3 PROVE StepFits("reset", i, 9, p)
  BY <1>1, <1>4 DEF StepFits, ReadAt, LocalAt, OrderAt, AliasesAt, OverridesAt, Docs
<1>5. ASSUME i = 4 PROVE StepFits("reset", i, 9, p)
  BY <1>1, <1>5 DEF StepFits, ReadAt, LocalAt, OrderAt, AliasesAt, OverridesAt, Docs
<1>6. ASSUME i = 5 PROVE StepFits("reset", i, 9, p)
  BY <1>1, <1>6 DEF StepFits, ReadAt, LocalAt, OrderAt, AliasesAt, OverridesAt, Docs
<1>7. ASSUME i = 6 PROVE StepFits("reset", i, 9, p)
  BY <1>1, <1>7 DEF StepFits, ReadAt, LocalAt, OrderAt, AliasesAt, OverridesAt, Docs
<1>8. ASSUME i = 7 PROVE StepFits("reset", i, 9, p)
  BY <1>1, <1>8 DEF StepFits, ReadAt, LocalAt, OrderAt, AliasesAt, OverridesAt, Docs
<1>9. ASSUME i = 8 PROVE StepFits("reset", i, 9, p)
  BY <1>1, <1>9 DEF StepFits, ReadAt, LocalAt, OrderAt, AliasesAt, OverridesAt, Docs
<1>10. ASSUME i = 9 PROVE StepFits("reset", i, 9, p)
  BY <1>1, <1>10 DEF StepFits, ReadAt, LocalAt, OrderAt, AliasesAt, OverridesAt, Docs
<1>11. QED
  BY <1>2, <1>3, <1>4, <1>5, <1>6, <1>7, <1>8, <1>9, <1>10 DEF p

\* The tables of all handlers.
LEMMA StepsFit ==
    ASSUME NEW op \in Ops, NEW i \in 1..Len(Program(op))
    PROVE  StepFits(op, i, Len(Program(op)), Program(op))
<1>1. CASE op = "content"
  <2>1. Len(Program("content")) = 9
    BY ContentProgram
  <2>2. i \in 1..9
    BY <1>1, <2>1
  <2>3. StepFits("content", i, 9, Program("content"))
    BY <2>2, ContentTable
  <2>4. QED
    BY <1>1, <2>1, <2>3
<1>2. CASE op = "add"
  <2>1. Len(Program("add")) = 10
    BY AddProgram
  <2>2. i \in 1..10
    BY <1>2, <2>1
  <2>3. StepFits("add", i, 10, Program("add"))
    BY <2>2, AddTable
  <2>4. QED
    BY <1>2, <2>1, <2>3
<1>3. CASE op = "remove"
  <2>1. Len(Program("remove")) = 9
    BY RemoveProgram
  <2>2. i \in 1..9
    BY <1>3, <2>1
  <2>3. StepFits("remove", i, 9, Program("remove"))
    BY <2>2, RemoveTable
  <2>4. QED
    BY <1>3, <2>1, <2>3
<1>4. CASE op = "order"
  <2>1. Len(Program("order")) = 4
    BY ShortPrograms
  <2>2. i \in 1..4
    BY <1>4, <2>1
  <2>3. StepFits("order", i, 4, Program("order"))
    BY <2>2, OrderTable
  <2>4. QED
    BY <1>4, <2>1, <2>3
<1>5. CASE op = "override"
  <2>1. Len(Program("override")) = 3
    BY ShortPrograms
  <2>2. i \in 1..3
    BY <1>5, <2>1
  <2>3. StepFits("override", i, 3, Program("override"))
    BY <2>2, OverrideTable
  <2>4. QED
    BY <1>5, <2>1, <2>3
<1>6. CASE op = "settings"
  <2>1. Len(Program("settings")) = 3
    BY ShortPrograms
  <2>2. i \in 1..3
    BY <1>6, <2>1
  <2>3. StepFits("settings", i, 3, Program("settings"))
    BY <2>2, SettingsTable
  <2>4. QED
    BY <1>6, <2>1, <2>3
<1>7. CASE op = "reset"
  <2>1. Len(Program("reset")) = 9
    BY ResetProgram
  <2>2. i \in 1..9
    BY <1>7, <2>1
  <2>3. StepFits("reset", i, 9, Program("reset"))
    BY <2>2, ResetTable
  <2>4. QED
    BY <1>7, <2>1, <2>3
<1>8. QED
  BY <1>1, <1>2, <1>3, <1>4, <1>5, <1>6, <1>7 DEF Ops

-----------------------------------------------------------------------------
(* What is always true of a request, given what is stored.                 *)

Shaped(m) ==
    m = [op |-> m.op, list |-> m.list, at |-> m.at, number |-> m.number,
         arg |-> m.arg, read |-> m.read, entries |-> m.entries, order |-> m.order,
         sections |-> m.sections, named |-> m.named, holds |-> m.holds, stale |-> m.stale]

Document(d, c) == c = [l \in Lists |-> c[l]] /\ \A l \in Lists : Contents(d, c[l])

Documents(dc) == dc = [d \in Docs |-> dc[d]] /\ \A d \in Docs : Document(d, dc[d])

\* The request holds the entries it is going to store.
Prepared(m) == <<m.op, m.at>> \in
    {<<"content", 1>>, <<"content", 2>>, <<"content", 3>>,
     <<"add", 2>>, <<"add", 3>>, <<"add", 4>>, <<"remove", 2>>, <<"remove", 3>>,
     <<"reset", 1>>, <<"reset", 2>>, <<"reset", 3>>, <<"reset", 4>>, <<"reset", 5>>,
     <<"reset", 6>>}

\* It holds the order it is going to store.
Sorted(m) == <<m.op, m.at>> \in
    {<<"content", 5>>, <<"content", 6>>, <<"add", 6>>, <<"add", 7>>,
     <<"remove", 5>>, <<"remove", 6>>}

Typed(m) ==
    /\ Shaped(m)
    /\ m.op \in Ops /\ m.list \in Lists /\ m.at \in 0..Len(Program(m.op))
    /\ m.holds \subseteq Docs \cup Parts /\ m.stale \subseteq m.holds
    /\ m.at = 0 => m = Free
    /\ m.at # 0 => m.number \in Numbers

Brought(m) ==
    m.at # 0 =>
        /\ m.op = "order" => m.arg \in Orders \X Aliases
        /\ m.op = "content" /\ m.at <= 3 => m.arg \in Entries
        /\ m.op = "add" /\ m.at <= 4 => m.arg \in Names
        /\ m.op = "override" /\ m.at <= 2 => m.arg \in Keys \X BOOLEAN

ReadFits(m, dc) ==
    m.at # 0 /\ NextStep(m).do = "put" /\ m.op # "settings" =>
        LET d == NextStep(m).doc
        IN d \in m.holds /\ Document(d, m.read) /\ (d \notin m.stale => m.read = dc[d])

EntriesFit(m, dc) ==
    Prepared(m) =>
        /\ m.entries \in Entries
        /\ m.op \in {"add", "remove"} => "local" \in m.holds
        /\ "local" \notin m.stale => DOMAIN m.entries = Meant(m, DOMAIN dc["local"][m.list])
        /\ <<m.op, m.at>> \notin {<<"content", 1>>, <<"add", 2>>} =>
               Cardinality(DOMAIN m.entries) <= MaxEntries

OrderFits(m, dc) ==
    Sorted(m) =>
        /\ "orders" \in m.holds /\ m.sections \subseteq KeySet /\ m.named \subseteq KeySet
        /\ Placing(m.order)
        /\ "orders" \notin m.stale =>
               m.order = Ordered(m.sections, Ordered(m.named, dc["orders"][m.list]))

SettingsFit(m, ps) ==
    /\ m.op # "settings" => m.holds \subseteq Docs
    /\ m.op = "settings" =>
           /\ m.holds = IF m.at <= 1 THEN {} ELSE IF m.at = 2 THEN {"main"} ELSE {"main", "margin"}
           /\ m.stale = {} => \A p \in m.holds : ps[p] = m.number

RequestFits(m, dc, ps) ==
    /\ Typed(m) /\ Brought(m) /\ ReadFits(m, dc) /\ EntriesFit(m, dc)
    /\ OrderFits(m, dc) /\ SettingsFit(m, ps)

PrintInv ==
    /\ open \subseteq Rows
    /\ Documents(doc)
    /\ parts \in [Parts -> 0..MaxRequests]
    /\ req = [r \in Slots |-> req[r]]
    /\ \A r \in Slots : RequestFits(req[r], doc, parts) /\ req[r].number <= count
    /\ count \in 0..MaxRequests /\ changes \in 0..MaxChanges /\ torn \in BOOLEAN
    /\ meant = [d \in Kept |-> [l \in Lists |-> Holding(d, doc[d][l])]]
    /\ ~torn /\ (\A r \in Slots : req[r].op = "settings" => req[r].holds = {})
           => \A p, q \in Parts : parts[p] = parts[q]

\* A list may have no entries.
LEMMA EmptyFits ==
    /\ <<>> \in Entries /\ DOMAIN <<>> = {}
    /\ MaxEntries \in Nat /\ Cardinality({}) = 0
<1>1. {} \in SUBSET Numbers /\ <<>> \in [{} -> Names]
  OBVIOUS
<1>2. <<>> \in Entries
  BY <1>1 DEF Entries
<1>3. QED
  BY <1>2, FS_EmptySet, PrintAssumption

\* An update of a request has all its fields.
LEMMA Keeps ==
    ASSUME NEW m, Shaped(m), NEW x
    PROVE  /\ Shaped([m EXCEPT !.op = x]) /\ Shaped([m EXCEPT !.list = x])
           /\ Shaped([m EXCEPT !.at = x]) /\ Shaped([m EXCEPT !.number = x])
           /\ Shaped([m EXCEPT !.arg = x]) /\ Shaped([m EXCEPT !.read = x])
           /\ Shaped([m EXCEPT !.entries = x]) /\ Shaped([m EXCEPT !.order = x])
           /\ Shaped([m EXCEPT !.sections = x]) /\ Shaped([m EXCEPT !.named = x])
           /\ Shaped([m EXCEPT !.holds = x]) /\ Shaped([m EXCEPT !.stale = x])
<1>1. Shaped([m EXCEPT !.op = x])
  BY DEF Shaped
<1>2. Shaped([m EXCEPT !.list = x])
  BY DEF Shaped
<1>3. Shaped([m EXCEPT !.at = x])
  BY DEF Shaped
<1>4. Shaped([m EXCEPT !.number = x])
  BY DEF Shaped
<1>5. Shaped([m EXCEPT !.arg = x])
  BY DEF Shaped
<1>6. Shaped([m EXCEPT !.read = x])
  BY DEF Shaped
<1>7. Shaped([m EXCEPT !.entries = x])
  BY DEF Shaped
<1>8. Shaped([m EXCEPT !.order = x])
  BY DEF Shaped
<1>9. Shaped([m EXCEPT !.sections = x])
  BY DEF Shaped
<1>10. Shaped([m EXCEPT !.named = x])
  BY DEF Shaped
<1>11. Shaped([m EXCEPT !.holds = x])
  BY DEF Shaped
<1>12. Shaped([m EXCEPT !.stale = x])
  BY DEF Shaped
<1>13. QED
  BY <1>1, <1>2, <1>3, <1>4, <1>5, <1>6, <1>7, <1>8, <1>9, <1>10, <1>11, <1>12

\* Handlers have so many steps.
LEMMA LengthFits == \A op \in Ops : Len(Program(op)) \in {3, 4, 9, 10}
BY ContentProgram, AddProgram, RemoveProgram, ShortPrograms, ResetProgram DEF Ops

\* Nothing is stored before it was read.
LEMMA FirstStep == \A op \in Ops : op # "settings" => Program(op)[1].do # "put"
BY ContentProgram, AddProgram, RemoveProgram, ShortPrograms, ResetProgram DEF Ops, Get, Do

\* The entries and keys each request is meant to leave.
LEMMA MeantIs ==
    ASSUME NEW m, NEW old
    PROVE  /\ m.op = "content" => Meant(m, old) = DOMAIN m.arg
           /\ m.op = "add" => Meant(m, old) = old \cup {m.number}
           /\ m.op = "remove" => Meant(m, old) = old \ {m.arg}
           /\ m.op = "reset" => Meant(m, old) = {}
           /\ m.op = "override" =>
                  Meant(m, old) = IF m.arg[2] THEN old \cup {m.arg[1]} ELSE old \ {m.arg[1]}
<1>1. m.op = "content" => Meant(m, old) = DOMAIN m.arg
  BY DEF Meant
<1>2. m.op = "add" => Meant(m, old) = old \cup {m.number}
  BY DEF Meant
<1>3. m.op = "remove" => Meant(m, old) = old \ {m.arg}
  BY DEF Meant
<1>4. m.op = "reset" => Meant(m, old) = {}
  BY DEF Meant
<1>5. m.op = "override" =>
          Meant(m, old) = IF m.arg[2] THEN old \cup {m.arg[1]} ELSE old \ {m.arg[1]}
  BY DEF Meant
<1>6. QED
  BY <1>1, <1>2, <1>3, <1>4, <1>5

\* The table applies to the step of a busy request.
LEMMA NextFits ==
    ASSUME NEW m, Typed(m), m.at # 0
    PROVE  /\ m.at \in 1..Len(Program(m.op))
           /\ StepFits(m.op, m.at, Len(Program(m.op)), Program(m.op))
           /\ m.op # "settings" /\ NextStep(m).do = "put" => NextStep(m).doc \in Docs
<1>1. m.op \in Ops /\ m.at \in 0..Len(Program(m.op)) /\ Len(Program(m.op)) \in Nat
  BY LengthFits DEF Typed
<1>2. m.at \in 1..Len(Program(m.op))
  BY <1>1
<1>3. StepFits(m.op, m.at, Len(Program(m.op)), Program(m.op))
  BY <1>1, <1>2, StepsFit
<1>4. QED
  BY <1>2, <1>3 DEF StepFits, NextStep

\* A free slot is all right whatever is stored.
LEMMA FreeFits ==
    ASSUME NEW dc, NEW ps
    PROVE  RequestFits(Free, dc, ps)
<1>1. /\ Free.op = "settings" /\ Free.at = 0 /\ Free.holds = {} /\ Free.stale = {}
      /\ Shaped(Free) /\ Free.list = SomeList
  BY DEF Free, Shaped
<1>2. SomeList \in Lists
  BY PrintAssumption DEF SomeList
<1>3. 0 \in 0..Len(Program("settings"))
  BY ShortPrograms
<1>4. Typed(Free)
  BY <1>1, <1>2, <1>3 DEF Typed, Ops
<1>5. Brought(Free) /\ ReadFits(Free, dc) /\ SettingsFit(Free, ps)
  BY <1>1 DEF Brought, ReadFits, SettingsFit
<1>6. EntriesFit(Free, dc) /\ OrderFits(Free, dc)
  BY <1>1 DEF EntriesFit, OrderFits, Prepared, Sorted
<1>7. QED
  BY <1>4, <1>5, <1>6 DEF RequestFits

\* A request of which another one outdates what it holds is all right.
LEMMA OutdatedFits ==
    ASSUME NEW m, NEW dc, NEW ps, RequestFits(m, dc, ps), Documents(dc),
           NEW d \in Docs, NEW new
    PROVE  RequestFits(IF d \in m.holds THEN [m EXCEPT !.stale = @ \cup {d}] ELSE m,
                       [dc EXCEPT ![d] = new], ps)
<1> DEFINE n == IF d \in m.holds THEN [m EXCEPT !.stale = @ \cup {d}] ELSE m
           dd == [dc EXCEPT ![d] = new]
<1>1. Typed(m) /\ Brought(m) /\ ReadFits(m, dc) /\ EntriesFit(m, dc) /\ OrderFits(m, dc)
      /\ SettingsFit(m, ps)
  BY DEF RequestFits
<1>2. Shaped(m)
  BY <1>1 DEF Typed
<1>3. /\ n.op = m.op /\ n.list = m.list /\ n.at = m.at /\ n.number = m.number
      /\ n.arg = m.arg /\ n.read = m.read /\ n.entries = m.entries /\ n.order = m.order
      /\ n.sections = m.sections /\ n.named = m.named /\ n.holds = m.holds
      /\ n.stale = IF d \in m.holds THEN m.stale \cup {d} ELSE m.stale
      /\ Shaped(n)
  <2>1. CASE d \in m.holds
    BY <1>2, <2>1 DEF Shaped
  <2>2. CASE d \notin m.holds
    BY <1>2, <2>2
  <2>3. QED
    BY <2>1, <2>2
<1>4. d \notin m.holds => n = m
  OBVIOUS
<1>5. \A e \in Docs : e # d => dd[e] = dc[e]
  BY DEF Documents
<1> HIDE DEF n, dd
<1>6. NextStep(n) = NextStep(m) /\ (Prepared(n) <=> Prepared(m)) /\ (Sorted(n) <=> Sorted(m))
      /\ \A old : Meant(n, old) = Meant(m, old)
  BY <1>3 DEF NextStep, Prepared, Sorted, Meant
<1>7. Typed(n)
  <2>1. m.at = 0 => m.holds = {}
    BY <1>1 DEF Typed, Free
  <2>2. QED
    BY <1>1, <1>3, <1>4, <2>1 DEF Typed
<1>8. Brought(n)
  BY <1>1, <1>3 DEF Brought
<1>9. ReadFits(n, dd)
  <2> SUFFICES ASSUME n.at # 0, NextStep(n).do = "put", n.op # "settings"
               PROVE  LET e == NextStep(n).doc
                      IN e \in n.holds /\ Document(e, n.read) /\ (e \notin n.stale => n.read = dd[e])
    BY DEF ReadFits
  <2>1. LET e == NextStep(m).doc
        IN e \in m.holds /\ Document(e, m.read) /\ (e \notin m.stale => m.read = dc[e])
    BY <1>1, <1>3, <1>6 DEF ReadFits
  <2>2. NextStep(m).doc \in Docs
    BY <1>1, <1>3, <1>6, NextFits
  <2>3. QED
    BY <1>3, <1>5, <1>6, <2>1, <2>2
<1>10. EntriesFit(n, dd)
  <2> SUFFICES ASSUME Prepared(m)
               PROVE  /\ n.entries \in Entries
                      /\ n.op \in {"add", "remove"} => "local" \in n.holds
                      /\ "local" \notin n.stale =>
                             DOMAIN n.entries = Meant(n, DOMAIN dd["local"][n.list])
                      /\ <<n.op, n.at>> \notin {<<"content", 1>>, <<"add", 2>>} =>
                             Cardinality(DOMAIN n.entries) <= MaxEntries
    BY <1>6 DEF EntriesFit
  <2>1. /\ m.entries \in Entries
        /\ m.op \in {"add", "remove"} => "local" \in m.holds
        /\ "local" \notin m.stale => DOMAIN m.entries = Meant(m, DOMAIN dc["local"][m.list])
        /\ <<m.op, m.at>> \notin {<<"content", 1>>, <<"add", 2>>} =>
               Cardinality(DOMAIN m.entries) <= MaxEntries
    BY <1>1 DEF EntriesFit
  <2>2. ASSUME "local" \notin n.stale
        PROVE  DOMAIN m.entries = Meant(m, DOMAIN dd["local"][m.list])
    <3>1. "local" \notin m.stale
      BY <1>3, <2>2
    <3>2. CASE m.op \in {"content", "reset"}
      BY <2>1, <3>1, <3>2 DEF Meant
    <3>3. CASE m.op \in {"add", "remove"}
      <4>1. d # "local"
        BY <1>3, <2>1, <2>2, <3>3
      <4>2. dd["local"] = dc["local"]
        BY <1>5, <4>1 DEF Docs
      <4>3. QED
        BY <2>1, <3>1, <4>2
    <3>4. m.op \in {"content", "add", "remove", "reset"}
      BY DEF Prepared
    <3>5. QED
      BY <3>2, <3>3, <3>4
  <2>3. QED
    BY <1>3, <1>6, <2>1, <2>2
<1>11. OrderFits(n, dd)
  <2>1. "orders" \in m.holds /\ "orders" \notin n.stale => d # "orders" /\ "orders" \notin m.stale
    BY <1>3
  <2>2. d # "orders" => dd["orders"] = dc["orders"]
    BY <1>5 DEF Docs
  <2>3. QED
    BY <1>1, <1>3, <1>6, <2>1, <2>2 DEF OrderFits
<1>12. SettingsFit(n, ps)
  <2>1. n.op = "settings" => n = m
    <3>1. m.op = "settings" => m.holds \subseteq Parts
      BY <1>1 DEF SettingsFit, Parts
    <3>2. d \notin Parts
      BY DEF Docs, Parts
    <3>3. QED
      BY <1>3, <1>4, <3>1, <3>2
  <2>2. QED
    BY <1>1, <1>3, <2>1 DEF SettingsFit
<1>13. QED
  BY <1>7, <1>8, <1>9, <1>10, <1>11, <1>12 DEF RequestFits, n, dd

\* A request is all right when another one stores some of the settings.
LEMMA CrossedFits ==
    ASSUME NEW m, NEW dc, NEW ps, RequestFits(m, dc, ps), NEW p, NEW x
    PROVE  RequestFits(IF m.holds \cap Parts # {}
                       THEN [m EXCEPT !.stale = @ \cup (m.holds \cap Parts)] ELSE m,
                       dc, [ps EXCEPT ![p] = x])
<1> DEFINE n == IF m.holds \cap Parts # {}
                THEN [m EXCEPT !.stale = @ \cup (m.holds \cap Parts)] ELSE m
           qs == [ps EXCEPT ![p] = x]
<1>1. Typed(m) /\ Brought(m) /\ ReadFits(m, dc) /\ EntriesFit(m, dc) /\ OrderFits(m, dc)
      /\ SettingsFit(m, ps)
  BY DEF RequestFits
<1>2. Docs \cap Parts = {}
  BY DEF Docs, Parts
<1>3. CASE m.holds \cap Parts = {}
  <2>1. n = m
    BY <1>3
  <2>2. m.op = "settings" => m.holds = {}
    BY <1>1, <1>3 DEF SettingsFit, Parts
  <2>3. SettingsFit(m, qs)
    BY <1>1, <2>2 DEF SettingsFit
  <2>4. QED
    BY <1>1, <2>1, <2>3 DEF RequestFits
<1>4. CASE m.holds \cap Parts # {}
  <2>1. m.op = "settings"
    BY <1>1, <1>2, <1>4 DEF SettingsFit
  <2>2. /\ n.op = m.op /\ n.list = m.list /\ n.at = m.at /\ n.number = m.number
        /\ n.holds = m.holds /\ n.stale = m.stale \cup (m.holds \cap Parts) /\ Shaped(n)
    BY <1>1, <1>4 DEF Typed, Shaped
  <2> HIDE DEF n, qs
  <2>3. m.at # 0
    BY <1>1, <1>4 DEF Typed, Free
  <2>4. Typed(n)
    BY <1>1, <2>2, <2>3 DEF Typed
  <2>5. Brought(n) /\ ReadFits(n, dc)
    BY <2>1, <2>2 DEF Brought, ReadFits
  <2>6. EntriesFit(n, dc) /\ OrderFits(n, dc)
    BY <2>1, <2>2 DEF EntriesFit, OrderFits, Prepared, Sorted
  <2>7. SettingsFit(n, qs)
    BY <1>1, <1>4, <2>1, <2>2 DEF SettingsFit
  <2>8. QED
    BY <2>4, <2>5, <2>6, <2>7 DEF RequestFits, n, qs
<1>5. QED
  BY <1>3, <1>4

\* A request after a step.
LEMMA OnwardIs ==
    ASSUME NEW m, Shaped(m), m.op \in Ops, m.at \in 1..Len(Program(m.op))
    PROVE  \/ Onward(m) = Free
           \/ /\ m.at < Len(Program(m.op)) /\ Shaped(Onward(m))
              /\ Onward(m).op = m.op /\ Onward(m).list = m.list /\ Onward(m).at = m.at + 1
              /\ Onward(m).number = m.number /\ Onward(m).arg = m.arg
              /\ Onward(m).read = m.read /\ Onward(m).entries = m.entries
              /\ Onward(m).order = m.order /\ Onward(m).sections = m.sections
              /\ Onward(m).named = m.named /\ Onward(m).holds = m.holds
              /\ Onward(m).stale = m.stale
<1>1. Len(Program(m.op)) \in Nat
  BY LengthFits
<1>2. CASE m.at = Len(Program(m.op))
  BY <1>2 DEF Onward
<1>3. CASE m.at # Len(Program(m.op))
  <2>1. Onward(m) = [m EXCEPT !.at = @ + 1]
    BY <1>3 DEF Onward
  <2>2. m.at < Len(Program(m.op))
    BY <1>1, <1>3
  <2>3. QED
    BY <2>1, <2>2 DEF Shaped
<1>4. QED
  BY <1>2, <1>3

\* A request that has just come.
LEMMA NewFits ==
    ASSUME NEW dc, NEW ps, Documents(dc), NEW op \in Ops, NEW l \in Lists,
           NEW number \in Numbers, NEW arg,
           op = "order" => arg \in Orders \X Aliases,
           op = "content" => arg \in Entries,
           op = "add" => arg \in Names,
           op = "override" => arg \in Keys \X BOOLEAN
    PROVE  RequestFits([Free EXCEPT !.op = op, !.list = l, !.at = 1, !.number = number,
                            !.arg = arg, !.entries = IF op = "content" THEN arg ELSE <<>>],
                       dc, ps)
<1> DEFINE es == IF op = "content" THEN arg ELSE <<>>
           n == [Free EXCEPT !.op = op, !.list = l, !.at = 1, !.number = number,
                     !.arg = arg, !.entries = es]
<1>1. /\ n.op = op /\ n.list = l /\ n.at = 1 /\ n.number = number /\ n.arg = arg
      /\ n.entries = es
      /\ n.holds = {} /\ n.stale = {} /\ Shaped(n)
  <2> HIDE DEF es
  <2>1. Shaped(Free)
    BY DEF Free, Shaped
  <2>2. ASSUME NEW free, Shaped(free)
        PROVE  LET k == [free EXCEPT !.op = op, !.list = l, !.at = 1, !.number = number,
                             !.arg = arg, !.entries = es]
               IN /\ k.op = op /\ k.list = l /\ k.at = 1 /\ k.number = number /\ k.arg = arg
                  /\ k.entries = es /\ k.holds = free.holds /\ k.stale = free.stale
    BY <2>2 DEF Shaped
  <2>3. Shaped(n)
    BY <2>1, Keeps
  <2>4. Free.holds = {} /\ Free.stale = {}
    BY DEF Free
  <2>5. QED
    BY <2>1, <2>2, <2>3, <2>4
<1> HIDE DEF n
<1>2. Typed(n)
  <2>1. 1 \in 0..Len(Program(op))
    <3>1. \A i \in {3, 4, 9, 10} : 1 \in 0..i
      OBVIOUS
    <3>2. QED
      BY <3>1, LengthFits
  <2>2. QED
    BY <1>1, <2>1 DEF Typed
<1>3. Brought(n)
  BY <1>1 DEF Brought
<1>4. ReadFits(n, dc)
  BY <1>1, FirstStep DEF ReadFits, NextStep
<1>5. EntriesFit(n, dc)
  <2>1. CASE op = "content"
    BY <1>1, <2>1, MeantIs DEF EntriesFit
  <2>2. CASE op = "reset"
    <3>1. n.entries \in Entries /\ DOMAIN n.entries = {} /\ Cardinality(DOMAIN n.entries) <= MaxEntries
      BY <1>1, <2>2, EmptyFits
    <3>2. \A old : Meant(n, old) = {}
      BY <1>1, <2>2, MeantIs
    <3>3. QED
      BY <1>1, <2>2, <3>1, <3>2 DEF EntriesFit
  <2>3. CASE op \notin {"content", "reset"}
    BY <1>1, <2>3 DEF EntriesFit, Prepared
  <2>4. QED
    BY <2>1, <2>2, <2>3
<1>6. OrderFits(n, dc) /\ SettingsFit(n, ps)
  BY <1>1 DEF OrderFits, SettingsFit, Sorted
<1>7. QED
  BY <1>2, <1>3, <1>4, <1>5, <1>6 DEF RequestFits, n, es

\* A document is read.
LEMMA GetFits ==
    ASSUME NEW m, NEW dc, NEW ps, RequestFits(m, dc, ps), Documents(dc),
           m.at # 0, NextStep(m).do = "get"
    PROVE  /\ NextStep(m).doc \in Docs
           /\ RequestFits(Onward([m EXCEPT !.read = dc[NextStep(m).doc],
                                           !.holds = @ \cup {NextStep(m).doc}]), dc, ps)
<1> DEFINE d == NextStep(m).doc
           k == [m EXCEPT !.read = dc[d], !.holds = @ \cup {d}]
           n == Onward(k)
<1>1. Typed(m) /\ Brought(m) /\ ReadFits(m, dc) /\ EntriesFit(m, dc) /\ OrderFits(m, dc)
      /\ SettingsFit(m, ps)
  BY DEF RequestFits
<1>2. /\ Shaped(m) /\ m.op \in Ops /\ m.list \in Lists /\ m.at \in 1..Len(Program(m.op))
      /\ Len(Program(m.op)) \in Nat /\ m.number \in Numbers
      /\ StepFits(m.op, m.at, Len(Program(m.op)), Program(m.op))
  BY <1>1, NextFits, LengthFits DEF Typed
<1>3. /\ d \in Docs /\ <<m.op, m.at>> \in ReadAt(d) /\ m.at < Len(Program(m.op))
      /\ Program(m.op)[m.at + 1].do = "put" /\ Program(m.op)[m.at + 1].doc = d
      /\ m.op # "settings"
  BY <1>2 DEF StepFits, NextStep
<1> HIDE DEF d
<1>4. /\ k.op = m.op /\ k.list = m.list /\ k.at = m.at /\ k.number = m.number
      /\ k.arg = m.arg /\ k.read = dc[d] /\ k.entries = m.entries /\ k.order = m.order
      /\ k.sections = m.sections /\ k.named = m.named /\ k.holds = m.holds \cup {d}
      /\ k.stale = m.stale
  BY <1>2 DEF Shaped
<1>5. Shaped(k)
  BY <1>2, Keeps
<1> HIDE DEF k
<1>6. CASE n = Free
  BY <1>3, <1>6, FreeFits DEF d, k
<1>7. CASE n # Free
  <2>1. /\ Shaped(n) /\ n.op = m.op /\ n.list = m.list /\ n.at = m.at + 1
        /\ n.number = m.number
        /\ n.arg = m.arg /\ n.read = dc[d] /\ n.entries = m.entries /\ n.order = m.order
        /\ n.sections = m.sections /\ n.named = m.named /\ n.holds = m.holds \cup {d}
        /\ n.stale = m.stale
    BY <1>2, <1>4, <1>5, <1>7, OnwardIs
  <2>2. <<m.op, m.at>> \in LocalAt \cup OrderAt \cup AliasesAt \cup OverridesAt
    BY <1>3 DEF ReadAt, Docs
  <2> HIDE DEF n
  <2>3. Typed(n)
    BY <1>1, <1>2, <1>3, <2>1 DEF Typed
  <2>4. Brought(n)
    BY <1>1, <1>2, <2>1 DEF Brought
  <2>5. ReadFits(n, dc)
    <3>1. NextStep(n).doc = d
      BY <1>3, <2>1 DEF NextStep
    <3>2. Document(d, dc[d])
      BY <1>3 DEF Documents
    <3>3. QED
      BY <2>1, <3>1, <3>2 DEF ReadFits
  <2>6. EntriesFit(n, dc)
    <3>1. Prepared(n) => Prepared(m) /\ <<m.op, m.at>> \notin {<<"content", 1>>, <<"add", 2>>}
      BY <2>1, <2>2 DEF Prepared, LocalAt, OrderAt, AliasesAt, OverridesAt
    <3>2. \A old : Meant(n, old) = Meant(m, old)
      BY <2>1 DEF Meant
    <3>3. QED
      BY <1>1, <2>1, <3>1, <3>2 DEF EntriesFit
  <2>7. OrderFits(n, dc)
    <3>1. Sorted(n) => Sorted(m)
      BY <2>1, <2>2 DEF Sorted, LocalAt, OrderAt, AliasesAt, OverridesAt
    <3>2. QED
      BY <1>1, <2>1, <3>1 DEF OrderFits
  <2>8. SettingsFit(n, ps)
    BY <1>1, <1>3, <2>1 DEF SettingsFit
  <2>9. RequestFits(n, dc, ps)
    BY <2>3, <2>4, <2>5, <2>6, <2>7, <2>8 DEF RequestFits
  <2>10. QED
    BY <1>3, <2>9 DEF n, k, d
<1>8. QED
  BY <1>6, <1>7

\* A document is stored.
LEMMA PutFits ==
    ASSUME NEW m, NEW dc, NEW ps, RequestFits(m, dc, ps),
           m.at # 0, NextStep(m).do = "put", NextStep(m).doc \in Docs, NEW new
    PROVE  RequestFits(Onward(AfterPut(m, NextStep(m).doc)),
                       [dc EXCEPT ![NextStep(m).doc] = new], ps)
<1> DEFINE d == NextStep(m).doc
           dd == [dc EXCEPT ![d] = new]
           k == AfterPut(m, d)
           n == Onward(k)
<1>1. Typed(m) /\ Brought(m) /\ ReadFits(m, dc) /\ EntriesFit(m, dc) /\ OrderFits(m, dc)
      /\ SettingsFit(m, ps)
  BY DEF RequestFits
<1>2. /\ Shaped(m) /\ m.op \in Ops /\ m.list \in Lists /\ m.at \in 1..Len(Program(m.op))
      /\ Len(Program(m.op)) \in Nat /\ m.number \in Numbers
      /\ StepFits(m.op, m.at, Len(Program(m.op)), Program(m.op))
  BY <1>1, NextFits, LengthFits DEF Typed
<1>3. /\ d \in Docs /\ <<m.op, m.at - 1>> \in ReadAt(d) /\ m.op # "settings"
      /\ m.at < Len(Program(m.op)) => Program(m.op)[m.at + 1].do # "put"
  <2>1. d \notin {"main", "margin", "marker"}
    BY DEF Docs
  <2>2. Program(m.op)[m.at].do = "put" /\ Program(m.op)[m.at].doc = d
    BY DEF NextStep
  <2> HIDE DEF d
  <2>3. m.op # "settings"
    BY <1>2, <2>1, <2>2 DEF StepFits
  <2>4. /\ d \in Docs /\ <<m.op, m.at - 1>> \in ReadAt(d)
        /\ m.at < Len(Program(m.op)) => Program(m.op)[m.at + 1].do # "put"
    BY <1>2, <2>1, <2>2, <2>3 DEF StepFits
  <2>5. QED
    BY <2>3, <2>4
<1> HIDE DEF d
<1>4. /\ k.op = m.op /\ k.list = m.list /\ k.at = m.at /\ k.number = m.number
      /\ k.arg = (IF d \in Kept THEN <<>> ELSE m.arg)
      /\ k.entries = (IF d = "local" THEN <<>> ELSE m.entries)
      /\ k.holds = m.holds \ {d} /\ k.stale = m.stale \ {d}
  BY <1>2 DEF Shaped, AfterPut
<1>5. Shaped(k)
  <2>1. \A h, s, a, e, o, b, c, g :
            Shaped([m EXCEPT !.holds = h, !.stale = s, !.read = a, !.entries = e,
                             !.order = o, !.named = b, !.sections = c, !.arg = g])
    BY <1>2, Keeps
  <2> DEFINE e1 == IF d = "local" THEN <<>> ELSE m.entries
             o1 == IF d = "orders" THEN <<>> ELSE m.order
             b1 == IF d = "orders" THEN {} ELSE m.named
             c1 == IF d = "aliases" THEN {} ELSE m.sections
             g1 == IF d \in Kept THEN <<>> ELSE m.arg
  <2>2. AfterPut(m, d) = [m EXCEPT !.holds = m.holds \ {d}, !.stale = m.stale \ {d}, !.read = <<>>,
                             !.entries = e1, !.order = o1, !.named = b1, !.sections = c1, !.arg = g1]
    BY <1>2 DEF AfterPut, Shaped
  <2> HIDE DEF e1, o1, b1, c1, g1
  <2>3. Shaped([m EXCEPT !.holds = m.holds \ {d}, !.stale = m.stale \ {d}, !.read = <<>>,
                   !.entries = e1, !.order = o1, !.named = b1, !.sections = c1, !.arg = g1])
    BY <2>1
  <2>4. QED
    BY <2>2, <2>3
<1> HIDE DEF k, dd
<1>6. CASE n = Free
  BY <1>6, FreeFits DEF d, dd, k
<1>7. CASE n # Free
  <2>1. /\ Shaped(n) /\ n.op = m.op /\ n.list = m.list /\ n.at = m.at + 1
        /\ n.number = m.number /\ m.at < Len(Program(m.op))
        /\ n.arg = (IF d \in Kept THEN <<>> ELSE m.arg)
        /\ n.entries = (IF d = "local" THEN <<>> ELSE m.entries)
        /\ n.holds = m.holds \ {d} /\ n.stale = m.stale \ {d}
    BY <1>2, <1>4, <1>5, <1>7, OnwardIs
  <2>2. \/ d = "local" /\ <<m.op, m.at - 1>> \in LocalAt
        \/ d = "orders" /\ <<m.op, m.at - 1>> \in OrderAt
        \/ d = "aliases" /\ <<m.op, m.at - 1>> \in AliasesAt
        \/ d = "overrides" /\ <<m.op, m.at - 1>> \in OverridesAt
    BY <1>3 DEF ReadAt, Docs
  <2> HIDE DEF n
  <2>3. Typed(n)
    BY <1>1, <1>2, <1>3, <2>1 DEF Typed
  <2>4. Brought(n)
    <3>1. m.op = "order" => d \notin Kept
      BY <2>2 DEF LocalAt, OrderAt, AliasesAt, OverridesAt, Kept
    <3>2. /\ ~(m.op = "content" /\ n.at <= 3) /\ ~(m.op = "add" /\ n.at <= 4)
          /\ ~(m.op = "override" /\ n.at <= 2)
      BY <1>2, <2>1, <2>2 DEF LocalAt, OrderAt, AliasesAt, OverridesAt
    <3>3. QED
      BY <1>1, <1>2, <2>1, <3>1, <3>2 DEF Brought
  <2>5. ReadFits(n, dd)
    BY <1>3, <2>1 DEF ReadFits, NextStep
  <2>6. EntriesFit(n, dd)
    <3>1. Prepared(n) => m.op = "reset" /\ Prepared(m) /\ d # "local"
      BY <1>2, <2>1, <2>2 DEF Prepared, LocalAt, OrderAt, AliasesAt, OverridesAt
    <3>2. m.op = "reset" => \A old : Meant(n, old) = {} /\ Meant(m, old) = {}
      BY <2>1, MeantIs
    <3>3. QED
      BY <1>1, <2>1, <3>1, <3>2 DEF EntriesFit
  <2>7. OrderFits(n, dd)
    <3>1. ~Sorted(n)
      BY <1>2, <2>1, <2>2 DEF Sorted, LocalAt, OrderAt, AliasesAt, OverridesAt
    <3>2. QED
      BY <3>1 DEF OrderFits
  <2>8. SettingsFit(n, ps)
    BY <1>1, <1>3, <2>1 DEF SettingsFit
  <2>9. RequestFits(n, dd, ps)
    BY <2>3, <2>4, <2>5, <2>6, <2>7, <2>8 DEF RequestFits
  <2>10. QED
    BY <2>9 DEF n, k, d, dd
<1>8. QED
  BY <1>6, <1>7

\* Mealie was asked for the list, and the entries have the names of sections.
LEMMA FileFits ==
    ASSUME NEW m, NEW dc, NEW ps, RequestFits(m, dc, ps),
           m.at # 0, NextStep(m).do = "file",
           NEW es \in Entries, DOMAIN es = DOMAIN m.entries,
           Cardinality(DOMAIN es) <= MaxEntries
    PROVE  RequestFits(Onward([m EXCEPT !.entries = es]), dc, ps)
<1> DEFINE k == [m EXCEPT !.entries = es]
           n == Onward(k)
<1>1. Typed(m) /\ Brought(m) /\ ReadFits(m, dc) /\ EntriesFit(m, dc) /\ OrderFits(m, dc)
      /\ SettingsFit(m, ps)
  BY DEF RequestFits
<1>2. /\ Shaped(m) /\ m.op \in Ops /\ m.list \in Lists /\ m.at \in 1..Len(Program(m.op))
      /\ Len(Program(m.op)) \in Nat /\ m.number \in Numbers
      /\ StepFits(m.op, m.at, Len(Program(m.op)), Program(m.op))
  BY <1>1, NextFits, LengthFits DEF Typed
<1>3. /\ <<m.op, m.at>> \in {<<"content", 1>>, <<"add", 2>>} /\ m.at < Len(Program(m.op))
      /\ Program(m.op)[m.at + 1].do = "get" /\ m.op # "settings"
  BY <1>2 DEF StepFits, NextStep
<1>4. /\ k.op = m.op /\ k.list = m.list /\ k.at = m.at /\ k.number = m.number
      /\ k.arg = m.arg /\ k.entries = es /\ k.holds = m.holds /\ k.stale = m.stale
  BY <1>2 DEF Shaped
<1>5. Shaped(k)
  BY <1>2, Keeps
<1> HIDE DEF k
<1>6. CASE n = Free
  BY <1>6, FreeFits DEF k
<1>7. CASE n # Free
  <2>1. /\ Shaped(n) /\ n.op = m.op /\ n.list = m.list /\ n.at = m.at + 1
        /\ n.number = m.number /\ n.arg = m.arg /\ n.entries = es
        /\ n.holds = m.holds /\ n.stale = m.stale
    BY <1>2, <1>4, <1>5, <1>7, OnwardIs
  <2> HIDE DEF n
  <2>2. Typed(n)
    BY <1>1, <1>2, <1>3, <2>1 DEF Typed
  <2>3. Brought(n)
    BY <1>1, <1>2, <2>1 DEF Brought
  <2>4. ReadFits(n, dc)
    BY <1>3, <2>1 DEF ReadFits, NextStep
  <2>5. EntriesFit(n, dc)
    <3>1. Prepared(m)
      BY <1>3 DEF Prepared
    <3>2. \A old : Meant(n, old) = Meant(m, old)
      BY <2>1 DEF Meant
    <3>3. QED
      BY <1>1, <2>1, <3>1, <3>2 DEF EntriesFit
  <2>6. OrderFits(n, dc)
    BY <1>3, <2>1 DEF OrderFits, Sorted
  <2>7. SettingsFit(n, ps)
    BY <1>1, <1>3, <2>1 DEF SettingsFit
  <2>8. QED
    BY <2>2, <2>3, <2>4, <2>5, <2>6, <2>7 DEF RequestFits, n, k
<1>8. QED
  BY <1>6, <1>7

\* The entries the list has now are taken.
LEMMA LookFits ==
    ASSUME NEW m, NEW dc, NEW ps, RequestFits(m, dc, ps),
           m.at # 0, NextStep(m).do = "look",
           NEW es \in Entries, DOMAIN es = Meant(m, DOMAIN dc["local"][m.list]),
           m.op = "remove" => Cardinality(DOMAIN es) <= MaxEntries
    PROVE  RequestFits(Onward([m EXCEPT !.entries = es, !.holds = @ \cup {"local"}]), dc, ps)
<1> DEFINE k == [m EXCEPT !.entries = es, !.holds = @ \cup {"local"}]
           n == Onward(k)
<1>1. Typed(m) /\ Brought(m) /\ ReadFits(m, dc) /\ EntriesFit(m, dc) /\ OrderFits(m, dc)
      /\ SettingsFit(m, ps)
  BY DEF RequestFits
<1>2. /\ Shaped(m) /\ m.op \in Ops /\ m.list \in Lists /\ m.at \in 1..Len(Program(m.op))
      /\ Len(Program(m.op)) \in Nat /\ m.number \in Numbers
      /\ StepFits(m.op, m.at, Len(Program(m.op)), Program(m.op))
  BY <1>1, NextFits, LengthFits DEF Typed
<1>3. /\ m.op \in {"add", "remove"} /\ m.at = 1 /\ m.at < Len(Program(m.op))
      /\ Program(m.op)[m.at + 1].do \in {"file", "get"}
  BY <1>2 DEF StepFits, NextStep
<1>4. /\ k.op = m.op /\ k.list = m.list /\ k.at = m.at /\ k.number = m.number
      /\ k.arg = m.arg /\ k.entries = es /\ k.holds = m.holds \cup {"local"}
      /\ k.stale = m.stale
  BY <1>2 DEF Shaped
<1>5. Shaped(k)
  BY <1>2, Keeps
<1> HIDE DEF k
<1>6. CASE n = Free
  BY <1>6, FreeFits DEF k
<1>7. CASE n # Free
  <2>1. /\ Shaped(n) /\ n.op = m.op /\ n.list = m.list /\ n.at = 2
        /\ n.number = m.number /\ n.arg = m.arg /\ n.entries = es
        /\ n.holds = m.holds \cup {"local"} /\ n.stale = m.stale
    BY <1>2, <1>3, <1>4, <1>5, <1>7, OnwardIs
  <2> HIDE DEF n
  <2>2. Typed(n)
    <3>1. 2 \in 0..Len(Program(m.op))
      BY <1>2, <1>3
    <3>2. QED
      BY <1>1, <1>2, <2>1, <3>1 DEF Typed, Docs
  <2>3. Brought(n)
    BY <1>1, <1>3, <2>1 DEF Brought
  <2>4. ReadFits(n, dc)
    BY <1>3, <2>1 DEF ReadFits, NextStep
  <2>5. EntriesFit(n, dc)
    <3>1. \A old : Meant(n, old) = Meant(m, old)
      BY <2>1 DEF Meant
    <3>2. QED
      BY <1>3, <2>1, <3>1 DEF EntriesFit
  <2>6. OrderFits(n, dc)
    BY <1>3, <2>1 DEF OrderFits, Sorted
  <2>7. SettingsFit(n, ps)
    BY <1>1, <1>3, <2>1 DEF SettingsFit, Docs
  <2>8. QED
    BY <2>2, <2>3, <2>4, <2>5, <2>6, <2>7 DEF RequestFits, n, k
<1>8. QED
  BY <1>6, <1>7

\* Mealie was asked, and the sections are in order.
LEMMA ShowFits ==
    ASSUME NEW m, NEW dc, NEW ps, RequestFits(m, dc, ps), Documents(dc),
           m.at # 0, NextStep(m).do = "show",
           NEW sections \in SUBSET KeySet, NEW named \in SUBSET KeySet
    PROVE  RequestFits(Onward([m EXCEPT !.holds = @ \cup {"orders"}, !.sections = sections,
                          !.named = named,
                          !.order = Ordered(sections, Ordered(named, dc["orders"][m.list]))]),
                       dc, ps)
<1> DEFINE o == Ordered(sections, Ordered(named, dc["orders"][m.list]))
           k == [m EXCEPT !.holds = @ \cup {"orders"}, !.sections = sections,
                          !.named = named, !.order = o]
           n == Onward(k)
<1>1. Typed(m) /\ Brought(m) /\ ReadFits(m, dc) /\ EntriesFit(m, dc) /\ OrderFits(m, dc)
      /\ SettingsFit(m, ps)
  BY DEF RequestFits
<1>2. /\ Shaped(m) /\ m.op \in Ops /\ m.list \in Lists /\ m.at \in 1..Len(Program(m.op))
      /\ Len(Program(m.op)) \in Nat /\ m.number \in Numbers
      /\ StepFits(m.op, m.at, Len(Program(m.op)), Program(m.op))
  BY <1>1, NextFits, LengthFits DEF Typed
<1>3. /\ <<m.op, m.at>> \in {<<"content", 4>>, <<"remove", 4>>, <<"add", 5>>}
      /\ m.at < Len(Program(m.op))
      /\ Program(m.op)[m.at + 1].do = "get" /\ m.op # "settings"
  BY <1>2 DEF StepFits, NextStep
<1>a. Placing(o)
  <2>1. Placing(dc["orders"][m.list])
    BY <1>2 DEF Documents, Document, Contents, Docs
  <2>2. QED
    BY <2>1, OrderedPlaces
<1>b. o = Ordered(sections, Ordered(named, dc["orders"][m.list]))
  OBVIOUS
<1> HIDE DEF o
<1>4. /\ k.op = m.op /\ k.list = m.list /\ k.at = m.at /\ k.number = m.number
      /\ k.arg = m.arg /\ k.holds = m.holds \cup {"orders"} /\ k.stale = m.stale
      /\ k.sections = sections /\ k.named = named /\ k.order = o
  BY <1>2 DEF Shaped
<1>5. Shaped(k)
  BY <1>2, Keeps
<1> HIDE DEF k
<1>6. CASE n = Free
  BY <1>6, FreeFits DEF k, o
<1>7. CASE n # Free
  <2>1. /\ Shaped(n) /\ n.op = m.op /\ n.list = m.list /\ n.at = m.at + 1
        /\ n.number = m.number /\ n.arg = m.arg
        /\ n.holds = m.holds \cup {"orders"} /\ n.stale = m.stale
        /\ n.sections = sections /\ n.named = named /\ n.order = o
    BY <1>2, <1>4, <1>5, <1>7, OnwardIs
  <2> HIDE DEF n
  <2>2. Typed(n)
    BY <1>1, <1>2, <1>3, <2>1 DEF Typed, Docs
  <2>3. Brought(n)
    BY <1>1, <1>2, <2>1 DEF Brought
  <2>4. ReadFits(n, dc)
    BY <1>3, <2>1 DEF ReadFits, NextStep
  <2>5. EntriesFit(n, dc)
    BY <1>3, <2>1 DEF EntriesFit, Prepared
  <2>6. OrderFits(n, dc)
    BY <1>a, <1>b, <2>1 DEF OrderFits
  <2>7. SettingsFit(n, ps)
    BY <1>1, <1>3, <2>1 DEF SettingsFit, Docs
  <2>8. QED
    BY <2>2, <2>3, <2>4, <2>5, <2>6, <2>7 DEF RequestFits, n, k, o
<1>8. QED
  BY <1>6, <1>7

\* One of the settings is stored.
LEMMA SetFits ==
    ASSUME NEW m, NEW dc, NEW ps, RequestFits(m, dc, ps), DOMAIN ps = Parts,
           m.at # 0, NextStep(m).do = "put", NextStep(m).doc \in Parts
    PROVE  /\ m.op = "settings" /\ m.number \in Numbers
           /\ NextStep(m).doc = IF m.at = 1 THEN "main" ELSE IF m.at = 2 THEN "margin" ELSE "marker"
           /\ m.at \in {1, 2, 3} /\ Len(Program(m.op)) = 3
           /\ RequestFits(Onward([m EXCEPT !.holds = @ \cup {NextStep(m).doc}]), dc,
                          [ps EXCEPT ![NextStep(m).doc] = m.number])
<1> DEFINE p == NextStep(m).doc
           qs == [ps EXCEPT ![p] = m.number]
           k == [m EXCEPT !.holds = @ \cup {p}]
           n == Onward(k)
<1>1. Typed(m) /\ Brought(m) /\ ReadFits(m, dc) /\ EntriesFit(m, dc) /\ OrderFits(m, dc)
      /\ SettingsFit(m, ps)
  BY DEF RequestFits
<1>2. /\ Shaped(m) /\ m.op \in Ops /\ m.list \in Lists /\ m.at \in 1..Len(Program(m.op))
      /\ Len(Program(m.op)) \in Nat /\ m.number \in Numbers
      /\ StepFits(m.op, m.at, Len(Program(m.op)), Program(m.op))
  BY <1>1, NextFits, LengthFits DEF Typed
<1>3. m.op = "settings" /\ Len(Program(m.op)) = 3 /\ m.at \in {1, 2, 3}
  <2>1. m.op = "settings"
    BY <1>1, NextFits DEF Docs, Parts
  <2>2. Len(Program(m.op)) = 3
    BY <2>1, ShortPrograms
  <2>3. m.at \in 1..3
    BY <1>2, <2>2
  <2>4. QED
    BY <2>1, <2>2, <2>3
<1>4. p = IF m.at = 1 THEN "main" ELSE IF m.at = 2 THEN "margin" ELSE "marker"
  BY <1>2, <1>3 DEF StepFits, NextStep
<1> HIDE DEF p
<1>5. /\ k.op = m.op /\ k.list = m.list /\ k.at = m.at /\ k.number = m.number
      /\ k.holds = m.holds \cup {p} /\ k.stale = m.stale /\ Shaped(k)
  <2>1. /\ k.op = m.op /\ k.list = m.list /\ k.at = m.at /\ k.number = m.number
        /\ k.holds = m.holds \cup {p} /\ k.stale = m.stale
    BY <1>2 DEF Shaped
  <2>2. Shaped(k)
    BY <1>2, Keeps
  <2>3. QED
    BY <2>1, <2>2
<1> HIDE DEF k
<1>6. RequestFits(n, dc, qs)
  <2>1. CASE n = Free
    BY <2>1, FreeFits
  <2>2. CASE n # Free
    <3>1. /\ Shaped(n) /\ n.op = "settings" /\ n.list = m.list /\ n.at = m.at + 1
          /\ n.number = m.number /\ n.holds = m.holds \cup {p} /\ n.stale = m.stale
          /\ m.at \in {1, 2}
      <4>1. /\ Shaped(n) /\ n.op = m.op /\ n.list = m.list /\ n.at = m.at + 1
            /\ n.number = m.number /\ n.holds = m.holds \cup {p} /\ n.stale = m.stale
            /\ m.at < Len(Program(m.op))
        BY <1>2, <1>5, <2>2, OnwardIs
      <4>2. \A i \in {1, 2, 3} : i < 3 => i \in {1, 2}
        OBVIOUS
      <4>3. QED
        BY <1>3, <4>1, <4>2
    <3> HIDE DEF n
    <3>2. Typed(n)
      <4>1. p \in Parts
        BY <1>4 DEF Parts
      <4>2. n.at \in 0..Len(Program(n.op)) /\ n.at # 0
        <5>1. \A i \in {1, 2} : i + 1 \in 0..3 /\ i + 1 # 0
          OBVIOUS
        <5>2. QED
          BY <1>3, <3>1, <5>1
      <4>3. QED
        BY <1>1, <1>2, <1>3, <3>1, <4>1, <4>2 DEF Typed
    <3>3. Brought(n) /\ ReadFits(n, dc)
      BY <3>1 DEF Brought, ReadFits
    <3>4. EntriesFit(n, dc) /\ OrderFits(n, dc)
      BY <3>1 DEF EntriesFit, OrderFits, Prepared, Sorted
    <3>5. SettingsFit(n, qs)
      <4>1. n.holds = IF n.at = 2 THEN {"main"} ELSE {"main", "margin"}
        BY <1>1, <1>3, <1>4, <3>1 DEF SettingsFit
      <4>2. ASSUME n.stale = {} PROVE \A h \in n.holds : qs[h] = n.number
        <5>1. \A h \in m.holds : ps[h] = m.number
          BY <1>1, <1>3, <3>1, <4>2 DEF SettingsFit
        <5>2. m.holds \subseteq Parts /\ p \in Parts
          BY <1>1, <1>3, <1>4 DEF SettingsFit, Parts
        <5>3. QED
          BY <3>1, <5>1, <5>2
      <4>3. QED
        BY <1>3, <3>1, <4>1, <4>2 DEF SettingsFit
    <3>6. QED
      BY <3>2, <3>3, <3>4, <3>5 DEF RequestFits
  <2>3. QED
    BY <2>1, <2>2
<1>7. QED
  BY <1>2, <1>3, <1>4, <1>6 DEF p, k

-----------------------------------------------------------------------------
(* The requests one by one.                                                *)

\* The invariant holds at first.
LEMMA PrintInvAtFirst == Init => PrintInv
<1> SUFFICES ASSUME Init PROVE PrintInv
  OBVIOUS
<1>1. PICK o \in OldOverrides :
          /\ doc = [d \in Docs |-> IF d = "overrides" THEN o ELSE [l \in Lists |-> <<>>]]
          /\ meant = [d \in Kept |-> IF d = "overrides" THEN o ELSE [l \in Lists |-> {}]]
  BY DEF Init
<1>2. open \subseteq Rows /\ req = [r \in Slots |-> req[r]] /\ \A r \in Slots : req[r] = Free
  BY DEF Init
<1>3. count \in 0..MaxRequests /\ changes \in 0..MaxChanges /\ torn = FALSE
      /\ parts = [p \in Parts |-> 0]
  BY DEF Init
<1>4. o = [l \in Lists |-> o[l]] /\ \A l \in Lists : o[l] \subseteq Foods
  BY <1>1 DEF OldOverrides
<1>5. Documents(doc)
  <2>1. doc = [d \in Docs |-> doc[d]]
    BY <1>1
  <2>2. Document("orders", doc["orders"])
    <3>1. doc["orders"] = [l \in Lists |-> <<>>]
      BY <1>1 DEF Docs
    <3>2. QED
      BY <3>1, NonePlaced DEF Document, Contents
  <2>3. Document("aliases", doc["aliases"])
    <3>1. doc["aliases"] = [l \in Lists |-> <<>>]
      BY <1>1 DEF Docs
    <3>2. QED
      BY <3>1, LeftOfSent DEF Document, Contents
  <2>4. Document("local", doc["local"])
    <3>1. doc["local"] = [l \in Lists |-> <<>>]
      BY <1>1 DEF Docs
    <3>2. Contents("local", <<>>)
      BY EmptyFits DEF Contents
    <3>3. QED
      BY <3>1, <3>2 DEF Document
  <2>5. Document("overrides", doc["overrides"])
    <3>1. doc["overrides"] = o
      BY <1>1 DEF Docs
    <3>2. QED
      BY <1>4, <3>1 DEF Document, Contents, Keys
  <2>6. QED
    BY <2>1, <2>2, <2>3, <2>4, <2>5 DEF Documents, Docs
<1>6. \A r \in Slots : RequestFits(req[r], doc, parts) /\ req[r].number <= count
  <2>1. Free.number = 0
    BY DEF Free
  <2>2. 0 <= count
    BY <1>3, PrintAssumption
  <2>3. QED
    BY <1>2, <2>1, <2>2, FreeFits
<1>7. meant = [d \in Kept |-> [l \in Lists |-> Holding(d, doc[d][l])]]
  <2>1. /\ doc["local"] = [l \in Lists |-> <<>>] /\ doc["overrides"] = o
        /\ meant["local"] = [l \in Lists |-> {}] /\ meant["overrides"] = o
    BY <1>1 DEF Docs, Kept
  <2>2. meant["local"] = [l \in Lists |-> Holding("local", doc["local"][l])]
    BY <2>1 DEF Holding
  <2>3. meant["overrides"] = [l \in Lists |-> Holding("overrides", doc["overrides"][l])]
    BY <1>4, <2>1 DEF Holding
  <2>4. meant = [d \in Kept |-> meant[d]]
    BY <1>1
  <2>5. QED
    BY <2>2, <2>3, <2>4 DEF Kept
<1>8. parts \in [Parts -> 0..MaxRequests] /\ \A p, q \in Parts : parts[p] = parts[q]
  BY <1>3, PrintAssumption
<1>9. QED
  BY <1>2, <1>3, <1>5, <1>6, <1>7, <1>8 DEF PrintInv

\* A request that stores nothing goes on.
LEMMA GoesOn ==
    ASSUME PrintInv, NEW r \in Slots, NEW n,
           req' = [req EXCEPT ![r] = n], req[r].op # "settings" \/ req[r].holds = {},
           RequestFits(n, doc, parts), n.number <= count,
           UNCHANGED <<open, doc, parts, count, changes, meant, torn>>
    PROVE  PrintInv'
<1>1. req' = [q \in Slots |-> req'[q]] /\ req'[r] = n /\ \A q \in Slots \ {r} : req'[q] = req[q]
  BY DEF PrintInv
<1>2. \A q \in Slots : RequestFits(req'[q], doc', parts') /\ req'[q].number <= count'
  <2>1. \A q \in Slots \ {r} : RequestFits(req'[q], doc', parts') /\ req'[q].number <= count'
    BY <1>1 DEF PrintInv
  <2>2. RequestFits(req'[r], doc', parts') /\ req'[r].number <= count'
    BY <1>1
  <2>3. QED
    BY <2>1, <2>2
<1>3. ~torn' /\ (\A q \in Slots : req'[q].op = "settings" => req'[q].holds = {})
           => \A p, q \in Parts : parts'[p] = parts'[q]
  BY <1>1 DEF PrintInv
<1>4. QED
  BY <1>1, <1>2, <1>3 DEF PrintInv

\* A request keeps its number until it is over.
LEMMA OnwardNumber ==
    ASSUME NEW m, Shaped(m)
    PROVE  Onward(m).number \in {0, m.number}
<1>1. CASE m.at = Len(Program(m.op))
  BY <1>1 DEF Onward, Free
<1>2. CASE m.at # Len(Program(m.op))
  BY <1>2 DEF Onward, Shaped
<1>3. QED
  BY <1>1, <1>2

\* A request that stores nothing is over.
LEMMA Ending ==
    ASSUME PrintInv, NEW r \in Slots, req[r].op # "settings", Ends(r),
           UNCHANGED <<open, doc, parts, count, changes, meant, torn>>
    PROVE  PrintInv'
<1>1. Free.number = 0
  BY DEF Free
<1>2. Free.number <= count
  BY <1>1, PrintAssumption DEF PrintInv
<1>3. QED
  BY <1>2, FreeFits, GoesOn DEF Ends

\* A request that stores nothing takes its next step.
LEMMA GoingOn ==
    ASSUME PrintInv, NEW r \in Slots, req[r].op # "settings", NEW m, Goes(r, m),
           Shaped(m), m.number = req[r].number, RequestFits(Onward(m), doc, parts),
           UNCHANGED <<open, doc, parts, count, changes, meant, torn>>
    PROVE  PrintInv'
<1>1. Onward(m).number \in {0, req[r].number}
  BY OnwardNumber
<1>2. 0 <= count /\ req[r].number <= count
  BY PrintAssumption DEF PrintInv
<1>3. Onward(m).number <= count
  BY <1>1, <1>2
<1>4. QED
  BY <1>3, GoesOn DEF Goes

\* A busy request and what its next step tells.
LEMMA BusyIs ==
    ASSUME PrintInv, NEW r \in Slots, NEW what, Does(r, what)
    PROVE  /\ RequestFits(req[r], doc, parts) /\ req[r].at # 0 /\ NextStep(req[r]).do = what
           /\ Typed(req[r]) /\ Shaped(req[r]) /\ req[r].op \in Ops /\ req[r].list \in Lists
           /\ req[r].number \in Numbers
           /\ what # "put" => req[r].op # "settings"
           /\ what = "look" => req[r].op \in {"add", "remove"} /\ req[r].at = 1
           /\ what = "file" => Prepared(req[r])
           /\ EntriesFit(req[r], doc) /\ Brought(req[r])
<1>1. RequestFits(req[r], doc, parts) /\ req[r].at # 0 /\ NextStep(req[r]).do = what
  BY DEF PrintInv, Does, Busy
<1>2. Typed(req[r]) /\ EntriesFit(req[r], doc) /\ Brought(req[r])
  BY <1>1 DEF RequestFits
<1>3. StepFits(req[r].op, req[r].at, Len(Program(req[r].op)), Program(req[r].op))
  BY <1>1, <1>2, NextFits
<1>4. Program(req[r].op)[req[r].at].do = what
  BY <1>1 DEF NextStep
<1>5. /\ what # "put" => req[r].op # "settings"
      /\ what = "look" => req[r].op \in {"add", "remove"} /\ req[r].at = 1
      /\ what = "file" => <<req[r].op, req[r].at>> \in {<<"content", 1>>, <<"add", 2>>}
  BY <1>3, <1>4 DEF StepFits
<1>6. QED
  BY <1>1, <1>2, <1>5 DEF Typed, Prepared

\* The answer is given.
LEMMA AnswersInv == ASSUME PrintInv, NEW r \in Slots, Answers(r) PROVE PrintInv'
BY BusyIs, Ending DEF Answers, Still

\* A document is read.
LEMMA ReadsInv == ASSUME PrintInv, NEW r \in Slots, Reads(r) PROVE PrintInv'
<1> DEFINE m == req[r]
           d == Stage(r)
           k == [m EXCEPT !.read = doc[d], !.holds = @ \cup {d}]
<1>1. Does(r, "get") /\ Goes(r, k) /\ Still
  BY DEF Reads
<1>2. Documents(doc)
  BY DEF PrintInv
<1>3. RequestFits(Onward(k), doc, parts)
  BY <1>1, <1>2, BusyIs, GetFits DEF Stage
<1>4. Shaped(m) /\ m.op # "settings"
  BY <1>1, BusyIs
<1>5. Shaped(k)
  BY <1>4, Keeps
<1>6. k.number = m.number
  BY <1>4 DEF Shaped
<1> HIDE DEF k
<1>7. QED
  BY <1>1, <1>3, <1>4, <1>5, <1>6, GoingOn DEF Still

\* The sections of a list have keys.
LEMMA SectionKeys ==
    ASSUME PrintInv, NEW l \in Lists
    PROVE  LET es == doc["local"][l]
           IN /\ KeysOf(Named(l, es)) \subseteq KeySet
              /\ KeysOf(Sections(l, doc["aliases"][l], es)) \subseteq KeySet
<1>1. doc["local"][l] \in Entries /\ LeftOf(doc["aliases"][l]) /\ open \subseteq Rows
  BY DEF PrintInv, Documents, Document, Contents, Docs
<1>2. QED
  BY <1>1, ResolvedNames DEF KeysOf, KeySet

\* The sections are shown.
LEMMA ShowInv == ASSUME PrintInv, NEW r \in Slots, Show(r) PROVE PrintInv'
<1> DEFINE m == req[r]
           es == doc["local"][m.list]
           named == KeysOf(Named(m.list, es))
           sections == KeysOf(Sections(m.list, doc["aliases"][m.list], es))
           o == Ordered(sections, Ordered(named, doc["orders"][m.list]))
           k == [m EXCEPT !.holds = @ \cup {"orders"}, !.sections = sections, !.named = named,
                          !.order = o]
<1>1. Does(r, "show") /\ (Ends(r) \/ Goes(r, k)) /\ Still
  BY DEF Show
<1>2. Documents(doc)
  BY DEF PrintInv
<1>3. /\ Shaped(m) /\ m.op # "settings" /\ m.list \in Lists
      /\ RequestFits(m, doc, parts) /\ m.at # 0 /\ NextStep(m).do = "show"
  BY <1>1, BusyIs
<1>4. CASE Ends(r)
  BY <1>1, <1>3, <1>4, Ending DEF Still
<1>5. CASE Goes(r, k)
  <2>1. named \subseteq KeySet /\ sections \subseteq KeySet
    BY <1>3, SectionKeys
  <2> HIDE DEF named, sections
  <2>2. RequestFits(Onward(k), doc, parts)
    BY <1>2, <1>3, <2>1, ShowFits
  <2> HIDE DEF o
  <2>3. Shaped(k)
    BY <1>3, Keeps
  <2>4. k.number = m.number
    BY <1>3 DEF Shaped
  <2> HIDE DEF k
  <2>5. QED
    BY <1>1, <1>3, <1>5, <2>2, <2>3, <2>4, GoingOn DEF Still
<1>6. QED
  BY <1>1, <1>4, <1>5

\* Entries are filed.
LEMMA FileInv == ASSUME PrintInv, NEW r \in Slots, File(r) PROVE PrintInv'
<1> DEFINE m == req[r]
           now(n) == Filed(m.list, doc["aliases"][m.list], doc["local"][m.list], n)
           es == [i \in DOMAIN m.entries |-> now(m.entries[i])]
           k == [m EXCEPT !.entries = es]
<1>1. /\ Does(r, "file") /\ Still
      /\ \/ Ends(r)
         \/ Cardinality(DOMAIN m.entries) <= MaxEntries /\ Goes(r, k)
  BY DEF File
<1>2. /\ Shaped(m) /\ m.op # "settings" /\ m.list \in Lists /\ Prepared(m)
      /\ RequestFits(m, doc, parts) /\ m.at # 0 /\ NextStep(m).do = "file"
      /\ EntriesFit(m, doc)
  BY <1>1, BusyIs
<1>3. CASE Ends(r)
  BY <1>1, <1>2, <1>3, Ending DEF Still
<1>4. CASE Cardinality(DOMAIN m.entries) <= MaxEntries /\ Goes(r, k)
  <2>1. doc["local"][m.list] \in Entries /\ LeftOf(doc["aliases"][m.list]) /\ open \subseteq Rows
    BY <1>2 DEF PrintInv, Documents, Document, Contents, Docs
  <2>2. m.entries \in Entries
    BY <1>2 DEF EntriesFit
  <2>3. DOMAIN m.entries \subseteq Numbers /\ \A i \in DOMAIN m.entries : m.entries[i] \in Names
    BY <2>2 DEF Entries
  <2>4. \A n \in Names : now(n) \in Names
    BY <1>2, <2>1, FiledIs
  <2> HIDE DEF now
  <2>5. es \in [DOMAIN m.entries -> Names] /\ DOMAIN es = DOMAIN m.entries
    BY <2>3, <2>4
  <2>6. es \in Entries
    BY <2>3, <2>5 DEF Entries
  <2> HIDE DEF es
  <2>7. RequestFits(Onward(k), doc, parts)
    BY <1>2, <1>4, <2>5, <2>6, FileFits
  <2>8. Shaped(k)
    BY <1>2, Keeps
  <2>9. k.number = m.number
    BY <1>2 DEF Shaped
  <2>10. Goes(r, k)
    BY <1>4
  <2> HIDE DEF k
  <2>11. QED
    BY <1>1, <1>2, <2>7, <2>8, <2>9, <2>10, GoingOn DEF Still
<1>5. QED
  BY <1>1, <1>3, <1>4

\* The entries are looked at.
LEMMA LookInv == ASSUME PrintInv, NEW r \in Slots, Look(r) PROVE PrintInv'
<1> DEFINE m == req[r]
           now == doc["local"][m.list]
           ids == DOMAIN now
           with(es) == [m EXCEPT !.entries = es, !.holds = @ \cup {"local"}]
           added == [i \in ids \cup {m.number} |-> IF i = m.number THEN m.arg ELSE now[i]]
           rest == Restrict(now, ids \ {m.arg})
<1>1. /\ Does(r, "look") /\ Still
      /\ IF m.op = "add" THEN Goes(r, with(added))
         ELSE IF m.arg \notin ids THEN Ends(r) ELSE Goes(r, with(rest))
  BY DEF Look
<1>2. /\ Shaped(m) /\ m.op \in {"add", "remove"} /\ m.list \in Lists /\ m.at = 1
      /\ RequestFits(m, doc, parts) /\ m.at # 0 /\ NextStep(m).do = "look"
      /\ m.number \in Numbers /\ Brought(m) /\ m.op # "settings"
  BY <1>1, BusyIs
<1>3. now \in Entries /\ Cardinality(ids) <= MaxEntries
  BY <1>2 DEF PrintInv, Documents, Document, Contents, Docs
<1>4. ids \subseteq Numbers /\ now \in [ids -> Names]
  BY <1>3 DEF Entries
<1> HIDE DEF ids, now
<1>5. ASSUME NEW es \in Entries, DOMAIN es = Meant(m, ids), Goes(r, with(es)),
             m.op = "remove" => Cardinality(DOMAIN es) <= MaxEntries
      PROVE  PrintInv'
  <2> DEFINE k == with(es)
  <2>1. RequestFits(Onward(k), doc, parts)
    BY <1>2, <1>5, LookFits DEF ids, now
  <2>2. Shaped(k)
    BY <1>2, Keeps
  <2>3. k.number = m.number
    BY <1>2 DEF Shaped
  <2>4. Goes(r, k)
    BY <1>5
  <2> HIDE DEF k
  <2>5. QED
    BY <1>1, <1>2, <2>1, <2>2, <2>3, <2>4, GoingOn DEF Still
<1>6. CASE m.op = "add"
  <2>1. m.arg \in Names
    BY <1>2, <1>6 DEF Brought
  <2>2. added \in [ids \cup {m.number} -> Names] /\ DOMAIN added = ids \cup {m.number}
    BY <1>4, <2>1
  <2>3. added \in Entries
    BY <1>2, <1>4, <2>2 DEF Entries
  <2>4. DOMAIN added = Meant(m, ids)
    BY <1>6, <2>2, MeantIs
  <2>5. Goes(r, with(added))
    BY <1>1, <1>6
  <2> HIDE DEF added, with
  <2>6. QED
    BY <1>5, <1>6, <2>3, <2>4, <2>5
<1>7. CASE m.op # "add" /\ m.arg \notin ids
  <2>1. Ends(r)
    BY <1>1, <1>7
  <2>2. QED
    BY <1>1, <1>2, <2>1, Ending DEF Still
<1>8. CASE m.op = "remove" /\ m.arg \in ids
  <2>1. rest \in [ids \ {m.arg} -> Names] /\ DOMAIN rest = ids \ {m.arg}
    BY <1>4 DEF Restrict
  <2>2. rest \in Entries
    BY <1>4, <2>1 DEF Entries
  <2>3. DOMAIN rest = Meant(m, ids)
    BY <1>8, <2>1, MeantIs
  <2>4. Cardinality(DOMAIN rest) <= MaxEntries
    <3>1. IsFiniteSet(Numbers)
      BY PrintAssumption, FS_Interval DEF Numbers
    <3>2. IsFiniteSet(ids)
      BY <1>4, <3>1, FS_Subset
    <3>3. DOMAIN rest \in SUBSET ids
      BY <2>1
    <3> HIDE DEF rest
    <3>4. IsFiniteSet(DOMAIN rest) /\ Cardinality(DOMAIN rest) <= Cardinality(ids)
      BY <3>2, <3>3, FS_Subset
    <3>5. Cardinality(DOMAIN rest) \in Nat /\ Cardinality(ids) \in Nat
      BY <3>2, <3>4, FS_CardinalityType
    <3>6. QED
      BY <1>3, <3>4, <3>5, PrintAssumption
  <2>5. Goes(r, with(rest))
    BY <1>1, <1>8
  <2> HIDE DEF rest, with
  <2>6. QED
    BY <1>5, <2>2, <2>3, <2>4, <2>5
<1>9. QED
  BY <1>2, <1>6, <1>7, <1>8

\* What a request stores, and that it is what it means.
LEMMA NewIs ==
    ASSUME NEW m, NEW dc, NEW ps, RequestFits(m, dc, ps),
           m.at # 0, NextStep(m).do = "put", NEW d \in Docs, d = NextStep(m).doc
    PROVE  /\ m.op # "settings" /\ d \in m.holds /\ Document(d, m.read)
           /\ d \notin m.stale => m.read = dc[d]
           /\ Contents(d, New(m, d))
           /\ d \in Kept /\ d \notin m.stale =>
                  Holding(d, New(m, d)) = Meant(m, Holding(d, dc[d][m.list]))
           /\ d = "orders" /\ m.op \notin {"order", "reset"} => Sorted(m)
<1>1. Typed(m) /\ Brought(m) /\ ReadFits(m, dc) /\ EntriesFit(m, dc) /\ OrderFits(m, dc)
  BY DEF RequestFits
<1>2. /\ m.op \in Ops /\ m.list \in Lists /\ m.at \in 1..Len(Program(m.op))
      /\ Len(Program(m.op)) \in Nat
      /\ StepFits(m.op, m.at, Len(Program(m.op)), Program(m.op))
  BY <1>1, NextFits, LengthFits DEF Typed
<1>3. m.op # "settings"
  <2>1. d \notin {"main", "margin", "marker"}
    BY DEF Docs
  <2>2. QED
    BY <1>2, <2>1 DEF StepFits, NextStep
<1>4. <<m.op, m.at - 1>> \in ReadAt(d)
  BY <1>2, <1>3 DEF StepFits, NextStep
<1>5. d \in m.holds /\ Document(d, m.read) /\ (d \notin m.stale => m.read = dc[d])
  BY <1>1, <1>3 DEF ReadFits
<1>6. Contents(d, m.read[m.list])
  BY <1>2, <1>5 DEF Document
<1>7. CASE d = "orders"
  <2>1. <<m.op, m.at - 1>> \in OrderAt
    BY <1>4, <1>7 DEF ReadAt
  <2>2. m.op = "order" \/ m.op = "reset" \/ Sorted(m)
    BY <1>2, <2>1 DEF OrderAt, Sorted
  <2>3. Placing(NewOrder(m))
    <3>1. CASE m.op = "order"
      <4>1. m.arg[1] \in Orders
        BY <1>1, <1>2, <3>1 DEF Brought
      <4>2. QED
        BY <3>1, <4>1, PlacesPlace DEF NewOrder
    <3>2. CASE m.op = "reset"
      BY <3>2, NonePlaced DEF NewOrder
    <3>3. CASE Sorted(m)
      <4>1. m.op \notin {"order", "reset"} /\ Placing(m.order)
        BY <1>1, <3>3 DEF Sorted, OrderFits
      <4>2. QED
        BY <4>1 DEF NewOrder
    <3>4. QED
      BY <2>2, <3>1, <3>2, <3>3
  <2>4. Contents(d, New(m, d))
    BY <1>7, <2>3 DEF Contents, New
  <2>5. d \notin Kept
    BY <1>7 DEF Kept
  <2>6. QED
    BY <1>3, <1>5, <2>2, <2>4, <2>5
<1>8. CASE d = "aliases"
  <2>1. LeftOf(m.read[m.list])
    BY <1>6, <1>8 DEF Contents
  <2>2. LeftOf(NewAliases(m))
    <3>1. CASE m.op = "order"
      <4>1. m.arg[2] \in Aliases
        BY <1>1, <1>2, <3>1 DEF Brought
      <4>2. QED
        BY <3>1, <4>1, LeftOfSent DEF NewAliases
    <3>2. CASE m.op = "reset"
      BY <3>2, LeftOfSent DEF NewAliases
    <3>3. CASE m.op \notin {"order", "reset"}
      <4> DEFINE old == m.read[m.list]
                 places == {i \in DOMAIN old : KeyOf[old[i].of] \in m.sections}
      <4>1. places \in SUBSET DOMAIN old
        OBVIOUS
      <4>2. NewAliases(m) = Restrict(old, places)
        BY <3>3 DEF NewAliases
      <4> HIDE DEF places, old
      <4>3. LeftOf(Restrict(old, places))
        BY <2>1, <4>1, LeftOfLess DEF old
      <4>4. QED
        BY <4>2, <4>3
    <3>4. QED
      BY <3>1, <3>2, <3>3
  <2>3. Contents(d, New(m, d))
    BY <1>8, <2>2 DEF Contents, New
  <2>4. d \notin Kept /\ d # "orders"
    BY <1>8 DEF Kept
  <2>5. QED
    BY <1>3, <1>5, <2>3, <2>4
<1>9. CASE d = "local"
  <2>1. <<m.op, m.at - 1>> \in LocalAt
    BY <1>4, <1>9 DEF ReadAt
  <2>2. Prepared(m) /\ <<m.op, m.at>> \notin {<<"content", 1>>, <<"add", 2>>}
    BY <1>2, <2>1 DEF LocalAt, Prepared
  <2>3. /\ m.entries \in Entries /\ Cardinality(DOMAIN m.entries) <= MaxEntries
        /\ "local" \notin m.stale => DOMAIN m.entries = Meant(m, DOMAIN dc["local"][m.list])
    BY <1>1, <2>2 DEF EntriesFit
  <2>4. New(m, d) = m.entries
    BY <1>9 DEF New
  <2>5. Contents(d, New(m, d))
    BY <1>9, <2>3, <2>4 DEF Contents
  <2>6. d \notin m.stale => Holding(d, New(m, d)) = Meant(m, Holding(d, dc[d][m.list]))
    BY <1>9, <2>3, <2>4 DEF Holding
  <2>7. QED
    BY <1>3, <1>5, <1>9, <2>5, <2>6
<1>10. CASE d = "overrides"
  <2>1. <<m.op, m.at - 1>> \in OverridesAt
    BY <1>4, <1>10 DEF ReadAt
  <2>2. m.op \in {"override", "reset"} /\ (m.op = "override" => m.at = 2)
    BY <1>2, <2>1 DEF OverridesAt
  <2>3. m.read[m.list] \subseteq Keys
    BY <1>6, <1>10 DEF Contents
  <2>4. m.op = "override" => m.arg[1] \in Keys
    BY <1>1, <1>2, <2>2 DEF Brought
  <2>5. New(m, d) = NewOverrides(m)
    BY <1>10 DEF New
  <2>6. NewOverrides(m) \subseteq Keys
    BY <2>2, <2>3, <2>4 DEF NewOverrides
  <2>7. Contents(d, New(m, d))
    BY <1>10, <2>5, <2>6 DEF Contents
  <2>8. NewOverrides(m) = Meant(m, m.read[m.list])
    BY <2>2, MeantIs DEF NewOverrides
  <2>9. d \notin m.stale => Holding(d, New(m, d)) = Meant(m, Holding(d, dc[d][m.list]))
    <3>1. \A c : Holding(d, c) = c
      BY <1>10 DEF Holding
    <3>2. QED
      BY <1>5, <2>5, <2>8, <3>1
  <2>10. QED
    BY <1>3, <1>5, <1>10, <2>7, <2>9
<1>11. QED
  BY <1>7, <1>8, <1>9, <1>10 DEF Docs

\* A request comes.
LEMMA ArrivesInv ==
    ASSUME PrintInv, NEW r \in Slots, NEW op \in Ops, NEW l \in Lists, Arrives(r, op, l)
    PROVE  PrintInv'
<1>1. /\ req[r].at = 0 /\ count < MaxRequests /\ count' = count + 1
      /\ UNCHANGED <<open, doc, parts, changes, meant, torn>>
  BY DEF Arrives, Busy
<1>2. PICK arg \in Args(op, l, count + 1) :
          req' = [req EXCEPT ![r] =
                  [Free EXCEPT !.op = op, !.list = l, !.at = 1,
                               !.number = count + 1, !.arg = arg,
                               !.entries = IF op = "content" THEN arg ELSE <<>>]]
  BY DEF Arrives
<1> DEFINE n == [Free EXCEPT !.op = op, !.list = l, !.at = 1,
                             !.number = count + 1, !.arg = arg,
                             !.entries = IF op = "content" THEN arg ELSE <<>>]
<1>3. count \in Nat /\ MaxRequests \in Nat /\ count + 1 \in Numbers /\ count + 1 \in 0..MaxRequests
  BY <1>1, PrintAssumption DEF PrintInv, Numbers
<1>4. Documents(doc)
  BY DEF PrintInv
<1>5. /\ op = "order" => arg \in Orders \X Aliases
      /\ op = "add" => arg \in Names
      /\ op = "override" => arg \in Keys \X BOOLEAN
      /\ op = "content" => arg \in {doc["local"][l]} \cup [{count + 1} -> Names]
  BY <1>2 DEF Args
<1>6. op = "content" => arg \in Entries
  <2>1. doc["local"][l] \in Entries
    BY <1>4 DEF Documents, Document, Contents, Docs
  <2>2. {count + 1} \in SUBSET Numbers
    BY <1>3
  <2>3. [{count + 1} -> Names] \subseteq Entries
    BY <2>2 DEF Entries
  <2>4. QED
    BY <1>5, <2>1, <2>3
<1>7. RequestFits(n, doc, parts)
  BY <1>3, <1>4, <1>5, <1>6, NewFits
<1>8. n.number = count + 1 /\ n.holds = {}
  <2> DEFINE es == IF op = "content" THEN arg ELSE <<>>
  <2> HIDE DEF es
  <2>1. \A e : LET k == [Free EXCEPT !.op = op, !.list = l, !.at = 1, !.number = count + 1,
                             !.arg = arg, !.entries = e]
               IN k.number = count + 1 /\ k.holds = {}
    BY DEF Free
  <2>2. QED
    BY <2>1
<1> HIDE DEF n
<1>9. req' = [q \in Slots |-> req'[q]] /\ req'[r] = n /\ \A q \in Slots \ {r} : req'[q] = req[q]
  BY <1>2 DEF PrintInv, n
<1>10. \A q \in Slots : RequestFits(req'[q], doc', parts') /\ req'[q].number <= count'
  <2>1. \A q \in Slots \ {r} : RequestFits(req'[q], doc', parts') /\ req'[q].number <= count'
    <3>1. ASSUME NEW q \in Slots \ {r} PROVE req[q].number <= count + 1
      <4>1. req[q].number <= count /\ Typed(req[q])
        BY DEF PrintInv, RequestFits
      <4>2. req[q].number \in Nat
        <5>1. CASE req[q].at = 0
          BY <4>1, <5>1 DEF Typed, Free
        <5>2. CASE req[q].at # 0
          BY <4>1, <5>2, <1>3 DEF Typed, Numbers
        <5>3. QED
          BY <5>1, <5>2
      <4>3. QED
        BY <1>3, <4>1, <4>2
    <3>2. QED
      BY <1>1, <1>9, <3>1 DEF PrintInv
  <2>2. RequestFits(req'[r], doc', parts') /\ req'[r].number <= count'
    BY <1>1, <1>3, <1>7, <1>8, <1>9
  <2>3. QED
    BY <2>1, <2>2
<1>11. ~torn' /\ (\A q \in Slots : req'[q].op = "settings" => req'[q].holds = {})
           => \A p, q \in Parts : parts'[p] = parts'[q]
  <2>1. req[r].holds = {}
    <3>1. Typed(req[r])
      BY DEF PrintInv, RequestFits
    <3>2. QED
      BY <1>1, <3>1 DEF Typed, Free
  <2>2. QED
    BY <1>1, <1>9, <2>1 DEF PrintInv
<1>12. count' \in 0..MaxRequests
  BY <1>1, <1>3
<1>13. QED
  BY <1>1, <1>9, <1>10, <1>11, <1>12 DEF PrintInv

\* A row is checked off.
LEMMA MealieChangesInv == ASSUME PrintInv, MealieChanges PROVE PrintInv'
<1>1. /\ UNCHANGED <<doc, parts, req, count, meant, torn>> /\ changes < MaxChanges
      /\ changes' = changes + 1
  BY DEF MealieChanges
<1>2. open' \subseteq Rows
  BY DEF MealieChanges, PrintInv
<1>3. changes' \in 0..MaxChanges
  BY <1>1, PrintAssumption DEF PrintInv
<1>4. QED
  BY <1>1, <1>2, <1>3 DEF PrintInv

\* What is stored is what the requests meant, also after this one.
LEMMA StoresMeant ==
    ASSUME PrintInv, NEW r \in Slots, Stores(r)
    PROVE  /\ Documents(doc')
           /\ meant' = [e \in Kept |-> [l \in Lists |-> Holding(e, doc'[e][l])]]
<1> DEFINE m == req[r]
           d == Stage(r)
           kept == New(m, d)
           new == [m.read EXCEPT ![m.list] = kept]
<1>1. Does(r, "put") /\ d \in Docs /\ doc' = [doc EXCEPT ![d] = new]
  BY DEF Stores, WithPart
<1>2. meant' = IF d \notin Kept THEN meant
               ELSE IF d \in m.stale
               THEN [meant EXCEPT ![d] = [l \in Lists |-> Holding(d, new[l])]]
               ELSE [meant EXCEPT ![d][m.list] = Meant(m, @)]
  BY DEF Stores, WithPart
<1>3. /\ RequestFits(m, doc, parts) /\ m.at # 0 /\ NextStep(m).do = "put" /\ m.list \in Lists
      /\ d = NextStep(m).doc
  BY <1>1, BusyIs DEF Stage
<1>4. /\ Document(d, m.read) /\ (d \notin m.stale => m.read = doc[d])
      /\ Contents(d, kept)
      /\ d \in Kept /\ d \notin m.stale =>
             Holding(d, kept) = Meant(m, Holding(d, doc[d][m.list]))
  BY <1>1, <1>3, NewIs
<1> HIDE DEF d, kept
<1>5. /\ new = [l \in Lists |-> new[l]] /\ new[m.list] = kept
      /\ \A l \in Lists \ {m.list} : new[l] = m.read[l]
  BY <1>3, <1>4 DEF Document
<1>6. Document(d, new)
  BY <1>4, <1>5 DEF Document
<1> HIDE DEF new
<1>7. Documents(doc) /\ meant = [e \in Kept |-> [l \in Lists |-> Holding(e, doc[e][l])]]
  BY DEF PrintInv
<1>8. /\ doc' = [e \in Docs |-> doc'[e]] /\ doc'[d] = new
      /\ \A e \in Docs \ {d} : doc'[e] = doc[e]
  BY <1>1, <1>7 DEF Documents
<1>9. Documents(doc')
  BY <1>6, <1>7, <1>8 DEF Documents
<1>10. CASE d \notin Kept
  <2>1. \A e \in Kept : doc'[e] = doc[e]
    BY <1>8, <1>10 DEF Kept, Docs
  <2>2. QED
    BY <1>2, <1>7, <1>9, <1>10, <2>1
<1>11. CASE d \in Kept
  <2> DEFINE was == [l \in Lists |-> Holding(d, doc[d][l])]
             is == [l \in Lists |-> Holding(d, new[l])]
  <2>1. meant[d] = was
    BY <1>7, <1>11
  <2>2. (IF d \in m.stale THEN [l \in Lists |-> Holding(d, new[l])]
         ELSE [meant[d] EXCEPT ![m.list] = Meant(m, meant[d][m.list])]) = is
    <3>1. CASE d \in m.stale
      BY <3>1
    <3>2. CASE d \notin m.stale
      <4>1. was[m.list] = Holding(d, doc[d][m.list])
        BY <1>3
      <4>2. Meant(m, was[m.list]) = is[m.list]
        BY <1>3, <1>4, <1>5, <1>11, <3>2, <4>1
      <4>3. \A l \in Lists \ {m.list} : was[l] = is[l]
        BY <1>4, <1>5, <3>2
      <4>4. [was EXCEPT ![m.list] = Meant(m, was[m.list])] = is
        BY <4>2, <4>3
      <4> HIDE DEF was, is
      <4>5. QED
        BY <2>1, <3>2, <4>4
    <3>3. QED
      BY <3>1, <3>2
  <2>3. meant' = [meant EXCEPT ![d] = is]
    <3>1. CASE d \in m.stale
      BY <1>2, <1>11, <3>1
    <3>2. CASE d \notin m.stale
      <4>1. meant' = [meant EXCEPT ![d][m.list] = Meant(m, @)]
        BY <1>2, <1>11, <3>2
      <4>2. meant' = [meant EXCEPT ![d] = [meant[d] EXCEPT ![m.list] = Meant(m, meant[d][m.list])]]
        BY <4>1
      <4>3. [meant[d] EXCEPT ![m.list] = Meant(m, meant[d][m.list])] = is
        BY <2>2, <3>2
      <4> HIDE DEF is
      <4>4. QED
        BY <4>2, <4>3
    <3>3. QED
      BY <3>1, <3>2
  <2>4. is = [l \in Lists |-> Holding(d, doc'[d][l])]
    BY <1>8
  <2>5. \A e \in Kept \ {d} : meant[e] = [l \in Lists |-> Holding(e, doc'[e][l])]
    <3>1. \A e \in Kept \ {d} : doc'[e] = doc[e]
      BY <1>8 DEF Kept, Docs
    <3>2. QED
      BY <1>7, <3>1
  <2> HIDE DEF is, was
  <2>6. DOMAIN meant = Kept
    BY <1>7
  <2>7. meant' = [e \in Kept |-> IF e = d THEN is ELSE meant[e]]
    BY <1>7, <2>3
  <2>8. QED
    BY <1>9, <2>4, <2>5, <2>7
<1>12. QED
  BY <1>10, <1>11

\* A document is stored.
LEMMA StoresInv == ASSUME PrintInv, NEW r \in Slots, Stores(r) PROVE PrintInv'
<1> DEFINE m == req[r]
           d == Stage(r)
           k == AfterPut(m, d)
           new == [m.read EXCEPT ![m.list] = New(m, d)]
<1>1. /\ Does(r, "put") /\ d \in Docs /\ doc' = [doc EXCEPT ![d] = new] /\ Outdates(r, d)
      /\ UNCHANGED <<open, parts, count, changes, torn>>
  BY DEF Stores, WithPart
<1>2. /\ RequestFits(m, doc, parts) /\ m.at # 0 /\ NextStep(m).do = "put"
      /\ d = NextStep(m).doc /\ Shaped(m)
  BY <1>1, BusyIs DEF Stage
<1>3. m.op # "settings"
  BY <1>1, <1>2, NewIs
<1>4. k.number = m.number
  BY <1>2 DEF AfterPut, Shaped
<1> HIDE DEF d, new
<1>5. RequestFits(Onward(k), doc', parts)
  BY <1>1, <1>2, PutFits
<1>6. Shaped(k)
  <2>1. \A h, s, a, e, o, b, c, g :
            Shaped([m EXCEPT !.holds = h, !.stale = s, !.read = a, !.entries = e,
                             !.order = o, !.named = b, !.sections = c, !.arg = g])
    BY <1>2, Keeps
  <2> DEFINE e1 == IF d = "local" THEN <<>> ELSE m.entries
             o1 == IF d = "orders" THEN <<>> ELSE m.order
             b1 == IF d = "orders" THEN {} ELSE m.named
             c1 == IF d = "aliases" THEN {} ELSE m.sections
             g1 == IF d \in Kept THEN <<>> ELSE m.arg
  <2>2. AfterPut(m, d) = [m EXCEPT !.holds = m.holds \ {d}, !.stale = m.stale \ {d}, !.read = <<>>,
                             !.entries = e1, !.order = o1, !.named = b1, !.sections = c1, !.arg = g1]
    BY <1>2 DEF AfterPut, Shaped
  <2> HIDE DEF e1, o1, b1, c1, g1
  <2>3. Shaped([m EXCEPT !.holds = m.holds \ {d}, !.stale = m.stale \ {d}, !.read = <<>>,
                   !.entries = e1, !.order = o1, !.named = b1, !.sections = c1, !.arg = g1])
    BY <2>1
  <2>4. QED
    BY <2>2, <2>3
<1> HIDE DEF k
<1>7. Onward(k).number \in {0, m.number}
  BY <1>4, <1>6, OnwardNumber
<1>8. /\ req' = [q \in Slots |-> req'[q]] /\ req'[r] = Onward(k)
      /\ \A q \in Slots \ {r} :
             req'[q] = IF d \in req[q].holds THEN [req[q] EXCEPT !.stale = @ \cup {d}] ELSE req[q]
  BY <1>1 DEF Outdates, k
<1>9. Documents(doc)
  BY DEF PrintInv
<1>10. ASSUME NEW q \in Slots \ {r}
       PROVE  /\ RequestFits(req'[q], doc', parts) /\ req'[q].number = req[q].number
              /\ req'[q].op = req[q].op /\ req'[q].holds = req[q].holds
  <2>1. RequestFits(req[q], doc, parts) /\ Shaped(req[q])
    BY DEF PrintInv, RequestFits, Typed
  <2>2. RequestFits(IF d \in req[q].holds THEN [req[q] EXCEPT !.stale = @ \cup {d}] ELSE req[q],
                    [doc EXCEPT ![d] = new], parts)
    BY <1>1, <1>9, <2>1, OutdatedFits
  <2>3. RequestFits(req'[q], doc', parts)
    BY <1>1, <1>8, <2>2
  <2>4. CASE d \in req[q].holds
    <3>1. req'[q] = [req[q] EXCEPT !.stale = @ \cup {d}]
      BY <1>8, <2>4
    <3>2. QED
      BY <2>1, <2>3, <3>1 DEF Shaped
  <2>5. CASE d \notin req[q].holds
    <3>1. req'[q] = req[q]
      BY <1>8, <2>5
    <3>2. QED
      BY <2>3, <3>1
  <2>6. QED
    BY <2>4, <2>5
<1>11. \A q \in Slots : RequestFits(req'[q], doc', parts') /\ req'[q].number <= count'
  <2>1. 0 <= count /\ \A q \in Slots : req[q].number <= count
    BY PrintAssumption DEF PrintInv
  <2>2. \A q \in Slots \ {r} : RequestFits(req'[q], doc', parts') /\ req'[q].number <= count'
    BY <1>1, <1>10, <2>1
  <2>3. RequestFits(req'[r], doc', parts') /\ req'[r].number <= count'
    BY <1>1, <1>5, <1>7, <1>8, <2>1
  <2>4. QED
    BY <2>2, <2>3
<1>12. ~torn' /\ (\A q \in Slots : req'[q].op = "settings" => req'[q].holds = {})
           => \A p, q \in Parts : parts'[p] = parts'[q]
  BY <1>1, <1>3, <1>10 DEF PrintInv
<1>13. /\ Documents(doc') /\ meant' = [e \in Kept |-> [l \in Lists |-> Holding(e, doc'[e][l])]]
  BY StoresMeant
<1>14. QED
  BY <1>1, <1>8, <1>11, <1>12, <1>13 DEF PrintInv

\* One of the settings is stored, or refused.
LEMMA StoresPartInv == ASSUME PrintInv, NEW r \in Slots, StoresPart(r) PROVE PrintInv'
<1> DEFINE m == req[r]
           p == Stage(r)
           k == [m EXCEPT !.holds = @ \cup {p}]
<1>1. /\ Does(r, "put") /\ p \in Parts /\ UNCHANGED <<open, doc, count, changes, meant>>
      /\ \/ /\ Stored(m, p) /\ Crosses(r, p)
            /\ torn' = IF p = "marker" THEN m.stale # {} ELSE torn
         \/ Ends(r) /\ UNCHANGED parts /\ torn' = (torn \/ m.holds # {})
  BY DEF StoresPart
<1>2. /\ RequestFits(m, doc, parts) /\ m.at # 0 /\ NextStep(m).do = "put"
      /\ p = NextStep(m).doc /\ Shaped(m)
  BY <1>1, BusyIs DEF Stage
<1>3. /\ parts \in [Parts -> 0..MaxRequests] /\ torn \in BOOLEAN /\ 0 <= count
      /\ \A q \in Slots : RequestFits(req[q], doc, parts) /\ req[q].number <= count
  BY PrintAssumption DEF PrintInv
<1>4. /\ m.op = "settings" /\ m.number \in Numbers
      /\ p = IF m.at = 1 THEN "main" ELSE IF m.at = 2 THEN "margin" ELSE "marker"
      /\ m.at \in {1, 2, 3} /\ Len(Program(m.op)) = 3
      /\ RequestFits(Onward(k), doc, [parts EXCEPT ![p] = m.number])
  BY <1>1, <1>2, <1>3, SetFits
<1>5. /\ m.holds = IF m.at <= 1 THEN {} ELSE IF m.at = 2 THEN {"main"} ELSE {"main", "margin"}
      /\ m.stale = {} => \A h \in m.holds : parts[h] = m.number
  BY <1>2, <1>4 DEF RequestFits, SettingsFit
<1> HIDE DEF p
<1>6. CASE Stored(m, p) /\ Crosses(r, p) /\ torn' = IF p = "marker" THEN m.stale # {} ELSE torn
  <2>1. parts' = [parts EXCEPT ![p] = m.number]
    BY <1>6 DEF Stored
  <2>2. parts' \in [Parts -> 0..MaxRequests] /\ torn' \in BOOLEAN
    <3>1. m.number \in 0..MaxRequests
      BY <1>4, PrintAssumption DEF Numbers
    <3>2. QED
      BY <1>1, <1>3, <1>6, <2>1, <3>1
  <2>3. Shaped(k) /\ k.number = m.number /\ k.op = m.op /\ k.at = m.at
        /\ k.holds = m.holds \cup {p}
    <3>1. Shaped(k)
      BY <1>2, Keeps
    <3>2. k.number = m.number /\ k.op = m.op /\ k.at = m.at /\ k.holds = m.holds \cup {p}
      BY <1>2 DEF Shaped
    <3>3. QED
      BY <3>1, <3>2
  <2>4. req' = [q \in Slots |->
                   IF q = r THEN Onward(k)
                   ELSE IF req[q].holds \cap Parts # {}
                   THEN [req[q] EXCEPT !.stale = @ \cup (req[q].holds \cap Parts)] ELSE req[q]]
    BY <1>6 DEF Crosses
  <2> HIDE DEF k
  <2>5. /\ req' = [q \in Slots |-> req'[q]] /\ req'[r] = Onward(k)
        /\ \A q \in Slots \ {r} :
               req'[q] = IF req[q].holds \cap Parts # {}
                         THEN [req[q] EXCEPT !.stale = @ \cup (req[q].holds \cap Parts)]
                         ELSE req[q]
    BY <2>4
  <2>6. Onward(k).number \in {0, m.number}
    BY <2>3, OnwardNumber
  <2>7. ASSUME NEW q \in Slots \ {r}
        PROVE  /\ RequestFits(req'[q], doc, parts') /\ req'[q].number = req[q].number
               /\ req'[q].op = req[q].op /\ req'[q].holds = req[q].holds
    <3>1. RequestFits(req[q], doc, parts) /\ Shaped(req[q])
      BY <1>3 DEF RequestFits, Typed
    <3>2. RequestFits(IF req[q].holds \cap Parts # {}
                      THEN [req[q] EXCEPT !.stale = @ \cup (req[q].holds \cap Parts)] ELSE req[q],
                      doc, [parts EXCEPT ![p] = m.number])
      BY <3>1, CrossedFits
    <3>3. RequestFits(req'[q], doc, parts')
      BY <2>1, <2>5, <3>2
    <3>4. CASE req[q].holds \cap Parts # {}
      <4>1. req'[q] = [req[q] EXCEPT !.stale = @ \cup (req[q].holds \cap Parts)]
        BY <2>5, <3>4
      <4>2. QED
        BY <3>1, <3>3, <4>1 DEF Shaped
    <3>5. CASE req[q].holds \cap Parts = {}
      <4>1. req'[q] = req[q]
        BY <2>5, <3>5
      <4>2. QED
        BY <3>3, <4>1
    <3>6. QED
      BY <3>4, <3>5
  <2>8. \A q \in Slots : RequestFits(req'[q], doc', parts') /\ req'[q].number <= count'
    <3>1. \A q \in Slots \ {r} : RequestFits(req'[q], doc', parts') /\ req'[q].number <= count'
      BY <1>1, <1>3, <2>7
    <3>2. RequestFits(req'[r], doc', parts') /\ req'[r].number <= count'
      BY <1>1, <1>3, <1>4, <2>1, <2>5, <2>6
    <3>3. QED
      BY <3>1, <3>2
  <2>9. ASSUME ~torn', \A q \in Slots : req'[q].op = "settings" => req'[q].holds = {}
        PROVE  \A h, i \in Parts : parts'[h] = parts'[i]
    <3>1. CASE m.at = 3
      <4>1. p = "marker" /\ m.stale = {} /\ m.holds = {"main", "margin"}
        <5>1. p = "marker"
          BY <1>4, <3>1
        <5>2. m.stale = {}
          BY <1>6, <2>9, <5>1
        <5>3. m.holds = {"main", "margin"}
          BY <1>5, <3>1
        <5>4. QED
          BY <5>1, <5>2, <5>3
      <4>2. parts'["marker"] = m.number /\ parts'["main"] = m.number /\ parts'["margin"] = m.number
        BY <1>3, <1>5, <2>1, <4>1 DEF Parts
      <4>3. QED
        BY <4>2 DEF Parts
    <3>2. CASE m.at \in {1, 2}
      <4>1. \/ Onward(k) = Free
            \/ Onward(k).op = k.op /\ Onward(k).holds = k.holds
        <5>1. \A i \in {1, 2} : i \in 1..3
          OBVIOUS
        <5>2. k.op \in Ops /\ k.at \in 1..Len(Program(k.op))
          BY <1>4, <2>3, <3>2, <5>1 DEF Ops
        <5>3. QED
          BY <2>3, <5>2, OnwardIs
      <4>2. Onward(k) # Free
        <5>1. Onward(k) = [k EXCEPT !.at = @ + 1]
          <6>1. \A i \in {1, 2} : i # 3
            OBVIOUS
          <6>2. k.at # Len(Program(k.op))
            BY <1>4, <2>3, <3>2, <6>1
          <6>3. QED
            BY <6>2 DEF Onward
        <5>2. Onward(k).number = m.number
          BY <2>3, <5>1 DEF Shaped
        <5>3. QED
          BY <1>4, <5>2 DEF Free, Numbers
      <4>3. req'[r].op = "settings" /\ p \in req'[r].holds
        BY <1>4, <2>3, <2>5, <4>1, <4>2
      <4>4. QED
        BY <2>9, <4>3
    <3>3. QED
      BY <1>4, <3>1, <3>2
  <2>10. QED
    BY <1>1, <2>2, <2>5, <2>8, <2>9 DEF PrintInv
<1>7. CASE Ends(r) /\ UNCHANGED parts /\ torn' = (torn \/ m.holds # {})
  <2>1. /\ req' = [q \in Slots |-> req'[q]] /\ req'[r] = Free
        /\ \A q \in Slots \ {r} : req'[q] = req[q]
    BY <1>7 DEF PrintInv, Ends
  <2>2. RequestFits(Free, doc, parts) /\ Free.number = 0
    BY FreeFits DEF Free
  <2>3. \A q \in Slots : RequestFits(req'[q], doc', parts') /\ req'[q].number <= count'
    <3>1. \A q \in Slots \ {r} : RequestFits(req'[q], doc', parts') /\ req'[q].number <= count'
      BY <1>1, <1>3, <1>7, <2>1
    <3>2. RequestFits(req'[r], doc', parts') /\ req'[r].number <= count'
      BY <1>1, <1>3, <1>7, <2>1, <2>2
    <3>3. QED
      BY <3>1, <3>2
  <2>4. ~torn' /\ (\A q \in Slots : req'[q].op = "settings" => req'[q].holds = {})
           => \A h, i \in Parts : parts'[h] = parts'[i]
    BY <1>7, <2>1 DEF PrintInv
  <2>5. torn' \in BOOLEAN
    BY <1>3, <1>7
  <2>6. QED
    BY <1>1, <1>7, <2>1, <2>3, <2>4, <2>5 DEF PrintInv
<1>8. QED
  BY <1>1, <1>6, <1>7

\* A request whose key another one has added meanwhile is over.
LEMMA AddsTwiceInv == ASSUME PrintInv, NEW r \in Slots, AddsTwice(r) PROVE PrintInv'
<1> DEFINE m == req[r]
<1>1. /\ Does(r, "put") /\ Ends(r) /\ torn' = (torn \/ m.holds \cap Parts # {})
      /\ UNCHANGED <<open, doc, parts, count, changes, meant>>
  BY DEF AddsTwice
<1>2. /\ parts \in [Parts -> 0..MaxRequests] /\ torn \in BOOLEAN /\ 0 <= count
      /\ \A q \in Slots : RequestFits(req[q], doc, parts) /\ req[q].number <= count
  BY PrintAssumption DEF PrintInv
<1>3. /\ req' = [q \in Slots |-> req'[q]] /\ req'[r] = Free
      /\ \A q \in Slots \ {r} : req'[q] = req[q]
  BY <1>1 DEF PrintInv, Ends
<1>4. \A q \in Slots : RequestFits(req'[q], doc', parts') /\ req'[q].number <= count'
  <2>1. \A q \in Slots \ {r} : RequestFits(req'[q], doc', parts') /\ req'[q].number <= count'
    BY <1>1, <1>2, <1>3
  <2>2. RequestFits(Free, doc, parts) /\ Free.number = 0
    BY FreeFits DEF Free
  <2>3. RequestFits(req'[r], doc', parts') /\ req'[r].number <= count'
    BY <1>1, <1>2, <1>3, <2>2
  <2>4. QED
    BY <2>1, <2>3
<1>5. m.op = "settings" => m.holds \subseteq Parts
  BY <1>2 DEF RequestFits, Typed, SettingsFit, Parts
<1>6. ~torn' /\ (\A q \in Slots : req'[q].op = "settings" => req'[q].holds = {})
           => \A h, i \in Parts : parts'[h] = parts'[i]
  BY <1>1, <1>3, <1>5 DEF PrintInv
<1>7. torn' \in BOOLEAN
  BY <1>1, <1>2
<1>8. QED
  BY <1>1, <1>3, <1>4, <1>6, <1>7 DEF PrintInv

\* Every step keeps the invariant.
LEMMA PrintInvSteps == ASSUME PrintInv, [Next]_vars PROVE PrintInv'
<1>1. CASE \E r \in Slots, op \in Ops, l \in Lists : Arrives(r, op, l)
  BY <1>1, ArrivesInv
<1>2. CASE \E r \in Slots : Look(r) \/ File(r) \/ Reads(r) \/ Show(r) \/ Answers(r)
  BY <1>2, LookInv, FileInv, ReadsInv, ShowInv, AnswersInv
<1>3. CASE \E r \in Slots : Stores(r) \/ StoresPart(r) \/ AddsTwice(r)
  BY <1>3, StoresInv, StoresPartInv, AddsTwiceInv
<1>4. CASE MealieChanges
  BY <1>4, MealieChangesInv
<1>5. CASE UNCHANGED vars
  <2>1. UNCHANGED <<open, doc, parts, req, count, changes, meant, torn>>
    BY <1>5 DEF vars
  <2>2. QED
    BY <2>1 DEF PrintInv
<1>6. QED
  BY <1>1, <1>2, <1>3, <1>4, <1>5 DEF Next

\* What is stored and held has its type.
LEMMA PrintTypes == ASSUME PrintInv PROVE TypeOK
<1>1. /\ open \subseteq Rows /\ parts \in [Parts -> 0..MaxRequests]
      /\ count \in 0..MaxRequests /\ changes \in 0..MaxChanges /\ torn \in BOOLEAN
  BY DEF PrintInv
<1>2. \A d \in Docs, l \in Lists : Contents(d, doc[d][l])
  BY DEF PrintInv, Documents, Document
<1>3. ASSUME NEW r \in Slots
      PROVE  /\ req[r].op \in Ops /\ req[r].list \in Lists
             /\ req[r].at \in 0..Len(Program(req[r].op))
             /\ req[r].number \in 0..count
             /\ req[r].holds \subseteq Docs \cup Parts
             /\ req[r].stale \subseteq req[r].holds
  <2>1. Typed(req[r]) /\ req[r].number <= count
    BY DEF PrintInv, RequestFits
  <2>2. req[r].number \in Nat
    <3>1. CASE req[r].at = 0
      BY <2>1, <3>1 DEF Typed, Free
    <3>2. CASE req[r].at # 0
      BY <2>1, <3>2, PrintAssumption DEF Typed, Numbers
    <3>3. QED
      BY <3>1, <3>2
  <2>3. req[r].number \in 0..count
    BY <1>1, <2>1, <2>2, PrintAssumption
  <2>4. QED
    BY <2>1, <2>3 DEF Typed
<1>4. ASSUME NEW l \in Lists
      PROVE  meant["local"][l] \subseteq Numbers /\ meant["overrides"][l] \subseteq Keys
  <2>1. meant = [d \in Kept |-> [k \in Lists |-> Holding(d, doc[d][k])]]
    BY DEF PrintInv
  <2>2. meant["local"][l] = DOMAIN doc["local"][l] /\ meant["overrides"][l] = doc["overrides"][l]
    BY <2>1 DEF Kept, Holding
  <2>3. doc["local"][l] \in Entries /\ doc["overrides"][l] \subseteq Keys
    BY <1>2 DEF Contents, Docs
  <2>4. QED
    BY <2>2, <2>3 DEF Entries
<1>5. QED
  BY <1>1, <1>2, <1>3, <1>4 DEF TypeOK

\* Entries are filed where they are shown.
LEMMA PrintFiled == ASSUME PrintInv PROVE FiledWhereShown
<1> SUFFICES ASSUME NEW l \in Lists,
                    \A i, j \in DOMAIN doc["aliases"][l] :
                        KeyOf[doc["aliases"][l][i].as] # KeyOf[doc["aliases"][l][j].of]
             PROVE  LET aka == doc["aliases"][l]
                        es == doc["local"][l]
                    IN /\ \A n \in Names :
                              LET stored == Filed(l, aka, es, n)
                              IN KeyOf[Resolved(l, aka, stored)] = KeyOf[stored]
                       /\ \A i \in DOMAIN es :
                              KeyOf[Filed(l, aka, es, es[i])] = KeyOf[Normalized(l, aka, es)[i]]
  BY DEF FiledWhereShown
<1> DEFINE aka == doc["aliases"][l]
           es == doc["local"][l]
<1>1. es \in Entries /\ LeftOf(aka) /\ open \subseteq Rows
  BY DEF PrintInv, Documents, Document, Contents, Docs
<1>2. \A i \in DOMAIN es : es[i] \in Names
  BY <1>1 DEF Entries
<1>3. \A i \in DOMAIN es : Normalized(l, aka, es)[i] = Resolved(l, aka, es[i])
  BY DEF Normalized
<1> HIDE DEF aka, es
<1>4. \A i, j \in DOMAIN aka : KeyOf[aka[i].as] # KeyOf[aka[j].of]
  BY DEF aka
<1>5. \A n \in Names :
          /\ KeyOf[Resolved(l, aka, Filed(l, aka, es, n))] = KeyOf[Filed(l, aka, es, n)]
          /\ KeyOf[Filed(l, aka, es, n)] = KeyOf[Resolved(l, aka, n)]
  BY <1>1, <1>4, FiledStays
<1>6. QED
  BY <1>2, <1>3, <1>5 DEF aka, es

\* The invariant is what lists need to be printed as they were edited.
LEMMA PrintInvIs == ASSUME PrintInv PROVE ListsCorrect
<1>1. StoredAsMeant
  BY DEF PrintInv, StoredAsMeant
<1>2. SettingsOfOneRequest
  <2> SUFFICES ASSUME ~torn, \A r \in Slots : ~Busy(r) \/ req[r].op # "settings"
               PROVE  \A p, q \in Parts : parts[p] = parts[q]
    BY DEF SettingsOfOneRequest
  <2>1. ASSUME NEW r \in Slots, req[r].op = "settings" PROVE req[r].holds = {}
    <3>1. req[r].at = 0
      BY <2>1 DEF Busy
    <3>2. Typed(req[r])
      BY DEF PrintInv, RequestFits
    <3>3. QED
      BY <3>1, <3>2 DEF Typed, Free
  <2>2. QED
    BY <2>1 DEF PrintInv
<1>3. OneRowPerOverride
  BY OneRow DEF PrintInv
<1>4. QED
  BY <1>1, <1>2, <1>3, PrintTypes, PrintFiled DEF ListsCorrect

\* A request that stores something at its step.
LEMMA StoresItself ==
    ASSUME PrintInv, NEW r \in Slots, Does(r, "put"), Stage(r) = "orders",
           req'[r].at # req[r].at, Next
    PROVE  Stores(r) \/ UNCHANGED doc
<1>1. DOMAIN req = Slots /\ \A q \in Slots : Shaped(req[q])
  BY DEF PrintInv, RequestFits, Typed
<1>2. NextStep(req[r]).do = "put" /\ req[r].at # 0
  BY DEF Does, Busy
<1>3. \A n : \A q \in Slots : req' = [req EXCEPT ![q] = n] => q = r
  BY <1>1
<1>4. ASSUME NEW q \in Slots, NEW op \in Ops, NEW l \in Lists, Arrives(q, op, l) PROVE FALSE
  <2>1. q = r
    BY <1>3, <1>4 DEF Arrives
  <2>2. QED
    BY <1>2, <1>4, <2>1 DEF Arrives, Busy
<1>5. ASSUME NEW q \in Slots, Look(q) \/ File(q) \/ Reads(q) \/ Show(q) \/ Answers(q)
      PROVE  FALSE
  <2>1. q = r
    BY <1>3, <1>5 DEF Look, File, Reads, Show, Answers, Goes, Ends
  <2>2. NextStep(req[q]).do \in {"look", "file", "get", "show", "answer"}
    BY <1>5 DEF Look, File, Reads, Show, Answers, Does
  <2>3. QED
    BY <1>2, <2>1, <2>2
<1>6. ASSUME NEW q \in Slots, Stores(q) PROVE Stores(r)
  <2>1. CASE q = r
    BY <1>6, <2>1
  <2>2. CASE q # r
    <3>1. req'[r] = IF Stage(q) \in req[r].holds
                    THEN [req[r] EXCEPT !.stale = @ \cup {Stage(q)}] ELSE req[r]
      BY <1>6, <2>2 DEF Stores, Outdates
    <3>2. req'[r].at = req[r].at
      BY <1>1, <3>1 DEF Shaped
    <3>3. QED
      BY <3>2
  <2>3. QED
    BY <2>1, <2>2
<1>7. ASSUME NEW q \in Slots, StoresPart(q) PROVE FALSE
  <2>1. CASE q = r
    BY <1>7, <2>1 DEF StoresPart, Parts
  <2>2. CASE q # r
    <3>1. ~Ends(q)
      BY <1>3, <2>2 DEF Ends
    <3>2. Crosses(q, Stage(q))
      BY <1>7, <3>1 DEF StoresPart
    <3>3. req'[r] = IF req[r].holds \cap Parts # {}
                    THEN [req[r] EXCEPT !.stale = @ \cup (req[r].holds \cap Parts)] ELSE req[r]
      BY <2>2, <3>2 DEF Crosses
    <3>4. req'[r].at = req[r].at
      BY <1>1, <3>3 DEF Shaped
    <3>5. QED
      BY <3>4
  <2>3. QED
    BY <2>1, <2>2
<1>8. ASSUME MealieChanges PROVE FALSE
  BY <1>8 DEF MealieChanges
<1>9. ASSUME NEW q \in Slots, AddsTwice(q) PROVE UNCHANGED doc
  BY <1>9 DEF AddsTwice
<1>10. QED
  BY <1>4, <1>5, <1>6, <1>7, <1>8, <1>9 DEF Next

\* A request that saves entries keeps the order of the sections it was told.
LEMMA OrderKeptStep ==
    ASSUME PrintInv, Next, NEW r \in Slots
    PROVE  KeepsOrder(r)
<1> DEFINE m == req[r]
           old == doc["orders"][m.list]
           new == doc'["orders"][m.list]
<1> SUFFICES ASSUME Does(r, "put"), Stage(r) = "orders", m.op \notin {"order", "reset"},
                    "orders" \notin m.stale, req'[r].at # m.at,
                    NEW j \in DOMAIN old \cap DOMAIN new \cap m.named,
                    NEW k \in DOMAIN old \cap DOMAIN new \cap m.named, old[j] < old[k]
             PROVE  new[j] < new[k]
  BY DEF KeepsOrder
<1>1. CASE UNCHANGED doc
  BY <1>1
<1> SUFFICES ASSUME Stores(r) PROVE new[j] < new[k]
  BY <1>1, StoresItself
<1>2. /\ RequestFits(m, doc, parts) /\ m.at # 0 /\ NextStep(m).do = "put" /\ m.list \in Lists
      /\ NextStep(m).doc = "orders"
  BY BusyIs DEF Stage
<1>3. Document("orders", m.read) /\ Sorted(m)
  BY <1>2, NewIs DEF Docs
<1>4. /\ m.sections \subseteq KeySet /\ m.named \subseteq KeySet
      /\ m.order = Ordered(m.sections, Ordered(m.named, old))
  BY <1>2, <1>3 DEF RequestFits, OrderFits
<1>5. new = m.order
  <2>1. NewOrder(m) = m.order
    BY DEF NewOrder
  <2>2. New(m, "orders") = m.order
    BY <2>1 DEF New
  <2>3. doc' = [doc EXCEPT !["orders"] = [m.read EXCEPT ![m.list] = m.order]]
    BY <2>2 DEF Stores, WithPart
  <2>4. "orders" \in DOMAIN doc
    BY DEF PrintInv, Documents, Docs
  <2>5. doc'["orders"] = [m.read EXCEPT ![m.list] = m.order]
    BY <2>3, <2>4
  <2>6. m.list \in DOMAIN m.read
    BY <1>2, <1>3 DEF Document
  <2>7. QED
    BY <2>5, <2>6
<1>6. Placing(old)
  BY <1>2 DEF PrintInv, Documents, Document, Contents, Docs
<1>7. j \in m.named /\ k \in m.named /\ j \in DOMAIN old /\ k \in DOMAIN old
  OBVIOUS
<1> DEFINE named == Ordered(m.named, old)
<1>8. Placing(named) /\ DOMAIN named = m.named
  BY <1>4, <1>6, OrderedPlaces
<1>9. Before(old, j, k)
  BY <1>7 DEF Before
<1>10. named[j] < named[k]
  BY <1>4, <1>6, <1>7, <1>9, OrderedRises
<1>11. m.order = Ordered(m.sections, named)
  BY <1>4
<1>12. j \in DOMAIN m.order /\ k \in DOMAIN m.order
  BY <1>5
<1> HIDE DEF named, old, new
<1>13. DOMAIN m.order = m.sections
  BY <1>4, <1>8, <1>11, OrderedPlaces
<1>14. Before(named, j, k)
  BY <1>7, <1>8, <1>10 DEF Before
<1>15. Ordered(m.sections, named)[j] < Ordered(m.sections, named)[k]
  BY <1>4, <1>8, <1>12, <1>13, <1>14, OrderedRises
<1>16. QED
  BY <1>5, <1>11, <1>15

LEMMA PrintInvAlways == MCSpec => []PrintInv
<1>1. MCInit => PrintInv
  BY PrintInvAtFirst DEF MCInit
<1>2. PrintInv /\ [MCNext]_all => PrintInv'
  <2> SUFFICES ASSUME PrintInv, [MCNext]_all PROVE PrintInv'
    OBVIOUS
  <2>1. [Next]_vars
    BY DEF MCNext, all
  <2>2. QED
    BY <2>1, PrintInvSteps
<1>3. QED
  BY <1>1, <1>2, PTL DEF MCSpec

\* Whatever requests overlap and whatever Mealie changes, every list is stored
\* as its requests meant it but for copies that were outdated, entries are filed
\* where they are shown, an override goes to one row, and the settings are of
\* one request, for any number of lists, names, rows, entries and requests
\* (_save_state_json, _canonicalize_local_entries, apply_item_overrides,
\* shopping_print_save_settings).
THEOREM PrintsCorrectAlways == MCSpec => []PrintsCorrect
<1>1. PrintInv => PrintsCorrect
  BY PrintInvIs DEF PrintsCorrect
<1>2. QED
  BY <1>1, PrintInvAlways, PTL

\* Sections the user put in order keep that order when entries are saved, for
\* any number of lists, names, rows and requests (ordered_categories,
\* _prune_category_state).
THEOREM OrderKeptAlways == MCSpec => OrderKept
<1>1. PrintInv /\ [MCNext]_all => [\A r \in Slots : KeepsOrder(r)]_vars
  <2> SUFFICES ASSUME PrintInv, [MCNext]_all
               PROVE  [\A r \in Slots : KeepsOrder(r)]_vars
    OBVIOUS
  <2>1. [Next]_vars
    BY DEF MCNext, all
  <2>2. CASE Next
    BY <2>2, OrderKeptStep
  <2>3. CASE UNCHANGED vars
    BY <2>3
  <2>4. QED
    BY <2>1, <2>2, <2>3
<1>2. QED
  BY <1>1, PrintInvAlways, PTL DEF MCSpec, OrderKept
=============================================================================
