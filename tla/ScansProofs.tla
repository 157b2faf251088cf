---------------------------- MODULE ScansProofs ----------------------------
(***************************************************************************)
(* What users see of barcodes, scans and scanners, for every number of     *)
(* barcodes, Foods, requests, edits, reports and labels: a barcode and a   *)
(* Food are linked once, what counts as found has a title, what was        *)
(* deleted stays away, and a scan that no other request of its barcode     *)
(* crosses keeps and routes its links; what became of a scan shows and     *)
(* stays shown, with no notification left saying that it is still being    *)
(* processed; bridge and device are shown as they are; and a scan that is  *)
(* read in whole gives its barcode.                                        *)
(*                                                                         *)
(* LinksInv (BarcodeLinks), FeedInv (ScanFeed), StatusInv (ScannerStatus)  *)
(* and KeysInv (ScanKeys) are the inductive invariants. First come lemmas  *)
(* on what a step can change, then those on each part of the invariant.    *)
(***************************************************************************)
EXTENDS MCScans, FiniteSetTheorems, SequenceTheorems, NaturalsInduction,
        WellFoundedInduction, TLAPS

-----------------------------------------------------------------------------
(* Finite sets of numbers.                                                 *)

LEMMA LeastNumber ==
    ASSUME NEW T \in SUBSET Nat, T # {}
    PROVE  \E n \in T : \A m \in T : n <= m
<1> DEFINE R == {ss \in Nat \X Nat : ss[1] < ss[2]}
<1>1. IsWellFoundedOn(R, Nat)
  BY NatLessThanWellFounded DEF OpToRel
<1>2. PICK n \in T : \A m \in T : <<m, n>> \notin R
  BY <1>1, WFMin
<1>3. \A m \in T : m \in Nat /\ n \in Nat /\ ~(m < n)
  BY <1>2
<1>4. QED
  BY <1>3

\* A finite set of numbers has a bound: a smallest subset without one would have one
\* without its last element.
LEMMA BoundExists ==
    ASSUME NEW T \in SUBSET Nat, IsFiniteSet(T)
    PROVE  \E n \in Nat : \A m \in T : m <= n
<1> DEFINE bad == {U \in SUBSET T : ~ \E n \in Nat : \A m \in U : m <= n}
           sizes == {Cardinality(U) : U \in bad}
<1>1. SUFFICES ASSUME T \in bad PROVE FALSE
  OBVIOUS
<1>2. \A U \in SUBSET T : IsFiniteSet(U) /\ Cardinality(U) \in Nat
  BY FS_Subset, FS_CardinalityType
<1>3. sizes \subseteq Nat /\ sizes # {}
  BY <1>1, <1>2
<1>4. PICK n \in sizes : \A m \in sizes : n <= m
  BY <1>3, LeastNumber
<1>5. PICK U \in bad : Cardinality(U) = n
  BY <1>4
<1>6. PICK k \in U : k \in Nat
  <2>1. ASSUME U = {} PROVE FALSE
    <3>1. 0 \in Nat /\ \A m \in U : m <= 0
      BY <2>1
    <3>2. QED
      BY <1>5, <3>1
  <2>2. QED
    BY <1>5, <2>1
<1>7. Cardinality(U \ {k}) < n
  <2>1. Cardinality(U \ {k}) = Cardinality(U) - 1
    BY <1>2, <1>5, <1>6, FS_RemoveElement
  <2>2. n \in Nat
    BY <1>3
  <2>3. QED
    BY <1>5, <2>1, <2>2
<1>8. U \ {k} \notin bad
  <2>1. ASSUME U \ {k} \in bad PROVE FALSE
    <3>1. Cardinality(U \ {k}) \in sizes
      BY <2>1
    <3>2. n <= Cardinality(U \ {k})
      BY <1>4, <3>1
    <3>3. QED
      BY <1>2, <1>3, <1>5, <1>7, <3>1, <3>2
  <2>2. QED
    BY <2>1
<1>9. PICK j \in Nat : \A m \in U \ {k} : m <= j
  BY <1>5, <1>8
<1>10. \A m \in U : m <= j + k
  <2>1. \A m \in U : m \in Nat /\ (m = k \/ m <= j)
    BY <1>5, <1>9
  <2>2. QED
    BY <1>6, <1>9, <2>1
<1>11. j + k \in Nat
  BY <1>6, <1>9
<1>12. QED
  BY <1>5, <1>10, <1>11

LEMMA MaxFacts ==
    ASSUME NEW T \in SUBSET Nat, IsFiniteSet(T), T # {}
    PROVE  B!Max(T) \in T /\ \A m \in T : B!Max(T) >= m
<1> DEFINE above == {n \in Nat : \A m \in T : m <= n}
<1>1. PICK n \in above : \A m \in above : n <= m
  <2>1. above # {}
    BY BoundExists
  <2>2. QED
    BY <2>1, LeastNumber
<1>2. n \in Nat /\ \A m \in T : m \in Nat /\ m <= n
  OBVIOUS
<1>3. ASSUME n \notin T PROVE FALSE
  <2>1. \A m \in T : m <= n - 1
    BY <1>2, <1>3
  <2>2. n - 1 \in Nat
    <3>1. PICK m \in T : m \in Nat /\ m <= n - 1
      BY <1>2, <2>1
    <3>2. QED
      BY <1>2, <3>1
  <2>3. n - 1 \in above
    BY <2>1, <2>2
  <2>4. n <= n - 1
    BY <1>1, <2>3
  <2>5. QED
    BY <1>2, <2>4
<1>4. \E m \in T : \A k \in T : m >= k
  BY <1>2, <1>3
<1>5. QED
  BY <1>4 DEF B!Max

LEMMA MinFacts ==
    ASSUME NEW T \in SUBSET Nat, T # {}
    PROVE  B!Min(T) \in T
BY LeastNumber DEF B!Min

-----------------------------------------------------------------------------
(* Barcodes and their links: the inductive invariant.                      *)

\* A target is updated by its id: no two have the same.
IdsApart == \A t, u \in targets : t.id = u.id => t = u

\* A row whose barcode no provider was asked for says so.
NeverIsShell ==
    \A c \in Codes : B!Has(c) /\ cache[c].tried = "never" => cache[c].shell

\* Found without a title: the user's was taken back, and request r, which did so, still
\* has the providers' answer to store, or failed.
Naked(c) == /\ B!Has(c) /\ cache[c].found
            /\ ~cache[c].title /\ ~cache[c].custom

Rereads(r, c) ==
    /\ req[r].op = "lookup" /\ req[r].code = c
    /\ \/ /\ req[r].at \in {"lookup", "store"}
          /\ req[r].loaded # B!NoRow /\ req[r].loaded.found
       \/ req[r].at = "ended" /\ req[r].answer = "failed"

NakedIsReread ==
    \A c \in Numeric : Naked(c) => \E r \in Requests : Rereads(r, c)

\* Nothing is left by which a deleted barcode could come back unasked.
Gone(c) ==
    /\ cache[c] = B!NoRow /\ c \notin known
    /\ \A t \in targets : t.code # c
    /\ \A r \in Requests : B!Busy(r) => req[r].code # c

DeletedIsGone == \A c \in deleted : Gone(c)

\* What a request is doing, by the stage it is at.
StageOf(q) ==
    /\ q.at \in {"gate", "route", "process", "match"} => q.op = "scan"
    /\ q.at \in {"lookup", "store"} => q.op \in {"scan", "lookup"} /\ q.code \in Numeric
    /\ q.at = "add" => q.op \in {"scan", "map"} /\ q.food \in Foods
    /\ q.at # "ended" => q.answer = "none"

Stage(r) == StageOf(req[r])

Bare(c) == \A t \in targets : t.code # c

Linked(c, f) == \E t \in targets : t.code = c /\ t.food = f

\* What a request has read is so still, as long as no other one crossed it.
Fits(r) ==
    /\ req[r].at = "add" /\ req[r].ids = {} => ~Linked(req[r].code, req[r].food)
    /\ req[r].op = "scan" =>
           /\ req[r].at \in {"lookup", "store", "match", "add"} => Bare(req[r].code)
           /\ req[r].at = "add" => req[r].ids = {}
           /\ req[r].at \in {"lookup", "store"} =>
                  (cache[req[r].code] # B!NoRow => ~cache[req[r].code].found)
    /\ req[r].at = "route" =>
           \A n : n \in req[r].ids <=>
                  \E t \in targets : t.code = req[r].code /\ t.id = n
    /\ /\ req[r].at \in {"gate", "process"}
       /\ req[r].code \in Numeric /\ Bare(req[r].code)
       /\ cache[req[r].code] # B!NoRow /\ ~cache[req[r].code].found
       => cache[req[r].code].tried # "never"

RequestsFit ==
    \A r \in Requests : Stage(r) /\ (B!Busy(r) /\ r \notin crossed => Fits(r))

LinksInv == /\ B!TypeOK /\ B!NoTwins
            /\ IdsApart /\ NeverIsShell /\ NakedIsReread /\ DeletedIsGone
            /\ RequestsFit

LinksTypes == LinksAssumption /\ B!TypeOK

-----------------------------------------------------------------------------
(* What a step can change.                                                 *)

LEMMA NoRowIsNone == B!NoRow \notin B!Row
BY DEF B!NoRow, B!Row

\* The rows that the code makes.
LEMMA RowsMade ==
    /\ B!Shell \in B!Row /\ B!Raw \in B!Row
    /\ \A given \in BOOLEAN :
           [found |-> given, title |-> given, custom |-> given,
            tried |-> "fresh", shell |-> FALSE] \in B!Row
BY DEF B!Shell, B!Raw, B!Row

CacheMoves ==
    \/ \E r \in Requests, c \in Codes :
           \/ B!ScanArrives(r, c) \/ B!Process(r, c)
           \/ B!Store(r, c) \/ B!LookUpAgain(r, c)
    \/ \E c \in Codes :
           \/ B!Delete(c) \/ B!Metadata(c) \/ B!CreateManual(c)
           \/ B!ViewPage(c) \/ B!Expire(c)

TargetMoves ==
    \/ \E r \in Requests, c \in Codes : B!Add(r, c)
    \/ B!Settings \/ B!DeleteTarget
    \/ \E c \in Codes : B!Confirm(c) \/ B!Unmap(c) \/ B!Delete(c)

RequestMoves(r) == B!Route(r) \/ \E c \in Codes : B!Handles(r, c)

UserMoves(c) ==
    \/ B!Confirm(c) \/ B!Unmap(c) \/ B!Delete(c) \/ B!Metadata(c)
    \/ B!CreateManual(c) \/ B!ViewPage(c) \/ B!Expire(c)

LEMMA CacheOnlyMoves ==
    ASSUME B!Next
    PROVE  cache' = cache \/ CacheMoves
<1>1. CASE \E r \in Requests : B!Route(r)
  BY <1>1 DEF B!Route
<1>2. ASSUME NEW r \in Requests, NEW c \in Codes, B!Handles(r, c)
      PROVE  cache' = cache \/ CacheMoves
  <2>1. CASE \/ B!ScanArrives(r, c) \/ B!Process(r, c)
             \/ B!Store(r, c) \/ B!LookUpAgain(r, c)
    BY <2>1 DEF CacheMoves
  <2>2. CASE \/ B!ScanLooks(r, c) \/ B!Answered(r, c) \/ B!StoreFails(r, c)
             \/ B!Match(r, c) \/ B!Map(r, c) \/ B!Add(r, c) \/ B!AddFails(r, c)
    BY <2>2 DEF B!ScanLooks, B!Answered, B!StoreFails, B!Match, B!Map, B!Add, B!AddFails
  <2>3. QED
    BY <1>2, <2>1, <2>2 DEF B!Handles
<1>3. ASSUME NEW c \in Codes, UserMoves(c) PROVE cache' = cache \/ CacheMoves
  BY <1>3 DEF UserMoves, CacheMoves, B!Confirm, B!Unmap
<1>4. CASE B!Settings \/ B!DeleteTarget
  BY <1>4 DEF B!Settings, B!DeleteTarget
<1>5. QED
  BY <1>1, <1>2, <1>3, <1>4 DEF B!Next, UserMoves

LEMMA TargetsOnlyMove ==
    ASSUME B!Next
    PROVE  targets' = targets \/ TargetMoves
<1>1. CASE \E r \in Requests : B!Route(r)
  BY <1>1 DEF B!Route
<1>2. ASSUME NEW r \in Requests, NEW c \in Codes, B!Handles(r, c)
      PROVE  targets' = targets \/ TargetMoves
  <2>1. CASE B!Add(r, c)
    BY <2>1 DEF TargetMoves
  <2>2. CASE \/ B!ScanArrives(r, c) \/ B!Process(r, c)
             \/ B!Store(r, c) \/ B!LookUpAgain(r, c)
    BY <2>2 DEF B!ScanArrives, B!Process, B!Store, B!LookUpAgain
  <2>3. CASE \/ B!ScanLooks(r, c) \/ B!Answered(r, c) \/ B!StoreFails(r, c)
             \/ B!Match(r, c) \/ B!Map(r, c) \/ B!AddFails(r, c)
    BY <2>3 DEF B!ScanLooks, B!Answered, B!StoreFails, B!Match, B!Map, B!AddFails
  <2>4. QED
    BY <1>2, <2>1, <2>2, <2>3 DEF B!Handles
<1>3. ASSUME NEW c \in Codes, UserMoves(c) PROVE targets' = targets \/ TargetMoves
  BY <1>3 DEF UserMoves, TargetMoves, B!Metadata, B!CreateManual, B!ViewPage, B!Expire
<1>4. CASE B!Settings \/ B!DeleteTarget
  BY <1>4 DEF TargetMoves
<1>5. QED
  BY <1>1, <1>2, <1>3, <1>4 DEF B!Next, UserMoves

LEMMA RequestsOnlyMove ==
    ASSUME B!Next
    PROVE  req' = req \/ \E r \in Requests : RequestMoves(r)
<1>1. ASSUME NEW c \in Codes, UserMoves(c) PROVE req' = req
  BY <1>1 DEF UserMoves, B!Edit, B!Confirm, B!Unmap, B!Delete, B!Metadata,
              B!CreateManual, B!ViewPage, B!Expire
<1>2. CASE B!Settings \/ B!DeleteTarget
  BY <1>2 DEF B!Settings, B!DeleteTarget, B!Edit
<1>3. QED
  BY <1>1, <1>2 DEF B!Next, UserMoves, RequestMoves

\* What crossed can become, and who is deleted.
LEMMA HistoryMoves ==
    ASSUME B!Next
    PROVE  crossed' = crossed \/ \E c, rs : B!Writes(c, rs)
<1>1. CASE \E r \in Requests : B!Route(r)
  BY <1>1 DEF B!Route
<1>2. ASSUME NEW r \in Requests, NEW c \in Codes, B!Handles(r, c)
      PROVE  crossed' = crossed \/ B!Writes(c, {r})
  <2>1. CASE \/ B!ScanArrives(r, c) \/ B!Process(r, c) \/ B!Add(r, c)
             \/ B!Store(r, c) \/ B!LookUpAgain(r, c)
    BY <2>1 DEF B!ScanArrives, B!Process, B!Store, B!LookUpAgain, B!Add
  <2>2. CASE \/ B!ScanLooks(r, c) \/ B!Answered(r, c) \/ B!StoreFails(r, c)
             \/ B!Match(r, c) \/ B!Map(r, c) \/ B!AddFails(r, c)
    BY <2>2 DEF B!ScanLooks, B!Answered, B!StoreFails, B!Match, B!Map, B!AddFails
  <2>3. QED
    BY <1>2, <2>1, <2>2 DEF B!Handles
<1>3. ASSUME NEW c \in Codes, UserMoves(c)
      PROVE  crossed' = crossed \/ B!Writes(c, {})
  BY <1>3 DEF UserMoves, B!Edit, B!Confirm, B!Unmap, B!Delete, B!Metadata,
              B!CreateManual, B!ViewPage, B!Expire
<1>4. CASE B!Settings \/ B!DeleteTarget
  BY <1>4 DEF B!Settings, B!DeleteTarget, B!Edit
<1>5. QED
  BY <1>1, <1>2, <1>3, <1>4 DEF B!Next, UserMoves

LEMMA CrossedGrows ==
    ASSUME B!Next
    PROVE  crossed \subseteq crossed'
BY HistoryMoves DEF B!Writes


-----------------------------------------------------------------------------
(* The types.                                                              *)

CacheSets(c, row) == cache' = [cache EXCEPT ![c] = row]

LEMMA ArrivalWrites ==
    ASSUME LinksTypes, NEW r \in Requests, NEW c \in Codes, B!ScanArrives(r, c)
    PROVE  /\ c \notin deleted'
           /\ \/ /\ cache' = cache
                 /\ c \in Numeric /\ Bare(c) /\ B!Has(c) /\ ~cache[c].found
                        => ~cache[c].shell \/ cache[c].tried # "never"
              \/ /\ CacheSets(c, B!NoRow) /\ c \in Numeric /\ Bare(c)
                 /\ B!Has(c) /\ ~cache[c].found
              \/ CacheSets(c, B!Shell) /\ ~B!Has(c) /\ ~Bare(c)
<1>1. c \notin deleted'
  BY DEF B!ScanArrives
<1>2. Bare(c) <=> B!TargetsOf(c) = {}
  BY DEF Bare, B!TargetsOf
<1>3. CASE B!TargetsOf(c) = {}
  <2>1. cache' = B!DropsStaleShell(c)
    BY <1>3 DEF B!ScanArrives
  <2>2. QED
    BY <1>1, <1>2, <1>3, <2>1 DEF B!DropsStaleShell, CacheSets
<1>4. CASE B!TargetsOf(c) # {}
  <2>1. cache' = B!Restored(c)
    BY <1>4 DEF B!ScanArrives
  <2>2. QED
    BY <1>1, <1>2, <1>4, <2>1 DEF B!Restored, CacheSets
<1>5. QED
  BY <1>3, <1>4

LEMMA ProcessWrites ==
    ASSUME NEW r \in Requests, NEW c \in Codes, B!Process(r, c)
    PROVE  cache' = cache \/ (CacheSets(c, B!Raw) /\ ~B!Has(c))
BY DEF B!Process, CacheSets

\* What perform_lookup makes of the row in the database and the one in its session.
StoredAs(row, old, was, hit) ==
    \/ /\ old = B!NoRow /\ was = B!NoRow
       /\ row.found <=> hit
       /\ row.title <=> hit
    \/ /\ old # B!NoRow /\ was # B!NoRow
       /\ row.title <=> old.title \/ hit
       /\ row.custom <=> old.custom
       /\ (was.found <=> hit) => (row.found <=> old.found)
       /\ ~(was.found <=> hit) => (row.found <=> hit)

LEMMA StoredRow ==
    ASSUME NEW old \in B!Row \cup {B!NoRow}, NEW was \in B!Row \cup {B!NoRow},
           NEW hit \in BOOLEAN, was = B!NoRow <=> old = B!NoRow,
           NEW row, row = IF was = B!NoRow THEN B!Stored(B!Shell, B!Shell, hit)
                          ELSE B!Stored(old, was, hit)
    PROVE  row \in B!Row /\ row.tried = "fresh" /\ StoredAs(row, old, was, hit)
<1>1. CASE was = B!NoRow
  <2>1. row = B!Stored(B!Shell, B!Shell, hit)
    BY <1>1
  <2>2. ~B!Shell.found /\ ~B!Shell.title /\ B!Shell \in B!Row
    BY RowsMade DEF B!Shell
  <2>3. row \in B!Row /\ row.tried = "fresh"
    BY <2>1, RowsMade DEF B!Stored, B!Row, B!Shell
  <2>4. row.title <=> hit
    BY <2>1, RowsMade DEF B!Stored, B!Row, B!Shell
  <2>5. row.found <=> hit
    BY <2>1, RowsMade DEF B!Stored, B!Row, B!Shell
  <2>6. QED
    BY <1>1, <2>3, <2>4, <2>5 DEF StoredAs
<1>2. CASE was # B!NoRow
  <2>1. row = B!Stored(old, was, hit) /\ old \in B!Row /\ was \in B!Row
    BY <1>2
  <2>2. row \in B!Row /\ row.tried = "fresh" /\ row.custom = old.custom
    BY <2>1 DEF B!Stored, B!Row
  <2>3. row.title <=> old.title \/ hit
    BY <2>1 DEF B!Stored, B!Row
  <2>4. /\ (was.found <=> hit) => (row.found <=> old.found)
        /\ ~(was.found <=> hit) => (row.found <=> hit)
    BY <2>1 DEF B!Stored, B!Row
  <2>5. QED
    BY <1>2, <2>2, <2>3, <2>4 DEF StoredAs
<1>3. QED
  BY <1>1, <1>2

LEMMA StoreWrites ==
    ASSUME LinksTypes, NEW r \in Requests, NEW c \in Codes, B!Store(r, c)
    PROVE  \E row \in B!Row :
               /\ CacheSets(c, row)
               /\ row.tried = "fresh"
               /\ StoredAs(row, cache[c], req[r].loaded, req[r].hit)
               /\ req'[r] = IF req[r].op = "scan" /\ row.found
                            THEN [req[r] EXCEPT !.at = "match"]
                            ELSE [req[r] EXCEPT !.at = "ended", !.answer =
                                     IF req[r].op = "scan" THEN "unknown" ELSE "none"]
<1>1. req[r] \in B!Request /\ req[r].hit \in BOOLEAN
      /\ req[r].loaded \in B!Row \cup {B!NoRow} /\ cache[c] \in B!Row \cup {B!NoRow}
  BY DEF LinksTypes, B!TypeOK, B!Request
<1>2. req \in [Requests -> B!Request]
  BY DEF LinksTypes, B!TypeOK
<1>3. req[r].loaded = B!NoRow <=> cache[c] = B!NoRow
  BY DEF B!Store
<1> DEFINE new == IF req[r].loaded = B!NoRow
                  THEN B!Stored(B!Shell, B!Shell, req[r].hit)
                  ELSE B!Stored(cache[c], req[r].loaded, req[r].hit)
<1>4. /\ CacheSets(c, new)
      /\ IF req[r].op = "scan" /\ new.found
         THEN B!Goes(r, [req[r] EXCEPT !.at = "match"])
         ELSE B!Ends(r, IF req[r].op = "scan" THEN "unknown" ELSE "none")
  BY DEF B!Store, CacheSets
<1>5. /\ new \in B!Row /\ new.tried = "fresh"
      /\ StoredAs(new, cache[c], req[r].loaded, req[r].hit)
  BY <1>1, <1>3, StoredRow
<1>6. req'[r] = IF req[r].op = "scan" /\ new.found
                THEN [req[r] EXCEPT !.at = "match"]
                ELSE [req[r] EXCEPT !.at = "ended", !.answer =
                         IF req[r].op = "scan" THEN "unknown" ELSE "none"]
  <2> HIDE DEF new
  <2>1. QED
    BY <1>2, <1>4 DEF B!Goes, B!Ends
<1>7. QED
  <2> HIDE DEF new
  <2>1. QED
    BY <1>4, <1>5, <1>6

LEMMA AgainWrites ==
    ASSUME LinksTypes, NEW r \in Requests, NEW c \in Codes, B!LookUpAgain(r, c)
    PROVE  /\ c \notin deleted' /\ req[r].at = "idle" /\ req[r].op = "lookup"
           /\ req[r].code = c
           /\ \/ cache' = cache
              \/ \E row \in B!Row :
                     /\ B!Has(c) /\ CacheSets(c, row)
                     /\ row = [cache[c] EXCEPT !.custom = FALSE]
<1>1. /\ req[r].at = "idle" /\ req[r].op = "lookup" /\ req[r].code = c
      /\ c \notin deleted'
  BY DEF B!LookUpAgain, B!Begin
<1>2. CASE B!Has(c) /\ cache' # cache
  <2> DEFINE row == [cache[c] EXCEPT !.custom = FALSE]
  <2>1. CacheSets(c, row)
    BY <1>2 DEF B!LookUpAgain, CacheSets
  <2>2. row \in B!Row
    BY <1>2 DEF B!Has, LinksTypes, B!TypeOK, B!Row
  <2>3. QED
    BY <1>1, <1>2, <2>1, <2>2
<1>3. QED
  BY <1>1, <1>2 DEF B!LookUpAgain

\* What the user and time make of a row: a title goes only with the mark that it was
\* found, and no provider is taken to be asked.
Kept(row, old) ==
    /\ row.tried = "never" => row.shell \/ (old # B!NoRow /\ old.tried = "never" /\ ~old.shell)
    /\ row.found /\ ~row.title /\ ~row.custom
           => old # B!NoRow /\ old.found /\ ~old.title /\ ~old.custom

LEMMA MetadataWrites ==
    ASSUME LinksTypes, NEW c \in Codes, B!Metadata(c)
    PROVE  \E row \in B!Row : CacheSets(c, row) /\ Kept(row, cache[c]) /\ B!Has(c)
<1>1. B!Has(c) /\ cache[c] \in B!Row
  BY DEF B!Metadata, B!Has, LinksTypes, B!TypeOK
<1>2. PICK given \in BOOLEAN :
          cache' = [cache EXCEPT ![c].custom = given, ![c].found = given \/ cache[c].title]
  BY DEF B!Metadata
<1> DEFINE row == [cache[c] EXCEPT !.custom = given, !.found = given \/ cache[c].title]
<1>3. CacheSets(c, row)
  BY <1>2 DEF CacheSets, LinksTypes, B!TypeOK
<1>4. row \in B!Row
  BY <1>1 DEF B!Row
<1>5. Kept(row, cache[c])
  BY <1>1 DEF Kept, B!Row, B!Has
<1>6. QED
  BY <1>1, <1>3, <1>4, <1>5

LEMMA ManualWrites ==
    ASSUME LinksTypes, NEW c \in Codes, B!CreateManual(c)
    PROVE  \E row \in B!Row :
               CacheSets(c, row) /\ Kept(row, cache[c]) /\ c \notin deleted'
<1>1. c \notin deleted'
  BY DEF B!CreateManual
<1>2. PICK given \in BOOLEAN : cache' = [cache EXCEPT ![c] =
               IF ~B!Has(c)
               THEN [found |-> given, title |-> given, custom |-> given,
                     tried |-> "fresh", shell |-> FALSE]
               ELSE [cache[c] EXCEPT !.custom = @ \/ given, !.found = @ \/ given]]
  BY DEF B!CreateManual
<1>3. CASE ~B!Has(c)
  <2> DEFINE row == [found |-> given, title |-> given, custom |-> given,
                     tried |-> "fresh", shell |-> FALSE]
  <2>1. row \in B!Row /\ Kept(row, cache[c])
    BY DEF B!Row, Kept
  <2>2. CacheSets(c, row)
    BY <1>2, <1>3 DEF CacheSets
  <2>3. QED
    BY <1>1, <2>1, <2>2
<1>4. CASE B!Has(c)
  <2> DEFINE row == [cache[c] EXCEPT !.custom = cache[c].custom \/ given,
                                     !.found = cache[c].found \/ given]
  <2>1. cache[c] \in B!Row /\ cache[c] # B!NoRow
    BY <1>4 DEF B!Has, LinksTypes, B!TypeOK
  <2>2. row \in B!Row /\ Kept(row, cache[c])
    BY <2>1 DEF B!Row, Kept
  <2> DEFINE made == [found |-> given, title |-> given, custom |-> given,
                      tried |-> "fresh", shell |-> FALSE]
  <2>3. cache' = [cache EXCEPT ![c] = IF ~B!Has(c) THEN made ELSE row]
    BY <1>2
  <2>4. CacheSets(c, row)
    <3> HIDE DEF row, made
    <3>1. QED
      BY <1>4, <2>3 DEF CacheSets
  <2>5. QED
    BY <1>1, <2>2, <2>4
<1>5. QED
  BY <1>3, <1>4

LEMMA PageWrites ==
    ASSUME LinksTypes, NEW c \in Codes, B!ViewPage(c)
    PROVE  CacheSets(c, B!Shell) /\ ~B!Has(c) /\ (c \in known \/ ~Bare(c))
BY DEF B!ViewPage, B!Restored, CacheSets, B!TargetsOf, Bare

LEMMA ExpiryWrites ==
    ASSUME LinksTypes, NEW c \in Codes, B!Expire(c)
    PROVE  \E row \in B!Row : CacheSets(c, row) /\ Kept(row, cache[c]) /\ B!Has(c)
<1> DEFINE row == [cache[c] EXCEPT !.tried = "old"]
<1>1. B!Has(c) /\ cache[c] \in B!Row /\ cache[c] # B!NoRow
  BY DEF B!Expire, B!Has, LinksTypes, B!TypeOK
<1>2. CacheSets(c, row)
  BY DEF B!Expire, CacheSets, LinksTypes, B!TypeOK
<1>3. row \in B!Row /\ Kept(row, cache[c])
  BY <1>1 DEF B!Row, Kept
<1>4. QED
  BY <1>1, <1>2, <1>3

LEMMA ShellIsKept ==
    ASSUME NEW old
    PROVE  Kept(B!Shell, old) /\ Kept(B!Raw, old)
BY DEF Kept, B!Shell, B!Raw

LEMMA DeleteWrites ==
    ASSUME NEW c \in Codes, B!Delete(c)
    PROVE  CacheSets(c, B!NoRow)
BY DEF B!Delete, CacheSets

\* A row of the cache is left alone, deleted or written as by one of these.
LEMMA CacheSteps ==
    ASSUME LinksTypes, B!Next
    PROVE  \/ cache' = cache
           \/ \E c \in Codes : CacheSets(c, B!NoRow)
           \/ \E c \in Codes, row \in B!Row : CacheSets(c, row) /\ Kept(row, cache[c])
           \/ \E r \in Requests, c \in Codes : B!Store(r, c) \/ B!LookUpAgain(r, c)
<1>1. ASSUME NEW r \in Requests, NEW c \in Codes, B!ScanArrives(r, c)
      PROVE  \/ cache' = cache \/ CacheSets(c, B!NoRow)
             \/ CacheSets(c, B!Shell) /\ Kept(B!Shell, cache[c])
  BY <1>1, ArrivalWrites, ShellIsKept
<1>2. ASSUME NEW r \in Requests, NEW c \in Codes, B!Process(r, c)
      PROVE  cache' = cache \/ (CacheSets(c, B!Raw) /\ Kept(B!Raw, cache[c]))
  BY <1>2, ProcessWrites, ShellIsKept
<1>3. ASSUME NEW c \in Codes,
             B!Metadata(c) \/ B!CreateManual(c) \/ B!ViewPage(c) \/ B!Expire(c)
      PROVE  \E row \in B!Row : CacheSets(c, row) /\ Kept(row, cache[c])
  BY <1>3, MetadataWrites, ManualWrites, PageWrites, ExpiryWrites, ShellIsKept, RowsMade
<1>4. ASSUME NEW c \in Codes, B!Delete(c) PROVE CacheSets(c, B!NoRow)
  BY <1>4, DeleteWrites
<1>5. cache' = cache \/ CacheMoves
  BY CacheOnlyMoves
<1>6. QED
  BY <1>1, <1>2, <1>3, <1>4, <1>5, RowsMade DEF CacheMoves

LEMMA CacheTyped ==
    ASSUME LinksTypes, B!Next
    PROVE  cache' \in [Codes -> B!Row \cup {B!NoRow}]
<1>1. ASSUME NEW c \in Codes, NEW row \in B!Row \cup {B!NoRow}, CacheSets(c, row)
      PROVE  cache' \in [Codes -> B!Row \cup {B!NoRow}]
  BY <1>1 DEF CacheSets, LinksTypes, B!TypeOK
<1>2. CASE cache' = cache
  BY <1>2 DEF LinksTypes, B!TypeOK
<1>3. ASSUME NEW r \in Requests, NEW c \in Codes, B!Store(r, c) \/ B!LookUpAgain(r, c)
      PROVE  cache' = cache \/ \E row \in B!Row : CacheSets(c, row)
  BY <1>3, StoreWrites, AgainWrites
<1>4. QED
  BY <1>1, <1>2, <1>3, CacheSteps

-----------------------------------------------------------------------------
(* What a step makes of the targets.                                       *)

LEMMA IdsFinite ==
    ASSUME LinksTypes
    PROVE  B!Ids(targets) \subseteq Nat /\ IsFiniteSet(B!Ids(targets))
<1> DEFINE f == [t \in targets |-> t.id]
<1>1. targets \subseteq B!Target /\ IsFiniteSet(targets)
  BY DEF LinksTypes, B!TypeOK, B!IsFiniteSet, IsFiniteSet
<1>2. B!Ids(targets) \subseteq Nat
  BY <1>1 DEF B!Ids, B!Target
<1>3. f \in Surjection(targets, B!Ids(targets))
  BY DEF Surjection, B!Ids
<1>4. QED
  BY <1>1, <1>2, <1>3, FS_Surjection

LEMMA NewIdIsNew ==
    ASSUME LinksTypes
    PROVE  B!NewId \in Nat \ {0} /\ \A t \in targets : t.id # B!NewId
<1> DEFINE used == {0} \cup B!Ids(targets)
<1>1. used \in SUBSET Nat /\ IsFiniteSet(used) /\ used # {}
  <2>1. IsFiniteSet({0})
    BY FS_Singleton
  <2>2. B!Ids(targets) \subseteq Nat /\ IsFiniteSet(B!Ids(targets))
    BY IdsFinite
  <2>3. IsFiniteSet({0} \cup B!Ids(targets))
    BY <2>1, <2>2, FS_Union
  <2>4. QED
    BY <2>2, <2>3
<1>2. B!Max(used) \in used /\ \A m \in used : B!Max(used) >= m
  BY <1>1, MaxFacts
<1>3. \A t \in targets : t.id \in used
  BY DEF B!Ids
<1>4. B!NewId = 1 + B!Max(used)
  BY DEF B!NewId
<1> HIDE DEF used
<1>5. B!Max(used) \in Nat /\ \A t \in targets : t.id \in Nat /\ B!Max(used) >= t.id
  BY <1>1, <1>2, <1>3
<1>6. QED
  BY <1>4, <1>5

\* The same link, with other settings.
SameLink(t, u) == t.id = u.id /\ t.code = u.code /\ t.food = u.food

Relabelled ==
    \E f \in [targets -> B!Target] :
        (\A t \in targets : SameLink(t, f[t])) /\ targets' = {f[t] : t \in targets}

Adds(r, c) ==
    \E put \in B!Target :
        /\ put.id = B!NewId /\ put.code = c /\ put.food = req[r].food
        /\ targets' = targets \cup {put}

LEMMA OneRelabelled ==
    ASSUME LinksTypes, NEW t \in targets, NEW put \in B!Target, SameLink(t, put),
           targets' = (targets \ {t}) \cup {put}
    PROVE  Relabelled
<1> DEFINE f == [u \in targets |-> IF u = t THEN put ELSE u]
<1>1. targets \subseteq B!Target
  BY DEF LinksTypes, B!TypeOK
<1>2. f \in [targets -> B!Target]
  BY <1>1
<1>3. \A u \in targets : SameLink(u, f[u])
  BY DEF SameLink
<1>4. targets' = {f[u] : u \in targets}
  OBVIOUS
<1>5. QED
  BY <1>2, <1>3, <1>4 DEF Relabelled

LEMMA ConfirmRelabels ==
    ASSUME LinksTypes, NEW c \in Codes, B!Confirm(c)
    PROVE  Relabelled
<1> DEFINE new(t) == IF t.code = c /\ t.by = "auto"
                     THEN [t EXCEPT !.by = "auto_confirmed", !.own = TRUE]
                     ELSE t
           f == [t \in targets |-> new(t)]
<1>1. targets \subseteq B!Target
  BY DEF LinksTypes, B!TypeOK
<1>2. targets' = {f[t] : t \in targets}
  BY DEF B!Confirm
<1>3. \A t \in targets : new(t) \in B!Target /\ SameLink(t, new(t))
  BY <1>1 DEF B!Target, SameLink
<1>4. f \in [targets -> B!Target] /\ \A t \in targets : SameLink(t, f[t])
  BY <1>3
<1>5. QED
  BY <1>2, <1>4 DEF Relabelled

LEMMA AddWrites ==
    ASSUME LinksTypes, NEW r \in Requests, NEW c \in Codes, Stage(r), B!Add(r, c)
    PROVE  /\ req[r].at = "add" /\ req[r].code = c
           /\ \/ req[r].ids = {} /\ Adds(r, c)
              \/ req[r].ids # {} /\ Relabelled
<1>1. req[r].at = "add" /\ req[r].code = c
  BY DEF B!Add
<1>2. req[r].food \in Foods /\ B!NewId \in Nat \ {0}
  BY <1>1, NewIdIsNew DEF Stage, StageOf
<1> DEFINE user == req[r].op = "map"
           set(id) == [id |-> id, code |-> c, food |-> req[r].food, own |-> user,
                       by |-> IF user THEN "manual" ELSE "auto"]
<1>3. \/ req[r].ids = {} /\ targets' = targets \cup {set(B!NewId)}
      \/ \E t \in targets :
             /\ req[r].ids = {t.id}
             /\ targets' = (targets \ {t})
                           \cup {[set(t.id) EXCEPT !.code = t.code, !.food = t.food]}
  BY DEF B!Add
<1>4. CASE req[r].ids = {} /\ targets' = targets \cup {set(B!NewId)}
  <2>1. set(B!NewId) \in B!Target
    BY <1>2 DEF B!Target, B!NoTarget
  <2>2. Adds(r, c)
    BY <1>4, <2>1 DEF Adds
  <2>3. QED
    BY <1>1, <1>4, <2>2
<1>5. ASSUME NEW t \in targets, req[r].ids = {t.id},
             targets' = (targets \ {t})
                        \cup {[set(t.id) EXCEPT !.code = t.code, !.food = t.food]}
      PROVE  Relabelled
  <2> DEFINE put == [set(t.id) EXCEPT !.code = t.code, !.food = t.food]
  <2>1. t \in B!Target
    BY DEF LinksTypes, B!TypeOK
  <2>2. put \in B!Target /\ SameLink(t, put)
    BY <2>1 DEF B!Target, SameLink
  <2>3. targets' = (targets \ {t}) \cup {put}
    BY <1>5
  <2> HIDE DEF put
  <2>4. QED
    BY <2>2, <2>3, OneRelabelled
<1>6. QED
  BY <1>1, <1>3, <1>4, <1>5

LEMMA TargetSteps ==
    ASSUME LinksTypes, B!Next, \A r \in Requests : Stage(r)
    PROVE  \/ targets' \subseteq targets
           \/ Relabelled
           \/ \E r \in Requests, c \in Codes :
                  /\ req[r].at = "add" /\ req[r].code = c /\ req[r].ids = {}
                  /\ Adds(r, c)
<1>1. ASSUME NEW r \in Requests, NEW c \in Codes, B!Add(r, c)
      PROVE  \/ req[r].at = "add" /\ req[r].code = c /\ req[r].ids = {} /\ Adds(r, c)
             \/ Relabelled
  BY <1>1, AddWrites
<1>2. CASE B!Settings
  <2>1. PICK t \in targets : targets' = (targets \ {t}) \cup {[t EXCEPT !.own = TRUE]}
    BY <1>2 DEF B!Settings
  <2>2. t \in B!Target
    BY DEF LinksTypes, B!TypeOK
  <2>3. [t EXCEPT !.own = TRUE] \in B!Target /\ SameLink(t, [t EXCEPT !.own = TRUE])
    BY <2>2 DEF B!Target, SameLink
  <2>4. Relabelled
    BY <2>1, <2>3, OneRelabelled
  <2>5. QED
    BY <2>4
<1>3. CASE B!DeleteTarget
  BY <1>3 DEF B!DeleteTarget
<1>4. ASSUME NEW c \in Codes, B!Confirm(c) PROVE Relabelled
  BY <1>4, ConfirmRelabels
<1>5. ASSUME NEW c \in Codes, B!Unmap(c) \/ B!Delete(c) PROVE targets' \subseteq targets
  BY <1>5 DEF B!Unmap, B!Delete
<1>6. targets' = targets \/ TargetMoves
  BY TargetsOnlyMove
<1>7. QED
  BY <1>1, <1>2, <1>3, <1>4, <1>5, <1>6 DEF TargetMoves

LEMMA TargetsTyped ==
    ASSUME LinksTypes, B!Next, \A r \in Requests : Stage(r)
    PROVE  targets' \subseteq B!Target /\ IsFiniteSet(targets')
<1>1. targets \subseteq B!Target /\ IsFiniteSet(targets)
  BY DEF LinksTypes, B!TypeOK, B!IsFiniteSet, IsFiniteSet
<1>2. CASE targets' \subseteq targets
  BY <1>1, <1>2, FS_Subset
<1>3. CASE Relabelled
  <2>1. PICK f \in [targets -> B!Target] : targets' = {f[t] : t \in targets}
    BY <1>3 DEF Relabelled
  <2>2. f \in Surjection(targets, targets')
    BY <2>1 DEF Surjection
  <2>3. IsFiniteSet(targets')
    BY <1>1, <2>2, FS_Surjection
  <2>4. QED
    BY <2>1, <2>3
<1>4. ASSUME NEW r \in Requests, NEW c \in Codes, Adds(r, c)
      PROVE  targets' \subseteq B!Target /\ IsFiniteSet(targets')
  <2>1. PICK put \in B!Target : targets' = targets \cup {put}
    BY <1>4 DEF Adds
  <2>2. IsFiniteSet(targets')
    BY <1>1, <2>1, FS_AddElement
  <2>3. QED
    BY <1>1, <2>1, <2>2
<1>5. QED
  BY <1>2, <1>3, <1>4, TargetSteps

LEMMA IdsStayApart ==
    ASSUME LinksTypes, B!Next, IdsApart, \A r \in Requests : Stage(r)
    PROVE  IdsApart'
<1>1. CASE targets' \subseteq targets
  BY <1>1 DEF IdsApart
<1>2. CASE Relabelled
  <2>1. PICK f \in [targets -> B!Target] : /\ \A t \in targets : SameLink(t, f[t])
                                           /\ targets' = {f[t] : t \in targets}
    BY <1>2 DEF Relabelled
  <2>2. \A t, u \in targets : f[t].id = f[u].id => f[t] = f[u]
    BY <2>1 DEF SameLink, IdsApart
  <2>3. QED
    BY <2>1, <2>2 DEF IdsApart
<1>3. ASSUME NEW r \in Requests, NEW c \in Codes, Adds(r, c) PROVE IdsApart'
  <2>1. PICK put \in B!Target : put.id = B!NewId /\ targets' = targets \cup {put}
    BY <1>3 DEF Adds
  <2>2. \A t \in targets : t.id # put.id
    BY <2>1, NewIdIsNew
  <2>3. QED
    BY <2>1, <2>2 DEF IdsApart
<1>4. QED
  BY <1>1, <1>2, <1>3, TargetSteps

LEMMA TwinsStayAway ==
    ASSUME LinksTypes, B!Next, B!NoTwins, RequestsFit
    PROVE  B!NoTwins'
<1>1. SUFFICES ASSUME crossed' = {}
               PROVE  \A t, u \in targets' : t.code = u.code /\ t.food = u.food => t = u
  BY DEF B!NoTwins
<1>2. crossed = {}
  BY <1>1, CrossedGrows
<1>3. \A t, u \in targets : t.code = u.code /\ t.food = u.food => t = u
  BY <1>2 DEF B!NoTwins
<1>4. CASE targets' \subseteq targets
  BY <1>3, <1>4
<1>5. CASE Relabelled
  <2>1. PICK f \in [targets -> B!Target] : /\ \A t \in targets : SameLink(t, f[t])
                                           /\ targets' = {f[t] : t \in targets}
    BY <1>5 DEF Relabelled
  <2>2. \A t, u \in targets :
            f[t].code = f[u].code /\ f[t].food = f[u].food => f[t] = f[u]
    BY <1>3, <2>1 DEF SameLink
  <2>3. QED
    BY <2>1, <2>2
<1>6. ASSUME NEW r \in Requests, NEW c \in Codes, Adds(r, c),
             req[r].at = "add", req[r].code = c, req[r].ids = {}
      PROVE  \A t, u \in targets' : t.code = u.code /\ t.food = u.food => t = u
  <2>1. PICK put \in B!Target : /\ put.code = c /\ put.food = req[r].food
                                /\ targets' = targets \cup {put}
    BY <1>6 DEF Adds
  <2>2. ~Linked(c, req[r].food)
    BY <1>2, <1>6 DEF RequestsFit, Fits, B!Busy
  <2>3. \A t \in targets : ~(t.code = put.code /\ t.food = put.food)
    BY <2>1, <2>2 DEF Linked
  <2>4. QED
    BY <1>3, <2>1, <2>3
<1>7. \A r \in Requests : Stage(r)
  BY DEF RequestsFit
<1>8. QED
  BY <1>4, <1>5, <1>6, <1>7, TargetSteps

-----------------------------------------------------------------------------
(* What a step makes of a request.                                         *)

\* Request r goes on to new.
GoesOn(r, new) ==
    /\ new \in B!Request /\ req' = [req EXCEPT ![r] = new]
    /\ new.op = req[r].op /\ new.code = req[r].code
    /\ new.at # req[r].at /\ new.at # "idle"
    /\ StageOf(new)

LEMMA EndGoesOn ==
    ASSUME LinksTypes, NEW r \in Requests, B!Busy(r), NEW ids \in SUBSET Nat,
           NEW answer \in B!Answers, NEW new,
           new = [req[r] EXCEPT !.at = "ended", !.ids = ids, !.answer = answer],
           req' = [req EXCEPT ![r] = new]
    PROVE  GoesOn(r, new)
BY DEF LinksTypes, B!TypeOK, B!Request, B!Busy, B!Stages, GoesOn, StageOf

LEMMA FailureGoesOn ==
    ASSUME LinksTypes, NEW r \in Requests, B!Busy(r), NEW answer \in B!Answers,
           B!Ends(r, answer)
    PROVE  GoesOn(r, [req[r] EXCEPT !.at = "ended", !.answer = answer])
BY DEF LinksTypes, B!TypeOK, B!Request, B!Busy, B!Stages, GoesOn, StageOf, B!Ends, B!Goes

LEMMA TargetIds ==
    ASSUME LinksTypes, NEW ts \in SUBSET targets
    PROVE  B!Ids(ts) \in SUBSET Nat
BY DEF LinksTypes, B!TypeOK, B!Target, B!Ids

LEMMA ArrivalGoesOn ==
    ASSUME LinksTypes, NEW r \in Requests, NEW c \in Codes, Stage(r), B!ScanArrives(r, c)
    PROVE  /\ req[r].at = "idle" /\ req[r].op = "scan" /\ req[r].code = c
           /\ GoesOn(r, [req[r] EXCEPT !.at = "gate"])
<1>1. /\ req[r].at = "idle" /\ req[r].op = "scan" /\ req[r].code = c
      /\ req' = [req EXCEPT ![r] = [req[r] EXCEPT !.at = "gate"]]
  BY DEF B!ScanArrives, B!Begin, B!Goes
<1>2. [req[r] EXCEPT !.at = "gate"] \in B!Request
  BY DEF LinksTypes, B!TypeOK, B!Request, B!Stages
<1>3. QED
  BY <1>1, <1>2 DEF GoesOn, StageOf, Stage, LinksTypes, B!TypeOK, B!Request

LEMMA LookGoesOn ==
    ASSUME LinksTypes, NEW r \in Requests, NEW c \in Codes, Stage(r), B!ScanLooks(r, c)
    PROVE  \E new :
               /\ GoesOn(r, new)
               /\ req[r].at = "gate" /\ req[r].code = c
               /\ \/ new.at = "process" /\ Bare(c)
                  \/ new.at = "route" /\ new.ids = B!Ids(B!TargetsOf(c))
<1> DEFINE new == [req[r] EXCEPT !.ids = B!Ids(B!TargetsOf(c)),
                                 !.at = IF B!TargetsOf(c) = {} THEN "process" ELSE "route"]
<1>1. req[r].at = "gate" /\ req[r].code = c /\ req' = [req EXCEPT ![r] = new]
  BY DEF B!ScanLooks, B!Goes
<1>2. B!Ids(B!TargetsOf(c)) \in SUBSET Nat
  BY TargetIds DEF B!TargetsOf
<1>3. Bare(c) <=> B!TargetsOf(c) = {}
  BY DEF Bare, B!TargetsOf
<1>4. new \in B!Request
  BY <1>2 DEF LinksTypes, B!TypeOK, B!Request, B!Stages
<1>5. GoesOn(r, new)
  BY <1>1, <1>4 DEF GoesOn, StageOf, Stage, LinksTypes, B!TypeOK, B!Request
<1>6. \/ new.at = "process" /\ Bare(c)
      \/ new.at = "route" /\ new.ids = B!Ids(B!TargetsOf(c))
  BY <1>3 DEF LinksTypes, B!TypeOK, B!Request
<1>7. QED
  BY <1>1, <1>5, <1>6

LEMMA RouteGoesOn ==
    ASSUME LinksTypes, NEW r \in Requests, B!Route(r)
    PROVE  \E new :
               /\ GoesOn(r, new) /\ req[r].at = "route" /\ new.at = "ended"
               /\ new.ids = B!Ids({t \in targets : t.id \in req[r].ids})
               /\ new.answer \in {"failed", "routed"}
<1> DEFINE found == {t \in targets : t.id \in req[r].ids}
           answer == IF found = {} THEN "failed" ELSE "routed"
           ids == B!Ids(found)
           new == [req[r] EXCEPT !.at = "ended", !.ids = ids, !.answer = answer]
<1>1. req[r].at = "route" /\ req' = [req EXCEPT ![r] = new]
  BY DEF B!Route, B!Goes
<1>2. B!Busy(r) /\ answer \in B!Answers /\ ids \in SUBSET Nat
  BY <1>1, TargetIds DEF B!Busy, B!Answers
<1>3. new.at = "ended" /\ new.ids = ids /\ new.answer = answer
  BY DEF LinksTypes, B!TypeOK, B!Request
<1> HIDE DEF ids
<1>4. GoesOn(r, new)
  <2> HIDE DEF answer
  <2>1. QED
    BY <1>1, <1>2, EndGoesOn
<1>5. QED
  BY <1>1, <1>3, <1>4 DEF ids

LEMMA ProcessGoesOn ==
    ASSUME LinksTypes, NEW r \in Requests, NEW c \in Codes, Stage(r), B!Process(r, c)
    PROVE  \E new :
               /\ GoesOn(r, new) /\ req[r].at = "process" /\ req[r].code = c
               /\ \/ /\ new.at = "ended" /\ new.answer = "routed"
                     /\ new.ids = B!Ids(B!TargetsOf(c)) /\ cache' = cache
                  \/ /\ new.at = "lookup" /\ new.loaded = cache[c] /\ cache' = cache
                     /\ Bare(c) /\ (B!Has(c) => ~cache[c].found)
                  \/ new.at = "match" /\ Bare(c) /\ B!Has(c) /\ cache[c].found
                     /\ cache' = cache
                  \/ /\ new.at = "ended" /\ new.answer = "unknown" /\ Bare(c)
                     /\ \/ B!Has(c) /\ ~cache[c].found /\ cache' = cache
                        \/ ~B!Has(c) /\ CacheSets(c, B!Raw)
<1>1. req[r].at = "process" /\ req[r].code = c /\ B!Busy(r)
  BY DEF B!Process, B!Busy
<1>2. req[r] \in B!Request /\ cache[c] \in B!Row \cup {B!NoRow}
  BY DEF LinksTypes, B!TypeOK
<1>3. Bare(c) <=> B!TargetsOf(c) = {}
  BY DEF Bare, B!TargetsOf
<1>4. CASE B!TargetsOf(c) # {}
  <2> DEFINE ids == B!Ids(B!TargetsOf(c))
             new == [req[r] EXCEPT !.at = "ended", !.ids = ids, !.answer = "routed"]
  <2>1. req' = [req EXCEPT ![r] = new] /\ cache' = cache
    BY <1>4 DEF B!Process, B!Goes
  <2>2. ids \in SUBSET Nat
    BY TargetIds DEF B!TargetsOf
  <2>3. new.at = "ended" /\ new.answer = "routed" /\ new.ids = ids
    BY <1>2 DEF B!Request
  <2> HIDE DEF ids
  <2>4. GoesOn(r, new)
    BY <1>1, <2>1, <2>2, EndGoesOn DEF B!Answers
  <2>5. QED
    BY <1>1, <2>1, <2>3, <2>4 DEF ids
<1>5. CASE B!TargetsOf(c) = {} /\ B!NeedsLookup(c)
  <2> DEFINE new == [req[r] EXCEPT !.at = "lookup", !.loaded = cache[c]]
  <2>1. req' = [req EXCEPT ![r] = new] /\ cache' = cache
    BY <1>5 DEF B!Process, B!Goes
  <2>2. c \in Numeric /\ (B!Has(c) => ~cache[c].found)
    BY <1>5 DEF B!NeedsLookup
  <2>3. new \in B!Request /\ new.at = "lookup" /\ new.loaded = cache[c]
        /\ new.op = req[r].op /\ new.code = c /\ new.answer = req[r].answer
    BY <1>1, <1>2 DEF B!Request, B!Stages
  <2> HIDE DEF new
  <2>4. GoesOn(r, new)
    BY <1>1, <2>1, <2>2, <2>3 DEF GoesOn, StageOf, Stage
  <2>5. QED
    BY <1>1, <1>3, <1>5, <2>1, <2>2, <2>3, <2>4
<1>6. CASE B!TargetsOf(c) = {} /\ ~B!NeedsLookup(c) /\ B!Has(c) /\ cache[c].found
  <2> DEFINE new == [req[r] EXCEPT !.at = "match"]
  <2>1. req' = [req EXCEPT ![r] = new] /\ cache' = cache
    BY <1>6 DEF B!Process, B!Goes
  <2>2. new \in B!Request /\ new.at = "match"
        /\ new.op = req[r].op /\ new.code = c /\ new.answer = req[r].answer
    BY <1>1, <1>2 DEF B!Request, B!Stages
  <2> HIDE DEF new
  <2>3. GoesOn(r, new)
    BY <1>1, <2>1, <2>2 DEF GoesOn, StageOf, Stage
  <2>4. QED
    BY <1>1, <1>3, <1>6, <2>1, <2>2, <2>3
<1>7. CASE B!TargetsOf(c) = {} /\ ~B!NeedsLookup(c) /\ ~(B!Has(c) /\ cache[c].found)
  <2> DEFINE new == [req[r] EXCEPT !.at = "ended", !.answer = "unknown"]
  <2>1. B!Ends(r, "unknown")
    BY <1>7 DEF B!Process
  <2>2. \/ B!Has(c) /\ ~cache[c].found /\ cache' = cache
        \/ ~B!Has(c) /\ CacheSets(c, B!Raw)
    BY <1>7 DEF B!Process, CacheSets
  <2>3. new.at = "ended" /\ new.answer = "unknown"
    BY <1>2 DEF B!Request
  <2>4. GoesOn(r, new)
    BY <1>1, <2>1, FailureGoesOn DEF B!Answers
  <2> HIDE DEF new
  <2>5. QED
    BY <1>1, <1>3, <1>7, <2>2, <2>3, <2>4
<1>8. QED
  BY <1>4, <1>5, <1>6, <1>7

LEMMA AnswerGoesOn ==
    ASSUME LinksTypes, NEW r \in Requests, NEW c \in Codes, Stage(r), B!Answered(r, c)
    PROVE  \E new :
               /\ GoesOn(r, new) /\ req[r].at = "lookup" /\ req[r].code = c
               /\ new.at = "store"
               /\ new.loaded = IF req[r].loaded = B!NoRow THEN cache[c] ELSE req[r].loaded
<1>1. req[r].at = "lookup" /\ req[r].code = c
  BY DEF B!Answered
<1>2. /\ req[r] \in B!Request /\ req[r].loaded \in B!Row \cup {B!NoRow}
      /\ cache[c] \in B!Row \cup {B!NoRow}
  BY DEF LinksTypes, B!TypeOK, B!Request
<1> DEFINE row == IF req[r].loaded = B!NoRow THEN cache[c] ELSE req[r].loaded
<1>3. PICK hit \in BOOLEAN :
          req' = [req EXCEPT ![r] =
                     [req[r] EXCEPT !.at = "store", !.hit = hit, !.loaded = row]]
  BY DEF B!Answered, B!Goes, B!ProviderAnswers
<1>4. row \in B!Row \cup {B!NoRow}
  BY <1>2
<1> DEFINE new == [req[r] EXCEPT !.at = "store", !.hit = hit, !.loaded = row]
<1>5. req' = [req EXCEPT ![r] = new]
  BY <1>3
<1>6. new \in B!Request /\ new.at = "store" /\ new.loaded = row
      /\ new.op = req[r].op /\ new.code = c /\ new.answer = req[r].answer
  <2> HIDE DEF row
  <2>1. QED
    BY <1>1, <1>2, <1>4 DEF B!Request, B!Stages
<1> HIDE DEF new
<1>7. GoesOn(r, new)
  BY <1>1, <1>5, <1>6 DEF GoesOn, StageOf, Stage
<1>8. QED
  BY <1>1, <1>6, <1>7

LEMMA StoreGoesOn ==
    ASSUME LinksTypes, NEW r \in Requests, NEW c \in Codes, Stage(r), B!Store(r, c)
    PROVE  \E new, row :
               /\ GoesOn(r, new) /\ req[r].at = "store" /\ req[r].code = c
               /\ row \in B!Row /\ CacheSets(c, row) /\ row.tried = "fresh"
               /\ StoredAs(row, cache[c], req[r].loaded, req[r].hit)
               /\ \/ new.at = "match" /\ req[r].op = "scan"
                  \/ new.at = "ended" /\ new.answer \in {"unknown", "none"}
<1>1. PICK row \in B!Row :
               /\ CacheSets(c, row)
               /\ row.tried = "fresh"
               /\ StoredAs(row, cache[c], req[r].loaded, req[r].hit)
               /\ req'[r] = IF req[r].op = "scan" /\ row.found
                            THEN [req[r] EXCEPT !.at = "match"]
                            ELSE [req[r] EXCEPT !.at = "ended", !.answer =
                                     IF req[r].op = "scan" THEN "unknown" ELSE "none"]
  BY StoreWrites
<1>2. req[r].at = "store" /\ req[r].code = c /\ req[r] \in B!Request
  BY DEF B!Store, LinksTypes, B!TypeOK
<1>3. req' = [req EXCEPT ![r] = req'[r]]
  BY DEF B!Store, B!Goes, B!Ends, LinksTypes, B!TypeOK
<1>4. CASE req[r].op = "scan" /\ row.found
  <2> DEFINE new == [req[r] EXCEPT !.at = "match"]
  <2>1. new = req'[r]
    BY <1>1, <1>4
  <2>2. new \in B!Request /\ new.at = "match"
        /\ new.op = "scan" /\ new.code = c /\ new.answer = req[r].answer
    BY <1>2, <1>4 DEF B!Request, B!Stages
  <2> HIDE DEF new
  <2>3. GoesOn(r, new)
    BY <1>2, <1>3, <1>4, <2>1, <2>2 DEF GoesOn, StageOf, Stage
  <2>4. QED
    BY <1>1, <1>2, <1>4, <2>2, <2>3
<1>5. CASE ~(req[r].op = "scan" /\ row.found)
  <2> DEFINE answer == IF req[r].op = "scan" THEN "unknown" ELSE "none"
             new == [req[r] EXCEPT !.at = "ended", !.answer = answer]
  <2>1. new = req'[r]
    BY <1>1, <1>5
  <2>2. answer \in {"unknown", "none"}
    OBVIOUS
  <2> HIDE DEF answer
  <2>3. new \in B!Request /\ new.at = "ended"
        /\ new.op = req[r].op /\ new.code = c /\ new.answer = answer
    BY <1>2, <2>2 DEF B!Request, B!Stages, B!Answers
  <2> HIDE DEF new
  <2>4. GoesOn(r, new)
    BY <1>2, <1>3, <2>1, <2>3 DEF GoesOn, StageOf
  <2>5. QED
    BY <1>1, <1>2, <2>2, <2>3, <2>4
<1>6. QED
  BY <1>4, <1>5

LEMMA AgainGoesOn ==
    ASSUME LinksTypes, NEW r \in Requests, NEW c \in Codes, Stage(r), B!LookUpAgain(r, c)
    PROVE  \E new :
               /\ GoesOn(r, new) /\ req[r].at = "idle" /\ new.op = "lookup" /\ new.code = c
               /\ new.at \in {"lookup", "ended"}
               /\ \/ cache' = cache
                  \/ /\ new.loaded \in B!Row /\ CacheSets(c, new.loaded) /\ B!Has(c)
                     /\ new.loaded = [cache[c] EXCEPT !.custom = FALSE]
                     /\ c \in Numeric => new.at = "lookup"
<1>1. /\ req[r].at = "idle" /\ req[r].op = "lookup" /\ req[r].code = c
      /\ req[r] \in B!Request /\ req[r].answer = "none"
  BY AgainWrites DEF LinksTypes, B!TypeOK, Stage, StageOf
<1>2. CASE cache' = cache /\ c \in Numeric
           /\ req' = [req EXCEPT ![r] = [req[r] EXCEPT !.at = "lookup"]]
  <2> DEFINE new == [req[r] EXCEPT !.at = "lookup"]
  <2>1. new \in B!Request /\ new.at = "lookup"
        /\ new.op = "lookup" /\ new.code = c /\ new.answer = "none"
    BY <1>1 DEF B!Request, B!Stages
  <2>2. req' = [req EXCEPT ![r] = new]
    BY <1>2
  <2> HIDE DEF new
  <2>3. GoesOn(r, new)
    BY <1>1, <1>2, <2>1, <2>2 DEF GoesOn, StageOf
  <2>4. QED
    BY <1>1, <1>2, <2>1, <2>3
<1>3. CASE /\ B!Has(c)
           /\ cache' = [cache EXCEPT ![c] = [cache[c] EXCEPT !.custom = FALSE]]
           /\ req' = [req EXCEPT ![r] =
                  [req[r] EXCEPT !.loaded = [cache[c] EXCEPT !.custom = FALSE],
                                 !.at = IF c \in Numeric THEN "lookup" ELSE "ended"]]
  <2> DEFINE row == [cache[c] EXCEPT !.custom = FALSE]
             stage == IF c \in Numeric THEN "lookup" ELSE "ended"
             new == [req[r] EXCEPT !.loaded = row, !.at = stage]
  <2>1. row \in B!Row
    BY <1>3 DEF B!Has, LinksTypes, B!TypeOK, B!Row
  <2>2. /\ CacheSets(c, row) /\ req' = [req EXCEPT ![r] = new]
        /\ row = [cache[c] EXCEPT !.custom = FALSE]
    BY <1>3 DEF CacheSets
  <2>3. stage \in {"lookup", "ended"} /\ (stage = "lookup" <=> c \in Numeric)
    OBVIOUS
  <2> HIDE DEF row, stage
  <2>4. new \in B!Request /\ new.at = stage /\ new.loaded = row
        /\ new.op = "lookup" /\ new.code = c /\ new.answer = "none"
    BY <1>1, <2>1, <2>3 DEF B!Request, B!Stages
  <2> HIDE DEF new
  <2>5. GoesOn(r, new)
    BY <1>1, <2>2, <2>3, <2>4 DEF GoesOn, StageOf
  <2>6. QED
    BY <1>1, <1>3, <2>1, <2>2, <2>3, <2>4, <2>5
<1>4. QED
  BY <1>2, <1>3 DEF B!LookUpAgain, B!Goes

\* add_target looks for the link.
LEMMA AddLooksGoesOn ==
    ASSUME LinksTypes, NEW r \in Requests, NEW c \in Codes, NEW f \in Foods,
           req[r].code = c, req[r].op \in {"scan", "map"}, req[r].at \in {"idle", "match"},
           req[r].answer = "none", B!AddLooks(r, c, f)
    PROVE  \E new :
               /\ GoesOn(r, new) /\ new.at = "add" /\ new.food = f
               /\ new.ids = {} <=> ~Linked(c, f)
<1> DEFINE same == B!SameTarget(c, f)
           ids == IF same = {} THEN {} ELSE {B!Min(B!Ids(same))}
           new == [req[r] EXCEPT !.at = "add", !.food = f, !.ids = ids]
<1>1. req' = [req EXCEPT ![r] = new]
  BY DEF B!AddLooks, B!Goes
<1>2. same = {} <=> ~Linked(c, f)
  BY DEF B!SameTarget, B!TargetsOf, Linked
<1>3. same \in SUBSET targets
  BY DEF B!SameTarget, B!TargetsOf
<1>4. B!Ids(same) \in SUBSET Nat /\ (same # {} => B!Ids(same) # {})
  BY <1>3, TargetIds DEF B!Ids
<1> HIDE DEF same
<1>5. ids \in SUBSET Nat /\ (ids = {} <=> same = {})
  <2>1. same # {} => B!Min(B!Ids(same)) \in Nat
    BY <1>4, MinFacts
  <2>2. QED
    BY <2>1
<1> HIDE DEF ids
<1>6. req[r] \in B!Request
  BY DEF LinksTypes, B!TypeOK
<1>7. new \in B!Request /\ new.at = "add" /\ new.food = f /\ new.ids = ids
      /\ new.op = req[r].op /\ new.code = c /\ new.answer = "none"
  BY <1>5, <1>6 DEF B!Request, B!Stages
<1> HIDE DEF new
<1>8. GoesOn(r, new)
  BY <1>1, <1>7 DEF GoesOn, StageOf
<1>9. QED
  BY <1>2, <1>5, <1>7, <1>8

LEMMA MatchGoesOn ==
    ASSUME LinksTypes, NEW r \in Requests, NEW c \in Codes, Stage(r), B!Match(r, c)
    PROVE  \E new :
               /\ GoesOn(r, new) /\ req[r].at = "match" /\ req[r].code = c
               /\ \/ new.at = "ended" /\ new.answer = "noted"
                  \/ new.at = "add" /\ (new.ids = {} <=> ~Linked(c, new.food))
<1>1. req[r].at = "match" /\ req[r].code = c /\ req[r] \in B!Request /\ B!Busy(r)
      /\ req[r].op = "scan" /\ req[r].answer = "none"
  BY DEF B!Match, B!Busy, LinksTypes, B!TypeOK, Stage, StageOf
<1>2. CASE B!Ends(r, "noted")
  <2> DEFINE new == [req[r] EXCEPT !.at = "ended", !.answer = "noted"]
  <2>1. GoesOn(r, new)
    BY <1>1, <1>2, FailureGoesOn DEF B!Answers
  <2>2. new.at = "ended" /\ new.answer = "noted"
    BY <1>1 DEF B!Request
  <2> HIDE DEF new
  <2>3. QED
    BY <1>1, <2>1, <2>2
<1>3. ASSUME NEW f \in Foods, B!AddLooks(r, c, f)
      PROVE  \E new : /\ GoesOn(r, new) /\ new.at = "add"
                      /\ new.ids = {} <=> ~Linked(c, new.food)
  <2>1. \E new : /\ GoesOn(r, new) /\ new.at = "add" /\ new.food = f
                 /\ new.ids = {} <=> ~Linked(c, f)
    BY <1>1, <1>3, AddLooksGoesOn
  <2>2. QED
    BY <2>1
<1>4. B!Ends(r, "noted") \/ \E f \in Foods : B!AddLooks(r, c, f)
  BY DEF B!Match, B!BestMatches
<1>5. QED
  BY <1>1, <1>2, <1>3, <1>4

LEMMA MapGoesOn ==
    ASSUME LinksTypes, NEW r \in Requests, NEW c \in Codes, Stage(r), B!Map(r, c)
    PROVE  \E new :
               /\ GoesOn(r, new) /\ req[r].at = "idle" /\ req[r].op = "map"
               /\ req[r].code = c
               /\ new.at = "add" /\ (new.ids = {} <=> ~Linked(c, new.food))
<1>1. req[r].at = "idle" /\ req[r].code = c /\ req[r].op = "map"
      /\ req[r].answer = "none"
  BY DEF B!Map, B!Begin, Stage, StageOf
<1>2. PICK f \in Foods : B!AddLooks(r, c, f)
  BY DEF B!Map
<1>3. \E new : /\ GoesOn(r, new) /\ new.at = "add" /\ new.food = f
               /\ new.ids = {} <=> ~Linked(c, f)
  BY <1>1, <1>2, AddLooksGoesOn
<1>4. QED
  BY <1>1, <1>3

LEMMA AddGoesOn ==
    ASSUME LinksTypes, NEW r \in Requests, NEW c \in Codes, Stage(r), B!Add(r, c),
           targets' \subseteq B!Target
    PROVE  \E new :
               /\ GoesOn(r, new) /\ req[r].at = "add" /\ req[r].code = c
               /\ new.at = "ended" /\ new.answer \in {"none", "routed"}
               /\ new.ids = B!Ids({t \in targets' : t.code = c})
<1> DEFINE answer == IF req[r].op = "map" THEN "none" ELSE "routed"
           ids == B!Ids({t \in targets' : t.code = c})
           new == [req[r] EXCEPT !.at = "ended", !.answer = answer, !.ids = ids]
<1>1. req[r].at = "add" /\ req[r].code = c /\ req[r] \in B!Request
  BY DEF B!Add, LinksTypes, B!TypeOK
<1>2. req' = [req EXCEPT ![r] = new]
  BY DEF B!Add, B!Goes
<1>3. answer \in {"none", "routed"}
  OBVIOUS
<1>4. ids \in SUBSET Nat
  BY DEF B!Ids, B!Target
<1> HIDE DEF answer, ids
<1>5. new \in B!Request /\ new.at = "ended" /\ new.ids = ids /\ new.answer = answer
      /\ new.op = req[r].op /\ new.code = c
  BY <1>1, <1>3, <1>4 DEF B!Request, B!Stages, B!Answers
<1> HIDE DEF new
<1>6. GoesOn(r, new)
  BY <1>1, <1>2, <1>5 DEF GoesOn, StageOf
<1>7. QED
  BY <1>1, <1>3, <1>5, <1>6 DEF ids

LEMMA FailuresGoOn ==
    ASSUME LinksTypes, NEW r \in Requests, NEW c \in Codes,
           B!StoreFails(r, c) \/ B!AddFails(r, c)
    PROVE  \E new :
               /\ GoesOn(r, new) /\ req[r].at \in {"store", "add"} /\ req[r].code = c
               /\ new.at = "ended" /\ new.answer = "failed"
<1> DEFINE new == [req[r] EXCEPT !.at = "ended", !.answer = "failed"]
<1>1. /\ req[r].at \in {"store", "add"} /\ req[r].code = c /\ B!Ends(r, "failed")
      /\ req[r] \in B!Request /\ B!Busy(r)
  BY DEF B!StoreFails, B!AddFails, B!Busy, LinksTypes, B!TypeOK
<1>2. GoesOn(r, new)
  BY <1>1, FailureGoesOn DEF B!Answers
<1>3. new.at = "ended" /\ new.answer = "failed"
  BY <1>1 DEF B!Request
<1> HIDE DEF new
<1>4. QED
  BY <1>1, <1>2, <1>3

\* A request that moves goes on to another stage; the others stay as they are.
LEMMA RequestSteps ==
    ASSUME LinksTypes, NEW r \in Requests, Stage(r), RequestMoves(r),
           targets' \subseteq B!Target
    PROVE  \E new : GoesOn(r, new)
<1>1. CASE B!Route(r)
  BY <1>1, RouteGoesOn
<1>2. ASSUME NEW c \in Codes, B!Handles(r, c) PROVE \E new : GoesOn(r, new)
  <2>1. CASE B!ScanArrives(r, c) \/ B!ScanLooks(r, c) \/ B!Process(r, c)
    BY <2>1, ArrivalGoesOn, LookGoesOn, ProcessGoesOn
  <2>2. CASE B!Answered(r, c) \/ B!Store(r, c) \/ B!LookUpAgain(r, c)
    BY <2>2, AnswerGoesOn, StoreGoesOn, AgainGoesOn
  <2>3. CASE B!Match(r, c) \/ B!Map(r, c) \/ B!Add(r, c)
    BY <2>3, MatchGoesOn, MapGoesOn, AddGoesOn
  <2>4. CASE B!StoreFails(r, c) \/ B!AddFails(r, c)
    BY <2>4, FailuresGoOn
  <2>5. QED
    BY <1>2, <2>1, <2>2, <2>3, <2>4 DEF B!Handles
<1>3. QED
  BY <1>1, <1>2 DEF RequestMoves

LEMMA GoesOnFacts ==
    ASSUME LinksTypes, NEW r \in Requests, NEW new, GoesOn(r, new)
    PROVE  /\ req'[r] = new
           /\ \A q \in Requests : q # r => req'[q] = req[q]
           /\ req' \in [Requests -> B!Request]
BY DEF GoesOn, LinksTypes, B!TypeOK

-----------------------------------------------------------------------------
(* What one request writes crosses the others of its barcode.              *)

\* Everybody else who is busy with barcode c is crossed.
SeenBy(c) ==
    \/ \E r \in Requests : RequestMoves(r) /\ B!Writes(c, {r})
    \/ B!Writes(c, {})
    \/ \A r \in Requests : ~B!Busy(r)

LEMMA CacheWritesAreSeen ==
    ASSUME LinksTypes, B!Next
    PROVE  cache' = cache \/ \E c \in Codes : SeenBy(c) /\ \E row : CacheSets(c, row)
<1>1. ASSUME NEW r \in Requests, NEW c \in Codes, B!ScanArrives(r, c)
      PROVE  cache' = cache \/ (SeenBy(c) /\ \E row : CacheSets(c, row))
  <2>1. SeenBy(c)
    BY <1>1 DEF SeenBy, RequestMoves, B!Handles, B!ScanArrives
  <2>2. QED
    BY <1>1, <2>1, ArrivalWrites
<1>2. ASSUME NEW r \in Requests, NEW c \in Codes, B!Process(r, c)
      PROVE  cache' = cache \/ (SeenBy(c) /\ \E row : CacheSets(c, row))
  <2>1. cache' = cache \/ B!Writes(c, {r})
    BY <1>2 DEF B!Process
  <2>2. cache' = cache \/ SeenBy(c)
    BY <1>2, <2>1 DEF SeenBy, RequestMoves, B!Handles
  <2>3. QED
    BY <1>2, <2>2, ProcessWrites
<1>3. ASSUME NEW r \in Requests, NEW c \in Codes, B!Store(r, c)
      PROVE  SeenBy(c) /\ \E row : CacheSets(c, row)
  <2>1. SeenBy(c)
    BY <1>3 DEF SeenBy, RequestMoves, B!Handles, B!Store
  <2>2. QED
    BY <1>3, <2>1, StoreWrites
<1>4. ASSUME NEW r \in Requests, NEW c \in Codes, B!LookUpAgain(r, c)
      PROVE  cache' = cache \/ (SeenBy(c) /\ \E row : CacheSets(c, row))
  <2>1. cache' = cache \/ B!Writes(c, {r})
    BY <1>4 DEF B!LookUpAgain
  <2>2. cache' = cache \/ SeenBy(c)
    BY <1>4, <2>1 DEF SeenBy, RequestMoves, B!Handles
  <2>3. QED
    BY <1>4, <2>2, AgainWrites
<1>5. ASSUME NEW c \in Codes,
             B!Delete(c) \/ B!Metadata(c) \/ B!CreateManual(c) \/ B!ViewPage(c)
      PROVE  SeenBy(c) /\ \E row : CacheSets(c, row)
  <2>1. B!Writes(c, {})
    BY <1>5 DEF B!Delete, B!Metadata, B!CreateManual, B!ViewPage, B!Edit
  <2>2. SeenBy(c)
    BY <2>1 DEF SeenBy
  <2>3. QED
    BY <1>5, <2>2, DeleteWrites, MetadataWrites, ManualWrites, PageWrites
<1>6. ASSUME NEW c \in Codes, B!Expire(c)
      PROVE  SeenBy(c) /\ \E row : CacheSets(c, row)
  <2>1. SeenBy(c)
    BY <1>6 DEF SeenBy, B!Expire
  <2>2. QED
    BY <1>6, <2>1, ExpiryWrites
<1>7. cache' = cache \/ CacheMoves
  BY CacheOnlyMoves
<1>8. QED
  BY <1>1, <1>2, <1>3, <1>4, <1>5, <1>6, <1>7 DEF CacheMoves

OnlyOf(c) ==
    /\ \A t \in targets : t.code # c => t \in targets'
    /\ \A t \in targets' : t.code # c => t \in targets

LEMMA TargetWritesAreSeen ==
    ASSUME LinksTypes, B!Next, \A r \in Requests : Stage(r)
    PROVE  \/ targets' = targets \/ Relabelled
           \/ \E c \in Codes : SeenBy(c) /\ OnlyOf(c)
<1>1. ASSUME NEW r \in Requests, NEW c \in Codes, B!Add(r, c)
      PROVE  Relabelled \/ (SeenBy(c) /\ OnlyOf(c))
  <2>1. SeenBy(c)
    BY <1>1 DEF SeenBy, RequestMoves, B!Handles, B!Add
  <2>2. CASE Adds(r, c)
    <3>1. OnlyOf(c)
      BY <2>2 DEF Adds, OnlyOf
    <3>2. QED
      BY <2>1, <3>1
  <2>3. QED
    BY <1>1, <2>2, AddWrites
<1>2. ASSUME NEW c \in Codes, B!Unmap(c) \/ B!Delete(c)
      PROVE  SeenBy(c) /\ OnlyOf(c)
  <2>1. B!Writes(c, {})
    BY <1>2 DEF B!Unmap, B!Delete, B!Edit
  <2>2. targets' = targets \ B!TargetsOf(c)
    BY <1>2 DEF B!Unmap, B!Delete
  <2>3. QED
    BY <2>1, <2>2 DEF SeenBy, OnlyOf, B!TargetsOf
<1>3. CASE B!DeleteTarget
  <2>1. PICK t \in targets : B!Edit(t.code) /\ targets' = targets \ {t}
    BY <1>3 DEF B!DeleteTarget
  <2>2. t.code \in Codes
    BY DEF LinksTypes, B!TypeOK, B!Target
  <2>3. SeenBy(t.code) /\ OnlyOf(t.code)
    BY <2>1 DEF SeenBy, OnlyOf, B!Edit
  <2>4. QED
    BY <2>2, <2>3
<1>4. CASE B!Settings
  <2>1. PICK t \in targets : targets' = (targets \ {t}) \cup {[t EXCEPT !.own = TRUE]}
    BY <1>4 DEF B!Settings
  <2>2. t \in B!Target
    BY DEF LinksTypes, B!TypeOK
  <2>3. [t EXCEPT !.own = TRUE] \in B!Target /\ SameLink(t, [t EXCEPT !.own = TRUE])
    BY <2>2 DEF B!Target, SameLink
  <2>4. QED
    BY <2>1, <2>3, OneRelabelled
<1>5. ASSUME NEW c \in Codes, B!Confirm(c) PROVE Relabelled
  BY <1>5, ConfirmRelabels
<1>6. targets' = targets \/ TargetMoves
  BY TargetsOnlyMove
<1>7. QED
  BY <1>1, <1>2, <1>3, <1>4, <1>5, <1>6 DEF TargetMoves

\* The row and the links of barcode c are as they were.
Undisturbed(c) ==
    /\ cache'[c] = cache[c]
    /\ \A t \in targets : t.code = c => \E u \in targets' : SameLink(t, u)
    /\ \A u \in targets' : u.code = c => \E t \in targets : SameLink(t, u)

LEMMA UncrossedIsUndisturbed ==
    ASSUME LinksTypes, B!Next, \A r \in Requests : Stage(r), NEW q \in Requests,
           B!Busy(q), q \notin crossed', req'[q] = req[q]
    PROVE  Undisturbed(req[q].code)
<1>1. targets' \subseteq B!Target
  BY TargetsTyped
<1>2. ASSUME NEW c \in Codes, SeenBy(c) PROVE req[q].code # c
  <2>1. ASSUME NEW r \in Requests, RequestMoves(r), B!Writes(c, {r})
        PROVE  req[q].code # c
    <3>1. r # q
      <4>1. PICK new : GoesOn(r, new)
        BY <1>1, <2>1, RequestSteps
      <4>2. req'[r] = new
        BY <4>1, GoesOnFacts
      <4>3. req'[r].at # req[r].at
        BY <4>1, <4>2 DEF GoesOn
      <4>4. QED
        BY <4>3
    <3>2. QED
      BY <2>1, <3>1 DEF B!Writes
  <2>2. ASSUME B!Writes(c, {}) PROVE req[q].code # c
    BY <2>2 DEF B!Writes
  <2>3. QED
    BY <1>2, <2>1, <2>2 DEF SeenBy
<1>3. req[q].code \in Codes
  BY DEF LinksTypes, B!TypeOK, B!Request
<1>4. cache'[req[q].code] = cache[req[q].code]
  <2>1. ASSUME NEW c \in Codes, SeenBy(c), NEW row, CacheSets(c, row)
        PROVE  cache'[req[q].code] = cache[req[q].code]
    BY <1>2, <1>3, <2>1 DEF CacheSets, LinksTypes, B!TypeOK
  <2>2. QED
    BY <2>1, CacheWritesAreSeen
<1>5. /\ \A t \in targets : t.code = req[q].code => \E u \in targets' : SameLink(t, u)
      /\ \A u \in targets' : u.code = req[q].code => \E t \in targets : SameLink(t, u)
  <2>1. CASE targets' = targets
    BY <2>1 DEF SameLink
  <2>2. CASE Relabelled
    BY <2>2 DEF Relabelled
  <2>3. ASSUME NEW c \in Codes, SeenBy(c), OnlyOf(c)
        PROVE  /\ \A t \in targets : t.code = req[q].code =>
                                         \E u \in targets' : SameLink(t, u)
               /\ \A u \in targets' : u.code = req[q].code =>
                                          \E t \in targets : SameLink(t, u)
    <3>1. req[q].code # c
      BY <1>2, <2>3
    <3>2. QED
      BY <2>3, <3>1 DEF OnlyOf, SameLink
  <2>4. QED
    BY <2>1, <2>2, <2>3, TargetWritesAreSeen
<1>6. QED
  BY <1>4, <1>5 DEF Undisturbed

LEMMA FitsStays ==
    ASSUME NEW q \in Requests, Fits(q), req'[q] = req[q], Undisturbed(req[q].code)
    PROVE  Fits(q)'
<1>1. /\ cache'[req[q].code] = cache[req[q].code]
      /\ Bare(req[q].code)' <=> Bare(req[q].code)
      /\ Linked(req[q].code, req[q].food)' <=> Linked(req[q].code, req[q].food)
      /\ \A n : (\E t \in targets' : t.code = req[q].code /\ t.id = n)
                <=> \E t \in targets : t.code = req[q].code /\ t.id = n
  BY DEF Undisturbed, SameLink, Bare, Linked
<1>2. QED
  BY <1>1 DEF Fits

-----------------------------------------------------------------------------
(* The parts of the invariant.                                             *)

LEMMA MovesTyped ==
    ASSUME LinksTypes, B!Next
    PROVE  known' \subseteq Codes /\ edits' \in 0..MaxEdits /\ deleted' \subseteq Codes
<1> DEFINE Goal == known' \subseteq Codes /\ edits' \in 0..MaxEdits /\ deleted' \subseteq Codes
<1>1. known \subseteq Codes /\ edits \in 0..MaxEdits /\ deleted \subseteq Codes
      /\ MaxEdits \in Nat
  BY DEF LinksTypes, B!TypeOK, LinksAssumption
<1>2. CASE \E r \in Requests : B!Route(r)
  BY <1>1, <1>2 DEF B!Route
<1>3. ASSUME NEW r \in Requests, NEW c \in Codes, B!Handles(r, c) PROVE Goal
  <2>1. CASE \/ B!ScanArrives(r, c) \/ B!Process(r, c) \/ B!Add(r, c)
             \/ B!Store(r, c) \/ B!LookUpAgain(r, c)
    BY <1>1, <2>1 DEF B!ScanArrives, B!Process, B!Store, B!LookUpAgain, B!Add
  <2>2. CASE \/ B!ScanLooks(r, c) \/ B!Answered(r, c) \/ B!StoreFails(r, c)
             \/ B!Match(r, c) \/ B!Map(r, c) \/ B!AddFails(r, c)
    BY <1>1, <2>2 DEF B!ScanLooks, B!Answered, B!StoreFails, B!Match, B!Map, B!AddFails
  <2>3. QED
    BY <1>3, <2>1, <2>2 DEF B!Handles
<1>4. edits < MaxEdits /\ edits' = edits + 1 => edits' \in 0..MaxEdits
  BY <1>1
<1>5. ASSUME NEW c \in Codes, UserMoves(c) PROVE Goal
  <2>1. edits' \in 0..MaxEdits
    BY <1>4, <1>5 DEF UserMoves, B!Edit, B!Confirm, B!Unmap, B!Delete, B!Metadata,
                      B!CreateManual, B!ViewPage, B!Expire
  <2>2. known' \subseteq Codes
    BY <1>1, <1>5 DEF UserMoves, B!Confirm, B!Unmap, B!Delete, B!Metadata,
                      B!CreateManual, B!ViewPage, B!Expire
  <2>3. deleted' \subseteq Codes
    BY <1>1, <1>5 DEF UserMoves, B!Confirm, B!Unmap, B!Delete, B!Metadata,
                      B!CreateManual, B!ViewPage, B!Expire
  <2>4. QED
    BY <2>1, <2>2, <2>3
<1>6. CASE B!Settings \/ B!DeleteTarget
  BY <1>1, <1>4, <1>6 DEF B!Settings, B!DeleteTarget, B!Edit
<1>7. QED
  BY <1>2, <1>3, <1>5, <1>6 DEF B!Next, UserMoves

LEMMA TypesKept ==
    ASSUME LinksTypes, B!Next, \A r \in Requests : Stage(r)
    PROVE  B!TypeOK'
<1>1. cache' \in [Codes -> B!Row \cup {B!NoRow}]
  BY CacheTyped
<1>2. targets' \subseteq B!Target /\ IsFiniteSet(targets')
  BY TargetsTyped
<1>3. known' \subseteq Codes /\ edits' \in 0..MaxEdits /\ deleted' \subseteq Codes
  BY MovesTyped
<1>4. req' \in [Requests -> B!Request]
  <2>1. CASE req' = req
    BY <2>1 DEF LinksTypes, B!TypeOK
  <2>2. ASSUME NEW r \in Requests, RequestMoves(r)
        PROVE  req' \in [Requests -> B!Request]
    BY <1>2, <2>2, RequestSteps, GoesOnFacts
  <2>3. QED
    BY <2>1, <2>2, RequestsOnlyMove
<1>5. crossed' \subseteq Requests
  BY HistoryMoves DEF B!Writes, LinksTypes, B!TypeOK
<1>6. QED
  BY <1>1, <1>2, <1>3, <1>4, <1>5 DEF B!TypeOK, B!IsFiniteSet, IsFiniteSet

LEMMA StagesKept ==
    ASSUME LinksTypes, B!Next, \A r \in Requests : Stage(r)
    PROVE  \A r \in Requests : Stage(r)'
<1>1. CASE req' = req
  BY <1>1 DEF Stage
<1>2. ASSUME NEW r \in Requests, RequestMoves(r) PROVE \A q \in Requests : Stage(q)'
  <2>1. targets' \subseteq B!Target
    BY TargetsTyped
  <2>2. PICK new : GoesOn(r, new)
    BY <1>2, <2>1, RequestSteps
  <2>3. req'[r] = new /\ \A q \in Requests : q # r => req'[q] = req[q]
    BY <2>2, GoesOnFacts
  <2>4. StageOf(new)
    BY <2>2 DEF GoesOn
  <2>5. QED
    BY <2>3, <2>4 DEF Stage
<1>3. QED
  BY <1>1, <1>2, RequestsOnlyMove

\* How a row that is set turns out.
LEMMA CacheSetFacts ==
    ASSUME LinksTypes, NEW c \in Codes, NEW row, CacheSets(c, row)
    PROVE  cache'[c] = row /\ \A d \in Codes : d # c => cache'[d] = cache[d]
BY DEF CacheSets, LinksTypes, B!TypeOK

LEMMA ShellsKept ==
    ASSUME LinksTypes, B!Next, NeverIsShell
    PROVE  NeverIsShell'
<1>1. ASSUME NEW c \in Codes, NEW row, CacheSets(c, row),
             row # B!NoRow /\ row.tried = "never" => row.shell
      PROVE  NeverIsShell'
  BY <1>1, CacheSetFacts DEF NeverIsShell, B!Has
<1>2. CASE cache' = cache
  BY <1>2 DEF NeverIsShell, B!Has
<1>3. ASSUME NEW c \in Codes, CacheSets(c, B!NoRow) PROVE NeverIsShell'
  BY <1>1, <1>3
<1>4. ASSUME NEW c \in Codes, NEW row \in B!Row, CacheSets(c, row), Kept(row, cache[c])
      PROVE  NeverIsShell'
  <2>1. row.tried = "never" => row.shell
    BY <1>4 DEF Kept, NeverIsShell, B!Has
  <2>2. QED
    BY <1>1, <1>4, <2>1
<1>5. ASSUME NEW r \in Requests, NEW c \in Codes, B!Store(r, c) PROVE NeverIsShell'
  <2>1. PICK row \in B!Row : CacheSets(c, row) /\ row.tried = "fresh"
    BY <1>5, StoreWrites
  <2>2. row.tried # "never"
    BY <2>1
  <2>3. QED
    BY <1>1, <2>1, <2>2
<1>6. ASSUME NEW r \in Requests, NEW c \in Codes, B!LookUpAgain(r, c), cache' # cache
      PROVE  NeverIsShell'
  <2>1. PICK row \in B!Row : B!Has(c) /\ CacheSets(c, row)
                             /\ row = [cache[c] EXCEPT !.custom = FALSE]
    BY <1>6, AgainWrites
  <2>2. cache[c] \in B!Row
    BY <2>1 DEF B!Has, LinksTypes, B!TypeOK
  <2>3. row.tried = cache[c].tried /\ row.shell = cache[c].shell
    BY <2>1, <2>2 DEF B!Row
  <2>4. QED
    BY <1>1, <2>1, <2>3 DEF NeverIsShell
<1>7. QED
  BY <1>2, <1>3, <1>4, <1>5, <1>6, CacheSteps

\* A store that leaves a row found without a title found it so, and heard of no product.
LEMMA StoreOfNaked ==
    ASSUME NEW old, NEW was, NEW row, NEW hit \in BOOLEAN, StoredAs(row, old, was, hit),
           row.found, ~row.title, ~row.custom
    PROVE  old # B!NoRow /\ old.found /\ ~old.title /\ ~old.custom /\ ~was.found
BY DEF StoredAs

LEMMA RereadsKept ==
    ASSUME LinksTypes, B!Next, \A r \in Requests : Stage(r), NEW c \in Numeric,
           Naked(c), NEW w \in Requests, Rereads(w, c), Naked(c)'
    PROVE  Rereads(w, c)'
<1>1. c \in Codes /\ req[w] \in B!Request
  BY DEF LinksTypes, LinksAssumption, B!TypeOK
<1>2. CASE req'[w] = req[w]
  BY <1>2 DEF Rereads
<1>3. CASE req'[w] # req[w]
  <2>1. PICK r \in Requests : RequestMoves(r)
    BY <1>3, RequestsOnlyMove
  <2>2. r = w
    <3>1. targets' \subseteq B!Target
      BY TargetsTyped
    <3>2. PICK new : GoesOn(r, new)
      BY <2>1, <3>1, RequestSteps
    <3>3. QED
      BY <1>3, <3>2, GoesOnFacts
  <2> DEFINE Asks == req[w].at \in {"lookup", "store"}
  <2>0. /\ req[w].op = "lookup" /\ req[w].code = c
        /\ Asks => req[w].loaded # B!NoRow /\ req[w].loaded.found
        /\ Asks \/ req[w].at = "ended"
    BY DEF Rereads
  <2>3. PICK d \in Codes : B!Answered(w, d) \/ B!StoreFails(w, d) \/ B!Store(w, d)
    <3>1. req[w].at \in {"lookup", "store", "ended"}
      BY <2>0
    <3>2. \/ B!Route(w)
          \/ \E d \in Codes : B!Handles(w, d)
      BY <2>1, <2>2 DEF RequestMoves
    <3>3. QED
      BY <3>1, <3>2 DEF B!Handles, B!Route, B!ScanArrives, B!ScanLooks, B!Process,
                        B!LookUpAgain, B!Match, B!Map, B!Add, B!AddFails, B!Begin
  <2>4. d = c
    BY <2>0, <2>3 DEF B!Answered, B!StoreFails, B!Store
  <2>4a. Asks
    BY <2>0, <2>3 DEF B!Answered, B!StoreFails, B!Store
  <2> HIDE DEF Asks
  <2>5. CASE B!Answered(w, c)
    <3>1. PICK new : /\ GoesOn(w, new) /\ new.at = "store"
                     /\ new.loaded = IF req[w].loaded = B!NoRow THEN cache[c]
                                     ELSE req[w].loaded
      BY <1>1, <2>5, AnswerGoesOn
    <3>2. new.loaded = req[w].loaded /\ new.op = req[w].op /\ new.code = req[w].code
      BY <2>0, <2>4a, <3>1 DEF GoesOn
    <3>3. req'[w] = new
      BY <3>1, GoesOnFacts
    <3>4. QED
      BY <2>0, <2>4a, <3>1, <3>2, <3>3 DEF Rereads
  <2>6. CASE B!StoreFails(w, c)
    <3>1. PICK new : GoesOn(w, new) /\ new.at = "ended" /\ new.answer = "failed"
      BY <1>1, <2>6, FailuresGoOn
    <3>2. req'[w] = new /\ new.op = req[w].op /\ new.code = req[w].code
      BY <3>1, GoesOnFacts DEF GoesOn
    <3>3. QED
      BY <2>0, <3>1, <3>2 DEF Rereads
  <2>7. CASE B!Store(w, c)
    <3>1. PICK row \in B!Row : /\ CacheSets(c, row)
                               /\ StoredAs(row, cache[c], req[w].loaded, req[w].hit)
      BY <1>1, <2>7, StoreWrites
    <3>2. cache'[c] = row
      BY <1>1, <3>1, CacheSetFacts
    <3>3. row.found /\ ~row.title /\ ~row.custom
      BY <3>2 DEF Naked
    <3>4. req[w].hit \in BOOLEAN
      BY <1>1 DEF B!Request
    <3>5. ~req[w].loaded.found
      BY <3>1, <3>3, <3>4, StoreOfNaked
    <3>6. QED
      BY <2>0, <2>4a, <3>5
  <2>8. QED
    BY <2>3, <2>4, <2>5, <2>6, <2>7
<1>4. QED
  BY <1>2, <1>3

LEMMA NakedKept ==
    ASSUME LinksTypes, B!Next, \A r \in Requests : Stage(r), NakedIsReread
    PROVE  NakedIsReread'
<1>1. SUFFICES ASSUME NEW c \in Numeric, Naked(c)'
               PROVE  \E r \in Requests : Rereads(r, c)'
  BY DEF NakedIsReread
<1>2. c \in Codes
  BY DEF LinksTypes, LinksAssumption
<1>3. CASE Naked(c)
  <2>1. PICK w \in Requests : Rereads(w, c)
    BY <1>3 DEF NakedIsReread
  <2>2. QED
    BY <1>1, <1>3, <2>1, RereadsKept
<1>4. CASE ~Naked(c)
  <2>1. cache'[c] # cache[c] /\ cache'[c] # B!NoRow
        /\ cache'[c].found /\ ~cache'[c].title /\ ~cache'[c].custom
    BY <1>1, <1>4 DEF Naked, B!Has
  <2>2. ASSUME NEW d \in Codes, NEW row, CacheSets(d, row) PROVE d = c /\ row = cache'[c]
    BY <1>2, <2>1, <2>2, CacheSetFacts
  <2>3. ASSUME NEW d \in Codes, CacheSets(d, B!NoRow) PROVE FALSE
    BY <2>1, <2>2, <2>3
  <2>4. ASSUME NEW d \in Codes, NEW row \in B!Row, CacheSets(d, row), Kept(row, cache[d])
        PROVE  FALSE
    BY <1>4, <2>1, <2>2, <2>4 DEF Kept, Naked, B!Has
  <2>5. ASSUME NEW r \in Requests, NEW d \in Codes, B!Store(r, d) PROVE FALSE
    <3>1. PICK row \in B!Row : /\ CacheSets(d, row)
                               /\ StoredAs(row, cache[d], req[r].loaded, req[r].hit)
      BY <2>5, StoreWrites
    <3>2. d = c /\ row = cache'[c]
      BY <2>2, <3>1
    <3>3. req[r].hit \in BOOLEAN
      BY DEF LinksTypes, B!TypeOK, B!Request
    <3>4. cache[c] # B!NoRow /\ cache[c].found /\ ~cache[c].title /\ ~cache[c].custom
      BY <2>1, <3>1, <3>2, <3>3, StoreOfNaked
    <3>5. QED
      BY <1>4, <3>4 DEF Naked, B!Has
  <2>6. ASSUME NEW r \in Requests, NEW d \in Codes, B!LookUpAgain(r, d)
        PROVE  \E q \in Requests : Rereads(q, c)'
    <3>1. PICK new :
               /\ GoesOn(r, new) /\ req[r].at = "idle" /\ new.op = "lookup" /\ new.code = d
               /\ new.at \in {"lookup", "ended"}
               /\ \/ cache' = cache
                  \/ /\ new.loaded \in B!Row /\ CacheSets(d, new.loaded) /\ B!Has(d)
                     /\ new.loaded = [cache[d] EXCEPT !.custom = FALSE]
                     /\ d \in Numeric => new.at = "lookup"
      BY <2>6, AgainGoesOn
    <3>2. d = c /\ new.loaded = cache'[c] /\ new.loaded \in B!Row
      BY <2>1, <2>2, <3>1
    <3>3. req'[r] = new
      BY <3>1, GoesOnFacts
    <3>4. Rereads(r, c)'
      BY <2>1, <3>1, <3>2, <3>3 DEF Rereads
    <3>5. QED
      BY <3>4
  <2>7. QED
    BY <2>1, <2>3, <2>4, <2>5, <2>6, CacheSteps
<1>5. QED
  BY <1>3, <1>4

\* Who becomes known, and what counts as deleted.
LEMMA BarcodeMoves ==
    ASSUME B!Next
    PROVE  /\ \/ known' \subseteq known
              \/ \E r \in Requests, c \in Codes :
                     B!ScanLooks(r, c) /\ known' = known \cup {c}
           /\ \/ deleted' \subseteq deleted
              \/ \E c \in Codes : B!Delete(c) /\ deleted' = deleted \cup {c}
                                  /\ \A r \in Requests : B!Busy(r) => req[r].code # c
<1> DEFINE Known == \/ known' \subseteq known
                    \/ \E r \in Requests, c \in Codes :
                           B!ScanLooks(r, c) /\ known' = known \cup {c}
           Deleted == \/ deleted' \subseteq deleted
                      \/ \E c \in Codes : B!Delete(c) /\ deleted' = deleted \cup {c}
                                  /\ \A r \in Requests : B!Busy(r) => req[r].code # c
<1>1. CASE \E r \in Requests : B!Route(r)
  BY <1>1 DEF B!Route
<1>2. ASSUME NEW r \in Requests, NEW c \in Codes, B!Handles(r, c) PROVE Known /\ Deleted
  <2>1. CASE B!ScanLooks(r, c)
    <3>1. known' = known \cup {c} /\ deleted' = deleted
      BY <2>1 DEF B!ScanLooks
    <3>2. QED
      BY <2>1, <3>1
  <2>2. CASE \/ B!ScanArrives(r, c) \/ B!Process(r, c) \/ B!Add(r, c)
             \/ B!Store(r, c) \/ B!LookUpAgain(r, c)
    BY <2>2 DEF B!ScanArrives, B!Process, B!Store, B!LookUpAgain, B!Add
  <2>3. CASE \/ B!Answered(r, c) \/ B!StoreFails(r, c)
             \/ B!Match(r, c) \/ B!Map(r, c) \/ B!AddFails(r, c)
    BY <2>3 DEF B!Answered, B!StoreFails, B!Match, B!Map, B!AddFails
  <2>4. QED
    BY <1>2, <2>1, <2>2, <2>3 DEF B!Handles
<1>3. ASSUME NEW c \in Codes, B!Delete(c) PROVE Known /\ Deleted
  <2>1. known' \subseteq known
    BY <1>3 DEF B!Delete
  <2>2. \/ deleted' = deleted
        \/ deleted' = deleted \cup {c} /\ \A r \in Requests : B!Busy(r) => req[r].code # c
    BY <1>3 DEF B!Delete
  <2>3. QED
    BY <1>3, <2>1, <2>2
<1>4. ASSUME NEW c \in Codes,
             \/ B!Confirm(c) \/ B!Unmap(c) \/ B!Metadata(c)
             \/ B!CreateManual(c) \/ B!ViewPage(c) \/ B!Expire(c)
      PROVE  Known /\ Deleted
  BY <1>4 DEF B!Confirm, B!Unmap, B!Metadata, B!CreateManual, B!ViewPage, B!Expire
<1>5. CASE B!Settings \/ B!DeleteTarget
  BY <1>5 DEF B!Settings, B!DeleteTarget
<1>6. QED
  BY <1>1, <1>2, <1>3, <1>4, <1>5 DEF B!Next

LEMMA CacheStaysGone ==
    ASSUME LinksTypes, B!Next, NEW d \in Codes, Gone(d), d \in deleted'
    PROVE  cache'[d] = B!NoRow
<1>1. SUFFICES ASSUME cache'[d] # B!NoRow PROVE FALSE
  OBVIOUS
<1>2. cache[d] = B!NoRow /\ d \notin known /\ Bare(d) /\ ~B!Has(d)
      /\ \A r \in Requests : B!Busy(r) => req[r].code # d
  BY DEF Gone, Bare, B!Has
<1>3. ASSUME NEW c \in Codes, NEW row, CacheSets(c, row) PROVE c = d /\ row # B!NoRow
  BY <1>1, <1>2, <1>3, CacheSetFacts
<1>4. cache' # cache
  BY <1>1, <1>2
<1>5. ASSUME NEW r \in Requests, NEW c \in Codes,
             B!ScanArrives(r, c) \/ B!LookUpAgain(r, c)
      PROVE  FALSE
  <2>1. c \notin deleted' /\ \E row : CacheSets(c, row)
    BY <1>4, <1>5, ArrivalWrites, AgainWrites
  <2>2. QED
    BY <1>3, <2>1
<1>6. ASSUME NEW r \in Requests, NEW c \in Codes, B!Process(r, c) \/ B!Store(r, c)
      PROVE  FALSE
  <2>1. B!Busy(r) /\ req[r].code = c
    BY <1>6 DEF B!Process, B!Store, B!Busy
  <2>2. \E row : CacheSets(c, row)
    BY <1>4, <1>6, ProcessWrites, StoreWrites
  <2>3. QED
    BY <1>2, <1>3, <2>1, <2>2
<1>7. ASSUME NEW c \in Codes,
             \/ B!Delete(c) \/ B!Metadata(c) \/ B!CreateManual(c)
             \/ B!ViewPage(c) \/ B!Expire(c)
      PROVE  FALSE
  <2>1. CASE B!Delete(c)
    BY <1>3, <2>1, DeleteWrites
  <2>2. CASE B!Metadata(c) \/ B!Expire(c)
    BY <1>2, <1>3, <2>2, MetadataWrites, ExpiryWrites
  <2>3. CASE B!CreateManual(c)
    BY <1>3, <2>3, ManualWrites
  <2>4. CASE B!ViewPage(c)
    BY <1>2, <1>3, <2>4, PageWrites
  <2>5. QED
    BY <1>7, <2>1, <2>2, <2>3, <2>4
<1>8. QED
  BY <1>4, <1>5, <1>6, <1>7, CacheOnlyMoves DEF CacheMoves

\* Who starts to be busy with a barcode uses it again.
LEMMA StartsUseAgain ==
    ASSUME LinksTypes, NEW r \in Requests, RequestMoves(r), ~B!Busy(r)
    PROVE  req[r].code \notin deleted'
<1>1. ~B!Route(r)
  BY DEF B!Route, B!Busy
<1>2. PICK c \in Codes : B!Handles(r, c)
  BY <1>1 DEF RequestMoves
<1>3. CASE B!ScanArrives(r, c) \/ B!LookUpAgain(r, c) \/ B!Map(r, c)
  BY <1>3 DEF B!ScanArrives, B!LookUpAgain, B!Map, B!Begin
<1>4. CASE ~(B!ScanArrives(r, c) \/ B!LookUpAgain(r, c) \/ B!Map(r, c))
  BY <1>2, <1>4 DEF B!Handles, B!ScanLooks, B!Process, B!Answered, B!StoreFails, B!Store,
                    B!Match, B!Add, B!AddFails, B!Busy
<1>5. QED
  BY <1>3, <1>4

LEMMA GoneStaysGone ==
    ASSUME LinksTypes, B!Next, \A r \in Requests : Stage(r), NEW d \in Codes, Gone(d),
           d \in deleted'
    PROVE  Gone(d)'
<1>1. cache[d] = B!NoRow /\ d \notin known /\ (\A t \in targets : t.code # d)
      /\ \A r \in Requests : B!Busy(r) => req[r].code # d
  BY DEF Gone
<1>2. cache'[d] = B!NoRow
  BY CacheStaysGone
<1>3. d \notin known'
  <2>1. ASSUME NEW r \in Requests, NEW c \in Codes, B!ScanLooks(r, c) PROVE c # d
    BY <1>1, <2>1 DEF B!ScanLooks, B!Busy
  <2>2. QED
    BY <1>1, <2>1, BarcodeMoves
<1>4. \A t \in targets' : t.code # d
  <2>1. CASE targets' \subseteq targets
    BY <1>1, <2>1
  <2>2. CASE Relabelled
    BY <1>1, <2>2 DEF Relabelled, SameLink
  <2>3. ASSUME NEW r \in Requests, NEW c \in Codes, req[r].at = "add", req[r].code = c,
               Adds(r, c)
        PROVE  \A t \in targets' : t.code # d
    <3>1. c # d
      BY <1>1, <2>3 DEF B!Busy
    <3>2. QED
      BY <1>1, <2>3, <3>1 DEF Adds
  <2>4. QED
    BY <2>1, <2>2, <2>3, TargetSteps
<1>5. ASSUME NEW q \in Requests, B!Busy(q)' PROVE req'[q].code # d
  <2>1. CASE req'[q] = req[q]
    BY <1>1, <1>5, <2>1 DEF B!Busy
  <2>2. CASE req'[q] # req[q]
    <3>1. PICK r \in Requests : RequestMoves(r)
      BY <2>2, RequestsOnlyMove
    <3>2. targets' \subseteq B!Target
      BY TargetsTyped
    <3>3. PICK new : GoesOn(r, new)
      BY <3>1, <3>2, RequestSteps
    <3>4. r = q /\ req'[q] = new
      BY <2>2, <3>3, GoesOnFacts
    <3>5. req'[q].code = req[q].code
      BY <3>3, <3>4 DEF GoesOn
    <3>6. B!Busy(q) \/ req[q].code \notin deleted'
      BY <3>1, <3>4, StartsUseAgain
    <3>7. QED
      BY <1>1, <3>5, <3>6
  <2>3. QED
    BY <2>1, <2>2
<1>6. QED
  BY <1>2, <1>3, <1>4, <1>5 DEF Gone

LEMMA DeletedKept ==
    ASSUME LinksTypes, B!Next, \A r \in Requests : Stage(r), DeletedIsGone
    PROVE  DeletedIsGone'
<1>1. ASSUME NEW d \in deleted, d \in deleted' PROVE Gone(d)'
  <2>1. d \in Codes /\ Gone(d)
    BY DEF LinksTypes, B!TypeOK, DeletedIsGone
  <2>2. QED
    BY <1>1, <2>1, GoneStaysGone
<1>2. ASSUME NEW c \in Codes, B!Delete(c),
             \A r \in Requests : B!Busy(r) => req[r].code # c
      PROVE  Gone(c)'
  <2>1. cache' = [cache EXCEPT ![c] = B!NoRow] /\ known' = known \ {c}
        /\ targets' = targets \ B!TargetsOf(c) /\ req' = req
    BY <1>2 DEF B!Delete, B!Edit
  <2>2. cache'[c] = B!NoRow
    BY <2>1 DEF LinksTypes, B!TypeOK
  <2>3. \A t \in targets' : t.code # c
    BY <2>1 DEF B!TargetsOf
  <2>4. \A r \in Requests : B!Busy(r)' => req'[r].code # c
    BY <1>2, <2>1 DEF B!Busy
  <2>5. QED
    BY <2>1, <2>2, <2>3, <2>4 DEF Gone
<1>3. QED
  BY <1>1, <1>2, BarcodeMoves DEF DeletedIsGone

-----------------------------------------------------------------------------
(* A request that moves knows what is so.                                  *)

LEMMA ArrivalFits ==
    ASSUME LinksTypes, NeverIsShell, NEW r \in Requests, NEW c \in Codes, Stage(r),
           B!ScanArrives(r, c)
    PROVE  Fits(r)'
<1> DEFINE new == [req[r] EXCEPT !.at = "gate"]
<1>1. GoesOn(r, new) /\ req[r].code = c /\ req[r].op = "scan"
  BY ArrivalGoesOn
<1>2. req'[r] = new /\ new.at = "gate" /\ new.code = c
  BY <1>1, GoesOnFacts DEF LinksTypes, B!TypeOK, B!Request
<1>3. targets' = targets
  BY DEF B!ScanArrives
<1>4. c \in Numeric /\ Bare(c) /\ cache'[c] # B!NoRow /\ ~cache'[c].found
          => cache'[c].tried # "never"
  <2>1. CASE /\ cache' = cache
             /\ c \in Numeric /\ Bare(c) /\ B!Has(c) /\ ~cache[c].found
                    => ~cache[c].shell \/ cache[c].tried # "never"
    BY <2>1 DEF NeverIsShell, B!Has
  <2>2. CASE CacheSets(c, B!NoRow)
    BY <2>2, CacheSetFacts
  <2>3. CASE ~Bare(c)
    BY <2>3
  <2>4. QED
    BY <2>1, <2>2, <2>3, ArrivalWrites
<1> HIDE DEF new
<1>5. QED
  BY <1>2, <1>3, <1>4 DEF Fits, Bare

LEMMA LookFits ==
    ASSUME LinksTypes, NEW r \in Requests, NEW c \in Codes, Stage(r), Fits(r),
           B!ScanLooks(r, c)
    PROVE  Fits(r)'
<1>1. PICK new : /\ GoesOn(r, new)
                 /\ req[r].at = "gate" /\ req[r].code = c
                 /\ \/ new.at = "process" /\ Bare(c)
                    \/ new.at = "route" /\ new.ids = B!Ids(B!TargetsOf(c))
  BY LookGoesOn
<1>2. req'[r] = new /\ new.code = c
  BY <1>1, GoesOnFacts DEF GoesOn
<1>3. targets' = targets /\ cache' = cache
  BY DEF B!ScanLooks
<1>4. CASE new.at = "process"
  BY <1>1, <1>2, <1>3, <1>4 DEF Fits, Bare
<1>5. CASE new.at = "route" /\ new.ids = B!Ids(B!TargetsOf(c))
  <2>1. \A n : n \in new.ids <=> \E t \in targets : t.code = c /\ t.id = n
    BY <1>5 DEF B!Ids, B!TargetsOf
  <2>2. QED
    BY <1>2, <1>3, <1>5, <2>1 DEF Fits
<1>6. QED
  BY <1>1, <1>4, <1>5

LEMMA ProcessFits ==
    ASSUME LinksTypes, NEW r \in Requests, NEW c \in Codes, Stage(r), B!Process(r, c),
           B!Busy(r)'
    PROVE  Fits(r)'
<1>1. PICK new :
               /\ GoesOn(r, new) /\ req[r].at = "process" /\ req[r].code = c
               /\ \/ /\ new.at = "ended" /\ new.answer = "routed"
                     /\ new.ids = B!Ids(B!TargetsOf(c)) /\ cache' = cache
                  \/ /\ new.at = "lookup" /\ new.loaded = cache[c] /\ cache' = cache
                     /\ Bare(c) /\ (B!Has(c) => ~cache[c].found)
                  \/ new.at = "match" /\ Bare(c) /\ B!Has(c) /\ cache[c].found
                     /\ cache' = cache
                  \/ /\ new.at = "ended" /\ new.answer = "unknown" /\ Bare(c)
                     /\ \/ B!Has(c) /\ ~cache[c].found /\ cache' = cache
                        \/ ~B!Has(c) /\ CacheSets(c, B!Raw)
  BY ProcessGoesOn
<1>2. req'[r] = new /\ new.code = c
  BY <1>1, GoesOnFacts DEF GoesOn
<1>3. new.at # "ended"
  BY <1>2 DEF B!Busy
<1>4. targets' = targets
  BY DEF B!Process
<1>5. /\ new.at \in {"lookup", "match"} /\ Bare(c) /\ cache' = cache
      /\ new.at = "lookup" => (cache[c] # B!NoRow => ~cache[c].found)
  BY <1>1, <1>3 DEF B!Has
<1>6. QED
  BY <1>2, <1>4, <1>5 DEF Fits, Bare

LEMMA AnswerFits ==
    ASSUME LinksTypes, NEW r \in Requests, NEW c \in Codes, Stage(r), Fits(r),
           B!Answered(r, c)
    PROVE  Fits(r)'
<1>1. PICK new :
               /\ GoesOn(r, new) /\ req[r].at = "lookup" /\ req[r].code = c
               /\ new.at = "store"
               /\ new.loaded = IF req[r].loaded = B!NoRow THEN cache[c] ELSE req[r].loaded
  BY AnswerGoesOn
<1>2. req'[r] = new /\ new.code = c /\ new.op = req[r].op
  BY <1>1, GoesOnFacts DEF GoesOn
<1>3. targets' = targets /\ cache' = cache
  BY DEF B!Answered
<1>4. QED
  BY <1>1, <1>2, <1>3 DEF Fits, Bare

LEMMA StoreFits ==
    ASSUME LinksTypes, NEW r \in Requests, NEW c \in Codes, Stage(r), Fits(r),
           B!Store(r, c), B!Busy(r)'
    PROVE  Fits(r)'
<1>1. PICK new, row :
               /\ GoesOn(r, new) /\ req[r].at = "store" /\ req[r].code = c
               /\ row \in B!Row /\ CacheSets(c, row) /\ row.tried = "fresh"
               /\ StoredAs(row, cache[c], req[r].loaded, req[r].hit)
               /\ \/ new.at = "match" /\ req[r].op = "scan"
                  \/ new.at = "ended" /\ new.answer \in {"unknown", "none"}
  BY StoreGoesOn
<1>2. req'[r] = new /\ new.code = c /\ new.op = req[r].op
  BY <1>1, GoesOnFacts DEF GoesOn
<1>3. new.at = "match" /\ req[r].op = "scan"
  BY <1>1, <1>2 DEF B!Busy
<1>4. targets' = targets
  BY DEF B!Store
<1>5. QED
  BY <1>1, <1>2, <1>3, <1>4 DEF Fits, Bare

LEMMA AgainFits ==
    ASSUME LinksTypes, NEW r \in Requests, NEW c \in Codes, Stage(r), B!LookUpAgain(r, c)
    PROVE  Fits(r)'
<1>1. \E new : GoesOn(r, new) /\ new.op = "lookup" /\ new.at \in {"lookup", "ended"}
  BY AgainGoesOn
<1>2. req'[r].op = "lookup" /\ req'[r].at \in {"lookup", "ended"}
  BY <1>1, GoesOnFacts
<1>3. QED
  BY <1>2 DEF Fits

LEMMA MatchFits ==
    ASSUME LinksTypes, NEW r \in Requests, NEW c \in Codes, Stage(r), Fits(r),
           B!Match(r, c), B!Busy(r)'
    PROVE  Fits(r)'
<1>1. PICK new :
               /\ GoesOn(r, new) /\ req[r].at = "match" /\ req[r].code = c
               /\ \/ new.at = "ended" /\ new.answer = "noted"
                  \/ new.at = "add" /\ (new.ids = {} <=> ~Linked(c, new.food))
  BY MatchGoesOn
<1>2. req'[r] = new /\ new.code = c /\ new.op = req[r].op
  BY <1>1, GoesOnFacts DEF GoesOn
<1>3. new.at = "add" /\ (new.ids = {} <=> ~Linked(c, new.food))
  BY <1>1, <1>2 DEF B!Busy
<1>4. targets' = targets
  BY DEF B!Match
<1>5. req[r].op = "scan" /\ Bare(c)
  BY <1>1 DEF Fits, Stage, StageOf
<1>6. new.ids = {}
  BY <1>3, <1>5 DEF Bare, Linked
<1>7. QED
  BY <1>2, <1>3, <1>4, <1>5, <1>6 DEF Fits, Bare, Linked

LEMMA MapFits ==
    ASSUME LinksTypes, NEW r \in Requests, NEW c \in Codes, Stage(r), B!Map(r, c)
    PROVE  Fits(r)'
<1>1. PICK new :
               /\ GoesOn(r, new) /\ req[r].at = "idle" /\ req[r].op = "map"
               /\ req[r].code = c
               /\ new.at = "add" /\ (new.ids = {} <=> ~Linked(c, new.food))
  BY MapGoesOn
<1>2. req'[r] = new /\ new.code = c /\ new.op = "map"
  BY <1>1, GoesOnFacts DEF GoesOn
<1>3. targets' = targets
  BY DEF B!Map
<1>4. QED
  BY <1>1, <1>2, <1>3 DEF Fits, Linked

LEMMA MoverFits ==
    ASSUME LinksTypes, NeverIsShell, NEW r \in Requests, Stage(r), RequestMoves(r),
           B!Busy(r) => Fits(r), B!Busy(r)', targets' \subseteq B!Target
    PROVE  Fits(r)'
<1>1. ASSUME B!Route(r) PROVE FALSE
  <2>1. \E new : GoesOn(r, new) /\ new.at = "ended"
    BY <1>1, RouteGoesOn
  <2>2. QED
    BY <2>1, GoesOnFacts DEF B!Busy
<1>2. PICK c \in Codes : B!Handles(r, c)
  BY <1>1 DEF RequestMoves
<1>3. CASE B!ScanArrives(r, c) \/ B!LookUpAgain(r, c) \/ B!Map(r, c) \/ B!Process(r, c)
  BY <1>3, ArrivalFits, AgainFits, MapFits, ProcessFits
<1>4. CASE B!ScanLooks(r, c) \/ B!Answered(r, c) \/ B!Store(r, c) \/ B!Match(r, c)
  <2>1. B!Busy(r)
    BY <1>4 DEF B!ScanLooks, B!Answered, B!Store, B!Match, B!Busy
  <2>2. QED
    BY <1>4, <2>1, LookFits, AnswerFits, StoreFits, MatchFits
<1>5. ASSUME B!Add(r, c) \/ B!AddFails(r, c) \/ B!StoreFails(r, c) PROVE FALSE
  <2>1. \E new : GoesOn(r, new) /\ new.at = "ended"
    BY <1>5, AddGoesOn, FailuresGoOn
  <2>2. QED
    BY <2>1, GoesOnFacts DEF B!Busy
<1>6. QED
  BY <1>2, <1>3, <1>4, <1>5 DEF B!Handles

LEMMA FitsKept ==
    ASSUME LinksTypes, B!Next, NeverIsShell, RequestsFit
    PROVE  RequestsFit'
<1>1. \A r \in Requests : Stage(r)
  BY DEF RequestsFit
<1>2. \A r \in Requests : Stage(r)'
  BY <1>1, StagesKept
<1>3. ASSUME NEW q \in Requests, B!Busy(q)', q \notin crossed' PROVE Fits(q)'
  <2>1. q \notin crossed
    BY <1>3, CrossedGrows
  <2>2. CASE req'[q] = req[q]
    <3>1. B!Busy(q)
      BY <1>3, <2>2 DEF B!Busy
    <3>2. Fits(q)
      BY <2>1, <3>1 DEF RequestsFit
    <3>3. Undisturbed(req[q].code)
      BY <1>1, <1>3, <2>2, <3>1, UncrossedIsUndisturbed
    <3>4. QED
      BY <2>2, <3>2, <3>3, FitsStays
  <2>3. CASE req'[q] # req[q]
    <3>1. PICK r \in Requests : RequestMoves(r)
      BY <2>3, RequestsOnlyMove
    <3>2. targets' \subseteq B!Target
      BY <1>1, TargetsTyped
    <3>3. PICK new : GoesOn(r, new)
      BY <1>1, <3>1, <3>2, RequestSteps
    <3>4. r = q
      BY <2>3, <3>3, GoesOnFacts
    <3>5. B!Busy(q) => Fits(q)
      BY <2>1 DEF RequestsFit
    <3>6. QED
      BY <1>1, <1>3, <3>1, <3>2, <3>4, <3>5, MoverFits
  <2>4. QED
    BY <2>2, <2>3
<1>4. QED
  BY <1>2, <1>3 DEF RequestsFit

-----------------------------------------------------------------------------
(* The invariant and what follows from it.                                 *)

LEMMA LinksInvStarts ==
    ASSUME LinksAssumption, B!Init
    PROVE  LinksInv
<1>1. /\ cache = [c \in Codes |-> B!NoRow] /\ targets = {} /\ known = {}
      /\ edits = 0 /\ crossed = {} /\ deleted = {}
  BY DEF B!Init
<1>2. ASSUME NEW r \in Requests
      PROVE  /\ req[r] \in B!Request /\ req[r].at = "idle" /\ req[r].answer = "none"
  BY DEF B!Init, B!Request, B!Stages, B!Answers
<1>3. req \in [Requests -> B!Request]
  BY <1>2 DEF B!Init
<1>4. IsFiniteSet(targets)
  BY <1>1, FS_EmptySet
<1>5. B!TypeOK
  BY <1>1, <1>3, <1>4 DEF B!TypeOK, B!IsFiniteSet, IsFiniteSet, LinksAssumption
<1>6. B!NoTwins /\ IdsApart /\ NeverIsShell /\ NakedIsReread /\ DeletedIsGone
  <2>1. \A c \in Codes : ~B!Has(c)
    BY <1>1 DEF B!Has
  <2>2. B!NoTwins /\ IdsApart /\ DeletedIsGone
    BY <1>1 DEF B!NoTwins, IdsApart, DeletedIsGone
  <2>3. QED
    BY <2>1, <2>2 DEF NeverIsShell, NakedIsReread, Naked, LinksAssumption
<1>7. RequestsFit
  BY <1>2 DEF RequestsFit, Stage, StageOf, B!Busy
<1>8. QED
  BY <1>5, <1>6, <1>7 DEF LinksInv

LEMMA LinksInvKept ==
    ASSUME LinksAssumption, LinksInv, B!Next
    PROVE  LinksInv'
<1>1. /\ LinksTypes /\ B!NoTwins
      /\ IdsApart /\ NeverIsShell /\ NakedIsReread /\ DeletedIsGone /\ RequestsFit
  BY DEF LinksInv, LinksTypes
<1>2. \A r \in Requests : Stage(r)
  BY <1>1 DEF RequestsFit
<1>3. B!TypeOK'
  BY <1>1, <1>2, TypesKept
<1>4. B!NoTwins'
  BY <1>1, TwinsStayAway
<1>5. IdsApart'
  BY <1>1, <1>2, IdsStayApart
<1>6. NeverIsShell'
  BY <1>1, ShellsKept
<1>7. NakedIsReread'
  BY <1>1, <1>2, NakedKept
<1>8. DeletedIsGone'
  BY <1>1, <1>2, DeletedKept
<1>9. RequestsFit'
  BY <1>1, FitsKept
<1>10. QED
  BY <1>3, <1>4, <1>5, <1>6, <1>7, <1>8, <1>9 DEF LinksInv

LEMMA LinksInvUnchanged ==
    ASSUME LinksInv, UNCHANGED linkVars
    PROVE  LinksInv'
<1>1. /\ cache' = cache /\ targets' = targets /\ known' = known /\ req' = req
      /\ edits' = edits /\ crossed' = crossed /\ deleted' = deleted
  BY DEF linkVars
<1>2. B!TypeOK'
  BY <1>1 DEF LinksInv, B!TypeOK
<1>3. B!NoTwins' /\ IdsApart' /\ NeverIsShell'
  BY <1>1 DEF LinksInv, B!NoTwins, IdsApart, NeverIsShell, B!Has
<1>4. NakedIsReread'
  BY <1>1 DEF LinksInv, NakedIsReread, Naked, Rereads, B!Has
<1>5. DeletedIsGone'
  BY <1>1 DEF LinksInv, DeletedIsGone, Gone, B!Busy
<1>6. RequestsFit'
  BY <1>1 DEF LinksInv, RequestsFit, Stage, Fits, B!Busy, Bare, Linked
<1>7. QED
  BY <1>2, <1>3, <1>4, <1>5, <1>6 DEF LinksInv

LEMMA LinksInvAlways == MCSpec => []LinksInv
<1>1. MCInit => LinksInv
  BY LinksInvStarts, LinksAssumption DEF MCInit
<1>2. LinksInv /\ [MCNext]_all => LinksInv'
  <2>1. SUFFICES ASSUME LinksInv, [MCNext]_all PROVE LinksInv'
    OBVIOUS
  <2>2. B!Next \/ UNCHANGED linkVars
    BY <2>1 DEF MCNext, all
  <2>3. QED
    BY <2>1, <2>2, LinksInvKept, LinksInvUnchanged, LinksAssumption
<1>3. QED
  BY <1>1, <1>2, PTL DEF MCSpec

\* A barcode and a Food are linked once unless requests overlapped, what counts as found
\* has a title or is looked up or failed to be, and what was deleted stays away until it is used again
\* (add_target, perform_lookup, delete_barcode).
THEOREM LinksCorrectAlways == MCSpec => []LinksCorrect
<1>1. LinksInv => LinksCorrect
  <2>1. SUFFICES ASSUME LinksInv PROVE B!LinksCorrect
    BY DEF LinksCorrect
  <2>2. B!FoundHasTitle
    <3>1. SUFFICES ASSUME NEW c \in Numeric, B!Has(c), cache[c].found,
                          ~cache[c].title, ~cache[c].custom
                   PROVE  \E r \in Requests :
                              /\ req[r].op = "lookup" /\ req[r].code = c
                              /\ B!Busy(r) \/ req[r].answer = "failed"
      BY DEF B!FoundHasTitle
    <3>2. PICK r \in Requests : Rereads(r, c)
      BY <2>1, <3>1 DEF LinksInv, NakedIsReread, Naked
    <3>3. QED
      BY <3>2 DEF Rereads, B!Busy
  <2>3. B!StaysDeleted
    BY <2>1 DEF LinksInv, DeletedIsGone, Gone, B!StaysDeleted, B!Has, B!TargetsOf
  <2>4. QED
    BY <2>1, <2>2, <2>3 DEF LinksInv, B!LinksCorrect
<1>2. QED
  BY <1>1, LinksInvAlways, PTL

-----------------------------------------------------------------------------
(* What a scan does that no other request of its barcode crosses.          *)

\* It adds nothing to a barcode that is linked, and forgets nothing.
LEMMA KeepsAsItIs ==
    ASSUME NEW r \in Requests, targets' = targets, cache' = cache
    PROVE  B!KeepsLinks(r)
BY DEF B!KeepsLinks

LEMMA NothingToSay ==
    ASSUME NEW r \in Requests, req'[r].answer \notin {"routed", "unknown"}
    PROVE  B!RoutesLinks(r)
BY DEF B!RoutesLinks

LEMMA NotEndedSaysNothing ==
    ASSUME LinksTypes, NEW r \in Requests, NEW new, GoesOn(r, new), new.at # "ended"
    PROVE  B!RoutesLinks(r)
<1>1. req'[r] = new /\ new.answer = "none"
  BY GoesOnFacts DEF GoesOn, StageOf
<1>2. QED
  BY <1>1, NothingToSay

LEMMA ArrivalObeys ==
    ASSUME LinksTypes, NEW r \in Requests, NEW c \in Codes, Stage(r), B!ScanArrives(r, c)
    PROVE  B!KeepsLinks(r) /\ B!RoutesLinks(r)
<1> DEFINE new == [req[r] EXCEPT !.at = "gate"]
<1>1. req[r].code = c /\ GoesOn(r, new)
  BY ArrivalGoesOn
<1>2. targets' = targets
  BY DEF B!ScanArrives
<1>3. B!Has(c) /\ cache[c].found => cache'[c].found
  <2>1. CASE cache' = cache
    BY <2>1
  <2>2. CASE cache' # cache
    BY <2>2, ArrivalWrites
  <2>3. QED
    BY <2>1, <2>2
<1>4. B!KeepsLinks(r)
  BY <1>1, <1>2, <1>3 DEF B!KeepsLinks
<1>5. new.at # "ended"
  BY DEF LinksTypes, B!TypeOK, B!Request
<1> HIDE DEF new
<1>6. QED
  BY <1>1, <1>4, <1>5, NotEndedSaysNothing

LEMMA LookObeys ==
    ASSUME LinksTypes, NEW r \in Requests, NEW c \in Codes, Stage(r),
           B!ScanLooks(r, c) \/ B!Answered(r, c)
    PROVE  B!KeepsLinks(r) /\ B!RoutesLinks(r)
<1>1. PICK new : GoesOn(r, new) /\ new.at # "ended"
  <2>1. CASE B!ScanLooks(r, c)
    <3>1. \E new : GoesOn(r, new) /\ new.at \in {"process", "route"}
      BY <2>1, LookGoesOn
    <3>2. QED
      BY <3>1
  <2>2. CASE B!Answered(r, c)
    <3>1. \E new : GoesOn(r, new) /\ new.at = "store"
      BY <2>2, AnswerGoesOn
    <3>2. QED
      BY <3>1
  <2>3. QED
    BY <2>1, <2>2
<1>2. targets' = targets /\ cache' = cache
  BY DEF B!ScanLooks, B!Answered
<1>3. QED
  BY <1>1, <1>2, KeepsAsItIs, NotEndedSaysNothing

LEMMA RouteObeys ==
    ASSUME LinksTypes, IdsApart, NEW r \in Requests, Fits(r), B!Route(r)
    PROVE  B!KeepsLinks(r) /\ B!RoutesLinks(r)
<1>1. PICK new :
               /\ GoesOn(r, new) /\ req[r].at = "route" /\ new.at = "ended"
               /\ new.ids = B!Ids({t \in targets : t.id \in req[r].ids})
               /\ new.answer \in {"failed", "routed"}
  BY RouteGoesOn
<1>2. req'[r] = new
  BY <1>1, GoesOnFacts
<1>3. targets' = targets /\ cache' = cache
  BY DEF B!Route
<1>4. \A n : n \in req[r].ids <=> \E t \in targets : t.code = req[r].code /\ t.id = n
  BY <1>1 DEF Fits
<1>5. {t \in targets : t.id \in req[r].ids} = {t \in targets : t.code = req[r].code}
  BY <1>4 DEF IdsApart
<1>6. B!RoutesLinks(r)
  BY <1>1, <1>2, <1>3, <1>5 DEF B!RoutesLinks
<1>7. QED
  BY <1>3, <1>6, KeepsAsItIs

LEMMA ProcessObeys ==
    ASSUME LinksTypes, NEW r \in Requests, NEW c \in Codes, Stage(r), Fits(r),
           B!Process(r, c)
    PROVE  B!KeepsLinks(r) /\ B!RoutesLinks(r)
<1>1. PICK new :
               /\ GoesOn(r, new) /\ req[r].at = "process" /\ req[r].code = c
               /\ \/ /\ new.at = "ended" /\ new.answer = "routed"
                     /\ new.ids = B!Ids(B!TargetsOf(c)) /\ cache' = cache
                  \/ /\ new.at = "lookup" /\ new.loaded = cache[c] /\ cache' = cache
                     /\ Bare(c) /\ (B!Has(c) => ~cache[c].found)
                  \/ new.at = "match" /\ Bare(c) /\ B!Has(c) /\ cache[c].found
                     /\ cache' = cache
                  \/ /\ new.at = "ended" /\ new.answer = "unknown" /\ Bare(c)
                     /\ \/ B!Has(c) /\ ~cache[c].found /\ cache' = cache
                        \/ ~B!Has(c) /\ CacheSets(c, B!Raw)
  BY ProcessGoesOn
<1>2. req'[r] = new
  BY <1>1, GoesOnFacts
<1>3. targets' = targets
  BY DEF B!Process
<1>4. B!KeepsLinks(r)
  BY <1>1, <1>3 DEF B!KeepsLinks
<1>5. CASE new.at = "ended" /\ new.answer = "routed" /\ new.ids = B!Ids(B!TargetsOf(c))
  BY <1>1, <1>2, <1>3, <1>4, <1>5 DEF B!RoutesLinks, B!TargetsOf
<1>6. CASE new.at # "ended"
  BY <1>1, <1>4, <1>6, NotEndedSaysNothing
<1>7. CASE new.answer = "unknown" /\ Bare(c) /\ B!Has(c) /\ ~cache[c].found
           /\ cache' = cache
  <2>1. c \in Numeric => cache[c].tried # "never"
    BY <1>1, <1>7 DEF Fits, B!Has
  <2>2. QED
    BY <1>1, <1>2, <1>4, <1>7, <2>1 DEF B!RoutesLinks
<1>8. CASE new.answer = "unknown" /\ CacheSets(c, B!Raw)
  <2>1. cache'[c].tried = "fresh"
    BY <1>8, CacheSetFacts DEF B!Raw
  <2>2. QED
    BY <1>1, <1>2, <1>4, <1>8, <2>1 DEF B!RoutesLinks
<1>9. QED
  BY <1>1, <1>4, <1>5, <1>6, <1>7, <1>8

LEMMA StoreObeys ==
    ASSUME LinksTypes, NEW r \in Requests, NEW c \in Codes, Stage(r), Fits(r),
           req[r].op = "scan", B!Store(r, c)
    PROVE  B!KeepsLinks(r) /\ B!RoutesLinks(r)
<1>1. PICK new, row :
               /\ GoesOn(r, new) /\ req[r].at = "store" /\ req[r].code = c
               /\ row \in B!Row /\ CacheSets(c, row) /\ row.tried = "fresh"
               /\ StoredAs(row, cache[c], req[r].loaded, req[r].hit)
               /\ \/ new.at = "match" /\ req[r].op = "scan"
                  \/ new.at = "ended" /\ new.answer \in {"unknown", "none"}
  BY StoreGoesOn
<1>2. req'[r] = new
  BY <1>1, GoesOnFacts
<1>3. targets' = targets
  BY DEF B!Store
<1>4. B!Has(c) => ~cache[c].found
  BY <1>1 DEF Fits, B!Has
<1>5. B!KeepsLinks(r)
  BY <1>1, <1>3, <1>4 DEF B!KeepsLinks
<1>6. cache'[c].tried = "fresh"
  BY <1>1, CacheSetFacts
<1>7. CASE new.at # "ended"
  BY <1>1, <1>5, <1>7, NotEndedSaysNothing
<1>8. CASE new.answer \in {"unknown", "none"}
  BY <1>1, <1>2, <1>5, <1>6, <1>8 DEF B!RoutesLinks
<1>9. QED
  BY <1>1, <1>7, <1>8

LEMMA MatchObeys ==
    ASSUME LinksTypes, NEW r \in Requests, NEW c \in Codes, Stage(r), B!Match(r, c)
    PROVE  B!KeepsLinks(r) /\ B!RoutesLinks(r)
<1>1. PICK new : /\ GoesOn(r, new)
                 /\ \/ new.at = "ended" /\ new.answer = "noted"
                    \/ new.at = "add"
  <2>1. \E new : /\ GoesOn(r, new) /\ req[r].at = "match" /\ req[r].code = c
                 /\ \/ new.at = "ended" /\ new.answer = "noted"
                    \/ new.at = "add" /\ (new.ids = {} <=> ~Linked(c, new.food))
    BY MatchGoesOn
  <2>2. QED
    BY <2>1
<1>2. targets' = targets /\ cache' = cache
  BY DEF B!Match
<1>3. req'[r] = new
  BY <1>1, GoesOnFacts
<1>4. QED
  BY <1>1, <1>2, <1>3, KeepsAsItIs, NothingToSay, NotEndedSaysNothing

LEMMA AddObeys ==
    ASSUME LinksTypes, NEW r \in Requests, NEW c \in Codes, Stage(r), Fits(r),
           req[r].op = "scan", B!Add(r, c), targets' \subseteq B!Target
    PROVE  B!KeepsLinks(r) /\ B!RoutesLinks(r)
<1>1. PICK new :
               /\ GoesOn(r, new) /\ req[r].at = "add" /\ req[r].code = c
               /\ new.at = "ended" /\ new.answer \in {"none", "routed"}
               /\ new.ids = B!Ids({t \in targets' : t.code = c})
  BY AddGoesOn
<1>2. req'[r] = new
  BY <1>1, GoesOnFacts
<1>3. cache' = cache
  BY DEF B!Add
<1>4. req[r].ids = {} /\ Bare(c)
  BY <1>1 DEF Fits
<1>5. targets \subseteq targets'
  BY <1>4, AddWrites DEF Adds
<1>6. B!KeepsLinks(r)
  BY <1>1, <1>3, <1>4, <1>5 DEF B!KeepsLinks, B!TargetsOf, Bare
<1>7. B!RoutesLinks(r)
  BY <1>1, <1>2 DEF B!RoutesLinks
<1>8. QED
  BY <1>6, <1>7

LEMMA FailureObeys ==
    ASSUME LinksTypes, NEW r \in Requests, NEW c \in Codes,
           B!StoreFails(r, c) \/ B!AddFails(r, c)
    PROVE  B!KeepsLinks(r) /\ B!RoutesLinks(r)
<1>1. \E new : GoesOn(r, new) /\ new.answer = "failed"
  BY FailuresGoOn
<1>2. req'[r].answer = "failed"
  BY <1>1, GoesOnFacts
<1>3. targets' = targets /\ cache' = cache
  BY DEF B!StoreFails, B!AddFails
<1>4. QED
  BY <1>2, <1>3, KeepsAsItIs, NothingToSay

LEMMA ScanObeys ==
    ASSUME LinksAssumption, LinksInv, B!Next, NEW r \in Requests, B!Steps(r),
           r \notin crossed'
    PROVE  B!KeepsLinks(r) /\ B!RoutesLinks(r)
<1>1. LinksTypes /\ IdsApart /\ RequestsFit
  BY DEF LinksInv, LinksTypes
<1>2. r \notin crossed /\ req[r].op = "scan" /\ req'[r] # req[r]
  BY CrossedGrows DEF B!Steps
<1>3. (\A q \in Requests : Stage(q)) /\ Stage(r) /\ (B!Busy(r) => Fits(r))
  BY <1>1, <1>2 DEF RequestsFit
<1>4. targets' \subseteq B!Target
  BY <1>1, <1>3, TargetsTyped
<1>5. RequestMoves(r)
  <2>1. PICK q \in Requests : RequestMoves(q)
    BY <1>2, RequestsOnlyMove
  <2>2. PICK new : GoesOn(q, new)
    BY <1>1, <1>3, <1>4, <2>1, RequestSteps
  <2>3. q = r
    BY <1>1, <1>2, <2>2, GoesOnFacts
  <2>4. QED
    BY <2>1, <2>3
<1>6. CASE B!Route(r)
  <2>1. Fits(r)
    BY <1>3, <1>6 DEF B!Route, B!Busy
  <2>2. QED
    BY <1>1, <1>6, <2>1, RouteObeys
<1>7. ASSUME NEW c \in Codes, B!Handles(r, c)
      PROVE  B!KeepsLinks(r) /\ B!RoutesLinks(r)
  <2>1. CASE B!ScanArrives(r, c) \/ B!ScanLooks(r, c) \/ B!Answered(r, c)
    BY <1>1, <1>3, <2>1, ArrivalObeys, LookObeys
  <2>2. CASE B!Process(r, c) \/ B!Store(r, c) \/ B!Add(r, c)
    <3>1. Fits(r)
      BY <1>3, <2>2 DEF B!Process, B!Store, B!Add, B!Busy
    <3>2. QED
      BY <1>1, <1>2, <1>3, <1>4, <2>2, <3>1, ProcessObeys, StoreObeys, AddObeys
  <2>3. CASE B!StoreFails(r, c) \/ B!AddFails(r, c)
    BY <1>1, <2>3, FailureObeys
  <2>4. CASE B!Match(r, c)
    BY <1>1, <1>3, <2>4, MatchObeys
  <2>5. CASE B!LookUpAgain(r, c) \/ B!Map(r, c)
    BY <1>2, <2>5 DEF B!LookUpAgain, B!Map, B!Begin
  <2>6. QED
    BY <1>7, <2>1, <2>2, <2>3, <2>4, <2>5 DEF B!Handles
<1>8. QED
  BY <1>5, <1>6, <1>7 DEF RequestMoves

KeepStep == \A r \in Requests : B!Steps(r) /\ r \notin crossed' => B!KeepsLinks(r)

RouteStep == \A r \in Requests : B!Steps(r) /\ r \notin crossed' => B!RoutesLinks(r)

\* A scan that no other request of its barcode crosses adds a target only to a barcode
\* without any, forgets nothing that was found, routes all targets of its barcode and no
\* others, and calls a barcode unknown only after its providers were asked
\* (_process_scan, _route_known_targets).
THEOREM ScansObeyLinksAlways == MCSpec => ScansObeyLinks
<1>1. LinksInv /\ [MCNext]_all => [KeepStep]_(B!vars) /\ [RouteStep]_(B!vars)
  <2>1. SUFFICES ASSUME LinksInv, [MCNext]_all
                 PROVE  [KeepStep]_(B!vars) /\ [RouteStep]_(B!vars)
    OBVIOUS
  <2>2. B!Next \/ UNCHANGED B!vars
    BY <2>1 DEF MCNext, all, linkVars, B!vars
  <2>3. B!Next => KeepStep /\ RouteStep
    BY <2>1, ScanObeys, LinksAssumption DEF KeepStep, RouteStep
  <2>4. QED
    BY <2>2, <2>3
<1>2. MCSpec => [][KeepStep]_(B!vars) /\ [][RouteStep]_(B!vars)
  BY <1>1, LinksInvAlways, PTL DEF MCSpec
<1>3. QED
  BY <1>2 DEF KeepStep, RouteStep, ScansObeyLinks, B!ScansObeyLinks, B!ScansKeepLinks,
              B!ScansRouteLinks

-----------------------------------------------------------------------------
(* ScanFeed: the inductive invariant.                                      *)

RowsApart == \A i, j \in DOMAIN rows : rows[i].id = rows[j].id => i = j

Announced == \E i \in DOMAIN rows : Unread(rows[i])

OneUnread ==
    ~twin => \A i, j \in DOMAIN rows : Unread(rows[i]) /\ Unread(rows[j]) => i = j

RecordOf(stage) == IF stage \in {"insert", "close", "store", "ended"} THEN 1 ELSE 0

Recording ==
    \A s \in Scans \ troubled : at[s] # "lost" /\ recorded[s] = RecordOf(at[s])

\* A failure was announced, or there was a row for it when scan s looked.
Failed(s) ==
    \/ at[s] \in {"close", "store", "ended"} /\ outcome[s].res = "failed"
    \/ at[s] = "excuse" /\ saw["scan"][s] # NoRow

Announcing == \A s \in Scans \ (troubled \cup touched) : Failed(s) => Announced

Early == {"idle", "opening", "route", "inline", "insert", "close"}

\* Scan s gives this row its result yet.
WillClose(s, row) ==
    \/ at[s] \in Early
    \/ at[s] \in {"store", "excuse"} /\ saw["scan"][s] = row

Closing ==
    ~late /\ ~twin /\ troubled = {} =>
        \A i \in DOMAIN rows : Unread(rows[i]) /\ rows[i].res = "processing" =>
            \E s \in Scans : WillClose(s, rows[i].id)

Answering ==
    \A s \in Scans : at[s] \in {"insert", "close", "store", "ended"} =>
        outcome[s].res # "processing"

\* Every scan under way routes the link that settled the barcode.
Settling ==
    settled =>
        /\ linked
        /\ \A i \in DOMAIN rows : rows[i].res # "unlinked"
        /\ \A s \in Scans : at[s] \notin {"idle", "ended", "lost"} =>
               /\ outcome[s].job /\ at[s] # "inline"
               /\ at[s] = "insert" => outcome[s].res = "failed"
               /\ outcome[s].res # "unlinked"

Showing ==
    /\ feed # <<>> => Last(feed) = newest
    /\ \A s \in Scans \ troubled, i \in 1..Len(feed) :
           feed[i].of = s /\ feed[i].name = "scan" =>
               /\ at[s] \notin {"idle", "opening"}
               /\ \A j \in 1..Len(feed) :
                      i < j /\ feed[j].of = s => feed[j].name # "scan-received"

FeedInv == /\ TypeOK /\ RowsApart /\ OneUnread /\ Recording /\ Announcing
           /\ Closing /\ Answering /\ Settling /\ Showing

FeedTypes == FeedAssumption /\ TypeOK

-----------------------------------------------------------------------------
(* The notifications of the barcode.                                       *)

LEMMA LastFound ==
    ASSUME NEW T \in SUBSET Nat, IsFiniteSet(T), T # {}
    PROVE  Max(T) \in T /\ \A m \in T : m <= Max(T)
<1>1. B!Max(T) \in T /\ \A m \in T : B!Max(T) >= m
  BY MaxFacts
<1>2. QED
  BY <1>1 DEF Max

LEMMA RowFacts ==
    ASSUME rows \in Seq(Row)
    PROVE  /\ Len(rows) \in Nat /\ DOMAIN rows = 1..Len(rows)
           /\ \A i \in DOMAIN rows :
                  /\ rows[i] \in Row /\ rows[i].id \in Nat \ {NoRow}
                  /\ rows[i].res \in Results
                  /\ rows[i].unread \in BOOLEAN /\ rows[i].shown \in BOOLEAN
<1>1. /\ Len(rows) \in Nat /\ DOMAIN rows = 1..Len(rows)
      /\ \A i \in DOMAIN rows : rows[i] \in Row
  BY LenProperties, ElementOfSeq
<1>2. ASSUME NEW r \in Row
      PROVE  /\ r.id \in Nat \ {NoRow} /\ r.res \in Results
             /\ r.unread \in BOOLEAN /\ r.shown \in BOOLEAN
  BY DEF Row
<1>3. QED
  BY <1>1, <1>2

LEMMA NextIdIsNew ==
    ASSUME rows \in Seq(Row)
    PROVE  /\ NextId \in Nat \ {NoRow}
           /\ \A i \in DOMAIN rows : rows[i].id # NextId
<1> DEFINE ids == {r.id : r \in ToSet(rows)}
           T == {0} \cup ids
           f == [i \in DOMAIN rows |-> rows[i].id]
<1>1. \A i \in DOMAIN rows : rows[i].id \in Nat
  BY RowFacts
<1>2. \A n \in ids : \E i \in DOMAIN rows : rows[i].id = n
  BY DEF ToSet
<1>3. \A i \in DOMAIN rows : rows[i].id \in ids
  BY DEF ToSet
<1>4. ids \in SUBSET Nat
  BY <1>1, <1>2
<1>5. IsFiniteSet(ids)
  <2>1. IsFiniteSet(DOMAIN rows)
    BY RowFacts, FS_Interval
  <2>2. f \in Surjection(DOMAIN rows, ids)
    BY <1>2, <1>3 DEF Surjection
  <2>3. QED
    BY <2>1, <2>2, FS_Surjection
<1>6. T \in SUBSET Nat /\ T # {} /\ IsFiniteSet(T)
  <2>1. IsFiniteSet(ids \cup {0})
    BY <1>5, FS_AddElement
  <2>2. T = ids \cup {0}
    OBVIOUS
  <2>3. T \in SUBSET Nat /\ 0 \in T
    BY <1>4
  <2> HIDE DEF T
  <2>4. QED
    BY <2>1, <2>2, <2>3
<1>7. Max(T) \in T /\ \A m \in T : m <= Max(T)
  BY <1>6, LastFound
<1>8. NextId = 1 + Max(T)
  BY DEF NextId
<1> HIDE DEF T, ids
<1>9. Max(T) \in Nat
  BY <1>6, <1>7
<1>10. \A i \in DOMAIN rows : rows[i].id <= Max(T)
  BY <1>3, <1>7 DEF T
<1>11. QED
  BY <1>1, <1>8, <1>9, <1>10 DEF NoRow

LEMMA NewestUnreadFacts ==
    ASSUME rows \in Seq(Row)
    PROVE  /\ NewestUnread \in Nat
           /\ NewestUnread = NoRow <=> ~Announced
           /\ NewestUnread # NoRow =>
                  \E i \in DOMAIN rows : Unread(rows[i]) /\ rows[i].id = NewestUnread
<1> DEFINE found == {i \in DOMAIN rows : Unread(rows[i])}
<1>1. NewestUnread = IF found = {} THEN NoRow ELSE rows[Max(found)].id
  BY DEF NewestUnread
<1>2. found = {} <=> ~Announced
  BY DEF Announced
<1>3. ASSUME found # {}
      PROVE  Max(found) \in found
  <2>1. found \in SUBSET Nat
    BY RowFacts
  <2>2. IsFiniteSet(found)
    <3>1. IsFiniteSet(DOMAIN rows) /\ found \subseteq DOMAIN rows
      BY RowFacts, FS_Interval
    <3>2. QED
      BY <3>1, FS_Subset
  <2>3. QED
    BY <1>3, <2>1, <2>2, LastFound
<1> HIDE DEF found
<1>4. CASE found = {}
  BY <1>1, <1>2, <1>4 DEF NoRow
<1>5. CASE found # {}
  <2>1. Max(found) \in DOMAIN rows /\ Unread(rows[Max(found)])
    BY <1>3, <1>5 DEF found
  <2>2. NewestUnread = rows[Max(found)].id
    BY <1>1, <1>5
  <2>3. QED
    BY <1>2, <1>5, <2>1, <2>2, RowFacts
<1>6. QED
  BY <1>4, <1>5

\* What is left of a sequence without its i-th element, and another one after it.
LEMMA MovedLast ==
    ASSUME NEW T, NEW q \in Seq(T), NEW i \in 1..Len(q), NEW e \in T
    PROVE  /\ Append(RemoveAt(q, i), e) \in Seq(T)
           /\ Len(Append(RemoveAt(q, i), e)) = Len(q)
           /\ \A n \in 1..Len(q) :
                  Append(RemoveAt(q, i), e)[n] =
                      IF n < i THEN q[n] ELSE IF n < Len(q) THEN q[n + 1] ELSE e
<1> DEFINE u == SubSeq(q, 1, i - 1)
           v == SubSeq(q, i + 1, Len(q))
           m == Append(RemoveAt(q, i), e)
<1>1. Len(q) \in Nat /\ \A n \in 1..Len(q) : q[n] \in T
  BY LenProperties, ElementOfSeq
<1>2. /\ u \in Seq(T) /\ Len(u) = i - 1
      /\ \A n \in 1..(i - 1) : u[n] = q[n]
  <2>1. \A n \in 1..(i - 1) : q[n] \in T
    BY <1>1
  <2>2. /\ u \in Seq(T) /\ Len(u) = IF 1 <= i - 1 THEN i - 1 - 1 + 1 ELSE 0
        /\ \A n \in 1..(i - 1 - 1 + 1) : u[n] = q[1 + n - 1]
    BY <1>1, <2>1, SubSeqProperties
  <2>3. QED
    BY <1>1, <2>2
<1>3. /\ v \in Seq(T) /\ Len(v) = Len(q) - i
      /\ \A n \in 1..(Len(q) - i) : v[n] = q[i + n]
  <2>1. \A n \in (i + 1)..Len(q) : q[n] \in T
    BY <1>1
  <2>2. /\ v \in Seq(T)
        /\ Len(v) = IF i + 1 <= Len(q) THEN Len(q) - (i + 1) + 1 ELSE 0
        /\ \A n \in 1..(Len(q) - (i + 1) + 1) : v[n] = q[(i + 1) + n - 1]
    BY <1>1, <2>1, SubSeqProperties
  <2>3. QED
    BY <1>1, <2>2
<1>4. RemoveAt(q, i) = u \o v
  BY DEF RemoveAt
<1> HIDE DEF u, v
<1>5. /\ u \o v \in Seq(T) /\ Len(u \o v) = Len(q) - 1
      /\ \A n \in 1..(Len(q) - 1) : (u \o v)[n] = IF n < i THEN q[n] ELSE q[n + 1]
  <2>1. /\ u \o v \in Seq(T) /\ Len(u \o v) = Len(u) + Len(v)
        /\ \A n \in 1..(Len(u) + Len(v)) :
               (u \o v)[n] = IF n <= Len(u) THEN u[n] ELSE v[n - Len(u)]
    BY <1>2, <1>3, ConcatProperties
  <2>2. Len(u \o v) = Len(q) - 1
    BY <1>1, <1>2, <1>3, <2>1
  <2>3. ASSUME NEW n \in 1..(Len(q) - 1)
        PROVE  (u \o v)[n] = IF n < i THEN q[n] ELSE q[n + 1]
    <3>1. CASE n < i
      <4>1. n \in 1..(Len(u) + Len(v)) /\ n <= Len(u) /\ n \in 1..(i - 1)
        BY <1>1, <1>2, <1>3, <3>1
      <4>2. (u \o v)[n] = u[n] /\ u[n] = q[n]
        BY <1>2, <2>1, <4>1
      <4>3. QED
        BY <3>1, <4>2
    <3>2. CASE ~(n < i)
      <4>1. /\ n \in 1..(Len(u) + Len(v)) /\ ~(n <= Len(u))
            /\ n - Len(u) \in 1..(Len(q) - i) /\ i + (n - Len(u)) = n + 1
        BY <1>1, <1>2, <1>3, <3>2
      <4>2. (u \o v)[n] = v[n - Len(u)] /\ v[n - Len(u)] = q[i + (n - Len(u))]
        BY <1>3, <2>1, <4>1
      <4>3. QED
        BY <3>2, <4>1, <4>2
    <3>3. QED
      BY <3>1, <3>2
  <2>4. QED
    BY <2>1, <2>2, <2>3
<1> DEFINE w == u \o v
<1>6. w \in Seq(T) /\ Len(w) = Len(q) - 1 /\ m = Append(w, e)
  BY <1>4, <1>5
<1>7. \A n \in 1..(Len(q) - 1) : w[n] = IF n < i THEN q[n] ELSE q[n + 1]
  BY <1>5
<1> HIDE DEF w
<1>8. /\ m \in Seq(T) /\ Len(m) = Len(w) + 1
      /\ \A n \in 1..Len(w) : m[n] = w[n]
      /\ m[Len(w) + 1] = e
  BY <1>6, AppendProperties
<1>9. QED
  BY <1>1, <1>6, <1>7, <1>8

-----------------------------------------------------------------------------
(* What a step does to the notifications.                                  *)

SameMarks(r, q) == r.id = q.id /\ (Unread(r) <=> Unread(q))

\* A row is given result res, or added with it if none was found.
Upserted(found, res) ==
    /\ rows' \in Seq(Row) /\ RowsApart'
    /\ \A i \in DOMAIN rows : \E j \in DOMAIN rows' : SameMarks(rows'[j], rows[i])
    /\ \A j \in DOMAIN rows' :
           \/ found = NoRow /\ rows'[j].res = res
           \/ \E i \in DOMAIN rows :
                  /\ SameMarks(rows'[j], rows[i])
                  /\ rows'[j].res = IF rows[i].id = found THEN res ELSE rows[i].res
    /\ found = NoRow => Announced'
    /\ OneUnread => OneUnread'
    /\ twin => twin'
    /\ twin' \in BOOLEAN

\* Rows are marked, or deleted.
Shrunk ==
    /\ rows' \in Seq(Row) /\ RowsApart'
    /\ \A j \in DOMAIN rows' : \E i \in DOMAIN rows :
           /\ rows'[j].id = rows[i].id
           /\ Unread(rows'[j]) => Unread(rows[i])
           /\ rows'[j].res \in {rows[i].res, "resolved"}

LEMMA AppendedIsUpserted ==
    ASSUME rows \in Seq(Row), RowsApart, NEW res \in Results, twin \in BOOLEAN,
           Upsert(NoRow, res)
    PROVE  Upserted(NoRow, res)
<1>1. /\ rows' = Append(rows, NewRow(res))
      /\ twin' = (twin \/ NewestUnread # NoRow)
  BY DEF Upsert
<1>2. /\ NewRow(res) \in Row /\ Unread(NewRow(res))
      /\ NewRow(res).id = NextId /\ NewRow(res).res = res
  BY NextIdIsNew DEF NewRow, Row, Unread
<1>3. /\ Len(rows) \in Nat /\ DOMAIN rows = 1..Len(rows)
      /\ rows' \in Seq(Row) /\ DOMAIN rows' = 1..(Len(rows) + 1)
      /\ \A i \in 1..Len(rows) : rows'[i] = rows[i]
      /\ rows'[Len(rows) + 1] = NewRow(res)
  BY <1>1, <1>2, RowFacts, AppendProperties, LenProperties
<1>4. RowsApart'
  <2>1. \A i \in DOMAIN rows : rows[i].id # NextId
    BY NextIdIsNew
  <2>2. SUFFICES ASSUME NEW i \in DOMAIN rows', NEW j \in DOMAIN rows',
                        rows'[i].id = rows'[j].id
                 PROVE  i = j
    BY DEF RowsApart
  <2>3. (i \in DOMAIN rows \/ i = Len(rows) + 1) /\ (j \in DOMAIN rows \/ j = Len(rows) + 1)
    BY <1>3
  <2>4. CASE i \in DOMAIN rows /\ j \in DOMAIN rows
    BY <1>3, <2>2, <2>4 DEF RowsApart
  <2>5. CASE i \in DOMAIN rows /\ j = Len(rows) + 1
    BY <1>2, <1>3, <2>1, <2>2, <2>5
  <2>6. CASE i = Len(rows) + 1 /\ j \in DOMAIN rows
    BY <1>2, <1>3, <2>1, <2>2, <2>6
  <2>7. QED
    BY <2>3, <2>4, <2>5, <2>6
<1>5. \A i \in DOMAIN rows : i \in DOMAIN rows' /\ SameMarks(rows'[i], rows[i])
  BY <1>3 DEF SameMarks
<1>6. ASSUME NEW j \in DOMAIN rows'
      PROVE  \/ rows'[j].res = res
             \/ \E i \in DOMAIN rows :
                    /\ SameMarks(rows'[j], rows[i])
                    /\ rows'[j].res = IF rows[i].id = NoRow THEN res ELSE rows[i].res
  <2>1. CASE j \in DOMAIN rows
    <3>1. rows'[j] = rows[j] /\ rows[j].id # NoRow
      BY <1>3, <2>1, RowFacts
    <3>2. SameMarks(rows'[j], rows[j])
      BY <3>1 DEF SameMarks
    <3>3. QED
      BY <2>1, <3>1, <3>2
  <2>2. QED
    BY <1>2, <1>3, <2>1
<1>7. Announced'
  BY <1>2, <1>3 DEF Announced, Unread
<1>8. ASSUME OneUnread PROVE OneUnread'
  <2>1. SUFFICES ASSUME ~twin', NEW i \in DOMAIN rows', NEW j \in DOMAIN rows',
                        Unread(rows'[i]), Unread(rows'[j])
                 PROVE  i = j
    BY DEF OneUnread, Unread
  <2>2. ~Announced
    BY <1>1, <2>1, NewestUnreadFacts
  <2>3. \A k \in DOMAIN rows : ~Unread(rows'[k])
    BY <1>3, <2>2 DEF Announced
  <2>4. QED
    BY <1>3, <2>1, <2>3
<1>9. (twin => twin') /\ twin' \in BOOLEAN
  BY <1>1
<1>10. QED
  BY <1>3, <1>4, <1>5, <1>6, <1>7, <1>8, <1>9 DEF Upserted

LEMMA UpdatedIsUpserted ==
    ASSUME rows \in Seq(Row), RowsApart, NEW res \in Results, twin \in BOOLEAN,
           NEW found, found # NoRow, Upsert(found, res)
    PROVE  Upserted(found, res)
<1>1. PICK k \in DOMAIN rows :
          /\ rows[k].id = found
          /\ rows' = Append(RemoveAt(rows, k), [rows[k] EXCEPT !.res = res])
          /\ twin' = twin
  BY DEF Upsert
<1> DEFINE e == [rows[k] EXCEPT !.res = res]
           From(j) == IF j < k THEN j ELSE IF j < Len(rows) THEN j + 1 ELSE k
           To(i) == IF i < k THEN i ELSE IF i = k THEN Len(rows) ELSE i - 1
<1>2. /\ Len(rows) \in Nat /\ DOMAIN rows = 1..Len(rows)
      /\ \A i \in DOMAIN rows : rows[i] \in Row
  BY RowFacts
<1>3. /\ e \in Row /\ e.id = rows[k].id /\ e.res = res
      /\ e.unread = rows[k].unread /\ e.shown = rows[k].shown
  BY <1>2 DEF Row
<1>12. /\ k \in 1..Len(rows) /\ rows[k].id = found
       /\ rows' = Append(RemoveAt(rows, k), e) /\ twin' = twin
  BY <1>1, <1>2
<1> HIDE DEF e
<1>4. /\ rows' \in Seq(Row) /\ Len(rows') = Len(rows) /\ DOMAIN rows' = DOMAIN rows
      /\ \A n \in 1..Len(rows) :
             rows'[n] = IF n < k THEN rows[n] ELSE IF n < Len(rows) THEN rows[n + 1] ELSE e
  <2> DEFINE m == Append(RemoveAt(rows, k), e)
  <2>3. /\ m \in Seq(Row) /\ Len(m) = Len(rows)
        /\ \A n \in 1..Len(rows) :
               m[n] = IF n < k THEN rows[n] ELSE IF n < Len(rows) THEN rows[n + 1] ELSE e
    <3>1. rows \in Seq(Row) /\ k \in 1..Len(rows) /\ e \in Row
      BY <1>3, <1>12
    <3>2. QED
      BY <3>1, MovedLast
  <2>4. rows' = m
    BY <1>12
  <2> HIDE DEF m
  <2>1. /\ rows' \in Seq(Row) /\ Len(rows') = Len(rows)
        /\ \A n \in 1..Len(rows) :
               rows'[n] = IF n < k THEN rows[n]
                          ELSE IF n < Len(rows) THEN rows[n + 1] ELSE e
    BY <2>3, <2>4
  <2>2. QED
    BY <1>2, <2>1, LenProperties
<1>5. \A j \in DOMAIN rows' :
          /\ From(j) \in DOMAIN rows /\ SameMarks(rows'[j], rows[From(j)])
          /\ To(From(j)) = j
          /\ rows'[j].res = IF From(j) = k THEN res ELSE rows[From(j)].res
  <2>1. SUFFICES ASSUME NEW j \in DOMAIN rows'
                 PROVE  /\ From(j) \in DOMAIN rows /\ To(From(j)) = j
                        /\ SameMarks(rows'[j], rows[From(j)])
                        /\ rows'[j].res = IF From(j) = k THEN res ELSE rows[From(j)].res
    OBVIOUS
  <2>7. j \in 1..Len(rows) /\ Len(rows) \in Nat /\ k \in 1..Len(rows)
    BY <1>2, <1>4, <1>12
  <2>2. From(j) \in DOMAIN rows /\ To(From(j)) = j
    BY <1>2, <2>7
  <2>3. rows'[j] = IF From(j) = k THEN e ELSE rows[From(j)]
    <3>1. rows'[j] = IF j < k THEN rows[j] ELSE IF j < Len(rows) THEN rows[j + 1] ELSE e
      BY <1>4, <2>7
    <3>2. QED
      BY <2>7, <3>1
  <2> HIDE DEF From, To
  <2>4. CASE From(j) = k
    BY <1>3, <2>2, <2>3, <2>4 DEF SameMarks, Unread
  <2>5. CASE From(j) # k
    BY <2>2, <2>3, <2>5 DEF SameMarks
  <2>6. QED
    BY <2>4, <2>5
<1>6. \A i \in DOMAIN rows : To(i) \in DOMAIN rows' /\ From(To(i)) = i
  <2>1. SUFFICES ASSUME NEW i \in DOMAIN rows
                 PROVE  To(i) \in DOMAIN rows' /\ From(To(i)) = i
    OBVIOUS
  <2>2. i \in 1..Len(rows) /\ Len(rows) \in Nat /\ k \in 1..Len(rows)
    BY <1>2, <1>12
  <2>3. QED
    BY <1>2, <1>4, <2>2
<1> HIDE DEF From, To
<1>7. RowsApart'
  <2>1. SUFFICES ASSUME NEW i \in DOMAIN rows', NEW j \in DOMAIN rows',
                        rows'[i].id = rows'[j].id
                 PROVE  i = j
    BY DEF RowsApart
  <2>2. From(i) = From(j)
    BY <1>5, <2>1 DEF RowsApart, SameMarks
  <2>3. QED
    BY <1>5, <2>2
<1>8. \A i \in DOMAIN rows : \E j \in DOMAIN rows' : SameMarks(rows'[j], rows[i])
  BY <1>5, <1>6
<1>9. \A j \in DOMAIN rows' : \E i \in DOMAIN rows :
          /\ SameMarks(rows'[j], rows[i])
          /\ rows'[j].res = IF rows[i].id = found THEN res ELSE rows[i].res
  <2>1. \A i \in DOMAIN rows : rows[i].id = found <=> i = k
    BY <1>12 DEF RowsApart
  <2>2. QED
    BY <1>5, <2>1
<1>10. ASSUME OneUnread PROVE OneUnread'
  <2>1. SUFFICES ASSUME ~twin', NEW i \in DOMAIN rows', NEW j \in DOMAIN rows',
                        Unread(rows'[i]), Unread(rows'[j])
                 PROVE  i = j
    BY DEF OneUnread, Unread
  <2>2. From(i) = From(j)
    BY <1>5, <1>10, <1>12, <2>1 DEF OneUnread, SameMarks
  <2>3. QED
    BY <1>5, <2>2
<1>11. QED
  BY <1>4, <1>7, <1>8, <1>9, <1>10, <1>12 DEF Upserted

LEMMA UpsertUpserts ==
    ASSUME rows \in Seq(Row), RowsApart, twin \in BOOLEAN,
           NEW found, NEW res \in Results, Upsert(found, res)
    PROVE  Upserted(found, res)
BY AppendedIsUpserted, UpdatedIsUpserted

LEMMA MarksShrink ==
    ASSUME rows \in Seq(Row), RowsApart, rows' \in [DOMAIN rows -> Row],
           \A i \in DOMAIN rows :
               /\ rows'[i].id = rows[i].id
               /\ Unread(rows'[i]) => Unread(rows[i])
               /\ rows'[i].res \in {rows[i].res, "resolved"}
    PROVE  Shrunk
<1>1. Len(rows) \in Nat /\ DOMAIN rows = 1..Len(rows)
  BY RowFacts
<1>2. rows' \in Seq(Row) /\ DOMAIN rows' = DOMAIN rows
  BY <1>1
<1>3. RowsApart'
  BY <1>2 DEF RowsApart
<1>4. QED
  BY <1>2, <1>3 DEF Shrunk

LEMMA SeenAndDismissed ==
    ASSUME NEW r \in Row
    PROVE  /\ Seen(r) \in Row /\ Dismissed(r) \in Row
           /\ Seen(r).id = r.id /\ Seen(r).res = r.res /\ ~Unread(Seen(r))
           /\ Dismissed(r).id = r.id /\ Dismissed(r).res = r.res /\ ~Unread(Dismissed(r))
BY DEF Row, Seen, Dismissed, Unread

Clears == MarkRead \/ Dismiss \/ MarkAllRead \/ DismissRead \/ Links \/ ClearMarks

LEMMA ClearsShrink ==
    ASSUME rows \in Seq(Row), RowsApart, Clears
    PROVE  Shrunk
<1>1. \A i \in DOMAIN rows : rows[i] \in Row
  BY RowFacts
<1>2. ASSUME NEW i \in DOMAIN rows
      PROVE  /\ Seen(rows[i]) \in Row /\ Dismissed(rows[i]) \in Row
             /\ Seen(rows[i]).id = rows[i].id /\ Seen(rows[i]).res = rows[i].res
             /\ ~Unread(Seen(rows[i]))
             /\ Dismissed(rows[i]).id = rows[i].id /\ Dismissed(rows[i]).res = rows[i].res
             /\ ~Unread(Dismissed(rows[i]))
  BY <1>1, SeenAndDismissed
<1>3. ASSUME NEW P, rows' = [i \in DOMAIN rows |->
                               IF i \in P THEN Seen(rows[i]) ELSE rows[i]]
      PROVE  Shrunk
  BY <1>1, <1>2, <1>3, MarksShrink
<1>4. ASSUME NEW P, rows' = [i \in DOMAIN rows |->
                               IF i \in P THEN Dismissed(rows[i]) ELSE rows[i]]
      PROVE  Shrunk
  BY <1>1, <1>2, <1>4, MarksShrink
<1>5. CASE MarkRead
  <2>1. PICK k \in DOMAIN rows :
            rows' = [i \in DOMAIN rows |->
                         IF rows[i].id = rows[k].id THEN Seen(rows[i]) ELSE rows[i]]
    BY <1>5 DEF MarkRead, Marked
  <2>2. rows' = [i \in DOMAIN rows |->
                     IF i \in {n \in DOMAIN rows : rows[n].id = rows[k].id}
                     THEN Seen(rows[i]) ELSE rows[i]]
    BY <2>1
  <2>3. QED
    BY <1>3, <2>2
<1>6. CASE Dismiss
  <2>1. PICK k \in DOMAIN rows :
            rows' = [i \in DOMAIN rows |->
                         IF rows[i].id = rows[k].id THEN Dismissed(rows[i]) ELSE rows[i]]
    BY <1>6 DEF Dismiss, Marked
  <2>2. rows' = [i \in DOMAIN rows |->
                     IF i \in {n \in DOMAIN rows : rows[n].id = rows[k].id}
                     THEN Dismissed(rows[i]) ELSE rows[i]]
    BY <2>1
  <2>3. QED
    BY <1>4, <2>2
<1>7. CASE MarkAllRead
  <2>1. rows' = [i \in DOMAIN rows |->
                     IF i \in {n \in DOMAIN rows : rows[n].unread}
                     THEN Seen(rows[i]) ELSE rows[i]]
    BY <1>7 DEF MarkAllRead, Marked
  <2>2. QED
    BY <1>3, <2>1
<1>8. CASE DismissRead
  <2>1. rows' = [i \in DOMAIN rows |->
                     IF i \in {n \in DOMAIN rows : ~rows[n].unread}
                     THEN Dismissed(rows[i]) ELSE rows[i]]
    BY <1>8 DEF DismissRead, Marked
  <2>2. QED
    BY <1>4, <2>1
<1>9. CASE Links
  <2>1. rows' = [i \in DOMAIN rows |->
                     IF rows[i].res = "unlinked"
                     THEN [Dismissed(rows[i]) EXCEPT !.res = "resolved"]
                     ELSE Seen(rows[i])]
    BY <1>9 DEF Links
  <2>2. ASSUME NEW r \in Row
        PROVE  /\ [r EXCEPT !.res = "resolved"] \in Row
               /\ [r EXCEPT !.res = "resolved"].id = r.id
               /\ [r EXCEPT !.res = "resolved"].res = "resolved"
               /\ Unread([r EXCEPT !.res = "resolved"]) <=> Unread(r)
    BY DEF Row, Results, Unread
  <2>3. \A i \in DOMAIN rows :
            LET e == [Dismissed(rows[i]) EXCEPT !.res = "resolved"] IN
            e \in Row /\ e.id = rows[i].id /\ e.res = "resolved" /\ ~Unread(e)
    BY <1>2, <2>2
  <2>4. QED
    BY <1>1, <1>2, <2>1, <2>3, MarksShrink
<1>10. CASE ClearMarks
  <2>1. CASE rows' = rows
    BY <1>1, <2>1, MarksShrink, RowFacts
  <2>2. CASE rows' # rows
    <3>1. rows' = [i \in DOMAIN rows |->
                       IF i \in {n \in DOMAIN rows : rows[n].shown}
                       THEN Dismissed(rows[i]) ELSE rows[i]]
      BY <1>10, <2>2 DEF ClearMarks, Marked
    <3>2. QED
      BY <1>4, <3>1
  <2>3. QED
    BY <2>1, <2>2
<1>11. QED
  BY <1>5, <1>6, <1>7, <1>8, <1>9, <1>10 DEF Clears

LEMMA PurgesShrink ==
    ASSUME rows \in Seq(Row), RowsApart, Purges
    PROVE  /\ Shrunk
           /\ Announced => Announced'
<1>1. /\ Len(rows) \in Nat /\ DOMAIN rows = 1..Len(rows)
      /\ \A i \in DOMAIN rows : rows[i] \in Row
  BY RowFacts
<1>2. PICK k \in DOMAIN rows :
          \E row \in [1..Cardinality({i \in DOMAIN rows : i > k \/ rows[i].unread})
                        -> {i \in DOMAIN rows : i > k \/ rows[i].unread}] :
              /\ \A m, n \in DOMAIN row : m < n => row[m] < row[n]
              /\ \A i \in {i \in DOMAIN rows : i > k \/ rows[i].unread} :
                     \E n \in DOMAIN row : row[n] = i
              /\ rows' = [n \in DOMAIN row |-> rows[row[n]]]
  BY DEF Purges
<1> DEFINE kept == {i \in DOMAIN rows : i > k \/ rows[i].unread}
<1>3. IsFiniteSet(kept)
  <2>1. IsFiniteSet(DOMAIN rows) /\ kept \subseteq DOMAIN rows
    BY <1>1, FS_Interval
  <2>2. QED
    BY <2>1, FS_Subset
<1>4. Cardinality(kept) \in Nat
  BY <1>3, FS_CardinalityType
<1>5. PICK row \in [1..Cardinality(kept) -> kept] :
          /\ \A m, n \in DOMAIN row : m < n => row[m] < row[n]
          /\ \A i \in kept : \E n \in DOMAIN row : row[n] = i
          /\ rows' = [n \in DOMAIN row |-> rows[row[n]]]
  BY <1>2
<1>6. \A i \in kept : i \in DOMAIN rows
  OBVIOUS
<1>7. \A i \in DOMAIN rows : Unread(rows[i]) => i \in kept
  BY DEF Unread
<1> HIDE DEF kept
<1>8. /\ DOMAIN rows' = 1..Cardinality(kept)
      /\ \A n \in DOMAIN rows' :
             row[n] \in DOMAIN rows /\ rows'[n] = rows[row[n]] /\ rows'[n] \in Row
  BY <1>1, <1>5, <1>6
<1>9. rows' \in Seq(Row)
  <2>1. rows' \in [1..Cardinality(kept) -> Row]
    BY <1>1, <1>5, <1>6
  <2>2. QED
    BY <1>4, <2>1
<1>10. RowsApart'
  <2>1. SUFFICES ASSUME NEW i \in DOMAIN rows', NEW j \in DOMAIN rows',
                        rows'[i].id = rows'[j].id
                 PROVE  i = j
    BY DEF RowsApart
  <2>2. row[i] = row[j] /\ row[i] \in Nat
    BY <1>1, <1>8, <2>1 DEF RowsApart
  <2>3. i \in Nat /\ j \in Nat /\ i \in DOMAIN row /\ j \in DOMAIN row
    BY <1>5, <1>8
  <2>4. QED
    BY <1>5, <2>2, <2>3
<1>11. Shrunk
  BY <1>8, <1>9, <1>10 DEF Shrunk
<1>12. ASSUME Announced PROVE Announced'
  <2>1. PICK i \in DOMAIN rows : Unread(rows[i])
    BY <1>12 DEF Announced
  <2>2. PICK n \in DOMAIN row : row[n] = i
    BY <1>5, <1>7, <2>1
  <2>3. n \in DOMAIN rows' /\ rows'[n] = rows[i]
    BY <1>5, <1>8, <2>2
  <2>4. QED
    BY <2>1, <2>3 DEF Announced, Unread
<1>13. QED
  BY <1>11, <1>12

-----------------------------------------------------------------------------
(* Types.                                                                  *)

LEMMA ReportFacts ==
    ASSUME NEW r \in InlineReports
    PROVE  /\ r.res \in {"done", "failed", "unlinked"}
           /\ r.res = "failed" => r.tell
<1>1. CASE r \in ActionReports \cup RoutedReports
  BY <1>1 DEF ActionReports, RoutedReports, Report
<1>2. CASE r \in GenericReports
  BY <1>2 DEF GenericReports, Report
<1>3. CASE r \in ProductReports
  BY <1>3 DEF ProductReports, Report
<1>4. QED
  BY <1>1, <1>2, <1>3 DEF InlineReports

LEMMA RoutedFacts ==
    ASSUME NEW r \in RoutedReports
    PROVE  /\ r.res \in {"done", "failed"}
           /\ r.res = "failed" => r.tell
           /\ r.tell => r.res = "failed"
BY DEF RoutedReports, Report

Reporting(s) ==
    \/ \E r \in RoutedReports : Reports(s, "route", r)
    \/ \E r \in InlineReports : Reports(s, "inline", r)

Writes(s) ==
    \/ ReceiptStored(s) \/ Opens(s) \/ Refused(s)
    \/ Inserts(s) \/ Stores(s) \/ Excuses(s)

Looks(s) ==
    \/ ReceiptArrives(s) \/ Arrives(s) \/ NothingToRoute(s) \/ Closes(s) \/ Raises(s)

\* Which kinds of step there are.
LEMMA FeedSteps ==
    ASSUME Next
    PROVE  \/ \E s \in Scans : Writes(s) \/ Looks(s) \/ Reporting(s)
           \/ Clears \/ Purges
           \/ Restart \/ Deliver \/ Unlinks \/ ClearLooks
BY DEF Next, Handles, Writes, Looks, Reporting, Clears, Routes, ProcessesInline

LEMMA WritesUpsert ==
    ASSUME FeedTypes, RowsApart, NEW s \in Scans, Writes(s)
    PROVE  \E found \in Nat, res \in Results : Upserted(found, res)
<1>1. /\ rows \in Seq(Row) /\ twin \in BOOLEAN
      /\ saw["scan"][s] \in Nat /\ saw["receipt"][s] \in Nat
      /\ outcome[s].res \in Results /\ AnnouncementRes(outcome[s]) \in Results
      /\ "processing" \in Results /\ "failed" \in Results /\ NoRow \in Nat
  BY DEF FeedTypes, TypeOK, AnnouncementRes, Results, NoRow
<1>2. PICK found \in Nat, res \in Results : Upsert(found, res)
  BY <1>1 DEF Writes, ReceiptStored, Opens, Refused, Inserts, Stores, Excuses
<1>3. QED
  BY <1>1, <1>2, UpsertUpserts

LEMMA OthersKeepRows ==
    ASSUME NEW s \in Scans, Looks(s) \/ Reporting(s) \/ Restart \/ Deliver \/ Unlinks \/ ClearLooks
    PROVE  rows' = rows /\ twin' = twin
BY DEF Looks, ReceiptArrives, Arrives, NothingToRoute, Closes, Raises, Reporting, Reports,
       Restart, Deliver, Unlinks, ClearLooks, UserOnly, stores, history

LEMMA RestKeepsRows ==
    ASSUME Restart \/ Deliver \/ Unlinks \/ ClearLooks
    PROVE  rows' = rows /\ twin' = twin
BY DEF Restart, Deliver, Unlinks, ClearLooks, UserOnly, stores, history

LEMMA ClearsKeepTwin ==
    ASSUME Clears \/ Purges
    PROVE  twin' = twin
BY DEF Clears, MarkRead, Dismiss, MarkAllRead, DismissRead, Links, ClearMarks, Purges, UserOnly

LEMMA ShrunkKeepsOne ==
    ASSUME rows \in Seq(Row), RowsApart, Shrunk, twin' = twin, OneUnread
    PROVE  OneUnread'
<1>1. SUFFICES ASSUME ~twin, NEW i \in DOMAIN rows', NEW j \in DOMAIN rows',
                      Unread(rows'[i]), Unread(rows'[j])
               PROVE  i = j
  BY DEF OneUnread, Unread
<1>2. PICK m \in DOMAIN rows : rows'[i].id = rows[m].id /\ Unread(rows[m])
  BY <1>1 DEF Shrunk
<1>3. PICK n \in DOMAIN rows : rows'[j].id = rows[n].id /\ Unread(rows[n])
  BY <1>1 DEF Shrunk
<1>4. m = n
  BY <1>1, <1>2, <1>3 DEF OneUnread
<1>5. QED
  BY <1>1, <1>2, <1>3, <1>4 DEF Shrunk, RowsApart

\* Ids stay apart, and there are two unread rows only after a twin was added.
LEMMA RowsKept ==
    ASSUME FeedTypes, RowsApart, Next
    PROVE  /\ rows' \in Seq(Row) /\ RowsApart' /\ twin' \in BOOLEAN
           /\ OneUnread => OneUnread'
           /\ twin => twin'
<1>1. rows \in Seq(Row) /\ twin \in BOOLEAN
  BY DEF FeedTypes, TypeOK
<1>2. CASE \E s \in Scans : Writes(s)
  BY <1>2, WritesUpsert DEF Upserted
<1>3. CASE rows' = rows /\ twin' = twin
  BY <1>1, <1>3 DEF RowsApart, OneUnread
<1>4. CASE Clears \/ Purges
  <2>1. Shrunk /\ twin' = twin
    BY <1>1, <1>4, ClearsShrink, PurgesShrink, ClearsKeepTwin
  <2>2. QED
    BY <1>1, <2>1, ShrunkKeepsOne DEF Shrunk
<1>5. QED
  BY <1>2, <1>3, <1>4, FeedSteps, OthersKeepRows, RestKeepsRows

\* An unread row is cleared only by what touches the scans under way.
LEMMA AnnouncedKept ==
    ASSUME FeedTypes, RowsApart, Next, Announced, NEW t \in Scans,
           t \notin touched', at[t] # "idle"
    PROVE  Announced'
<1>1. rows \in Seq(Row) /\ twin \in BOOLEAN
  BY DEF FeedTypes, TypeOK
<1>2. CASE \E s \in Scans : Writes(s)
  <2>1. PICK found \in Nat, res \in Results : Upserted(found, res)
    BY <1>2, WritesUpsert
  <2>2. PICK i \in DOMAIN rows : Unread(rows[i])
    BY DEF Announced
  <2>3. PICK j \in DOMAIN rows' : SameMarks(rows'[j], rows[i])
    BY <2>1 DEF Upserted
  <2>4. QED
    BY <2>2, <2>3 DEF Announced, SameMarks, Unread
<1>3. CASE rows' = rows
  BY <1>3 DEF Announced, Unread
<1>4. CASE Clears
  <2>1. rows' = rows \/ Touches
    BY <1>4 DEF Clears, MarkRead, Dismiss, MarkAllRead, DismissRead, Links, ClearMarks
  <2>2. ~Touches
    BY DEF Touches
  <2>3. QED
    BY <1>3, <2>1, <2>2
<1>5. CASE Purges
  BY <1>1, <1>5, PurgesShrink
<1>6. QED
  BY <1>2, <1>3, <1>4, <1>5, FeedSteps, OthersKeepRows, RestKeepsRows

LEMMA PublishTyped ==
    ASSUME FeedTypes, NEW name \in {"received", "scan-received", "scan"}, NEW s \in Scans,
           Publish(name, s) \/ UNCHANGED browser
    PROVE  /\ feed' \in Seq(Event) /\ Len(feed') <= QueueCap
           /\ newest' \in Event \cup {NoEvent} /\ page' \in BOOLEAN
<1>1. /\ feed \in Seq(Event) /\ Len(feed) \in Nat /\ Len(feed) <= QueueCap
      /\ QueueCap \in Nat \ {0} /\ newest \in Event \cup {NoEvent} /\ page \in BOOLEAN
  BY LenProperties DEF FeedTypes, TypeOK, FeedAssumption
<1>2. CASE UNCHANGED browser
  BY <1>1, <1>2 DEF browser
<1>3. CASE Publish(name, s)
  <2> DEFINE e == [name |-> name, of |-> s]
             q == IF Len(feed) = QueueCap THEN Tail(feed) ELSE feed
  <2>1. e \in Event
    BY DEF Event
  <2>2. /\ feed' = IF page THEN Append(q, e) ELSE feed
        /\ newest' = IF page THEN e ELSE newest
        /\ page' = page
    BY <1>3 DEF Publish, PutLatest
  <2>3. q \in Seq(Event) /\ Len(q) \in Nat /\ Len(q) < QueueCap
    <3>1. CASE Len(feed) = QueueCap
      <4>1. feed # <<>>
        BY <1>1, <3>1, EmptySeq
      <4>2. Tail(feed) \in Seq(Event) /\ Len(Tail(feed)) = Len(feed) - 1
        BY <1>1, <4>1, HeadTailProperties
      <4>3. QED
        BY <1>1, <3>1, <4>2
    <3>2. CASE Len(feed) # QueueCap
      BY <1>1, <3>2
    <3>3. QED
      BY <3>1, <3>2
  <2> HIDE DEF e, q
  <2>4. Append(q, e) \in Seq(Event) /\ Len(Append(q, e)) = Len(q) + 1
    BY <2>1, <2>3, AppendProperties
  <2>5. QED
    BY <1>1, <2>1, <2>2, <2>3, <2>4
<1>4. QED
  BY <1>2, <1>3

\* What the steps of a scan keep typed.
StepTyped ==
    /\ receipt' \in [Scans -> {"sent", "found", "gone"}]
    /\ at' \in [Scans -> Stages]
    /\ saw' \in [{"receipt", "scan"} -> [Scans -> Nat]]
    /\ outcome' \in [Scans -> [res : Results, job : BOOLEAN]]
    /\ recorded' \in [Scans -> Nat]
    /\ troubled' \subseteq Scans /\ troubles' \in 0..MaxTroubles
    /\ late' \in BOOLEAN /\ linked' \in BOOLEAN

StepRest ==
    /\ clear' = clear /\ touched' = touched /\ settled' = settled /\ clicks' = clicks

LEMMA FeedTyped ==
    ASSUME FeedTypes
    PROVE  /\ \A s \in Scans : /\ at[s] \in Stages /\ recorded[s] \in Nat
                               /\ outcome[s] \in [res : Results, job : BOOLEAN]
                               /\ outcome[s].res \in Results
                               /\ saw["scan"][s] \in Nat /\ saw["receipt"][s] \in Nat
           /\ MaxTroubles \in Nat /\ MaxClicks \in Nat
           /\ troubles \in Nat /\ clicks \in Nat
BY DEF FeedTypes, TypeOK, FeedAssumption

LEMMA WritesTyped ==
    ASSUME FeedTypes, RowsApart, NEW s \in Scans, Writes(s)
    PROVE  StepTyped /\ StepRest
<1>1. NewestUnread \in Nat
  BY NewestUnreadFacts DEF FeedTypes, TypeOK
<1>2. CASE ReceiptStored(s)
  BY <1>1, <1>2, FeedTyped DEF FeedTypes, TypeOK, StepTyped, StepRest, ReceiptStored, Forgets,
     bounds, Stages, NoRow
<1>3. CASE Opens(s)
  BY <1>1, <1>3, FeedTyped DEF FeedTypes, TypeOK, StepTyped, StepRest, Opens, Step, Forgets,
     bounds, Stages, NoRow
<1>4. CASE Refused(s)
  BY <1>1, <1>4, FeedTyped DEF FeedTypes, TypeOK, StepTyped, StepRest, Refused, Step, Forgets,
     bounds, Stages, NoRow
<1>5. CASE Inserts(s)
  BY <1>1, <1>5, FeedTyped DEF FeedTypes, TypeOK, StepTyped, StepRest, Inserts, Step,
     bounds, Stages
<1>6. CASE Stores(s)
  <2>1. [outcome[s] EXCEPT !.job = FALSE] \in [res : Results, job : BOOLEAN]
    BY FeedTyped
  <2>2. outcome' = [outcome EXCEPT ![s] = [outcome[s] EXCEPT !.job = FALSE]]
    BY <1>6 DEF Stores
  <2>3. outcome' \in [Scans -> [res : Results, job : BOOLEAN]]
    BY <2>1, <2>2 DEF FeedTypes, TypeOK
  <2>4. QED
    BY <1>6, <2>3, FeedTyped DEF FeedTypes, TypeOK, StepTyped, StepRest, Stores, Step, Forgets,
       bounds, Stages, NoRow
<1>7. CASE Excuses(s)
  <2>1. /\ recorded' = [recorded EXCEPT ![s] = recorded[s] + 1]
        /\ outcome' = [outcome EXCEPT ![s] = [res |-> "failed", job |-> outcome[s].job]]
    BY <1>7 DEF Excuses, Recorded, Report
  <2>2. [res |-> "failed", job |-> outcome[s].job] \in [res : Results, job : BOOLEAN]
    BY FeedTyped DEF Results
  <2>3. /\ outcome' \in [Scans -> [res : Results, job : BOOLEAN]]
        /\ recorded' \in [Scans -> Nat]
    BY <2>1, <2>2, FeedTyped DEF FeedTypes, TypeOK
  <2>4. QED
    BY <1>7, <2>3, FeedTyped DEF FeedTypes, TypeOK, StepTyped, StepRest, Excuses, Step, Forgets,
       bounds, Stages, NoRow
<1>8. QED
  BY <1>2, <1>3, <1>4, <1>5, <1>6, <1>7 DEF Writes

LEMMA LooksTyped ==
    ASSUME FeedTypes, RowsApart, NEW s \in Scans, Looks(s)
    PROVE  StepTyped /\ StepRest
<1>1. NewestUnread \in Nat
  BY NewestUnreadFacts DEF FeedTypes, TypeOK
<1>2. CASE ReceiptArrives(s)
  BY <1>1, <1>2, FeedTyped DEF FeedTypes, TypeOK, StepTyped, StepRest, ReceiptArrives,
     stores, browser, history, bounds
<1>3. CASE Arrives(s)
  <2>1. [NoOutcome EXCEPT !.job = linked] \in [res : Results, job : BOOLEAN]
    BY DEF NoOutcome, Results, FeedTypes, TypeOK
  <2>2. outcome' = [outcome EXCEPT ![s] = [NoOutcome EXCEPT !.job = linked]]
    BY <1>3 DEF Arrives
  <2>3. outcome' \in [Scans -> [res : Results, job : BOOLEAN]]
    BY <2>1, <2>2 DEF FeedTypes, TypeOK
  <2>4. QED
    BY <1>1, <1>3, <2>3, FeedTyped DEF FeedTypes, TypeOK, StepTyped, StepRest, Arrives, Step,
       Finds, stores, browser, history, bounds, Stages
<1>4. CASE NothingToRoute(s)
  BY <1>1, <1>4, FeedTyped DEF FeedTypes, TypeOK, StepTyped, StepRest, NothingToRoute, Step,
     Finds, stores, browser, history, bounds, Stages
<1>5. CASE Closes(s)
  BY <1>1, <1>5, FeedTyped DEF FeedTypes, TypeOK, StepTyped, StepRest, Closes, Step,
     Finds, stores, browser, history, bounds, Stages
<1>6. CASE Raises(s)
  <2>1. PICK from \in {"route", "inline", "insert", "close", "store"} : Step(s, from, "excuse")
    BY <1>6 DEF Raises
  <2>2. at' \in [Scans -> Stages]
    BY <2>1 DEF Step, FeedTypes, TypeOK, Stages
  <2>3. QED
    BY <1>1, <1>6, <2>2, FeedTyped DEF FeedTypes, TypeOK, StepTyped, StepRest, Raises,
       Finds, stores, browser, Stages
<1>7. QED
  BY <1>2, <1>3, <1>4, <1>5, <1>6 DEF Looks

\* What a report does.
ReportedAs(s, r) ==
    /\ r.res \in {"done", "failed", "unlinked"}
    /\ at[s] = "route" => r.res \in {"done", "failed"} /\ (r.tell => r.res = "failed")
    /\ r.res = "failed" => r.tell
    /\ at[s] \in {"route", "inline"}
    /\ at' = [at EXCEPT ![s] = IF r.tell /\ NewestUnread = NoRow THEN "insert" ELSE "close"]
    /\ recorded' = [recorded EXCEPT ![s] = recorded[s] + 1]
    /\ outcome' = [outcome EXCEPT ![s] = [res |-> r.res, job |-> outcome[s].job]]
    /\ linked' = (linked \/ r.links)
    /\ IF r.tell /\ NewestUnread = NoRow THEN UNCHANGED browser ELSE Publish("scan", s)
    /\ UNCHANGED <<rows, receipt, saw, clear, history, bounds>>

LEMMA ReportDoes ==
    ASSUME NEW s \in Scans, Reporting(s)
    PROVE  \E r : ReportedAs(s, r)
<1>1. CASE \E r \in RoutedReports : Reports(s, "route", r)
  <2>1. PICK r \in RoutedReports : Reports(s, "route", r)
    BY <1>1
  <2>2. ReportedAs(s, r)
    BY <2>1, RoutedFacts DEF ReportedAs, Reports, Step, Recorded
  <2>3. QED
    BY <2>2
<1>2. CASE \E r \in InlineReports : Reports(s, "inline", r)
  <2>1. PICK r \in InlineReports : Reports(s, "inline", r)
    BY <1>2
  <2>2. ReportedAs(s, r)
    BY <2>1, ReportFacts DEF ReportedAs, Reports, Step, Recorded
  <2>3. QED
    BY <2>2
<1>3. QED
  BY <1>1, <1>2 DEF Reporting

LEMMA ReportsTyped ==
    ASSUME FeedTypes, NEW s \in Scans, Reporting(s)
    PROVE  StepTyped /\ StepRest
<1>1. PICK r : ReportedAs(s, r)
  BY ReportDoes
<1>2. [res |-> r.res, job |-> outcome[s].job] \in [res : Results, job : BOOLEAN]
  BY <1>1, FeedTyped DEF Results, ReportedAs
<1>3. /\ outcome' \in [Scans -> [res : Results, job : BOOLEAN]]
      /\ recorded' \in [Scans -> Nat] /\ at' \in [Scans -> Stages]
  BY <1>1, <1>2, FeedTyped DEF FeedTypes, TypeOK, Stages, ReportedAs
<1>4. QED
  BY <1>1, <1>3 DEF FeedTypes, TypeOK, StepTyped, StepRest, history, bounds, ReportedAs

LEMMA BrowserTyped ==
    ASSUME FeedTypes, NEW s \in Scans, Writes(s) \/ Looks(s) \/ Reporting(s)
    PROVE  /\ feed' \in Seq(Event) /\ Len(feed') <= QueueCap
           /\ newest' \in Event \cup {NoEvent} /\ page' \in BOOLEAN
<1>1. ASSUME NEW name \in {"received", "scan-received", "scan"},
             Publish(name, s) \/ UNCHANGED browser
      PROVE  /\ feed' \in Seq(Event) /\ Len(feed') <= QueueCap
             /\ newest' \in Event \cup {NoEvent} /\ page' \in BOOLEAN
  BY <1>1, PublishTyped
<1>2. CASE Writes(s)
  <2>1. \/ Publish("received", s) \/ Publish("scan-received", s) \/ Publish("scan", s)
        \/ UNCHANGED browser
    BY <1>2 DEF Writes, ReceiptStored, Opens, Refused, Inserts, Stores, Excuses
  <2>2. QED
    BY <1>1, <2>1
<1>3. CASE Looks(s)
  BY <1>1, <1>3 DEF Looks, ReceiptArrives, Arrives, NothingToRoute, Closes, Raises
<1>4. CASE Reporting(s)
  <2>1. PICK r : ReportedAs(s, r)
    BY <1>4, ReportDoes
  <2>2. QED
    BY <1>1, <2>1 DEF ReportedAs
<1>5. QED
  BY <1>2, <1>3, <1>4

LEMMA UserTyped ==
    ASSUME FeedTypes, Clears \/ Purges \/ Unlinks \/ ClearLooks
    PROVE  /\ UserOnly
           /\ linked' \in BOOLEAN /\ clear' \in {"idle", "due", "posted"}
           /\ touched' \subseteq Scans /\ settled' \in BOOLEAN
           /\ clicks' \in 0..MaxClicks
<1>1. \A c : Click(c) => clicks' \in 0..MaxClicks
  BY FeedTyped DEF Click
<1>2. Touches => touched' \subseteq Scans
  BY DEF Touches, FeedTypes, TypeOK
<1>3. CASE MarkRead \/ Dismiss \/ MarkAllRead \/ DismissRead
  BY <1>1, <1>2, <1>3 DEF MarkRead, Dismiss, MarkAllRead, DismissRead, FeedTypes, TypeOK
<1>4. CASE Links
  <2>1. (\A s \in Scans : at[s] \in {"idle", "ended", "lost"}) \in BOOLEAN
    OBVIOUS
  <2>2. settled' \in BOOLEAN
    BY <1>4, <2>1 DEF Links
  <2>3. QED
    BY <1>1, <1>2, <1>4, <2>2 DEF Links, FeedTypes, TypeOK
<1>5. CASE ClearMarks \/ Purges \/ Unlinks \/ ClearLooks
  BY <1>1, <1>2, <1>5, FeedTyped DEF ClearMarks, Purges, Unlinks, ClearLooks, FeedTypes, TypeOK
<1>6. QED
  BY <1>3, <1>4, <1>5 DEF Clears

LEMMA FeedTypesKept ==
    ASSUME FeedTypes, RowsApart, Next
    PROVE  TypeOK'
<1>1. rows' \in Seq(Row) /\ twin' \in BOOLEAN
  BY RowsKept
<1>2. CASE \E s \in Scans : Writes(s) \/ Looks(s) \/ Reporting(s)
  <2>1. PICK s \in Scans : Writes(s) \/ Looks(s) \/ Reporting(s)
    BY <1>2
  <2>2. StepTyped /\ StepRest
    BY <2>1, WritesTyped, LooksTyped, ReportsTyped
  <2>3. /\ feed' \in Seq(Event) /\ Len(feed') <= QueueCap
        /\ newest' \in Event \cup {NoEvent} /\ page' \in BOOLEAN
    BY <2>1, BrowserTyped
  <2>4. QED
    BY <1>1, <2>2, <2>3 DEF StepTyped, StepRest, FeedTypes, TypeOK
<1>3. CASE Clears \/ Purges \/ Unlinks \/ ClearLooks
  BY <1>1, <1>3, UserTyped DEF UserOnly, browser, FeedTypes, TypeOK
<1>4. CASE Restart
  <2>1. /\ <<>> \in Seq(Event) /\ Len(<<>>) = 0
    BY EmptySeq
  <2>2. at' \in [Scans -> Stages]
    BY <1>4, FeedTyped DEF Restart, Stages
  <2>3. saw' \in [{"receipt", "scan"} -> [Scans -> Nat]]
    BY <1>4 DEF Restart, NoRow, FeedTypes, TypeOK
  <2>4. receipt' \in [Scans -> {"sent", "found", "gone"}]
    BY <1>4 DEF Restart, FeedTypes, TypeOK
  <2>5. /\ troubles' \in 0..MaxTroubles /\ troubled' \subseteq Scans
    BY <1>4, FeedTyped DEF Restart, FeedTypes, TypeOK
  <2>6. feed' \in Seq(Event) /\ Len(feed') <= QueueCap
    BY <1>4, <2>1 DEF Restart, FeedTypes, FeedAssumption
  <2>7. QED
    BY <1>1, <1>4, <2>2, <2>3, <2>4, <2>5, <2>6 DEF Restart, stores, FeedTypes, TypeOK
<1>5. CASE Deliver
  <2>1. feed # <<>> /\ feed' = Tail(feed)
    BY <1>5 DEF Deliver
  <2>2. feed' \in Seq(Event) /\ Len(feed') = Len(feed) - 1
    BY <2>1, HeadTailProperties DEF FeedTypes, TypeOK
  <2>3. Len(feed) \in Nat /\ QueueCap \in Nat
    BY LenProperties DEF FeedTypes, TypeOK, FeedAssumption
  <2>4. Len(feed') <= QueueCap
    BY <2>2, <2>3 DEF FeedTypes, TypeOK
  <2>5. QED
    BY <1>1, <1>5, <2>2, <2>4 DEF Deliver, stores, requests, history, bounds, FeedTypes, TypeOK
<1>6. QED
  BY <1>2, <1>3, <1>4, <1>5, FeedSteps

-----------------------------------------------------------------------------
(* The parts of the invariant.                                             *)

\* Where scan t is, and what it found, after a step that is not its own.
LEMMA OthersStay ==
    ASSUME FeedTypes, NEW s \in Scans, NEW t \in Scans, s # t,
           Writes(s) \/ Looks(s) \/ Reporting(s)
    PROVE  /\ at'[t] = at[t] /\ outcome'[t] = outcome[t] /\ recorded'[t] = recorded[t]
           /\ saw'["scan"][t] = saw["scan"][t]
<1>1. CASE Writes(s)
  <2>1. CASE ReceiptStored(s)
    BY <2>1 DEF FeedTypes, TypeOK, ReceiptStored, Forgets
  <2>2. CASE Opens(s) \/ Refused(s)
    BY <2>2 DEF FeedTypes, TypeOK, Opens, Refused, Step, Forgets
  <2>3. CASE Inserts(s)
    BY <2>3 DEF FeedTypes, TypeOK, Inserts, Step
  <2>4. CASE Stores(s)
    BY <2>4 DEF FeedTypes, TypeOK, Stores, Step, Forgets
  <2>5. CASE Excuses(s)
    BY <2>5 DEF FeedTypes, TypeOK, Excuses, Step, Forgets, Recorded
  <2>6. QED
    BY <1>1, <2>1, <2>2, <2>3, <2>4, <2>5 DEF Writes
<1>2. CASE Looks(s)
  BY <1>2 DEF FeedTypes, TypeOK, Looks, ReceiptArrives, Arrives, NothingToRoute, Closes,
     Raises, Step, Finds, stores
<1>3. CASE Reporting(s)
  <2>1. PICK r : ReportedAs(s, r)
    BY <1>3, ReportDoes
  <2>2. QED
    BY <2>1 DEF ReportedAs, FeedTypes, TypeOK
<1>4. QED
  BY <1>1, <1>2, <1>3

LEMMA UsersStay ==
    ASSUME Clears \/ Purges \/ Deliver \/ Unlinks \/ ClearLooks
    PROVE  UNCHANGED <<at, outcome, recorded, saw, troubled, late, twin>>
BY DEF Clears, MarkRead, Dismiss, MarkAllRead, DismissRead, Links, ClearMarks, Purges,
       Deliver, Unlinks, ClearLooks, UserOnly, stores, requests, history

LEMMA RestartDoes ==
    ASSUME FeedTypes, Restart, NEW t \in Scans, t \notin troubled'
    PROVE  /\ at'[t] = at[t] /\ at[t] \in {"idle", "ended"}
           /\ outcome'[t] = outcome[t] /\ recorded'[t] = recorded[t]
           /\ t \notin troubled
BY DEF Restart, stores, FeedTypes, TypeOK

LEMMA TroubleStays ==
    ASSUME FeedTypes, Next
    PROVE  troubled \subseteq troubled' /\ (late => late')
<1>1. ASSUME NEW s \in Scans, Writes(s) \/ Looks(s) \/ Reporting(s)
      PROVE  troubled \subseteq troubled' /\ (late => late')
  <2>1. CASE Writes(s)
    <3>1. CASE ReceiptStored(s)
      BY <3>1 DEF ReceiptStored
    <3>2. CASE Opens(s) \/ Refused(s)
      BY <3>2 DEF Opens, Refused
    <3>3. CASE Inserts(s)
      BY <3>3 DEF Inserts
    <3>4. CASE Stores(s)
      BY <3>4 DEF Stores
    <3>5. CASE Excuses(s)
      BY <3>5 DEF Excuses
    <3>6. QED
      BY <2>1, <3>1, <3>2, <3>3, <3>4, <3>5 DEF Writes
  <2>2. CASE Looks(s)
    BY <2>2 DEF Looks, ReceiptArrives, Arrives, NothingToRoute, Closes, Raises, history
  <2>3. CASE Reporting(s)
    BY <2>3, ReportDoes DEF ReportedAs, history
  <2>4. QED
    BY <1>1, <2>1, <2>2, <2>3
<1>2. CASE Restart
  BY <1>2 DEF Restart
<1>3. QED
  BY <1>1, <1>2, FeedSteps, UsersStay

\* The history has one row of a scan from its report on.
LEMMA RecordingKept ==
    ASSUME FeedTypes, Recording, Next
    PROVE  Recording'
<1>1. SUFFICES ASSUME NEW t \in Scans, t \notin troubled'
               PROVE  at'[t] # "lost" /\ recorded'[t] = RecordOf(at'[t])
  BY DEF Recording, RecordOf
<1>2. t \notin troubled
  BY <1>1, TroubleStays
<1>3. /\ at[t] # "lost" /\ recorded[t] = RecordOf(at[t])
      /\ at[t] \in Stages /\ recorded[t] \in Nat
  BY <1>2, FeedTyped DEF Recording
<1>4. ASSUME NEW s \in Scans, Writes(s) \/ Looks(s) \/ Reporting(s)
      PROVE  at'[t] # "lost" /\ recorded'[t] = RecordOf(at'[t])
  <2>1. CASE s # t
    BY <1>3, <1>4, <2>1, OthersStay
  <2>2. CASE s = t /\ Writes(t)
    <3>1. CASE ReceiptStored(t)
      BY <1>3, <3>1 DEF ReceiptStored
    <3>2. CASE Opens(t)
      BY <1>3, <3>2 DEF Opens, Step, RecordOf, FeedTypes, TypeOK
    <3>3. CASE Refused(t)
      BY <1>1, <3>3 DEF Refused
    <3>4. CASE Inserts(t) \/ Stores(t)
      BY <1>3, <3>4 DEF Inserts, Stores, Step, RecordOf, FeedTypes, TypeOK
    <3>5. CASE Excuses(t)
      BY <1>3, <3>5 DEF Excuses, Recorded, Step, RecordOf, FeedTypes, TypeOK
    <3>6. QED
      BY <2>2, <3>1, <3>2, <3>3, <3>4, <3>5 DEF Writes
  <2>3. CASE s = t /\ Looks(t)
    BY <1>1, <1>3, <2>3 DEF Looks, ReceiptArrives, Arrives, NothingToRoute, Closes, Raises,
       Step, stores, RecordOf, FeedTypes, TypeOK
  <2>4. CASE s = t /\ Reporting(t)
    <3>1. PICK r : ReportedAs(t, r)
      BY <2>4, ReportDoes
    <3>2. QED
      BY <1>3, <3>1 DEF ReportedAs, RecordOf, FeedTypes, TypeOK
  <2>5. QED
    BY <1>4, <2>1, <2>2, <2>3, <2>4
<1>5. CASE Clears \/ Purges \/ Deliver \/ Unlinks \/ ClearLooks
  BY <1>3, <1>5, UsersStay
<1>6. CASE Restart
  BY <1>1, <1>3, <1>6, RestartDoes
<1>7. QED
  BY <1>4, <1>5, <1>6, FeedSteps

LEMMA AnsweringKept ==
    ASSUME FeedTypes, Answering, Next
    PROVE  Answering'
<1>1. SUFFICES ASSUME NEW t \in Scans, at'[t] \in {"insert", "close", "store", "ended"}
               PROVE  outcome'[t].res # "processing"
  BY DEF Answering
<1>2. /\ at[t] \in {"insert", "close", "store", "ended"} => outcome[t].res # "processing"
      /\ at[t] \in Stages
  BY FeedTyped DEF Answering
<1>3. ASSUME NEW s \in Scans, Writes(s) \/ Looks(s) \/ Reporting(s)
      PROVE  outcome'[t].res # "processing"
  <2>1. CASE s # t
    BY <1>1, <1>2, <1>3, <2>1, OthersStay
  <2>2. CASE s = t /\ Writes(t)
    <3>1. CASE ReceiptStored(t)
      BY <1>1, <1>2, <3>1 DEF ReceiptStored
    <3>2. CASE Opens(t) \/ Refused(t)
      BY <1>1, <3>2 DEF Opens, Refused, Step, FeedTypes, TypeOK
    <3>3. CASE Inserts(t)
      BY <1>1, <1>2, <3>3 DEF Inserts, Step, FeedTypes, TypeOK
    <3>4. CASE Stores(t)
      <4>1. outcome' = [outcome EXCEPT ![t] = [outcome[t] EXCEPT !.job = FALSE]]
            /\ at[t] = "store"
        BY <3>4 DEF Stores, Step
      <4>2. outcome'[t].res = outcome[t].res
        BY <4>1 DEF FeedTypes, TypeOK
      <4>3. QED
        BY <1>2, <4>1, <4>2
    <3>5. CASE Excuses(t)
      BY <3>5 DEF Excuses, Recorded, Report, FeedTypes, TypeOK
    <3>6. QED
      BY <2>2, <3>1, <3>2, <3>3, <3>4, <3>5 DEF Writes
  <2>3. CASE s = t /\ Looks(t)
    BY <1>1, <1>2, <2>3 DEF Looks, ReceiptArrives, Arrives, NothingToRoute, Closes, Raises,
       Step, FeedTypes, TypeOK
  <2>4. CASE s = t /\ Reporting(t)
    <3>1. PICK r : ReportedAs(t, r)
      BY <2>4, ReportDoes
    <3>2. QED
      BY <3>1 DEF ReportedAs, FeedTypes, TypeOK
  <2>5. QED
    BY <1>3, <2>1, <2>2, <2>3, <2>4
<1>4. CASE Clears \/ Purges \/ Deliver \/ Unlinks \/ ClearLooks
  BY <1>1, <1>2, <1>4, UsersStay
<1>5. CASE Restart
  BY <1>1, <1>2, <1>5 DEF Restart, FeedTypes, TypeOK
<1>6. QED
  BY <1>3, <1>4, <1>5, FeedSteps

\* A scan that has failed just now has left an unread row, or found one.
LEMMA NewFailure ==
    ASSUME FeedTypes, RowsApart, Next, NEW t \in Scans,
           t \notin troubled', t \notin touched', Failed(t)', ~Failed(t)
    PROVE  Announced'
<1>1. rows \in Seq(Row) /\ twin \in BOOLEAN /\ at[t] \in Stages /\ saw["scan"][t] \in Nat
  BY FeedTyped DEF FeedTypes, TypeOK
<1>2. NewestUnread # NoRow => Announced
  BY <1>1, NewestUnreadFacts
<1>3. ASSUME NEW s \in Scans, Writes(s) \/ Looks(s) \/ Reporting(s) PROVE Announced'
  <2>1. CASE s # t
    BY <1>3, <2>1, OthersStay DEF Failed
  <2>2. CASE s = t /\ Writes(t)
    <3>1. CASE ReceiptStored(t)
      <4>1. at' = at /\ outcome' = outcome /\ saw'["scan"] = saw["scan"]
        BY <3>1 DEF ReceiptStored, Forgets, FeedTypes, TypeOK
      <4>2. QED
        BY <4>1 DEF Failed
    <3>2. CASE Opens(t) \/ Refused(t)
      BY <3>2 DEF Opens, Refused, Step, Failed, FeedTypes, TypeOK
    <3>3. CASE Inserts(t)
      <4>1. Upsert(NoRow, AnnouncementRes(outcome[t])) /\ AnnouncementRes(outcome[t]) \in Results
        BY <3>3, FeedTyped DEF Inserts, AnnouncementRes, Results
      <4>2. QED
        BY <1>1, <4>1, UpsertUpserts DEF Upserted
    <3>4. CASE Stores(t)
      <4>1. outcome' = [outcome EXCEPT ![t] = [outcome[t] EXCEPT !.job = FALSE]]
            /\ at[t] = "store"
        BY <3>4 DEF Stores, Step
      <4>2. outcome'[t].res = outcome[t].res
        BY <4>1 DEF FeedTypes, TypeOK
      <4>3. at'[t] = "ended"
        BY <3>4 DEF Stores, Step, FeedTypes, TypeOK
      <4>4. QED
        BY <4>1, <4>2, <4>3 DEF Failed
    <3>5. CASE Excuses(t)
      <4>1. Upsert(saw["scan"][t], "failed") /\ at[t] = "excuse" /\ "failed" \in Results
        BY <3>5 DEF Excuses, Step, Results
      <4>2. saw["scan"][t] = NoRow
        BY <4>1 DEF Failed
      <4>3. QED
        BY <1>1, <4>1, <4>2, UpsertUpserts DEF Upserted
    <3>6. QED
      BY <2>2, <3>1, <3>2, <3>3, <3>4, <3>5 DEF Writes
  <2>3. CASE s = t /\ Looks(t)
    <3>1. rows' = rows
      BY <2>3, OthersKeepRows
    <3>2. CASE ReceiptArrives(t)
      <4>1. at' = at /\ outcome' = outcome /\ saw'["scan"] = saw["scan"]
        BY <3>2 DEF ReceiptArrives, FeedTypes, TypeOK
      <4>2. QED
        BY <4>1 DEF Failed
    <3>3. CASE Arrives(t)
      BY <3>3 DEF Arrives, Step, Failed, FeedTypes, TypeOK
    <3>4. CASE NothingToRoute(t)
      <4>1. at'[t] = "excuse" /\ saw'["scan"][t] = NewestUnread
        BY <3>4 DEF NothingToRoute, Step, Finds, FeedTypes, TypeOK
      <4>2. Announced
        BY <1>2, <4>1 DEF Failed
      <4>3. QED
        BY <3>1, <4>2 DEF Announced, Unread
    <3>5. CASE Closes(t)
      BY <3>5 DEF Closes, Step, Failed, FeedTypes, TypeOK
    <3>6. CASE Raises(t)
      BY <3>6 DEF Raises
    <3>7. QED
      BY <2>3, <3>2, <3>3, <3>4, <3>5, <3>6 DEF Looks
  <2>4. CASE s = t /\ Reporting(t)
    <3>1. PICK r : ReportedAs(t, r)
      BY <2>4, ReportDoes
    <3>2. rows' = rows
      BY <3>1 DEF ReportedAs
    <3>3. NewestUnread # NoRow
      BY <3>1 DEF ReportedAs, Failed, FeedTypes, TypeOK
    <3>4. QED
      BY <1>2, <3>2, <3>3 DEF Announced, Unread
  <2>5. QED
    BY <1>3, <2>1, <2>2, <2>3, <2>4
<1>4. CASE Clears \/ Purges \/ Deliver \/ Unlinks \/ ClearLooks
  BY <1>4, UsersStay DEF Failed
<1>5. CASE Restart
  BY <1>5, RestartDoes DEF Failed
<1>6. QED
  BY <1>3, <1>4, <1>5, FeedSteps

LEMMA TouchedGrows ==
    ASSUME FeedTypes, RowsApart, Next
    PROVE  touched \subseteq touched'
<1>1. Touches => touched \subseteq touched'
  BY DEF Touches
<1>2. ASSUME NEW s \in Scans, Writes(s) \/ Looks(s) \/ Reporting(s)
      PROVE  touched' = touched
  BY <1>2, WritesTyped, LooksTyped, ReportsTyped DEF StepRest
<1>3. CASE Clears
  BY <1>1, <1>3 DEF Clears, MarkRead, Dismiss, MarkAllRead, DismissRead, Links, ClearMarks
<1>4. CASE Purges \/ Restart \/ Deliver \/ Unlinks \/ ClearLooks
  BY <1>4 DEF Purges, Restart, Deliver, Unlinks, ClearLooks, history
<1>5. QED
  BY <1>1, <1>2, <1>3, <1>4, FeedSteps

LEMMA AnnouncingKept ==
    ASSUME FeedTypes, RowsApart, Announcing, Next
    PROVE  Announcing'
<1>1. SUFFICES ASSUME NEW t \in Scans, t \notin troubled', t \notin touched', Failed(t)'
               PROVE  Announced'
  BY DEF Announcing
<1>2. t \notin troubled /\ t \notin touched
  BY <1>1, TroubleStays, TouchedGrows
<1>3. CASE Failed(t)
  <2>1. Announced /\ at[t] # "idle"
    BY <1>2, <1>3 DEF Announcing, Failed
  <2>2. QED
    BY <1>1, <2>1, AnnouncedKept
<1>4. CASE ~Failed(t)
  BY <1>1, <1>4, NewFailure
<1>5. QED
  BY <1>3, <1>4

NextCloses(s, row) ==
    \/ at'[s] \in Early
    \/ at'[s] \in {"store", "excuse"} /\ saw'["scan"][s] = row

\* Who still has to close an unread row does so after a step that does not end a scan.
LEMMA WitnessStays ==
    ASSUME FeedTypes, OneUnread, Next, ~twin, troubled' = {},
           NEW i \in DOMAIN rows, Unread(rows[i]),
           NEW w \in Scans, WillClose(w, rows[i].id),
           ~Stores(w), ~Excuses(w)
    PROVE  NextCloses(w, rows[i].id)
<1> DEFINE id == rows[i].id
<1>1. /\ rows \in Seq(Row) /\ at[w] \in Stages
      /\ at[w] \in Early \/ (at[w] \in {"store", "excuse"} /\ saw["scan"][w] = id)
  BY FeedTyped DEF FeedTypes, TypeOK, WillClose
<1>2. NewestUnread = id
  <2>1. Announced
    BY DEF Announced
  <2>2. PICK k \in DOMAIN rows : Unread(rows[k]) /\ rows[k].id = NewestUnread
    BY <1>1, <2>1, NewestUnreadFacts
  <2>3. k = i
    BY <2>2 DEF OneUnread
  <2>4. QED
    BY <2>2, <2>3
<1> DEFINE Will == at'[w] \in Early
                   \/ (at'[w] \in {"store", "excuse"} /\ saw'["scan"][w] = id)
<1>3. SUFFICES Will
  BY DEF NextCloses
<1> HIDE DEF id
<1>4. ASSUME NEW s \in Scans, Writes(s) \/ Looks(s) \/ Reporting(s)
      PROVE  Will
  <2>1. CASE s # w
    BY <1>1, <1>4, <2>1, OthersStay
  <2>2. CASE s = w /\ Writes(w)
    <3>1. CASE ReceiptStored(w)
      <4>1. at' = at /\ saw'["scan"] = saw["scan"]
        BY <3>1 DEF ReceiptStored, Forgets, FeedTypes, TypeOK
      <4>2. QED
        BY <1>1, <4>1
    <3>2. CASE Opens(w)
      BY <3>2 DEF Opens, Step, Early, FeedTypes, TypeOK
    <3>3. CASE Refused(w)
      BY <3>3 DEF Refused
    <3>4. CASE Inserts(w)
      BY <3>4 DEF Inserts, Step, Early, FeedTypes, TypeOK
    <3>5. QED
      BY <2>2, <3>1, <3>2, <3>3, <3>4 DEF Writes
  <2>3. CASE s = w /\ Looks(w)
    <3>1. CASE ReceiptArrives(w)
      <4>1. at' = at /\ saw'["scan"] = saw["scan"]
        BY <3>1 DEF ReceiptArrives, FeedTypes, TypeOK
      <4>2. QED
        BY <1>1, <4>1
    <3>2. CASE Arrives(w)
      BY <3>2 DEF Arrives, Step, Early, FeedTypes, TypeOK
    <3>3. CASE NothingToRoute(w) \/ Closes(w)
      BY <1>2, <3>3 DEF NothingToRoute, Closes, Step, Finds, FeedTypes, TypeOK
    <3>4. CASE Raises(w)
      BY <3>4 DEF Raises
    <3>5. QED
      BY <2>3, <3>1, <3>2, <3>3, <3>4 DEF Looks
  <2>4. CASE s = w /\ Reporting(w)
    <3>1. PICK r : ReportedAs(w, r)
      BY <2>4, ReportDoes
    <3>2. QED
      BY <3>1 DEF ReportedAs, Early, FeedTypes, TypeOK
  <2>5. QED
    BY <1>4, <2>1, <2>2, <2>3, <2>4
<1>5. CASE Clears \/ Purges \/ Deliver \/ Unlinks \/ ClearLooks
  BY <1>1, <1>5, UsersStay
<1>6. CASE Restart
  BY <1>1, <1>6, RestartDoes DEF Early
<1>7. QED
  BY <1>4, <1>5, <1>6, FeedSteps

\* A row is said to be processed by a scan that still has to close it; who writes
\* another result gives that to the row that it found, or adds one.
LEMMA WritesClose ==
    ASSUME FeedTypes, RowsApart, OneUnread, Answering, Closing,
           NEW s \in Scans, Writes(s), Next, ~late', ~twin', troubled' = {},
           NEW j \in DOMAIN rows', Unread(rows'[j]), rows'[j].res = "processing"
    PROVE  \E w \in Scans : NextCloses(w, rows'[j].id)
<1> DEFINE new == rows'[j].id
           Will(w) == at'[w] \in Early
                      \/ (at'[w] \in {"store", "excuse"} /\ saw'["scan"][w] = new)
<1>1. SUFFICES \E w \in Scans : Will(w)
  BY DEF NextCloses
<1>2. /\ rows \in Seq(Row) /\ twin \in BOOLEAN /\ at[s] \in Stages
      /\ outcome[s].res \in Results
      /\ ~late /\ ~twin /\ troubled = {}
  BY FeedTyped, TroubleStays, RowsKept DEF FeedTypes, TypeOK
<1>3. CASE ReceiptStored(s)
  <2>1. at[s] \notin {"store", "excuse", "ended", "lost"} /\ at' = at
    BY <1>3 DEF ReceiptStored
  <2>2. at'[s] \in Early
    BY <1>2, <2>1 DEF Stages, Early
  <2>3. QED
    BY <2>2
<1>4. CASE Opens(s)
  <2>1. at'[s] \in Early
    BY <1>4 DEF Opens, Step, Early, FeedTypes, TypeOK
  <2>2. QED
    BY <2>1
<1>5. CASE Refused(s)
  BY <1>5 DEF Refused
<1>6. ASSUME NEW found, NEW res \in Results, Upsert(found, res), res # "processing",
             Stores(s) \/ Excuses(s) => found = saw["scan"][s] /\ at[s] \in {"store", "excuse"}
      PROVE  \E w \in Scans : Will(w)
  <2>1. Upserted(found, res)
    BY <1>2, <1>6, UpsertUpserts
  <2>2. PICK i \in DOMAIN rows :
            /\ SameMarks(rows'[j], rows[i]) /\ rows[i].id # found
            /\ rows[i].res = "processing"
    BY <1>6, <2>1 DEF Upserted
  <2>3. Unread(rows[i]) /\ rows[i].id = new
    BY <2>2 DEF SameMarks
  <2>4. PICK w \in Scans : WillClose(w, rows[i].id)
    BY <1>2, <2>2, <2>3 DEF Closing
  <2>5. w = s => ~Stores(w) /\ ~Excuses(w)
    BY <1>6, <2>2, <2>4 DEF WillClose, Early
  <2>6. w # s => /\ at'[w] = at[w] /\ saw'["scan"][w] = saw["scan"][w]
    BY OthersStay
  <2>7. CASE w # s
    BY <2>3, <2>4, <2>6, <2>7 DEF WillClose
  <2>8. CASE w = s
    <3>1. NextCloses(w, rows[i].id)
      BY <1>2, <2>3, <2>4, <2>5, <2>8, WitnessStays
    <3>2. QED
      BY <2>3, <3>1 DEF NextCloses
  <2>9. QED
    BY <2>7, <2>8
<1>7. CASE Inserts(s)
  <2>1. /\ Upsert(NoRow, AnnouncementRes(outcome[s])) /\ at[s] = "insert"
        /\ at'[s] = "close"
    BY <1>7 DEF Inserts, Step, FeedTypes, TypeOK
  <2>2. QED
    BY <2>1 DEF Early
<1>8. CASE Stores(s)
  <2>1. Upsert(saw["scan"][s], outcome[s].res) /\ at[s] = "store"
    BY <1>8 DEF Stores, Step
  <2>2. outcome[s].res # "processing"
    BY <2>1 DEF Answering
  <2>3. QED
    BY <1>2, <1>6, <2>1, <2>2
<1>9. CASE Excuses(s)
  <2>1. Upsert(saw["scan"][s], "failed") /\ at[s] = "excuse" /\ "failed" \in Results
    BY <1>9 DEF Excuses, Step, Results
  <2>2. QED
    BY <1>6, <2>1
<1>10. QED
  BY <1>3, <1>4, <1>5, <1>7, <1>8, <1>9 DEF Writes


LEMMA ClosingKept ==
    ASSUME FeedTypes, RowsApart, OneUnread, Answering, Closing, Next
    PROVE  Closing'
<1>1. SUFFICES ASSUME ~late', ~twin', troubled' = {},
                      NEW j \in DOMAIN rows', Unread(rows'[j]), rows'[j].res = "processing"
               PROVE  \E w \in Scans : NextCloses(w, rows'[j].id)
  BY DEF Closing, Unread, NextCloses, WillClose, Early
<1>2. /\ rows \in Seq(Row) /\ twin \in BOOLEAN /\ ~late /\ ~twin /\ troubled = {}
  BY <1>1, TroubleStays, RowsKept DEF FeedTypes, TypeOK
<1>3. CASE \E s \in Scans : Writes(s)
  BY <1>1, <1>3, WritesClose
<1>4. CASE ~ \E s \in Scans : Writes(s)
  <2>1. PICK i \in DOMAIN rows :
            Unread(rows[i]) /\ rows[i].res = "processing" /\ rows'[j].id = rows[i].id
    <3>1. CASE rows' = rows
      BY <1>1, <3>1
    <3>2. CASE Clears \/ Purges
      <4>1. Shrunk
        BY <1>2, <3>2, ClearsShrink, PurgesShrink
      <4>2. QED
        BY <1>1, <4>1 DEF Shrunk
    <3>3. QED
      BY <1>4, <3>1, <3>2, FeedSteps, OthersKeepRows, RestKeepsRows
  <2>2. PICK w \in Scans : WillClose(w, rows[i].id)
    BY <1>2, <2>1 DEF Closing
  <2>3. ~Stores(w) /\ ~Excuses(w)
    BY <1>4 DEF Writes
  <2>4. NextCloses(w, rows[i].id)
    BY <1>1, <1>2, <2>1, <2>2, <2>3, WitnessStays
  <2>5. QED
    BY <2>1, <2>4
<1>5. QED
  BY <1>3, <1>4

\* A scan under way routes the link that settled the barcode.
Routing(s) ==
    at[s] \notin {"idle", "ended", "lost"} =>
        /\ outcome[s].job /\ at[s] # "inline"
        /\ at[s] = "insert" => outcome[s].res = "failed"
        /\ outcome[s].res # "unlinked"

LEMMA RoutingKept ==
    ASSUME FeedTypes, settled, settled', Settling, Next, ~Links, NEW t \in Scans
    PROVE  Routing(t)'
<1>1. /\ linked /\ Routing(t) /\ at[t] \in Stages
      /\ outcome[t] \in [res : Results, job : BOOLEAN]
  BY FeedTyped DEF Settling, Routing
<1>2. ASSUME NEW s \in Scans, Writes(s) \/ Looks(s) \/ Reporting(s)
      PROVE  Routing(t)'
  <2>1. CASE s # t
    BY <1>1, <1>2, <2>1, OthersStay DEF Routing
  <2>2. CASE s = t /\ Writes(t)
    <3>1. CASE ReceiptStored(t)
      BY <1>1, <3>1 DEF ReceiptStored, Routing
    <3>2. CASE Opens(t) \/ Refused(t)
      BY <1>1, <3>2 DEF Opens, Refused, Step, Routing, FeedTypes, TypeOK
    <3>3. CASE Inserts(t)
      BY <1>1, <3>3 DEF Inserts, Step, Routing, FeedTypes, TypeOK
    <3>4. CASE Stores(t)
      BY <3>4 DEF Stores, Step, Routing, FeedTypes, TypeOK
    <3>5. CASE Excuses(t)
      BY <3>5 DEF Excuses, Step, Routing, FeedTypes, TypeOK
    <3>6. QED
      BY <2>2, <3>1, <3>2, <3>3, <3>4, <3>5 DEF Writes
  <2>3. CASE s = t /\ Looks(t)
    <3>1. CASE ReceiptArrives(t)
      BY <1>1, <3>1 DEF ReceiptArrives, Routing
    <3>2. CASE Arrives(t)
      <4>1. /\ at'[t] = "opening"
            /\ outcome'[t] = [NoOutcome EXCEPT !.job = linked]
        BY <3>2 DEF Arrives, Step, FeedTypes, TypeOK
      <4>2. outcome'[t].job /\ outcome'[t].res = "processing"
        BY <1>1, <4>1 DEF NoOutcome
      <4>3. QED
        BY <4>1, <4>2 DEF Routing
    <3>3. CASE NothingToRoute(t)
      BY <1>1, <3>3 DEF NothingToRoute
    <3>4. CASE Closes(t)
      BY <1>1, <3>4 DEF Closes, Step, Routing, FeedTypes, TypeOK
    <3>5. CASE Raises(t)
      <4>1. /\ at'[t] = "excuse" /\ outcome' = outcome
            /\ at[t] \in {"route", "inline", "insert", "close", "store"}
        BY <3>5 DEF Raises, Step, FeedTypes, TypeOK
      <4>2. QED
        BY <1>1, <4>1 DEF Routing
    <3>6. QED
      BY <2>3, <3>1, <3>2, <3>3, <3>4, <3>5 DEF Looks
  <2>4. CASE s = t /\ Reporting(t)
    <3>1. PICK r : ReportedAs(t, r)
      BY <2>4, ReportDoes
    <3>2. at[t] = "route" /\ outcome[t].job
      BY <1>1, <3>1 DEF ReportedAs, Routing
    <3>3. /\ r.res \in {"done", "failed"} /\ (r.tell => r.res = "failed")
          /\ at'[t] \in {"insert", "close"} /\ (at'[t] = "insert" => r.tell)
          /\ outcome'[t] = [res |-> r.res, job |-> outcome[t].job]
      BY <3>1, <3>2 DEF ReportedAs, FeedTypes, TypeOK
    <3>4. outcome'[t].res = r.res /\ outcome'[t].job
      BY <3>2, <3>3
    <3>5. QED
      BY <3>3, <3>4 DEF Routing
  <2>5. QED
    BY <1>2, <2>1, <2>2, <2>3, <2>4
<1>3. CASE Clears \/ Purges \/ Deliver \/ Unlinks \/ ClearLooks
  BY <1>1, <1>3, UsersStay DEF Routing
<1>4. CASE Restart
  BY <1>1, <1>4 DEF Restart, Routing, FeedTypes, TypeOK
<1>5. QED
  BY <1>2, <1>3, <1>4, FeedSteps

\* No row asks for a link that is there.
LEMMA LinkedRowsKept ==
    ASSUME FeedTypes, RowsApart, settled, settled', Settling, Next, NEW j \in DOMAIN rows'
    PROVE  rows'[j].res # "unlinked"
<1>1. /\ \A i \in DOMAIN rows : rows[i].res # "unlinked"
      /\ rows \in Seq(Row) /\ twin \in BOOLEAN
      /\ \A s \in Scans : Routing(s) /\ outcome[s].res \in Results
  BY FeedTyped DEF Settling, Routing, FeedTypes, TypeOK
<1>2. ASSUME NEW s \in Scans, Writes(s)
      PROVE  \E found : \E res \in Results : Upsert(found, res) /\ res # "unlinked"
  <2>1. {"processing", "failed"} \subseteq Results
    BY DEF Results
  <2>2. CASE ReceiptStored(s) \/ Opens(s) \/ Refused(s)
    BY <2>1, <2>2 DEF ReceiptStored, Opens, Refused
  <2>3. CASE Inserts(s)
    <3>1. Upsert(NoRow, AnnouncementRes(outcome[s])) /\ at[s] = "insert"
      BY <2>3 DEF Inserts, Step
    <3>2. AnnouncementRes(outcome[s]) = "failed"
      BY <1>1, <3>1 DEF AnnouncementRes, Routing
    <3>3. QED
      BY <2>1, <3>1, <3>2
  <2>4. CASE Stores(s)
    <3>1. Upsert(saw["scan"][s], outcome[s].res) /\ at[s] = "store"
      BY <2>4 DEF Stores, Step
    <3>2. QED
      BY <1>1, <3>1 DEF Routing
  <2>5. CASE Excuses(s)
    BY <2>1, <2>5 DEF Excuses
  <2>6. QED
    BY <1>2, <2>2, <2>3, <2>4, <2>5 DEF Writes
<1>3. CASE \E s \in Scans : Writes(s)
  <2>1. PICK found : \E res \in Results : Upsert(found, res) /\ res # "unlinked"
    BY <1>2, <1>3
  <2>4. PICK res \in Results : Upsert(found, res) /\ res # "unlinked"
    BY <2>1
  <2>2. Upserted(found, res)
    BY <1>1, <2>4, UpsertUpserts
  <2>3. QED
    BY <1>1, <2>2, <2>4 DEF Upserted
<1>4. CASE rows' = rows
  BY <1>1, <1>4
<1>5. CASE Clears \/ Purges
  <2>1. Shrunk
    BY <1>1, <1>5, ClearsShrink, PurgesShrink
  <2>2. PICK i \in DOMAIN rows : rows'[j].res \in {rows[i].res, "resolved"}
    BY <2>1 DEF Shrunk
  <2>3. QED
    BY <1>1, <2>2
<1>6. QED
  BY <1>3, <1>4, <1>5, FeedSteps, OthersKeepRows, RestKeepsRows

\* What Links leaves.
LEMMA LinksSettle ==
    ASSUME FeedTypes, Links, settled'
    PROVE  Settling'
<1>1. /\ linked' /\ at' = at
      /\ \A s \in Scans : at[s] \in {"idle", "ended", "lost"}
      /\ rows' = [i \in DOMAIN rows |->
                      IF rows[i].res = "unlinked"
                      THEN [Dismissed(rows[i]) EXCEPT !.res = "resolved"]
                      ELSE Seen(rows[i])]
  BY DEF Links, UserOnly
<1>2. \A i \in DOMAIN rows : rows[i] \in Row
  BY RowFacts DEF FeedTypes, TypeOK
<1>3. ASSUME NEW i \in DOMAIN rows'
      PROVE  rows'[i].res # "unlinked"
  <2>1. rows[i] \in Row /\ i \in DOMAIN rows
    BY <1>1, <1>2
  <2>2. CASE rows[i].res = "unlinked"
    <3>1. rows'[i] = [Dismissed(rows[i]) EXCEPT !.res = "resolved"]
      BY <1>1, <2>1, <2>2
    <3>2. Dismissed(rows[i]) \in Row
      BY <2>1, SeenAndDismissed
    <3>3. QED
      BY <3>1, <3>2 DEF Row
  <2>3. CASE rows[i].res # "unlinked"
    BY <1>1, <2>1, <2>3, SeenAndDismissed
  <2>4. QED
    BY <2>2, <2>3
<1>4. QED
  BY <1>1, <1>3 DEF Settling

LEMMA SettlingKept ==
    ASSUME FeedTypes, RowsApart, Settling, Next
    PROVE  Settling'
<1>1. SUFFICES ASSUME settled', ~Links PROVE Settling'
  BY LinksSettle DEF Settling
<1>2. settled /\ (linked => linked')
  <2>1. ASSUME NEW s \in Scans, Writes(s) \/ Looks(s)
        PROVE  settled' = settled /\ linked' = linked
    <3>1. settled' = settled
      BY <2>1, WritesTyped, LooksTyped DEF StepRest
    <3>2. CASE Writes(s)
      <4>1. CASE ReceiptStored(s) \/ Opens(s) \/ Refused(s)
        BY <4>1 DEF ReceiptStored, Opens, Refused
      <4>2. CASE Inserts(s)
        BY <4>2 DEF Inserts
      <4>3. CASE Stores(s)
        BY <4>3 DEF Stores
      <4>4. CASE Excuses(s)
        BY <4>4 DEF Excuses
      <4>5. QED
        BY <3>2, <4>1, <4>2, <4>3, <4>4 DEF Writes
    <3>3. CASE Looks(s)
      BY <3>1, <3>3 DEF Looks, ReceiptArrives, Arrives, NothingToRoute, Closes, Raises, stores
    <3>4. QED
      BY <2>1, <3>1, <3>2, <3>3
  <2>2. ASSUME NEW s \in Scans, Reporting(s)
        PROVE  settled' = settled /\ (linked => linked')
    <3>1. PICK r : ReportedAs(s, r)
      BY <2>2, ReportDoes
    <3>2. QED
      BY <3>1 DEF ReportedAs, history
  <2>3. ASSUME Clears \/ Purges \/ Restart \/ Deliver \/ ClearLooks
        PROVE  settled' = settled /\ linked' = linked
    <3>1. CASE MarkRead \/ Dismiss \/ MarkAllRead \/ DismissRead
      BY <3>1 DEF MarkRead, Dismiss, MarkAllRead, DismissRead
    <3>2. CASE ClearMarks \/ Purges \/ ClearLooks
      BY <3>2 DEF ClearMarks, Purges, ClearLooks
    <3>3. CASE Restart \/ Deliver
      BY <3>3 DEF Restart, Deliver, stores, history
    <3>4. QED
      BY <1>1, <2>3, <3>1, <3>2, <3>3 DEF Clears
  <2>5. ~Unlinks
    <3>1. Unlinks => settled' = FALSE
      BY DEF Unlinks
    <3>2. QED
      BY <1>1, <3>1
  <2>4. settled' = settled /\ (linked => linked')
    <3>1. CASE \E s \in Scans : Writes(s) \/ Looks(s) \/ Reporting(s)
      BY <2>1, <2>2, <3>1
    <3>2. CASE Clears \/ Purges \/ Restart \/ Deliver \/ ClearLooks
      BY <2>3, <3>2
    <3>3. QED
      BY <1>1, <2>5, <3>1, <3>2, FeedSteps
  <2>6. QED
    BY <1>1, <2>4
<1>3. \A t \in Scans : Routing(t)'
  BY <1>1, <1>2, RoutingKept
<1>4. \A j \in DOMAIN rows' : rows'[j].res # "unlinked"
  BY <1>1, <1>2, LinkedRowsKept
<1>5. QED
  BY <1>2, <1>3, <1>4 DEF Settling, Routing

\* The events that are left move up by d places.
MovesUp(d) ==
    /\ d \in Nat /\ d <= Len(feed)
    /\ Len(feed') \in Nat
    /\ Len(feed) - d <= Len(feed')
    /\ \A i \in 1..(Len(feed) - d) : feed'[i] = feed[i + d]

LEMMA FeedFacts ==
    ASSUME FeedTypes
    PROVE  /\ feed \in Seq(Event) /\ Len(feed) \in Nat
           /\ feed = <<>> <=> Len(feed) = 0
           /\ Len(feed) <= QueueCap /\ QueueCap \in Nat \ {0}
<1>1. feed \in Seq(Event) /\ Len(feed) <= QueueCap /\ QueueCap \in Nat \ {0}
  BY DEF FeedTypes, TypeOK, FeedAssumption
<1>2. Len(feed) \in Nat
  BY <1>1, LenProperties
<1>3. feed = <<>> <=> Len(feed) = 0
  BY <1>1, EmptySeq
<1>4. QED
  BY <1>1, <1>2, <1>3

LEMMA PublishMoves ==
    ASSUME FeedTypes, NEW name \in {"received", "scan-received", "scan"}, NEW s \in Scans,
           Publish(name, s)
    PROVE  \/ feed' = feed /\ newest' = newest
           \/ \E d \in Nat :
                  /\ MovesUp(d) /\ Len(feed') = Len(feed) - d + 1
                  /\ feed'[Len(feed')] = [name |-> name, of |-> s]
                  /\ newest' = [name |-> name, of |-> s]
<1> DEFINE e == [name |-> name, of |-> s]
<1>1. e \in Event
  BY DEF Event
<1>2. /\ feed' = IF page THEN PutLatest(feed, e) ELSE feed
      /\ newest' = IF page THEN e ELSE newest
  BY DEF Publish
<1> HIDE DEF e
<1>3. CASE ~page
  BY <1>2, <1>3
<1>4. CASE page
  <2>1. CASE Len(feed) = QueueCap
    <3>1. feed # <<>> /\ feed' = Append(Tail(feed), e)
      BY <1>2, <1>4, <2>1, FeedFacts DEF PutLatest
    <3>2. /\ Tail(feed) \in Seq(Event) /\ Len(Tail(feed)) = Len(feed) - 1
          /\ \A i \in 1..Len(Tail(feed)) : Tail(feed)[i] = feed[i + 1]
      BY <3>1, HeadTailProperties, FeedFacts
    <3> DEFINE q == Tail(feed)
    <3> HIDE DEF q
    <3>3. /\ feed' = Append(q, e) /\ q \in Seq(Event) /\ Len(q) = Len(feed) - 1
          /\ \A i \in 1..Len(q) : q[i] = feed[i + 1]
      BY <3>1, <3>2 DEF q
    <3>4. /\ feed' \in Seq(Event) /\ Len(feed') = Len(q) + 1
          /\ \A i \in 1..Len(q) : feed'[i] = q[i]
          /\ feed'[Len(q) + 1] = e
      BY <1>1, <3>3, AppendProperties
    <3>5. MovesUp(1) /\ Len(feed') = Len(feed) - 1 + 1 /\ feed'[Len(feed')] = e
      BY <2>1, <3>3, <3>4, FeedFacts, LenProperties DEF MovesUp
    <3>6. QED
      BY <1>2, <1>4, <3>5 DEF e
  <2>2. CASE Len(feed) # QueueCap
    <3>1. feed' = Append(feed, e)
      BY <1>2, <1>4, <2>2 DEF PutLatest
    <3>2. /\ feed' \in Seq(Event) /\ Len(feed') = Len(feed) + 1
          /\ \A i \in 1..Len(feed) : feed'[i] = feed[i]
          /\ feed'[Len(feed) + 1] = e
      BY <1>1, <3>1, FeedFacts, AppendProperties
    <3>3. MovesUp(0) /\ Len(feed') = Len(feed) - 0 + 1 /\ feed'[Len(feed')] = e
      BY <3>2, FeedFacts, LenProperties DEF MovesUp
    <3>4. QED
      BY <1>2, <1>4, <3>3 DEF e
  <2>3. QED
    BY <2>1, <2>2
<1>5. QED
  BY <1>3, <1>4

\* A scan that was opened and met no trouble is not opened again.
LEMMA OpenedStays ==
    ASSUME FeedTypes, Next, NEW t \in Scans, t \notin troubled',
           at[t] \notin {"idle", "opening"}
    PROVE  at'[t] \notin {"idle", "opening"}
<1>1. ASSUME NEW s \in Scans, Writes(s) \/ Looks(s) \/ Reporting(s)
      PROVE  at'[t] \notin {"idle", "opening"}
  <2>1. CASE s # t
    BY <1>1, <2>1, OthersStay
  <2>2. CASE s = t /\ Writes(t)
    <3>1. CASE ReceiptStored(t)
      BY <3>1 DEF ReceiptStored
    <3>2. CASE Opens(t) \/ Refused(t)
      BY <3>2 DEF Opens, Refused, Step, FeedTypes, TypeOK
    <3>3. CASE Inserts(t) \/ Stores(t)
      BY <3>3 DEF Inserts, Stores, Step, FeedTypes, TypeOK
    <3>4. CASE Excuses(t)
      BY <3>4 DEF Excuses, Step, FeedTypes, TypeOK
    <3>5. QED
      BY <2>2, <3>1, <3>2, <3>3, <3>4 DEF Writes
  <2>3. CASE s = t /\ Looks(t)
    BY <2>3 DEF Looks, ReceiptArrives, Arrives, NothingToRoute, Closes, Raises, Step,
       FeedTypes, TypeOK
  <2>4. CASE s = t /\ Reporting(t)
    <3>1. PICK r : ReportedAs(t, r)
      BY <2>4, ReportDoes
    <3>2. QED
      BY <3>1 DEF ReportedAs, FeedTypes, TypeOK
  <2>5. QED
    BY <1>1, <2>1, <2>2, <2>3, <2>4
<1>2. CASE Clears \/ Purges \/ Deliver \/ Unlinks \/ ClearLooks
  BY <1>2, UsersStay
<1>3. CASE Restart
  BY <1>3, RestartDoes
<1>4. QED
  BY <1>1, <1>2, <1>3, FeedSteps

\* When which event of a scan is published.
LEMMA PublishedWhen ==
    ASSUME FeedTypes, NEW s \in Scans, Writes(s) \/ Looks(s) \/ Reporting(s)
    PROVE  \/ UNCHANGED <<feed, newest>>
           \/ Publish("received", s)
           \/ Publish("scan-received", s) /\ at[s] = "opening"
           \/ Publish("scan", s) /\ at'[s] \notin {"idle", "opening"}
<1>1. CASE Writes(s)
  <2>1. CASE ReceiptStored(s)
    BY <2>1 DEF ReceiptStored
  <2>2. CASE Opens(s) \/ Refused(s)
    BY <2>2 DEF Opens, Refused, Step
  <2>3. CASE Inserts(s)
    BY <2>3 DEF Inserts, Step, FeedTypes, TypeOK
  <2>4. CASE Stores(s)
    BY <2>4 DEF Stores, browser
  <2>5. CASE Excuses(s)
    BY <2>5 DEF Excuses, Step, browser, FeedTypes, TypeOK
  <2>6. QED
    BY <1>1, <2>1, <2>2, <2>3, <2>4, <2>5 DEF Writes
<1>2. CASE Looks(s)
  BY <1>2 DEF Looks, ReceiptArrives, Arrives, NothingToRoute, Closes, Raises, browser
<1>3. CASE Reporting(s)
  <2>1. PICK r : ReportedAs(s, r)
    BY <1>3, ReportDoes
  <2>2. QED
    BY <2>1 DEF ReportedAs, browser, FeedTypes, TypeOK
<1>4. QED
  BY <1>1, <1>2, <1>3

\* No scan-received of a scan follows its scan event.
InOrder ==
    \A s \in Scans \ troubled, i \in 1..Len(feed) :
        feed[i].of = s /\ feed[i].name = "scan" =>
            /\ at[s] \notin {"idle", "opening"}
            /\ \A j \in 1..Len(feed) :
                   i < j /\ feed[j].of = s => feed[j].name # "scan-received"

\* The event was published at its time.
InTime(e) ==
    \E s \in Scans : /\ e.of = s
                     /\ e.name = "scan-received" => at[s] = "opening"
                     /\ e.name = "scan" => at'[s] \notin {"idle", "opening"}

LEMMA OrderStays ==
    ASSUME FeedTypes, Next, InOrder, NEW d \in Nat, MovesUp(d),
           \/ Len(feed') = Len(feed) - d
           \/ Len(feed') = Len(feed) - d + 1 /\ InTime(feed'[Len(feed')])
    PROVE  InOrder'
<1>1. SUFFICES ASSUME NEW t \in Scans, t \notin troubled', NEW i \in 1..Len(feed'),
                      feed'[i].of = t, feed'[i].name = "scan"
               PROVE  /\ at'[t] \notin {"idle", "opening"}
                      /\ \A j \in 1..Len(feed') :
                             i < j /\ feed'[j].of = t => feed'[j].name # "scan-received"
  BY DEF InOrder
<1>2. Len(feed) \in Nat /\ Len(feed') \in Nat /\ t \notin troubled
  BY <1>1, FeedFacts, TroubleStays DEF MovesUp
<1>3. \A k \in 1..Len(feed') : k > Len(feed) - d =>
          k = Len(feed') /\ Len(feed') = Len(feed) - d + 1
  BY <1>2
<1>4. \A k \in 1..(Len(feed) - d) : k + d \in 1..Len(feed) /\ feed'[k] = feed[k + d]
  BY <1>2 DEF MovesUp
<1>5. CASE i \in 1..(Len(feed) - d)
  <2>1. i + d \in 1..Len(feed) /\ feed'[i] = feed[i + d]
    BY <1>4, <1>5
  <2>2. /\ at[t] \notin {"idle", "opening"}
        /\ \A j \in 1..Len(feed) :
               i + d < j /\ feed[j].of = t => feed[j].name # "scan-received"
    BY <1>1, <1>2, <2>1 DEF InOrder
  <2>3. ASSUME NEW j \in 1..Len(feed'), i < j, feed'[j].of = t
        PROVE  feed'[j].name # "scan-received"
    <3>1. CASE j \in 1..(Len(feed) - d)
      <4>1. j + d \in 1..Len(feed) /\ feed'[j] = feed[j + d]
        BY <1>4, <3>1
      <4>2. i + d < j + d
        BY <1>2, <1>5, <2>3, <3>1
      <4>3. QED
        BY <2>2, <2>3, <4>1, <4>2
    <3>2. CASE j \notin 1..(Len(feed) - d)
      <4>1. j = Len(feed') /\ Len(feed') = Len(feed) - d + 1
        BY <1>2, <1>3, <3>2
      <4>2. InTime(feed'[j])
        BY <1>2, <4>1
      <4>3. QED
        BY <2>2, <2>3, <4>2 DEF InTime
    <3>3. QED
      BY <3>1, <3>2
  <2>4. QED
    BY <1>1, <2>2, <2>3, OpenedStays
<1>6. CASE i \notin 1..(Len(feed) - d)
  <2>1. i = Len(feed') /\ Len(feed') = Len(feed) - d + 1
    BY <1>2, <1>3, <1>6
  <2>2. InTime(feed'[i])
    BY <1>2, <2>1
  <2>3. \A j \in 1..Len(feed') : ~(i < j)
    BY <1>2, <2>1
  <2>4. QED
    BY <1>1, <2>2, <2>3 DEF InTime
<1>7. QED
  BY <1>5, <1>6

LEMMA ShowingKept ==
    ASSUME FeedTypes, Showing, Next
    PROVE  Showing'
<1>1. /\ feed # <<>> => Last(feed) = newest
      /\ InOrder
  BY DEF Showing, InOrder
<1>2. ASSUME feed' = feed, newest' = newest PROVE Showing'
  <2>1. MovesUp(0) /\ Len(feed') = Len(feed) - 0
    BY <1>2, FeedFacts DEF MovesUp
  <2>2. InOrder'
    BY <1>1, <2>1, OrderStays
  <2>3. QED
    BY <1>1, <1>2, <2>2 DEF Showing, InOrder, Last
<1>3. ASSUME NEW s \in Scans, NEW name \in {"received", "scan-received", "scan"},
             Publish(name, s), name = "scan-received" => at[s] = "opening",
             name = "scan" => at'[s] \notin {"idle", "opening"}
      PROVE  Showing'
  <2>1. CASE feed' = feed /\ newest' = newest
    BY <1>2, <2>1
  <2>2. CASE ~(feed' = feed /\ newest' = newest)
    <3>1. PICK d \in Nat :
              /\ MovesUp(d) /\ Len(feed') = Len(feed) - d + 1
              /\ feed'[Len(feed')] = [name |-> name, of |-> s]
              /\ newest' = [name |-> name, of |-> s]
      BY <1>3, <2>2, PublishMoves
    <3>2. /\ feed'[Len(feed')].of = s /\ feed'[Len(feed')].name = name
      BY <3>1
    <3>3. InOrder'
      BY <1>1, <1>3, <3>1, <3>2, OrderStays DEF InTime
    <3>4. QED
      BY <3>1, <3>3 DEF Showing, InOrder, Last
  <2>3. QED
    BY <2>1, <2>2
<1>4. CASE \E s \in Scans : Writes(s) \/ Looks(s) \/ Reporting(s)
  BY <1>2, <1>3, <1>4, PublishedWhen
<1>5. CASE Deliver
  <2>1. feed # <<>> /\ feed' = Tail(feed) /\ newest' = newest
    BY <1>5 DEF Deliver
  <2>2. /\ feed' \in Seq(Event) /\ Len(feed') = Len(feed) - 1
        /\ \A i \in 1..Len(feed') : feed'[i] = feed[i + 1]
    BY <2>1, FeedFacts, HeadTailProperties
  <2>3. MovesUp(1)
    BY <2>1, <2>2, FeedFacts, LenProperties DEF MovesUp
  <2>4. InOrder'
    BY <1>1, <2>2, <2>3, OrderStays
  <2>5. feed' # <<>> => Last(feed') = newest'
    <3>1. SUFFICES ASSUME feed' # <<>> PROVE feed'[Len(feed')] = newest'
      BY DEF Last
    <3>2. Len(feed') \in Nat \ {0}
      BY <2>2, <3>1, EmptySeq
    <3>3. feed'[Len(feed')] = feed[Len(feed)]
      BY <2>2, <3>2, FeedFacts
    <3>4. QED
      BY <1>1, <2>1, <3>3 DEF Last
  <2>6. QED
    BY <2>4, <2>5 DEF Showing, InOrder
<1>6. CASE Restart
  <2>1. feed' = <<>>
    BY <1>6 DEF Restart
  <2>2. Len(feed') = 0
    BY <2>1, EmptySeq
  <2>3. QED
    BY <2>1, <2>2 DEF Showing
<1>7. CASE Clears \/ Purges \/ Unlinks \/ ClearLooks
  <2>1. feed' = feed /\ newest' = newest
    BY <1>7 DEF Clears, MarkRead, Dismiss, MarkAllRead, DismissRead, Links, ClearMarks, Purges,
       Unlinks, ClearLooks, UserOnly, browser
  <2>2. QED
    BY <1>2, <2>1
<1>8. QED
  BY <1>4, <1>5, <1>6, <1>7, FeedSteps

-----------------------------------------------------------------------------
(* ScanFeed: the theorems.                                                 *)

LEMMA FeedInvStarts ==
    ASSUME FeedAssumption, Init
    PROVE  FeedInv
<1>1. /\ <<>> \in Seq(Row) /\ <<>> \in Seq(Event)
      /\ rows = <<>> /\ feed = <<>> /\ Len(rows) = 0 /\ Len(feed) = 0
      /\ DOMAIN rows = {}
  BY EmptySeq DEF Init
<1>2. TypeOK
  <2>1. NoOutcome \in [res : Results, job : BOOLEAN] /\ "idle" \in Stages
    BY DEF NoOutcome, Results, Stages
  <2>2. /\ at \in [Scans -> Stages] /\ outcome \in [Scans -> [res : Results, job : BOOLEAN]]
    BY <2>1 DEF Init
  <2>3. /\ receipt \in [Scans -> {"sent", "found", "gone"}]
        /\ saw \in [{"receipt", "scan"} -> [Scans -> Nat]]
        /\ recorded \in [Scans -> Nat]
    BY DEF Init, NoRow
  <2>4. /\ linked \in BOOLEAN /\ page \in BOOLEAN /\ late \in BOOLEAN /\ twin \in BOOLEAN
        /\ settled \in BOOLEAN /\ touched \subseteq Scans /\ troubled \subseteq Scans
        /\ clear \in {"idle", "due", "posted"} /\ newest \in Event \cup {NoEvent}
        /\ clicks \in 0..MaxClicks /\ troubles \in 0..MaxTroubles
    BY DEF Init
  <2>5. rows \in Seq(Row) /\ feed \in Seq(Event) /\ Len(feed) <= QueueCap
    BY <1>1 DEF FeedAssumption
  <2>6. QED
    BY <2>2, <2>3, <2>4, <2>5 DEF TypeOK
<1>3. RowsApart /\ OneUnread /\ Closing /\ Settling
  BY <1>1 DEF Init, RowsApart, OneUnread, Closing, Settling
<1>4. Recording /\ Announcing /\ Answering
  BY DEF Init, Recording, RecordOf, Announcing, Failed, Answering
<1>5. Showing
  BY <1>1 DEF Showing
<1>6. QED
  BY <1>2, <1>3, <1>4, <1>5 DEF FeedInv

LEMMA FeedInvKept ==
    ASSUME FeedAssumption, FeedInv, Next
    PROVE  FeedInv'
<1>1. FeedTypes
  BY DEF FeedInv, FeedTypes
<1>2. TypeOK' /\ RowsApart' /\ OneUnread'
  BY <1>1, FeedTypesKept, RowsKept DEF FeedInv
<1>3. Recording' /\ Announcing' /\ Answering'
  BY <1>1, RecordingKept, AnnouncingKept, AnsweringKept DEF FeedInv
<1>4. Closing' /\ Settling' /\ Showing'
  BY <1>1, ClosingKept, SettlingKept, ShowingKept DEF FeedInv
<1>5. QED
  BY <1>2, <1>3, <1>4 DEF FeedInv

LEMMA FeedInvUnchanged ==
    ASSUME FeedInv, UNCHANGED vars
    PROVE  FeedInv'
<1>1. UNCHANGED <<linked, rows, recorded, receipt, at, saw, outcome, clear, page, feed, newest>>
      /\ UNCHANGED <<late, twin, touched, settled, troubled, clicks, troubles>>
  BY DEF vars, stores, requests, browser, history, bounds
<1>2. TypeOK'
  BY <1>1 DEF FeedInv, TypeOK
<1>3. RowsApart' /\ OneUnread' /\ Closing'
  BY <1>1 DEF FeedInv, RowsApart, OneUnread, Closing, WillClose, Unread
<1>4. Recording' /\ Announcing' /\ Answering'
  BY <1>1 DEF FeedInv, Recording, RecordOf, Announcing, Announced, Unread, Failed, Answering
<1>5. Settling' /\ Showing'
  BY <1>1 DEF FeedInv, Settling, Showing, Last
<1>6. QED
  BY <1>2, <1>3, <1>4, <1>5 DEF FeedInv

LEMMA FeedInvAlways == MCSpec => []FeedInv
<1>1. MCInit => FeedInv
  BY FeedInvStarts, FeedAssumption DEF MCInit
<1>2. FeedInv /\ [MCNext]_all => FeedInv'
  <2>1. SUFFICES ASSUME FeedInv, [MCNext]_all PROVE FeedInv'
    OBVIOUS
  <2>2. Next \/ UNCHANGED vars
    BY <2>1 DEF MCNext, all
  <2>3. QED
    BY <2>1, <2>2, FeedInvKept, FeedInvUnchanged, FeedAssumption
<1>3. QED
  BY <1>1, <1>2, PTL DEF MCSpec

\* Nothing a scan says is lost: a scan that met no trouble is in the history once, an
\* unread row tells of its failure unless somebody cleared rows, and no row asks for a
\* link that was made by hand (_save_activity, _upsert_notification,
\* _resolve_notifications_async).
THEOREM FeedKeptAlways == MCSpec => []FeedKept
<1>1. FeedInv => FeedKept
  <2>1. SUFFICES ASSUME FeedInv PROVE FeedCorrect
    BY DEF FeedKept
  <2>2. rows \in Seq(Row)
    BY <2>1 DEF FeedInv, TypeOK
  <2>3. OneRecord
    BY <2>1 DEF FeedInv, Recording, RecordOf, OneRecord
  <2>4. FailureShown
    <3>1. Announced => NewestUnread # NoRow
      BY <2>2, NewestUnreadFacts
    <3>2. QED
      BY <2>1, <3>1 DEF FeedInv, Announcing, Failed, FailureShown
  <2>5. LinkSettles
    BY <2>1 DEF FeedInv, Settling, LinkSettles, ToSet
  <2>6. QED
    BY <2>1, <2>3, <2>4, <2>5 DEF FeedInv, FeedCorrect
<1>2. QED
  BY <1>1, FeedInvAlways, PTL

\* Once every scan has ended no unread row still says that one is being processed, but
\* after a late receipt, a row that was added twice, an error or a restart.
THEOREM NoneStuckAlways == MCSpec => []NoneStuck
<1>1. FeedInv => NoneStuck
  <2>1. SUFFICES ASSUME FeedInv, ~late, ~twin, troubled = {},
                        \A s \in Scans : at[s] = "ended",
                        NEW r \in ToSet(rows), Unread(r), r.res = "processing"
                 PROVE  FALSE
    BY DEF NoneStuck
  <2>2. PICK i \in DOMAIN rows : rows[i] = r
    BY DEF ToSet
  <2>3. PICK w \in Scans : WillClose(w, rows[i].id)
    BY <2>1, <2>2 DEF FeedInv, Closing
  <2>4. QED
    BY <2>1, <2>3 DEF WillClose, Early
<1>2. QED
  BY <1>1, FeedInvAlways, PTL

\* A page that keeps up with the bus, or misses any number of its events, ends on the
\* last one, and never sees a scan received after its result (EventBus, _put_latest).
THEOREM LiveFeedAlways == MCSpec => []LiveFeed
<1>1. FeedInv => LiveFeed
  <2>1. SUFFICES ASSUME FeedInv PROVE LiveFeed
    OBVIOUS
  <2>2. feed \in Seq(Event) /\ DOMAIN feed = 1..Len(feed)
    <3>1. feed \in Seq(Event)
      BY <2>1 DEF FeedInv, TypeOK
    <3>2. QED
      BY <3>1, LenProperties
  <2>3. \A i \in 1..Len(feed) : feed[i].of \in Scans
    <3>1. \A i \in 1..Len(feed) : feed[i] \in Event
      BY <2>2, ElementOfSeq
    <3>2. QED
      BY <3>1 DEF Event
  <2>4. feed # <<>> => Last(feed) = newest
    BY <2>1 DEF FeedInv, Showing
  <2>5. ASSUME NEW i \in 1..Len(feed), NEW j \in 1..Len(feed), i < j,
               feed[i].of = feed[j].of, feed[i].of \notin troubled, feed[i].name = "scan"
        PROVE  feed[j].name # "scan-received"
    BY <2>1, <2>3, <2>5 DEF FeedInv, Showing
  <2>6. QED
    BY <2>2, <2>4, <2>5 DEF LiveFeed
<1>2. QED
  BY <1>1, FeedInvAlways, PTL

-----------------------------------------------------------------------------
(* ScannerStatus: the inductive invariant.                                 *)

Waits(r) == r.at # "free" /\ r.waits

\* What a request reports was so when it was sent, and it is no longer under way than
\* the server may have it, or the bridge may wait for it.
ReportsFit ==
    \A s \in Slots : report[s].at # "free" =>
        /\ report[s].since <= report[s].life
        /\ report[s].waits => report[s].life <= Slack
        /\ report[s].plugged => bridge.off <= report[s].life
        /\ report[s].kind = "beat" /\ report[s].at = "read" => report[s].full

\* A thread of the bridge waits for one answer at a time.
ThreadsFit ==
    /\ \A s, t \in Slots : Waits(report[s]) /\ Waits(report[t])
                           /\ report[s].kind = report[t].kind => s = t
    /\ \A s \in Slots : Waits(report[s]) =>
           /\ bridge.up
           /\ report[s].kind = "scan" => bridge.pending > 0
           /\ report[s].kind = "beat" => bridge.beat = "waits"
    /\ bridge.beat = "waits" =>
           \E s \in Slots : Waits(report[s]) /\ report[s].kind = "beat"
    /\ bridge.up /\ bridge.plugged => bridge.off = 0
    /\ ~bridge.up => bridge.beat = "sleeps" /\ bridge.misses = 2 /\ ~bridge.plugged

\* What is stored of the device is not older than the last report.
DeviceFits == token # S!None /\ token.plugged => bridge.off <= token.age + Life

\* The age of the last report when a heartbeat has just got its answer, or none.
Base == IF bridge.misses = 0 THEN Life ELSE Life + Interval + Slack

\* The last report is as old as the heartbeat that is due, and the unanswered one
\* before it, let it be.
BeatsKeepUp ==
    token # S!None /\ bridge.misses <= 1 =>
        /\ bridge.beat = "config" => token.age <= Base
        /\ bridge.beat = "sleeps" => token.age + bridge.due <= Base + Interval
        /\ \A s \in Slots : Waits(report[s]) /\ report[s].kind = "beat" =>
               token.age <= Base + Interval + report[s].life

StatusInv == S!TypeOK /\ ReportsFit /\ ThreadsFit /\ DeviceFits /\ BeatsKeepUp

-----------------------------------------------------------------------------
(* ScannerStatus: the records of the bridge, of a report and of a token.   *)

BridgeOf(u, n, p, g, d, t, c, m, o) ==
    [up |-> u, scans |-> n, pending |-> p, plugged |-> g, due |-> d, beat |-> t,
     config |-> c, misses |-> m, off |-> o]

LEMMA BridgeSplit ==
    ASSUME S!TypeOK
    PROVE  /\ bridge = BridgeOf(bridge.up, bridge.scans, bridge.pending, bridge.plugged,
                                bridge.due, bridge.beat, bridge.config, bridge.misses, bridge.off)
           /\ bridge.up \in BOOLEAN /\ bridge.plugged \in BOOLEAN
           /\ bridge.scans \in 0..MaxScans /\ bridge.pending \in 0..MaxScans
           /\ bridge.due \in 0..Interval /\ bridge.beat \in {"sleeps", "waits", "config"}
           /\ bridge.config \in Configs /\ bridge.misses \in 0..2 /\ bridge.off \in 0..S!AgeCap
<1>1. bridge \in S!Bridge
  BY DEF S!TypeOK
<1>2. QED
  BY <1>1 DEF S!Bridge, BridgeOf

LEMMA BridgeMembers ==
    ASSUME S!TypeOK
    PROVE  /\ bridge.up \in BOOLEAN /\ bridge.plugged \in BOOLEAN
           /\ bridge.scans \in 0..MaxScans /\ bridge.pending \in 0..MaxScans
           /\ bridge.due \in 0..Interval /\ bridge.beat \in {"sleeps", "waits", "config"}
           /\ bridge.config \in Configs /\ bridge.misses \in 0..2 /\ bridge.off \in 0..S!AgeCap
BY BridgeSplit

ReportOf(k, t, n, g, w, f, l, i) ==
    [kind |-> k, at |-> t, scans |-> n, plugged |-> g, waits |-> w, full |-> f,
     life |-> l, since |-> i]

LEMMA ReportSplit ==
    ASSUME S!TypeOK, NEW s \in Slots
    PROVE  /\ report[s] = ReportOf(report[s].kind, report[s].at, report[s].scans,
                                   report[s].plugged, report[s].waits, report[s].full,
                                   report[s].life, report[s].since)
           /\ report[s].kind \in {"scan", "beat"} /\ report[s].at \in {"free", "sent", "read"}
           /\ report[s].scans \in 0..MaxScans /\ report[s].plugged \in BOOLEAN
           /\ report[s].waits \in BOOLEAN /\ report[s].full \in BOOLEAN
           /\ report[s].life \in 0..Life /\ report[s].since \in 0..Life
           /\ report[s] \in S!Request
<1>1. report[s] \in S!Request
  BY DEF S!TypeOK
<1>2. QED
  BY <1>1 DEF S!Request, ReportOf

LEMMA ReportMembers ==
    ASSUME S!TypeOK, NEW s \in Slots
    PROVE  /\ report[s].kind \in {"scan", "beat"} /\ report[s].at \in {"free", "sent", "read"}
           /\ report[s].scans \in 0..MaxScans /\ report[s].plugged \in BOOLEAN
           /\ report[s].waits \in BOOLEAN /\ report[s].full \in BOOLEAN
           /\ report[s].life \in 0..Life /\ report[s].since \in 0..Life
BY ReportSplit

LEMMA FreeReport == S!Free \in S!Request /\ S!Free.at = "free"
<1>1. S!Free = ReportOf("scan", "free", 0, FALSE, FALSE, FALSE, 0, 0)
  BY DEF S!Free, ReportOf
<1>2. 0 \in 0..Life /\ 0 \in 0..MaxScans
  BY StatusAssumption
<1>3. QED
  BY <1>1, <1>2 DEF S!Request, ReportOf

\* One slot changes.
LEMMA OneReport ==
    ASSUME S!TypeOK, NEW s \in Slots, NEW r \in S!Request,
           report' = [report EXCEPT ![s] = r]
    PROVE  /\ report'[s] = r
           /\ \A t \in Slots \ {s} : report'[t] = report[t]
           /\ report' \in [Slots -> S!Request]
BY DEF S!TypeOK

LEMMA TokenSplit ==
    ASSUME S!TypeOK, token # S!None
    PROVE  /\ token = [age |-> token.age, scans |-> token.scans, plugged |-> token.plugged,
                       prefix |-> token.prefix]
           /\ token.age \in 0..S!AgeCap /\ token.scans \in 0..MaxScans
           /\ token.plugged \in BOOLEAN /\ token.prefix \in BOOLEAN
           /\ token \in S!Token
<1>1. token \in S!Token
  BY DEF S!TypeOK
<1>2. QED
  BY <1>1 DEF S!Token

LEMMA TokenTyped ==
    ASSUME NEW i \in 0..S!AgeCap, NEW n \in 0..MaxScans, NEW g \in BOOLEAN, NEW p \in BOOLEAN
    PROVE  [age |-> i, scans |-> n, plugged |-> g, prefix |-> p] \in S!Token
BY DEF S!Token

\* The constants are numbers.
LEMMA StatusNumbers ==
    /\ S!AgeCap \in Nat /\ OnlineFor \in Nat /\ Life \in Nat /\ Interval \in Nat /\ Slack \in Nat
    /\ MaxScans \in Nat /\ MaxMisses \in Nat /\ MaxStops \in Nat /\ MaxPlugs \in Nat
    /\ MaxSaves \in Nat
    /\ S!AgeCap = OnlineFor + Life + 1
    /\ 0 \in 0..S!AgeCap /\ 0 \in 0..Interval /\ 0 \in 0..MaxScans /\ 0 \in 0..Life
    /\ Interval \in 0..Interval
BY StatusAssumption DEF S!AgeCap

LEMMA StatusInitially == S!Init => StatusInv
<1> SUFFICES ASSUME S!Init PROVE StatusInv
  OBVIOUS
<1> USE StatusNumbers
<1>1. PICK p \in BOOLEAN : token = [age |-> S!AgeCap, scans |-> 0, plugged |-> FALSE, prefix |-> p]
  BY DEF S!Init
<1>2. token \in S!Token
  <2>1. S!AgeCap \in 0..S!AgeCap
    OBVIOUS
  <2>2. QED
    BY <1>1, <2>1, TokenTyped
<1>3. PICK c \in Configs :
          bridge = BridgeOf(FALSE, 0, 0, FALSE, 0, "sleeps", c, 2, S!AgeCap)
  BY DEF S!Init, BridgeOf
<1>4. bridge \in S!Bridge
  <2>1. S!AgeCap \in 0..S!AgeCap
    OBVIOUS
  <2>2. QED
    BY <1>3, <2>1, StatusNumbers DEF BridgeOf, S!Bridge
<1>5. report \in [Slots -> S!Request] /\ \A s \in Slots : report[s].at = "free"
  BY FreeReport DEF S!Init
<1>6. S!TypeOK
  BY <1>2, <1>4, <1>5 DEF S!Init, S!TypeOK
<1>7. bridge.misses = 2 /\ ~bridge.up /\ bridge.beat = "sleeps" /\ ~bridge.plugged
  BY <1>3 DEF BridgeOf
<1>8. ~token.plugged
  BY <1>1
<1>9. QED
  BY <1>5, <1>6, <1>7, <1>8 DEF StatusInv, ReportsFit, ThreadsFit, DeviceFits, BeatsKeepUp, Waits, Waits

LEMMA BridgeStarts_Status == StatusInv /\ S!BridgeStarts => StatusInv'
<1> SUFFICES ASSUME StatusInv, S!BridgeStarts PROVE StatusInv'
  OBVIOUS
<1>0. S!TypeOK
  BY DEF StatusInv
<1>1. PICK c \in Configs :
          bridge' = BridgeOf(TRUE, 0, bridge.pending, bridge.plugged, 0, "sleeps", c, 2, bridge.off)
  <2>1. bridge' = [bridge EXCEPT !.up = TRUE, !.scans = 0, !.due = 0, !.beat = "sleeps",
                                 !.misses = 2, !.config = config]
        => bridge' = BridgeOf(TRUE, 0, bridge.pending, bridge.plugged, 0, "sleeps", config, 2,
                              bridge.off)
    BY <1>0, BridgeSplit DEF BridgeOf
  <2>2. bridge' = [bridge EXCEPT !.up = TRUE, !.scans = 0, !.due = 0, !.beat = "sleeps",
                                 !.misses = 2]
        => bridge' = BridgeOf(TRUE, 0, bridge.pending, bridge.plugged, 0, "sleeps",
                              bridge.config, 2, bridge.off)
    BY <1>0, BridgeSplit DEF BridgeOf
  <2>3. config \in Configs /\ bridge.config \in Configs
    BY <1>0, BridgeMembers DEF S!TypeOK
  <2>4. QED
    BY <2>1, <2>2, <2>3 DEF S!BridgeStarts
<1>2. bridge' \in S!Bridge
  BY <1>0, <1>1, BridgeMembers, StatusNumbers DEF BridgeOf, S!Bridge
<1>3. ~bridge.up /\ misses' \in 0..MaxMisses
      /\ UNCHANGED <<token, config, report, stops, plugs, saves>>
  BY <1>0, StatusNumbers DEF S!BridgeStarts, S!Fault, S!TypeOK
<1>4. S!TypeOK'
  BY <1>0, <1>2, <1>3 DEF S!TypeOK
<1>5. bridge'.misses = 2 /\ bridge'.beat = "sleeps" /\ bridge'.off = bridge.off /\ bridge'.up
  BY <1>1 DEF BridgeOf
<1>6. ~bridge'.plugged
  BY <1>1, <1>3 DEF BridgeOf, StatusInv, ThreadsFit
<1>7. \A s \in Slots : ~Waits(report[s])
  BY <1>3 DEF StatusInv, ThreadsFit
<1>8. QED
  BY <1>3, <1>4, <1>5, <1>6, <1>7
  DEF StatusInv, ReportsFit, ThreadsFit, DeviceFits, BeatsKeepUp, Waits

LEMMA BridgeStops_Status == StatusInv /\ S!BridgeStops => StatusInv'
<1> SUFFICES ASSUME StatusInv, S!BridgeStops PROVE StatusInv'
  OBVIOUS
<1>0. S!TypeOK
  BY DEF StatusInv
<1>1. bridge' = BridgeOf(FALSE, bridge.scans, bridge.pending, FALSE, 0, "sleeps",
                         bridge.config, 2, bridge.off)
  BY <1>0, BridgeSplit DEF S!BridgeStops, BridgeOf
<1>2. bridge' \in S!Bridge
  BY <1>0, <1>1, BridgeMembers, StatusNumbers DEF BridgeOf, S!Bridge
<1>3. ASSUME NEW s \in Slots
      PROVE  /\ report'[s] = ReportOf(report[s].kind, report[s].at, report[s].scans,
                                      report[s].plugged, FALSE, report[s].full,
                                      report[s].life, report[s].since)
             /\ report'[s] \in S!Request
  <2>1. report'[s] = [report[s] EXCEPT !.waits = FALSE]
    BY <1>0 DEF S!BridgeStops, S!TypeOK
  <2>2. report'[s] = ReportOf(report[s].kind, report[s].at, report[s].scans,
                              report[s].plugged, FALSE, report[s].full,
                              report[s].life, report[s].since)
    BY <1>0, <2>1, ReportSplit DEF ReportOf
  <2>3. QED
    BY <1>0, <2>2, ReportMembers DEF ReportOf, S!Request
<1>4. report' \in [Slots -> S!Request]
  BY <1>3 DEF S!BridgeStops
<1>5. stops' \in 0..MaxStops /\ UNCHANGED <<token, config, misses, plugs, saves>>
  BY <1>0, StatusNumbers DEF S!BridgeStops, S!TypeOK
<1>6. S!TypeOK'
  BY <1>0, <1>2, <1>4, <1>5 DEF S!TypeOK
<1>7. bridge'.misses = 2 /\ bridge'.beat = "sleeps" /\ bridge'.off = bridge.off /\ ~bridge'.up
      /\ ~bridge'.plugged
  BY <1>1 DEF BridgeOf
<1>8. ASSUME NEW s \in Slots
      PROVE  /\ ~report'[s].waits
             /\ report'[s].at = report[s].at /\ report'[s].since = report[s].since
             /\ report'[s].kind = report[s].kind /\ report'[s].life = report[s].life
             /\ report'[s].full = report[s].full
             /\ report'[s].plugged = report[s].plugged
  <2>1. report'[s] = ReportOf(report[s].kind, report[s].at, report[s].scans,
                              report[s].plugged, FALSE, report[s].full,
                              report[s].life, report[s].since)
    BY <1>3
  <2>2. QED
    BY <2>1 DEF ReportOf
<1>9. QED
  BY <1>5, <1>6, <1>7, <1>8 DEF StatusInv, ReportsFit, ThreadsFit, DeviceFits, BeatsKeepUp, Waits

LEMMA Plugs_Status == StatusInv /\ S!Plugs => StatusInv'
<1> SUFFICES ASSUME StatusInv, S!Plugs PROVE StatusInv'
  OBVIOUS
<1>0. S!TypeOK
  BY DEF StatusInv
<1>1. PICK g \in BOOLEAN :
          bridge' = BridgeOf(bridge.up, bridge.scans, bridge.pending, g, bridge.due,
                             bridge.beat, bridge.config, bridge.misses, 0)
  BY <1>0, BridgeSplit DEF S!Plugs, BridgeOf
<1>2. bridge' \in S!Bridge
  BY <1>0, <1>1, BridgeMembers, StatusNumbers DEF BridgeOf, S!Bridge
<1>3. plugs' \in 0..MaxPlugs /\ UNCHANGED <<token, config, report, misses, stops, saves>>
      /\ bridge.up
  BY <1>0, StatusNumbers DEF S!Plugs, S!TypeOK
<1>4. S!TypeOK'
  BY <1>0, <1>2, <1>3 DEF S!TypeOK
<1>5. bridge'.misses = bridge.misses /\ bridge'.beat = bridge.beat /\ bridge'.off = 0
      /\ bridge'.up = bridge.up /\ bridge'.due = bridge.due /\ bridge'.pending = bridge.pending
  BY <1>1 DEF BridgeOf
<1>6. ReportsFit'
  BY <1>0, <1>3, <1>5, ReportMembers DEF StatusInv, ReportsFit
<1>7. ThreadsFit'
  BY <1>3, <1>5 DEF StatusInv, ThreadsFit
<1>8. DeviceFits'
  BY <1>0, <1>3, <1>5, TokenSplit, StatusNumbers DEF DeviceFits
<1>9. BeatsKeepUp'
  BY <1>3, <1>5 DEF StatusInv, BeatsKeepUp, Base
<1>10. QED
  BY <1>4, <1>6, <1>7, <1>8, <1>9 DEF StatusInv

LEMMA ReadsCode_Status == StatusInv /\ S!ReadsCode => StatusInv'
<1> SUFFICES ASSUME StatusInv, S!ReadsCode PROVE StatusInv'
  OBVIOUS
<1>0. S!TypeOK
  BY DEF StatusInv
<1>1. bridge' = BridgeOf(bridge.up, bridge.scans + 1, bridge.pending + 1, bridge.plugged,
                         bridge.due, bridge.beat, bridge.config, bridge.misses, bridge.off)
  BY <1>0, BridgeSplit DEF S!ReadsCode, BridgeOf
<1>2. bridge' \in S!Bridge
  <2>1. bridge.scans + 1 \in 0..MaxScans /\ bridge.pending + 1 \in 0..MaxScans
    BY <1>0, BridgeMembers, StatusNumbers DEF S!ReadsCode
  <2>2. QED
    BY <1>0, <1>1, <2>1, BridgeMembers, StatusNumbers DEF BridgeOf, S!Bridge
<1>3. UNCHANGED <<token, config, report, misses, stops, plugs, saves>>
  BY DEF S!ReadsCode, S!Counters
<1>4. S!TypeOK'
  BY <1>0, <1>2, <1>3 DEF S!TypeOK
<1>5. bridge'.misses = bridge.misses /\ bridge'.beat = bridge.beat /\ bridge'.off = bridge.off
      /\ bridge'.up = bridge.up /\ bridge'.due = bridge.due /\ bridge'.plugged = bridge.plugged
      /\ bridge'.pending > 0
  BY <1>0, <1>1, BridgeMembers, StatusNumbers DEF BridgeOf
<1>6. QED
  BY <1>3, <1>4, <1>5 DEF StatusInv, ReportsFit, ThreadsFit, DeviceFits, BeatsKeepUp, Base

LEMMA Refresh_Status == StatusInv /\ S!Refresh => StatusInv'
<1> SUFFICES ASSUME StatusInv, S!Refresh PROVE StatusInv'
  OBVIOUS
<1>0. S!TypeOK
  BY DEF StatusInv
<1>1. PICK c \in Configs :
          bridge' = BridgeOf(bridge.up, bridge.scans, bridge.pending, bridge.plugged, Interval,
                             "sleeps", c, bridge.misses, bridge.off)
  <2>1. bridge' = [bridge EXCEPT !.config = config, !.beat = "sleeps", !.due = Interval]
        => bridge' = BridgeOf(bridge.up, bridge.scans, bridge.pending, bridge.plugged, Interval,
                              "sleeps", config, bridge.misses, bridge.off)
    BY <1>0, BridgeSplit DEF BridgeOf
  <2>2. bridge' = [bridge EXCEPT !.beat = "sleeps", !.due = Interval]
        => bridge' = BridgeOf(bridge.up, bridge.scans, bridge.pending, bridge.plugged, Interval,
                              "sleeps", bridge.config, bridge.misses, bridge.off)
    BY <1>0, BridgeSplit DEF BridgeOf
  <2>3. config \in Configs /\ bridge.config \in Configs
    BY <1>0, BridgeMembers DEF S!TypeOK
  <2>4. QED
    BY <2>1, <2>2, <2>3 DEF S!Refresh, S!Asked
<1>2. bridge' \in S!Bridge
  BY <1>0, <1>1, BridgeMembers, StatusNumbers DEF BridgeOf, S!Bridge
<1>3. bridge.beat = "config" /\ misses' \in 0..MaxMisses
      /\ UNCHANGED <<token, config, report, stops, plugs, saves>>
  BY <1>0, StatusNumbers DEF S!Refresh, S!Fault, S!TypeOK
<1>4. S!TypeOK'
  BY <1>0, <1>2, <1>3 DEF S!TypeOK
<1>5. bridge'.misses = bridge.misses /\ bridge'.beat = "sleeps" /\ bridge'.off = bridge.off
      /\ bridge'.up = bridge.up /\ bridge'.due = Interval /\ bridge'.pending = bridge.pending
      /\ bridge'.plugged = bridge.plugged
  BY <1>1 DEF BridgeOf
<1>6. \A s \in Slots : ~(Waits(report[s]) /\ report[s].kind = "beat")
  BY <1>3 DEF StatusInv, ThreadsFit
<1>7. ReportsFit' /\ ThreadsFit' /\ DeviceFits'
  BY <1>3, <1>5, <1>6 DEF StatusInv, ReportsFit, ThreadsFit, DeviceFits
<1>8. BeatsKeepUp'
  BY <1>0, <1>3, <1>5, <1>6, TokenSplit, BridgeMembers, StatusNumbers DEF StatusInv, BeatsKeepUp, Base
<1>9. QED
  BY <1>4, <1>7, <1>8 DEF StatusInv

-----------------------------------------------------------------------------
(* ScannerStatus: time, and the requests of the bridge.                    *)

LEMMA Tick_Status == StatusInv /\ S!Tick => StatusInv'
<1> SUFFICES ASSUME StatusInv, S!Tick PROVE StatusInv'
  OBVIOUS
<1>0. S!TypeOK
  BY DEF StatusInv
<1>1. PICK o \in 0..S!AgeCap, d \in 0..Interval :
          /\ bridge' = BridgeOf(bridge.up, bridge.scans, bridge.pending, bridge.plugged, d,
                                bridge.beat, bridge.config, bridge.misses, o)
          /\ bridge.up /\ bridge.plugged => o = 0
          /\ o <= bridge.off + 1
          /\ d = IF bridge.due = 0 THEN 0 ELSE bridge.due - 1
  <2> DEFINE o == IF bridge.up /\ bridge.plugged THEN 0
                  ELSE S!Least(bridge.off + 1, S!AgeCap)
             d == IF bridge.due = 0 THEN 0 ELSE bridge.due - 1
  <2>1. o \in 0..S!AgeCap /\ o <= bridge.off + 1 /\ (bridge.up /\ bridge.plugged => o = 0)
    BY <1>0, BridgeMembers, StatusNumbers DEF S!Least
  <2>2. d \in 0..Interval
    BY <1>0, BridgeMembers, StatusNumbers
  <2>3. bridge' = [bridge EXCEPT !.due = d, !.off = o]
    BY DEF S!Tick
  <2> HIDE DEF o, d
  <2>4. bridge' = BridgeOf(bridge.up, bridge.scans, bridge.pending, bridge.plugged, d,
                           bridge.beat, bridge.config, bridge.misses, o)
    BY <1>0, <2>3, BridgeSplit DEF BridgeOf
  <2>5. QED
    BY <2>1, <2>2, <2>4 DEF d
<1>2. bridge' \in S!Bridge
  BY <1>0, <1>1, BridgeMembers, StatusNumbers DEF BridgeOf, S!Bridge
<1>3. /\ bridge'.misses = bridge.misses /\ bridge'.beat = bridge.beat
      /\ bridge'.off <= bridge.off + 1 /\ bridge'.off \in 0..S!AgeCap
      /\ bridge'.up = bridge.up /\ bridge'.plugged = bridge.plugged
      /\ bridge'.pending = bridge.pending
      /\ bridge'.due = IF bridge.due = 0 THEN 0 ELSE bridge.due - 1
      /\ bridge.up /\ bridge.plugged => bridge'.off = 0
  BY <1>1 DEF BridgeOf
<1>4. ASSUME NEW s \in Slots, report[s].at = "free" PROVE report'[s] = report[s]
  BY <1>4 DEF S!Tick, S!Used
<1>5. ASSUME NEW s \in Slots, report[s].at # "free"
      PROVE  \E i \in 0..Life :
                 /\ report'[s] = ReportOf(report[s].kind, report[s].at, report[s].scans,
                                          report[s].plugged, report[s].waits, report[s].full,
                                          report[s].life + 1, i)
                 /\ i <= report[s].since + 1 /\ report[s].life + 1 \in 0..Life
                 /\ report[s].waits => report[s].life # Slack
  <2>1. report[s].life # Life /\ (report[s].waits => report[s].life # Slack)
    BY <1>5 DEF S!Tick, S!Urgent, S!Used
  <2>2. report[s].life \in 0..Life /\ report[s].since \in 0..Life
        /\ report[s].since <= report[s].life
    BY <1>0, <1>5, ReportMembers DEF StatusInv, ReportsFit
  <2> DEFINE i == IF report[s].at = "read" THEN report[s].since + 1 ELSE report[s].since
  <2>3. i \in 0..Life /\ i <= report[s].since + 1 /\ report[s].life + 1 \in 0..Life
    BY <2>1, <2>2, StatusNumbers
  <2>4. report'[s] = [report[s] EXCEPT !.life = @ + 1,
                          !.since = IF report[s].at = "read" THEN @ + 1 ELSE @]
    BY <1>5 DEF S!Tick, S!Used
  <2>5. report'[s] = ReportOf(report[s].kind, report[s].at, report[s].scans,
                              report[s].plugged, report[s].waits, report[s].full,
                              report[s].life + 1, i)
    BY <1>0, <2>4, ReportSplit DEF ReportOf
  <2> HIDE DEF i
  <2>6. QED
    BY <2>1, <2>3, <2>5
<1>6. ASSUME NEW s \in Slots
      PROVE  report'[s] \in S!Request
  <2>1. CASE report[s].at = "free"
    BY <1>0, <1>4, <2>1, ReportSplit
  <2>2. CASE report[s].at # "free"
    <3>1. PICK i \in 0..Life :
              /\ report'[s] = ReportOf(report[s].kind, report[s].at, report[s].scans,
                                       report[s].plugged, report[s].waits, report[s].full,
                                       report[s].life + 1, i)
              /\ i <= report[s].since + 1 /\ report[s].life + 1 \in 0..Life
              /\ report[s].waits => report[s].life # Slack
      BY <1>5, <2>2
    <3>2. QED
      BY <1>0, <3>1, ReportMembers DEF ReportOf, S!Request
  <2>3. QED
    BY <2>1, <2>2
<1>7. report' \in [Slots -> S!Request]
  BY <1>6 DEF S!Tick
<1>8. token # S!None => /\ token' \in S!Token /\ token'.plugged = token.plugged
                        /\ token'.age \in 0..S!AgeCap /\ token'.age <= token.age + 1
                        /\ token'.age = token.age + 1 \/ token'.age = S!AgeCap
  <2>1. SUFFICES ASSUME token # S!None
                 PROVE  /\ token' \in S!Token /\ token'.plugged = token.plugged
                        /\ token'.age \in 0..S!AgeCap /\ token'.age <= token.age + 1
                        /\ token'.age = token.age + 1 \/ token'.age = S!AgeCap
    OBVIOUS
  <2> DEFINE g == S!Least(token.age + 1, S!AgeCap)
  <2>2. g \in 0..S!AgeCap /\ g <= token.age + 1 /\ (g = token.age + 1 \/ g = S!AgeCap)
    BY <1>0, <2>1, TokenSplit, StatusNumbers DEF S!Least
  <2>3. token' = [token EXCEPT !.age = g]
    BY <2>1 DEF S!Tick
  <2> HIDE DEF g
  <2>4. token' = [age |-> g, scans |-> token.scans, plugged |-> token.plugged,
                  prefix |-> token.prefix]
    BY <1>0, <2>1, <2>3, TokenSplit
  <2>5. token' \in S!Token
    BY <1>0, <2>1, <2>2, <2>4, TokenSplit DEF S!Token
  <2>6. QED
    BY <2>2, <2>4, <2>5
<1>9. token = S!None => token' = S!None
  BY DEF S!Tick
<1>10. UNCHANGED <<config, misses, stops, plugs, saves>>
  BY DEF S!Tick, S!Counters
<1>11. S!TypeOK'
  BY <1>0, <1>2, <1>7, <1>8, <1>9, <1>10 DEF S!TypeOK
<1>12. ASSUME NEW s \in Slots
       PROVE  /\ report'[s].at = report[s].at /\ report'[s].kind = report[s].kind
              /\ report'[s].plugged = report[s].plugged
              /\ report'[s].waits = report[s].waits /\ report'[s].full = report[s].full
              /\ report[s].at # "free" =>
                     /\ report'[s].life = report[s].life + 1
                     /\ report'[s].since <= report[s].since + 1
                     /\ report[s].waits => report[s].life # Slack
  <2>1. CASE report[s].at = "free"
    BY <1>4, <2>1
  <2>2. CASE report[s].at # "free"
    <3>1. PICK i \in 0..Life :
              /\ report'[s] = ReportOf(report[s].kind, report[s].at, report[s].scans,
                                       report[s].plugged, report[s].waits, report[s].full,
                                       report[s].life + 1, i)
              /\ i <= report[s].since + 1 /\ report[s].life + 1 \in 0..Life
              /\ report[s].waits => report[s].life # Slack
      BY <1>5, <2>2
    <3>2. QED
      BY <3>1 DEF ReportOf
  <2>3. QED
    BY <2>1, <2>2
<1>13. ReportsFit'
  <2>1. SUFFICES ASSUME NEW s \in Slots, report[s].at # "free"
                 PROVE  /\ report'[s].since <= report'[s].life
                        /\ report'[s].waits => report'[s].life <= Slack
                        /\ report'[s].plugged => bridge'.off <= report'[s].life
                        /\ report'[s].kind = "beat" /\ report'[s].at = "read"
                           => report'[s].full
    BY <1>12 DEF ReportsFit
  <2>2. report'[s].since \in 0..Life
    BY <1>6 DEF S!Request
  <2>3. QED
    BY <1>0, <1>3, <1>12, <2>1, <2>2, ReportMembers, BridgeMembers, StatusNumbers
    DEF StatusInv, ReportsFit
<1>14. ThreadsFit'
  BY <1>3, <1>12 DEF StatusInv, ThreadsFit, Waits
<1>15. DeviceFits'
  <2>1. SUFFICES ASSUME token # S!None, token.plugged
                 PROVE  bridge'.off <= token'.age + Life
    BY <1>8, <1>9 DEF DeviceFits
  <2>2. bridge.off <= token.age + Life
    BY <2>1 DEF StatusInv, DeviceFits
  <2>3. token.age \in Nat /\ bridge.off \in Nat /\ bridge'.off \in Nat
        /\ bridge'.off <= S!AgeCap
    BY <1>0, <1>3, <2>1, TokenSplit, BridgeMembers, StatusNumbers
  <2>4. QED
    BY <1>3, <1>8, <2>1, <2>2, <2>3, StatusNumbers
<1>16. BeatsKeepUp'
  <2>1. SUFFICES ASSUME token # S!None, bridge.misses <= 1
                 PROVE  /\ bridge.beat = "config" => token'.age <= Base
                        /\ bridge.beat = "sleeps" => token'.age + bridge'.due <= Base + Interval
                        /\ \A s \in Slots : Waits(report[s]) /\ report[s].kind = "beat" =>
                               token'.age <= Base + Interval + (report[s].life + 1)
    BY <1>3, <1>9, <1>12 DEF BeatsKeepUp, Base, Waits
  <2>2. bridge.up /\ bridge.beat # "config" /\ (bridge.beat = "sleeps" => bridge.due # 0)
    <3>1. bridge.up
      BY <2>1 DEF StatusInv, ThreadsFit
    <3>2. QED
      BY <3>1 DEF S!Tick, S!Urgent
  <2>3. Base \in Nat
    BY StatusNumbers DEF Base
  <2>4. bridge.beat = "sleeps" => token'.age + bridge'.due <= Base + Interval
    BY <1>0, <1>3, <1>8, <2>1, <2>2, <2>3, TokenSplit, BridgeMembers, StatusNumbers
    DEF StatusInv, BeatsKeepUp
  <2>5. ASSUME NEW s \in Slots, Waits(report[s]), report[s].kind = "beat"
        PROVE  token'.age <= Base + Interval + (report[s].life + 1)
    BY <1>0, <1>8, <2>1, <2>3, <2>5, TokenSplit, ReportMembers, StatusNumbers
    DEF StatusInv, BeatsKeepUp
  <2>6. QED
    BY <2>2, <2>4, <2>5
<1>17. QED
  BY <1>11, <1>13, <1>14, <1>15, <1>16 DEF StatusInv

\* A request of the bridge is on its way, and a thread waits for it.
LEMMA SentReport ==
    ASSUME S!TypeOK, NEW kind \in {"scan", "beat"}
    PROVE  /\ S!Sent(kind) = ReportOf(kind, "sent", bridge.scans, bridge.plugged, TRUE, FALSE, 0, 0)
           /\ S!Sent(kind) \in S!Request
<1>1. S!Free = ReportOf("scan", "free", 0, FALSE, FALSE, FALSE, 0, 0)
  BY DEF S!Free, ReportOf
<1>2. S!Sent(kind) = [S!Free EXCEPT !.kind = kind, !.at = "sent", !.waits = TRUE,
                          !.scans = bridge.scans, !.plugged = bridge.plugged]
  BY DEF S!Sent
<1>3. S!Sent(kind) = ReportOf(kind, "sent", bridge.scans, bridge.plugged, TRUE, FALSE, 0, 0)
  BY <1>1, <1>2 DEF ReportOf
<1>4. QED
  BY <1>3, BridgeMembers, StatusNumbers DEF ReportOf, S!Request

LEMMA SendScan_Status ==
    ASSUME StatusInv, NEW s \in Slots, S!SendScan(s)
    PROVE  StatusInv'
<1>0. S!TypeOK
  BY DEF StatusInv
<1>1. bridge.up /\ bridge.pending > 0 /\ report[s].at = "free"
      /\ UNCHANGED <<token, config, bridge, misses, stops, plugs, saves>>
  BY DEF S!SendScan, S!Used, S!Counters
<1>2. /\ report'[s] = ReportOf("scan", "sent", bridge.scans, bridge.plugged, TRUE, FALSE, 0, 0)
      /\ \A t \in Slots \ {s} : report'[t] = report[t]
      /\ report' \in [Slots -> S!Request]
  BY <1>0, OneReport, SentReport DEF S!SendScan
<1>3. S!TypeOK'
  BY <1>0, <1>1, <1>2 DEF S!TypeOK
<1>4. /\ report'[s].kind = "scan" /\ report'[s].at = "sent"
      /\ report'[s].life = 0 /\ report'[s].since = 0
      /\ report'[s].plugged = bridge.plugged
  BY <1>2 DEF ReportOf
<1>5. \A t \in Slots : ~(Waits(report[t]) /\ report[t].kind = "scan")
  BY DEF S!SendScan, S!Waiting, S!Used, Waits
<1>6. ReportsFit'
  <2>1. bridge.plugged => bridge.off = 0
    BY <1>1 DEF StatusInv, ThreadsFit
  <2>2. /\ report'[s].since <= report'[s].life
        /\ report'[s].waits => report'[s].life <= Slack
        /\ report'[s].plugged => bridge'.off <= report'[s].life
        /\ ~(report'[s].kind = "beat" /\ report'[s].at = "read")
    BY <1>1, <1>4, <2>1, StatusNumbers
  <2>3. ASSUME NEW t \in Slots \ {s}, report[t].at # "free"
        PROVE  /\ report[t].since <= report[t].life
               /\ report[t].waits => report[t].life <= Slack
               /\ report[t].plugged => bridge'.off <= report[t].life
               /\ report[t].kind = "beat" /\ report[t].at = "read" => report[t].full
    BY <1>1, <1>4, <2>3 DEF StatusInv, ReportsFit
  <2>4. QED
    BY <1>2, <2>2, <2>3 DEF ReportsFit
<1>7. ThreadsFit'
  <2>0. \A t \in Slots \ {s} : report'[t] = report[t]
    BY <1>2
  <2>1. \A t \in Slots : t = s \/ report'[t] = report[t]
    BY <2>0
  <2>2. \A t \in Slots : Waits(report[t]) => t # s /\ report'[t] = report[t]
    BY <1>1, <1>2 DEF Waits
  <2>3. \A t, u \in Slots : Waits(report'[t]) /\ Waits(report'[u])
                            /\ report'[t].kind = report'[u].kind => t = u
    BY <1>4, <1>5, <2>1 DEF StatusInv, ThreadsFit
  <2>4. \A t \in Slots : Waits(report'[t]) =>
            /\ bridge.up
            /\ report'[t].kind = "scan" => bridge.pending > 0
            /\ report'[t].kind = "beat" => bridge.beat = "waits"
    BY <1>1, <1>4, <2>1 DEF StatusInv, ThreadsFit
  <2>5. bridge.beat = "waits" =>
            \E t \in Slots : Waits(report'[t]) /\ report'[t].kind = "beat"
    BY <2>2 DEF StatusInv, ThreadsFit
  <2>6. QED
    BY <1>1, <2>3, <2>4, <2>5 DEF StatusInv, ThreadsFit
<1>8. DeviceFits' /\ BeatsKeepUp'
  BY <1>1, <1>2, <1>4 DEF StatusInv, DeviceFits, BeatsKeepUp, Base
<1>9. QED
  BY <1>3, <1>6, <1>7, <1>8 DEF StatusInv

LEMMA SendBeat_Status ==
    ASSUME StatusInv, NEW s \in Slots, S!SendBeat(s)
    PROVE  StatusInv'
<1>0. S!TypeOK
  BY DEF StatusInv
<1>1. /\ bridge.up /\ bridge.beat = "sleeps" /\ bridge.due = 0 /\ report[s].at = "free"
      /\ UNCHANGED <<token, config, misses, stops, plugs, saves>>
      /\ bridge' = BridgeOf(bridge.up, bridge.scans, bridge.pending, bridge.plugged, bridge.due,
                            "waits", bridge.config, bridge.misses, bridge.off)
  BY <1>0, BridgeSplit DEF S!SendBeat, S!Used, S!Counters, BridgeOf
<1>2. /\ report'[s] = ReportOf("beat", "sent", bridge.scans, bridge.plugged, TRUE, FALSE, 0, 0)
      /\ \A t \in Slots \ {s} : report'[t] = report[t]
      /\ report' \in [Slots -> S!Request]
  BY <1>0, OneReport, SentReport DEF S!SendBeat
<1>3. bridge' \in S!Bridge
  BY <1>0, <1>1, BridgeMembers DEF BridgeOf, S!Bridge
<1>4. S!TypeOK'
  BY <1>0, <1>1, <1>2, <1>3 DEF S!TypeOK
<1>5. /\ report'[s].kind = "beat" /\ report'[s].at = "sent" /\ report'[s].waits
      /\ report'[s].life = 0 /\ report'[s].since = 0
      /\ report'[s].plugged = bridge.plugged
  BY <1>2 DEF ReportOf
<1>6. bridge'.misses = bridge.misses /\ bridge'.beat = "waits" /\ bridge'.off = bridge.off
      /\ bridge'.up = bridge.up /\ bridge'.pending = bridge.pending
      /\ bridge'.plugged = bridge.plugged
  BY <1>1 DEF BridgeOf
<1>7. \A t \in Slots : ~(Waits(report[t]) /\ report[t].kind = "beat")
  BY <1>1 DEF StatusInv, ThreadsFit
<1>8. ReportsFit'
  <2>1. bridge.plugged => bridge.off = 0
    BY <1>1 DEF StatusInv, ThreadsFit
  <2>2. /\ report'[s].since <= report'[s].life
        /\ report'[s].waits => report'[s].life <= Slack
        /\ report'[s].plugged => bridge'.off <= report'[s].life
        /\ ~(report'[s].kind = "beat" /\ report'[s].at = "read")
    <3>1. bridge'.off = bridge.off /\ report'[s].plugged = bridge.plugged
      BY <1>5, <1>6
    <3>2. report'[s].plugged => bridge'.off = 0
      BY <2>1, <3>1
    <3>3. QED
      BY <1>5, <3>2, StatusNumbers
  <2>3. ASSUME NEW t \in Slots \ {s}, report[t].at # "free"
        PROVE  /\ report[t].since <= report[t].life
               /\ report[t].waits => report[t].life <= Slack
               /\ report[t].plugged => bridge'.off <= report[t].life
               /\ report[t].kind = "beat" /\ report[t].at = "read" => report[t].full
    BY <1>1, <1>5, <1>6, <2>3 DEF StatusInv, ReportsFit
  <2>4. QED
    BY <1>2, <2>2, <2>3 DEF ReportsFit
<1>9. ThreadsFit'
  <2>0. \A t \in Slots \ {s} : report'[t] = report[t]
    BY <1>2
  <2>1. \A t \in Slots : t = s \/ report'[t] = report[t]
    BY <2>0
  <2>2. Waits(report'[s])
    BY <1>5 DEF Waits
  <2>3. \A t, u \in Slots : Waits(report'[t]) /\ Waits(report'[u])
                            /\ report'[t].kind = report'[u].kind => t = u
    BY <1>5, <1>7, <2>1 DEF StatusInv, ThreadsFit
  <2>4. \A t \in Slots : Waits(report'[t]) =>
            /\ bridge.up
            /\ report'[t].kind = "scan" => bridge.pending > 0
    BY <1>1, <1>5, <2>1 DEF StatusInv, ThreadsFit
  <2>5. QED
    BY <1>1, <1>5, <1>6, <2>2, <2>3, <2>4 DEF StatusInv, ThreadsFit
<1>10. DeviceFits'
  BY <1>1, <1>6 DEF StatusInv, DeviceFits
<1>11. BeatsKeepUp'
  <2>1. SUFFICES ASSUME token # S!None, bridge.misses <= 1
                 PROVE  token.age <= Base + Interval
    <3>1. \A t \in Slots : Waits(report'[t]) /\ report'[t].kind = "beat" => t = s
      BY <1>2, <1>7
    <3>2. Base' = Base
      BY <1>6 DEF Base
    <3>3. token.age \in Nat /\ Base \in Nat => Base + Interval = Base + Interval + 0
      BY StatusNumbers
    <3>4. token # S!None => token.age \in Nat
      BY <1>0, TokenSplit, StatusNumbers
    <3>5. Base \in Nat
      BY StatusNumbers DEF Base
    <3>6. QED
      BY <1>1, <1>5, <1>6, <3>1, <3>2, <3>3, <3>4, <3>5 DEF BeatsKeepUp
  <2>2. Base \in Nat
    BY StatusNumbers DEF Base
  <2>3. QED
    BY <1>0, <1>1, <2>1, <2>2, TokenSplit, StatusNumbers DEF StatusInv, BeatsKeepUp
<1>12. QED
  BY <1>4, <1>8, <1>9, <1>10, <1>11 DEF StatusInv

-----------------------------------------------------------------------------
(* ScannerStatus: what the bridge makes of an answer, and the server of a  *)
(* request.                                                                *)

LEMMA ToldFacts ==
    ASSUME StatusInv, NEW s \in Slots, report[s].at # "free", NEW ok \in BOOLEAN,
           bridge' = S!Told(report[s], ok)
    PROVE  /\ bridge' \in S!Bridge
           /\ bridge'.up = bridge.up /\ bridge'.plugged = bridge.plugged
           /\ bridge'.off = bridge.off /\ bridge'.due = bridge.due
           /\ ~report[s].waits => bridge' = bridge
           /\ report[s].waits /\ report[s].kind = "scan" =>
                  bridge'.beat = bridge.beat /\ bridge'.misses = bridge.misses
           /\ report[s].waits /\ report[s].kind = "beat" =>
                  /\ bridge'.pending = bridge.pending
                  /\ bridge'.beat = "config"
                  /\ ok => bridge'.misses = 0
                  /\ ~ok => bridge'.misses = IF bridge.misses = 0 THEN 1 ELSE 2
<1>0. S!TypeOK
  BY DEF StatusInv
<1>1. CASE ~report[s].waits
  BY <1>0, <1>1 DEF S!Told, S!TypeOK
<1>2. CASE report[s].waits /\ report[s].kind = "scan"
  <2>1. bridge.pending > 0
    BY <1>2 DEF StatusInv, ThreadsFit, Waits
  <2>2. PICK p \in 0..MaxScans :
            bridge' = BridgeOf(bridge.up, bridge.scans, p, bridge.plugged, bridge.due,
                               bridge.beat, bridge.config, bridge.misses, bridge.off)
    <3> DEFINE p == IF ok THEN bridge.pending - 1 ELSE bridge.pending
    <3>1. p \in 0..MaxScans
      BY <1>0, <2>1, BridgeMembers, StatusNumbers
    <3>2. bridge' = [bridge EXCEPT !.pending = p]
      BY <1>2 DEF S!Told
    <3> HIDE DEF p
    <3>3. bridge' = BridgeOf(bridge.up, bridge.scans, p, bridge.plugged, bridge.due,
                             bridge.beat, bridge.config, bridge.misses, bridge.off)
      BY <1>0, <3>2, BridgeSplit DEF BridgeOf
    <3>4. QED
      BY <3>1, <3>3
  <2>3. bridge' \in S!Bridge
    BY <1>0, <2>2, BridgeMembers DEF BridgeOf, S!Bridge
  <2>4. QED
    BY <1>2, <2>2, <2>3 DEF BridgeOf
<1>3. CASE report[s].waits /\ report[s].kind = "beat"
  <2> DEFINE m == IF ok THEN 0 ELSE IF bridge.misses = 0 THEN 1 ELSE 2
  <2>1. m \in 0..2 /\ (~ok => S!Least(bridge.misses + 1, 2) = m)
    BY <1>0, BridgeMembers DEF S!Least
  <2>2. bridge' = [bridge EXCEPT !.beat = "config", !.misses = m]
    BY <1>3, <2>1 DEF S!Told
  <2>3. ok => m = 0
    OBVIOUS
  <2>4. ~ok => m = IF bridge.misses = 0 THEN 1 ELSE 2
    OBVIOUS
  <2> HIDE DEF m
  <2>5. bridge' = BridgeOf(bridge.up, bridge.scans, bridge.pending, bridge.plugged, bridge.due,
                           "config", bridge.config, m, bridge.off)
    BY <1>0, <2>2, BridgeSplit DEF BridgeOf
  <2>6. bridge' \in S!Bridge
    BY <1>0, <2>1, <2>5, BridgeMembers DEF BridgeOf, S!Bridge
  <2>7. /\ bridge'.up = bridge.up /\ bridge'.plugged = bridge.plugged
        /\ bridge'.off = bridge.off /\ bridge'.due = bridge.due
        /\ bridge'.pending = bridge.pending /\ bridge'.beat = "config" /\ bridge'.misses = m
    BY <2>5 DEF BridgeOf
  <2>8. QED
    BY <1>3, <2>3, <2>4, <2>6, <2>7
<1>4. QED
  BY <1>0, <1>1, <1>2, <1>3, ReportMembers

\* The thread that waited for the answer of a request that ends goes on.
LEMMA EndedThreads ==
    ASSUME StatusInv, NEW s \in Slots, report[s].at # "free", NEW ok \in BOOLEAN,
           bridge' = S!Told(report[s], ok),
           ~Waits(report'[s]), \A t \in Slots \ {s} : report'[t] = report[t]
    PROVE  ThreadsFit'
<1>1. \A t \in Slots : Waits(report'[t]) => t # s /\ Waits(report[t]) /\ report'[t] = report[t]
  OBVIOUS
<1>2. \A t \in Slots : Waits(report[t]) /\ t # s => Waits(report'[t])
  OBVIOUS
<1>3. CASE ~report[s].waits
  <2>1. bridge' = bridge
    BY <1>3, ToldFacts
  <2>2. \A t \in Slots : Waits(report[t]) => Waits(report'[t]) /\ report'[t] = report[t]
    BY <1>2, <1>3 DEF Waits
  <2>3. QED
    BY <1>1, <2>1, <2>2 DEF StatusInv, ThreadsFit
<1>4. CASE report[s].waits
  <2>1. Waits(report[s])
    BY <1>4 DEF Waits
  <2>2. \A t \in Slots : Waits(report'[t]) => report[t].kind # report[s].kind
    BY <1>1, <2>1 DEF StatusInv, ThreadsFit
  <2>3. bridge'.up = bridge.up /\ bridge'.plugged = bridge.plugged /\ bridge'.off = bridge.off
    BY ToldFacts
  <2>4. bridge.up
    BY <2>1 DEF StatusInv, ThreadsFit
  <2>5. CASE report[s].kind = "scan"
    <3>1. bridge'.beat = bridge.beat
      BY <1>4, <2>5, ToldFacts
    <3>2. bridge.beat = "waits" =>
              \E t \in Slots : Waits(report'[t]) /\ report'[t].kind = "beat"
      BY <1>2, <2>5 DEF StatusInv, ThreadsFit
    <3>3. QED
      BY <1>1, <2>2, <2>3, <2>4, <2>5, <3>1, <3>2 DEF StatusInv, ThreadsFit
  <2>6. CASE report[s].kind = "beat"
    <3>1. bridge'.beat = "config" /\ bridge'.pending = bridge.pending
      BY <1>4, <2>6, ToldFacts
    <3>2. QED
      BY <1>1, <2>2, <2>3, <2>4, <2>6, <3>1 DEF StatusInv, ThreadsFit
  <2>7. report[s].kind = "scan" \/ report[s].kind = "beat"
    BY ReportMembers DEF StatusInv
  <2>8. QED
    BY <2>5, <2>6, <2>7
<1>5. QED
  BY <1>3, <1>4

\* A token that was just reported, or is as it was, but for one miss more.
LEMMA EndedKeepsUp ==
    ASSUME StatusInv, NEW s \in Slots, report[s].at # "free", NEW ok \in BOOLEAN,
           bridge' = S!Told(report[s], ok),
           ~Waits(report'[s]), \A t \in Slots \ {s} : report'[t] = report[t],
           token' # S!None =>
               \/ token # S!None /\ token'.age = token.age
                  /\ (ok => ~report[s].waits \/ report[s].kind = "scan")
               \/ token'.age \in 0..Life
    PROVE  BeatsKeepUp'
<1>0. S!TypeOK
  BY DEF StatusInv
<1>1. SUFFICES ASSUME token' # S!None, bridge'.misses <= 1
               PROVE  /\ bridge'.beat = "config" => token'.age <= Base'
                      /\ bridge'.beat = "sleeps" => token'.age + bridge'.due <= Base' + Interval
                      /\ \A t \in Slots : Waits(report'[t]) /\ report'[t].kind = "beat" =>
                             token'.age <= Base' + Interval + report'[t].life
  BY DEF BeatsKeepUp
<1>2. Base \in Nat /\ Base' \in Nat /\ Life <= Base' /\ bridge'.due = bridge.due
      /\ bridge.due \in 0..Interval
  BY <1>0, StatusNumbers, ToldFacts, BridgeMembers DEF Base
<1>3. \A t \in Slots : Waits(report'[t]) => t # s /\ Waits(report[t]) /\ report'[t] = report[t]
  OBVIOUS
<1>4. CASE token'.age \in 0..Life
  <2>1. ASSUME NEW t \in Slots, Waits(report'[t])
        PROVE  token'.age <= Base' + Interval + report'[t].life
    BY <1>0, <1>2, <1>3, <1>4, <2>1, ReportMembers, StatusNumbers
  <2>2. token'.age <= Base' /\ token'.age + bridge'.due <= Base' + Interval
    BY <1>2, <1>4, StatusNumbers
  <2>3. QED
    BY <2>1, <2>2
<1>5. CASE token # S!None /\ token'.age = token.age
           /\ (ok => ~report[s].waits \/ report[s].kind = "scan")
  <2>1. CASE ~report[s].waits \/ report[s].kind = "scan"
    <3>1. bridge'.misses = bridge.misses /\ bridge'.beat = bridge.beat
      BY <1>0, <2>1, ToldFacts, ReportMembers
    <3>2. Base' = Base
      BY <3>1 DEF Base
    <3>3. QED
      BY <1>1, <1>2, <1>3, <1>5, <3>1, <3>2 DEF StatusInv, BeatsKeepUp
  <2>2. CASE report[s].waits /\ report[s].kind = "beat"
    <3>1. /\ bridge'.beat = "config"
          /\ bridge'.misses = IF bridge.misses = 0 THEN 1 ELSE 2
      BY <1>5, <2>2, ToldFacts
    <3>2. bridge.misses = 0 /\ Base = Life /\ Base' = Life + Interval + Slack
      BY <1>1, <3>1 DEF Base
    <3>3. token.age <= Base + Interval + report[s].life
      BY <1>5, <2>2, <3>2 DEF StatusInv, BeatsKeepUp, Waits
    <3>4. report[s].life <= Slack
      BY <2>2 DEF StatusInv, ReportsFit
    <3>5. token'.age <= Base'
      BY <1>0, <1>5, <3>2, <3>3, <3>4, ReportMembers, TokenSplit, StatusNumbers
    <3>6. ASSUME NEW t \in Slots, Waits(report'[t]), report'[t].kind = "beat"
          PROVE  FALSE
      BY <1>3, <2>2, <3>6 DEF StatusInv, ThreadsFit, Waits
    <3>7. QED
      BY <3>1, <3>5, <3>6
  <2>3. QED
    BY <1>0, <2>1, <2>2, ReportMembers
<1>6. QED
  BY <1>1, <1>4, <1>5

LEMMA Lose_Status ==
    ASSUME StatusInv, NEW s \in Slots, S!Lose(s)
    PROVE  StatusInv'
<1>0. S!TypeOK
  BY DEF StatusInv
<1>1. /\ report[s].at # "free" /\ bridge' = S!Told(report[s], FALSE)
      /\ UNCHANGED <<token, config, stops, plugs, saves>> /\ misses' \in 0..MaxMisses
  BY <1>0, StatusNumbers DEF S!Lose, S!Fault, S!TypeOK
<1>2. /\ report'[s] = S!Free /\ \A t \in Slots \ {s} : report'[t] = report[t]
      /\ report' \in [Slots -> S!Request]
  BY <1>0, OneReport, FreeReport DEF S!Lose
<1>3. report'[s].at = "free" /\ ~Waits(report'[s])
  BY <1>2, FreeReport DEF Waits
<1>4. bridge' \in S!Bridge /\ bridge'.off = bridge.off
  BY <1>1, ToldFacts
<1>5. S!TypeOK'
  BY <1>0, <1>1, <1>2, <1>4 DEF S!TypeOK
<1>6. ThreadsFit'
  BY <1>1, <1>2, <1>3, EndedThreads
<1>7. BeatsKeepUp'
  BY <1>1, <1>2, <1>3, EndedKeepsUp
<1>8. ReportsFit'
  BY <1>2, <1>3, <1>4 DEF StatusInv, ReportsFit
<1>9. DeviceFits'
  BY <1>1, <1>4 DEF StatusInv, DeviceFits
<1>10. QED
  BY <1>5, <1>6, <1>7, <1>8, <1>9 DEF StatusInv

LEMMA Unawaited ==
    ASSUME NEW q, NEW r, r = [q EXCEPT !.waits = FALSE],
           q = ReportOf(q.kind, q.at, q.scans, q.plugged, q.waits, q.full, q.life, q.since)
    PROVE  r = ReportOf(q.kind, q.at, q.scans, q.plugged, FALSE, q.full, q.life, q.since)
BY DEF ReportOf

LEMMA AfterRead ==
    ASSUME NEW q, NEW r, NEW f, r = [q EXCEPT !.at = "read", !.since = 0, !.full = f],
           q = ReportOf(q.kind, q.at, q.scans, q.plugged, q.waits, q.full, q.life, q.since)
    PROVE  r = ReportOf(q.kind, "read", q.scans, q.plugged, q.waits, f, q.life, 0)
BY DEF ReportOf

LEMMA TimesOut_Status ==
    ASSUME StatusInv, NEW s \in Slots, S!TimesOut(s)
    PROVE  StatusInv'
<1>0. S!TypeOK
  BY DEF StatusInv
<1>1. /\ report[s].at # "free" /\ bridge' = S!Told(report[s], FALSE)
      /\ UNCHANGED <<token, config, stops, plugs, saves>> /\ misses' \in 0..MaxMisses
  BY <1>0, StatusNumbers DEF S!TimesOut, S!Fault, S!TypeOK, S!Used
<1>2. /\ report'[s] = ReportOf(report[s].kind, report[s].at, report[s].scans,
                               report[s].plugged, FALSE, report[s].full,
                               report[s].life, report[s].since)
      /\ \A t \in Slots \ {s} : report'[t] = report[t]
      /\ report' \in [Slots -> S!Request]
  <2> DEFINE r == ReportOf(report[s].kind, report[s].at, report[s].scans,
                           report[s].plugged, FALSE, report[s].full,
                           report[s].life, report[s].since)
  <2>1. r \in S!Request
    BY <1>0, ReportMembers DEF ReportOf, S!Request
  <2>2. [report[s] EXCEPT !.waits = FALSE] = r
    BY <1>0, ReportSplit, Unawaited
  <2>3. report' = [report EXCEPT ![s] = [report[s] EXCEPT !.waits = FALSE]]
    BY <1>0 DEF S!TimesOut, S!TypeOK
  <2>4. report' = [report EXCEPT ![s] = r]
    BY <2>2, <2>3
  <2> HIDE DEF r
  <2>5. report'[s] = r /\ (\A t \in Slots \ {s} : report'[t] = report[t])
        /\ report' \in [Slots -> S!Request]
    BY <1>0, <2>1, <2>4, OneReport
  <2>6. QED
    BY <2>5 DEF r
<1>3. /\ report'[s].kind = report[s].kind /\ report'[s].at = report[s].at
      /\ report'[s].plugged = report[s].plugged /\ ~report'[s].waits
      /\ report'[s].full = report[s].full /\ report'[s].life = report[s].life
      /\ report'[s].since = report[s].since
  BY <1>2 DEF ReportOf
<1>4. ~Waits(report'[s]) /\ \A t \in Slots \ {s} : report'[t] = report[t]
  BY <1>2, <1>3 DEF Waits
<1>5. bridge' \in S!Bridge /\ bridge'.off = bridge.off
  BY <1>1, ToldFacts
<1>6. S!TypeOK'
  BY <1>0, <1>1, <1>2, <1>5 DEF S!TypeOK
<1>7. ThreadsFit'
  BY <1>1, <1>4, EndedThreads
<1>8. BeatsKeepUp'
  BY <1>1, <1>4, EndedKeepsUp
<1>9. ReportsFit'
  BY <1>3, <1>4, <1>5 DEF StatusInv, ReportsFit
<1>10. DeviceFits'
  BY <1>1, <1>5 DEF StatusInv, DeviceFits
<1>11. QED
  BY <1>6, <1>7, <1>8, <1>9, <1>10 DEF StatusInv

LEMMA Read_Status ==
    ASSUME StatusInv, NEW s \in Slots, S!Read(s)
    PROVE  StatusInv'
<1>0. S!TypeOK
  BY DEF StatusInv
<1>1. report[s].at = "sent" /\ UNCHANGED <<config, misses, stops, plugs, saves>>
  BY DEF S!Read, S!Counters
<1>2. CASE token = S!None
  <2>1. bridge' = S!Told(report[s], FALSE) /\ UNCHANGED token
    BY <1>2 DEF S!Read
  <2>2. /\ report'[s] = S!Free /\ \A t \in Slots \ {s} : report'[t] = report[t]
        /\ report' \in [Slots -> S!Request]
    BY <1>0, <1>2, OneReport, FreeReport DEF S!Read
  <2>3. report'[s].at = "free" /\ ~Waits(report'[s])
    BY <2>2, FreeReport DEF Waits
  <2>4. bridge' \in S!Bridge /\ bridge'.off = bridge.off
    BY <1>1, <2>1, ToldFacts
  <2>5. S!TypeOK'
    BY <1>0, <1>1, <2>1, <2>2, <2>4 DEF S!TypeOK
  <2>6. ThreadsFit'
    BY <1>1, <2>1, <2>2, <2>3, EndedThreads
  <2>7. ReportsFit'
    BY <2>2, <2>3, <2>4 DEF StatusInv, ReportsFit
  <2>8. DeviceFits' /\ BeatsKeepUp'
    BY <1>2, <2>1 DEF DeviceFits, BeatsKeepUp
  <2>9. QED
    BY <2>5, <2>6, <2>7, <2>8 DEF StatusInv
<1>3. CASE token # S!None
  <2>1. PICK f \in BOOLEAN : f <=> ~S!Throttled(report[s])
    OBVIOUS
  <2>2. UNCHANGED bridge /\ token' = [token EXCEPT !.prefix = TRUE]
    BY <1>3 DEF S!Read
  <2>3. report' = [report EXCEPT ![s].at = "read", ![s].since = 0,
                                 ![s].full = ~S!Throttled(report[s])]
    BY <1>3 DEF S!Read
  <2>4. report' = [report EXCEPT ![s] = [report[s] EXCEPT !.at = "read", !.since = 0,
                                             !.full = ~S!Throttled(report[s])]]
    BY <1>0, <2>3 DEF S!TypeOK
  <2>5. [report[s] EXCEPT !.at = "read", !.since = 0, !.full = ~S!Throttled(report[s])]
        = ReportOf(report[s].kind, "read", report[s].scans, report[s].plugged,
                   report[s].waits, f, report[s].life, 0)
    <3>1. (~S!Throttled(report[s])) = f
      BY <2>1
    <3>2. [report[s] EXCEPT !.at = "read", !.since = 0, !.full = f]
          = ReportOf(report[s].kind, "read", report[s].scans, report[s].plugged,
                     report[s].waits, f, report[s].life, 0)
      BY <1>0, ReportSplit, AfterRead
    <3>3. QED
      BY <3>1, <3>2
  <2> DEFINE r == ReportOf(report[s].kind, "read", report[s].scans, report[s].plugged,
                           report[s].waits, f, report[s].life, 0)
  <2>6. r \in S!Request
    BY <1>0, ReportMembers, StatusNumbers DEF ReportOf, S!Request
  <2>7. report' = [report EXCEPT ![s] = r]
    BY <2>4, <2>5
  <2>8. /\ r.kind = report[s].kind /\ r.at = "read" /\ r.plugged = report[s].plugged
        /\ r.waits = report[s].waits /\ r.full = f /\ r.life = report[s].life /\ r.since = 0
    BY DEF ReportOf
  <2> HIDE DEF r
  <2>9. report'[s] = r /\ (\A t \in Slots \ {s} : report'[t] = report[t])
        /\ report' \in [Slots -> S!Request]
    BY <1>0, <2>6, <2>7, OneReport
  <2>10. /\ token' = [age |-> token.age, scans |-> token.scans, plugged |-> token.plugged,
                      prefix |-> TRUE]
         /\ token' \in S!Token
    <3>1. token' = [age |-> token.age, scans |-> token.scans, plugged |-> token.plugged,
                    prefix |-> TRUE]
      BY <1>0, <1>3, <2>2, TokenSplit
    <3>2. QED
      BY <1>0, <1>3, <3>1, TokenSplit DEF S!Token
  <2>11. S!TypeOK'
    BY <1>0, <1>1, <2>2, <2>9, <2>10 DEF S!TypeOK
  <2>12. token'.age = token.age /\ token'.plugged = token.plugged
    BY <2>10
  <2>13. report[s].kind = "beat" => f
    BY <2>1 DEF S!Throttled
  <2>14. ReportsFit'
    <3>1. /\ report'[s].since <= report'[s].life
          /\ report'[s].waits => report'[s].life <= Slack
          /\ report'[s].plugged => bridge'.off <= report'[s].life
          /\ report'[s].kind = "beat" => report'[s].full
      BY <1>0, <1>1, <2>2, <2>8, <2>9, <2>13, ReportMembers, StatusNumbers
      DEF StatusInv, ReportsFit
    <3>2. ASSUME NEW t \in Slots \ {s}, report[t].at # "free"
          PROVE  /\ report[t].since <= report[t].life
                 /\ report[t].waits => report[t].life <= Slack
                 /\ report[t].plugged => bridge'.off <= report[t].life
                 /\ report[t].kind = "beat" /\ report[t].at = "read" => report[t].full
      BY <2>2, <3>2 DEF StatusInv, ReportsFit
    <3>3. QED
      BY <2>9, <3>1, <3>2 DEF ReportsFit
  <2>15. \A t \in Slots : /\ Waits(report'[t]) <=> Waits(report[t])
                          /\ report'[t].kind = report[t].kind
                          /\ report'[t].life = report[t].life
    <3>1. \A t \in Slots \ {s} : report'[t] = report[t]
      BY <2>9
    <3>2. Waits(report'[s]) <=> Waits(report[s])
      BY <1>1, <2>8, <2>9 DEF Waits
    <3>3. QED
      BY <2>8, <2>9, <3>1, <3>2
  <2>16. ThreadsFit'
    BY <2>2, <2>15 DEF StatusInv, ThreadsFit
  <2>17. DeviceFits' /\ BeatsKeepUp'
    BY <1>3, <2>2, <2>12, <2>15 DEF StatusInv, DeviceFits, BeatsKeepUp, Base
  <2>18. QED
    BY <2>11, <2>14, <2>16, <2>17 DEF StatusInv
<1>4. QED
  BY <1>2, <1>3

LEMMA Commit_Status ==
    ASSUME StatusInv, NEW s \in Slots, S!Commit(s)
    PROVE  StatusInv'
<1>0. S!TypeOK
  BY DEF StatusInv
<1>1. /\ report[s].at = "read" /\ UNCHANGED <<config, stops, plugs, saves>>
      /\ misses' \in 0..MaxMisses
  <2>1. UNCHANGED misses \/ S!Fault
    BY DEF S!Commit
  <2>2. misses' \in 0..MaxMisses
    BY <1>0, <2>1, StatusNumbers DEF S!Fault, S!TypeOK
  <2>3. QED
    BY <2>2 DEF S!Commit
<1>2. /\ report'[s] = S!Free /\ \A t \in Slots \ {s} : report'[t] = report[t]
      /\ report' \in [Slots -> S!Request]
  BY <1>0, OneReport, FreeReport DEF S!Commit
<1>3. report'[s].at = "free" /\ ~Waits(report'[s])
  BY <1>2, FreeReport DEF Waits
<1>4. PICK ok \in BOOLEAN :
          /\ bridge' = S!Told(report[s], ok)
          /\ token = S!None => token' = S!None
          /\ ok => token # S!None
  BY DEF S!Commit
<1>5. bridge' \in S!Bridge /\ bridge'.off = bridge.off
  BY <1>1, <1>4, ToldFacts
<1>6. token # S!None =>
          /\ token' \in S!Token
          /\ \/ /\ token'.age = token.age /\ token'.plugged = token.plugged
                /\ ~report[s].full
             \/ /\ token'.age = report[s].since /\ token'.plugged = report[s].plugged
  <2>1. SUFFICES ASSUME token # S!None
                 PROVE  /\ token' \in S!Token
                        /\ \/ /\ token'.age = token.age /\ token'.plugged = token.plugged
                              /\ ~report[s].full
                           \/ /\ token'.age = report[s].since
                              /\ token'.plugged = report[s].plugged
    OBVIOUS
  <2>2. CASE UNCHANGED token /\ ~report[s].full
    BY <1>0, <2>1, <2>2, TokenSplit
  <2>3. CASE token' = [token EXCEPT !.scans = report[s].scans] /\ ~report[s].full
    <3>1. token' = [age |-> token.age, scans |-> report[s].scans, plugged |-> token.plugged,
                    prefix |-> token.prefix]
      BY <1>0, <2>1, <2>3, TokenSplit
    <3>2. token' \in S!Token
      BY <1>0, <2>1, <3>1, TokenSplit, ReportMembers DEF S!Token
    <3>3. QED
      BY <2>3, <3>1, <3>2
  <2>4. CASE token' = [token EXCEPT !.age = report[s].since, !.scans = report[s].scans,
                                    !.plugged = report[s].plugged]
    <3>1. token' = [age |-> report[s].since, scans |-> report[s].scans,
                    plugged |-> report[s].plugged, prefix |-> token.prefix]
      BY <1>0, <2>1, <2>4, TokenSplit
    <3>2. report[s].since \in 0..S!AgeCap
      BY <1>0, ReportMembers, StatusNumbers
    <3>3. token' \in S!Token
      BY <1>0, <2>1, <3>1, <3>2, TokenSplit, ReportMembers DEF S!Token
    <3>4. QED
      BY <3>1, <3>3
  <2>5. QED
    BY <2>1, <2>2, <2>3, <2>4 DEF S!Commit, S!Stored
<1>7. S!TypeOK'
  BY <1>0, <1>1, <1>2, <1>4, <1>5, <1>6 DEF S!TypeOK
<1>8. ThreadsFit'
  BY <1>1, <1>2, <1>3, <1>4, EndedThreads
<1>9. ReportsFit'
  BY <1>2, <1>3, <1>5 DEF StatusInv, ReportsFit
<1>10. report[s].since \in 0..Life /\ report[s].since <= report[s].life
       /\ report[s].life \in 0..Life
       /\ (report[s].plugged => bridge.off <= report[s].life)
       /\ (report[s].kind = "beat" => report[s].full)
       /\ report[s].kind \in {"scan", "beat"}
  BY <1>0, <1>1, ReportMembers DEF StatusInv, ReportsFit
<1>11. BeatsKeepUp'
  <2>1. token' # S!None =>
            \/ token # S!None /\ token'.age = token.age
               /\ (ok => ~report[s].waits \/ report[s].kind = "scan")
            \/ token'.age \in 0..Life
    BY <1>4, <1>6, <1>10
  <2>2. report[s].at # "free"
    BY <1>1
  <2>3. QED
    BY <1>2, <1>3, <1>4, <2>1, <2>2, EndedKeepsUp
<1>12. DeviceFits'
  <2>1. SUFFICES ASSUME token # S!None, token' # S!None, token'.plugged
                 PROVE  bridge.off <= token'.age + Life
    BY <1>4, <1>5 DEF DeviceFits
  <2>2. CASE token'.age = token.age /\ token'.plugged = token.plugged
    BY <2>1, <2>2 DEF StatusInv, DeviceFits
  <2>3. CASE token'.age = report[s].since /\ token'.plugged = report[s].plugged
    BY <1>0, <1>10, <2>1, <2>3, BridgeMembers, StatusNumbers
  <2>4. QED
    BY <1>6, <2>1, <2>2, <2>3
<1>13. QED
  BY <1>7, <1>8, <1>9, <1>11, <1>12 DEF StatusInv

LEMMA Settings_Status ==
    ASSUME StatusInv, S!Save \/ S!DeleteToken \/ UNCHANGED statusVars
    PROVE  StatusInv'
<1>0. S!TypeOK
  BY DEF StatusInv
<1>1. /\ UNCHANGED <<bridge, report, misses, stops, plugs>>
      /\ UNCHANGED token \/ token' = S!None
      /\ config' \in Configs /\ saves' \in 0..MaxSaves
  BY <1>0, StatusNumbers DEF S!Save, S!DeleteToken, S!Counters, S!TypeOK, statusVars
<1>2. S!TypeOK'
  BY <1>0, <1>1 DEF S!TypeOK
<1>3. ReportsFit' /\ ThreadsFit'
  BY <1>1 DEF StatusInv, ReportsFit, ThreadsFit
<1>4. DeviceFits' /\ BeatsKeepUp'
  BY <1>1 DEF StatusInv, DeviceFits, BeatsKeepUp, Base
<1>5. QED
  BY <1>2, <1>3, <1>4 DEF StatusInv

LEMMA StatusInvAlways == MCSpec => []StatusInv
<1>1. MCInit => StatusInv
  BY StatusInitially DEF MCInit
<1>2. StatusInv /\ [MCNext]_all => StatusInv'
  <2>1. SUFFICES ASSUME StatusInv, [MCNext]_all PROVE StatusInv'
    OBVIOUS
  <2>2. CASE S!Next
    <3>1. CASE \E s \in Slots : \/ S!SendScan(s) \/ S!SendBeat(s) \/ S!Lose(s)
                                \/ S!TimesOut(s) \/ S!Handles(s)
      BY <2>1, <3>1, SendScan_Status, SendBeat_Status, Lose_Status, TimesOut_Status,
         Read_Status, Commit_Status DEF S!Handles
    <3>2. QED
      BY <2>1, <2>2, <3>1, Tick_Status, BridgeStarts_Status, BridgeStops_Status, Plugs_Status,
         ReadsCode_Status, Refresh_Status, Settings_Status DEF S!Next
  <2>3. CASE UNCHANGED statusVars
    BY <2>1, <2>3, Settings_Status
  <2>4. QED
    BY <2>1, <2>2, <2>3 DEF MCNext, all, statusVars
<1>3. QED
  BY <1>1, <1>2, PTL DEF MCSpec

LEMMA StatusHolds == StatusInv => S!StatusCorrect
<1> SUFFICES ASSUME StatusInv PROVE S!StatusCorrect
  OBVIOUS
<1>0. S!TypeOK
  BY DEF StatusInv
<1>1. S!RunningIsOnline
  <2>1. SUFFICES ASSUME bridge.up, token # S!None, bridge.misses <= 1
                 PROVE  token.age <= OnlineFor
    BY DEF S!RunningIsOnline, S!Online
  <2>2. Base \in Nat /\ Base <= Life + Interval + Slack
    BY StatusNumbers DEF Base
  <2>3. token.age <= Base + Interval + Slack
    <3>1. CASE bridge.beat = "waits"
      <4>1. PICK s \in Slots : Waits(report[s]) /\ report[s].kind = "beat"
        BY <3>1 DEF StatusInv, ThreadsFit
      <4>2. token.age <= Base + Interval + report[s].life
        BY <2>1, <4>1 DEF StatusInv, BeatsKeepUp
      <4>3. report[s].life <= Slack
        BY <4>1 DEF StatusInv, ReportsFit, Waits
      <4>4. QED
        BY <1>0, <2>1, <2>2, <4>2, <4>3, ReportMembers, TokenSplit, StatusNumbers
    <3>2. CASE bridge.beat # "waits"
      BY <1>0, <2>1, <2>2, <3>2, BridgeMembers, TokenSplit, StatusNumbers
      DEF StatusInv, BeatsKeepUp
    <3>3. QED
      BY <3>1, <3>2
  <2>4. Life + 2 * (Interval + Slack) <= OnlineFor
    BY StatusAssumption
  <2>5. QED
    BY <1>0, <2>1, <2>2, <2>3, <2>4, TokenSplit, StatusNumbers
<1>2. S!UnpluggedFades
  <2>1. SUFFICES ASSUME bridge.off > OnlineFor + Life, token # S!None,
                        token.age <= OnlineFor, token.plugged
                 PROVE  FALSE
    BY DEF S!UnpluggedFades, S!Connected, S!Online
  <2>2. bridge.off <= token.age + Life
    BY <2>1 DEF StatusInv, DeviceFits
  <2>3. QED
    BY <1>0, <2>1, <2>2, BridgeMembers, TokenSplit, StatusNumbers
<1>3. QED
  BY <1>0, <1>1, <1>2 DEF S!StatusCorrect

-----------------------------------------------------------------------------
(* ScanKeys: the inductive invariant.                                      *)

AllOwn == \A i \in 1..Len(buffer) : buffer[i].of = typed.n

NoneOwn == \A i \in 1..Len(buffer) : buffer[i].of # typed.n

\* Label l is typed up to its p-th key.
Progress(l, p) ==
    /\ Len(rest) = Len(KeysOf[l]) - p + 1
    /\ \A i \in 1..Len(rest) : rest[i] = KeysOf[l][p + i - 1]
    /\ typed.text = K!TextOf(l)
    /\ plugged
    /\ shift = DraftsOf[l][p].shift
    /\ \A q \in 1..Len(KeysOf[l]) : Len(DraftsOf[l][q].text) <= MaxLength

\* The buffer has the characters of the label so far, or none of it yet and what the first
\* one discards.
Drafted(text) ==
    \/ /\ AllOwn /\ Len(buffer) = Len(text)
       /\ \A i \in 1..Len(buffer) : buffer[i].is = text[i]
       /\ buffer # <<>> => since <= setting.gap
    \/ /\ text = <<>> /\ NoneOwn
       /\ since > setting.gap /\ Len(buffer) < MaxLength

ApartFits == typed.apart => AllOwn \/ (NoneOwn /\ since > setting.gap)

WholeFits ==
    typed.apart /\ typed.whole /\ rest # <<>> =>
        \E l \in Labels : \E p \in 1..Len(KeysOf[l]) :
            Progress(l, p) /\ Drafted(DraftsOf[l][p].text)

NumbersFit ==
    /\ \A i \in 1..Len(buffer) : buffer[i].of <= typed.n
    /\ rest # <<>> => typed.n > 0

KeysInv ==
    K!TypeOK /\ NumbersFit /\ ApartFits /\ WholeFits /\ K!WholeScansCount

-----------------------------------------------------------------------------
(* ScanKeys: labels, keys and records.                                     *)

KeyChars == {Normal[k] : k \in DOMAIN Normal} \cup {Shifted[k] : k \in DOMAIN Shifted}

LEMMA LabelFacts ==
    ASSUME NEW l \in Labels
    PROVE  /\ KeysOf[l] \in Seq(K!Key) /\ KeysOf[l] # <<>>
           /\ Len(KeysOf[l]) \in Nat /\ Len(KeysOf[l]) > 0
           /\ \A p \in 1..Len(KeysOf[l]) :
                  /\ KeysOf[l][p] \in K!Key /\ DraftsOf[l][p] \in Draft
                  /\ DraftsOf[l][p].text \in Seq(KeyChars)
                  /\ DraftsOf[l][p].shift \in BOOLEAN
                  /\ DraftsOf[l][p] = [text |-> DraftsOf[l][p].text, shift |-> DraftsOf[l][p].shift]
           /\ DraftsOf[l][1].text = <<>> /\ ~DraftsOf[l][1].shift
           /\ \A p \in 1..(Len(KeysOf[l]) - 1) :
                  /\ KeysOf[l][p] # "enter"
                  /\ DraftsOf[l][p + 1] = K!After(DraftsOf[l][p], KeysOf[l][p])
           /\ KeysOf[l][Len(KeysOf[l])] = "enter"
           /\ K!TextOf(l) = DraftsOf[l][Len(KeysOf[l])].text /\ K!TextOf(l) # <<>>
           /\ (\A d \in ToSet(DraftsOf[l]) : Len(d.text) <= MaxLength) =>
                  \A p \in 1..Len(KeysOf[l]) : Len(DraftsOf[l][p].text) <= MaxLength
<1> DEFINE ks == KeysOf[l]
           ds == DraftsOf[l]
<1>1. ks \in Seq(K!Key) /\ ds \in Seq(Draft) /\ K!IsTyped(ks, ds)
  BY KeysAssumption
<1> HIDE DEF ks, ds
<1>2. ks # <<>> /\ Len(ds) = Len(ks) /\ Len(ks) \in Nat /\ Len(ks) > 0
  <2>1. ks # <<>> /\ Len(ds) = Len(ks)
    BY <1>1 DEF K!IsTyped
  <2>2. QED
    BY <1>1, <2>1, EmptySeq, LenProperties
<1>3. ASSUME NEW p \in 1..Len(ks)
      PROVE  /\ ks[p] \in K!Key /\ ds[p] \in Draft
             /\ ds[p].text \in Seq(KeyChars) /\ ds[p].shift \in BOOLEAN
             /\ ds[p] = [text |-> ds[p].text, shift |-> ds[p].shift]
  <2>1. ks[p] \in K!Key /\ ds[p] \in Draft
    BY <1>1, <1>2, ElementOfSeq
  <2>2. QED
    BY <2>1 DEF Draft, KeyChars
<1>4. ds[1].text = <<>> /\ ~ds[1].shift
  BY <1>1 DEF K!IsTyped
<1>5. ASSUME NEW p \in 1..(Len(ks) - 1)
      PROVE  ks[p] # "enter" /\ ds[p + 1] = K!After(ds[p], ks[p])
  BY <1>1 DEF K!IsTyped
<1>6. ks[Len(ks)] = "enter" /\ K!TextOf(l) = ds[Len(ks)].text /\ K!TextOf(l) # <<>>
  BY <1>1, <1>2 DEF K!IsTyped, K!TextOf, K!Last, ds
<1>7. ASSUME NEW p \in 1..Len(ks) PROVE ds[p] \in ToSet(ds)
  <2>1. DOMAIN ds = 1..Len(ks)
    BY <1>1, <1>2, LenProperties
  <2>2. QED
    BY <2>1 DEF ToSet
<1>8. QED
  BY <1>1, <1>2, <1>3, <1>4, <1>5, <1>6, <1>7 DEF ks, ds

LEMMA AfterFacts ==
    ASSUME NEW d, d = [text |-> d.text, shift |-> d.shift], NEW key
    PROVE  /\ key = "shift" => K!After(d, key) = [text |-> d.text, shift |-> TRUE]
           /\ key = "unshift" => K!After(d, key) = [text |-> d.text, shift |-> FALSE]
           /\ key = "backspace" =>
                  K!After(d, key) = [text |-> IF d.text = <<>> THEN <<>> ELSE Front(d.text),
                                     shift |-> d.shift]
           /\ key = "escape" => K!After(d, key) = [text |-> <<>>, shift |-> d.shift]
           /\ key \notin K!Modifiers /\ ~K!Decodes(key, d.shift) => K!After(d, key) = d
           /\ key \notin K!Modifiers /\ K!Decodes(key, d.shift) =>
                  K!After(d, key) = [text |-> Append(d.text, K!Decoded(key, d.shift)),
                                     shift |-> d.shift]
<1>1. CASE key = "shift"
  BY <1>1 DEF K!After, K!Modifiers
<1>2. CASE key = "unshift"
  BY <1>2 DEF K!After, K!Modifiers
<1>3. CASE key = "backspace"
  BY <1>3 DEF K!After, K!Modifiers, K!Front, Front
<1>4. CASE key = "escape"
  BY <1>4 DEF K!After, K!Modifiers
<1>5. CASE key \notin K!Modifiers
  <2>1. CASE K!Decodes(key, d.shift)
    BY <1>5, <2>1 DEF K!After, K!Modifiers
  <2>2. CASE ~K!Decodes(key, d.shift)
    BY <1>5, <2>2 DEF K!After, K!Modifiers
  <2>3. QED
    BY <1>5, <2>1, <2>2 DEF K!Modifiers
<1>6. CASE key = "enter"
  BY <1>6 DEF K!Modifiers
<1>7. QED
  BY <1>1, <1>2, <1>3, <1>4, <1>5, <1>6 DEF K!Modifiers

LEMMA KeyTypes ==
    ASSUME K!TypeOK
    PROVE  /\ buffer \in Seq(K!Char) /\ Len(buffer) \in Nat /\ Len(buffer) <= MaxLength
           /\ \A i \in 1..Len(buffer) : buffer[i].is \in KeyChars /\ buffer[i].of \in 1..MaxLabels
           /\ rest \in Seq(K!Key) /\ Len(rest) \in Nat
           /\ shift \in BOOLEAN /\ plugged \in BOOLEAN /\ since \in 0..Cap
           /\ setting \in KeySettings /\ setting.min \in Nat /\ setting.gap \in Nat
           /\ typed = [n |-> typed.n, text |-> typed.text, apart |-> typed.apart,
                       whole |-> typed.whole]
           /\ typed.n \in 0..MaxLabels /\ typed.apart \in BOOLEAN /\ typed.whole \in BOOLEAN
           /\ typed.text \in {<<>>} \cup {K!TextOf(l) : l \in Labels}
           /\ MaxLength \in Nat /\ Cap \in Nat /\ MaxLabels \in Nat /\ MaxLosses \in Nat
           /\ MaxRefreshes \in Nat
<1>1. /\ MaxLength \in Nat /\ Cap \in Nat /\ MaxLabels \in Nat /\ MaxLosses \in Nat
      /\ MaxRefreshes \in Nat
  BY KeysAssumption
<1>2. buffer \in Seq(K!Char) /\ Len(buffer) <= MaxLength /\ rest \in Seq(K!Key)
      /\ shift \in BOOLEAN /\ plugged \in BOOLEAN /\ since \in 0..Cap
      /\ setting \in KeySettings /\ typed \in K!Scan
  BY DEF K!TypeOK
<1>3. Len(buffer) \in Nat /\ Len(rest) \in Nat
  BY <1>2, LenProperties
<1>4. ASSUME NEW i \in 1..Len(buffer)
      PROVE  buffer[i].is \in KeyChars /\ buffer[i].of \in 1..MaxLabels
  <2>1. buffer[i] \in K!Char
    BY <1>2, <1>4, ElementOfSeq
  <2>2. QED
    BY <2>1 DEF K!Char, KeyChars
<1>5. setting.min \in Nat /\ setting.gap \in Nat
  BY <1>2, KeysAssumption
<1>6. /\ typed = [n |-> typed.n, text |-> typed.text, apart |-> typed.apart,
                  whole |-> typed.whole]
      /\ typed.n \in 0..MaxLabels /\ typed.apart \in BOOLEAN /\ typed.whole \in BOOLEAN
      /\ typed.text \in {<<>>} \cup {K!TextOf(l) : l \in Labels}
  BY <1>2 DEF K!Scan
<1>7. QED
  BY <1>1, <1>2, <1>3, <1>4, <1>5, <1>6

LEMMA KeysInitially == K!Init => KeysInv
<1> SUFFICES ASSUME K!Init PROVE KeysInv
  OBVIOUS
<1>1. typed = [n |-> 0, text |-> <<>>, apart |-> FALSE, whole |-> FALSE]
  BY DEF K!Init, K!NoScan
<1>2. typed \in K!Scan
  BY <1>1, KeysAssumption DEF K!Scan
<1>3. buffer = <<>> /\ rest = <<>> /\ Len(buffer) = 0
  BY DEF K!Init
<1>4. buffer \in Seq(K!Char) /\ rest \in Seq(K!Key)
  BY <1>3
<1>5. K!TypeOK
  <2>1. Len(buffer) <= MaxLength /\ since \in 0..Cap /\ setting \in KeySettings
        /\ losses \in 0..MaxLosses /\ refreshes \in 0..MaxRefreshes
    BY <1>3, KeysAssumption DEF K!Init
  <2>2. shift \in BOOLEAN /\ plugged \in BOOLEAN
    BY DEF K!Init
  <2>3. QED
    BY <1>2, <1>4, <2>1, <2>2 DEF K!TypeOK
<1>6. K!WholeScansCount
  BY DEF K!Init, K!NoScan, K!WholeScansCount
<1>7. QED
  BY <1>1, <1>3, <1>5, <1>6 DEF KeysInv, NumbersFit, ApartFits, WholeFits

-----------------------------------------------------------------------------
(* ScanKeys: steps that read no key.                                       *)

\* A scan record that lost a claim at most.
LEMMA TypedStays ==
    ASSUME K!TypeOK, NEW a1 \in BOOLEAN, NEW w1 \in BOOLEAN,
           typed' = [n |-> typed.n, text |-> typed.text, apart |-> a1, whole |-> w1]
    PROVE  typed' \in K!Scan
BY KeyTypes DEF K!Scan

LEMMA TailRest ==
    ASSUME K!TypeOK, rest # <<>>, rest' = Tail(rest)
    PROVE  /\ rest' \in Seq(K!Key) /\ Len(rest') = Len(rest) - 1 /\ Len(rest) \in Nat
           /\ Len(rest) > 0 /\ Head(rest) = rest[1]
           /\ \A i \in 1..Len(rest') : rest'[i] = rest[i + 1]
<1>1. rest \in Seq(K!Key)
  BY KeyTypes
<1>2. Len(rest) \in Nat /\ Len(rest) > 0
  BY <1>1, EmptySeq, LenProperties
<1>3. QED
  BY <1>1, <1>2, HeadTailProperties

LEMMA DraftStays ==
    ASSUME NEW t, Drafted(t), UNCHANGED buffer, typed'.n = typed.n,
           setting'.gap = setting.gap,
           since \in Nat, since' \in Nat, setting.gap \in Nat, since' >= since,
           AllOwn /\ buffer # <<>> => since' = since \/ since' <= setting.gap
    PROVE  Drafted(t)'
<1>1. AllOwn' <=> AllOwn
  BY DEF AllOwn
<1>2. NoneOwn' <=> NoneOwn
  BY DEF NoneOwn
<1>3. CASE /\ AllOwn /\ Len(buffer) = Len(t)
           /\ \A i \in 1..Len(buffer) : buffer[i].is = t[i]
           /\ buffer # <<>> => since <= setting.gap
  <2>1. buffer # <<>> => since' <= setting'.gap
    BY <1>3
  <2>2. QED
    BY <1>1, <1>3, <2>1 DEF Drafted
<1>4. CASE t = <<>> /\ NoneOwn /\ since > setting.gap /\ Len(buffer) < MaxLength
  <2>1. since' > setting'.gap
    BY <1>4
  <2>2. QED
    BY <1>2, <1>4, <2>1 DEF Drafted
<1>5. QED
  BY <1>3, <1>4 DEF Drafted

\* Nothing is read, and if the scan stays apart and whole it is as far as it was.
LEMMA NothingRead ==
    ASSUME KeysInv, K!TypeOK', UNCHANGED last,
           typed'.n = typed.n, typed'.text = typed.text,
           buffer' = buffer \/ buffer' = <<>>,
           rest' # <<>> => rest # <<>>,
           since' >= since,
           typed'.apart => typed.apart /\ setting'.gap = setting.gap,
           typed'.apart /\ typed'.whole /\ rest' # <<>> =>
               /\ typed.whole
               /\ UNCHANGED <<buffer, rest, shift, plugged>>
               /\ AllOwn /\ buffer # <<>> => since' = since \/ since' <= setting.gap
    PROVE  KeysInv'
<1>0. K!TypeOK
  BY DEF KeysInv
<1>1. Len(buffer') = 0 \/ buffer' = buffer
  OBVIOUS
<1>2. since \in Nat /\ since' \in Nat /\ setting.gap \in Nat
  BY <1>0, KeyTypes DEF K!TypeOK
<1>3. NumbersFit'
  BY <1>1 DEF KeysInv, NumbersFit
<1>4. ApartFits'
  BY <1>1, <1>2 DEF KeysInv, ApartFits, AllOwn, NoneOwn
<1>5. K!WholeScansCount'
  BY DEF KeysInv, K!WholeScansCount
<1>6. WholeFits'
  <2>1. SUFFICES ASSUME typed'.apart, typed'.whole, rest' # <<>>
                 PROVE  \E l \in Labels : \E p \in 1..Len(KeysOf[l]) :
                            Progress(l, p)' /\ Drafted(DraftsOf[l][p].text)'
    BY DEF WholeFits
  <2>0. PICK l \in Labels : \E p \in 1..Len(KeysOf[l]) :
            Progress(l, p) /\ Drafted(DraftsOf[l][p].text)
    BY <2>1 DEF KeysInv, WholeFits
  <2>2. PICK p \in 1..Len(KeysOf[l]) : Progress(l, p) /\ Drafted(DraftsOf[l][p].text)
    BY <2>0
  <2>3. Progress(l, p)'
    BY <2>1, <2>2 DEF Progress
  <2>4. UNCHANGED buffer /\ typed'.n = typed.n /\ setting'.gap = setting.gap
    BY <2>1
  <2>5. Drafted(DraftsOf[l][p].text)'
    BY <1>2, <2>1, <2>2, <2>4, DraftStays
  <2>6. QED
    BY <2>3, <2>5
<1>7. QED
  BY <1>3, <1>4, <1>5, <1>6 DEF KeysInv

LEMMA Missed_Keys ==
    ASSUME KeysInv, K!LosesKey \/ K!TypesUnheard
    PROVE  KeysInv'
<1>0. K!TypeOK
  BY DEF KeysInv
<1>1. /\ rest # <<>> /\ rest' = Tail(rest)
      /\ typed' = [typed EXCEPT !.whole = FALSE]
      /\ UNCHANGED <<buffer, shift, since, setting, plugged, last, refreshes>>
      /\ losses' \in 0..MaxLosses
  <2>1. CASE K!LosesKey
    BY <1>0, <2>1, KeyTypes DEF K!LosesKey, K!Missed, K!TypeOK
  <2>2. CASE K!TypesUnheard
    BY <1>0, <2>2 DEF K!TypesUnheard, K!Missed, K!bounds, K!TypeOK
  <2>3. QED
    BY <2>1, <2>2
<1>2. typed' = [n |-> typed.n, text |-> typed.text, apart |-> typed.apart, whole |-> FALSE]
  BY <1>0, <1>1, KeyTypes
<1>3. typed' \in K!Scan
  BY <1>0, <1>2, KeyTypes, TypedStays
<1>4. rest' \in Seq(K!Key)
  BY <1>0, <1>1, TailRest
<1>5. K!TypeOK'
  BY <1>0, <1>1, <1>3, <1>4 DEF K!TypeOK
<1>6. /\ typed'.n = typed.n /\ typed'.text = typed.text /\ typed'.apart = typed.apart
      /\ ~typed'.whole
  BY <1>2
<1>7. since' >= since
  BY <1>0, <1>1, KeyTypes
<1>8. QED
  BY <1>1, <1>5, <1>6, <1>7, NothingRead

LEMMA Tick_Keys ==
    ASSUME KeysInv, K!Tick
    PROVE  KeysInv'
<1>0. K!TypeOK
  BY DEF KeysInv
<1>1. PICK w1 \in BOOLEAN :
          /\ typed' = [typed EXCEPT !.whole = w1]
          /\ w1 <=> typed.whole /\ ~(/\ rest # <<>> /\ since' > setting.gap
                                     /\ \E i \in DOMAIN buffer : buffer[i].of = typed.n)
  BY DEF K!Tick
<1>2. /\ since' = since + 1 /\ since < Cap
      /\ UNCHANGED <<buffer, shift, setting, plugged, rest, last, losses, refreshes>>
  BY DEF K!Tick, K!bounds
<1>3. typed' = [n |-> typed.n, text |-> typed.text, apart |-> typed.apart, whole |-> w1]
  BY <1>0, <1>1, KeyTypes
<1>4. typed' \in K!Scan
  BY <1>0, <1>3, KeyTypes, TypedStays
<1>5. since' \in 0..Cap /\ since' >= since
  BY <1>0, <1>2, KeyTypes
<1>6. K!TypeOK'
  BY <1>0, <1>2, <1>4, <1>5 DEF K!TypeOK
<1>7. /\ typed'.n = typed.n /\ typed'.text = typed.text /\ typed'.apart = typed.apart
      /\ typed'.whole = w1
  BY <1>3
<1>8. w1 /\ rest # <<>> /\ AllOwn /\ buffer # <<>> => since' <= setting.gap
  <2>1. SUFFICES ASSUME w1, rest # <<>>, AllOwn, buffer # <<>> PROVE since' <= setting.gap
    OBVIOUS
  <2>2. buffer \in Seq(K!Char)
    BY <1>0, KeyTypes
  <2>3. 1 \in 1..Len(buffer) /\ 1 \in DOMAIN buffer
    BY <2>1, <2>2, EmptySeq, LenProperties
  <2>4. buffer[1].of = typed.n
    BY <2>1, <2>3 DEF AllOwn
  <2>5. ~(since' > setting.gap)
    BY <1>1, <2>1, <2>3, <2>4
  <2>6. QED
    BY <1>0, <1>5, <2>5, KeyTypes
<1>9. w1 => typed.whole
  BY <1>1
<1>10. QED
  BY <1>2, <1>5, <1>6, <1>7, <1>8, <1>9, NothingRead

LEMMA Unplugs_Keys ==
    ASSUME KeysInv, K!Unplugs
    PROVE  KeysInv'
<1>0. K!TypeOK
  BY DEF KeysInv
<1>1. PICK w1 \in BOOLEAN :
          typed' = [typed EXCEPT !.whole = w1] /\ (w1 <=> typed.whole /\ rest = <<>>)
  BY DEF K!Unplugs
<1>2. /\ buffer' = <<>> /\ ~shift' /\ ~plugged' /\ losses' \in 0..MaxLosses
      /\ shift' \in BOOLEAN /\ plugged' \in BOOLEAN
      /\ UNCHANGED <<since, setting, rest, last, refreshes>>
  <2>1. losses' \in 0..MaxLosses
    BY <1>0, KeyTypes DEF K!Unplugs, K!TypeOK
  <2>2. QED
    BY <2>1 DEF K!Unplugs
<1>3. typed' = [n |-> typed.n, text |-> typed.text, apart |-> typed.apart, whole |-> w1]
  BY <1>0, <1>1, KeyTypes
<1>4. typed' \in K!Scan
  BY <1>0, <1>3, KeyTypes, TypedStays
<1>5. buffer' \in Seq(K!Char) /\ Len(buffer') <= MaxLength
  BY <1>0, <1>2, KeyTypes
<1>6. K!TypeOK'
  BY <1>0, <1>2, <1>4, <1>5 DEF K!TypeOK
<1>7. /\ typed'.n = typed.n /\ typed'.text = typed.text /\ typed'.apart = typed.apart
      /\ typed'.whole => rest = <<>>
  BY <1>1, <1>3
<1>8. since' >= since
  BY <1>0, <1>2, KeyTypes
<1>9. QED
  BY <1>2, <1>6, <1>7, <1>8, NothingRead

LEMMA Replugs_Keys ==
    ASSUME KeysInv, K!Replugs
    PROVE  KeysInv'
<1>0. K!TypeOK
  BY DEF KeysInv
<1>1. /\ ~plugged /\ plugged' \in BOOLEAN
      /\ UNCHANGED <<buffer, shift, since, setting, rest, typed, last, losses, refreshes>>
  BY DEF K!Replugs, K!bounds
<1>2. K!TypeOK'
  BY <1>0, <1>1 DEF K!TypeOK
<1>3. since' >= since
  BY <1>0, <1>1, KeyTypes
<1>4. ~(typed.apart /\ typed.whole /\ rest # <<>>)
  BY <1>1 DEF KeysInv, WholeFits, Progress
<1>5. QED
  BY <1>1, <1>2, <1>3, <1>4, NothingRead

LEMMA Refresh_Keys ==
    ASSUME KeysInv, K!Refresh
    PROVE  KeysInv'
<1>0. K!TypeOK
  BY DEF KeysInv
<1>1. PICK a1 \in BOOLEAN, w1 \in BOOLEAN :
          /\ typed' = [typed EXCEPT !.apart = a1, !.whole = w1]
          /\ a1 <=> typed.apart /\ setting'.gap = setting.gap
          /\ w1 <=> typed.whole /\ setting'.gap = setting.gap
  BY DEF K!Refresh
<1>2. /\ setting' \in KeySettings /\ refreshes' \in 0..MaxRefreshes
      /\ UNCHANGED <<buffer, shift, since, plugged, rest, last, losses>>
  BY <1>0, KeyTypes DEF K!Refresh, K!TypeOK
<1>3. typed' = [n |-> typed.n, text |-> typed.text, apart |-> a1, whole |-> w1]
  BY <1>0, <1>1, KeyTypes
<1>4. typed' \in K!Scan
  BY <1>0, <1>3, TypedStays
<1>5. K!TypeOK'
  BY <1>0, <1>2, <1>4 DEF K!TypeOK
<1>6. /\ typed'.n = typed.n /\ typed'.text = typed.text
      /\ typed'.apart => typed.apart /\ setting'.gap = setting.gap
      /\ typed'.whole => typed.whole
  BY <1>1, <1>3
<1>7. since' >= since
  BY <1>0, <1>2, KeyTypes
<1>8. QED
  BY <1>2, <1>5, <1>6, <1>7, NothingRead

LEMMA Starts_Keys ==
    ASSUME KeysInv, NEW l \in Labels, K!StartsScan(l)
    PROVE  KeysInv'
<1>0. K!TypeOK
  BY DEF KeysInv
<1>1. PICK a1 \in BOOLEAN, w1 \in BOOLEAN :
          /\ typed' = [n |-> typed.n + 1, text |-> K!TextOf(l), apart |-> a1, whole |-> w1]
          /\ a1 <=> \/ buffer = <<>>
                    \/ since > setting.gap /\ Len(buffer) < MaxLength
          /\ w1 <=> /\ plugged /\ ~shift
                    /\ \A d \in K!ToSet(DraftsOf[l]) : Len(d.text) <= MaxLength
  BY DEF K!StartsScan
<1>2. /\ rest = <<>> /\ typed.n < MaxLabels /\ rest' = KeysOf[l]
      /\ UNCHANGED <<buffer, shift, since, setting, plugged, last, losses, refreshes>>
  BY DEF K!StartsScan, K!bounds
<1>3. typed' \in K!Scan
  BY <1>0, <1>1, <1>2, KeyTypes DEF K!Scan
<1>4. K!TypeOK'
  BY <1>0, <1>2, <1>3, LabelFacts DEF K!TypeOK
<1>5. /\ typed'.n = typed.n + 1 /\ typed'.text = K!TextOf(l) /\ typed'.apart = a1
      /\ typed'.whole = w1 /\ typed'.n > 0
  BY <1>0, <1>1, KeyTypes
<1>6. \A i \in 1..Len(buffer) : buffer[i].of <= typed'.n /\ buffer[i].of # typed'.n
  BY <1>0, <1>5, KeyTypes DEF KeysInv, NumbersFit
<1>7. NumbersFit'
  BY <1>2, <1>5, <1>6 DEF NumbersFit
<1>8. a1 => \/ buffer = <<>> /\ Len(buffer) = 0
            \/ since > setting.gap /\ Len(buffer) < MaxLength
  BY <1>1
<1>9. ApartFits'
  BY <1>2, <1>5, <1>6, <1>8 DEF ApartFits, AllOwn, NoneOwn
<1>10. K!WholeScansCount'
  BY <1>2 DEF KeysInv, K!WholeScansCount
<1>11. WholeFits'
  <2>1. SUFFICES ASSUME a1, w1
                 PROVE  1 \in 1..Len(KeysOf[l]) /\ Progress(l, 1)'
                        /\ Drafted(DraftsOf[l][1].text)'
    BY <1>5 DEF WholeFits
  <2>2. /\ 1 \in 1..Len(KeysOf[l]) /\ Len(KeysOf[l]) \in Nat
        /\ DraftsOf[l][1].text = <<>> /\ ~DraftsOf[l][1].shift
        /\ DraftsOf[l][1].shift \in BOOLEAN
    <3>1. Len(KeysOf[l]) \in Nat /\ Len(KeysOf[l]) > 0
          /\ DraftsOf[l][1].text = <<>> /\ ~DraftsOf[l][1].shift
      BY LabelFacts
    <3>2. 1 \in 1..Len(KeysOf[l])
      BY <3>1
    <3>3. DraftsOf[l][1].shift \in BOOLEAN
      BY <3>2, LabelFacts
    <3>4. QED
      BY <3>1, <3>2, <3>3
  <2>3. plugged /\ ~shift /\ \A d \in ToSet(DraftsOf[l]) : Len(d.text) <= MaxLength
    BY <1>1, <2>1 DEF K!ToSet, ToSet
  <2>4. \A q \in 1..Len(KeysOf[l]) : Len(DraftsOf[l][q].text) <= MaxLength
    BY <2>3, LabelFacts
  <2>5. Progress(l, 1)'
    <3>1. shift' = DraftsOf[l][1].shift
      BY <1>0, <1>2, <2>2, <2>3, KeyTypes
    <3>2. Len(rest') = Len(KeysOf[l]) - 1 + 1
      BY <1>2, <2>2
    <3>3. \A i \in 1..Len(rest') : rest'[i] = KeysOf[l][1 + i - 1]
      BY <1>2, <2>2
    <3>4. QED
      BY <1>2, <1>5, <2>3, <2>4, <3>1, <3>2, <3>3 DEF Progress
  <2>6. Drafted(DraftsOf[l][1].text)'
    <3>1. CASE buffer = <<>> /\ Len(buffer) = 0
      BY <1>2, <2>2, <3>1 DEF Drafted, AllOwn
    <3>2. CASE since > setting.gap /\ Len(buffer) < MaxLength
      BY <1>2, <1>6, <2>2, <3>2 DEF Drafted, NoneOwn
    <3>3. QED
      BY <1>8, <2>1, <3>1, <3>2
  <2>7. QED
    BY <2>2, <2>5, <2>6
<1>12. QED
  BY <1>4, <1>7, <1>9, <1>10, <1>11 DEF KeysInv

-----------------------------------------------------------------------------
(* ScanKeys: the keys that are read.                                       *)

LEMMA KeyOfLabel ==
    ASSUME KeysInv, NEW l \in Labels, NEW p \in 1..Len(KeysOf[l]), Progress(l, p),
           NEW key, K!Reads(key)
    PROVE  /\ key = KeysOf[l][p]
           /\ key = "enter" => p = Len(KeysOf[l])
           /\ key # "enter" =>
                  /\ p + 1 \in 1..Len(KeysOf[l])
                  /\ DraftsOf[l][p + 1] = K!After(DraftsOf[l][p], key)
           /\ Len(rest') = Len(KeysOf[l]) - (p + 1) + 1
           /\ \A i \in 1..Len(rest') : rest'[i] = KeysOf[l][p + 1 + i - 1]
<1>0. K!TypeOK
  BY DEF KeysInv
<1>1. rest # <<>> /\ Head(rest) = key /\ rest' = Tail(rest)
  BY DEF K!Reads
<1>2. /\ Len(rest') = Len(rest) - 1 /\ Len(rest) \in Nat
      /\ Len(rest) > 0 /\ Head(rest) = rest[1]
      /\ \A i \in 1..Len(rest') : rest'[i] = rest[i + 1]
  BY <1>0, <1>1, TailRest
<1>3. Len(KeysOf[l]) \in Nat
  BY LabelFacts
<1>4. /\ Len(rest) = Len(KeysOf[l]) - p + 1
      /\ \A i \in 1..Len(rest) : rest[i] = KeysOf[l][p + i - 1]
  BY DEF Progress
<1>5. key = KeysOf[l][p]
  <2>1. 1 \in 1..Len(rest) /\ p + 1 - 1 = p
    BY <1>2
  <2>2. QED
    BY <1>1, <1>2, <1>4, <2>1
<1>6. ASSUME p # Len(KeysOf[l])
      PROVE  /\ p \in 1..(Len(KeysOf[l]) - 1) /\ p + 1 \in 1..Len(KeysOf[l])
             /\ key # "enter" /\ DraftsOf[l][p + 1] = K!After(DraftsOf[l][p], key)
  <2>1. p \in 1..(Len(KeysOf[l]) - 1) /\ p + 1 \in 1..Len(KeysOf[l])
    BY <1>3, <1>6
  <2>2. QED
    BY <1>5, <2>1, LabelFacts
<1>7. p = Len(KeysOf[l]) => key = "enter"
  BY <1>5, LabelFacts
<1>8. Len(rest') = Len(KeysOf[l]) - (p + 1) + 1
  BY <1>2, <1>3, <1>4
<1>9. ASSUME NEW i \in 1..Len(rest')
      PROVE  rest'[i] = KeysOf[l][p + 1 + i - 1]
  <2>1. i + 1 \in 1..Len(rest) /\ p + (i + 1) - 1 = p + 1 + i - 1
    BY <1>2, <1>3, <1>4
  <2>2. rest'[i] = rest[i + 1]
    BY <1>2
  <2>3. QED
    BY <1>4, <2>1, <2>2
<1>10. QED
  BY <1>5, <1>6, <1>7, <1>8, <1>9

\* What a key makes of the buffer is what it makes of the draft of the label.
LEMMA ReadsOn ==
    ASSUME KeysInv, K!TypeOK', NumbersFit', ApartFits', UNCHANGED <<typed, last>>,
           NEW key, K!Reads(key), key # "enter",
           typed.apart => \A d \in Draft :
               shift = d.shift /\ Drafted(d.text) /\ Len(K!After(d, key).text) <= MaxLength =>
                   shift' = K!After(d, key).shift /\ Drafted(K!After(d, key).text)'
    PROVE  KeysInv'
<1>1. K!WholeScansCount'
  BY DEF KeysInv, K!WholeScansCount
<1>2. WholeFits'
  <2>1. SUFFICES ASSUME typed.apart, typed.whole
                 PROVE  \E l \in Labels : \E p \in 1..Len(KeysOf[l]) :
                            Progress(l, p)' /\ Drafted(DraftsOf[l][p].text)'
    BY DEF WholeFits
  <2>2. rest # <<>> /\ UNCHANGED plugged
    BY DEF K!Reads
  <2>3. PICK l \in Labels : \E p \in 1..Len(KeysOf[l]) :
            Progress(l, p) /\ Drafted(DraftsOf[l][p].text)
    BY <2>1, <2>2 DEF KeysInv, WholeFits
  <2>4. PICK p \in 1..Len(KeysOf[l]) : Progress(l, p) /\ Drafted(DraftsOf[l][p].text)
    BY <2>3
  <2>5. /\ p + 1 \in 1..Len(KeysOf[l])
        /\ DraftsOf[l][p + 1] = K!After(DraftsOf[l][p], key)
        /\ Len(rest') = Len(KeysOf[l]) - (p + 1) + 1
        /\ \A i \in 1..Len(rest') : rest'[i] = KeysOf[l][p + 1 + i - 1]
    <3>1. Progress(l, p)
      BY <2>4
    <3>2. /\ p + 1 \in 1..Len(KeysOf[l])
          /\ DraftsOf[l][p + 1] = K!After(DraftsOf[l][p], key)
      BY <3>1, KeyOfLabel
    <3>3. Len(rest') = Len(KeysOf[l]) - (p + 1) + 1
      BY <3>1, KeyOfLabel
    <3>4. \A i \in 1..Len(rest') : rest'[i] = KeysOf[l][p + 1 + i - 1]
      BY <3>1, KeyOfLabel
    <3>5. QED
      BY <3>2, <3>3, <3>4
  <2>6. DraftsOf[l][p] \in Draft
    BY LabelFacts
  <2>7. Len(DraftsOf[l][p + 1].text) <= MaxLength /\ shift = DraftsOf[l][p].shift
    BY <2>4, <2>5 DEF Progress
  <2>8. shift' = DraftsOf[l][p + 1].shift /\ Drafted(DraftsOf[l][p + 1].text)'
    BY <2>1, <2>4, <2>5, <2>6, <2>7
  <2>9. Progress(l, p + 1)'
    BY <2>2, <2>4, <2>5, <2>8 DEF Progress
  <2>10. QED
    BY <2>5, <2>8, <2>9
<1>3. QED
  BY <1>1, <1>2 DEF KeysInv

LEMMA DraftForm ==
    ASSUME NEW d \in Draft
    PROVE  /\ d = [text |-> d.text, shift |-> d.shift]
           /\ d.text \in Seq(KeyChars) /\ d.shift \in BOOLEAN
BY DEF Draft, KeyChars

\* The parts of the type that reading leaves alone.
LEMMA ReadTypes ==
    ASSUME K!TypeOK, NEW key, K!Reads(key), UNCHANGED typed,
           buffer' \in Seq(K!Char), Len(buffer') <= MaxLength, shift' \in BOOLEAN,
           since' \in 0..Cap
    PROVE  K!TypeOK' /\ (rest' # <<>> => rest # <<>>)
<1>1. rest # <<>> /\ rest' = Tail(rest) /\ UNCHANGED <<setting, plugged, losses, refreshes>>
  BY DEF K!Reads, K!bounds
<1>2. rest' \in Seq(K!Key)
  BY <1>1, TailRest
<1>3. QED
  BY <1>1, <1>2 DEF K!TypeOK

LEMMA ReadShift_Keys ==
    ASSUME KeysInv, K!ReadShift
    PROVE  KeysInv'
<1>0. K!TypeOK
  BY DEF KeysInv
<1>1. PICK key \in {"shift", "unshift"} :
          /\ K!Reads(key) /\ UNCHANGED <<buffer, since, typed, last>>
          /\ key = "shift" => shift' = TRUE
          /\ key = "unshift" => shift' = FALSE
  BY DEF K!ReadShift
<1>2. UNCHANGED setting
  BY <1>1 DEF K!Reads
<1>3. shift' \in BOOLEAN
  BY <1>1
<1>4. K!TypeOK' /\ (rest' # <<>> => rest # <<>>)
  <2>1. buffer' \in Seq(K!Char) /\ Len(buffer') <= MaxLength /\ since' \in 0..Cap
    BY <1>0, <1>1, KeyTypes
  <2>2. QED
    BY <1>0, <1>1, <1>3, <2>1, ReadTypes
<1>5. NumbersFit' /\ ApartFits'
  BY <1>1, <1>2, <1>4 DEF KeysInv, NumbersFit, ApartFits, AllOwn, NoneOwn
<1>6. ASSUME NEW d \in Draft, Drafted(d.text)
      PROVE  shift' = K!After(d, key).shift /\ Drafted(K!After(d, key).text)'
  <2>1. d = [text |-> d.text, shift |-> d.shift]
    BY DraftForm
  <2>2. K!After(d, key).text = d.text /\ K!After(d, key).shift = shift'
    <3>1. CASE key = "shift"
      <4>1. K!After(d, key) = [text |-> d.text, shift |-> TRUE] /\ shift' = TRUE
        BY <1>1, <2>1, <3>1, AfterFacts
      <4>2. QED
        BY <4>1
    <3>2. CASE key = "unshift"
      <4>1. K!After(d, key) = [text |-> d.text, shift |-> FALSE] /\ shift' = FALSE
        BY <1>1, <2>1, <3>2, AfterFacts
      <4>2. shift' = FALSE
        BY <4>1
      <4>3. K!After(d, key).text = d.text /\ K!After(d, key).shift = FALSE
        BY <4>1
      <4>4. QED
        BY <4>2, <4>3
    <3>3. QED
      BY <1>1, <3>1, <3>2
  <2>3. since \in Nat /\ setting.gap \in Nat
    BY <1>0, KeyTypes
  <2>4. Drafted(d.text)'
    BY <1>1, <1>2, <1>6, <2>3, DraftStays
  <2>5. QED
    BY <2>2, <2>4
<1>7. key # "enter"
  BY <1>1
<1>8. QED
  BY <1>1, <1>4, <1>5, <1>6, <1>7, ReadsOn

LEMMA ReadEscape_Keys ==
    ASSUME KeysInv, K!ReadEscape
    PROVE  KeysInv'
<1>0. K!TypeOK
  BY DEF KeysInv
<1>1. K!Reads("escape") /\ buffer' = <<>> /\ UNCHANGED <<shift, since, typed, last>>
  BY DEF K!ReadEscape
<1>2. UNCHANGED setting
  BY <1>1 DEF K!Reads
<1>3. K!TypeOK' /\ (rest' # <<>> => rest # <<>>)
  <2>1. buffer' \in Seq(K!Char) /\ Len(buffer') <= MaxLength /\ since' \in 0..Cap
        /\ shift' \in BOOLEAN
    BY <1>0, <1>1, KeyTypes
  <2>2. QED
    BY <1>0, <1>1, <2>1, ReadTypes
<1>4. Len(buffer') = 0
  BY <1>1
<1>5. NumbersFit' /\ ApartFits'
  BY <1>1, <1>3, <1>4 DEF KeysInv, NumbersFit, ApartFits, AllOwn, NoneOwn
<1>6. ASSUME NEW d \in Draft, shift = d.shift
      PROVE  shift' = K!After(d, "escape").shift /\ Drafted(K!After(d, "escape").text)'
  <2>1. d = [text |-> d.text, shift |-> d.shift]
    BY DraftForm
  <2>2. K!After(d, "escape").text = <<>> /\ K!After(d, "escape").shift = d.shift
    BY <2>1, AfterFacts
  <2>3. AllOwn'
    BY <1>4 DEF AllOwn
  <2>4. Drafted(<<>>)'
    BY <1>1, <1>4, <2>3 DEF Drafted
  <2>5. QED
    BY <1>1, <1>6, <2>2, <2>4
<1>7. QED
  BY <1>1, <1>3, <1>5, <1>6, ReadsOn

\* The buffer without its last character.
LEMMA FrontFacts ==
    ASSUME NEW C, NEW q \in Seq(C), q # <<>>
    PROVE  /\ Front(q) \in Seq(C) /\ Len(q) \in Nat /\ Len(q) > 0
           /\ Len(Front(q)) = Len(q) - 1
           /\ \A i \in 1..(Len(q) - 1) : Front(q)[i] = q[i]
<1>1. Len(q) \in Nat /\ Len(q) > 0
  BY EmptySeq, LenProperties
<1>2. Front(q) = SubSeq(q, 1, Len(q) - 1)
  BY DEF Front
<1> DEFINE m == Len(q) - 1
<1>3. m \in Int /\ 1 \in Int /\ m >= 0
  BY <1>1
<1>4. \A i \in 1..m : q[i] \in C
  BY <1>1, ElementOfSeq
<1> HIDE DEF m
<1>5. /\ SubSeq(q, 1, m) \in Seq(C)
      /\ Len(SubSeq(q, 1, m)) = IF 1 <= m THEN m - 1 + 1 ELSE 0
      /\ \A i \in 1..(m - 1 + 1) : SubSeq(q, 1, m)[i] = q[1 + i - 1]
  BY <1>3, <1>4, SubSeqProperties
<1>6. /\ Len(SubSeq(q, 1, m)) = m
      /\ \A i \in 1..m : SubSeq(q, 1, m)[i] = q[i]
  BY <1>3, <1>5
<1>7. QED
  BY <1>1, <1>2, <1>5, <1>6 DEF m

LEMMA ReadBackspace_Keys ==
    ASSUME KeysInv, K!ReadBackspace
    PROVE  KeysInv'
<1>0. K!TypeOK
  BY DEF KeysInv
<1>1. /\ K!Reads("backspace") /\ UNCHANGED <<shift, since, typed, last>>
      /\ buffer = <<>> => buffer' = <<>>
      /\ buffer # <<>> => buffer' = Front(buffer)
  BY DEF K!ReadBackspace, K!Front, Front
<1>2. UNCHANGED setting
  BY <1>1 DEF K!Reads
<1>3. /\ buffer \in Seq(K!Char) /\ Len(buffer) \in Nat /\ Len(buffer) <= MaxLength
      /\ MaxLength \in Nat /\ since \in 0..Cap /\ shift \in BOOLEAN
  BY <1>0, KeyTypes
<1>4. /\ buffer' \in Seq(K!Char)
      /\ Len(buffer') = IF Len(buffer) = 0 THEN 0 ELSE Len(buffer) - 1
      /\ \A i \in 1..Len(buffer') : i \in 1..Len(buffer) /\ buffer'[i] = buffer[i]
      /\ buffer' # <<>> => buffer # <<>>
  <2>1. CASE buffer = <<>>
    BY <1>1, <1>3, <2>1
  <2>2. CASE buffer # <<>>
    BY <1>1, <1>3, <2>2, FrontFacts
  <2>3. QED
    BY <2>1, <2>2
<1>5. K!TypeOK' /\ (rest' # <<>> => rest # <<>>)
  <2>1. Len(buffer') <= MaxLength /\ since' \in 0..Cap /\ shift' \in BOOLEAN
    BY <1>1, <1>3, <1>4
  <2>2. QED
    BY <1>0, <1>1, <1>4, <2>1, ReadTypes
<1>6. NumbersFit' /\ ApartFits'
  BY <1>1, <1>2, <1>4, <1>5 DEF KeysInv, NumbersFit, ApartFits, AllOwn, NoneOwn
<1>7. ASSUME NEW d \in Draft, shift = d.shift, Drafted(d.text)
      PROVE  shift' = K!After(d, "backspace").shift
             /\ Drafted(K!After(d, "backspace").text)'
  <2>1. d = [text |-> d.text, shift |-> d.shift] /\ d.text \in Seq(KeyChars)
    BY DraftForm
  <2> DEFINE t == IF d.text = <<>> THEN <<>> ELSE Front(d.text)
  <2>2. K!After(d, "backspace").text = t /\ K!After(d, "backspace").shift = d.shift
    BY <2>1, AfterFacts
  <2>3. d.text = <<>> => t = <<>> /\ Len(t) = 0 /\ Len(d.text) = 0
    OBVIOUS
  <2>4. d.text # <<>> => /\ Len(t) = Len(d.text) - 1 /\ Len(d.text) \in Nat /\ Len(d.text) > 0
                         /\ \A i \in 1..(Len(d.text) - 1) : t[i] = d.text[i]
    BY <2>1, FrontFacts
  <2> HIDE DEF t
  <2>5. CASE /\ AllOwn /\ Len(buffer) = Len(d.text)
             /\ \A i \in 1..Len(buffer) : buffer[i].is = d.text[i]
             /\ buffer # <<>> => since <= setting.gap
    <3>1. AllOwn'
      BY <1>1, <1>4, <2>5 DEF AllOwn
    <3>2. Len(buffer') = Len(t)
      BY <1>4, <2>3, <2>4, <2>5
    <3>3. \A i \in 1..Len(buffer') : buffer'[i].is = t[i]
      BY <1>3, <1>4, <2>3, <2>4, <2>5
    <3>4. buffer' # <<>> => since' <= setting'.gap
      BY <1>1, <1>2, <1>4, <2>5
    <3>5. Drafted(t)'
      BY <3>1, <3>2, <3>3, <3>4 DEF Drafted
    <3>6. QED
      BY <1>1, <1>7, <2>2, <3>5
  <2>6. CASE d.text = <<>> /\ NoneOwn /\ since > setting.gap /\ Len(buffer) < MaxLength
    <3>1. NoneOwn'
      BY <1>1, <1>4, <2>6 DEF NoneOwn
    <3>2. Len(buffer') < MaxLength
      BY <1>3, <1>4, <2>6
    <3>3. Drafted(t)'
      BY <1>1, <1>2, <2>3, <2>6, <3>1, <3>2 DEF Drafted
    <3>4. QED
      BY <1>1, <1>7, <2>2, <3>3
  <2>7. QED
    BY <1>7, <2>5, <2>6 DEF Drafted
<1>8. QED
  BY <1>1, <1>5, <1>6, <1>7, ReadsOn

LEMMA DecodedIn ==
    ASSUME NEW key, NEW down, K!Decodes(key, down)
    PROVE  K!Decoded(key, down) \in KeyChars
<1>1. CASE down /\ key \in DOMAIN Shifted
  BY <1>1 DEF K!Decoded, KeyChars
<1>2. CASE ~(down /\ key \in DOMAIN Shifted)
  <2>1. key \in DOMAIN Normal /\ K!Decoded(key, down) = Normal[key]
    BY <1>2 DEF K!Decoded, K!Decodes
  <2>2. QED
    BY <2>1 DEF KeyChars
<1>3. QED
  BY <1>1, <1>2

LEMMA CharIn ==
    ASSUME NEW x \in KeyChars, NEW n \in 1..MaxLabels
    PROVE  [is |-> x, of |-> n] \in K!Char
BY DEF K!Char, KeyChars

\* A sequence with one more member.
LEMMA AppendFacts ==
    ASSUME NEW C, NEW q \in Seq(C), NEW e \in C
    PROVE  /\ Append(q, e) \in Seq(C) /\ Len(q) \in Nat
           /\ Len(Append(q, e)) = Len(q) + 1
           /\ \A i \in 1..Len(q) : Append(q, e)[i] = q[i]
           /\ Append(q, e)[Len(q) + 1] = e
<1>1. Len(q) \in Nat
  BY LenProperties
<1>2. QED
  BY <1>1, AppendProperties

\* No character of the key is kept.
LEMMA ReadNothing_Keys ==
    ASSUME KeysInv, NEW key, K!ReadChar(key),
           ~(K!Decodes(key, shift) /\ Len(buffer) < MaxLength)
    PROVE  KeysInv'
<1>0. K!TypeOK
  BY DEF KeysInv
<1>1. /\ K!Reads(key) /\ key \notin K!Modifiers /\ key # "enter"
      /\ UNCHANGED <<buffer, since, shift, typed, last>>
  BY DEF K!ReadChar, K!Modifiers
<1>2. UNCHANGED setting
  BY <1>1 DEF K!Reads
<1>3. /\ buffer \in Seq(K!Char) /\ Len(buffer) \in Nat /\ Len(buffer) <= MaxLength
      /\ MaxLength \in Nat /\ since \in Nat /\ since \in 0..Cap /\ shift \in BOOLEAN
      /\ setting.gap \in Nat
  BY <1>0, KeyTypes
<1>4. K!TypeOK' /\ (rest' # <<>> => rest # <<>>)
  BY <1>0, <1>1, <1>3, ReadTypes
<1>5. NumbersFit' /\ ApartFits'
  BY <1>1, <1>2, <1>4 DEF KeysInv, NumbersFit, ApartFits, AllOwn, NoneOwn
<1>6. ASSUME NEW d \in Draft, shift = d.shift, Drafted(d.text),
             Len(K!After(d, key).text) <= MaxLength
      PROVE  shift' = K!After(d, key).shift /\ Drafted(K!After(d, key).text)'
  <2>1. d = [text |-> d.text, shift |-> d.shift] /\ d.text \in Seq(KeyChars)
    BY DraftForm
  <2>2. ~K!Decodes(key, shift)
    <3>1. SUFFICES ASSUME K!Decodes(key, shift), Len(buffer) >= MaxLength PROVE FALSE
      BY <1>3
    <3>2. K!Decodes(key, d.shift)
      BY <1>6, <3>1
    <3> DEFINE t == Append(d.text, K!Decoded(key, d.shift))
    <3>3. K!After(d, key) = [text |-> t, shift |-> d.shift]
      BY <1>1, <2>1, <3>2, AfterFacts
    <3>4. Len(t) = Len(d.text) + 1 /\ Len(d.text) \in Nat
      BY <2>1, <3>2, DecodedIn, AppendFacts
    <3> HIDE DEF t
    <3>5. Len(d.text) < MaxLength
      BY <1>3, <1>6, <3>3, <3>4
    <3>6. QED
      BY <1>3, <1>6, <3>1, <3>5 DEF Drafted
  <2>3. ~K!Decodes(key, d.shift)
    BY <1>6, <2>2
  <2>4. K!After(d, key) = d
    BY <1>1, <2>1, <2>3, AfterFacts
  <2>5. Drafted(d.text)'
    BY <1>1, <1>2, <1>3, <1>6, DraftStays
  <2>6. QED
    BY <1>1, <1>6, <2>4, <2>5
<1>7. QED
  BY <1>1, <1>4, <1>5, <1>6, ReadsOn

LEMMA ReadKept_Keys ==
    ASSUME KeysInv, NEW key, K!ReadChar(key), K!Decodes(key, shift), Len(buffer) < MaxLength
    PROVE  KeysInv'
<1>0. K!TypeOK
  BY DEF KeysInv
<1> DEFINE old == IF K!Stale THEN <<>> ELSE buffer
           c == [is |-> K!Decoded(key, shift), of |-> typed.n]
<1>1. /\ K!Reads(key) /\ key \notin K!Modifiers /\ key # "enter"
      /\ buffer' = Append(old, c) /\ since' = 0
      /\ UNCHANGED <<shift, typed, last>>
  BY DEF K!ReadChar, K!Modifiers
<1>2. UNCHANGED setting /\ rest # <<>>
  BY <1>1 DEF K!Reads
<1>3. /\ buffer \in Seq(K!Char) /\ Len(buffer) \in Nat
      /\ MaxLength \in Nat /\ since \in Nat /\ Cap \in Nat /\ shift \in BOOLEAN
      /\ setting.gap \in Nat /\ typed.n \in 0..MaxLabels /\ MaxLabels \in Nat
  BY <1>0, KeyTypes
<1>4. typed.n \in 1..MaxLabels
  BY <1>2, <1>3 DEF KeysInv, NumbersFit
<1>5. c \in K!Char /\ c.is = K!Decoded(key, shift) /\ c.of = typed.n
  BY <1>4, DecodedIn, CharIn
<1>6. /\ old = <<>> \/ old = buffer
      /\ old = buffer \/ K!Stale
      /\ K!Stale => old = <<>>
      /\ old \in Seq(K!Char)
  BY <1>3
<1> HIDE DEF old, c
<1>7. /\ Len(old) \in Nat /\ Len(old) <= Len(buffer) /\ (old = <<>> => Len(old) = 0)
      /\ \A i \in 1..Len(old) : i \in 1..Len(buffer) /\ old[i] = buffer[i]
  <2>1. CASE old = <<>>
    BY <1>3, <2>1
  <2>2. CASE old = buffer
    BY <1>3, <2>2
  <2>3. QED
    BY <1>6, <2>1, <2>2
<1>8. /\ buffer' \in Seq(K!Char) /\ Len(buffer') = Len(old) + 1
      /\ \A i \in 1..Len(old) : buffer'[i] = old[i]
      /\ buffer'[Len(old) + 1] = c
  BY <1>1, <1>5, <1>6, AppendFacts
<1>9. K!TypeOK' /\ (rest' # <<>> => rest # <<>>)
  <2>1. Len(buffer') <= MaxLength /\ since' \in 0..Cap /\ shift' \in BOOLEAN
    BY <1>1, <1>3, <1>7, <1>8
  <2>2. QED
    BY <1>0, <1>1, <1>8, <2>1, ReadTypes
<1>10. NumbersFit'
  <2>1. ASSUME NEW i \in 1..Len(buffer')
        PROVE  buffer'[i].of <= typed'.n
    <3>1. CASE i = Len(old) + 1
      BY <1>1, <1>3, <1>5, <1>8, <3>1
    <3>2. CASE i # Len(old) + 1
      <4>1. i \in 1..Len(old)
        BY <1>7, <1>8, <3>2
      <4>2. buffer'[i] = buffer[i] /\ i \in 1..Len(buffer)
        BY <1>7, <1>8, <4>1
      <4>3. QED
        BY <1>1, <4>2 DEF KeysInv, NumbersFit
    <3>3. QED
      BY <3>1, <3>2
  <2>2. rest' # <<>> => typed'.n > 0
    BY <1>1, <1>3, <1>4
  <2>3. QED
    BY <2>1, <2>2 DEF NumbersFit
\* What the scan wrote, or nothing, comes before the character.
<1>11. AllOwn \/ old = <<>> => AllOwn'
  <2>1. SUFFICES ASSUME AllOwn \/ old = <<>>, NEW i \in 1..Len(buffer')
                 PROVE  buffer'[i].of = typed'.n
    BY DEF AllOwn
  <2>2. CASE i = Len(old) + 1
    BY <1>1, <1>5, <1>8, <2>2
  <2>3. CASE i # Len(old) + 1
    <3>1. i \in 1..Len(old)
      BY <1>7, <1>8, <2>3
    <3>2. buffer'[i] = buffer[i] /\ i \in 1..Len(buffer)
      BY <1>7, <1>8, <3>1
    <3>3. AllOwn
      BY <1>7, <2>1, <3>1
    <3>4. QED
      BY <1>1, <3>2, <3>3 DEF AllOwn
  <2>4. QED
    BY <2>2, <2>3
<1>12. since > setting.gap => old = <<>>
  BY <1>6 DEF K!Stale
<1>13. ApartFits'
  BY <1>1, <1>11, <1>12 DEF KeysInv, ApartFits
<1>14. ASSUME NEW d \in Draft, shift = d.shift, Drafted(d.text)
       PROVE  shift' = K!After(d, key).shift /\ Drafted(K!After(d, key).text)'
  <2>1. d = [text |-> d.text, shift |-> d.shift] /\ d.text \in Seq(KeyChars)
    BY DraftForm
  <2> DEFINE x == K!Decoded(key, d.shift)
             t == Append(d.text, x)
  <2>2. K!Decodes(key, d.shift) /\ x = K!Decoded(key, shift)
    BY <1>14
  <2>3. K!After(d, key) = [text |-> t, shift |-> d.shift]
    BY <1>1, <2>1, <2>2, AfterFacts
  <2>4. /\ Len(t) = Len(d.text) + 1 /\ Len(d.text) \in Nat
        /\ \A i \in 1..Len(d.text) : t[i] = d.text[i]
        /\ t[Len(d.text) + 1] = x
    BY <2>1, <2>2, DecodedIn, AppendFacts
  <2> HIDE DEF x, t
  <2>5. /\ AllOwn' /\ Len(old) = Len(d.text)
        /\ \A i \in 1..Len(old) : old[i].is = d.text[i]
    <3>1. CASE /\ AllOwn /\ Len(buffer) = Len(d.text)
               /\ \A i \in 1..Len(buffer) : buffer[i].is = d.text[i]
               /\ buffer # <<>> => since <= setting.gap
      <4>1. ~K!Stale
        BY <1>3, <3>1 DEF K!Stale
      <4>2. old = buffer
        BY <1>6, <4>1
      <4>3. QED
        BY <1>11, <3>1, <4>2
    <3>2. CASE d.text = <<>> /\ NoneOwn /\ since > setting.gap /\ Len(buffer) < MaxLength
      <4>1. old = <<>> /\ Len(old) = 0 /\ Len(d.text) = 0
        BY <1>7, <1>12, <3>2
      <4>2. QED
        BY <1>11, <4>1
    <3>3. QED
      BY <1>14, <3>1, <3>2 DEF Drafted
  <2>6. \A i \in 1..Len(buffer') : buffer'[i].is = t[i]
    <3>1. SUFFICES ASSUME NEW i \in 1..Len(buffer') PROVE buffer'[i].is = t[i]
      OBVIOUS
    <3>2. CASE i = Len(old) + 1
      BY <1>5, <1>8, <2>2, <2>4, <2>5, <3>2
    <3>3. CASE i # Len(old) + 1
      <4>1. i \in 1..Len(old)
        BY <1>7, <1>8, <3>3
      <4>2. QED
        BY <1>8, <2>4, <2>5, <4>1
    <3>4. QED
      BY <3>2, <3>3
  <2>7. Drafted(t)'
    <3>1. Len(buffer') = Len(t)
      BY <1>8, <2>4, <2>5
    <3>2. since' <= setting'.gap
      BY <1>1, <1>2, <1>3
    <3>3. QED
      BY <2>5, <2>6, <3>1, <3>2 DEF Drafted
  <2>8. QED
    BY <1>1, <1>14, <2>3, <2>7
<1>15. QED
  BY <1>1, <1>9, <1>10, <1>13, <1>14, ReadsOn

-----------------------------------------------------------------------------
(* ScanKeys: Enter.                                                        *)

LEMMA TextIs ==
    ASSUME NEW t \in Seq(KeyChars), NEW q \in Seq(K!Char), Len(q) = Len(t),
           \A i \in 1..Len(q) : q[i].is = t[i]
    PROVE  K!Text(q) = t
<1>1. DOMAIN q = 1..Len(q) /\ t = [i \in 1..Len(t) |-> t[i]]
  BY LenProperties
<1>2. K!Text(q) = [i \in 1..Len(t) |-> q[i].is]
  BY <1>1 DEF K!Text
<1>3. QED
  BY <1>1, <1>2

LEMMA TextOfNothing == K!Text(<<>>) = <<>>
<1> DEFINE e == <<>>
<1>1. e \in Seq(KeyChars) /\ e \in Seq(K!Char) /\ Len(e) = 0
  OBVIOUS
<1> HIDE DEF e
<1>2. \A i \in 1..Len(e) : e[i].is = e[i]
  BY <1>1
<1>3. K!Text(e) = e
  BY <1>1, <1>2, TextIs
<1>4. QED
  BY <1>3 DEF e

LEMMA ReadEnter_Keys ==
    ASSUME KeysInv, K!ReadEnter
    PROVE  KeysInv'
<1>0. K!TypeOK
  BY DEF KeysInv
<1> DEFINE v == IF Len(buffer) < setting.min \/ Len(buffer) > MaxLength
                THEN <<>> ELSE buffer
<1>1. /\ K!Reads("enter") /\ buffer' = <<>> /\ UNCHANGED <<shift, since, typed>>
      /\ last' = [scan |-> typed, min |-> setting.min, value |-> v]
  BY DEF K!ReadEnter
<1>2. /\ last'.scan = typed /\ last'.min = setting.min /\ last'.value = v
  BY <1>1
<1> HIDE DEF v
<1>3. /\ buffer \in Seq(K!Char) /\ Len(buffer) \in Nat /\ Len(buffer) <= MaxLength
      /\ MaxLength \in Nat /\ since \in 0..Cap /\ shift \in BOOLEAN
      /\ setting.min \in Nat
  BY <1>0, KeyTypes
<1>4. rest # <<>>
  BY <1>1 DEF K!Reads
<1>5. Len(buffer') = 0
  BY <1>1
<1>6. K!TypeOK'
  <2>1. buffer' \in Seq(K!Char) /\ Len(buffer') <= MaxLength /\ since' \in 0..Cap
        /\ shift' \in BOOLEAN
    BY <1>1, <1>3, <1>5
  <2>2. QED
    BY <1>0, <1>1, <2>1, ReadTypes
<1>7. NumbersFit' /\ ApartFits'
  BY <1>1, <1>4, <1>5 DEF KeysInv, NumbersFit, ApartFits, AllOwn, NoneOwn
<1>8. ASSUME typed.apart, typed.whole
      PROVE  /\ rest' = <<>>
             /\ K!Text(v) = IF Len(typed.text) < setting.min THEN <<>> ELSE typed.text
  <2>1. PICK l \in Labels : \E p \in 1..Len(KeysOf[l]) :
            Progress(l, p) /\ Drafted(DraftsOf[l][p].text)
    BY <1>4, <1>8 DEF KeysInv, WholeFits
  <2>2. PICK p \in 1..Len(KeysOf[l]) : Progress(l, p) /\ Drafted(DraftsOf[l][p].text)
    BY <2>1
  <2> DEFINE t == DraftsOf[l][p].text
  <2>3. Progress(l, p)
    BY <2>2
  <2>4. p = Len(KeysOf[l]) /\ Len(rest') = Len(KeysOf[l]) - (p + 1) + 1
    BY <1>1, <2>3, KeyOfLabel
  <2>5. t = K!TextOf(l) /\ t # <<>> /\ t \in Seq(KeyChars) /\ Len(KeysOf[l]) \in Nat
    BY <2>4, LabelFacts
  <2>6. typed.text = t /\ Len(t) <= MaxLength
    BY <2>3, <2>5 DEF Progress
  <2>7. rest' = <<>>
    <3>1. rest' \in Seq(K!Key)
      BY <1>6, KeyTypes DEF K!TypeOK
    <3>2. Len(rest') = 0
      BY <2>4, <2>5
    <3>3. QED
      BY <3>1, <3>2, EmptySeq
  <2> HIDE DEF t
  <2>8. Len(buffer) = Len(t) /\ \A i \in 1..Len(buffer) : buffer[i].is = t[i]
    BY <2>2, <2>5 DEF Drafted, t
  <2>9. CASE Len(t) < setting.min
    <3>1. v = <<>>
      BY <2>8, <2>9 DEF v
    <3>2. QED
      BY <2>6, <2>7, <2>9, <3>1, TextOfNothing
  <2>10. CASE ~(Len(t) < setting.min)
    <3>1. v = buffer
      BY <1>3, <2>8, <2>10 DEF v
    <3>2. K!Text(buffer) = t
      BY <1>3, <2>5, <2>8, TextIs
    <3>3. QED
      BY <2>6, <2>7, <2>10, <3>1, <3>2
  <2>11. QED
    BY <2>9, <2>10
<1>9. K!WholeScansCount'
  <2>1. SUFFICES ASSUME typed.apart, typed.whole
                 PROVE  K!Text(v) = IF Len(typed.text) < setting.min THEN <<>>
                                    ELSE typed.text
    BY <1>2 DEF K!WholeScansCount, K!Text
  <2>2. QED
    BY <1>8, <2>1
<1>10. WholeFits'
  BY <1>1, <1>8 DEF WholeFits
<1>11. QED
  BY <1>6, <1>7, <1>9, <1>10 DEF KeysInv

-----------------------------------------------------------------------------
(* ScanKeys: the theorem.                                                  *)

LEMMA KeysStay ==
    ASSUME KeysInv, UNCHANGED keyVars
    PROVE  KeysInv'
<1>0. K!TypeOK
  BY DEF KeysInv
<1>1. UNCHANGED <<buffer, shift, since, setting, plugged, rest, typed, last, losses, refreshes>>
  BY DEF keyVars
<1>2. K!TypeOK'
  BY <1>0, <1>1 DEF K!TypeOK
<1>3. since' >= since
  BY <1>0, <1>1, KeyTypes
<1>4. QED
  BY <1>1, <1>2, <1>3, NothingRead

LEMMA KeysStep ==
    ASSUME KeysInv, K!Next
    PROVE  KeysInv'
<1>1. CASE \E l \in Labels : K!StartsScan(l)
  BY <1>1, Starts_Keys
<1>2. CASE K!LosesKey \/ K!TypesUnheard
  BY <1>2, Missed_Keys
<1>3. CASE K!Tick
  BY <1>3, Tick_Keys
<1>4. CASE K!Unplugs
  BY <1>4, Unplugs_Keys
<1>5. CASE K!Replugs
  BY <1>5, Replugs_Keys
<1>6. CASE K!Refresh
  BY <1>6, Refresh_Keys
<1>7. CASE K!ReadKey
  <2>1. CASE K!ReadShift
    BY <2>1, ReadShift_Keys
  <2>2. CASE K!ReadEnter
    BY <2>2, ReadEnter_Keys
  <2>3. CASE K!ReadBackspace
    BY <2>3, ReadBackspace_Keys
  <2>4. CASE K!ReadEscape
    BY <2>4, ReadEscape_Keys
  <2>5. CASE \E key \in K!ToSet(rest) : K!ReadChar(key)
    <3>1. PICK key \in K!ToSet(rest) : K!ReadChar(key)
      BY <2>5
    <3>2. CASE K!Decodes(key, shift) /\ Len(buffer) < MaxLength
      BY <3>1, <3>2, ReadKept_Keys
    <3>3. CASE ~(K!Decodes(key, shift) /\ Len(buffer) < MaxLength)
      BY <3>1, <3>3, ReadNothing_Keys
    <3>4. QED
      BY <3>2, <3>3
  <2>6. QED
    BY <1>7, <2>1, <2>2, <2>3, <2>4, <2>5 DEF K!ReadKey
<1>8. QED
  BY <1>1, <1>2, <1>3, <1>4, <1>5, <1>6, <1>7 DEF K!Next

LEMMA KeysInvAlways == MCSpec => []KeysInv
<1>1. MCInit => KeysInv
  BY KeysInitially DEF MCInit
<1>2. KeysInv /\ [MCNext]_all => KeysInv'
  <2>1. SUFFICES ASSUME KeysInv, [MCNext]_all PROVE KeysInv'
    OBVIOUS
  <2>2. CASE UNCHANGED keyVars
    BY <2>1, <2>2, KeysStay
  <2>3. CASE K!Next
    BY <2>1, <2>3, KeysStep
  <2>4. QED
    BY <2>1, <2>2, <2>3 DEF MCNext, all
<1>3. QED
  BY <1>1, <1>2, PTL DEF MCSpec

LEMMA KeysHold == KeysInv => K!KeysCorrect
<1> SUFFICES ASSUME KeysInv PROVE K!KeysCorrect
  OBVIOUS
<1>1. K!TypeOK /\ K!WholeScansCount
  BY DEF KeysInv
<1>2. K!NoneMixed
  <2>1. SUFFICES ASSUME typed.apart, NEW i \in DOMAIN buffer, buffer[i].of = typed.n,
                        NEW j \in DOMAIN buffer
                 PROVE  buffer[j].of = typed.n
    BY DEF K!NoneMixed
  <2>2. i \in 1..Len(buffer) /\ j \in 1..Len(buffer)
    BY <1>1, KeyTypes, LenProperties
  <2>3. ~NoneOwn
    BY <2>1, <2>2 DEF NoneOwn
  <2>4. AllOwn
    BY <2>1, <2>3 DEF KeysInv, ApartFits
  <2>5. QED
    BY <2>2, <2>4 DEF AllOwn
<1>3. QED
  BY <1>1, <1>2 DEF K!KeysCorrect

-----------------------------------------------------------------------------
(* Scanners.                                                               *)

\* A bridge that misses one heartbeat at most is shown online, a device that is gone for
\* long is not shown connected, and a scan that is read apart from others and in whole gives
\* its barcode (scanner_status.py, scanner.py), for any number of reports, labels and losses.
THEOREM ScannerCorrectAlways == MCSpec => []ScannerCorrect
<1>1. StatusInv /\ KeysInv => ScannerCorrect
  BY StatusHolds, KeysHold DEF ScannerCorrect
<1>2. QED
  BY <1>1, StatusInvAlways, KeysInvAlways, PTL
=============================================================================
