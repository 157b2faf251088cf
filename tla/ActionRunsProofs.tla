-------------------------- MODULE ActionRunsProofs --------------------------
(***************************************************************************)
(* What holds of webhook actions (ActionRuns) for any number of actions,   *)
(* runs, retries and old rows: calls keep policy and cooldown (CallsInv),  *)
(* statistics are exact (StatsInv).                                        *)
(*                                                                         *)
(* The backfill counts a batch row by row (Filled, a recursive function).  *)
(* SubsetInduction stands for the induction over finite sets that this     *)
(* needs; FilledKeeps is its use: what one more row always keeps holds     *)
(* after a batch.                                                          *)
(***************************************************************************)
EXTENDS ActionRuns, NaturalsInduction, WellFoundedInduction, FiniteSetTheorems, TLAPS

-----------------------------------------------------------------------------
(* Finite sets.                                                            *)

LEMMA LeastNumber ==
    ASSUME NEW T \in SUBSET Nat, T # {}
    PROVE  \E n \in T : \A m \in T : n <= m
<1> DEFINE R == {ss \in Nat \X Nat : ss[1] < ss[2]}
<1>1. IsWellFoundedOn(R, Nat)
  BY NatLessThanWellFounded DEF OpToRel
<1>2. PICK n \in T : \A m \in T : <<m, n>> \notin R
  BY <1>1, WFMin
<1>3. \A m \in T : m \in Nat /\ n \in Nat /\ ~(m < n)
  BY <1>2
<1>4. QED
  BY <1>3

\* Induction over a finite set, with the set of its good subsets in the place of a
\* predicate: otherwise take the least of the others.
LEMMA SubsetInduction ==
    ASSUME NEW S, IsFiniteSet(S), NEW good \in SUBSET (SUBSET S), {} \in good,
           \A T \in SUBSET S : T # {} => \E x \in T : T \ {x} \in good => T \in good
    PROVE  S \in good
<1> DEFINE bad == {T \in SUBSET S : T \notin good}
           sizes == {Cardinality(T) : T \in bad}
<1>1. SUFFICES ASSUME S \notin good PROVE FALSE
  OBVIOUS
<1>2. \A T \in SUBSET S : IsFiniteSet(T) /\ Cardinality(T) \in Nat
  BY FS_Subset, FS_CardinalityType
<1>3. sizes \subseteq Nat /\ sizes # {}
  BY <1>1, <1>2
<1>4. PICK n \in sizes : \A m \in sizes : n <= m
  BY <1>3, LeastNumber
<1>5. PICK T \in SUBSET S : T \notin good /\ Cardinality(T) = n
  BY <1>4
<1>6. T # {}
  <2> HIDE DEF bad, sizes
  <2>1. ASSUME T = {} PROVE T \in good
    BY <2>1
  <2>2. QED
    BY <1>5, <2>1
<1>7. PICK x \in T : T \ {x} \in good => T \in good
  BY <1>6
<1>8. T \ {x} \in bad
  BY <1>5, <1>7
<1>9. Cardinality(T \ {x}) = Cardinality(T) - 1
  BY <1>2, <1>5, <1>7, FS_RemoveElement
<1>10. Cardinality(T) <= Cardinality(T \ {x})
  BY <1>4, <1>5, <1>8
<1>11. Cardinality(T) \in Nat
  BY <1>2, <1>5
<1>12. QED
  <2> HIDE DEF bad, sizes
  <2>1. QED
    BY <1>9, <1>10, <1>11

LEMMA LargestNumber ==
    ASSUME NEW S \in SUBSET Nat, IsFiniteSet(S), S # {}
    PROVE  \E n \in S : \A m \in S : m <= n
<1> DEFINE Top(T) == \E n \in T : \A m \in T : m <= n
           good == {T \in SUBSET S : T = {} \/ Top(T)}
<1>1. ASSUME NEW T \in SUBSET S, NEW n \in T, T \ {n} \in good PROVE T \in good
  <2>1. CASE T \ {n} = {}
    BY <2>1, <1>1
  <2>2. CASE Top(T \ {n})
    <3>1. PICK m \in T \ {n} : \A k \in T \ {n} : k <= m
      BY <2>2
    <3>2. n <= m \/ m <= n
      BY <1>1, <3>1
    <3>3. Top(T)
      BY <1>1, <3>1, <3>2
    <3>4. QED
      BY <3>3
  <2>3. QED
    BY <1>1, <2>1, <2>2
<1>2. ASSUME NEW T \in SUBSET S, T # {}
      PROVE  \E n \in T : T \ {n} \in good => T \in good
  <2> HIDE DEF good
  <2>1. QED
    BY <1>1, <1>2
<1>3. S \in good
  <2> HIDE DEF good
  <2>1. good \in SUBSET (SUBSET S) /\ {} \in good
    BY DEF good
  <2>2. QED
    BY <1>2, <2>1, SubsetInduction
<1>4. QED
  BY <1>3

LEMMA MaxFacts ==
    ASSUME NEW S \in SUBSET Nat, IsFiniteSet(S), S # {}
    PROVE  Max(S) \in S /\ \A m \in S : m <= Max(S)
<1>1. \E n \in S : \A m \in S : n >= m
  BY LargestNumber
<1>2. QED
  BY <1>1 DEF Max

LEMMA ValuesFinite ==
    ASSUME NEW S, IsFiniteSet(S), NEW T, NEW f \in [S -> T],
           \A t \in T : \E s \in S : f[s] = t
    PROVE  IsFiniteSet(T)
BY FS_Surjection DEF Surjection

LEMMA IdsFinite ==
    ASSUME NEW S \in SUBSET Row, IsFiniteSet(S)
    PROVE  /\ {q.id : q \in S} \subseteq Nat /\ IsFiniteSet({q.id : q \in S})
           /\ {q.at : q \in S} \subseteq Nat /\ IsFiniteSet({q.at : q \in S})
<1> DEFINE ids == {q.id : q \in S}
           ats == {q.at : q \in S}
           f == [q \in S |-> q.id]
           g == [q \in S |-> q.at]
<1>1. ids \subseteq Nat /\ ats \subseteq Nat
  BY DEF Row
<1>2. f \in [S -> ids] /\ \A t \in ids : \E q \in S : f[q] = t
  OBVIOUS
<1>3. g \in [S -> ats] /\ \A t \in ats : \E q \in S : g[q] = t
  OBVIOUS
<1> HIDE DEF ids, ats, f, g
<1>4. IsFiniteSet(ids) /\ IsFiniteSet(ats)
  BY <1>2, <1>3, ValuesFinite
<1>5. QED
  BY <1>1, <1>4 DEF ids, ats

-----------------------------------------------------------------------------
(* The recursion of Filled.                                                *)

RowsApart(R) == \A p, q \in R : p.id = q.id => p = q

LEMMA LastRowFacts ==
    ASSUME NEW S \in SUBSET Row, IsFiniteSet(S), S # {}
    PROVE  LastRow(S) \in S /\ \A p \in S : p.id <= LastRow(S).id
<1> DEFINE ids == {q.id : q \in S}
<1>1. ids \subseteq Nat /\ ids # {} /\ IsFiniteSet(ids)
  BY IdsFinite
<1>2. PICK n \in ids : \A m \in ids : m <= n
  BY <1>1, LargestNumber
<1>3. \E q \in S : \A p \in S : p.id <= q.id
  BY <1>2
<1>4. QED
  BY <1>3 DEF LastRow

LEMMA LastRowIsOne ==
    ASSUME NEW S \in SUBSET Row, NEW T \in SUBSET S, IsFiniteSet(S), RowsApart(S),
           LastRow(S) \in T
    PROVE  LastRow(T) = LastRow(S)
<1>1. IsFiniteSet(T) /\ T # {} /\ S # {} /\ T \in SUBSET Row
  BY FS_Subset
<1>2. LastRow(T) \in T /\ LastRow(S) \in S
  BY <1>1, LastRowFacts
<1>3. LastRow(S).id <= LastRow(T).id /\ LastRow(T).id <= LastRow(S).id
  BY <1>1, <1>2, LastRowFacts
<1>4. LastRow(S).id \in Nat /\ LastRow(T).id \in Nat
  BY <1>2 DEF Row
<1>5. LastRow(T).id = LastRow(S).id
  BY <1>3, <1>4
<1>6. QED
  BY <1>2, <1>5 DEF RowsApart

\* f is the function that Filled applies to the batch.
Fills(f, s, batch) ==
    f = [S \in SUBSET batch |->
           IF S = {} THEN s
           ELSE Upserted(f[S \ {LastRow(S)}], LastRow(S).status, LastRow(S).at)]

\* Such a function exists: one more row extends that of the rows before.
LEMMA FillExists ==
    ASSUME NEW s, NEW batch \in SUBSET Row, IsFiniteSet(batch), RowsApart(batch)
    PROVE  \E f : Fills(f, s, batch)
<1> DEFINE good == {T \in SUBSET batch : \E f : Fills(f, s, T)}
<1>1. {} \in good
  <2> DEFINE f == [S \in SUBSET {} |-> s]
  <2>1. Fills(f, s, {})
    BY DEF Fills
  <2>2. QED
    BY <2>1
<1>2. ASSUME NEW T \in SUBSET batch, T # {}, T \ {LastRow(T)} \in good
      PROVE  T \in good
  <2> DEFINE q == LastRow(T)
             U == T \ {q}
  <2>1. T \in SUBSET Row /\ IsFiniteSet(T) /\ RowsApart(T)
    BY FS_Subset DEF RowsApart
  <2>2. q \in T
    BY <1>2, <2>1, LastRowFacts
  <2>3. PICK g : Fills(g, s, U)
    BY <1>2
  <2> DEFINE f == [S \in SUBSET T |-> IF q \in S THEN Upserted(g[S \ {q}], q.status, q.at)
                                      ELSE g[S]]
  <2>4. ASSUME NEW S \in SUBSET T, S # {}
        PROVE  f[S] = Upserted(f[S \ {LastRow(S)}], LastRow(S).status, LastRow(S).at)
    <3>1. IsFiniteSet(S) /\ S \in SUBSET Row /\ LastRow(S) \in S
      BY <2>1, <2>4, FS_Subset, LastRowFacts
    <3>2. CASE q \in S
      <4>1. LastRow(S) = q
        BY <2>1, <3>2, LastRowIsOne
      <4>2. S \ {q} \in SUBSET T /\ q \notin S \ {q}
        OBVIOUS
      <4>3. f[S \ {q}] = g[S \ {q}] /\ f[S] = Upserted(g[S \ {q}], q.status, q.at)
        BY <3>2, <4>2
      <4> HIDE DEF f, q
      <4>4. QED
        BY <4>1, <4>3
    <3>3. CASE q \notin S
      <4>1. S \in SUBSET U /\ S \ {LastRow(S)} \in SUBSET U
        BY <3>3
      <4>2. g[S] = Upserted(g[S \ {LastRow(S)}], LastRow(S).status, LastRow(S).at)
        BY <2>3, <2>4, <4>1 DEF Fills
      <4>3. f[S] = g[S] /\ f[S \ {LastRow(S)}] = g[S \ {LastRow(S)}]
        BY <3>3, <4>1
      <4> HIDE DEF f
      <4>4. QED
        BY <4>2, <4>3
    <3>4. QED
      BY <3>2, <3>3
  <2>5. f[{}] = s
    <3>1. g[{}] = s
      BY <2>3 DEF Fills
    <3>2. QED
      BY <3>1
  <2> HIDE DEF q, U, f
  <2>6. f = [S \in SUBSET T |-> f[S]]
    BY DEF f
  <2>7. \A S \in SUBSET T :
          f[S] = IF S = {} THEN s
                 ELSE Upserted(f[S \ {LastRow(S)}], LastRow(S).status, LastRow(S).at)
    BY <2>4, <2>5
  <2> HIDE DEF good
  <2>8. [S \in SUBSET T |-> f[S]]
          = [S \in SUBSET T |->
               IF S = {} THEN s
               ELSE Upserted(f[S \ {LastRow(S)}], LastRow(S).status, LastRow(S).at)]
    BY <2>7
  <2>9. Fills(f, s, T)
    BY <2>6, <2>8 DEF Fills
  <2>10. QED
    BY <2>9 DEF good
<1>3. ASSUME NEW T \in SUBSET batch, T # {}
      PROVE  \E x \in T : T \ {x} \in good => T \in good
  <2>1. LastRow(T) \in T
    BY <1>3, FS_Subset, LastRowFacts
  <2> HIDE DEF good
  <2>2. QED
    BY <1>2, <1>3, <2>1
<1>4. batch \in good
  <2> HIDE DEF good
  <2>1. good \in SUBSET (SUBSET batch)
    BY DEF good
  <2>2. QED
    BY <1>1, <1>3, <2>1, SubsetInduction
<1>5. QED
  BY <1>4

\* What one more row always keeps holds of the statistics after a batch. holds pairs
\* the good statistics with the rows they are good for.
LEMMA FilledKeeps ==
    ASSUME NEW s, NEW batch \in SUBSET Row, IsFiniteSet(batch), RowsApart(batch),
           NEW holds, <<s, {}>> \in holds,
           ASSUME NEW t, NEW T \in SUBSET batch, NEW q \in batch \ T, <<t, T>> \in holds
           PROVE  <<Upserted(t, q.status, q.at), T \cup {q}>> \in holds
    PROVE  <<Filled(s, batch), batch>> \in holds
<1> DEFINE f == CHOOSE f : Fills(f, s, batch)
           good == {T \in SUBSET batch : <<f[T], T>> \in holds}
<1>1. Fills(f, s, batch)
  BY FillExists
<1>2. Filled(s, batch) = f[batch]
  BY DEF Filled, Fills
<1> HIDE DEF f
<1>3. {} \in good
  BY <1>1 DEF Fills
<1>4. ASSUME NEW T \in SUBSET batch, T # {}
      PROVE  \E x \in T : T \ {x} \in good => T \in good
  <2> DEFINE q == LastRow(T)
  <2>1. q \in T
    BY <1>4, FS_Subset, LastRowFacts
  <2>2. f[T] = Upserted(f[T \ {q}], q.status, q.at)
    BY <1>1, <1>4 DEF Fills
  <2> HIDE DEF q
  <2>3. ASSUME T \ {q} \in good PROVE T \in good
    <3>1. <<Upserted(f[T \ {q}], q.status, q.at), (T \ {q}) \cup {q}>> \in holds
      BY <2>1, <2>3
    <3>2. (T \ {q}) \cup {q} = T
      BY <2>1
    <3>3. QED
      BY <2>2, <3>1, <3>2
  <2>4. QED
    BY <2>1, <2>3
<1>5. batch \in good
  <2> HIDE DEF good
  <2>1. good \in SUBSET (SUBSET batch)
    BY DEF good
  <2>2. QED
    BY <1>3, <1>4, <2>1, SubsetInduction
<1>6. QED
  BY <1>2, <1>5

-----------------------------------------------------------------------------
(* Types.                                                                  *)

TypeInv == TypeOK /\ IsFiniteSet(rows) /\ IsFiniteSet(ends)

LEMMA RowParts ==
    ASSUME TypeOK, NEW q \in rows
    PROVE  /\ q \in Row /\ q.id \in Nat \ {0} /\ q.action \in Actions
           /\ q.status \in Statuses /\ q.at \in Nat /\ q.by \in Runs \cup {Old}
BY DEF TypeOK, Row

\* SQLite gives a new row an id that follows all those in use.
LEMMA NewIdFollows ==
    ASSUME TypeInv
    PROVE  NewId \in Nat \ {0} /\ \A q \in rows : q.id < NewId
<1> DEFINE ids == {q.id : q \in rows}
<1>1. ids \subseteq Nat /\ IsFiniteSet(ids)
  BY IdsFinite DEF TypeInv, TypeOK
<1>2. CASE rows = {}
  BY <1>2 DEF NewId
<1>3. CASE rows # {}
  <2>1. ids # {} /\ NewId = 1 + Max(ids)
    BY <1>3 DEF NewId
  <2>2. \A q \in rows : q.id \in ids
    OBVIOUS
  <2> HIDE DEF ids
  <2>3. Max(ids) \in ids /\ \A n \in ids : n <= Max(ids)
    BY <1>1, <2>1, MaxFacts
  <2>4. Max(ids) \in Nat
    BY <1>1, <2>3
  <2>5. \A q \in rows : q.id <= Max(ids) /\ q.id \in Nat
    BY <1>1, <2>2, <2>3
  <2>6. QED
    BY <2>1, <2>4, <2>5
<1>4. QED
  BY <1>2, <1>3

LEMMA UpsertedType ==
    ASSUME NEW s \in Stat, NEW result \in Statuses, NEW at \in Nat
    PROVE  Upserted(s, result, at) \in Stat
<1>1. /\ One(result = "success") \in Nat /\ One(result = "failed") \in Nat
      /\ One(result = "ignored_cooldown") \in Nat
  BY DEF One
<1>2. QED
  BY <1>1 DEF Upserted, Stat

LEMMA FilledType ==
    ASSUME NEW s \in Stat, NEW batch \in SUBSET Row, IsFiniteSet(batch), RowsApart(batch)
    PROVE  Filled(s, batch) \in Stat
<1> DEFINE holds == Stat \X SUBSET batch
<1>1. ASSUME NEW t, NEW T \in SUBSET batch, NEW q \in batch \ T, <<t, T>> \in holds
      PROVE  <<Upserted(t, q.status, q.at), T \cup {q}>> \in holds
  <2>1. q.status \in Statuses /\ q.at \in Nat /\ t \in Stat
    BY <1>1 DEF Row
  <2>2. Upserted(t, q.status, q.at) \in Stat
    BY <2>1, UpsertedType
  <2>3. QED
    BY <2>2
<1>2. <<s, {}>> \in holds
  OBVIOUS
<1>3. <<Filled(s, batch), batch>> \in holds
  <2> HIDE DEF holds
  <2>1. QED
    BY <1>1, <1>2, FilledKeeps
<1>4. QED
  BY <1>3

\* A run takes a step; rows and results stay as they are.
LEMMA RunMoves ==
    ASSUME TypeInv, NEW e \in Runs, NEW step \in Steps, Goes(e, step),
           phase = "up", UNCHANGED <<dbVars, phase, filled, now, edits, ends, swapped>>,
           rowId' = rowId, faults' \in 0..MaxFaults,
           attempt' \in [Runs -> 0..(Retries + 1)],
           status' \in [Runs -> {"none", "ok", "4xx", "5xx"}],
           failure' \in [Runs -> Failures \cup {"none"}],
           saw' \in [Runs -> SUBSET (Runs \cup {Old})], storedAt' = storedAt,
           retried' \in [Runs -> SUBSET Failures]
    PROVE  TypeInv'
<1>1. pc' \in [Runs -> Steps]
  BY DEF TypeInv, TypeOK, Goes
<1>2. TypeOK'
  BY <1>1 DEF TypeInv, TypeOK, dbVars
<1>3. QED
  BY <1>2 DEF TypeInv, dbVars

\* A run stores a row.
LEMMA RowStored ==
    ASSUME TypeInv, NEW e \in Runs, NEW step \in Steps, Goes(e, step), phase = "up",
           NEW result \in Statuses,
           rows' = rows \cup {[id |-> NewId, action |-> ActionOf[e], status |-> result,
                               at |-> now, by |-> e]}
    PROVE  /\ rows' \subseteq Row /\ IsFiniteSet(rows')
           /\ \A p, q \in rows' : p.id = q.id => p = q
           /\ pc' \in [Runs -> Steps]
           /\ filled \subseteq rows'
<1> DEFINE row == [id |-> NewId, action |-> ActionOf[e], status |-> result,
                   at |-> now, by |-> e]
<1>1. row \in Row /\ row.id = NewId
  BY NewIdFollows, RunsAssumption DEF TypeInv, TypeOK, Row
<1>2. \A q \in rows : q.id \in Nat /\ q.id < row.id
  BY <1>1, NewIdFollows, RowParts DEF TypeInv
<1>3. rows' = rows \cup {row}
  OBVIOUS
<1> HIDE DEF row
<1>4. IsFiniteSet(rows')
  BY <1>3, FS_AddElement DEF TypeInv
<1>5. \A p, q \in rows' : p.id = q.id => p = q
  BY <1>1, <1>2, <1>3 DEF TypeInv, TypeOK
<1>6. QED
  BY <1>1, <1>3, <1>4, <1>5 DEF TypeInv, TypeOK, Goes

LEMMA StartPhase ==
    ASSUME TypeOK, NEW e \in Runs, pc[e] \notin {"idle", "done", "gone"}
    PROVE  phase = "up" /\ filled = {}
BY DEF TypeOK

LEMMA LookTyped ==
    ASSUME TypeInv, NEW e \in Runs, Look(e)
    PROVE  TypeInv'
<1>1. PICK step \in Steps : Goes(e, step)
  BY DEF Look, Steps
<1>2. saw' \in [Runs -> SUBSET (Runs \cup {Old})]
  <2>1. {q.by : q \in rows} \subseteq Runs \cup {Old}
    BY RowParts DEF TypeInv
  <2>2. QED
    BY <2>1 DEF Look, TypeInv, TypeOK
<1>3. /\ UNCHANGED <<dbVars, phase, filled, rowId, attempt, status, failure, now,
                     edits, faults, ends, storedAt, retried, swapped>>
      /\ phase = "up"
  BY DEF Look
<1>4. QED
  BY <1>1, <1>2, <1>3, RunMoves DEF TypeInv, TypeOK

LEMMA SendTyped ==
    ASSUME TypeInv, NEW e \in Runs, Send(e), pc[e] = "send" => attempt[e] <= Retries
    PROVE  TypeInv'
<1>1. PICK step \in Steps : Goes(e, step)
  BY DEF Send, Steps
<1>2. attempt' \in [Runs -> 0..(Retries + 1)]
  BY RunsAssumption DEF Send, TypeInv, TypeOK
<1>3. /\ status' \in [Runs -> {"none", "ok", "4xx", "5xx"}]
      /\ failure' \in [Runs -> Failures \cup {"none"}]
  BY DEF Send, TypeInv, TypeOK, Failures
<1>4. /\ UNCHANGED <<dbVars, phase, filled, rowId, now, edits, faults, historyVars>>
      /\ phase = "up"
  BY StartPhase DEF Send, TypeInv
<1>5. QED
  BY <1>1, <1>2, <1>3, <1>4, RunMoves DEF TypeInv, TypeOK, historyVars

LEMMA DecideTyped ==
    ASSUME TypeInv, NEW e \in Runs, Decide(e), pc[e] = "decide" => failure[e] \in Failures
    PROVE  TypeInv'
<1>1. PICK step \in Steps : Goes(e, step)
  BY DEF Decide, Steps
<1>2. retried' \in [Runs -> SUBSET Failures]
  BY DEF Decide, TypeInv, TypeOK
<1>3. /\ UNCHANGED <<dbVars, phase, filled, rowId, attempt, status, failure, now,
                     edits, faults, ends, saw, storedAt, swapped>>
      /\ phase = "up"
  BY StartPhase DEF Decide, TypeInv
<1>4. QED
  BY <1>1, <1>2, <1>3, RunMoves DEF TypeInv, TypeOK

LEMMA FaultTyped ==
    ASSUME TypeInv, NEW e \in Runs, LookFails(e) \/ StoreBusy(e)
    PROVE  TypeInv'
<1>1. PICK step \in Steps : Goes(e, step)
  BY DEF LookFails, StoreBusy, Steps
<1>2. /\ UNCHANGED <<dbVars, phase, filled, rowId, attempt, status, failure, now,
                     edits, historyVars>>
      /\ phase = "up"
  BY StartPhase DEF LookFails, StoreBusy, TypeInv
<1>3. faults' \in 0..MaxFaults
  BY RunsAssumption DEF LookFails, StoreBusy, TypeInv, TypeOK
<1>4. QED
  BY <1>1, <1>2, <1>3, RunMoves DEF TypeInv, TypeOK, historyVars

LEMMA ReserveTyped ==
    ASSUME TypeInv, NEW e \in Runs, Reserve(e)
    PROVE  TypeInv'
<1>1. /\ Goes(e, "send") /\ "send" \in Steps /\ "running" \in Statuses
      /\ rows' = rows \cup {[id |-> NewId, action |-> ActionOf[e], status |-> "running",
                             at |-> now, by |-> e]}
      /\ UNCHANGED <<exists, enabled, stat, complete, phase, filled, attempt, status,
                     failure, now, edits, faults, ends, saw, retried, swapped>>
      /\ phase = "up"
  BY StartPhase DEF Reserve, TypeInv, Steps, Statuses
<1>2. /\ rows' \subseteq Row /\ IsFiniteSet(rows')
      /\ \A p, q \in rows' : p.id = q.id => p = q
      /\ pc' \in [Runs -> Steps] /\ filled \subseteq rows'
  BY <1>1, RowStored
<1>3. rowId' \in [Runs -> Nat]
  BY NewIdFollows DEF Reserve, TypeInv, TypeOK
<1>4. storedAt' \in [Runs -> Nat \cup {-1}]
  BY DEF Reserve, TypeInv, TypeOK
<1>5. TypeOK'
  BY <1>1, <1>2, <1>3, <1>4 DEF TypeInv, TypeOK
<1>6. QED
  BY <1>1, <1>2, <1>5 DEF TypeInv

LEMMA StoreTerminalTyped ==
    ASSUME TypeInv, NEW e \in Runs, StoreTerminal(e)
    PROVE  TypeInv'
<1>1. PICK result \in {"ignored_cooldown", "disabled", "failed"} :
        /\ rows' = rows \cup {[id |-> NewId, action |-> ActionOf[e], status |-> result,
                               at |-> now, by |-> e]}
        /\ stat' = Recorded(ActionOf[e], result, now)
        /\ ends' = ends \cup {EndOf([id |-> NewId, action |-> ActionOf[e],
                                     status |-> result, at |-> now, by |-> e])}
  BY DEF StoreTerminal
<1>2. /\ Goes(e, "done") /\ "done" \in Steps /\ result \in Statuses
      /\ UNCHANGED <<exists, enabled, complete, phase, filled, rowId, attempt, status,
                     failure, now, edits, faults, saw, storedAt, retried, swapped>>
      /\ phase = "up"
  BY StartPhase DEF StoreTerminal, TypeInv, Steps, Statuses
<1>3. /\ rows' \subseteq Row /\ IsFiniteSet(rows')
      /\ \A p, q \in rows' : p.id = q.id => p = q
      /\ pc' \in [Runs -> Steps] /\ filled \subseteq rows'
  BY <1>1, <1>2, RowStored
<1>4. stat' \in [Actions -> Stat]
  BY <1>1, <1>2, UpsertedType, RunsAssumption DEF Recorded, TypeInv, TypeOK
<1>5. ends' \subseteq End /\ IsFiniteSet(ends')
  <2> DEFINE x == EndOf([id |-> NewId, action |-> ActionOf[e], status |-> result,
                         at |-> now, by |-> e])
  <2>1. x \in End
    BY <1>1, NewIdFollows, RunsAssumption DEF EndOf, End, Statuses, TypeInv, TypeOK
  <2>2. ends' = ends \cup {x}
    BY <1>1
  <2> HIDE DEF x
  <2>3. QED
    BY <2>1, <2>2, FS_AddElement DEF TypeInv, TypeOK
<1>6. TypeOK'
  BY <1>2, <1>3, <1>4, <1>5 DEF TypeInv, TypeOK
<1>7. QED
  BY <1>3, <1>5, <1>6 DEF TypeInv

\* The commit of a result that finds the row.
Stored(e, q) ==
    /\ rows' = (rows \ {q}) \cup {[q EXCEPT !.status = pc[e]]}
    /\ stat' = Recorded(ActionOf[e], pc[e], storedAt[e])
    /\ ends' = ends \cup {[action |-> ActionOf[e], status |-> pc[e],
                           at |-> storedAt[e], id |-> q.id, by |-> e]}
    /\ swapped' = (swapped \/ q.by # e)

LEMMA FinishEffects ==
    ASSUME TypeInv, NEW e \in Runs, Finish(e)
    PROVE  /\ pc[e] \in {"success", "failed"} /\ phase = "up" /\ filled = {}
           /\ Goes(e, "done")
           /\ UNCHANGED <<exists, enabled, complete, phase, filled, rowId, attempt,
                          status, failure, now, edits, faults, saw, storedAt, retried>>
           /\ \/ \E q \in rows : q.id = rowId[e] /\ Stored(e, q)
              \/ UNCHANGED <<rows, stat, ends, swapped>>
<1>1. pc[e] \in {"success", "failed"} /\ phase = "up" /\ filled = {}
  BY StartPhase DEF Finish, TypeInv
<1>2. \/ \E q \in rows : q.id = rowId[e] /\ Stored(e, q)
      \/ UNCHANGED <<rows, stat, ends, swapped>>
  BY DEF Finish, Reserved, Stored
<1>3. QED
  BY <1>1, <1>2 DEF Finish

LEMMA RowFinished ==
    ASSUME TypeInv, NEW q \in rows, NEW result \in Statuses,
           rows' = (rows \ {q}) \cup {[q EXCEPT !.status = result]}
    PROVE  /\ rows' \subseteq Row /\ IsFiniteSet(rows')
           /\ \A p, r \in rows' : p.id = r.id => p = r
<1> DEFINE row == [q EXCEPT !.status = result]
<1>1. row \in Row /\ row.id = q.id
  BY RowParts DEF TypeInv, Row
<1>2. rows' = (rows \ {q}) \cup {row}
  OBVIOUS
<1> HIDE DEF row
<1>3. IsFiniteSet(rows')
  <2>1. IsFiniteSet(rows \ {q})
    BY FS_RemoveElement DEF TypeInv
  <2>2. QED
    BY <1>2, <2>1, FS_AddElement
<1>4. \A p, r \in rows' : p.id = r.id => p = r
  BY <1>1, <1>2 DEF TypeInv, TypeOK
<1>5. QED
  BY <1>1, <1>2, <1>3, <1>4 DEF TypeInv, TypeOK

LEMMA FinishTyped ==
    ASSUME TypeInv, NEW e \in Runs, Finish(e), Called(e)
    PROVE  TypeInv'
<1>1. /\ pc[e] \in {"success", "failed"} /\ phase = "up" /\ filled = {}
      /\ Goes(e, "done")
      /\ UNCHANGED <<exists, enabled, complete, phase, filled, rowId, attempt,
                     status, failure, now, edits, faults, saw, storedAt, retried>>
  BY FinishEffects
<1>2. pc' \in [Runs -> Steps]
  BY <1>1 DEF TypeInv, TypeOK, Goes, Steps
<1>3. CASE UNCHANGED <<rows, stat, ends, swapped>>
  <2>1. TypeOK'
    BY <1>1, <1>2, <1>3 DEF TypeInv, TypeOK
  <2>2. QED
    BY <1>3, <2>1 DEF TypeInv
<1>4. CASE \E q \in rows : q.id = rowId[e] /\ Stored(e, q)
  <2>1. PICK q \in rows : Stored(e, q)
    BY <1>4
  <2>2. pc[e] \in Statuses /\ pc[e] # "running" /\ storedAt[e] \in Nat
    BY <1>1 DEF Statuses, Called, TypeInv, TypeOK
  <2>3. /\ rows' \subseteq Row /\ IsFiniteSet(rows')
        /\ \A p, r \in rows' : p.id = r.id => p = r
    BY <2>1, <2>2, RowFinished DEF Stored
  <2>4. stat' \in [Actions -> Stat]
    BY <2>1, <2>2, UpsertedType, RunsAssumption DEF Stored, Recorded, TypeInv, TypeOK
  <2>5. ends' \subseteq End /\ IsFiniteSet(ends')
    <3> DEFINE x == [action |-> ActionOf[e], status |-> pc[e], at |-> storedAt[e],
                     id |-> q.id, by |-> e]
    <3>1. x \in End
      BY <2>2, RowParts, RunsAssumption DEF End, TypeInv
    <3>2. ends' = ends \cup {x}
      BY <2>1 DEF Stored
    <3> HIDE DEF x
    <3>3. QED
      BY <3>1, <3>2, FS_AddElement DEF TypeInv, TypeOK
  <2>6. swapped' \in BOOLEAN
    BY <2>1 DEF Stored
  <2>7. TypeOK'
    BY <1>1, <1>2, <2>3, <2>4, <2>5, <2>6 DEF TypeInv, TypeOK
  <2>8. QED
    BY <2>3, <2>5, <2>7 DEF TypeInv
<1>5. QED
  BY <1>3, <1>4, FinishEffects

LEMMA BatchFacts ==
    ASSUME TypeInv, NEW a \in Actions
    PROVE  /\ {q \in NextBatch : q.action = a} \in SUBSET Row
           /\ IsFiniteSet({q \in NextBatch : q.action = a})
           /\ RowsApart({q \in NextBatch : q.action = a})
<1>1. {q \in NextBatch : q.action = a} \subseteq rows
  BY DEF NextBatch, Unfilled
<1>2. IsFiniteSet({q \in NextBatch : q.action = a})
  BY <1>1, FS_Subset DEF TypeInv
<1>3. QED
  BY <1>1, <1>2 DEF TypeInv, TypeOK, RowsApart

LEMMA NoStatType == NoStat \in Stat
BY DEF NoStat, Stat

LEMMA StartTyped ==
    ASSUME TypeInv, BackfillStarts \/ BackfillBatch \/ BackfillEnds \/ BackfillFails
    PROVE  TypeInv'
<1>1. CASE BackfillStarts
  <2>1. stat' \in [Actions -> Stat]
    BY <1>1, NoStatType DEF BackfillStarts, TypeInv, TypeOK
  <2>2. TypeOK'
    BY <1>1, <2>1 DEF BackfillStarts, TypeInv, TypeOK, runVars, historyVars
  <2>3. QED
    BY <1>1, <2>2 DEF BackfillStarts, TypeInv, historyVars
<1>2. CASE BackfillBatch
  <2>1. stat' \in [Actions -> Stat]
    BY <1>2, BatchFacts, FilledType DEF BackfillBatch, TypeInv, TypeOK
  <2>2. filled' \subseteq rows
    BY <1>2 DEF BackfillBatch, NextBatch, Unfilled, TypeInv, TypeOK
  <2>3. TypeOK'
    BY <1>2, <2>1, <2>2 DEF BackfillBatch, TypeInv, TypeOK, runVars, historyVars
  <2>4. QED
    BY <1>2, <2>3 DEF BackfillBatch, TypeInv, historyVars
<1>3. CASE BackfillEnds
  <2>1. TypeOK'
    BY <1>3 DEF BackfillEnds, TypeInv, TypeOK, runVars, historyVars
  <2>2. QED
    BY <1>3, <2>1 DEF BackfillEnds, TypeInv, historyVars
<1>4. CASE BackfillFails
  <2>1. faults' \in 0..MaxFaults
    BY <1>4, RunsAssumption DEF BackfillFails, TypeInv, TypeOK
  <2>2. TypeOK'
    BY <1>4, <2>1 DEF BackfillFails, TypeInv, TypeOK, runVars, historyVars, dbVars
  <2>3. QED
    BY <1>4, <2>2 DEF BackfillFails, TypeInv, historyVars, dbVars
<1>5. QED
  BY <1>1, <1>2, <1>3, <1>4

LEMMA PurgeTyped ==
    ASSUME TypeInv, Purge
    PROVE  TypeInv'
<1>1. /\ rows' \subseteq rows /\ phase = "up"
      /\ UNCHANGED <<exists, enabled, stat, complete, phase, filled, runVars, now,
                     edits, faults, historyVars>>
  BY DEF Purge
<1>2. IsFiniteSet(rows')
  BY <1>1, FS_Subset DEF TypeInv
<1>3. filled = {}
  BY <1>1 DEF TypeInv, TypeOK
<1>4. TypeOK'
  BY <1>1, <1>3 DEF TypeInv, TypeOK, runVars, historyVars
<1>5. QED
  BY <1>1, <1>2, <1>4 DEF TypeInv, historyVars

LEMMA CrashTyped ==
    ASSUME TypeInv, Crash
    PROVE  TypeInv'
<1>1. /\ pc' \in [Runs -> {"idle", "done", "gone"}]
      /\ phase' = "clear" /\ filled' = {}
  BY DEF Crash
<1>2. faults' \in 0..MaxFaults
  BY RunsAssumption DEF Crash, TypeInv, TypeOK
<1>3. TypeOK'
  BY <1>1, <1>2 DEF Crash, TypeInv, TypeOK, Steps, dbVars, historyVars
<1>4. QED
  BY <1>3 DEF Crash, TypeInv, dbVars, historyVars

LEMMA UserTyped ==
    ASSUME TypeInv, NEW a \in Actions, Toggle(a) \/ Delete(a) \/ Create(a)
    PROVE  TypeInv'
<1>1. edits' \in 0..MaxEdits /\ phase = "up" /\ filled = {}
  BY RunsAssumption DEF Toggle, Delete, Create, Edit, TypeInv, TypeOK
<1>2. CASE Toggle(a)
  <2>1. TypeOK'
    BY <1>1, <1>2 DEF Toggle, TypeInv, TypeOK, runVars, historyVars
  <2>2. QED
    BY <1>2, <2>1 DEF Toggle, TypeInv, historyVars
<1>3. CASE Delete(a)
  <2>1. stat' \in [Actions -> Stat]
    BY <1>3, NoStatType DEF Delete, TypeInv, TypeOK
  <2>2. rows' \subseteq rows /\ ends' \subseteq ends
    BY <1>3 DEF Delete
  <2>3. IsFiniteSet(rows') /\ IsFiniteSet(ends')
    BY <2>2, FS_Subset DEF TypeInv
  <2>4. TypeOK'
    BY <1>1, <1>3, <2>1, <2>2 DEF Delete, TypeInv, TypeOK, runVars
  <2>5. QED
    BY <2>3, <2>4 DEF TypeInv
<1>4. CASE Create(a)
  <2>1. TypeOK'
    BY <1>1, <1>4 DEF Create, TypeInv, TypeOK, runVars, historyVars
  <2>2. QED
    BY <1>4, <2>1 DEF Create, TypeInv, historyVars
<1>5. QED
  BY <1>2, <1>3, <1>4

LEMMA TickTyped ==
    ASSUME TypeInv, Tick
    PROVE  TypeInv'
<1>1. now' \in 0..MaxTime
  BY RunsAssumption DEF Tick, TypeInv, TypeOK
<1>2. TypeOK'
  BY <1>1 DEF Tick, TypeInv, TypeOK, dbVars, runVars, historyVars
<1>3. QED
  BY <1>2 DEF Tick, TypeInv, dbVars, historyVars

LEMMA InitTyped ==
    ASSUME Init
    PROVE  TypeInv /\ \A q \in rows : q.at <= now
<1> DEFINE ats == {q.at : q \in OldRows}
           over == {p \in OldRows : p.status # "running"}
<1>1. rows \subseteq Row /\ IsFiniteSet(rows) /\ \A p, q \in rows : p.id = q.id => p = q
  BY RunsAssumption DEF Init
<1>2. now \in 0..MaxTime /\ \A q \in rows : q.at <= now
  <2>1. CASE OldRows = {}
    BY <2>1, RunsAssumption DEF Init
  <2>2. CASE OldRows # {}
    <3>1. ats \subseteq Nat /\ IsFiniteSet(ats) /\ ats # {}
      <4>1. OldRows \in SUBSET Row /\ IsFiniteSet(OldRows)
        BY RunsAssumption
      <4>2. ats \subseteq Nat /\ IsFiniteSet(ats)
        BY <4>1, IdsFinite
      <4>3. QED
        BY <2>2, <4>2
    <3>2. \A n \in ats : n <= MaxTime
      BY RunsAssumption
    <3>3. now = Max(ats) /\ \A q \in rows : q.at \in ats
      BY <2>2 DEF Init
    <3> HIDE DEF ats
    <3>4. now \in ats /\ \A n \in ats : n <= now
      BY <3>1, <3>3, MaxFacts
    <3>5. now \in Nat /\ now <= MaxTime
      BY <3>1, <3>2, <3>4
    <3>6. \A q \in rows : q.at <= now
      BY <3>3, <3>4
    <3>7. MaxTime \in Nat
      BY RunsAssumption
    <3>8. QED
      BY <3>5, <3>6, <3>7
  <2>3. QED
    BY <2>1, <2>2
<1>3. ends \subseteq End /\ IsFiniteSet(ends)
  <2>1. ends = {EndOf(q) : q \in over}
    BY DEF Init
  <2>2. \A q \in over : EndOf(q) \in End
    BY RunsAssumption DEF EndOf, End, Row
  <2>3. IsFiniteSet(over)
    BY FS_Subset, RunsAssumption
  <2> DEFINE f == [q \in over |-> EndOf(q)]
  <2>4. f \in [over -> ends] /\ \A x \in ends : \E q \in over : f[q] = x
    BY <2>1
  <2> HIDE DEF f, over
  <2>5. IsFiniteSet(ends)
    BY <2>3, <2>4, ValuesFinite
  <2>6. QED
    BY <2>1, <2>2, <2>5
<1>4. stat \in [Actions -> Stat]
  BY NoStatType DEF Init
<1>5. Retries \in Nat /\ MaxEdits \in Nat /\ MaxFaults \in Nat
  BY RunsAssumption
<1>6. /\ pc \in [Runs -> Steps] /\ \A e \in Runs : pc[e] = "idle"
      /\ rowId \in [Runs -> Nat] /\ attempt \in [Runs -> 0..(Retries + 1)]
      /\ status \in [Runs -> {"none", "ok", "4xx", "5xx"}]
      /\ failure \in [Runs -> Failures \cup {"none"}]
  BY <1>5 DEF Init, Steps
<1>7. /\ saw \in [Runs -> SUBSET (Runs \cup {Old})]
      /\ storedAt \in [Runs -> Nat \cup {-1}] /\ retried \in [Runs -> SUBSET Failures]
  BY DEF Init
<1>8. /\ exists \subseteq Actions /\ enabled \subseteq exists /\ complete \in BOOLEAN
      /\ phase \in {"clear", "fill", "up"} /\ filled = {} /\ swapped \in BOOLEAN
      /\ edits \in 0..MaxEdits /\ faults \in 0..MaxFaults
  <2>1. /\ exists = Actions /\ enabled = Actions /\ complete = FALSE /\ phase = "clear"
        /\ filled = {} /\ swapped = FALSE /\ edits = 0 /\ faults = 0
    BY DEF Init
  <2>2. 0 \in 0..MaxEdits /\ 0 \in 0..MaxFaults
    BY <1>5
  <2>3. QED
    BY <2>1, <2>2
<1>9. TypeOK
  BY <1>1, <1>2, <1>3, <1>4, <1>6, <1>7, <1>8 DEF TypeOK
<1>10. QED
  BY <1>1, <1>2, <1>3, <1>9 DEF TypeInv

-----------------------------------------------------------------------------
(* Calls of the webhooks.                                                  *)

\* Before the run has a row.
Early == {"idle", "disabled", "ignore", "error", "reserve"}

\* What a row says of the run that made it: when it was reserved, or that it never
\* called and is done.
RowFits(q) ==
    q.by \in Runs =>
        \/ /\ Called(q.by) /\ q.at = storedAt[q.by]
           /\ q.status # "ignored_cooldown" /\ q.action = ActionOf[q.by]
        \/ ~Called(q.by) /\ pc[q.by] = "done"

\* Where a run is in its attempts.
Attempts(e) ==
    /\ pc[e] = "send" => attempt[e] <= Retries
    /\ pc[e] = "decide" => /\ failure[e] \in Failures
                           /\ failure[e] # "network" => status[e] = failure[e]
    /\ pc[e] \in {"send", "decide", "success", "failed"} => Called(e)

\* A run without a row has made no call.
RowLess(e) ==
    pc[e] \in Early => attempt[e] = 0 /\ ~Called(e) /\ \A q \in rows : q.by # e

\* The runs it saw when it looked have reserved their row or never will.
SawRows(e) == \A d \in saw[e] \cap Runs : pc[d] \notin Early

\* It goes on to reserve only after the cooldown of those it saw.
Waited(e) ==
    pc[e] = "reserve" /\ e \notin Forced =>
        \A d \in saw[e] \cap Runs :
            ActionOf[d] = ActionOf[e] /\ Called(d) => storedAt[d] + Cooldown <= now

\* PolicyKept but for the policy "5xx", which looks at the last status alone: an earlier
\* attempt may have left it (PolicyKept is violated then, see the README).
RetriesFit ==
    \A e \in Runs : PolicyOf[ActionOf[e]] # "5xx" =>
                      retried[e] \subseteq Allowed(PolicyOf[ActionOf[e]])

CallsInv ==
    /\ TypeInv /\ RetriesFit /\ SpacedOut
    /\ \A q \in rows : q.at <= now /\ RowFits(q)
    /\ \A e \in Runs : /\ Attempts(e) /\ RowLess(e) /\ SawRows(e) /\ Waited(e)
                       /\ storedAt[e] <= now

\* The start-up, the user, a crash and time: rows go, runs die.
LEMMA QuietSteps ==
    ASSUME CallsInv, TypeInv', rows' \subseteq rows, now <= now',
           \A e \in Runs : pc'[e] = pc[e] \/ (pc'[e] = "gone" /\ pc[e] # "done"),
           UNCHANGED <<attempt, status, failure, saw, storedAt, retried>>
    PROVE  CallsInv'
<1>1. RetriesFit' /\ SpacedOut'
  BY DEF CallsInv, RetriesFit, SpacedOut, Called
<1>2. \A q \in rows' : q.at <= now' /\ RowFits(q)'
  <2>1. \A q \in rows' : q.at <= now'
    BY RowParts DEF CallsInv, TypeInv, TypeOK
  <2>2. \A q \in rows' : RowFits(q)'
    BY DEF CallsInv, RowFits, Called
  <2>3. QED
    BY <2>1, <2>2
<1>3. \A e \in Runs : Attempts(e)' /\ RowLess(e)' /\ SawRows(e)'
  <2>1. \A e \in Runs : Attempts(e)'
    BY DEF CallsInv, Attempts, Called
  <2>2. \A e \in Runs : RowLess(e)'
    BY DEF CallsInv, RowLess, Early, Called
  <2>3. \A e \in Runs : SawRows(e)'
    BY DEF CallsInv, SawRows, Early
  <2>4. QED
    BY <2>1, <2>2, <2>3
<1>4. \A e \in Runs : Waited(e)' /\ storedAt'[e] <= now'
  BY RunsAssumption DEF CallsInv, Waited, TypeInv, TypeOK, Called
<1>5. QED
  BY <1>1, <1>2, <1>3, <1>4 DEF CallsInv

\* A run goes on after its row was reserved; a row may take its result.
LEMMA CallSteps ==
    ASSUME CallsInv, TypeInv', NEW e \in Runs, NEW step \in Steps, Goes(e, step),
           pc[e] \in {"send", "decide", "success", "failed"}, step \notin Early,
           UNCHANGED <<saw, storedAt, now>>, RetriesFit', Attempts(e)',
           \A d \in Runs \ {e} : /\ attempt'[d] = attempt[d] /\ status'[d] = status[d]
                                 /\ failure'[d] = failure[d],
           \A r \in rows' : \E q \in rows :
              /\ r.by = q.by /\ r.at = q.at /\ r.action = q.action
              /\ r.status \in {q.status, "success", "failed"}
    PROVE  CallsInv'
<1>1. pc'[e] = step /\ \A d \in Runs \ {e} : pc'[d] = pc[d]
  BY DEF Goes, CallsInv, TypeInv, TypeOK
<1>2. SpacedOut'
  BY DEF CallsInv, SpacedOut, Called
<1>3. Called(e)
  BY DEF CallsInv, Attempts
<1>4. \A r \in rows' : r.at <= now' /\ RowFits(r)'
  BY <1>1, <1>3 DEF CallsInv, RowFits, Called
<1>5. \A d \in Runs : Attempts(d)'
  BY <1>1 DEF CallsInv, Attempts, Called
<1>6. \A d \in Runs : RowLess(d)'
  BY <1>1 DEF CallsInv, RowLess, Called
<1>7. \A d \in Runs : SawRows(d)'
  BY <1>1 DEF CallsInv, SawRows
<1>8. \A d \in Runs : Waited(d)' /\ storedAt'[d] <= now'
  BY <1>1 DEF CallsInv, Waited, Called, Early
<1>9. QED
  BY <1>2, <1>4, <1>5, <1>6, <1>7, <1>8 DEF CallsInv

LEMMA SendKeeps ==
    ASSUME CallsInv, NEW e \in Runs, Send(e)
    PROVE  CallsInv'
<1>1. TypeInv'
  BY SendTyped DEF CallsInv, Attempts
<1>2. PICK step \in {"success", "decide", "failed"} : Goes(e, step)
  BY DEF Send
<1>3. pc[e] = "send" /\ pc'[e] = step
  BY <1>2 DEF Send, Goes, CallsInv, TypeInv, TypeOK
<1>4. Called(e)' /\ (pc'[e] = "decide" => failure'[e] \in Failures
                       /\ (failure'[e] # "network" => status'[e] = failure'[e]))
  BY <1>3 DEF Send, Failures, Goes, CallsInv, Attempts, Called, historyVars, TypeInv, TypeOK
<1>5. Attempts(e)'
  BY <1>2, <1>3, <1>4 DEF Attempts
<1>6. /\ \A d \in Runs \ {e} : /\ attempt'[d] = attempt[d] /\ status'[d] = status[d]
                               /\ failure'[d] = failure[d]
      /\ UNCHANGED <<saw, storedAt, now, rows, retried>>
  BY DEF Send, dbVars, historyVars, CallsInv, TypeInv, TypeOK
<1>7. RetriesFit'
  BY <1>6 DEF CallsInv, RetriesFit
<1>8. step \in Steps /\ step \notin Early
  BY DEF Steps, Early
<1>9. QED
  BY <1>1, <1>2, <1>3, <1>5, <1>6, <1>7, <1>8, CallSteps

LEMMA RetriesAllowed ==
    ASSUME NEW policy \in Policies, policy # "5xx", NEW fail \in Failures, NEW last,
           fail # "network" => last = fail,
           Retryable(policy, fail = "network", last)
    PROVE  fail \in Allowed(policy)
BY DEF Policies, Failures, Retryable, Allowed

LEMMA DecideKeeps ==
    ASSUME CallsInv, NEW e \in Runs, Decide(e)
    PROVE  CallsInv'
<1> DEFINE policy == PolicyOf[ActionOf[e]]
           again == /\ attempt[e] < Retries + 1
                    /\ Retryable(policy, failure[e] = "network", status[e])
<1>1. pc[e] = "decide" /\ failure[e] \in Failures /\ Called(e)
      /\ (failure[e] # "network" => status[e] = failure[e])
  BY DEF Decide, CallsInv, Attempts
<1>2. TypeInv'
  BY <1>1, DecideTyped DEF CallsInv
<1>3. /\ Goes(e, IF again THEN "send" ELSE "failed")
      /\ retried' = [retried EXCEPT ![e] = IF again THEN @ \cup {failure[e]} ELSE @]
      /\ UNCHANGED <<rows, attempt, status, failure, saw, storedAt, now>>
  BY DEF Decide, dbVars
<1>4. policy \in Policies
  BY RunsAssumption
<1>5. again => /\ policy # "5xx" => failure[e] \in Allowed(policy)
               /\ attempt[e] <= Retries
  <2>1. again => attempt[e] <= Retries
    BY RunsAssumption DEF CallsInv, TypeInv, TypeOK
  <2>2. again /\ policy # "5xx" => failure[e] \in Allowed(policy)
    BY <1>1, <1>4, RetriesAllowed
  <2>3. QED
    BY <2>1, <2>2
<1> HIDE DEF again
<1>6. RetriesFit'
  BY <1>3, <1>5 DEF RetriesFit, CallsInv, TypeInv, TypeOK
<1>7. PICK step \in {"send", "failed"} : Goes(e, step) /\ (step = "send" => again)
  BY <1>3
<1>8. pc'[e] = step /\ step \in Steps /\ step \notin Early
  BY <1>7 DEF Goes, Steps, Early, CallsInv, TypeInv, TypeOK
<1>9. Attempts(e)'
  BY <1>1, <1>3, <1>5, <1>7, <1>8 DEF Attempts, Called
<1>10. QED
  BY <1>1, <1>2, <1>3, <1>6, <1>7, <1>8, <1>9, CallSteps

\* The database fails a run that has no row yet.
LEMMA EarlyFaultKeeps ==
    ASSUME CallsInv, NEW e \in Runs, LookFails(e) \/ StoreBusy(e), pc[e] \in Early
    PROVE  CallsInv'
<1>1. PICK step \in {"done", "error"} : Goes(e, step)
  BY DEF LookFails, StoreBusy, Early
<1>2. UNCHANGED <<rows, attempt, status, failure, saw, storedAt, retried, now>>
  BY DEF LookFails, StoreBusy, dbVars, historyVars
<1>3. TypeInv'
  BY FaultTyped DEF CallsInv
<1>4. pc'[e] = step /\ \A d \in Runs \ {e} : pc'[d] = pc[d]
  BY <1>1 DEF Goes, CallsInv, TypeInv, TypeOK
<1>5. ~Called(e) /\ \A q \in rows : q.by # e
  BY DEF CallsInv, RowLess
<1>6. RetriesFit' /\ SpacedOut'
  BY <1>2 DEF CallsInv, RetriesFit, SpacedOut, Called
<1>7. \A q \in rows' : q.at <= now' /\ RowFits(q)'
  BY <1>2, <1>4, <1>5 DEF CallsInv, RowFits, Called
<1>8. \A d \in Runs : Attempts(d)' /\ RowLess(d)' /\ SawRows(d)'
  <2>1. \A d \in Runs : Attempts(d)'
    BY <1>2, <1>4 DEF CallsInv, Attempts, Called
  <2>2. \A d \in Runs : RowLess(d)'
    BY <1>2, <1>4 DEF CallsInv, RowLess, Called, Early
  <2>3. \A d \in Runs : SawRows(d)'
    BY <1>2, <1>4 DEF CallsInv, SawRows
  <2>4. QED
    BY <2>1, <2>2, <2>3
<1>9. \A d \in Runs : Waited(d)' /\ storedAt'[d] <= now'
  BY <1>2, <1>4 DEF CallsInv, Waited, Called
<1>10. QED
  BY <1>3, <1>6, <1>7, <1>8, <1>9 DEF CallsInv

LEMMA FinishKeeps ==
    ASSUME CallsInv, NEW e \in Runs, Finish(e) \/ StoreBusy(e), pc[e] \notin Early
    PROVE  CallsInv'
<1>1. PICK step \in {"done", "failed"} : Goes(e, step)
  BY DEF Finish, StoreBusy
<1>2. pc[e] \in {"success", "failed"} /\ Called(e)
  BY DEF Finish, StoreBusy, CallsInv, Attempts, Early
<1>3. pc'[e] = step /\ step \in Steps /\ step \notin Early
  BY <1>1 DEF Goes, Steps, Early, CallsInv, TypeInv, TypeOK
<1>4. TypeInv'
  BY <1>2, FinishTyped, FaultTyped DEF CallsInv
<1>5. UNCHANGED <<attempt, status, failure, saw, storedAt, now, retried>>
  BY DEF Finish, StoreBusy, historyVars
<1>6. \A r \in rows' : \E q \in rows :
         /\ r.by = q.by /\ r.at = q.at /\ r.action = q.action
         /\ r.status \in {q.status, "success", "failed"}
  <2>1. CASE UNCHANGED rows
    BY <2>1
  <2>2. CASE \E q \in rows : Stored(e, q)
    <3>1. PICK q \in rows : rows' = (rows \ {q}) \cup {[q EXCEPT !.status = pc[e]]}
      BY <2>2 DEF Stored
    <3> DEFINE row == [q EXCEPT !.status = pc[e]]
    <3>2. row.by = q.by /\ row.at = q.at /\ row.action = q.action /\ row.status = pc[e]
      BY RowParts DEF Row, CallsInv, TypeInv
    <3>3. rows' = (rows \ {q}) \cup {row}
      BY <3>1
    <3> HIDE DEF row
    <3>4. QED
      BY <1>2, <3>2, <3>3
  <2>3. QED
    BY <2>1, <2>2, FinishEffects DEF StoreBusy, dbVars, CallsInv
<1>7. Attempts(e)' /\ RetriesFit'
  BY <1>1, <1>2, <1>3, <1>5 DEF Attempts, Called, RetriesFit, CallsInv
<1>8. QED
  BY <1>1, <1>2, <1>3, <1>4, <1>5, <1>6, <1>7, CallSteps

\* No row of the action that counts is within the cooldown.
LEMMA NotCoolingDown ==
    ASSUME TypeInv, NEW a \in Actions, ~CoolingDown(a),
           NEW q \in rows, q.action = a, q.status # "ignored_cooldown"
    PROVE  q.at + Cooldown <= now
<1> DEFINE tried == {p \in rows : p.action = a /\ p.status # "ignored_cooldown"}
           ats == {p.at : p \in tried}
<1>1. tried \in SUBSET Row /\ IsFiniteSet(tried) /\ q \in tried
  BY FS_Subset DEF TypeInv, TypeOK
<1>2. ~(now < Max(ats) + Cooldown)
  BY <1>1 DEF CoolingDown
<1>3. q.at \in ats
  BY <1>1
<1> HIDE DEF tried
<1>4. ats \subseteq Nat /\ IsFiniteSet(ats)
  BY <1>1, IdsFinite
<1> HIDE DEF ats
<1>5. Max(ats) \in ats /\ q.at <= Max(ats)
  BY <1>3, <1>4, MaxFacts
<1>6. /\ q.at \in Nat /\ Max(ats) \in Nat
      /\ now \in Nat /\ Cooldown \in Nat
  <2>1. Max(ats) \in Nat
    BY <1>4, <1>5
  <2>2. q.at \in Nat
    BY RowParts DEF TypeInv
  <2>3. now \in Nat /\ Cooldown \in Nat
    BY RunsAssumption DEF TypeInv, TypeOK
  <2>4. QED
    BY <2>1, <2>2, <2>3
<1>7. QED
  BY <1>2, <1>5, <1>6

LEMMA LookKeeps ==
    ASSUME CallsInv, NEW e \in Runs, Look(e)
    PROVE  CallsInv'
<1> DEFINE a == ActionOf[e]
<1>1. PICK step \in {"done", "disabled", "ignore", "reserve"} :
        /\ Goes(e, step)
        /\ step = "reserve" =>
             e \in Forced \/ ~(Cooldown > 0) \/ ~CoolingDown(a)
  BY DEF Look
<1>2. /\ saw' = [saw EXCEPT ![e] = {q.by : q \in rows}]
      /\ UNCHANGED <<rows, attempt, status, failure, storedAt, retried, now>>
      /\ pc[e] = "idle"
  BY DEF Look, dbVars
<1>3. TypeInv'
  BY LookTyped DEF CallsInv
<1>4. /\ pc'[e] = step /\ saw'[e] = {q.by : q \in rows}
      /\ \A d \in Runs \ {e} : pc'[d] = pc[d] /\ saw'[d] = saw[d]
  BY <1>1, <1>2 DEF Goes, CallsInv, TypeInv, TypeOK
<1>5. ~Called(e) /\ \A q \in rows : q.by # e
  BY <1>2 DEF CallsInv, RowLess, Early
<1>6. RetriesFit' /\ SpacedOut'
  BY <1>2, <1>4, <1>5 DEF CallsInv, RetriesFit, SpacedOut, Called
<1>7. \A q \in rows' : q.at <= now' /\ RowFits(q)'
  BY <1>2, <1>4, <1>5 DEF CallsInv, RowFits, Called
<1>8. \A d \in Runs : Attempts(d)' /\ RowLess(d)'
  <2>1. \A d \in Runs : Attempts(d)'
    BY <1>1, <1>2, <1>4 DEF CallsInv, Attempts, Called
  <2>2. \A d \in Runs : RowLess(d)'
    BY <1>1, <1>2, <1>4, <1>5 DEF CallsInv, RowLess, Called, Early
  <2>3. QED
    BY <2>1, <2>2
<1>9. \A d \in saw'[e] \cap Runs : \E q \in rows : q.by = d /\ RowFits(q)
  BY <1>4 DEF CallsInv
<1>10. \A d \in saw'[e] \cap Runs : d # e /\ pc[d] \notin Early
  <2>1. SUFFICES ASSUME NEW d \in saw'[e] \cap Runs PROVE d # e /\ pc[d] \notin Early
    OBVIOUS
  <2>2. PICK q \in rows : q.by = d
    BY <1>9
  <2>3. QED
    BY <1>5, <2>2 DEF CallsInv, RowLess
<1>11. \A d \in Runs : SawRows(d)'
  <2>1. SawRows(e)'
    BY <1>4, <1>10 DEF SawRows
  <2>2. \A d \in Runs \ {e} : SawRows(d)'
    BY <1>1, <1>2, <1>4 DEF CallsInv, SawRows, Early
  <2>3. QED
    BY <2>1, <2>2
<1>12. Waited(e)'
  <2>1. SUFFICES ASSUME step = "reserve", e \notin Forced,
                        NEW d \in saw'[e] \cap Runs, ActionOf[d] = a, Called(d)
                 PROVE  storedAt[d] + Cooldown <= now
    BY <1>1, <1>2, <1>4 DEF Waited, Called
  <2>2. PICK q \in rows : q.by = d /\ RowFits(q)
    BY <1>9
  <2>3. q.at = storedAt[d] /\ q.status # "ignored_cooldown" /\ q.action = a
    BY <2>1, <2>2 DEF RowFits
  <2>4. a \in Actions /\ Cooldown \in Nat
    BY RunsAssumption
  <2>5. CASE ~CoolingDown(a)
    BY <2>3, <2>4, <2>5, NotCoolingDown DEF CallsInv
  <2>6. CASE ~(Cooldown > 0)
    <3>1. Cooldown = 0 /\ storedAt[d] <= now /\ storedAt[d] \in Nat
      BY <2>1, <2>4, <2>6 DEF CallsInv, TypeInv, TypeOK, Called
    <3>2. QED
      BY <3>1
  <2>7. QED
    BY <1>1, <2>1, <2>5, <2>6
<1>13. \A d \in Runs : Waited(d)' /\ storedAt'[d] <= now'
  BY <1>2, <1>4, <1>12 DEF CallsInv, Waited, Called
<1>14. QED
  BY <1>3, <1>6, <1>7, <1>8, <1>11, <1>13 DEF CallsInv

LEMMA StoreTerminalKeeps ==
    ASSUME CallsInv, NEW e \in Runs, StoreTerminal(e)
    PROVE  CallsInv'
<1>1. /\ Goes(e, "done") /\ pc[e] \in {"ignore", "disabled", "error"}
      /\ UNCHANGED <<attempt, status, failure, now, saw, storedAt, retried>>
  BY DEF StoreTerminal
<1>2. PICK row : row.by = e /\ row.at = now /\ rows' = rows \cup {row}
  BY DEF StoreTerminal
<1>3. TypeInv'
  BY StoreTerminalTyped DEF CallsInv
<1>4. pc'[e] = "done" /\ \A d \in Runs \ {e} : pc'[d] = pc[d]
  BY <1>1 DEF Goes, CallsInv, TypeInv, TypeOK
<1>5. ~Called(e)
  BY <1>1 DEF CallsInv, RowLess, Early
<1>6. RetriesFit' /\ SpacedOut'
  BY <1>1 DEF CallsInv, RetriesFit, SpacedOut, Called
<1>7. \A q \in rows' : q.at <= now' /\ RowFits(q)'
  <2>1. \A q \in rows : q.at <= now' /\ RowFits(q)'
    BY <1>1, <1>4, <1>5 DEF CallsInv, RowFits, Called
  <2>2. row.at <= now' /\ RowFits(row)'
    BY <1>1, <1>2, <1>4, <1>5 DEF RowFits, Called, CallsInv, TypeInv, TypeOK
  <2>3. QED
    BY <1>2, <2>1, <2>2
<1>8. \A d \in Runs : Attempts(d)' /\ RowLess(d)' /\ SawRows(d)'
  <2>1. \A d \in Runs : Attempts(d)'
    BY <1>1, <1>4 DEF CallsInv, Attempts, Called
  <2>2. \A d \in Runs : RowLess(d)'
    BY <1>1, <1>2, <1>4 DEF CallsInv, RowLess, Called, Early
  <2>3. \A d \in Runs : SawRows(d)'
    BY <1>1, <1>4 DEF CallsInv, SawRows, Early
  <2>4. QED
    BY <2>1, <2>2, <2>3
<1>9. \A d \in Runs : Waited(d)' /\ storedAt'[d] <= now'
  BY <1>1, <1>4 DEF CallsInv, Waited, Called
<1>10. QED
  BY <1>3, <1>6, <1>7, <1>8, <1>9 DEF CallsInv

LEMMA ReserveKeeps ==
    ASSUME CallsInv, NEW e \in Runs, Reserve(e)
    PROVE  CallsInv'
<1>1. /\ Goes(e, "send") /\ pc[e] = "reserve"
      /\ storedAt' = [storedAt EXCEPT ![e] = now]
      /\ UNCHANGED <<attempt, status, failure, now, saw, retried>>
  BY DEF Reserve
<1>2. PICK row : /\ row.by = e /\ row.at = now /\ row.status = "running"
                 /\ row.action = ActionOf[e] /\ rows' = rows \cup {row}
  BY DEF Reserve
<1>3. TypeInv'
  BY ReserveTyped DEF CallsInv
<1>4. /\ pc'[e] = "send" /\ storedAt'[e] = now
      /\ \A d \in Runs \ {e} : pc'[d] = pc[d] /\ storedAt'[d] = storedAt[d]
  BY <1>1 DEF Goes, CallsInv, TypeInv, TypeOK
<1>5. now \in Nat /\ Called(e)'
  BY <1>4 DEF Called, CallsInv, TypeInv, TypeOK
<1>6. /\ attempt[e] = 0 /\ ~Called(e)
      /\ \A q \in rows : q.by # e
      /\ \A d \in Runs : e \notin saw[d]
  BY <1>1 DEF CallsInv, RowLess, SawRows, Early
<1>7. RetriesFit'
  BY <1>1 DEF CallsInv, RetriesFit
<1>8. SpacedOut'
  <2>1. SUFFICES ASSUME NEW d \in Runs, NEW f \in Runs, ActionOf[d] = ActionOf[f],
                        f \notin Forced, Called(d)', Called(f)', d \in saw'[f]
                 PROVE  storedAt'[f] >= storedAt'[d] + Cooldown
    BY DEF SpacedOut
  <2>2. d # e /\ d \in saw[f] /\ Called(d)
    BY <1>1, <1>4, <1>6, <2>1 DEF Called
  <2>3. CASE f # e
    BY <1>4, <2>1, <2>2, <2>3 DEF CallsInv, SpacedOut, Called
  <2>4. CASE f = e
    <3>1. storedAt[d] + Cooldown <= now
      BY <1>1, <2>1, <2>2, <2>4 DEF CallsInv, Waited
    <3>2. storedAt'[f] = now /\ storedAt'[d] = storedAt[d] /\ storedAt[d] \in Nat
      BY <1>4, <2>2, <2>4 DEF CallsInv, TypeInv, TypeOK, Called
    <3>3. QED
      BY <1>5, <3>1, <3>2, RunsAssumption
  <2>5. QED
    BY <2>3, <2>4
<1>9. \A q \in rows' : q.at <= now' /\ RowFits(q)'
  <2>1. \A q \in rows : q.at <= now' /\ RowFits(q)'
    BY <1>1, <1>4, <1>6 DEF CallsInv, RowFits, Called
  <2>2. row.at <= now' /\ RowFits(row)'
    BY <1>1, <1>2, <1>4, <1>5 DEF RowFits
  <2>3. QED
    BY <1>2, <2>1, <2>2
<1>10. \A d \in Runs : Attempts(d)' /\ RowLess(d)' /\ SawRows(d)'
  <2>1. Attempts(e)'
    BY <1>1, <1>4, <1>5, <1>6, RunsAssumption DEF Attempts
  <2>2. \A d \in Runs \ {e} : Attempts(d)'
    BY <1>1, <1>4 DEF CallsInv, Attempts, Called
  <2>3. \A d \in Runs : RowLess(d)'
    BY <1>1, <1>2, <1>4 DEF CallsInv, RowLess, Called, Early
  <2>4. \A d \in Runs : SawRows(d)'
    BY <1>1, <1>4 DEF CallsInv, SawRows, Early
  <2>5. QED
    BY <2>1, <2>2, <2>3, <2>4
<1>11. \A d \in Runs : storedAt'[d] <= now'
  BY <1>1, <1>4, <1>5 DEF CallsInv
<1>12. \A d \in Runs : Waited(d)'
  BY <1>1, <1>4, <1>6 DEF CallsInv, Waited, Called
<1>13. QED
  BY <1>3, <1>7, <1>8, <1>9, <1>10, <1>11, <1>12 DEF CallsInv

LEMMA QuietKeeps ==
    ASSUME CallsInv,
           \/ BackfillStarts \/ BackfillBatch \/ BackfillEnds \/ BackfillFails
           \/ Purge \/ Crash \/ Tick
           \/ \E a \in Actions : Toggle(a) \/ Delete(a) \/ Create(a)
    PROVE  CallsInv'
<1>1. TypeInv'
  BY StartTyped, PurgeTyped, CrashTyped, TickTyped, UserTyped DEF CallsInv
<1>2. rows' \subseteq rows
  BY DEF BackfillStarts, BackfillBatch, BackfillEnds, BackfillFails, Purge, Crash, Tick,
         Toggle, Delete, Create, dbVars
<1>3. now <= now'
  BY DEF BackfillStarts, BackfillBatch, BackfillEnds, BackfillFails, Purge, Crash, Tick,
         Toggle, Delete, Create, CallsInv, TypeInv, TypeOK
<1>4. \A e \in Runs : pc'[e] = pc[e] \/ (pc'[e] = "gone" /\ pc[e] # "done")
  <2>1. CASE Crash
    BY <2>1 DEF Crash
  <2>2. CASE pc' = pc
    BY <2>2
  <2>3. QED
    BY <2>1, <2>2 DEF BackfillStarts, BackfillBatch, BackfillEnds, BackfillFails, Purge,
                      Tick, Toggle, Delete, Create, runVars
<1>5. UNCHANGED <<attempt, status, failure, saw, storedAt, retried>>
  BY DEF BackfillStarts, BackfillBatch, BackfillEnds, BackfillFails, Purge, Crash, Tick,
         Toggle, Delete, Create, runVars, historyVars
<1>6. QED
  BY <1>1, <1>2, <1>3, <1>4, <1>5, QuietSteps

LEMMA CallsInit == Init => CallsInv
<1> SUFFICES ASSUME Init PROVE CallsInv
  OBVIOUS
<1>1. TypeInv /\ \A q \in rows : q.at <= now
  BY InitTyped
<1>2. \A e \in Runs : /\ pc[e] = "idle" /\ attempt[e] = 0 /\ storedAt[e] = -1
                      /\ saw[e] = {} /\ retried[e] = {}
  BY DEF Init
<1>3. \A q \in rows : q.by = Old
  BY RunsAssumption DEF Init
<1>4. RetriesFit /\ SpacedOut /\ \A q \in rows : RowFits(q)
  BY <1>2, <1>3, RunsAssumption DEF RetriesFit, SpacedOut, Called, RowFits
<1>5. \A e \in Runs : Attempts(e) /\ RowLess(e) /\ SawRows(e) /\ Waited(e)
  BY <1>2, <1>3, RunsAssumption DEF Attempts, RowLess, SawRows, Waited, Called
<1>6. \A e \in Runs : storedAt[e] <= now
  BY <1>1, <1>2 DEF TypeInv, TypeOK
<1>7. QED
  BY <1>1, <1>4, <1>5, <1>6 DEF CallsInv

LEMMA CallsNext ==
    ASSUME CallsInv, [Next]_vars
    PROVE  CallsInv'
<1>1. ASSUME NEW e \in Runs, Look(e) \/ LookFails(e) \/ RunGoesOn(e) \/ StoreBusy(e)
      PROVE  CallsInv'
  <2>1. LookFails(e) => pc[e] \in Early
    BY DEF LookFails, Early
  <2>2. Finish(e) => pc[e] \notin Early
    BY DEF Finish, Early
  <2>3. QED
    BY <1>1, <2>1, <2>2, LookKeeps, StoreTerminalKeeps, ReserveKeeps, SendKeeps,
       DecideKeeps, FinishKeeps, EarlyFaultKeeps DEF RunGoesOn
<1>2. CASE UNCHANGED vars
  <2>1. TypeInv'
    BY <1>2 DEF CallsInv, TypeInv, TypeOK, vars, dbVars, runVars, historyVars
  <2>2. /\ rows' \subseteq rows /\ now' = now /\ pc' = pc
        /\ UNCHANGED <<attempt, status, failure, saw, storedAt, retried>>
    BY <1>2 DEF vars, dbVars, runVars, historyVars
  <2>3. now <= now'
    BY <2>2 DEF CallsInv, TypeInv, TypeOK
  <2>4. QED
    BY <2>1, <2>2, <2>3, QuietSteps
<1>3. QED
  BY <1>1, <1>2, QuietKeeps DEF Next, StartUp

\* Whatever crashes, is edited or is purged, a run that sees another one's row keeps
\* the cooldown: it calls no earlier than Cooldown after that one was reserved
\* (execute_action).
THEOREM SpacedOutAlways == Spec => [](TypeOK /\ SpacedOut)
<1>1. CallsInv => TypeOK /\ SpacedOut
  BY DEF CallsInv, TypeInv
<1>2. CallsInv /\ [Next]_vars => CallsInv'
  BY CallsNext
<1>3. QED
  BY <1>1, <1>2, CallsInit, PTL DEF Spec

\* When no action has the policy "5xx", calls are repeated only as the action's policy
\* says, too (_retryable and the loop of execute_action).
THEOREM CallsCorrectAlways ==
    ASSUME \A a \in Actions : PolicyOf[a] # "5xx"
    PROVE  Spec => []CallsCorrect
<1>1. CallsInv => CallsCorrect
  BY RunsAssumption DEF CallsInv, TypeInv, RetriesFit, PolicyKept, CallsCorrect
<1>2. CallsInv /\ [Next]_vars => CallsInv'
  BY CallsNext
<1>3. QED
  BY <1>1, <1>2, CallsInit, PTL DEF Spec

-----------------------------------------------------------------------------
(* Statistics.                                                             *)

Having(result, E) == {x \in E : x.status = result}

\* The statistics s are those of the results E.
Sums(s, E) ==
    /\ IsFiniteSet(E)
    /\ s.total = Cardinality(E)
    /\ s.success = Cardinality(Having("success", E))
    /\ s.failed = Cardinality(Having("failed", E))
    /\ s.ignored = Cardinality(Having("ignored_cooldown", E))
    /\ E = {} => s.lastAt = -1
    /\ E # {} => \E x \in E : /\ \A y \in E : y.at <= x.at
                              /\ s.last = x.status /\ s.lastAt = x.at

LEMMA OneMore ==
    ASSUME NEW E, IsFiniteSet(E), NEW x, x \notin E, NEW result
    PROVE  Cardinality(Having(result, E \cup {x}))
             = Cardinality(Having(result, E)) + One(x.status = result)
<1> DEFINE F == Having(result, E)
<1>1. IsFiniteSet(F) /\ Cardinality(F) \in Nat /\ x \notin F
  BY FS_Subset, FS_CardinalityType DEF Having
<1>2. CASE x.status = result
  <2>1. Having(result, E \cup {x}) = F \cup {x}
    BY <1>2 DEF Having
  <2> HIDE DEF F
  <2>2. Cardinality(F \cup {x}) = Cardinality(F) + 1
    BY <1>1, FS_AddElement
  <2>3. QED
    BY <1>2, <2>1, <2>2 DEF One, F
<1>3. CASE x.status # result
  <2>1. Having(result, E \cup {x}) = F
    BY <1>3 DEF Having
  <2> HIDE DEF F
  <2>2. Cardinality(F) = Cardinality(F) + 0
    BY <1>1
  <2>3. QED
    BY <1>3, <2>1, <2>2 DEF One, F
<1>4. QED
  BY <1>2, <1>3

\* One more result is counted once, and is the last one if it began last.
LEMMA UpsertedSums ==
    ASSUME NEW s \in Stat, NEW E \in SUBSET End, Sums(s, E), NEW x \in End, x \notin E
    PROVE  Sums(Upserted(s, x.status, x.at), E \cup {x})
<1> DEFINE t == Upserted(s, x.status, x.at)
           F == E \cup {x}
<1>1. IsFiniteSet(F) /\ Cardinality(F) = Cardinality(E) + 1
  BY FS_AddElement DEF Sums
<1>2. /\ t.total = s.total + 1
      /\ t.success = s.success + One(x.status = "success")
      /\ t.failed = s.failed + One(x.status = "failed")
      /\ t.ignored = s.ignored + One(x.status = "ignored_cooldown")
      /\ t.last = (IF x.at >= s.lastAt THEN x.status ELSE s.last)
      /\ t.lastAt = (IF x.at >= s.lastAt THEN x.at ELSE s.lastAt)
  BY DEF Upserted
<1>3. t.total = Cardinality(F)
  BY <1>1, <1>2 DEF Sums
<1>4. /\ t.success = Cardinality(Having("success", F))
      /\ t.failed = Cardinality(Having("failed", F))
      /\ t.ignored = Cardinality(Having("ignored_cooldown", F))
  <2>1. IsFiniteSet(E)
    BY DEF Sums
  <2>2. \A r : Cardinality(Having(r, F))
                = Cardinality(Having(r, E)) + One(x.status = r)
    BY <2>1, OneMore
  <2> HIDE DEF t, F
  <2>3. t.success = Cardinality(Having("success", F))
    BY <1>2, <2>2 DEF Sums
  <2>4. t.failed = Cardinality(Having("failed", F))
    BY <1>2, <2>2 DEF Sums
  <2>5. t.ignored = Cardinality(Having("ignored_cooldown", F))
    BY <1>2, <2>2 DEF Sums
  <2>6. QED
    BY <2>3, <2>4, <2>5
<1>5. \E z \in F : (\A y \in F : y.at <= z.at) /\ t.last = z.status /\ t.lastAt = z.at
  <2>1. x.at \in Nat /\ \A y \in E : y.at \in Nat
    BY DEF End
  <2>2. CASE E = {}
    <3>1. s.lastAt = -1
      BY <2>2 DEF Sums
    <3>2. t.last = x.status /\ t.lastAt = x.at
      BY <1>2, <2>1, <3>1
    <3>3. \A y \in F : y.at <= x.at
      BY <2>1, <2>2
    <3>4. QED
      BY <3>2, <3>3
  <2>3. CASE E # {}
    <3>1. PICK z \in E : (\A y \in E : y.at <= z.at) /\ s.last = z.status /\ s.lastAt = z.at
      BY <2>3 DEF Sums
    <3>2. CASE x.at >= z.at
      <4>1. \A y \in F : y.at <= x.at
        BY <2>1, <3>1, <3>2
      <4>2. t.last = x.status /\ t.lastAt = x.at
        BY <1>2, <3>1, <3>2
      <4>3. QED
        BY <4>1, <4>2
    <3>3. CASE ~(x.at >= z.at)
      <4>1. \A y \in F : y.at <= z.at
        BY <2>1, <3>1, <3>3
      <4>2. t.last = z.status /\ t.lastAt = z.at
        BY <1>2, <3>1, <3>3
      <4>3. QED
        BY <3>1, <4>1, <4>2
    <3>4. QED
      BY <3>2, <3>3
  <2>4. QED
    BY <2>2, <2>3
<1>6. F # {}
  OBVIOUS
<1> HIDE DEF t, F
<1>7. Sums(t, F)
  BY <1>1, <1>3, <1>4, <1>5, <1>6 DEF Sums
<1>8. QED
  BY <1>7 DEF t, F

LEMMA NothingSums == Sums(NoStat, {})
<1>1. Cardinality({}) = 0 /\ IsFiniteSet({})
  BY FS_EmptySet
<1>2. \A r : Having(r, {}) = {}
  BY DEF Having
<1>3. QED
  BY <1>1, <1>2 DEF Sums, NoStat

EndsOf(R) == {EndOf(q) : q \in R}

LEMMA EndParts ==
    ASSUME NEW q \in Row
    PROVE  /\ EndOf(q).status = q.status /\ EndOf(q).at = q.at /\ EndOf(q).id = q.id
           /\ EndOf(q).action = q.action /\ EndOf(q).by = q.by
           /\ q.status # "running" => EndOf(q) \in End
BY DEF EndOf, End, Row

\* A batch counts each of its rows once.
LEMMA FilledSums ==
    ASSUME NEW s \in Stat, NEW E \in SUBSET End, Sums(s, E),
           NEW batch \in SUBSET Row, IsFiniteSet(batch), RowsApart(batch),
           \A q \in batch : q.status # "running" /\ EndOf(q) \notin E
    PROVE  Sums(Filled(s, batch), E \cup EndsOf(batch))
<1> DEFINE holds == {h \in Stat \X SUBSET batch : Sums(h[1], E \cup EndsOf(h[2]))}
<1>1. <<s, {}>> \in holds
  <2>1. E \cup EndsOf({}) = E
    BY DEF EndsOf
  <2>2. QED
    BY <2>1
<1>2. ASSUME NEW t, NEW T \in SUBSET batch, NEW q \in batch \ T, <<t, T>> \in holds
      PROVE  <<Upserted(t, q.status, q.at), T \cup {q}>> \in holds
  <2> DEFINE x == EndOf(q)
             D == E \cup EndsOf(T)
  <2>1. q \in Row /\ x \in End /\ x.status = q.status /\ x.at = q.at
    BY EndParts
  <2>2. D \in SUBSET End
    BY EndParts DEF EndsOf
  <2>3. x \notin D
    <3>1. \A p \in T : EndOf(p).id # x.id
      BY EndParts DEF RowsApart
    <3>2. QED
      BY <3>1 DEF EndsOf
  <2>4. t \in Stat /\ Sums(t, D)
    BY <1>2
  <2>5. E \cup EndsOf(T \cup {q}) = D \cup {x}
    BY DEF EndsOf
  <2> HIDE DEF x, D
  <2>6. Sums(Upserted(t, q.status, q.at), E \cup EndsOf(T \cup {q}))
    BY <2>1, <2>2, <2>3, <2>4, <2>5, UpsertedSums
  <2>7. Upserted(t, q.status, q.at) \in Stat
    BY <2>1, <2>4, UpsertedType DEF Row
  <2>8. QED
    BY <2>6, <2>7
<1>3. <<Filled(s, batch), batch>> \in holds
  <2> HIDE DEF holds
  <2>1. QED
    BY <1>1, <1>2, FilledKeeps
<1>4. QED
  BY <1>3

Results(R) == EndsOf({q \in R : q.status # "running"})

Of(a, E) == {x \in E : x.action = a}

\* What a run stores, it stores once.
NoEnd(e) == pc[e] # "done" => \A x \in ends : x.by # e

\* The row that a run has reserved is its own, unless it was deleted.
OwnRow(e) ==
    pc[e] \in {"send", "decide", "success", "failed"} /\ ~swapped =>
        \A q \in {r \in rows : r.by = e} :
            /\ q.status = "running" /\ q.id = rowId[e]
            /\ q.at = storedAt[e] /\ q.action = ActionOf[e]

\* Before the backfill is complete, nothing was purged: every result has its row.
RowsHaveAll == ~complete /\ ~swapped => ends = Results(rows)

\* It is on its way to count them all.
FillSums ==
    phase = "fill" =>
        /\ ~complete /\ \A q \in filled : q.status # "running"
        /\ \A a \in Actions : Sums(stat[a], Of(a, Results(filled)))

StatSums == complete /\ ~swapped => \A a \in Actions : Sums(stat[a], Of(a, ends))

StatsInv ==
    /\ CallsInv
    /\ RowsHaveAll /\ FillSums /\ StatSums
    /\ \A e \in Runs : NoEnd(e) /\ OwnRow(e)

LEMMA SumsAreExact == StatsInv => StatsAreExact
<1> SUFFICES ASSUME StatsInv, complete, ~swapped, NEW a \in Actions
             PROVE  /\ stat[a].total = Cardinality(Ends(a))
                    /\ \A s \in {"success", "failed"} :
                         stat[a][s] = Cardinality({x \in Ends(a) : x.status = s})
                    /\ stat[a].ignored =
                         Cardinality({x \in Ends(a) : x.status = "ignored_cooldown"})
                    /\ Ends(a) # {} =>
                         \E x \in Latest(a) :
                            stat[a].last = x.status /\ stat[a].lastAt = x.at
  BY DEF StatsAreExact
<1>1. Sums(stat[a], Ends(a))
  BY DEF StatsInv, StatSums, Of, Ends
<1>2. QED
  BY <1>1 DEF Sums, Having, Latest

\* Neither rows nor results nor statistics change.
LEMMA StatsStay ==
    ASSUME StatsInv, CallsInv', UNCHANGED <<rows, stat, complete, ends, swapped>>,
           phase' = "fill" => phase = "fill" /\ filled' = filled,
           \A e \in Runs : /\ pc'[e] # "done" => pc[e] # "done"
                           /\ pc'[e] \in {"send", "decide", "success", "failed"} =>
                                /\ pc[e] \in {"send", "decide", "success", "failed"}
                                /\ rowId'[e] = rowId[e] /\ storedAt'[e] = storedAt[e]
    PROVE  StatsInv'
<1>1. RowsHaveAll' /\ StatSums'
  BY DEF StatsInv, RowsHaveAll, StatSums
<1>2. FillSums'
  BY DEF StatsInv, FillSums
<1>3. \A e \in Runs : NoEnd(e)' /\ OwnRow(e)'
  BY DEF StatsInv, NoEnd, OwnRow
<1>4. QED
  BY <1>1, <1>2, <1>3 DEF StatsInv

LEMMA StatsStayKeeps ==
    ASSUME StatsInv, CallsInv',
           \/ \E e \in Runs : \/ Look(e) \/ LookFails(e) \/ Send(e) \/ Decide(e)
                             \/ StoreBusy(e)
           \/ BackfillFails \/ Crash \/ Tick \/ UNCHANGED vars
           \/ \E a \in Actions : Toggle(a) \/ Create(a)
    PROVE  StatsInv'
<1> DEFINE Sending == {"send", "decide", "success", "failed"}
<1>1. /\ UNCHANGED <<rows, stat, complete, ends, swapped>>
      /\ phase' = "fill" => phase = "fill" /\ filled' = filled
      /\ UNCHANGED <<rowId, storedAt>>
  BY DEF Look, LookFails, Send, Decide, StoreBusy, BackfillFails, Crash, Tick, Toggle,
         Create, vars, dbVars, runVars, historyVars
<1>2. \A e \in Runs : /\ pc'[e] # "done" => pc[e] # "done"
                      /\ pc'[e] \in Sending => pc[e] \in Sending
  <2>1. CASE pc' = pc
    BY <2>1
  <2>2. CASE Crash
    BY <2>2 DEF Crash
  <2>3. ASSUME NEW e \in Runs, NEW step \in Steps, Goes(e, step), pc[e] # "done",
               pc[e] \in Sending \/ step \notin Sending
        PROVE  \A d \in Runs : /\ pc'[d] # "done" => pc[d] # "done"
                               /\ pc'[d] \in Sending => pc[d] \in Sending
    BY <2>3 DEF Goes, StatsInv, CallsInv, TypeInv, TypeOK
  <2>4. ASSUME NEW e \in Runs, Look(e)
        PROVE  \A d \in Runs : /\ pc'[d] # "done" => pc[d] # "done"
                               /\ pc'[d] \in Sending => pc[d] \in Sending
    <3>1. PICK step \in {"done", "disabled", "ignore", "reserve"} : Goes(e, step)
      BY <2>4 DEF Look
    <3>2. step \in Steps /\ pc[e] # "done" /\ step \notin Sending
      BY <2>4 DEF Look, Steps
    <3> HIDE DEF Sending
    <3>3. QED
      BY <2>3, <3>1, <3>2
  <2>5. ASSUME NEW e \in Runs, LookFails(e) \/ Send(e) \/ Decide(e) \/ StoreBusy(e)
        PROVE  \A d \in Runs : /\ pc'[d] # "done" => pc[d] # "done"
                               /\ pc'[d] \in Sending => pc[d] \in Sending
    <3>1. PICK step \in Steps : Goes(e, step) /\ (pc[e] \in Sending \/ step \notin Sending)
      BY <2>5 DEF LookFails, Send, Decide, StoreBusy, Steps
    <3>2. pc[e] # "done"
      BY <2>5 DEF LookFails, Send, Decide, StoreBusy
    <3> HIDE DEF Sending
    <3>3. QED
      BY <2>3, <3>1, <3>2
  <2>6. QED
    BY <2>1, <2>2, <2>4, <2>5 DEF BackfillFails, Tick, Toggle, Create, vars, runVars
<1>3. QED
  BY <1>1, <1>2, StatsStay

LEMMA ResultsAdd ==
    ASSUME NEW R, NEW row
    PROVE  Results(R \cup {row})
             = IF row.status = "running" THEN Results(R) ELSE Results(R) \cup {EndOf(row)}
<1>1. CASE row.status = "running"
  <2>1. {q \in R \cup {row} : q.status # "running"} = {q \in R : q.status # "running"}
    BY <1>1
  <2>2. QED
    BY <1>1, <2>1 DEF Results
<1>2. CASE row.status # "running"
  <2>1. {q \in R \cup {row} : q.status # "running"} = {q \in R : q.status # "running"} \cup {row}
    BY <1>2
  <2>2. QED
    BY <1>2, <2>1 DEF Results, EndsOf
<1>3. QED
  BY <1>1, <1>2

LEMMA ReserveStats ==
    ASSUME StatsInv, NEW e \in Runs, Reserve(e)
    PROVE  StatsInv'
<1>1. /\ Goes(e, "send") /\ pc[e] = "reserve" /\ phase = "up"
      /\ rowId' = [rowId EXCEPT ![e] = NewId]
      /\ storedAt' = [storedAt EXCEPT ![e] = now]
      /\ UNCHANGED <<stat, complete, phase, filled, ends, swapped>>
  BY StartPhase DEF Reserve, StatsInv, CallsInv, TypeInv
<1>2. PICK row : /\ row.by = e /\ row.at = now /\ row.status = "running" /\ row.id = NewId
                 /\ row.action = ActionOf[e] /\ rows' = rows \cup {row}
  BY DEF Reserve
<1>3. CallsInv'
  BY ReserveKeeps DEF StatsInv
<1>4. /\ pc'[e] = "send" /\ storedAt'[e] = now /\ rowId'[e] = NewId
      /\ \A d \in Runs \ {e} : /\ pc'[d] = pc[d] /\ storedAt'[d] = storedAt[d]
                               /\ rowId'[d] = rowId[d]
  BY <1>1 DEF Goes, StatsInv, CallsInv, TypeInv, TypeOK
<1>5. RowsHaveAll'
  BY <1>1, <1>2, ResultsAdd DEF StatsInv, RowsHaveAll
<1>6. FillSums' /\ StatSums'
  BY <1>1 DEF StatsInv, FillSums, StatSums
<1>7. \A d \in Runs : NoEnd(d)'
  BY <1>1, <1>4 DEF StatsInv, NoEnd
<1>8. \A q \in rows : q.by # e
  BY <1>1 DEF StatsInv, CallsInv, RowLess, Early
<1>9. OwnRow(e)'
  BY <1>2, <1>4, <1>8 DEF OwnRow
<1>10. \A d \in Runs \ {e} : OwnRow(d)'
  BY <1>1, <1>2, <1>4 DEF StatsInv, OwnRow
<1>11. QED
  BY <1>3, <1>5, <1>6, <1>7, <1>9, <1>10 DEF StatsInv

\* A run stores one result, of which there was none before.
LEMMA StatRecorded ==
    ASSUME StatsInv, NEW e \in Runs, NEW x \in End, x.action = ActionOf[e],
           \A y \in ends : y.by # x.by, ends' = ends \cup {x},
           stat' = Recorded(ActionOf[e], x.status, x.at), complete' = complete,
           ~swapped' => ~swapped
    PROVE  StatSums'
<1> DEFINE a == ActionOf[e]
<1>1. SUFFICES ASSUME complete, ~swapped, NEW b \in Actions
               PROVE  Sums(stat'[b], Of(b, ends'))
  BY DEF StatSums
<1>2. Sums(stat[b], Of(b, ends)) /\ stat[b] \in Stat /\ ends \subseteq End
  BY <1>1 DEF StatsInv, StatSums, CallsInv, TypeInv, TypeOK
<1>3. stat' = [stat EXCEPT ![a] = Upserted(@, x.status, x.at)]
  BY DEF Recorded
<1>4. CASE b = a
  <2>1. Of(b, ends') = Of(b, ends) \cup {x}
    BY <1>4 DEF Of
  <2>2. stat'[b] = Upserted(stat[b], x.status, x.at)
    BY <1>3, <1>4 DEF StatsInv, CallsInv, TypeInv, TypeOK
  <2>3. x \notin Of(b, ends) /\ Of(b, ends) \in SUBSET End
    BY <1>2 DEF Of
  <2>4. QED
    BY <1>2, <2>1, <2>2, <2>3, UpsertedSums
<1>5. CASE b # a
  <2>1. Of(b, ends') = Of(b, ends)
    BY <1>5 DEF Of
  <2>2. stat'[b] = stat[b]
    BY <1>3, <1>5 DEF StatsInv, CallsInv, TypeInv, TypeOK
  <2>3. QED
    BY <1>2, <2>1, <2>2
<1>6. QED
  BY <1>4, <1>5

LEMMA StoreTerminalStats ==
    ASSUME StatsInv, NEW e \in Runs, StoreTerminal(e)
    PROVE  StatsInv'
<1>1. /\ Goes(e, "done") /\ pc[e] \in {"ignore", "disabled", "error"} /\ phase = "up"
      /\ UNCHANGED <<complete, phase, filled, rowId, storedAt, swapped>>
  BY StartPhase DEF StoreTerminal, StatsInv, CallsInv, TypeInv
<1>2. PICK result \in {"ignored_cooldown", "disabled", "failed"} : \E row :
        /\ row = [id |-> NewId, action |-> ActionOf[e], status |-> result,
                  at |-> now, by |-> e]
        /\ rows' = rows \cup {row} /\ ends' = ends \cup {EndOf(row)}
        /\ stat' = Recorded(ActionOf[e], result, now)
  BY DEF StoreTerminal
<1>3. PICK row :
        /\ row = [id |-> NewId, action |-> ActionOf[e], status |-> result,
                  at |-> now, by |-> e]
        /\ rows' = rows \cup {row} /\ ends' = ends \cup {EndOf(row)}
        /\ stat' = Recorded(ActionOf[e], result, now)
  BY <1>2
<1>4. row \in Row /\ row.status = result /\ row.by = e /\ row.at = now
      /\ row.action = ActionOf[e] /\ result # "running"
  BY <1>3, NewIdFollows, RunsAssumption
     DEF Row, Statuses, StatsInv, CallsInv, TypeInv, TypeOK
<1>5. CallsInv'
  BY StoreTerminalKeeps DEF StatsInv
<1>6. pc'[e] = "done" /\ \A d \in Runs \ {e} : pc'[d] = pc[d]
  BY <1>1 DEF Goes, StatsInv, CallsInv, TypeInv, TypeOK
<1>7. RowsHaveAll'
  BY <1>1, <1>3, <1>4, ResultsAdd DEF StatsInv, RowsHaveAll
<1>8. FillSums'
  BY <1>1 DEF FillSums
<1>9. StatSums'
  <2>1. EndOf(row) \in End /\ EndOf(row).by = e /\ EndOf(row).status = result
        /\ EndOf(row).at = now /\ EndOf(row).action = ActionOf[e]
    BY <1>4, EndParts
  <2>2. \A y \in ends : y.by # e
    BY <1>1 DEF StatsInv, NoEnd
  <2>3. QED
    BY <1>1, <1>3, <2>1, <2>2, StatRecorded
<1>10. \A d \in Runs : NoEnd(d)'
  BY <1>3, <1>4, <1>6, EndParts DEF StatsInv, NoEnd
<1>11. \A d \in Runs : OwnRow(d)'
  BY <1>1, <1>3, <1>4, <1>6 DEF StatsInv, OwnRow
<1>12. QED
  BY <1>5, <1>7, <1>8, <1>9, <1>10, <1>11 DEF StatsInv

LEMMA ResultsReplace ==
    ASSUME NEW R, NEW q \in R, NEW row, q.status = "running", row.status # "running"
    PROVE  Results((R \ {q}) \cup {row}) = Results(R) \cup {EndOf(row)}
<1>1. {p \in (R \ {q}) \cup {row} : p.status # "running"}
        = {p \in R : p.status # "running"} \cup {row}
  OBVIOUS
<1>2. QED
  BY <1>1 DEF Results, EndsOf

LEMMA FinishStats ==
    ASSUME StatsInv, NEW e \in Runs, Finish(e)
    PROVE  StatsInv'
<1>1. /\ pc[e] \in {"success", "failed"} /\ phase = "up" /\ Goes(e, "done")
      /\ UNCHANGED <<complete, phase, filled, rowId, storedAt>>
  BY FinishEffects DEF StatsInv, CallsInv
<1>2. CallsInv'
  BY <1>1, FinishKeeps DEF StatsInv, Early
<1>3. pc'[e] = "done" /\ \A d \in Runs \ {e} : pc'[d] = pc[d]
  BY <1>1 DEF Goes, StatsInv, CallsInv, TypeInv, TypeOK
<1>4. CASE UNCHANGED <<rows, stat, ends, swapped>>
  <2>1. \A d \in Runs : /\ pc'[d] # "done" => pc[d] # "done"
                        /\ pc'[d] \in {"send", "decide", "success", "failed"} =>
                             pc[d] \in {"send", "decide", "success", "failed"}
    BY <1>3
  <2>2. QED
    BY <1>1, <1>2, <1>4, <2>1, StatsStay
<1>5. ASSUME NEW q \in rows, q.id = rowId[e], Stored(e, q)
      PROVE  StatsInv'
  <2> DEFINE row == [q EXCEPT !.status = pc[e]]
             x == [action |-> ActionOf[e], status |-> pc[e], at |-> storedAt[e],
                   id |-> q.id, by |-> e]
  <2>1. /\ rows' = (rows \ {q}) \cup {row} /\ ends' = ends \cup {x}
        /\ stat' = Recorded(ActionOf[e], pc[e], storedAt[e])
        /\ swapped' = (swapped \/ q.by # e)
    BY <1>5 DEF Stored
  <2>2. /\ row.id = q.id /\ row.action = q.action /\ row.at = q.at /\ row.by = q.by
        /\ row.status = pc[e] /\ row.status # "running"
    BY <1>1, RowParts DEF Row, StatsInv, CallsInv, TypeInv
  <2>3. x \in End
    <3>1. storedAt[e] \in Nat
      BY <1>1 DEF StatsInv, CallsInv, Attempts, Called, TypeInv, TypeOK
    <3>2. q.id \in Nat /\ ActionOf[e] \in Actions
      BY RowParts, RunsAssumption DEF StatsInv, CallsInv, TypeInv
    <3>3. QED
      BY <1>1, <3>1, <3>2 DEF End, Statuses
  <2>4. /\ x.by = e /\ x.status = pc[e] /\ x.at = storedAt[e] /\ x.action = ActionOf[e]
        /\ x.id = q.id
    OBVIOUS
  <2>5. \A y \in ends : y.by # e
    BY <1>1 DEF StatsInv, NoEnd
  <2>6. ~swapped' => /\ ~swapped /\ q.by = e /\ q.status = "running"
                     /\ q.at = storedAt[e] /\ q.action = ActionOf[e]
    BY <1>1, <2>1 DEF StatsInv, OwnRow
  <2>7. ~swapped' => EndOf(row) = x
    BY <2>2, <2>6 DEF EndOf
  <2> HIDE DEF row, x
  <2>8. RowsHaveAll'
    BY <1>1, <2>1, <2>2, <2>6, <2>7, ResultsReplace DEF StatsInv, RowsHaveAll
  <2>9. FillSums'
    BY <1>1 DEF FillSums
  <2>10. StatSums'
    BY <1>1, <2>1, <2>3, <2>4, <2>5, <2>6, StatRecorded
  <2>11. \A d \in Runs : NoEnd(d)'
    BY <1>3, <2>1, <2>4 DEF StatsInv, NoEnd
  <2>12. \A d \in Runs : OwnRow(d)'
    BY <1>1, <1>3, <2>1, <2>2, <2>6 DEF StatsInv, OwnRow
  <2>13. QED
    BY <1>2, <2>8, <2>9, <2>10, <2>11, <2>12 DEF StatsInv
<1>6. QED
  BY <1>4, <1>5, FinishEffects DEF StatsInv, CallsInv

-----------------------------------------------------------------------------
(* The start-up, the purge and deletion.                                   *)

LEMMA BackfillStartsStats ==
    ASSUME StatsInv, BackfillStarts
    PROVE  StatsInv'
<1>1. CallsInv'
  BY QuietKeeps DEF StatsInv
<1>2. UNCHANGED <<rows, complete, ends, swapped, pc, rowId, storedAt, filled>> /\ phase = "clear"
  BY DEF BackfillStarts, runVars, historyVars
<1>3. CASE complete
  <2>1. stat' = stat /\ phase' = "up"
    BY <1>3 DEF BackfillStarts
  <2>2. QED
    BY <1>1, <1>2, <2>1, StatsStay
<1>4. CASE ~complete
  <2>1. stat' = [a \in Actions |-> NoStat] /\ filled' = {}
    BY <1>2, <1>4 DEF BackfillStarts, StatsInv, CallsInv, TypeInv, TypeOK
  <2>2. \A a \in Actions : Of(a, Results(filled')) = {}
    BY <2>1 DEF Of, Results, EndsOf
  <2>3. FillSums'
    BY <1>2, <1>4, <2>1, <2>2, NothingSums DEF FillSums
  <2>4. RowsHaveAll' /\ StatSums'
    BY <1>2, <1>4 DEF StatsInv, RowsHaveAll, StatSums
  <2>5. \A e \in Runs : NoEnd(e)' /\ OwnRow(e)'
    BY <1>2 DEF StatsInv, NoEnd, OwnRow
  <2>6. QED
    BY <1>1, <2>3, <2>4, <2>5 DEF StatsInv
<1>5. QED
  BY <1>3, <1>4

LEMMA BackfillBatchStats ==
    ASSUME StatsInv, BackfillBatch
    PROVE  StatsInv'
<1>1. CallsInv'
  BY QuietKeeps DEF StatsInv
<1>2. /\ UNCHANGED <<rows, complete, phase, ends, swapped, pc, rowId, storedAt>>
      /\ phase = "fill" /\ filled' = filled \cup NextBatch
      /\ stat' = [a \in Actions |->
                    Filled(stat[a], {q \in NextBatch : q.action = a})]
  BY DEF BackfillBatch, runVars, historyVars
<1>3. ~complete /\ \A q \in filled : q.status # "running"
  BY <1>2 DEF StatsInv, FillSums
<1>4. NextBatch \subseteq rows \ filled /\ \A q \in NextBatch : q.status # "running"
  BY DEF NextBatch, Unfilled
<1>5. ASSUME NEW a \in Actions
      PROVE  Sums(stat'[a], Of(a, Results(filled')))
  <2> DEFINE batch == {q \in NextBatch : q.action = a}
             E == Of(a, Results(filled))
  <2>1. batch \in SUBSET Row /\ IsFiniteSet(batch) /\ RowsApart(batch)
    BY BatchFacts DEF StatsInv, CallsInv
  <2>2. stat[a] \in Stat /\ Sums(stat[a], E) /\ stat'[a] = Filled(stat[a], batch)
    BY <1>2 DEF StatsInv, FillSums, CallsInv, TypeInv, TypeOK
  <2>3. filled \subseteq rows /\ rows \subseteq Row /\ RowsApart(rows)
    BY DEF StatsInv, CallsInv, TypeInv, TypeOK, RowsApart
  <2>4. \A x \in E : \E p \in filled : x = EndOf(p) /\ p \in Row /\ p.status # "running"
    BY <2>3 DEF Of, Results, EndsOf
  <2>5. E \in SUBSET End
    BY <2>4, EndParts
  <2>6. \A q \in batch : q.status # "running" /\ EndOf(q) \notin E
    <3>1. ASSUME NEW q \in batch, NEW p \in filled PROVE EndOf(q) # EndOf(p)
      <4>1. q \in rows /\ p \in rows /\ q # p
        BY <1>4, <2>3, <3>1
      <4>2. q.id # p.id
        BY <2>3, <4>1 DEF RowsApart
      <4>3. QED
        BY <2>3, <4>1, <4>2, EndParts
    <3>2. QED
      BY <1>4, <2>4, <3>1
  <2>7. Of(a, Results(filled')) = E \cup EndsOf(batch)
    <3>1. Results(filled') = Results(filled) \cup EndsOf(NextBatch)
      BY <1>2, <1>3, <1>4 DEF Results, EndsOf
    <3>2. Of(a, EndsOf(NextBatch)) = EndsOf(batch)
      BY <1>4, <2>3, EndParts DEF Of, EndsOf
    <3>3. QED
      BY <3>1, <3>2 DEF Of
  <2> HIDE DEF batch, E
  <2>8. QED
    BY <2>1, <2>2, <2>5, <2>6, <2>7, FilledSums
<1>6. FillSums'
  BY <1>2, <1>3, <1>4, <1>5 DEF FillSums
<1>7. RowsHaveAll' /\ StatSums'
  BY <1>2, <1>3 DEF StatsInv, RowsHaveAll, StatSums
<1>8. \A e \in Runs : NoEnd(e)' /\ OwnRow(e)'
  BY <1>2 DEF StatsInv, NoEnd, OwnRow
<1>9. QED
  BY <1>1, <1>6, <1>7, <1>8 DEF StatsInv

LEMMA BackfillEndsStats ==
    ASSUME StatsInv, BackfillEnds
    PROVE  StatsInv'
<1>1. CallsInv'
  BY QuietKeeps DEF StatsInv
<1>2. /\ UNCHANGED <<rows, stat, ends, swapped, pc, rowId, storedAt>>
      /\ phase = "fill" /\ phase' = "up" /\ Unfilled = {} /\ complete'
  BY DEF BackfillEnds, runVars, historyVars
<1>3. ~complete /\ \A q \in filled : q.status # "running"
  BY <1>2 DEF StatsInv, FillSums
<1>4. Results(filled) = Results(rows)
  <2>1. filled \subseteq rows
    BY DEF StatsInv, CallsInv, TypeInv, TypeOK
  <2>2. {q \in filled : q.status # "running"} = {q \in rows : q.status # "running"}
    BY <1>2, <2>1 DEF Unfilled
  <2>3. QED
    BY <2>2 DEF Results
<1>5. ~swapped => ends = Results(filled)
  BY <1>3, <1>4 DEF StatsInv, RowsHaveAll
<1>6. StatSums'
  BY <1>2, <1>5 DEF StatsInv, FillSums, StatSums
<1>7. RowsHaveAll' /\ FillSums'
  BY <1>2 DEF RowsHaveAll, FillSums
<1>8. \A e \in Runs : NoEnd(e)' /\ OwnRow(e)'
  BY <1>2 DEF StatsInv, NoEnd, OwnRow
<1>9. QED
  BY <1>1, <1>6, <1>7, <1>8 DEF StatsInv

LEMMA PurgeStats ==
    ASSUME StatsInv, Purge
    PROVE  StatsInv'
<1>1. CallsInv'
  BY QuietKeeps DEF StatsInv
<1>2. /\ UNCHANGED <<stat, complete, phase, ends, swapped, pc, rowId, storedAt>>
      /\ phase = "up" /\ complete /\ rows' \subseteq rows
  BY DEF Purge, PurgeAllowed, runVars, historyVars
<1>3. RowsHaveAll' /\ FillSums' /\ StatSums'
  BY <1>2 DEF StatsInv, RowsHaveAll, FillSums, StatSums
<1>4. \A e \in Runs : NoEnd(e)' /\ OwnRow(e)'
  BY <1>2 DEF StatsInv, NoEnd, OwnRow
<1>5. QED
  BY <1>1, <1>3, <1>4 DEF StatsInv

LEMMA DeleteStats ==
    ASSUME StatsInv, NEW a \in Actions, Delete(a)
    PROVE  StatsInv'
<1>1. CallsInv'
  BY QuietKeeps DEF StatsInv
<1>2. /\ UNCHANGED <<complete, phase, swapped, pc, rowId, storedAt>>
      /\ phase = "up" /\ rows' = {q \in rows : q.action # a}
      /\ ends' = {x \in ends : x.action # a}
      /\ stat' = [stat EXCEPT ![a] = NoStat]
  BY DEF Delete, Edit, runVars
<1>3. RowsHaveAll'
  <2>1. Results(rows') = {x \in Results(rows) : x.action # a}
    BY <1>2, EndParts DEF Results, EndsOf, StatsInv, CallsInv, TypeInv, TypeOK
  <2>2. QED
    BY <1>2, <2>1 DEF StatsInv, RowsHaveAll
<1>4. FillSums'
  BY <1>2 DEF FillSums
<1>5. StatSums'
  <2>1. SUFFICES ASSUME complete, ~swapped, NEW b \in Actions
                 PROVE  Sums(stat'[b], Of(b, ends'))
    BY <1>2 DEF StatSums
  <2>2. CASE b = a
    <3>1. Of(b, ends') = {} /\ stat'[b] = NoStat
      BY <1>2, <2>2 DEF Of, StatsInv, CallsInv, TypeInv, TypeOK
    <3>2. QED
      BY <3>1, NothingSums
  <2>3. CASE b # a
    <3>1. Of(b, ends') = Of(b, ends) /\ stat'[b] = stat[b]
      BY <1>2, <2>3 DEF Of, StatsInv, CallsInv, TypeInv, TypeOK
    <3>2. QED
      BY <2>1, <3>1 DEF StatsInv, StatSums
  <2>4. QED
    BY <2>2, <2>3
<1>6. \A e \in Runs : NoEnd(e)' /\ OwnRow(e)'
  BY <1>2 DEF StatsInv, NoEnd, OwnRow
<1>7. QED
  BY <1>1, <1>3, <1>4, <1>5, <1>6 DEF StatsInv

LEMMA StatsInit == Init => StatsInv
<1> SUFFICES ASSUME Init PROVE StatsInv
  OBVIOUS
<1>1. CallsInv
  BY CallsInit
<1>2. /\ ends = Results(rows) /\ ~complete /\ phase = "clear"
      /\ \A e \in Runs : pc[e] = "idle"
  BY DEF Init, Results, EndsOf
<1>3. RowsHaveAll /\ FillSums /\ StatSums
  BY <1>2 DEF RowsHaveAll, FillSums, StatSums
<1>4. \A x \in ends : x.by = Old
  <2>1. \A q \in rows : q \in Row /\ q.by = Old
    BY RunsAssumption DEF Init
  <2>2. QED
    BY <1>2, <2>1, EndParts DEF Results, EndsOf
<1>5. \A e \in Runs : NoEnd(e) /\ OwnRow(e)
  BY <1>2, <1>4, RunsAssumption DEF NoEnd, OwnRow
<1>6. QED
  BY <1>1, <1>3, <1>5 DEF StatsInv

LEMMA StatsNext ==
    ASSUME StatsInv, [Next]_vars
    PROVE  StatsInv'
<1>1. CallsInv'
  BY CallsNext DEF StatsInv
<1>2. ASSUME NEW e \in Runs, Look(e) \/ LookFails(e) \/ RunGoesOn(e) \/ StoreBusy(e)
      PROVE  StatsInv'
  BY <1>1, <1>2, StatsStayKeeps, StoreTerminalStats, ReserveStats, FinishStats DEF RunGoesOn
<1>3. ASSUME NEW a \in Actions, Toggle(a) \/ Delete(a) \/ Create(a)
      PROVE  StatsInv'
  BY <1>1, <1>3, StatsStayKeeps, DeleteStats
<1>4. CASE BackfillFails \/ Crash \/ Tick \/ UNCHANGED vars
  BY <1>1, <1>4, StatsStayKeeps
<1>5. CASE StartUp \/ Purge
  BY <1>5, BackfillStartsStats, BackfillBatchStats, BackfillEndsStats, PurgeStats DEF StartUp
<1>6. QED
  BY <1>2, <1>3, <1>4, <1>5 DEF Next

\* Once the backfill is complete, an action's statistics are those of all the results
\* ever stored for it, each counted once, however often the start-up was cut off,
\* whatever was purged since, and in whatever order runs ended
\* (record_action_result, ensure_action_stats_backfilled, purge_action_executions).
THEOREM StatsAreExactAlways == Spec => []StatsAreExact
<1>1. StatsInv => StatsAreExact
  BY SumsAreExact
<1>2. StatsInv /\ [Next]_vars => StatsInv'
  BY StatsNext
<1>3. QED
  BY <1>1, <1>2, StatsInit, PTL DEF Spec
=============================================================================
