------------------------- MODULE ScanOutcomeProofs -------------------------
(***************************************************************************)
(* What becomes of a scan: if its barcode is linked, the pools it is routed*)
(* through (RoutePools), for any jobs, any number of workers and any room to*)
(* queue; if not, its note and its retry (ShoppingNotes), for any number of*)
(* barcodes, requests, edits, faults and attempts.                         *)
(*                                                                         *)
(* Of the notes, OnceInv says that every row of the queue stands for a     *)
(* request that has made no entry yet, and KeptInv that whatever was loaded,*)
(* read or is under way is either in the queue still or has been made.     *)
(***************************************************************************)
EXTENDS MCOutcomes, FiniteSetTheorems, WellFoundedInduction, TLAPS

-----------------------------------------------------------------------------
(* Routes and their pools (RoutePools).                                    *)

\* What the assumptions say of the jobs and of the pools they go to.
LEMMA JobFacts ==
    /\ \A j \in Jobs : Len(Kids[j]) \in Nat /\ KidsOf(j) \subseteq Jobs \ Drivers
    /\ \A j \in Jobs : \A i \in 1..Len(Kids[j]) : Kids[j][i] \in KidsOf(j)
    /\ \A j \in Jobs : PoolOf(j) \in Pools
    /\ \A p \in Pools : Workers[p] \in Nat \ {0} /\ Capacity(p) \in Nat \ {0}
<1>1. \A j \in Jobs : Len(Kids[j]) \in Nat
  BY KidsAssumption
<1>2. \A j \in Jobs : KidsOf(j) \subseteq Targets \cup Lists
  BY KidsAssumption DEF Jobs, KidsOf
<1>3. (Targets \cup Lists) \cap Drivers = {}
  BY JobsAssumption
<1>4. \A p \in Pools : Workers[p] \in Nat \ {0} /\ Capacity(p) \in Nat \ {0}
  BY PoolsAssumption DEF Capacity
<1>5. \A j \in Jobs : PoolOf(j) \in Pools
  BY DEF PoolOf, Pools
<1>6. \A j \in Jobs : \A i \in 1..Len(Kids[j]) : Kids[j][i] \in KidsOf(j)
  BY DEF KidsOf
<1>7. QED
  BY <1>1, <1>2, <1>3, <1>4, <1>5, <1>6 DEF Jobs

\* A job's kids are new exactly as long as it has not submitted them.
KidsInv ==
    \A j \in Jobs : \A i \in 1..Len(Kids[j]) :
        i > sent[j] <=> stage[Kids[j][i]] = "new"

\* Only routes are refused, and nothing on a request thread is queued.
StagesInv ==
    \A j \in Jobs : /\ stage[j] = "refused" => j \in Routes
                    /\ stage[j] = "queued" => j \notin Inline

TypeInv == TypeOK /\ KidsInv /\ StagesInv

\* The next kid of a job is a new job below it in the tree.
LEMMA NextKidFacts ==
    ASSUME TypeInv, NEW j \in Jobs, Submitting(j)
    PROVE  /\ NextKid(j) \in KidsOf(j)
           /\ NextKid(j) \in Jobs \ Drivers
           /\ stage[NextKid(j)] = "new"
           /\ PoolOf(NextKid(j)) \in Pools
           /\ sent[j] + 1 \in 1..Len(Kids[j])
<1>1. sent[j] \in Nat /\ Len(Kids[j]) \in Nat /\ sent[j] < Len(Kids[j])
  BY JobFacts DEF TypeInv, TypeOK, Submitting
<1>2. sent[j] + 1 \in 1..Len(Kids[j]) /\ sent[j] + 1 > sent[j]
  BY <1>1
<1>3. stage[Kids[j][sent[j] + 1]] = "new"
  BY <1>2 DEF TypeInv, KidsInv
<1>4. QED
  BY <1>2, <1>3, JobFacts DEF NextKid

\* Permits stay natural numbers when a job ends.
LEMMA EndsTypes ==
    ASSUME TypeInv, NEW j \in Jobs, NEW result \in Outcomes \ {"none"},
           Ends(j, permits, result)
    PROVE  TypeInv'
<1>1. PoolOf(j) \in Pools /\ permits[PoolOf(j)] + 1 \in Nat
  BY JobFacts DEF TypeInv, TypeOK
<1>2. permits' \in [Pools -> Nat]
  BY <1>1 DEF Ends, TypeInv, TypeOK
<1>3. TypeOK'
  BY <1>2 DEF Ends, TypeInv, TypeOK, Stages, Outcomes
<1>4. KidsInv'
  <2> SUFFICES ASSUME NEW k \in Jobs, NEW i \in 1..Len(Kids[k])
               PROVE  i > sent[k] <=> stage'[Kids[k][i]] = "new"
    BY DEF Ends, KidsInv
  <2>1. i > sent[k] <=> stage[Kids[k][i]] = "new"
    BY DEF TypeInv, KidsInv
  <2>2. stage'[Kids[k][i]] = "new" <=> stage[Kids[k][i]] = "new"
    BY DEF Ends, TypeInv, TypeOK
  <2>3. QED
    BY <2>1, <2>2
<1>5. StagesInv'
  BY DEF Ends, TypeInv, TypeOK, StagesInv
<1>6. QED
  BY <1>3, <1>4, <1>5 DEF TypeInv

\* A job that moves between stages other than "new", or that nobody submits,
\* leaves the kids of all jobs as they are.
LEMMA KidsKept ==
    ASSUME TypeInv, NEW j \in Jobs, NEW s \in Stages,
           stage' = [stage EXCEPT ![j] = s], UNCHANGED sent,
           \/ stage[j] # "new" /\ s # "new"
           \/ j \in Drivers
    PROVE  KidsInv'
<1> SUFFICES ASSUME NEW k \in Jobs, NEW i \in 1..Len(Kids[k])
             PROVE  i > sent[k] <=> stage'[Kids[k][i]] = "new"
  BY DEF KidsInv
<1>1. i > sent[k] <=> stage[Kids[k][i]] = "new"
  BY DEF TypeInv, KidsInv
<1>2. Kids[k][i] \in Jobs \ Drivers
  BY JobFacts
<1>3. stage'[Kids[k][i]] = "new" <=> stage[Kids[k][i]] = "new"
  BY <1>2 DEF TypeInv, TypeOK
<1>4. QED
  BY <1>1, <1>3

LEMMA TypeStep == TypeInv /\ [Next]_vars => TypeInv'
<1> SUFFICES ASSUME TypeInv, [Next]_vars PROVE TypeInv'
  OBVIOUS
<1>1. ASSUME NEW j \in Jobs, Admit(j) PROVE TypeInv'
  <2>1. j \in Drivers /\ PoolOf(j) \in Pools /\ j \notin Inline
    BY <1>1, JobFacts, JobsAssumption DEF Admit, Drivers
  <2>2. permits' \in [Pools -> Nat]
    BY <1>1, <2>1 DEF Admit, Submitted, TypeInv, TypeOK
  <2>3. TypeOK'
    BY <1>1, <2>2 DEF Admit, Submitted, TypeInv, TypeOK, Stages
  <2>4. KidsInv'
    BY <1>1, <2>1, KidsKept DEF Admit, Submitted, Stages
  <2>5. StagesInv'
    BY <1>1, <2>1 DEF Admit, Submitted, TypeInv, TypeOK, StagesInv
  <2>6. QED
    BY <2>3, <2>4, <2>5 DEF TypeInv
<1>2. ASSUME NEW j \in Jobs, Refuse(j) PROVE TypeInv'
  <2>1. j \in Drivers
    BY <1>2 DEF Refuse, Drivers
  <2>2. KidsInv'
    BY <1>2, <2>1, KidsKept DEF Refuse, Stages
  <2>3. TypeOK' /\ StagesInv'
    BY <1>2 DEF Refuse, GivenBack, TypeInv, TypeOK, StagesInv, Stages
  <2>4. QED
    BY <2>2, <2>3 DEF TypeInv
<1>3. ASSUME NEW j \in Jobs, RunInline(j) PROVE TypeInv'
  <2>1. j \in Drivers
    BY <1>3 DEF RunInline, Drivers
  <2>2. KidsInv'
    BY <1>3, <2>1, KidsKept DEF RunInline, Stages
  <2>3. TypeOK' /\ StagesInv'
    BY <1>3 DEF RunInline, TypeInv, TypeOK, StagesInv, Stages
  <2>4. QED
    BY <2>2, <2>3 DEF TypeInv
<1>4. ASSUME NEW j \in Jobs, Start(j) PROVE TypeInv'
  <2>1. KidsInv'
    BY <1>4, KidsKept DEF Start, Stages
  <2>2. TypeOK' /\ StagesInv'
    BY <1>4 DEF Start, TypeInv, TypeOK, StagesInv, Stages
  <2>3. QED
    BY <2>1, <2>2 DEF TypeInv
<1>5. ASSUME NEW j \in Jobs, Submit(j) PROVE TypeInv'
  <2> DEFINE k == NextKid(j)
  <2>1. Submitting(j) /\ Submitted(k) /\ sent' = [sent EXCEPT ![j] = @ + 1]
    BY <1>5 DEF Submit
  <2>2. k = Kids[j][sent[j] + 1]
    BY DEF NextKid
  <2>3. /\ k \in Jobs \ Drivers /\ stage[k] = "new" /\ PoolOf(k) \in Pools
        /\ sent[j] + 1 \in 1..Len(Kids[j])
    BY <2>1, NextKidFacts
  <2> HIDE DEF k
  <2>4. permits' \in [Pools -> Nat]
    BY <2>1, <2>3 DEF Submitted, TypeInv, TypeOK
  <2>5. TypeOK'
    <3>1. stage' = [stage EXCEPT ![k] = "queued"] /\ UNCHANGED <<outcome, closing>>
      BY <1>5, <2>1 DEF Submit, Submitted
    <3>2. /\ stage' \in [Jobs -> Stages]
          /\ \A m \in Jobs : stage'[m] = "done" <=> outcome[m] # "none"
      BY <2>3, <3>1 DEF TypeInv, TypeOK, Stages
    <3>3. sent' \in [Jobs -> Nat] /\ \A m \in Jobs : sent'[m] <= Len(Kids[m])
      BY <2>1, <2>3, JobFacts DEF TypeInv, TypeOK
    <3>4. QED
      BY <2>4, <3>1, <3>2, <3>3 DEF TypeInv, TypeOK
  <2>6. KidsInv'
    <3> SUFFICES ASSUME NEW m \in Jobs, NEW i \in 1..Len(Kids[m])
                 PROVE  i > sent'[m] <=> stage'[Kids[m][i]] = "new"
      BY DEF KidsInv
    <3>1. i > sent[m] <=> stage[Kids[m][i]] = "new"
      BY DEF TypeInv, KidsInv
    <3>2. i \in Nat /\ sent[m] \in Nat /\ Kids[m][i] \in Jobs
      BY JobFacts DEF TypeInv, TypeOK
    <3>3. CASE m = j /\ i = sent[j] + 1
      BY <2>1, <2>2, <2>3, <3>2, <3>3 DEF Submitted, TypeInv, TypeOK
    <3>4. CASE m # j \/ i # sent[j] + 1
      <4>1. Kids[m][i] # k
        BY <2>2, <2>3, <3>4, KidsAssumption
      <4>2. stage'[Kids[m][i]] = stage[Kids[m][i]]
        BY <2>1, <3>2, <4>1 DEF Submitted, TypeInv, TypeOK
      <4>3. i > sent'[m] <=> i > sent[m]
        BY <2>1, <3>2, <3>4 DEF TypeInv, TypeOK
      <4>4. QED
        BY <3>1, <4>2, <4>3
    <3>5. QED
      BY <3>3, <3>4
  <2>7. StagesInv'
    BY <2>1, <2>3 DEF Submitted, TypeInv, TypeOK, StagesInv, Drivers
  <2>8. QED
    BY <2>5, <2>6, <2>7 DEF TypeInv
<1>6. ASSUME NEW j \in Jobs, SubmitFails(j) PROVE TypeInv'
  BY <1>6, EndsTypes DEF SubmitFails, GivenBack, Outcomes
<1>7. ASSUME NEW j \in Jobs, Work(j) PROVE TypeInv'
  BY <1>7, EndsTypes DEF Work, Outcomes
<1>8. ASSUME NEW j \in Jobs, JoinRecipe(j) PROVE TypeInv'
  BY <1>8, EndsTypes DEF JoinRecipe, Outcomes
<1>9. ASSUME NEW j \in Jobs, JoinTargets(j) PROVE TypeInv'
  <2>1. Routed(j) \in Outcomes \ {"none"}
    BY DEF Routed, Outcomes
  <2>2. QED
    BY <1>9, <2>1, EndsTypes DEF JoinTargets
<1>10. CASE Close
  BY <1>10 DEF Close, TypeInv, TypeOK, KidsInv, StagesInv
<1>11. CASE UNCHANGED vars
  BY <1>11 DEF vars, TypeInv, TypeOK, KidsInv, StagesInv
<1>12. QED
  BY <1>1, <1>2, <1>3, <1>4, <1>5, <1>6, <1>7, <1>8, <1>9, <1>10, <1>11 DEF Next, Step

LEMMA TypeInit == Init => TypeInv
<1> SUFFICES ASSUME Init PROVE TypeInv
  OBVIOUS
<1>1. TypeOK
  <2>1. permits \in [Pools -> Nat]
    BY JobFacts DEF Init
  <2>2. stage \in [Jobs -> Stages] /\ outcome \in [Jobs -> Outcomes] /\ closing \in BOOLEAN
    BY DEF Init, Stages, Outcomes
  <2>3. sent \in [Jobs -> Nat] /\ \A j \in Jobs : sent[j] <= Len(Kids[j])
    BY JobFacts DEF Init
  <2>4. \A j \in Jobs : stage[j] = "done" <=> outcome[j] # "none"
    BY DEF Init
  <2>5. QED
    BY <2>1, <2>2, <2>3, <2>4 DEF TypeOK
<1>2. KidsInv
  <2> SUFFICES ASSUME NEW j \in Jobs, NEW i \in 1..Len(Kids[j])
               PROVE  i > sent[j] <=> stage[Kids[j][i]] = "new"
    BY DEF KidsInv
  <2>1. Kids[j][i] \in Jobs /\ i \in Nat /\ i > 0
    BY JobFacts
  <2>2. QED
    BY <2>1 DEF Init
<1>3. StagesInv
  BY DEF Init, StagesInv
<1>4. QED
  BY <1>1, <1>2, <1>3 DEF TypeInv

\* The types are respected, and no permit count falls below zero.
THEOREM PoolsTypeCorrect == Spec => []TypeOK
<1>1. TypeInv => TypeOK
  BY DEF TypeInv
<1>2. QED
  BY TypeInit, TypeStep, <1>1, PTL DEF Spec

-----------------------------------------------------------------------------
(* The semaphores.                                                         *)

LEMMA FiniteInPool ==
    \A p \in Pools : /\ IsFiniteSet(InPool(p)) /\ IsFiniteSet(Running(p))
                     /\ Cardinality(InPool(p)) \in Nat /\ Cardinality(Running(p)) \in Nat
<1> SUFFICES ASSUME NEW p \in Pools
             PROVE  /\ IsFiniteSet(InPool(p)) /\ IsFiniteSet(Running(p))
                    /\ Cardinality(InPool(p)) \in Nat /\ Cardinality(Running(p)) \in Nat
  OBVIOUS
<1>1. InPool(p) \in SUBSET Jobs /\ Running(p) \in SUBSET Jobs
  BY DEF InPool, Running
<1>2. IsFiniteSet(InPool(p)) /\ IsFiniteSet(Running(p))
  BY <1>1, JobsAssumption, FS_Subset
<1>3. QED
  BY <1>2, FS_CardinalityType

\* The count that PermitsConserved speaks of, for one pool.
Conserved(p) == permits[p] + Cardinality(InPool(p)) = Capacity(p)

\* A submitted job takes the permit that it costs.
LEMMA SubmittedConserves ==
    ASSUME TypeInv, PermitsConserved, NEW j \in Jobs \ Inline, stage[j] = "new",
           Submitted(j), NEW p \in Pools
    PROVE  Conserved(p)'
<1>1. Conserved(p)
  BY DEF PermitsConserved, Conserved
<1>2. permits[p] \in Nat /\ Capacity(p) \in Nat
  BY JobFacts DEF TypeInv, TypeOK
<1>3. CASE p = PoolOf(j)
  <2>1. InPool(p)' = InPool(p) \cup {j} /\ j \notin InPool(p)
    BY <1>3 DEF InPool, Submitted, TypeInv, TypeOK
  <2>2. Cardinality(InPool(p)') = Cardinality(InPool(p)) + 1
    BY <2>1, FiniteInPool, FS_AddElement
  <2>3. permits'[p] = permits[p] - 1
    BY <1>3 DEF Submitted, TypeInv, TypeOK
  <2>4. QED
    BY <1>1, <1>2, <2>2, <2>3, FiniteInPool DEF Conserved, Capacity
<1>4. CASE p # PoolOf(j)
  <2>1. InPool(p)' = InPool(p)
    BY <1>4 DEF InPool, Submitted, TypeInv, TypeOK
  <2>2. permits'[p] = permits[p]
    BY <1>4 DEF Submitted, TypeInv, TypeOK
  <2>3. QED
    BY <1>1, <2>1, <2>2 DEF Conserved, Capacity
<1>5. QED
  BY <1>3, <1>4

\* A job that ends gives it back.
LEMMA EndsConserves ==
    ASSUME TypeInv, PermitsConserved, NEW j \in Jobs, NEW result,
           Ends(j, permits, result), NEW p \in Pools
    PROVE  Conserved(p)'
<1>1. Conserved(p)
  BY DEF PermitsConserved, Conserved
<1>2. permits[p] \in Nat /\ Capacity(p) \in Nat
  BY JobFacts DEF TypeInv, TypeOK
<1>3. stage[j] = "running" /\ stage' = [stage EXCEPT ![j] = "done"]
  BY DEF Ends
<1>4. CASE j \notin Inline /\ p = PoolOf(j)
  <2>1. InPool(p)' = InPool(p) \ {j} /\ j \in InPool(p)
    BY <1>3, <1>4 DEF InPool, TypeInv, TypeOK
  <2>2. Cardinality(InPool(p)') = Cardinality(InPool(p)) - 1
    BY <2>1, FiniteInPool, FS_RemoveElement
  <2>3. permits'[p] = permits[p] + 1
    BY <1>4 DEF Ends, TypeInv, TypeOK
  <2>4. QED
    BY <1>1, <1>2, <2>2, <2>3, FiniteInPool DEF Conserved, Capacity
<1>5. CASE j \in Inline \/ p # PoolOf(j)
  <2>1. InPool(p)' = InPool(p)
    BY <1>3, <1>5 DEF InPool, TypeInv, TypeOK
  <2>2. permits'[p] = permits[p]
    BY <1>5 DEF Ends, TypeInv, TypeOK
  <2>3. QED
    BY <1>1, <2>1, <2>2 DEF Conserved, Capacity
<1>6. QED
  BY <1>4, <1>5

LEMMA PermitsStep == TypeInv /\ PermitsConserved /\ [Next]_vars => PermitsConserved'
<1> SUFFICES ASSUME TypeInv, PermitsConserved, [Next]_vars, NEW p \in Pools
             PROVE  Conserved(p)'
  BY DEF PermitsConserved, Conserved
<1>0. Conserved(p)
  BY DEF PermitsConserved, Conserved
<1>1. ASSUME NEW j \in Jobs, Admit(j) PROVE Conserved(p)'
  <2>1. j \in Jobs \ Inline /\ stage[j] = "new" /\ Submitted(j)
    BY <1>1, JobsAssumption DEF Admit
  <2>2. QED
    BY <2>1, SubmittedConserves
<1>2. ASSUME NEW j \in Jobs, Refuse(j) \/ RunInline(j) \/ Start(j) PROVE Conserved(p)'
  <2>1. UNCHANGED permits
    BY <1>2 DEF Refuse, GivenBack, RunInline, Start
  <2>2. InPool(p)' = InPool(p)
    BY <1>2 DEF Refuse, RunInline, Start, InPool, TypeInv, TypeOK
  <2>3. QED
    BY <1>0, <2>1, <2>2 DEF Conserved, Capacity
<1>3. ASSUME NEW j \in Jobs, Submit(j) PROVE Conserved(p)'
  <2> DEFINE k == NextKid(j)
  <2>1. k \in Jobs \ Inline /\ stage[k] = "new" /\ Submitted(k)
    BY <1>3, NextKidFacts DEF Submit, Drivers
  <2> HIDE DEF k
  <2>2. QED
    BY <2>1, SubmittedConserves
<1>4. ASSUME NEW j \in Jobs, SubmitFails(j) \/ Work(j) \/ JoinRecipe(j) \/ JoinTargets(j)
      PROVE  Conserved(p)'
  <2>1. PICK result : Ends(j, permits, result)
    BY <1>4 DEF SubmitFails, GivenBack, Work, JoinRecipe, JoinTargets
  <2>2. QED
    BY <2>1, EndsConserves
<1>5. CASE Close
  BY <1>0, <1>5 DEF Close, Conserved, Capacity, InPool
<1>6. CASE UNCHANGED vars
  BY <1>0, <1>6 DEF vars, Conserved, Capacity, InPool
<1>7. QED
  BY <1>1, <1>2, <1>3, <1>4, <1>5, <1>6 DEF Next, Step

LEMMA PermitsInit == Init => PermitsConserved
<1> SUFFICES ASSUME Init, NEW p \in Pools PROVE Conserved(p)
  BY DEF PermitsConserved, Conserved
<1>1. InPool(p) = {}
  BY DEF Init, InPool
<1>2. Cardinality(InPool(p)) = 0
  BY <1>1, FS_EmptySet
<1>3. permits[p] = Capacity(p) /\ Capacity(p) \in Nat
  BY JobFacts DEF Init
<1>4. QED
  BY <1>2, <1>3 DEF Conserved

\* The capacity of the pools neither leaks nor grows, however jobs and
\* submissions end.
THEOREM PermitsConservedAlways == Spec => []PermitsConserved
<1>1. Init => TypeInv /\ PermitsConserved
  BY TypeInit, PermitsInit
<1>2. TypeInv /\ PermitsConserved /\ [Next]_vars => (TypeInv /\ PermitsConserved)'
  BY TypeStep, PermitsStep
<1>3. QED
  BY <1>1, <1>2, PTL DEF Spec

-----------------------------------------------------------------------------
(* Nothing waits in a circle: the pools are ordered, and a job waits only  *)
(* for a pool below its own.                                               *)

\* A queued job can start when its pool runs nothing.
LEMMA IdlePoolStarts ==
    ASSUME NEW j \in Jobs, stage[j] = "queued", Running(PoolOf(j)) = {}
    PROVE  CanStart(j)
<1>1. Cardinality(Running(PoolOf(j))) = 0
  BY FS_EmptySet
<1>2. Workers[PoolOf(j)] \in Nat \ {0}
  BY JobFacts
<1>3. QED
  BY <1>1, <1>2 DEF CanStart

\* A pool without jobs has permits.
LEMMA IdlePoolAdmits ==
    ASSUME TypeInv, PermitsConserved, NEW p \in Pools, InPool(p) = {}
    PROVE  permits[p] > 0
<1>1. Cardinality(InPool(p)) = 0
  BY FS_EmptySet
<1>2. permits[p] + 0 = Capacity(p)
  BY <1>1 DEF PermitsConserved
<1>3. QED
  BY <1>2, JobFacts DEF TypeInv, TypeOK

\* A running job whose kids are all in the pool below can go on when that
\* pool is empty.
LEMMA RunningGoesOn ==
    ASSUME TypeInv, PermitsConserved, NEW j \in Jobs, stage[j] = "running",
           NEW p \in Pools, InPool(p) = {}, \A k \in KidsOf(j) : PoolOf(k) = p
    PROVE  CanSubmit(j) \/ CanEnd(j)
<1>1. sent[j] \in Nat /\ Len(Kids[j]) \in Nat /\ sent[j] <= Len(Kids[j])
  BY JobFacts DEF TypeInv, TypeOK
<1>2. CASE sent[j] < Len(Kids[j])
  <2>1. Submitting(j)
    BY <1>2 DEF Submitting
  <2>2. PoolOf(NextKid(j)) = p
    BY <2>1, NextKidFacts
  <2>3. QED
    BY <2>1, <2>2, IdlePoolAdmits DEF CanSubmit
<1>3. CASE sent[j] = Len(Kids[j])
  <2>1. ASSUME NEW i \in 1..Len(Kids[j]) PROVE stage[Kids[j][i]] = "done"
    <3>1. Kids[j][i] \in KidsOf(j) /\ Kids[j][i] \in Jobs \ Drivers
      BY JobFacts
    <3>2. ~(i > sent[j])
      BY <1>1, <1>3
    <3>3. stage[Kids[j][i]] # "new"
      BY <3>2 DEF TypeInv, KidsInv
    <3>4. stage[Kids[j][i]] # "refused"
      BY <3>1 DEF TypeInv, StagesInv, Drivers
    <3>5. Kids[j][i] \notin InPool(p) /\ PoolOf(Kids[j][i]) = p
      BY <3>1
    <3>6. stage[Kids[j][i]] \notin {"queued", "running"}
      BY <3>1, <3>5 DEF InPool, Drivers
    <3>7. QED
      BY <3>1, <3>3, <3>4, <3>6 DEF TypeInv, TypeOK, Stages
  <2>2. QED
    BY <1>3, <2>1 DEF CanEnd, Waiting, AllEnded, KidsOf
<1>4. QED
  BY <1>1, <1>2, <1>3

LEMMA NobodyStuck == TypeInv /\ PermitsConserved => NoCircularWait
<1> SUFFICES ASSUME TypeInv, PermitsConserved, InFlight # {}
             PROVE  \E j \in InFlight : CanStart(j) \/ CanSubmit(j) \/ CanEnd(j)
  BY DEF NoCircularWait
<1> DEFINE Goal == \E j \in InFlight : CanStart(j) \/ CanSubmit(j) \/ CanEnd(j)
<1>1. \A j \in InFlight : j \in Jobs /\ stage[j] \in {"queued", "running"}
  BY DEF InFlight
<1>2. \A j \in Jobs : /\ j \in Lists => PoolOf(j) = "subtarget"
                      /\ j \in Targets => PoolOf(j) = "target"
                      /\ j \in Drivers => PoolOf(j) = "scan"
  BY JobsAssumption DEF PoolOf
<1>3. \A p \in Pools : \A j \in Running(p) :
         j \in Jobs /\ j \in InFlight /\ stage[j] = "running" /\ PoolOf(j) = p /\ j \notin Inline
  BY DEF Running, InFlight
<1> HIDE DEF Goal
<1>4. ASSUME NEW l \in InFlight, l \in Lists PROVE Goal
  <2>1. CASE Running("subtarget") = {}
    <3>1. stage[l] = "queued"
      <4>1. l \notin Inline /\ PoolOf(l) = "subtarget" /\ l \in Jobs
        BY <1>1, <1>2, <1>4, JobsAssumption DEF Drivers
      <4>2. QED
        BY <1>1, <2>1, <4>1 DEF Running
    <3>2. CanStart(l)
      BY <1>1, <1>2, <1>4, <2>1, <3>1, IdlePoolStarts
    <3>3. QED
      BY <3>2 DEF Goal
  <2>2. CASE Running("subtarget") # {}
    <3>1. PICK k \in Running("subtarget") : TRUE
      BY <2>2
    <3>2. k \in Lists /\ k \in InFlight /\ stage[k] = "running" /\ k \in Jobs
      BY <3>1, <1>3, <1>2 DEF PoolOf, Pools
    <3>3. Kids[k] = <<>>
      BY <3>2, KidsAssumption
    <3>4. Len(Kids[k]) = 0 /\ KidsOf(k) = {}
      BY <3>3 DEF KidsOf
    <3>5. sent[k] = 0
      BY <3>2, <3>4 DEF TypeInv, TypeOK
    <3>6. CanEnd(k)
      BY <3>2, <3>4, <3>5 DEF CanEnd, Waiting, AllEnded
    <3>7. QED
      BY <3>2, <3>6 DEF Goal
  <2>3. QED
    BY <2>1, <2>2
<1>5. ASSUME NEW t \in InFlight, t \in Targets, InFlight \cap Lists = {} PROVE Goal
  <2>1. InPool("subtarget") = {}
    BY <1>5 DEF InPool, PoolOf, InFlight
  <2>2. CASE Running("target") = {}
    <3>1. stage[t] = "queued"
      <4>1. t \notin Inline /\ PoolOf(t) = "target" /\ t \in Jobs
        BY <1>1, <1>2, <1>5, JobsAssumption DEF Drivers
      <4>2. QED
        BY <1>1, <2>2, <4>1 DEF Running
    <3>2. CanStart(t)
      BY <1>1, <1>2, <1>5, <2>2, <3>1, IdlePoolStarts
    <3>3. QED
      BY <3>2 DEF Goal
  <2>3. CASE Running("target") # {}
    <3>1. PICK k \in Running("target") : TRUE
      BY <2>3
    <3>2. k \in Targets /\ k \in InFlight /\ stage[k] = "running" /\ k \in Jobs
      BY <3>1, <1>3, <1>2 DEF PoolOf, Pools
    <3>3. \A m \in KidsOf(k) : PoolOf(m) = "subtarget"
      BY <3>2, KidsAssumption DEF PoolOf
    <3>4. CanSubmit(k) \/ CanEnd(k)
      BY <2>1, <3>2, <3>3, RunningGoesOn DEF Pools
    <3>5. QED
      BY <3>2, <3>4 DEF Goal
  <2>4. QED
    BY <2>2, <2>3
<1>6. ASSUME NEW d \in InFlight, InFlight \cap Lists = {}, InFlight \cap Targets = {}
      PROVE  Goal
  <2>1. InPool("target") = {}
    BY <1>6, <1>2 DEF InPool, InFlight, PoolOf
  <2>2. ASSUME NEW k \in InFlight, stage[k] = "running" PROVE Goal
    <3>1. k \in Drivers /\ k \in Jobs
      BY <1>1, <1>6 DEF Jobs
    <3>2. \A m \in KidsOf(k) : PoolOf(m) = "target"
      BY <1>2, <3>1, KidsAssumption, JobFacts
    <3>3. CanSubmit(k) \/ CanEnd(k)
      BY <2>1, <2>2, <3>1, <3>2, RunningGoesOn DEF Pools
    <3>4. QED
      BY <3>3 DEF Goal
  <2>3. CASE \A k \in InFlight : stage[k] # "running"
    <3>1. stage[d] = "queued" /\ d \in Jobs /\ PoolOf(d) \in Pools
      BY <1>1, <2>3, JobFacts
    <3>2. Running(PoolOf(d)) = {}
      BY <1>3, <2>3, <3>1
    <3>3. CanStart(d)
      BY <3>1, <3>2, IdlePoolStarts
    <3>4. QED
      BY <3>3 DEF Goal
  <2>4. QED
    BY <2>2, <2>3
<1>7. Goal
  BY <1>4, <1>5, <1>6
<1>8. QED
  BY <1>7 DEF Goal

\* However routes, targets and lists occupy the pools, some job can go on.
THEOREM NoCircularWaitAlways == Spec => []NoCircularWait
<1>1. Init => TypeInv /\ PermitsConserved
  BY TypeInit, PermitsInit
<1>2. TypeInv /\ PermitsConserved /\ [Next]_vars => (TypeInv /\ PermitsConserved)'
  BY TypeStep, PermitsStep
<1>3. QED
  BY <1>1, <1>2, NobodyStuck, PTL DEF Spec

-----------------------------------------------------------------------------
(* What "added" means.                                                     *)

\* A job that submits others ended well only if all of them did.
GoodInv ==
    \A j \in Jobs : outcome[j] = "ok" =>
        j \notin Unroutable /\ \A k \in KidsOf(j) : outcome[k] = "ok"

LEMMA GoodStep == TypeInv /\ GoodInv /\ [Next]_vars => GoodInv'
<1> SUFFICES ASSUME TypeInv, GoodInv, [Next]_vars, NEW m \in Jobs, outcome'[m] = "ok"
             PROVE  m \notin Unroutable /\ \A k \in KidsOf(m) : outcome'[k] = "ok"
  BY DEF GoodInv
<1> DEFINE Goal == m \notin Unroutable /\ \A k \in KidsOf(m) : outcome'[k] = "ok"
<1>0. KidsOf(m) \subseteq Jobs
  BY JobFacts
<1>1. ASSUME UNCHANGED outcome PROVE Goal
  BY <1>1 DEF GoodInv
<1>2. ASSUME NEW j \in Jobs, NEW result, Ends(j, permits, result),
             result = "ok" => j \notin Unroutable /\ \A k \in KidsOf(j) : outcome[k] = "ok"
      PROVE  Goal
  <2>1. stage[j] = "running" /\ outcome' = [outcome EXCEPT ![j] = result]
    BY <1>2 DEF Ends
  <2>2. outcome[j] = "none"
    BY <2>1 DEF TypeInv, TypeOK
  <2>3. m \notin Unroutable /\ \A k \in KidsOf(m) : outcome[k] = "ok"
    BY <1>2, <2>1 DEF TypeInv, TypeOK, GoodInv
  <2>4. QED
    BY <1>0, <2>1, <2>2, <2>3 DEF TypeInv, TypeOK
<1> HIDE DEF Goal
<1>3. ASSUME NEW j \in Jobs, Admit(j) \/ Refuse(j) \/ RunInline(j) \/ Start(j) \/ Submit(j)
      PROVE  Goal
  BY <1>1, <1>3 DEF Admit, Refuse, RunInline, Start, Submit
<1>4. ASSUME NEW j \in Jobs, SubmitFails(j) PROVE Goal
  BY <1>2, <1>4 DEF SubmitFails, GivenBack
<1>5. ASSUME NEW j \in Jobs, Work(j) PROVE Goal
  <2>1. j \notin Unroutable
    BY <1>5, JobsAssumption DEF Work, Drivers
  <2>2. KidsOf(j) = {}
    BY <1>5 DEF Work, KidsOf
  <2>3. QED
    BY <1>2, <1>5, <2>1, <2>2 DEF Work
<1>6. ASSUME NEW j \in Jobs, JoinRecipe(j) PROVE Goal
  <2>1. j \notin Unroutable
    BY <1>6, JobsAssumption DEF JoinRecipe, Drivers
  <2>2. QED
    BY <1>2, <1>6, <2>1 DEF JoinRecipe
<1>7. ASSUME NEW j \in Jobs, JoinTargets(j) PROVE Goal
  <2>1. Routed(j) = "ok" => j \notin Unroutable /\ \A k \in KidsOf(j) : outcome[k] = "ok"
    BY DEF Routed
  <2>2. QED
    BY <1>2, <1>7, <2>1 DEF JoinTargets
<1>8. ASSUME Close PROVE Goal
  BY <1>1, <1>8 DEF Close
<1>9. ASSUME UNCHANGED vars PROVE Goal
  BY <1>1, <1>9 DEF vars
<1>10. Goal
  BY <1>3, <1>4, <1>5, <1>6, <1>7, <1>8, <1>9 DEF Next, Step
<1>11. QED
  BY <1>10 DEF Goal

\* A scan is called added only when all of its targets and all of their
\* lists succeeded.
THEOREM AddedMeansAllAlways == Spec => []AddedMeansAll
<1>1. Init => TypeInv /\ GoodInv
  <2>1. Init => GoodInv
    BY DEF Init, GoodInv
  <2>2. QED
    BY <2>1, TypeInit
<1>2. TypeInv /\ GoodInv /\ [Next]_vars => (TypeInv /\ GoodInv)'
  BY TypeStep, GoodStep
<1>3. GoodInv => AddedMeansAll
  <2> SUFFICES ASSUME GoodInv, NEW d \in Drivers, outcome[d] = "ok"
               PROVE  d \notin Unroutable /\ \A t \in KidsOf(d) :
                        outcome[t] = "ok" /\ \A l \in KidsOf(t) : outcome[l] = "ok"
    BY DEF AddedMeansAll
  <2>1. d \in Jobs
    BY DEF Jobs
  <2>2. d \notin Unroutable /\ \A t \in KidsOf(d) : outcome[t] = "ok" /\ t \in Jobs
    BY <2>1, JobFacts DEF GoodInv
  <2>3. QED
    BY <2>2 DEF GoodInv
<1>4. QED
  BY <1>1, <1>2, <1>3, PTL DEF Spec

-----------------------------------------------------------------------------
(* Notes and retries (ShoppingNotes).                                      *)

HasHighest == \E n \in Nat : \A q \in queue : q.id <= n

\* The types, and what ids need: a highest one, and rows of a batch apart.
NotesTypes ==
    /\ N!NotesAssumption /\ N!TypeOK /\ nextItem \in Nat /\ HasHighest
    /\ \A p, q \in batch : p.id = q.id => p = q

\* A row stands for a request that has put it there, and no request for two.
RowsFit ==
    \A p, q \in queue \cup batch :
        phase[p.by] = "queued" /\ (p.by = q.by => p.id = q.id)

-----------------------------------------------------------------------------
(* Types.                                                                  *)

LEMMA NotesFacts ==
    ASSUME NotesTypes
    PROVE  /\ CodeOf \in [Requests -> Codes] /\ MaxAttempts \in Nat \ {0}
           /\ MaxEdits \in Nat /\ MaxFaults \in Nat
           /\ queue \subseteq N!Row /\ batch \subseteq N!Row /\ item \subseteq batch
           /\ \A q \in N!Row : /\ q.id \in Nat /\ q.code \in Codes /\ q.kind \in N!Kinds
                               /\ q.for \in Codes /\ q.attempts \in Nat
                               /\ q.wait \in Nat /\ q.by \in Requests
           /\ task \in [N!Tasks -> N!TaskState] /\ N!NoTask \in N!TaskState
           /\ phase \in [Requests -> N!Phases] /\ made \in [Requests -> 0..2]
           /\ tries \in [Requests -> Nat] /\ retry \in [Requests -> N!Fates]
<1>1. N!NoTask \in N!TaskState
  BY DEF NotesTypes, N!NotesAssumption, N!NoTask, N!TaskState, N!NoItem
<1>2. QED
  BY <1>1 DEF NotesTypes, N!NotesAssumption, N!TypeOK, N!Row

\* What is left of the bounds.
LEMMA BoundsKeep ==
    ASSUME NotesTypes
    PROVE  /\ edits \in 0..MaxEdits /\ faults \in 0..MaxFaults
           /\ \A k : N!Fault(k) => faults' \in 0..MaxFaults /\ k \in Faults
           /\ \A k : N!Edit(k) => /\ edits' \in 0..MaxEdits /\ k \in Edits
                                  /\ edits + 1 \in N!Tasks
           /\ N!NoFault => faults' \in 0..MaxFaults
BY DEF NotesTypes, N!NotesAssumption, N!TypeOK, N!Fault, N!Edit, N!NoFault, N!Tasks

\* An entry that Mealie makes.
LEMMA MakesIs ==
    ASSUME NotesTypes, NEW c \in Codes, NEW kind \in N!Kinds, NEW r \in Requests,
           N!Makes(c, kind, r)
    PROVE  /\ open' \subseteq N!Entry /\ nextItem' \in Nat
           /\ \A e \in open' : e.id < nextItem'
           /\ made' \in [Requests -> 0..2]
           /\ \A s \in Requests \ {r} : made'[s] = made[s]
           /\ made'[r] >= made[r] /\ made'[r] <= made[r] + 1
           /\ c = CodeOf[r] => made'[r] > 0
<1>1. [id |-> nextItem, code |-> c, kind |-> kind] \in N!Entry
  BY DEF NotesTypes, N!Entry
<1>2. /\ open' \subseteq N!Entry /\ nextItem' \in Nat
      /\ \A e \in open' : e.id < nextItem'
  <2>1. \A e \in open : e.id < nextItem /\ e.id \in Nat
    BY DEF NotesTypes, N!TypeOK, N!Entry
  <2>2. open \subseteq N!Entry /\ nextItem \in Nat
    BY DEF NotesTypes, N!TypeOK
  <2>3. QED
    BY <1>1, <2>1, <2>2 DEF N!Makes
<1>3. made \in [Requests -> 0..2] /\ \A s \in Requests : N!Bump(made[s]) \in 0..2
  BY DEF NotesTypes, N!TypeOK, N!Bump
<1>4. made' = IF c = CodeOf[r] THEN [made EXCEPT ![r] = N!Bump(made[r])] ELSE made
  BY DEF N!Makes
<1>5. /\ N!Bump(made[r]) \in 0..2 /\ N!Bump(made[r]) > 0
      /\ N!Bump(made[r]) >= made[r] /\ N!Bump(made[r]) <= made[r] + 1
  BY <1>3 DEF N!Bump
<1>6. QED
  BY <1>2, <1>3, <1>4, <1>5

LEMMA MakesNothingIs ==
    ASSUME NotesTypes, N!MakesNothing
    PROVE  /\ open' \subseteq N!Entry /\ nextItem' \in Nat
           /\ \A e \in open' : e.id < nextItem'
           /\ made' = made /\ made' \in [Requests -> 0..2]
BY DEF NotesTypes, N!TypeOK, N!MakesNothing

\* A POST that fails: with refusals only it makes nothing.
LEMMA PostFailsIs ==
    ASSUME NotesTypes, NEW c \in Codes, NEW kind \in N!Kinds, NEW r \in Requests,
           N!PostFails(c, kind, r)
    PROVE  /\ open' \subseteq N!Entry /\ nextItem' \in Nat
           /\ \A e \in open' : e.id < nextItem'
           /\ made' \in [Requests -> 0..2] /\ \A s \in Requests : made'[s] >= made[s]
           /\ faults' \in 0..MaxFaults
           /\ Faults \subseteq {"refused"} => made' = made
<1>1. made \in [Requests -> 0..2]
  BY NotesFacts
<1>2. CASE N!Fault("refused") /\ N!MakesNothing
  BY <1>1, <1>2, BoundsKeep, MakesNothingIs
<1>3. CASE N!Fault("ambiguous") /\ N!Makes(c, kind, r)
  BY <1>1, <1>3, BoundsKeep, MakesIs
<1>4. QED
  BY <1>2, <1>3 DEF N!PostFails


\* A bounded set of numbers has a greatest.
LEMMA TopExists ==
    ASSUME NEW S \in SUBSET Nat, S # {}, NEW b \in Nat, \A m \in S : m <= b
    PROVE  \E n \in S : \A m \in S : m <= n
<1> DEFINE bounds == {n \in Nat : \A m \in S : m <= n}
           Below == OpToRel(<, Nat)
<1>1. bounds # {} /\ bounds \subseteq Nat
  OBVIOUS
<1>2. PICK n \in bounds : \A k \in bounds : ~(<<k, n>> \in Below)
  <2> HIDE DEF bounds
  <2>1. QED
    BY <1>1, NatLessThanWellFounded, WFMin
<1>3. n \in Nat /\ \A m \in S : m <= n
  BY <1>2
<1>4. \A k \in bounds : ~(k < n)
  BY <1>2, <1>3 DEF OpToRel
<1>5. CASE n \in S
  BY <1>3, <1>5
<1>6. CASE n \notin S
  <2>1. \A m \in S : m < n
    BY <1>3, <1>6
  <2>2. n > 0
    <3>1. PICK m \in S : m < n
      BY <2>1
    <3>2. QED
      BY <3>1, <1>3
  <2>3. n - 1 \in bounds
    BY <2>1, <2>2, <1>3
  <2>4. QED
    BY <2>3, <1>4, <1>3
<1>7. QED
  BY <1>5, <1>6

\* The id of a new row is in no use.
LEMMA NewIdIsNew ==
    ASSUME NotesTypes
    PROVE  N!NewId \in Nat /\ \A q \in queue : q.id < N!NewId
<1> DEFINE ids == {q.id : q \in queue}
<1>1. ids \subseteq Nat
  BY NotesFacts
<1>2. CASE queue = {}
  BY <1>2 DEF N!NewId
<1>3. CASE queue # {}
  <2>1. PICK b \in Nat : \A q \in queue : q.id <= b
    BY DEF NotesTypes, HasHighest
  <2>2. ids # {} /\ \A m \in ids : m <= b
    BY <1>3, <2>1
  <2>3. \E n \in ids : \A m \in ids : m <= n
    <3> HIDE DEF ids
    <3>1. QED
      BY <1>1, <2>2, TopExists
  <2>4. \E n \in ids : \A q \in queue : q.id <= n
    BY <2>3
  <2>5. PICK n : n \in ids /\ (\A q \in queue : q.id <= n) /\ N!NewId = 1 + n
    BY <1>3, <2>4 DEF N!NewId
  <2>6. n \in Nat
    BY <1>1, <2>5
  <2>7. QED
    BY <2>5, <2>6, NotesFacts
<1>4. QED
  BY <1>2, <1>3

\* The types after a step: what the queue, the batch, the reconciliations and
\* the rest of the database may become.
LEMMA TypesStay ==
    ASSUME NotesTypes,
           cached' \subseteq Codes, noteId' \in [Codes -> Nat],
           link' \in [Codes -> {"none", "food", "recipe"}], paused' \in BOOLEAN,
           shown' \subseteq Codes, recipes' \subseteq Codes,
           queue' \subseteq N!Row, \A p, q \in queue' : p.id = q.id => p = q,
           HasHighest',
           open' \subseteq N!Entry, nextItem' \in Nat, \A e \in open' : e.id < nextItem',
           phase' \in [Requests -> N!Phases], got' \in [Requests -> Nat],
           batch' \subseteq N!Row, \A p, q \in batch' : p.id = q.id => p = q,
           item' \subseteq batch', \A p, q \in item' : p = q,
           posted' \in {"none", "ok", "failed"}, posted' = "none" <=> item' = {},
           task' \in [N!Tasks -> N!TaskState],
           edits' \in 0..MaxEdits, faults' \in 0..MaxFaults,
           tries' \in [Requests -> Nat], made' \in [Requests -> 0..2],
           retry' \in [Requests -> N!Fates]
    PROVE  NotesTypes'
<1>1. N!NotesAssumption'
  BY DEF NotesTypes, N!NotesAssumption
<1>2. N!TypeOK'
  BY DEF N!TypeOK, N!Tasks, N!Row, N!Entry, N!TaskState, N!Phases, N!Fates
<1>3. QED
  BY <1>1, <1>2 DEF NotesTypes

\* The same before the step.
LEMMA TypesNow ==
    ASSUME NotesTypes
    PROVE  /\ cached \subseteq Codes /\ noteId \in [Codes -> Nat]
           /\ link \in [Codes -> {"none", "food", "recipe"}] /\ paused \in BOOLEAN
           /\ shown \subseteq Codes /\ recipes \subseteq Codes
           /\ queue \subseteq N!Row /\ (\A p, q \in queue : p.id = q.id => p = q)
           /\ HasHighest
           /\ open \subseteq N!Entry /\ nextItem \in Nat
           /\ (\A e \in open : e.id < nextItem)
           /\ phase \in [Requests -> N!Phases] /\ got \in [Requests -> Nat]
           /\ batch \subseteq N!Row /\ (\A p, q \in batch : p.id = q.id => p = q)
           /\ item \subseteq batch /\ (\A p, q \in item : p = q)
           /\ posted \in {"none", "ok", "failed"} /\ (posted = "none" <=> item = {})
           /\ task \in [N!Tasks -> N!TaskState]
           /\ edits \in 0..MaxEdits /\ faults \in 0..MaxFaults
           /\ tries \in [Requests -> Nat] /\ made \in [Requests -> 0..2]
           /\ retry \in [Requests -> N!Fates]
BY DEF NotesTypes, N!TypeOK


\* What stays of the queue is as apart, and as low, as before.
LEMMA FewerRows ==
    ASSUME NotesTypes, queue' \subseteq queue
    PROVE  /\ queue' \subseteq N!Row /\ HasHighest'
           /\ \A p, q \in queue' : p.id = q.id => p = q
BY TypesNow DEF HasHighest

LEMMA BeginTypes ==
    ASSUME NotesTypes, NEW r \in Requests, N!Begin(r) PROVE NotesTypes'
<1>1. phase' \in [Requests -> N!Phases] /\ cached' \subseteq Codes
  BY TypesNow, NotesFacts DEF N!Begin, N!Goes, N!Phases
<1>2. UNCHANGED <<noteId, link, queue, paused, shown, open, nextItem, recipes, got, batch,
                  item, posted, task, edits, faults, tries, made, retry>>
  BY DEF N!Begin, N!mealieVars, N!jobVars, N!historyVars
<1>3. QED
  BY <1>1, <1>2, TypesNow, TypesStay DEF HasHighest

LEMMA AddNoteTypes ==
    ASSUME NotesTypes, NEW r \in Requests, N!AddNote(r) PROVE NotesTypes'
<1> DEFINE c == CodeOf[r]
<1>1. c \in Codes /\ "note" \in N!Kinds /\ nextItem \in Nat
  BY NotesFacts, TypesNow DEF N!Kinds
<1>2. UNCHANGED <<cached, noteId, link, queue, paused, shown, recipes, batch,
                  item, posted, task, edits, tries, retry>>
  BY DEF N!AddNote, N!dbVars, N!jobVars
<1>3. phase' \in [Requests -> N!Phases] /\ got' \in [Requests -> Nat]
  BY <1>1, TypesNow DEF N!AddNote, N!Goes, N!Phases
<1>4. /\ open' \subseteq N!Entry /\ nextItem' \in Nat /\ (\A e \in open' : e.id < nextItem')
      /\ made' \in [Requests -> 0..2] /\ faults' \in 0..MaxFaults
  <2>1. CASE N!Makes(c, "note", r) /\ N!NoFault
    BY <2>1, <1>1, MakesIs, BoundsKeep
  <2>2. CASE N!Makes(c, "note", r) /\ N!Fault("no_id")
    BY <2>2, <1>1, MakesIs, BoundsKeep
  <2>3. CASE N!PostFails(c, "note", r)
    BY <2>3, <1>1, PostFailsIs
  <2>4. QED
    BY <2>1, <2>2, <2>3 DEF N!AddNote
<1>5. QED
  BY <1>2, <1>3, <1>4, TypesNow, TypesStay DEF HasHighest

LEMMA StoreIdTypes ==
    ASSUME NotesTypes, NEW r \in Requests, N!StoreId(r) PROVE NotesTypes'
<1>1. phase' \in [Requests -> N!Phases] /\ noteId' \in [Codes -> Nat]
  BY TypesNow, NotesFacts DEF N!StoreId, N!Goes, N!Phases
<1>2. UNCHANGED <<cached, link, queue, paused, shown, open, nextItem, recipes, got, batch,
                  item, posted, task, edits, faults, tries, made, retry>>
  BY DEF N!StoreId, N!mealieVars, N!jobVars, N!historyVars
<1>3. QED
  BY <1>1, <1>2, TypesNow, TypesStay DEF HasHighest

LEMMA EnqueueChecksTypes ==
    ASSUME NotesTypes, NEW r \in Requests, N!EnqueueChecks(r) PROVE NotesTypes'
<1>1. phase' \in [Requests -> N!Phases]
  BY TypesNow DEF N!EnqueueChecks, N!Goes, N!Phases
<1>2. UNCHANGED <<cached, noteId, link, queue, paused, shown, open, nextItem, recipes, got,
                  batch, item, posted, task, edits, faults, tries, made, retry>>
  BY DEF N!EnqueueChecks, N!dbVars, N!mealieVars, N!jobVars, N!historyVars
<1>3. QED
  BY <1>1, <1>2, TypesNow, TypesStay DEF HasHighest

\* The row that a request inserts.
InsertedBy(r) ==
    [id |-> N!NewId, code |-> CodeOf[r], kind |-> "note", for |-> CodeOf[r],
     attempts |-> 0, wait |-> 0, by |-> r]

LEMMA InsertIs ==
    ASSUME NotesTypes, NEW r \in Requests, N!EnqueueInserts(r)
    PROVE  /\ phase[r] = "insert" /\ phase' = [phase EXCEPT ![r] = "queued"]
           /\ InsertedBy(r) \in N!Row /\ queue' = queue \cup {InsertedBy(r)}
           /\ InsertedBy(r).by = r /\ InsertedBy(r).attempts = 0
           /\ InsertedBy(r).code = CodeOf[r] /\ InsertedBy(r).for = CodeOf[r]
           /\ \A q \in queue : q.id < InsertedBy(r).id
           /\ retry' = [retry EXCEPT ![r] = "owed"]
           /\ UNCHANGED <<cached, noteId, link, paused, shown, open, nextItem, recipes,
                          got, batch, item, posted, task, edits, faults, tries, made>>
<1>1. InsertedBy(r) \in N!Row
  BY NewIdIsNew, NotesFacts DEF InsertedBy, N!Row, N!Kinds
<1>2. QED
  BY <1>1, NewIdIsNew DEF N!EnqueueInserts, InsertedBy, N!Goes, N!mealieVars, N!jobVars

LEMMA EnqueueInsertsTypes ==
    ASSUME NotesTypes, NEW r \in Requests, N!EnqueueInserts(r) PROVE NotesTypes'
<1>1. phase' \in [Requests -> N!Phases] /\ retry' \in [Requests -> N!Fates]
  BY InsertIs, TypesNow DEF N!Phases, N!Fates
<1>2. queue' \subseteq N!Row
  BY InsertIs, TypesNow
<1>3. \A p, q \in queue' : p.id = q.id => p = q
  <2>1. \A q \in queue : q.id # InsertedBy(r).id
    BY InsertIs, TypesNow, NotesFacts
  <2>2. QED
    BY <2>1, InsertIs, TypesNow
<1>4. HasHighest'
  <2>1. InsertedBy(r).id \in Nat /\ \A q \in queue : q.id \in Nat /\ q.id < InsertedBy(r).id
    BY InsertIs, NotesFacts
  <2>2. \A q \in queue' : q.id <= InsertedBy(r).id
    BY <2>1, InsertIs
  <2>3. QED
    BY <2>1, <2>2 DEF HasHighest
<1>5. QED
  BY <1>1, <1>2, <1>3, <1>4, InsertIs, TypesNow, TypesStay

LEMMA JobLoadsTypes ==
    ASSUME NotesTypes, N!JobLoads PROVE NotesTypes'
<1>1. batch = {} /\ batch' \subseteq queue
  BY DEF N!JobLoads, N!Due
<1>2. UNCHANGED <<cached, noteId, link, queue, paused, shown, open, nextItem, recipes, phase,
                  got, item, posted, task, edits, faults, tries, made, retry>>
  BY DEF N!JobLoads, N!dbVars, N!mealieVars, N!requestVars, N!historyVars
<1>3. batch' \subseteq N!Row /\ (\A p, q \in batch' : p.id = q.id => p = q)
  BY <1>1, TypesNow
<1>4. item' = {} /\ item' \subseteq batch'
  BY <1>1, <1>2, TypesNow
<1>5. QED
  BY <1>2, <1>3, <1>4, TypesNow, TypesStay DEF HasHighest

\* What a POST of the job leaves.
LEMMA PostIs ==
    ASSUME NotesTypes, NEW q \in batch, N!JobPosts(q)
    PROVE  /\ item = {} /\ item' = {q} /\ q \in N!Row
           /\ posted' \in {"ok", "failed"} /\ posted = "none"
           /\ made' \in [Requests -> 0..2] /\ faults' \in 0..MaxFaults
           /\ \A s \in Requests : made'[s] >= made[s]
           /\ \A s \in Requests \ {q.by} : tries'[s] = tries[s]
           /\ tries' \in [Requests -> Nat] /\ tries'[q.by] >= tries[q.by]
           /\ posted' = "ok" =>
                  /\ \A s \in Requests \ {q.by} : made'[s] = made[s]
                  /\ made'[q.by] <= made[q.by] + 1
                  /\ q.for = CodeOf[q.by] => made'[q.by] > 0
           /\ posted' = "failed" => /\ tries'[q.by] = tries[q.by] + 1
                                    /\ Faults \subseteq {"refused"} => made' = made
           /\ UNCHANGED <<cached, noteId, link, queue, paused, shown, recipes, phase, got,
                          batch, task, edits, retry>>
<1>1. q \in N!Row /\ q.for \in Codes /\ q.kind \in N!Kinds /\ q.by \in Requests
  BY NotesFacts
<1>2. item = {} /\ item' = {q} /\ posted = "none"
  BY TypesNow DEF N!JobPosts
<1>3. made \in [Requests -> 0..2] /\ tries \in [Requests -> Nat]
  BY NotesFacts
<1>4. UNCHANGED <<cached, noteId, link, queue, paused, shown, recipes, phase, got,
                  batch, task, edits, retry>>
  BY DEF N!JobPosts, N!dbVars, N!requestVars
<1>5. CASE N!Makes(q.for, q.kind, q.by) /\ posted' = "ok" /\ N!NoFault /\ UNCHANGED tries
  <2>1. /\ made' \in [Requests -> 0..2]
        /\ \A s \in Requests \ {q.by} : made'[s] = made[s]
        /\ made'[q.by] >= made[q.by] /\ made'[q.by] <= made[q.by] + 1
        /\ q.for = CodeOf[q.by] => made'[q.by] > 0
    BY <1>1, <1>5, MakesIs
  <2>2. \A s \in Requests : made'[s] >= made[s]
    BY <2>1, <1>3
  <2>3. QED
    BY <1>1, <1>2, <1>3, <1>4, <1>5, <2>1, <2>2, BoundsKeep
<1>6. CASE /\ N!PostFails(q.for, q.kind, q.by) /\ posted' = "failed"
           /\ tries' = [tries EXCEPT ![q.by] = @ + 1]
  <2>1. /\ made' \in [Requests -> 0..2] /\ faults' \in 0..MaxFaults
        /\ \A s \in Requests : made'[s] >= made[s]
        /\ Faults \subseteq {"refused"} => made' = made
    BY <1>1, <1>6, PostFailsIs
  <2>2. /\ tries' \in [Requests -> Nat] /\ tries'[q.by] = tries[q.by] + 1
        /\ tries'[q.by] >= tries[q.by]
        /\ \A s \in Requests \ {q.by} : tries'[s] = tries[s]
    BY <1>1, <1>3, <1>6
  <2>3. QED
    BY <1>1, <1>2, <1>4, <1>6, <2>1, <2>2
<1>7. QED
  BY <1>5, <1>6 DEF N!JobPosts

LEMMA JobPostsTypes ==
    ASSUME NotesTypes, NEW q \in batch, N!JobPosts(q) PROVE NotesTypes'
<1>1. /\ open' \subseteq N!Entry /\ nextItem' \in Nat /\ (\A e \in open' : e.id < nextItem')
  <2>1. q.for \in Codes /\ q.kind \in N!Kinds /\ q.by \in Requests
    BY NotesFacts
  <2>2. N!Makes(q.for, q.kind, q.by) \/ N!PostFails(q.for, q.kind, q.by)
    BY DEF N!JobPosts
  <2>3. QED
    BY <2>1, <2>2, MakesIs, PostFailsIs
<1>2. item' = {q} /\ batch' = batch
  BY PostIs
<1>3. item' \subseteq batch' /\ \A p, s \in item' : p = s
  BY <1>2
<1>4. QED
  BY <1>1, <1>2, <1>3, PostIs, TypesNow, TypesStay DEF HasHighest


\* A row of the queue as it is after a failed POST of what the job has loaded.
Postponed(q, p) ==
    [p EXCEPT !.attempts = q.attempts + 1, !.wait = N!Backoff(q.attempts + 1)]

LEMMA BackoffIsNat == ASSUME NEW n \in Nat PROVE N!Backoff(n + 1) \in Nat
<1>1. CASE n \in 0..7
  <2>1. n + 1 \in {1, 2, 3, 4, 5, 6, 7, 8}
    BY <1>1
  <2>2. QED
    BY <2>1, <1>1 DEF N!Backoff
<1>2. CASE n \notin 0..7
  BY <1>2 DEF N!Backoff
<1>3. QED
  BY <1>1, <1>2

LEMMA RowWith ==
    ASSUME NEW p \in N!Row, NEW n \in Nat
    PROVE  /\ [p EXCEPT !.attempts = n] \in N!Row /\ [p EXCEPT !.wait = n] \in N!Row
           /\ [p EXCEPT !.attempts = n].attempts = n
           /\ [p EXCEPT !.wait = n].attempts = p.attempts
           /\ \A o \in {[p EXCEPT !.attempts = n], [p EXCEPT !.wait = n]} :
                  o.id = p.id /\ o.code = p.code /\ o.for = p.for /\ o.by = p.by
BY DEF N!Row

LEMMA PostponedIs ==
    ASSUME NotesTypes, NEW q \in N!Row, NEW p \in N!Row
    PROVE  /\ Postponed(q, p) \in N!Row /\ Postponed(q, p).id = p.id
           /\ Postponed(q, p).code = p.code /\ Postponed(q, p).for = p.for
           /\ Postponed(q, p).by = p.by /\ Postponed(q, p).attempts = q.attempts + 1
<1> DEFINE n == q.attempts + 1
           o == [p EXCEPT !.attempts = n]
<1>1. n \in Nat /\ N!Backoff(n) \in Nat
  BY NotesFacts, BackoffIsNat
<1>2. Postponed(q, p) = [o EXCEPT !.wait = N!Backoff(n)]
  BY DEF Postponed
<1>3. o \in N!Row /\ o.id = p.id /\ o.code = p.code /\ o.for = p.for /\ o.by = p.by
      /\ o.attempts = n
  <2> HIDE DEF n
  <2>1. QED
    BY <1>1, RowWith
<1>4. \A w \in Nat : LET u == [o EXCEPT !.wait = w] IN
          /\ u \in N!Row /\ u.attempts = n
          /\ u.id = p.id /\ u.code = p.code /\ u.for = p.for /\ u.by = p.by
  <2> HIDE DEF n, o
  <2>1. QED
    BY <1>3, RowWith
<1>5. n = q.attempts + 1
  OBVIOUS
<1> HIDE DEF n, o
<1>6. QED
  BY <1>1, <1>2, <1>4, <1>5

\* Rows that are changed in place: their ids and requests stay.
LEMMA RowsChanged ==
    ASSUME NotesTypes, NEW F, NEW hit \in SUBSET queue,
           \A p \in hit : F[p] \in N!Row /\ F[p].id = p.id,
           queue' = (queue \ hit) \cup {F[p] : p \in hit}
    PROVE  /\ queue' \subseteq N!Row /\ HasHighest'
           /\ \A p, q \in queue' : p.id = q.id => p = q
<1>1. \A p \in queue' : \E o \in queue : o.id = p.id /\ p = (IF o \in hit THEN F[o] ELSE o)
  OBVIOUS
<1>2. queue' \subseteq N!Row
  BY TypesNow
<1>3. \A p, q \in queue' : p.id = q.id => p = q
  <2>1. ASSUME NEW p \in queue', NEW q \in queue', p.id = q.id PROVE p = q
    <3>1. PICK o \in queue : o.id = p.id /\ p = (IF o \in hit THEN F[o] ELSE o)
      BY <1>1
    <3>2. PICK u \in queue : u.id = q.id /\ q = (IF u \in hit THEN F[u] ELSE u)
      BY <1>1
    <3>3. o = u
      BY <2>1, <3>1, <3>2, TypesNow
    <3>4. QED
      BY <3>1, <3>2, <3>3
  <2>2. QED
    BY <2>1
<1>4. HasHighest'
  <2>1. PICK n \in Nat : \A q \in queue : q.id <= n
    BY TypesNow DEF HasHighest
  <2>2. \A q \in queue' : q.id <= n
    BY <1>1, <2>1
  <2>3. QED
    BY <2>2 DEF HasHighest
<1>5. QED
  BY <1>2, <1>3, <1>4


\* What becomes of the row that the job has posted: deleted, or postponed.
LEMMA CommitIs ==
    ASSUME NotesTypes, NEW q \in item, N!JobCommits(q)
    PROVE  /\ item = {q} /\ q \in batch /\ q \in N!Row /\ item' = {} /\ posted' = "none"
           /\ \/ /\ posted = "ok" \/ (posted = "failed" /\ q.attempts + 1 >= MaxAttempts)
                 /\ queue' = {p \in queue : p.id # q.id} /\ batch' = batch \ {q}
              \/ /\ posted = "failed" /\ batch' \subseteq batch \ {q}
                 /\ queue' = {p \in queue : p.id # q.id} \cup
                        {Postponed(q, p) : p \in {o \in queue : o.id = q.id}}
                 /\ shown' = shown /\ retry' = retry
           /\ posted \in {"ok", "failed"}
           /\ posted = "ok" => shown' = shown /\ retry' = retry
           /\ \/ /\ shown' = shown /\ retry' = retry
                 /\ posted = "ok" \/ q.attempts + 1 < MaxAttempts
              \/ /\ shown' = shown \cup {q.code} /\ q.attempts + 1 >= MaxAttempts
                 /\ posted = "failed"
                 /\ retry' = [retry EXCEPT ![q.by] =
                                  IF retry[q.by] = "owed" THEN "given_up" ELSE @]
           /\ UNCHANGED <<cached, noteId, link, paused, open, nextItem, recipes, phase, got,
                          task, edits, faults, tries, made>>
<1>1. item = {q} /\ q \in batch /\ q \in N!Row /\ posted \in {"ok", "failed"}
  BY TypesNow
<1>2. UNCHANGED <<cached, noteId, link, paused, open, nextItem, recipes, phase, got,
                  task, edits, faults, tries, made>>
  BY DEF N!JobCommits, N!mealieVars, N!requestVars
<1>3. item' = {} /\ posted' = "none"
  BY DEF N!JobCommits
<1>4. ASSUME N!JobDeletes(q)
      PROVE  queue' = {p \in queue : p.id # q.id} /\ batch' = batch \ {q}
  BY <1>4 DEF N!JobDeletes, N!Stored
<1>5. CASE posted = "ok" /\ N!JobDeletes(q) /\ UNCHANGED <<shown, retry>>
  <2>1. queue' = {p \in queue : p.id # q.id} /\ batch' = batch \ {q}
    BY <1>4, <1>5
  <2>2. posted = "ok" /\ shown' = shown /\ retry' = retry
    BY <1>5
  <2>3. (posted = "ok" \/ (posted = "failed" /\ q.attempts + 1 >= MaxAttempts))
            /\ queue' = {p \in queue : p.id # q.id} /\ batch' = batch \ {q}
    BY <2>1, <2>2
  <2>4. QED
    BY <1>1, <1>2, <1>3, <2>2, <2>3
<1>6. CASE posted = "failed" /\ N!RetryFailed(q)
  <2>1. CASE /\ q.attempts + 1 >= MaxAttempts /\ N!JobDeletes(q)
             /\ shown' = shown \cup {q.code}
             /\ retry' = [retry EXCEPT ![q.by] = IF @ = "owed" THEN "given_up" ELSE @]
    BY <1>1, <1>2, <1>3, <1>4, <1>6, <2>1
  <2>2. CASE q.attempts + 1 < MaxAttempts /\ N!JobUpdates(q) /\ UNCHANGED <<shown, retry>>
    <3>1. queue' = {p \in queue : p.id # q.id} \cup
                       {Postponed(q, p) : p \in {o \in queue : o.id = q.id}}
      BY <2>2 DEF N!JobUpdates, N!Stored, Postponed
    <3>2. batch' \subseteq batch \ {q}
      BY <2>2 DEF N!JobUpdates
    <3>3. QED
      BY <1>1, <1>2, <1>3, <1>6, <2>2, <3>1, <3>2
  <2>3. QED
    BY <1>6, <2>1, <2>2 DEF N!RetryFailed
<1>7. QED
  BY <1>5, <1>6 DEF N!JobCommits

LEMMA JobCommitsTypes ==
    ASSUME NotesTypes, NEW q \in item, N!JobCommits(q) PROVE NotesTypes'
<1>1. /\ queue' \subseteq N!Row /\ HasHighest'
      /\ \A p, s \in queue' : p.id = s.id => p = s
  <2>1. CASE queue' = {p \in queue : p.id # q.id}
    BY <2>1, FewerRows
  <2>2. CASE queue' = {p \in queue : p.id # q.id} \cup
                          {Postponed(q, p) : p \in {o \in queue : o.id = q.id}}
    <3> DEFINE hit == {o \in queue : o.id = q.id}
               F == [p \in N!Row |-> Postponed(q, p)]
    <3>1. \A p \in hit : F[p] \in N!Row /\ F[p].id = p.id
      BY CommitIs, TypesNow, PostponedIs
    <3>2. queue' = (queue \ hit) \cup {F[p] : p \in hit}
      <4>1. \A p \in hit : F[p] = Postponed(q, p)
        BY TypesNow
      <4>2. {F[p] : p \in hit} = {Postponed(q, p) : p \in hit}
        <5> HIDE DEF F
        <5>1. QED
          BY <4>1
      <4>3. {p \in queue : p.id # q.id} = queue \ hit
        OBVIOUS
      <4> HIDE DEF F
      <4>4. QED
        BY <2>2, <4>2, <4>3
    <3>3. hit \in SUBSET queue
      OBVIOUS
    <3> HIDE DEF hit, F
    <3>4. QED
      BY <3>1, <3>2, <3>3, RowsChanged
  <2>3. QED
    BY <2>1, <2>2, CommitIs
<1>2. batch' \subseteq batch
  BY CommitIs
<1>3. batch' \subseteq N!Row /\ \A p, s \in batch' : p.id = s.id => p = s
  BY <1>2, TypesNow
<1>4. shown' \subseteq Codes /\ retry' \in [Requests -> N!Fates]
  <2>1. q.code \in Codes /\ "given_up" \in N!Fates
    BY CommitIs, NotesFacts DEF N!Fates
  <2>2. QED
    BY <2>1, CommitIs, TypesNow
<1>5. item' \subseteq batch' /\ (\A p, s \in item' : p = s) /\ item' = {} /\ posted' = "none"
  BY CommitIs
<1>6. QED
  BY <1>1, <1>3, <1>4, <1>5, CommitIs, TypesNow, TypesStay

\* A row whose back-off is over.
LEMMA BackoffIs ==
    ASSUME NotesTypes, NEW q \in queue, N!BackoffOver(q)
    PROVE  /\ q \in N!Row /\ [q EXCEPT !.wait = 0] \in N!Row
           /\ [q EXCEPT !.wait = 0].id = q.id /\ [q EXCEPT !.wait = 0].by = q.by
           /\ [q EXCEPT !.wait = 0].code = q.code /\ [q EXCEPT !.wait = 0].for = q.for
           /\ [q EXCEPT !.wait = 0].attempts = q.attempts
           /\ queue' = (queue \ {q}) \cup {[q EXCEPT !.wait = 0]}
           /\ UNCHANGED <<cached, noteId, link, paused, shown, open, nextItem, recipes,
                          phase, got, batch, item, posted, task, edits, faults, tries,
                          made, retry>>
<1>1. q \in N!Row
  BY TypesNow
<1>2. QED
  BY <1>1, RowWith DEF N!BackoffOver, N!mealieVars, N!requestVars, N!jobVars, N!historyVars

LEMMA BackoffOverTypes ==
    ASSUME NotesTypes, NEW q \in queue, N!BackoffOver(q) PROVE NotesTypes'
<1>1. /\ queue' \subseteq N!Row /\ HasHighest'
      /\ \A p, s \in queue' : p.id = s.id => p = s
  <2> DEFINE F == [p \in N!Row |-> [q EXCEPT !.wait = 0]]
  <2>1. F[q] = [q EXCEPT !.wait = 0]
    BY BackoffIs
  <2> HIDE DEF F
  <2>2. F[q] \in N!Row /\ F[q].id = q.id
    BY <2>1, BackoffIs
  <2>3. queue' = (queue \ {q}) \cup {F[p] : p \in {q}}
    BY <2>1, BackoffIs
  <2>4. {q} \in SUBSET queue
    OBVIOUS
  <2>5. \A p \in {q} : F[p] \in N!Row /\ F[p].id = p.id
    BY <2>2
  <2>6. QED
    BY <2>3, <2>4, <2>5, RowsChanged
<1>2. UNCHANGED <<cached, noteId, link, paused, shown, open, nextItem, recipes, phase,
                  got, batch, item, posted, task, edits, faults, tries, made, retry>>
  BY BackoffIs
<1>3. QED
  BY <1>1, <1>2, TypesNow, TypesStay


\* A reconciliation after its step.
LEMMA TaskStays ==
    ASSUME NotesTypes, NEW t \in N!Tasks, NEW v \in N!TaskState,
           task' = [task EXCEPT ![t] = v]
    PROVE  task' \in [N!Tasks -> N!TaskState]
BY TypesNow

LEMMA TaskParts ==
    ASSUME NotesTypes, NEW t \in N!Tasks
    PROVE  /\ task[t] \in N!TaskState /\ task[t].code \in Codes /\ task[t].id \in Nat
           /\ task[t].rows \subseteq N!Row /\ task[t].add \in BOOLEAN
BY TypesNow DEF N!TaskState

LEMMA TaskEntering ==
    ASSUME NEW v \in N!TaskState,
           NEW s \in {"read", "rewrite", "get", "put", "delete", "forget", "add"},
           NEW u, u = [v EXCEPT !.step = s]
    PROVE  /\ u \in N!TaskState /\ u.rows = v.rows /\ u.code = v.code
           /\ u.step = s /\ u.kind = v.kind
BY DEF N!TaskState

LEMMA TaskAdding ==
    ASSUME NEW v \in N!TaskState, NEW b \in BOOLEAN, NEW u, u = [v EXCEPT !.add = b]
    PROVE  /\ u \in N!TaskState /\ u.rows = v.rows /\ u.code = v.code
           /\ u.step = v.step /\ u.kind = v.kind
BY DEF N!TaskState

\* What the steps of a reconciliation that leave queue and retries alone have in
\* common: what they write of the rest, and that they forget or keep their rows.
Quietly(t) ==
    /\ UNCHANGED <<cached, link, queue, paused, shown, nextItem, phase, got, batch, item,
                   posted, edits, tries, made, retry>>
    /\ noteId' \in [Codes -> Nat] /\ recipes' \subseteq Codes /\ faults' \in 0..MaxFaults
    /\ open' \subseteq N!Entry /\ \A e \in open' : e.id < nextItem
    /\ \E v \in N!TaskState :
           /\ task' = [task EXCEPT ![t] = v]
           /\ v = N!NoTask \/ ( /\ v.rows = task[t].rows /\ v.code = task[t].code
                               /\ v.step # "drop" /\ v.kind = task[t].kind)

LEMMA QuietlyTypes ==
    ASSUME NotesTypes, NEW t \in N!Tasks, Quietly(t) PROVE NotesTypes'
<1>1. task' \in [N!Tasks -> N!TaskState]
  BY TaskStays DEF Quietly
<1>2. QED
  BY <1>1, TypesNow, TypesStay DEF Quietly, HasHighest

LEMMA NotedIs ==
    ASSUME NotesTypes, NEW t \in N!Tasks
    PROVE  /\ N!Noted(t) \subseteq open
           /\ LET foods == {[e EXCEPT !.kind = "food"] : e \in N!Noted(t)} IN
              /\ (open \ N!Noted(t)) \cup foods \subseteq N!Entry
              /\ \A e \in (open \ N!Noted(t)) \cup foods : e.id < nextItem
<1>1. N!Noted(t) \subseteq open
  BY DEF N!Noted
<1>2. \A e \in open : /\ e \in N!Entry /\ e.id < nextItem
                      /\ [e EXCEPT !.kind = "food"] \in N!Entry
                      /\ [e EXCEPT !.kind = "food"].id = e.id
  BY TypesNow DEF N!Entry, N!Kinds
<1>3. QED
  BY <1>1, <1>2

LEMMA EndsIs ==
    ASSUME NotesTypes, NEW t \in N!Tasks, N!Ends(t)
    PROVE  task' = [task EXCEPT ![t] = N!NoTask] /\ N!NoTask \in N!TaskState
BY NotesFacts DEF N!Ends

\* The next step of a reconciliation that keeps what it has read.
LEMMA EntersIs ==
    ASSUME NotesTypes, NEW t \in N!Tasks, NEW s \in {"get", "put", "delete", "forget"},
           N!Enters(t, s)
    PROVE  \E v \in N!TaskState :
               /\ task' = [task EXCEPT ![t] = v] /\ v.rows = task[t].rows
               /\ v.code = task[t].code /\ v.step = s /\ v.kind = task[t].kind
<1> DEFINE v == [task[t] EXCEPT !.step = s]
<1>1. /\ v \in N!TaskState /\ v.rows = task[t].rows /\ v.code = task[t].code
      /\ v.step = s /\ v.kind = task[t].kind
  <2>1. v = [task[t] EXCEPT !.step = s]
    OBVIOUS
  <2> HIDE DEF v
  <2>2. QED
    BY <2>1, TaskParts, TaskEntering
<1>2. task' = [task EXCEPT ![t] = v]
  BY DEF N!Enters
<1> HIDE DEF v
<1>3. QED
  BY <1>1, <1>2

\* The same with what is to be added.
LEMMA EntersAddIs ==
    ASSUME NotesTypes, NEW t \in N!Tasks, NEW s \in {"get", "add", "forget"},
           NEW b \in BOOLEAN,
           task' = [task EXCEPT ![t] = [task[t] EXCEPT !.step = s, !.add = b]]
    PROVE  \E v \in N!TaskState :
               /\ task' = [task EXCEPT ![t] = v] /\ v.rows = task[t].rows
               /\ v.code = task[t].code /\ v.step = s /\ v.kind = task[t].kind
<1> DEFINE u == [task[t] EXCEPT !.step = s]
           v == [u EXCEPT !.add = b]
<1>1. /\ u \in N!TaskState /\ u.rows = task[t].rows /\ u.code = task[t].code
      /\ u.step = s /\ u.kind = task[t].kind
  <2>1. u = [task[t] EXCEPT !.step = s]
    OBVIOUS
  <2> HIDE DEF u
  <2>2. QED
    BY <2>1, TaskParts, TaskEntering
<1>2. /\ v \in N!TaskState /\ v.rows = u.rows /\ v.code = u.code
      /\ v.step = u.step /\ v.kind = u.kind
  <2>1. v = [u EXCEPT !.add = b]
    OBVIOUS
  <2> HIDE DEF u, v
  <2>2. QED
    BY <1>1, <2>1, TaskAdding
<1>3. task' = [task EXCEPT ![t] = v]
  OBVIOUS
<1> HIDE DEF u, v
<1>4. QED
  BY <1>1, <1>2, <1>3

LEMMA GetsQuietly ==
    ASSUME NotesTypes, NEW t \in N!Tasks, N!TaskGets(t) PROVE Quietly(t)
<1>1. PICK s \in {"put", "delete", "forget"} : N!Enters(t, s)
  BY DEF N!TaskGets
<1>2. PICK v \in N!TaskState :
          /\ task' = [task EXCEPT ![t] = v] /\ v.rows = task[t].rows
          /\ v.code = task[t].code /\ v.step = s /\ v.kind = task[t].kind
  BY <1>1, EntersIs
<1>3. faults' \in 0..MaxFaults
  BY BoundsKeep DEF N!TaskGets
<1>4. UNCHANGED <<cached, noteId, link, queue, paused, shown, open, nextItem, recipes,
                  phase, got, batch, item, posted, edits, tries, made, retry>>
  BY DEF N!TaskGets, N!dbVars, N!mealieVars, N!requestVars, N!jobVars, N!historyVars
<1>5. QED
  BY <1>1, <1>2, <1>3, <1>4, TypesNow DEF Quietly

LEMMA PutsQuietly ==
    ASSUME NotesTypes, NEW t \in N!Tasks, N!TaskPuts(t) PROVE Quietly(t)
<1>1. \E v \in N!TaskState :
          /\ task' = [task EXCEPT ![t] = v]
          /\ v = N!NoTask \/ ( /\ v.rows = task[t].rows /\ v.code = task[t].code
                              /\ v.step # "drop" /\ v.kind = task[t].kind)
  <2>1. CASE N!Enters(t, "forget")
    BY <2>1, EntersIs
  <2>2. CASE N!Ends(t)
    BY <2>2, EndsIs
  <2>3. QED
    BY <2>1, <2>2 DEF N!TaskPuts
<1>2. faults' \in 0..MaxFaults
  BY BoundsKeep DEF N!TaskPuts
<1>3. open' \subseteq N!Entry /\ \A e \in open' : e.id < nextItem
  BY NotedIs, TypesNow DEF N!TaskPuts
<1>4. UNCHANGED <<cached, noteId, link, queue, paused, shown, nextItem, recipes,
                  phase, got, batch, item, posted, edits, tries, made, retry>>
  BY DEF N!TaskPuts, N!dbVars, N!requestVars, N!jobVars, N!historyVars
<1>5. QED
  BY <1>1, <1>2, <1>3, <1>4, TypesNow DEF Quietly

LEMMA DeletesQuietly ==
    ASSUME NotesTypes, NEW t \in N!Tasks, N!TaskDeletes(t) PROVE Quietly(t)
<1>1. \E v \in N!TaskState :
          /\ task' = [task EXCEPT ![t] = v] /\ v.rows = task[t].rows
          /\ v.code = task[t].code /\ v.step = "forget" /\ v.kind = task[t].kind
  <2>1. CASE task' = [task EXCEPT ![t].step = "forget", ![t].add = TRUE]
    <3>1. task' = [task EXCEPT ![t] = [task[t] EXCEPT !.step = "forget", !.add = TRUE]]
      BY <2>1, TypesNow
    <3>2. QED
      BY <3>1, EntersAddIs
  <2>2. CASE N!Enters(t, "forget")
    BY <2>2, EntersIs
  <2>3. QED
    BY <2>1, <2>2 DEF N!TaskDeletes
<1>2. faults' \in 0..MaxFaults
  BY BoundsKeep DEF N!TaskDeletes
<1>3. open' \subseteq N!Entry /\ \A e \in open' : e.id < nextItem
  BY TypesNow DEF N!TaskDeletes
<1>4. UNCHANGED <<cached, noteId, link, queue, paused, shown, nextItem, recipes,
                  phase, got, batch, item, posted, edits, tries, made, retry>>
  BY DEF N!TaskDeletes, N!dbVars, N!requestVars, N!jobVars, N!historyVars
<1>5. QED
  BY <1>1, <1>2, <1>3, <1>4, TypesNow DEF Quietly

LEMMA ForgetsQuietly ==
    ASSUME NotesTypes, NEW t \in N!Tasks, N!TaskForgets(t) PROVE Quietly(t)
<1> DEFINE add == task[t].code \in cached /\ task[t].add
<1>1. \E v \in N!TaskState :
          /\ task' = [task EXCEPT ![t] = v]
          /\ v = N!NoTask \/ ( /\ v.rows = task[t].rows /\ v.code = task[t].code
                              /\ v.step # "drop" /\ v.kind = task[t].kind)
  <2>1. CASE add
    <3>1. task' = [task EXCEPT ![t] = [task[t] EXCEPT !.step = "add", !.add = TRUE]]
      BY <2>1 DEF N!TaskForgets, N!AddsOrEnds
    <3>2. QED
      BY <3>1, EntersAddIs
  <2>2. CASE ~add
    BY <2>2, NotesFacts DEF N!TaskForgets, N!AddsOrEnds
  <2>3. QED
    BY <2>1, <2>2
<1>2. noteId' \in [Codes -> Nat] /\ faults' \in 0..MaxFaults
  BY TypesNow, TaskParts DEF N!TaskForgets, N!NoItem
<1>3. UNCHANGED <<cached, link, queue, paused, shown, open, nextItem, recipes,
                  phase, got, batch, item, posted, edits, tries, made, retry>>
  BY DEF N!TaskForgets, N!mealieVars, N!requestVars, N!jobVars, N!historyVars
<1>4. QED
  BY <1>1, <1>2, <1>3, TypesNow DEF Quietly

LEMMA AddsQuietly ==
    ASSUME NotesTypes, NEW t \in N!Tasks, N!TaskAddsRecipe(t) PROVE Quietly(t)
<1>1. task' = [task EXCEPT ![t] = N!NoTask] /\ N!NoTask \in N!TaskState
  BY EndsIs DEF N!TaskAddsRecipe
<1>2. recipes' \subseteq Codes /\ faults' \in 0..MaxFaults
  BY TypesNow, TaskParts, BoundsKeep DEF N!TaskAddsRecipe
<1>3. UNCHANGED <<cached, noteId, link, queue, paused, shown, open, nextItem,
                  phase, got, batch, item, posted, edits, tries, made, retry>>
  BY DEF N!TaskAddsRecipe, N!dbVars, N!requestVars, N!jobVars, N!historyVars
<1>4. QED
  BY <1>1, <1>2, <1>3, TypesNow DEF Quietly


\* What a reconciliation has read.
LEMMA ReadsIs ==
    ASSUME NotesTypes, NEW t \in N!Tasks, N!TaskReads(t)
    PROVE  /\ \E v \in N!TaskState :
                  /\ task' = [task EXCEPT ![t] = v]
                  /\ v = N!NoTask \/ ( /\ v.rows = {q \in queue : q.code = v.code}
                                      /\ v.kind = link[v.code] /\ v.kind # "none"
                                      /\ v.step = IF v.kind = "food" THEN "rewrite"
                                                                     ELSE "drop")
           /\ UNCHANGED <<cached, noteId, link, queue, paused, shown, open, nextItem,
                          recipes, phase, got, batch, item, posted, edits, faults, tries,
                          made, retry>>
<1> DEFINE c == task[t].code
           read == {q \in queue : q.code = c}
           step == IF link[c] = "food" THEN "rewrite" ELSE "drop"
           v == [step |-> step, code |-> c, kind |-> link[c], id |-> noteId[c],
                 rows |-> read, add |-> FALSE]
<1>1. c \in Codes /\ noteId[c] \in Nat /\ link[c] \in {"none", "food", "recipe"}
  BY TypesNow, TaskParts
<1>2. v \in N!TaskState
  <2>1. read \subseteq N!Row
    BY TypesNow
  <2>2. step \in {"rewrite", "drop"}
    OBVIOUS
  <2> HIDE DEF read, step, c
  <2>3. QED
    BY <1>1, <2>1, <2>2 DEF N!TaskState
<1>3. task' = [task EXCEPT ![t] = IF link[c] = "none" THEN N!NoTask ELSE v]
  BY DEF N!TaskReads
<1>4. \E u \in N!TaskState :
          /\ task' = [task EXCEPT ![t] = u]
          /\ u = N!NoTask \/ ( /\ u.rows = {q \in queue : q.code = u.code}
                              /\ u.kind = link[u.code] /\ u.kind # "none"
                              /\ u.step = IF u.kind = "food" THEN "rewrite" ELSE "drop")
  <2>1. v.rows = {q \in queue : q.code = v.code} /\ v.kind = link[v.code]
        /\ v.step = IF v.kind = "food" THEN "rewrite" ELSE "drop"
    OBVIOUS
  <2>2. CASE link[c] = "none"
    <3> HIDE DEF v
    <3>1. QED
      BY <1>3, <2>2, NotesFacts
  <2>3. CASE link[c] # "none"
    <3>1. v.kind # "none"
      BY <2>3
    <3> HIDE DEF v
    <3>2. QED
      BY <1>2, <1>3, <2>1, <2>3, <3>1
  <2>4. QED
    BY <2>2, <2>3
<1>5. UNCHANGED <<cached, noteId, link, queue, paused, shown, open, nextItem,
                  recipes, phase, got, batch, item, posted, edits, faults, tries,
                  made, retry>>
  BY DEF N!TaskReads, N!dbVars, N!mealieVars, N!requestVars, N!jobVars, N!historyVars
<1>6. QED
  BY <1>4, <1>5

LEMMA TaskReadsTypes ==
    ASSUME NotesTypes, NEW t \in N!Tasks, N!TaskReads(t) PROVE NotesTypes'
<1>1. task' \in [N!Tasks -> N!TaskState]
  BY ReadsIs, TaskStays
<1>2. UNCHANGED <<cached, noteId, link, queue, paused, shown, open, nextItem,
                  recipes, phase, got, batch, item, posted, edits, faults, tries,
                  made, retry>>
  BY ReadsIs
<1>3. QED
  BY <1>1, <1>2, TypesNow, TypesStay DEF HasHighest

\* A reconciliation that goes on from its rows to the entry, or ends.
GoesOn(t) ==
    \E v \in N!TaskState :
        /\ task' = [task EXCEPT ![t] = v]
        /\ v = N!NoTask \/ ( /\ v.rows = task[t].rows /\ v.code = task[t].code
                            /\ v.step # "drop" /\ v.kind = task[t].kind)

LEMMA RewriteIs ==
    ASSUME NEW q \in N!Row, NEW c \in Codes
    PROVE  /\ N!Rewritten(q, c) \in N!Row /\ N!Rewritten(q, c).id = q.id
           /\ N!Rewritten(q, c).code = q.code /\ N!Rewritten(q, c).for = c
           /\ N!Rewritten(q, c).by = q.by /\ N!Rewritten(q, c).attempts = q.attempts
<1> DEFINE u == [q EXCEPT !.kind = "food"]
           w == [u EXCEPT !.for = c]
<1>1. u \in N!Row /\ u.id = q.id /\ u.code = q.code /\ u.by = q.by
      /\ u.attempts = q.attempts
  BY DEF N!Row, N!Kinds
<1>2. w \in N!Row /\ w.id = u.id /\ w.code = u.code /\ w.by = u.by
      /\ w.attempts = u.attempts /\ w.for = c
  <2> HIDE DEF u
  <2>1. QED
    BY <1>1 DEF N!Row
<1>3. N!Rewritten(q, c) = w
  BY DEF N!Rewritten
<1> HIDE DEF u, w
<1>4. QED
  BY <1>1, <1>2, <1>3

\* Only rows with the id of a row that was read get another target.
LEMMA RewritesIs ==
    ASSUME NotesTypes, NEW t \in N!Tasks, N!TaskRewrites(t)
    PROVE  /\ \/ queue' = queue
              \/ \E hit \in SUBSET queue :
                     /\ \A q \in hit : \E p \in task[t].rows : p.id = q.id
                     /\ queue' = (queue \ hit) \cup
                                     {N!Rewritten(q, task[t].code) : q \in hit}
           /\ GoesOn(t)
           /\ UNCHANGED <<cached, noteId, link, paused, shown, open, nextItem,
                          recipes, phase, got, batch, item, posted, edits, faults, tries,
                          made, retry>>
<1> DEFINE c == task[t].code
           ids == {q.id : q \in {p \in task[t].rows : p.kind = "note"}}
           hit == {q \in queue : q.id \in ids}
<1>1. \A q \in hit : \E p \in task[t].rows : p.id = q.id
  OBVIOUS
<1>2. \/ /\ queue' = (queue \ hit) \cup {N!Rewritten(q, c) : q \in hit}
         /\ N!Ends(t) \/ N!Enters(t, "get")
      \/ N!Ends(t) /\ queue' = queue
  BY DEF N!TaskRewrites
<1>3. GoesOn(t)
  <2>1. CASE N!Ends(t)
    BY <2>1, EndsIs DEF GoesOn
  <2>2. CASE N!Enters(t, "get")
    BY <2>2, EntersIs DEF GoesOn
  <2> HIDE DEF hit
  <2>3. QED
    BY <1>2, <2>1, <2>2
<1>4. UNCHANGED <<cached, noteId, link, paused, shown, open, nextItem,
                  recipes, phase, got, batch, item, posted, edits, faults, tries,
                  made, retry>>
  BY DEF N!TaskRewrites, N!mealieVars, N!requestVars, N!jobVars, N!historyVars
<1>5. hit \in SUBSET queue
  OBVIOUS
<1> HIDE DEF hit
<1>6. QED
  BY <1>1, <1>2, <1>3, <1>4, <1>5

LEMMA TaskRewritesTypes ==
    ASSUME NotesTypes, NEW t \in N!Tasks, N!TaskRewrites(t) PROVE NotesTypes'
<1>1. /\ queue' \subseteq N!Row /\ HasHighest'
      /\ \A p, q \in queue' : p.id = q.id => p = q
  <2>1. CASE queue' = queue
    BY <2>1, FewerRows
  <2>2. ASSUME NEW hit \in SUBSET queue,
               queue' = (queue \ hit) \cup {N!Rewritten(q, task[t].code) : q \in hit}
        PROVE  /\ queue' \subseteq N!Row /\ HasHighest'
               /\ \A p, q \in queue' : p.id = q.id => p = q
    <3> DEFINE F == [q \in N!Row |-> N!Rewritten(q, task[t].code)]
    <3>1. \A q \in hit : F[q] = N!Rewritten(q, task[t].code)
      BY TypesNow
    <3> HIDE DEF F
    <3>2. {F[q] : q \in hit} = {N!Rewritten(q, task[t].code) : q \in hit}
      BY <3>1
    <3>3. \A q \in hit : F[q] \in N!Row /\ F[q].id = q.id
      BY <3>1, RewriteIs, TaskParts, TypesNow
    <3>4. queue' = (queue \ hit) \cup {F[q] : q \in hit}
      BY <2>2, <3>2
    <3>5. QED
      BY <3>3, <3>4, RowsChanged
  <2>3. QED
    BY <2>1, <2>2, RewritesIs
<1>2. task' \in [N!Tasks -> N!TaskState]
  BY RewritesIs, TaskStays DEF GoesOn
<1>3. UNCHANGED <<cached, noteId, link, paused, shown, open, nextItem,
                  recipes, phase, got, batch, item, posted, edits, faults, tries,
                  made, retry>>
  BY RewritesIs
<1>4. QED
  BY <1>1, <1>2, <1>3, TypesNow, TypesStay

LEMMA DropsIs ==
    ASSUME NotesTypes, NEW t \in N!Tasks, N!TaskDrops(t)
    PROVE  /\ task[t].step = "drop" /\ queue' \subseteq queue
           /\ task' \in [N!Tasks -> N!TaskState] /\ retry' \in [Requests -> N!Fates]
           /\ UNCHANGED <<cached, noteId, link, paused, shown, open, nextItem,
                          recipes, phase, got, batch, item, posted, edits, faults, tries,
                          made>>
<1>1. queue' \subseteq queue /\ task[t].step = "drop"
  BY DEF N!TaskDrops
<1>2. retry' \in [Requests -> N!Fates]
  BY TypesNow DEF N!TaskDrops, N!Fates
<1>3. task' \in [N!Tasks -> N!TaskState]
  <2> DEFINE b == task[t].rows # {}
  <2>1. CASE task[t].id = N!NoItem
    <3>1. CASE b
      <4>1. task' = [task EXCEPT ![t] = [task[t] EXCEPT !.step = "add", !.add = TRUE]]
        BY <2>1, <3>1 DEF N!TaskDrops, N!AddsOrEnds
      <4>2. PICK v \in N!TaskState : task' = [task EXCEPT ![t] = v]
        BY <4>1, EntersAddIs
      <4>3. QED
        BY <4>2, TaskStays
    <3>2. CASE ~b
      <4>1. task' = [task EXCEPT ![t] = N!NoTask]
        BY <2>1, <3>2 DEF N!TaskDrops, N!AddsOrEnds
      <4>2. QED
        BY <4>1, NotesFacts, TaskStays
    <3>3. QED
      BY <3>1, <3>2
  <2>2. CASE task[t].id # N!NoItem
    <3>1. task' = [task EXCEPT ![t].step = "get", ![t].add = b]
      BY <2>2 DEF N!TaskDrops
    <3>2. task' = [task EXCEPT ![t] = [task[t] EXCEPT !.step = "get", !.add = b]]
      <4> HIDE DEF b
      <4>1. QED
        BY <3>1, TypesNow
    <3>3. b \in BOOLEAN
      OBVIOUS
    <3> HIDE DEF b
    <3>4. PICK v \in N!TaskState : task' = [task EXCEPT ![t] = v]
      BY <3>2, <3>3, EntersAddIs
    <3>5. QED
      BY <3>4, TaskStays
  <2>3. QED
    BY <2>1, <2>2
<1>4. UNCHANGED <<cached, noteId, link, paused, shown, open, nextItem,
                  recipes, phase, got, batch, item, posted, edits, faults, tries, made>>
  BY DEF N!TaskDrops, N!mealieVars, N!requestVars, N!jobVars
<1>5. QED
  BY <1>1, <1>2, <1>3, <1>4

LEMMA TaskDropsTypes ==
    ASSUME NotesTypes, NEW t \in N!Tasks, N!TaskDrops(t) PROVE NotesTypes'
BY DropsIs, FewerRows, TypesNow, TypesStay


\* A barcode that gets a target, and the reconciliation that follows.
LEMMA LinkIs ==
    ASSUME NotesTypes, NEW c \in Codes, NEW kind \in {"food", "recipe"},
           N!LinkCode(c, kind)
    PROVE  /\ kind \in Edits /\ edits + 1 \in N!Tasks /\ edits' \in 0..MaxEdits
           /\ link' \in [Codes -> {"none", "food", "recipe"}]
           /\ \A d \in Codes : link'[d] \in {link[d], kind}
           /\ \E v \in N!TaskState :
                  /\ task' = [task EXCEPT ![edits + 1] = v]
                  /\ v.step = "read" /\ v.rows = {} /\ v.code = c /\ v.kind = "none"
           /\ UNCHANGED <<cached, noteId, queue, paused, shown, open, nextItem, recipes,
                          phase, got, batch, item, posted, faults, tries, made, retry>>
<1> DEFINE v == [N!NoTask EXCEPT !.step = "read", !.code = c]
<1>1. kind \in Edits /\ edits + 1 \in N!Tasks /\ edits' \in 0..MaxEdits
  BY BoundsKeep DEF N!LinkCode
<1>2. /\ link' \in [Codes -> {"none", "food", "recipe"}]
      /\ \A d \in Codes : link'[d] \in {link[d], kind}
  BY TypesNow DEF N!LinkCode
<1>3. /\ v \in N!TaskState /\ v.step = "read" /\ v.rows = {} /\ v.code = c
      /\ v.kind = "none"
  BY DEF N!NoTask, N!TaskState, N!NoItem
<1>4. task' = [task EXCEPT ![edits + 1] = v]
  BY DEF N!LinkCode
<1>5. UNCHANGED <<cached, noteId, queue, paused, shown, open, nextItem, recipes,
                  phase, got, batch, item, posted, faults, tries, made, retry>>
  BY DEF N!LinkCode, N!mealieVars, N!requestVars, N!jobVars, N!historyVars
<1> HIDE DEF v
<1>6. QED
  BY <1>1, <1>2, <1>3, <1>4, <1>5

LEMMA LinkCodeTypes ==
    ASSUME NotesTypes, NEW c \in Codes, NEW kind \in {"food", "recipe"},
           N!LinkCode(c, kind)
    PROVE  NotesTypes'
<1>1. PICK v \in N!TaskState : task' = [task EXCEPT ![edits + 1] = v]
  BY LinkIs
<1>2. task' \in [N!Tasks -> N!TaskState]
  BY <1>1, LinkIs, TaskStays
<1>3. QED
  BY <1>2, LinkIs, TypesNow, TypesStay DEF HasHighest

\* Edits of the user that change neither the queue nor a retry.
LEMMA UnlinkTypes ==
    ASSUME NotesTypes, NEW c \in Codes, N!Unlink(c) PROVE NotesTypes'
<1>1. edits' \in 0..MaxEdits /\ link' \in [Codes -> {"none", "food", "recipe"}]
  BY BoundsKeep, TypesNow DEF N!Unlink
<1>2. UNCHANGED <<cached, noteId, queue, paused, shown, open, nextItem, recipes, phase,
                  got, batch, item, posted, task, faults, tries, made, retry>>
  BY DEF N!Unlink, N!mealieVars, N!requestVars, N!jobVars, N!historyVars
<1>3. QED
  BY <1>1, <1>2, TypesNow, TypesStay DEF HasHighest

LEMMA PauseTypes ==
    ASSUME NotesTypes, N!Pause \/ N!Resume PROVE NotesTypes'
<1>1. edits' \in 0..MaxEdits /\ paused' \in BOOLEAN
  BY BoundsKeep, TypesNow DEF N!Pause, N!Resume
<1>2. UNCHANGED <<cached, noteId, link, queue, shown, open, nextItem, recipes, phase,
                  got, batch, item, posted, task, faults, tries, made, retry>>
  BY DEF N!Pause, N!Resume, N!mealieVars, N!requestVars, N!jobVars, N!historyVars
<1>3. QED
  BY <1>1, <1>2, TypesNow, TypesStay DEF HasHighest

LEMMA BoughtTypes ==
    ASSUME NotesTypes, NEW e \in open, N!Bought(e) PROVE NotesTypes'
<1>1. edits' \in 0..MaxEdits /\ open' \subseteq open
  BY BoundsKeep DEF N!Bought
<1>2. UNCHANGED <<cached, noteId, link, queue, paused, shown, nextItem, recipes, phase,
                  got, batch, item, posted, task, faults, tries, made, retry>>
  BY DEF N!Bought, N!dbVars, N!requestVars, N!jobVars, N!historyVars
<1>3. open' \subseteq N!Entry /\ \A f \in open' : f.id < nextItem'
  BY <1>1, <1>2, TypesNow
<1>4. QED
  BY <1>1, <1>2, <1>3, TypesNow, TypesStay DEF HasHighest

LEMMA DeleteCodeTypes ==
    ASSUME NotesTypes, NEW c \in Codes, N!DeleteCode(c) PROVE NotesTypes'
<1>1. /\ edits' \in 0..MaxEdits /\ link' \in [Codes -> {"none", "food", "recipe"}]
      /\ shown' \subseteq Codes /\ cached' \subseteq Codes /\ noteId' \in [Codes -> Nat]
  BY BoundsKeep, TypesNow DEF N!DeleteCode, N!NoItem
<1>2. queue' \subseteq queue /\ retry' \in [Requests -> N!Fates]
  BY TypesNow DEF N!DeleteCode, N!Fates
<1>3. UNCHANGED <<paused, open, nextItem, recipes, phase, got, batch, item, posted, task,
                  faults, tries, made>>
  BY DEF N!DeleteCode, N!mealieVars, N!requestVars, N!jobVars
<1>4. QED
  BY <1>1, <1>2, <1>3, FewerRows, TypesNow, TypesStay

LEMMA CrashTypes ==
    ASSUME NotesTypes, N!Crash PROVE NotesTypes'
<1>1. faults' \in 0..MaxFaults /\ phase' \in [Requests -> N!Phases]
  BY BoundsKeep, TypesNow DEF N!Crash, N!Phases, N!Final
<1>2. task' \in [N!Tasks -> N!TaskState]
  BY NotesFacts DEF N!Crash
<1>3. batch' = {} /\ item' = {} /\ posted' = "none"
  BY DEF N!Crash
<1>4. UNCHANGED <<cached, noteId, link, queue, paused, shown, open, nextItem, recipes,
                  got, edits, tries, made, retry>>
  BY DEF N!Crash, N!dbVars, N!mealieVars, N!historyVars
<1>5. QED
  BY <1>1, <1>2, <1>3, <1>4, TypesNow, TypesStay DEF HasHighest

LEMMA NotesTypesInit == N!NotesAssumption /\ N!Init => NotesTypes
<1> SUFFICES ASSUME N!NotesAssumption, N!Init PROVE NotesTypes
  OBVIOUS
<1>1. N!NoTask \in N!TaskState
  BY DEF N!NotesAssumption, N!NoTask, N!TaskState, N!NoItem
<1>2. N!TypeOK
  <2>1. /\ noteId \in [Codes -> Nat] /\ link \in [Codes -> {"none", "food", "recipe"}]
        /\ phase \in [Requests -> N!Phases] /\ got \in [Requests -> Nat]
        /\ tries \in [Requests -> Nat] /\ made \in [Requests -> 0..2]
        /\ retry \in [Requests -> N!Fates]
    BY DEF N!Init, N!NoItem, N!Phases, N!Fates
  <2>2. task \in [N!Tasks -> N!TaskState] /\ edits \in 0..MaxEdits /\ faults \in 0..MaxFaults
    BY <1>1 DEF N!Init
  <2>3. /\ cached = {} /\ queue = {} /\ paused = FALSE /\ shown = {} /\ recipes = {}
        /\ open = {} /\ batch = {} /\ item = {} /\ posted = "none"
    BY DEF N!Init
  <2>4. QED
    BY <2>1, <2>2, <2>3 DEF N!TypeOK
<1>3. nextItem \in Nat /\ HasHighest /\ batch = {}
  BY DEF N!Init, HasHighest
<1>4. QED
  BY <1>2, <1>3 DEF NotesTypes

LEMMA NotesTypesStep == NotesTypes /\ [N!Next]_(N!vars) => NotesTypes'
<1> SUFFICES ASSUME NotesTypes, [N!Next]_(N!vars) PROVE NotesTypes'
  OBVIOUS
<1>1. CASE UNCHANGED N!vars
  BY <1>1, TypesNow, TypesStay
     DEF N!vars, N!dbVars, N!mealieVars, N!requestVars, N!jobVars, N!historyVars, HasHighest
<1>2. ASSUME NEW r \in Requests, N!Begin(r) \/ N!RequestGoesOn(r) PROVE NotesTypes'
  BY <1>2, BeginTypes, AddNoteTypes, StoreIdTypes, EnqueueChecksTypes, EnqueueInsertsTypes
     DEF N!RequestGoesOn
<1>3. CASE N!JobStep
  BY <1>3, JobLoadsTypes, JobPostsTypes, JobCommitsTypes DEF N!JobStep
<1>4. ASSUME NEW q \in queue, N!BackoffOver(q) PROVE NotesTypes'
  BY <1>4, BackoffOverTypes
<1>5. ASSUME NEW t \in N!Tasks, N!TaskStep(t) PROVE NotesTypes'
  BY <1>5, TaskReadsTypes, TaskRewritesTypes, TaskDropsTypes, GetsQuietly, PutsQuietly,
     DeletesQuietly, ForgetsQuietly, AddsQuietly, QuietlyTypes DEF N!TaskStep
<1>6. CASE N!UserStep
  BY <1>6, LinkCodeTypes, UnlinkTypes, DeleteCodeTypes, PauseTypes, BoughtTypes
     DEF N!UserStep
<1>7. CASE N!Resume \/ N!Crash
  BY <1>7, PauseTypes, CrashTypes
<1>8. QED
  BY <1>1, <1>2, <1>3, <1>4, <1>5, <1>6, <1>7 DEF N!Next


-----------------------------------------------------------------------------
(* Nothing twice, as long as failed calls have no effect.                  *)

\* A request that has no retry yet has made no entry, or the one of its note.
Unmade ==
    \A r \in Requests :
        /\ made[r] <= 1
        /\ phase[r] \in {"new", "post", "enqueue", "insert"} => made[r] = 0

\* Nothing has been made for a row that may still be posted, but while the row is
\* the one just posted.
RowsUnmade ==
    \A q \in queue \cup batch :
        made[q.by] = 0 \/ (posted = "ok" /\ \E p \in item : p.by = q.by)

OnceInv ==
    /\ NotesTypes /\ Faults \subseteq {"refused"}
    /\ RowsFit /\ Unmade /\ RowsUnmade

\* Steps that put no row into the queue, or the job's hands, that was not there.
LEMMA OnceFewer ==
    ASSUME OnceInv, NotesTypes',
           \A p \in queue' : \E q \in queue : p.id = q.id /\ p.by = q.by,
           \A p \in batch' : p \in queue \cup batch,
           \A r \in Requests : /\ phase[r] = "queued" => phase'[r] = "queued"
                               /\ phase'[r] \in {"new", "post", "enqueue", "insert"} =>
                                      phase[r] \in {"new", "post", "enqueue", "insert"},
           UNCHANGED <<made, posted, item>>
    PROVE  OnceInv'
<1>1. \A p \in queue' \cup batch' :
          \E q \in queue \cup batch : p.id = q.id /\ p.by = q.by
  OBVIOUS
<1>2. \A p \in queue \cup batch : p.by \in Requests
  BY NotesFacts DEF OnceInv
<1>3. RowsFit'
  <2>1. ASSUME NEW p \in queue' \cup batch', NEW q \in queue' \cup batch'
        PROVE  phase'[p.by] = "queued" /\ (p.by = q.by => p.id = q.id)
    <3>1. PICK o \in queue \cup batch : p.id = o.id /\ p.by = o.by
      BY <1>1
    <3>2. PICK u \in queue \cup batch : q.id = u.id /\ q.by = u.by
      BY <1>1
    <3>3. phase[o.by] = "queued" /\ (o.by = u.by => o.id = u.id)
      BY <3>1, <3>2 DEF OnceInv, RowsFit
    <3>4. QED
      BY <1>2, <3>1, <3>2, <3>3
  <2>2. QED
    BY <2>1 DEF RowsFit
<1>4. Unmade'
  BY DEF OnceInv, Unmade
<1>5. RowsUnmade'
  <2>1. ASSUME NEW q \in queue' \cup batch'
        PROVE  made'[q.by] = 0 \/ (posted' = "ok" /\ \E p \in item' : p.by = q.by)
    <3>1. PICK o \in queue \cup batch : q.id = o.id /\ q.by = o.by
      BY <1>1
    <3>2. made[o.by] = 0 \/ (posted = "ok" /\ \E p \in item : p.by = o.by)
      BY <3>1 DEF OnceInv, RowsUnmade
    <3>3. QED
      BY <3>1, <3>2
  <2>2. QED
    BY <2>1 DEF RowsUnmade
<1>6. QED
  BY <1>3, <1>4, <1>5 DEF OnceInv

\* Steps that leave the rows and the entries alone.
LEMMA OnceRests ==
    ASSUME OnceInv, NotesTypes', UNCHANGED <<queue, batch, made, posted, item>>,
           \A r \in Requests : /\ phase[r] = "queued" => phase'[r] = "queued"
                               /\ phase'[r] \in {"new", "post", "enqueue", "insert"} =>
                                      phase[r] \in {"new", "post", "enqueue", "insert"}
    PROVE  OnceInv'
<1>1. \A p \in queue' : \E q \in queue : p.id = q.id /\ p.by = q.by
  OBVIOUS
<1>2. \A p \in batch' : p \in queue \cup batch
  OBVIOUS
<1>3. QED
  BY <1>1, <1>2, OnceFewer

LEMMA OnceRequest ==
    ASSUME OnceInv, NotesTypes', NEW r \in Requests,
           N!Begin(r) \/ N!StoreId(r) \/ N!EnqueueChecks(r)
    PROVE  OnceInv'
<1>1. UNCHANGED <<queue, batch, made, posted, item>>
  BY DEF N!Begin, N!StoreId, N!EnqueueChecks, N!dbVars, N!jobVars, N!historyVars
<1>2. phase \in [Requests -> N!Phases]
  BY NotesFacts DEF OnceInv
<1>3. PICK f : /\ phase' = [phase EXCEPT ![r] = f]
               /\ phase[r] \in {"new", "store", "enqueue"}
               /\ f \in {"new", "post", "enqueue", "insert"} => phase[r] \in {"new", "enqueue"}
  BY DEF N!Begin, N!StoreId, N!EnqueueChecks, N!Goes
<1>4. QED
  BY <1>1, <1>2, <1>3, OnceRests

LEMMA OnceAddNote ==
    ASSUME OnceInv, NotesTypes', NEW r \in Requests, N!AddNote(r) PROVE OnceInv'
<1> DEFINE c == CodeOf[r]
<1>1. NotesTypes /\ c \in Codes /\ "note" \in N!Kinds /\ Faults \subseteq {"refused"}
  BY NotesFacts DEF OnceInv, N!Kinds
<1>2. phase \in [Requests -> N!Phases] /\ made \in [Requests -> 0..2]
  BY <1>1, NotesFacts
<1>3. phase[r] = "post" /\ made[r] = 0
  BY DEF N!AddNote, OnceInv, Unmade
<1>4. UNCHANGED <<queue, batch, posted, item>>
  BY DEF N!AddNote, N!dbVars, N!jobVars
<1>5. \/ N!Makes(c, "note", r) /\ phase' = [phase EXCEPT ![r] = "store"]
      \/ N!Makes(c, "note", r) /\ phase' = [phase EXCEPT ![r] = "noted"]
      \/ N!PostFails(c, "note", r) /\ phase' = [phase EXCEPT ![r] = "enqueue"]
  BY DEF N!AddNote, N!Goes
<1>6. CASE N!Makes(c, "note", r) /\ phase'[r] \in {"store", "noted"}
  <2>1. made' \in [Requests -> 0..2] /\ made'[r] <= 1
        /\ \A s \in Requests \ {r} : made'[s] = made[s]
    <3>1. /\ made' \in [Requests -> 0..2] /\ made'[r] <= made[r] + 1
          /\ \A s \in Requests \ {r} : made'[s] = made[s]
      BY <1>1, <1>6, MakesIs
    <3>2. QED
      BY <1>3, <3>1
  <2>2. \A s \in Requests \ {r} : phase'[s] = phase[s]
    BY <1>2, <1>5
  <2>3. \A q \in queue \cup batch : q.by \in Requests /\ q.by # r
    BY <1>1, <1>3, NotesFacts DEF OnceInv, RowsFit
  <2>4. RowsFit' /\ RowsUnmade'
    BY <1>4, <2>1, <2>2, <2>3 DEF OnceInv, RowsFit, RowsUnmade
  <2>5. Unmade'
    BY <1>6, <2>1, <2>2 DEF OnceInv, Unmade
  <2>6. QED
    BY <2>4, <2>5 DEF OnceInv
<1>7. CASE N!PostFails(c, "note", r) /\ phase' = [phase EXCEPT ![r] = "enqueue"]
  <2>1. made' = made
    BY <1>1, <1>7, PostFailsIs
  <2>2. QED
    BY <1>2, <1>3, <1>4, <1>7, <2>1, OnceRests
<1>8. QED
  BY <1>2, <1>5, <1>6, <1>7

LEMMA OnceInserts ==
    ASSUME OnceInv, NotesTypes', NEW r \in Requests, N!EnqueueInserts(r) PROVE OnceInv'
<1> DEFINE row == InsertedBy(r)
<1>1. /\ NotesTypes /\ phase \in [Requests -> N!Phases]
      /\ \A q \in queue \cup batch : q.by \in Requests
  BY NotesFacts DEF OnceInv
<1>2. /\ phase[r] = "insert" /\ phase' = [phase EXCEPT ![r] = "queued"]
      /\ queue' = queue \cup {row} /\ row.by = r
      /\ UNCHANGED <<batch, item, posted, made>>
  BY <1>1, InsertIs
<1>3. made[r] = 0
  BY <1>2 DEF OnceInv, Unmade
<1>4. \A q \in queue \cup batch : q.by # r
  BY <1>2 DEF OnceInv, RowsFit
<1> HIDE DEF row
<1>5. queue' \cup batch' = queue \cup batch \cup {row}
  BY <1>2
<1>6. RowsFit'
  BY <1>1, <1>2, <1>4, <1>5 DEF OnceInv, RowsFit
<1>7. Unmade' /\ RowsUnmade'
  BY <1>1, <1>2, <1>3, <1>5 DEF OnceInv, Unmade, RowsUnmade
<1>8. QED
  BY <1>6, <1>7 DEF OnceInv

LEMMA OnceLoads ==
    ASSUME OnceInv, NotesTypes', N!JobLoads PROVE OnceInv'
<1>1. batch' \subseteq queue
  BY DEF N!JobLoads, N!Due
<1>2. UNCHANGED <<queue, phase, made, posted, item>>
  BY DEF N!JobLoads, N!dbVars, N!requestVars, N!historyVars
<1>3. QED
  BY <1>1, <1>2, OnceFewer

LEMMA OncePosts ==
    ASSUME OnceInv, NotesTypes', NEW q \in batch, N!JobPosts(q) PROVE OnceInv'
<1>1. /\ NotesTypes /\ Faults \subseteq {"refused"} /\ made \in [Requests -> 0..2]
      /\ \A p \in queue \cup batch : p.by \in Requests
  BY NotesFacts DEF OnceInv
<1>2. /\ item = {} /\ item' = {q} /\ posted' \in {"ok", "failed"}
      /\ made' \in [Requests -> 0..2] /\ UNCHANGED <<queue, batch, phase>>
  BY <1>1, PostIs
<1>3. made[q.by] = 0 /\ phase[q.by] = "queued" /\ \A p \in queue \cup batch : made[p.by] = 0
  BY <1>2 DEF OnceInv, RowsFit, RowsUnmade
<1>4. CASE posted' = "ok"
  <2>1. \A s \in Requests \ {q.by} : made'[s] = made[s]
    BY <1>1, <1>4, PostIs
  <2>2. made'[q.by] <= 1
    BY <1>1, <1>3, <1>4, PostIs
  <2>3. Unmade'
    BY <1>2, <1>3, <2>1, <2>2 DEF OnceInv, Unmade
  <2>4. RowsUnmade'
    BY <1>1, <1>2, <1>3, <1>4, <2>1 DEF RowsUnmade
  <2>5. RowsFit'
    BY <1>2 DEF OnceInv, RowsFit
  <2>6. QED
    BY <2>3, <2>4, <2>5 DEF OnceInv
<1>5. CASE posted' = "failed"
  <2>1. made' = made
    BY <1>1, <1>5, PostIs
  <2>2. RowsFit' /\ Unmade' /\ RowsUnmade'
    BY <1>2, <1>3, <2>1 DEF OnceInv, RowsFit, Unmade, RowsUnmade
  <2>3. QED
    BY <2>2 DEF OnceInv
<1>6. QED
  BY <1>2, <1>4, <1>5

\* The row that was posted leaves the queue and the job's hands, or it has not been
\* posted.
LEMMA OnceCommits ==
    ASSUME OnceInv, NotesTypes', NEW q \in item, N!JobCommits(q) PROVE OnceInv'
<1>1. /\ NotesTypes /\ \A p \in queue \cup batch : p \in N!Row /\ p.by \in Requests
  BY NotesFacts DEF OnceInv
<1>2. /\ item = {q} /\ q \in batch /\ q \in N!Row /\ item' = {} /\ posted' = "none"
      /\ UNCHANGED <<phase, made>> /\ batch' \subseteq batch \ {q}
  BY <1>1, CommitIs
<1>3. \A p \in queue' : \E o \in queue : p.id = o.id /\ p.by = o.by
  <2>1. CASE queue' = {p \in queue : p.id # q.id}
    BY <2>1
  <2>2. CASE queue' = {p \in queue : p.id # q.id} \cup
                          {Postponed(q, p) : p \in {o \in queue : o.id = q.id}}
    BY <1>1, <1>2, <2>2, PostponedIs
  <2>3. QED
    BY <1>1, <2>1, <2>2, CommitIs
<1>4. \A p \in queue' \cup batch' :
          \E o \in queue \cup batch : p.id = o.id /\ p.by = o.by
  BY <1>2, <1>3
<1>5. RowsFit'
  <2>1. ASSUME NEW p \in queue' \cup batch', NEW s \in queue' \cup batch'
        PROVE  phase[p.by] = "queued" /\ (p.by = s.by => p.id = s.id)
    <3>1. PICK o \in queue \cup batch : p.id = o.id /\ p.by = o.by
      BY <1>4
    <3>2. PICK u \in queue \cup batch : s.id = u.id /\ s.by = u.by
      BY <1>4
    <3>3. phase[o.by] = "queued" /\ (o.by = u.by => o.id = u.id)
      BY <3>1, <3>2 DEF OnceInv, RowsFit
    <3>4. QED
      BY <3>1, <3>2, <3>3
  <2>2. QED
    BY <1>2, <2>1 DEF RowsFit
<1>6. Unmade'
  BY <1>2 DEF OnceInv, Unmade
<1>7. RowsUnmade'
  <2>1. ASSUME NEW p \in queue' \cup batch' PROVE made[p.by] = 0
    <3>1. CASE posted = "ok"
      <4>1. queue' = {o \in queue : o.id # q.id}
        BY <1>1, <3>1, CommitIs
      <4>2. p.by # q.by
        <5>1. CASE p \in queue'
          BY <1>2, <4>1, <5>1 DEF OnceInv, RowsFit
        <5>2. CASE p \in batch'
          <6>1. p \in batch /\ p # q /\ q \in batch
            BY <1>2, <5>2
          <6>2. p.id # q.id
            BY <1>1, <6>1 DEF NotesTypes
          <6>3. QED
            BY <6>1, <6>2 DEF OnceInv, RowsFit
        <5>3. QED
          BY <5>1, <5>2
      <4>3. p \in queue \cup batch
        BY <1>2, <4>1
      <4>4. QED
        BY <1>2, <4>2, <4>3 DEF OnceInv, RowsUnmade
    <3>2. CASE posted # "ok"
      <4>1. PICK o \in queue \cup batch : p.id = o.id /\ p.by = o.by
        BY <1>4
      <4>2. QED
        BY <3>2, <4>1 DEF OnceInv, RowsUnmade
    <3>3. QED
      BY <3>1, <3>2
  <2>2. QED
    BY <1>2, <2>1 DEF RowsUnmade
<1>8. QED
  BY <1>5, <1>6, <1>7 DEF OnceInv


LEMMA OnceTask ==
    ASSUME OnceInv, NotesTypes', NEW t \in N!Tasks, N!TaskStep(t) PROVE OnceInv'
<1>1. NotesTypes
  BY DEF OnceInv
<1>2. UNCHANGED <<batch, phase, made, posted, item>>
  <2>1. CASE N!TaskReads(t)
    BY <1>1, <2>1, ReadsIs
  <2>2. CASE N!TaskRewrites(t)
    BY <1>1, <2>2, RewritesIs
  <2>3. CASE N!TaskDrops(t)
    BY <1>1, <2>3, DropsIs
  <2>4. CASE Quietly(t)
    BY <2>4 DEF Quietly
  <2>5. QED
    BY <1>1, <2>1, <2>2, <2>3, <2>4, GetsQuietly, PutsQuietly, DeletesQuietly,
       ForgetsQuietly, AddsQuietly DEF N!TaskStep
<1>3. \A p \in queue' : \E q \in queue : p.id = q.id /\ p.by = q.by
  <2>1. CASE N!TaskReads(t)
    BY <1>1, <2>1, ReadsIs
  <2>2. CASE N!TaskRewrites(t)
    <3>1. \A q \in queue : /\ N!Rewritten(q, task[t].code).id = q.id
                           /\ N!Rewritten(q, task[t].code).by = q.by
      BY <1>1, RewriteIs, TaskParts, TypesNow
    <3>2. QED
      BY <1>1, <2>2, <3>1, RewritesIs
  <2>3. CASE N!TaskDrops(t)
    BY <1>1, <2>3, DropsIs
  <2>4. CASE Quietly(t)
    BY <2>4 DEF Quietly
  <2>5. QED
    BY <1>1, <2>1, <2>2, <2>3, <2>4, GetsQuietly, PutsQuietly, DeletesQuietly,
       ForgetsQuietly, AddsQuietly DEF N!TaskStep
<1>4. QED
  BY <1>2, <1>3, OnceFewer

LEMMA OnceUser ==
    ASSUME OnceInv, NotesTypes', N!UserStep \/ N!Resume PROVE OnceInv'
<1>1. NotesTypes
  BY DEF OnceInv
<1>2. UNCHANGED <<batch, phase, made, posted, item>>
  BY DEF N!UserStep, N!LinkCode, N!Unlink, N!DeleteCode, N!Pause, N!Resume, N!Bought,
         N!requestVars, N!jobVars, N!historyVars
<1>3. queue' \subseteq queue
  BY DEF N!UserStep, N!LinkCode, N!Unlink, N!DeleteCode, N!Pause, N!Resume, N!Bought, N!dbVars
<1>4. QED
  BY <1>2, <1>3, OnceFewer

LEMMA OnceInvStep == OnceInv /\ [N!Next]_(N!vars) => OnceInv'
<1> SUFFICES ASSUME OnceInv, [N!Next]_(N!vars) PROVE OnceInv'
  OBVIOUS
<1>0. NotesTypes'
  BY NotesTypesStep DEF OnceInv
<1>1. CASE UNCHANGED N!vars
  BY <1>0, <1>1, OnceRests DEF N!vars, N!dbVars, N!requestVars, N!jobVars, N!historyVars
<1>2. ASSUME NEW r \in Requests, N!Begin(r) \/ N!RequestGoesOn(r) PROVE OnceInv'
  BY <1>0, <1>2, OnceRequest, OnceAddNote, OnceInserts DEF N!RequestGoesOn
<1>3. CASE N!JobStep
  BY <1>0, <1>3, OnceLoads, OncePosts, OnceCommits DEF N!JobStep
<1>4. ASSUME NEW q \in queue, N!BackoffOver(q) PROVE OnceInv'
  <2>1. NotesTypes
    BY DEF OnceInv
  <2>2. /\ \A p \in queue' : \E o \in queue : p.id = o.id /\ p.by = o.by
        /\ UNCHANGED <<batch, phase, made, posted, item>>
    BY <1>4, <2>1, BackoffIs
  <2>3. QED
    BY <1>0, <2>2, OnceFewer
<1>5. ASSUME NEW t \in N!Tasks, N!TaskStep(t) PROVE OnceInv'
  BY <1>0, <1>5, OnceTask
<1>6. CASE N!UserStep \/ N!Resume
  BY <1>0, <1>6, OnceUser
<1>7. CASE N!Crash
  BY <1>7, BoundsKeep DEF OnceInv, N!Crash
<1>8. QED
  BY <1>1, <1>2, <1>3, <1>4, <1>5, <1>6, <1>7 DEF N!Next

LEMMA OnceInvAlways ==
    ASSUME Faults \subseteq {"refused"}
    PROVE  N!Spec => []N!NoneTwice
<1>1. N!Init => OnceInv
  <2> SUFFICES ASSUME N!Init PROVE OnceInv
    OBVIOUS
  <2>1. NotesTypes
    BY NotesTypesInit, NotesConstants
  <2>2. RowsFit /\ Unmade /\ RowsUnmade
    BY DEF N!Init, RowsFit, Unmade, RowsUnmade
  <2>3. QED
    BY <2>1, <2>2 DEF OnceInv
<1>2. OnceInv => N!NoneTwice
  BY DEF OnceInv, NotesTypes, Unmade, N!NoneTwice, N!AddedOnce
<1>3. QED
  BY <1>1, <1>2, OnceInvStep, PTL DEF N!Spec


-----------------------------------------------------------------------------
(* Nothing forgotten, as long as the requests scan one barcode, which is   *)
(* neither deleted nor linked to a recipe.                                 *)

OneBarcode == \A r, s \in Requests : CodeOf[r] = CodeOf[s]

\* A row of the queue is for what its request scanned, and counts no more attempts
\* than there were.
QueueFits ==
    \A q \in queue : /\ q.code = CodeOf[q.by] /\ q.for = CodeOf[q.by]
                     /\ tries[q.by] >= q.attempts

\* What the job has loaded is still there, with as many attempts.
BatchFits ==
    \A q \in batch :
        /\ q.code = CodeOf[q.by] /\ q.for = CodeOf[q.by]
        /\ \E p \in queue : p.id = q.id /\ p.by = q.by /\ p.attempts = q.attempts

\* What came of a POST that the job has not committed.
ItemFits ==
    \A q \in item : /\ posted = "ok" => made[q.by] > 0
                    /\ posted = "failed" => tries[q.by] > q.attempts

\* No reconciliation is for a recipe, and each has read rows of its barcode.
TasksFit ==
    \A t \in N!Tasks :
        /\ task[t].step # "drop" /\ task[t].kind # "recipe"
        /\ \A q \in task[t].rows : q.code = task[t].code /\ q.code = CodeOf[q.by]

\* Only a request whose retry is owed has a row.
FatesFit ==
    /\ \A c \in Codes : link[c] # "recipe"
    /\ \A r \in Requests :
           /\ retry[r] \in {"none", "owed", "given_up"}
           /\ phase[r] # "queued" => retry[r] = "none"
    /\ \A q \in queue : retry[q.by] = "owed"

KeptInv ==
    /\ NotesTypes /\ OneBarcode /\ Edits \cap {"delete", "recipe"} = {}
    /\ N!NothingForgotten /\ RowsFit
    /\ QueueFits /\ BatchFits /\ ItemFits /\ TasksFit /\ FatesFit

Same(p, q) ==
    /\ p.id = q.id /\ p.by = q.by /\ p.code = q.code /\ p.for = q.for
    /\ p.attempts = q.attempts

LEMMA KeptFacts ==
    ASSUME KeptInv
    PROVE  /\ NotesTypes /\ CodeOf \in [Requests -> Codes]
           /\ \A q \in queue \cup batch : /\ q \in N!Row /\ q.by \in Requests
                                          /\ q.code \in Codes /\ q.attempts \in Nat
           /\ item \subseteq batch
           /\ tries \in [Requests -> Nat] /\ made \in [Requests -> 0..2]
           /\ phase \in [Requests -> N!Phases] /\ retry \in [Requests -> N!Fates]
BY NotesFacts DEF KeptInv

\* Steps that change neither the retries nor what they say.
LEMMA KeptRests ==
    ASSUME KeptInv, NotesTypes', TasksFit',
           \A p \in queue' : \E q \in queue : Same(p, q),
           \A q \in queue : \E p \in queue' : Same(p, q),
           batch' \subseteq batch, item' = {} \/ UNCHANGED <<item, posted>>,
           \A r \in Requests : /\ made'[r] >= made[r]
                               /\ phase[r] = "queued" => phase'[r] = "queued",
           shown' = shown, UNCHANGED <<tries, retry>>,
           \A c \in Codes : link'[c] # "recipe"
    PROVE  KeptInv'
<1>1. \A p \in queue' \cup batch' : \E q \in queue \cup batch : Same(p, q)
  BY DEF Same
<1>2. /\ \A r \in Requests : made'[r] \in Nat /\ made[r] \in Nat
      /\ \A q \in queue \cup batch : q.by \in Requests
  BY KeptFacts, NotesFacts DEF NotesTypes, N!TypeOK
<1>3. RowsFit'
  <2>1. ASSUME NEW p \in queue' \cup batch', NEW s \in queue' \cup batch'
        PROVE  phase'[p.by] = "queued" /\ (p.by = s.by => p.id = s.id)
    <3>1. PICK o \in queue \cup batch : Same(p, o)
      BY <1>1
    <3>2. PICK u \in queue \cup batch : Same(s, u)
      BY <1>1
    <3>3. phase[o.by] = "queued" /\ (o.by = u.by => o.id = u.id)
      BY <3>1, <3>2 DEF KeptInv, RowsFit
    <3>4. QED
      BY <1>2, <3>1, <3>2, <3>3 DEF Same
  <2>2. QED
    BY <2>1 DEF RowsFit
<1>4. QueueFits' /\ (\A q \in queue' : retry'[q.by] = "owed")
  BY DEF KeptInv, QueueFits, FatesFit, Same
<1>5. BatchFits'
  <2>1. ASSUME NEW q \in batch'
        PROVE  /\ q.code = CodeOf[q.by] /\ q.for = CodeOf[q.by]
               /\ \E p \in queue' : p.id = q.id /\ p.by = q.by /\ p.attempts = q.attempts
    <3>1. /\ q.code = CodeOf[q.by] /\ q.for = CodeOf[q.by]
          /\ \E p \in queue : p.id = q.id /\ p.by = q.by /\ p.attempts = q.attempts
      BY <2>1 DEF KeptInv, BatchFits
    <3>2. QED
      BY <3>1 DEF Same
  <2>2. QED
    BY <2>1 DEF BatchFits
<1>6. ItemFits'
  BY <1>2, KeptFacts DEF KeptInv, ItemFits
<1>7. FatesFit'
  BY <1>4 DEF KeptInv, FatesFit
<1>8. N!NothingForgotten'
  <2>1. ASSUME NEW r \in Requests, retry[r] = "owed"
        PROVE  made'[r] > 0 \/ N!Queued(r)'
    <3>1. CASE made[r] > 0
      BY <1>2, <3>1
    <3>2. CASE N!Queued(r)
      BY <3>2 DEF N!Queued, Same
    <3>3. QED
      BY <2>1, <3>1, <3>2 DEF KeptInv, N!NothingForgotten
  <2>2. QED
    BY <2>1 DEF KeptInv, N!NothingForgotten
<1>9. QED
  BY <1>3, <1>4, <1>5, <1>6, <1>7, <1>8 DEF KeptInv, OneBarcode

\* The same where queue and reconciliations stay as they are.
LEMMA KeptSame ==
    ASSUME KeptInv, NotesTypes', UNCHANGED <<queue, task, shown, tries, retry>>,
           batch' \subseteq batch, item' = {} \/ UNCHANGED <<item, posted>>,
           \A r \in Requests : /\ made'[r] >= made[r]
                               /\ phase[r] = "queued" => phase'[r] = "queued",
           \A c \in Codes : link'[c] # "recipe"
    PROVE  KeptInv'
<1>1. \A q \in queue : Same(q, q)
  BY DEF Same
<1>2. TasksFit'
  BY DEF KeptInv, TasksFit
<1>3. QED
  BY <1>1, <1>2, KeptRests

LEMMA KeptTask ==
    ASSUME KeptInv, NEW t \in N!Tasks, NEW v \in N!TaskState,
           task' = [task EXCEPT ![t] = v], v.step # "drop", v.kind # "recipe",
           \A q \in v.rows : q.code = v.code /\ q.code = CodeOf[q.by]
    PROVE  TasksFit'
<1>1. task \in [N!Tasks -> N!TaskState]
  BY NotesFacts DEF KeptInv
<1>2. QED
  BY <1>1 DEF KeptInv, TasksFit, N!Tasks

LEMMA NoTaskFits ==
    N!NoTask.step # "drop" /\ N!NoTask.kind # "recipe" /\ N!NoTask.rows = {}
BY DEF N!NoTask

LEMMA KeptRequest ==
    ASSUME KeptInv, NotesTypes', NEW r \in Requests,
           N!Begin(r) \/ N!AddNote(r) \/ N!StoreId(r) \/ N!EnqueueChecks(r)
    PROVE  KeptInv'
<1>1. UNCHANGED <<queue, task, shown, tries, retry, batch, item, posted, link>>
  BY DEF N!Begin, N!AddNote, N!StoreId, N!EnqueueChecks, N!dbVars, N!jobVars, N!historyVars
<1>2. phase[r] # "queued" /\ \A s \in Requests \ {r} : phase'[s] = phase[s]
  BY KeptFacts DEF N!Begin, N!AddNote, N!StoreId, N!EnqueueChecks, N!Goes
<1>3. \A s \in Requests : made'[s] >= made[s]
  <2>1. CASE N!AddNote(r)
    <3> DEFINE c == CodeOf[r]
    <3>1. c \in Codes /\ "note" \in N!Kinds
      BY KeptFacts DEF N!Kinds
    <3>2. N!Makes(c, "note", r) \/ N!PostFails(c, "note", r)
      BY <2>1 DEF N!AddNote
    <3>3. CASE N!Makes(c, "note", r)
      <4>1. made'[r] >= made[r] /\ \A s \in Requests \ {r} : made'[s] = made[s]
        BY <3>1, <3>3, MakesIs, KeptFacts
      <4>2. QED
        BY <4>1, KeptFacts
    <3>4. CASE N!PostFails(c, "note", r)
      BY <3>1, <3>4, PostFailsIs, KeptFacts
    <3>5. QED
      BY <3>2, <3>3, <3>4
  <2>2. CASE made' = made
    BY <2>2, KeptFacts
  <2>3. QED
    BY <2>1, <2>2 DEF N!Begin, N!StoreId, N!EnqueueChecks, N!historyVars
<1>4. \A c \in Codes : link'[c] # "recipe"
  BY <1>1 DEF KeptInv, FatesFit
<1>5. QED
  BY <1>1, <1>2, <1>3, <1>4, KeptSame

LEMMA KeptInserts ==
    ASSUME KeptInv, NotesTypes', NEW r \in Requests, N!EnqueueInserts(r) PROVE KeptInv'
<1> DEFINE row == InsertedBy(r)
<1>1. /\ phase[r] = "insert" /\ phase' = [phase EXCEPT ![r] = "queued"]
      /\ queue' = queue \cup {row} /\ row.by = r /\ row.attempts = 0
      /\ row.code = CodeOf[r] /\ row.for = CodeOf[r]
      /\ retry' = [retry EXCEPT ![r] = "owed"]
      /\ UNCHANGED <<link, shown, batch, item, posted, task, tries, made>>
  BY KeptFacts, InsertIs
<1>2. retry[r] = "none" /\ \A q \in queue \cup batch : q.by # r
  BY <1>1 DEF KeptInv, FatesFit, RowsFit
<1> HIDE DEF row
<1>3. queue' \cup batch' = queue \cup batch \cup {row}
  BY <1>1
<1>4. RowsFit'
  BY <1>1, <1>2, <1>3, KeptFacts DEF KeptInv, RowsFit
<1>5. QueueFits'
  BY <1>1, KeptFacts DEF KeptInv, QueueFits
<1>6. BatchFits' /\ ItemFits' /\ TasksFit'
  BY <1>1 DEF KeptInv, BatchFits, ItemFits, TasksFit
<1>7. FatesFit'
  BY <1>1, <1>2, KeptFacts DEF KeptInv, FatesFit
<1>8. N!NothingForgotten'
  <2>1. N!Queued(r)'
    BY <1>1 DEF N!Queued
  <2>2. \A s \in Requests : N!Queued(s) => N!Queued(s)'
    BY <1>1 DEF N!Queued
  <2>3. \A s \in Requests \ {r} : retry'[s] = retry[s]
    BY <1>1, KeptFacts
  <2>4. retry'[r] = "owed"
    BY <1>1, KeptFacts
  <2>5. QED
    BY <1>1, <2>1, <2>2, <2>3, <2>4 DEF KeptInv, N!NothingForgotten
<1>9. QED
  BY <1>4, <1>5, <1>6, <1>7, <1>8 DEF KeptInv, OneBarcode

LEMMA KeptLoads ==
    ASSUME KeptInv, NotesTypes', N!JobLoads PROVE KeptInv'
<1>1. batch' \subseteq queue
  BY DEF N!JobLoads, N!Due
<1>2. UNCHANGED <<queue, phase, made, posted, item, task, shown, link, tries, retry>>
  BY DEF N!JobLoads, N!dbVars, N!requestVars, N!historyVars
<1>3. BatchFits' /\ RowsFit'
  BY <1>1, <1>2 DEF KeptInv, QueueFits, BatchFits, RowsFit
<1>4. QueueFits' /\ ItemFits' /\ TasksFit' /\ FatesFit'
  BY <1>2 DEF KeptInv, QueueFits, ItemFits, TasksFit, FatesFit
<1>5. N!NothingForgotten'
  BY <1>2 DEF KeptInv, N!NothingForgotten, N!Queued
<1>6. QED
  BY <1>3, <1>4, <1>5 DEF KeptInv, OneBarcode

LEMMA KeptPosts ==
    ASSUME KeptInv, NotesTypes', NEW q \in batch, N!JobPosts(q) PROVE KeptInv'
<1>1. /\ item' = {q} /\ posted' \in {"ok", "failed"}
      /\ \A s \in Requests : made'[s] >= made[s]
      /\ \A s \in Requests \ {q.by} : tries'[s] = tries[s]
      /\ tries' \in [Requests -> Nat] /\ tries'[q.by] >= tries[q.by]
      /\ posted' = "failed" => tries'[q.by] = tries[q.by] + 1
      /\ UNCHANGED <<link, queue, shown, phase, batch, task, retry>>
  BY KeptFacts, PostIs
<1>2. q.for = CodeOf[q.by] /\ tries[q.by] >= q.attempts /\ q.by \in Requests
  <2>1. PICK p \in queue : p.id = q.id /\ p.by = q.by /\ p.attempts = q.attempts
    BY DEF KeptInv, BatchFits
  <2>2. QED
    BY <2>1, KeptFacts DEF KeptInv, BatchFits, QueueFits
<1>3. posted' = "ok" => made'[q.by] > 0
  BY <1>2, KeptFacts, PostIs
<1>4. \A s \in Requests : /\ tries'[s] >= tries[s] /\ tries'[s] \in Nat /\ tries[s] \in Nat
                          /\ made'[s] \in Nat /\ made[s] \in Nat
  BY <1>1, KeptFacts DEF NotesTypes, N!TypeOK
<1>5. ItemFits'
  BY <1>1, <1>2, <1>3, <1>4, KeptFacts DEF ItemFits
<1>6. QueueFits'
  BY <1>1, <1>4, KeptFacts DEF KeptInv, QueueFits
<1>7. RowsFit' /\ BatchFits' /\ TasksFit' /\ FatesFit'
  BY <1>1 DEF KeptInv, RowsFit, BatchFits, TasksFit, FatesFit
<1>8. N!NothingForgotten'
  <2>1. \A r \in Requests : N!Queued(r)' = N!Queued(r)
    BY <1>1 DEF N!Queued
  <2>2. MaxAttempts \in Nat
    BY KeptFacts, NotesFacts
  <2>3. ASSUME NEW r \in Requests, retry[r] = "owed" PROVE made'[r] > 0 \/ N!Queued(r)'
    BY <1>1, <1>4, <2>1, <2>3 DEF KeptInv, N!NothingForgotten
  <2>4. ASSUME NEW r \in Requests, retry[r] = "given_up"
        PROVE  tries'[r] >= MaxAttempts /\ CodeOf[r] \in shown'
    BY <1>1, <1>4, <2>2, <2>4 DEF KeptInv, N!NothingForgotten
  <2>5. QED
    BY <1>1, <2>3, <2>4 DEF N!NothingForgotten
<1>9. QED
  BY <1>5, <1>6, <1>7, <1>8 DEF KeptInv, OneBarcode


\* The row of what was posted is still its request's, and no other request's row
\* has its id.
LEMMA PostedRow ==
    ASSUME KeptInv, NEW q \in batch
    PROVE  /\ \E p \in queue : p.id = q.id /\ p.by = q.by /\ p.attempts = q.attempts
           /\ \A p \in queue : p.id = q.id <=> p.by = q.by
           /\ retry[q.by] = "owed" /\ q.by \in Requests
<1>1. PICK p \in queue : p.id = q.id /\ p.by = q.by /\ p.attempts = q.attempts
  BY DEF KeptInv, BatchFits
<1>2. \A o \in queue : o.id = q.id => o = p
  BY <1>1, TypesNow DEF KeptInv
<1>3. \A o \in queue : o.by = q.by => o.id = q.id
  BY <1>1 DEF KeptInv, RowsFit
<1>4. retry[q.by] = "owed" /\ q.by \in Requests
  BY <1>1, KeptFacts DEF KeptInv, FatesFit
<1>5. QED
  BY <1>1, <1>2, <1>3, <1>4

LEMMA KeptCommits ==
    ASSUME KeptInv, NotesTypes', NEW q \in item, N!JobCommits(q) PROVE KeptInv'
<1>1. /\ q \in batch /\ q \in N!Row /\ item' = {} /\ batch' \subseteq batch \ {q}
      /\ shown \subseteq shown' /\ UNCHANGED <<link, phase, task, tries, made>>
  BY KeptFacts, CommitIs
<1>2. /\ \E p \in queue : p.id = q.id /\ p.by = q.by /\ p.attempts = q.attempts
      /\ \A p \in queue : p.id = q.id <=> p.by = q.by
      /\ retry[q.by] = "owed" /\ q.by \in Requests
  BY <1>1, PostedRow
<1>3. \A p \in batch' : p.id # q.id /\ p.by # q.by
  <2>1. \A p \in batch' : p.id # q.id
    BY <1>1, KeptFacts, TypesNow
  <2>2. QED
    BY <1>1, <2>1 DEF KeptInv, RowsFit
<1>4. TasksFit' /\ ItemFits' /\ \A c \in Codes : link'[c] # "recipe"
  BY <1>1 DEF KeptInv, TasksFit, ItemFits, FatesFit
<1> DEFINE others == {p \in queue : p.id # q.id}
<1>5. CASE queue' = others
  <2>1. queue' \subseteq queue /\ \A p \in queue' : p.by # q.by
    BY <1>2, <1>5
  <2>2. RowsFit' /\ QueueFits'
    BY <1>1, <2>1 DEF KeptInv, RowsFit, QueueFits
  <2>3. BatchFits'
    BY <1>1, <1>3, <1>5 DEF KeptInv, BatchFits
  <2>4. /\ \A s \in Requests \ {q.by} : retry'[s] = retry[s]
        /\ retry'[q.by] \in {"owed", "given_up"}
        /\ retry'[q.by] = "owed" => posted = "ok"
        /\ retry'[q.by] = "given_up" =>
               /\ q.attempts + 1 >= MaxAttempts /\ posted = "failed"
               /\ q.code \in shown'
    <3>1. CASE shown' = shown /\ retry' = retry
      <4>1. posted = "ok"
        <5>1. CASE posted = "failed" /\ q.attempts + 1 < MaxAttempts
          <6>1. PICK p \in queue : p.id = q.id
            BY <1>2
          <6>2. Postponed(q, p) \in queue' /\ Postponed(q, p).id = q.id
            BY <1>1, <5>1, <6>1, KeptFacts, NotesFacts, CommitIs, PostponedIs
          <6>3. QED
            BY <1>5, <6>2
        <5>2. posted \in {"ok", "failed"}
          BY KeptFacts, CommitIs
        <5>3. posted = "failed" => q.attempts + 1 < MaxAttempts
          <6>1. q.attempts \in Nat /\ MaxAttempts \in Nat
            BY <1>1, KeptFacts, NotesFacts
          <6>2. CASE q.attempts + 1 >= MaxAttempts /\ posted = "failed"
            BY <1>2, <3>1, <6>1, <6>2, KeptFacts, CommitIs
          <6>3. QED
            BY <6>1, <6>2
        <5>4. QED
          BY <5>1, <5>2, <5>3
      <4>2. QED
        BY <1>2, <3>1, <4>1
    <3>2. CASE /\ shown' = shown \cup {q.code} /\ q.attempts + 1 >= MaxAttempts
               /\ posted = "failed"
               /\ retry' = [retry EXCEPT ![q.by] =
                                IF retry[q.by] = "owed" THEN "given_up" ELSE @]
      BY <1>2, <3>2, KeptFacts
    <3>3. QED
      BY <3>1, <3>2, KeptFacts, CommitIs
  <2>5. FatesFit'
    BY <1>1, <1>2, <2>1, <2>4, KeptFacts DEF KeptInv, FatesFit, RowsFit
  <2>6. N!NothingForgotten'
    <3>1. ASSUME NEW r \in Requests \ {q.by}
          PROVE  /\ retry'[r] = "owed" => made'[r] > 0 \/ N!Queued(r)'
                 /\ retry'[r] = "given_up" => tries'[r] >= MaxAttempts /\ CodeOf[r] \in shown'
      <4>1. N!Queued(r) => N!Queued(r)'
        BY <1>2, <1>5 DEF N!Queued
      <4>2. QED
        BY <1>1, <2>4, <4>1 DEF KeptInv, N!NothingForgotten
    <3>2. retry'[q.by] = "owed" => made'[q.by] > 0
      BY <1>1, <2>4 DEF KeptInv, ItemFits
    <3>3. retry'[q.by] = "given_up" =>
              tries'[q.by] >= MaxAttempts /\ CodeOf[q.by] \in shown'
      <4>1. q.code = CodeOf[q.by]
        BY <1>1 DEF KeptInv, BatchFits
      <4>2. posted = "failed" => tries[q.by] > q.attempts
        BY DEF KeptInv, ItemFits
      <4>3. tries[q.by] \in Nat /\ q.attempts \in Nat /\ MaxAttempts \in Nat
        BY <1>1, <1>2, KeptFacts, NotesFacts
      <4>4. QED
        BY <1>1, <2>4, <4>1, <4>2, <4>3
    <3>4. QED
      BY <1>2, <3>1, <3>2, <3>3 DEF N!NothingForgotten
  <2>7. QED
    BY <1>4, <2>2, <2>3, <2>5, <2>6 DEF KeptInv, OneBarcode
<1>6. CASE /\ posted = "failed" /\ shown' = shown /\ retry' = retry
           /\ queue' = others \cup {Postponed(q, p) : p \in {o \in queue : o.id = q.id}}
  <2>1. \A p \in queue : p.id = q.id =>
            LET u == Postponed(q, p) IN
            /\ u \in queue' /\ u.id = p.id /\ u.by = p.by /\ u.code = p.code
            /\ u.for = p.for /\ u.attempts = q.attempts + 1
    BY <1>1, <1>6, KeptFacts, PostponedIs
  <2>2. \A p \in queue : p.id # q.id => p \in queue'
    BY <1>6
  <2>3. \A u \in queue' : u \in others \/ \E p \in queue : p.id = q.id /\ u = Postponed(q, p)
    BY <1>6
  <2>4. \A u \in queue' : \E p \in queue :
            /\ u.id = p.id /\ u.by = p.by /\ u.code = p.code /\ u.for = p.for
            /\ IF u.by = q.by THEN u.attempts = q.attempts + 1 ELSE u.attempts = p.attempts
    <3>1. ASSUME NEW u \in others
          PROVE  /\ u \in queue /\ u.by # q.by
      BY <1>2
    <3>2. QED
      BY <1>2, <2>1, <2>3, <3>1
  <2>5. RowsFit'
    <3>1. \A p \in queue' \cup batch' :
              \E o \in queue \cup batch : p.id = o.id /\ p.by = o.by
      BY <1>1, <2>4
    <3>2. QED
      BY <1>1, <3>1 DEF KeptInv, RowsFit
  <2>6. QueueFits'
    <3>1. tries[q.by] >= q.attempts + 1
      <4>1. tries[q.by] > q.attempts /\ tries[q.by] \in Nat /\ q.attempts \in Nat
        BY <1>1, <1>2, <1>6, KeptFacts DEF KeptInv, ItemFits
      <4>2. QED
        BY <4>1
    <3>2. ASSUME NEW u \in queue'
          PROVE  /\ u.code = CodeOf[u.by] /\ u.for = CodeOf[u.by]
                 /\ tries[u.by] >= u.attempts
      <4>1. PICK p \in queue :
              /\ u.id = p.id /\ u.by = p.by /\ u.code = p.code /\ u.for = p.for
              /\ IF u.by = q.by THEN u.attempts = q.attempts + 1 ELSE u.attempts = p.attempts
        BY <2>4
      <4>2. /\ p.code = CodeOf[p.by] /\ p.for = CodeOf[p.by] /\ tries[p.by] >= p.attempts
        BY DEF KeptInv, QueueFits
      <4>3. QED
        BY <3>1, <4>1, <4>2
    <3>3. QED
      BY <1>1, <3>2 DEF QueueFits
  <2>7. BatchFits'
    BY <1>1, <1>3, <2>2 DEF KeptInv, BatchFits
  <2>8. FatesFit'
    BY <1>1, <1>6, <2>4 DEF KeptInv, FatesFit
  <2>9. N!NothingForgotten'
    <3>1. \A r \in Requests : N!Queued(r) => N!Queued(r)'
      BY <2>1, <2>2 DEF N!Queued
    <3>2. QED
      BY <1>1, <1>6, <3>1 DEF KeptInv, N!NothingForgotten
  <2>10. QED
    BY <1>4, <2>5, <2>6, <2>7, <2>8, <2>9 DEF KeptInv, OneBarcode
<1>7. QED
  BY <1>5, <1>6, KeptFacts, CommitIs

LEMMA KeptTaskSteps ==
    ASSUME KeptInv, NotesTypes', NEW t \in N!Tasks, N!TaskStep(t) PROVE KeptInv'
<1>1. NotesTypes /\ \A q \in queue : Same(q, q)
  BY DEF KeptInv, Same
<1>2. CASE N!TaskReads(t)
  <2>1. PICK v \in N!TaskState :
            /\ task' = [task EXCEPT ![t] = v]
            /\ v = N!NoTask \/ ( /\ v.rows = {q \in queue : q.code = v.code}
                                /\ v.kind = link[v.code] /\ v.kind # "none"
                                /\ v.step = IF v.kind = "food" THEN "rewrite" ELSE "drop")
    BY <1>1, <1>2, ReadsIs
  <2>2. v.code \in Codes
    BY DEF N!TaskState
  <2>3. link \in [Codes -> {"none", "food", "recipe"}] /\ \A c \in Codes : link[c] # "recipe"
    BY <1>1, TypesNow DEF KeptInv, FatesFit
  <2>4. v = N!NoTask \/ (v.kind = "food" /\ v.step = "rewrite")
    BY <2>1, <2>2, <2>3
  <2>5. \A q \in v.rows : q.code = v.code /\ q.code = CodeOf[q.by]
    BY <2>1, NoTaskFits DEF KeptInv, QueueFits
  <2>6. TasksFit'
    BY <2>1, <2>4, <2>5, NoTaskFits, KeptTask
  <2>7. UNCHANGED <<cached, noteId, link, queue, paused, shown, open, nextItem,
                    recipes, phase, got, batch, item, posted, edits, faults, tries,
                    made, retry>>
    BY <1>1, <1>2, ReadsIs
  <2>8. \A r \in Requests : made'[r] >= made[r]
    BY <2>7, KeptFacts
  <2>9. QED
    BY <1>1, <2>3, <2>6, <2>7, <2>8, KeptRests
<1>3. CASE N!TaskRewrites(t)
  <2> DEFINE c == task[t].code
  <2>1. PICK v \in N!TaskState :
            /\ task' = [task EXCEPT ![t] = v]
            /\ v = N!NoTask \/ ( /\ v.rows = task[t].rows /\ v.code = task[t].code
                                /\ v.step # "drop" /\ v.kind = task[t].kind)
    BY <1>1, <1>3, RewritesIs DEF GoesOn
  <2>2. TasksFit'
    BY <2>1, NoTaskFits, KeptTask DEF KeptInv, TasksFit
  <2>3. UNCHANGED <<cached, noteId, link, paused, shown, open, nextItem,
                    recipes, phase, got, batch, item, posted, edits, faults, tries,
                    made, retry>>
    BY <1>1, <1>3, RewritesIs
  <2>4. /\ \A p \in queue' : \E q \in queue : Same(p, q)
        /\ \A q \in queue : \E p \in queue' : Same(p, q)
    <3>1. CASE queue' = queue
      BY <1>1, <3>1
    <3>2. ASSUME NEW hit \in SUBSET queue,
                 \A q \in hit : \E p \in task[t].rows : p.id = q.id,
                 queue' = (queue \ hit) \cup {N!Rewritten(q, c) : q \in hit}
          PROVE  /\ \A p \in queue' : \E q \in queue : Same(p, q)
                 /\ \A q \in queue : \E p \in queue' : Same(p, q)
      <4>1. ASSUME NEW q \in hit PROVE Same(N!Rewritten(q, c), q) /\ Same(q, N!Rewritten(q, c))
        <5>1. PICK p \in task[t].rows : p.id = q.id
          BY <3>2
        <5>2. p.code = c /\ p.code = CodeOf[p.by]
          BY <5>1 DEF KeptInv, TasksFit
        <5>3. p.by \in Requests /\ q.by \in Requests /\ q \in N!Row /\ c \in Codes
          BY <1>1, <5>1, TaskParts, NotesFacts
        <5>4. CodeOf[q.by] = c
          BY <5>2, <5>3 DEF KeptInv, OneBarcode
        <5>5. q.for = c
          BY <5>4 DEF KeptInv, QueueFits
        <5>6. QED
          BY <5>3, <5>5, RewriteIs DEF Same
      <4>2. QED
        BY <1>1, <3>2, <4>1
    <3>3. QED
      BY <1>1, <1>3, <3>1, <3>2, RewritesIs
  <2>5. \A r \in Requests : made'[r] >= made[r]
    BY <2>3, KeptFacts
  <2>6. \A d \in Codes : link'[d] # "recipe"
    BY <2>3 DEF KeptInv, FatesFit
  <2>7. QED
    BY <2>2, <2>3, <2>4, <2>5, <2>6, KeptRests
<1>4. CASE N!TaskDrops(t)
  BY <1>1, <1>4, DropsIs DEF KeptInv, TasksFit
<1>5. CASE Quietly(t)
  <2>1. PICK v \in N!TaskState :
            /\ task' = [task EXCEPT ![t] = v]
            /\ v = N!NoTask \/ ( /\ v.rows = task[t].rows /\ v.code = task[t].code
                                /\ v.step # "drop" /\ v.kind = task[t].kind)
    BY <1>5 DEF Quietly
  <2>2. TasksFit'
    BY <2>1, NoTaskFits, KeptTask DEF KeptInv, TasksFit
  <2>3. UNCHANGED <<link, queue, shown, phase, batch, item, posted, tries, made, retry>>
    BY <1>5 DEF Quietly
  <2>4. \A r \in Requests : made'[r] >= made[r]
    BY <2>3, KeptFacts
  <2>5. \A d \in Codes : link'[d] # "recipe"
    BY <2>3 DEF KeptInv, FatesFit
  <2>6. QED
    BY <1>1, <2>2, <2>3, <2>4, <2>5, KeptRests
<1>6. QED
  BY <1>1, <1>2, <1>3, <1>4, <1>5, GetsQuietly, PutsQuietly, DeletesQuietly,
     ForgetsQuietly, AddsQuietly DEF N!TaskStep


LEMMA KeptUser ==
    ASSUME KeptInv, NotesTypes', N!UserStep \/ N!Resume PROVE KeptInv'
<1>1. NotesTypes /\ "recipe" \notin Edits /\ "delete" \notin Edits
  BY DEF KeptInv
<1>2. CASE \E c \in Codes : \E kind \in {"food", "recipe"} : N!LinkCode(c, kind)
  <2>1. PICK c \in Codes : \E kind \in {"food", "recipe"} : N!LinkCode(c, kind)
    BY <1>2
  <2>2. PICK kind \in {"food", "recipe"} : N!LinkCode(c, kind)
    BY <2>1
  <2>3. PICK v \in N!TaskState :
            /\ task' = [task EXCEPT ![edits + 1] = v]
            /\ v.step = "read" /\ v.rows = {} /\ v.code = c /\ v.kind = "none"
    BY <1>1, <2>2, LinkIs
  <2>4. edits + 1 \in N!Tasks /\ kind = "food"
    BY <1>1, <2>2, LinkIs
  <2>5. TasksFit'
    BY <2>3, <2>4, KeptTask
  <2>6. /\ \A d \in Codes : link'[d] \in {link[d], "food"}
        /\ UNCHANGED <<queue, shown, phase, batch, item, posted, tries, made, retry>>
    BY <1>1, <2>2, <2>4, LinkIs
  <2>7. \A d \in Codes : link'[d] # "recipe"
    BY <2>6 DEF KeptInv, FatesFit
  <2>8. (\A q \in queue : Same(q, q)) /\ \A r \in Requests : made'[r] >= made[r]
    BY <2>6, KeptFacts DEF Same
  <2>9. QED
    BY <2>5, <2>6, <2>7, <2>8, KeptRests
<1>3. CASE \/ \E c \in Codes : N!Unlink(c)
           \/ N!Pause \/ N!Resume \/ \E e \in open : N!Bought(e)
  <2>1. UNCHANGED <<queue, task, shown, phase, batch, item, posted, tries, made, retry>>
    BY <1>3 DEF N!Unlink, N!Pause, N!Resume, N!Bought, N!dbVars, N!requestVars, N!jobVars,
                N!historyVars
  <2>2. \A d \in Codes : link'[d] # "recipe"
    <3>1. link \in [Codes -> {"none", "food", "recipe"}] /\ \A d \in Codes : link[d] # "recipe"
      BY <1>1, TypesNow DEF KeptInv, FatesFit
    <3>2. link' = link \/ \E c \in Codes : link' = [link EXCEPT ![c] = "none"]
      BY <1>3 DEF N!Unlink, N!Pause, N!Resume, N!Bought, N!dbVars
    <3>3. QED
      BY <3>1, <3>2
  <2>3. \A r \in Requests : made'[r] >= made[r]
    BY <2>1, KeptFacts
  <2>4. QED
    BY <2>1, <2>2, <2>3, KeptSame
<1>4. CASE \E c \in Codes : N!DeleteCode(c)
  BY <1>1, <1>4, BoundsKeep DEF N!DeleteCode
<1>5. QED
  BY <1>2, <1>3, <1>4 DEF N!UserStep

\* After a crash the rows are still there, and nobody is about to touch them.
LEMMA KeptCrash ==
    ASSUME KeptInv, NotesTypes', N!Crash PROVE KeptInv'
<1>1. /\ batch' = {} /\ item' = {} /\ task' = [t \in N!Tasks |-> N!NoTask]
      /\ UNCHANGED <<link, queue, shown, tries, made, retry>>
  BY DEF N!Crash, N!dbVars, N!historyVars
<1>2. \A r \in Requests : phase[r] = "queued" => phase'[r] = "queued"
  BY DEF N!Crash, N!Final
<1>3. TasksFit'
  BY <1>1, NoTaskFits DEF TasksFit, N!Tasks
<1>4. (\A q \in queue : Same(q, q)) /\ \A r \in Requests : made'[r] >= made[r]
  BY <1>1, KeptFacts DEF Same
<1>5. \A d \in Codes : link'[d] # "recipe"
  BY <1>1 DEF KeptInv, FatesFit
<1>6. QED
  BY <1>1, <1>2, <1>3, <1>4, <1>5, KeptRests

LEMMA KeptInvStep == KeptInv /\ [N!Next]_(N!vars) => KeptInv'
<1> SUFFICES ASSUME KeptInv, [N!Next]_(N!vars) PROVE KeptInv'
  OBVIOUS
<1>1. NotesTypes /\ NotesTypes'
  BY NotesTypesStep DEF KeptInv
<1>2. CASE UNCHANGED N!vars
  <2>1. UNCHANGED <<link, queue, task, shown, phase, batch, item, posted, tries, made, retry>>
    BY <1>2 DEF N!vars, N!dbVars, N!requestVars, N!jobVars, N!historyVars
  <2>2. /\ \A r \in Requests : made'[r] >= made[r]
        /\ \A d \in Codes : link'[d] # "recipe"
    BY <2>1, KeptFacts DEF KeptInv, FatesFit
  <2>3. QED
    BY <1>1, <2>1, <2>2, KeptSame
<1>3. ASSUME NEW r \in Requests, N!Begin(r) \/ N!RequestGoesOn(r) PROVE KeptInv'
  BY <1>1, <1>3, KeptRequest, KeptInserts DEF N!RequestGoesOn
<1>4. CASE N!JobStep
  BY <1>1, <1>4, KeptLoads, KeptPosts, KeptCommits DEF N!JobStep
<1>5. ASSUME NEW q \in queue, N!BackoffOver(q) PROVE KeptInv'
  <2> DEFINE u == [q EXCEPT !.wait = 0]
  <2>1. /\ u.id = q.id /\ u.by = q.by /\ u.code = q.code /\ u.for = q.for
        /\ u.attempts = q.attempts /\ queue' = (queue \ {q}) \cup {u}
        /\ UNCHANGED <<link, shown, phase, batch, item, posted, task, tries, made, retry>>
    BY <1>1, <1>5, BackoffIs
  <2> HIDE DEF u
  <2>2. /\ \A p \in queue' : \E o \in queue : Same(p, o)
        /\ \A o \in queue : \E p \in queue' : Same(p, o)
    <3>1. Same(u, q) /\ \A o \in queue : Same(o, o)
      BY <2>1 DEF Same
    <3>2. QED
      BY <2>1, <3>1
  <2>3. TasksFit' /\ \A d \in Codes : link'[d] # "recipe"
    BY <2>1 DEF KeptInv, TasksFit, FatesFit
  <2>4. \A r \in Requests : made'[r] >= made[r]
    BY <2>1, KeptFacts
  <2>5. QED
    BY <1>1, <2>1, <2>2, <2>3, <2>4, KeptRests
<1>6. ASSUME NEW t \in N!Tasks, N!TaskStep(t) PROVE KeptInv'
  BY <1>1, <1>6, KeptTaskSteps
<1>7. CASE N!UserStep \/ N!Resume
  BY <1>1, <1>7, KeptUser
<1>8. CASE N!Crash
  BY <1>1, <1>8, KeptCrash
<1>9. QED
  BY <1>2, <1>3, <1>4, <1>5, <1>6, <1>7, <1>8 DEF N!Next

LEMMA KeptInvAlways ==
    ASSUME OneBarcode, Edits \cap {"delete", "recipe"} = {}
    PROVE  N!Spec => []N!NoneForgotten
<1>1. N!Init => KeptInv
  <2> SUFFICES ASSUME N!Init PROVE KeptInv
    OBVIOUS
  <2>1. NotesTypes
    BY NotesTypesInit, NotesConstants
  <2>2. RowsFit /\ QueueFits /\ BatchFits /\ ItemFits
    BY DEF N!Init, RowsFit, QueueFits, BatchFits, ItemFits
  <2>3. TasksFit
    BY NoTaskFits DEF N!Init, TasksFit
  <2>4. FatesFit /\ N!NothingForgotten
    BY DEF N!Init, FatesFit, N!NothingForgotten
  <2>5. QED
    BY <2>1, <2>2, <2>3, <2>4 DEF KeptInv
<1>2. KeptInv => N!NoneForgotten
  BY DEF KeptInv, NotesTypes, N!NoneForgotten
<1>3. QED
  BY <1>1, <1>2, KeptInvStep, PTL DEF N!Spec

-----------------------------------------------------------------------------
(* Behaviours of MCOutcomes, where one of the components rests.            *)

LEMMA NotesMove == MCSpec => N!Spec
<1>1. MCInit => N!Init
  BY DEF MCInit
<1>2. [MCNext]_all => [N!Next]_(N!vars)
  <2> SUFFICES ASSUME [MCNext]_all PROVE N!Next \/ UNCHANGED N!vars
    OBVIOUS
  <2>1. N!Next \/ UNCHANGED noteVars
    BY DEF MCNext, all
  <2>2. UNCHANGED noteVars => UNCHANGED N!vars
    BY DEF noteVars, N!vars, N!dbVars, N!mealieVars, N!requestVars, N!jobVars,
           N!historyVars
  <2>3. QED
    BY <2>1, <2>2
<1>3. QED
  BY <1>1, <1>2, PTL DEF MCSpec, N!Spec

\* While a failed call to Mealie has no effect and B2M does not crash, no scan is
\* added twice, for any requests and barcodes and whatever is linked, unlinked and
\* deleted meanwhile (enqueue_retry, _process_retry_queue).
THEOREM NoneTwiceAlways ==
    ASSUME Faults \subseteq {"refused"}
    PROVE  MCSpec => []NoneTwice
BY OnceInvAlways, NotesMove, PTL DEF NoneTwice

\* A scan whose note Mealie did not take is not forgotten, whatever calls fail or
\* succeed unnoticed and wherever B2M crashes, for any number of requests, as long as
\* they scan one barcode, which is not deleted and not linked to a recipe
\* (_process_retry_queue, reconcile_linked_barcode).
THEOREM NoneForgottenAlways ==
    ASSUME OneBarcode, Edits \cap {"delete", "recipe"} = {}
    PROVE  MCSpec => []NoneForgotten
BY KeptInvAlways, NotesMove, PTL DEF NoneForgotten
=============================================================================
