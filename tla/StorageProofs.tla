--------------------------- MODULE StorageProofs ---------------------------
(***************************************************************************)
(* What outlives a restart, for every number of requests, starts,          *)
(* accounts, settings and barcodes: somebody can always administer B2M,    *)
(* nobody acts on rights that are gone, a setting is in memory what it is  *)
(* in the database, an upgrade is whole once the server is up, what was    *)
(* deleted stays away, a backup is one moment of the database, statistics  *)
(* count every scan once, and a restart changes nothing.                   *)
(*                                                                         *)
(* Each of the components has its inductive invariant (AccountsInv,        *)
(* SettingsInv, StoreInv, StatsInv), one lemma per action, and theorems    *)
(* about behaviours of MCStorage, where each component moves or rests.     *)
(***************************************************************************)
EXTENDS MCStorage, FiniteSetTheorems, SequenceTheorems, WellFoundedInduction, TLAPS

-----------------------------------------------------------------------------
(* Access control and login.                                             *)

\* A set of numbers with a bound has a greatest one.
LEMMA GreatestExists ==
    ASSUME NEW bound \in Nat, NEW ns \in SUBSET 0..bound, ns # {}
    PROVE  \E n \in ns : \A m \in ns : n >= m
<1> DEFINE Less == {ss \in Nat \X Nat : ss[1] < ss[2]}
<1> DEFINE Above == {n \in Nat : \A m \in ns : n >= m}
<1>1. Above # {} /\ Above \subseteq Nat
  <2>1. bound \in Above
    OBVIOUS
  <2>2. QED
    BY <2>1
<1>2. PICK least \in Above : \A n \in Above : <<n, least>> \notin Less
  <2> HIDE DEF Above, Less
  <2>1. IsWellFoundedOn(Less, Nat)
    BY NatLessThanWellFounded DEF OpToRel, Less
  <2>2. QED
    BY <1>1, <2>1, WFMin
<1>3. ASSUME NEW n \in Above PROVE n >= least
  <2>1. <<n, least>> \notin Less
    BY <1>2
  <2>2. n \in Nat /\ least \in Nat
    OBVIOUS
  <2>3. ~ (n < least)
    BY <2>1, <2>2
  <2>4. QED
    BY <2>2, <2>3
<1>4. ASSUME least \notin ns PROVE FALSE
  <2>1. least \in Nat /\ \A m \in ns : m \in Nat /\ m < least
    <3>1. \A m \in ns : m \in Nat /\ least >= m /\ m # least
      BY <1>4
    <3>2. QED
      BY <3>1
  <2>2. least - 1 \in Above
    <3>1. PICK m \in ns : m \in Nat
      BY <2>1
    <3>2. least - 1 \in Nat
      BY <2>1, <3>1
    <3>3. QED
      BY <2>1, <3>2
  <2>3. QED
    BY <1>3, <2>1, <2>2
<1>5. QED
  BY <1>4

\* SQLite gives a new account an id that follows all those in use.
LEMMA NewIdFollows ==
    ASSUME users \subseteq A!User
    PROVE  /\ A!NewId \in Nat \ {0}
           /\ \A u \in users : u.id < A!NewId
           /\ A!NewId = 1 \/ \E u \in users : A!NewId = u.id + 1
<1> DEFINE used == {0} \cup A!UserIds(users)
<1>1. used \in SUBSET 0..MaxRequests /\ used # {} /\ \A u \in users : u.id \in used
  BY AccountsAssumption DEF A!UserIds, A!User, A!Ids
<1>2. \A n \in used : n = 0 \/ \E u \in users : n = u.id
  BY DEF A!UserIds
<1>3. A!Max(used) \in used /\ \A m \in used : A!Max(used) >= m
  <2> HIDE DEF used
  <2>1. \E n \in used : \A m \in used : n >= m
    BY <1>1, GreatestExists, AccountsAssumption
  <2>2. QED
    BY <2>1 DEF A!Max
<1>4. A!NewId = 1 + A!Max(used)
  BY DEF A!NewId
<1>5. A!Max(used) \in Nat /\ \A u \in users : u.id \in Nat /\ u.id <= A!Max(used)
  <2>1. used \subseteq Nat /\ \A u \in users : u.id \in used
    BY <1>1, AccountsAssumption
  <2> HIDE DEF used
  <2>2. QED
    BY <1>3, <2>1
<1>6. A!NewId = 1 \/ \E u \in users : A!NewId = u.id + 1
  <2> HIDE DEF used
  <2>1. A!Max(used) = 0 \/ \E u \in users : A!Max(used) = u.id
    BY <1>2, <1>3
  <2>2. QED
    BY <1>4, <1>5, <2>1
<1> HIDE DEF used
<1>7. QED
  BY <1>4, <1>5, <1>6

-----------------------------------------------------------------------------
\* Requests that are being handled.
Busy == {r \in Slots : req[r].at # "free"}

\* Each request makes one account at most, and each account has the id that
\* follows another.
RoomLeft ==
    /\ setups + Cardinality(Busy) <= count
    /\ \A u \in users : u.id + Cardinality(Busy) <= count

\* A request that is about an account was sent while there was one.
AimOf(r) == req[r].op \in {"delete", "role", "login"} => req[r].target \in A!Ids

Aims == \A r \in Busy : AimOf(r)

\* What a handler has checked is true until it commits, unless another one
\* changed accounts meanwhile.
StillTrue(r) ==
    /\ req[r].op = "setup" => users = {}
    /\ req[r].op = "add" => users # {}
    /\ req[r].op = "delete" => A!MayDelete(r)

ChecksHold == ~crossed => \A r \in Slots : req[r].at = "commit" => StillTrue(r)

\* The rights of an account are among those it had while its request ran.
HadNow ==
    \A r \in Busy : A!RightsOf(users, manages, req[r].session.user) \subseteq had[r]

\* A request that is about to change accounts, or speaks for an
\* administrator, had the right to.
GroundsOf(r) ==
    /\ req[r].at = "commit" /\ req[r].op \in {"add", "delete", "role"}
           => "users" \in had[r]
    /\ req[r].at = "commit" /\ req[r].op = "add" /\ req[r].grant
           => "admin" \in had[r]
    /\ req[r].at = "commit" /\ req[r].op = "delete" /\ req[r].was
           => "admin" \in had[r]
    /\ req[r].op \notin A!Exempt /\ req[r].session.admin => "admin" \in had[r]

Grounds == \A r \in Busy : GroundsOf(r)

\* Nobody takes the last account away.
NoneLeft == ~crossed /\ users = {} => setups = 0

AccountsInv ==
    /\ A!TypeOK /\ RoomLeft /\ Aims
    /\ ChecksHold /\ HadNow /\ Grounds
    /\ NoneLeft /\ A!AdminRemains /\ A!SetupOnce

LEMMA FreeIsARequest == A!Free \in A!Request /\ A!Free.at = "free"
BY AccountsAssumption
DEF A!Free, A!Request, A!Ops, A!Session, A!SignedOut, A!Ids, A!NoOne

LEMMA BusyIsFinite == IsFiniteSet(Busy) /\ Cardinality(Busy) \in Nat
<1>1. Busy \subseteq Slots
  BY DEF Busy
<1>2. QED
  BY <1>1, AccountsAssumption, FS_Subset, FS_CardinalityType

LEMMA AccountsInvInit == A!Init => AccountsInv
<1> SUFFICES ASSUME A!Init PROVE AccountsInv
  OBVIOUS
<1>1. req \in [Slots -> A!Request] /\ \A r \in Slots : req[r].at = "free"
  BY FreeIsARequest DEF A!Init
<1>2. Busy = {}
  BY <1>1 DEF Busy
<1>3. cookie \in [Browsers -> A!Session]
  BY DEF A!Init, A!Session, A!SignedOut, A!NoOne
<1>4. A!TypeOK
  <2>1. users \subseteq A!User /\ manages \subseteq A!Ids /\ onboarded \in BOOLEAN
    BY DEF A!Init
  <2>2. crossed \in BOOLEAN
    BY DEF A!Init
  <2>3. had \in [Slots -> SUBSET A!Rights]
    BY DEF A!Init
  <2>4. \A u, v \in users : u.id = v.id \/ u.name = v.name => u = v
    BY DEF A!Init
  <2>5. count \in 0..MaxRequests /\ setups \in 0..MaxRequests
    BY AccountsAssumption DEF A!Init
  <2>6. QED
    BY <1>1, <1>3, <2>1, <2>2, <2>3, <2>4, <2>5 DEF A!TypeOK
<1>5. RoomLeft
  BY <1>2, FS_EmptySet, AccountsAssumption DEF RoomLeft, A!Init
<1>6. Aims /\ HadNow /\ Grounds
  BY <1>2 DEF Aims, HadNow, Grounds
<1>7. ChecksHold
  BY <1>1 DEF ChecksHold
<1>8. NoneLeft /\ A!AdminRemains /\ A!SetupOnce
  BY DEF NoneLeft, A!AdminRemains, A!SetupOnce, A!Init
<1>9. QED
  BY <1>4, <1>5, <1>6, <1>7, <1>8 DEF AccountsInv

\* What a step notes of the rights of the accounts that have requests.
LEMMA Watched ==
    ASSUME had \in [Slots -> SUBSET A!Rights], NEW us, NEW ms, A!Watch(us, ms)
    PROVE  /\ had' \in [Slots -> SUBSET A!Rights]
           /\ \A r \in Slots : req'[r].at # "free" =>
                 /\ A!RightsOf(us, ms, req'[r].session.user) \subseteq had'[r]
                 /\ req[r].at # "free" => had[r] \subseteq had'[r]
<1>1. \A id : A!RightsOf(us, ms, id) \subseteq A!Rights
  BY DEF A!RightsOf
<1>2. QED
  BY <1>1 DEF A!Watch

\* A request that arrives takes a place; one that ends gives it back.
LEMMA PlacesTaken ==
    ASSUME req \in [Slots -> A!Request], NEW r \in Slots, NEW m,
           A!Goes(r, m)
    PROVE  /\ req[r].at = "free" /\ m.at # "free" =>
                  Cardinality(Busy') = Cardinality(Busy) + 1
           /\ req[r].at # "free" /\ m.at = "free" =>
                  Cardinality(Busy') = Cardinality(Busy) - 1
           /\ req[r].at # "free" /\ m.at # "free" => Busy' = Busy
<1>0. req' = [req EXCEPT ![r] = m] /\ req'[r] = m /\ \A q \in Slots \ {r} : req'[q] = req[q]
  BY DEF A!Goes
<1>1. ASSUME req[r].at = "free", m.at # "free" PROVE Cardinality(Busy') = Cardinality(Busy) + 1
  <2>1. Busy' = Busy \cup {r} /\ r \notin Busy
    BY <1>0, <1>1 DEF Busy
  <2>2. QED
    BY <2>1, BusyIsFinite, FS_AddElement
<1>2. ASSUME req[r].at # "free", m.at = "free" PROVE Cardinality(Busy') = Cardinality(Busy) - 1
  <2>1. Busy' = Busy \ {r} /\ r \in Busy
    BY <1>0, <1>2 DEF Busy
  <2>2. QED
    BY <2>1, BusyIsFinite, FS_RemoveElement
<1>3. ASSUME req[r].at # "free", m.at # "free" PROVE Busy' = Busy
  BY <1>0, <1>3 DEF Busy
<1>4. QED
  BY <1>1, <1>2, <1>3

\* A step that leaves the accounts alone.
LEMMA UsersKept ==
    ASSUME AccountsInv, NEW r \in Slots, NEW m \in A!Request, A!Goes(r, m),
           A!Watch(users, manages),
           UNCHANGED <<users, manages, crossed, setups>>,
           cookie' \in [Browsers -> A!Session], onboarded' \in BOOLEAN,
           count' \in count..MaxRequests,
           req[r].at = "free" /\ m.at # "free" => count' > count,
           m.at # "free" => AimOf(r)' /\ GroundsOf(r)',
           m.at = "commit" /\ ~crossed => StillTrue(r)'
    PROVE  AccountsInv'
<1>0. A!TypeOK /\ RoomLeft /\ Aims /\ ChecksHold /\ Grounds
  BY DEF AccountsInv
<1>1. /\ req' = [req EXCEPT ![r] = m] /\ req'[r] = m
      /\ \A q \in Slots \ {r} : req'[q] = req[q]
      /\ req' \in [Slots -> A!Request]
  BY <1>0 DEF A!Goes, A!TypeOK
<1>2. /\ had' \in [Slots -> SUBSET A!Rights]
      /\ \A q \in Slots : req'[q].at # "free" =>
            /\ A!RightsOf(users, manages, req'[q].session.user) \subseteq had'[q]
            /\ req[q].at # "free" => had[q] \subseteq had'[q]
  BY <1>0, Watched DEF A!TypeOK
<1>3. A!TypeOK'
  <2>1. count' \in 0..MaxRequests /\ setups' \in 0..MaxRequests /\ crossed' \in BOOLEAN
    BY <1>0, AccountsAssumption DEF A!TypeOK
  <2>2. users' \subseteq A!User /\ manages' \subseteq A!Ids
    BY <1>0 DEF A!TypeOK
  <2>3. \A u, v \in users' : u.id = v.id \/ u.name = v.name => u = v
    BY <1>0 DEF A!TypeOK
  <2>4. QED
    BY <1>1, <1>2, <2>1, <2>2, <2>3 DEF A!TypeOK
<1>4. RoomLeft'
  <2>1. Cardinality(Busy') - Cardinality(Busy) <= count' - count
    <3>1. req[r].at = "free" /\ m.at = "free" => Busy' = Busy
      BY <1>1 DEF Busy
    <3>2. count \in Nat /\ count' \in Nat /\ count' >= count
      BY <1>0, AccountsAssumption DEF A!TypeOK
    <3>3. req \in [Slots -> A!Request]
      BY <1>0 DEF A!TypeOK
    <3>4. QED
      BY <3>1, <3>2, <3>3, PlacesTaken, BusyIsFinite
  <2>2. Cardinality(Busy') \in Nat /\ Cardinality(Busy) \in Nat
    <3>1. IsFiniteSet(Busy')
      BY AccountsAssumption, FS_Subset DEF Busy
    <3>2. QED
      BY <3>1, BusyIsFinite, FS_CardinalityType
  <2>3. /\ count \in Nat /\ count' \in Nat /\ setups \in Nat
        /\ \A u \in users : u.id \in Nat
    BY <1>0, AccountsAssumption DEF A!TypeOK, A!User, A!Ids
  <2>4. QED
    BY <1>0, <2>1, <2>2, <2>3 DEF RoomLeft
<1>5. Aims'
  <2>1. ASSUME NEW q \in Busy', q # r PROVE AimOf(q)'
    <3>1. q \in Busy /\ req'[q] = req[q]
      BY <1>1, <2>1 DEF Busy
    <3>2. QED
      BY <1>0, <3>1 DEF Aims, AimOf
  <2>2. r \in Busy' => AimOf(r)'
    BY <1>1 DEF Busy
  <2>3. QED
    BY <2>1, <2>2 DEF Aims
<1>6. ChecksHold'
  <2>1. ASSUME NEW q \in Slots \ {r}, StillTrue(q) PROVE StillTrue(q)'
    BY <1>1, <2>1 DEF StillTrue, A!MayDelete, A!Me
  <2>2. QED
    BY <1>0, <1>1, <2>1 DEF ChecksHold
<1>7. HadNow'
  BY <1>2 DEF HadNow, Busy
<1>8. Grounds'
  <2>1. ASSUME NEW q \in Busy', q # r PROVE GroundsOf(q)'
    <3>1. q \in Busy /\ req'[q] = req[q] /\ had[q] \subseteq had'[q]
      BY <1>1, <1>2, <2>1 DEF Busy
    <3>2. QED
      BY <1>0, <3>1 DEF Grounds, GroundsOf
  <2>2. r \in Busy' => GroundsOf(r)'
    BY <1>1 DEF Busy
  <2>3. QED
    BY <2>1, <2>2 DEF Grounds
<1>9. (NoneLeft /\ A!AdminRemains /\ A!SetupOnce)'
  BY DEF AccountsInv, NoneLeft, A!AdminRemains, A!SetupOnce
<1>10. QED
  BY <1>3, <1>4, <1>5, <1>6, <1>7, <1>8, <1>9 DEF AccountsInv

\* A request that ends with the accounts changed.
LEMMA UsersWritten ==
    ASSUME AccountsInv, NEW r \in Slots, req[r].at = "commit",
           NEW session \in A!Session, NEW modified \in BOOLEAN,
           A!Ends(r, session, modified),
           NEW us \in SUBSET A!User, NEW ms \in SUBSET A!Ids, A!Writes(r, us, ms),
           \A u, v \in us : u.id = v.id \/ u.name = v.name => u = v,
           \A u \in us : u.id + Cardinality(Busy) <= count + 1,
           setups' \in {setups, setups + 1}, UNCHANGED <<onboarded, count>>,
           ~crossed /\ us # {} => \E u \in us : u.admin,
           ~crossed => setups' <= 1 /\ (us = {} => setups' = 0)
    PROVE  AccountsInv'
<1>0. A!TypeOK /\ RoomLeft /\ Aims /\ ChecksHold /\ Grounds
  BY DEF AccountsInv
<1>1. /\ A!Goes(r, A!Free) /\ req'[r].at = "free" /\ r \in Busy
      /\ \A q \in Slots \ {r} : req'[q] = req[q]
      /\ req' \in [Slots -> A!Request]
  BY <1>0, FreeIsARequest DEF A!Ends, A!Goes, A!TypeOK, Busy
<1>2. A!Watch(us, ms) /\ users' = us /\ manages' = ms
  BY DEF A!Writes
<1>3. /\ had' \in [Slots -> SUBSET A!Rights]
      /\ \A q \in Slots : req'[q].at # "free" =>
            /\ A!RightsOf(us, ms, req'[q].session.user) \subseteq had'[q]
            /\ req[q].at # "free" => had[q] \subseteq had'[q]
  <2>1. had \in [Slots -> SUBSET A!Rights]
    BY <1>0 DEF A!TypeOK
  <2>2. QED
    BY <1>2, <2>1, Watched
<1>4. Cardinality(Busy') = Cardinality(Busy) - 1 /\ Cardinality(Busy) \in Nat
  <2>1. req \in [Slots -> A!Request] /\ A!Free.at = "free" /\ req[r].at # "free"
    BY <1>0, FreeIsARequest DEF A!TypeOK
  <2>2. QED
    BY <1>1, <2>1, PlacesTaken, BusyIsFinite
<1>5. RoomLeft'
  <2>1. count \in Nat /\ setups \in Nat /\ (\A u \in us : u.id \in Nat)
    BY <1>0, AccountsAssumption DEF A!TypeOK, A!User, A!Ids
  <2>2. setups' + Cardinality(Busy') <= count'
    BY <1>0, <1>4, <2>1 DEF RoomLeft
  <2>3. \A u \in users' : u.id + Cardinality(Busy') <= count'
    BY <1>2, <1>4, <2>1
  <2>4. QED
    BY <2>2, <2>3 DEF RoomLeft
<1>6. A!TypeOK'
  <2>1. setups' \in 0..MaxRequests /\ count' \in 0..MaxRequests
    <3>1. IsFiniteSet(Busy') /\ Cardinality(Busy') \in Nat
      <4>1. IsFiniteSet(Busy')
        BY AccountsAssumption, FS_Subset DEF Busy
      <4>2. QED
        BY <4>1, FS_CardinalityType
    <3>2. QED
      BY <1>0, <1>5, <3>1, AccountsAssumption DEF RoomLeft, A!TypeOK
  <2>2. cookie' \in [Browsers -> A!Session]
    BY <1>0 DEF A!Ends, A!Answered, A!TypeOK
  <2>3. crossed' \in BOOLEAN
    BY <1>0 DEF A!Writes, A!TypeOK
  <2>4. QED
    BY <1>0, <1>1, <1>2, <1>3, <2>1, <2>2, <2>3 DEF A!TypeOK
<1>7. Aims'
  <2>1. ASSUME NEW q \in Busy' PROVE q \in Busy /\ req'[q] = req[q]
    BY <1>1, <2>1 DEF Busy
  <2>2. QED
    BY <1>0, <2>1 DEF Aims, AimOf
<1>8. ChecksHold'
  BY <1>1 DEF ChecksHold, A!Writes
<1>9. HadNow'
  BY <1>2, <1>3 DEF HadNow, Busy
<1>10. Grounds'
  <2>1. ASSUME NEW q \in Busy' PROVE GroundsOf(q)'
    <3>1. q \in Busy /\ req'[q] = req[q] /\ had[q] \subseteq had'[q]
      BY <1>1, <1>3, <2>1 DEF Busy
    <3>2. QED
      BY <1>0, <3>1 DEF Grounds, GroundsOf
  <2>2. QED
    BY <2>1 DEF Grounds
<1>11. (NoneLeft /\ A!AdminRemains /\ A!SetupOnce)'
  <2>1. ~crossed' => ~crossed
    BY DEF A!Writes
  <2>2. QED
    BY <1>2, <2>1 DEF NoneLeft, A!AdminRemains, A!SetupOnce
<1>12. QED
  BY <1>5, <1>6, <1>7, <1>8, <1>9, <1>10, <1>11 DEF AccountsInv

\* A request that ends, whatever it was, with the accounts as they were.
LEMMA EndsQuietly ==
    ASSUME AccountsInv, NEW r \in Slots, req[r].at # "free",
           NEW session \in A!Session, NEW modified \in BOOLEAN,
           A!Ends(r, session, modified), A!Watch(users, manages),
           onboarded' \in BOOLEAN,
           UNCHANGED <<users, manages, count, crossed, setups>>
    PROVE  AccountsInv'
<1>1. A!Free \in A!Request /\ A!Free.at = "free" /\ A!Goes(r, A!Free)
  BY FreeIsARequest DEF A!Ends
<1>2. count' \in count..MaxRequests
  BY AccountsAssumption DEF AccountsInv, A!TypeOK
<1>3. cookie' \in [Browsers -> A!Session]
  BY DEF A!Ends, A!Answered, AccountsInv, A!TypeOK
<1>4. QED
  BY <1>1, <1>2, <1>3, UsersKept

\* What the parts of a request are.
LEMMA RequestParts ==
    ASSUME A!TypeOK, NEW r \in Slots
    PROVE  /\ req[r] \in A!Request
           /\ req[r].session \in A!Session /\ req[r].modified \in BOOLEAN
           /\ req[r].session.admin \in BOOLEAN /\ req[r].browser \in Browsers
           /\ req[r].target \in A!Ids \cup {A!NoOne} /\ req[r].name \in Names
           /\ req[r].was \in BOOLEAN /\ req[r].grant \in BOOLEAN
           /\ req[r].op \in A!Ops
BY DEF A!TypeOK, A!Request, A!Session

LEMMA TurnedDown ==
    ASSUME AccountsInv, NEW r \in Slots, req[r].at # "free", A!TurnsDown(r)
    PROVE  AccountsInv'
<1>1. req[r].session \in A!Session /\ req[r].modified \in BOOLEAN
  BY RequestParts DEF AccountsInv
<1>2. onboarded' \in BOOLEAN
  BY DEF AccountsInv, A!TypeOK, A!TurnsDown
<1>3. QED
  BY <1>1, <1>2, EndsQuietly DEF A!TurnsDown

\* A handler that has checked goes on to commit.
LEMMA ChecksDone ==
    ASSUME AccountsInv, NEW r \in Slots, req[r].at = "handler",
           NEW was \in BOOLEAN, A!Checked(r, was),
           req[r].op \in {"add", "delete", "role"} =>
               A!MayManage(users, manages, A!Me(r)),
           req[r].op = "add" /\ req[r].grant => A!IsAdmin(users, A!Me(r)),
           req[r].op = "delete" => A!MayDelete(r) /\ (was => A!IsAdmin(users, A!Me(r))),
           req[r].op = "setup" => users = {}
    PROVE  AccountsInv'
<1> DEFINE m == [req[r] EXCEPT !.at = "commit", !.was = was]
<1>0. A!TypeOK /\ req[r] \in A!Request
  BY RequestParts DEF AccountsInv
<1>1. /\ m \in A!Request /\ m.at = "commit" /\ m.was = was /\ m.op = req[r].op
      /\ m.target = req[r].target /\ m.session = req[r].session /\ m.grant = req[r].grant
  BY <1>0 DEF A!Request
<1>2. A!Goes(r, m) /\ A!Watch(users, manages)
      /\ UNCHANGED <<users, manages, onboarded, cookie, count, crossed, setups>>
  BY DEF A!Checked
<1>3. req'[r] = m
  BY <1>0, <1>2 DEF A!Goes, A!TypeOK
<1> HIDE DEF m
<1>4. /\ count' \in count..MaxRequests /\ onboarded' \in BOOLEAN
      /\ cookie' \in [Browsers -> A!Session]
  BY <1>0, <1>2, AccountsAssumption DEF A!TypeOK
<1>5. /\ A!RightsOf(users, manages, A!Me(r)) \subseteq had'[r]
      /\ had[r] \subseteq had'[r]
  BY <1>0, <1>1, <1>2, <1>3, Watched DEF A!TypeOK, A!Me
<1>6. AimOf(r)'
  BY <1>1, <1>3 DEF AccountsInv, Aims, AimOf, Busy
<1>7. GroundsOf(r)'
  <2>1. /\ A!MayManage(users, manages, A!Me(r)) => "users" \in had'[r]
        /\ A!IsAdmin(users, A!Me(r)) => "admin" \in had'[r]
    BY <1>5 DEF A!RightsOf, A!Rights
  <2>2. req[r].op \notin A!Exempt /\ req[r].session.admin => "admin" \in had'[r]
    BY <1>5 DEF AccountsInv, Grounds, GroundsOf, Busy
  <2>3. QED
    BY <1>1, <1>3, <2>1, <2>2 DEF GroundsOf
<1>8. StillTrue(r)'
  <2>1. A!Me(r)' = A!Me(r) /\ (A!MayDelete(r)' <=> A!MayDelete(r))
    BY <1>1, <1>2, <1>3 DEF A!Me, A!MayDelete
  <2>2. A!MayManage(users, manages, A!Me(r)) => users # {}
    BY DEF A!MayManage, A!IsAdmin, A!UserIds
  <2>3. QED
    BY <1>1, <1>2, <1>3, <2>1, <2>2 DEF StillTrue
<1>9. QED
  BY <1>1, <1>2, <1>4, <1>6, <1>7, <1>8, UsersKept

LEMMA ArrivesKeeps ==
    ASSUME AccountsInv, NEW r \in Slots, NEW b \in Browsers, NEW op \in A!Ops,
           A!Arrives(r, b, op)
    PROVE  AccountsInv'
<1> DEFINE came == cookie[b]
<1> DEFINE session == IF op \in A!Exempt THEN came ELSE A!Synced(came)
<1>0. A!TypeOK /\ came \in A!Session /\ req[r] \in A!Request
  BY DEF AccountsInv, A!TypeOK
<1>1. /\ session \in A!Session
      /\ op \notin A!Exempt /\ session.admin => A!IsAdmin(users, session.user)
  <2>1. A!SignedOut \in A!Session /\ ~A!SignedOut.admin
    BY DEF A!SignedOut, A!Session, A!NoOne
  <2>2. A!IsAdmin(users, came.user) \in BOOLEAN
    BY DEF A!IsAdmin
  <2>3. QED
    BY <1>0, <2>1, <2>2 DEF A!Synced, A!Session
<1> HIDE DEF session
<1>2. PICK target \in {A!NoOne} \cup A!Ids, grant \in BOOLEAN, name \in Names :
         /\ op \in {"delete", "role", "login"} => target \in A!UserIds(users)
         /\ IF op \notin A!Exempt /\ session.user = A!NoOne
            THEN cookie' = [cookie EXCEPT ![b] = session] /\ UNCHANGED req
            ELSE /\ A!Goes(r, [A!Free EXCEPT
                        !.at = "handler", !.op = op, !.browser = b,
                        !.session = session, !.modified = (session # came),
                        !.target = target, !.grant = grant, !.name = name])
                 /\ UNCHANGED cookie
  BY DEF A!Arrives, session
<1>3. /\ req[r].at = "free" /\ count < MaxRequests /\ count' = count + 1
      /\ A!Watch(users, manages)
      /\ UNCHANGED <<users, manages, onboarded, crossed, setups>>
  BY DEF A!Arrives
<1>4. count' \in count..MaxRequests /\ count' > count /\ onboarded' \in BOOLEAN
  BY <1>0, <1>3, AccountsAssumption DEF A!TypeOK
<1>5. CASE op \notin A!Exempt /\ session.user = A!NoOne
  <2>1. A!Goes(r, req[r]) /\ cookie' \in [Browsers -> A!Session]
    BY <1>0, <1>1, <1>2, <1>5 DEF A!Goes, A!TypeOK
  <2>2. QED
    BY <1>0, <1>3, <1>4, <2>1, UsersKept
<1>6. CASE ~(op \notin A!Exempt /\ session.user = A!NoOne)
  <2> DEFINE m == [A!Free EXCEPT
                        !.at = "handler", !.op = op, !.browser = b,
                        !.session = session, !.modified = (session # came),
                        !.target = target, !.grant = grant, !.name = name]
  <2>1. /\ m \in A!Request /\ m.at = "handler" /\ m.op = op
        /\ m.session = session /\ m.target = target
    BY <1>1, FreeIsARequest DEF A!Free, A!Request
  <2>2. A!Goes(r, m) /\ cookie' \in [Browsers -> A!Session]
    BY <1>0, <1>2, <1>6 DEF A!TypeOK
  <2> HIDE DEF m
  <2>3. req'[r] = m
    BY <1>0, <2>2 DEF A!Goes, A!TypeOK
  <2>4. AimOf(r)'
    BY <1>0, <1>2, <2>1, <2>3 DEF AimOf, A!UserIds, A!TypeOK, A!User
  <2>5. GroundsOf(r)'
    <3>1. A!RightsOf(users, manages, session.user) \subseteq had'[r]
      BY <1>0, <1>3, <2>1, <2>3, Watched DEF A!TypeOK
    <3>2. A!IsAdmin(users, session.user) => "admin" \in had'[r]
      BY <3>1 DEF A!RightsOf, A!Rights
    <3>3. QED
      BY <1>1, <2>1, <2>3, <3>2 DEF GroundsOf
  <2>6. QED
    BY <1>3, <1>4, <2>1, <2>2, <2>4, <2>5, UsersKept
<1>7. QED
  BY <1>5, <1>6

LEMMA QuietEndings ==
    ASSUME AccountsInv, NEW r \in Slots,
           A!Logout(r) \/ A!Language(r) \/ A!Onboard(r) \/ A!LoginEnds(r)
    PROVE  AccountsInv'
<1>0. A!TypeOK /\ A!SignedOut \in A!Session
  BY DEF AccountsInv, A!SignedOut, A!Session, A!NoOne
<1>1. CASE A!Logout(r)
  <2>1. onboarded' \in BOOLEAN
    BY <1>0, <1>1 DEF A!Logout, A!TypeOK
  <2>2. QED
    BY <1>0, <1>1, <2>1, EndsQuietly DEF A!Logout, A!Handles
<1>2. CASE A!Language(r)
  <2>1. PICK changed \in BOOLEAN :
            A!Ends(r, req[r].session, req[r].modified \/ changed)
    BY <1>2 DEF A!Language
  <2>2. (req[r].modified \/ changed) \in BOOLEAN /\ req[r].session \in A!Session
    BY <1>0, RequestParts
  <2>3. onboarded' \in BOOLEAN
    BY <1>0, <1>2 DEF A!Language, A!TypeOK
  <2>4. QED
    BY <1>2, <2>1, <2>2, <2>3, EndsQuietly DEF A!Language, A!Handles
<1>3. CASE A!Onboard(r)
  <2>1. onboarded' \in BOOLEAN
    BY <1>3 DEF A!Onboard
  <2>2. QED
    BY <1>0, <1>3, <2>1, RequestParts, EndsQuietly DEF A!Onboard, A!Handles
<1>4. CASE A!LoginEnds(r)
  <2>1. [user |-> req[r].target, admin |-> req[r].was] \in A!Session
    BY <1>0, RequestParts DEF A!Session
  <2>2. onboarded' \in BOOLEAN
    BY <1>0, <1>4 DEF A!LoginEnds, A!TypeOK
  <2>3. QED
    BY <1>4, <2>1, <2>2, EndsQuietly DEF A!LoginEnds
<1>5. QED
  BY <1>1, <1>2, <1>3, <1>4

LEMMA ChecksKeep ==
    ASSUME AccountsInv, NEW r \in Slots,
           \/ A!SetupChecks(r) \/ A!LoginChecks(r) \/ A!AddChecks(r)
           \/ A!DeleteChecks(r) \/ A!RoleChecks(r)
    PROVE  AccountsInv'
<1>0. \A id : A!IsAdmin(users, id) \in BOOLEAN
  BY DEF A!IsAdmin
<1>1. CASE A!SetupChecks(r)
  BY <1>1, TurnedDown, ChecksDone DEF A!SetupChecks, A!Handles
<1>2. CASE A!LoginChecks(r)
  BY <1>0, <1>2, TurnedDown, ChecksDone DEF A!LoginChecks, A!Handles
<1>3. CASE A!AddChecks(r)
  BY <1>3, TurnedDown, ChecksDone DEF A!AddChecks, A!Handles
<1>4. CASE A!DeleteChecks(r)
  <2>1. A!MayDelete(r) =>
            /\ A!MayManage(users, manages, A!Me(r))
            /\ A!IsAdmin(users, req[r].target) => A!IsAdmin(users, A!Me(r))
    BY DEF A!MayDelete
  <2>2. QED
    BY <1>0, <1>4, <2>1, TurnedDown, ChecksDone DEF A!DeleteChecks, A!Handles
<1>5. CASE A!RoleChecks(r)
  BY <1>0, <1>5, TurnedDown, ChecksDone DEF A!RoleChecks, A!Handles
<1>6. QED
  BY <1>1, <1>2, <1>3, <1>4, <1>5

\* One account more.
Grown(r, admin) ==
    users \cup {[id |-> A!NewId, name |-> req[r].name, admin |-> admin]}

LEMMA NewAccount ==
    ASSUME AccountsInv, NEW r \in Slots, req[r].at = "commit",
           NEW admin \in BOOLEAN, \A u \in users : u.name # req[r].name
    PROVE  /\ Grown(r, admin) \in SUBSET A!User /\ A!NewId \in A!Ids
           /\ \A u, v \in Grown(r, admin) : u.id = v.id \/ u.name = v.name => u = v
           /\ \A u \in Grown(r, admin) : u.id + Cardinality(Busy) <= count + 1
           /\ users \subseteq Grown(r, admin)
           /\ \E u \in Grown(r, admin) : u.admin = admin
<1> DEFINE new == [id |-> A!NewId, name |-> req[r].name, admin |-> admin]
<1> DEFINE us == Grown(r, admin)
<1>0. A!TypeOK /\ RoomLeft /\ users \subseteq A!User
  BY DEF AccountsInv, A!TypeOK
<1>1. Cardinality(Busy) \in Nat /\ Cardinality(Busy) >= 1
  <2>1. Busy # {}
    BY DEF Busy
  <2>2. QED
    BY <2>1, BusyIsFinite, FS_EmptySet
<1>2. count \in 0..MaxRequests /\ setups \in Nat /\ (\A u \in users : u.id \in Nat)
  BY <1>0 DEF A!TypeOK, A!User, A!Ids
<1>3. A!NewId + Cardinality(Busy) <= count + 1
  BY <1>0, <1>1, <1>2, NewIdFollows, AccountsAssumption DEF RoomLeft
<1>4. A!NewId \in A!Ids
  BY <1>0, <1>1, <1>2, <1>3, NewIdFollows, AccountsAssumption DEF A!Ids
<1>5. new \in A!User
  BY <1>0, <1>4, RequestParts DEF A!User
<1>6. \A u \in users : u.id # A!NewId /\ u.name # req[r].name
  BY <1>0, <1>2, NewIdFollows
<1>7. \A u, v \in us : u.id = v.id \/ u.name = v.name => u = v
  BY <1>0, <1>6 DEF Grown, A!TypeOK
<1>8. \A u \in us : u.id + Cardinality(Busy) <= count + 1
  <2>1. \A u \in users : u.id + Cardinality(Busy) <= count + 1
    BY <1>0, <1>1, <1>2, AccountsAssumption DEF RoomLeft
  <2>2. QED
    BY <1>3, <2>1 DEF Grown
<1>9. new \in us /\ new.admin = admin
  BY DEF Grown
<1>10. us \in SUBSET A!User /\ users \subseteq us
  BY <1>0, <1>5 DEF Grown
<1> HIDE DEF new
<1>11. QED
  BY <1>4, <1>7, <1>8, <1>9, <1>10

LEMMA SetupCommitsKeeps ==
    ASSUME AccountsInv, NEW r \in Slots, A!SetupCommits(r)
    PROVE  AccountsInv'
<1>1. CASE \E u \in users : u.name = req[r].name
  BY <1>1, TurnedDown DEF A!SetupCommits
<1>2. CASE \A u \in users : u.name # req[r].name
  <2> DEFINE us == Grown(r, TRUE)
  <2> DEFINE session == [user |-> A!NewId, admin |-> TRUE]
  <2>1. /\ req[r].at = "commit" /\ req[r].op = "setup"
        /\ A!Ends(r, session, TRUE) /\ A!Writes(r, us, manages)
        /\ setups' = setups + 1 /\ UNCHANGED <<onboarded, count>>
    BY <1>2 DEF A!SetupCommits, Grown
  <2>2. /\ us \in SUBSET A!User /\ A!NewId \in A!Ids
        /\ \A u, v \in us : u.id = v.id \/ u.name = v.name => u = v
        /\ \A u \in us : u.id + Cardinality(Busy) <= count + 1
        /\ \E u \in us : u.admin
    BY <1>2, <2>1, NewAccount
  <2>3. session \in A!Session
    BY <2>2 DEF A!Session
  <2>4. ~crossed => setups' <= 1
    BY <2>1 DEF AccountsInv, ChecksHold, StillTrue, NoneLeft
  <2>5. manages \in SUBSET A!Ids
    BY DEF AccountsInv, A!TypeOK
  <2> HIDE DEF us, session
  <2>6. QED
    BY <2>1, <2>2, <2>3, <2>4, <2>5, UsersWritten
<1>3. QED
  BY <1>1, <1>2

LEMMA AddCommitsKeeps ==
    ASSUME AccountsInv, NEW r \in Slots, A!AddCommits(r)
    PROVE  AccountsInv'
<1>1. CASE \E u \in users : u.name = req[r].name
  BY <1>1, TurnedDown DEF A!AddCommits
<1>2. CASE \A u \in users : u.name # req[r].name
  <2> DEFINE us == Grown(r, req[r].grant)
  <2>0. A!TypeOK /\ A!AdminRemains /\ A!SetupOnce
    BY DEF AccountsInv
  <2>1. /\ req[r].at = "commit" /\ req[r].op = "add"
        /\ A!Ends(r, req[r].session, req[r].modified) /\ A!Writes(r, us, manages)
        /\ UNCHANGED <<onboarded, count, setups>>
    BY <1>2 DEF A!AddCommits, Grown
  <2>2. req[r].session \in A!Session /\ req[r].modified \in BOOLEAN /\ req[r].grant \in BOOLEAN
    BY <2>0, RequestParts
  <2>3. /\ us \in SUBSET A!User /\ users \subseteq us
        /\ \A u, v \in us : u.id = v.id \/ u.name = v.name => u = v
        /\ \A u \in us : u.id + Cardinality(Busy) <= count + 1
    BY <1>2, <2>1, <2>2, NewAccount
  <2> HIDE DEF us
  <2>4. ~crossed => \E u \in us : u.admin
    <3>1. ~crossed => users # {}
      BY <2>1 DEF AccountsInv, ChecksHold, StillTrue
    <3>2. QED
      BY <2>0, <2>3, <3>1 DEF A!AdminRemains
  <2>5. manages \in SUBSET A!Ids
    BY <2>0 DEF A!TypeOK
  <2>6. QED
    BY <2>0, <2>1, <2>2, <2>3, <2>4, <2>5, UsersWritten DEF A!SetupOnce
<1>3. QED
  BY <1>1, <1>2

LEMMA DeleteCommitsKeeps ==
    ASSUME AccountsInv, NEW r \in Slots, A!DeleteCommits(r)
    PROVE  AccountsInv'
<1> DEFINE us == {u \in users : u.id # req[r].target}
<1>0. A!TypeOK /\ A!AdminRemains /\ A!SetupOnce /\ RoomLeft
  BY DEF AccountsInv
<1>1. /\ req[r].at = "commit" /\ req[r].op = "delete"
      /\ A!Ends(r, req[r].session, req[r].modified) /\ A!Writes(r, us, manages)
      /\ UNCHANGED <<onboarded, count, setups>>
  BY DEF A!DeleteCommits
<1>2. req[r].session \in A!Session /\ req[r].modified \in BOOLEAN
  BY <1>0, RequestParts
<1>3. us \in SUBSET A!User /\ manages \in SUBSET A!Ids
  BY <1>0 DEF A!TypeOK
<1>4. \A u, v \in us : u.id = v.id \/ u.name = v.name => u = v
  BY <1>0 DEF A!TypeOK
<1>5. \A u \in us : u.id + Cardinality(Busy) <= count + 1
  <2>1. count \in Nat /\ (\A u \in users : u.id \in Nat) /\ Cardinality(Busy) \in Nat
    BY <1>0, AccountsAssumption, BusyIsFinite DEF A!TypeOK, A!User, A!Ids
  <2>2. QED
    BY <1>0, <2>1 DEF RoomLeft
<1>6. ~crossed => us # {} /\ \E u \in us : u.admin
  <2>1. SUFFICES ASSUME ~crossed PROVE \E u \in us : u.admin
    OBVIOUS
  <2>2. A!MayDelete(r)
    BY <1>1, <2>1 DEF AccountsInv, ChecksHold, StillTrue
  <2>3. CASE A!IsAdmin(users, req[r].target)
    BY <2>2, <2>3 DEF A!MayDelete, A!IsAdmin
  <2>4. CASE ~A!IsAdmin(users, req[r].target)
    <3>1. users # {}
      BY <2>2 DEF A!MayDelete, A!UserIds
    <3>2. PICK u \in users : u.admin
      BY <1>0, <2>1, <3>1 DEF A!AdminRemains
    <3>3. u \in us
      BY <2>4, <3>2 DEF A!IsAdmin
    <3>4. QED
      BY <3>2, <3>3
  <2>5. QED
    BY <2>3, <2>4
<1> HIDE DEF us
<1>7. QED
  BY <1>0, <1>1, <1>2, <1>3, <1>4, <1>5, <1>6, UsersWritten DEF A!SetupOnce

\* Whoever changes a role is an administrator, and takes it from another one.
LEMMA RoleChanger ==
    ASSUME A!TypeOK, NEW r \in Slots, A!MaySetRole(r), req[r].grant # req[r].was
    PROVE  A!IsAdmin(users, A!Me(r)) /\ req[r].target # A!Me(r)
<1>1. req[r].grant \in BOOLEAN /\ req[r].was \in BOOLEAN
  BY RequestParts
<1>2. QED
  BY <1>1 DEF A!MaySetRole, A!ActorIsAdmin

LEMMA RoleCommitsKeeps ==
    ASSUME AccountsInv, NEW r \in Slots, A!RoleCommits(r)
    PROVE  AccountsInv'
<1> DEFINE change == req[r].grant # req[r].was
<1> DEFINE Turned(u) == IF u.id = req[r].target /\ change
                        THEN [u EXCEPT !.admin = req[r].grant] ELSE u
<1> DEFINE us == {Turned(u) : u \in users}
<1> DEFINE refused == ~A!MaySetRole(r) \/ (change /\ req[r].target \notin A!UserIds(users))
<1>0. /\ A!TypeOK /\ A!AdminRemains /\ A!SetupOnce /\ NoneLeft /\ RoomLeft
      /\ req[r].at = "commit" /\ req[r].op = "role"
  BY DEF AccountsInv, A!RoleCommits
<1>1. CASE refused
  BY <1>0, <1>1, TurnedDown DEF A!RoleCommits
<1>2. CASE ~refused
  <2>1. PICK granted \in BOOLEAN : A!Writes(r, us,
            IF granted THEN manages \cup {req[r].target} ELSE manages \ {req[r].target})
    BY <1>2 DEF A!RoleCommits
  <2> DEFINE ms == IF granted THEN manages \cup {req[r].target}
                   ELSE manages \ {req[r].target}
  <2>2. /\ A!Ends(r, req[r].session, req[r].modified) /\ A!Writes(r, us, ms)
        /\ UNCHANGED <<onboarded, count, setups>>
    BY <1>2, <2>1 DEF A!RoleCommits
  <2>3. /\ req[r].session \in A!Session /\ req[r].modified \in BOOLEAN
        /\ req[r].grant \in BOOLEAN /\ req[r].was \in BOOLEAN
    BY <1>0, RequestParts
  <2>4. ms \in SUBSET A!Ids
    <3>1. req[r].target \in A!Ids
      BY <1>0 DEF AccountsInv, Aims, AimOf, Busy
    <3>2. QED
      BY <1>0, <3>1 DEF A!TypeOK
  <2>5. \A u \in users : /\ Turned(u) \in A!User
                         /\ Turned(u).id = u.id /\ Turned(u).name = u.name
    BY <1>0, <2>3 DEF A!TypeOK, A!User
  <2>6. \A u \in users : /\ ~change => Turned(u) = u
                         /\ u.id # req[r].target => Turned(u) = u
    OBVIOUS
  <2> HIDE DEF Turned
  <2>7. us \in SUBSET A!User
    BY <2>5
  <2>8. \A u, v \in us : u.id = v.id \/ u.name = v.name => u = v
    BY <1>0, <2>5 DEF A!TypeOK
  <2>9. \A u \in us : u.id + Cardinality(Busy) <= count + 1
    <3>1. count \in Nat /\ (\A u \in users : u.id \in Nat) /\ Cardinality(Busy) \in Nat
      BY <1>0, AccountsAssumption, BusyIsFinite DEF A!TypeOK, A!User, A!Ids
    <3>2. \A u \in users : u.id + Cardinality(Busy) <= count + 1
      BY <1>0, <3>1 DEF RoomLeft
    <3>3. QED
      BY <2>5, <3>2
  <2>10. us = {} => users = {}
    OBVIOUS
  <2>11. ~crossed /\ us # {} => \E u \in us : u.admin
    <3>1. SUFFICES ASSUME ~crossed, users # {} PROVE \E u \in us : u.admin
      OBVIOUS
    <3>2. \E u \in users : u.admin /\ (change => u.id # req[r].target)
      <4>1. CASE change
        BY <1>0, <1>2, <4>1, RoleChanger DEF A!IsAdmin
      <4>2. CASE ~change
        BY <1>0, <3>1, <4>2 DEF A!AdminRemains
      <4>3. QED
        BY <4>1, <4>2
    <3>3. QED
      BY <2>6, <3>2
  <2> HIDE DEF us, ms
  <2>12. QED
    BY <1>0, <2>2, <2>3, <2>4, <2>7, <2>8, <2>9, <2>10, <2>11, UsersWritten
    DEF A!SetupOnce, NoneLeft
<1>3. QED
  BY <1>1, <1>2

LEMMA AccountsStep == AccountsInv /\ [A!Next]_(A!vars) => AccountsInv'
<1> SUFFICES ASSUME AccountsInv, [A!Next]_(A!vars) PROVE AccountsInv'
  OBVIOUS
<1>1. CASE UNCHANGED A!vars
  BY <1>1
  DEF A!vars, AccountsInv, A!TypeOK, RoomLeft, Busy, Aims, AimOf, ChecksHold,
      StillTrue, A!MayDelete, A!Me, HadNow, Grounds, GroundsOf, NoneLeft,
      A!AdminRemains, A!SetupOnce
<1>2. ASSUME NEW r \in Slots, NEW b \in Browsers, NEW op \in A!Ops,
             A!Arrives(r, b, op)
      PROVE  AccountsInv'
  BY <1>2, ArrivesKeeps
<1>3. ASSUME NEW r \in Slots,
             A!Logout(r) \/ A!Language(r) \/ A!Onboard(r) \/ A!LoginEnds(r)
      PROVE  AccountsInv'
  BY <1>3, QuietEndings
<1>4. ASSUME NEW r \in Slots,
             \/ A!SetupChecks(r) \/ A!LoginChecks(r) \/ A!AddChecks(r)
             \/ A!DeleteChecks(r) \/ A!RoleChecks(r)
      PROVE  AccountsInv'
  BY <1>4, ChecksKeep
<1>5. ASSUME NEW r \in Slots,
             \/ A!SetupCommits(r) \/ A!AddCommits(r)
             \/ A!DeleteCommits(r) \/ A!RoleCommits(r)
      PROVE  AccountsInv'
  BY <1>5, SetupCommitsKeeps, AddCommitsKeeps, DeleteCommitsKeeps, RoleCommitsKeeps
<1>6. QED
  BY <1>1, <1>2, <1>3, <1>4, <1>5 DEF A!Next

\* In a behaviour of all of what is stored, the accounts move or rest.
LEMMA AccountsMove == [MCNext]_all => [A!Next]_(A!vars)
BY DEF MCNext, all, accountVars, A!vars

LEMMA AccountsInvAlways == MCSpec => []AccountsInv
<1>1. MCInit => AccountsInv
  BY AccountsInvInit DEF MCInit
<1>2. AccountsInv /\ [MCNext]_all => AccountsInv'
  BY AccountsStep, AccountsMove
<1>3. QED
  BY <1>1, <1>2, PTL DEF MCSpec

\* Whatever is asked of how many accounts, and however requests overlap: the
\* accounts have names and ids of their own, one of them is an
\* administrator's unless two changes overlapped, and the set-up made one of
\* them at most (setup_submit, add_user, delete_user, access_update_user).
THEOREM AccountsCorrectAlways == MCSpec => []AccountsCorrect
<1>1. AccountsInv => AccountsCorrect
  BY DEF AccountsInv, AccountsCorrect, A!AccountsCorrect
<1>2. QED
  BY <1>1, AccountsInvAlways, PTL

-----------------------------------------------------------------------------
\* A step of one request ends no other one.
LEMMA OthersGoOn ==
    ASSUME A!TypeOK, NEW r \in Slots, NEW m, A!Goes(r, m),
           m.at # "free" \/ req[r].at = "free" \/ A!ByRight(r)
    PROVE  \A q \in Slots : A!ByRight(q)
<1>1. req'[r] = m /\ \A q \in Slots \ {r} : req'[q] = req[q]
  BY DEF A!Goes, A!TypeOK
<1>2. QED
  BY <1>1 DEF A!ByRight

LEMMA ByRightQuietly ==
    ASSUME A!TypeOK, NEW r \in Slots, NEW m, A!Goes(r, m),
           UNCHANGED <<users, onboarded>>
    PROVE  \A q \in Slots : A!ByRight(q)
<1>1. A!ByRight(r)
  BY DEF A!ByRight
<1>2. QED
  BY <1>1, OthersGoOn

LEMMA ByRightStep == AccountsInv /\ A!Next => \A q \in Slots : A!ByRight(q)
<1> SUFFICES ASSUME AccountsInv, A!Next PROVE \A q \in Slots : A!ByRight(q)
  OBVIOUS
<1>0. A!TypeOK
  BY DEF AccountsInv
<1>1. ASSUME NEW r \in Slots, NEW b \in Browsers, NEW op \in A!Ops,
             A!Arrives(r, b, op)
      PROVE  \A q \in Slots : A!ByRight(q)
  <2>1. UNCHANGED <<users, onboarded>>
    BY <1>1 DEF A!Arrives
  <2>2. QED
    BY <2>1 DEF A!ByRight
<1>2. ASSUME NEW r \in Slots, A!TurnsDown(r) PROVE \A q \in Slots : A!ByRight(q)
  BY <1>0, <1>2, ByRightQuietly DEF A!TurnsDown, A!Ends
<1>3. ASSUME NEW r \in Slots, NEW was, A!Checked(r, was)
      PROVE  \A q \in Slots : A!ByRight(q)
  BY <1>0, <1>3, ByRightQuietly DEF A!Checked
<1>4. ASSUME NEW r \in Slots, A!Logout(r) \/ A!Language(r) \/ A!LoginEnds(r)
      PROVE  \A q \in Slots : A!ByRight(q)
  BY <1>0, <1>4, ByRightQuietly DEF A!Logout, A!Language, A!LoginEnds, A!Ends
<1>5. ASSUME NEW r \in Slots, A!Onboard(r) PROVE \A q \in Slots : A!ByRight(q)
  <2>1. /\ A!Goes(r, A!Free) /\ users' = users
        /\ req[r].at = "handler" /\ req[r].op = "onboard"
        /\ onboarded' = (onboarded \/ req[r].session.admin)
    BY <1>5 DEF A!Onboard, A!Ends, A!Handles
  <2>2. req[r].session.admin => "admin" \in had[r]
    BY <2>1 DEF AccountsInv, Grounds, GroundsOf, Busy, A!Exempt
  <2>3. onboarded \in BOOLEAN /\ req[r].session.admin \in BOOLEAN
    BY <1>0, RequestParts DEF A!TypeOK
  <2>4. onboarded' # onboarded => req[r].session.admin
    BY <2>1, <2>3
  <2>5. A!ByRight(r)
    BY <2>1, <2>2, <2>4 DEF A!ByRight
  <2>6. QED
    BY <1>0, <2>1, <2>5, OthersGoOn
<1>6. ASSUME NEW r \in Slots,
             \/ A!SetupChecks(r) \/ A!LoginChecks(r) \/ A!AddChecks(r)
             \/ A!DeleteChecks(r) \/ A!RoleChecks(r)
      PROVE  \A q \in Slots : A!ByRight(q)
  BY <1>2, <1>3, <1>6
  DEF A!SetupChecks, A!LoginChecks, A!AddChecks, A!DeleteChecks, A!RoleChecks
<1>7. ASSUME NEW r \in Slots, A!SetupCommits(r) PROVE \A q \in Slots : A!ByRight(q)
  <2>1. CASE A!TurnsDown(r)
    BY <1>2, <2>1
  <2>2. CASE ~A!TurnsDown(r)
    <3>1. A!Goes(r, A!Free) /\ req[r].op = "setup" /\ onboarded' = onboarded
      BY <1>7, <2>2 DEF A!SetupCommits, A!Ends
    <3>2. QED
      BY <1>0, <3>1, OthersGoOn DEF A!ByRight
  <2>3. QED
    BY <2>1, <2>2
<1>8. ASSUME NEW r \in Slots, A!AddCommits(r) PROVE \A q \in Slots : A!ByRight(q)
  <2>1. CASE A!TurnsDown(r)
    BY <1>2, <2>1
  <2>2. CASE ~A!TurnsDown(r)
    <3>1. /\ A!Goes(r, A!Free) /\ req[r].op = "add" /\ req[r].at = "commit"
          /\ onboarded' = onboarded
          /\ users' = users \cup {[id |-> A!NewId, name |-> req[r].name,
                                   admin |-> req[r].grant]}
      BY <1>8, <2>2 DEF A!AddCommits, A!Ends, A!Writes
    <3>2. ~req[r].grant => {u \in users : u.admin} = {u \in users' : u.admin}
      BY <3>1
    <3>3. "users" \in had[r] /\ (req[r].grant => "admin" \in had[r])
      BY <3>1 DEF AccountsInv, Grounds, GroundsOf, Busy
    <3>4. QED
      BY <1>0, <3>1, <3>2, <3>3, OthersGoOn DEF A!ByRight
  <2>3. QED
    BY <2>1, <2>2
<1>9. ASSUME NEW r \in Slots, A!DeleteCommits(r) PROVE \A q \in Slots : A!ByRight(q)
  <2>1. /\ A!Goes(r, A!Free) /\ req[r].op = "delete" /\ req[r].at = "commit"
        /\ onboarded' = onboarded
    BY <1>9 DEF A!DeleteCommits, A!Ends
  <2>2. "users" \in had[r] /\ (req[r].was => "admin" \in had[r])
    BY <2>1 DEF AccountsInv, Grounds, GroundsOf, Busy
  <2>3. QED
    BY <1>0, <2>1, <2>2, OthersGoOn DEF A!ByRight
<1>10. ASSUME NEW r \in Slots, A!RoleCommits(r) PROVE \A q \in Slots : A!ByRight(q)
  <2> DEFINE change == req[r].grant # req[r].was
  <2>1. CASE A!TurnsDown(r)
    BY <1>2, <2>1
  <2>2. CASE ~A!TurnsDown(r)
    <3>1. /\ A!Goes(r, A!Free) /\ req[r].op = "role" /\ req[r].at = "commit"
          /\ onboarded' = onboarded /\ A!MaySetRole(r)
          /\ users' = {IF u.id = req[r].target /\ change
                       THEN [u EXCEPT !.admin = req[r].grant] ELSE u : u \in users}
      BY <1>10, <2>2 DEF A!RoleCommits, A!Ends, A!Writes
    <3>2. "users" \in had[r]
      BY <3>1 DEF AccountsInv, Grounds, GroundsOf, Busy
    <3>3. ~change => users' = users
      BY <3>1
    <3>4. change => "admin" \in had[r]
      <4>1. change => A!IsAdmin(users, req[r].session.user)
        BY <1>0, <3>1, RoleChanger DEF A!Me
      <4>2. A!IsAdmin(users, req[r].session.user) => "admin" \in had[r]
        BY <3>1 DEF AccountsInv, HadNow, Busy, A!RightsOf, A!Rights
      <4>3. QED
        BY <4>1, <4>2
    <3>5. QED
      BY <1>0, <3>1, <3>2, <3>3, <3>4, OthersGoOn DEF A!ByRight
  <2>3. QED
    BY <2>1, <2>2
<1>11. QED
  BY <1>1, <1>4, <1>5, <1>6, <1>7, <1>8, <1>9, <1>10 DEF A!Next

\* The cookie of one browser only is answered.
LEMMA AnsweredSignsIn ==
    ASSUME A!TypeOK, NEW r \in Slots, NEW session, NEW modified \in BOOLEAN,
           A!Ends(r, session, modified),
           session.user # A!NoOne /\ modified =>
               req[r].op \in A!Exempt \/ req[r].op = "language" \/ req[r].modified
    PROVE  \A b \in Browsers : A!SignedInBy(b)
<1>1. req'[r].at = "free"
  BY FreeIsARequest DEF A!Ends, A!Goes, A!TypeOK
<1>2. ASSUME NEW b \in Browsers, cookie'[b] # cookie[b]
      PROVE  modified /\ req[r].browser = b /\ cookie'[b] = session
  BY <1>2 DEF A!Ends, A!Answered, A!TypeOK
<1>3. QED
  BY <1>1, <1>2 DEF A!SignedInBy

LEMMA SignedInStep == AccountsInv /\ A!Next => \A b \in Browsers : A!SignedInBy(b)
<1> SUFFICES ASSUME AccountsInv, A!Next PROVE \A b \in Browsers : A!SignedInBy(b)
  OBVIOUS
<1>0. A!TypeOK /\ \A q \in Slots : req[q].modified \in BOOLEAN
  BY RequestParts DEF AccountsInv
<1>1. ASSUME NEW r \in Slots, NEW b \in Browsers, NEW op \in A!Ops,
             A!Arrives(r, b, op)
      PROVE  \A c \in Browsers : A!SignedInBy(c)
  <2> DEFINE session == A!Synced(cookie[b])
  <2>1. \/ UNCHANGED cookie
        \/ op \notin A!Exempt /\ session.user = A!NoOne
           /\ cookie' = [cookie EXCEPT ![b] = session]
    BY <1>1 DEF A!Arrives
  <2> HIDE DEF session
  <2>2. QED
    BY <1>0, <2>1 DEF A!SignedInBy, A!TypeOK
<1>2. ASSUME NEW r \in Slots, A!TurnsDown(r) PROVE \A b \in Browsers : A!SignedInBy(b)
  BY <1>0, <1>2, AnsweredSignsIn DEF A!TurnsDown
<1>3. ASSUME NEW r \in Slots, NEW was, A!Checked(r, was)
      PROVE  \A b \in Browsers : A!SignedInBy(b)
  BY <1>3 DEF A!Checked, A!SignedInBy
<1>4. ASSUME NEW r \in Slots, A!Logout(r) PROVE \A b \in Browsers : A!SignedInBy(b)
  <2>1. A!Ends(r, A!SignedOut, TRUE) /\ A!SignedOut.user = A!NoOne
    BY <1>4 DEF A!Logout, A!SignedOut
  <2>2. TRUE \in BOOLEAN
    OBVIOUS
  <2>3. QED
    BY <1>0, <2>1, <2>2, AnsweredSignsIn
<1>5. ASSUME NEW r \in Slots, A!Language(r) PROVE \A b \in Browsers : A!SignedInBy(b)
  <2>1. PICK changed \in BOOLEAN :
            A!Ends(r, req[r].session, req[r].modified \/ changed)
    BY <1>5 DEF A!Language
  <2>2. req[r].op = "language" /\ (req[r].modified \/ changed) \in BOOLEAN
    BY <1>5 DEF A!Language, A!Handles
  <2>3. QED
    BY <1>0, <2>1, <2>2, AnsweredSignsIn
<1>6. ASSUME NEW r \in Slots,
             A!Onboard(r) \/ A!DeleteCommits(r) \/ A!AddCommits(r) \/ A!RoleCommits(r)
      PROVE  \A b \in Browsers : A!SignedInBy(b)
  <2>1. A!Ends(r, req[r].session, req[r].modified) \/ A!TurnsDown(r)
    BY <1>6 DEF A!Onboard, A!DeleteCommits, A!AddCommits, A!RoleCommits
  <2>2. QED
    BY <1>0, <1>2, <2>1, AnsweredSignsIn
<1>7. ASSUME NEW r \in Slots, A!SetupCommits(r) \/ A!LoginEnds(r)
      PROVE  \A b \in Browsers : A!SignedInBy(b)
  <2>1. \/ A!TurnsDown(r)
        \/ \E session : A!Ends(r, session, TRUE)
    BY <1>7 DEF A!SetupCommits, A!LoginEnds
  <2>2. req[r].op \in A!Exempt /\ TRUE \in BOOLEAN
    BY <1>7 DEF A!SetupCommits, A!LoginEnds, A!Exempt
  <2>3. QED
    BY <1>0, <1>2, <2>1, <2>2, AnsweredSignsIn
<1>8. ASSUME NEW r \in Slots,
             \/ A!SetupChecks(r) \/ A!LoginChecks(r) \/ A!AddChecks(r)
             \/ A!DeleteChecks(r) \/ A!RoleChecks(r)
      PROVE  \A b \in Browsers : A!SignedInBy(b)
  BY <1>2, <1>3, <1>8
  DEF A!SetupChecks, A!LoginChecks, A!AddChecks, A!DeleteChecks, A!RoleChecks
<1>9. QED
  BY <1>1, <1>4, <1>5, <1>6, <1>7, <1>8 DEF A!Next

\* Accounts are changed, and the set-up is completed, within the rights an
\* account had while its request ran, and a browser that was signed out stays
\* so, however many requests of how many browsers overlap
\* (PermissionGuardV23Middleware, LoginRequiredMiddleware,
\* RememberMeSessionMiddleware).
THEOREM RightsCurrentAlways == MCSpec => RightsCurrent
<1>1. ASSUME AccountsInv, [A!Next]_(A!vars)
      PROVE  /\ [\A r \in Slots : A!ByRight(r)]_(A!vars)
             /\ [\A b \in Browsers : A!SignedInBy(b)]_(A!vars)
  BY <1>1, ByRightStep, SignedInStep
<1>2. QED
  BY <1>1, AccountsInvAlways, AccountsMove, PTL
  DEF MCSpec, RightsCurrent, A!RightsCurrent, A!NoStaleRights, A!SignedOutStays

-----------------------------------------------------------------------------
(* Settings.                                                               *)

\* Pages that are being saved and settings that are being reset.
AtWork == {r \in Slots : form[r].at # "free"}

\* A key whose row or value in memory is about to be written.
UnderWay(r) == form[r].at \in {"commit", "memory"}

HasKey == \A r \in AtWork : Len(form[r].form) >= 1

\* No request outlives the server.
DownIdle == ~up => AtWork = {}

\* A row holds what can be taken, and so does a form that is being written.
RowsValid == \A k \in Keys : rows[k] # S!None => S!Coerce(rows[k]) # Bad

FormsValid ==
    \A r \in Slots : UnderWay(r) /\ form[r].op = "save" => S!Coerce(S!Raw(r)) # Bad

\* A key whose last changes did not overlap is changed by one request.
Alone ==
    \A r, q \in Slots : UnderWay(r) /\ UnderWay(q) /\ S!Key(r) = S!Key(q) =>
                          r = q \/ S!Key(r) \in overlapped

Agrees(k) == memory[k] = S!Loaded(rows)[k] /\ memory[k] # env[k]

\* A key nobody changes is in memory what it is in the database, also while
\* the server is down.
Agree ==
    up \/ boots > 0 =>
        \A k \in Keys \ overlapped : ~S!Changing(k) => Agrees(k)

\* Between the load and the write of its row a key is as if nobody changed
\* it, and the row that was loaded is there; after the write the row is what
\* the memory will be.
HalfDone ==
    \A r \in Slots : UnderWay(r) /\ S!Key(r) \notin overlapped =>
        /\ form[r].at = "commit" =>
               Agrees(S!Key(r)) /\ form[r].row = (rows[S!Key(r)] # S!None)
        /\ form[r].at = "memory" =>
               rows[S!Key(r)] = IF S!IsReset(r) THEN S!None ELSE S!Raw(r)

SettingsInv ==
    /\ S!TypeOK /\ HasKey /\ DownIdle /\ RowsValid /\ FormsValid
    /\ Alone /\ Agree /\ HalfDone

LEMMA SameCardinality == S!Cardinality(Keys) = Cardinality(Keys)
BY DEF S!Cardinality, Cardinality

LEMMA KeysAreCounted == Cardinality(Keys) \in Nat /\ Cardinality(Keys) >= 1
BY SettingsAssumption, FS_CardinalityType, FS_EmptySet

\* The forms a request may hold are the sequences that are no longer than a
\* page.
LEMMA FormsAreSequences ==
    ASSUME NEW f
    PROVE  f \in S!Forms <=> f \in Seq(Keys \X Raws) /\ Len(f) <= Cardinality(Keys)
<1>1. ASSUME f \in S!Forms PROVE f \in Seq(Keys \X Raws) /\ Len(f) <= Cardinality(Keys)
  <2>1. PICK n \in 0..Cardinality(Keys) : f \in [1..n -> Keys \X Raws]
    BY <1>1, SameCardinality DEF S!Forms
  <2>2. n \in Nat
    BY KeysAreCounted
  <2>3. f \in Seq(Keys \X Raws)
    BY <2>1, <2>2, SeqDef
  <2>4. Len(f) = n
    BY <2>1, <2>2, <2>3, LenProperties
  <2>5. QED
    BY <2>1, <2>3, <2>4, KeysAreCounted
<1>2. ASSUME f \in Seq(Keys \X Raws), Len(f) <= Cardinality(Keys) PROVE f \in S!Forms
  <2>1. f \in [1..Len(f) -> Keys \X Raws] /\ Len(f) \in 0..Cardinality(Keys)
    BY <1>2, LenProperties, KeysAreCounted
  <2>2. QED
    BY <2>1, SameCardinality DEF S!Forms
<1>3. QED
  BY <1>1, <1>2

LEMMA FormParts ==
    ASSUME S!TypeOK, NEW r \in Slots
    PROVE  /\ form[r] \in S!Request
           /\ form[r].op \in {"save", "reset"} /\ form[r].row \in BOOLEAN
           /\ form[r].at \in {"free", "look", "commit", "memory"}
           /\ form[r].form \in S!Forms
BY DEF S!TypeOK, S!Request, S!Ops

\* The key and what is sent for it.
LEMMA FirstOfForm ==
    ASSUME S!TypeOK, NEW r \in Slots, Len(form[r].form) >= 1
    PROVE  S!Key(r) \in Keys /\ S!Raw(r) \in Raws
<1>1. form[r].form \in Seq(Keys \X Raws)
  BY FormParts, FormsAreSequences
<1>2. form[r].form[1] \in Keys \X Raws
  BY <1>1, LenProperties
<1>3. QED
  BY <1>2 DEF S!Key, S!Raw

LEMMA FreeForm ==
    /\ S!Free \in S!Request /\ S!Free.at = "free" /\ S!Free.op = "reset"
    /\ S!Free.row = FALSE /\ S!Free.form = <<>>
<1>1. <<>> \in Seq(Keys \X Raws) /\ Len(<<>>) = 0 /\ 0 <= Cardinality(Keys)
  BY EmptySeq, KeysAreCounted
<1>2. <<>> \in S!Forms
  <2> DEFINE f == <<>>
  <2>1. f \in Seq(Keys \X Raws) /\ Len(f) <= Cardinality(Keys)
    BY <1>1
  <2> HIDE DEF f
  <2>2. f \in S!Forms
    BY <2>1, FormsAreSequences
  <2>3. QED
    BY <2>2 DEF f
<1>3. QED
  BY <1>2 DEF S!Free, S!Request, S!Ops

\* A request that is done with a key has another one to look at, or is
\* answered.
LEMMA DoneIsARequest ==
    ASSUME SettingsInv, NEW r \in AtWork
    PROVE  /\ S!Done(r) \in S!Request
           /\ S!Done(r) = S!Free
              \/ (/\ S!Done(r).at = "look" /\ S!Done(r).op = form[r].op
                  /\ Len(S!Done(r).form) >= 1)
<1> DEFINE f == form[r].form
<1>1. r \in Slots /\ S!TypeOK
  BY DEF AtWork, SettingsInv
<1>2. f \in Seq(Keys \X Raws) /\ Len(f) <= Cardinality(Keys) /\ Len(f) >= 1
  BY <1>1, FormParts, FormsAreSequences DEF SettingsInv, HasKey
<1>3. /\ Tail(f) \in Seq(Keys \X Raws) /\ Len(Tail(f)) = Len(f) - 1
      /\ Tail(f) # <<>> => Len(Tail(f)) >= 1
  <2>1. f # <<>>
    BY <1>2, EmptySeq
  <2>2. Tail(f) \in Seq(Keys \X Raws) /\ Len(Tail(f)) = Len(f) - 1
    BY <1>2, <2>1, HeadTailProperties
  <2>3. QED
    BY <2>2, EmptySeq, LenProperties
<1>4. Tail(f) \in S!Forms
  <2>1. Len(f) \in Nat
    BY <1>2, LenProperties
  <2>2. Len(Tail(f)) <= Cardinality(Keys)
    BY <1>2, <1>3, <2>1, KeysAreCounted
  <2> HIDE DEF f
  <2>3. QED
    BY <1>3, <2>2, FormsAreSequences
<1>5. CASE Tail(f) = <<>>
  BY <1>5, FreeForm DEF S!Done
<1>6. CASE Tail(f) # <<>>
  <2>1. S!Done(r) = [form[r] EXCEPT !.at = "look", !.form = Tail(f), !.row = FALSE]
    BY <1>6 DEF S!Done
  <2>2. form[r] \in S!Request
    BY <1>1, FormParts
  <2> HIDE DEF f
  <2>3. QED
    BY <1>3, <1>4, <1>6, <2>1, <2>2 DEF S!Request
<1>7. QED
  BY <1>5, <1>6

\* A step of one request.
LEMMA RequestGoes ==
    ASSUME S!TypeOK, NEW r \in Slots, NEW m \in S!Request, S!Goes(r, m)
    PROVE  /\ form' \in [Slots -> S!Request] /\ form'[r] = m
           /\ \A q \in Slots \ {r} : form'[q] = form[q]
BY DEF S!TypeOK, S!Goes

LEMMA SettingsTypes ==
    ASSUME S!TypeOK, NEW r \in Slots, NEW m \in S!Request, S!Goes(r, m),
           m.at # "free" /\ m.op = "save" =>
               \/ form[r].at # "free" /\ form[r].op = "save"
               \/ \A q \in Slots : form[q].at # "free" => form[q].op # "save",
           UNCHANGED <<env, up, boots>>,
           rows' \in [Keys -> Raws \cup {S!None}],
           memory' \in [Keys -> Values \cup {S!None}],
           forms' \in 0..MaxForms, overlapped' \subseteq Keys
    PROVE  S!TypeOK'
<1>1. /\ form' \in [Slots -> S!Request] /\ form'[r] = m
      /\ \A q \in Slots \ {r} : form'[q] = form[q]
  BY RequestGoes
<1>2. \A p, q \in Slots :
          (form'[p].at # "free" /\ form'[q].at # "free"
               /\ form'[p].op = "save" /\ form'[q].op = "save") => p = q
  BY <1>1 DEF S!TypeOK
<1>3. QED
  BY <1>1, <1>2 DEF S!TypeOK

\* A request that is not under way before nor after.
LEMMA LooksOn ==
    ASSUME SettingsInv, NEW r \in Slots, NEW m \in S!Request, S!Goes(r, m),
           ~UnderWay(r), m.at \in {"free", "look"},
           m.at # "free" => up /\ Len(m.form) >= 1,
           m.at # "free" /\ m.op = "save" =>
               \/ form[r].at # "free" /\ form[r].op = "save"
               \/ \A q \in Slots : form[q].at # "free" => form[q].op # "save",
           forms' \in 0..MaxForms,
           UNCHANGED <<env, rows, memory, up, boots, overlapped>>
    PROVE  SettingsInv'
<1>0. /\ S!TypeOK /\ HasKey /\ DownIdle /\ RowsValid /\ FormsValid
      /\ Alone /\ Agree /\ HalfDone
  BY DEF SettingsInv
<1>1. /\ form' \in [Slots -> S!Request] /\ form'[r] = m
      /\ \A q \in Slots \ {r} : form'[q] = form[q]
  BY <1>0, RequestGoes
<1>2. \A q \in Slots : /\ UnderWay(q)' <=> UnderWay(q)
                       /\ UnderWay(q) => form'[q] = form[q]
  BY <1>1 DEF UnderWay
<1>3. \A q \in Slots : UnderWay(q) => /\ S!Key(q)' = S!Key(q) /\ S!Raw(q)' = S!Raw(q)
                                      /\ S!IsReset(q)' = S!IsReset(q)
  BY <1>2 DEF S!Key, S!Raw, S!IsReset
<1>4. S!TypeOK'
  BY <1>0, SettingsTypes DEF S!TypeOK
<1>5. HasKey' /\ DownIdle'
  BY <1>0, <1>1 DEF HasKey, DownIdle, AtWork
<1>6. RowsValid' /\ FormsValid'
  BY <1>0, <1>2, <1>3 DEF RowsValid, FormsValid
<1>7. Alone'
  BY <1>0, <1>2, <1>3 DEF Alone
<1>8. \A k : S!Changing(k)' <=> S!Changing(k)
  BY <1>2, <1>3 DEF S!Changing, UnderWay
<1>9. \A k : Agrees(k)' <=> Agrees(k)
  BY DEF Agrees, S!Loaded
<1>10. Agree'
  BY <1>0, <1>8, <1>9 DEF Agree
<1>11. HalfDone'
  <2>1. ASSUME NEW q \in Slots, UnderWay(q)', S!Key(q)' \notin overlapped'
        PROVE  /\ UnderWay(q) /\ S!Key(q) \notin overlapped /\ form'[q] = form[q]
               /\ S!Key(q)' = S!Key(q) /\ S!Raw(q)' = S!Raw(q)
               /\ S!IsReset(q)' = S!IsReset(q)
    BY <1>2, <1>3, <2>1
  <2>2. QED
    BY <1>0, <1>9, <2>1 DEF HalfDone, Agrees, S!Loaded
<1>12. QED
  BY <1>4, <1>5, <1>6, <1>7, <1>10, <1>11 DEF SettingsInv

LEMMA SavesKeeps ==
    ASSUME SettingsInv, NEW r \in Slots, S!Saves(r)
    PROVE  SettingsInv'
<1>0. S!TypeOK
  BY DEF SettingsInv
<1>1. PICK sent \in [Keys -> Raws], order \in [1..S!Cardinality(Keys) -> Keys] :
          S!Goes(r, [S!Free EXCEPT !.op = "save", !.at = "look",
                        !.form = [i \in DOMAIN order |-> <<order[i], sent[order[i]]>>]])
  BY DEF S!Saves
<1> DEFINE page == [i \in DOMAIN order |-> <<order[i], sent[order[i]]>>]
<1> DEFINE m == [S!Free EXCEPT !.op = "save", !.at = "look", !.form = page]
<1>2. page \in [1..Cardinality(Keys) -> Keys \X Raws]
  BY SameCardinality
<1>3. page \in Seq(Keys \X Raws) /\ Len(page) = Cardinality(Keys)
  <2> HIDE DEF page
  <2>1. page \in Seq(Keys \X Raws)
    BY <1>2, SeqDef, KeysAreCounted
  <2>2. QED
    BY <1>2, <2>1, LenProperties, KeysAreCounted
<1>4. page \in S!Forms /\ Len(page) >= 1
  <2> HIDE DEF page
  <2>1. Len(page) <= Cardinality(Keys)
    BY <1>3, KeysAreCounted
  <2>2. QED
    BY <1>3, <2>1, FormsAreSequences, KeysAreCounted
<1> HIDE DEF page
<1>5. m \in S!Request /\ m.at = "look" /\ m.op = "save" /\ m.form = page
  BY <1>4, FreeForm DEF S!Request, S!Ops
<1>6. /\ up /\ form[r].at = "free" /\ forms < MaxForms /\ forms' = forms + 1
      /\ \A q \in Slots : form[q].at # "free" => form[q].op # "save"
      /\ UNCHANGED <<env, rows, memory, up, boots, overlapped>>
  BY DEF S!Saves
<1>7. forms' \in 0..MaxForms
  BY <1>0, <1>6, SettingsAssumption DEF S!TypeOK
<1>8. S!Goes(r, m)
  BY <1>1 DEF page
<1> HIDE DEF m
<1>9. QED
  BY <1>4, <1>5, <1>6, <1>7, <1>8, LooksOn DEF UnderWay

LEMMA ResetsKeeps ==
    ASSUME SettingsInv, NEW r \in Slots, S!Resets(r)
    PROVE  SettingsInv'
<1>0. S!TypeOK
  BY DEF SettingsInv
<1>1. PICK k \in Keys :
          S!Goes(r, [S!Free EXCEPT !.op = "reset", !.at = "look",
                                   !.form = <<<<k, env[k]>>>>])
  BY DEF S!Resets
<1> DEFINE page == <<<<k, env[k]>>>>
<1> DEFINE m == [S!Free EXCEPT !.op = "reset", !.at = "look", !.form = page]
<1>2. page \in Seq(Keys \X Raws) /\ Len(page) = 1
  <2>1. <<k, env[k]>> \in Keys \X Raws
    BY <1>0, SettingsAssumption DEF S!TypeOK
  <2>2. QED
    BY <2>1
<1> HIDE DEF page
<1>3. page \in S!Forms
  <2>1. Len(page) <= Cardinality(Keys)
    BY <1>2, KeysAreCounted
  <2>2. QED
    BY <1>2, <2>1, FormsAreSequences
<1>5. m \in S!Request /\ m.at = "look" /\ m.op = "reset" /\ m.form = page
  BY <1>3, FreeForm DEF S!Request, S!Ops
<1>6. /\ up /\ form[r].at = "free" /\ forms < MaxForms /\ forms' = forms + 1
      /\ UNCHANGED <<env, rows, memory, up, boots, overlapped>>
  BY DEF S!Resets
<1>7. forms' \in 0..MaxForms
  BY <1>0, <1>6, SettingsAssumption DEF S!TypeOK
<1>8. S!Goes(r, m)
  BY <1>1 DEF page
<1> HIDE DEF m
<1>9. Len(m.form) >= 1
  BY <1>2, <1>5
<1>10. QED
  BY <1>5, <1>6, <1>7, <1>8, <1>9, LooksOn DEF UnderWay

LEMMA LookKeeps ==
    ASSUME SettingsInv, NEW r \in Slots, S!Look(r)
    PROVE  SettingsInv'
<1>0. /\ S!TypeOK /\ HasKey /\ DownIdle /\ RowsValid /\ FormsValid
      /\ Alone /\ Agree /\ HalfDone
  BY DEF SettingsInv
<1> DEFINE k == S!Key(r)
<1> DEFINE skip == form[r].op = "save" /\ (\/ S!Raw(r) = S!Effective(memory, env, k)
                                          \/ S!Coerce(S!Raw(r)) = Bad)
<1>1. /\ form[r].at = "look" /\ r \in AtWork /\ up /\ Len(form[r].form) >= 1
      /\ UNCHANGED <<env, rows, memory, up, forms, boots>>
  BY <1>0 DEF S!Look, AtWork, DownIdle, HasKey
<1>2. CASE skip
  <2>1. S!Goes(r, S!Done(r)) /\ UNCHANGED overlapped
    BY <1>2 DEF S!Look
  <2>2. /\ S!Done(r) \in S!Request /\ S!Done(r).at \in {"free", "look"}
        /\ S!Done(r).at # "free" => /\ S!Done(r).op = form[r].op
                                    /\ Len(S!Done(r).form) >= 1
    BY <1>1, DoneIsARequest, FreeForm
  <2>3. forms' \in 0..MaxForms
    BY <1>0, <1>1 DEF S!TypeOK
  <2>4. QED
    BY <1>1, <2>1, <2>2, <2>3, LooksOn DEF UnderWay
<1>3. CASE ~skip
  <2> DEFINE m == [form[r] EXCEPT !.at = "commit", !.row = (rows[k] # S!None)]
  <2>1. S!Goes(r, m)
    BY <1>3 DEF S!Look
  <2>2. overlapped' = IF \E q \in Slots \ {r} : UnderWay(q) /\ S!Key(q) = k
                      THEN overlapped \cup {k} ELSE overlapped
    BY <1>3 DEF S!Look, UnderWay
  <2>3. /\ m \in S!Request /\ m.at = "commit" /\ m.op = form[r].op
        /\ m.form = form[r].form /\ m.row = (rows[k] # S!None)
    BY <1>0, FormParts DEF S!Request
  <2> HIDE DEF m
  <2>4. k \in Keys /\ S!Raw(r) \in Raws
    BY <1>0, <1>1, FirstOfForm
  <2>5. /\ form'[r] = m /\ (\A q \in Slots \ {r} : form'[q] = form[q])
    BY <1>0, <2>1, <2>3, RequestGoes
  <2>6. /\ \A q \in Slots : S!Key(q)' = S!Key(q) /\ S!Raw(q)' = S!Raw(q)
        /\ \A q \in Slots \ {r} : UnderWay(q)' <=> UnderWay(q)
        /\ UnderWay(r)' /\ ~UnderWay(r)
    BY <1>1, <2>3, <2>5 DEF S!Key, S!Raw, UnderWay
  <2>7. \A q \in Slots : S!IsReset(q)' = S!IsReset(q)
    BY <1>1, <2>3, <2>5, <2>6 DEF S!IsReset, S!Coerce
  <2>8. S!TypeOK'
    BY <1>0, <1>1, <2>1, <2>2, <2>3, <2>4, SettingsTypes DEF S!TypeOK
  <2>9. HasKey' /\ DownIdle'
    BY <1>0, <1>1, <2>3, <2>5 DEF HasKey, DownIdle, AtWork
  <2>10. RowsValid' /\ FormsValid'
    BY <1>0, <1>1, <1>3, <2>3, <2>5, <2>6 DEF RowsValid, FormsValid, S!Coerce
  <2>11. Alone'
    BY <1>0, <2>2, <2>6 DEF Alone
  <2>12. \A x : Agrees(x)' <=> Agrees(x)
    BY <1>1 DEF Agrees, S!Loaded, S!Coerce
  <2>13. ASSUME NEW x, S!Changing(x) PROVE S!Changing(x)'
    BY <2>6, <2>13 DEF S!Changing, UnderWay
  <2>14. /\ overlapped \subseteq overlapped'
         /\ S!Changing(k) => k \in overlapped'
    <3>1. ASSUME S!Changing(k) PROVE \E q \in Slots \ {r} : UnderWay(q) /\ S!Key(q) = k
      BY <2>6, <3>1 DEF S!Changing, UnderWay
    <3> HIDE DEF k
    <3>2. QED
      BY <2>2, <3>1
  <2>15. Agree'
    <3>1. ASSUME NEW x \in Keys, x \notin overlapped', ~(S!Changing(x)')
          PROVE  x \notin overlapped /\ ~S!Changing(x)
      BY <2>13, <2>14, <3>1
    <3>2. QED
      BY <1>0, <1>1, <2>12, <3>1 DEF Agree
  <2>16. HalfDone'
    <3>1. ASSUME NEW q \in Slots \ {r}, UnderWay(q)', S!Key(q)' \notin overlapped'
          PROVE  /\ UnderWay(q) /\ S!Key(q) \notin overlapped /\ form'[q] = form[q]
                 /\ S!Key(q)' = S!Key(q) /\ S!Raw(q)' = S!Raw(q)
                 /\ S!IsReset(q)' = S!IsReset(q)
      BY <2>2, <2>5, <2>6, <2>7, <3>1
    <3>2. k \notin overlapped' => Agrees(k)
      <4>1. k \notin overlapped' => k \notin overlapped /\ ~S!Changing(k)
        BY <2>14
      <4>2. QED
        BY <1>0, <1>1, <2>4, <4>1 DEF Agree
    <3>3. form'[r].at = "commit" /\ form'[r].row = (rows'[k] # S!None) /\ S!Key(r)' = k
      BY <1>1, <2>3, <2>5, <2>6
    <3> HIDE DEF k
    <3>4. QED
      BY <1>0, <1>1, <2>12, <3>1, <3>2, <3>3 DEF HalfDone
  <2>17. QED
    BY <2>8, <2>9, <2>10, <2>11, <2>15, <2>16 DEF SettingsInv
<1>4. QED
  BY <1>2, <1>3

\* A reset takes the row away, whether it was there or not.
LEMMA RowAfterCommit ==
    ASSUME SettingsInv, NEW r \in Slots, form[r].at = "commit"
    PROVE  /\ S!Key(r) \in Keys /\ S!Raw(r) \in Raws
           /\ S!RowAfter(r) \in Raws \cup {S!None}
           /\ S!RowAfter(r) # S!None => S!Coerce(S!RowAfter(r)) # Bad
           /\ S!Key(r) \notin overlapped =>
                  S!RowAfter(r) = IF S!IsReset(r) THEN S!None ELSE S!Raw(r)
<1> DEFINE k == S!Key(r)
<1>0. S!TypeOK /\ r \in AtWork /\ Len(form[r].form) >= 1 /\ UnderWay(r)
  BY DEF SettingsInv, HasKey, AtWork, UnderWay
<1>1. k \in Keys /\ S!Raw(r) \in Raws
  BY <1>0, FirstOfForm
<1>2. ~S!IsReset(r) => S!Coerce(S!Raw(r)) # Bad
  <2>1. ~S!IsReset(r) => form[r].op = "save"
    BY <1>0, FormParts DEF S!IsReset
  <2>2. QED
    BY <1>0, <2>1 DEF SettingsInv, FormsValid
<1>3. k \notin overlapped => form[r].row = (rows[k] # S!None)
  BY <1>0 DEF SettingsInv, HalfDone
<1>4. rows[k] \in Raws \cup {S!None} /\ (rows[k] # S!None => S!Coerce(rows[k]) # Bad)
  BY <1>0, <1>1 DEF SettingsInv, RowsValid, S!TypeOK
<1> HIDE DEF k
<1>5. S!RowAfter(r) = IF S!IsReset(r) THEN IF form[r].row THEN S!None ELSE rows[k]
                      ELSE S!Raw(r)
  BY DEF S!RowAfter, k
<1>6. QED
  BY <1>1, <1>2, <1>3, <1>4, <1>5 DEF k

\* The value a row or a form stands for.
LEMMA Coerced ==
    ASSUME NEW x \in Raws, S!Coerce(x) # Bad
    PROVE  S!Coerce(x) \in Values /\ S!Coerce(x) # S!None
BY SettingsAssumption DEF S!Coerce

LEMMA CommitKeeps ==
    ASSUME SettingsInv, NEW r \in Slots, S!Commit(r)
    PROVE  SettingsInv'
<1> DEFINE k == S!Key(r)
<1> DEFINE gone == ~S!IsReset(r) /\ form[r].row /\ rows[k] = S!None
<1>0. /\ S!TypeOK /\ HasKey /\ DownIdle /\ RowsValid /\ FormsValid
      /\ Alone /\ Agree /\ HalfDone
  BY DEF SettingsInv
<1>1. /\ form[r].at = "commit" /\ r \in AtWork /\ up /\ UnderWay(r)
      /\ Len(form[r].form) >= 1
      /\ UNCHANGED <<env, memory, up, forms, boots, overlapped>>
  BY <1>0 DEF S!Commit, AtWork, DownIdle, UnderWay, HasKey
<1>2. PICK m \in S!Request :
          /\ S!Goes(r, m)
          /\ m.at # "free" => m = [form[r] EXCEPT !.at = "memory"]
          /\ m.at \in {"free", "memory"}
          /\ m.at = "free" => UNCHANGED rows /\ k \in overlapped
          /\ m.at = "memory" => rows' = [rows EXCEPT ![k] = S!RowAfter(r)]
  <2>1. CASE gone
    <3>1. k \in overlapped
      BY <1>0, <1>1, <2>1, FormParts DEF HalfDone
    <3>2. S!Goes(r, S!Free) /\ UNCHANGED rows
      BY <2>1 DEF S!Commit
    <3>3. QED
      BY <3>1, <3>2, FreeForm
  <2>2. CASE ~gone
    <3> DEFINE m == [form[r] EXCEPT !.at = "memory"]
    <3>1. S!Goes(r, m) /\ rows' = [rows EXCEPT ![k] = S!RowAfter(r)]
      BY <2>2 DEF S!Commit
    <3>2. m \in S!Request /\ m.at = "memory"
      BY <1>0, FormParts DEF S!Request
    <3>3. QED
      BY <3>1, <3>2
  <2>3. QED
    BY <2>1, <2>2
<1>3. /\ k \in Keys /\ S!Raw(r) \in Raws
      /\ S!RowAfter(r) \in Raws \cup {S!None}
      /\ S!RowAfter(r) # S!None => S!Coerce(S!RowAfter(r)) # Bad
      /\ k \notin overlapped =>
             S!RowAfter(r) = IF S!IsReset(r) THEN S!None ELSE S!Raw(r)
  BY <1>1, RowAfterCommit
<1>4. /\ form'[r] = m /\ (\A q \in Slots \ {r} : form'[q] = form[q])
      /\ form[r] \in S!Request
  BY <1>0, <1>2, RequestGoes, FormParts
<1>5. m.at = "memory" => m.op = form[r].op /\ m.form = form[r].form
  BY <1>2, <1>4 DEF S!Request
<1>6. \A q \in Slots :
          /\ UnderWay(q)' => UnderWay(q) /\ form'[q].op = form[q].op
          /\ UnderWay(q)' => S!Key(q)' = S!Key(q) /\ S!Raw(q)' = S!Raw(q)
  BY <1>1, <1>2, <1>4, <1>5 DEF UnderWay, S!Key, S!Raw
<1>7. \A q \in Slots : UnderWay(q)' => S!IsReset(q)' = S!IsReset(q)
  BY <1>1, <1>6 DEF S!IsReset, S!Coerce
<1>8. /\ rows' \in [Keys -> Raws \cup {S!None}]
      /\ \A x \in Keys : x # k => rows'[x] = rows[x]
      /\ \A x \in Keys : rows'[x] # S!None => S!Coerce(rows'[x]) # Bad
  BY <1>0, <1>2, <1>3 DEF S!TypeOK, RowsValid
<1>9. S!TypeOK'
  BY <1>0, <1>1, <1>2, <1>5, <1>8, SettingsTypes DEF S!TypeOK
<1>10. HasKey' /\ DownIdle'
  BY <1>0, <1>1, <1>2, <1>4, <1>5 DEF HasKey, DownIdle, AtWork
<1>11. RowsValid' /\ FormsValid'
  BY <1>0, <1>6, <1>8 DEF RowsValid, FormsValid, S!Coerce
<1>12. Alone'
  BY <1>0, <1>1, <1>6 DEF Alone
<1>13. ASSUME NEW x \in Keys, x # k PROVE Agrees(x)' <=> Agrees(x)
  BY <1>1, <1>8, <1>13 DEF Agrees, S!Loaded, S!Coerce
<1>14. Agree'
  <2>1. ASSUME NEW x \in Keys, x \notin overlapped, ~(S!Changing(x)') PROVE Agrees(x)'
    <3>1. x # k
      <4>1. k \notin overlapped => m.at = "memory"
        BY <1>2
      <4>2. m.at = "memory" => form'[r].at = "memory" /\ S!Key(r)' = k
        BY <1>4, <1>5 DEF S!Key
      <4>3. QED
        BY <2>1, <4>1, <4>2 DEF S!Changing
    <3>2. ~S!Changing(x)
      <4>1. ASSUME NEW q \in Slots, UnderWay(q), S!Key(q) = x PROVE FALSE
        BY <1>4, <2>1, <3>1, <4>1 DEF S!Changing, UnderWay, S!Key
      <4>2. QED
        BY <4>1 DEF S!Changing, UnderWay
    <3>3. QED
      BY <1>0, <1>1, <1>13, <2>1, <3>1, <3>2 DEF Agree
  <2>2. QED
    BY <1>1, <2>1 DEF Agree
<1>15. HalfDone'
  <2>1. ASSUME NEW q \in Slots, UnderWay(q)', S!Key(q)' \notin overlapped', q # r
        PROVE  /\ UnderWay(q) /\ S!Key(q) \notin overlapped /\ form'[q] = form[q]
               /\ S!Key(q)' = S!Key(q) /\ S!Raw(q)' = S!Raw(q)
               /\ S!IsReset(q)' = S!IsReset(q)
               /\ S!Key(q) # k /\ S!Key(q) \in Keys
    <3>1. /\ UnderWay(q) /\ S!Key(q) \notin overlapped /\ form'[q] = form[q]
          /\ S!Key(q)' = S!Key(q) /\ S!Raw(q)' = S!Raw(q)
          /\ S!IsReset(q)' = S!IsReset(q)
      BY <1>1, <1>4, <1>6, <1>7, <2>1
    <3>2. S!Key(q) # k
      BY <1>0, <1>1, <2>1, <3>1 DEF Alone
    <3>3. Len(form[q].form) >= 1
      BY <1>0, <3>1 DEF HasKey, AtWork, UnderWay
    <3>4. QED
      BY <1>0, <3>1, <3>2, <3>3, FirstOfForm
  <2>2. ASSUME UnderWay(r)', S!Key(r)' \notin overlapped'
        PROVE  /\ form'[r].at = "memory"
               /\ rows'[S!Key(r)'] = IF S!IsReset(r)' THEN S!None ELSE S!Raw(r)'
    <3>1. m.at = "memory"
      BY <1>2, <1>4, <2>2 DEF UnderWay
    <3>2. S!Key(r)' = k /\ S!Raw(r)' = S!Raw(r) /\ S!IsReset(r)' = S!IsReset(r)
      BY <1>6, <1>7, <2>2
    <3>3. k \notin overlapped
      BY <1>1, <2>2, <3>2
    <3>4. rows'[k] = S!RowAfter(r)
      BY <1>0, <1>2, <1>3, <3>1 DEF S!TypeOK
    <3>5. QED
      BY <1>3, <1>4, <3>1, <3>2, <3>3, <3>4
  <2>3. ASSUME NEW q \in Slots, UnderWay(q)', S!Key(q)' \notin overlapped', q # r
        PROVE  /\ form'[q].at = "commit" =>
                      Agrees(S!Key(q))' /\ form'[q].row = (rows'[S!Key(q)'] # S!None)
               /\ form'[q].at = "memory" =>
                      rows'[S!Key(q)'] = IF S!IsReset(q)' THEN S!None ELSE S!Raw(q)'
    <3>1. /\ UnderWay(q) /\ S!Key(q) \notin overlapped /\ form'[q] = form[q]
          /\ S!Key(q)' = S!Key(q) /\ S!Raw(q)' = S!Raw(q)
          /\ S!IsReset(q)' = S!IsReset(q)
          /\ S!Key(q) # k /\ S!Key(q) \in Keys
      BY <2>1, <2>3
    <3>2. rows'[S!Key(q)] = rows[S!Key(q)]
      BY <1>8, <3>1
    <3>3. /\ form[q].at = "commit" =>
                 Agrees(S!Key(q)) /\ form[q].row = (rows[S!Key(q)] # S!None)
          /\ form[q].at = "memory" =>
                 rows[S!Key(q)] = IF S!IsReset(q) THEN S!None ELSE S!Raw(q)
      BY <1>0, <3>1 DEF HalfDone
    <3>4. Agrees(S!Key(q)) => Agrees(S!Key(q))'
      BY <1>1, <3>1, <3>2 DEF Agrees, S!Loaded, S!Coerce
    <3>5. QED
      BY <3>1, <3>2, <3>3, <3>4
  <2>4. QED
    BY <2>2, <2>3 DEF HalfDone
<1>16. QED
  BY <1>9, <1>10, <1>11, <1>12, <1>14, <1>15 DEF SettingsInv

LEMMA RememberKeeps ==
    ASSUME SettingsInv, NEW r \in Slots, S!Remember(r)
    PROVE  SettingsInv'
<1> DEFINE k == S!Key(r)
<1>0. /\ S!TypeOK /\ HasKey /\ DownIdle /\ RowsValid /\ FormsValid
      /\ Alone /\ Agree /\ HalfDone
  BY DEF SettingsInv
<1>1. /\ form[r].at = "memory" /\ r \in AtWork /\ up /\ UnderWay(r)
      /\ Len(form[r].form) >= 1
      /\ UNCHANGED <<env, rows, up, forms, boots, overlapped>>
  BY <1>0 DEF S!Remember, AtWork, DownIdle, UnderWay, HasKey
<1>2. k \in Keys /\ S!Raw(r) \in Raws
  BY <1>0, <1>1, FirstOfForm
<1> DEFINE m == S!Done(r)
<1>3. /\ S!Goes(r, m) /\ memory' = [memory EXCEPT ![k] = S!MemoryAfter(r)]
  BY DEF S!Remember
<1>4. /\ m \in S!Request /\ m.at \in {"free", "look"}
      /\ m.at # "free" => m.op = form[r].op /\ Len(m.form) >= 1
  BY <1>1, DoneIsARequest, FreeForm
<1> HIDE DEF m
<1>5. form'[r] = m /\ \A q \in Slots \ {r} : form'[q] = form[q]
  BY <1>0, <1>3, <1>4, RequestGoes
<1>6. \A q \in Slots :
          UnderWay(q)' => /\ q # r /\ UnderWay(q) /\ form'[q] = form[q]
                          /\ S!Key(q)' = S!Key(q) /\ S!Raw(q)' = S!Raw(q)
  BY <1>4, <1>5 DEF UnderWay, S!Key, S!Raw
<1>7. \A q \in Slots : UnderWay(q)' => S!IsReset(q)' = S!IsReset(q)
  BY <1>1, <1>6 DEF S!IsReset, S!Coerce
<1>8. ~S!IsReset(r) => S!Coerce(S!Raw(r)) \in Values /\ S!Coerce(S!Raw(r)) # env[k]
  <2>1. ~S!IsReset(r) => form[r].op = "save" /\ S!Coerce(S!Raw(r)) # env[k]
    BY <1>0, FormParts DEF S!IsReset
  <2>2. QED
    BY <1>0, <1>1, <1>2, <2>1, Coerced DEF FormsValid
<1>9. S!MemoryAfter(r) \in Values \cup {S!None} /\ S!MemoryAfter(r) # env[k]
  <2>1. env[k] \in Raws
    BY <1>0, <1>2, SettingsAssumption DEF S!TypeOK
  <2>2. S!None # env[k]
    BY <2>1, SettingsAssumption
  <2>3. QED
    BY <1>8, <2>2 DEF S!MemoryAfter
<1>10. S!TypeOK'
  <2>1. memory' \in [Keys -> Values \cup {S!None}]
    BY <1>0, <1>3, <1>9 DEF S!TypeOK
  <2>2. QED
    BY <1>0, <1>1, <1>3, <1>4, <2>1, SettingsTypes DEF S!TypeOK
<1>11. HasKey' /\ DownIdle'
  BY <1>0, <1>1, <1>4, <1>5 DEF HasKey, DownIdle, AtWork
<1>12. RowsValid' /\ FormsValid'
  BY <1>0, <1>1, <1>6 DEF RowsValid, FormsValid, S!Coerce
<1>13. Alone'
  BY <1>0, <1>1, <1>6 DEF Alone
<1>14. ASSUME NEW x \in Keys, x # k PROVE Agrees(x)' <=> Agrees(x)
  <2>1. memory'[x] = memory[x]
    BY <1>0, <1>3, <1>14 DEF S!TypeOK
  <2>2. QED
    BY <1>1, <1>14, <2>1 DEF Agrees, S!Loaded, S!Coerce
<1>15. ASSUME k \notin overlapped
       PROVE  memory'[k] = S!Loaded(rows)[k] /\ memory'[k] # env[k]
  <2>1. rows[k] = IF S!IsReset(r) THEN S!None ELSE S!Raw(r)
    BY <1>0, <1>1, <1>15 DEF HalfDone
  <2>2. memory'[k] = S!MemoryAfter(r)
    BY <1>0, <1>2, <1>3 DEF S!TypeOK
  <2>3. S!Raw(r) # S!None
    BY <1>2, SettingsAssumption
  <2>4. S!Loaded(rows)[k] = IF rows[k] = S!None THEN S!None ELSE S!Coerce(rows[k])
    BY <1>2 DEF S!Loaded
  <2> HIDE DEF k
  <2>5. QED
    BY <1>9, <2>1, <2>2, <2>3, <2>4 DEF S!MemoryAfter
<1>16. Agree'
  <2>1. ASSUME NEW x \in Keys, x \notin overlapped, ~(S!Changing(x)') PROVE Agrees(x)'
    <3>1. CASE x = k
      BY <1>1, <1>15, <2>1, <3>1 DEF Agrees, S!Loaded, S!Coerce
    <3>2. CASE x # k
      <4>1. ASSUME NEW q \in Slots, UnderWay(q), S!Key(q) = x PROVE FALSE
        BY <1>5, <2>1, <3>2, <4>1 DEF S!Changing, UnderWay, S!Key
      <4>2. ~S!Changing(x)
        BY <4>1 DEF S!Changing, UnderWay
      <4>3. QED
        BY <1>0, <1>1, <1>14, <2>1, <3>2, <4>2 DEF Agree
    <3>3. QED
      BY <3>1, <3>2
  <2>2. QED
    BY <1>1, <2>1 DEF Agree
<1>17. HalfDone'
  <2>1. ASSUME NEW q \in Slots, UnderWay(q)', S!Key(q)' \notin overlapped'
        PROVE  /\ form'[q].at = "commit" =>
                      Agrees(S!Key(q))' /\ form'[q].row = (rows'[S!Key(q)'] # S!None)
               /\ form'[q].at = "memory" =>
                      rows'[S!Key(q)'] = IF S!IsReset(q)' THEN S!None ELSE S!Raw(q)'
    <3>1. /\ q # r /\ UnderWay(q) /\ form'[q] = form[q]
          /\ S!Key(q) \notin overlapped
          /\ S!Key(q)' = S!Key(q) /\ S!Raw(q)' = S!Raw(q)
          /\ S!IsReset(q)' = S!IsReset(q)
      BY <1>1, <1>6, <1>7, <2>1
    <3>2. S!Key(q) # k
      BY <1>0, <1>1, <3>1 DEF Alone
    <3>3. Len(form[q].form) >= 1
      BY <1>0, <3>1 DEF HasKey, AtWork, UnderWay
    <3>4. S!Key(q) \in Keys
      BY <1>0, <3>3, FirstOfForm
    <3>5. memory'[S!Key(q)] = memory[S!Key(q)]
      BY <1>0, <1>3, <3>2, <3>4 DEF S!TypeOK
    <3>6. Agrees(S!Key(q)) => Agrees(S!Key(q))'
      BY <1>1, <3>1, <3>4, <3>5 DEF Agrees, S!Loaded, S!Coerce
    <3>7. /\ form[q].at = "commit" =>
                 Agrees(S!Key(q)) /\ form[q].row = (rows[S!Key(q)] # S!None)
          /\ form[q].at = "memory" =>
                 rows[S!Key(q)] = IF S!IsReset(q) THEN S!None ELSE S!Raw(q)
      BY <1>0, <3>1 DEF HalfDone
    <3>8. QED
      BY <1>1, <3>1, <3>6, <3>7
  <2>2. QED
    BY <2>1 DEF HalfDone
<1>18. QED
  BY <1>10, <1>11, <1>12, <1>13, <1>16, <1>17 DEF SettingsInv

LEMMA SettingsStop ==
    ASSUME SettingsInv, S!Stops
    PROVE  SettingsInv'
<1>0. /\ S!TypeOK /\ RowsValid /\ Agree
  BY DEF SettingsInv
<1>1. /\ up /\ up' = FALSE /\ form' = [r \in Slots |-> S!Free]
      /\ overlapped' = overlapped \cup {k \in Keys : S!Changing(k)}
      /\ UNCHANGED <<env, rows, memory, forms, boots>>
  BY DEF S!Stops
<1>2. \A r \in Slots : form'[r].at = "free" /\ ~(UnderWay(r)')
  BY <1>1, FreeForm DEF UnderWay
<1>3. S!TypeOK'
  <2>1. form' \in [Slots -> S!Request] /\ up' \in BOOLEAN
    BY <1>1, FreeForm
  <2>2. overlapped' \subseteq Keys
    BY <1>0, <1>1 DEF S!TypeOK
  <2>3. QED
    BY <1>0, <1>1, <1>2, <2>1, <2>2 DEF S!TypeOK
<1>4. HasKey' /\ DownIdle' /\ FormsValid' /\ Alone' /\ HalfDone'
  BY <1>2 DEF HasKey, DownIdle, AtWork, FormsValid, Alone, HalfDone
<1>5. RowsValid'
  BY <1>0, <1>1 DEF RowsValid, S!Coerce
<1>6. Agree'
  BY <1>0, <1>1 DEF Agree, Agrees, S!Loaded, S!Coerce
<1>7. QED
  BY <1>3, <1>4, <1>5, <1>6 DEF SettingsInv

LEMMA SettingsStart ==
    ASSUME SettingsInv, S!Starts
    PROVE  SettingsInv'
<1> DEFINE kept == [k \in Keys |-> IF k \in S!Redundant(env') THEN S!None ELSE rows[k]]
<1>0. /\ S!TypeOK /\ RowsValid /\ DownIdle
  BY DEF SettingsInv
<1>1. /\ ~up /\ boots < MaxStarts /\ up' = TRUE /\ boots' = boots + 1
      /\ env' \in [Keys -> Values] /\ overlapped' = {}
      /\ UNCHANGED <<form, forms>>
  BY DEF S!Starts
<1>2. rows' = kept /\ memory' = S!Loaded(kept)
  BY DEF S!Starts, S!Loads
<1>3. \A r \in Slots : form[r].at = "free" /\ ~(UnderWay(r)')
  BY <1>0, <1>1 DEF DownIdle, AtWork, UnderWay
<1>4. \A k \in Keys : kept[k] = IF k \in S!Redundant(env') THEN S!None ELSE rows[k]
  OBVIOUS
<1>5. kept \in [Keys -> Raws \cup {S!None}]
  BY <1>0 DEF S!TypeOK
<1>6. ASSUME NEW k \in Keys
      PROVE  /\ kept[k] # S!None => S!Coerce(kept[k]) # Bad /\ S!Coerce(kept[k]) # env'[k]
             /\ S!Loaded(kept)[k] \in Values \cup {S!None}
             /\ S!Loaded(kept)[k] # env'[k]
  <2>1. kept[k] # S!None => /\ S!Coerce(kept[k]) # Bad /\ S!Coerce(kept[k]) # env'[k]
                           /\ kept[k] \in Raws
    BY <1>0, <1>4 DEF RowsValid, S!Redundant, S!TypeOK
  <2>2. env'[k] # S!None
    BY <1>1, SettingsAssumption
  <2> HIDE DEF kept
  <2>3. S!Loaded(kept)[k] = IF kept[k] = S!None THEN S!None ELSE S!Coerce(kept[k])
    BY DEF S!Loaded
  <2>4. QED
    BY <2>1, <2>2, <2>3, Coerced
<1>7. memory' \in [Keys -> Values \cup {S!None}]
  <2>1. memory' = [k \in Keys |-> S!Loaded(kept)[k]]
    <3> HIDE DEF kept
    <3> QED
      BY <1>2 DEF S!Loaded
  <2> HIDE DEF kept
  <2>2. QED
    BY <1>6, <2>1
<1> HIDE DEF kept
<1>8. S!TypeOK'
  <2>1. boots' \in 0..MaxStarts /\ forms' \in 0..MaxForms
    BY <1>0, <1>1, DatabaseAssumption DEF S!TypeOK
  <2>2. form' \in [Slots -> S!Request] /\ up' \in BOOLEAN
    BY <1>0, <1>1 DEF S!TypeOK
  <2>3. QED
    BY <1>1, <1>2, <1>3, <1>5, <1>7, <2>1, <2>2 DEF S!TypeOK
<1>9. HasKey' /\ DownIdle' /\ FormsValid' /\ Alone' /\ HalfDone'
  BY <1>1, <1>3 DEF HasKey, DownIdle, AtWork, FormsValid, Alone, HalfDone
<1>10. RowsValid'
  BY <1>2, <1>6 DEF RowsValid, S!Coerce
<1>11. Agree'
  <2>1. ASSUME NEW k \in Keys PROVE Agrees(k)'
    <3>1. memory'[k] = S!Loaded(kept)[k] /\ memory'[k] # env'[k]
      BY <1>2, <1>6
    <3>2. S!Loaded(rows)' = S!Loaded(kept)
      BY <1>2 DEF S!Loaded, S!Coerce
    <3>3. QED
      BY <3>1, <3>2 DEF Agrees
  <2>2. QED
    BY <2>1 DEF Agree
<1>12. QED
  BY <1>8, <1>9, <1>10, <1>11 DEF SettingsInv

LEMMA SettingsInvInit == S!Init => SettingsInv
<1> SUFFICES ASSUME S!Init PROVE SettingsInv
  OBVIOUS
<1>1. /\ env \in [Keys -> Values] /\ rows \in [Keys -> Raws \cup {S!None}]
      /\ memory = [k \in Keys |-> S!None] /\ up = FALSE
      /\ form = [r \in Slots |-> S!Free] /\ forms = 0 /\ boots = 0 /\ overlapped = {}
  BY DEF S!Init
<1>2. \A r \in Slots : form[r].at = "free" /\ ~UnderWay(r)
  BY <1>1, FreeForm DEF UnderWay
<1>3. S!TypeOK
  <2>1. form \in [Slots -> S!Request] /\ up \in BOOLEAN
    BY <1>1, FreeForm
  <2>2. boots \in 0..MaxStarts /\ forms \in 0..MaxForms
    BY <1>1, DatabaseAssumption, SettingsAssumption
  <2>3. memory \in [Keys -> Values \cup {S!None}]
    BY <1>1
  <2>4. QED
    BY <1>1, <1>2, <2>1, <2>2, <2>3 DEF S!TypeOK
<1>4. HasKey /\ DownIdle /\ FormsValid /\ Alone /\ HalfDone
  BY <1>2 DEF HasKey, DownIdle, AtWork, FormsValid, Alone, HalfDone
<1>5. RowsValid
  BY DEF S!Init, RowsValid
<1>6. Agree
  BY <1>1 DEF Agree
<1>7. QED
  BY <1>3, <1>4, <1>5, <1>6 DEF SettingsInv

LEMMA SettingsStep == SettingsInv /\ [S!Next]_(S!vars) => SettingsInv'
<1> SUFFICES ASSUME SettingsInv, [S!Next]_(S!vars) PROVE SettingsInv'
  OBVIOUS
<1>1. CASE UNCHANGED S!vars
  <2>1. UNCHANGED <<env, rows, memory, up, form, forms, boots, overlapped>>
    BY <1>1 DEF S!vars
  <2>2. S!TypeOK'
    BY <2>1 DEF SettingsInv, S!TypeOK
  <2>3. HasKey' /\ DownIdle' /\ RowsValid' /\ FormsValid' /\ Alone'
    BY <2>1
    DEF SettingsInv, HasKey, DownIdle, RowsValid, FormsValid, Alone, AtWork,
        UnderWay, S!Key, S!Raw, S!Coerce
  <2>4. Agree' /\ HalfDone'
    BY <2>1
    DEF SettingsInv, Agree, HalfDone, Agrees, UnderWay, S!Changing, S!Key, S!Raw,
        S!IsReset, S!Coerce, S!Loaded
  <2>5. QED
    BY <2>2, <2>3, <2>4 DEF SettingsInv
<1>2. CASE S!Stops \/ S!Starts
  BY <1>2, SettingsStop, SettingsStart
<1>3. ASSUME NEW r \in Slots, S!Saves(r) \/ S!Resets(r) \/ S!Look(r)
                              \/ S!Commit(r) \/ S!Remember(r)
      PROVE  SettingsInv'
  BY <1>3, SavesKeeps, ResetsKeeps, LookKeeps, CommitKeeps, RememberKeeps
<1>4. QED
  BY <1>1, <1>2, <1>3 DEF S!Next

\* In a behaviour of all of what is stored, the settings move or rest.
LEMMA SettingsMove == [MCNext]_all => [S!Next]_(S!vars)
BY DEF MCNext, all, settingVars, S!vars

LEMMA SettingsInvAlways == MCSpec => []SettingsInv
<1>1. MCInit => SettingsInv
  BY SettingsInvInit DEF MCInit
<1>2. SettingsInv /\ [MCNext]_all => SettingsInv'
  BY SettingsStep, SettingsMove
<1>3. QED
  BY <1>1, <1>2, PTL DEF MCSpec

\* Whatever pages are saved and settings reset, and however they overlap, a
\* setting that is not being changed and whose last changes did not overlap
\* is in memory what the next start takes from the database (save_override,
\* reset_override, load_overrides_from_db).
THEOREM SettingsCorrectAlways == MCSpec => []SettingsCorrect
<1>1. SettingsInv => SettingsCorrect
  BY DEF SettingsInv, SettingsCorrect, S!SettingsCorrect, S!SettingsAgree, Agree, Agrees
<1>2. QED
  BY <1>1, SettingsInvAlways, PTL

-----------------------------------------------------------------------------
(* Database.                                                               *)

\* What each step of the start-up finds done by those before it.
StepsDone ==
    /\ at \in {"is_dismissed_rows", "cache", "updated_at", "updated_at_rows",
               "mappings", "tables"}
           /\ db.tables # "none" => db.columns["is_dismissed"] # "missing"
    /\ at \in {"updated_at_rows", "mappings", "tables"} /\ db.tables # "none"
           => db.columns["updated_at"] # "missing"
    /\ at = "tables" => db.ids
    /\ at \in {"migrations", "up"} =>
           db.tables = "all" /\ db.ids /\ \A k \in Columns : db.columns[k] # "missing"

\* A backup is made by the running server, and one that is half made has the
\* first portion of the database as it is when no request wrote since.
CopyInv ==
    copy # NoCopy /\ copy.at # "done" =>
        /\ at = "up"
        /\ copy.at = "half" => /\ copy.version <= writes
                               /\ copy.version = writes => copy.first = db

\* A column without its values is being filled, or its start-up was killed.
ColumnsInv ==
    /\ \A k \in Columns : db.columns[k] = "empty" => k \in cut \/ at = Fills[k]
    /\ db.tables = "none" => db.ids
    /\ copy # NoCopy /\ copy.at = "done" =>
           /\ copy.last.tables = "all"
           /\ \A k \in Columns : copy.last.columns[k] = "empty" => k \in cut

StoreInv ==
    /\ TypeOK /\ StepsDone /\ Upgraded /\ DeletedStaysGone
    /\ CopyInv /\ BackupIsSnapshot /\ ColumnsInv

GoneFrom(d, c) ==
    Linked(d, c) = {} /\ d.mapping[c] = NoFood /\ d.cache[c] = NoRow /\ c \notin d.seen

LEMMA ContentParts ==
    ASSUME NEW d \in Content
    PROVE  /\ d.links \in SUBSET (Codes \X Foods)
           /\ d.mapping \in [Codes -> Foods \cup {NoFood}] /\ d.ids \in BOOLEAN
           /\ d.cache \in [Codes -> Row \cup {NoRow}]
           /\ d.items \in SUBSET Foods /\ d.seen \in SUBSET Codes
           /\ d.tables \in {"none", "old", "all"}
           /\ d.columns \in [Columns -> {"missing", "empty", "filled"}]
           /\ d.done \in SUBSET Migrations
BY DEF Content

LEMMA StoreInvInit == Init => StoreInv
<1> SUFFICES ASSUME Init PROVE StoreInv
  OBVIOUS
<1>1. db \in Content
  BY DEF Init, Content
<1>2. /\ at = "down" /\ copy = NoCopy /\ writes = 0 /\ starts = 0
      /\ deleted = {} /\ touched = {} /\ before = db /\ cut = {}
  BY DEF Init
<1>3. TypeOK
  <2>1. writes \in 0..MaxWrites /\ starts \in 0..MaxStarts
    BY <1>2, DatabaseAssumption
  <2>2. QED
    BY <1>1, <1>2, <2>1 DEF TypeOK
<1>4. StepsDone /\ Upgraded /\ DeletedStaysGone /\ CopyInv /\ BackupIsSnapshot
  BY <1>2 DEF StepsDone, Upgraded, DeletedStaysGone, CopyInv, BackupIsSnapshot
<1>5. ColumnsInv
  BY <1>2 DEF ColumnsInv, Init, Old, New
<1>6. QED
  BY <1>3, <1>4, <1>5 DEF StoreInv

\* A request that takes no link from a barcode it does not count as touched,
\* and lets those that stay deleted stay so.
LEMMA RequestKeeps ==
    ASSUME StoreInv, NEW new \in Content, Request(new),
           new.tables = db.tables, new.columns = db.columns, new.done = db.done,
           new.ids = db.ids,
           deleted' \subseteq Codes, touched' \subseteq Codes, touched \subseteq touched',
           \A c \in Codes \ touched' : new.mapping[c] # NoFood =>
               db.mapping[c] # NoFood /\ (Linked(db, c) # {} => Linked(new, c) # {}),
           \A c \in deleted' : GoneFrom(new, c)
    PROVE  StoreInv'
<1>0. TypeOK /\ StepsDone /\ Upgraded /\ CopyInv /\ BackupIsSnapshot /\ ColumnsInv
  BY DEF StoreInv
<1>1. /\ at = "up" /\ writes < MaxWrites /\ db' = new /\ before' = new
      /\ writes' = writes + 1 /\ UNCHANGED <<at, copy, starts, cut>>
  BY DEF Request
<1>2. writes' \in 0..MaxWrites /\ writes \in Nat
  BY <1>0, <1>1, DatabaseAssumption DEF TypeOK
<1>3. TypeOK'
  BY <1>0, <1>1, <1>2 DEF TypeOK
<1>4. StepsDone'
  BY <1>0, <1>1 DEF StepsDone
<1>5. Upgraded'
  BY <1>0, <1>1 DEF Upgraded
<1>6. DeletedStaysGone'
  BY <1>1 DEF DeletedStaysGone, GoneFrom
<1>7. CopyInv'
  <2>1. copy # NoCopy => copy.version \in Nat
    BY <1>0, DatabaseAssumption DEF TypeOK
  <2>2. QED
    BY <1>0, <1>1, <1>2, <2>1 DEF CopyInv
<1>8. BackupIsSnapshot'
  BY <1>0, <1>1 DEF BackupIsSnapshot, InBackup
<1>9. ColumnsInv'
  BY <1>0, <1>1 DEF ColumnsInv
<1>10. QED
  BY <1>3, <1>4, <1>5, <1>6, <1>7, <1>8, <1>9 DEF StoreInv

\* A step of the start-up.
LEMMA StepKeeps ==
    ASSUME StoreInv, NEW from \in Steps, NEW to \in Steps \cup {"up"},
           NEW new \in Content, Step(from, to, new), StepsDone', Upgraded', ColumnsInv',
           \A c \in deleted : GoneFrom(db, c) => GoneFrom(new, c)
    PROVE  StoreInv'
<1>0. TypeOK /\ DeletedStaysGone /\ CopyInv /\ BackupIsSnapshot
  BY DEF StoreInv
<1>1. /\ at = from /\ at # "up" /\ at' = to /\ db' = new
      /\ before' \in {new, before}
      /\ UNCHANGED <<copy, writes, starts, deleted, touched, cut>>
  BY DEF Step, Steps
<1>2. TypeOK'
  BY <1>0, <1>1 DEF TypeOK
<1>3. DeletedStaysGone'
  BY <1>0, <1>1 DEF DeletedStaysGone, GoneFrom
<1>4. CopyInv' /\ BackupIsSnapshot'
  BY <1>0, <1>1 DEF CopyInv, BackupIsSnapshot, InBackup
<1>5. QED
  BY <1>2, <1>3, <1>4 DEF StoreInv

LEMMA StartsKeepsInv == StoreInv /\ Starts => StoreInv'
<1> SUFFICES ASSUME StoreInv, Starts PROVE StoreInv'
  OBVIOUS
<1>0. TypeOK /\ DeletedStaysGone /\ CopyInv /\ BackupIsSnapshot /\ ColumnsInv
  BY DEF StoreInv
<1>1. /\ at = "down" /\ at' = "is_dismissed" /\ starts < MaxStarts
      /\ starts' = starts + 1 /\ touched' = {}
      /\ UNCHANGED <<db, copy, writes, deleted, before, cut>>
  BY DEF Starts
<1>2. starts' \in 0..MaxStarts
  BY <1>0, <1>1, DatabaseAssumption DEF TypeOK
<1>3. TypeOK'
  BY <1>0, <1>1, <1>2 DEF TypeOK, Steps
<1>4. StepsDone' /\ Upgraded'
  BY <1>1 DEF StepsDone, Upgraded
<1>5. DeletedStaysGone' /\ CopyInv' /\ BackupIsSnapshot'
  BY <1>0, <1>1 DEF DeletedStaysGone, CopyInv, BackupIsSnapshot, InBackup, Linked
<1>6. ColumnsInv'
  BY <1>0, <1>1 DEF ColumnsInv, Columns, Fills
<1>7. QED
  BY <1>3, <1>4, <1>5, <1>6 DEF StoreInv

LEMMA StopsKeepsInv == StoreInv /\ Stops => StoreInv'
<1> SUFFICES ASSUME StoreInv, Stops PROVE StoreInv'
  OBVIOUS
<1>0. TypeOK /\ DeletedStaysGone /\ CopyInv /\ BackupIsSnapshot /\ ColumnsInv
  BY DEF StoreInv
<1>1. /\ at' = "down"
      /\ copy' = IF copy # NoCopy /\ copy.at # "done" THEN NoCopy ELSE copy
      /\ cut' = cut \cup {k \in Columns : at = Fills[k]}
      /\ UNCHANGED <<db, writes, starts, deleted, touched, before>>
  BY DEF Stops
<1>2. TypeOK'
  BY <1>0, <1>1 DEF TypeOK
<1>3. StepsDone' /\ Upgraded'
  BY <1>1 DEF StepsDone, Upgraded
<1>4. DeletedStaysGone' /\ CopyInv' /\ BackupIsSnapshot'
  BY <1>0, <1>1 DEF DeletedStaysGone, CopyInv, BackupIsSnapshot, InBackup, Linked
<1>5. ColumnsInv'
  BY <1>0, <1>1 DEF ColumnsInv
<1>6. QED
  BY <1>2, <1>3, <1>4, <1>5 DEF StoreInv

LEMMA ColumnsKeep ==
    ASSUME StoreInv, NEW k \in Columns,
           NEW rest \in {"is_dismissed_rows", "updated_at_rows"},
           NEW next \in {"cache", "mappings"},
           <<k, rest, next>> \in {<<"is_dismissed", "is_dismissed_rows", "cache">>,
                                  <<"updated_at", "updated_at_rows", "mappings">>},
           AddColumn(k, rest, next) \/ FillColumn(k, rest, next)
    PROVE  StoreInv'
<1>0. db \in Content /\ StepsDone /\ ColumnsInv
  BY DEF StoreInv, TypeOK
<1>1. \/ k = "is_dismissed" /\ rest = "is_dismissed_rows" /\ next = "cache"
      \/ k = "updated_at" /\ rest = "updated_at_rows" /\ next = "mappings"
  OBVIOUS
<1>2. k \in Steps /\ rest \in Steps /\ next \in Steps
  BY <1>1 DEF Steps
<1>3. PICK new \in Content :
         /\ \/ /\ Step(k, rest, new) /\ db.tables # "none"
               /\ new.columns = [db.columns EXCEPT ![k] = "empty"]
            \/ /\ Step(k, next, new) /\ new = db
               /\ db.tables = "none" \/ db.columns[k] # "missing"
            \/ /\ Step(rest, next, new)
               /\ new.columns = [db.columns EXCEPT ![k] = "filled"]
         /\ new.links = db.links /\ new.mapping = db.mapping /\ new.cache = db.cache
         /\ new.seen = db.seen /\ new.tables = db.tables /\ new.items = db.items
         /\ new.ids = db.ids
  <2>1. \A v \in {"empty", "filled"} :
            LET d == [db EXCEPT !.columns[k] = v] IN
            /\ d \in Content /\ d.columns = [db.columns EXCEPT ![k] = v]
            /\ d.links = db.links /\ d.mapping = db.mapping /\ d.cache = db.cache
            /\ d.seen = db.seen /\ d.tables = db.tables /\ d.items = db.items
            /\ d.ids = db.ids
    BY <1>0 DEF Content
  <2>2. CASE AddColumn(k, rest, next)
    BY <1>0, <2>1, <2>2 DEF AddColumn
  <2>3. CASE FillColumn(k, rest, next)
    BY <1>0, <2>1, <2>3 DEF FillColumn
  <2>4. QED
    BY <2>2, <2>3
<1>4. db' = new /\ at' \in {rest, next} /\ (at' = rest => db.tables # "none")
  BY <1>1, <1>3 DEF Step
<1>5. db'.tables # "none" => db'.columns[k] # "missing"
  BY <1>0, <1>3, <1>4 DEF Content
<1>6. db'.tables # "none" /\ k = "updated_at" => db'.columns["is_dismissed"] # "missing"
  <2>1. k = "updated_at" => at \in {"updated_at", "updated_at_rows"}
    BY <1>1, <1>3 DEF Step
  <2>2. k = "updated_at" => new.columns["is_dismissed"] = db.columns["is_dismissed"]
    BY <1>0, <1>3 DEF Content, Columns
  <2>3. QED
    BY <1>0, <1>3, <1>4, <2>1, <2>2 DEF StepsDone
<1>7. StepsDone' /\ Upgraded'
  BY <1>1, <1>4, <1>5, <1>6 DEF StepsDone, Upgraded
<1>8. \A c \in deleted : GoneFrom(db, c) => GoneFrom(new, c)
  BY <1>3 DEF GoneFrom, Linked
<1>9. \A j \in Columns : new.columns[j] = "empty" => j \in cut \/ at' = Fills[j]
  BY <1>0, <1>1, <1>3 DEF ColumnsInv, Content, Columns, Fills, Step
<1>10. ColumnsInv'
  BY <1>0, <1>3, <1>4, <1>9 DEF ColumnsInv, Step
<1>11. QED
  BY <1>2, <1>3, <1>7, <1>8, <1>10, StepKeeps

LEMMA RepairKeeps == StoreInv /\ RepairCache => StoreInv'
<1> SUFFICES ASSUME StoreInv, RepairCache PROVE StoreInv'
  OBVIOUS
<1> DEFINE mended == [c \in Codes |->
             IF db.cache[c] # NoRow /\ db.cache[c].custom
             THEN [db.cache[c] EXCEPT !.found = TRUE] ELSE db.cache[c]]
<1> DEFINE new == [db EXCEPT !.cache = mended]
<1>0. db \in Content /\ StepsDone /\ ColumnsInv
  BY DEF StoreInv, TypeOK
<1>1. mended \in [Codes -> Row \cup {NoRow}]
  <2>1. \A c \in Codes : db.cache[c] # NoRow => db.cache[c] \in Row
    BY <1>0, ContentParts
  <2>2. \A c \in Codes : db.cache[c] # NoRow => [db.cache[c] EXCEPT !.found = TRUE] \in Row
    BY <2>1 DEF Row
  <2>3. QED
    BY <2>1, <2>2
<1>2. \A c \in Codes : db.cache[c] = NoRow => mended[c] = NoRow
  OBVIOUS
<1> HIDE DEF mended
<1>3. /\ new \in Content /\ new.cache = mended /\ new.links = db.links
      /\ new.mapping = db.mapping /\ new.seen = db.seen /\ new.tables = db.tables
      /\ new.columns = db.columns /\ new.ids = db.ids
  BY <1>0, <1>1 DEF Content
<1>4. Step("cache", "updated_at", new)
  BY DEF RepairCache, mended
<1> HIDE DEF new
<1>5. StepsDone' /\ Upgraded'
  BY <1>0, <1>3, <1>4 DEF StepsDone, Upgraded, Step
<1>6. \A c \in deleted : GoneFrom(db, c) => GoneFrom(new, c)
  BY <1>2, <1>3 DEF GoneFrom, Linked, StoreInv, TypeOK
<1>7. ColumnsInv'
  BY <1>0, <1>3, <1>4 DEF ColumnsInv, Step, Columns, Fills
<1>8. QED
  BY <1>3, <1>4, <1>5, <1>6, <1>7, StepKeeps DEF Steps

LEMMA DropKeeps == StoreInv /\ DropMappings => StoreInv'
<1> SUFFICES ASSUME StoreInv, DropMappings PROVE StoreInv'
  OBVIOUS
<1>0. db \in Content /\ StepsDone /\ ColumnsInv
  BY DEF StoreInv, TypeOK
<1>1. NoMapping \in [Codes -> Foods \cup {NoFood}]
  BY DEF NoMapping
<1>2. PICK new \in Content :
         /\ Step("mappings", "tables", new) /\ new.ids
         /\ new.links = db.links /\ new.cache = db.cache /\ new.seen = db.seen
         /\ new.tables = db.tables /\ new.columns = db.columns
         /\ new.mapping \in {db.mapping, NoMapping}
  <2> DEFINE bare == [db EXCEPT !.mapping = NoMapping, !.ids = TRUE]
  <2>1. /\ bare \in Content /\ bare.ids /\ bare.mapping = NoMapping
        /\ bare.links = db.links /\ bare.cache = db.cache /\ bare.seen = db.seen
        /\ bare.tables = db.tables /\ bare.columns = db.columns
    BY <1>0, <1>1 DEF Content
  <2>2. Step("mappings", "tables", IF db.tables # "none" /\ ~db.ids THEN bare ELSE db)
    BY DEF DropMappings
  <2> HIDE DEF bare
  <2>3. CASE db.tables # "none" /\ ~db.ids
    BY <2>1, <2>2, <2>3
  <2>4. CASE ~(db.tables # "none" /\ ~db.ids)
    BY <1>0, <2>2, <2>4 DEF ColumnsInv
  <2>5. QED
    BY <2>3, <2>4
<1>3. StepsDone' /\ Upgraded' /\ ColumnsInv'
  BY <1>0, <1>2 DEF StepsDone, Upgraded, ColumnsInv, Step, Columns, Fills
<1>4. \A c \in deleted : GoneFrom(db, c) => GoneFrom(new, c)
  BY <1>2 DEF GoneFrom, Linked, NoMapping, StoreInv, TypeOK
<1>5. QED
  BY <1>2, <1>3, <1>4, StepKeeps DEF Steps

LEMMA CreateKeeps == StoreInv /\ CreateTables => StoreInv'
<1> SUFFICES ASSUME StoreInv, CreateTables PROVE StoreInv'
  OBVIOUS
<1> DEFINE columns == IF db.tables = "none" THEN [k \in Columns |-> "filled"]
                      ELSE db.columns
<1> DEFINE new == [db EXCEPT !.tables = "all", !.columns = columns]
<1>0. db \in Content /\ StepsDone /\ ColumnsInv
  BY DEF StoreInv, TypeOK
<1>1. Step("tables", "migrations", new)
  BY DEF CreateTables
<1>2. columns \in [Columns -> {"missing", "empty", "filled"}]
  BY <1>0, ContentParts
<1>3. \A k \in Columns : /\ columns[k] # "missing"
                         /\ columns[k] = "empty" => k \in cut
  <2>1. at = "tables" /\ Columns = {"is_dismissed", "updated_at"}
    BY <1>1 DEF Step, Columns
  <2>2. db.tables # "none" => \A k \in Columns : db.columns[k] # "missing"
    BY <1>0, <2>1 DEF StepsDone
  <2>3. \A k \in Columns : db.columns[k] = "empty" => k \in cut
    BY <1>0, <2>1 DEF ColumnsInv, Fills
  <2>4. QED
    BY <2>2, <2>3
<1> HIDE DEF columns
<1>4. /\ new \in Content /\ new.cache = db.cache /\ new.links = db.links
      /\ new.mapping = db.mapping /\ new.seen = db.seen /\ new.tables = "all"
      /\ new.columns = columns /\ new.ids = db.ids
  BY <1>0, <1>2 DEF Content
<1> HIDE DEF new
<1>5. StepsDone' /\ Upgraded'
  BY <1>0, <1>1, <1>3, <1>4 DEF StepsDone, Upgraded, Step
<1>6. \A c \in deleted : GoneFrom(db, c) => GoneFrom(new, c)
  BY <1>4 DEF GoneFrom, Linked
<1>7. ColumnsInv'
  BY <1>0, <1>1, <1>3, <1>4 DEF ColumnsInv, Step
<1>8. QED
  BY <1>1, <1>4, <1>5, <1>6, <1>7, StepKeeps DEF Steps

\* A barcode of the legacy table that has no link gets one to its Food; the
\* others keep what they have.
LEMMA ForwardedLinks ==
    ASSUME NEW d \in Content
    PROVE  /\ Forwarded(d) \subseteq Codes \X Foods /\ d.links \subseteq Forwarded(d)
           /\ \A c \in Codes : d.mapping[c] # NoFood =>
                 \E f \in Foods : <<c, f>> \in Forwarded(d)
           /\ \A c \in Codes, f \in Foods : <<c, f>> \in Forwarded(d) =>
                 <<c, f>> \in d.links
                 \/ (d.mapping[c] # NoFood /\ Linked(d, c) = {})
<1>1. \A c \in Codes : d.mapping[c] # NoFood => d.mapping[c] \in Foods
  BY ContentParts
<1>2. d.links \subseteq Codes \X Foods
  BY ContentParts
<1> DEFINE Lonely == {x \in Codes : d.mapping[x] # NoFood /\ Linked(d, x) = {}}
<1>3. Forwarded(d) = d.links \cup {<<c, d.mapping[c]>> : c \in Lonely}
  BY DEF Forwarded
<1>4. Forwarded(d) \subseteq Codes \X Foods
  BY <1>1, <1>2, <1>3
<1>5. ASSUME NEW c \in Codes, d.mapping[c] # NoFood
      PROVE  \E f \in Foods : <<c, f>> \in Forwarded(d)
  <2>1. CASE c \in Lonely
    BY <1>1, <1>3, <1>5, <2>1
  <2>2. CASE c \notin Lonely
    BY <1>3, <1>5, <2>2 DEF Linked
  <2>3. QED
    BY <2>1, <2>2
<1>6. ASSUME NEW c \in Codes, NEW f \in Foods, <<c, f>> \in Forwarded(d),
             <<c, f>> \notin d.links
      PROVE  d.mapping[c] # NoFood /\ Linked(d, c) = {}
  <2>1. PICK x \in Lonely : <<c, f>> = <<x, d.mapping[x]>>
    BY <1>3, <1>6
  <2>2. QED
    BY <2>1
<1>7. QED
  BY <1>3, <1>4, <1>5, <1>6

LEMMA MigrateKeeps == StoreInv /\ Migrate => StoreInv'
<1> SUFFICES ASSUME StoreInv, Migrate PROVE StoreInv'
  OBVIOUS
<1> DEFINE new == [db EXCEPT !.links = Forwarded(db), !.done = Migrations]
<1>0. /\ db \in Content /\ StepsDone /\ ColumnsInv
      /\ deleted \subseteq Codes /\ cut \subseteq Columns
  BY DEF StoreInv, TypeOK
<1>1. Step("migrations", "up", new)
  BY DEF Migrate
<1>2. Forwarded(db) \in SUBSET (Codes \X Foods)
  BY <1>0, ForwardedLinks
<1>3. /\ new \in Content /\ new.cache = db.cache /\ new.links = Forwarded(db)
      /\ new.mapping = db.mapping /\ new.seen = db.seen /\ new.tables = db.tables
      /\ new.columns = db.columns /\ new.ids = db.ids /\ new.done = Migrations
  BY <1>0, <1>2 DEF Content
<1> HIDE DEF new
<1>4. StepsDone'
  BY <1>0, <1>1, <1>3 DEF StepsDone, Step
<1>5. \A c \in Codes : new.mapping[c] # NoFood => Linked(new, c) # {}
  BY <1>0, <1>3, ForwardedLinks DEF Linked
<1>6. Upgraded' /\ ColumnsInv'
  <2>1. \A k \in Columns : db.columns[k] = "empty" => k \in cut
    BY <1>0, <1>1 DEF ColumnsInv, Step, Columns, Fills
  <2>2. \A k \in Columns : db.columns[k] # "missing" /\ (k \notin cut => db.columns[k] = "filled")
    BY <1>0, <1>1, <2>1, ContentParts DEF StepsDone, Step
  <2>3. Upgraded'
    BY <1>0, <1>1, <1>3, <1>5, <2>2 DEF Upgraded, StepsDone, Step
  <2>4. QED
    BY <1>0, <1>1, <1>3, <2>1, <2>3 DEF ColumnsInv, Step
<1>7. ASSUME NEW c \in deleted, GoneFrom(db, c) PROVE GoneFrom(new, c)
  <2>1. Linked(new, c) = {}
    BY <1>0, <1>3, <1>7, ForwardedLinks DEF GoneFrom, Linked
  <2>2. QED
    BY <1>3, <1>7, <2>1 DEF GoneFrom
<1>8. QED
  BY <1>1, <1>3, <1>4, <1>6, <1>7, StepKeeps DEF Steps

-----------------------------------------------------------------------------
LEMMA BackupsKeep ==
    StoreInv /\ (BackupBegins \/ CopyFirst \/ CopyLast) => StoreInv'
<1> SUFFICES ASSUME StoreInv, BackupBegins \/ CopyFirst \/ CopyLast PROVE StoreInv'
  OBVIOUS
<1>0. /\ TypeOK /\ StepsDone /\ Upgraded /\ DeletedStaysGone /\ CopyInv
      /\ BackupIsSnapshot /\ ColumnsInv
  BY DEF StoreInv
<1>1. UNCHANGED <<db, at, writes, starts, deleted, touched, before, cut>>
  BY DEF BackupBegins, CopyFirst, CopyLast
<1>2. StepsDone' /\ Upgraded' /\ DeletedStaysGone'
  BY <1>0, <1>1 DEF StepsDone, Upgraded, DeletedStaysGone, Linked
<1>3. db \in Content /\ writes \in 0..MaxWrites
  BY <1>0 DEF TypeOK
<1>4. copy # NoCopy => /\ DOMAIN copy = {"at", "first", "last", "version"}
                       /\ copy.first \in Content /\ copy.last \in Content
                       /\ copy.version \in 0..MaxWrites
  BY <1>0 DEF TypeOK
<1>5. CASE BackupBegins
  <2>1. /\ at = "up"
        /\ copy' = [at |-> "begun", first |-> db, last |-> db, version |-> writes]
    BY <1>5 DEF BackupBegins
  <2>2. copy' # NoCopy /\ copy'.at = "begun"
    BY <2>1 DEF NoCopy
  <2>3. TypeOK'
    BY <1>0, <1>1, <1>3, <2>1 DEF TypeOK
  <2>4. CopyInv' /\ BackupIsSnapshot' /\ ColumnsInv'
    BY <1>0, <1>1, <2>1, <2>2 DEF CopyInv, BackupIsSnapshot, ColumnsInv
  <2>5. QED
    BY <1>2, <2>3, <2>4 DEF StoreInv
<1>6. CASE CopyFirst
  <2>1. /\ copy # NoCopy /\ copy.at = "begun"
        /\ copy' = [copy EXCEPT !.at = "half", !.first = db, !.last = db,
                                !.version = writes]
    BY <1>6 DEF CopyFirst
  <2>2. /\ DOMAIN copy' = {"at", "first", "last", "version"}
        /\ copy'.at = "half" /\ copy'.first = db /\ copy'.last = db
        /\ copy'.version = writes
    BY <1>4, <2>1
  <2>3. TypeOK'
    BY <1>0, <1>1, <1>3, <2>2 DEF TypeOK
  <2>4. at = "up"
    BY <1>0, <2>1 DEF CopyInv
  <2>5. CopyInv' /\ BackupIsSnapshot' /\ ColumnsInv'
    BY <1>0, <1>1, <1>3, <2>2, <2>4, DatabaseAssumption
    DEF CopyInv, BackupIsSnapshot, ColumnsInv
  <2>6. QED
    BY <1>2, <2>3, <2>5 DEF StoreInv
<1>7. CASE CopyLast
  <2>1. copy # NoCopy /\ copy.at = "half" /\ copy' = Copied(copy, writes, db)
    BY <1>7 DEF CopyLast
  <2>2. at = "up" /\ (copy.version = writes => copy.first = db)
    BY <1>0, <2>1 DEF CopyInv
  <2>3. CASE copy.version # writes
    <3>1. copy' = [copy EXCEPT !.at = "begun"]
      BY <2>1, <2>3 DEF Copied
    <3>2. /\ DOMAIN copy' = {"at", "first", "last", "version"}
          /\ copy'.at = "begun" /\ copy'.first = copy.first /\ copy'.last = copy.last
          /\ copy'.version = copy.version
      BY <1>4, <2>1, <3>1
    <3>3. TypeOK' /\ CopyInv' /\ BackupIsSnapshot' /\ ColumnsInv'
      BY <1>0, <1>1, <1>4, <2>1, <2>2, <3>2
      DEF TypeOK, CopyInv, BackupIsSnapshot, ColumnsInv
    <3>4. QED
      BY <1>2, <3>3 DEF StoreInv
  <2>4. CASE copy.version = writes
    <3>1. copy' = [copy EXCEPT !.at = "done", !.last = db]
      BY <2>1, <2>4 DEF Copied
    <3>2. /\ DOMAIN copy' = {"at", "first", "last", "version"}
          /\ copy'.at = "done" /\ copy'.first = db /\ copy'.last = db
          /\ copy'.version = copy.version
      BY <1>4, <2>1, <2>2, <2>4, <3>1
    <3>3. TypeOK' /\ CopyInv'
      BY <1>0, <1>1, <1>3, <1>4, <2>1, <3>2 DEF TypeOK, CopyInv
    <3>4. BackupIsSnapshot'
      BY <1>3, <3>2 DEF BackupIsSnapshot, InBackup, Content
    <3>5. ColumnsInv'
      BY <1>0, <1>1, <2>2, <3>2 DEF ColumnsInv, StepsDone, Columns, Fills
    <3>6. QED
      BY <1>2, <3>3, <3>4, <3>5 DEF StoreInv
  <2>5. QED
    BY <2>3, <2>4
<1>8. QED
  BY <1>5, <1>6, <1>7

LEMMA RestoreKeeps == StoreInv /\ Restore => StoreInv'
<1> SUFFICES ASSUME StoreInv, Restore PROVE StoreInv'
  OBVIOUS
<1>0. TypeOK /\ BackupIsSnapshot /\ ColumnsInv
  BY DEF StoreInv
<1>1. /\ at = "down" /\ copy # NoCopy /\ copy.at = "done" /\ db' = InBackup
      /\ before' = InBackup /\ deleted' = {}
      /\ UNCHANGED <<at, copy, writes, starts, touched, cut>>
  BY DEF Restore
<1>2. InBackup \in Content
  BY <1>0, <1>1 DEF BackupIsSnapshot, TypeOK
<1>3. TypeOK'
  BY <1>0, <1>1, <1>2 DEF TypeOK
<1>4. StepsDone' /\ Upgraded' /\ DeletedStaysGone' /\ CopyInv' /\ BackupIsSnapshot'
  BY <1>0, <1>1
  DEF StepsDone, Upgraded, DeletedStaysGone, CopyInv, BackupIsSnapshot, InBackup
<1>5. ColumnsInv'
  BY <1>0, <1>1 DEF ColumnsInv, BackupIsSnapshot
<1>6. QED
  BY <1>3, <1>4, <1>5 DEF StoreInv

-----------------------------------------------------------------------------
LEMMA RegisterKeeps ==
    ASSUME StoreInv, NEW c \in Codes, NEW f \in Foods \cup {NoFood}, Register(c, f)
    PROVE  StoreInv'
<1>0. db \in Content /\ deleted \subseteq Codes /\ touched \subseteq Codes
  BY DEF StoreInv, TypeOK
<1>1. PICK new \in Content :
         /\ Request(new) /\ new.links = db.links /\ new.seen = db.seen
         /\ \A x \in Codes \ {c} : /\ new.mapping[x] = db.mapping[x]
                                  /\ new.cache[x] = db.cache[x]
         /\ new.tables = db.tables /\ new.columns = db.columns /\ new.done = db.done
         /\ new.ids = db.ids
  <2> DEFINE ms == IF f = NoFood THEN db.mapping ELSE [db.mapping EXCEPT ![c] = f]
  <2> DEFINE row == [found |-> TRUE, custom |-> TRUE]
  <2> DEFINE new == [db EXCEPT
          !.cache[c] = row,
          !.items = @ \cup ({f} \ {NoFood}),
          !.mapping[c] = IF f = NoFood THEN @ ELSE f]
  <2>1. row \in Row
    BY DEF Row
  <2>2. new \in Content
    BY <1>0, <2>1 DEF Content
  <2>3. /\ new.links = db.links /\ new.seen = db.seen
        /\ new.tables = db.tables /\ new.columns = db.columns /\ new.done = db.done
        /\ new.ids = db.ids
    BY <1>0 DEF Content
  <2>4. \A x \in Codes \ {c} : /\ new.mapping[x] = db.mapping[x]
                              /\ new.cache[x] = db.cache[x]
    BY <1>0 DEF Content
  <2>5. Request(new)
    BY DEF Register
  <2>6. QED
    BY <2>2, <2>3, <2>4, <2>5
<1>2. deleted' = deleted \ {c} /\ touched' = touched \cup {c}
  BY DEF Register, Uses
<1>3. \A x \in deleted' : GoneFrom(new, x)
  BY <1>0, <1>1, <1>2 DEF StoreInv, DeletedStaysGone, GoneFrom, Linked
<1>4. \A x \in Codes \ touched' : new.mapping[x] # NoFood =>
          db.mapping[x] # NoFood /\ (Linked(db, x) # {} => Linked(new, x) # {})
  BY <1>1, <1>2 DEF Linked
<1>5. QED
  BY <1>0, <1>1, <1>2, <1>3, <1>4, RequestKeeps

LEMMA ScanKeeps ==
    ASSUME StoreInv, NEW c \in Codes, Scan(c)
    PROVE  StoreInv'
<1>0. db \in Content /\ deleted \subseteq Codes /\ touched \subseteq Codes
  BY DEF StoreInv, TypeOK
<1>1. PICK fs \in {{}} \cup {{f} : f \in db.items} :
          Request([db EXCEPT
                !.seen = @ \cup {c},
                !.cache[c] = IF @ = NoRow THEN [found |-> FALSE, custom |-> FALSE]
                                          ELSE @,
                !.links = @ \cup ({c} \X fs)])
  BY DEF Scan
<1> DEFINE new == [db EXCEPT
                !.seen = @ \cup {c},
                !.cache[c] = IF @ = NoRow THEN [found |-> FALSE, custom |-> FALSE]
                                          ELSE @,
                !.links = @ \cup ({c} \X fs)]
<1>2. fs \subseteq Foods
  BY <1>0, ContentParts
<1>3. [found |-> FALSE, custom |-> FALSE] \in Row
  BY DEF Row
<1>4. /\ new.tables = db.tables /\ new.columns = db.columns /\ new.done = db.done
      /\ new.ids = db.ids
      /\ new.mapping = db.mapping /\ new.links = db.links \cup ({c} \X fs)
      /\ new.seen = db.seen \cup {c}
  BY <1>0 DEF Content
<1>5. \A x \in Codes \ {c} : new.cache[x] = db.cache[x]
  BY <1>0 DEF Content
<1>6. new \in Content
  BY <1>0, <1>2, <1>3 DEF Content
<1>7. Request(new) /\ deleted' = deleted \ {c} /\ touched' = touched \cup {c}
  BY <1>1 DEF Scan, Uses
<1> HIDE DEF new
<1>8. \A x \in deleted' : GoneFrom(new, x)
  BY <1>0, <1>4, <1>5, <1>7 DEF StoreInv, DeletedStaysGone, GoneFrom, Linked
<1>9. \A x \in Codes \ touched' : new.mapping[x] # NoFood =>
          db.mapping[x] # NoFood /\ (Linked(db, x) # {} => Linked(new, x) # {})
  BY <1>4 DEF Linked
<1>10. QED
  BY <1>0, <1>4, <1>6, <1>7, <1>8, <1>9, RequestKeeps

LEMMA LinkKeeps ==
    ASSUME StoreInv, NEW c \in Codes, NEW f \in Foods, Link(c, f)
    PROVE  StoreInv'
<1> DEFINE new == [db EXCEPT !.links = @ \cup {<<c, f>>}]
<1>0. db \in Content /\ deleted \subseteq Codes /\ touched \subseteq Codes
  BY DEF StoreInv, TypeOK
<1>1. /\ new \in Content
      /\ new.tables = db.tables /\ new.columns = db.columns /\ new.done = db.done
      /\ new.ids = db.ids
      /\ new.mapping = db.mapping /\ new.cache = db.cache /\ new.seen = db.seen
      /\ new.links = db.links \cup {<<c, f>>}
  BY <1>0 DEF Content
<1>2. Request(new) /\ deleted' = deleted \ {c} /\ touched' = touched \cup {c}
  BY DEF Link, Uses
<1> HIDE DEF new
<1>3. \A x \in deleted' : GoneFrom(new, x)
  BY <1>0, <1>1, <1>2 DEF StoreInv, DeletedStaysGone, GoneFrom, Linked
<1>4. \A x \in Codes \ touched' : new.mapping[x] # NoFood =>
          db.mapping[x] # NoFood /\ (Linked(db, x) # {} => Linked(new, x) # {})
  BY <1>1 DEF Linked
<1>5. QED
  BY <1>0, <1>1, <1>2, <1>3, <1>4, RequestKeeps

LEMMA UnlinkKeeps ==
    ASSUME StoreInv, NEW c \in Codes, Unlink(c)
    PROVE  StoreInv'
<1>0. db \in Content /\ deleted \subseteq Codes /\ touched \subseteq Codes
  BY DEF StoreInv, TypeOK
<1>1. PICK fs \in SUBSET Linked(db, c) \ {{}} :
          Request([db EXCEPT !.links = @ \ ({c} \X fs)])
  BY DEF Unlink
<1> DEFINE new == [db EXCEPT !.links = @ \ ({c} \X fs)]
<1>2. /\ new \in Content
      /\ new.tables = db.tables /\ new.columns = db.columns /\ new.done = db.done
      /\ new.ids = db.ids
      /\ new.mapping = db.mapping /\ new.cache = db.cache /\ new.seen = db.seen
      /\ new.links = db.links \ ({c} \X fs)
  BY <1>0 DEF Content
<1>3. Request(new) /\ deleted' = deleted /\ touched' = touched \cup {c}
  BY <1>1 DEF Unlink
<1> HIDE DEF new
<1>4. \A x \in deleted' : GoneFrom(new, x)
  BY <1>0, <1>2, <1>3 DEF StoreInv, DeletedStaysGone, GoneFrom, Linked
<1>5. \A x \in Codes \ touched' : new.mapping[x] # NoFood =>
          db.mapping[x] # NoFood /\ (Linked(db, x) # {} => Linked(new, x) # {})
  BY <1>2, <1>3 DEF Linked
<1>6. QED
  BY <1>0, <1>2, <1>3, <1>4, <1>5, RequestKeeps

LEMMA RenameKeeps ==
    ASSUME StoreInv, NEW c \in Codes, Rename(c)
    PROVE  StoreInv'
<1>0. db \in Content /\ deleted \subseteq Codes /\ touched \subseteq Codes
  BY DEF StoreInv, TypeOK
<1>1. db.cache[c] # NoRow /\ db.cache[c] \in Row
  BY <1>0, ContentParts DEF Rename
<1>2. PICK row \in Row : Request([db EXCEPT !.cache[c] = row])
  BY DEF Rename
<1> DEFINE new == [db EXCEPT !.cache[c] = row]
<1>3. /\ new \in Content
      /\ new.tables = db.tables /\ new.columns = db.columns /\ new.done = db.done
      /\ new.ids = db.ids
      /\ new.mapping = db.mapping /\ new.seen = db.seen /\ new.links = db.links
  BY <1>0 DEF Content
<1>4. \A x \in Codes \ {c} : new.cache[x] = db.cache[x]
  BY <1>0 DEF Content
<1>5. Request(new) /\ deleted' = deleted \ {c} /\ touched' = touched
  BY <1>2 DEF Rename, Uses
<1> HIDE DEF new
<1>6. \A x \in deleted' : GoneFrom(new, x)
  BY <1>0, <1>3, <1>4, <1>5 DEF StoreInv, DeletedStaysGone, GoneFrom, Linked
<1>7. \A x \in Codes \ touched' : new.mapping[x] # NoFood =>
          db.mapping[x] # NoFood /\ (Linked(db, x) # {} => Linked(new, x) # {})
  BY <1>3 DEF Linked
<1>8. QED
  BY <1>0, <1>3, <1>5, <1>6, <1>7, RequestKeeps

LEMMA DeleteKeeps ==
    ASSUME StoreInv, NEW c \in Codes, Delete(c)
    PROVE  StoreInv'
<1> DEFINE new == DeletedFrom(db, c)
<1>0. db \in Content /\ deleted \subseteq Codes /\ touched \subseteq Codes
  BY DEF StoreInv, TypeOK
<1>1. /\ new \in Content
      /\ new.tables = db.tables /\ new.columns = db.columns /\ new.done = db.done
      /\ new.ids = db.ids
      /\ new.links = db.links \ ({c} \X Foods) /\ new.seen = db.seen \ {c}
  BY <1>0 DEF DeletedFrom, Content
<1>2. /\ new.mapping[c] = NoFood /\ new.cache[c] = NoRow
      /\ \A x \in Codes \ {c} : /\ new.mapping[x] = db.mapping[x]
                              /\ new.cache[x] = db.cache[x]
  BY <1>0 DEF DeletedFrom, Content
<1>3. Request(new) /\ deleted' = deleted \cup {c} /\ touched' = touched \cup {c}
  BY DEF Delete
<1> HIDE DEF new
<1>4. \A x \in deleted' : GoneFrom(new, x)
  BY <1>0, <1>1, <1>2, <1>3 DEF StoreInv, DeletedStaysGone, GoneFrom, Linked
<1>5. \A x \in Codes \ touched' : new.mapping[x] # NoFood =>
          db.mapping[x] # NoFood /\ (Linked(db, x) # {} => Linked(new, x) # {})
  BY <1>1, <1>2, <1>3 DEF Linked
<1>6. QED
  BY <1>0, <1>1, <1>3, <1>4, <1>5, RequestKeeps

LEMMA BulkDeleteKeeps ==
    ASSUME StoreInv, NEW c \in Codes, BulkDelete(c)
    PROVE  StoreInv'
<1> DEFINE new == [db EXCEPT !.links = @ \ ({c} \X Foods), !.cache[c] = NoRow,
                             !.seen = @ \ {c}]
<1>0. db \in Content /\ deleted \subseteq Codes /\ touched \subseteq Codes
  BY DEF StoreInv, TypeOK
<1>1. /\ new \in Content
      /\ new.tables = db.tables /\ new.columns = db.columns /\ new.done = db.done
      /\ new.ids = db.ids /\ new.mapping = db.mapping
      /\ new.links = db.links \ ({c} \X Foods) /\ new.seen = db.seen \ {c}
  BY <1>0 DEF Content
<1>2. new.cache[c] = NoRow /\ \A x \in Codes \ {c} : new.cache[x] = db.cache[x]
  BY <1>0 DEF Content
<1>3. Request(new) /\ deleted' = deleted /\ touched' = touched \cup {c}
  BY DEF BulkDelete
<1> HIDE DEF new
<1>4. \A x \in deleted' : GoneFrom(new, x)
  BY <1>0, <1>1, <1>2, <1>3 DEF StoreInv, DeletedStaysGone, GoneFrom, Linked
<1>5. \A x \in Codes \ touched' : new.mapping[x] # NoFood =>
          db.mapping[x] # NoFood /\ (Linked(db, x) # {} => Linked(new, x) # {})
  BY <1>1, <1>3 DEF Linked
<1>6. QED
  BY <1>0, <1>1, <1>3, <1>4, <1>5, RequestKeeps

\* A request that touches all barcodes and only takes away.
LEMMA AllTouched ==
    ASSUME StoreInv, NEW new \in Content, Request(new),
           new.tables = db.tables, new.columns = db.columns, new.done = db.done,
           new.ids = db.ids,
           new.links \subseteq db.links, new.seen \subseteq db.seen,
           \A x \in Codes : new.mapping[x] \in {db.mapping[x], NoFood},
           \A x \in Codes : new.cache[x] \in {db.cache[x], NoRow},
           touched' = Codes, UNCHANGED deleted
    PROVE  StoreInv'
<1>0. deleted \subseteq Codes /\ touched \subseteq Codes
  BY DEF StoreInv, TypeOK
<1>1. \A x \in deleted' : GoneFrom(new, x)
  BY <1>0 DEF StoreInv, DeletedStaysGone, GoneFrom, Linked
<1>2. QED
  BY <1>0, <1>1, RequestKeeps

LEMMA SweepsKeep == StoreInv /\ (Sync \/ Purge \/ Reset) => StoreInv'
<1> SUFFICES ASSUME StoreInv, Sync \/ Purge \/ Reset PROVE StoreInv'
  OBVIOUS
<1>0. db \in Content /\ touched' = Codes /\ UNCHANGED deleted
  BY DEF StoreInv, TypeOK, Sync, Purge, Reset
<1>1. NoMapping \in [Codes -> Foods \cup {NoFood}] /\ NoCache \in [Codes -> Row \cup {NoRow}]
  BY DEF NoMapping, NoCache
<1>2. CASE Sync
  <2>1. PICK fs \in SUBSET Foods :
            Request([db EXCEPT !.items = fs,
                               !.links = {l \in @ : l[2] \notin db.items \ fs}])
    BY <1>2 DEF Sync
  <2> DEFINE kept == {l \in db.links : l[2] \notin db.items \ fs}
  <2> DEFINE new == [db EXCEPT !.items = fs, !.links = kept]
  <2>2. kept \subseteq db.links /\ kept \in SUBSET (Codes \X Foods)
    BY <1>0, ContentParts
  <2>3. Request(new)
    BY <2>1
  <2> HIDE DEF kept
  <2>4. /\ new \in Content
        /\ new.tables = db.tables /\ new.columns = db.columns /\ new.done = db.done
        /\ new.ids = db.ids
        /\ new.mapping = db.mapping /\ new.cache = db.cache /\ new.seen = db.seen
        /\ new.links = kept
    BY <1>0, <2>2 DEF Content
  <2> HIDE DEF new
  <2>5. QED
    BY <1>0, <2>2, <2>3, <2>4, AllTouched
<1>3. CASE Purge
  <2>1. PICK kind \in {"barcode_cache", "barcode_mappings", "items", "activities"} :
            Request(Purged(db, kind))
    BY <1>3 DEF Purge
  <2> DEFINE new == Purged(db, kind)
  <2>2. \/ new = [db EXCEPT !.cache = NoCache]
        \/ new = [db EXCEPT !.mapping = NoMapping]
        \/ new = [db EXCEPT !.items = {}, !.mapping = NoMapping]
        \/ new = [db EXCEPT !.seen = {}]
    BY DEF Purged
  <2> HIDE DEF new
  <2>3. new \in Content
    BY <1>0, <1>1, <2>2 DEF Content
  <2>4. /\ new.tables = db.tables /\ new.columns = db.columns /\ new.done = db.done
        /\ new.ids = db.ids
        /\ new.links = db.links /\ new.seen \subseteq db.seen
        /\ new.mapping \in {db.mapping, NoMapping} /\ new.cache \in {db.cache, NoCache}
    BY <1>0, <2>2 DEF Content
  <2>5. /\ \A x \in Codes : new.mapping[x] \in {db.mapping[x], NoFood}
        /\ \A x \in Codes : new.cache[x] \in {db.cache[x], NoRow}
    BY <2>4 DEF NoMapping, NoCache
  <2>6. Request(new)
    BY <2>1 DEF new
  <2>7. QED
    BY <1>0, <2>3, <2>4, <2>5, <2>6, AllTouched
<1>4. CASE Reset
  <2> DEFINE new == [db EXCEPT !.mapping = NoMapping, !.cache = NoCache,
                               !.items = {}, !.seen = {}]
  <2>1. Request(new)
    BY <1>4 DEF Reset
  <2>2. /\ new \in Content
        /\ new.tables = db.tables /\ new.columns = db.columns /\ new.done = db.done
        /\ new.ids = db.ids
        /\ new.links = db.links /\ new.seen \subseteq db.seen
        /\ new.mapping = NoMapping /\ new.cache = NoCache
    BY <1>0, <1>1 DEF Content
  <2> HIDE DEF new
  <2>3. /\ \A x \in Codes : new.mapping[x] = NoFood
        /\ \A x \in Codes : new.cache[x] = NoRow
    BY <2>2 DEF NoMapping, NoCache
  <2>4. QED
    BY <1>0, <2>1, <2>2, <2>3, AllTouched
<1>5. QED
  BY <1>2, <1>3, <1>4

LEMMA StartsUpKeeps == StoreInv /\ StartsUp => StoreInv'
<1> SUFFICES ASSUME StoreInv, StartsUp PROVE StoreInv'
  OBVIOUS
<1>1. "is_dismissed" \in Columns /\ "updated_at" \in Columns
  BY DEF Columns
<1>2. CASE AddColumn("is_dismissed", "is_dismissed_rows", "cache")
           \/ FillColumn("is_dismissed", "is_dismissed_rows", "cache")
  BY <1>1, <1>2, ColumnsKeep
<1>3. CASE AddColumn("updated_at", "updated_at_rows", "mappings")
           \/ FillColumn("updated_at", "updated_at_rows", "mappings")
  BY <1>1, <1>3, ColumnsKeep
<1>4. CASE Starts \/ RepairCache \/ DropMappings \/ CreateTables \/ Migrate
  BY <1>4, StartsKeepsInv, RepairKeeps, DropKeeps, CreateKeeps, MigrateKeeps
<1>5. QED
  BY <1>2, <1>3, <1>4 DEF StartsUp

LEMMA StoreStep == StoreInv /\ [Next]_vars => StoreInv'
<1> SUFFICES ASSUME StoreInv, [Next]_vars PROVE StoreInv'
  OBVIOUS
<1>1. CASE UNCHANGED vars
  <2>1. UNCHANGED <<db, at, copy, writes, starts, deleted, touched, before, cut>>
    BY <1>1 DEF vars
  <2>2. TypeOK'
    BY <2>1 DEF StoreInv, TypeOK
  <2>3. StepsDone' /\ Upgraded' /\ DeletedStaysGone'
    BY <2>1 DEF StoreInv, StepsDone, Upgraded, DeletedStaysGone, Linked
  <2>4. CopyInv' /\ BackupIsSnapshot' /\ ColumnsInv'
    BY <2>1 DEF StoreInv, CopyInv, BackupIsSnapshot, InBackup, ColumnsInv
  <2>5. QED
    BY <2>2, <2>3, <2>4 DEF StoreInv
<1>2. CASE StartsUp \/ Stops \/ Restore
  BY <1>2, StartsUpKeeps, StopsKeepsInv, RestoreKeeps
<1>3. CASE BackupBegins \/ CopyFirst \/ CopyLast
  BY <1>3, BackupsKeep
<1>4. ASSUME NEW c \in Codes,
             \/ \E f \in Foods \cup {NoFood} : Register(c, f)
             \/ \E f \in Foods : Link(c, f)
             \/ Scan(c) \/ Unlink(c) \/ Rename(c) \/ Delete(c)
             \/ BulkDelete(c)
      PROVE  StoreInv'
  BY <1>4, RegisterKeeps, LinkKeeps, ScanKeeps, UnlinkKeeps, RenameKeeps, DeleteKeeps,
     BulkDeleteKeeps
<1>5. CASE Sync \/ Purge \/ Reset
  BY <1>5, SweepsKeep
<1>6. QED
  BY <1>1, <1>2, <1>3, <1>4, <1>5 DEF Next

\* In a behaviour of all of what is stored, the database moves or rests.
LEMMA DatabaseMoves == [MCNext]_all => [Next]_vars
BY DEF MCNext, all, vars

LEMMA StoreInvAlways == MCSpec => []StoreInv
<1>1. MCInit => StoreInv
  BY StoreInvInit DEF MCInit
<1>2. StoreInv /\ [MCNext]_all => StoreInv'
  BY StoreStep, DatabaseMoves
<1>3. QED
  BY <1>1, <1>2, PTL DEF MCSpec

\* However often the server is killed on its way up and whatever requests
\* write: once it is up the upgrade is complete, but for the values of columns
\* whose start-up was killed before it had them, what was deleted stays away
\* through any number of starts, and a backup is what the database was at
\* one moment (init_db, run_schema_migrations, barcode_delete,
\* create_verified_sqlite_backup).
THEOREM DatabaseCorrectAlways == MCSpec => []DatabaseCorrect
<1>1. StoreInv => DatabaseCorrect
  BY DEF StoreInv, DatabaseCorrect, StoreCorrect
<1>2. QED
  BY <1>1, StoreInvAlways, PTL

-----------------------------------------------------------------------------
(* A start of the server goes on with what was stored.                     *)

Later == {"updated_at", "updated_at_rows", "mappings", "tables", "migrations"}

\* What the tries so far have made of what the server was last up with.
Resumes ==
    /\ at = "up" => before = db
    /\ at # "up" =>
         /\ db.links = before.links /\ db.items = before.items
         /\ db.seen = before.seen
         /\ before.ids => db.ids /\ db.mapping = before.mapping
         /\ ~before.ids /\ db.ids => db.mapping = NoMapping
         /\ \A c \in Codes : \/ db.cache[c] = before.cache[c]
                             \/ Mended(before.cache[c], db.cache[c])
    /\ at \in Later => \A c \in Codes : Mended(before.cache[c], db.cache[c])

\* A step that leaves the rows, or goes on with them.
LEMMA RowsStay ==
    ASSUME Resumes, at # "up", at' # "up", at' \in Later => at \in Later,
           db'.links = db.links, db'.items = db.items, db'.seen = db.seen,
           db'.cache = db.cache, db'.mapping = db.mapping, db'.ids = db.ids,
           before' = before
    PROVE  Resumes'
BY DEF Resumes, Mended

LEMMA ColumnsResume ==
    ASSUME StoreInv, Resumes, NEW k \in Columns,
           NEW rest \in {"is_dismissed_rows", "updated_at_rows"},
           NEW next \in {"cache", "mappings"},
           <<k, rest, next>> \in {<<"is_dismissed", "is_dismissed_rows", "cache">>,
                                  <<"updated_at", "updated_at_rows", "mappings">>},
           AddColumn(k, rest, next) \/ FillColumn(k, rest, next)
    PROVE  Resumes'
<1>1. db \in Content
  BY DEF StoreInv, TypeOK
<1>2. \/ k = "is_dismissed" /\ rest = "is_dismissed_rows" /\ next = "cache"
      \/ k = "updated_at" /\ rest = "updated_at_rows" /\ next = "mappings"
  OBVIOUS
<1>3. PICK columns : db' = [db EXCEPT !.columns = columns] \/ db' = db
  BY DEF AddColumn, FillColumn, Step
<1>4. /\ db'.links = db.links /\ db'.items = db.items /\ db'.seen = db.seen
      /\ db'.cache = db.cache /\ db'.mapping = db.mapping /\ db'.ids = db.ids
  BY <1>1, <1>3 DEF Content
<1>5. /\ at \in {k, rest} /\ at' \in {rest, next}
      /\ before' = before
  BY <1>2 DEF AddColumn, FillColumn, Step
<1>6. QED
  BY <1>2, <1>4, <1>5, RowsStay DEF Later

LEMMA RepairResumes == StoreInv /\ Resumes /\ RepairCache => Resumes'
<1> SUFFICES ASSUME StoreInv, Resumes, RepairCache PROVE Resumes'
  OBVIOUS
<1>1. db \in Content /\ before \in Content
  BY DEF StoreInv, TypeOK
<1> DEFINE mended == [c \in Codes |->
             IF db.cache[c] # NoRow /\ db.cache[c].custom
             THEN [db.cache[c] EXCEPT !.found = TRUE] ELSE db.cache[c]]
<1>2. /\ at = "cache" /\ at' = "updated_at" /\ before' = before
      /\ db' = [db EXCEPT !.cache = mended]
  BY DEF RepairCache, Step
<1>3. ASSUME NEW c \in Codes PROVE Mended(before.cache[c], mended[c])
  <2>1. db.cache[c] \in Row \cup {NoRow} /\ before.cache[c] \in Row \cup {NoRow}
    BY <1>1, ContentParts
  <2>2. \A row \in Row : row # NoRow
    BY DEF Row, NoRow
  <2>3. CASE db.cache[c] = before.cache[c]
    BY <2>1, <2>2, <2>3 DEF Mended, Row
  <2>4. CASE Mended(before.cache[c], db.cache[c])
    BY <2>1, <2>2, <2>4 DEF Mended, Row
  <2>5. QED
    BY <1>2, <2>3, <2>4 DEF Resumes
<1> HIDE DEF mended
<1>4. /\ db'.links = db.links /\ db'.items = db.items /\ db'.seen = db.seen
      /\ db'.cache = mended /\ db'.mapping = db.mapping /\ db'.ids = db.ids
  BY <1>1, <1>2 DEF Content
<1>5. QED
  BY <1>2, <1>3, <1>4 DEF Resumes, Mended

LEMMA DropResumes == StoreInv /\ Resumes /\ DropMappings => Resumes'
<1> SUFFICES ASSUME StoreInv, Resumes, DropMappings PROVE Resumes'
  OBVIOUS
<1>1. db \in Content /\ ColumnsInv
  BY DEF StoreInv, TypeOK
<1>2. at = "mappings" /\ at' = "tables" /\ before' = before
  BY DEF DropMappings, Step
<1>3. CASE db.ids
  <2>1. db' = db
    BY <1>3 DEF DropMappings, Step
  <2>2. QED
    BY <1>2, <2>1, RowsStay DEF Later
<1>4. CASE ~db.ids
  <2>1. db' = [db EXCEPT !.mapping = NoMapping, !.ids = TRUE]
    BY <1>1, <1>4 DEF DropMappings, Step, ColumnsInv
  <2>2. /\ db'.links = db.links /\ db'.items = db.items /\ db'.seen = db.seen
        /\ db'.cache = db.cache /\ db'.mapping = NoMapping /\ db'.ids
    BY <1>1, <2>1 DEF Content
  <2>3. QED
    BY <1>2, <1>4, <2>2 DEF Resumes, Mended, Later
<1>5. QED
  BY <1>3, <1>4

LEMMA TablesResume == StoreInv /\ Resumes /\ CreateTables => Resumes'
<1> SUFFICES ASSUME StoreInv, Resumes, CreateTables PROVE Resumes'
  OBVIOUS
<1>1. db \in Content
  BY DEF StoreInv, TypeOK
<1>2. PICK columns : db' = [db EXCEPT !.tables = "all", !.columns = columns]
  BY DEF CreateTables, Step
<1>3. /\ db'.links = db.links /\ db'.items = db.items /\ db'.seen = db.seen
      /\ db'.cache = db.cache /\ db'.mapping = db.mapping /\ db'.ids = db.ids
  BY <1>1, <1>2 DEF Content
<1>4. at = "tables" /\ at' = "migrations" /\ before' = before
  BY DEF CreateTables, Step
<1>5. QED
  BY <1>3, <1>4, RowsStay DEF Later

LEMMA ResumesStep == StoreInv /\ Resumes /\ [Next]_vars => Resumes'
<1> SUFFICES ASSUME StoreInv, Resumes, [Next]_vars PROVE Resumes'
  OBVIOUS
<1>1. CASE UNCHANGED vars
  BY <1>1 DEF vars, Resumes, Mended
<1>2. CASE Starts
  <2>1. db' = db /\ before' = before /\ at = "down" /\ at' = "is_dismissed"
    BY <1>2 DEF Starts
  <2>2. QED
    BY <2>1, RowsStay DEF Later
<1>3. CASE Stops
  <2>1. db' = db /\ before' = before /\ at' = "down"
    BY <1>3 DEF Stops
  <2>2. QED
    BY <2>1 DEF Resumes, Mended, Later
<1>4. CASE Restore
  <2>1. db' = InBackup /\ before' = InBackup /\ at' = "down"
    BY <1>4 DEF Restore
  <2>2. db' = before'
    BY <2>1
  <2>3. QED
    BY <2>1, <2>2 DEF Resumes, Later
<1>5. CASE BackupBegins \/ CopyFirst \/ CopyLast
  BY <1>5 DEF BackupBegins, CopyFirst, CopyLast, Resumes, Mended
<1>6. CASE RepairCache \/ DropMappings \/ CreateTables
  BY <1>6, RepairResumes, DropResumes, TablesResume
<1>7. CASE Migrate
  BY <1>7 DEF Migrate, Step, Resumes, Later
<1>8. CASE \/ AddColumn("is_dismissed", "is_dismissed_rows", "cache")
           \/ FillColumn("is_dismissed", "is_dismissed_rows", "cache")
           \/ AddColumn("updated_at", "updated_at_rows", "mappings")
           \/ FillColumn("updated_at", "updated_at_rows", "mappings")
  BY <1>8, ColumnsResume DEF Columns
<1>9. ASSUME NEW new, Request(new) PROVE Resumes'
  BY <1>9 DEF Request, Resumes, Later
<1>10. CASE Sync \/ Purge \/ Reset
  BY <1>9, <1>10 DEF Sync, Purge, Reset
<1>11. ASSUME NEW c \in Codes,
              \/ \E f \in Foods \cup {NoFood} : Register(c, f)
              \/ \E f \in Foods : Link(c, f)
              \/ Scan(c) \/ Unlink(c) \/ Rename(c) \/ Delete(c)
              \/ BulkDelete(c)
       PROVE  Resumes'
  BY <1>9, <1>11 DEF Register, Link, Scan, Unlink, Rename, Delete, BulkDelete
<1>12. QED
  BY <1>1, <1>2, <1>3, <1>4, <1>5, <1>6, <1>7, <1>8, <1>10, <1>11 DEF Next, StartsUp

LEMMA ResumesAlways == MCSpec => []Resumes
<1>1. MCInit => Resumes
  BY DEF MCInit, Init, Resumes, Later
<1>2. StoreInv /\ Resumes /\ [MCNext]_all => Resumes'
  BY ResumesStep, DatabaseMoves
<1>3. QED
  BY <1>1, <1>2, StoreInvAlways, PTL DEF MCSpec

\* The last step of a start-up forwards what is left to forward.
LEMMA MigrateContinues ==
    ASSUME StoreInv, Resumes, Migrate
    PROVE  Continues(before, db')
<1>1. db \in Content /\ StepsDone
  BY DEF StoreInv, TypeOK
<1>2. at = "migrations" /\ db' = [db EXCEPT !.links = Forwarded(db), !.done = Migrations]
  BY DEF Migrate, Step
<1>3. /\ db'.links = Forwarded(db) /\ db'.items = db.items /\ db'.seen = db.seen
      /\ db'.cache = db.cache /\ db'.mapping = db.mapping
  BY <1>1, <1>2 DEF Content
<1>4. /\ db.links = before.links /\ db.items = before.items /\ db.seen = before.seen
      /\ \A c \in Codes : Mended(before.cache[c], db.cache[c])
      /\ before.ids => db.mapping = before.mapping
      /\ ~before.ids => db.mapping = NoMapping
  BY <1>1, <1>2 DEF Resumes, Later, StepsDone
<1>5. ASSUME NEW c \in Codes
      PROVE  Linked(db', c) = IF Linked(db, c) # {} THEN Linked(db, c)
                              ELSE {db.mapping[c]} \ {NoFood}
  <2>1. db.mapping[c] # NoFood => db.mapping[c] \in Foods
    BY <1>1, ContentParts
  <2>2. Linked(db', c) = {f \in Foods : <<c, f>> \in Forwarded(db)}
    BY <1>3 DEF Linked
  <2>3. \A f \in Foods : <<c, f>> \in Forwarded(db) <=>
            \/ <<c, f>> \in db.links
            \/ f = db.mapping[c] /\ db.mapping[c] # NoFood /\ Linked(db, c) = {}
    BY DEF Forwarded
  <2>4. CASE Linked(db, c) # {}
    BY <2>2, <2>3, <2>4 DEF Linked
  <2>5. CASE Linked(db, c) = {}
    <3>1. \A f \in Foods : <<c, f>> \notin db.links
      BY <2>5 DEF Linked
    <3>2. QED
      BY <2>1, <2>2, <2>3, <2>5, <3>1
  <2>6. QED
    BY <2>4, <2>5
<1>6. \A c \in Codes : Linked(db, c) = Linked(before, c)
  BY <1>4 DEF Linked
<1>7. \A c \in Codes : db'.mapping[c] = IF before.ids THEN before.mapping[c] ELSE NoFood
  BY <1>3, <1>4 DEF NoMapping
<1>8. \A c \in Codes : Mended(before.cache[c], db'.cache[c])
  BY <1>3, <1>4
<1>9. QED
  BY <1>3, <1>4, <1>5, <1>6, <1>7, <1>8 DEF Continues

\* Only that step brings the server up.
LEMMA StartContinuesStep == StoreInv /\ Resumes /\ Next => StartContinues
<1> SUFFICES ASSUME StoreInv, Resumes, Next, at # "up", at' = "up"
             PROVE  Continues(before, db')
  BY DEF StartContinues
<1>1. Migrate
  <2>1. ~(Starts \/ Stops \/ Restore \/ BackupBegins \/ CopyFirst \/ CopyLast)
    BY DEF Starts, Stops, Restore, BackupBegins, CopyFirst, CopyLast
  <2>2. ~(RepairCache \/ DropMappings \/ CreateTables)
    BY DEF RepairCache, DropMappings, CreateTables, Step
  <2>3. ~ \/ AddColumn("is_dismissed", "is_dismissed_rows", "cache")
          \/ FillColumn("is_dismissed", "is_dismissed_rows", "cache")
          \/ AddColumn("updated_at", "updated_at_rows", "mappings")
          \/ FillColumn("updated_at", "updated_at_rows", "mappings")
    BY DEF AddColumn, FillColumn, Step
  <2>4. \A new : ~Request(new)
    BY DEF Request
  <2>5. ~(Sync \/ Purge \/ Reset)
    BY <2>4 DEF Sync, Purge, Reset
  <2>6. \A c \in Codes :
            ~ \/ \E f \in Foods \cup {NoFood} : Register(c, f)
              \/ \E f \in Foods : Link(c, f)
              \/ Scan(c) \/ Unlink(c) \/ Rename(c) \/ Delete(c) \/ BulkDelete(c)
    BY <2>4 DEF Register, Link, Scan, Unlink, Rename, Delete, BulkDelete
  <2>7. QED
    BY <2>1, <2>2, <2>3, <2>5, <2>6 DEF Next, StartsUp
<1>2. QED
  BY <1>1, MigrateContinues

\* A restart in the same environment loads what memory held.
LEMMA RestartKeepsStep == SettingsInv /\ S!Next => S!RestartKeeps
<1> SUFFICES ASSUME SettingsInv, S!Next, ~up, up', boots > 0,
                    NEW k \in Keys \ overlapped, env'[k] = env[k]
             PROVE  S!Effective(memory', env', k) = S!Effective(memory, env, k)
  BY DEF S!RestartKeeps
<1>1. S!TypeOK /\ AtWork = {}
  BY DEF SettingsInv, DownIdle
<1>2. Agrees(k)
  <2>1. \A r \in Slots : form[r].at = "free"
    BY <1>1 DEF AtWork
  <2>2. ~S!Changing(k)
    BY <2>1 DEF S!Changing
  <2>3. QED
    BY <2>2 DEF SettingsInv, Agree
<1>3. S!Starts
  BY DEF S!Next, S!Stops, S!Saves, S!Resets, S!Look, S!Commit, S!Remember
<1> DEFINE kept == [j \in Keys |-> IF j \in S!Redundant(env') THEN S!None ELSE rows[j]]
<1>4. memory' = S!Loaded(kept)
  BY <1>3 DEF S!Starts, S!Loads
<1>5. kept[k] = rows[k]
  <2>1. memory[k] = IF rows[k] = S!None THEN S!None ELSE S!Coerce(rows[k])
    BY <1>2 DEF Agrees, S!Loaded
  <2>2. rows[k] # S!None => S!Coerce(rows[k]) # env'[k]
    BY <1>2, <2>1 DEF Agrees
  <2>3. k \notin S!Redundant(env')
    BY <2>2 DEF S!Redundant
  <2>4. QED
    BY <2>3
<1> HIDE DEF kept
<1>6. memory'[k] = memory[k]
  BY <1>2, <1>4, <1>5 DEF Agrees, S!Loaded
<1>7. QED
  BY <1>6 DEF S!Effective

\* A start-up, killed anywhere and repeated, ends with what an undisturbed one
\* makes of what the server was last up with, and a restart in the same
\* environment changes no setting but one whose last changes overlapped
\* (init_db, run_schema_migrations, load_overrides_from_db).
THEOREM RestartsKeepAlways == MCSpec => RestartsKeep
<1>1. StoreInv /\ Resumes /\ [MCNext]_all => [StartContinues]_vars
  BY StartContinuesStep, DatabaseMoves
<1>2. SettingsInv /\ [MCNext]_all => [S!RestartKeeps]_(S!vars)
  BY RestartKeepsStep, SettingsMove
<1>3. QED
  BY <1>1, <1>2, StoreInvAlways, ResumesAlways, SettingsInvAlways, PTL
  DEF MCSpec, RestartsKeep, StartsWhole, S!RestartsKeep

-----------------------------------------------------------------------------
(* Statistics: numbers and rows.                                           *)

LEMMA SmallestNumber ==
    ASSUME NEW X \in SUBSET Nat, X # {}
    PROVE  \E n \in X : \A m \in X : n <= m
<1> DEFINE Less == {ss \in Nat \X Nat : ss[1] < ss[2]}
<1>1. IsWellFoundedOn(Less, Nat)
  BY NatLessThanWellFounded DEF OpToRel
<1>2. PICK n \in X : \A m \in X : <<m, n>> \notin Less
  BY <1>1, WFMin
<1>3. \A m \in X : m \in Nat /\ n \in Nat /\ ~(m < n)
  BY <1>2
<1>4. QED
  BY <1>3

\* Induction over a finite set, with the set of its good subsets for a predicate.
LEMMA FiniteInduction ==
    ASSUME NEW X, IsFiniteSet(X), NEW good \in SUBSET (SUBSET X), {} \in good,
           \A Y \in SUBSET X : Y # {} => \E x \in Y : Y \ {x} \in good => Y \in good
    PROVE  X \in good
<1> DEFINE bad == {Y \in SUBSET X : Y \notin good}
           sizes == {Cardinality(Y) : Y \in bad}
<1>1. SUFFICES ASSUME X \notin good PROVE FALSE
  OBVIOUS
<1>2. \A Y \in SUBSET X : IsFiniteSet(Y) /\ Cardinality(Y) \in Nat
  BY FS_Subset, FS_CardinalityType
<1>3. sizes \subseteq Nat /\ sizes # {}
  BY <1>1, <1>2
<1>4. PICK n \in sizes : \A m \in sizes : n <= m
  BY <1>3, SmallestNumber
<1>5. PICK Y \in SUBSET X : Y \notin good /\ Cardinality(Y) = n
  BY <1>4
<1>6. Y # {}
  <2> HIDE DEF bad, sizes
  <2>1. ASSUME Y = {} PROVE Y \in good
    BY <2>1
  <2>2. QED
    BY <1>5, <2>1
<1>7. PICK x \in Y : Y \ {x} \in good => Y \in good
  BY <1>6
<1>8. Y \ {x} \in bad
  BY <1>5, <1>7
<1>9. Cardinality(Y \ {x}) = Cardinality(Y) - 1
  BY <1>2, <1>5, <1>7, FS_RemoveElement
<1>10. Cardinality(Y) <= Cardinality(Y \ {x})
  BY <1>4, <1>5, <1>8
<1>11. Cardinality(Y) \in Nat
  BY <1>2, <1>5
<1>12. QED
  <2> HIDE DEF bad, sizes
  <2>1. QED
    BY <1>9, <1>10, <1>11

LEMMA BiggestNumber ==
    ASSUME NEW X \in SUBSET Nat, IsFiniteSet(X), X # {}
    PROVE  \E n \in X : \A m \in X : m <= n
<1> DEFINE Top(Y) == \E n \in Y : \A m \in Y : m <= n
           good == {Y \in SUBSET X : Y = {} \/ Top(Y)}
<1>1. ASSUME NEW Y \in SUBSET X, NEW n \in Y, Y \ {n} \in good PROVE Y \in good
  <2>1. CASE Y \ {n} = {}
    BY <2>1, <1>1
  <2>2. CASE Top(Y \ {n})
    <3>1. PICK m \in Y \ {n} : \A k \in Y \ {n} : k <= m
      BY <2>2
    <3>2. n <= m \/ m <= n
      BY <1>1, <3>1
    <3>3. Top(Y)
      BY <1>1, <3>1, <3>2
    <3>4. QED
      BY <3>3
  <2>3. QED
    BY <1>1, <2>1, <2>2
<1>2. ASSUME NEW Y \in SUBSET X, Y # {}
      PROVE  \E n \in Y : Y \ {n} \in good => Y \in good
  <2> HIDE DEF good
  <2>1. QED
    BY <1>1, <1>2
<1>3. X \in good
  <2> HIDE DEF good
  <2>1. good \in SUBSET (SUBSET X) /\ {} \in good
    BY DEF good
  <2>2. QED
    BY <1>2, <2>1, FiniteInduction
<1>4. QED
  BY <1>3

LEMMA LeastAndGreatest ==
    ASSUME NEW X \in SUBSET Nat, IsFiniteSet(X), X # {}
    PROVE  /\ T!Min(X) \in X /\ \A m \in X : T!Min(X) <= m
           /\ T!Max(X) \in X /\ \A m \in X : m <= T!Max(X)
<1>1. \E n \in X : \A m \in X : n >= m
  BY BiggestNumber
<1>2. \E n \in X : \A m \in X : n =< m
  BY SmallestNumber
<1>3. T!Max(X) \in X /\ \A m \in X : m <= T!Max(X)
  BY <1>1 DEF T!Max
<1>4. T!Min(X) \in X /\ \A m \in X : T!Min(X) <= m
  BY <1>2 DEF T!Min
<1>5. QED
  BY <1>3, <1>4

LEMMA OfTwo ==
    ASSUME NEW x \in Int, NEW y \in Int
    PROVE  /\ T!Min({x, y}) = IF x <= y THEN x ELSE y
           /\ T!Max({x, y}) = IF x <= y THEN y ELSE x
<1>1. \E n \in {x, y} : \A m \in {x, y} : n >= m
  OBVIOUS
<1>2. \E n \in {x, y} : \A m \in {x, y} : n =< m
  OBVIOUS
<1>3. T!Max({x, y}) \in {x, y} /\ \A m \in {x, y} : m <= T!Max({x, y})
  BY <1>1 DEF T!Max
<1>4. T!Min({x, y}) \in {x, y} /\ \A m \in {x, y} : T!Min({x, y}) <= m
  BY <1>2 DEF T!Min
<1>5. QED
  BY <1>3, <1>4

LEMMA OneMore ==
    ASSUME NEW X \in SUBSET Nat, IsFiniteSet(X), X # {}, NEW a \in Nat
    PROVE  /\ T!Min(X \cup {a}) = T!Min({T!Min(X), a})
           /\ T!Max(X \cup {a}) = T!Max({T!Max(X), a})
<1> DEFINE Y == X \cup {a}
<1>1. Y \in SUBSET Nat /\ IsFiniteSet(Y) /\ Y # {}
  BY FS_AddElement
<1>2. /\ T!Min(Y) \in Y /\ \A m \in Y : T!Min(Y) <= m
      /\ T!Max(Y) \in Y /\ \A m \in Y : m <= T!Max(Y)
  BY <1>1, LeastAndGreatest
<1>3. /\ T!Min(X) \in X /\ \A m \in X : T!Min(X) <= m
      /\ T!Max(X) \in X /\ \A m \in X : m <= T!Max(X)
  BY LeastAndGreatest
<1>0. T!Min(X) \in Int /\ T!Max(X) \in Int /\ a \in Int
  <2>1. T!Min(X) \in X /\ T!Max(X) \in X
    BY <1>3
  <2>2. \A n \in X : n \in Int
    OBVIOUS
  <2>3. T!Min(X) \in Int
    BY <2>1, <2>2
  <2>4. T!Max(X) \in Int
    BY <2>1, <2>2
  <2>5. a \in Int
    OBVIOUS
  <2>6. QED
    BY <2>3, <2>4, <2>5
<1>4. /\ T!Min({T!Min(X), a}) = IF T!Min(X) <= a THEN T!Min(X) ELSE a
      /\ T!Max({T!Max(X), a}) = IF T!Max(X) <= a THEN a ELSE T!Max(X)
  <2>1. T!Min({T!Min(X), a}) = IF T!Min(X) <= a THEN T!Min(X) ELSE a
    BY <1>0, OfTwo
  <2>2. T!Max({T!Max(X), a}) = IF T!Max(X) <= a THEN a ELSE T!Max(X)
    BY <1>0, OfTwo
  <2>3. QED
    BY <2>1, <2>2
<1> DEFINE u == T!Min(Y)
           v == T!Max(Y)
           p == T!Min(X)
           q == T!Max(X)
<1>5. u \in Y /\ p \in X /\ v \in Y /\ q \in X
  BY <1>2, <1>3
<1>6. u <= p /\ u <= a /\ q <= v /\ a <= v
  BY <1>2, <1>3
<1>7. (u \in X => p <= u) /\ (v \in X => v <= q)
  BY <1>3
<1> HIDE DEF u, v, p, q
<1>8. u = (IF p <= a THEN p ELSE a) /\ v = (IF q <= a THEN a ELSE q)
  BY <1>5, <1>6, <1>7
<1>9. QED
  BY <1>4, <1>8 DEF u, v, p, q

-----------------------------------------------------------------------------
(* Statistics: the inductive invariant.                                    *)

CountsFit ==
    /\ IsFiniteSet(raw) /\ IsFiniteSet(seen)
    /\ \A s \in seen : /\ s \in [row : T!Row, in : SUBSET T!Tables]
                       /\ s.row.n <= MaxOld + scans

FillFits ==
    /\ phase # "fill" => filled = {}
    /\ phase = "fill" =>
           /\ table \notin complete
           /\ \A k \in T!KeysOf(table) : stat[k] = T!StatOf(filled, k)

JobFits == job.at # "idle" => complete = T!Tables

StatsInv == /\ T!TypeOK /\ CountsFit /\ FillFits /\ JobFits
            /\ T!TablesExact /\ T!RowsWait

-----------------------------------------------------------------------------
(* Statistics: what a set of rows counts for.                              *)

Mine(ps, k) == {p \in ps : k \in T!Counted(p)}

Times(ps) == {p.at : p \in ps}

LEMMA StatsNumbers ==
    /\ MaxOld \in Nat /\ MaxScans \in Nat /\ MaxRemovals \in Nat /\ MaxFaults \in Nat
    /\ MaxTime \in Nat /\ Retention \in Nat /\ T!AnyTarget \notin Goals
BY StatsAssumption

LEMMA SameFinite ==
    ASSUME NEW X
    PROVE  T!Cardinality(X) = Cardinality(X)
BY DEF T!Cardinality, Cardinality

LEMMA StatForm ==
    ASSUME NEW ps, NEW k
    PROVE  /\ Mine(ps, k) = {} => T!StatOf(ps, k) = T!NoStat
           /\ Mine(ps, k) # {} =>
                  T!StatOf(ps, k) = [count |-> Cardinality(Mine(ps, k)),
                                     first |-> T!Min(Times(Mine(ps, k))),
                                     last |-> T!Max(Times(Mine(ps, k)))]
BY SameFinite DEF T!StatOf, Mine, Times

LEMMA RowFacts ==
    ASSUME NEW p \in T!Row
    PROVE  p.at \in 0..MaxTime /\ p.at \in Nat /\ p.id \in Nat /\ p.id > 0
           /\ p.n \in 1..(MaxOld + MaxScans) /\ p.code \in Bars /\ p.targets \in SUBSET Goals
<1>1. p.at \in 0..MaxTime /\ p.id \in Nat \ {0} /\ p.n \in 1..(MaxOld + MaxScans)
      /\ p.code \in Bars /\ p.targets \in SUBSET Goals
  BY DEF T!Row
<1>2. QED
  BY <1>1, StatsNumbers

LEMMA TimesFacts ==
    ASSUME NEW ps \in SUBSET T!Row, IsFiniteSet(ps)
    PROVE  /\ Times(ps) \in SUBSET (0..MaxTime) /\ Times(ps) \in SUBSET Nat
           /\ IsFiniteSet(Times(ps))
           /\ ps # {} => Times(ps) # {}
<1>1. \A p \in ps : p.at \in 0..MaxTime /\ p.at \in Nat
  BY RowFacts
<1>2. IsFiniteSet(Times(ps))
  <2> DEFINE f == [p \in ps |-> p.at]
  <2>1. f \in [ps -> Times(ps)] /\ \A t \in Times(ps) : \E p \in ps : f[p] = t
    BY DEF Times
  <2> HIDE DEF f
  <2>2. QED
    BY <2>1, FS_Surjection DEF Surjection
<1>3. QED
  BY <1>1, <1>2 DEF Times

LEMMA MineFacts ==
    ASSUME NEW ps \in SUBSET T!Row, IsFiniteSet(ps), NEW k
    PROVE  Mine(ps, k) \in SUBSET T!Row /\ IsFiniteSet(Mine(ps, k))
           /\ Cardinality(Mine(ps, k)) \in Nat
           /\ (Mine(ps, k) # {} => Cardinality(Mine(ps, k)) > 0)
<1>1. Mine(ps, k) \subseteq ps
  BY DEF Mine
<1>2. IsFiniteSet(Mine(ps, k))
  BY <1>1, FS_Subset
<1>3. QED
  BY <1>1, <1>2, FS_CardinalityType, FS_EmptySet

LEMMA StatIsTyped ==
    ASSUME NEW ps \in SUBSET T!Row, IsFiniteSet(ps), NEW k
    PROVE  T!StatOf(ps, k) \in T!Stat
<1> DEFINE ms == Mine(ps, k)
<1>1. ms \in SUBSET T!Row /\ IsFiniteSet(ms) /\ Cardinality(ms) \in Nat
  BY MineFacts
<1>2. CASE ms = {}
  <2>1. T!StatOf(ps, k) = T!NoStat
    BY <1>2, StatForm
  <2>2. QED
    BY <2>1 DEF T!NoStat, T!Stat
<1>3. CASE ms # {}
  <2>1. Times(ms) \in SUBSET (0..MaxTime) /\ Times(ms) \in SUBSET Nat
        /\ IsFiniteSet(Times(ms)) /\ Times(ms) # {}
    BY <1>1, <1>3, TimesFacts
  <2>2. T!Min(Times(ms)) \in Times(ms) /\ T!Max(Times(ms)) \in Times(ms)
    BY <2>1, LeastAndGreatest
  <2>3. T!Min(Times(ms)) \in 0..MaxTime /\ T!Max(Times(ms)) \in 0..MaxTime
    BY <2>1, <2>2
  <2>4. T!StatOf(ps, k) = [count |-> Cardinality(ms), first |-> T!Min(Times(ms)),
                           last |-> T!Max(Times(ms))]
    BY <1>3, StatForm
  <2>5. QED
    BY <1>1, <2>3, <2>4 DEF T!Stat
<1>4. QED
  BY <1>2, <1>3

\* What one more row adds: the same as its upsert.
LEMMA StatAdds ==
    ASSUME NEW ps \in SUBSET T!Row, IsFiniteSet(ps), NEW p \in T!Row, p \notin ps, NEW k
    PROVE  /\ k \in T!Counted(p) =>
                  T!StatOf(ps \cup {p}, k) = T!Upserted(T!StatOf(ps, k), p.at)
           /\ k \notin T!Counted(p) => T!StatOf(ps \cup {p}, k) = T!StatOf(ps, k)
<1> DEFINE ms == Mine(ps, k)
           ns == Mine(ps \cup {p}, k)
<1>1. ms \in SUBSET T!Row /\ IsFiniteSet(ms) /\ Cardinality(ms) \in Nat
      /\ (ms # {} => Cardinality(ms) > 0)
  BY MineFacts
<1>2. CASE k \notin T!Counted(p)
  <2>1. ns = ms
    BY <1>2 DEF Mine
  <2>2. T!StatOf(ps \cup {p}, k) = T!StatOf(ps, k)
    BY <2>1, StatForm
  <2>3. QED
    BY <1>2, <2>2
<1>3. CASE k \in T!Counted(p)
  <2>1. ns = ms \cup {p} /\ p \notin ms /\ ns # {}
    BY <1>3 DEF Mine
  <2>2. Cardinality(ns) = Cardinality(ms) + 1
    BY <1>1, <2>1, FS_AddElement
  <2>3. Times(ns) = Times(ms) \cup {p.at}
    BY <2>1 DEF Times
  <2>4. p.at \in Nat
    BY RowFacts
  <2>5. T!StatOf(ps \cup {p}, k) = [count |-> Cardinality(ns), first |-> T!Min(Times(ns)),
                                    last |-> T!Max(Times(ns))]
    BY <2>1, StatForm
  <2>6. CASE ms = {}
    <3>1. T!StatOf(ps, k) = T!NoStat
      BY <2>6, StatForm
    <3>2. T!Upserted(T!StatOf(ps, k), p.at) = [count |-> 1, first |-> p.at, last |-> p.at]
      BY <3>1 DEF T!Upserted, T!NoStat
    <3>3. Times(ns) = {p.at, p.at} /\ Cardinality(ms) = 0
      BY <2>3, <2>6, FS_EmptySet DEF Times
    <3>4. T!Min(Times(ns)) = p.at /\ T!Max(Times(ns)) = p.at
      <4>1. p.at \in Int
        BY <2>4
      <4>2. QED
        BY <3>3, <4>1, OfTwo
    <3>5. QED
      BY <1>3, <2>2, <2>5, <3>2, <3>3, <3>4
  <2>7. CASE ms # {}
    <3>1. T!StatOf(ps, k) = [count |-> Cardinality(ms), first |-> T!Min(Times(ms)),
                             last |-> T!Max(Times(ms))]
      BY <2>7, StatForm
    <3>2. T!Upserted(T!StatOf(ps, k), p.at) =
              [count |-> Cardinality(ms) + 1, first |-> T!Min({T!Min(Times(ms)), p.at}),
               last |-> T!Max({T!Max(Times(ms)), p.at})]
      BY <1>1, <2>7, <3>1 DEF T!Upserted
    <3>3. Times(ms) \in SUBSET Nat /\ IsFiniteSet(Times(ms)) /\ Times(ms) # {}
      BY <1>1, <2>7, TimesFacts
    <3>4. /\ T!Min(Times(ns)) = T!Min({T!Min(Times(ms)), p.at})
          /\ T!Max(Times(ns)) = T!Max({T!Max(Times(ms)), p.at})
      BY <2>3, <2>4, <3>3, OneMore
    <3>5. QED
      BY <1>3, <2>2, <2>5, <3>2, <3>4
  <2>8. QED
    BY <2>6, <2>7
<1>4. QED
  BY <1>2, <1>3

LEMMA UpsertIsTyped ==
    ASSUME NEW s \in T!Stat, NEW t \in 0..MaxTime
    PROVE  T!Upserted(s, t) \in T!Stat
<1> DEFINE Time == (0..MaxTime) \cup {-1}
<1>1. s.count \in Nat /\ s.first \in Time /\ s.last \in Time
  BY DEF T!Stat
<1>2. s.first \in Int /\ s.last \in Int /\ t \in Int
  BY <1>1
<1>3. T!Min({s.first, t}) \in Time /\ T!Max({s.last, t}) \in Time
  <2>1. T!Min({s.first, t}) = IF s.first <= t THEN s.first ELSE t
    BY <1>2, OfTwo
  <2>2. T!Max({s.last, t}) = IF s.last <= t THEN t ELSE s.last
    BY <1>2, OfTwo
  <2>3. QED
    BY <1>1, <2>1, <2>2
<1>4. CASE s.count = 0
  <2>1. T!Upserted(s, t) = [count |-> 1, first |-> t, last |-> t]
    BY <1>4 DEF T!Upserted
  <2>2. QED
    BY <2>1 DEF T!Stat
<1>5. CASE s.count # 0
  <2>1. T!Upserted(s, t) = [count |-> s.count + 1, first |-> T!Min({s.first, t}),
                            last |-> T!Max({s.last, t})]
    BY <1>5 DEF T!Upserted
  <2>2. s.count + 1 \in Nat
    BY <1>1
  <2>3. QED
    BY <1>3, <2>1, <2>2 DEF T!Stat
<1>6. QED
  BY <1>4, <1>5

\* A row that is counted under some keys.
LEMMA WithIs ==
    ASSUME NEW s \in [T!StatKeys -> T!Stat], NEW p \in T!Row, NEW keys
    PROVE  /\ T!With(s, p, keys) \in [T!StatKeys -> T!Stat]
           /\ \A k \in T!StatKeys :
                  /\ k \in keys /\ k \in T!Counted(p) =>
                         T!With(s, p, keys)[k] = T!Upserted(s[k], p.at)
                  /\ ~(k \in keys /\ k \in T!Counted(p)) => T!With(s, p, keys)[k] = s[k]
<1>1. \A k \in T!StatKeys :
          T!With(s, p, keys)[k] = IF k \in keys \cap T!Counted(p) THEN T!Upserted(s[k], p.at)
                                  ELSE s[k]
  BY DEF T!With
<1>2. \A k \in T!StatKeys : s[k] \in T!Stat /\ T!Upserted(s[k], p.at) \in T!Stat
  BY RowFacts, UpsertIsTyped
<1>3. T!With(s, p, keys) \in [T!StatKeys -> T!Stat]
  BY <1>2 DEF T!With
<1>4. QED
  BY <1>1, <1>3

\* The tables share no key.
LEMMA KeysApart ==
    /\ \A t \in T!Tables : T!KeysOf(t) \subseteq T!StatKeys
    /\ \A t \in T!Tables : \A u \in T!Tables : \A k \in T!KeysOf(t) : k \in T!KeysOf(u) => t = u
BY StatsNumbers DEF T!Tables, T!KeysOf, T!StatKeys

-----------------------------------------------------------------------------
(* Statistics: start-up.                                                   *)

LEMMA StatsTypes ==
    ASSUME T!TypeOK
    PROVE  /\ raw \in SUBSET T!Row /\ \A p, q \in raw : p.id = q.id => p = q
           /\ stat \in [T!StatKeys -> T!Stat]
           /\ complete \in SUBSET T!Tables
           /\ phase \in {"clear", "fill", "up"} /\ table \in T!Tables
           /\ filled \in SUBSET raw
           /\ job \in [at : {"idle", "look", "delete"}, cutoff : Int, ids : SUBSET Nat]
           /\ phase # "up" => job = T!Idle
           /\ now \in 0..MaxTime /\ scans \in 0..MaxScans
           /\ removals \in 0..MaxRemovals /\ faults \in 0..MaxFaults
           /\ now \in Nat /\ scans \in Nat /\ removals \in Nat /\ faults \in Nat
BY StatsNumbers DEF T!TypeOK

LEMMA CountsFacts ==
    ASSUME CountsFit, NEW t
    PROVE  /\ T!Counts(t) \in SUBSET T!Row /\ IsFiniteSet(T!Counts(t))
           /\ \A p \in T!Counts(t) : p.n <= MaxOld + scans
<1>1. \A s \in seen : s.row \in T!Row /\ s.row.n <= MaxOld + scans
  BY DEF CountsFit
<1>2. IsFiniteSet(T!Counts(t))
  <2> DEFINE X == {s \in seen : t \in s.in}
             f == [s \in X |-> s.row]
  <2>1. IsFiniteSet(X)
    BY FS_Subset DEF CountsFit
  <2>2. f \in [X -> T!Counts(t)] /\ \A p \in T!Counts(t) : \E s \in X : f[s] = p
    BY DEF T!Counts
  <2> HIDE DEF f, X
  <2>3. QED
    BY <2>1, <2>2, FS_Surjection DEF Surjection
<1>3. QED
  BY <1>1, <1>2 DEF T!Counts

\* A step that counts nothing and removes nothing.
LEMMA NothingCounted ==
    ASSUME StatsInv, T!TypeOK', UNCHANGED <<raw, seen, scans, complete, stat>>,
           FillFits', JobFits'
    PROVE  StatsInv'
<1>1. CountsFit'
  BY DEF StatsInv, CountsFit
<1>2. T!TablesExact'
  BY DEF StatsInv, T!TablesExact, T!Counts
<1>3. T!RowsWait'
  BY DEF StatsInv, T!RowsWait, T!Counts
<1>4. QED
  BY <1>1, <1>2, <1>3 DEF StatsInv

LEMMA StatsStay ==
    ASSUME StatsInv, UNCHANGED statVars
    PROVE  StatsInv'
<1>1. UNCHANGED <<raw, stat, complete, phase, table, filled, job, now, scans, removals,
                  faults, seen>>
  BY DEF statVars
<1>2. T!TypeOK'
  BY <1>1 DEF StatsInv, T!TypeOK
<1>3. FillFits'
  BY <1>1 DEF StatsInv, FillFits
<1>4. JobFits'
  BY <1>1 DEF StatsInv, JobFits
<1>5. QED
  BY <1>1, <1>2, <1>3, <1>4, NothingCounted

LEMMA OnwardFacts ==
    ASSUME T!Onward
    PROVE  phase' \in {"clear", "up"} /\ table' \in T!Tables
BY DEF T!Onward, T!Tables

\* Start-up goes to another step, and leaves what it filled unmarked.
LEMMA StartStep ==
    ASSUME StatsInv, phase # "up" \/ job' = T!Idle, job' = job \/ job' = T!Idle,
           phase' \in {"clear", "up"}, table' \in T!Tables, filled' = {},
           UNCHANGED <<raw, stat, complete, now, scans, removals, seen>>,
           faults' \in 0..MaxFaults
    PROVE  StatsInv'
<1>0. T!TypeOK
  BY DEF StatsInv
<1>1. job' = T!Idle
  BY <1>0, StatsTypes
<1>2. T!Idle \in [at : {"idle", "look", "delete"}, cutoff : Int, ids : SUBSET Nat]
  BY DEF T!Idle
<1>3. T!TypeOK'
  <2>1. filled' \subseteq raw' /\ phase' \in {"clear", "fill", "up"}
        /\ job' \in [at : {"idle", "look", "delete"}, cutoff : Int, ids : SUBSET Nat]
    BY <1>1, <1>2
  <2>2. QED
    BY <1>0, <1>1, <2>1 DEF T!TypeOK
<1>4. FillFits'
  BY DEF FillFits
<1>5. JobFits'
  BY <1>1 DEF JobFits, T!Idle
<1>6. QED
  BY <1>3, <1>4, <1>5, NothingCounted

LEMMA BuildStarts_Stats ==
    ASSUME StatsInv, T!BuildStarts
    PROVE  StatsInv'
<1>0. T!TypeOK
  BY DEF StatsInv
<1>1. /\ phase = "clear"
      /\ UNCHANGED <<raw, complete, filled, job, now, scans, removals, faults, seen>>
  BY DEF T!BuildStarts, T!bounds
<1>2. filled = {}
  BY <1>1 DEF StatsInv, FillFits
<1>3. CASE table \in complete
  <2>1. T!Onward /\ UNCHANGED stat
    BY <1>3 DEF T!BuildStarts
  <2>2. phase' \in {"clear", "up"} /\ table' \in T!Tables
    BY <2>1, OnwardFacts
  <2>3. faults' \in 0..MaxFaults
    BY <1>0, <1>1, StatsTypes
  <2>4. QED
    BY <1>1, <1>2, <2>1, <2>2, <2>3, StartStep
<1>4. CASE table \notin complete
  <2>1. /\ phase' = "fill" /\ table' = table
        /\ stat' = [k \in T!StatKeys |-> IF k \in T!KeysOf(table) THEN T!NoStat ELSE stat[k]]
    BY <1>4 DEF T!BuildStarts
  <2>2. T!NoStat \in T!Stat
    BY DEF T!NoStat, T!Stat
  <2>3. stat' \in [T!StatKeys -> T!Stat]
    BY <1>0, <2>1, <2>2, StatsTypes
  <2>4. \A k \in T!StatKeys : /\ k \in T!KeysOf(table) => stat'[k] = T!NoStat
                              /\ k \notin T!KeysOf(table) => stat'[k] = stat[k]
    BY <2>1
  <2>5. T!TypeOK'
    BY <1>0, <1>1, <2>1, <2>3 DEF T!TypeOK
  <2>6. table \in T!Tables /\ complete \in SUBSET T!Tables
    BY <1>0, StatsTypes
  <2>7. T!TablesExact'
    <3>1. SUFFICES ASSUME NEW t \in complete, NEW k \in T!KeysOf(t)
                   PROVE  stat'[k] = T!StatOf(T!Counts(t), k)
      BY <1>1 DEF T!TablesExact, T!Counts
    <3>2. k \in T!StatKeys /\ k \notin T!KeysOf(table)
      BY <1>4, <2>6, KeysApart
    <3>3. QED
      BY <2>4, <3>2 DEF StatsInv, T!TablesExact
  <2>8. FillFits'
    <3>1. ASSUME NEW k \in T!KeysOf(table) PROVE stat'[k] = T!StatOf({}, k)
      <4>1. k \in T!StatKeys
        BY <2>6, KeysApart
      <4>2. T!StatOf({}, k) = T!NoStat
        <5>1. Mine({}, k) = {}
          BY DEF Mine
        <5>2. QED
          BY <5>1, StatForm
      <4>3. QED
        BY <2>4, <3>1, <4>1, <4>2
    <3>2. QED
      BY <1>1, <1>2, <1>4, <2>1, <3>1 DEF FillFits
  <2>9. CountsFit' /\ JobFits'
    BY <1>1 DEF StatsInv, CountsFit, JobFits
  <2>10. T!RowsWait'
    BY <1>1 DEF StatsInv, T!RowsWait, T!Counts
  <2>11. QED
    BY <2>5, <2>7, <2>8, <2>9, <2>10 DEF StatsInv
<1>5. QED
  BY <1>3, <1>4

LEMMA BuildBatch_Stats ==
    ASSUME StatsInv, T!BuildBatch
    PROVE  StatsInv'
<1>0. T!TypeOK
  BY DEF StatsInv
<1>1. PICK p \in raw \ filled : /\ stat' = T!With(stat, p, T!KeysOf(table))
                                /\ filled' = filled \cup {p}
  BY DEF T!BuildBatch
<1>2. /\ phase = "fill"
      /\ UNCHANGED <<raw, complete, phase, table, job, now, scans, removals, faults, seen>>
  BY DEF T!BuildBatch, T!bounds
<1>3. /\ raw \in SUBSET T!Row /\ stat \in [T!StatKeys -> T!Stat] /\ filled \in SUBSET raw
      /\ table \in T!Tables /\ complete \in SUBSET T!Tables
  BY <1>0, StatsTypes
<1>4. p \in T!Row /\ p \notin filled /\ filled \in SUBSET T!Row /\ IsFiniteSet(filled)
  BY <1>3, FS_Subset DEF StatsInv, CountsFit
<1>5. /\ stat' \in [T!StatKeys -> T!Stat]
      /\ \A k \in T!StatKeys :
             /\ k \in T!KeysOf(table) /\ k \in T!Counted(p) =>
                    stat'[k] = T!Upserted(stat[k], p.at)
             /\ ~(k \in T!KeysOf(table) /\ k \in T!Counted(p)) => stat'[k] = stat[k]
  BY <1>1, <1>3, <1>4, WithIs
<1>6. T!TypeOK'
  <2>1. filled' \subseteq raw'
    BY <1>1, <1>2, <1>3
  <2>2. QED
    BY <1>0, <1>2, <1>5, <2>1 DEF T!TypeOK
<1>7. table \notin complete /\ \A k \in T!KeysOf(table) : stat[k] = T!StatOf(filled, k)
  BY <1>2 DEF StatsInv, FillFits
<1>8. T!TablesExact'
  <2>1. SUFFICES ASSUME NEW t \in complete, NEW k \in T!KeysOf(t)
                 PROVE  stat'[k] = T!StatOf(T!Counts(t), k)
    BY <1>2 DEF T!TablesExact, T!Counts
  <2>2. k \in T!StatKeys /\ k \notin T!KeysOf(table)
    BY <1>3, <1>7, KeysApart
  <2>3. QED
    BY <1>5, <2>2 DEF StatsInv, T!TablesExact
<1>9. FillFits'
  <2>1. ASSUME NEW k \in T!KeysOf(table) PROVE stat'[k] = T!StatOf(filled \cup {p}, k)
    <3>1. k \in T!StatKeys
      BY <1>3, KeysApart
    <3>2. CASE k \in T!Counted(p)
      <4>1. T!StatOf(filled \cup {p}, k) = T!Upserted(T!StatOf(filled, k), p.at)
        BY <1>4, <3>2, StatAdds
      <4>2. QED
        BY <1>5, <1>7, <2>1, <3>1, <3>2, <4>1
    <3>3. CASE k \notin T!Counted(p)
      <4>1. T!StatOf(filled \cup {p}, k) = T!StatOf(filled, k)
        BY <1>4, <3>3, StatAdds
      <4>2. QED
        BY <1>5, <1>7, <2>1, <3>1, <3>3, <4>1
    <3>4. QED
      BY <3>2, <3>3
  <2>2. QED
    BY <1>1, <1>2, <1>7, <2>1 DEF FillFits
<1>10. CountsFit' /\ JobFits'
  BY <1>2 DEF StatsInv, CountsFit, JobFits
<1>11. T!RowsWait'
  BY <1>2 DEF StatsInv, T!RowsWait, T!Counts
<1>12. QED
  BY <1>6, <1>8, <1>9, <1>10, <1>11 DEF StatsInv

LEMMA BuildEnds_Stats ==
    ASSUME StatsInv, T!BuildEnds
    PROVE  StatsInv'
<1>0. T!TypeOK
  BY DEF StatsInv
<1>1. /\ phase = "fill" /\ filled = raw /\ complete' = complete \cup {table} /\ filled' = {}
      /\ T!Onward
      /\ UNCHANGED <<raw, stat, job, now, scans, removals, faults, seen>>
  BY DEF T!BuildEnds, T!bounds
<1>2. phase' \in {"clear", "up"} /\ table' \in T!Tables
  BY <1>1, OnwardFacts
<1>3. job = T!Idle /\ table \in T!Tables /\ complete \in SUBSET T!Tables
  BY <1>0, <1>1, StatsTypes
<1>4. T!TypeOK'
  <2>1. complete' \subseteq T!Tables /\ filled' \subseteq raw'
        /\ phase' \in {"clear", "fill", "up"} /\ (phase' # "up" => job' = T!Idle)
    BY <1>1, <1>2, <1>3
  <2>2. QED
    BY <1>0, <1>1, <1>2, <2>1 DEF T!TypeOK
<1>5. table \notin complete /\ \A k \in T!KeysOf(table) : stat[k] = T!StatOf(filled, k)
  BY <1>1 DEF StatsInv, FillFits
<1>6. T!Counts(table) = raw
  BY <1>3, <1>5 DEF StatsInv, T!RowsWait
<1>7. T!TablesExact'
  <2>1. SUFFICES ASSUME NEW t \in complete \cup {table}, NEW k \in T!KeysOf(t)
                 PROVE  stat[k] = T!StatOf(T!Counts(t), k)
    BY <1>1 DEF T!TablesExact, T!Counts
  <2>2. CASE t = table
    BY <1>1, <1>5, <1>6, <2>2
  <2>3. CASE t \in complete
    BY <2>3 DEF StatsInv, T!TablesExact
  <2>4. QED
    BY <2>2, <2>3
<1>8. FillFits' /\ JobFits'
  BY <1>1, <1>2, <1>3 DEF FillFits, JobFits, T!Idle
<1>9. CountsFit'
  BY <1>1 DEF StatsInv, CountsFit
<1>10. T!RowsWait'
  BY <1>1 DEF StatsInv, T!RowsWait, T!Counts
<1>11. QED
  BY <1>4, <1>7, <1>8, <1>9, <1>10 DEF StatsInv

LEMMA BuildFails_Stats ==
    ASSUME StatsInv, T!BuildFails
    PROVE  StatsInv'
<1>0. T!TypeOK
  BY DEF StatsInv
<1>1. /\ phase = "fill" /\ faults < MaxFaults /\ faults' = faults + 1 /\ filled' = {}
      /\ T!Onward
      /\ UNCHANGED <<raw, stat, complete, job, now, scans, removals, seen>>
  BY DEF T!BuildFails
<1>2. phase' \in {"clear", "up"} /\ table' \in T!Tables
  BY <1>1, OnwardFacts
<1>3. faults' \in 0..MaxFaults
  BY <1>0, <1>1, StatsTypes, StatsNumbers
<1>4. QED
  BY <1>1, <1>2, <1>3, StartStep

LEMMA Restart_Stats ==
    ASSUME StatsInv, T!Restart
    PROVE  StatsInv'
<1>0. T!TypeOK
  BY DEF StatsInv
<1>1. /\ faults < MaxFaults /\ faults' = faults + 1
      /\ phase' = "clear" /\ table' = "targets" /\ filled' = {} /\ job' = T!Idle
      /\ UNCHANGED <<raw, stat, complete, now, scans, removals, seen>>
  BY DEF T!Restart
<1>2. faults' \in 0..MaxFaults
  BY <1>0, <1>1, StatsTypes, StatsNumbers
<1>3. phase' \in {"clear", "up"} /\ table' \in T!Tables
  BY <1>1 DEF T!Tables
<1>4. QED
  BY <1>1, <1>2, <1>3, StartStep

-----------------------------------------------------------------------------
(* Statistics: scans and removals.                                         *)

LEMMA NewIdIsNew ==
    ASSUME StatsInv
    PROVE  T!NewId \in Nat \ {0} /\ \A p \in raw : p.id < T!NewId
<1> DEFINE ids == {p.id : p \in raw}
           used == {0} \cup ids
<1>0. T!TypeOK
  BY DEF StatsInv
<1>1. raw \in SUBSET T!Row /\ IsFiniteSet(raw)
  BY <1>0, StatsTypes DEF StatsInv, CountsFit
<1>2. \A p \in raw : p.id \in Nat
  BY <1>1, RowFacts
<1>3. IsFiniteSet(ids)
  <2> DEFINE f == [p \in raw |-> p.id]
  <2>1. f \in [raw -> ids] /\ \A t \in ids : \E p \in raw : f[p] = t
    OBVIOUS
  <2> HIDE DEF f, ids
  <2>2. QED
    BY <1>1, <2>1, FS_Surjection DEF Surjection
<1>4. used \in SUBSET Nat /\ used # {}
  BY <1>2
<1>5. IsFiniteSet(used)
  <2> HIDE DEF ids
  <2>1. used = ids \cup {0}
    OBVIOUS
  <2>2. QED
    BY <1>3, <2>1, FS_AddElement
<1>6. T!Max(used) \in used /\ \A m \in used : m <= T!Max(used)
  BY <1>4, <1>5, LeastAndGreatest
<1>7. T!Max(used) \in Nat /\ \A p \in raw : p.id <= T!Max(used)
  BY <1>4, <1>6
<1>8. T!NewId = 1 + T!Max(used)
  BY DEF T!NewId
<1> HIDE DEF used
<1>9. QED
  BY <1>2, <1>7, <1>8

LEMMA Scan_Stats ==
    ASSUME StatsInv, NEW c \in Bars, NEW ts \in SUBSET Goals, T!Scan(c, ts)
    PROVE  StatsInv'
<1>0. T!TypeOK
  BY DEF StatsInv
<1> DEFINE p == [id |-> T!NewId, n |-> MaxOld + scans + 1, code |-> c, targets |-> ts,
                 at |-> now]
<1>1. /\ phase = "up" /\ scans < MaxScans
      /\ raw' = raw \cup {p}
      /\ stat' = T!With(stat, p, T!StatKeys)
      /\ scans' = scans + 1
      /\ seen' = seen \cup {[row |-> p, in |-> T!Tables]}
      /\ UNCHANGED <<complete, phase, table, filled, job, now, removals, faults>>
  BY DEF T!Scan
<1>2. /\ raw \in SUBSET T!Row /\ stat \in [T!StatKeys -> T!Stat] /\ filled \in SUBSET raw
      /\ complete \in SUBSET T!Tables /\ scans \in Nat /\ now \in 0..MaxTime
      /\ \A q, r \in raw : q.id = r.id => q = r
  BY <1>0, StatsTypes
<1>3. T!NewId \in Nat \ {0} /\ \A q \in raw : q.id < T!NewId
  BY NewIdIsNew
<1>4. MaxOld + scans + 1 \in 1..(MaxOld + MaxScans)
  BY <1>1, <1>2, StatsNumbers
<1>5. p \in T!Row /\ p.id = T!NewId /\ p.n = MaxOld + scans + 1
  BY <1>2, <1>3, <1>4 DEF T!Row
<1> HIDE DEF p
<1>6. \A q \in raw : q.id \in Nat /\ q.id # p.id
  <2>1. \A q \in raw : q.id \in Nat
    BY <1>2, RowFacts
  <2>2. QED
    BY <1>3, <1>5, <2>1
<1>7. /\ stat' \in [T!StatKeys -> T!Stat]
      /\ \A k \in T!StatKeys :
             /\ k \in T!Counted(p) => stat'[k] = T!Upserted(stat[k], p.at)
             /\ k \notin T!Counted(p) => stat'[k] = stat[k]
  <2>1. /\ T!With(stat, p, T!StatKeys) \in [T!StatKeys -> T!Stat]
        /\ \A k \in T!StatKeys :
             /\ k \in T!StatKeys /\ k \in T!Counted(p) =>
                    T!With(stat, p, T!StatKeys)[k] = T!Upserted(stat[k], p.at)
             /\ ~(k \in T!StatKeys /\ k \in T!Counted(p)) =>
                    T!With(stat, p, T!StatKeys)[k] = stat[k]
    BY <1>2, <1>5, WithIs
  <2>2. QED
    BY <1>1, <2>1
<1>8. T!TypeOK'
  <2>1. raw' \subseteq T!Row /\ filled' \subseteq raw'
    BY <1>1, <1>2, <1>5
  <2>2. \A q, r \in raw' : q.id = r.id => q = r
    BY <1>1, <1>2, <1>6
  <2>3. scans' \in 0..MaxScans
    BY <1>1, <1>2, StatsNumbers
  <2>4. QED
    BY <1>0, <1>1, <1>7, <2>1, <2>2, <2>3 DEF T!TypeOK
<1>9. CountsFit'
  <2>1. IsFiniteSet(raw') /\ IsFiniteSet(seen')
    BY <1>1, FS_AddElement DEF StatsInv, CountsFit
  <2>2. ASSUME NEW s \in seen'
        PROVE  s \in [row : T!Row, in : SUBSET T!Tables] /\ s.row.n <= MaxOld + scans'
    <3>1. CASE s \in seen
      <4>1. s \in [row : T!Row, in : SUBSET T!Tables] /\ s.row.n <= MaxOld + scans
        BY <3>1 DEF StatsInv, CountsFit
      <4>2. s.row.n \in Nat
        <5>1. s.row \in T!Row
          BY <4>1
        <5>2. QED
          BY <5>1, RowFacts, StatsNumbers
      <4>3. QED
        BY <1>1, <1>2, <4>1, <4>2, StatsNumbers
    <3>2. CASE s = [row |-> p, in |-> T!Tables]
      <4>1. s \in [row : T!Row, in : SUBSET T!Tables] /\ s.row = p
        BY <1>5, <3>2
      <4>2. QED
        BY <1>1, <1>2, <1>5, <4>1, StatsNumbers
    <3>3. QED
      BY <1>1, <2>2, <3>1, <3>2
  <2>3. QED
    BY <2>1, <2>2 DEF CountsFit
<1>10. ASSUME NEW t \in T!Tables
       PROVE  T!Counts(t)' = T!Counts(t) \cup {p}
  <2> DEFINE e == [row |-> p, in |-> T!Tables]
  <2>1. e.row = p /\ t \in e.in /\ seen' = seen \cup {e}
    BY <1>1
  <2> HIDE DEF e
  <2>2. T!Counts(t)' = {s.row : s \in {x \in seen' : t \in x.in}}
    BY DEF T!Counts
  <2>3. ASSUME NEW q \in T!Counts(t)' PROVE q \in T!Counts(t) \cup {p}
    <3>1. PICK s \in seen' : t \in s.in /\ s.row = q
      BY <2>2
    <3>2. QED
      BY <2>1, <3>1 DEF T!Counts
  <2>4. p \in T!Counts(t)' /\ T!Counts(t) \subseteq T!Counts(t)'
    BY <2>1, <2>2 DEF T!Counts
  <2>5. QED
    BY <2>3, <2>4
<1>11. T!TablesExact'
  <2>1. SUFFICES ASSUME NEW t \in complete, NEW k \in T!KeysOf(t)
                 PROVE  stat'[k] = T!StatOf(T!Counts(t) \cup {p}, k)
    <3>1. SUFFICES ASSUME NEW t \in complete, NEW k \in T!KeysOf(t)
                   PROVE  stat'[k] = T!StatOf(T!Counts(t)', k)
      BY <1>1 DEF T!TablesExact, T!StatOf, T!Counted, T!KeysOf
    <3>2. T!Counts(t)' = T!Counts(t) \cup {p}
      BY <1>2, <1>10
    <3>3. QED
      BY <2>1, <3>2
  <2>2. k \in T!StatKeys
    BY <1>2, KeysApart
  <2>3. /\ T!Counts(t) \in SUBSET T!Row /\ IsFiniteSet(T!Counts(t))
        /\ \A q \in T!Counts(t) : q.n <= MaxOld + scans
    BY CountsFacts DEF StatsInv
  <2>4. p \notin T!Counts(t)
    BY <1>2, <1>5, <2>3, StatsNumbers
  <2>5. stat[k] = T!StatOf(T!Counts(t), k)
    BY DEF StatsInv, T!TablesExact
  <2>6. CASE k \in T!Counted(p)
    <3>1. T!StatOf(T!Counts(t) \cup {p}, k) = T!Upserted(T!StatOf(T!Counts(t), k), p.at)
      BY <1>5, <2>3, <2>4, <2>6, StatAdds
    <3>2. QED
      BY <1>7, <2>2, <2>5, <2>6, <3>1
  <2>7. CASE k \notin T!Counted(p)
    <3>1. T!StatOf(T!Counts(t) \cup {p}, k) = T!StatOf(T!Counts(t), k)
      BY <1>5, <2>3, <2>4, <2>7, StatAdds
    <3>2. QED
      BY <1>7, <2>2, <2>5, <2>7, <3>1
  <2>8. QED
    BY <2>6, <2>7
<1>12. T!RowsWait'
  <2>1. SUFFICES ASSUME NEW t \in T!Tables \ complete PROVE T!Counts(t)' = raw'
    BY <1>1 DEF T!RowsWait
  <2>2. T!Counts(t) = raw
    BY DEF StatsInv, T!RowsWait
  <2>3. QED
    BY <1>1, <1>10, <2>2
<1>13. FillFits' /\ JobFits'
  BY <1>1 DEF StatsInv, FillFits, JobFits
<1>14. QED
  BY <1>8, <1>9, <1>11, <1>12, <1>13 DEF StatsInv

LEMMA EditFacts ==
    ASSUME T!TypeOK, T!Edit
    PROVE  phase = "up" /\ removals' \in 0..MaxRemovals
BY StatsTypes, StatsNumbers DEF T!Edit

\* The statistics of the other barcodes.
LEMMA StatWithout ==
    ASSUME NEW ps, NEW c, NEW k \in T!StatKeys
    PROVE  /\ k[2] = c => T!StatOf({p \in ps : p.code # c}, k) = T!NoStat
           /\ k[2] # c => T!StatOf({p \in ps : p.code # c}, k) = T!StatOf(ps, k)
<1>1. \A p : k \in T!Counted(p) => k[2] = p.code
  BY DEF T!Counted
<1>2. CASE k[2] = c
  <2>1. Mine({p \in ps : p.code # c}, k) = {}
    BY <1>1, <1>2 DEF Mine
  <2>2. QED
    BY <1>2, <2>1, StatForm
<1>3. CASE k[2] # c
  <2>1. Mine({p \in ps : p.code # c}, k) = Mine(ps, k)
    BY <1>1, <1>3 DEF Mine
  <2>2. T!StatOf({p \in ps : p.code # c}, k) = T!StatOf(ps, k)
    BY <2>1, StatForm
  <2>3. QED
    BY <1>3, <2>2
<1>4. QED
  BY <1>2, <1>3

LEMMA DeleteCode_Stats ==
    ASSUME StatsInv, NEW c \in Bars, T!DeleteCode(c)
    PROVE  StatsInv'
<1>0. T!TypeOK
  BY DEF StatsInv
<1>1. /\ raw' = {p \in raw : p.code # c}
      /\ stat' = [k \in T!StatKeys |-> IF k[2] = c THEN T!NoStat ELSE stat[k]]
      /\ seen' = {s \in seen : s.row.code # c}
      /\ UNCHANGED <<complete, phase, table, filled, job, now, scans, faults>>
  BY DEF T!DeleteCode
<1>2. phase = "up" /\ removals' \in 0..MaxRemovals
  BY <1>0, EditFacts DEF T!DeleteCode
<1>3. filled = {}
  BY <1>2 DEF StatsInv, FillFits
<1>4. complete \in SUBSET T!Tables /\ stat \in [T!StatKeys -> T!Stat]
  BY <1>0, StatsTypes
<1>5. stat' \in [T!StatKeys -> T!Stat]
  <2>1. T!NoStat \in T!Stat
    BY DEF T!NoStat, T!Stat
  <2>2. QED
    BY <1>1, <1>4, <2>1
<1>6. T!TypeOK'
  <2>1. filled' \subseteq raw' /\ raw' \subseteq raw
    BY <1>1, <1>3
  <2>2. QED
    BY <1>0, <1>1, <1>2, <1>5, <2>1 DEF T!TypeOK
<1>7. CountsFit'
  <2>1. IsFiniteSet(raw') /\ IsFiniteSet(seen')
    BY <1>1, FS_Subset DEF StatsInv, CountsFit
  <2>2. QED
    BY <1>1, <2>1 DEF StatsInv, CountsFit
<1>8. ASSUME NEW t PROVE T!Counts(t)' = {p \in T!Counts(t) : p.code # c}
  <2>1. T!Counts(t)' = {s.row : s \in {x \in seen' : t \in x.in}}
    BY DEF T!Counts
  <2>2. ASSUME NEW q PROVE q \in T!Counts(t)' <=> q \in {p \in T!Counts(t) : p.code # c}
    BY <1>1, <2>1 DEF T!Counts
  <2>3. QED
    BY <2>2
<1>9. T!TablesExact'
  <2>1. SUFFICES ASSUME NEW t \in complete, NEW k \in T!KeysOf(t)
                 PROVE  stat'[k] = T!StatOf(T!Counts(t)', k)
    BY <1>1 DEF T!TablesExact, T!StatOf, T!Counted, T!KeysOf
  <2>2. k \in T!StatKeys
    BY <1>4, KeysApart
  <2>3. stat[k] = T!StatOf(T!Counts(t), k)
    BY DEF StatsInv, T!TablesExact
  <2>4. T!StatOf(T!Counts(t)', k) = T!StatOf({p \in T!Counts(t) : p.code # c}, k)
    BY <1>8
  <2>5. CASE k[2] = c
    <3>1. stat'[k] = T!NoStat
      BY <1>1, <2>2, <2>5
    <3>2. T!StatOf({p \in T!Counts(t) : p.code # c}, k) = T!NoStat
      BY <2>2, <2>5, StatWithout
    <3>3. QED
      BY <2>4, <3>1, <3>2
  <2>6. CASE k[2] # c
    BY <1>1, <2>2, <2>3, <2>4, <2>6, StatWithout
  <2>7. QED
    BY <2>5, <2>6
<1>10. T!RowsWait'
  <2>1. SUFFICES ASSUME NEW t \in T!Tables \ complete PROVE T!Counts(t)' = raw'
    BY <1>1 DEF T!RowsWait
  <2>2. T!Counts(t) = raw
    BY DEF StatsInv, T!RowsWait
  <2>3. QED
    BY <1>1, <1>8, <2>2
<1>11. FillFits' /\ JobFits'
  BY <1>1, <1>2, <1>3 DEF StatsInv, FillFits, JobFits
<1>12. QED
  BY <1>6, <1>7, <1>9, <1>10, <1>11 DEF StatsInv

LEMMA Forget_Stats ==
    ASSUME StatsInv, NEW ps \in SUBSET raw, T!Forget(ps)
    PROVE  StatsInv'
<1>0. T!TypeOK
  BY DEF StatsInv
<1> DEFINE kept(s) == IF s.row \in ps THEN s.in \cap complete ELSE s.in
           g(s) == [row |-> s.row, in |-> kept(s)]
<1>1. /\ raw' = raw \ ps
      /\ seen' = {[s EXCEPT !.in = kept(s)] : s \in seen}
      /\ UNCHANGED <<stat, complete, phase, table, filled, job, now, scans, faults>>
  BY DEF T!Forget
<1>2. phase = "up" /\ removals' \in 0..MaxRemovals
  BY <1>0, EditFacts DEF T!Forget
<1>3. filled = {}
  BY <1>2 DEF StatsInv, FillFits
<1>4. complete \in SUBSET T!Tables
  BY <1>0, StatsTypes
<1>5. \A s \in seen : s \in [row : T!Row, in : SUBSET T!Tables] /\ s.row.n <= MaxOld + scans
  BY DEF StatsInv, CountsFit
<1>6. seen' = {g(s) : s \in seen}
  <2>1. \A s \in seen : [s EXCEPT !.in = kept(s)] = g(s)
    BY <1>5
  <2> HIDE DEF g, kept
  <2>2. QED
    BY <1>1, <2>1
<1>7. T!TypeOK'
  <2>1. filled' \subseteq raw' /\ raw' \subseteq raw
    BY <1>1, <1>3
  <2>2. QED
    BY <1>0, <1>1, <1>2, <2>1 DEF T!TypeOK
<1>8. CountsFit'
  <2>1. IsFiniteSet(raw')
    BY <1>1, FS_Subset DEF StatsInv, CountsFit
  <2>2. IsFiniteSet(seen')
    <3> DEFINE f == [s \in seen |-> g(s)]
    <3>1. f \in [seen -> seen'] /\ \A x \in seen' : \E s \in seen : f[s] = x
      BY <1>6
    <3>2. IsFiniteSet(seen)
      BY DEF StatsInv, CountsFit
    <3> HIDE DEF f
    <3>3. QED
      BY <3>1, <3>2, FS_Surjection DEF Surjection
  <2>3. ASSUME NEW s \in seen
        PROVE  g(s) \in [row : T!Row, in : SUBSET T!Tables] /\ g(s).row.n <= MaxOld + scans
    <3>1. kept(s) \in SUBSET T!Tables /\ s.row \in T!Row
      BY <1>5
    <3>2. g(s).row = s.row
      OBVIOUS
    <3>3. g(s) \in [row : T!Row, in : SUBSET T!Tables]
      BY <3>1
    <3> HIDE DEF g
    <3>4. QED
      BY <1>5, <3>2, <3>3
  <2> HIDE DEF g
  <2>4. QED
    BY <1>1, <1>6, <2>1, <2>2, <2>3 DEF CountsFit
<1>9. ASSUME NEW t
      PROVE  T!Counts(t)' = IF t \in complete THEN T!Counts(t) ELSE T!Counts(t) \ ps
  <2>1. T!Counts(t)' = {x.row : x \in {y \in seen' : t \in y.in}}
    BY DEF T!Counts
  <2>2. \A s \in seen : g(s).row = s.row /\ (t \in g(s).in <=> t \in kept(s))
    OBVIOUS
  <2>3. ASSUME NEW q
        PROVE  q \in T!Counts(t)' <=> \E s \in seen : t \in kept(s) /\ s.row = q
    <3> HIDE DEF g, kept
    <3>1. QED
      BY <1>6, <2>1, <2>2
  <2>4. ASSUME NEW q PROVE q \in T!Counts(t) <=> \E s \in seen : t \in s.in /\ s.row = q
    BY DEF T!Counts
  <2>5. CASE t \in complete
    <3>1. \A s \in seen : t \in kept(s) <=> t \in s.in
      BY <2>5
    <3> HIDE DEF kept, g
    <3>2. ASSUME NEW q PROVE q \in T!Counts(t)' <=> q \in T!Counts(t)
      BY <2>3, <2>4, <3>1
    <3>3. T!Counts(t)' = T!Counts(t)
      BY <3>2
    <3>4. QED
      BY <2>5, <3>3
  <2>6. CASE t \notin complete
    <3>1. \A s \in seen : t \in kept(s) <=> t \in s.in /\ s.row \notin ps
      BY <2>6
    <3> HIDE DEF kept, g
    <3>2. ASSUME NEW q PROVE q \in T!Counts(t)' <=> q \in T!Counts(t) \ ps
      BY <2>3, <2>4, <3>1
    <3>3. T!Counts(t)' = T!Counts(t) \ ps
      BY <3>2
    <3>4. QED
      BY <2>6, <3>3
  <2>7. QED
    BY <2>5, <2>6
<1>10. T!TablesExact'
  <2>1. SUFFICES ASSUME NEW t \in complete, NEW k \in T!KeysOf(t)
                 PROVE  stat[k] = T!StatOf(T!Counts(t)', k)
    BY <1>1 DEF T!TablesExact, T!StatOf, T!Counted, T!KeysOf
  <2>2. T!Counts(t)' = T!Counts(t)
    BY <1>9
  <2>3. T!StatOf(T!Counts(t)', k) = T!StatOf(T!Counts(t), k)
    BY <2>2
  <2>4. QED
    BY <2>3 DEF StatsInv, T!TablesExact
<1>11. T!RowsWait'
  <2>1. SUFFICES ASSUME NEW t \in T!Tables \ complete PROVE T!Counts(t)' = raw'
    BY <1>1 DEF T!RowsWait
  <2>2. T!Counts(t) = raw
    BY DEF StatsInv, T!RowsWait
  <2>3. QED
    BY <1>1, <1>9, <2>2
<1>12. FillFits' /\ JobFits'
  BY <1>1, <1>2, <1>3 DEF StatsInv, FillFits, JobFits
<1>13. QED
  BY <1>7, <1>8, <1>10, <1>11, <1>12 DEF StatsInv

LEMMA Forgets_Stats ==
    ASSUME StatsInv, T!BulkDelete \/ T!ResetActivities
    PROVE  StatsInv'
<1>1. ASSUME NEW c \in Bars, T!Forget({p \in raw : p.code = c}) PROVE StatsInv'
  <2>1. {p \in raw : p.code = c} \in SUBSET raw
    OBVIOUS
  <2>2. QED
    BY <1>1, <2>1, Forget_Stats
<1>2. ASSUME NEW p \in raw, T!Forget({p}) PROVE StatsInv'
  <2>1. {p} \in SUBSET raw
    OBVIOUS
  <2>2. QED
    BY <1>2, <2>1, Forget_Stats
<1>3. CASE T!ResetActivities
  <2>1. T!Forget(raw) /\ raw \in SUBSET raw
    BY <1>3 DEF T!ResetActivities
  <2>2. QED
    BY <2>1, Forget_Stats
<1>4. QED
  BY <1>1, <1>2, <1>3 DEF T!BulkDelete

\* The daily removal, which runs once both tables have their marks.
LEMMA Purge_Stats ==
    ASSUME StatsInv, T!PurgeStarts \/ T!PurgeLook \/ T!PurgeDelete
    PROVE  StatsInv'
<1>0. T!TypeOK
  BY DEF StatsInv
<1> DEFINE Jobs == [at : {"idle", "look", "delete"}, cutoff : Int, ids : SUBSET Nat]
<1>1. UNCHANGED <<stat, complete, phase, table, filled, now, scans, removals, faults, seen>>
  BY DEF T!PurgeStarts, T!PurgeLook, T!PurgeDelete, T!bounds
<1>2. complete = T!Tables
  <2>1. CASE T!PurgeStarts
    BY <1>0, <2>1, StatsTypes DEF T!PurgeStarts, T!MayPurge, T!Tables
  <2>2. CASE T!PurgeLook \/ T!PurgeDelete
    <3>1. job.at # "idle"
      BY <2>2 DEF T!PurgeLook, T!PurgeDelete
    <3>2. QED
      BY <3>1 DEF StatsInv, JobFits
  <2>3. QED
    BY <2>1, <2>2
<1>3. phase = "up"
  <2>1. CASE T!PurgeStarts
    BY <2>1 DEF T!PurgeStarts
  <2>2. CASE T!PurgeLook \/ T!PurgeDelete
    <3>1. job # T!Idle
      BY <2>2 DEF T!PurgeLook, T!PurgeDelete, T!Idle
    <3>2. QED
      BY <1>0, <3>1, StatsTypes
  <2>3. QED
    BY <2>1, <2>2
<1>4. filled = {}
  BY <1>3 DEF StatsInv, FillFits
<1>5. /\ raw \in SUBSET T!Row /\ now \in Int /\ Retention \in Int
      /\ job \in Jobs
  BY <1>0, StatsTypes, StatsNumbers
<1>6. job' \in Jobs /\ raw' \in SUBSET raw
  <2>1. CASE T!PurgeStarts
    <3>1. job' = [at |-> "look", cutoff |-> now - Retention, ids |-> {}] /\ raw' = raw
      BY <2>1 DEF T!PurgeStarts
    <3>2. QED
      BY <1>5, <3>1
  <2>2. CASE T!PurgeLook
    <3> DEFINE old == {p \in raw : p.at < job.cutoff}
               first == {p.id : p \in {q \in old :
                            T!Cardinality({o \in old : o.id < q.id}) < PurgeBatch}}
    <3>1. /\ job' = IF first = {} THEN T!Idle ELSE [job EXCEPT !.at = "delete", !.ids = first]
          /\ raw' = raw
      BY <2>2 DEF T!PurgeLook
    <3>2. first \in SUBSET Nat
      BY <1>5, RowFacts
    <3> HIDE DEF first
    <3>3. CASE first = {}
      BY <3>1, <3>3 DEF T!Idle
    <3>4. CASE first # {}
      <4>1. job' = [job EXCEPT !.at = "delete", !.ids = first]
        BY <3>1, <3>4
      <4>2. job' = [at |-> "delete", cutoff |-> job.cutoff, ids |-> first]
        BY <1>5, <4>1
      <4>3. job.cutoff \in Int
        BY <1>5
      <4>4. job' \in Jobs
        BY <3>2, <4>2, <4>3
      <4>5. raw' \in SUBSET raw
        BY <3>1
      <4> HIDE DEF Jobs
      <4>6. QED
        BY <4>4, <4>5
    <3>5. QED
      BY <3>3, <3>4
  <2>3. CASE T!PurgeDelete
    <3>1. raw' = {p \in raw : p.id \notin job.ids}
          /\ job' = [job EXCEPT !.at = "look", !.ids = {}]
      BY <2>3 DEF T!PurgeDelete
    <3>2. job' = [at |-> "look", cutoff |-> job.cutoff, ids |-> {}]
      BY <1>5, <3>1
    <3>3. job.cutoff \in Int
      BY <1>5
    <3>4. QED
      BY <3>1, <3>2, <3>3
  <2>4. QED
    BY <2>1, <2>2, <2>3
<1>7. T!TypeOK'
  <2>1. raw' \subseteq T!Row /\ filled' \subseteq raw'
        /\ \A p, q \in raw' : p.id = q.id => p = q
    BY <1>0, <1>1, <1>4, <1>6, StatsTypes
  <2>2. QED
    BY <1>0, <1>1, <1>3, <1>6, <2>1 DEF T!TypeOK
<1>8. CountsFit'
  <2>1. IsFiniteSet(raw')
    BY <1>6, FS_Subset DEF StatsInv, CountsFit
  <2>2. QED
    BY <1>1, <2>1 DEF StatsInv, CountsFit
<1>9. FillFits' /\ JobFits'
  BY <1>1, <1>2, <1>3, <1>4 DEF FillFits, JobFits, T!Tables
<1>10. T!TablesExact'
  BY <1>1 DEF StatsInv, T!TablesExact, T!Counts
<1>11. T!RowsWait'
  BY <1>1, <1>2 DEF T!RowsWait, T!Tables
<1>12. QED
  BY <1>7, <1>8, <1>9, <1>10, <1>11 DEF StatsInv

LEMMA Tick_Stats ==
    ASSUME StatsInv, T!Tick
    PROVE  StatsInv'
<1>0. T!TypeOK
  BY DEF StatsInv
<1>1. /\ now < MaxTime /\ now' = now + 1 /\ phase = "up"
      /\ UNCHANGED <<raw, stat, complete, phase, table, filled, job, scans, removals,
                     faults, seen>>
  BY DEF T!Tick
<1>2. now' \in 0..MaxTime
  BY <1>0, <1>1, StatsTypes, StatsNumbers
<1>3. T!TypeOK'
  BY <1>0, <1>1, <1>2 DEF T!TypeOK
<1>4. FillFits' /\ JobFits'
  BY <1>1 DEF StatsInv, FillFits, JobFits
<1>5. QED
  BY <1>1, <1>3, <1>4, NothingCounted

LEMMA StatsInvInit == T!Init => StatsInv
<1> SUFFICES ASSUME T!Init PROVE StatsInv
  OBVIOUS
<1>1. PICK n \in 0..MaxOld : \E of \in [1..n -> Bars] : \E to \in [1..n -> SUBSET Goals] :
          raw = {[id |-> i, n |-> i, code |-> of[i], targets |-> to[i], at |-> 0] : i \in 1..n}
  BY DEF T!Init
<1>2. PICK of \in [1..n -> Bars] : \E to \in [1..n -> SUBSET Goals] :
          raw = {[id |-> i, n |-> i, code |-> of[i], targets |-> to[i], at |-> 0] : i \in 1..n}
  BY <1>1
<1>3. PICK to \in [1..n -> SUBSET Goals] :
          raw = {[id |-> i, n |-> i, code |-> of[i], targets |-> to[i], at |-> 0] : i \in 1..n}
  BY <1>2
<1> DEFINE row(i) == [id |-> i, n |-> i, code |-> of[i], targets |-> to[i], at |-> 0]
<1>4. /\ complete \in {{}, {"targets"}}
      /\ stat = [k \in T!StatKeys |-> IF \E t \in complete : k \in T!KeysOf(t)
                                      THEN T!StatOf(raw, k) ELSE T!NoStat]
      /\ phase = "clear" /\ table = "targets" /\ filled = {} /\ job = T!Idle
      /\ now = 0 /\ scans = 0 /\ removals = 0 /\ faults = 0
      /\ seen = {[row |-> p, in |-> T!Tables] : p \in raw}
  BY DEF T!Init
<1>5. ASSUME NEW i \in 1..n
      PROVE  /\ row(i) \in T!Row /\ row(i).id = i /\ row(i).n = i
             /\ row(i).n <= MaxOld
  <2>1. i \in Nat \ {0} /\ i \in 1..(MaxOld + MaxScans) /\ i <= MaxOld /\ 0 \in 0..MaxTime
    BY StatsNumbers
  <2>2. of[i] \in Bars /\ to[i] \in SUBSET Goals
    OBVIOUS
  <2>3. row(i) \in T!Row
    BY <2>1, <2>2 DEF T!Row
  <2>4. QED
    BY <2>1, <2>3
<1>6. raw = {row(i) : i \in 1..n}
  BY <1>3
<1>7. IsFiniteSet(raw)
  <2> DEFINE f == [i \in 1..n |-> row(i)]
  <2>1. f \in [1..n -> raw] /\ \A p \in raw : \E i \in 1..n : f[i] = p
    BY <1>6
  <2>2. IsFiniteSet(1..n)
    BY FS_Interval, StatsNumbers
  <2> HIDE DEF f
  <2>3. QED
    BY <2>1, <2>2, FS_Surjection DEF Surjection
<1> HIDE DEF row
<1>8. /\ raw \in SUBSET T!Row /\ \A p, q \in raw : p.id = q.id => p = q
      /\ \A p \in raw : p.n <= MaxOld
  BY <1>5, <1>6
<1>9. complete \in SUBSET T!Tables /\ "targets" \in T!Tables
  BY <1>4 DEF T!Tables
<1>10. stat \in [T!StatKeys -> T!Stat]
  <2>1. T!NoStat \in T!Stat
    BY DEF T!NoStat, T!Stat
  <2>2. \A k : T!StatOf(raw, k) \in T!Stat
    BY <1>7, <1>8, StatIsTyped
  <2>3. QED
    BY <1>4, <2>1, <2>2
<1>11. T!TypeOK
  <2>1. job \in [at : {"idle", "look", "delete"}, cutoff : Int, ids : SUBSET Nat]
    BY <1>4 DEF T!Idle
  <2>2. now \in 0..MaxTime /\ scans \in 0..MaxScans /\ removals \in 0..MaxRemovals
        /\ faults \in 0..MaxFaults
    BY <1>4, StatsNumbers
  <2>3. QED
    BY <1>4, <1>8, <1>9, <1>10, <2>1, <2>2 DEF T!TypeOK
<1>12. ASSUME NEW t \in T!Tables PROVE T!Counts(t) = raw
  <2>1. \A s \in seen : s.row \in raw /\ t \in s.in
    BY <1>4
  <2>2. \A p \in raw : \E s \in seen : s.row = p /\ t \in s.in
    <3>1. SUFFICES ASSUME NEW p \in raw PROVE \E s \in seen : s.row = p /\ t \in s.in
      OBVIOUS
    <3> DEFINE e == [row |-> p, in |-> T!Tables]
    <3>2. e \in seen /\ e.row = p /\ t \in e.in
      BY <1>4
    <3> HIDE DEF e
    <3>3. QED
      BY <3>2
  <2>3. T!Counts(t) \subseteq raw
    BY <2>1 DEF T!Counts
  <2>4. raw \subseteq T!Counts(t)
    BY <2>2 DEF T!Counts
  <2>5. QED
    BY <2>3, <2>4
<1>13. CountsFit
  <2>1. IsFiniteSet(seen)
    <3> DEFINE f == [p \in raw |-> [row |-> p, in |-> T!Tables]]
    <3>1. f \in [raw -> seen] /\ \A s \in seen : \E p \in raw : f[p] = s
      BY <1>4
    <3> HIDE DEF f
    <3>2. f \in Surjection(raw, seen)
      BY <3>1 DEF Surjection
    <3>3. QED
      BY <1>7, <3>2, FS_Surjection
  <2>2. MaxOld + scans = MaxOld
    BY <1>4, StatsNumbers
  <2>3. QED
    BY <1>4, <1>7, <1>8, <2>1, <2>2 DEF CountsFit
<1>14. T!TablesExact
  <2>1. SUFFICES ASSUME NEW t \in complete, NEW k \in T!KeysOf(t)
                 PROVE  stat[k] = T!StatOf(T!Counts(t), k)
    BY DEF T!TablesExact
  <2>2. k \in T!StatKeys /\ T!Counts(t) = raw
    BY <1>9, <1>12, KeysApart
  <2>3. QED
    BY <1>4, <2>2
<1>15. T!RowsWait
  BY <1>12 DEF T!RowsWait
<1>16. FillFits /\ JobFits
  BY <1>4 DEF FillFits, JobFits, T!Idle
<1>17. QED
  BY <1>11, <1>13, <1>14, <1>15, <1>16 DEF StatsInv

LEMMA StatsStep == StatsInv /\ T!Next => StatsInv'
<1> SUFFICES ASSUME StatsInv, T!Next PROVE StatsInv'
  OBVIOUS
<1>1. CASE T!BuildStarts \/ T!BuildBatch \/ T!BuildEnds \/ T!BuildFails \/ T!Restart
  BY <1>1, BuildStarts_Stats, BuildBatch_Stats, BuildEnds_Stats, BuildFails_Stats,
     Restart_Stats
<1>2. ASSUME NEW c \in Bars,
             T!DeleteCode(c) \/ \E ts \in SUBSET Goals : T!Scan(c, ts)
      PROVE  StatsInv'
  BY <1>2, DeleteCode_Stats, Scan_Stats
<1>3. CASE T!BulkDelete \/ T!ResetActivities
  BY <1>3, Forgets_Stats
<1>4. CASE T!PurgeStarts \/ T!PurgeLook \/ T!PurgeDelete
  BY <1>4, Purge_Stats
<1>5. CASE T!Tick
  BY <1>5, Tick_Stats
<1>6. QED
  BY <1>1, <1>2, <1>3, <1>4, <1>5 DEF T!Next

LEMMA StatsInvAlways == MCSpec => []StatsInv
<1>1. MCInit => StatsInv
  BY StatsInvInit DEF MCInit
<1>2. StatsInv /\ [MCNext]_all => StatsInv'
  <2>1. SUFFICES ASSUME StatsInv, [MCNext]_all PROVE StatsInv'
    OBVIOUS
  <2>2. CASE UNCHANGED statVars
    BY <2>1, <2>2, StatsStay
  <2>3. CASE T!Next
    BY <2>1, <2>3, StatsStep
  <2>4. QED
    BY <2>1, <2>2, <2>3 DEF MCNext, all
<1>3. QED
  BY <1>1, <1>2, PTL DEF MCSpec

-----------------------------------------------------------------------------
(* Statistics: sums over a finite set, as MapThenSumSet takes them.        *)

OneOf(X) == CHOOSE x \in X : TRUE

\* h gives the sum of g over each part of X.
Sums(h, g, X) ==
    h = [Y \in SUBSET X |-> IF Y = {} THEN 0 ELSE g[OneOf(Y)] + h[Y \ {OneOf(Y)}]]

\* The keys of a target that have counts.
Used(f) == {k \in T!KeysOf("targets") : k[1] = f /\ stat[k].count > 0}

CountAt == [k \in T!StatKeys |-> stat[k].count]

LEMMA SumForm ==
    ASSUME NEW X \in SUBSET T!StatKeys
    PROVE  T!MapThenSumSet(LAMBDA k : stat[k].count, X) = (CHOOSE h : Sums(h, CountAt, X))[X]
<1>1. ASSUME NEW h
      PROVE  Sums(h, CountAt, X) <=>
                 h = [Y \in SUBSET X |-> IF Y = {} THEN 0
                        ELSE stat[CHOOSE x \in Y : TRUE].count + h[Y \ {CHOOSE x \in Y : TRUE}]]
  <2>1. \A Y \in SUBSET X : Y # {} => OneOf(Y) \in T!StatKeys
    BY DEF OneOf
  <2>2. QED
    BY <2>1 DEF Sums, OneOf, CountAt
<1>2. QED
  BY <1>1 DEF T!MapThenSumSet, T!MapThenFoldSet

\* The members of some of the sets of M.
AllOf(M, Y) == UNION {M[k] : k \in Y}

\* If g counts the members of sets that share none, the sum counts those of all of them.
LEMMA SumsCount ==
    ASSUME NEW P, IsFiniteSet(P), NEW X, IsFiniteSet(X), NEW M \in [X -> SUBSET P],
           \A k \in X : \A l \in X : k # l => M[k] \cap M[l] = {},
           NEW g, \A k \in X : g[k] = Cardinality(M[k])
    PROVE  (CHOOSE h : Sums(h, g, X))[X] = Cardinality(AllOf(M, X))
<1>1. ASSUME NEW Y \in SUBSET X, NEW x \in Y
      PROVE  Cardinality(AllOf(M, Y)) = g[x] + Cardinality(AllOf(M, Y \ {x}))
  <2> DEFINE Z == AllOf(M, Y \ {x})
  <2>1. AllOf(M, Y) = M[x] \cup Z /\ M[x] \in SUBSET P /\ Z \in SUBSET P
    BY DEF AllOf
  <2>2. M[x] \cap Z = {}
    BY DEF AllOf
  <2>3. IsFiniteSet(M[x]) /\ IsFiniteSet(Z)
    BY <2>1, FS_Subset
  <2>4. Cardinality(M[x]) \in Nat /\ Cardinality(Z) \in Nat
    BY <2>3, FS_CardinalityType
  <2>5. Cardinality(M[x] \cup Z) = Cardinality(M[x]) + Cardinality(Z) - Cardinality(M[x] \cap Z)
    BY <2>3, FS_Union
  <2>6. Cardinality(M[x] \cap Z) = 0
    BY <2>2, FS_EmptySet
  <2> HIDE DEF Z
  <2>7. g[x] = Cardinality(M[x])
    OBVIOUS
  <2>8. QED
    BY <2>1, <2>4, <2>5, <2>6, <2>7 DEF Z
<1>2. Cardinality(AllOf(M, {})) = 0
  BY FS_EmptySet DEF AllOf
<1>3. \A Y \in SUBSET X : Y # {} => OneOf(Y) \in Y
  BY DEF OneOf
<1>4. \E h : Sums(h, g, X)
  <2> DEFINE w == [Y \in SUBSET X |-> Cardinality(AllOf(M, Y))]
  <2>1. ASSUME NEW Y \in SUBSET X, Y # {}
        PROVE  Cardinality(AllOf(M, Y)) = g[OneOf(Y)] + w[Y \ {OneOf(Y)}]
    BY <1>1, <1>3, <2>1
  <2>2. Sums(w, g, X)
    BY <1>2, <2>1 DEF Sums
  <2> HIDE DEF w
  <2>3. QED
    BY <2>2
<1> DEFINE h == CHOOSE s : Sums(s, g, X)
<1>5. Sums(h, g, X)
  BY <1>4
<1> HIDE DEF h
<1> DEFINE good == {Y \in SUBSET X : h[Y] = Cardinality(AllOf(M, Y))}
<1>6. {} \in good
  BY <1>2, <1>5 DEF Sums
<1>7. ASSUME NEW Y \in SUBSET X, Y # {}
      PROVE  \E x \in Y : Y \ {x} \in good => Y \in good
  <2>1. OneOf(Y) \in Y
    BY <1>3, <1>7
  <2>2. h[Y] = g[OneOf(Y)] + h[Y \ {OneOf(Y)}]
    BY <1>5, <1>7 DEF Sums
  <2>3. Y \ {OneOf(Y)} \in good => h[Y] = Cardinality(AllOf(M, Y))
    BY <1>1, <2>1, <2>2
  <2>4. QED
    BY <2>1, <2>3
<1>8. good \in SUBSET (SUBSET X)
  OBVIOUS
<1>9. X \in good
  <2> HIDE DEF good
  <2>1. QED
    BY <1>6, <1>7, <1>8, FiniteInduction
<1>10. QED
  BY <1>9 DEF h

-----------------------------------------------------------------------------
(* Statistics: what the pages show.                                        *)

\* The scans of a target that are counted.
ScansOf(f) == {p \in T!Counts("targets") : f \in p.targets}

LEMMA CountForm ==
    ASSUME NEW ps \in SUBSET T!Row, IsFiniteSet(ps), NEW k
    PROVE  T!StatOf(ps, k).count = Cardinality(Mine(ps, k))
<1>1. CASE Mine(ps, k) = {}
  BY <1>1, StatForm, FS_EmptySet DEF T!NoStat
<1>2. CASE Mine(ps, k) # {}
  <2>1. T!StatOf(ps, k) = [count |-> Cardinality(Mine(ps, k)),
                           first |-> T!Min(Times(Mine(ps, k))),
                           last |-> T!Max(Times(Mine(ps, k)))]
    BY <1>2, StatForm
  <2>2. QED
    BY <2>1
<1>3. QED
  BY <1>1, <1>2

LEMMA KeyOfTarget ==
    ASSUME StatsInv, "targets" \in complete, NEW f \in Goals, NEW c \in Bars
    PROVE  LET k == <<f, c>> IN
           /\ k \in T!KeysOf("targets") /\ k \in T!StatKeys
           /\ Mine(T!Counts("targets"), k) = {p \in ScansOf(f) : p.code = c}
           /\ stat[k] = T!StatOf(T!Counts("targets"), k)
           /\ stat[k].count = Cardinality(Mine(T!Counts("targets"), k))
<1> DEFINE k == <<f, c>>
           P == T!Counts("targets")
<1>1. k \in T!KeysOf("targets") /\ k \in T!StatKeys
  BY DEF T!KeysOf, T!StatKeys
<1>2. \A p : k \in T!Counted(p) <=> f \in p.targets /\ p.code = c
  BY StatsNumbers DEF T!Counted
<1>3. Mine(P, k) = {p \in ScansOf(f) : p.code = c}
  BY <1>2 DEF Mine, ScansOf
<1>4. stat[k] = T!StatOf(P, k)
  BY <1>1 DEF StatsInv, T!TablesExact
<1>5. P \in SUBSET T!Row /\ IsFiniteSet(P)
  BY CountsFacts DEF StatsInv
<1>6. stat[k].count = Cardinality(Mine(P, k))
  BY <1>4, <1>5, CountForm
<1>7. QED
  BY <1>1, <1>3, <1>4, <1>6

LEMMA UsedFacts ==
    ASSUME StatsInv, "targets" \in complete, NEW f \in Goals
    PROVE  /\ \A p \in ScansOf(f) : p.code \in Bars /\ <<f, p.code>> \in Used(f)
           /\ \A k \in Used(f) : k \in T!StatKeys /\ k[2] \in Bars /\ k = <<f, k[2]>>
           /\ IsFiniteSet(Used(f)) /\ IsFiniteSet(ScansOf(f))
           /\ ScansOf(f) \in SUBSET T!Row
<1> DEFINE P == T!Counts("targets")
<1>1. P \in SUBSET T!Row /\ IsFiniteSet(P)
  BY CountsFacts DEF StatsInv
<1>2. ScansOf(f) \in SUBSET T!Row /\ IsFiniteSet(ScansOf(f))
  BY <1>1, FS_Subset DEF ScansOf
<1>3. ASSUME NEW p \in ScansOf(f)
      PROVE  p.code \in Bars /\ <<f, p.code>> \in Used(f)
  <2>1. p.code \in Bars
    BY <1>2, RowFacts
  <2> DEFINE k == <<f, p.code>>
  <2>2. /\ k \in T!KeysOf("targets")
        /\ Mine(P, k) = {q \in ScansOf(f) : q.code = p.code}
        /\ stat[k].count = Cardinality(Mine(P, k))
    BY <2>1, KeyOfTarget
  <2>3. Cardinality(Mine(P, k)) > 0
    <3>1. Mine(P, k) # {}
      BY <2>2
    <3>2. QED
      BY <1>1, <3>1, MineFacts
  <2>4. k[1] = f
    OBVIOUS
  <2>5. QED
    BY <2>1, <2>2, <2>3, <2>4 DEF Used
<1>4. ASSUME NEW k \in Used(f)
      PROVE  k \in T!StatKeys /\ k[2] \in Bars /\ k = <<f, k[2]>>
  BY DEF Used, T!KeysOf, T!StatKeys
<1>5. IsFiniteSet(Used(f))
  <2> DEFINE g == [p \in ScansOf(f) |-> <<f, p.code>>]
  <2>1. g \in [ScansOf(f) -> Used(f)]
    BY <1>3
  <2>2. ASSUME NEW k \in Used(f) PROVE \E p \in ScansOf(f) : g[p] = k
    <3>1. k[2] \in Bars /\ k = <<f, k[2]>> /\ stat[k].count > 0
      BY <1>4 DEF Used
    <3>2. /\ Mine(P, k) = {q \in ScansOf(f) : q.code = k[2]}
          /\ stat[k].count = Cardinality(Mine(P, k))
      <4> DEFINE c == k[2]
      <4>1. c \in Bars /\ k = <<f, c>>
        BY <3>1
      <4> HIDE DEF c
      <4>2. /\ Mine(P, <<f, c>>) = {q \in ScansOf(f) : q.code = c}
            /\ stat[<<f, c>>].count = Cardinality(Mine(P, <<f, c>>))
        BY <4>1, KeyOfTarget
      <4>3. QED
        BY <4>1, <4>2 DEF c
    <3>3. Mine(P, k) # {}
      <4>1. Cardinality({}) = 0
        BY FS_EmptySet
      <4>2. QED
        BY <3>1, <3>2, <4>1
    <3>4. PICK p \in ScansOf(f) : p.code = k[2]
      BY <3>2, <3>3
    <3>5. QED
      BY <3>1, <3>4
  <2> HIDE DEF g
  <2>3. g \in Surjection(ScansOf(f), Used(f))
    BY <2>1, <2>2 DEF Surjection
  <2>4. QED
    BY <1>2, <2>3, FS_Surjection
<1>6. QED
  BY <1>2, <1>3, <1>4, <1>5

\* The sum over the barcodes of a target counts each of its scans once.
LEMMA TargetSum ==
    ASSUME StatsInv, "targets" \in complete, NEW f \in Goals
    PROVE  T!MapThenSumSet(LAMBDA k : stat[k].count, Used(f)) = Cardinality(ScansOf(f))
<1> DEFINE X == Used(f)
           P == ScansOf(f)
           M == [k \in X |-> {p \in P : p.code = k[2]}]
<1>1. /\ \A p \in P : p.code \in Bars /\ <<f, p.code>> \in X
      /\ \A k \in X : k \in T!StatKeys /\ k[2] \in Bars /\ k = <<f, k[2]>>
      /\ IsFiniteSet(X) /\ IsFiniteSet(P)
  BY UsedFacts
<1> HIDE DEF X, P
<1>2. M \in [X -> SUBSET P]
  OBVIOUS
<1>3. \A k \in X : M[k] = {p \in P : p.code = k[2]}
  OBVIOUS
<1>4. ASSUME NEW k \in X, NEW l \in X, k # l
      PROVE  M[k] \cap M[l] = {}
  <2>1. k = <<f, k[2]>> /\ l = <<f, l[2]>>
    BY <1>1
  <2>2. k[2] # l[2]
    BY <1>4, <2>1
  <2>3. QED
    BY <1>3, <2>2
<1>5. ASSUME NEW k \in X PROVE CountAt[k] = Cardinality(M[k])
  <2> DEFINE c == k[2]
  <2>1. c \in Bars /\ k = <<f, c>> /\ k \in T!StatKeys
    BY <1>1
  <2>2. /\ Mine(T!Counts("targets"), <<f, c>>) = {p \in ScansOf(f) : p.code = c}
        /\ stat[<<f, c>>].count = Cardinality(Mine(T!Counts("targets"), <<f, c>>))
    BY <2>1, KeyOfTarget
  <2>3. stat[k].count = Cardinality({p \in P : p.code = c})
    BY <2>1, <2>2 DEF P
  <2>4. QED
    BY <1>3, <2>1, <2>3 DEF CountAt
<1>6. AllOf(M, X) = P
  <2>1. ASSUME NEW p \in P PROVE p \in AllOf(M, X)
    <3>1. <<f, p.code>> \in X /\ p \in M[<<f, p.code>>]
      BY <1>1, <1>3
    <3>2. QED
      BY <3>1 DEF AllOf
  <2>2. AllOf(M, X) \subseteq P
    BY <1>2 DEF AllOf
  <2>3. QED
    BY <2>1, <2>2
<1> HIDE DEF M
<1>7. (CHOOSE h : Sums(h, CountAt, X))[X] = Cardinality(AllOf(M, X))
  BY <1>1, <1>2, <1>4, <1>5, SumsCount
<1>8. X \in SUBSET T!StatKeys
  BY <1>1
<1>9. T!MapThenSumSet(LAMBDA k : stat[k].count, X) = (CHOOSE h : Sums(h, CountAt, X))[X]
  BY <1>8, SumForm
<1>10. QED
  BY <1>6, <1>7, <1>9 DEF X, P

LEMMA TargetForm ==
    ASSUME NEW f
    PROVE  /\ Used(f) = {} => T!TargetStats(f) = T!NoStat
           /\ Used(f) # {} =>
                  /\ T!TargetStats(f).count =
                         T!MapThenSumSet(LAMBDA k : stat[k].count, Used(f))
                  /\ T!TargetStats(f).last = T!Max({stat[k].last : k \in Used(f)})
<1>1. CASE Used(f) = {}
  BY <1>1 DEF T!TargetStats, Used
<1>2. CASE Used(f) # {}
  BY <1>2 DEF T!TargetStats, Used
<1>3. QED
  BY <1>1, <1>2

\* The last scan of a barcode that is counted under a key is among its scans.
LEMMA LastOfKey ==
    ASSUME NEW ps \in SUBSET T!Row, IsFiniteSet(ps), NEW k, Mine(ps, k) # {}
    PROVE  /\ \E p \in Mine(ps, k) : T!StatOf(ps, k).last = p.at
           /\ \A p \in Mine(ps, k) : p.at <= T!StatOf(ps, k).last
<1> DEFINE ms == Mine(ps, k)
<1>1. ms \in SUBSET T!Row /\ IsFiniteSet(ms)
  BY MineFacts
<1>2. Times(ms) \in SUBSET Nat /\ IsFiniteSet(Times(ms)) /\ Times(ms) # {}
  BY <1>1, TimesFacts
<1>3. T!Max(Times(ms)) \in Times(ms) /\ \A m \in Times(ms) : m <= T!Max(Times(ms))
  BY <1>2, LeastAndGreatest
<1>4. T!StatOf(ps, k).last = T!Max(Times(ms))
  <2>1. T!StatOf(ps, k) = [count |-> Cardinality(ms), first |-> T!Min(Times(ms)),
                           last |-> T!Max(Times(ms))]
    BY StatForm
  <2>2. QED
    BY <2>1
<1>5. QED
  BY <1>3, <1>4 DEF Times

\* A target has the count of its scans, and its last one.
LEMMA TargetFacts ==
    ASSUME StatsInv, "targets" \in complete, NEW f \in Goals
    PROVE  /\ T!TargetStats(f).count = Cardinality(ScansOf(f))
           /\ ScansOf(f) # {} =>
                  /\ \E p \in ScansOf(f) : T!TargetStats(f).last = p.at
                  /\ \A p \in ScansOf(f) : p.at <= T!TargetStats(f).last
<1> DEFINE P == T!Counts("targets")
           X == Used(f)
           lasts == {stat[k].last : k \in X}
<1>1. /\ \A p \in ScansOf(f) : p.code \in Bars /\ <<f, p.code>> \in X
      /\ \A k \in X : k \in T!StatKeys /\ k[2] \in Bars /\ k = <<f, k[2]>>
      /\ IsFiniteSet(X) /\ IsFiniteSet(ScansOf(f)) /\ ScansOf(f) \in SUBSET T!Row
  BY UsedFacts
<1>2. P \in SUBSET T!Row /\ IsFiniteSet(P)
  BY CountsFacts DEF StatsInv
<1>3. CASE X = {}
  <2>1. ScansOf(f) = {}
    BY <1>1, <1>3
  <2>2. T!TargetStats(f) = T!NoStat
    BY <1>3, TargetForm
  <2>3. T!TargetStats(f).count = 0
    BY <2>2 DEF T!NoStat
  <2>4. QED
    BY <2>1, <2>3, FS_EmptySet
<1>4. CASE X # {}
  <2>1. T!TargetStats(f).count = Cardinality(ScansOf(f))
    <3>1. T!TargetStats(f).count = T!MapThenSumSet(LAMBDA k : stat[k].count, X)
      BY <1>4, TargetForm
    <3>2. T!MapThenSumSet(LAMBDA k : stat[k].count, X) = Cardinality(ScansOf(f))
      BY TargetSum
    <3>3. QED
      BY <3>1, <3>2
  <2>2. T!TargetStats(f).last = T!Max(lasts)
    BY <1>4, TargetForm
  <2>3. ASSUME NEW k \in X
        PROVE  /\ \E p \in ScansOf(f) : p.code = k[2] /\ stat[k].last = p.at
               /\ \A p \in ScansOf(f) : p.code = k[2] => p.at <= stat[k].last
    <3> DEFINE c == k[2]
    <3>1. c \in Bars /\ k = <<f, c>> /\ stat[k].count > 0
      BY <1>1 DEF Used
    <3> HIDE DEF c
    <3>2. /\ Mine(P, k) = {p \in ScansOf(f) : p.code = c}
          /\ stat[k] = T!StatOf(P, k)
          /\ stat[k].count = Cardinality(Mine(P, k))
      BY <3>1, KeyOfTarget
    <3>3. Mine(P, k) # {}
      <4>1. Cardinality({}) = 0
        BY FS_EmptySet
      <4>2. QED
        BY <3>1, <3>2, <4>1
    <3>4. /\ \E p \in Mine(P, k) : T!StatOf(P, k).last = p.at
          /\ \A p \in Mine(P, k) : p.at <= T!StatOf(P, k).last
      BY <1>2, <3>3, LastOfKey
    <3>5. QED
      BY <3>2, <3>4 DEF c
  <2>4. lasts \in SUBSET Nat
    <3>1. \A p \in ScansOf(f) : p.at \in Nat
      BY <1>1, RowFacts
    <3>2. QED
      BY <2>3, <3>1
  <2>5. IsFiniteSet(lasts) /\ lasts # {}
    <3> DEFINE g == [k \in X |-> stat[k].last]
    <3>1. g \in [X -> lasts] /\ \A t \in lasts : \E k \in X : g[k] = t
      OBVIOUS
    <3>2. lasts # {}
      BY <1>4
    <3> HIDE DEF g, lasts, X
    <3>3. g \in Surjection(X, lasts)
      BY <3>1 DEF Surjection
    <3>4. QED
      BY <1>1, <3>2, <3>3, FS_Surjection
  <2>6. T!Max(lasts) \in lasts /\ \A m \in lasts : m <= T!Max(lasts)
    BY <2>4, <2>5, LeastAndGreatest
  <2>7. \E p \in ScansOf(f) : T!TargetStats(f).last = p.at
    <3>1. PICK k \in X : T!Max(lasts) = stat[k].last
      BY <2>6
    <3>2. QED
      BY <2>2, <2>3, <3>1
  <2>8. ASSUME NEW p \in ScansOf(f) PROVE p.at <= T!TargetStats(f).last
    <3> DEFINE k == <<f, p.code>>
    <3>1. k \in X /\ k[2] = p.code
      BY <1>1
    <3> HIDE DEF k
    <3>2. p.at <= stat[k].last /\ stat[k].last \in lasts
      BY <2>3, <3>1
    <3>3. stat[k].last <= T!Max(lasts) /\ stat[k].last \in Nat /\ T!Max(lasts) \in Nat
      BY <2>4, <2>6, <3>2
    <3>4. p.at \in Nat
      BY <1>1, RowFacts
    <3>5. QED
      BY <2>2, <3>2, <3>3, <3>4
  <2>9. QED
    BY <2>1, <2>7, <2>8
<1>5. QED
  BY <1>3, <1>4

LEMMA PagesHold == StatsInv => T!PagesAgree
<1> SUFFICES ASSUME StatsInv PROVE T!PagesAgree
  OBVIOUS
<1>1. ASSUME "codes" \in complete, NEW c \in Bars
      PROVE  T!CodeStats(c).count = Cardinality({p \in T!Counts("codes") : p.code = c})
  <2> DEFINE k == <<T!AnyTarget, c>>
             P == T!Counts("codes")
  <2>1. k \in T!KeysOf("codes")
    BY DEF T!KeysOf
  <2>2. Mine(P, k) = {p \in P : p.code = c}
    BY DEF Mine, T!Counted
  <2>3. stat[k] = T!StatOf(P, k)
    BY <1>1, <2>1 DEF StatsInv, T!TablesExact
  <2>4. P \in SUBSET T!Row /\ IsFiniteSet(P)
    BY CountsFacts DEF StatsInv
  <2>5. T!StatOf(P, k).count = Cardinality(Mine(P, k))
    BY <2>4, CountForm
  <2>6. QED
    BY <2>2, <2>3, <2>5 DEF T!CodeStats
<1>2. ASSUME "targets" \in complete, NEW f \in Goals
      PROVE  T!TargetStats(f).count = Cardinality(ScansOf(f))
  BY <1>2, TargetFacts
<1>3. ASSUME "targets" \in complete, NEW f \in Goals, NEW g \in Goals,
             ScansOf(f) # {}, ScansOf(g) \subseteq ScansOf(f)
      PROVE  ~T!UsedMore(g, f)
  <2> DEFINE m == Cardinality(ScansOf(f))
             n == Cardinality(ScansOf(g))
  <2>1. IsFiniteSet(ScansOf(f)) /\ ScansOf(f) \in SUBSET T!Row
    BY <1>3, UsedFacts
  <2>2. m \in Nat /\ n \in Nat /\ n <= m /\ m > 0
    BY <1>3, <2>1, FS_Subset, FS_CardinalityType, FS_EmptySet
  <2>3. T!TargetStats(f).count = m /\ T!TargetStats(g).count = n
    BY <1>2, <1>3
  <2> HIDE DEF m, n
  <2>4. ASSUME n = m PROVE ~(T!TargetStats(g).last > T!TargetStats(f).last)
    <3>1. ScansOf(g) # {}
      <4>1. Cardinality({}) = 0
        BY FS_EmptySet
      <4>2. QED
        BY <2>2, <2>4, <4>1 DEF n
    <3>2. PICK p \in ScansOf(g) : T!TargetStats(g).last = p.at
      BY <1>3, <3>1, TargetFacts
    <3>3. p.at <= T!TargetStats(f).last
      BY <1>3, <3>2, TargetFacts
    <3>4. PICK q \in ScansOf(f) : T!TargetStats(f).last = q.at
      BY <1>3, TargetFacts
    <3>5. p.at \in Nat /\ q.at \in Nat
      BY <1>3, <2>1, <3>2, <3>4, RowFacts
    <3>6. QED
      BY <3>2, <3>3, <3>4, <3>5
  <2>5. QED
    BY <2>2, <2>3, <2>4 DEF T!UsedMore
<1>4. QED
  BY <1>1, <1>2, <1>3, SameFinite DEF T!PagesAgree, ScansOf

\* The statistics count every scan once for each of its targets and once for itself, also
\* those whose rows are gone, whatever start-up or removal was stopped at, and the pages
\* show these counts (ensure_scan_stats_backfilled, purge_raw_scan_history).
THEOREM ScanStatsCorrectAlways == MCSpec => []ScanStatsCorrect
<1>1. StatsInv => ScanStatsCorrect
  BY PagesHold DEF StatsInv, ScanStatsCorrect, T!ScanStatsCorrect
<1>2. QED
  BY <1>1, StatsInvAlways, PTL
=============================================================================
