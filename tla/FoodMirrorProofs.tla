-------------------------- MODULE FoodMirrorProofs --------------------------
(***************************************************************************)
(* What holds of the mirror of Mealie's Foods and of the targets that name *)
(* them, for any number of Foods, barcodes, syncs and requests.            *)
(*                                                                         *)
(* The inductive invariant says what each request and each sync holds      *)
(* whatever others write (Holds, SyncHolds), and that what it has read is  *)
(* still so as long as nobody wrote since (Sees, SyncSees).                *)
(***************************************************************************)
EXTENDS FoodMirror, TLAPS

NoneCrossed == crossed \cap Requests = {}

\* There is one target of a barcode and a Food, and the own unit of a target
\* is not the default of its Food.
Fit(ts, m) ==
    /\ ts \subseteq Target
    /\ \A t, u \in ts : t.code = u.code /\ t.food = u.food => t = u
    /\ \A t \in ts : t.own # NoUnit /\ m[t.food] # NoItem => m[t.food].unit # t.own

Sound(ts, m) ==
    /\ \A t \in ts : m[t.food] # NoItem
    /\ \A t \in ts : t.own # NoUnit => t.unit = t.own

\* What a request holds at each of its steps, whatever others write.
Holds(r) ==
    /\ req[r].at \in {"edit", "write"} => req[r].op \in {"page", "target"}
    /\ req[r].seen # NoTarget => req[r].op = "target"
    /\ req[r].at = "import" => req[r].got \in Food
    /\ req[r].at = "add" => req[r].loaded \in Food

\* What it has read is so as long as nobody wrote since.
Sees(r) ==
    /\ req[r].at \in {"edit", "write"} /\ req[r].op = "page"
           => req[r].loaded = mirror[req[r].food] /\ Mirrored(req[r].food)
    /\ req[r].at \in {"edit", "write"} /\ req[r].op = "target"
           => /\ req[r].seen \in targets
              /\ req[r].seen.code = req[r].code /\ req[r].seen.food = req[r].food
    /\ req[r].at = "write" => /\ req[r].loaded = mirror[req[r].food]
                              /\ mealie[req[r].food] = req[r].new
    /\ req[r].at = "add" => Mirrored(req[r].food)

\* A sync that began alone is the only one, and has seen every row that was
\* inserted since it started. A Food it was told is deleted stays so.
SyncHolds(s) ==
    /\ sync[s].at = "fetched" => sync[s].newer = {}
    /\ sync[s].at # "idle" =>
           \A f \in Foods : sync[s].list[f] = Gone => mealie[f] = Gone
    /\ sync[s].at # "idle" /\ sync[s].alone => \A q \in Syncs \ {s} : sync[q].at = "idle"
    /\ sync[s].at = "started" /\ sync[s].alone =>
           \A f \in Foods : Mirrored(f) /\ sync[s].loaded[f] = NoItem => f \in sync[s].newer

SyncSees(s) ==
    /\ sync[s].at # "idle" => sync[s].list = mealie
    /\ sync[s].at = "started" => sync[s].loaded = mirror /\ sync[s].newer = {}

RequestsInv ==
    /\ \A r \in Requests : Holds(r)
    /\ \A r \in Requests : r \in crossed \/ Sees(r)

SyncsInv ==
    /\ \A s \in Syncs : SyncHolds(s)
    /\ \A s \in Syncs : s \in crossed \/ SyncSees(s)

TargetsInv == Fit(targets, mirror) /\ (NoneCrossed => Sound(targets, mirror))

MirrorInv == TypeOK /\ TargetsInv /\ RequestsInv /\ SyncsInv

-----------------------------------------------------------------------------
LEMMA Apart ==
    /\ NoItem \notin Food /\ Never \notin Food /\ Gone \notin Food /\ Never # Gone
    /\ NoTarget \notin Target
    /\ \A f, g \in Food : f.name = g.name /\ f.unit = g.unit => f = g
BY DEF NoItem, Never, Gone, NoTarget, Food, Target

LEMMA Types ==
    ASSUME TypeOK
    PROVE  /\ \A f \in Foods : mealie[f] \in Food \cup {Never, Gone}
           /\ \A f \in Foods : mirror[f] \in Food \cup {NoItem}
           /\ \A f \in Foods : Mirrored(f) => mirror[f] \in Food
           /\ \A f \in Foods : In(f) <=> mealie[f] \notin {Never, Gone}
           /\ \A s \in Syncs : sync[s] \in Sync
           /\ \A r \in Requests : req[r] \in Request
BY Apart DEF TypeOK, Mirrored, In

LEMMA RequestParts ==
    ASSUME NEW q \in Request
    PROVE  /\ q.at \in {"idle", "edit", "import", "write", "add", "ended"}
           /\ q.op \in {"page", "target", "map", "create"}
           /\ q.food \in Foods /\ q.code \in Codes /\ q.new \in Food
           /\ q.got \in Food \cup {Never} /\ q.loaded \in Food \cup {NoItem}
           /\ q.seen \in Target \cup {NoTarget}
BY DEF Request

LEMMA SyncParts ==
    ASSUME NEW q \in Sync
    PROVE  /\ q.at \in {"idle", "fetched", "started"}
           /\ q.list \in [Foods -> Food \cup {Never, Gone}]
           /\ q.loaded \in [Foods -> Food \cup {NoItem}]
           /\ q.newer \in SUBSET Foods /\ q.before \in SUBSET Syncs
           /\ q.alone \in BOOLEAN
BY DEF Sync

LEMMA TargetParts ==
    ASSUME NEW t \in Target
    PROVE  /\ t.code \in Codes /\ t.food \in Foods /\ t.name \in Names
           /\ t.unit \in Units \cup {NoUnit} /\ t.own \in Units \cup {NoUnit}
BY DEF Target

LEMMA FoodParts ==
    ASSUME NEW x \in Food
    PROVE  x.name \in Names /\ x.unit \in Units \cup {NoUnit}
BY DEF Food

\* What the default unit of its Food has become is not a target's own.
LEMMA DisownedFits ==
    ASSUME NEW ts \in SUBSET Target, NEW m \in [Foods -> Food \cup {NoItem}],
           \A t, u \in ts : t.code = u.code /\ t.food = u.food => t = u
    PROVE  /\ Fit(Disowned(ts, m), m)
           /\ Sound(ts, m) => Sound(Disowned(ts, m), m)
           /\ \A t \in Disowned(ts, m) : \E u \in ts : t.food = u.food /\ t.name = u.name
<1> DEFINE D(t) == IF m[t.food] # NoItem /\ m[t.food].unit = t.own
                   THEN [t EXCEPT !.own = NoUnit] ELSE t
<1>1. Disowned(ts, m) = {D(t) : t \in ts}
  BY DEF Disowned
<1>2. \A t \in ts : /\ D(t) \in Target /\ D(t).code = t.code /\ D(t).food = t.food
                    /\ D(t).name = t.name /\ D(t).unit = t.unit
                    /\ D(t).own \in {t.own, NoUnit}
                    /\ D(t).own # NoUnit /\ m[t.food] # NoItem => m[t.food].unit # D(t).own
  BY DEF Target
<1> HIDE DEF D
<1>3. Fit(Disowned(ts, m), m)
  <2>1. Disowned(ts, m) \subseteq Target
    BY <1>1, <1>2
  <2>2. \A x, y \in Disowned(ts, m) : x.code = y.code /\ x.food = y.food => x = y
    BY <1>1, <1>2
  <2>3. \A x \in Disowned(ts, m) :
            x.own # NoUnit /\ m[x.food] # NoItem => m[x.food].unit # x.own
    BY <1>1, <1>2
  <2>4. QED
    BY <2>1, <2>2, <2>3 DEF Fit
<1>4. Sound(ts, m) => Sound(Disowned(ts, m), m)
  BY <1>1, <1>2 DEF Sound
<1>5. QED
  BY <1>1, <1>2, <1>3, <1>4

-----------------------------------------------------------------------------
\* A step of a request that writes nothing.
LEMMA QuietRequest ==
    ASSUME MirrorInv, NEW r \in Requests, NEW q \in Request, Goes(r, q),
           UNCHANGED <<mealie, mirror, targets, sync, outside, crossed>>,
           Holds(r)', r \in crossed \/ Sees(r)'
    PROVE  MirrorInv'
<1>0. TypeOK /\ TargetsInv /\ RequestsInv /\ SyncsInv
  BY DEF MirrorInv
<1>1. req' \in [Requests -> Request] /\ \A p \in Requests \ {r} : req'[p] = req[p]
  BY <1>0 DEF Goes, TypeOK
<1>2. TypeOK'
  BY <1>0, <1>1 DEF TypeOK
<1>3. TargetsInv'
  BY <1>0 DEF TargetsInv, NoneCrossed
<1>4. SyncsInv'
  BY <1>0 DEF SyncsInv, SyncHolds, SyncSees, Mirrored
<1>5. RequestsInv'
  <2>1. \A p \in Requests \ {r} : Holds(p)' /\ (p \in crossed' \/ Sees(p)')
    BY <1>0, <1>1 DEF RequestsInv, Holds, Sees, Mirrored
  <2>2. QED
    BY <2>1 DEF RequestsInv
<1>6. QED
  BY <1>2, <1>3, <1>4, <1>5 DEF MirrorInv

\* A step of a sync that writes nothing.
LEMMA QuietSync ==
    ASSUME MirrorInv, NEW s \in Syncs, sync' \in [Syncs -> Sync],
           UNCHANGED <<mealie, mirror, targets, req, outside>>,
           crossed' \subseteq crossed, crossed \subseteq crossed' \cup {s},
           SyncsInv'
    PROVE  MirrorInv'
<1>0. TypeOK /\ TargetsInv /\ RequestsInv /\ SyncsInv
  BY DEF MirrorInv
<1>1. s \notin Requests
  BY MirrorAssumption
<1>2. TypeOK'
  BY <1>0 DEF TypeOK
<1>3. TargetsInv'
  BY <1>0, <1>1 DEF TargetsInv, NoneCrossed
<1>4. RequestsInv'
  BY <1>0, <1>1 DEF RequestsInv, Holds, Sees, Mirrored
<1>5. QED
  BY <1>2, <1>3, <1>4 DEF MirrorInv

\* Who waits for an answer when another one writes has been crossed.
LEMMA OthersAreCrossed ==
    ASSUME MirrorInv, NEW p \in Syncs \cup Requests, Writes(p)
    PROVE  /\ crossed' \subseteq Syncs \cup Requests /\ crossed \subseteq crossed'
           /\ p \in crossed' => p \in crossed
           /\ \A q \in Syncs \ {p} : sync[q].at # "idle" => q \in crossed'
           /\ \A q \in Requests \ {p} : req[q].at \notin {"idle", "ended"} => q \in crossed'
           /\ NoneCrossed' => NoneCrossed
<1>1. Syncs \cap Requests = {}
  BY MirrorAssumption
<1>2. crossed \subseteq Syncs \cup Requests
  BY DEF MirrorInv, TypeOK
<1>3. QED
  BY <1>1, <1>2 DEF Writes, Busy, NoneCrossed

\* A request that writes.
LEMMA RequestWrites ==
    ASSUME MirrorInv, NEW r \in Requests, NEW q \in Request, Goes(r, q), Writes(r),
           UNCHANGED outside,
           mealie' \in [Foods -> Food \cup {Never, Gone}],
           \A f \in Foods : mealie[f] = Gone => mealie'[f] = Gone,
           mirror' \in [Foods -> Food \cup {NoItem}],
           \/ UNCHANGED sync /\ \A f \in Foods : Mirrored(f)' => Mirrored(f)
           \/ \E f \in Foods : /\ SyncedNow(f)
                               /\ \A g \in Foods \ {f} : Mirrored(g)' => Mirrored(g),
           Fit(targets, mirror)', NoneCrossed' => Sound(targets, mirror)',
           Holds(r)', r \in crossed \/ Sees(r)'
    PROVE  MirrorInv'
<1>0. TypeOK /\ TargetsInv /\ RequestsInv /\ SyncsInv
  BY DEF MirrorInv
<1>1. /\ crossed' \subseteq Syncs \cup Requests /\ crossed \subseteq crossed'
      /\ \A s \in Syncs : sync[s].at # "idle" => s \in crossed'
      /\ \A p \in Requests \ {r} : req[p].at \notin {"idle", "ended"} => p \in crossed'
  BY OthersAreCrossed, MirrorAssumption
<1>2. req' \in [Requests -> Request] /\ \A p \in Requests \ {r} : req'[p] = req[p]
  BY <1>0 DEF Goes, TypeOK
<1> DEFINE Stays(s) ==
        /\ sync'[s] \in Sync /\ sync'[s].at = sync[s].at
        /\ sync'[s].list = sync[s].list /\ sync'[s].alone = sync[s].alone
        /\ sync'[s].loaded = sync[s].loaded
        /\ sync[s].at # "started" => sync'[s].newer = sync[s].newer
        /\ sync[s].at = "started" =>
             \A f \in Foods : Mirrored(f)' => Mirrored(f) \/ f \in sync'[s].newer
        /\ sync[s].newer \subseteq sync'[s].newer
<1>3. ASSUME NEW s \in Syncs PROVE Stays(s)
  <2>1. sync[s] \in Sync
    BY <1>0, Types
  <2>2. CASE UNCHANGED sync /\ \A f \in Foods : Mirrored(f)' => Mirrored(f)
    BY <2>1, <2>2
  <2>3. ASSUME NEW f \in Foods, SyncedNow(f),
               \A g \in Foods \ {f} : Mirrored(g)' => Mirrored(g)
        PROVE  Stays(s)
    <3>1. sync'[s] = IF sync[s].at = "started"
                     THEN [sync[s] EXCEPT !.newer = @ \cup {f}] ELSE sync[s]
      BY <2>3 DEF SyncedNow
    <3>2. QED
      BY <2>1, <2>3, <3>1 DEF Sync
  <2>4. QED
    BY <2>2, <2>3
<1>4. sync' \in [Syncs -> Sync]
  <2>1. sync' = [s \in Syncs |-> sync'[s]]
    BY <1>0 DEF SyncedNow, TypeOK
  <2>2. QED
    BY <1>3, <2>1
<1>5. TypeOK'
  BY <1>0, <1>1, <1>2, <1>4 DEF TypeOK, Fit
<1>6. TargetsInv'
  BY DEF TargetsInv
<1>7. RequestsInv'
  <2>1. \A p \in Requests \ {r} : Holds(p)'
    BY <1>0, <1>2 DEF RequestsInv, Holds
  <2>2. \A p \in Requests \ {r} : p \in crossed' \/ Sees(p)'
    BY <1>1, <1>2 DEF Sees
  <2>3. QED
    BY <1>1, <2>1, <2>2 DEF RequestsInv
<1>8. SyncsInv'
  <2>1. \A s \in Syncs : SyncHolds(s)'
    BY <1>0, <1>3 DEF SyncsInv, SyncHolds
  <2>2. \A s \in Syncs : s \in crossed' \/ SyncSees(s)'
    BY <1>1, <1>3 DEF SyncSees
  <2>3. QED
    BY <2>1, <2>2 DEF SyncsInv
<1>9. QED
  BY <1>5, <1>6, <1>7, <1>8 DEF MirrorInv

-----------------------------------------------------------------------------
LEMMA SyncFetchesKeeps ==
    ASSUME MirrorInv, NEW s \in Syncs, SyncFetches(s)
    PROVE  MirrorInv'
<1>0. TypeOK /\ SyncsInv /\ \A q \in Syncs : sync[q] \in Sync
  BY Types DEF MirrorInv
<1>1. /\ sync[s].at = "idle" /\ crossed' = crossed \ {s}
      /\ UNCHANGED <<mealie, mirror, targets, req, outside>>
      /\ sync' = [q \in Syncs |->
             IF q = s THEN [NoSync EXCEPT !.at = "fetched", !.list = mealie,
                                          !.alone = \A p \in Syncs : ~Busy(p)]
             ELSE [sync[q] EXCEPT !.alone = @ /\ ~Busy(q)]]
  BY DEF SyncFetches
<1>2. /\ sync'[s] \in Sync /\ sync'[s].at = "fetched" /\ sync'[s].newer = {}
      /\ sync'[s].list = mealie
      /\ sync'[s].alone => \A p \in Syncs : sync[p].at = "idle"
  <2> DEFINE only == \A p \in Syncs : ~Busy(p)
  <2>1. sync'[s] = [NoSync EXCEPT !.at = "fetched", !.list = mealie, !.alone = only]
    BY <1>1
  <2>2. mealie \in [Foods -> Food \cup {Never, Gone}]
    BY <1>0 DEF TypeOK
  <2>3. only \in BOOLEAN /\ (only => \A p \in Syncs : sync[p].at = "idle")
    BY DEF Busy
  <2>4. NoSync \in Sync /\ NoSync.newer = {}
    BY DEF NoSync, Sync
  <2> HIDE DEF only
  <2>5. QED
    BY <2>1, <2>2, <2>3, <2>4 DEF Sync
<1>3. ASSUME NEW q \in Syncs \ {s}
      PROVE  /\ sync'[q] \in Sync /\ sync'[q].at = sync[q].at
             /\ sync'[q].list = sync[q].list /\ sync'[q].newer = sync[q].newer
             /\ sync'[q].loaded = sync[q].loaded
             /\ sync'[q].alone => sync[q].alone /\ sync[q].at = "idle"
  <2>1. sync'[q] = [sync[q] EXCEPT !.alone = @ /\ ~Busy(q)]
    BY <1>1
  <2>2. (sync[q].alone /\ ~Busy(q)) \in BOOLEAN
    OBVIOUS
  <2>3. QED
    BY <1>0, <2>1, <2>2 DEF Sync, Busy
<1>4. sync' \in [Syncs -> Sync]
  BY <1>1, <1>2, <1>3
<1>5. ASSUME NEW q \in Syncs PROVE SyncHolds(q)' /\ (q \in crossed' \/ SyncSees(q)')
  <2>1. CASE q = s
    <3>1. mealie' = mealie /\ \A p \in Syncs \ {s} : sync'[p].at = sync[p].at
      BY <1>1, <1>3
    <3>2. QED
      BY <1>2, <2>1, <3>1 DEF SyncHolds, SyncSees
  <2>2. CASE q # s
    <3>1. mealie' = mealie /\ mirror' = mirror /\ (q \in crossed => q \in crossed')
      BY <1>1, <2>2
    <3>2. /\ sync'[q].at = sync[q].at
          /\ sync'[q].list = sync[q].list /\ sync'[q].newer = sync[q].newer
          /\ sync'[q].loaded = sync[q].loaded
          /\ sync'[q].alone => sync'[q].at = "idle"
      BY <1>3, <2>2
    <3>3. SyncHolds(q) /\ (q \in crossed \/ SyncSees(q))
      BY <1>0 DEF SyncsInv
    <3>4. QED
      BY <3>1, <3>2, <3>3 DEF SyncHolds, SyncSees
  <2>3. QED
    BY <2>1, <2>2
<1>6. SyncsInv'
  BY <1>5 DEF SyncsInv
<1>7. crossed' \subseteq crossed /\ crossed \subseteq crossed' \cup {s}
  BY <1>1
<1>8. QED
  BY <1>1, <1>4, <1>6, <1>7, QuietSync

LEMMA SyncStartsKeeps ==
    ASSUME MirrorInv, NEW s \in Syncs, SyncStarts(s)
    PROVE  MirrorInv'
<1>0. TypeOK /\ SyncsInv /\ \A q \in Syncs : sync[q] \in Sync
  BY Types DEF MirrorInv
<1> DEFINE started == {q \in Syncs : sync[q].at = "started"}
<1>1. /\ sync[s].at = "fetched"
      /\ UNCHANGED <<mealie, mirror, targets, req, outside, crossed>>
      /\ sync' = [sync EXCEPT ![s] = [@ EXCEPT !.at = "started", !.loaded = mirror,
                                               !.before = started]]
  BY DEF SyncStarts
<1> HIDE DEF started
<1>2. started \in SUBSET Syncs
  BY DEF started
<1>3. \A q \in Syncs \ {s} : sync'[q] = sync[q]
  BY <1>1
<1>4. /\ sync'[s] \in Sync /\ sync'[s].at = "started" /\ sync'[s].loaded = mirror
      /\ sync'[s].newer = sync[s].newer /\ sync'[s].list = sync[s].list
      /\ sync'[s].alone = sync[s].alone
  <2>1. sync'[s] = [sync[s] EXCEPT !.at = "started", !.loaded = mirror,
                                   !.before = started]
    BY <1>0, <1>1 DEF TypeOK
  <2>2. mirror \in [Foods -> Food \cup {NoItem}]
    BY <1>0 DEF TypeOK
  <2>3. QED
    BY <1>0, <1>2, <2>1, <2>2 DEF Sync
<1>5. sync' \in [Syncs -> Sync]
  BY <1>0, <1>1, <1>3, <1>4 DEF TypeOK
<1>6. \A q \in Syncs : SyncHolds(q)'
  BY <1>0, <1>1, <1>3, <1>4 DEF SyncsInv, SyncHolds, Mirrored
<1>7. \A q \in Syncs : q \in crossed' \/ SyncSees(q)'
  BY <1>0, <1>1, <1>3, <1>4 DEF SyncsInv, SyncSees, SyncHolds
<1>8. QED
  BY <1>1, <1>5, <1>6, <1>7, QuietSync DEF SyncsInv

\* A sync that is over leaves the others as they are.
LEMMA EndOfSync ==
    ASSUME MirrorInv, NEW s \in Syncs
    PROVE  /\ SyncEnds(s) \in [Syncs -> Sync]
           /\ SyncEnds(s)[s].at = "idle" /\ SyncEnds(s)[s].newer = {}
           /\ \A q \in Syncs \ {s} :
                 LET e == SyncEnds(s)[q] IN
                 /\ e.at = sync[q].at /\ e.list = sync[q].list
                 /\ e.loaded = sync[q].loaded /\ e.newer = sync[q].newer
                 /\ e.alone = sync[q].alone
<1>1. \A q \in Syncs : sync[q] \in Sync
  BY Types DEF MirrorInv
<1>2. NoSync \in Sync /\ NoSync.at = "idle" /\ NoSync.newer = {}
  BY DEF NoSync, Sync
<1>3. SyncEnds(s)[s] = NoSync
  BY DEF SyncEnds
<1>4. ASSUME NEW q \in Syncs \ {s}
      PROVE  LET e == SyncEnds(s)[q] IN
             /\ e \in Sync /\ e.at = sync[q].at /\ e.list = sync[q].list
             /\ e.loaded = sync[q].loaded /\ e.newer = sync[q].newer
             /\ e.alone = sync[q].alone
  <2>1. SyncEnds(s)[q] = [sync[q] EXCEPT !.before = @ \ {s}]
    BY DEF SyncEnds
  <2>2. QED
    BY <1>1, <2>1 DEF Sync
<1>5. SyncEnds(s) \in [Syncs -> Sync]
  <2>1. \A q \in Syncs : SyncEnds(s)[q] \in Sync
    BY <1>2, <1>3, <1>4
  <2>2. QED
    BY <2>1 DEF SyncEnds
<1>6. QED
  BY <1>2, <1>3, <1>4, <1>5

LEMMA SyncFailsKeeps ==
    ASSUME MirrorInv, NEW s \in Syncs, SyncFails(s)
    PROVE  MirrorInv'
<1>0. SyncsInv
  BY DEF MirrorInv
<1>1. sync' = SyncEnds(s) /\ UNCHANGED <<mealie, mirror, targets, req, outside, crossed>>
  BY DEF SyncFails
<1>2. \A q \in Syncs : SyncHolds(q)'
  BY <1>0, <1>1, EndOfSync DEF SyncsInv, SyncHolds, Mirrored
<1>3. \A q \in Syncs : q \in crossed' \/ SyncSees(q)'
  BY <1>0, <1>1, EndOfSync DEF SyncsInv, SyncSees
<1>4. QED
  BY <1>1, <1>2, <1>3, EndOfSync, QuietSync DEF SyncsInv

\* What a sync makes of the mirror: the Foods it was told of have a row, and
\* a row goes only if it is stale.
LEMMA SyncedMirror ==
    ASSUME MirrorInv, NEW s \in Syncs, SyncWrites(s)
    PROVE  /\ mirror' \in [Foods -> Food \cup {NoItem}]
           /\ \A f \in Foods :
                 /\ f \in Listed(s) => mirror'[f] = SyncedRow(s, f) /\ mirror'[f] \in Food
                 /\ f \in StaleItems(s) => mirror'[f] = NoItem
                 /\ f \notin Listed(s) \cup StaleItems(s) => mirror'[f] = mirror[f]
<1>0. TypeOK /\ sync[s] \in Sync
  BY Types DEF MirrorInv
<1>1. /\ ~SyncConflicts(s)
      /\ mirror' = [f \in Foods |-> IF f \in Listed(s) THEN SyncedRow(s, f)
                                    ELSE IF f \in StaleItems(s) THEN NoItem
                                    ELSE mirror[f]]
  BY DEF SyncWrites
<1>2. ASSUME NEW f \in Listed(s) PROVE SyncedRow(s, f) \in Food
  <2>1. f \in Foods /\ sync[s].list[f] \in Food
    BY <1>2 DEF Listed
  <2>2. CASE sync[s].loaded[f] = NoItem
    BY <2>1, <2>2 DEF SyncedRow
  <2>3. CASE sync[s].loaded[f] # NoItem
    <3>1. sync[s].loaded[f] \in Food /\ mirror[f] \in Food
      BY <1>0, <1>1, <2>1, <2>3, SyncParts, Types DEF SyncConflicts, Mirrored
    <3>2. SyncedRow(s, f) = Columns(sync[s].loaded[f], sync[s].list[f], mirror[f])
      BY <2>3 DEF SyncedRow
    <3>3. QED
      BY <2>1, <3>1, <3>2 DEF Columns, Column, Food
  <2>4. QED
    BY <2>2, <2>3
<1>3. Listed(s) \cap StaleItems(s) = {}
  BY DEF StaleItems
<1>4. QED
  BY <1>0, <1>1, <1>2, <1>3 DEF TypeOK

LEMMA SyncWritesKeeps ==
    ASSUME MirrorInv, NEW s \in Syncs, SyncWrites(s)
    PROVE  MirrorInv'
<1>0. TypeOK /\ TargetsInv /\ RequestsInv /\ SyncsInv /\ \A q \in Syncs : sync[q] \in Sync
  BY Types DEF MirrorInv
<1>1. /\ sync[s].at = "started" /\ Writes(s) /\ UNCHANGED <<mealie, req, outside>>
      /\ targets' = Disowned(TargetsKept(s), mirror')
      /\ sync' = SyncedAt(s, Listed(s))
  BY DEF SyncWrites
<1>2. /\ crossed' \subseteq Syncs \cup Requests /\ crossed \subseteq crossed'
      /\ \A q \in Syncs \ {s} : sync[q].at # "idle" => q \in crossed'
      /\ \A p \in Requests : req[p].at \notin {"idle", "ended"} => p \in crossed'
      /\ NoneCrossed' => NoneCrossed
  BY <1>1, OthersAreCrossed, MirrorAssumption
<1>3. mirror' \in [Foods -> Food \cup {NoItem}]
  BY SyncedMirror
<1>4. TargetsKept(s) \in SUBSET Target
      /\ \A t, u \in TargetsKept(s) : t.code = u.code /\ t.food = u.food => t = u
  BY <1>0 DEF TargetsInv, Fit, TargetsKept
<1>5. Sound(targets, mirror) => Sound(TargetsKept(s), mirror')
  <2> SUFFICES ASSUME Sound(targets, mirror), NEW t \in TargetsKept(s)
               PROVE  mirror'[t.food] # NoItem /\ (t.own # NoUnit => t.unit = t.own)
    BY DEF Sound
  <2>1. t \in targets /\ t.food \notin StaleItems(s) /\ t.food \in Foods
    BY <1>4, TargetParts DEF TargetsKept
  <2>2. mirror[t.food] # NoItem /\ (t.own # NoUnit => t.unit = t.own)
    BY <2>1 DEF Sound
  <2>3. QED
    BY <2>1, <2>2, SyncedMirror, Apart
<1>6. TargetsInv'
  BY <1>0, <1>1, <1>2, <1>3, <1>4, <1>5, DisownedFits DEF TargetsInv
<1>7. ASSUME NEW q \in Syncs \ {s}
      PROVE  /\ sync'[q] \in Sync /\ sync'[q].at = sync[q].at
             /\ sync'[q].list = sync[q].list /\ sync'[q].alone = sync[q].alone
             /\ sync[q].at # "started" => sync'[q].newer = sync[q].newer
  <2> DEFINE e == SyncEnds(s)[q]
  <2>1. /\ e \in Sync /\ e.at = sync[q].at /\ e.list = sync[q].list
        /\ e.newer = sync[q].newer /\ e.alone = sync[q].alone
    BY EndOfSync
  <2> HIDE DEF e
  <2>2. CASE sync[q].at # "started"
    <3>1. sync'[q] = e
      BY <1>1, <2>2 DEF SyncedAt, e
    <3>2. QED
      BY <2>1, <2>2, <3>1
  <2>3. CASE sync[q].at = "started"
    <3> DEFINE fs == IF q \in sync[s].before THEN e.newer \cup Listed(s)
                     ELSE e.newer \ Listed(s)
    <3>1. fs \in SUBSET Foods
      BY <2>1, SyncParts DEF Listed
    <3>2. sync'[q] = [e EXCEPT !.newer = fs]
      BY <1>1, <2>3 DEF SyncedAt, e
    <3> HIDE DEF fs
    <3>3. QED
      BY <2>1, <2>3, <3>1, <3>2 DEF Sync
  <2>4. QED
    BY <2>2, <2>3
<1>8. sync'[s] \in Sync /\ sync'[s].at = "idle"
  BY <1>1, EndOfSync DEF SyncedAt
<1>9. TypeOK'
  <2>1. sync' = [q \in Syncs |-> sync'[q]]
    BY <1>1 DEF SyncedAt
  <2>2. sync' \in [Syncs -> Sync]
    BY <1>7, <1>8, <2>1
  <2>3. QED
    BY <1>0, <1>1, <1>2, <1>3, <1>6, <2>2 DEF TypeOK, TargetsInv, Fit
<1>10. RequestsInv'
  BY <1>0, <1>1, <1>2 DEF RequestsInv, Holds, Sees
<1>11. \A q \in Syncs : SyncHolds(q)'
  <2>1. \A q \in Syncs \ {s} : sync[q].at # "idle" => ~sync[q].alone
    BY <1>0, <1>1 DEF SyncsInv, SyncHolds
  <2>2. QED
    BY <1>0, <1>1, <1>7, <1>8, <2>1 DEF SyncsInv, SyncHolds
<1>12. \A q \in Syncs : q \in crossed' \/ SyncSees(q)'
  BY <1>2, <1>7, <1>8 DEF SyncSees
<1>13. QED
  BY <1>6, <1>9, <1>10, <1>11, <1>12 DEF MirrorInv, SyncsInv

-----------------------------------------------------------------------------
LEMMA RequestBegins ==
    ASSUME MirrorInv, NEW r \in Requests,
           PageEditBegins(r) \/ TargetEditBegins(r) \/ PutFails(r) \/ EditFails(r)
               \/ MapBegins(r)
    PROVE  MirrorInv'
<1> DEFINE f == req[r].food
<1>0. /\ TypeOK /\ TargetsInv /\ RequestsInv /\ req[r] \in Request /\ Holds(r)
      /\ f \in Foods /\ mirror[f] \in Food \cup {NoItem}
      /\ mealie[f] \in Food \cup {Never, Gone}
      /\ \A p \in Requests : req[p] \in Request
  BY Types, RequestParts DEF MirrorInv, RequestsInv
<1>1. UNCHANGED <<mealie, mirror, targets, sync, outside, crossed>>
  BY DEF PageEditBegins, TargetEditBegins, PutFails, EditFails, MapBegins
<1>2. CASE PutFails(r) \/ EditFails(r)
  <2> DEFINE q == [req[r] EXCEPT !.at = "ended"]
  <2>1. Goes(r, q)
    BY <1>2 DEF PutFails, EditFails, Ends
  <2>2. q \in Request /\ q.at = "ended" /\ q.op = req[r].op /\ q.seen = req[r].seen
    BY <1>0 DEF Request
  <2>3. req'[r] = q
    BY <1>0, <2>1 DEF Goes, TypeOK
  <2> HIDE DEF q
  <2>4. Holds(r)' /\ Sees(r)'
    BY <1>0, <2>2, <2>3 DEF Holds, Sees
  <2>5. QED
    BY <1>1, <2>1, <2>2, <2>4, QuietRequest
<1>3. CASE PageEditBegins(r)
  <2> DEFINE q == [req[r] EXCEPT !.at = "edit", !.loaded = mirror[f]]
  <2>1. Goes(r, q) /\ req[r].op = "page" /\ Mirrored(f)
    BY <1>3 DEF PageEditBegins
  <2>2. /\ q \in Request /\ q.at = "edit" /\ q.op = "page" /\ q.seen = req[r].seen
        /\ q.loaded = mirror[f] /\ q.food = f
    BY <1>0, <2>1 DEF Request
  <2>3. req'[r] = q
    BY <1>0, <2>1 DEF Goes, TypeOK
  <2> HIDE DEF q
  <2>4. Holds(r)' /\ Sees(r)'
    BY <1>0, <1>1, <2>1, <2>2, <2>3 DEF Holds, Sees, Mirrored
  <2>5. QED
    BY <1>1, <2>1, <2>2, <2>4, QuietRequest
<1>4. CASE TargetEditBegins(r)
  <2>0. PICK t \in targets : /\ t.code = req[r].code /\ t.food = f /\ req[r].op = "target"
                             /\ Goes(r, [req[r] EXCEPT !.at = "edit", !.seen = t])
    BY <1>4 DEF TargetEditBegins
  <2> DEFINE q == [req[r] EXCEPT !.at = "edit", !.seen = t]
  <2>1. Goes(r, q) /\ t \in Target
    BY <1>0, <2>0 DEF TypeOK
  <2>2. /\ q \in Request /\ q.at = "edit" /\ q.op = "target" /\ q.seen = t
        /\ q.food = f /\ q.code = req[r].code
    BY <1>0, <2>0, <2>1 DEF Request
  <2>3. req'[r] = q
    BY <1>0, <2>1 DEF Goes, TypeOK
  <2> HIDE DEF q
  <2>4. Holds(r)' /\ Sees(r)'
    BY <1>0, <1>1, <2>0, <2>1, <2>2, <2>3 DEF Holds, Sees, Mirrored
  <2>5. QED
    BY <1>1, <2>1, <2>2, <2>4, QuietRequest
<1>5. CASE MapBegins(r)
  <2>0. req[r].op = "map" /\ req[r].seen = NoTarget
    BY <1>0, <1>5 DEF MapBegins, Holds
  <2>1. CASE Mirrored(f) /\ Goes(r, [req[r] EXCEPT !.at = "add", !.loaded = mirror[f]])
    <3> DEFINE q == [req[r] EXCEPT !.at = "add", !.loaded = mirror[f]]
    <3>1. Goes(r, q) /\ mirror[f] \in Food
      BY <1>0, <2>1 DEF Mirrored
    <3>2. /\ q \in Request /\ q.at = "add" /\ q.op = "map" /\ q.loaded = mirror[f]
          /\ q.food = f /\ q.seen = NoTarget
      BY <1>0, <2>0, <3>1 DEF Request
    <3>3. req'[r] = q
      BY <1>0, <3>1 DEF Goes, TypeOK
    <3> HIDE DEF q
    <3>4. Holds(r)' /\ Sees(r)'
      BY <1>1, <2>1, <3>1, <3>2, <3>3 DEF Holds, Sees, Mirrored
    <3>5. QED
      BY <1>1, <3>1, <3>2, <3>4, QuietRequest
  <2>2. CASE In(f) /\ Goes(r, [req[r] EXCEPT !.at = "import", !.got = mealie[f]])
    <3> DEFINE q == [req[r] EXCEPT !.at = "import", !.got = mealie[f]]
    <3>1. Goes(r, q) /\ mealie[f] \in Food
      BY <2>2 DEF In
    <3>2. /\ q \in Request /\ q.at = "import" /\ q.op = "map" /\ q.got = mealie[f]
          /\ q.seen = NoTarget
      BY <1>0, <2>0, <3>1 DEF Request
    <3>3. req'[r] = q
      BY <1>0, <3>1 DEF Goes, TypeOK
    <3> HIDE DEF q
    <3>4. Holds(r)' /\ Sees(r)'
      BY <3>1, <3>2, <3>3 DEF Holds, Sees
    <3>5. QED
      BY <1>1, <3>1, <3>2, <3>4, QuietRequest
  <2>3. QED
    BY <1>5, <2>1, <2>2 DEF MapBegins
<1>6. QED
  BY <1>2, <1>3, <1>4, <1>5

LEMMA PutsKeeps ==
    ASSUME MirrorInv, NEW r \in Requests, Puts(r)
    PROVE  MirrorInv'
<1> DEFINE f == req[r].food
<1>0. /\ TypeOK /\ TargetsInv /\ RequestsInv /\ req[r] \in Request /\ Holds(r)
      /\ f \in Foods /\ mirror[f] \in Food \cup {NoItem} /\ req[r].new \in Food
      /\ r \in crossed \/ Sees(r)
  BY Types, RequestParts DEF MirrorInv, RequestsInv
<1>1. /\ req[r].at = "edit" /\ In(f) /\ mealie' = [mealie EXCEPT ![f] = req[r].new]
      /\ Writes(r) /\ UNCHANGED <<mirror, targets, sync, outside>>
  BY DEF Puts
<1>2. PICK q : /\ Goes(r, q)
               /\ \/ q = [req[r] EXCEPT !.at = "ended"]
                  \/ q = [req[r] EXCEPT !.at = "write",
                             !.loaded = IF req[r].op = "page" THEN @ ELSE mirror[f]]
  BY DEF Puts, Ends
<1>3. /\ q \in Request /\ q.at \in {"ended", "write"} /\ q.op = req[r].op
      /\ q.seen = req[r].seen /\ q.code = req[r].code /\ q.food = f /\ q.new = req[r].new
      /\ q.at = "write" => q.loaded = IF req[r].op = "page" THEN req[r].loaded ELSE mirror[f]
  BY <1>0, <1>2 DEF Request
<1>4. req'[r] = q
  BY <1>0, <1>2 DEF Goes, TypeOK
<1>5. /\ mealie' \in [Foods -> Food \cup {Never, Gone}] /\ mealie'[f] = req[r].new
      /\ \A g \in Foods : mealie[g] = Gone => mealie'[g] = Gone
  BY <1>0, <1>1, Types DEF TypeOK
<1>6. Holds(r)'
  BY <1>0, <1>1, <1>3, <1>4 DEF Holds
<1>7. r \in crossed \/ Sees(r)'
  <2>1. req[r].op \in {"page", "target"}
    BY <1>0, <1>1 DEF Holds
  <2>2. QED
    BY <1>0, <1>1, <1>3, <1>4, <1>5, <2>1 DEF Sees, Mirrored
<1>8. Fit(targets, mirror)' /\ (NoneCrossed' => Sound(targets, mirror)')
  BY <1>0, <1>1, OthersAreCrossed DEF TargetsInv
<1>9. mirror' \in [Foods -> Food \cup {NoItem}] /\ \A g \in Foods : Mirrored(g)' => Mirrored(g)
  BY <1>0, <1>1 DEF TypeOK, Mirrored
<1>10. QED
  BY <1>1, <1>2, <1>3, <1>5, <1>6, <1>7, <1>8, <1>9, RequestWrites

\* Of the targets of the edited Food only the name and the unit change, and
\* the unit of none that has one of its own if nobody wrote since the edit
\* began.
LEMMA EditedTargets ==
    ASSUME MirrorInv, NEW r \in Requests, req[r].at = "write"
    PROVE  /\ TargetsEdited(r) \in SUBSET Target
           /\ \A t, u \in TargetsEdited(r) : t.code = u.code /\ t.food = u.food => t = u
           /\ \A t \in TargetsEdited(r) : \E u \in targets :
                 /\ t.food = u.food /\ t.own = u.own
                 /\ r \notin crossed /\ Sound(targets, mirror) /\ u.own # NoUnit =>
                        t.unit = u.unit
                 /\ r \notin crossed /\ t.food = req[r].food => t.name = req[r].new.name
<1> DEFINE f == req[r].food
           old == IF req[r].loaded = NoItem THEN NoUnit ELSE req[r].loaded.unit
           Seen(t) == IF req[r].seen # NoTarget /\ t.code = req[r].code
                      THEN req[r].seen ELSE t
           E(t) == IF t.food # f THEN t
                   ELSE [t EXCEPT !.name = Column(Seen(t).name, req[r].new.name, t.name),
                            !.unit = UnitAfterEdit(t, Seen(t).unit, old, req[r].new.unit)]
<1>0. /\ TypeOK /\ Fit(targets, mirror) /\ req[r] \in Request /\ Holds(r)
      /\ req[r].new \in Food /\ (r \in crossed \/ Sees(r))
  BY Types, RequestParts DEF MirrorInv, RequestsInv, TargetsInv
<1>1. TargetsEdited(r) = {E(t) : t \in targets}
  BY DEF TargetsEdited
<1>2. req[r].new.name \in Names /\ req[r].new.unit \in Units \cup {NoUnit}
  BY <1>0, FoodParts
<1>3. ASSUME NEW t \in targets, r \notin crossed, t.food = f PROVE Seen(t) = t
  <2>1. CASE req[r].seen # NoTarget /\ t.code = req[r].code
    <3>1. req[r].op = "target"
      BY <1>0, <2>1 DEF Holds
    <3>2. /\ req[r].seen \in targets
          /\ req[r].seen.code = req[r].code /\ req[r].seen.food = f
      BY <1>0, <1>3, <3>1 DEF Sees
    <3>3. QED
      BY <1>0, <1>3, <2>1, <3>2 DEF Fit
  <2>2. QED
    BY <2>1
<1> HIDE DEF Seen
<1>4. ASSUME NEW t \in targets
      PROVE  /\ E(t) \in Target /\ E(t).code = t.code /\ E(t).food = t.food
             /\ E(t).own = t.own
             /\ t.food = f =>
                  /\ E(t).name = Column(Seen(t).name, req[r].new.name, t.name)
                  /\ E(t).unit = UnitAfterEdit(t, Seen(t).unit, old, req[r].new.unit)
             /\ t.food # f => E(t) = t
  <2> DEFINE name == Column(Seen(t).name, req[r].new.name, t.name)
             unit == UnitAfterEdit(t, Seen(t).unit, old, req[r].new.unit)
  <2>1. t \in Target
    BY <1>0 DEF Fit
  <2>2. name \in Names /\ unit \in Units \cup {NoUnit}
    BY <1>2, <2>1, TargetParts DEF Column, UnitAfterEdit
  <2>3. E(t) = IF t.food # f THEN t ELSE [t EXCEPT !.name = name, !.unit = unit]
    OBVIOUS
  <2> HIDE DEF name, unit
  <2>4. CASE t.food # f
    BY <2>1, <2>3, <2>4
  <2>5. CASE t.food = f
    <3>1. E(t) = [t EXCEPT !.name = name, !.unit = unit]
      BY <2>3, <2>5
    <3> HIDE DEF E
    <3>2. /\ E(t) \in Target /\ E(t).code = t.code /\ E(t).food = t.food
          /\ E(t).own = t.own /\ E(t).name = name /\ E(t).unit = unit
      BY <2>1, <2>2, <3>1 DEF Target
    <3>3. QED
      BY <2>5, <3>2 DEF name, unit
  <2>6. QED
    BY <2>4, <2>5
<1> HIDE DEF E
<1>5. ASSUME NEW t \in targets, r \notin crossed, t.food = f
      PROVE  E(t).name = req[r].new.name
  BY <1>3, <1>4, <1>5 DEF Column
<1>6. ASSUME NEW t \in targets, r \notin crossed, Sound(targets, mirror), t.own # NoUnit
      PROVE  E(t).unit = t.unit
  <2>1. CASE t.food # f
    BY <1>4, <2>1
  <2>2. CASE t.food = f
    <3>1. req[r].loaded = mirror[f] /\ mirror[f] # NoItem /\ t.unit = t.own
      BY <1>0, <1>6, <2>2 DEF Sees, Sound
    <3>2. mirror[f].unit # t.own /\ old = mirror[f].unit
      BY <1>0, <1>6, <2>2, <3>1 DEF Fit
    <3>3. Seen(t).unit = t.own
      BY <1>3, <1>6, <2>2, <3>1
    <3>4. UnitAfterEdit(t, Seen(t).unit, old, req[r].new.unit) = t.unit
      BY <1>6, <3>2, <3>3 DEF UnitAfterEdit
    <3>5. QED
      BY <1>4, <2>2, <3>4
  <2>3. QED
    BY <2>1, <2>2
<1>7. \A x, y \in TargetsEdited(r) : x.code = y.code /\ x.food = y.food => x = y
  BY <1>0, <1>1, <1>4 DEF Fit
<1>8. QED
  BY <1>1, <1>4, <1>5, <1>6, <1>7

LEMMA EditWritesKeeps ==
    ASSUME MirrorInv, NEW r \in Requests, EditWrites(r)
    PROVE  MirrorInv'
<1> DEFINE f == req[r].food
           q == [req[r] EXCEPT !.at = "ended"]
<1>0. /\ TypeOK /\ TargetsInv /\ RequestsInv /\ req[r] \in Request /\ Holds(r)
      /\ f \in Foods /\ mirror[f] \in Food \cup {NoItem} /\ req[r].new \in Food
      /\ req[r].loaded \in Food \cup {NoItem}
      /\ r \in crossed \/ Sees(r)
  BY Types, RequestParts DEF MirrorInv, RequestsInv
<1>1. /\ req[r].at = "write" /\ (req[r].loaded # NoItem => Mirrored(f))
      /\ mirror' = [mirror EXCEPT ![f] = IF req[r].loaded = NoItem THEN mirror[f]
                              ELSE Columns(req[r].loaded, req[r].new, mirror[f])]
      /\ targets' = Disowned(TargetsEdited(r), mirror')
      /\ SyncedNow(f) \/ UNCHANGED sync
      /\ Goes(r, q) /\ Writes(r) /\ UNCHANGED <<mealie, outside>>
  BY <1>0 DEF EditWrites, Ends, TypeOK
<1>2. q \in Request /\ q.at = "ended" /\ q.op = req[r].op /\ q.seen = req[r].seen
  BY <1>0 DEF Request
<1>3. req'[r] = q
  BY <1>0, <1>1 DEF Goes, TypeOK
<1> HIDE DEF q
<1>4. Holds(r)' /\ Sees(r)'
  BY <1>0, <1>2, <1>3 DEF Holds, Sees
<1>5. /\ mirror' \in [Foods -> Food \cup {NoItem}]
      /\ \A g \in Foods : Mirrored(g)' <=> Mirrored(g)
  <2>1. req[r].loaded # NoItem =>
            Columns(req[r].loaded, req[r].new, mirror[f]) \in Food
    BY <1>0, <1>1 DEF Columns, Column, Food, Mirrored
  <2>2. QED
    BY <1>0, <1>1, <2>1, Apart DEF TypeOK, Mirrored
<1>6. Fit(targets, mirror)'
  BY <1>1, <1>5, EditedTargets, DisownedFits
<1>7. ASSUME NoneCrossed' PROVE Sound(targets, mirror)'
  <2>1. NoneCrossed
    BY <1>1, <1>7, OthersAreCrossed
  <2>2. Sound(targets, mirror) /\ r \notin crossed
    BY <1>0, <2>1 DEF TargetsInv, NoneCrossed
  <2>3. \A t \in TargetsEdited(r) : t.food \in Foods
    BY <1>1, EditedTargets, TargetParts
  <2>4. Sound(TargetsEdited(r), mirror')
    BY <1>1, <1>5, <2>2, <2>3, EditedTargets DEF Sound, Mirrored
  <2>5. QED
    BY <1>1, <1>5, <2>4, EditedTargets, DisownedFits
<1>8. mealie' \in [Foods -> Food \cup {Never, Gone}]
      /\ \A g \in Foods : mealie[g] = Gone => mealie'[g] = Gone
  BY <1>0, <1>1 DEF TypeOK
<1>9. QED
  BY <1>0, <1>1, <1>2, <1>4, <1>5, <1>6, <1>7, <1>8, RequestWrites

\* A link is the only one of its barcode and its Food, and has no unit of its
\* own.
LEMMA LinkedTargets ==
    ASSUME MirrorInv, NEW r \in Requests, NEW item \in Food
    PROVE  /\ Linked(r, item) \in SUBSET Target
           /\ \A t, u \in Linked(r, item) : t.code = u.code /\ t.food = u.food => t = u
           /\ \A t \in Linked(r, item) :
                 t \in targets \/ (t.own = NoUnit /\ t.food = req[r].food)
<1> DEFINE new == [code |-> req[r].code, food |-> req[r].food, name |-> item.name,
                   unit |-> item.unit, own |-> NoUnit]
           same == {t \in targets : t.code = req[r].code /\ t.food = req[r].food}
<1>0. Fit(targets, mirror) /\ req[r] \in Request
  BY Types DEF MirrorInv, TargetsInv
<1>1. /\ new \in Target /\ new.own = NoUnit
      /\ new.code = req[r].code /\ new.food = req[r].food
  BY <1>0, RequestParts, FoodParts DEF Target
<1>2. Linked(r, item) = (targets \ same) \cup {new}
  BY DEF Linked
<1> HIDE DEF new
<1>3. QED
  BY <1>0, <1>1, <1>2 DEF Fit

LEMMA CreateBeginsKeeps ==
    ASSUME MirrorInv, NEW r \in Requests, CreateBegins(r)
    PROVE  MirrorInv'
<1>0. /\ TypeOK /\ TargetsInv /\ RequestsInv /\ req[r] \in Request /\ Holds(r)
      /\ req[r].new \in Food
  BY Types, RequestParts DEF MirrorInv, RequestsInv
<1>1. req[r].op = "create" /\ UNCHANGED <<mirror, targets, sync, outside>>
  BY DEF CreateBegins
<1>2. req[r].seen = NoTarget
  BY <1>0, <1>1 DEF Holds
<1> DEFINE Got(f, x) == [req[r] EXCEPT !.at = "import", !.food = f, !.got = x]
<1>3. ASSUME NEW f \in Foods, NEW x \in Food, Goes(r, Got(f, x))
      PROVE  Got(f, x) \in Request /\ Holds(r)' /\ Sees(r)'
  <2> DEFINE q == Got(f, x)
  <2>1. /\ q \in Request /\ q.at = "import" /\ q.op = "create" /\ q.seen = NoTarget
        /\ q.got = x
    BY <1>0, <1>1, <1>2 DEF Request
  <2>2. req'[r] = q
    BY <1>0, <1>3 DEF Goes, TypeOK
  <2> HIDE DEF q
  <2>3. Holds(r)' /\ Sees(r)'
    BY <2>1, <2>2 DEF Holds, Sees
  <2>4. QED
    BY <2>1, <2>3 DEF q
<1>4. ASSUME NEW f \in FoodsByName(req[r].new.name), Goes(r, Got(f, mealie[f])),
             UNCHANGED <<mealie, crossed>>
      PROVE  MirrorInv'
  <2>1. f \in Foods /\ mealie[f] \in Food
    BY DEF FoodsByName, In
  <2>2. Got(f, mealie[f]) \in Request /\ Holds(r)' /\ Sees(r)'
    BY <1>3, <1>4, <2>1
  <2> HIDE DEF Got
  <2>3. QED
    BY <1>1, <1>4, <2>2, QuietRequest
<1>5. ASSUME NEW f \in Foods, mealie[f] = Never,
             mealie' = [mealie EXCEPT ![f] = NewFood(req[r].new.name)],
             Goes(r, Got(f, NewFood(req[r].new.name))), Writes(r)
      PROVE  MirrorInv'
  <2>1. NewFood(req[r].new.name) \in Food
    BY <1>0, FoodParts DEF NewFood, Food
  <2>2. /\ mealie' \in [Foods -> Food \cup {Never, Gone}]
        /\ \A g \in Foods : mealie[g] = Gone => mealie'[g] = Gone
    BY <1>0, <1>5, <2>1, Apart DEF TypeOK
  <2>3. Got(f, NewFood(req[r].new.name)) \in Request /\ Holds(r)' /\ Sees(r)'
    BY <1>3, <1>5, <2>1
  <2>4. Fit(targets, mirror)' /\ (NoneCrossed' => Sound(targets, mirror)')
    BY <1>0, <1>1, <1>5, OthersAreCrossed DEF TargetsInv
  <2>5. mirror' \in [Foods -> Food \cup {NoItem}]
        /\ \A g \in Foods : Mirrored(g)' => Mirrored(g)
    BY <1>0, <1>1 DEF TypeOK, Mirrored
  <2> HIDE DEF Got
  <2>6. QED
    BY <1>1, <1>5, <2>2, <2>3, <2>4, <2>5, RequestWrites
<1>6. QED
  BY <1>4, <1>5 DEF CreateBegins

LEMMA ImportsKeeps ==
    ASSUME MirrorInv, NEW r \in Requests, Imports(r)
    PROVE  MirrorInv'
<1> DEFINE f == req[r].food
<1>0. /\ TypeOK /\ TargetsInv /\ RequestsInv /\ req[r] \in Request /\ Holds(r)
      /\ f \in Foods
  BY Types, RequestParts DEF MirrorInv, RequestsInv
<1>1. /\ req[r].at = "import" /\ mirror' = [mirror EXCEPT ![f] = req[r].got]
      /\ SyncedNow(f) /\ Writes(r) /\ UNCHANGED <<mealie, outside>>
  BY DEF Imports
<1>2. req[r].got \in Food
  BY <1>0, <1>1 DEF Holds
<1>3. /\ mirror' \in [Foods -> Food \cup {NoItem}] /\ mirror'[f] # NoItem
      /\ \A g \in Foods \ {f} : Mirrored(g)' => Mirrored(g)
      /\ \A g \in Foods : mirror[g] # NoItem => mirror'[g] # NoItem
  BY <1>0, <1>1, <1>2, Apart DEF TypeOK, Mirrored
<1>4. PICK q \in Request, ts \in {targets, Linked(r, req[r].got)} :
         /\ Goes(r, q) /\ targets' = Disowned(ts, mirror')
         /\ q.at \in {"ended", "add"} /\ q.op = req[r].op /\ q.seen = req[r].seen
         /\ q.food = f /\ (q.at = "add" => q.loaded \in Food)
  <2>1. CASE req[r].op = "create"
    <3>1. [req[r] EXCEPT !.at = "ended"] \in Request
      BY <1>0 DEF Request
    <3>2. QED
      BY <1>0, <2>1, <3>1 DEF Imports, Ends, Request
  <2>2. CASE req[r].op # "create"
    <3>1. [req[r] EXCEPT !.at = "add", !.loaded = req[r].got] \in Request
      BY <1>0, <1>2 DEF Request
    <3>2. QED
      BY <1>0, <1>2, <2>2, <3>1 DEF Imports, Request
  <2>3. QED
    BY <2>1, <2>2
<1>5. req'[r] = q
  BY <1>0, <1>4 DEF Goes, TypeOK
<1>6. Holds(r)' /\ Sees(r)'
  BY <1>0, <1>3, <1>4, <1>5 DEF Holds, Sees, Mirrored
<1>7. /\ ts \in SUBSET Target
      /\ \A t, u \in ts : t.code = u.code /\ t.food = u.food => t = u
      /\ \A t \in ts : t \in targets \/ (t.own = NoUnit /\ t.food = f)
  BY <1>0, <1>2, LinkedTargets DEF TargetsInv, Fit
<1>8. Fit(targets, mirror)'
  BY <1>3, <1>4, <1>7, DisownedFits
<1>9. ASSUME NoneCrossed' PROVE Sound(targets, mirror)'
  <2>1. Sound(targets, mirror)
    BY <1>0, <1>1, <1>9, OthersAreCrossed DEF TargetsInv
  <2>2. \A t \in ts : t.food \in Foods
    BY <1>7, TargetParts
  <2>3. Sound(ts, mirror')
    BY <1>3, <1>7, <2>1, <2>2 DEF Sound
  <2>4. QED
    BY <1>3, <1>4, <1>7, <2>3, DisownedFits
<1>10. mealie' \in [Foods -> Food \cup {Never, Gone}]
       /\ \A g \in Foods : mealie[g] = Gone => mealie'[g] = Gone
  BY <1>0, <1>1 DEF TypeOK
<1>11. QED
  BY <1>0, <1>1, <1>3, <1>4, <1>6, <1>8, <1>9, <1>10, RequestWrites

LEMMA LinksKeeps ==
    ASSUME MirrorInv, NEW r \in Requests, Links(r)
    PROVE  MirrorInv'
<1> DEFINE q == [req[r] EXCEPT !.at = "ended"]
<1>0. /\ TypeOK /\ TargetsInv /\ RequestsInv /\ req[r] \in Request /\ Holds(r)
      /\ r \in crossed \/ Sees(r)
  BY Types DEF MirrorInv, RequestsInv
<1>1. /\ req[r].at = "add" /\ targets' = Linked(r, req[r].loaded) /\ Goes(r, q)
      /\ Writes(r) /\ UNCHANGED <<mealie, mirror, sync, outside>>
  BY DEF Links, Ends
<1>2. q \in Request /\ q.at = "ended" /\ q.op = req[r].op /\ q.seen = req[r].seen
  BY <1>0 DEF Request
<1>3. req'[r] = q
  BY <1>0, <1>1 DEF Goes, TypeOK
<1> HIDE DEF q
<1>4. Holds(r)' /\ Sees(r)'
  BY <1>0, <1>2, <1>3 DEF Holds, Sees
<1>5. /\ targets' \in SUBSET Target
      /\ \A t, u \in targets' : t.code = u.code /\ t.food = u.food => t = u
      /\ \A t \in targets' : t \in targets \/ (t.own = NoUnit /\ t.food = req[r].food)
  BY <1>0, <1>1, LinkedTargets DEF Holds
<1>6. Fit(targets, mirror)'
  BY <1>0, <1>1, <1>5 DEF TargetsInv, Fit
<1>7. ASSUME NoneCrossed' PROVE Sound(targets, mirror)'
  <2>1. NoneCrossed
    BY <1>1, <1>7, OthersAreCrossed
  <2>2. Sound(targets, mirror) /\ mirror[req[r].food] # NoItem
    BY <1>0, <1>1, <2>1 DEF TargetsInv, NoneCrossed, Sees, Mirrored
  <2>3. QED
    BY <1>1, <1>5, <2>2 DEF Sound
<1>8. /\ mealie' \in [Foods -> Food \cup {Never, Gone}]
      /\ \A g \in Foods : mealie[g] = Gone => mealie'[g] = Gone
      /\ mirror' \in [Foods -> Food \cup {NoItem}]
      /\ \A g \in Foods : Mirrored(g)' => Mirrored(g)
  BY <1>0, <1>1 DEF TypeOK, Mirrored
<1>9. QED
  BY <1>1, <1>2, <1>4, <1>6, <1>7, <1>8, RequestWrites

-----------------------------------------------------------------------------
\* What users change in Mealie, and what quick requests change.
LEMMA OutsideKeeps ==
    ASSUME MirrorInv, Outside, UNCHANGED mirror,
           mealie' \in [Foods -> Food \cup {Never, Gone}],
           \A f \in Foods : mealie[f] = Gone => mealie'[f] = Gone,
           Fit(targets, mirror)', Sound(targets, mirror) => Sound(targets, mirror)'
    PROVE  MirrorInv'
<1>0. TypeOK /\ TargetsInv /\ RequestsInv /\ SyncsInv
  BY DEF MirrorInv
<1>1. /\ outside < MaxOutside /\ outside' = outside + 1
      /\ crossed' = crossed \cup {p \in Syncs \cup Requests : Busy(p)}
      /\ UNCHANGED <<sync, req>>
  BY DEF Outside
<1>2. outside' \in 0..MaxOutside
  BY <1>0, <1>1, MirrorAssumption DEF TypeOK
<1>3. TypeOK'
  BY <1>0, <1>1, <1>2 DEF TypeOK, Fit
<1>4. TargetsInv'
  BY <1>0, <1>1 DEF TargetsInv, NoneCrossed
<1>5. /\ \A s \in Syncs : sync[s].at # "idle" => s \in crossed'
      /\ \A r \in Requests : req[r].at \notin {"idle", "ended"} => r \in crossed'
  BY <1>1, MirrorAssumption DEF Busy
<1>6. RequestsInv'
  BY <1>0, <1>1, <1>5 DEF RequestsInv, Holds, Sees
<1>7. SyncsInv'
  <2>1. \A s \in Syncs : SyncHolds(s)'
    BY <1>0, <1>1 DEF SyncsInv, SyncHolds, Mirrored
  <2>2. \A s \in Syncs : s \in crossed' \/ SyncSees(s)'
    BY <1>1, <1>5 DEF SyncSees
  <2>3. QED
    BY <2>1, <2>2 DEF SyncsInv
<1>8. QED
  BY <1>3, <1>4, <1>6, <1>7 DEF MirrorInv

LEMMA MealieChangesKeeps ==
    ASSUME MirrorInv, NEW f \in Foods, MealieChanges(f)
    PROVE  MirrorInv'
<1>0. TypeOK /\ TargetsInv
  BY DEF MirrorInv
<1>1. /\ mealie' \in [Foods -> Food \cup {Never, Gone}]
      /\ \A g \in Foods : mealie[g] = Gone => mealie'[g] = Gone
  BY <1>0, Apart DEF MealieChanges, TypeOK
<1>2. Outside /\ UNCHANGED <<mirror, targets>>
  BY DEF MealieChanges
<1>3. Fit(targets, mirror)' /\ (Sound(targets, mirror) => Sound(targets, mirror)')
  BY <1>0, <1>2 DEF TargetsInv
<1>4. QED
  BY <1>1, <1>2, <1>3, OutsideKeeps

LEMMA TargetChangesKeeps ==
    ASSUME MirrorInv, NEW t \in targets, TargetChanges(t)
    PROVE  MirrorInv'
<1>0. TypeOK /\ Fit(targets, mirror) /\ t \in Target
  BY DEF MirrorInv, TypeOK, TargetsInv
<1>1. Outside /\ UNCHANGED <<mealie, mirror>>
  BY DEF TargetChanges
<1>2. CASE targets' = targets \ {t}
  <2>1. Fit(targets, mirror)' /\ (Sound(targets, mirror) => Sound(targets, mirror)')
    BY <1>0, <1>1, <1>2 DEF Fit, Sound
  <2>2. QED
    BY <1>0, <1>1, <2>1, OutsideKeeps DEF TypeOK
<1>3. ASSUME NEW u \in Units,
             targets' = Disowned((targets \ {t}) \cup
                                 {[t EXCEPT !.unit = u, !.own = u]}, mirror)
      PROVE  MirrorInv'
  <2> DEFINE new == [t EXCEPT !.unit = u, !.own = u]
             ts == (targets \ {t}) \cup {new}
  <2>1. /\ new \in Target /\ new.code = t.code /\ new.food = t.food
        /\ new.unit = u /\ new.own = u
    BY <1>0 DEF Target
  <2> HIDE DEF new
  <2>2. /\ ts \in SUBSET Target
        /\ \A x, y \in ts : x.code = y.code /\ x.food = y.food => x = y
        /\ Sound(targets, mirror) => Sound(ts, mirror)
    BY <1>0, <2>1 DEF Fit, Sound
  <2>3. targets' = Disowned(ts, mirror) /\ mirror \in [Foods -> Food \cup {NoItem}]
    BY <1>0, <1>3 DEF new, TypeOK
  <2> HIDE DEF ts
  <2>4. Fit(targets, mirror)' /\ (Sound(targets, mirror) => Sound(targets, mirror)')
    BY <1>1, <2>2, <2>3, DisownedFits
  <2>5. QED
    BY <1>0, <1>1, <2>4, OutsideKeeps DEF TypeOK
<1>4. QED
  BY <1>2, <1>3 DEF TargetChanges

-----------------------------------------------------------------------------
LEMMA MirrorInvInit == Init => MirrorInv
<1> SUFFICES ASSUME Init PROVE MirrorInv
  OBVIOUS
<1>1. /\ mealie \in [Foods -> Food \cup {Never, Gone}]
      /\ mirror = [f \in Foods |-> IF In(f) THEN mealie[f] ELSE NoItem]
  BY DEF Init, Food
<1>2. mirror \in [Foods -> Food \cup {NoItem}]
      /\ \A f \in Foods : In(f) => mirror[f] \in Food /\ mirror[f] # NoItem
  BY <1>1, Apart DEF In
<1>3. /\ sync = [s \in Syncs |-> NoSync] /\ outside = 0 /\ crossed = {}
      /\ req \in [Requests -> [at : {"idle"}, op : {"page", "target", "map", "create"},
                               food : Foods, code : Codes, new : Food,
                               got : {Never}, loaded : {NoItem}, seen : {NoTarget}]]
  BY DEF Init
<1>4. NoSync \in Sync /\ NoSync.at = "idle"
  BY DEF NoSync, Sync
<1>5. \A r \in Requests : /\ req[r] \in Request /\ req[r].at = "idle"
                          /\ req[r].seen = NoTarget
  BY <1>3 DEF Request
<1>6. ASSUME NEW t \in targets
      PROVE  /\ t \in Target /\ t.own = NoUnit /\ mirror[t.food] # NoItem
             /\ t = [code |-> t.code, food |-> t.food, name |-> mirror[t.food].name,
                     unit |-> NoUnit, own |-> NoUnit]
  <2>1. PICK c \in Codes, f \in {g \in Foods : In(g)} :
           t = [code |-> c, food |-> f, name |-> mirror[f].name,
                unit |-> NoUnit, own |-> NoUnit]
    BY DEF Init
  <2>2. mirror[f].name \in Names /\ mirror[f] # NoItem
    BY <1>2, FoodParts
  <2>3. QED
    BY <2>1, <2>2 DEF Target
<1>7. TypeOK
  <2>1. outside \in 0..MaxOutside
    BY <1>3, MirrorAssumption
  <2>2. sync \in [Syncs -> Sync] /\ req \in [Requests -> Request]
    BY <1>3, <1>4, <1>5
  <2>3. QED
    BY <1>1, <1>2, <1>3, <1>6, <2>1, <2>2 DEF TypeOK
<1>8. TargetsInv
  BY <1>6 DEF TargetsInv, Fit, Sound
<1>9. RequestsInv
  BY <1>5 DEF RequestsInv, Holds, Sees
<1>10. SyncsInv
  BY <1>3, <1>4 DEF SyncsInv, SyncHolds, SyncSees
<1>11. QED
  BY <1>7, <1>8, <1>9, <1>10 DEF MirrorInv

LEMMA MirrorInvStep == MirrorInv /\ [Next]_vars => MirrorInv'
<1> SUFFICES ASSUME MirrorInv, [Next]_vars PROVE MirrorInv'
  OBVIOUS
<1>1. CASE UNCHANGED vars
  <2>1. UNCHANGED <<mealie, mirror, targets, sync, req, outside, crossed>>
    BY <1>1 DEF vars
  <2>2. TypeOK' /\ TargetsInv'
    BY <2>1 DEF MirrorInv, TypeOK, TargetsInv, NoneCrossed
  <2>3. RequestsInv'
    BY <2>1 DEF MirrorInv, RequestsInv, Holds, Sees, Mirrored
  <2>4. SyncsInv'
    BY <2>1 DEF MirrorInv, SyncsInv, SyncHolds, SyncSees, Mirrored
  <2>5. QED
    BY <2>2, <2>3, <2>4 DEF MirrorInv
<1>2. ASSUME NEW s \in Syncs, SyncSteps(s) PROVE MirrorInv'
  BY <1>2, SyncFetchesKeeps, SyncStartsKeeps, SyncFailsKeeps, SyncWritesKeeps DEF SyncSteps
<1>3. ASSUME NEW r \in Requests, RequestSteps(r) PROVE MirrorInv'
  BY <1>3, RequestBegins, PutsKeeps, EditWritesKeeps, CreateBeginsKeeps, ImportsKeeps,
     LinksKeeps
  DEF RequestSteps
<1>4. QED
  BY <1>1, <1>2, <1>3, MealieChangesKeeps, TargetChangesKeeps DEF Next

LEMMA MirrorInvAlways == Spec => []MirrorInv
BY MirrorInvInit, MirrorInvStep, PTL DEF Spec

\* Whatever syncs, requests and changes in Mealie overlap, a target is the
\* only one of its barcode and Food; and as long as no request was crossed,
\* it has its Food in the mirror and keeps the unit the user gave it
\* (add_target, sync_items_enhanced, edit_mealie_item).
THEOREM TargetsCorrectAlways == Spec => []TargetsCorrect
<1>1. MirrorInv => TargetsCorrect
  BY DEF MirrorInv, TargetsInv, NoneCrossed, Sound, TargetsCorrect, TargetsMirrored,
         OwnUnitsKept, Mirrored
<1>2. QED
  BY <1>1, MirrorInvAlways, PTL

-----------------------------------------------------------------------------
LEMMA MirrorsAllStep ==
    ASSUME MirrorInv, NEW s \in Syncs
    PROVE  MirrorsAll(s)
<1> SUFFICES ASSUME SyncWrites(s), s \notin crossed, NEW f \in Foods
             PROVE  mirror'[f] = IF In(f) THEN mealie[f] ELSE NoItem
  BY DEF MirrorsAll
<1>1. /\ sync[s].list = mealie /\ sync[s].loaded = mirror /\ sync[s].newer = {}
  BY DEF MirrorInv, SyncsInv, SyncSees, SyncWrites
<1>2. mirror[f] \in Food \cup {NoItem}
  BY Types DEF MirrorInv
<1>3. CASE In(f)
  <2>1. f \in Listed(s) /\ mealie[f] \in Food
    BY <1>1, <1>3 DEF Listed, In
  <2>2. mirror'[f] = SyncedRow(s, f) /\ mirror'[f] \in Food
    BY <2>1, SyncedMirror
  <2>3. CASE mirror[f] = NoItem
    BY <1>1, <1>3, <2>2, <2>3 DEF SyncedRow
  <2>4. CASE mirror[f] # NoItem
    <3>1. mirror'[f] = Columns(mirror[f], mealie[f], mirror[f])
      BY <1>1, <2>2, <2>4 DEF SyncedRow
    <3>2. mirror'[f].name = mealie[f].name /\ mirror'[f].unit = mealie[f].unit
      BY <3>1 DEF Columns, Column
    <3>3. QED
      BY <1>3, <2>1, <2>2, <3>2, Apart
  <2>5. QED
    BY <2>3, <2>4
<1>4. CASE ~In(f)
  <2>1. f \notin Listed(s)
    BY <1>1, <1>4 DEF Listed, In
  <2>2. Mirrored(f) => f \in StaleItems(s)
    BY <1>1, <2>1 DEF StaleItems
  <2>3. QED
    BY <1>4, <2>1, <2>2, SyncedMirror DEF Mirrored
<1>5. QED
  BY <1>3, <1>4

LEMMA RemovesDeletedStep ==
    ASSUME MirrorInv, NEW s \in Syncs, NEW f \in Foods
    PROVE  RemovesDeleted(s, f)
<1> SUFFICES ASSUME SyncWrites(s), Mirrored(f), mirror'[f] = NoItem, mealie[f] # Gone
             PROVE  /\ sync[s].list[f] = Never
                    /\ sync[s].loaded[f] # NoItem \/ ~sync[s].alone
  BY DEF RemovesDeleted
<1>1. sync[s].at = "started" /\ SyncHolds(s)
  BY DEF MirrorInv, SyncsInv, SyncWrites
<1>2. f \in StaleItems(s) /\ f \notin Listed(s)
  BY SyncedMirror, Apart DEF Mirrored
<1>3. sync[s].list[f] \in {Never, Gone}
  BY <1>2, Types, SyncParts DEF Listed, MirrorInv
<1>4. sync[s].list[f] = Never
  BY <1>1, <1>3 DEF SyncHolds
<1>5. sync[s].loaded[f] # NoItem \/ ~sync[s].alone
  BY <1>1, <1>2 DEF SyncHolds, StaleItems
<1>6. QED
  BY <1>4, <1>5

LEMMA ShowsEditStep ==
    ASSUME MirrorInv, NEW r \in Requests
    PROVE  ShowsEdit(r)
<1> DEFINE f == req[r].food
<1> SUFFICES ASSUME EditWrites(r), r \notin crossed
             PROVE  /\ Mirrored(f) => mirror'[f] = mealie[f]
                    /\ \A t \in targets' : t.food = f => t.name = mealie[f].name
  BY DEF ShowsEdit
<1>1. /\ TypeOK /\ Sees(r) /\ f \in Foods /\ req[r].new \in Food
      /\ mirror[f] \in Food \cup {NoItem}
  BY Types, RequestParts DEF MirrorInv, RequestsInv
<1>2. /\ req[r].at = "write"
      /\ mirror' = [mirror EXCEPT ![f] = IF req[r].loaded = NoItem THEN mirror[f]
                              ELSE Columns(req[r].loaded, req[r].new, mirror[f])]
      /\ targets' = Disowned(TargetsEdited(r), mirror')
  BY <1>1 DEF EditWrites, TypeOK
<1>3. req[r].loaded = mirror[f] /\ mealie[f] = req[r].new
  BY <1>1, <1>2 DEF Sees
<1>4. ASSUME Mirrored(f) PROVE mirror'[f] = mealie[f]
  <2>1. mirror'[f] = Columns(mirror[f], mealie[f], mirror[f])
    BY <1>1, <1>2, <1>3, <1>4 DEF TypeOK, Mirrored
  <2>2. /\ mirror'[f] \in Food /\ mirror'[f].name = mealie[f].name
        /\ mirror'[f].unit = mealie[f].unit
    BY <1>1, <1>3, <1>4, <2>1 DEF Columns, Column, Mirrored, Food
  <2>3. QED
    BY <1>1, <1>3, <2>2, Apart
<1>5. ASSUME NEW t \in targets', t.food = f PROVE t.name = mealie[f].name
  <2>1. mirror' \in [Foods -> Food \cup {NoItem}]
    <3>1. req[r].loaded # NoItem =>
              Columns(req[r].loaded, req[r].new, mirror[f]) \in Food
      BY <1>1, <1>3 DEF Columns, Column, Food
    <3>2. QED
      BY <1>1, <1>2, <3>1 DEF TypeOK
  <2>2. /\ TargetsEdited(r) \in SUBSET Target
        /\ \A x, y \in TargetsEdited(r) : x.code = y.code /\ x.food = y.food => x = y
        /\ \A x \in TargetsEdited(r) : x.food = f => x.name = req[r].new.name
    BY <1>2, EditedTargets
  <2>3. \A x \in Disowned(TargetsEdited(r), mirror') :
            \E u \in TargetsEdited(r) : x.food = u.food /\ x.name = u.name
    BY <2>1, <2>2, DisownedFits
  <2>4. PICK u \in TargetsEdited(r) : t.food = u.food /\ t.name = u.name
    BY <1>2, <2>3
  <2>5. QED
    BY <1>3, <1>5, <2>2, <2>4
<1>6. QED
  BY <1>4, <1>5

\* A sync or an edit that nobody crossed leaves the mirror, and the names of
\* the targets, as Mealie has them, and a sync takes no Food away that Mealie
\* has, but for one that was created while it was under way
\* (sync_items_enhanced, edit_mealie_item, save_target_food_v6).
THEOREM WritesMirrorAlways == Spec => WritesMirror
<1>1. MirrorInv /\ [Next]_vars =>
          /\ [\A s \in Syncs : MirrorsAll(s)]_vars
          /\ [\A s \in Syncs, f \in Foods : RemovesDeleted(s, f)]_vars
          /\ [\A r \in Requests : ShowsEdit(r)]_vars
  BY MirrorsAllStep, RemovesDeletedStep, ShowsEditStep
<1>2. QED
  BY <1>1, MirrorInvAlways, PTL DEF Spec, WritesMirror, SyncsMirror, SyncsRemoveDeleted, EditsShow
====
