------------------------- MODULE ScanDeliveryProofs -------------------------
(***************************************************************************)
(* What holds of the delivery of scans for any number of scans,            *)
(* connections, pool slots and faults.                                     *)
(***************************************************************************)
EXTENDS ScanDelivery, TLAPS

\* The part of the type invariant that speaks of requests.
RequestsOK ==
    /\ at \in [Conns -> RequestStates]
    /\ req \in [Conns -> Deliveries \cup {NoDelivery}]
    /\ \A c \in Conns : at[c] = "free" <=> req[c] = NoDelivery

\* A request that goes on, is answered or is given up leaves them well-formed.
LEMMA RequestMoves ==
    ASSUME RequestsOK, NEW c \in Conns
    PROVE  /\ Freed(c) => RequestsOK'
           /\ \A state \in RequestStates \ {"free"} :
                 /\ at[c] # "free" /\ Goes(c, state) => RequestsOK'
                 /\ at[c] # "free" /\ Answer(c, state) => RequestsOK'
BY DEF RequestsOK, RequestStates, Deliveries, NoDelivery, Freed, Goes, Answer

\* Serving a delivery keeps the types of the history.
LEMMA ServingTypes ==
    ASSUME runs \in [Deliveries -> 0..2], reported \subseteq Deliveries,
           NEW d \in Deliveries, TakesEffect(d) \/ ShownAsError(d)
    PROVE  runs' \in [Deliveries -> 0..2] /\ reported' \subseteq Deliveries
<1>1. CASE TakesEffect(d)
  <2>1. Bump(runs[d]) \in 0..2
    BY DEF Bump
  <2>2. QED
    BY <1>1, <2>1 DEF TakesEffect
<1>2. CASE ShownAsError(d)
  BY <1>2 DEF ShownAsError
<1>3. QED
  BY <1>1, <1>2

\* A fault is charged to its budget.
LEMMA FaultTypes ==
    ASSUME faults \in 0..MaxFaults, NEW kind, Fault(kind)
    PROVE  faults' \in 0..MaxFaults
BY BoundsAssumption DEF Fault

LEMMA TypeStep == TypeOK /\ [Next]_vars => TypeOK'
<1> SUFFICES ASSUME TypeOK, [Next]_vars PROVE TypeOK'
  OBVIOUS
<1> USE BoundsAssumption, ConnsAssumption
<1> USE DEF TypeOK, Deliveries, NoDelivery, OtherRoute, SenderStates, RequestStates,
            RowStates, bridgeVars, poolVars, historyVars, Hangup
<1>0. RequestsOK /\ (RequestsOK' <=> (/\ at' \in [Conns -> RequestStates]
                                     /\ req' \in [Conns -> Deliveries \cup {NoDelivery}]
                                     /\ \A c \in Conns : at'[c] = "free" <=> req'[c] = NoDelivery))
  BY DEF RequestsOK
<1>1. CASE ScanPersisted  BY <1>1 DEF ScanPersisted
<1>2. CASE ScanDropped  BY <1>2, FaultTypes DEF ScanDropped
<1>3. ASSUME NEW c \in Conns, Post(c) PROVE TypeOK'  BY <1>3 DEF Post
<1>4. CASE PollEmpty \/ OutboxUnreadable  BY <1>4, FaultTypes DEF PollEmpty, OutboxUnreadable
<1>5. CASE Confirmed  BY <1>0, <1>5, RequestMoves DEF Confirmed
<1>6. CASE OutboxComplete  BY <1>6 DEF OutboxComplete
<1>7. CASE OutboxCompleteFails  BY <1>7, FaultTypes DEF OutboxCompleteFails
<1>8. CASE AnsweredFail  BY <1>0, <1>8, RequestMoves, FaultTypes DEF AnsweredFail, PostFailed
<1>9. CASE TimedOut  BY <1>0, <1>9, RequestMoves, FaultTypes DEF TimedOut, PostFailed
<1>10. CASE WokenByScan  BY <1>10 DEF WokenByScan
<1>11. CASE DelayOver  BY <1>11 DEF DelayOver
<1>12. ASSUME NEW d \in Deliveries, BackoffOver(d) PROVE TypeOK'  BY <1>12 DEF BackoffOver
<1>13. CASE BridgeRestart  BY <1>0, <1>13, RequestMoves, FaultTypes DEF BridgeRestart
<1>14. ASSUME NEW c \in Conns, LookUp(c) PROVE TypeOK'  BY <1>0, <1>14, RequestMoves DEF LookUp
<1>15. ASSUME NEW c \in Conns, Reclaim(c) PROVE TypeOK'  BY <1>0, <1>15, RequestMoves DEF Reclaim
<1>16. ASSUME NEW c \in Conns, Insert(c) PROVE TypeOK'
  <2>1. Purged \in [Deliveries -> RowStates]
    BY DEF Purged
  <2>2. row' \in [Deliveries -> RowStates]
    BY <1>16, <2>1 DEF Insert
  <2>3. RequestsOK'
    BY <1>0, <1>16, RequestMoves DEF Insert
  <2>4. QED
    BY <1>0, <1>16, <2>2, <2>3 DEF Insert
<1>17. ASSUME NEW c \in Conns, SubmitRoute(c) PROVE TypeOK'  BY <1>0, <1>17, RequestMoves DEF SubmitRoute
<1>18. ASSUME NEW c \in Conns, Saturated(c) PROVE TypeOK'  BY <1>0, <1>18, RequestMoves DEF Saturated
<1>19. ASSUME NEW c \in Conns, ProcessInline(c) PROVE TypeOK'
  BY <1>0, <1>19, RequestMoves, ServingTypes DEF ProcessInline
<1>20. ASSUME NEW c \in Conns, CompleteReads(c) PROVE TypeOK'  BY <1>0, <1>20, RequestMoves DEF CompleteReads
<1>21. ASSUME NEW c \in Conns, CompleteStores(c) PROVE TypeOK'  BY <1>0, <1>21, RequestMoves DEF CompleteStores
<1>22. ASSUME NEW c \in Conns, ReleaseReads(c) PROVE TypeOK'  BY <1>0, <1>22, RequestMoves DEF ReleaseReads
<1>23. ASSUME NEW c \in Conns, ReleaseDeletes(c) PROVE TypeOK'  BY <1>0, <1>23, RequestMoves DEF ReleaseDeletes
<1>24. ASSUME NEW c \in Conns, DbError(c) PROVE TypeOK'  BY <1>0, <1>24, RequestMoves, FaultTypes DEF DbError
<1>25. ASSUME NEW c \in Conns, Lost(c) PROVE TypeOK'  BY <1>0, <1>25, RequestMoves, FaultTypes DEF Lost
<1>26. ASSUME NEW s \in Slots, RouteRuns(s) PROVE TypeOK'
  BY <1>26, ServingTypes DEF RouteRuns
<1>27. ASSUME NEW s \in Slots, OtherScan(s) PROVE TypeOK'  BY <1>27 DEF OtherScan
<1>28. ASSUME NEW s \in Slots, OtherRouteRuns(s) PROVE TypeOK'  BY <1>28 DEF OtherRouteRuns
<1>29. ASSUME NEW d \in Deliveries, EditTargets(d) PROVE TypeOK'  BY <1>29 DEF EditTargets
<1>30. ASSUME NEW d \in Deliveries, LeaseLapses(d) PROVE TypeOK'  BY <1>30 DEF LeaseLapses
<1>31. ASSUME NEW d \in Deliveries, RetentionEnds(d) PROVE TypeOK'  BY <1>31 DEF RetentionEnds
<1>32. CASE ServerRestart  BY <1>32, FaultTypes DEF ServerRestart
<1>33. CASE UNCHANGED vars  BY <1>33 DEF vars
<1>34. ASSUME NEW c \in Conns, InlineUnshown(c) PROVE TypeOK'
  BY <1>0, <1>34, RequestMoves, FaultTypes DEF InlineUnshown
<1>35. ASSUME NEW s \in Slots, RouteUnshown(s) PROVE TypeOK'
  BY <1>35, FaultTypes DEF RouteUnshown
<1>36. QED
  BY <1>1, <1>2, <1>3, <1>4, <1>5, <1>6, <1>7, <1>8, <1>9, <1>10, <1>11, <1>12,
     <1>13, <1>14, <1>15, <1>16, <1>17, <1>18, <1>19, <1>20, <1>21, <1>22, <1>23,
     <1>24, <1>25, <1>26, <1>27, <1>28, <1>29, <1>30, <1>31, <1>32, <1>33, <1>34, <1>35
  DEF Next, Sender, Request, Pool, Clock, Environment, Faulty

-----------------------------------------------------------------------------
\* What the sender holds on to.
SenderInv ==
    /\ due \subseteq outbox
    /\ sender # "idle" => current \in outbox
    /\ sender = "waiting" => req[line] = current
    /\ \A c \in Conns : at[c] \in {"ok", "fail"} => c = line

\* A 200 is only ever given for an admitted delivery.
AdmissionInv ==
    /\ \A c \in Conns : at[c] \in {"complete", "store", "ok"} => req[c] \in admitted
    /\ \A d \in Deliveries : row[d] \in {"done", "old"} => d \in admitted
    /\ sender = "confirmed" => current \in admitted

\* An admitted route is in the pool until it is served.
ServedInv == \A d \in admitted : Routing(d) \/ Served(d)

\* Nothing has been done for the delivery yet.
Untouched(d) == ~Routing(d) /\ ~Served(d)

\* No scan is known before it is made, nor requested after its row is purged.
FutureInv ==
    /\ \A d \in Deliveries : d >= nextScan => row[d] = "none" /\ Untouched(d)
    /\ \A d \in outbox : d < nextScan
    /\ \A c \in Conns : req[c] < nextScan
    /\ \A d \in Deliveries : row[d] = "old" => d \notin outbox /\ \A c \in Conns : req[c] # d

\* A reservation stands exactly as long as the one request that made it.
ReservationInv ==
    /\ \A c \in Conns : at[c] # "reclaim"
    /\ \A d \in Deliveries : row[d] # "lapsed"
    /\ \A d \in Deliveries : row[d] = "held" <=> \E c \in Conns : Handles(c, d)
    /\ OneHandler

\* A delivery that can still be reserved has not been touched.
UntouchedInv ==
    /\ \A c \in Conns : at[c] \in {"handle", "release", "unreserve"} => Untouched(req[c])
    /\ \A d \in Deliveries :
          row[d] = "none" /\ (d \in outbox \/ \E c \in Conns : req[c] = d) => Untouched(d)
    /\ AtMostOnce
-----------------------------------------------------------------------------
\* A request of B2M takes a step of its own: it goes on, or it is answered.
Moves(c) ==
    /\ at[c] \notin {"free", "fail"}
    /\ \/ /\ at[c] # "ok"
          /\ \E state \in RequestStates \ {"free", "ok", "fail"} : Goes(c, state)
       \/ \E result \in {"ok", "fail"} : Answer(c, result)

\* Every step of a request leaves the bridge alone and moves the request.
LEMMA RequestSteps ==
    ASSUME NEW c \in Conns, Request(c) \/ DbError(c) \/ Lost(c) \/ InlineUnshown(c)
    PROVE  UNCHANGED bridgeVars /\ Moves(c)
BY DEF Request, LookUp, Reclaim, Insert, SubmitRoute, Saturated, ProcessInline,
       CompleteReads, CompleteStores, ReleaseReads, ReleaseDeletes, DbError, Lost,
       InlineUnshown, Moves, RequestStates

\* The steps that touch neither the bridge nor a request.
Elsewhere ==
    \/ \E s \in Slots : Pool(s) \/ OtherScan(s) \/ RouteUnshown(s)
    \/ \E d \in Deliveries : EditTargets(d) \/ LeaseLapses(d) \/ RetentionEnds(d)
    \/ UNCHANGED vars

LEMMA ElsewhereSteps == Elsewhere => UNCHANGED <<bridgeVars, at, req>>
BY DEF Elsewhere, Pool, RouteRuns, RouteUnshown, OtherRouteRuns, OtherScan, EditTargets,
       LeaseLapses, RetentionEnds, vars

LEMMA SenderStep == TypeOK /\ SenderInv /\ [Next]_vars => SenderInv'
<1> SUFFICES ASSUME TypeOK, SenderInv, [Next]_vars PROVE SenderInv'
  OBVIOUS
<1> USE ConnsAssumption DEF TypeOK, SenderInv, bridgeVars, Freed, Hangup, NoDelivery
<1>1. CASE ScanPersisted \/ ScanDropped \/ PollEmpty
  BY <1>1 DEF ScanPersisted, ScanDropped, PollEmpty
<1>2. ASSUME NEW c \in Conns, Post(c) PROVE SenderInv'
  BY <1>2 DEF Post, Deliveries
<1>3. CASE Confirmed
  BY <1>3 DEF Confirmed
<1>4. CASE OutboxComplete \/ OutboxCompleteFails \/ OutboxUnreadable
  BY <1>4 DEF OutboxComplete, OutboxCompleteFails, OutboxUnreadable
<1>5. CASE AnsweredFail
  BY <1>5 DEF AnsweredFail, PostFailed
<1>6. CASE TimedOut
  BY <1>6 DEF TimedOut, PostFailed
<1>7. CASE WokenByScan \/ DelayOver \/ (\E d \in Deliveries : BackoffOver(d))
  BY <1>7 DEF WokenByScan, DelayOver, BackoffOver
<1>8. CASE BridgeRestart
  BY <1>8 DEF BridgeRestart
<1>9. ASSUME NEW c \in Conns, Request(c) \/ DbError(c) \/ Lost(c) \/ InlineUnshown(c)
      PROVE  SenderInv'
  <2>1. UNCHANGED bridgeVars /\ Moves(c)
    BY <1>9, RequestSteps
  <2>2. ASSUME NEW state \in RequestStates \ {"free", "ok", "fail"}, Goes(c, state)
        PROVE  SenderInv'
    BY <2>1, <2>2 DEF Goes
  <2>3. ASSUME NEW result \in {"ok", "fail"}, Answer(c, result)
        PROVE  SenderInv'
    BY <2>1, <2>3 DEF Answer, Goes
  <2>4. QED
    BY <2>1, <2>2, <2>3 DEF Moves
<1>10. CASE ServerRestart
  BY <1>10 DEF ServerRestart
<1>11. CASE Elsewhere
  BY <1>11, ElsewhereSteps
<1>12. QED
  BY <1>1, <1>2, <1>3, <1>4, <1>5, <1>6, <1>7, <1>8, <1>9, <1>10, <1>11
  DEF Next, Sender, Pool, Clock, Environment, Faulty, Elsewhere

\* What the sender, or the row of a delivery, says of its admission.
LEMMA AdmissionStep ==
    TypeOK /\ SenderInv /\ AdmissionInv /\ [Next]_vars => AdmissionInv'
<1> SUFFICES ASSUME TypeOK, SenderInv, AdmissionInv, [Next]_vars PROVE AdmissionInv'
  OBVIOUS
<1> USE ConnsAssumption
    DEF TypeOK, SenderInv, AdmissionInv, bridgeVars, historyVars, poolVars, Freed,
        Hangup, NoDelivery, Goes, Answer
<1>1. CASE ScanPersisted \/ ScanDropped \/ PollEmpty
  BY <1>1 DEF ScanPersisted, ScanDropped, PollEmpty
<1>2. ASSUME NEW c \in Conns, Post(c) PROVE AdmissionInv'
  BY <1>2 DEF Post, Deliveries
<1>3. CASE Confirmed
  BY <1>3 DEF Confirmed
<1>4. CASE OutboxComplete \/ OutboxCompleteFails \/ OutboxUnreadable
  BY <1>4 DEF OutboxComplete, OutboxCompleteFails, OutboxUnreadable
<1>5. CASE AnsweredFail \/ TimedOut
  BY <1>5 DEF AnsweredFail, TimedOut, PostFailed
<1>6. CASE WokenByScan \/ DelayOver \/ (\E d \in Deliveries : BackoffOver(d))
  BY <1>6 DEF WokenByScan, DelayOver, BackoffOver
<1>7. CASE BridgeRestart
  BY <1>7 DEF BridgeRestart
<1>8. ASSUME NEW c \in Conns, LookUp(c) PROVE AdmissionInv'
  BY <1>8 DEF LookUp
<1>9. ASSUME NEW c \in Conns, Reclaim(c) \/ ReleaseDeletes(c) PROVE AdmissionInv'
  BY <1>9 DEF Reclaim, ReleaseDeletes
<1>10. ASSUME NEW c \in Conns, Insert(c) PROVE AdmissionInv'
  BY <1>10 DEF Insert, Purged
<1>11. ASSUME NEW c \in Conns, SubmitRoute(c) \/ ProcessInline(c) PROVE AdmissionInv'
  BY <1>11 DEF SubmitRoute, ProcessInline
<1>12. ASSUME NEW c \in Conns, CompleteReads(c) \/ Saturated(c) \/ ReleaseReads(c)
       PROVE  AdmissionInv'
  BY <1>12 DEF CompleteReads, Saturated, ReleaseReads
<1>13. ASSUME NEW c \in Conns, CompleteStores(c) PROVE AdmissionInv'
  BY <1>13 DEF CompleteStores
<1>14. ASSUME NEW c \in Conns, DbError(c) \/ Lost(c) \/ InlineUnshown(c) PROVE AdmissionInv'
  BY <1>14 DEF DbError, Lost, InlineUnshown
<1>15. ASSUME NEW s \in Slots, Pool(s) \/ OtherScan(s) \/ RouteUnshown(s) PROVE AdmissionInv'
  BY <1>15 DEF Pool, RouteRuns, RouteUnshown, OtherRouteRuns, OtherScan
<1>16. ASSUME NEW d \in Deliveries, EditTargets(d) \/ LeaseLapses(d) \/ RetentionEnds(d)
       PROVE  AdmissionInv'
  BY <1>16 DEF EditTargets, LeaseLapses, RetentionEnds
<1>17. CASE ServerRestart
  BY <1>17 DEF ServerRestart
<1>18. CASE UNCHANGED vars
  BY <1>18 DEF vars
<1>19. QED
  BY <1>1, <1>2, <1>3, <1>4, <1>5, <1>6, <1>7, <1>8, <1>9, <1>10, <1>11, <1>12,
     <1>13, <1>14, <1>15, <1>16, <1>17, <1>18
  DEF Next, Sender, Request, Pool, Clock, Environment, Faulty

\* The outbox only loses the delivery that the sender has seen confirmed, and
\* admissions are never withdrawn.
LEMMA NeverForgottenStep ==
    TypeOK /\ AdmissionInv /\ NeverForgotten /\ [Next]_vars => NeverForgotten'
<1> SUFFICES ASSUME TypeOK, AdmissionInv, NeverForgotten, [Next]_vars
             PROVE  NeverForgotten'
  OBVIOUS
<1> USE DEF TypeOK, NeverForgotten, Persisted, Deliveries, bridgeVars, historyVars
<1>1. CASE ScanPersisted
  BY <1>1 DEF ScanPersisted
<1>2. CASE ScanDropped
  BY <1>2 DEF ScanDropped
<1>3. CASE OutboxComplete
  BY <1>3 DEF OutboxComplete, AdmissionInv
<1>4. CASE UNCHANGED <<nextScan, dropped, outbox>> /\ admitted \subseteq admitted'
  BY <1>4
<1>5. [Next]_vars => \/ ScanPersisted \/ ScanDropped \/ OutboxComplete
                     \/ UNCHANGED <<nextScan, dropped, outbox>> /\ admitted \subseteq admitted'
  BY DEF Next, Sender, Request, Pool, Clock, Environment, Faulty, vars, Post, PollEmpty,
     Confirmed, AnsweredFail, PostFailed, WokenByScan, DelayOver, LookUp, Reclaim, Insert,
     SubmitRoute, Saturated, ProcessInline, CompleteReads, CompleteStores, ReleaseReads,
     ReleaseDeletes, RouteRuns, OtherRouteRuns, BackoffOver, LeaseLapses, RetentionEnds,
     OtherScan, EditTargets, OutboxCompleteFails, OutboxUnreadable, TimedOut, BridgeRestart, ServerRestart,
     DbError, Lost, InlineUnshown, RouteUnshown
<1>6. QED
  BY <1>1, <1>2, <1>3, <1>4, <1>5

-----------------------------------------------------------------------------
\* The specification has the types it says: TypeOK of every run, for all
\* constants.
THEOREM TypeCorrect == Spec => []TypeOK
<1>1. Init => TypeOK
  <2> SUFFICES ASSUME Init PROVE TypeOK
    OBVIOUS
  <2> USE DEF Init, Deliveries, NoDelivery
  <2>1. /\ nextScan \in 1..(MaxScans + 1)
        /\ otherScans \in 0..MaxOtherScans
        /\ faults \in 0..MaxFaults
    BY BoundsAssumption
  <2>2. runs \in [Deliveries -> 0..2] /\ row \in [Deliveries -> RowStates]
    BY DEF RowStates
  <2>3. pool \in [Slots -> Deliveries \cup {NoDelivery, OtherRoute}]
    OBVIOUS
  <2>4. /\ at \in [Conns -> RequestStates]
        /\ req \in [Conns -> Deliveries \cup {NoDelivery}]
        /\ \A c \in Conns : at[c] = "free" <=> req[c] = NoDelivery
    BY DEF RequestStates
  <2>5. QED
    BY <2>1, <2>2, <2>3, <2>4 DEF TypeOK, SenderStates
<1>2. QED
  BY <1>1, TypeStep, PTL DEF Spec

\* Whatever fails, a persisted scan leaves the outbox only after B2M admitted
\* it: the argument is that every 200 on its way, every completed row and
\* every confirmation the sender holds stands for an admitted delivery.
THEOREM NeverForgottenAlways == Spec => []NeverForgotten
<1>1. Init => SenderInv /\ AdmissionInv /\ NeverForgotten
  BY DEF Init, SenderInv, AdmissionInv, NeverForgotten, Persisted, Deliveries
<1>2. QED
  BY <1>1, TypeCorrect, SenderStep, AdmissionStep, NeverForgottenStep, PTL DEF Spec

-----------------------------------------------------------------------------
\* The steps that admit, serve or use the pool, and all others.
LEMMA ServingSteps ==
    ASSUME [Next]_vars
    PROVE  \/ \E c \in Conns : SubmitRoute(c) \/ ProcessInline(c)
           \/ \E s \in Slots : RouteRuns(s) \/ OtherScan(s) \/ OtherRouteRuns(s)
           \/ ServerRestart \/ (\E c \in Conns : InlineUnshown(c)) \/ (\E s \in Slots : RouteUnshown(s))
           \/ UNCHANGED <<pool, historyVars>>
BY DEF Next, Sender, Request, Pool, Clock, Environment, Faulty, vars, poolVars,
      ScanPersisted, ScanDropped, Post, PollEmpty, Confirmed, OutboxComplete,
      AnsweredFail, PostFailed, WokenByScan, DelayOver, LookUp, Reclaim, Insert,
      Saturated, CompleteReads, CompleteStores, ReleaseReads, ReleaseDeletes,
      BackoffOver, LeaseLapses, RetentionEnds, EditTargets, OutboxCompleteFails, OutboxUnreadable,
      TimedOut, BridgeRestart, DbError, Lost

\* Of the faults that lose an admitted scan none happens.
LEMMA NoneLost ==
    ASSUME Faults \cap LosingFaults = {}
    PROVE  /\ ~ServerRestart
           /\ \A c \in Conns : ~InlineUnshown(c)
           /\ \A s \in Slots : ~RouteUnshown(s)
BY DEF ServerRestart, InlineUnshown, RouteUnshown, Fault, LosingFaults

LEMMA BridgeLosesNone ==
    ASSUME Faults \subseteq BridgeFaults
    PROVE  Faults \cap LosingFaults = {}
BY DEF BridgeFaults, LosingFaults

\* Nothing empties the pool but a restart, and a route ends served.
LEMMA ServedStep ==
    ASSUME Faults \cap LosingFaults = {}
    PROVE  TypeOK /\ ServedInv /\ [Next]_vars => ServedInv'
<1> SUFFICES ASSUME TypeOK, ServedInv, [Next]_vars PROVE ServedInv'
  OBVIOUS
<1>0. /\ admitted \subseteq Deliveries
      /\ pool \in [Slots -> Deliveries \cup {NoDelivery, OtherRoute}]
      /\ NoDelivery \notin Deliveries /\ OtherRoute \notin Deliveries
      /\ \A c \in Conns : at[c] = "handle" => req[c] \in Deliveries
  BY DEF TypeOK, NoDelivery, OtherRoute, Deliveries
<1>1. ASSUME NEW c \in Conns, SubmitRoute(c) PROVE ServedInv'
  BY <1>0, <1>1 DEF SubmitRoute, ServedInv, Routing, Served
<1>2. ASSUME NEW d \in Deliveries, TakesEffect(d) \/ ShownAsError(d)
      PROVE  Served(d)' /\ \A e \in Deliveries : Served(e) => Served(e)'
  BY <1>2 DEF TypeOK, Served, TakesEffect, ShownAsError, Bump
<1>3. ASSUME NEW c \in Conns, ProcessInline(c) PROVE ServedInv'
  <2>1. PICK d \in Deliveries :
           /\ TakesEffect(d) \/ ShownAsError(d)
           /\ UNCHANGED pool /\ admitted' = admitted \cup {d}
    BY <1>0, <1>3 DEF ProcessInline, poolVars
  <2>2. Served(d)' /\ \A e \in Deliveries : Served(e) => Served(e)'
    BY <1>2, <2>1
  <2>3. QED
    BY <1>0, <2>1, <2>2 DEF ServedInv, Routing
<1>4. ASSUME NEW s \in Slots, RouteRuns(s) PROVE ServedInv'
  <2>1. PICK d \in Deliveries :
           /\ d = pool[s]
           /\ TakesEffect(d) \/ ShownAsError(d)
           /\ pool' = [pool EXCEPT ![s] = NoDelivery] /\ UNCHANGED admitted
    BY <1>4 DEF RouteRuns
  <2>2. Served(d)' /\ \A e \in Deliveries : Served(e) => Served(e)'
    BY <1>2, <2>1
  <2>3. \A e \in Deliveries : e # d /\ Routing(e) => Routing(e)'
    BY <1>0, <2>1 DEF Routing
  <2>4. QED
    BY <1>0, <2>1, <2>2, <2>3 DEF ServedInv
<1>5. ASSUME NEW s \in Slots, OtherScan(s) \/ OtherRouteRuns(s) PROVE ServedInv'
  <2>1. pool[s] \in {NoDelivery, OtherRoute} /\ UNCHANGED <<admitted, runs, reported>>
    BY <1>5 DEF OtherScan, OtherRouteRuns, historyVars
  <2>2. \A e \in Deliveries : Routing(e) => Routing(e)'
    BY <1>0, <1>5, <2>1 DEF OtherScan, OtherRouteRuns, Routing
  <2>3. QED
    BY <1>0, <2>1, <2>2 DEF ServedInv, Served
<1>6. CASE UNCHANGED <<pool, historyVars>>
  BY <1>6 DEF historyVars, ServedInv, Routing, Served
<1>7. QED
  BY <1>1, <1>3, <1>4, <1>5, <1>6, NoneLost, ServingSteps

\* As long as B2M is not restarted and a failed scan can be stored to be
\* shown, no persisted scan disappears unserved:
\* what has left the outbox was admitted, and what was admitted is in the pool
\* or served.
THEOREM NoSilentLossAlways ==
    ASSUME Faults \cap LosingFaults = {}
    PROVE  Spec => []NoSilentLoss
<1>1. Init => ServedInv
  BY DEF Init, ServedInv
<1>2. NeverForgotten /\ ServedInv => NoSilentLoss
  BY DEF NeverForgotten, ServedInv, NoSilentLoss
<1>3. TypeOK /\ ServedInv /\ [Next]_vars => ServedInv'
  BY ServedStep
<1>4. QED
  BY <1>1, <1>2, <1>3, TypeCorrect, NeverForgottenAlways, PTL DEF Spec

-----------------------------------------------------------------------------
\* The invariant behind AtMostOnce.
OnceInv == TypeOK /\ SenderInv /\ FutureInv /\ ReservationInv /\ UntouchedInv

\* Only the handler of a delivery does something for it, once, and goes on to
\* completing it.
LEMMA TouchingStep ==
    ASSUME Faults \subseteq BridgeFaults, OnceInv, [Next]_vars
    PROVE  /\ AtMostOnce'
           /\ \A d \in Deliveries :
                 Untouched(d) => \/ Untouched(d)'
                                 \/ \E c \in Conns :
                                       /\ req[c] = d
                                       /\ at[c] = "handle"
                                       /\ Goes(c, "complete")
                                       /\ UNCHANGED <<row, bridgeVars>>
<1> DEFINE Goal == /\ AtMostOnce'
                   /\ \A d \in Deliveries :
                         Untouched(d) => \/ Untouched(d)'
                                         \/ \E c \in Conns :
                                               /\ req[c] = d
                                               /\ at[c] = "handle"
                                               /\ Goes(c, "complete")
                                               /\ UNCHANGED <<row, bridgeVars>>
<1>0. /\ pool \in [Slots -> Deliveries \cup {NoDelivery, OtherRoute}]
      /\ runs \in [Deliveries -> 0..2] /\ reported \subseteq Deliveries
      /\ NoDelivery \notin Deliveries /\ OtherRoute \notin Deliveries
      /\ \A c \in Conns : at[c] = "handle" => req[c] \in Deliveries /\ Untouched(req[c])
      /\ AtMostOnce
  BY DEF OnceInv, TypeOK, UntouchedInv, NoDelivery, OtherRoute, Deliveries
<1> HIDE DEF Goal
<1> USE DEF AtMostOnce, Untouched, Routing, Served
<1>1. ASSUME NEW c \in Conns, SubmitRoute(c) PROVE Goal
  <2>1. PICK d \in Deliveries, s \in Slots :
           /\ d = req[c] /\ Untouched(d)
           /\ pool[s] = NoDelivery
           /\ pool' = [pool EXCEPT ![s] = d]
           /\ UNCHANGED <<runs, reported>>
    BY <1>0, <1>1 DEF SubmitRoute
  <2>2. AtMostOnce'
    BY <1>0, <2>1
  <2>3. \A e \in Deliveries : e # d /\ Untouched(e) => Untouched(e)'
    BY <1>0, <2>1
  <2>4. QED
    BY <1>1, <2>1, <2>2, <2>3 DEF Goal, SubmitRoute
<1>2. ASSUME NEW d \in Deliveries, ~Served(d), TakesEffect(d) \/ ShownAsError(d)
      PROVE  /\ runs'[d] <= 1
             /\ \A e \in Deliveries \ {d} : runs'[e] = runs[e] /\ (e \in reported' <=> e \in reported)
  BY <1>0, <1>2 DEF TakesEffect, ShownAsError, Bump
<1>3. ASSUME NEW c \in Conns, ProcessInline(c) PROVE Goal
  <2>1. PICK d \in Deliveries :
           /\ d = req[c] /\ Untouched(d)
           /\ TakesEffect(d) \/ ShownAsError(d)
           /\ UNCHANGED pool
    BY <1>0, <1>3 DEF ProcessInline, poolVars
  <2>2. /\ runs'[d] <= 1
        /\ \A e \in Deliveries \ {d} : runs'[e] = runs[e] /\ (e \in reported' <=> e \in reported)
    BY <1>2, <2>1
  <2>3. AtMostOnce'
    BY <1>0, <2>1, <2>2
  <2>4. \A e \in Deliveries : e # d /\ Untouched(e) => Untouched(e)'
    BY <2>1, <2>2
  <2>5. QED
    BY <1>3, <2>1, <2>3, <2>4 DEF Goal, ProcessInline
<1>4. ASSUME NEW s \in Slots, RouteRuns(s) PROVE Goal
  <2>1. PICK d \in Deliveries :
           /\ d = pool[s] /\ ~Served(d)
           /\ TakesEffect(d) \/ ShownAsError(d)
           /\ pool' = [pool EXCEPT ![s] = NoDelivery]
    BY <1>0, <1>4 DEF RouteRuns
  <2>2. /\ runs'[d] <= 1
        /\ \A e \in Deliveries \ {d} : runs'[e] = runs[e] /\ (e \in reported' <=> e \in reported)
    BY <1>2, <2>1
  <2>3. AtMostOnce'
    BY <1>0, <2>1, <2>2
  <2>4. \A e \in Deliveries : Untouched(e) => Untouched(e)'
    BY <1>0, <2>1, <2>2
  <2>5. QED
    BY <2>3, <2>4 DEF Goal
<1>5. ASSUME NEW s \in Slots, OtherScan(s) \/ OtherRouteRuns(s) PROVE Goal
  <2>1. /\ pool[s] \in {NoDelivery, OtherRoute} /\ UNCHANGED <<runs, reported>>
        /\ \E x \in {NoDelivery, OtherRoute} : pool' = [pool EXCEPT ![s] = x]
    BY <1>5 DEF OtherScan, OtherRouteRuns, historyVars
  <2>2. QED
    BY <1>0, <2>1 DEF Goal
<1>6. ASSUME UNCHANGED <<pool, historyVars>> PROVE Goal
  BY <1>0, <1>6 DEF Goal, historyVars
<1>7. Goal
  BY <1>1, <1>3, <1>4, <1>5, <1>6, BridgeLosesNone, NoneLost, ServingSteps
<1>8. QED
  BY <1>7 DEF Goal

\* Scans are numbered in time; a purged row is of a delivery nobody sends.
LEMMA FutureStep ==
    ASSUME Faults \subseteq BridgeFaults, OnceInv, [Next]_vars
    PROVE  FutureInv'
<1> DEFINE Goal ==
      /\ \A d \in Deliveries : d >= nextScan' => row'[d] = "none"
      /\ \A d \in outbox' : d < nextScan'
      /\ \A c \in Conns : req'[c] < nextScan'
      /\ \A d \in Deliveries : row'[d] = "old" => d \notin outbox' /\ \A c \in Conns : req'[c] # d
<1>0. /\ nextScan \in 1..(MaxScans + 1)
      /\ nextScan' \in Nat /\ nextScan <= nextScan'
      /\ \A c \in Conns : at[c] = "handle" => req[c] < nextScan
  BY BoundsAssumption
  DEF OnceInv, TypeOK, FutureInv, Next, Sender, Request, Pool, Clock, Environment, Faulty,
      vars, bridgeVars, Post, PollEmpty, Confirmed, AnsweredFail, PostFailed, WokenByScan,
      DelayOver, LookUp, Reclaim, Insert, SubmitRoute, Saturated, ProcessInline,
      CompleteReads, CompleteStores, ReleaseReads, ReleaseDeletes, RouteRuns, OtherRouteRuns,
      BackoffOver, LeaseLapses, RetentionEnds, OtherScan, EditTargets, OutboxCompleteFails, OutboxUnreadable,
      TimedOut, BridgeRestart, ServerRestart, DbError, Lost, InlineUnshown, RouteUnshown,
      ScanPersisted, ScanDropped,
      OutboxComplete, Deliveries
<1>1. \A d \in Deliveries : d >= nextScan' => Untouched(d)'
  BY <1>0, TouchingStep DEF OnceInv, FutureInv, Deliveries
<1>2. /\ TypeOK /\ SenderInv /\ FutureInv /\ ReservationInv
  BY DEF OnceInv
<1> HIDE DEF Goal
<1> USE DEF FutureInv, Freed, NoDelivery, Deliveries, bridgeVars, Hangup
<1>3. ASSUME ScanPersisted \/ ScanDropped \/ OutboxComplete PROVE Goal
  <2>1. /\ UNCHANGED <<req, row>>
        /\ \A d \in outbox' : d \in outbox \/ (d = nextScan /\ nextScan' = nextScan + 1)
    BY <1>3 DEF ScanPersisted, ScanDropped, OutboxComplete
  <2>2. \A d \in Deliveries : row[d] = "old" => d < nextScan
    BY <1>0, <1>2
  <2>3. \A d \in Deliveries : row[d] = "old" => d \notin outbox'
    BY <1>0, <1>2, <2>1, <2>2
  <2>4. ASSUME NEW d \in outbox' PROVE d < nextScan'
    <3>1. CASE d \in outbox
      <4>1. d \in Nat /\ d < nextScan
        BY <1>2, <3>1 DEF TypeOK
      <4>2. QED
        BY <1>0, <4>1
    <3>2. CASE d = nextScan /\ nextScan' = nextScan + 1
      BY <1>0, <3>2
    <3>3. QED
      BY <2>1, <3>1, <3>2
  <2>5. \A c \in Conns : req[c] < nextScan'
    BY <1>0, <1>2, <2>1 DEF TypeOK
  <2>6. QED
    BY <1>0, <1>2, <2>1, <2>3, <2>4, <2>5 DEF Goal
<1>4. ASSUME NEW c \in Conns, Post(c) PROVE Goal
  BY <1>0, <1>2, <1>4 DEF Goal, Post, SenderInv, TypeOK
<1>5. ASSUME Confirmed \/ AnsweredFail \/ TimedOut \/ BridgeRestart PROVE Goal
  <2>1. UNCHANGED <<nextScan, outbox, row>>
    BY <1>5 DEF Confirmed, AnsweredFail, TimedOut, BridgeRestart, PostFailed
  <2>2. \A b \in Conns : req'[b] \in {req[b], NoDelivery}
    BY <1>2, <1>5 DEF Confirmed, AnsweredFail, TimedOut, BridgeRestart, TypeOK
  <2>3. QED
    BY <1>0, <1>2, <2>1, <2>2 DEF Goal
<1>6. ASSUME NEW c \in Conns, Request(c) \/ Lost(c) PROVE Goal
  <2>1. UNCHANGED bridgeVars /\ Moves(c)
    BY <1>6, RequestSteps
  <2>2. \A b \in Conns : req'[b] \in {req[b], NoDelivery}
    BY <1>2, <2>1 DEF Moves, Goes, Answer, TypeOK
  <2>3. \A d \in Deliveries : \/ row'[d] = row[d] \/ row'[d] = "none"
                              \/ req[c] = d /\ row'[d] \in {"held", "done"}
    BY <1>2, <1>6
    DEF TypeOK, Request, Lost, LookUp, Reclaim, Insert, Purged, SubmitRoute, Saturated,
        ProcessInline, CompleteReads, CompleteStores, ReleaseReads, ReleaseDeletes
  <2>4. QED
    BY <1>0, <1>2, <2>1, <2>2, <2>3 DEF Goal
<1>7. ASSUME NEW d \in Deliveries, LeaseLapses(d) PROVE Goal
  BY <1>0, <1>2, <1>7 DEF Goal, LeaseLapses, TypeOK
<1>8. ASSUME NEW d \in Deliveries, RetentionEnds(d) PROVE Goal
  BY <1>0, <1>2, <1>8 DEF Goal, RetentionEnds, BridgeFaults, TypeOK
<1>9. ASSUME UNCHANGED <<nextScan, outbox, req, row>> PROVE Goal
  BY <1>0, <1>2, <1>9 DEF Goal
<1>10. \A c \in Conns : ~DbError(c)
  BY DEF DbError, Fault, BridgeFaults
<1>11. Goal
  BY <1>3, <1>4, <1>5, <1>6, <1>7, <1>8, <1>9, <1>10, BridgeLosesNone, NoneLost
  DEF Next, Sender, Pool, Clock, Environment, Faulty, vars, PollEmpty, WokenByScan,
      DelayOver, RouteRuns, OtherRouteRuns, BackoffOver, OtherScan, EditTargets,
      OutboxCompleteFails, OutboxUnreadable
<1>12. QED
  BY <1>1, <1>11 DEF Goal

\* The row says "held" from the INSERT of a request to its UPDATE or DELETE.
LEMMA ReservationStep ==
    ASSUME Faults \subseteq BridgeFaults, OnceInv, [Next]_vars
    PROVE  ReservationInv'
<1> DEFINE Quiet == /\ UNCHANGED row
                    /\ \A c \in Conns : at'[c] # "reclaim"
                    /\ \A c \in Conns : \A d \in Deliveries : Handles(c, d)' <=> Handles(c, d)
<1>0. /\ TypeOK /\ SenderInv /\ FutureInv /\ ReservationInv
      /\ \A c \in Conns : \A d \in Deliveries : Handles(c, d) => row[d] = "held"
      /\ \A c \in Conns : at[c] # "free" => req[c] \in Deliveries
  BY DEF OnceInv, ReservationInv, TypeOK
<1>1. ASSUME Quiet PROVE ReservationInv'
  BY <1>0, <1>1 DEF ReservationInv, OneHandler
<1> HIDE DEF Quiet
<1>2. ASSUME NEW c \in Conns, Post(c) PROVE Quiet
  BY <1>0, <1>2 DEF Quiet, Post, Handles, ReservationInv, TypeOK
<1>3. ASSUME Confirmed \/ AnsweredFail \/ TimedOut \/ BridgeRestart PROVE Quiet
  <2>1. UNCHANGED row
    BY <1>3 DEF Confirmed, AnsweredFail, TimedOut, BridgeRestart, PostFailed
  <2>2. \/ UNCHANGED <<at, req>>
        \/ line \in Conns /\ at[line] \in {"ok", "fail"} /\ Freed(line)
    BY <1>0, <1>3 DEF Confirmed, AnsweredFail, TimedOut, BridgeRestart, TypeOK
  <2>3. QED
    BY <1>0, <2>1, <2>2 DEF Quiet, Freed, Handles, ReservationInv, TypeOK
<1>4. ASSUME NEW c \in Conns, LookUp(c) \/ Lost(c) PROVE Quiet
  <2>1. /\ at[c] \in {"sent", "ok"} /\ UNCHANGED row
        /\ Answer(c, "ok") \/ Answer(c, "fail") \/ Goes(c, "insert")
    BY <1>0, <1>4 DEF LookUp, Lost, ReservationInv
  <2>2. QED
    BY <1>0, <2>1 DEF Quiet, Answer, Goes, Freed, Handles, ReservationInv, TypeOK
<1>5. ASSUME NEW c \in Conns,
             SubmitRoute(c) \/ Saturated(c) \/ ProcessInline(c) \/ CompleteReads(c) \/ ReleaseReads(c)
      PROVE  Quiet
  <2>1. row[req[c]] = "held"
    BY <1>0, <1>5
    DEF SubmitRoute, Saturated, ProcessInline, CompleteReads, ReleaseReads, Handles
  <2>2. /\ at[c] \in {"handle", "complete", "release"} /\ UNCHANGED row
        /\ \E state \in {"complete", "release", "store", "unreserve"} : Goes(c, state)
    BY <1>5, <2>1 DEF SubmitRoute, Saturated, ProcessInline, CompleteReads, ReleaseReads
  <2>3. QED
    BY <1>0, <2>2 DEF Quiet, Goes, Handles, ReservationInv, TypeOK
<1>6. ASSUME NEW c \in Conns, Insert(c) PROVE ReservationInv'
  <2>1. CASE Purged[req[c]] = "none" /\ row' = [Purged EXCEPT ![req[c]] = "held"] /\ Goes(c, "handle")
    <3>1. PICK d \in Deliveries : d = req[c]
      BY <1>0, <1>6 DEF Insert
    <3>2. /\ at[c] = "insert" /\ row[d] # "held"
          /\ row'[d] = "held"
          /\ \A e \in Deliveries \ {d} : row'[e] # "lapsed" /\ (row'[e] = "held" <=> row[e] = "held")
      BY <1>0, <1>6, <2>1, <3>1 DEF Insert, Purged, ReservationInv
    <3>3. /\ \A b \in Conns : ~Handles(b, d)
          /\ \A b \in Conns : \A e \in Deliveries :
                Handles(b, e)' <=> Handles(b, e) \/ (b = c /\ e = d)
          /\ \A b \in Conns : at'[b] # "reclaim"
      BY <1>0, <2>1, <3>1, <3>2 DEF Goes, Handles, ReservationInv, TypeOK
    <3>4. QED
      BY <1>0, <3>2, <3>3 DEF ReservationInv, OneHandler
  <2>2. CASE UNCHANGED row /\ Answer(c, "fail")
    BY <1>0, <1>1, <1>6, <2>2
    DEF Quiet, Insert, Answer, Goes, Freed, Handles, ReservationInv, TypeOK
  <2>3. QED
    BY <1>6, <2>1, <2>2 DEF Insert
<1>7. ASSUME NEW c \in Conns, CompleteStores(c) \/ ReleaseDeletes(c) PROVE ReservationInv'
  <2>1. PICK d \in Deliveries : d = req[c]
    BY <1>0, <1>7 DEF CompleteStores, ReleaseDeletes
  <2>2. Handles(c, d) /\ row[d] = "held"
    BY <1>0, <1>7, <2>1 DEF CompleteStores, ReleaseDeletes, Handles
  <2>3. /\ \E result \in {"ok", "fail"} : Answer(c, result)
        /\ \E state \in {"done", "none"} : row' = [row EXCEPT ![d] = state]
    BY <1>7, <2>1, <2>2 DEF CompleteStores, ReleaseDeletes
  <2>4. /\ \A b \in Conns : \A e \in Deliveries : Handles(b, e)' <=> Handles(b, e) /\ b # c
        /\ \A b \in Conns : at'[b] # "reclaim"
    BY <1>0, <2>1, <2>2, <2>3 DEF Answer, Goes, Freed, Handles, ReservationInv, TypeOK
  <2>5. QED
    BY <1>0, <2>2, <2>3, <2>4 DEF ReservationInv, OneHandler, TypeOK, Handles
<1>8. ASSUME NEW d \in Deliveries, RetentionEnds(d) PROVE ReservationInv'
  BY <1>0, <1>8 DEF RetentionEnds, ReservationInv, OneHandler, Handles, TypeOK
<1>9. ASSUME UNCHANGED <<at, req, row>> PROVE Quiet
  BY <1>0, <1>9 DEF Quiet, Handles, ReservationInv
<1>10. /\ \A c \in Conns : ~Reclaim(c)
       /\ \A d \in Deliveries : ~LeaseLapses(d)
       /\ \A c \in Conns : ~DbError(c)
  BY <1>0 DEF ReservationInv, Reclaim, LeaseLapses, DbError, Fault, BridgeFaults
<1>11. QED
  BY <1>1, <1>2, <1>3, <1>4, <1>5, <1>6, <1>7, <1>8, <1>9, <1>10, BridgeLosesNone, NoneLost
  DEF Next, Sender, Request, Pool, Clock, Environment, Faulty, vars, bridgeVars,
      ScanPersisted, ScanDropped, PollEmpty, OutboxComplete, WokenByScan, DelayOver,
      RouteRuns, OtherRouteRuns, BackoffOver, OtherScan, EditTargets, OutboxCompleteFails, OutboxUnreadable

\* Which requests come to hold an untouched reservation, which deliveries lose
\* their row, and which are still to be sent.
LEMMA UntouchedStep ==
    ASSUME Faults \subseteq BridgeFaults, OnceInv, [Next]_vars
    PROVE  UntouchedInv'
<1> DEFINE Holds(c) == at[c] \in {"handle", "release", "unreserve"}
           Wanted(d) == d \in outbox \/ \E c \in Conns : req[c] = d
           OldHold(c) == Holds(c) /\ req'[c] = req[c]
           NewHold(c) == row[req[c]] = "none" /\ req'[c] = req[c]
           HoldsGoal == \A c \in Conns : Holds(c)' => OldHold(c) \/ NewHold(c)
           WantedGoal == \A d \in Deliveries :
                            row'[d] = "none" /\ Wanted(d)' =>
                              \/ row[d] = "none" /\ (Wanted(d) \/ d >= nextScan)
                              \/ \E c \in Conns : req[c] = d /\ Holds(c)
<1>0. /\ TypeOK /\ SenderInv /\ FutureInv /\ ReservationInv /\ UntouchedInv
      /\ \A c \in Conns : \A d \in Deliveries : Handles(c, d) => row[d] = "held"
      /\ \A c \in Conns : at[c] # "free" => req[c] \in Deliveries
      /\ \A c \in Conns : ~Reclaim(c) /\ ~DbError(c) /\ ~InlineUnshown(c)
      /\ ~ServerRestart /\ \A s \in Slots : ~RouteUnshown(s)
  BY BridgeLosesNone, NoneLost
  DEF OnceInv, ReservationInv, TypeOK, Reclaim, DbError, Fault, BridgeFaults
\* Whoever holds a reservation after the step found its delivery untouched.
<1>1. HoldsGoal
  <2> SUFFICES ASSUME NEW c \in Conns, Holds(c)' PROVE OldHold(c) \/ NewHold(c)
    OBVIOUS
  <2>1. ASSUME NEW b \in Conns, Request(b) \/ Lost(b) PROVE OldHold(c) \/ NewHold(c)
    BY <1>0, <2>1
    DEF Request, Lost, LookUp, Insert, Purged, SubmitRoute, Saturated, ProcessInline,
        CompleteReads, CompleteStores, ReleaseReads, ReleaseDeletes, Goes, Answer, Freed,
        TypeOK, FutureInv, ReservationInv, Handles
  <2>2. ASSUME NEW b \in Conns, Post(b) PROVE OldHold(c) \/ NewHold(c)
    BY <1>0, <2>2 DEF Post, TypeOK
  <2>3. ASSUME Confirmed \/ AnsweredFail \/ TimedOut \/ BridgeRestart
        PROVE  OldHold(c) \/ NewHold(c)
    BY <1>0, <2>3 DEF Confirmed, AnsweredFail, TimedOut, BridgeRestart, Freed, TypeOK
  <2>4. ASSUME UNCHANGED <<at, req>> PROVE OldHold(c) \/ NewHold(c)
    BY <2>4
  <2>5. QED
    BY <1>0, <2>1, <2>2, <2>3, <2>4
    DEF Next, Sender, Pool, Clock, Environment, Faulty, vars, ScanPersisted,
        ScanDropped, PollEmpty, OutboxComplete, WokenByScan, DelayOver, RouteRuns,
        OtherRouteRuns, BackoffOver, LeaseLapses, RetentionEnds, OtherScan, EditTargets,
        OutboxCompleteFails, OutboxUnreadable
\* Whatever has no row after the step had none before, or loses it to its holder.
<1>2. WantedGoal
  <2> SUFFICES ASSUME NEW d \in Deliveries, row'[d] = "none", Wanted(d)'
               PROVE  \/ row[d] = "none" /\ (Wanted(d) \/ d >= nextScan)
                      \/ \E c \in Conns : req[c] = d /\ Holds(c)
    OBVIOUS
  <2>1. ASSUME NEW c \in Conns, Request(c) \/ Lost(c)
        PROVE  \/ row[d] = "none" /\ Wanted(d)
               \/ \E b \in Conns : req[b] = d /\ Holds(b)
    <3>1. UNCHANGED bridgeVars /\ Moves(c)
      BY <2>1, RequestSteps
    <3>2. \A b \in Conns : req'[b] \in {req[b], NoDelivery}
      BY <1>0, <3>1 DEF Moves, Goes, Answer, Freed, TypeOK
    <3>3. Wanted(d)
      BY <1>0, <3>1, <3>2 DEF bridgeVars, NoDelivery, Deliveries
    <3>4. row[d] = "none" \/ row[d] = "old" \/ (req[c] = d /\ Holds(c))
      BY <1>0, <2>1
      DEF Request, Lost, LookUp, Insert, Purged, SubmitRoute, Saturated, ProcessInline,
          CompleteReads, CompleteStores, ReleaseReads, ReleaseDeletes, TypeOK
    <3>5. QED
      BY <1>0, <3>3, <3>4 DEF FutureInv
  <2>2. ASSUME NEW c \in Conns, Post(c) PROVE row[d] = "none" /\ Wanted(d)
    BY <1>0, <2>2 DEF Post, SenderInv, TypeOK
  <2>3. ASSUME Confirmed \/ AnsweredFail \/ TimedOut \/ BridgeRestart
        PROVE  row[d] = "none" /\ Wanted(d)
    <3>1. UNCHANGED <<row, outbox>>
      BY <2>3 DEF Confirmed, AnsweredFail, TimedOut, BridgeRestart, PostFailed
    <3>2. \A b \in Conns : req'[b] \in {req[b], NoDelivery}
      BY <1>0, <2>3 DEF Confirmed, AnsweredFail, TimedOut, BridgeRestart, Freed, TypeOK
    <3>3. QED
      BY <3>1, <3>2 DEF NoDelivery, Deliveries
  <2>4. ASSUME ScanPersisted \/ ScanDropped \/ OutboxComplete
        PROVE  row[d] = "none" /\ (Wanted(d) \/ d >= nextScan)
    BY <1>0, <2>4 DEF ScanPersisted, ScanDropped, OutboxComplete, Deliveries
  <2>5. ASSUME NEW e \in Deliveries, LeaseLapses(e) \/ RetentionEnds(e)
        PROVE  row[d] = "none" /\ Wanted(d)
    BY <1>0, <2>5 DEF LeaseLapses, RetentionEnds, bridgeVars, TypeOK
  <2>6. ASSUME UNCHANGED <<outbox, req, row>> PROVE row[d] = "none" /\ Wanted(d)
    BY <2>6
  <2>7. QED
    BY <1>0, <2>1, <2>2, <2>3, <2>4, <2>5, <2>6
    DEF Next, Sender, Pool, Clock, Environment, Faulty, vars, bridgeVars, PollEmpty,
        WokenByScan, DelayOver, RouteRuns, OtherRouteRuns, BackoffOver, OtherScan,
        EditTargets, OutboxCompleteFails, OutboxUnreadable
<1>3. ASSUME NEW d \in Deliveries, Untouched(d), ~Untouched(d)'
      PROVE  \E c \in Conns : /\ req[c] = d /\ at[c] = "handle" /\ row[d] = "held"
                              /\ Handles(c, d) /\ Goes(c, "complete") /\ UNCHANGED row
  BY <1>0, <1>3, TouchingStep DEF Handles
<1>4. ASSUME NEW c \in Conns, Holds(c)' PROVE Untouched(req[c])' /\ req'[c] = req[c]
  <2>1. PICK d \in Deliveries : d = req[c] /\ d = req'[c]
    <3>1. req'[c] = req[c]
      BY <1>1, <1>4
    <3>2. req'[c] \in Deliveries
      BY <1>0, <1>4, TypeStep DEF TypeOK
    <3>3. QED
      BY <3>1, <3>2
  <2>2. Untouched(d)
    BY <1>0, <1>1, <1>4, <2>1 DEF UntouchedInv
  <2>3. Untouched(d)'
    <3> SUFFICES ASSUME ~Untouched(d)' PROVE FALSE
      OBVIOUS
    <3>1. PICK b \in Conns : /\ req[b] = d /\ row[d] = "held" /\ Handles(b, d)
                             /\ Goes(b, "complete")
      BY <1>3, <2>2
    <3>2. Handles(c, d)
      BY <1>1, <1>4, <2>1, <3>1 DEF Handles
    <3>3. b = c
      BY <1>0, <3>1, <3>2 DEF ReservationInv, OneHandler
    <3>4. QED
      BY <1>0, <1>4, <3>1, <3>3 DEF Goes, TypeOK
  <2>4. QED
    BY <2>1, <2>3
<1>5. ASSUME NEW d \in Deliveries, row'[d] = "none", Wanted(d)' PROVE Untouched(d)'
  <2>1. Untouched(d)
    BY <1>0, <1>2, <1>5 DEF UntouchedInv, FutureInv
  <2>2. ~(UNCHANGED row /\ row[d] = "held")
    BY <1>5
  <2>3. QED
    BY <1>3, <2>1, <2>2
<1>6. AtMostOnce'
  BY TouchingStep
<1>7. QED
  BY <1>4, <1>5, <1>6 DEF UntouchedInv

LEMMA OnceInvAlways ==
    ASSUME Faults \subseteq BridgeFaults
    PROVE  Spec => []OnceInv
<1>1. Init => SenderInv /\ FutureInv /\ ReservationInv /\ UntouchedInv
  BY ConnsAssumption
  DEF Init, SenderInv, FutureInv, ReservationInv, UntouchedInv, OneHandler, AtMostOnce,
      Handles, Untouched, Routing, Served, Deliveries, NoDelivery
<1>2. OnceInv /\ [Next]_vars => SenderInv' /\ FutureInv' /\ ReservationInv' /\ UntouchedInv'
  BY SenderStep, FutureStep, ReservationStep, UntouchedStep DEF OnceInv
<1>3. OnceInv <=> TypeOK /\ SenderInv /\ FutureInv /\ ReservationInv /\ UntouchedInv
  BY DEF OnceInv
<1>4. QED
  BY <1>1, <1>2, <1>3, TypeCorrect, PTL DEF Spec

\* While only the bridge and the network fail, the delivery id makes retries
\* harmless: whoever can still reserve a delivery finds it untouched, and
\* whoever finds it touched finds the completed row.
THEOREM AtMostOnceAlways ==
    ASSUME Faults \subseteq BridgeFaults
    PROVE  Spec => []AtMostOnce
<1>1. OnceInv => AtMostOnce
  BY DEF OnceInv, UntouchedInv
<1>2. QED
  BY <1>1, OnceInvAlways, PTL

\* While only the bridge and the network fail, and no lease runs out under a
\* request that still handles its delivery, the row of scan_deliveries is held
\* by one request at a time (_reserve_delivery).
THEOREM OneHandlerAlways ==
    ASSUME Faults \subseteq BridgeFaults
    PROVE  Spec => []OneHandler
<1>1. OnceInv => OneHandler
  BY DEF OnceInv, ReservationInv
<1>2. QED
  BY <1>1, OnceInvAlways, PTL

-----------------------------------------------------------------------------
\* A dropped scan is nowhere.
DroppedInv ==
    \A d \in dropped : /\ d < nextScan /\ d \notin outbox
                       /\ \A c \in Conns : req[c] # d
                       /\ ~Routing(d)

LEMMA DroppedStep ==
    ASSUME Faults \subseteq BridgeFaults, OnceInv, DroppedInv, [Next]_vars
    PROVE  DroppedInv'
<1>0. /\ TypeOK /\ SenderInv /\ FutureInv
      /\ nextScan \in Nat
  BY DEF OnceInv, TypeOK
<1>1. CASE ScanDropped
  <2>1. /\ nextScan \in Deliveries /\ nextScan' = nextScan + 1
        /\ dropped' = dropped \cup {nextScan} /\ UNCHANGED <<outbox, req, pool>>
    BY <1>1 DEF ScanDropped, poolVars
  <2>2. /\ nextScan \notin outbox /\ ~Routing(nextScan)
        /\ \A c \in Conns : req[c] # nextScan
    BY <1>0, <2>1 DEF FutureInv, Untouched
  <2>3. QED
    BY <1>0, <2>1, <2>2 DEF DroppedInv, Routing, TypeOK
<1>2. CASE ~ScanDropped
  <2>1. dropped' = dropped
    BY <1>2 DEF Next, Sender, Request, Pool, Clock, Environment, Faulty, vars, bridgeVars,
       ScanPersisted, Post, PollEmpty, Confirmed, OutboxComplete, AnsweredFail, PostFailed,
       WokenByScan, DelayOver, LookUp, Reclaim, Insert, SubmitRoute, Saturated,
       ProcessInline, CompleteReads, CompleteStores, ReleaseReads, ReleaseDeletes,
       RouteRuns, OtherRouteRuns, BackoffOver, LeaseLapses, RetentionEnds, OtherScan,
       EditTargets, OutboxCompleteFails, OutboxUnreadable, TimedOut, BridgeRestart, ServerRestart, DbError, Lost,
       InlineUnshown, RouteUnshown
  <2>2. \A d \in dropped : d < nextScan' /\ d \notin outbox'
    <3>1. \/ nextScan' = nextScan /\ outbox' \subseteq outbox
          \/ nextScan' = nextScan + 1 /\ outbox' = outbox \cup {nextScan}
      BY <1>2 DEF Next, Sender, Request, Pool, Clock, Environment, Faulty, vars, bridgeVars,
         ScanPersisted, Post, PollEmpty, Confirmed, OutboxComplete, AnsweredFail, PostFailed,
         WokenByScan, DelayOver, LookUp, Reclaim, Insert, SubmitRoute, Saturated,
         ProcessInline, CompleteReads, CompleteStores, ReleaseReads, ReleaseDeletes,
         RouteRuns, OtherRouteRuns, BackoffOver, LeaseLapses, RetentionEnds, OtherScan,
         EditTargets, OutboxCompleteFails, OutboxUnreadable, TimedOut, BridgeRestart, ServerRestart, DbError,
         Lost, InlineUnshown, RouteUnshown
    <3>2. dropped \subseteq Nat
      BY <1>0 DEF TypeOK, Deliveries
    <3>3. QED
      BY <1>0, <3>1, <3>2 DEF DroppedInv
  <2>3. \A d \in dropped : \A c \in Conns : req'[c] # d
    <3>1. ASSUME NEW c \in Conns, Post(c) PROVE \A b \in Conns : req'[b] \in {req[b], NoDelivery} \cup outbox
      BY <1>0, <3>1 DEF Post, SenderInv, TypeOK
    <3>2. ASSUME NEW c \in Conns, Request(c) \/ DbError(c) \/ Lost(c)
          PROVE  \A b \in Conns : req'[b] \in {req[b], NoDelivery}
      BY <1>0, <3>2, RequestSteps DEF Moves, Goes, Answer, Freed, TypeOK
    <3>3. ASSUME Confirmed \/ AnsweredFail \/ TimedOut \/ BridgeRestart
          PROVE  \A b \in Conns : req'[b] \in {req[b], NoDelivery}
      BY <1>0, <3>3 DEF Confirmed, AnsweredFail, TimedOut, BridgeRestart, Freed, TypeOK
    <3>4. /\ ~ServerRestart
          /\ \A c \in Conns : ~InlineUnshown(c)
          /\ \A s \in Slots : ~RouteUnshown(s)
      BY BridgeLosesNone, NoneLost
    <3>5. \A b \in Conns : req'[b] \in {req[b], NoDelivery} \cup outbox
      BY <3>1, <3>2, <3>3, <3>4
      DEF Next, Sender, Pool, Clock, Environment, Faulty, vars, ScanPersisted, ScanDropped,
          PollEmpty, OutboxComplete, WokenByScan, DelayOver, RouteRuns, OtherRouteRuns,
          BackoffOver, LeaseLapses, RetentionEnds, OtherScan, EditTargets, OutboxCompleteFails, OutboxUnreadable
    <3>6. QED
      BY <1>0, <3>5 DEF DroppedInv, TypeOK, NoDelivery, Deliveries
  <2>4. \A d \in dropped : ~Routing(d)'
    BY <1>0, ServingSteps, BridgeLosesNone, NoneLost
    DEF DroppedInv, TypeOK, Routing, SubmitRoute, ProcessInline, RouteRuns, OtherScan,
        OtherRouteRuns, ServerRestart, poolVars, NoDelivery, OtherRoute, Deliveries
  <2>5. QED
    BY <2>1, <2>2, <2>3, <2>4 DEF DroppedInv
<1>3. QED
  BY <1>1, <1>2

\* Every step of the delivery is a step of the promise, or invisible to it.
LEMMA PromiseStep ==
    ASSUME Faults \subseteq BridgeFaults, OnceInv, DroppedInv,
           NoSilentLoss, NoSilentLoss', [Next]_vars
    PROVE  [Promise!Next]_(Promise!vars)
<1> DEFINE Stutter == UNCHANGED <<Taken, Outcome, Settled>>
<1>0. /\ TypeOK /\ SenderInv /\ FutureInv /\ ReservationInv /\ UntouchedInv
      /\ nextScan \in Nat
      /\ NoDelivery \notin Deliveries /\ OtherRoute \notin Deliveries
      /\ outbox \subseteq Deliveries
      /\ pool \in [Slots -> Deliveries \cup {NoDelivery, OtherRoute}]
      /\ runs \in [Deliveries -> 0..2]
  BY DEF OnceInv, TypeOK, NoDelivery, OtherRoute, Deliveries
<1>1. \A d \in Deliveries : d \in outbox \/ Routing(d) => Persisted(d)
  BY <1>0 DEF FutureInv, DroppedInv, Persisted, Untouched, Deliveries
<1>2. ASSUME NEW c \in Conns, at[c] = "handle"
      PROVE  /\ req[c] \in Deliveries /\ req[c] \in outbox
             /\ Untouched(req[c]) /\ Persisted(req[c])
  <2>1. req[c] \in Deliveries
    BY <1>0, <1>2 DEF TypeOK
  <2>2. Untouched(req[c]) /\ Persisted(req[c])
    BY <1>0, <1>2, <2>1 DEF UntouchedInv, FutureInv, DroppedInv, Persisted
  <2>3. QED
    BY <2>1, <2>2 DEF NoSilentLoss, Untouched
<1>3. ASSUME Stutter PROVE [Promise!Next]_(Promise!vars)
  BY <1>3 DEF Promise!vars
<1>4. ASSUME UNCHANGED <<nextScan, dropped, outbox, pool, runs, reported>>
      PROVE  [Promise!Next]_(Promise!vars)
  BY <1>3, <1>4 DEF Taken, Outcome, Settled, Persisted, Routing
<1>5. ASSUME ScanPersisted PROVE [Promise!Next]_(Promise!vars)
  <2>1. PICK d \in Deliveries :
           /\ d = nextScan /\ nextScan' = d + 1
           /\ outbox' = outbox \cup {d}
           /\ UNCHANGED <<dropped, pool, runs, reported>>
    BY <1>5 DEF ScanPersisted, poolVars, historyVars
  <2>2. d \notin Taken /\ d \notin dropped
    BY <1>0, <2>1 DEF Taken, Persisted, DroppedInv
  <2>3. \A e \in Deliveries : Persisted(e)' <=> Persisted(e) \/ e = d
    BY <1>0, <2>1, <2>2 DEF Persisted, Deliveries
  <2>4. Taken' = Taken \cup {d} /\ Settled' = Settled /\ Outcome' = Outcome
    BY <1>0, <2>1, <2>2, <2>3 DEF Taken, Settled, Outcome, Routing
  <2>5. QED
    BY <2>2, <2>4 DEF Promise!Next, Promise!Take
<1>6. ASSUME ScanDropped PROVE [Promise!Next]_(Promise!vars)
  <2>1. /\ nextScan \in Deliveries /\ nextScan' = nextScan + 1
        /\ dropped' = dropped \cup {nextScan}
        /\ UNCHANGED <<outbox, pool, runs, reported>>
    BY <1>6 DEF ScanDropped, poolVars, historyVars
  <2>2. \A e \in Deliveries : Persisted(e)' <=> Persisted(e)
    BY <1>0, <2>1 DEF Persisted, Deliveries
  <2>3. QED
    BY <1>3, <2>1, <2>2 DEF Taken, Settled, Outcome, Routing
<1>7. ASSUME OutboxComplete PROVE [Promise!Next]_(Promise!vars)
  <2>1. PICK d \in Deliveries :
           /\ d \in outbox /\ outbox' = outbox \ {d}
           /\ UNCHANGED <<nextScan, dropped, pool, runs, reported>>
    BY <1>0, <1>7 DEF OutboxComplete, SenderInv, poolVars, historyVars
  <2>2. Persisted(d) /\ Taken' = Taken /\ Outcome' = Outcome
    BY <1>1, <2>1 DEF Taken, Outcome, Persisted
  <2>3. CASE Routing(d)
    <3>1. Settled' = Settled
      BY <2>1, <2>3 DEF Settled, Persisted, Routing
    <3>2. QED
      BY <1>3, <2>2, <3>1
  <2>4. CASE ~Routing(d)
    <3>1. Settled' = Settled \cup {d}
      BY <2>1, <2>2, <2>4 DEF Settled, Persisted, Routing
    <3>2. Served(d)
      BY <2>1, <2>2, <2>4 DEF NoSilentLoss, Persisted, Routing, Served
    <3>3. d \in Taken /\ Outcome[d] # "none"
      BY <2>2, <3>2 DEF Taken, Outcome, Served
    <3>4. QED
      BY <2>2, <3>1, <3>3 DEF Promise!Next, Promise!Settle
  <2>5. QED
    BY <2>3, <2>4
<1>8. ASSUME NEW c \in Conns, SubmitRoute(c) PROVE [Promise!Next]_(Promise!vars)
  <2>1. PICK d \in Deliveries, s \in Slots :
           /\ d \in outbox /\ pool[s] = NoDelivery
           /\ pool' = [pool EXCEPT ![s] = d]
           /\ UNCHANGED <<nextScan, dropped, outbox, runs, reported>>
    BY <1>2, <1>8 DEF SubmitRoute, bridgeVars
  <2>2. \A e \in Deliveries : e # d => (Routing(e)' <=> Routing(e))
    BY <1>0, <2>1 DEF Routing
  <2>3. QED
    BY <1>3, <2>1, <2>2 DEF Taken, Settled, Outcome, Persisted
\* What serving does to the outcome.
<1>9. ASSUME NEW d \in Deliveries, ~Served(d), TakesEffect(d) \/ ShownAsError(d)
      PROVE  /\ Outcome[d] = "none"
             /\ \E result \in {"effect", "error"} : Outcome' = [Outcome EXCEPT ![d] = result]
  <2>1. Outcome[d] = "none"
    BY <1>0, <1>9 DEF Served, Outcome
  <2>2. CASE TakesEffect(d)
    <3>1. Bump(runs[d]) = 1
      BY <1>0, <1>9 DEF Bump, Served
    <3>2. runs' = [runs EXCEPT ![d] = 1] /\ reported' = reported
      BY <2>2, <3>1 DEF TakesEffect
    <3>3. Outcome' = [Outcome EXCEPT ![d] = "effect"]
      <4>1. \A e \in Deliveries : runs'[e] = IF e = d THEN 1 ELSE runs[e]
        BY <1>0, <3>2
      <4>2. \A e \in Deliveries : Outcome'[e] = IF e = d THEN "effect" ELSE Outcome[e]
        BY <3>2, <4>1 DEF Outcome
      <4>3. QED
        BY <4>2 DEF Outcome
    <3>4. QED
      BY <2>1, <3>3
  <2>3. CASE ShownAsError(d)
    <3>1. Outcome' = [Outcome EXCEPT ![d] = "error"]
      BY <1>0, <1>9, <2>3 DEF ShownAsError, Served, Outcome
    <3>2. QED
      BY <2>1, <3>1
  <2>4. QED
    BY <1>9, <2>2, <2>3
<1>10. ASSUME NEW c \in Conns, ProcessInline(c) PROVE [Promise!Next]_(Promise!vars)
  <2>1. PICK d \in Deliveries :
           /\ d \in outbox /\ ~Served(d) /\ d \in Taken
           /\ TakesEffect(d) \/ ShownAsError(d)
           /\ UNCHANGED <<nextScan, dropped, outbox, pool>>
    BY <1>2, <1>10 DEF ProcessInline, Untouched, Taken, bridgeVars, poolVars
  <2>2. Taken' = Taken /\ Settled' = Settled
    BY <2>1 DEF Taken, Settled, Persisted, Routing
  <2>3. QED
    BY <1>9, <2>1, <2>2 DEF Promise!Next, Promise!Serve
<1>11. ASSUME NEW s \in Slots, RouteRuns(s) PROVE [Promise!Next]_(Promise!vars)
  <2>1. PICK d \in Deliveries :
           /\ d = pool[s] /\ ~Served(d) /\ d \in Taken
           /\ TakesEffect(d) \/ ShownAsError(d)
           /\ pool' = [pool EXCEPT ![s] = NoDelivery]
           /\ UNCHANGED <<nextScan, dropped, outbox>>
    BY <1>0, <1>1, <1>11 DEF RouteRuns, UntouchedInv, AtMostOnce, Routing, Taken, bridgeVars
  <2>2. Taken' = Taken
    BY <2>1 DEF Taken, Persisted
  <2>3. /\ \A e \in Deliveries \ {d} : Routing(e)' <=> Routing(e)
        /\ Routing(d)
    BY <1>0, <2>1 DEF Routing
  <2>4. Settled' = Settled \/ Settled' = Settled \cup {d}
    BY <2>1, <2>3 DEF Settled, Persisted
  <2>5. QED
    BY <1>9, <2>1, <2>2, <2>4 DEF Promise!Next, Promise!Serve
<1>12. ASSUME NEW s \in Slots, OtherScan(s) \/ OtherRouteRuns(s)
       PROVE  [Promise!Next]_(Promise!vars)
  <2>1. /\ pool[s] \in {NoDelivery, OtherRoute}
        /\ \E x \in {NoDelivery, OtherRoute} : pool' = [pool EXCEPT ![s] = x]
        /\ UNCHANGED <<nextScan, dropped, outbox, runs, reported>>
    BY <1>12 DEF OtherScan, OtherRouteRuns, bridgeVars, historyVars
  <2>2. \A e \in Deliveries : Routing(e)' <=> Routing(e)
    BY <1>0, <2>1 DEF Routing
  <2>3. QED
    BY <1>3, <2>1, <2>2 DEF Taken, Settled, Outcome, Persisted
<1>13. QED
  BY <1>4, <1>5, <1>6, <1>7, <1>8, <1>10, <1>11, <1>12, BridgeLosesNone, NoneLost
  DEF Next, Sender, Request, Pool, Clock, Environment, Faulty, vars, bridgeVars, poolVars,
      historyVars, Post, PollEmpty, Confirmed, AnsweredFail, PostFailed, WokenByScan,
      DelayOver, LookUp, Reclaim, Insert, Saturated, CompleteReads, CompleteStores,
      ReleaseReads, ReleaseDeletes, BackoffOver, LeaseLapses, RetentionEnds, EditTargets,
      OutboxCompleteFails, OutboxUnreadable, TimedOut, BridgeRestart, DbError, Lost

\* While only the bridge and the network fail, the outbox, the delivery table
\* and the pool together serve each persisted scan exactly once, by an effect
\* or by an error, and let go of it only then.
THEOREM KeepsPromiseAlways ==
    ASSUME Faults \subseteq BridgeFaults
    PROVE  Spec => KeepsPromise
<1>1. Init => Promise!Init
  BY DEF Init, Promise!Init, Taken, Outcome, Settled, Persisted, Deliveries
<1>2. Init => DroppedInv
  BY DEF Init, DroppedInv
<1>3. OnceInv /\ DroppedInv /\ [Next]_vars => DroppedInv'
  BY DroppedStep
<1>4. /\ OnceInv /\ DroppedInv /\ NoSilentLoss /\ NoSilentLoss' /\ [Next]_vars
      => [Promise!Next]_(Promise!vars)
  BY PromiseStep
<1>5. Faults \cap LosingFaults = {}
  BY BridgeLosesNone
<1>6. Spec => []NoSilentLoss
  BY <1>5, NoSilentLossAlways
<1>7. QED
  BY <1>1, <1>2, <1>3, <1>4, <1>6, OnceInvAlways, PTL DEF Spec, KeepsPromise, Promise!Spec
=============================================================================
