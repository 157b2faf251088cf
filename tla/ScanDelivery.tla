---------------------------- MODULE ScanDelivery ----------------------------
(***************************************************************************)
(* A physical scan on its way from the USB bridge to the route that acts   *)
(* on it: the bridge's SQLite outbox and its one sender thread             *)
(* (tools/barcode2mealie-usb/scanner.py), the HTTP request that may be     *)
(* lost, late or repeated, the delivery table that makes a repetition a    *)
(* replay (app/routers/scan_gateway.py), the admission of the route before *)
(* the acknowledgement (app/routers/scan_fast_v11.py) and the in-memory    *)
(* pool that runs it afterwards.                                           *)
(*                                                                         *)
(* Deliveries are the numbers of the physical scans: uuid4 ids never       *)
(* collide, and the outbox orders its rows by the time of the scan.        *)
(***************************************************************************)
EXTENDS Integers, FiniteSets

CONSTANTS
    MaxScans,      \* bound: physical scans in one behaviour
    Conns,         \* HTTP requests that can be outstanding at once
    NoConn,        \* the sender holds no connection
    OutboxCap,     \* scan_queue_size
    Slots,         \* the max_workers + max_pending slots of _ROUTE_POOL
    MaxOtherScans, \* bound: scans without a delivery id, which share _ROUTE_POOL
    Faults,        \* the kinds of fault that happen in this instance
    MaxFaults      \* bound: faults in one behaviour

FaultKinds ==
    {"timeout",         \* the bridge gives up on an answer after HTTP_TIMEOUT
     "loss",            \* a request or an answer is lost
     "bridge_restart",  \* the bridge process is restarted
     "outbox_error",    \* sqlite3.Error in the bridge
     "server_restart",  \* the B2M process is restarted
     "db_error",        \* a database error in a B2M request
     "report_error",    \* ... or while a failed scan is stored to be shown
     "slow_handler",    \* a request takes longer than _DELIVERY_LEASE
     "long_outage"}     \* the bridge is away longer than _DELIVERY_RETENTION

\* The faults that leave B2M and its database alone, and those that lose a
\* scan whose route was admitted.
BridgeFaults == {"timeout", "loss", "bridge_restart", "outbox_error"}

LosingFaults == {"server_restart", "report_error"}

ASSUME BoundsAssumption ==
    /\ MaxScans \in Nat \ {0}
    /\ OutboxCap \in Nat
    /\ MaxOtherScans \in Nat
    /\ MaxFaults \in Nat

ASSUME ConnsAssumption == NoConn \notin Conns

ASSUME FaultsAssumption == Faults \subseteq FaultKinds

Deliveries == 1..MaxScans

NoDelivery == 0

OtherRoute == -1   \* a slot used by the route of a scan without a delivery id

VARIABLES
    \* the bridge
    nextScan,   \* the number of the next physical scan
    dropped,    \* scans that were refused with a logged error
    outbox,     \* rows of scan_outbox
    due,        \* rows whose next_attempt has come
    wakeup,     \* the _delivery_wakeup event
    sender,     \* where scan_sender_loop is
    current,    \* the delivery it works on
    line,       \* the connection it waits on, NoConn if none
    \* B2M
    at,         \* per connection: where the request is
    req,        \* per connection: its delivery
    row,        \* per delivery: its row of scan_deliveries
    linked,     \* deliveries whose barcode has an enabled target
    pool,       \* per slot of _ROUTE_POOL: whose route is queued or running
    otherScans, \* scans without a delivery id so far
    \* what became of the deliveries (history)
    admitted,   \* a route was admitted, or the scan was processed in line
    runs,       \* per delivery: how often its scan took effect (2: at least)
    reported,   \* the user was shown an error for it
    faults      \* faults so far

bridgeVars == <<nextScan, dropped, outbox, due, wakeup, sender, current, line>>
poolVars == <<pool, otherScans>>
historyVars == <<admitted, runs, reported>>
vars == <<bridgeVars, at, req, row, linked, poolVars, historyVars, faults>>

SenderStates == {"idle", "waiting", "confirmed", "sleeping"}

RequestStates ==
    {"free",        \* no request
     "sent",        \* on its way, or looking up the delivery next
     "reclaim",     \* saw an expired reservation, deletes it next
     "insert",      \* saw no reservation, inserts its own next
     "handle",      \* holds the reservation, runs fast_scan_barcode next
     "complete",    \* handled, _complete_delivery reads the row next
     "store",       \* saw the row, stores the result in it next
     "release",     \* raised, _release_delivery reads the row next
     "unreserve",   \* saw the uncompleted row, deletes it next
     "ok", "fail"}  \* the answer is on its way to the bridge

RowStates ==
    {"none",        \* no row
     "held",        \* reserved, younger than _DELIVERY_LEASE
     "lapsed",      \* reserved, older than _DELIVERY_LEASE
     "done",        \* completed
     "old"}         \* completed, older than _DELIVERY_RETENTION

\* The types, and that the program counters agree with the data they go
\* with: the sender holds a line exactly while it waits for an answer, works
\* on a delivery exactly while it is not idle, and a request has a delivery.
TypeOK ==
    /\ nextScan \in 1..(MaxScans + 1)
    /\ dropped \subseteq Deliveries
    /\ outbox \subseteq Deliveries
    /\ due \subseteq Deliveries
    /\ wakeup \in BOOLEAN
    /\ sender \in SenderStates
    /\ current \in Deliveries \cup {NoDelivery}
    /\ line \in Conns \cup {NoConn}
    /\ at \in [Conns -> RequestStates]
    /\ req \in [Conns -> Deliveries \cup {NoDelivery}]
    /\ row \in [Deliveries -> RowStates]
    /\ linked \subseteq Deliveries
    /\ pool \in [Slots -> Deliveries \cup {NoDelivery, OtherRoute}]
    /\ otherScans \in 0..MaxOtherScans
    /\ admitted \subseteq Deliveries
    /\ runs \in [Deliveries -> 0..2]
    /\ reported \subseteq Deliveries
    /\ faults \in 0..MaxFaults
    /\ sender = "waiting" <=> line # NoConn
    /\ sender = "idle" <=> current = NoDelivery
    /\ \A c \in Conns : at[c] = "free" <=> req[c] = NoDelivery

Init ==
    /\ nextScan = 1
    /\ dropped = {} /\ outbox = {} /\ due = {}
    /\ wakeup = FALSE
    /\ sender = "idle" /\ current = NoDelivery /\ line = NoConn
    /\ at = [c \in Conns |-> "free"]
    /\ req = [c \in Conns |-> NoDelivery]
    /\ row = [d \in Deliveries |-> "none"]
    /\ linked \in SUBSET Deliveries
    /\ pool = [s \in Slots |-> NoDelivery]
    /\ otherScans = 0
    /\ admitted = {} /\ reported = {}
    /\ runs = [d \in Deliveries |-> 0]
    /\ faults = 0

Fault(kind) ==
    /\ kind \in Faults
    /\ faults < MaxFaults
    /\ faults' = faults + 1

-----------------------------------------------------------------------------
(* The bridge: _enqueue_barcode on the device thread, scan_sender_loop.    *)

\* _enqueue_barcode: the row is committed before anything is sent.
ScanPersisted ==
    /\ nextScan \in Deliveries
    /\ Cardinality(outbox) < OutboxCap
    /\ outbox' = outbox \cup {nextScan}
    /\ due' = due \cup {nextScan}
    /\ wakeup' = TRUE
    /\ nextScan' = nextScan + 1
    /\ UNCHANGED <<dropped, sender, current, line, at, req, row, linked,
                   poolVars, historyVars, faults>>

\* _enqueue_barcode: the outbox is full, or cannot be written.
ScanDropped ==
    /\ nextScan \in Deliveries
    /\ \/ Cardinality(outbox) >= OutboxCap /\ UNCHANGED faults
       \/ Fault("outbox_error")
    /\ dropped' = dropped \cup {nextScan}
    /\ nextScan' = nextScan + 1
    /\ UNCHANGED <<outbox, due, wakeup, sender, current, line, at, req, row,
                   linked, poolVars, historyVars>>

\* _outbox_next: the oldest row whose next attempt has come.
Oldest(d) == d \in due /\ \A e \in due : d <= e

\* scan_sender_loop: the oldest due row is posted on a new connection.
Post(c) ==
    /\ sender = "idle"
    /\ at[c] = "free"
    /\ \E d \in due :
         /\ Oldest(d)
         /\ current' = d
         /\ req' = [req EXCEPT ![c] = d]
    /\ at' = [at EXCEPT ![c] = "sent"]
    /\ sender' = "waiting"
    /\ line' = c
    /\ UNCHANGED <<nextScan, dropped, outbox, due, wakeup, row, linked,
                   poolVars, historyVars, faults>>

\* scan_sender_loop: nothing is due; the wait is over and the event cleared.
PollEmpty ==
    /\ sender = "idle"
    /\ due = {}
    /\ wakeup
    /\ wakeup' = FALSE
    /\ UNCHANGED <<nextScan, dropped, outbox, due, sender, current, line, at,
                   req, row, linked, poolVars, historyVars, faults>>

\* scan_sender_loop: _outbox_next raised; the loop waits and clears the event.
OutboxUnreadable ==
    /\ sender = "idle"
    /\ Fault("outbox_error")
    /\ wakeup' = FALSE
    /\ UNCHANGED <<nextScan, dropped, outbox, due, sender, current, line, at,
                   req, row, linked, poolVars, historyVars>>

Hangup == line' = NoConn

\* A connection whose answer the sender does not wait for any more.
Freed(c) == at' = [at EXCEPT ![c] = "free"] /\ req' = [req EXCEPT ![c] = NoDelivery]

\* _post returned True for a 2xx answer.
Confirmed ==
    /\ sender = "waiting"
    /\ at[line] = "ok"
    /\ Freed(line)
    /\ Hangup
    /\ sender' = "confirmed"
    /\ UNCHANGED <<nextScan, dropped, outbox, due, wakeup, current, row,
                   linked, poolVars, historyVars, faults>>

\* _outbox_complete.
OutboxComplete ==
    /\ sender = "confirmed"
    /\ outbox' = outbox \ {current}
    /\ due' = due \ {current}
    /\ sender' = "idle"
    /\ current' = NoDelivery
    /\ UNCHANGED <<nextScan, dropped, wakeup, line, at, req, row, linked,
                   poolVars, historyVars, faults>>

\* _outbox_complete raised: the row stays and is due at once.
OutboxCompleteFails ==
    /\ sender = "confirmed"
    /\ Fault("outbox_error")
    /\ sender' = "idle"
    /\ current' = NoDelivery
    /\ UNCHANGED <<nextScan, dropped, outbox, due, wakeup, line, at, req, row,
                   linked, poolVars, historyVars>>

\* _post returned False: _outbox_fail sets the next attempt, and the loop
\* waits for as long. _outbox_fail may raise, and the row stays due.
PostFailed ==
    /\ sender' = "sleeping"
    /\ Hangup
    /\ UNCHANGED <<nextScan, dropped, outbox, wakeup, current, row, linked,
                   poolVars, historyVars>>

AnsweredFail ==
    /\ sender = "waiting"
    /\ at[line] = "fail"
    /\ Freed(line)
    /\ \/ due' = due \ {current} /\ UNCHANGED faults
       \/ UNCHANGED due /\ Fault("outbox_error")
    /\ PostFailed

\* HTTP_TIMEOUT: the bridge hangs up, B2M works on unheard.
TimedOut ==
    /\ sender = "waiting"
    /\ Fault("timeout")
    /\ IF at[line] \in {"ok", "fail"} THEN Freed(line) ELSE UNCHANGED <<at, req>>
    /\ due' = due \ {current}
    /\ PostFailed

\* _delivery_wakeup.wait(delay) returns: a new scan set the event ...
WokenByScan ==
    /\ sender = "sleeping"
    /\ wakeup
    /\ wakeup' = FALSE
    /\ sender' = "idle"
    /\ current' = NoDelivery
    /\ UNCHANGED <<nextScan, dropped, outbox, due, line, at, req, row, linked,
                   poolVars, historyVars, faults>>

\* ... or the delay is over, and the row that failed is due again.
DelayOver ==
    /\ sender = "sleeping"
    /\ sender' = "idle"
    /\ due' = due \cup {current}
    /\ wakeup' = FALSE
    /\ current' = NoDelivery
    /\ UNCHANGED <<nextScan, dropped, outbox, line, at, req, row, linked,
                   poolVars, historyVars, faults>>

\* next_attempt of a row comes while the sender does something else.
BackoffOver(d) ==
    /\ d \in outbox \ due
    /\ due' = due \cup {d}
    /\ UNCHANGED <<nextScan, dropped, outbox, wakeup, sender, current, line,
                   at, req, row, linked, poolVars, historyVars, faults>>

\* main: the outbox is all that survives; the wake-up is set if it has rows.
BridgeRestart ==
    /\ Fault("bridge_restart")
    /\ sender' = "idle" /\ current' = NoDelivery /\ Hangup
    /\ IF line # NoConn /\ at[line] \in {"ok", "fail"}
       THEN Freed(line)
       ELSE UNCHANGED <<at, req>>
    /\ wakeup' = (outbox # {})
    /\ UNCHANGED <<nextScan, dropped, outbox, due, row, linked, poolVars,
                   historyVars>>

-----------------------------------------------------------------------------
(* B2M: one request of POST /scan. Every step ends where the code commits  *)
(* or reads again, so that other requests come in between.                 *)

Goes(c, state) == at' = [at EXCEPT ![c] = state] /\ UNCHANGED req

\* The answer reaches the bridge only while the bridge holds the line.
Answer(c, result) == IF line = c THEN Goes(c, result) ELSE Freed(c)

Bump(n) == IF n < 2 THEN n + 1 ELSE n

\* Mutant: every existing row is taken for a completed one.
LookUpReplaysReservations(c) ==
    /\ at[c] = "sent"
    /\ IF row[req[c]] = "none" THEN Goes(c, "insert") ELSE Answer(c, "ok")
    /\ UNCHANGED <<bridgeVars, row, linked, poolVars, historyVars, faults>>

\* Mutant: the age of the row is looked at before its result.
LookUpIgnoresResult(c) ==
    /\ at[c] = "sent"
    /\ \/ row[req[c]] = "held" /\ Answer(c, "fail")
       \/ row[req[c]] \in {"lapsed", "done", "old"} /\ Goes(c, "reclaim")
       \/ row[req[c]] = "none" /\ Goes(c, "insert")
    /\ UNCHANGED <<bridgeVars, row, linked, poolVars, historyVars, faults>>

\* Mutant: a reservation has no lease.
LookUpWithoutLease(c) ==
    /\ at[c] = "sent"
    /\ \/ row[req[c]] \in {"done", "old"} /\ Answer(c, "ok")
       \/ row[req[c]] \in {"held", "lapsed"} /\ Answer(c, "fail")
       \/ row[req[c]] = "none" /\ Goes(c, "insert")
    /\ UNCHANGED <<bridgeVars, row, linked, poolVars, historyVars, faults>>

\* _reserve_delivery: db.get, then replay, 409, or go on.
LookUp(c) ==
    /\ at[c] = "sent"
    /\ LET d == req[c]
       IN \/ row[d] \in {"done", "old"} /\ Answer(c, "ok")
          \/ row[d] = "held" /\ Answer(c, "fail")
          \/ row[d] = "lapsed" /\ Goes(c, "reclaim")
          \/ row[d] = "none" /\ Goes(c, "insert")
    /\ UNCHANGED <<bridgeVars, row, linked, poolVars, historyVars, faults>>

\* _reserve_delivery: the DELETE is by delivery_id, whoever's row it is now.
Reclaim(c) ==
    /\ at[c] = "reclaim"
    /\ row' = [row EXCEPT ![req[c]] = "none"]
    /\ Goes(c, "insert")
    /\ UNCHANGED <<bridgeVars, linked, poolVars, historyVars, faults>>

\* Mutant: INSERT OR REPLACE instead of relying on the primary key.
InsertReplaces(c) ==
    /\ at[c] = "insert"
    /\ row' = [row EXCEPT ![req[c]] = "held"]
    /\ Goes(c, "handle")
    /\ UNCHANGED <<bridgeVars, linked, poolVars, historyVars, faults>>

\* _reserve_delivery: completed rows older than _DELIVERY_RETENTION go.
Purged == [d \in Deliveries |-> IF row[d] = "old" THEN "none" ELSE row[d]]

\* _reserve_delivery: the purge of old rows and the INSERT are one commit;
\* the primary key refuses a second row and rolls both back.
Insert(c) ==
    /\ at[c] = "insert"
    /\ \/ /\ Purged[req[c]] = "none"
          /\ row' = [Purged EXCEPT ![req[c]] = "held"]
          /\ Goes(c, "handle")
       \/ /\ Purged[req[c]] # "none"
          /\ UNCHANGED row
          /\ Answer(c, "fail")
    /\ UNCHANGED <<bridgeVars, linked, poolVars, historyVars, faults>>

\* fast_scan_barcode, the barcode has targets: the route is admitted before
\* the acknowledgement ...
SubmitRoute(c) ==
    /\ at[c] = "handle"
    /\ req[c] \in linked
    /\ \E s \in Slots :
         /\ pool[s] = NoDelivery
         /\ pool' = [pool EXCEPT ![s] = req[c]]
    /\ admitted' = admitted \cup {req[c]}
    /\ Goes(c, "complete")
    /\ UNCHANGED <<bridgeVars, row, linked, otherScans, runs, reported, faults>>

\* Mutant: a saturated pool is logged and acknowledged.
SaturatedAcknowledges(c) ==
    /\ at[c] = "handle"
    /\ req[c] \in linked
    /\ \A s \in Slots : pool[s] # NoDelivery
    /\ Goes(c, "complete")
    /\ UNCHANGED <<bridgeVars, row, linked, poolVars, historyVars, faults>>

\* ... or ExecutorSaturated becomes a 503.
Saturated(c) ==
    /\ at[c] = "handle"
    /\ req[c] \in linked
    /\ \A s \in Slots : pool[s] # NoDelivery
    /\ Goes(c, "release")
    /\ UNCHANGED <<bridgeVars, row, linked, poolVars, historyVars, faults>>

TakesEffect(d) == runs' = [runs EXCEPT ![d] = Bump(@)] /\ UNCHANGED reported

ShownAsError(d) == reported' = reported \cup {d} /\ UNCHANGED runs

\* fast_scan_barcode, no targets: _process_scan runs in the request; its
\* failure is shown and answered 200 as well.
ProcessInline(c) ==
    /\ at[c] = "handle"
    /\ req[c] \notin linked
    /\ TakesEffect(req[c]) \/ ShownAsError(req[c])
    /\ admitted' = admitted \cup {req[c]}
    /\ Goes(c, "complete")
    /\ UNCHANGED <<bridgeVars, row, linked, poolVars, faults>>

\* Storing that failure raises as well: it is swallowed and answered 200.
InlineUnshown(c) ==
    /\ Fault("report_error")
    /\ at[c] = "handle"
    /\ req[c] \notin linked
    /\ admitted' = admitted \cup {req[c]}
    /\ Goes(c, "complete")
    /\ UNCHANGED <<bridgeVars, row, linked, poolVars, runs, reported>>

\* _complete_delivery: db.get; without a row there is nothing to complete
\* and the answer is 200 all the same.
CompleteReads(c) ==
    /\ at[c] = "complete"
    /\ IF row[req[c]] = "none" THEN Answer(c, "ok") ELSE Goes(c, "store")
    /\ UNCHANGED <<bridgeVars, row, linked, poolVars, historyVars, faults>>

\* _complete_delivery: the UPDATE; StaleDataError when the row went away.
CompleteStores(c) ==
    /\ at[c] = "store"
    /\ \/ /\ row[req[c]] # "none"
          /\ row' = [row EXCEPT ![req[c]] = "done"]
          /\ Answer(c, "ok")
       \/ /\ row[req[c]] = "none"
          /\ UNCHANGED row
          /\ Goes(c, "release")
    /\ UNCHANGED <<bridgeVars, linked, poolVars, historyVars, faults>>

\* _release_delivery: db.get; an uncompleted row is deleted next.
ReleaseReads(c) ==
    /\ at[c] = "release"
    /\ IF row[req[c]] \in {"held", "lapsed"}
       THEN Goes(c, "unreserve")
       ELSE Answer(c, "fail")
    /\ UNCHANGED <<bridgeVars, row, linked, poolVars, historyVars, faults>>

\* _release_delivery: the DELETE by delivery_id, then the exception goes on.
ReleaseDeletes(c) ==
    /\ at[c] = "unreserve"
    /\ row' = [row EXCEPT ![req[c]] = "none"]
    /\ Answer(c, "fail")
    /\ UNCHANGED <<bridgeVars, linked, poolVars, historyVars, faults>>

\* A statement or commit raises: inside scan()'s try the delivery is
\* released, outside of it (reserving, releasing) the answer is a 500.
DbError(c) ==
    /\ Fault("db_error")
    /\ \/ at[c] \in {"handle", "complete", "store"} /\ Goes(c, "release")
       \/ at[c] \in {"sent", "reclaim", "insert", "release", "unreserve"}
          /\ Answer(c, "fail")
    /\ UNCHANGED <<bridgeVars, row, linked, poolVars, historyVars>>

\* The request never reaches B2M, or its answer never reaches the bridge.
Lost(c) ==
    /\ Fault("loss")
    /\ at[c] \in {"sent", "ok"}
    /\ Answer(c, "fail")
    /\ UNCHANGED <<bridgeVars, row, linked, poolVars, historyVars>>

-----------------------------------------------------------------------------
(* B2M: the route pool, other scans, the clock, the process.               *)

\* Mutant: without targets the route returns quietly.
RouteRunsQuietly(s) ==
    /\ pool[s] \in Deliveries
    /\ \/ pool[s] \in linked /\ TakesEffect(pool[s])
       \/ pool[s] \notin linked /\ UNCHANGED <<runs, reported>>
    /\ pool' = [pool EXCEPT ![s] = NoDelivery]
    /\ UNCHANGED <<bridgeVars, at, req, row, linked, otherScans, admitted, faults>>

\* _route_known_targets: the targets are read again by id; without any, or
\* when routing raises, the user is shown the failure.
RouteRuns(s) ==
    /\ pool[s] \in Deliveries
    /\ \/ pool[s] \in linked /\ TakesEffect(pool[s])
       \/ ShownAsError(pool[s])
    /\ pool' = [pool EXCEPT ![s] = NoDelivery]
    /\ UNCHANGED <<bridgeVars, at, req, row, linked, otherScans, admitted, faults>>

\* _route_known_targets: storing the failure raises as well and is swallowed.
\* Only an event to the pages that are open speaks of it.
RouteUnshown(s) ==
    /\ Fault("report_error")
    /\ pool[s] \in Deliveries
    /\ pool' = [pool EXCEPT ![s] = NoDelivery]
    /\ UNCHANGED <<bridgeVars, at, req, row, linked, otherScans, historyVars>>

\* POST /scan without a delivery id reserves nothing and uses the same pool.
OtherScan(s) ==
    /\ otherScans < MaxOtherScans
    /\ pool[s] = NoDelivery
    /\ pool' = [pool EXCEPT ![s] = OtherRoute]
    /\ otherScans' = otherScans + 1
    /\ UNCHANGED <<bridgeVars, at, req, row, linked, historyVars, faults>>

OtherRouteRuns(s) ==
    /\ pool[s] = OtherRoute
    /\ pool' = [pool EXCEPT ![s] = NoDelivery]
    /\ UNCHANGED <<bridgeVars, at, req, row, linked, otherScans, historyVars, faults>>

\* The user maps the barcode, or deletes its last target.
EditTargets(d) ==
    /\ linked' = IF d \in linked THEN linked \ {d} ELSE linked \cup {d}
    /\ UNCHANGED <<bridgeVars, at, req, row, poolVars, historyVars, faults>>

\* A request that has reserved the delivery and not answered yet.
Handles(c, d) ==
    req[c] = d /\ at[c] \in {"handle", "complete", "store", "release", "unreserve"}

\* _DELIVERY_LEASE passes. Only a slow handler is still there to see it.
LeaseLapses(d) ==
    /\ row[d] = "held"
    /\ "slow_handler" \in Faults \/ \A c \in Conns : ~Handles(c, d)
    /\ row' = [row EXCEPT ![d] = "lapsed"]
    /\ UNCHANGED <<bridgeVars, at, req, linked, poolVars, historyVars, faults>>

\* _DELIVERY_RETENTION passes. Only after a long outage of the bridge is
\* the delivery still outstanding.
RetentionEnds(d) ==
    /\ row[d] = "done"
    /\ \/ "long_outage" \in Faults
       \/ d \notin outbox /\ \A c \in Conns : req[c] # d
    /\ row' = [row EXCEPT ![d] = "old"]
    /\ UNCHANGED <<bridgeVars, at, req, linked, poolVars, historyVars, faults>>

\* The B2M process dies and comes back: requests and the pool are gone, the
\* database is not. An answer already sent still arrives.
ServerRestart ==
    /\ Fault("server_restart")
    /\ at' = [c \in Conns |-> IF at[c] \in {"free", "ok", "fail"} THEN at[c]
                              ELSE IF c = line THEN "fail" ELSE "free"]
    /\ req' = [c \in Conns |-> IF at'[c] = "free" THEN NoDelivery ELSE req[c]]
    /\ pool' = [s \in Slots |-> NoDelivery]
    /\ UNCHANGED <<bridgeVars, row, linked, otherScans, historyVars>>

-----------------------------------------------------------------------------
Sender ==
    \/ \E c \in Conns : Post(c)
    \/ PollEmpty \/ Confirmed \/ OutboxComplete \/ AnsweredFail
    \/ WokenByScan \/ DelayOver

Request(c) ==
    \/ LookUp(c) \/ Reclaim(c) \/ Insert(c)
    \/ SubmitRoute(c) \/ Saturated(c) \/ ProcessInline(c)
    \/ CompleteReads(c) \/ CompleteStores(c)
    \/ ReleaseReads(c) \/ ReleaseDeletes(c)

Pool(s) == RouteRuns(s) \/ OtherRouteRuns(s)

Clock(d) == BackoffOver(d) \/ LeaseLapses(d) \/ RetentionEnds(d)

Environment ==
    \/ ScanPersisted \/ ScanDropped
    \/ \E s \in Slots : OtherScan(s)
    \/ \E d \in Deliveries : EditTargets(d)

Faulty ==
    \/ OutboxUnreadable \/ OutboxCompleteFails \/ TimedOut \/ BridgeRestart \/ ServerRestart
    \/ \E c \in Conns : DbError(c) \/ Lost(c) \/ InlineUnshown(c)
    \/ \E s \in Slots : RouteUnshown(s)

Next ==
    \/ Sender
    \/ \E c \in Conns : Request(c)
    \/ \E s \in Slots : Pool(s)
    \/ \E d \in Deliveries : Clock(d)
    \/ Environment
    \/ Faulty

Spec == Init /\ [][Next]_vars

\* The sender thread, every request thread and every pool thread is
\* scheduled, and time passes; nobody has to scan, and nothing has to fail.
Fairness ==
    /\ WF_vars(Sender)
    /\ \A c \in Conns : WF_vars(Request(c))
    /\ \A s \in Slots : WF_vars(Pool(s))
    /\ \A d \in Deliveries : WF_vars(BackoffOver(d)) /\ WF_vars(LeaseLapses(d))

FairSpec == Spec /\ Fairness

-----------------------------------------------------------------------------
(* What the delivery of scans has to achieve.                              *)

\* _outbox_enqueue returned an id for the scan.
Persisted(d) == d < nextScan /\ d \notin dropped

Routing(d) == \E s \in Slots : pool[s] = d

\* The scan took effect, or the user was told that it did not.
Served(d) == runs[d] > 0 \/ d \in reported

\* The bridge deletes a persisted scan from its outbox (OutboxComplete) only
\* after some B2M request admitted its route or processed it in line,
\* whatever is lost, late, repeated or restarted in between.
NeverForgotten ==
    \A d \in Deliveries : Persisted(d) /\ d \notin outbox => d \in admitted

\* As long as B2M itself is not restarted and failures can be stored, a
\* persisted scan is always still
\* in the outbox, or in the route pool, or it took effect or was shown as an
\* error: no combination of retries, timeouts, leases and saturated pools
\* makes it disappear.
NoSilentLoss ==
    \A d \in Deliveries :
        Persisted(d) => d \in outbox \/ Routing(d) \/ Served(d)

\* The delivery id makes a retry harmless: a scan takes effect or has a route
\* in the pool at most once, however often the bridge sends it.
AtMostOnce ==
    \A d \in Deliveries :
        /\ runs[d] <= 1
        /\ Routing(d) => ~Served(d)
        /\ \A s, t \in Slots : pool[s] = d /\ pool[t] = d => s = t

\* The reservation in scan_deliveries is exclusive: two requests for one
\* delivery are never both past _reserve_delivery.
OneHandler ==
    \A d \in Deliveries : \A b, c \in Conns : Handles(b, d) /\ Handles(c, d) => b = c

\* Every persisted scan is admitted by B2M and leaves the outbox, even when a
\* request that reserved it disappeared: its lease runs out.
EventuallyDelivered ==
    \A d \in Deliveries : Persisted(d) ~> d \in admitted /\ d \notin outbox

\* Every persisted scan eventually takes effect or is shown as an error, and
\* the pool does not keep its route.
EventuallyServed ==
    \A d \in Deliveries : Persisted(d) ~> Served(d) /\ ~Routing(d)

\* The abstract delivery service this module implements while neither B2M nor
\* its database fails and no lease or retention runs out early.
Taken == {d \in Deliveries : Persisted(d)}

Outcome == [d \in Deliveries |-> IF runs[d] > 0 THEN "effect"
                                 ELSE IF d \in reported THEN "error" ELSE "none"]

Settled == {d \in Deliveries : Persisted(d) /\ d \notin outbox /\ ~Routing(d)}

Promise == INSTANCE ScanPromise
           WITH Scans <- Deliveries, taken <- Taken, outcome <- Outcome, settled <- Settled

\* Each scan is served exactly once, by an effect or by an error shown to the
\* user, and only then do outbox and pool let go of it.
KeepsPromise == Promise!Spec
=============================================================================
