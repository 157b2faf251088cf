------------------------------ MODULE ScanFeed ------------------------------
(***************************************************************************)
(* What a household sees of its scans of one barcode: the unread           *)
(* notification (rows of the activities table with is_scan_event false),   *)
(* the scan history (rows with is_scan_event true) and the live events of  *)
(* an open browser page. Each physical scan reaches B2M twice, as a        *)
(* receipt and as the scan itself (app/routers/scan_fast_v11.py), and its  *)
(* processing goes on in the request or in a pool thread                   *)
(* (app/routers/scan.py), while the user reads and dismisses notifications *)
(* (app/routers/notifications.py), links the barcode                       *)
(* (app/routers/barcodes.py) and Home Assistant is told to clear its own   *)
(* (app/services/homeassistant.py).                                        *)
(*                                                                         *)
(* A SELECT and the write that relies on it are separate steps: pysqlite   *)
(* begins a transaction at the first write only.                           *)
(***************************************************************************)
EXTENDS Integers, Sequences, SequencesExt

CONSTANTS
    Scans,       \* physical scans of the barcode
    QueueCap,    \* EventBus.max_queue_size
    Clicks,      \* the kinds of click the user makes in this instance
    MaxClicks,   \* bound: clicks in one behaviour
    MaxTroubles  \* bound: refusals, database errors and restarts

ClickKinds == {"read", "dismiss", "read_all", "dismiss_read", "link", "unlink"}

ASSUME FeedAssumption ==
    /\ QueueCap \in Nat \ {0}
    /\ MaxClicks \in Nat /\ MaxTroubles \in Nat
    /\ Clicks \subseteq ClickKinds

NoRow == 0

VARIABLES
    linked,    \* it has a target
    rows,      \* its notifications in the order of created_at
    recorded,  \* per scan: its rows in the scan history
    receipt,   \* per scan: where POST /scanner/received is
    at,        \* per scan: where POST /scan, or the job it left, is
    saw,       \* per request and scan: the row its SELECT found
    outcome,   \* per scan: the result it is about to report
    clear,     \* where the background task ha_dismiss is
    page,      \* an EventSource is connected throughout
    feed,      \* the events in its asyncio.Queue
    newest,    \* the event published last since it connected (history)
    late,      \* a receipt was stored when its scan had looked last (history)
    twin,      \* a row was added beside an unread one (history)
    touched,   \* scans since whose arrival somebody cleared rows (history)
    settled,   \* linked by hand while no scan was under way (history)
    troubled,  \* scans that met an error or a restart (history)
    clicks, troubles

stores == <<linked, rows, recorded>>
requests == <<receipt, at, saw, outcome, clear>>
browser == <<page, feed, newest>>
history == <<late, twin, touched, settled, troubled>>
bounds == <<clicks, troubles>>
vars == <<stores, requests, browser, history, bounds>>

\* What the result of a scan means for its row: "unlinked" stands for the
\* results that linking resolves, "failed" for the others that need action.
Results == {"processing", "done", "failed", "unlinked", "resolved"}

Row == [id : Nat \ {NoRow}, res : Results, unread : BOOLEAN, shown : BOOLEAN]

Event == [name : {"received", "scan-received", "scan"}, of : Scans]

NoEvent == [name |-> "none"]

Stages ==
    {"idle",      \* the bridge has not got through with /scan yet
     "opening",   \* _upsert_notification has looked for an unread row
     "route",     \* _route_known_targets is queued or calls Mealie
     "inline",    \* _process_scan runs in the request
     "insert",    \* recorded; _save_notification inserts a row next
     "close",     \* the last _upsert_notification looks for a row next
     "store",     \* and writes it next
     "excuse",    \* an exception: the error row is written next
     "ended", "lost"}

TypeOK ==
    /\ linked \in BOOLEAN
    /\ rows \in Seq(Row)
    /\ recorded \in [Scans -> Nat]
    /\ receipt \in [Scans -> {"sent", "found", "gone"}]
    /\ at \in [Scans -> Stages]
    /\ saw \in [{"receipt", "scan"} -> [Scans -> Nat]]
    /\ outcome \in [Scans -> [res : Results, job : BOOLEAN]]
    /\ clear \in {"idle", "due", "posted"}
    /\ page \in BOOLEAN
    /\ feed \in Seq(Event) /\ Len(feed) <= QueueCap
    /\ newest \in Event \cup {NoEvent}
    /\ late \in BOOLEAN /\ twin \in BOOLEAN /\ settled \in BOOLEAN
    /\ touched \subseteq Scans /\ troubled \subseteq Scans
    /\ clicks \in 0..MaxClicks /\ troubles \in 0..MaxTroubles

NoOutcome == [res |-> "processing", job |-> FALSE]

Init ==
    /\ linked \in BOOLEAN
    /\ rows = <<>>
    /\ recorded = [s \in Scans |-> 0]
    /\ receipt \in [Scans -> {"sent", "gone"}]   \* it is never sent again
    /\ at = [s \in Scans |-> "idle"]
    /\ saw = [r \in {"receipt", "scan"} |-> [s \in Scans |-> NoRow]]
    /\ outcome = [s \in Scans |-> NoOutcome]
    /\ clear = "idle"
    /\ page \in BOOLEAN /\ feed = <<>> /\ newest = NoEvent
    /\ late = FALSE /\ twin = FALSE /\ settled = FALSE
    /\ touched = {} /\ troubled = {}
    /\ clicks \in 0..MaxClicks         \* what is left of the bounds
    /\ troubles \in 0..MaxTroubles

-----------------------------------------------------------------------------
(* The live events: EventBus.                                              *)

\* Mutant: a full queue refuses the event instead.
PutIfRoom(q, e) == IF Len(q) = QueueCap THEN q ELSE Append(q, e)

\* _put_latest: a full queue loses its oldest event.
PutLatest(q, e) == Append(IF Len(q) = QueueCap THEN Tail(q) ELSE q, e)

Publish(name, s) ==
    LET e == [name |-> name, of |-> s] IN
    /\ feed' = IF page THEN PutLatest(feed, e) ELSE feed
    /\ newest' = IF page THEN e ELSE newest
    /\ UNCHANGED page

\* sse_stream sends it on.
Deliver ==
    /\ feed # <<>>
    /\ feed' = Tail(feed)
    /\ UNCHANGED <<stores, requests, page, newest, history, bounds>>

-----------------------------------------------------------------------------
(* The notification of the barcode.                                        *)

Unread(r) == r.unread /\ r.shown

\* Mutant: the filter on is_read is missing.
NewestShown ==
    LET found == {i \in DOMAIN rows : rows[i].shown} IN
    IF found = {} THEN NoRow ELSE rows[Max(found)].id

\* The newest unread row: what _upsert_notification selects.
NewestUnread ==
    LET found == {i \in DOMAIN rows : Unread(rows[i])} IN
    IF found = {} THEN NoRow ELSE rows[Max(found)].id

NextId == 1 + Max({0} \cup {r.id : r \in ToSet(rows)})

NewRow(res) == [id |-> NextId, res |-> res, unread |-> TRUE, shown |-> TRUE]

\* Mutant: the row found is given the time only.
UpsertTime(found, res) ==
    IF found = NoRow
    THEN /\ rows' = Append(rows, NewRow(res))
         /\ twin' = (twin \/ NewestUnread # NoRow)
    ELSE \E i \in DOMAIN rows :
             /\ rows[i].id = found
             /\ rows' = Append(RemoveAt(rows, i), rows[i])
             /\ UNCHANGED twin

\* The second half of _upsert_notification: the row found is given the
\* result and the time, whatever became of its marks; else a row is added. (The
\* ORM leaves out a result that equals the one it read, which is stored then.)
Upsert(found, res) ==
    IF found = NoRow
    THEN /\ rows' = Append(rows, NewRow(res))
         /\ twin' = (twin \/ NewestUnread # NoRow)
    ELSE \E i \in DOMAIN rows :
             /\ rows[i].id = found
             /\ rows' = Append(RemoveAt(rows, i), [rows[i] EXCEPT !.res = res])
             /\ UNCHANGED twin

Finds(s, row) == saw' = [saw EXCEPT !["scan"][s] = row]

Forgets(request, s) == saw' = [saw EXCEPT ![request][s] = NoRow]

-----------------------------------------------------------------------------
(* POST /scanner/received, sent once by a thread of its own.               *)

ReceiptArrives(s) ==
    /\ receipt[s] = "sent"
    /\ receipt' = [receipt EXCEPT ![s] = "found"]
    /\ saw' = [saw EXCEPT !["receipt"][s] = NewestUnread]
    /\ UNCHANGED <<stores, at, outcome, clear, browser, history, bounds>>

ReceiptStored(s) ==
    /\ receipt[s] = "found"
    /\ receipt' = [receipt EXCEPT ![s] = "gone"]
    /\ Upsert(saw["receipt"][s], "processing")
    /\ late' = (late \/ at[s] \in {"store", "excuse", "ended", "lost"})
    /\ Publish("received", s)
    /\ Forgets("receipt", s)
    /\ UNCHANGED <<linked, recorded, at, outcome, clear,
                   touched, settled, troubled, bounds>>

-----------------------------------------------------------------------------
(* POST /scan.                                                             *)

Step(s, from, to) ==
    /\ at[s] = from
    /\ at' = [at EXCEPT ![s] = to]

\* _local_label, and the SELECT of the first _upsert_notification.
Arrives(s) ==
    /\ Step(s, "idle", "opening")
    /\ Finds(s, NewestUnread)
    /\ outcome' = [outcome EXCEPT ![s] = [NoOutcome EXCEPT !.job = linked]]
    /\ UNCHANGED <<stores, receipt, clear, browser, history, bounds>>

\* The processing row is committed and scan-received published before a
\* route is admitted or the barcode is looked up.
Opens(s) ==
    /\ Step(s, "opening", IF outcome[s].job THEN "route" ELSE "inline")
    /\ Upsert(saw["scan"][s], "processing")
    /\ Publish("scan-received", s)
    /\ Forgets("scan", s)
    /\ UNCHANGED <<linked, recorded, receipt, outcome, clear, late, touched,
                   settled, troubled, bounds>>

\* _ROUTE_POOL is full: the answer is 503 and the bridge sends it again.
Refused(s) ==
    /\ troubles < MaxTroubles
    /\ outcome[s].job
    /\ Step(s, "opening", "idle")
    /\ Upsert(saw["scan"][s], "processing")
    /\ Publish("scan-received", s)
    /\ Forgets("scan", s)
    /\ troubles' = troubles + 1
    /\ troubled' = troubled \cup {s}
    /\ UNCHANGED <<linked, recorded, receipt, outcome, clear, late, touched,
                   settled, clicks>>

\* What a processing may report: its result, whether _save_notification is
\* called for it, and whether it linked the barcode.
Report(res, tell, links) == [res |-> res, tell |-> tell, links |-> links]

\* Routed targets need attention only if one of them failed.
RoutedReports == {Report("done", FALSE, FALSE), Report("failed", TRUE, FALSE)}

\* An unknown, disabled or failed action needs attention; one that was
\* triggered, queued, ignored or skipped by the pause does not.
ActionReports == {Report("done", FALSE, FALSE), Report("failed", TRUE, FALSE)}

\* A generic term that matches a Food is linked and routed; else it becomes
\* a note or a retry, which nobody is told about; an empty one is unknown.
GenericReports ==
    {Report("done", FALSE, TRUE), Report("failed", TRUE, TRUE),
     Report("done", FALSE, FALSE), Report("unlinked", TRUE, FALSE)}

\* A product is unknown or not linked, is linked automatically (review it),
\* or becomes a note, or a retry that is not announced.
ProductReports ==
    {Report("unlinked", TRUE, FALSE),
     Report("done", TRUE, TRUE), Report("failed", TRUE, TRUE),
     Report("done", TRUE, FALSE), Report("done", FALSE, FALSE)}

\* Whatever kind of code it is; one that got a target meanwhile is routed.
InlineReports ==
    ActionReports \cup GenericReports \cup ProductReports
    \cup (IF linked THEN RoutedReports ELSE {})

\* _save_activity: the scan's one row of the history.
Recorded(s, r) ==
    /\ recorded' = [recorded EXCEPT ![s] = @ + 1]
    /\ outcome' = [outcome EXCEPT ![s] =
                       [res |-> r.res, job |-> @.job]]

\* The scan is recorded; then _save_notification looks for an unread row,
\* if the result calls for it, and the result is published unless a row is
\* to be inserted first.
Reports(s, from, r) ==
    LET inserts == r.tell /\ NewestUnread = NoRow IN
    /\ Step(s, from, IF inserts THEN "insert" ELSE "close")
    /\ Recorded(s, r)
    /\ linked' = (linked \/ r.links)
    /\ IF inserts THEN UNCHANGED browser ELSE Publish("scan", s)
    /\ UNCHANGED <<rows, receipt, saw, clear, history, bounds>>

\* The pool thread reads the targets again and routes them. When none is
\* left it raises.
Routes(s) == linked /\ \E r \in RoutedReports : Reports(s, "route", r)

NothingToRoute(s) ==
    /\ ~linked
    /\ Step(s, "route", "excuse")
    /\ Finds(s, NewestUnread)
    /\ UNCHANGED <<stores, receipt, outcome, clear, browser, history, bounds>>

\* _process_scan looks for targets again, then goes by the kind of code.
ProcessesInline(s) == \E r \in InlineReports : Reports(s, "inline", r)

AnnouncementRes(o) == IF o.res = "done" THEN "unlinked" ELSE o.res

Inserts(s) ==
    /\ Step(s, "insert", "close")
    /\ Upsert(NoRow, AnnouncementRes(outcome[s]))
    /\ Publish("scan", s)
    /\ UNCHANGED <<linked, recorded, receipt, saw, outcome, clear, late,
                   touched, settled, troubled, bounds>>

\* The last _upsert_notification.
Closes(s) ==
    /\ Step(s, "close", "store")
    /\ Finds(s, NewestUnread)
    /\ UNCHANGED <<stores, receipt, outcome, clear, browser, history, bounds>>

Stores(s) ==
    /\ Step(s, "store", "ended")
    /\ Upsert(saw["scan"][s], outcome[s].res)
    /\ Forgets("scan", s)
    /\ outcome' = [outcome EXCEPT ![s].job = FALSE]
    /\ UNCHANGED <<linked, recorded, receipt, clear, browser, late, touched,
                   settled, troubled, bounds>>

\* A database error or any other exception of the processing. The session is
\* rolled back, and the row for the error looked for.
Raises(s) ==
    /\ troubles < MaxTroubles
    /\ \E from \in {"route", "inline", "insert", "close", "store"} :
           Step(s, from, "excuse")
    /\ Finds(s, NewestUnread)
    /\ troubles' = troubles + 1
    /\ troubled' = troubled \cup {s}
    /\ UNCHANGED <<stores, receipt, outcome, clear, browser, late, twin,
                   touched, settled, clicks>>

\* The except branch: an error row and an error in the history. Only the
\* pool thread publishes the result then; _scan_failure does not.
Excuses(s) ==
    /\ Step(s, "excuse", "ended")
    /\ Upsert(saw["scan"][s], "failed")
    /\ Forgets("scan", s)
    /\ Recorded(s, Report("failed", TRUE, FALSE))
    /\ IF outcome[s].job THEN Publish("scan", s) ELSE UNCHANGED browser
    /\ UNCHANGED <<linked, receipt, clear, late, touched, settled, troubled, bounds>>

\* B2M restarts. The requests are sent again, the jobs of the pool are gone.
Restart ==
    /\ troubles < MaxTroubles
    /\ troubles' = troubles + 1
    /\ at' = [s \in Scans |->
                  CASE at[s] \in {"idle", "ended", "lost"} -> at[s]
                    [] at[s] = "opening" -> "idle"
                    [] OTHER -> IF outcome[s].job THEN "lost" ELSE "idle"]
    /\ troubled' = troubled \cup {s \in Scans : at[s] \notin {"idle", "ended"}}
    /\ receipt' = [s \in Scans |->
                       IF receipt[s] = "found" THEN "gone" ELSE receipt[s]]
    /\ saw' = [r \in DOMAIN saw |-> [s \in Scans |-> NoRow]]
    /\ clear' = "idle"
    /\ page' = FALSE /\ feed' = <<>> /\ newest' = NoEvent
    /\ UNCHANGED <<stores, outcome, late, twin, touched, settled, clicks>>

-----------------------------------------------------------------------------
(* The user, Home Assistant and the nightly purge.                         *)

Click(c) ==
    /\ c \in Clicks
    /\ clicks < MaxClicks
    /\ clicks' = clicks + 1

\* Rows were cleared while, or after, these scans were worked on.
Touches == touched' = touched \cup {s \in Scans : at[s] # "idle"}

Marked(Cond(_), Mark(_)) ==
    rows' = [i \in DOMAIN rows |->
                 IF Cond(rows[i]) THEN Mark(rows[i]) ELSE rows[i]]

Seen(r) == [r EXCEPT !.unread = FALSE]

Dismissed(r) == [r EXCEPT !.unread = FALSE, !.shown = FALSE]

UserOnly == UNCHANGED <<recorded, receipt, at, saw, outcome, browser,
                        late, twin, troubled, troubles>>

MarkRead ==
    /\ Click("read")
    /\ \E k \in DOMAIN rows : Marked(LAMBDA r : r.id = rows[k].id, Seen)
    /\ Touches /\ UserOnly /\ UNCHANGED <<linked, clear, settled>>

Dismiss ==
    /\ Click("dismiss")
    /\ \E k \in DOMAIN rows : Marked(LAMBDA r : r.id = rows[k].id, Dismissed)
    /\ Touches /\ UserOnly /\ UNCHANGED <<linked, clear, settled>>

\* read-all, read-barcode, mark-all-read, and opening the barcode's page.
MarkAllRead ==
    /\ Click("read_all")
    /\ Marked(LAMBDA r : r.unread, Seen)
    /\ Touches /\ UserOnly /\ UNCHANGED <<linked, clear, settled>>

DismissRead ==
    /\ Click("dismiss_read")
    /\ Marked(LAMBDA r : ~r.unread, Dismissed)
    /\ Touches /\ UserOnly /\ UNCHANGED <<linked, clear, settled>>

\* _resolve_notifications_async after the barcode was linked by hand: all
\* its rows become read, those that asked for a link are resolved.
Links ==
    /\ Click("link")
    /\ linked' = TRUE
    /\ rows' = [i \in DOMAIN rows |->
                    IF rows[i].res = "unlinked"
                    THEN [Dismissed(rows[i]) EXCEPT !.res = "resolved"]
                    ELSE Seen(rows[i])]
    /\ clear' = IF clear = "idle" THEN "due" ELSE clear
    /\ settled' = \A s \in Scans : at[s] \in {"idle", "ended", "lost"}
    /\ Touches /\ UserOnly

Unlinks ==
    /\ Click("unlink")
    /\ linked' = FALSE /\ settled' = FALSE
    /\ UserOnly /\ UNCHANGED <<rows, clear, touched>>

\* dismiss_notification reads the newest shown row, and posts the clearing
\* if Home Assistant was told of that result.
ClearLooks ==
    /\ clear = "due"
    /\ clear' \in IF \E r \in ToSet(rows) : r.shown THEN {"idle", "posted"}
                                                    ELSE {"idle"}
    /\ UserOnly /\ UNCHANGED <<linked, rows, touched, settled, clicks>>

\* _mark_actionable_dismissed clears every row there is by then, those of
\* scans that came after the look included.
ClearMarks ==
    /\ clear = "posted"
    /\ clear' = "idle"
    /\ \/ /\ Marked(LAMBDA r : r.shown, Dismissed)
          /\ Touches
       \/ UNCHANGED <<rows, touched>>   \* Home Assistant did not take it
    /\ UserOnly /\ UNCHANGED <<linked, settled, clicks>>

Quiet == \A s \in Scans : /\ at[s] \in {"idle", "ended", "lost"}
                          /\ receipt[s] # "found"

\* The read rows older than seven days go, the k-th and those before it; no
\* request is that old.
Purges ==
    /\ Quiet
    /\ \E k \in DOMAIN rows :
           LET kept == {i \in DOMAIN rows : i > k \/ rows[i].unread} IN
           /\ ~rows[k].unread
           /\ \E row \in [1..Cardinality(kept) -> kept] :
                  /\ \A m, n \in DOMAIN row : m < n => row[m] < row[n]
                  /\ \A i \in kept : \E n \in DOMAIN row : row[n] = i
                  /\ rows' = [n \in DOMAIN row |-> rows[row[n]]]
    /\ UserOnly /\ UNCHANGED <<linked, clear, touched, settled, clicks>>

-----------------------------------------------------------------------------
Handles(s) ==
    \/ Opens(s) \/ Routes(s) \/ NothingToRoute(s) \/ ProcessesInline(s)
    \/ Inserts(s) \/ Closes(s) \/ Stores(s) \/ Excuses(s)

Next ==
    \/ \E s \in Scans : \/ ReceiptArrives(s) \/ ReceiptStored(s)
                        \/ Arrives(s) \/ Handles(s) \/ Refused(s) \/ Raises(s)
    \/ Restart
    \/ Deliver
    \/ MarkRead \/ Dismiss \/ MarkAllRead \/ DismissRead \/ Links \/ Unlinks
    \/ ClearLooks \/ ClearMarks \/ Purges

Spec == Init /\ [][Next]_vars

-----------------------------------------------------------------------------
\* A scan that met no error leaves exactly one row in the scan history,
\* however it is processed: "the outer GENERIC branch owns the single
\* Activity/SSE write for this physical scan" (scan.py:579).
OneRecord ==
    \A s \in Scans \ troubled : at[s] = "ended" => recorded[s] = 1

\* A scan that failed has left an unread notification, unless somebody has
\* cleared rows since it arrived: an earlier notification that was read does
\* not swallow the new one, and no other scan's result replaces it by a row
\* that is read.
FailureShown ==
    \A s \in Scans \ (troubled \cup touched) :
        at[s] = "ended" /\ outcome[s].res = "failed" => NewestUnread # NoRow

\* Once every scan has ended no notification still says that one is being
\* processed, unless a receipt was stored when its scan had looked last, two
\* requests each added a row, or an error or a restart came in between.
NoneStuck ==
    Quiet /\ ~late /\ ~twin /\ troubled = {} /\ (\A s \in Scans : at[s] = "ended")
        => \A r \in ToSet(rows) : Unread(r) => r.res # "processing"

\* A page shows the last event of the bus last, however many it missed, and
\* never a scan's result before its receipt by /scan.
LiveFeed ==
    /\ feed # <<>> => Last(feed) = newest
    /\ \A i, j \in DOMAIN feed :
           /\ i < j /\ feed[i].of = feed[j].of
           /\ feed[i].of \notin troubled
           => ~(feed[i].name = "scan" /\ feed[j].name = "scan-received")

\* Linking settles what the scans before it asked for, and no scan after it
\* asks again: no notification of a barcode that was linked by hand, while
\* no scan of it was under way, asks for a link.
LinkSettles == settled => \A r \in ToSet(rows) : r.res # "unlinked"

\* Nothing a scan says is lost: it is in the history once, its failure is
\* shown, and what was asked about a barcode is settled by linking it
\* (_save_activity, _upsert_notification, _resolve_notifications_async).
FeedCorrect == TypeOK /\ OneRecord /\ FailureShown /\ LinkSettles

-----------------------------------------------------------------------------
(* What the sources say and the code does not keep (README, Divergences).  *)

\* "The later /scan request updates the same unread notification with the
\* final result." (scan_fast_v11.py:170-171)
FinalResultStands ==
    Quiet /\ troubled = {} /\ (\A s \in Scans : at[s] = "ended")
        => \A r \in ToSet(rows) : Unread(r) => r.res # "processing"
=============================================================================
