# Verification of Mealie Barcode Middleware (B2M)

B2M stands between a barcode scanner and a [Mealie](https://mealie.io) server. A USB bridge, an ESP32
or the web app posts scans; B2M, a FastAPI server of many threads over one SQLite database, routes
each scan to the targets of its barcode (foods, recipes, webhook actions), queues what Mealie does
not take, mirrors Mealie's Foods, and prints labels and shopping lists through a Bluetooth printer
server. This directory holds TLA+ models of it, the TLC runs that check them, and TLAPS proofs.

Run a check with `tlc -config <run>.cfg MC<module>.tla`, a proof with `tlapm <module>Proofs.tla`.
`PROJECT.json` ties every definition to the source lines it models and lists runs, mutants, findings,
hazards and theorems.

## 1. The system

| Part | State | Operations | Hard about it | Correct when |
|---|---|---|---|---|
| USB bridge, `tools/barcode2mealie-usb/scanner.py` | SQLite outbox, wake-up event, the sender's position, key buffer, configuration, last heartbeat | read keys, enqueue, post oldest due row, delete it, back off, restart, report | dies or times out anywhere; answers late or lost; keys lost, device pulled | a persisted scan is kept until B2M has admitted it; a whole scan gives its barcode |
| Scan gateway, `routers/scan_gateway.py` | `scan_deliveries` | reserve, replay, reclaim, complete, release | three commits per reservation, leases | one delivery id acts once |
| Fast scan path, `routers/scan_fast_v11.py` | `_ROUTE_POOL` | admit route, acknowledge, route in background | acknowledges before it routes; receipt and result in two threads | an acknowledged scan is routed or shown as failed |
| Activity, notifications, events, `routers/scan.py`, `notifications.py`, `app/events.py` | `activities`, subscribers' queues | record, upsert, read, dismiss, publish | read-then-store on one row; bounded queues | one record per scan, failures shown, nothing stuck |
| Barcodes and targets, `routers/barcodes.py`, `services/targets.py`, `barcode_lookup.py`, `barcode_state.py`, `fuzzy.py` | `barcode_cache`, `barcode_targets` | look up, match, link, edit, delete, restore | seconds of look-up between reading and storing | a barcode's rows belong together; a scan obeys its links |
| Routing, `services/multitarget.py`, `bounded_executor.py` | three pools, semaphores | submit and wait, nested twice | workers that wait for workers | no deadlock; permits kept; "added" means all |
| Notes, `services/mealie.py` | `barcode_cache`, `retry_queue`, Mealie's list | add a note, queue a retry, reconcile on linking | tasks, requests and job over the same rows without a lock | nothing forgotten, nothing twice |
| Retry job, `services/scheduler.py`, `app/pause.py` | loaded batch, `retry_queue` | load, post, delete, back off, give up | works on rows that others delete or rewrite | every retry ends, delivered or shown |
| Foods, `services/mealie_extras.py`, `routers/items.py`, `target_editor_v6.py` | `items`, targets' copies | sync, edit, import | Mealie is asked for seconds without a transaction | the mirror is what Mealie has; targets follow |
| Lists and catalogs, `services/shopping.py`, `mealie_extras.py` | caches, default list | count, choose, add, refresh, clear | load, clear and add at once | numbers hold what was done |
| Barcode actions, `services/actions.py` | `action_executions` | cooldown, reserve, call, retry, finish | cooldown across threads, calls that outlive their action | policy and cooldown kept |
| Statistics, `services/action_stats.py`, `scan_stats.py`, `barcode_stats.py` | aggregates, marks of the builds | record, build in batches, purge, remove | crash between batches, results out of order | the totals are exact |
| Label printing, `routers/runtime_features.py`, `services/niimblue.py` | `_JOBS`, `_JOB_QUEUE`, spools, `_print_lock` | submit, spool, print, trim | time-outs while the printer prints, crash, full queue | one print at a time, reports true, every job ends |
| Printer connection, `routers/label_printer.py` | stored intent, last reconnection | poll, connect, disconnect, scan | every open page polls and reconnects | the intent holds, and no more |
| List printing, `routers/shopping_print.py`, `services/shopping_print*.py` | four documents of `system_state` | order, rename, add and remove entries, reset | whole documents are read, changed and stored | what was edited is printed |
| Scanner status and tokens, `app/auth.py`, `routers/scanner.py` | `api_tokens`, reports | heartbeat, telemetry, configuration | late and lost requests | bridge and device are shown as they are |
| Access, `access_v23.py`, `middleware.py`, `routers/login.py` | accounts, roles, session cookies | set up, log in, add, delete, change | rights checked before a slow hash; the session lives in a cookie | no lock-out, no stale rights |
| Settings, `app/config.py`, `routers/settings.py` | environment, rows, memory | save, reset, restart | two copies of each setting | restarts change nothing |
| Database, `app/database.py`, `services/schema_migrations.py`, `database_backup.py`, `routers/labels.py` | schema, migrations, files | start up, back up, restore, purge | killed anywhere on its way up | upgrades whole, backups consistent |
| Recipes, pages, themes, texts, rendering, firmware | none that several actors change | | | |

Interactions: bridge → gateway → fast path is HTTP with a repeated delivery id. The fast path hands
a known barcode to the route pool (which fans out over the target pools to Mealie and to actions) and
an unknown one to the pipeline. The pipeline, the reconciliation tasks, the syncs, the retry job and
the pages meet only in the database: SQLite, where a transaction begins at the first write, so that a
SELECT and the write that relies on it are two steps everywhere below. The printing APIs meet in the
print lock, the polls in the stored intent.

## 2. Modules

| Module | Models | Checked by | Proofs |
|---|---|---|---|
| `ScanDelivery`, `ScanPromise` | a scan from the outbox to its route; the abstract service it implements | `Delivery*`, `LostAfterRestart` | `ScanDeliveryProofs` |
| `RoutePools` | the nested bounded pools a route goes through | `Outcomes` | `ScanOutcomeProofs` |
| `ScanFeed` | history, notifications and live events of the scans of a barcode | `Scans` | `ScansProofs` |
| `BarcodeLinks` | what B2M knows of a barcode, and its targets | `Scans` | `ScansProofs` |
| `ScannerStatus` | heartbeats, telemetry and configuration of the bridge | `Scans` | `ScansProofs` |
| `ScanKeys` | how the bridge makes barcodes of key events | `Scans` | `ScansProofs` |
| `ShoppingNotes` | notes, the retry queue, its job, reconciliation | `Notes`, `Outcomes` | `ScanOutcomeProofs` |
| `FoodMirror` | the mirror of Mealie's Foods and what targets take from it | `Mirror` | `FoodMirrorProofs` |
| `ShoppingLists` | lists, counts, default list, additions, the refresh after an edit | `Lists` | `ListsProofs` |
| `CatalogCache` | the cached catalogs and their locks | `Lists` | `ListsProofs` |
| `ListPrint` | what B2M keeps of a list that is printed | `Lists` | `ListsProofs` |
| `ActionRuns` | executions of webhook actions and their statistics | `Actions` | `ActionRunsProofs` |
| `ScanStats` | statistics of targets and barcodes | `Storage` | `StorageProofs` |
| `PrintJobs`, `PrinterLink` | print jobs and the print lock; who holds the connection | `Printing` | `PrintJobsProofs` |
| `Database` | start-up, migrations, legacy links, backup | `Storage` | `StorageProofs` |
| `Accounts` | accounts and sessions | `Storage` | `StorageProofs` |
| `Settings` | the copies of a setting | `Storage` | `StorageProofs` |

`MC*` modules give the constants values. `MCOutcomes`, `MCScans`, `MCStorage`, `MCLists`,
`MCPrinting` instantiate several components; `part` picks the one that runs in a behaviour.
Components that share a run share no variable: what the rest of the program does to one of them is
among its own actions (in `ScanStats`, for instance, deleting a barcode is an action of its own), so
interleaving them would only multiply states. `Alike` permutes requests, threads or codes; it is
sound since no run with a symmetry has a liveness property and no definition chooses among them.

### ScanDelivery
State: `outbox`/`due` are the rows of `scan_outbox` (those whose `next_attempt` has come), `sender`
and `current` where `scan_sender_loop` is, `line` the connection it waits on; per connection `at` is
the program counter of `POST /scan` and `req` its delivery; `row` is the delivery's row in
`scan_deliveries`; `pool` the slots of `_ROUTE_POOL`. `admitted`, `runs`, `reported` are history.
A request step ends where the code commits or reads again, so that other requests for the same
delivery come in between: `LookUp`, `Reclaim`, `Insert` are `_reserve_delivery`; `SubmitRoute`,
`Saturated`, `ProcessInline` are `fast_scan_barcode`; `CompleteReads`/`CompleteStores` and
`ReleaseReads`/`ReleaseDeletes` finish the delivery. `RouteRuns` and `ProcessInline` take effect or store
the failure to be shown; when storing it fails as well, the code swallows that (`RouteUnshown`,
`InlineUnshown`). `OtherScan` is a scan without a delivery id, which takes a slot of the same pool; the
app's `/scan/app` runs in line and takes none. Faults (`FaultKinds`) are chosen per instance.

Abstracted: a delivery is a number, and its barcode is only `linked` or not, changed freely by
`EditTargets` (see `BarcodeLinks`); the attempts counter only makes the delay longer; the lease of two
minutes and the retention of seven days are steps (`LeaseLapses`, `RetentionEnds`), which come early
only under the faults "slow_handler" and "long_outage"; `RouteRuns` is one step (see `RoutePools`);
the outbox capacity is a constant although the server can change it.

### RoutePools
`Kids[j]` lists the jobs that job `j` submits: a route its targets, a recipe its lists. `permits` are
the `BoundedSemaphore`s, `stage` and `sent` a job's progress, `closing` the interpreter's shutdown,
after which `submit` raises. `Submit` is the blocking, `Admit`/`Refuse` the refusing submission; a
job keeps its worker while it waits. Abstracted: the plan of a scan is constant; targets that fail
without a job (disabled, unknown kind) are `Unroutable`; a worker becomes free and the permit comes
back in one step; the executor's queue has no order, which allows more behaviours.

### ScanFeed
`rows` are the `activities` of one barcode, `at` the progress of each `POST /scan`, `receipt` of its
`POST /scanner/received`; `bus` is the queue of one subscriber, `feed` what its page has shown.
`ReceiptArrives`/`ReceiptStored` and the steps of `Handles` are the SELECT and the write of
`_upsert_notification`, `_save_activity` and `_resolve_notifications_async`; `Refused` is the
saturated pool, `Raises` an error of the database, `Restart` the end of every request under way. The
user reads, dismisses, links and unlinks; `ClearLooks`/`ClearMarks` are the task behind Home
Assistant's dismissal, `Purges` the nightly purge. Abstracted: which code is scanned, the wording and
the route itself (only its result). History: `late`, `twin`, `troubled`, `touched` mark the cases the
properties except, each of them named there; `late` is a receipt stored when its scan has looked for
the row it closes, the last time that it does.

### BarcodeLinks
`cache` and `targets` are the rows of `barcode_cache` and `barcode_targets`; `req` requests that take
time: a scan (`Handles`: restore, look up, store, match, link, route), a second look-up and a link.
`Confirm`, `Unmap`, `Delete`, `Metadata`, `CreateManual`, `ViewPage`, `Settings`, `DeleteTarget` are
requests of one transaction; `Expire` is the age of a cached answer. Abstracted: providers answer
found, missing or failed; scores are a choice among Foods; the fields of a product are its title and
whether the user wrote it. `StoreFails` ends a lookup whose commit fails: for a row that came or went
meanwhile, a busy database or a restart. A repeated lookup drops the user's title in a transaction
before it (`LookUpAgain`), so that `FoundHasTitle` excepts a barcode whose repeated lookup is under way
or has failed. `crossed` holds the requests that another one of their barcode overlapped.

### ScannerStatus
`bridge` is what the daemon has (its configuration, device, unanswered heartbeats), `token` the row of
its token with the age of the last report. `SendScan`, `SendBeat` put a request on its way, `Handles`,
`Lose`, `TimesOut` end it, after at most `Life`; `Refresh` fetches the configuration. `Save` changes
nothing: `save_scanner_bridge_settings` ends in a NameError (see Divergences).
Time is counted in units: the heartbeat is `Interval`, a scanner is shown online for `OnlineFor`,
`Throttle` is the least time between two stored reports of a kind. `StatusAssumption` asks that two
heartbeats with their time-outs, and the server's time for a report, fit into `OnlineFor`: 60 s and
8 s by default against 180 s, which leaves a report 44 s.

### ScanKeys
`ReadKey` is the body of the key loop of `_read_device`: modifiers, Enter, Backspace, Escape, the
gap and the cap of the buffer; `Unplugs`/`Replugs` close and open the device, `Refresh` takes new
settings: those of the server in the place of the ones the bridge started with. A label is a
sequence of key events with what they say before each of them (`IsTyped`: by the tables of the
layout, from nothing typed to the text it stands for); `LosesKey`, `TypesUnheard` lose them.
Abstracted: three labels with two keys and a Shift stand for the key map; time is 0, the gap, or
more.

### ShoppingNotes
Requests (`Begin` … `EnqueueInserts`), the retry job (`JobLoads`, `JobPosts`, `JobDeletes`,
`RetryFailed`, `JobCommits`) and one reconciliation task per link (`TaskReads` … `TaskAddsRecipe`)
over `queue`, `noteId`, `link` and Mealie's `open` entries. Each session keeps the rows it has read
(`expire_on_commit=False`). A row's new id is the highest in use plus one, as SQLite gives it
without AUTOINCREMENT; deleting a row that is gone only warns, updating one raises and rolls the
batch back. `Makes`/`PostFails` are calls to Mealie; "ambiguous" is a call that succeeded and
reported failure. Abstracted: the three reads at the start of a task are one step; only the primary
target; no change from one food to another; the branch for an unreadable stored payload; the batch
limit of 50 (never reached here); the back-off is a table of the powers of two; the waiting time
ends by `BackoffOver`; `shown` stands for the "retry_failed" activity.

### FoodMirror
`mealie` is what Mealie has per id (`Never` before it is created, `Gone` after it is deleted),
`mirror` the rows of `items`, `targets` those of `barcode_targets`. A sync (`SyncFetches`,
`SyncStarts`, `SyncWrites`) keeps Mealie's answer, the rows it has read, the syncs whose
`sync_started` is earlier (`before`) and the rows with a younger `synced_at`; a request (edit on the
Food's page or on a target, link, create) goes from reading over Mealie's answer to one transaction,
which writes only the columns that differ from what it had read (`Columns`). Abstracted: a name
stands for aliases and label as well, a unit for the default quantity.

### ShoppingLists, CatalogCache
`lists` and `counts` are `_list_cache` and `_counts_cache` (`young` until their time is over), `job`
where a thread is in a request; a load is read in Mealie in one step and kept in another. The numbers
on the dashboard stand for the additions they include (`seen` of `posted`, `done` when the last
addition was answered). A row is done by the flag `checked` or by another one: the counts honour all
of them (`shopping.py:26-33`), the refresh after a Food was edited the first alone (`Refreshed`,
`mealie_extras.py:206`). It reads the rows (`ReadRows`) and puts them back one by one (`Put`): of what
`Payload` sends, Food, list and quantity as they were read, 0 made 1, and `checked` false (`Written`);
what Mealie does with fields that a PUT does not name is Mealie's, and either outcome is allowed.
In `CatalogCache` a catalog is the number of its last change, 0 when the load failed, `lock` the lock
of each catalog, and `newest` the newest that was kept (history).

### ListPrint
`doc` are the four documents kept in `system_state`, `parts` the three print settings. A request runs
through the steps of its handler (`Program`): read a document, store it, ask Mealie; `at` is the next
one, `holds` and `stale` say what it has read and whether that was changed since. The choice of a section
name (`Resolved` for the page; `Filed` for what is stored, which follows chains of aliases by
`StandsFor`), the order (`Ordered`) and the key of an override (`OverrideOf`) are pure operators; a
stored order is a place for each key. `Show` sorts twice, as the code does: first the sections that rows
and entries have the name of (`named`), then those after the aliases.
Abstracted: an entry is its id and section; where the code takes the first of several spellings any
may be taken. `AddsTwice` is the second of two requests that store a document or setting for the first
time: both insert the key, and the later one fails. History: `meant`, the ids and keys the requests
asked for, and `torn`.

### ActionRuns
A run of `execute_action` goes through `Look` (cooldown), `Reserve` (the "running" row), `Send`,
`Decide` (`_retryable`), `Finish` (row and statistics in one commit), or ends as disabled or ignored.
A busy database fails the look-up (`LookFails`: an error row, or nothing) or a commit (`StoreBusy`:
nothing is stored, since the session has to be rolled back, and a row that says "running" stays).
The start-up backfill adds rows of older versions in batches (`BackfillStarts` … `BackfillEnds`), and
`Purge` deletes old rows once it is complete. `Delete`/`Create` remove an action under its runs.
Abstracted: policy, retries and cooldown of an action are constant; look-up by alias, templates and
delays are data; the purge's look and its deletion by id are one step (`ScanStats` has them as two);
no execution lasts as long as the retention (`InUse`). `swapped` records that a run
stored its result in a row that took the id of its deleted one; the exact statistics exclude that case.

### ScanStats
`raw` are the rows of scans, `stat` the two tables of sums (`AnyTarget` keys the second), `complete`
their marks. `BuildStarts`, `BuildBatch`, `BuildEnds`, `BuildFails` build a table at start-up,
`Restart` cuts it off anywhere; then `Scan`, `DeleteCode`, `BulkDelete`, `ResetActivities` and the
daily purge (`PurgeLook` reads ids, `PurgeDelete` deletes by them) run. `seen` remembers each scan and
the tables that have counted it. Abstracted: sums over the days they are filed under.

### PrintJobs, PrinterLink
`CheckPrinter`, `Admit`, `WriteSpool`, `Enqueue` are `create_print_job` between its awaits; `Take` …
`CountJob` the worker thread; `Acquire`, `Post`, `Printed`, `PrintFails`, `TimesOut` a call of
`print_image_base64` under `_print_lock`; `streams` are the prints the printer server executes, also
those nobody waits for any more. `OutOfMemory` is an exception without a text: `FinishJob` decides
by the text, so the job is stored as completed ("unsaid" in the model, to tell it apart). `Crash`
loses the table and keeps the spool files and the printer. Abstracted: taking a job and marking it
running are one step; a page is out or not (no quantity); statistics are only a write that may fail,
and then ends the thread. The job table of `v30_fixes.py` is unreachable: `main.py:89` registers the
router of `runtime_features` before it.

In `PrinterLink`, `PollStarts`, `Probe`, `CheckPeriod`, `Mark` are `b21_status` with its reconnection
at most every ten seconds (`recent`); `Connect`, `Clear`, `Open`, `Wait` are `connect_printer` with
its two attempts; `Click*` store the intent before anything is sent. Abstracted: the probe is exact; a
device scan only clears the intent; the user waits for one answer before the next click.

### Database
`db` is what is committed: links, the legacy mappings and whether they have target ids, cache rows,
Foods, codes with history, tables, columns and migrations done. `at` walks through the steps of
`init_db` and `run_schema_migrations`, among them `DropMappings`: `barcode_mappings` of a release
before target ids is dropped with its rows (`database.py:145-149`). `Stops` kills the server at any
of them; `cut` remembers the columns that were added and not filled by then, `before` what the
server was last up with. `BulkDelete` leaves the legacy mappings behind, `Delete` does not. A backup
copies in two steps (`CopyFirst`, `CopyLast`) and begins again when a writer came in between, as
SQLite's online backup does; `Restore` puts it in the place of the database. Abstracted: two columns
and two migrations stand for those that compute values.

### Accounts
`users` are the accounts, `manages` those whose stored permissions include user management, `cookie`
the session in each browser. A handler's checks (`…Checks`) and its commit (`…Commits`) are two steps
since a password is hashed or a body awaited in between; a request works on the session it brought,
and its answer sets the cookie if that changed. Abstracted: passwords are right; permissions other
than user management. `had` holds the rights an account had while its request ran (history).

### Settings
`env`, `rows` and `memory` are the three places of a value. `Look`, `Commit`, `Remember` are a key of
a form in `save_override` and `reset_override`; forms are saved on the event loop one at a time, a
reset runs in a thread. `Clamp` is `_coerce`: a value is taken, moved into its range, or refused.

## 3. Runs

Bounds are small because the conflicts are: two requests for one delivery, two scans of one barcode,
a job and a task over one row, a page and the next. Each bound still lets the interesting case happen,
which the mutants show: for every property of a passing run `PROJECT.json` names a plausible bug in
the modelled code that the same run finds. A property of a run may be a conjunction of named parts,
stated and explained in the component's module.

| Run | Shows | Bounds |
|---|---|---|
| `DeliveryLive` | `NeverForgotten`: no scan leaves the outbox unadmitted; `EventuallyDelivered`: each is admitted and leaves it | 2 scans, an outbox of 1, 2 connections, 1 slot, a fault of any kind |
| `DeliveryOnce` | `AtMostOnce`, `OneHandler`, and `KeepsPromise` (implements `ScanPromise`) under faults of bridge and network | 2 scans, one without a delivery id, 2 connections, 2 slots, 3 faults |
| `DeliveryServed` | `NoSilentLoss` unless B2M itself restarts or cannot store a failure; `EventuallyServed` | 2 scans for 1 slot, 1 fault that delays |
| `LostAfterRestart` | violates `NoSilentLoss` | 1 scan, 1 restart |
| `Outcomes`, pools | `PermitsConserved`, `NoCircularWait`, `AddedMeansAll`, `EveryRouteEnds`, also while the process stops | 3 routes, recipes with two lists and with one, pools of one worker, one place to queue in all |
| `Outcomes`, notes | `NoneTwice` (`AddedOnce`) when failed calls have no effect; `EveryRetryEnds` though rows vanish under the job | 2 scans of two barcodes, 2 attempts, 2 edits, 3 refusals, less one of either |
| `Scans`, feed | `FeedKept` (`OneRecord`, `FailureShown`, `LinkSettles`), `NoneStuck`, `LiveFeed` | 2 scans, one receipt and one lost; with an open page and its queue of 2, or 1 click, or 1 error or restart |
| `Scans`, links | `LinksCorrect` (`NoTwins`, `FoundHasTitle`, `StaysDeleted`), `ScansObeyLinks` (`ScansKeepLinks`, `ScansRouteLinks`) | 2 barcodes (one numeric), 2 Foods, 2 slow requests, 2 quick edits |
| `Scans`, status | `ScannerCorrect`: `RunningIsOnline`, `UnpluggedFades` | heartbeat 3, online for 9, 2 requests under way; a scan, a loss, a stop, a pulled device, an attempt to change settings |
| `Scans`, keys | `ScannerCorrect`: `WholeScansCount`, `NoneMixed` | 2 scans out of 3 labels (with Shift, with a correction, too long), 2 keys lost, 1 new configuration |
| `Storage`, database | `DatabaseCorrect` (`Upgraded`, `DeletedStaysGone`, `BackupIsSnapshot`), `RestartsKeep` (`StartsWhole`) | 1 barcode, 2 Foods, 2 starts, killed anywhere, 3 writes, 1 backup |
| `Storage`, accounts | `AccountsCorrect` (`AdminRemains`, `SetupOnce`), `RightsCurrent` (`NoStaleRights`, `SignedOutStays`) | 2 names, 2 browsers, 5 requests, two at a time |
| `Storage`, settings | `SettingsCorrect` (`SettingsAgree`), `RestartsKeep` | 2 keys, 4 raw values, 3 saves or resets, 2 starts |
| `Storage`, statistics | `ScanStatsCorrect` (`TablesExact`, `RowsWait`, `PagesAgree`) | 2 old rows, 1 scan, 1 removal, 2 faults, batches of 1 |
| `Mirror` | `TargetsCorrect` (`TargetsMirrored`, `OwnUnitsKept`), `WritesMirror` (`SyncsMirror`, `SyncsRemoveDeleted`, `EditsShow`), `MirrorSettles` | 1 Food, 2 names, 1 unit, 1 barcode, 2 syncs, 1 slow request, 1 change from outside |
| `Notes` | `NoneForgotten` (`NothingForgotten`) with refused, ambiguous and nameless calls and crashes | 2 scans of one barcode, 2 attempts, 2 edits, 3 faults, less one of either |
| `Lists`, print | `PrintsCorrect` (`StoredAsMeant`, `FiledWhereShown`, `OneRowPerOverride`, `SettingsOfOneRequest`), `OrderKept` | 2 lists, 3 names, 2 rows, 2 entries a list, 3 requests, two at a time, or 2 and a change at Mealie |
| `Lists`, dashboard | `DashboardCorrect` (`CountsHoldAdditions`, `ChoiceStands`) | 2 lists, 2 rows, 2 requests, a change or a failed call |
| `Lists`, catalogs | `CacheCorrect` (`ClearedIsGone`), `CatalogsAdvance` (`NoneOlder`) | 2 catalogs, 3 requests, 1 change |
| `Actions` | `StatsAreExact` over backfill, purge, crash, deletion; `CallsCorrect` (`PolicyKept`, `SpacedOut`), `EveryRunReturns` | 2 runs of 2 attempts, 4 old rows in batches of 2, 2 edits, 1 fault |
| `Printing`, jobs | `JobsCorrect` (`ReportedIsPrinted`, `JobsKept`, `SpoolsInUse`, `InOrder`, `OneAtATime`), `EveryJobFinishes` | 3 jobs of 2 pages and a receipt, queue of 2, history of 1, a fault of any kind, 1 disconnection |
| `Printing`, connection | `Reconnects` | 2 polls, 2 clicks, 2 drops |

More connections, scans or requests repeat what two do: requests of different deliveries share only
the pool, a delivery's requests only its row, two requests of a page its documents. Three faults in a
row matter to a delivery retried over two connections and to a retry that is given up; one of each
kind elsewhere. `Notes` has one barcode, which is not deleted and gets no recipe: what these do to
`NothingForgotten` are divergences.

**Deadlock** is checked for `ScanDelivery` and `FoodMirror`. The other systems stop when the bounded
edits, faults and requests are used up.

### Divergences
Where a text of the repository says one thing and the code does another, the property is the text's,
and TLC's counterexample the scenario. One has a run and is quoted as a finding in `PROJECT.json`:
`LostAfterRestart`, where B2M restarts between acknowledging a scan and routing it, and the outbox row
is gone. The others are stated in the modules, and TLC finds them violated on these instances:

| Property | Instance | Scenario | The text |
|---|---|---|---|
| `AtMostOnce` | 1 scan, `Faults = {"timeout", "slow_handler"}` | a handler slower than its two-minute lease is taken for dead, and the retry acts again | `scanner.py:7-8`: "without adding the same item twice after an ambiguous timeout" |
| `AtMostOnce` | 1 scan, `Faults = {"db_error"}` | storing the result fails after the route was admitted; the retry is routed again | the same |
| `NothingForgotten` | 2 barcodes, `Edits = {"delete"}`, 2 refusals | a barcode is deleted while the job posts its retry, another barcode's retry takes the row's id, and the job deletes that one (`scheduler.py:100`) | `docs/barcode-workflow.md:191`: "the shopping list addition is **not lost**" |
| `NothingForgotten` | 1 barcode, 2 scans, `Edits = {"recipe"}`, 2 refusals | the reconciliation of a recipe has read a retry, the job delivers it, a new retry gets its id and is deleted in its place (`mealie.py:569-574`) | the same |
| `NothingForgotten` | 2 barcodes, `Edits = {"food"}`, 2 refusals | likewise with a food, whose payload is written over the retry of another barcode (`mealie.py:514-539`) | the same |
| `ReplacedIsAdded` | 1 barcode, `Edits = {"recipe"}`, 2 refusals | the recipe that replaces a retry is refused once and never tried again | the same |
| `ReplacedByTarget` | 1 barcode, `Edits = {"food"}`, 1 refusal | a note without a stored id stays a note after its barcode got a food | `mealie.py:501`: "Replace an earlier note/retry once a barcode gets a structured primary target." |
| `NoRecipeInPause` | 1 barcode, `Edits = {"recipe", "pause"}`, 1 refusal | linking a recipe in Scan & Link mode adds it to the list | `i18n.py:30`: "nothing will be added to your shopping list" |
| `DocumentedBackoff` | 1 barcode, 10 attempts, 10 refusals | a retry waits up to 480 minutes | `docs/barcode-workflow.md:197`: "up to 60 min" |
| `OnePerCooldown` | 1 action, 2 runs | two scans look for the cooldown before either has reserved its execution | `actions.py:149-151`: "makes async duplicate scans safe" |
| `PolicyKept` | 1 run, policy "5xx", 2 retries | a network error is retried after an earlier attempt was answered with 5xx, whose status is kept | `action_detail.html:42`: "HTTP 5xx only" |
| `OneStream` | 1 job, 1 receipt, `Faults = {"slow"}` | after a time-out the lock is free while the printer prints | `niimblue.py:22-24`: the prints "can never race each other" |
| `FailedHasStopped` | the same | a timed-out job is called failed and its page comes out | `niimblue_batch_v30.py:82-84`: "a lost response does not prove that the printer stopped" |
| `LeftAlone` | 1 poll, 2 clicks | a poll that read the intent early reconnects after Disconnect | `niimblue.py:6-8`: "Printing never auto-connects: this keeps the B21 available" |
| `FinalResultStands` | 1 scan and its receipt | a receipt stored after the result says "processing" for ever | `scan_fast_v11.py:170-171`: "updates the same unread notification with the final result" |
| `RoutesOwnTargets` | 2 barcodes | the pool thread finds a target of another barcode under an id that was deleted and given again (`scan_fast_v11.py:120`) | `scan_fast_v11.py:131`: "No enabled targets remain for this barcode" |
| `EntriesAtomic` | 1 list, 2 requests | two additions store the whole document, and one entry is lost | `tests/test_frontend_v29.py:60`: "supports_atomic_entry_routes" |
| `BrokenMeansDeleted` | 1 Food, 1 sync, 1 request | a Food created after Mealie answered the sync is removed, and its link broken (`mealie_extras.py:118`) | `mealie_extras.py:171`: "was deleted in Mealie - remap needed" |
| `LabelsTied` | 1 barcode, 2 Foods | a generated label is only in `barcode_mappings` until the next start | `docs/using-the-app.md:43`: "stable codes tied to the selected target" |
| `PurgesOldOnly` | 2 old rows, 1 removal, 1 scan | a row is deleted between the look and the delete, and a new one gets its id | `scan_stats.py:289`: "Delete old raw scan rows" |
| `TooLongIgnored` | 1 label that is too long | the buffer stops at its cap; what fits is posted | `scanner.py:493`: "Ignoring too-long scan" |
| `StaleDiscarded` | 1 label, 1 lost key | Enter has no gap check, so a stale buffer is posted by a late Enter | `scanner.py:507`: "Discarding stale partial scan" |
| `NoSilentLoss` | 1 scan, `Faults = {"report_error"}` | routing fails, and so does storing the failure, which is swallowed (`scan_fast_v11.py:142-146`, `253-256`; `scan.py:126-129`): the scan is answered 200 and neither acts nor is shown | `scanner.py:5-7`: "cannot silently lose them" |
| `CompletedIsPrinted` | 1 job, `Faults = {"memory"}` | the worker takes a job for failed if its error has a text; an exception without one, such as `MemoryError`, makes it "completed" | `runtime_features.py:321`: `"failed" if error else "completed"` |
| `AdditiveUpgrade` | 1 barcode | `barcode_mappings` without `target_id` is dropped with the links it holds (`database.py:145-149`) | `database.py:67`: "Compatibility pass for pre-versioned additive SQLite schema changes." |
| `TouchesOpenOnly` | 2 rows, 1 refresh, 1 change | the refresh looks at `checked` alone and writes it back as false: a row that is done by another flag, or checked meanwhile, is opened again | `mealie_extras.py:187`: "Touch every open shopping-list entry" |

`PolicyKept` holds under the policy "network_5xx", which `Actions` uses.

Two more need no counterexample. Saving the settings of the scanner bridge always ends in a NameError,
since `runtime_features.py:152` calls `_require_admin`, which the file neither defines nor imports,
although the page offers "Save scanner settings" (`static/js/ui-v4.js:199`); `ScannerStatus` has it as a
request without effect. And the only worker thread of the printer ends when recording a job's statistics
fails, with the jobs in its queue left; `_WORKER_STARTED` stays true, so that nothing starts another one
before B2M restarts (`runtime_features.py:330-350`).

Modelled as they are, without a text that says otherwise: bulk deletion and the resets leave
statistics and mappings behind, unlike deleting one barcode; a barcode that was unlinked by hand or
deleted in bulk is linked again from `barcode_mappings` at the next start; the resets do not touch
`barcode_targets`; an upgrade killed between `ALTER` and `UPDATE` leaves a column without its old
values for good (`database.py:95-98`; `cut`, which `Upgraded` excepts); `load_overrides_from_db`
deletes the rows that repeat the environment; a custom title counts as found only after a restart
(`database.py:120-127`); ids of deleted accounts are given again, with what is stored under them;
deleting a user looks at the role before it commits, so that an administrator made in between is
deleted by somebody who may manage users only (the proof of `NoStaleRights` asked for this
exception); a Shift whose release is lost stays down; of two aliases that swap two names the earlier
one is followed, and the entries of both sections are stored under one; a section that only an alias
names, its row being gone, goes to the end of the order when another entry is saved, since
`ordered_categories` is applied twice and drops it the first time (the proof of `OrderKept` asked
for this exception; see below); a refused print setting leaves the ones before it stored; an
override that once equals the environment is dropped for good; a catalog or count that fails to load
is kept as empty or zero; the refresh after an edit overwrites a row that was changed in between and
makes quantity 0 a 1.

### Excluded overlaps
Some hazards are races that the code loses and no text promises to win. The models have them; the
properties leave out the states they lead to, by a history variable, and so say that nothing else
leads there. They would not notice if the code lost these races more badly.

| Component | Left out | What the code does then |
|---|---|---|
| `ScanFeed`, `FeedKept` | `touched`: scans that meet the task behind Home Assistant's dismissal | the task dismisses all rows of the barcode, also a failure that came after the click (`homeassistant.py:151`) |
| `BarcodeLinks` | `crossed`: requests of one barcode that overlap | a lookup that misses overwrites a row found meanwhile (`barcode_lookup.py:213`); two requests add the same target twice (`targets.py:75`) |
| `FoodMirror`, `OwnUnitsKept` | `crossed`: edits that overlap | a new default unit is given to targets which have got a unit of their own meanwhile (`target_editor_v6.py:188`) |
| `CatalogCache`, `ClearedIsGone` | `crossed`: a load that a clearing meets | the old catalog is kept after the clearing (`mealie_extras.py:66`) |
| `ShoppingLists`, `CountsHoldAdditions` | `crossed`: a count that an addition meets | the old count is kept for two seconds (`shopping.py:170`) |
| `ShoppingLists` | no property: a row changed while it is refreshed | the change is written over (`mealie_extras.py:227`) |
| `ListPrint`, `StoredAsMeant`, `OrderKept` | `stale`: requests that store a copy another one has outdated | the other one's update is lost (`shopping_print.py:96`) |
| `ListPrint`, `SettingsOfOneRequest` | `torn`: a setting refused, or a first save that fails, after others | those before it stay stored (`routers/shopping_print.py:234`) |
| `Accounts`, `AdminRemains`, `SetupOnce` | `crossed`: two changes of accounts that overlap | two administrators can remove each other (`permission_guard_v23.py:34`) |
| `Settings` | `crossed`: a form and a reset of one key | memory and row differ until the next start (`config.py:237`) |
| `Database`, `Upgraded` | `cut`: a kill between `ALTER` and `UPDATE` | the column stays empty (`database.py:97`) |
| `ActionRuns`, `StatsAreExact` | `swapped`: a run whose deleted row's id is given again | it stores its result in the other row |

## 4. Fairness

Every fairness condition is weak and stands for a thread that is scheduled or a clock that goes on.
No scan, click, edit or fault is ever forced.

- `ScanDelivery`: the sender thread, each request, each pool slot; back-off and leases end. Requests
  cannot wait for ever since every call to Mealie has a time-out.
- `RoutePools`: each job's next step. A blocked `acquire` gets its permit when one is free: with weak
  fairness this holds as no later submission can take it away for ever (finitely many jobs).
- `ShoppingNotes`: requests, the interval job, tasks, back-off, and the user ends the pause.
- `FoodMirror`: each sync, which the scheduler starts again and again, and each request that has begun.
- `ActionRuns`: the start-up job and each run (every call has a time-out).
- `PrintJobs`: the worker, the printer and its answers, submissions once begun. `EveryJobFinishes`
  leaves out what follows when an error of the database ends the only worker thread: nothing starts
  another one (listed as a hazard).
- `PrinterLink`: a page is open and polls; requests go on.

`MCOutcomes` and `MCPrinting` state the same conditions for the part that runs.

## 5. Proofs

Theorems hold for all values of the constants that satisfy the named assumptions.

**`ScanDeliveryProofs`.** `TypeCorrect`; the type invariant ties the program counters to their data
and is inductive. `NeverForgottenAlways` needs no assumption on faults: `SenderInv` (what the sender
holds is in the outbox, only its own line carries an answer) and `AdmissionInv` (every 200 on its way,
every completed row and every confirmation stands for an admitted delivery); `NeverForgotten` alone is
not inductive since it says nothing of the 200 on its way. `NoSilentLossAlways` assumes no restart of
B2M and no failure to store a failed scan (`LosingFaults`): `ServedInv`, an admitted route is in the
pool until it is served. `AtMostOnceAlways` assumes
faults of the bridge and the network only: `ReservationInv` (a reservation stands exactly as long as
the one request that made it), `FutureInv` (no scan is known early, none requested after its purge)
and `UntouchedInv` (a delivery that can still be reserved has not been acted on). The divergences about deliveries are what these assumptions exclude. `KeepsPromiseAlways`, under the same
faults: the refinement of `ScanPromise`, with `DroppedInv` for scans the bridge refused.

**`ScanOutcomeProofs`**, pools. `PoolsTypeCorrect` (with: a queued or running kid was submitted by
its one parent, which is running or has ended); `PermitsConservedAlways`; `NoCircularWaitAlways`,
for every tree of three levels and every pool size: if a list is in flight one can go on since lists
wait for nobody; if none is, the list pool is empty by conservation of permits, so a target can go
on; if there is no target either, a route can; `AddedMeansAllAlways`, from `GoodInv`.

**`ScanOutcomeProofs`**, notes (`NotesConstants`). `NoneTwiceAlways` assumes that a failed call has
no effect and B2M does not crash, and nothing of barcodes, edits or attempts. `AddedOnce` says
nothing of rows, hence `OnceInv`: no request stands behind two rows (`RowsFit`), one without a row
has made at most its note's entry (`Unmade`), and for a row in the queue or in the job's hands
nothing has been made, but in the moment between its POST and its deletion (`RowsUnmade`; that a
reused id could bring a row back is what `RowsFit` excludes). `NoneForgottenAlways` holds for all
faults. `KeptInv`: whoever is owed a retry has the row, for its own barcode, or an entry
(`QueueFits`, `FatesFit`); what the job has loaded is in the queue still, with as many attempts
(`BatchFits`), and what came of its POST is known to the history (`ItemFits`); a task has read rows
of its barcode only (`TasksFit`). It takes one barcode that is neither deleted nor linked to a
recipe: each of these lets a deletion or rewriting by id hit a row that took the id over, and TLC
finds `NothingForgotten` violated without it (see Divergences).

**`PrintJobsProofs`.** `PrintJobsCorrect`: `JobsCorrect` with its types. The property is not inductive:
that a completed job has printed all needs `PageInv` (only the worker's job is in a call; a page is
out exactly one step before it is counted) and `CallInv` (a call that was posted holds the lock; a
stream nobody waits for belongs to a call that was given up, so nothing of its client comes after it).
`InOrder` follows from `QueueInv`: the queue is the rest of the accepted jobs, none of which was
accepted twice. `SpoolInv` says of each job what `SpoolsInUse` says of the directory, and `TrimKeeps`
what `_trim_job_history_locked` leaves. `OneStreamUnlessSlow`: without time-outs and restarts every
print is awaited, so `OneStream`, which is violated with them, holds.

**`StorageProofs`** (`AccountsAssumption`, `SettingsAssumption`, `DatabaseAssumption`,
`StatsAssumption`, which keeps `AnyTarget` apart from the targets). Four components,
each with an invariant of its own that `MCSpec` keeps. `AccountsInv` says of each request which rights
its account has had since it began (`had`), and of each cookie whose it is; `AccountsCorrectAlways` and
`RightsCurrentAlways` follow for any number of names, browsers and overlapping requests. `SettingsInv`:
a form or reset on its way is the only thing that can make memory and rows differ, unless two of them
crossed; hence `SettingsCorrectAlways`. `StoreInv` ties what a start-up has done to its step, also after
a kill (`ColumnsInv` for the columns, those in `cut` excepted; `Resumes`: whatever the tries so far have
made of it, the rest of a start-up makes of the database what a whole one makes of `before`), and
`CopyInv` what a backup has copied to the writers since; hence `DatabaseCorrectAlways`, and with the
settings `RestartsKeepAlways`. `StatsInv` adds to the property what a table that start-up fills
has so far (`FillFits`: the statistics of the rows it went through, and no mark yet) and that a removal
runs only beside both marks (`JobFits`); `StatAdds` says that an upsert is what one more row adds, and
`SumsCount` that a page's sum over the barcodes of a target counts each scan once, by an induction over
a finite set (`FiniteInduction`, from a least counterexample). Hence `ScanStatsCorrectAlways`, also for
the order of targets on the pages.

**`FoodMirrorProofs`** (`MirrorAssumption`). `MirrorInv` is made of `TargetsInv` (targets fit the
mirror, and are sound unless requests crossed), `RequestsInv` (what a request holds and has seen) and
`SyncsInv` (what a sync has read is no younger than the mirror, but for the rows in `newer`).
`TargetsCorrect` alone is not inductive: it says nothing of the copies that requests and syncs will
write. `WritesMirrorAlways` proves the action properties from the same invariant.

**`ListsProofs`** (`CatalogAssumption`, `ShopAssumption`, `PrintAssumption`). `CacheInv`: what a thread
is about to keep is no older than the last clearing unless that crossed it, nor than anything kept
before: a lock is held by one thread (`Alone`), and only its holder loads and keeps (`NotOvertaken`).
`ShopInv`: how each request got where it is (`Way`), what it has counted and was told.
`DashboardCorrectAlways`, `CacheCorrectAlways`, `CatalogsAdvanceAlways`.

`PrintsCorrectAlways` and `OrderKeptAlways` follow from `PrintInv`, for any lists, names, rows, aliases
and overlapping requests. `StoredAsMeant` says nothing of what requests are about to store, hence
`RequestFits`: a request that has read a document holds it whole, and as it is now unless it is stale
(`ReadFits`); the entries it will store are those that are meant (`EntriesFit`); the order it will store
is the stored one, sorted (`OrderFits`); settings are stored from one request on (`SettingsFit`). Which
of these hold before a step depends on its place in the handler (`Prepared`, `Sorted`), and `StepFits`
says, by one table for each handler, that the next step finds what it needs. `FiledWhereShown` and
`OneRowPerOverride` are facts about the operators: `StandsForExists` shows that the recursion over
aliases has a solution, `StandsForIs` that it is the source if no source is renamed, `FiledStays` that
what is filed stays; a stored order has no place twice and no two names of one key.

The proof changed the model three times, each time to what the code does. `Ordered` had kept two names of
one key; the code keeps the first. `Filed` had followed one alias; the code follows chains of them, so
that `FiledWhereShown` needs that no alias is the name of a source. And `ordered_categories` is applied
twice: with a section that only an alias names, `OrderKept` does not hold as it was stated (TLC agrees,
without `named` in `KeepsOrder`), so that it is about sections that a row or an entry names.

**`ActionRunsProofs`** (`RunsAssumption`, which says of old rows that no run of this version made them).
`CallsInv` ties every row to the run that made it and every reservation to what the run saw when it
looked. `SpacedOutAlways` holds for every policy; `CallsCorrectAlways` excludes the policy "5xx", for
which `PolicyKept` is violated (see Divergences). `StatsInv`: as long as the backfill is incomplete
every result still has its row (the purge waits for it); while it runs, the statistics are those of the
rows it has added; from then on, those of all results. That each batch is counted exactly is a fact
about a recursive function over a set. The library's induction takes a predicate as a parameter, which
the provers cannot instantiate, but the induction is provable with a set in its place:
`SubsetInduction` (from a least counterexample) lets `FillExists` show that the function exists and
`FilledKeeps`, `FilledSums` what it computes.

**`ScansProofs`** (`LinksAssumption`, `FeedAssumption`, `StatusAssumption`, `KeysAssumption`).
`LinksCorrectAlways` and `ScansObeyLinksAlways` follow from one invariant, `LinksInv`: besides the
property's own parts, ids are apart (`IdsApart`), a row found without a title has a lookup under way
whose session saw it found (`NakedIsReread`), nothing could bring back a deleted barcode
(`DeletedIsGone`), and what a request read is so still as long as no other crossed it
(`RequestsFit`; without it a request could add a link that it did not see). The lemma that carries
the proof is `UncrossedIsUndisturbed`: a step that writes the row or the links of a barcode crosses
all others busy with it, or changes no more than a label.

`FeedKeptAlways`, `NoneStuckAlways` and `LiveFeedAlways` follow from `FeedInv`, for any number of scans,
clicks and errors: without a twin at most one row is unread (`OneUnread`); an unread row that says
"processing" has a scan that closes it yet (`Closing`); a scan has one row in the history exactly from
the step that adds it (`Recording`); a failure is shown from its insertion on (`Announcing`); once
the barcode is linked every scan under way has a job to route (`Settling`); what a page has shown is
in order (`Showing`). `Closing` was not inductive at first: a scan whose barcode is unlinked while its
notification is read has nothing to route, and looks for its row for the last time before it excuses
itself. A receipt stored after that leaves a "processing" row for good. That takes two clicks, one
more than the run has; `late` had left it out, and `NoneStuck` was false with a larger bound.

`ScannerCorrectAlways` follows from two invariants. `StatusInv`: with at most one heartbeat
unanswered, the last report is as old as the heartbeat that is due, or waits, and the unanswered one
before it allow (`BeatsKeepUp`), and a report that the device is there was stored at most `Life`
after it went (`DeviceFits`). `UnpluggedFades` had been stated with a margin of twice `Life`; the
proof needs it once, and so it is stated now. `KeysInv`: a scan that began apart has the whole
buffer, or nothing of it and what is there will be discarded (`ApartFits`); one that is whole as
well has in the buffer what its draft says (`WholeFits`), key by key (`ReadsOn`), for any layout,
labels and number of lost keys. The first form of `NoneMixed` was about the value that an Enter
posts, and false beyond the bound of its run: Enter has no look at the gap, so the Enter of a scan
that lost all its characters posts those of two hasty scans before it. It is now about the buffer.

**Only model-checked:** all liveness properties (`EventuallyDelivered`, `EventuallyServed`,
`EveryRouteEnds`, `EveryRetryEnds`, `MirrorSettles`, `EveryRunReturns`, `EveryJobFinishes`), since the
provers here have no ENABLED and no fairness rules, and `Reconnects` for the same reason. Every other
property of a passing run is a theorem.

## 6. Not modelled

- Recipes are only read and cached like the lists of `ShoppingLists`. Pages, themes, texts and
  rendering keep no state that several actors change. The firmware is for another compiler, and posts
  scans without a delivery id, which `ScanDelivery` has as other users of the pool.
- How a plan is made of targets and settings (`multitarget.py`), the scores of `fuzzy.py`, and the
  parsing of codes and of product data are choices in the models: functions of one input, which
  unit tests reach.
- The health cache of Mealie holds one value; label profiles and calibration are single rows that one
  form writes; the second job table of `v30_fixes.py` and `rebuild_scan_stats` are never reached.
- The policy of an action is constant while it runs; permissions other than user management are alike.

## 7. Plan

1. `RoutePlan`: which jobs targets and settings give, against a reference definition.
2. An abstract log that is summed once per entry, as the promise of `ScanStats` and `ActionRuns`.
