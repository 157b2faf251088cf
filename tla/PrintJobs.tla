------------------------------ MODULE PrintJobs ------------------------------
(***************************************************************************)
(* Label printing: print jobs (app/routers/runtime_features.py) wait in a  *)
(* bounded queue for the one worker thread, their images spooled on disk;  *)
(* the worker and the other printing APIs share the adapter of the printer *)
(* server and its print lock (app/services/niimblue.py).                   *)
(*                                                                         *)
(* create_print_job runs on the event loop: what it does between two       *)
(* awaits is one step of the requests, but not of the worker.              *)
(***************************************************************************)
EXTENDS Integers, Sequences, FiniteSets, SequencesExt

CONSTANTS
    Jobs,        \* submissions of a print job
    Direct,      \* prints of the other APIs: receipts, single labels
    NoOne,       \* neither: nobody
    Pages,       \* pages of a job
    QueueSize,   \* _JOB_QUEUE.maxsize
    MaxHistory,  \* _MAX_JOB_HISTORY
    Faults,      \* what may go wrong
    MaxFaults,   \* bound: faults of one behaviour
    MaxToggles   \* bound: connections and disconnections of the printer

\* "refused": the printer reports an error; "slow": it takes longer than the
\* HTTP time-out; "disk": a spool cannot be written or read; "memory": a
\* MemoryError, whose text is empty; "database": the print statistics cannot be
\* stored; "crash": B2M stops and is started again.
FaultKinds == {"refused", "slow", "disk", "memory", "database", "crash"}

\* The jobs that have ended. "unsaid": stored and shown as completed, though an
\* error has ended the job (history).
Ended == {"completed", "failed", "unsaid"}

ASSUME JobsAssumption ==
    /\ Jobs \cap Direct = {} /\ NoOne \notin Jobs \cup Direct
    /\ Pages \in Nat \ {0} /\ QueueSize \in Nat \ {0} /\ MaxHistory \in Nat
    /\ Faults \subseteq FaultKinds
    /\ MaxFaults \in Nat /\ MaxToggles \in Nat

VARIABLES
    \* the printer and its server
    connected, \* GET /connected
    streams,   \* the prints it is executing, by who asked for them
    out,       \* per job or direct print: its pages that have come out
    \* the adapter
    lock,      \* the holder of _print_lock
    call,      \* per job or direct print: its call of print_image_base64
    \* print jobs
    req,       \* per submission: the step of create_print_job
    status,    \* _JOBS: "none" when it has no entry
    pages,     \* _JOBS: completed_pages
    history,   \* the finished jobs of _JOBS, by finished_at
    spools,    \* spool files
    queue,     \* _JOB_QUEUE
    started,   \* _WORKER_STARTED
    worker,    \* what the worker thread does
    current,   \* its job
    accepted,  \* history: the jobs answered with 202 since the start
    faults,
    toggles

printer == <<connected, streams, out>>
adapter == <<lock, call>>
table == <<status, pages, history>>
thread == <<worker, current>>
vars == <<printer, adapter, table, thread, req, spools, queue, started,
          accepted, faults, toggles>>

Clients == Jobs \cup Direct

TypeOK ==
    /\ connected \in BOOLEAN
    /\ streams \subseteq Clients
    /\ out \in [Clients -> 0..Pages]
    /\ lock \in Clients \cup {NoOne}
    /\ call \in [Clients -> {"none", "wanted", "locked", "posted", "ok", "error"}]
    /\ req \in [Jobs -> {"none", "checked", "spooling", "spooled", "accepted",
                         "refused"}]
    /\ status \in [Jobs -> {"none", "queued", "running"} \cup Ended]
    /\ pages \in [Jobs -> 0..Pages]
    /\ history \in Seq(Jobs) /\ Len(history) <= MaxHistory
    /\ spools \subseteq Jobs
    /\ queue \in Seq(Jobs) /\ Len(queue) <= QueueSize
    /\ started \in BOOLEAN
    /\ worker \in {"none", "idle", "load", "page", "print", "finish", "mute", "count",
                   "dead"}
    /\ current \in Jobs \cup {NoOne}
    /\ accepted \in Seq(Jobs)
    /\ faults \in 0..MaxFaults /\ toggles \in 0..MaxToggles

Init ==
    /\ connected = TRUE /\ streams = {} /\ out = [c \in Clients |-> 0]
    /\ lock = NoOne /\ call = [c \in Clients |-> "none"]
    /\ req = [j \in Jobs |-> "none"]
    /\ status = [j \in Jobs |-> "none"] /\ pages = [j \in Jobs |-> 0]
    /\ history = <<>> /\ spools = {} /\ queue = <<>>
    /\ started = FALSE /\ worker = "none" /\ current = NoOne
    /\ accepted = <<>>
    /\ faults = 0 /\ toggles = 0

Fault(kind) ==
    /\ kind \in Faults /\ faults < MaxFaults
    /\ faults' = faults + 1

-----------------------------------------------------------------------------
(* The printer, and print_image_base64: the print lock is held from the    *)
(* check of the connection to the answer of POST /print.                   *)

\* The user, the printer's battery or another program.
Toggle ==
    /\ toggles < MaxToggles /\ toggles' = toggles + 1
    /\ connected' = ~connected
    /\ UNCHANGED <<streams, out, adapter, table, thread, req, spools, queue,
                   started, accepted, faults>>

Acquire(c) ==
    /\ call[c] = "wanted" /\ lock = NoOne
    /\ IF connected
          THEN lock' = c /\ call' = [call EXCEPT ![c] = "locked"]
          ELSE call' = [call EXCEPT ![c] = "error"] /\ UNCHANGED lock
    /\ UNCHANGED <<printer, table, thread, req, spools, queue, started, accepted,
                   faults, toggles>>

\* The printer server answers with an error when it has lost the printer.
Post(c) ==
    /\ call[c] = "locked"
    /\ IF connected
          THEN /\ streams' = streams \cup {c}
               /\ call' = [call EXCEPT ![c] = "posted"] /\ UNCHANGED lock
          ELSE /\ call' = [call EXCEPT ![c] = "error"] /\ lock' = NoOne
               /\ UNCHANGED streams
    /\ UNCHANGED <<connected, out, table, thread, req, spools, queue, started,
                   accepted, faults, toggles>>

\* The answer to a client that is still there ends its call.
Answer(c, result) ==
    IF call[c] = "posted"
       THEN call' = [call EXCEPT ![c] = result] /\ lock' = NoOne
       ELSE UNCHANGED adapter

Printed(c) ==
    /\ c \in streams
    /\ streams' = streams \ {c}
    /\ out' = [out EXCEPT ![c] = @ + 1]
    /\ Answer(c, "ok")
    /\ UNCHANGED <<connected, table, thread, req, spools, queue, started, accepted,
                   faults, toggles>>

\* An error of the printer or a lost connection, maybe after the page was out.
PrintFails(c) ==
    /\ c \in streams
    /\ streams' = streams \ {c}
    /\ \E more \in 0..1 : out' = [out EXCEPT ![c] = @ + more]
    /\ Answer(c, "error")
    /\ \/ Fault("refused")
       \/ ~connected /\ UNCHANGED faults
    /\ UNCHANGED <<connected, table, thread, req, spools, queue, started, accepted,
                   toggles>>

\* The printer server goes on with a print nobody waits for.
TimesOut(c) ==
    /\ call[c] = "posted"
    /\ call' = [call EXCEPT ![c] = "error"] /\ lock' = NoOne
    /\ Fault("slow")
    /\ UNCHANGED <<printer, table, thread, req, spools, queue, started, accepted,
                   toggles>>

\* b21_print, labels_niim_print, the shopping receipt.
PrintDirect(d) ==
    /\ call[d] = "none"
    /\ call' = [call EXCEPT ![d] = "wanted"]
    /\ UNCHANGED <<printer, lock, table, thread, req, spools, queue, started,
                   accepted, faults, toggles>>

-----------------------------------------------------------------------------
(* create_print_job.                                                       *)

\* await printer_status.
CheckPrinter(j) ==
    /\ req[j] = "none"
    /\ req' = [req EXCEPT ![j] = IF connected THEN "checked" ELSE "refused"]
    /\ UNCHANGED <<printer, adapter, table, thread, spools, queue, started, accepted,
                   faults, toggles>>

\* Mutant: the directory is not cleared.
EnsureWorkerFirst ==
    IF started
       THEN UNCHANGED <<started, worker, spools>>
       ELSE started' = TRUE /\ worker' = "idle" /\ UNCHANGED spools

\* _ensure_print_worker removes the spools of an earlier run of B2M.
EnsureWorker ==
    IF started
       THEN UNCHANGED <<started, worker, spools>>
       ELSE started' = TRUE /\ worker' = "idle" /\ spools' = {}

Admit(j) ==
    /\ req[j] = "checked"
    /\ EnsureWorker
    /\ req' = [req EXCEPT ![j] = IF Len(queue) = QueueSize THEN "refused" ELSE "spooling"]
    /\ UNCHANGED <<printer, adapter, table, current, queue, accepted, faults, toggles>>

WriteSpool(j) ==
    /\ req[j] = "spooling"
    /\ \/ /\ spools' = spools \cup {j}
          /\ req' = [req EXCEPT ![j] = "spooled"] /\ UNCHANGED faults
       \/ /\ Fault("disk")
          /\ req' = [req EXCEPT ![j] = "refused"] /\ UNCHANGED spools
    /\ UNCHANGED <<printer, adapter, table, thread, queue, started, accepted, toggles>>

\* _trim_job_history_locked, once `finished' are the jobs that have ended.
Trim(finished, statuses) ==
    LET excess == IF Len(finished) > MaxHistory THEN Len(finished) - MaxHistory ELSE 0
        dropped == {finished[i] : i \in 1..excess}
    IN  /\ history' = SubSeq(finished, excess + 1, Len(finished))
        /\ status' = [j \in Jobs |-> IF j \in dropped THEN "none" ELSE statuses[j]]

\* The queue may have filled up while the spool was written.
Enqueue(j) ==
    /\ req[j] = "spooled"
    /\ IF Len(queue) < QueueSize
          THEN /\ queue' = Append(queue, j) /\ accepted' = Append(accepted, j)
               /\ Trim(history, [status EXCEPT ![j] = "queued"])
               /\ req' = [req EXCEPT ![j] = "accepted"] /\ UNCHANGED spools
          ELSE /\ Trim(history, status)
               /\ req' = [req EXCEPT ![j] = "refused"] /\ spools' = spools \ {j}
               /\ UNCHANGED <<queue, accepted>>
    /\ UNCHANGED <<printer, adapter, pages, thread, started, faults, toggles>>

-----------------------------------------------------------------------------
(* _printer_worker and _run_print_job.                                     *)

Take ==
    /\ worker = "idle" /\ queue # <<>>
    /\ LET j == Head(queue) IN
         /\ queue' = Tail(queue) /\ current' = j
         /\ IF status[j] = "none"
               THEN UNCHANGED <<worker, status>>
               ELSE worker' = "load" /\ status' = [status EXCEPT ![j] = "running"]
    /\ UNCHANGED <<printer, adapter, pages, history, req, spools, started, accepted,
                   faults, toggles>>

LoadSpool ==
    /\ worker = "load"
    /\ spools' = spools \ {current}
    /\ \/ worker' = (IF current \in spools THEN "page" ELSE "finish") /\ UNCHANGED faults
       \/ worker' = "finish" /\ Fault("disk")
    /\ UNCHANGED <<printer, adapter, table, current, req, queue, started, accepted,
                   toggles>>

PrintPage ==
    /\ worker = "page" /\ pages[current] < Pages
    /\ worker' = "print" /\ call' = [call EXCEPT ![current] = "wanted"]
    /\ UNCHANGED <<printer, lock, table, current, req, spools, queue, started,
                   accepted, faults, toggles>>

\* Mutant: the worker drops a job whose page has failed.
PageDoneOrDropped ==
    /\ worker = "print" /\ call[current] \in {"ok", "error"}
    /\ IF call[current] = "ok"
          THEN worker' = "page" /\ pages' = [pages EXCEPT ![current] = @ + 1]
          ELSE worker' = "idle" /\ UNCHANGED pages
    /\ UNCHANGED <<printer, adapter, status, history, current, req, spools, queue,
                   started, accepted, faults, toggles>>

PageDone ==
    /\ worker = "print" /\ call[current] \in {"ok", "error"}
    /\ IF call[current] = "ok"
          THEN worker' = "page" /\ pages' = [pages EXCEPT ![current] = @ + 1]
          ELSE worker' = "finish" /\ UNCHANGED pages
    /\ UNCHANGED <<printer, adapter, status, history, current, req, spools, queue,
                   started, accepted, faults, toggles>>

\* The spool or a page does not fit into memory.
OutOfMemory ==
    /\ \/ worker = "load"
       \/ worker = "page" /\ pages[current] < Pages
    /\ Fault("memory")
    /\ worker' = "mute" /\ spools' = spools \ {current}
    /\ UNCHANGED <<printer, adapter, table, current, req, queue, started, accepted,
                   toggles>>

\* A job has failed if its error has a text.
Result == IF worker = "finish" THEN "failed"
          ELSE IF worker = "mute" THEN "unsaid" ELSE "completed"

\* An error has ended the loop over the pages, or all are printed.
FinishJob ==
    /\ \/ worker \in {"finish", "mute"}
       \/ worker = "page" /\ pages[current] = Pages
    /\ worker' = "count"
    /\ Trim(Append(history, current), [status EXCEPT ![current] = Result])
    /\ UNCHANGED <<printer, adapter, pages, current, req, spools, queue, started,
                   accepted, faults, toggles>>

\* _record_print_stats: nothing catches its error, and the thread ends.
CountJob ==
    /\ worker = "count" /\ current' = NoOne
    /\ \/ worker' = "idle" /\ UNCHANGED faults
       \/ worker' = "dead" /\ Fault("database")
    /\ UNCHANGED <<printer, adapter, table, req, spools, queue, started, accepted,
                   toggles>>

\* The printer and the spool files survive, what B2M has in memory does not.
Crash ==
    /\ Fault("crash")
    /\ lock' = NoOne /\ call' = [c \in Clients |-> IF call[c] = "none" THEN "none" ELSE "error"]
    /\ req' = [j \in Jobs |-> IF req[j] = "none" THEN "none" ELSE "refused"]
    /\ status' = [j \in Jobs |-> "none"] /\ pages' = [j \in Jobs |-> 0] /\ history' = <<>>
    /\ queue' = <<>> /\ started' = FALSE /\ worker' = "none" /\ current' = NoOne
    /\ accepted' = <<>>
    /\ UNCHANGED <<printer, spools, toggles>>

Submission(j) == CheckPrinter(j) \/ Admit(j) \/ WriteSpool(j) \/ Enqueue(j)

Worker == Take \/ LoadSpool \/ PrintPage \/ PageDone \/ FinishJob \/ CountJob

Printing(c) == Acquire(c) \/ Post(c) \/ Printed(c)

Next ==
    \/ Toggle \/ Worker \/ OutOfMemory \/ Crash
    \/ \E c \in Clients : Printing(c) \/ PrintFails(c) \/ TimesOut(c)
    \/ \E d \in Direct : PrintDirect(d)
    \/ \E j \in Jobs : Submission(j)

Spec == Init /\ [][Next]_vars

\* B2M's threads go on, and the printer ends every print it has begun.
FairSpec ==
    /\ Spec
    /\ WF_vars(Worker)
    /\ \A c \in Clients : WF_vars(Printing(c))
    /\ \A j \in Jobs : WF_vars(req[j] # "none" /\ Submission(j))

-----------------------------------------------------------------------------
(* The state of a job never claims more than the printer has done: its     *)
(* completed_pages have come out, and a completed job has printed all,     *)
(* unless an error without a text has ended it.                            *)
ReportedIsPrinted ==
    \A j \in Jobs : /\ status[j] # "none" => pages[j] <= out[j]
                    /\ status[j] = "completed" => out[j] = Pages

(* _trim_job_history_locked never removes the entry of a job that waits or *)
(* is being printed, so that its client can follow it, and what it removes *)
(* is a job with a result.                                                 *)
JobsKept ==
    /\ \A i \in DOMAIN queue : status[queue[i]] = "queued"
    /\ worker \in {"load", "page", "print", "finish", "mute"} => status[current] = "running"
    /\ {j \in Jobs : status[j] \in Ended} = ToSet(history)

(* Spool files: every job that waits for the worker has its own, also when *)
(* the first submission after a restart clears the directory, and none is  *)
(* left behind by a job that was refused, printed or has failed.           *)
SpoolsInUse ==
    started =>
        spools = ToSet(queue) \cup {j \in Jobs : req[j] = "spooled"}
                     \cup {j \in {current} : worker = "load"}

(* The one worker prints the jobs in the order they were accepted.         *)
InOrder ==
    \A i, k \in DOMAIN accepted :
        i < k /\ status[accepted[i]] = "queued" => status[accepted[k]] = "queued"

(* The print lock: of all the APIs, only one waits for a print at a time,   *)
(* so that prints overlap only after a time-out or a restart.              *)
OneAtATime == Cardinality({c \in streams : call[c] = "posted"}) <= 1

(* The queue, its files, its history and the printer agree                 *)
(* (runtime_features.py, the b21 jobs).                                    *)
JobsCorrect ==
    /\ TypeOK /\ ReportedIsPrinted /\ JobsKept /\ SpoolsInUse /\ InOrder
    /\ OneAtATime

(* A job that is queued is completed or fails, unless B2M stops or an      *)
(* error of the database has ended the worker thread: the worker serves    *)
(* the queue whatever happens to a single job.                             *)
EveryJobFinishes ==
    \A j \in Jobs :
        status[j] = "queued"
            ~> status[j] \notin {"queued", "running"} \/ worker = "dead"

-----------------------------------------------------------------------------
(* What the sources say and the code does not keep (README, Divergences):  *)
(* after a time-out, and after an error without a text.                    *)

(* niimblue.py:22-24: "A physical printer can execute only one print       *)
(* stream at a time. Keep this at the adapter layer so queued label jobs,  *)
(* shopping receipts and direct print requests can never race each other   *)
(* even if they arrive through different APIs."                            *)
OneStream == Cardinality(streams) <= 1

(* niimblue_batch_v30.py:82-84: "a lost response does not prove that the   *)
(* printer stopped. Callers must ask the user to inspect the output before *)
(* retrying, to avoid duplicate labels." A job that is called failed has   *)
(* stopped, and has printed what it says.                                  *)
FailedHasStopped ==
    \A j \in Jobs : status[j] = "failed" => j \notin streams /\ out[j] = pages[j]

(* runtime_features.py:321: a job whose error has no text is "completed",  *)
(* also if nothing of it was printed.                                      *)
CompletedIsPrinted ==
    \A j \in Jobs : status[j] \in {"completed", "unsaid"} => out[j] = Pages
=============================================================================
