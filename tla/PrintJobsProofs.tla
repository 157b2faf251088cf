-------------------------- MODULE PrintJobsProofs --------------------------
(***************************************************************************)
(* What holds of print jobs for any number of jobs, direct prints, pages   *)
(* and faults, and any size of queue and history.                          *)
(***************************************************************************)
EXTENDS PrintJobs, SequenceTheorems, FiniteSetTheorems, TLAPS

\* A call under way holds the lock from its check of the printer on, and a
\* print that nobody waits for has been given up. No print is begun beyond the
\* last page.
CallInv ==
    \A c \in Clients :
        /\ call[c] \in {"locked", "posted"} => lock = c
        /\ call[c] = "posted" => c \in streams
        /\ call[c] \notin {"posted", "error"} => c \notin streams
        /\ c \in streams => out[c] < Pages
        /\ call[c] = "none" => out[c] = 0
        /\ c \in Direct /\ call[c] \in {"wanted", "locked", "posted"} => out[c] = 0

\* A job prints a page after the other, and only the worker's job prints.
PageInv ==
    \A j \in Jobs :
        /\ pages[j] <= out[j]
        /\ status[j] = "completed" => out[j] = Pages
        /\ call[j] \in {"wanted", "locked", "posted"} =>
               /\ worker = "print" /\ current = j
               /\ pages[j] = out[j] /\ out[j] < Pages
        /\ call[j] = "ok" => IF worker = "print" /\ current = j
                             THEN out[j] = pages[j] + 1 ELSE out[j] = pages[j]
        /\ req[j] \in {"none", "checked", "spooling", "spooled"}
               \/ status[j] = "queued" => call[j] = "none"

Serving == {"load", "page", "print", "finish", "mute"}

\* The worker and its job.
WorkerInv ==
    /\ worker \in Serving \cup {"count"} => current \in Jobs
    /\ worker \in Serving => status[current] = "running"
    /\ worker = "load" => call[current] = "none"
    /\ worker = "page" => call[current] \in {"none", "ok"}
    /\ started <=> worker # "none"
    /\ ~started => queue = <<>> /\ \A j \in Jobs : req[j] \notin {"spooling", "spooled"}

\* No member of a sequence comes twice.
Once(s) == \A i, k \in 1..Len(s) : s[i] = s[k] => i = k

\* The queue is what is left of the jobs that were accepted; the table says in
\* which of the sequences a job is.
QueueInv ==
    /\ Once(history) /\ Once(accepted)
    /\ Len(queue) <= Len(accepted)
    /\ \A i \in 1..Len(queue) : queue[i] = accepted[Len(accepted) - Len(queue) + i]
    /\ \A j \in Jobs :
           /\ status[j] = "queued" <=> \E i \in 1..Len(queue) : queue[i] = j
           /\ status[j] \in Ended <=> \E i \in 1..Len(history) : history[i] = j

\* A job is being printed only while the worker serves it, and a job with an entry
\* has been accepted.
EntryInv ==
    /\ \A j \in Jobs :
           /\ status[j] = "running" => worker \in Serving /\ current = j
           /\ req[j] # "accepted" => status[j] = "none"
    /\ \A i \in 1..Len(accepted) : accepted[i] \in Jobs /\ req[accepted[i]] = "accepted"

\* A spool is that of a queued job, of one about to be queued, or of the one that
\* the worker is about to load.
SpoolInv ==
    started =>
        \A j \in Jobs : j \in spools <=> \/ status[j] = "queued"
                                        \/ req[j] = "spooled"
                                        \/ (worker = "load" /\ current = j)

IInv == TypeOK /\ CallInv /\ PageInv /\ WorkerInv /\ QueueInv /\ EntryInv /\ SpoolInv

-----------------------------------------------------------------------------
USE JobsAssumption

\* What trimming leaves of the jobs that have ended, and of their states.
LEMMA TrimKeeps ==
    ASSUME NEW f \in Seq(Jobs), Once(f),
           NEW s \in [Jobs -> {"none", "queued", "running"} \cup Ended],
           \A j \in Jobs : s[j] \in Ended <=> \E i \in 1..Len(f) : f[i] = j,
           Trim(f, s)
    PROVE  /\ history' \in Seq(Jobs) /\ Len(history') <= MaxHistory /\ Once(history')
           /\ status' \in [Jobs -> {"none", "queued", "running"} \cup Ended]
           /\ \A j \in Jobs : status'[j] \in {s[j], "none"}
           /\ \A j \in Jobs : s[j] \notin Ended => status'[j] = s[j]
           /\ \A j \in Jobs :
                  status'[j] \in Ended <=> \E i \in 1..Len(history') : history'[i] = j
<1> DEFINE excess == IF Len(f) > MaxHistory THEN Len(f) - MaxHistory ELSE 0
           dropped == {f[i] : i \in 1..excess}
<1>1. /\ Len(f) \in Nat /\ excess \in Nat /\ excess <= Len(f)
      /\ Len(f) - excess <= MaxHistory
      /\ \A i \in 1..Len(f) : f[i] \in Jobs
  BY LenProperties, ElementOfSeq
<1>2. /\ history' = SubSeq(f, excess + 1, Len(f))
      /\ status' = [j \in Jobs |-> IF j \in dropped THEN "none" ELSE s[j]]
  BY DEF Trim
<1> HIDE DEF excess
<1>3. /\ history' \in Seq(Jobs)
      /\ Len(history') = Len(f) - excess
      /\ \A i \in 1..(Len(f) - excess) : history'[i] = f[excess + i]
  <2>1. \A i \in (excess + 1)..Len(f) : f[i] \in Jobs
    BY <1>1
  <2>2. /\ SubSeq(f, excess + 1, Len(f)) \in Seq(Jobs)
        /\ Len(SubSeq(f, excess + 1, Len(f)))
               = IF excess + 1 <= Len(f) THEN Len(f) - (excess + 1) + 1 ELSE 0
        /\ \A i \in 1..(Len(f) - (excess + 1) + 1) :
               SubSeq(f, excess + 1, Len(f))[i] = f[excess + 1 + i - 1]
    BY <1>1, <2>1, SubSeqProperties
  <2>3. QED
    BY <1>1, <1>2, <2>2
<1>4. Once(history')
  BY <1>1, <1>3 DEF Once
<1>5. \A i \in 1..Len(f) : f[i] \in dropped <=> i <= excess
  BY <1>1 DEF Once
<1>6. ASSUME NEW j \in Jobs
      PROVE  /\ j \in dropped => s[j] \in Ended
             /\ status'[j] \in Ended <=> \E i \in 1..Len(history') : history'[i] = j
  <2>1. j \in dropped => \E i \in 1..Len(f) : f[i] = j
    BY <1>1
  <2>2. ASSUME status'[j] \in Ended PROVE \E i \in 1..Len(history') : history'[i] = j
    <3>1. j \notin dropped /\ s[j] \in Ended
      BY <1>2, <2>2 DEF Ended
    <3>2. PICK i \in 1..Len(f) : f[i] = j
      BY <3>1
    <3>3. i > excess
      BY <1>1, <1>5, <3>1, <3>2
    <3>4. i - excess \in 1..Len(history') /\ history'[i - excess] = j
      BY <1>1, <1>3, <3>2, <3>3
    <3>5. QED
      BY <3>4
  <2>3. ASSUME NEW i \in 1..Len(history'), history'[i] = j PROVE status'[j] \in Ended
    <3>1. excess + i \in 1..Len(f) /\ f[excess + i] = j /\ ~(excess + i <= excess)
      BY <1>1, <1>3, <2>3
    <3>2. j \notin dropped
      BY <1>5, <3>1
    <3>3. QED
      BY <1>2, <3>1, <3>2
  <2>4. QED
    BY <2>1, <2>2, <2>3
<1>7. QED
  BY <1>1, <1>2, <1>3, <1>4, <1>6 DEF Ended

\* What Append does, by index.
LEMMA Appended ==
    ASSUME NEW s \in Seq(Jobs), NEW j \in Jobs
    PROVE  /\ Append(s, j) \in Seq(Jobs) /\ Len(Append(s, j)) = Len(s) + 1
           /\ Len(s) \in Nat
           /\ \A i \in 1..Len(s) : Append(s, j)[i] = s[i]
           /\ Append(s, j)[Len(s) + 1] = j
           /\ \A i \in 1..Len(Append(s, j)) : i \in 1..Len(s) \/ i = Len(s) + 1
<1>1. /\ Append(s, j) \in Seq(Jobs) /\ Len(Append(s, j)) = Len(s) + 1
      /\ Len(s) \in Nat
  BY AppendProperties, LenProperties
<1>2. (\A i \in 1..Len(s) : Append(s, j)[i] = s[i]) /\ Append(s, j)[Len(s) + 1] = j
  BY AppendProperties
<1>3. QED
  BY <1>1, <1>2

-----------------------------------------------------------------------------
(* Steps that leave some of the state alone.                               *)

LEMMA QueueKept ==
    ASSUME QueueInv, UNCHANGED <<queue, accepted, history, status>> PROVE QueueInv'
BY DEF QueueInv, Once

LEMMA EntryKept ==
    ASSUME EntryInv, UNCHANGED <<accepted, status, req, worker, current>> PROVE EntryInv'
BY DEF EntryInv

LEMMA SpoolKept ==
    ASSUME SpoolInv, UNCHANGED <<started, spools, status, req, worker, current>>
    PROVE  SpoolInv'
BY DEF SpoolInv

LEMMA CallKept ==
    ASSUME CallInv, UNCHANGED <<call, lock, streams, out>> PROVE CallInv'
BY DEF CallInv

LEMMA PageKept ==
    ASSUME PageInv, UNCHANGED <<call, pages, out, status, worker, current, req>>
    PROVE  PageInv'
BY DEF PageInv

LEMMA WorkerKept ==
    ASSUME WorkerInv, UNCHANGED <<worker, current, status, call, started, queue, req>>
    PROVE  WorkerInv'
BY DEF WorkerInv

-----------------------------------------------------------------------------
(* The printer and its adapter.                                            *)

LEMMA ToggleStep == ASSUME IInv, Toggle PROVE IInv'
<1>1. TypeOK'
  BY DEF IInv, TypeOK, Toggle, adapter, table, thread
<1>2. UNCHANGED <<streams, out, lock, call, status, pages, history, worker, current,
                  req, spools, queue, started, accepted>>
  BY DEF Toggle, adapter, table, thread
<1>3. QED
  BY <1>1, <1>2, QueueKept, EntryKept, SpoolKept, CallKept, PageKept, WorkerKept DEF IInv

\* A call goes on for the job that the worker prints, and changes nothing else.
Effect(c) ==
    /\ UNCHANGED <<status, pages, history, worker, current, req, spools, queue, started,
                   accepted, toggles>>
    /\ faults' \in 0..MaxFaults
    /\ connected' = connected
    /\ \E k \in {"wanted", "locked", "posted", "ok", "error"}, n \in 0..Pages :
           /\ call' = [call EXCEPT ![c] = k]
           /\ out' = [out EXCEPT ![c] = n]
           /\ out[c] <= n
           /\ k # call[c] => k # "wanted" /\ call[c] \in {"wanted", "locked", "posted"}
           /\ call[c] \in {"wanted", "locked", "posted", "error"}
           /\ n # out[c] => call[c] \in {"posted", "error"} /\ k \in {"ok", "error"}
           /\ k \in {"locked", "posted"} => n = out[c] /\ lock' = c
           /\ k = "posted" => c \in streams'
           /\ k \notin {"posted", "error"} => c \notin streams'
           /\ k = "ok" => n = out[c] + 1
           /\ c \in streams' => n < Pages
    /\ streams' \ {c} = streams \ {c} /\ streams' \subseteq Clients
    /\ lock' \in Clients \cup {NoOne}
    /\ lock' # lock => lock \in {c, NoOne}

LEMMA CallEffect ==
    ASSUME IInv, NEW c \in Clients, Printing(c) \/ PrintFails(c) \/ TimesOut(c)
    PROVE  Effect(c)
<1> USE DEF IInv, printer, adapter, table, thread, Effect
<1>0. /\ call[c] \in {"none", "wanted", "locked", "posted", "ok", "error"}
      /\ out[c] \in 0..Pages /\ streams \subseteq Clients /\ faults \in 0..MaxFaults
      /\ Pages \in Nat /\ MaxFaults \in Nat
      /\ lock \in Clients \cup {NoOne}
      /\ out = [out EXCEPT ![c] = out[c]] /\ call = [call EXCEPT ![c] = call[c]]
  BY DEF TypeOK
<1>1. CASE Acquire(c)
  BY <1>0, <1>1 DEF CallInv, PageInv, Acquire, Clients
<1>2. CASE Post(c)
  BY <1>0, <1>2 DEF CallInv, PageInv, Post, Clients
<1>3. ASSUME c \in streams, streams' = streams \ {c},
             NEW more \in 0..1, out' = [out EXCEPT ![c] = @ + more],
             NEW result \in {"ok", "error"}, result = "ok" => more = 1,
             Answer(c, result), faults' \in 0..MaxFaults,
             UNCHANGED <<connected, table, thread, req, spools, queue, started, accepted,
                         toggles>>
      PROVE  Effect(c)
  <2>1. /\ call[c] \in {"posted", "error"} /\ out[c] < Pages
        /\ call[c] = "posted" => lock = c
    BY <1>0, <1>3 DEF CallInv
  <2>2. /\ out[c] + more \in 0..Pages /\ out[c] <= out[c] + more
        /\ out' = [out EXCEPT ![c] = out[c] + more]
        /\ result = "ok" => out[c] + more = out[c] + 1
    BY <1>0, <1>3, <2>1
  <2>3. c \notin streams' /\ streams' \ {c} = streams \ {c} /\ streams' \subseteq Clients
    BY <1>0, <1>3
  <2> HIDE DEF IInv
  <2>4. CASE call[c] = "posted"
    <3>1. call' = [call EXCEPT ![c] = result] /\ lock' = NoOne
      BY <1>3, <2>4 DEF Answer
    <3>2. QED
      BY <1>0, <1>3, <2>1, <2>2, <2>3, <2>4, <3>1
  <2>5. CASE call[c] = "error"
    <3>1. call' = [call EXCEPT ![c] = "error"] /\ lock' = lock
      BY <1>0, <1>3, <2>5 DEF Answer
    <3>2. QED
      BY <1>0, <1>3, <2>1, <2>2, <2>3, <2>5, <3>1
  <2>6. QED
    BY <2>1, <2>4, <2>5
<1>3a. CASE Printed(c)
  <2>1. PICK more \in 0..1 : more = 1 /\ out' = [out EXCEPT ![c] = @ + more]
    BY <1>3a DEF Printed
  <2>2. c \in streams /\ streams' = streams \ {c} /\ Answer(c, "ok") /\ faults' \in 0..MaxFaults
    BY <1>0, <1>3a DEF Printed
  <2>3. QED
    BY <1>3, <1>3a, <2>1, <2>2 DEF Printed
<1>4. CASE PrintFails(c)
  <2>1. PICK more \in 0..1 : out' = [out EXCEPT ![c] = @ + more]
    BY <1>4 DEF PrintFails
  <2>2. faults' \in 0..MaxFaults
    BY <1>0, <1>4 DEF PrintFails, Fault
  <2>3. QED
    BY <1>3, <1>4, <2>1, <2>2 DEF PrintFails
<1>5. CASE TimesOut(c)
  BY <1>0, <1>5 DEF CallInv, PageInv, TimesOut, Fault, Clients
<1>6. QED
  BY <1>1, <1>2, <1>3a, <1>4, <1>5 DEF Printing

LEMMA CallStep ==
    ASSUME IInv, NEW c \in Clients, Effect(c) PROVE IInv'
<1>1. PICK k \in {"wanted", "locked", "posted", "ok", "error"}, n \in 0..Pages :
        /\ call' = [call EXCEPT ![c] = k] /\ out' = [out EXCEPT ![c] = n]
        /\ out[c] <= n
        /\ k # call[c] => k # "wanted" /\ call[c] \in {"wanted", "locked", "posted"}
        /\ call[c] \in {"wanted", "locked", "posted", "error"}
        /\ n # out[c] => call[c] \in {"posted", "error"} /\ k \in {"ok", "error"}
        /\ k \in {"locked", "posted"} => n = out[c] /\ lock' = c
        /\ k = "posted" => c \in streams'
        /\ k \notin {"posted", "error"} => c \notin streams'
        /\ k = "ok" => n = out[c] + 1
        /\ c \in streams' => n < Pages
  BY DEF Effect
<1>2. /\ UNCHANGED <<status, pages, history, worker, current, req, spools, queue, started,
                      accepted, toggles, connected>>
      /\ faults' \in 0..MaxFaults
      /\ streams' \ {c} = streams \ {c} /\ streams' \subseteq Clients
      /\ lock' \in Clients \cup {NoOne}
      /\ lock' # lock => lock \in {c, NoOne}
  BY DEF Effect
<1>3. /\ call \in [Clients -> {"none", "wanted", "locked", "posted", "ok", "error"}]
      /\ out \in [Clients -> 0..Pages] /\ Pages \in Nat
      /\ NoOne \notin Clients /\ Jobs \subseteq Clients /\ Jobs \cap Direct = {}
      /\ pages \in [Jobs -> 0..Pages]
      /\ CallInv /\ PageInv /\ WorkerInv
  BY DEF IInv, TypeOK, Clients
<1>4. /\ call' \in [Clients -> {"none", "wanted", "locked", "posted", "ok", "error"}]
      /\ out' \in [Clients -> 0..Pages]
      /\ call'[c] = k /\ out'[c] = n
      /\ \A d \in Clients : d # c => call'[d] = call[d] /\ out'[d] = out[d]
                                      /\ (d \in streams' <=> d \in streams)
  BY <1>1, <1>2, <1>3
<1>5. TypeOK'
  BY <1>2, <1>4 DEF IInv, TypeOK
<1>6. CallInv'
  <2>1. ASSUME NEW d \in Clients, d # c
        PROVE  call[d] \in {"locked", "posted"} => lock' = d
    BY <1>2, <1>3, <2>1 DEF CallInv
  <2>2. c \in Direct /\ k \in {"wanted", "locked", "posted"} => n = 0
    BY <1>1, <1>3 DEF CallInv
  <2>3. QED
    BY <1>1, <1>3, <1>4, <2>1, <2>2 DEF CallInv
<1>7. PageInv'
  BY <1>1, <1>2, <1>3, <1>4 DEF PageInv
<1>8. WorkerInv'
  BY <1>1, <1>2, <1>3, <1>4 DEF WorkerInv, PageInv
<1>9. QueueInv' /\ EntryInv' /\ SpoolInv'
  BY <1>2, QueueKept, EntryKept, SpoolKept DEF IInv
<1>10. QED
  BY <1>5, <1>6, <1>7, <1>8, <1>9 DEF IInv

LEMMA DirectStep ==
    ASSUME IInv, NEW d \in Direct, PrintDirect(d) PROVE IInv'
<1> USE DEF Clients
<1>1. /\ call[d] = "none" /\ call' = [call EXCEPT ![d] = "wanted"]
      /\ UNCHANGED <<connected, streams, out, lock, status, pages, history, worker,
                      current, req, spools, queue, started, accepted, faults, toggles>>
  BY DEF PrintDirect, printer, table, thread
<1>2. TypeOK'
  BY <1>1 DEF IInv, TypeOK
<1>3. CallInv' /\ PageInv'
  BY <1>1 DEF IInv, TypeOK, CallInv, PageInv
<1>4. WorkerInv'
  BY <1>1 DEF IInv, TypeOK, WorkerInv, Serving
<1>5. QueueInv' /\ EntryInv' /\ SpoolInv'
  BY <1>1, QueueKept, EntryKept, SpoolKept DEF IInv
<1>6. QED
  BY <1>2, <1>3, <1>4, <1>5 DEF IInv

-----------------------------------------------------------------------------
(* create_print_job.                                                       *)

\* What a step of a submission leaves alone.
Apart ==
    UNCHANGED <<connected, streams, out, lock, call, pages, current, toggles>>

LEMMA CheckStep ==
    ASSUME IInv, NEW j \in Jobs, CheckPrinter(j) PROVE IInv'
<1>1. PICK r \in {"checked", "refused"} :
        /\ req[j] = "none" /\ req' = [req EXCEPT ![j] = r]
        /\ Apart
        /\ UNCHANGED <<status, history, worker, spools, queue, started, accepted, faults>>
  BY DEF CheckPrinter, Apart, printer, adapter, table, thread
<1>2. req \in [Jobs -> {"none", "checked", "spooling", "spooled", "accepted", "refused"}]
  BY DEF IInv, TypeOK
<1>3. TypeOK'
  BY <1>1, <1>2 DEF IInv, TypeOK, Apart
<1>4. CallInv' /\ PageInv'
  BY <1>1, <1>2, CallKept DEF IInv, PageInv, Apart
<1>5. WorkerInv'
  BY <1>1, <1>2 DEF IInv, WorkerInv, Apart
<1>6. QueueInv' /\ EntryInv'
  BY <1>1, <1>2, QueueKept DEF IInv, EntryInv, Apart
<1>7. SpoolInv'
  BY <1>1, <1>2 DEF IInv, SpoolInv, Apart
<1>8. QED
  BY <1>3, <1>4, <1>5, <1>6, <1>7 DEF IInv

LEMMA AdmitStep ==
    ASSUME IInv, NEW j \in Jobs, Admit(j) PROVE IInv'
<1>1. PICK r \in {"spooling", "refused"} :
        /\ req[j] = "checked" /\ req' = [req EXCEPT ![j] = r]
        /\ Apart
        /\ UNCHANGED <<status, history, queue, accepted, faults>>
        /\ started' = TRUE
        /\ IF started THEN worker' = worker /\ spools' = spools
                      ELSE worker' = "idle" /\ spools' = {}
  BY DEF Admit, EnsureWorker, Apart, printer, adapter, table, IInv, TypeOK
<1>2. /\ req \in [Jobs -> {"none", "checked", "spooling", "spooled", "accepted", "refused"}]
      /\ worker \in {"none", "idle", "load", "page", "print", "finish", "mute", "count", "dead"}
      /\ started \in BOOLEAN
  BY DEF IInv, TypeOK
<1>3. TypeOK'
  BY <1>1, <1>2 DEF IInv, TypeOK, Apart
<1>4. ~started => worker = "none" /\ \A k \in Jobs : /\ req[k] \notin {"spooling", "spooled"}
                                                    /\ status[k] # "queued"
  BY <1>2 DEF IInv, WorkerInv, QueueInv
<1>5. CallInv' /\ PageInv'
  BY <1>1, <1>2, <1>4, CallKept DEF IInv, PageInv, Apart
<1>6. WorkerInv'
  BY <1>1, <1>2 DEF IInv, WorkerInv, Apart, Serving
<1>7. QueueInv'
  BY <1>1, QueueKept DEF IInv
<1>8. EntryInv'
  BY <1>1, <1>2, <1>4 DEF IInv, EntryInv, Apart, Serving
<1>9. SpoolInv'
  BY <1>1, <1>2, <1>4 DEF IInv, SpoolInv, Apart
<1>10. QED
  BY <1>3, <1>5, <1>6, <1>7, <1>8, <1>9 DEF IInv

LEMMA WriteStep ==
    ASSUME IInv, NEW j \in Jobs, WriteSpool(j) PROVE IInv'
<1>1. PICK r \in {"spooled", "refused"} :
        /\ req[j] = "spooling" /\ req' = [req EXCEPT ![j] = r]
        /\ Apart
        /\ UNCHANGED <<status, history, worker, queue, started, accepted>>
        /\ spools' = (IF r = "spooled" THEN spools \cup {j} ELSE spools)
  BY DEF WriteSpool, Apart, printer, adapter, table, thread
<1>2. /\ req \in [Jobs -> {"none", "checked", "spooling", "spooled", "accepted", "refused"}]
      /\ started \in BOOLEAN
  BY DEF IInv, TypeOK
<1>3. faults' \in 0..MaxFaults
  BY DEF WriteSpool, Fault, IInv, TypeOK
<1>4. TypeOK'
  BY <1>1, <1>2, <1>3 DEF IInv, TypeOK, Apart
<1>5. CallInv' /\ PageInv'
  BY <1>1, <1>2, CallKept DEF IInv, PageInv, Apart
<1>6. started /\ WorkerInv'
  BY <1>1, <1>2 DEF IInv, WorkerInv, Apart
<1>7. QueueInv' /\ EntryInv'
  BY <1>1, <1>2, QueueKept DEF IInv, EntryInv, Apart
<1>8. SpoolInv'
  BY <1>1, <1>2, <1>6 DEF IInv, SpoolInv, Apart
<1>9. QED
  BY <1>4, <1>5, <1>6, <1>7, <1>8 DEF IInv

\* Both outcomes of Enqueue: the job gets the entry st, and the table is trimmed.
LEMMA EnqueueStep ==
    ASSUME IInv, NEW j \in Jobs, Enqueue(j) PROVE IInv'
<1> DEFINE ok == Len(queue) < QueueSize
           s == IF ok THEN [status EXCEPT ![j] = "queued"] ELSE status
<1>1. /\ req[j] = "spooled"
      /\ Apart /\ UNCHANGED <<worker, started, faults>>
      /\ Trim(history, s)
      /\ req' = [req EXCEPT ![j] = IF ok THEN "accepted" ELSE "refused"]
      /\ IF ok THEN /\ queue' = Append(queue, j) /\ accepted' = Append(accepted, j)
                    /\ spools' = spools
               ELSE queue' = queue /\ accepted' = accepted /\ spools' = spools \ {j}
  BY DEF Enqueue, Apart, printer, adapter, thread
<1>2. /\ req \in [Jobs -> {"none", "checked", "spooling", "spooled", "accepted", "refused"}]
      /\ status \in [Jobs -> {"none", "queued", "running"} \cup Ended]
      /\ history \in Seq(Jobs) /\ queue \in Seq(Jobs) /\ accepted \in Seq(Jobs)
      /\ Len(history) \in Nat /\ Len(queue) \in Nat /\ Len(accepted) \in Nat
      /\ started \in BOOLEAN /\ QueueSize \in Nat
  BY DEF IInv, TypeOK, Ended
<1>3. status[j] = "none" /\ started /\ ~(worker \in Serving /\ current = j)
  BY <1>1, <1>2 DEF IInv, EntryInv, WorkerInv
<1>4. /\ s \in [Jobs -> {"none", "queued", "running"} \cup Ended]
      /\ \A k \in Jobs : k # j => s[k] = status[k]
      /\ s[j] = IF ok THEN "queued" ELSE "none"
  BY <1>2, <1>3
<1>5. Once(history) /\ \A k \in Jobs : s[k] \in Ended <=> \E i \in 1..Len(history) : history[i] = k
  BY <1>3, <1>4 DEF IInv, QueueInv, Ended
<1> HIDE DEF s
<1>6. /\ history' \in Seq(Jobs) /\ Len(history') <= MaxHistory /\ Once(history')
      /\ status' \in [Jobs -> {"none", "queued", "running"} \cup Ended]
      /\ \A k \in Jobs : status'[k] \in {s[k], "none"}
      /\ \A k \in Jobs : s[k] \notin Ended => status'[k] = s[k]
      /\ \A k \in Jobs :
             status'[k] \in Ended <=> \E i \in 1..Len(history') : history'[i] = k
  BY <1>1, <1>2, <1>4, <1>5, TrimKeeps
<1>7. /\ status'[j] = s[j]
      /\ \A k \in Jobs : k # j /\ status[k] \notin Ended => status'[k] = status[k]
      /\ \A k \in Jobs : k # j => status'[k] \in {status[k], "none"}
  BY <1>4, <1>6 DEF Ended
<1>8. ok => /\ queue' \in Seq(Jobs) /\ Len(queue') = Len(queue) + 1
            /\ \A i \in 1..Len(queue) : queue'[i] = queue[i]
            /\ queue'[Len(queue) + 1] = j
            /\ accepted' \in Seq(Jobs) /\ Len(accepted') = Len(accepted) + 1
            /\ \A i \in 1..Len(accepted) : accepted'[i] = accepted[i]
            /\ accepted'[Len(accepted) + 1] = j
            /\ \A i \in 1..Len(queue') : i \in 1..Len(queue) \/ i = Len(queue) + 1
            /\ \A i \in 1..Len(accepted') : i \in 1..Len(accepted) \/ i = Len(accepted) + 1
  <2>1. ASSUME ok PROVE queue' = Append(queue, j) /\ accepted' = Append(accepted, j)
    BY <1>1, <2>1
  <2>2. ASSUME ok
        PROVE  /\ queue' \in Seq(Jobs) /\ Len(queue') = Len(queue) + 1
               /\ \A i \in 1..Len(queue) : queue'[i] = queue[i]
               /\ queue'[Len(queue) + 1] = j
               /\ \A i \in 1..Len(queue') : i \in 1..Len(queue) \/ i = Len(queue) + 1
    <3>1. queue \in Seq(Jobs)
      BY <1>2
    <3>2. queue' = Append(queue, j)
      BY <2>1, <2>2
    <3>3. QED
      BY <3>1, <3>2, Appended
  <2>3. ASSUME ok
        PROVE  /\ accepted' \in Seq(Jobs) /\ Len(accepted') = Len(accepted) + 1
               /\ \A i \in 1..Len(accepted) : accepted'[i] = accepted[i]
               /\ accepted'[Len(accepted) + 1] = j
               /\ \A i \in 1..Len(accepted') :
                      i \in 1..Len(accepted) \/ i = Len(accepted) + 1
    <3>1. accepted \in Seq(Jobs)
      BY <1>2
    <3>2. accepted' = Append(accepted, j)
      BY <2>1, <2>3
    <3>3. QED
      BY <3>1, <3>2, Appended
  <2>4. QED
    BY <2>2, <2>3
<1>9. TypeOK'
  <2>1. /\ queue' \in Seq(Jobs) /\ Len(queue') <= QueueSize /\ accepted' \in Seq(Jobs)
        /\ spools' \subseteq Jobs
    <3>1. Len(queue) <= QueueSize /\ spools \subseteq Jobs
      BY DEF IInv, TypeOK
    <3>2. CASE ok
      BY <1>1, <1>2, <1>8, <3>1, <3>2
    <3>3. CASE ~ok
      BY <1>1, <1>2, <3>1, <3>3
    <3>4. QED
      BY <3>2, <3>3
  <2>2. /\ req' \in [Jobs -> {"none", "checked", "spooling", "spooled", "accepted", "refused"}]
        /\ status' \in [Jobs -> {"none", "queued", "running"} \cup Ended]
    BY <1>1, <1>2, <1>6 DEF Ended
  <2>3. QED
    BY <1>1, <1>6, <2>1, <2>2 DEF IInv, TypeOK, Apart
<1>10. CallInv' /\ PageInv'
  <2>1. call[j] = "none"
    BY <1>1 DEF IInv, PageInv
  <2>2. QED
    BY <1>1, <1>2, <1>4, <1>7, <2>1, CallKept DEF IInv, PageInv, Apart, Ended
<1>11. WorkerInv'
  BY <1>1, <1>2, <1>3, <1>7 DEF IInv, WorkerInv, Apart, Ended, Serving
<1>12. EntryInv'
  <2>1. \A k \in Jobs : status'[k] = "running" => worker' \in Serving /\ current' = k
    BY <1>1, <1>4, <1>7 DEF IInv, EntryInv, Apart
  <2>2. \A k \in Jobs : req'[k] # "accepted" => status'[k] = "none"
    BY <1>1, <1>2, <1>4, <1>7 DEF IInv, EntryInv
  <2>3. \A i \in 1..Len(accepted') : accepted'[i] \in Jobs /\ req'[accepted'[i]] = "accepted"
    <3>1. \A i \in 1..Len(accepted) : accepted[i] \in Jobs /\ accepted[i] # j
                                     /\ req'[accepted[i]] = "accepted"
      BY <1>1, <1>2 DEF IInv, EntryInv
    <3>2. ok => req'[j] = "accepted"
      BY <1>1, <1>2
    <3>3. CASE ok
      BY <1>8, <3>1, <3>2, <3>3
    <3>4. CASE ~ok
      BY <1>1, <3>1, <3>4
    <3>5. QED
      BY <3>3, <3>4
  <2>4. QED
    BY <2>1, <2>2, <2>3 DEF EntryInv
<1>13. QueueInv'
  <2>1. Once(accepted')
    <3>1. Once(accepted) /\ \A i \in 1..Len(accepted) : accepted[i] # j
      BY <1>1 DEF IInv, QueueInv, EntryInv
    <3>2. CASE ok
      BY <1>2, <1>8, <3>1, <3>2 DEF Once
    <3>3. CASE ~ok
      BY <1>1, <3>1, <3>3
    <3>4. QED
      BY <3>2, <3>3
  <2>2. /\ Len(queue') <= Len(accepted')
        /\ \A i \in 1..Len(queue') :
               queue'[i] = accepted'[Len(accepted') - Len(queue') + i]
    <3> DEFINE d == Len(accepted) - Len(queue)
    <3>1. /\ d \in Nat /\ d + Len(queue) = Len(accepted)
          /\ \A i \in 1..Len(queue) : queue[i] = accepted[d + i] /\ d + i \in 1..Len(accepted)
      BY <1>2 DEF IInv, QueueInv
    <3>2. CASE ok
      <4>1. Len(accepted') - Len(queue') = d /\ Len(queue') <= Len(accepted')
        <5>1. Len(accepted') = Len(accepted) + 1 /\ Len(queue') = Len(queue) + 1
          BY <1>8, <3>2
        <5>2. QED
          BY <1>2, <3>1, <5>1
      <4>2. \A i \in 1..Len(queue') : queue'[i] = accepted'[d + i]
        <5> HIDE DEF d
        <5>1. ASSUME NEW i \in 1..Len(queue) PROVE queue'[i] = accepted'[d + i]
          BY <1>8, <3>1, <3>2
        <5>2. queue'[Len(queue) + 1] = accepted'[d + (Len(queue) + 1)]
          BY <1>2, <1>8, <3>1, <3>2
        <5>3. QED
          BY <1>8, <3>2, <5>1, <5>2
      <4>3. QED
        BY <4>1, <4>2
    <3>3. CASE ~ok
      BY <1>1, <3>3 DEF IInv, QueueInv
    <3>4. QED
      BY <3>2, <3>3
  <2>3. ASSUME NEW k \in Jobs
        PROVE  status'[k] = "queued" <=> \E i \in 1..Len(queue') : queue'[i] = k
    <3>1. status[k] = "queued" <=> \E i \in 1..Len(queue) : queue[i] = k
      BY DEF IInv, QueueInv
    <3>2. (k # j \/ ~ok) => (status'[k] = "queued" <=> status[k] = "queued")
      BY <1>3, <1>4, <1>7 DEF Ended
    <3>3. CASE ok
      <4>1. k # j => ((\E i \in 1..Len(queue') : queue'[i] = k)
                        <=> \E i \in 1..Len(queue) : queue[i] = k)
        <5>1. 1..Len(queue) \subseteq 1..Len(queue')
          BY <1>2, <1>8, <3>3
        <5>2. QED
          BY <1>8, <3>3, <5>1
      <4>2. k = j => status'[k] = "queued" /\ \E i \in 1..Len(queue') : queue'[i] = k
        BY <1>2, <1>4, <1>7, <1>8, <3>3
      <4>3. QED
        BY <3>1, <3>2, <4>1, <4>2
    <3>4. CASE ~ok
      BY <1>1, <3>1, <3>2, <3>4
    <3>5. QED
      BY <3>3, <3>4
  <2>4. QED
    BY <1>6, <2>1, <2>2, <2>3 DEF QueueInv
<1>14. SpoolInv'
  BY <1>1, <1>2, <1>3, <1>4, <1>7 DEF IInv, SpoolInv, Apart, Ended, Serving
<1>15. QED
  BY <1>9, <1>10, <1>11, <1>12, <1>13, <1>14 DEF IInv

-----------------------------------------------------------------------------
(* The worker.                                                             *)

LEMMA TakeStep == ASSUME IInv, Take PROVE IInv'
<1> DEFINE j == Head(queue)
<1>1. /\ queue \in Seq(Jobs) /\ queue # <<>> /\ accepted \in Seq(Jobs)
      /\ Len(queue) \in Nat /\ Len(accepted) \in Nat /\ Len(queue) <= Len(accepted)
      /\ status \in [Jobs -> {"none", "queued", "running"} \cup Ended]
  BY DEF Take, IInv, TypeOK, QueueInv
<1>2. /\ j \in Jobs /\ Len(queue) >= 1 /\ queue[1] = j
      /\ Tail(queue) \in Seq(Jobs) /\ Len(Tail(queue)) = Len(queue) - 1
      /\ \A i \in 1..Len(Tail(queue)) : Tail(queue)[i] = queue[i + 1]
  BY <1>1, HeadTailProperties, EmptySeq
<1>3. status[j] = "queued"
  BY <1>1, <1>2 DEF IInv, QueueInv
<1>4. /\ worker = "idle" /\ queue' = Tail(queue) /\ current' = j /\ worker' = "load"
      /\ status' = [status EXCEPT ![j] = "running"]
      /\ UNCHANGED <<connected, streams, out, lock, call, pages, history, req, spools,
                     started, accepted, faults, toggles>>
  BY <1>3 DEF Take, printer, adapter
<1> HIDE DEF j
<1>5. call[j] = "none" /\ req[j] = "accepted" /\ j \in spools
  BY <1>2, <1>3, <1>4 DEF IInv, PageInv, EntryInv, SpoolInv, WorkerInv
<1>6. TypeOK'
  <2>1. queue' \in Seq(Jobs) /\ Len(queue') <= QueueSize
    <3>1. Len(queue) <= QueueSize /\ QueueSize \in Nat
      BY DEF IInv, TypeOK
    <3>2. QED
      BY <1>1, <1>2, <1>4, <3>1
  <2>2. status' \in [Jobs -> {"none", "queued", "running"} \cup Ended]
    BY <1>1, <1>4
  <2>3. QED
    BY <1>2, <1>4, <2>1, <2>2 DEF IInv, TypeOK
<1>7. CallInv' /\ PageInv'
  BY <1>1, <1>2, <1>4, <1>5, CallKept DEF IInv, PageInv
<1>8. WorkerInv'
  BY <1>1, <1>2, <1>4, <1>5 DEF IInv, WorkerInv
<1>9. EntryInv'
  BY <1>1, <1>2, <1>4, <1>5 DEF IInv, EntryInv, Serving
<1>10. SpoolInv'
  BY <1>1, <1>2, <1>4, <1>5 DEF IInv, SpoolInv
<1>11. QueueInv'
  <2>1. Once(history') /\ Once(accepted') /\ Len(queue') <= Len(accepted')
    BY <1>1, <1>2, <1>4 DEF IInv, QueueInv, Once
  <2> DEFINE d == Len(accepted) - Len(queue)
  <2>2. /\ d \in Nat /\ d + Len(queue) = Len(accepted)
        /\ \A i \in 1..Len(queue) : queue[i] = accepted[d + i] /\ d + i \in 1..Len(accepted)
    BY <1>1 DEF IInv, QueueInv
  <2>3. Len(accepted') - Len(queue') = d + 1
    BY <1>1, <1>2, <1>4
  <2> HIDE DEF d
  <2>4. \A i \in 1..Len(queue') : /\ i + 1 \in 1..Len(queue) /\ queue'[i] = queue[i + 1]
                                  /\ queue'[i] = accepted'[d + 1 + i]
    BY <1>1, <1>2, <1>4, <2>2
  <2>5. \A i \in 1..Len(queue') : queue'[i] # j
    <3>1. Once(accepted) /\ 1 \in 1..Len(queue)
      BY <1>1, <1>2 DEF IInv, QueueInv
    <3>2. ASSUME NEW i \in 1..Len(queue'), queue'[i] = j PROVE FALSE
      <4>1. accepted[d + (i + 1)] = accepted[d + 1] /\ d + (i + 1) \in 1..Len(accepted)
            /\ d + 1 \in 1..Len(accepted)
        BY <1>2, <2>2, <2>4, <3>1, <3>2
      <4>2. d + (i + 1) = d + 1
        BY <3>1, <4>1 DEF Once
      <4>3. QED
        BY <2>2, <4>2
    <3>3. QED
      BY <3>2
  <2>6. ASSUME NEW k \in Jobs
        PROVE  /\ status'[k] = "queued" <=> \E i \in 1..Len(queue') : queue'[i] = k
               /\ status'[k] \in Ended <=> \E i \in 1..Len(history') : history'[i] = k
    <3>1. /\ status[k] = "queued" <=> \E i \in 1..Len(queue) : queue[i] = k
          /\ status[k] \in Ended <=> \E i \in 1..Len(history) : history[i] = k
      BY DEF IInv, QueueInv
    <3>2. k = j => status'[k] = "running" /\ status[k] = "queued"
      BY <1>1, <1>2, <1>3, <1>4
    <3>3. k # j => status'[k] = status[k]
      BY <1>1, <1>4
    <3>4. (\E i \in 1..Len(queue) : queue[i] = k)
             <=> (k = j \/ \E i \in 1..Len(queue') : queue'[i] = k)
      <4>1. ASSUME NEW i \in 1..Len(queue), queue[i] = k
            PROVE  k = j \/ \E n \in 1..Len(queue') : queue'[n] = k
        <5>1. CASE i = 1
          BY <1>2, <4>1, <5>1
        <5>2. CASE i # 1
          <6>1. i - 1 \in 1..Len(queue') /\ queue'[i - 1] = k
            BY <1>1, <1>2, <1>4, <4>1, <5>2
          <6>2. QED
            BY <6>1
        <5>3. QED
          BY <5>1, <5>2
      <4>2. ASSUME NEW n \in 1..Len(queue'), queue'[n] = k
            PROVE  \E i \in 1..Len(queue) : queue[i] = k
        BY <2>4, <4>2
      <4>3. k = j => \E i \in 1..Len(queue) : queue[i] = k
        BY <1>1, <1>2
      <4>4. QED
        BY <4>1, <4>2, <4>3
    <3>5. QED
      BY <1>4, <2>5, <3>1, <3>2, <3>3, <3>4 DEF Ended
  <2>7. QED
    BY <2>1, <2>3, <2>4, <2>6 DEF QueueInv
<1>12. QED
  BY <1>6, <1>7, <1>8, <1>9, <1>10, <1>11 DEF IInv

LEMMA LoadStep == ASSUME IInv, LoadSpool PROVE IInv'
<1>1. PICK w \in {"page", "finish"} :
        /\ worker = "load" /\ worker' = w /\ spools' = spools \ {current}
        /\ UNCHANGED <<connected, streams, out, lock, call, status, pages, history,
                       current, req, queue, started, accepted, toggles>>
  BY DEF LoadSpool, printer, adapter, table
<1>2. faults' \in 0..MaxFaults
  BY DEF LoadSpool, Fault, IInv, TypeOK
<1>3. current \in Jobs /\ status[current] = "running" /\ req[current] = "accepted"
      /\ call[current] = "none"
  BY <1>1 DEF IInv, WorkerInv, EntryInv, Serving
<1>4. TypeOK'
  BY <1>1, <1>2 DEF IInv, TypeOK
<1>5. CallInv' /\ PageInv'
  BY <1>1, CallKept DEF IInv, PageInv
<1>6. WorkerInv'
  BY <1>1, <1>3 DEF IInv, WorkerInv, Serving
<1>7. QueueInv' /\ EntryInv'
  BY <1>1, QueueKept DEF IInv, EntryInv, Serving
<1>8. SpoolInv'
  BY <1>1, <1>3 DEF IInv, SpoolInv
<1>9. QED
  BY <1>4, <1>5, <1>6, <1>7, <1>8 DEF IInv

LEMMA MemoryStep == ASSUME IInv, OutOfMemory PROVE IInv'
<1>1. /\ worker \in {"load", "page"} /\ worker' = "mute" /\ spools' = spools \ {current}
      /\ UNCHANGED <<connected, streams, out, lock, call, status, pages, history,
                     current, req, queue, started, accepted, toggles>>
  BY DEF OutOfMemory, printer, adapter, table
<1>2. faults' \in 0..MaxFaults
  BY DEF OutOfMemory, Fault, IInv, TypeOK
<1>3. current \in Jobs /\ status[current] = "running" /\ req[current] = "accepted"
      /\ call[current] \in {"none", "ok"}
  BY <1>1 DEF IInv, WorkerInv, EntryInv, Serving
<1>4. TypeOK'
  BY <1>1, <1>2 DEF IInv, TypeOK
<1>5. CallInv' /\ PageInv'
  BY <1>1, CallKept DEF IInv, PageInv
<1>6. WorkerInv'
  BY <1>1, <1>3 DEF IInv, WorkerInv, Serving
<1>7. QueueInv' /\ EntryInv'
  BY <1>1, QueueKept DEF IInv, EntryInv, Serving
<1>8. SpoolInv'
  BY <1>1, <1>3 DEF IInv, SpoolInv
<1>9. QED
  BY <1>4, <1>5, <1>6, <1>7, <1>8 DEF IInv

LEMMA PrintPageStep == ASSUME IInv, PrintPage PROVE IInv'
<1>1. /\ worker = "page" /\ pages[current] < Pages /\ worker' = "print"
      /\ call' = [call EXCEPT ![current] = "wanted"]
      /\ UNCHANGED <<connected, streams, out, lock, status, pages, history, current, req,
                     spools, queue, started, accepted, faults, toggles>>
  BY DEF PrintPage, printer, table
<1>2. /\ current \in Jobs /\ current \in Clients /\ current \notin Direct
      /\ status[current] = "running" /\ req[current] = "accepted"
      /\ call[current] \in {"none", "ok"}
      /\ call \in [Clients -> {"none", "wanted", "locked", "posted", "ok", "error"}]
      /\ pages \in [Jobs -> 0..Pages] /\ out \in [Clients -> 0..Pages] /\ Pages \in Nat
      /\ Jobs \subseteq Clients
  BY <1>1 DEF IInv, TypeOK, WorkerInv, EntryInv, Serving, Clients
<1>3. pages[current] = out[current]
  BY <1>1, <1>2 DEF IInv, CallInv, PageInv
<1>4. TypeOK'
  BY <1>1, <1>2 DEF IInv, TypeOK
<1>5. CallInv'
  BY <1>1, <1>2 DEF IInv, CallInv
<1>6. PageInv'
  BY <1>1, <1>2, <1>3 DEF IInv, PageInv
<1>7. WorkerInv'
  BY <1>1, <1>2 DEF IInv, WorkerInv, Serving
<1>8. QueueInv' /\ EntryInv' /\ SpoolInv'
  BY <1>1, QueueKept DEF IInv, EntryInv, SpoolInv, Serving
<1>9. QED
  BY <1>4, <1>5, <1>6, <1>7, <1>8 DEF IInv

LEMMA PageDoneStep == ASSUME IInv, PageDone PROVE IInv'
<1>1. /\ worker = "print" /\ call[current] \in {"ok", "error"}
      /\ IF call[current] = "ok"
            THEN worker' = "page" /\ pages' = [pages EXCEPT ![current] = @ + 1]
            ELSE worker' = "finish" /\ pages' = pages
      /\ UNCHANGED <<connected, streams, out, lock, call, status, history, current, req,
                     spools, queue, started, accepted, faults, toggles>>
  BY DEF PageDone, printer, adapter
<1>2. /\ current \in Jobs /\ status[current] = "running"
      /\ pages \in [Jobs -> 0..Pages] /\ out \in [Clients -> 0..Pages] /\ Pages \in Nat
      /\ Jobs \subseteq Clients
  BY <1>1 DEF IInv, TypeOK, WorkerInv, Serving, Clients
<1>3. call[current] = "ok" => out[current] = pages[current] + 1
  BY <1>1, <1>2 DEF IInv, PageInv
<1>4. pages' \in [Jobs -> 0..Pages]
  BY <1>1, <1>2, <1>3
<1>5. TypeOK'
  BY <1>1, <1>4 DEF IInv, TypeOK
<1>6. CallInv'
  BY <1>1, CallKept DEF IInv
<1>7. PageInv'
  <2>1. ASSUME NEW k \in Jobs, k # current
        PROVE  pages'[k] = pages[k] /\ call[k] \notin {"wanted", "locked", "posted"}
    BY <1>1, <1>2, <2>1 DEF IInv, PageInv
  <2>2. CASE call[current] = "ok"
    BY <1>1, <1>2, <1>3, <2>1, <2>2 DEF IInv, PageInv
  <2>3. CASE call[current] = "error"
    BY <1>1, <1>2, <2>1, <2>3 DEF IInv, PageInv
  <2>4. QED
    BY <1>1, <2>2, <2>3
<1>8. WorkerInv'
  BY <1>1, <1>2 DEF IInv, WorkerInv, Serving
<1>9. QueueInv' /\ EntryInv' /\ SpoolInv'
  BY <1>1, QueueKept DEF IInv, EntryInv, SpoolInv, Serving
<1>10. QED
  BY <1>5, <1>6, <1>7, <1>8, <1>9 DEF IInv

LEMMA FinishStep == ASSUME IInv, FinishJob PROVE IInv'
<1> DEFINE f == Append(history, current)
           s == [status EXCEPT ![current] = Result]
<1>1. /\ worker \in {"finish", "mute", "page"}
      /\ worker = "page" => pages[current] = Pages
      /\ worker' = "count" /\ Trim(f, s)
      /\ UNCHANGED <<connected, streams, out, lock, call, pages, current, req, spools,
                     queue, started, accepted, faults, toggles>>
  BY DEF FinishJob, printer, adapter
<1>2. /\ current \in Jobs /\ status[current] = "running"
      /\ history \in Seq(Jobs) /\ current \in Clients
      /\ status \in [Jobs -> {"none", "queued", "running"} \cup Ended]
      /\ pages \in [Jobs -> 0..Pages] /\ out \in [Clients -> 0..Pages] /\ Pages \in Nat
  BY <1>1 DEF IInv, TypeOK, WorkerInv, Serving, Ended, Clients
<1>3. /\ s \in [Jobs -> {"none", "queued", "running"} \cup Ended]
      /\ \A k \in Jobs : k # current => s[k] = status[k]
      /\ s[current] \in Ended /\ (s[current] = "completed" => worker = "page")
  BY <1>1, <1>2 DEF Ended, Result
<1>4. /\ f \in Seq(Jobs) /\ Len(f) = Len(history) + 1 /\ Len(history) \in Nat
      /\ \A i \in 1..Len(history) : f[i] = history[i]
      /\ f[Len(history) + 1] = current
      /\ \A i \in 1..Len(f) : i \in 1..Len(history) \/ i = Len(history) + 1
  BY <1>2, Appended
<1> HIDE DEF f, s
<1>5. /\ Once(history)
      /\ \A k \in Jobs : status[k] \in Ended <=> \E i \in 1..Len(history) : history[i] = k
      /\ \A i \in 1..Len(history) : history[i] \in Jobs /\ history[i] # current
  <2>1. \A i \in 1..Len(history) : history[i] \in Jobs
    BY <1>2, ElementOfSeq
  <2>2. QED
    BY <1>2, <2>1 DEF IInv, QueueInv, Ended
<1>6. Once(f)
  BY <1>4, <1>5 DEF Once
<1>7. ASSUME NEW k \in Jobs
      PROVE  s[k] \in Ended <=> \E i \in 1..Len(f) : f[i] = k
  <2>1. CASE k = current
    BY <1>3, <1>4, <2>1
  <2>2. CASE k # current
    <3>1. (\E i \in 1..Len(f) : f[i] = k) <=> \E i \in 1..Len(history) : history[i] = k
      <4>1. 1..Len(history) \subseteq 1..Len(f)
        BY <1>4
      <4>2. QED
        BY <1>4, <2>2, <4>1
    <3>2. QED
      BY <1>3, <1>5, <2>2, <3>1
  <2>3. QED
    BY <2>1, <2>2
<1>8. /\ history' \in Seq(Jobs) /\ Len(history') <= MaxHistory /\ Once(history')
      /\ status' \in [Jobs -> {"none", "queued", "running"} \cup Ended]
      /\ \A k \in Jobs : status'[k] \in {s[k], "none"}
      /\ \A k \in Jobs : s[k] \notin Ended => status'[k] = s[k]
      /\ \A k \in Jobs :
             status'[k] \in Ended <=> \E i \in 1..Len(history') : history'[i] = k
  BY <1>1, <1>3, <1>4, <1>6, <1>7, TrimKeeps
<1>9. /\ status'[current] \in {"none"} \cup Ended
      /\ status'[current] = "completed" => out[current] = Pages
      /\ \A k \in Jobs : k # current => status'[k] \in {status[k], "none"}
      /\ \A k \in Jobs : status'[k] = "queued" <=> status[k] = "queued"
      /\ \A k \in Jobs : status'[k] # "running"
  <2>1. status'[current] \in {"none"} \cup Ended
    BY <1>2, <1>3, <1>8 DEF Ended
  <2>2. status'[current] = "completed" => out[current] = Pages
    BY <1>1, <1>2, <1>3, <1>8 DEF IInv, PageInv
  <2>3. \A k \in Jobs : k # current => status'[k] \in {status[k], "none"} /\ status[k] # "running"
    BY <1>3, <1>8 DEF IInv, EntryInv
  <2>4. \A k \in Jobs : status'[k] = "queued" <=> status[k] = "queued"
    BY <1>2, <1>3, <1>8, <2>1 DEF Ended
  <2>5. QED
    BY <2>1, <2>2, <2>3, <2>4 DEF Ended
<1>10. TypeOK'
  BY <1>1, <1>8 DEF IInv, TypeOK, Ended
<1>11. CallInv'
  BY <1>1, CallKept DEF IInv
<1>12. PageInv'
  BY <1>1, <1>2, <1>9 DEF IInv, PageInv
<1>13. WorkerInv'
  BY <1>1, <1>2 DEF IInv, WorkerInv, Serving
<1>14. EntryInv'
  BY <1>1, <1>2, <1>9 DEF IInv, EntryInv
<1>15. QueueInv'
  BY <1>1, <1>8, <1>9 DEF IInv, QueueInv, Once
<1>16. SpoolInv'
  BY <1>1, <1>9 DEF IInv, SpoolInv
<1>17. QED
  BY <1>10, <1>11, <1>12, <1>13, <1>14, <1>15, <1>16 DEF IInv

LEMMA CountStep == ASSUME IInv, CountJob PROVE IInv'
<1>1. PICK w \in {"idle", "dead"} :
        /\ worker = "count" /\ worker' = w /\ current' = NoOne
        /\ UNCHANGED <<connected, streams, out, lock, call, status, pages, history, req,
                       spools, queue, started, accepted, toggles>>
  BY DEF CountJob, printer, adapter, table
<1>2. faults' \in 0..MaxFaults
  BY DEF CountJob, Fault, IInv, TypeOK
<1>3. TypeOK'
  BY <1>1, <1>2 DEF IInv, TypeOK
<1>4. CallInv' /\ PageInv'
  BY <1>1, CallKept DEF IInv, PageInv
<1>5. WorkerInv'
  BY <1>1 DEF IInv, WorkerInv, Serving
<1>6. QueueInv' /\ EntryInv' /\ SpoolInv'
  BY <1>1, QueueKept DEF IInv, EntryInv, SpoolInv, Serving
<1>7. QED
  BY <1>3, <1>4, <1>5, <1>6 DEF IInv

LEMMA CrashStep == ASSUME IInv, Crash PROVE IInv'
<1>1. /\ UNCHANGED <<connected, streams, out, spools, toggles>>
      /\ lock' = NoOne /\ history' = <<>> /\ queue' = <<>> /\ accepted' = <<>>
      /\ started' = FALSE /\ worker' = "none" /\ current' = NoOne
      /\ call' = [c \in Clients |-> IF call[c] = "none" THEN "none" ELSE "error"]
      /\ req' = [j \in Jobs |-> IF req[j] = "none" THEN "none" ELSE "refused"]
      /\ status' = [j \in Jobs |-> "none"] /\ pages' = [j \in Jobs |-> 0]
  BY DEF Crash, printer
<1>2. faults' \in 0..MaxFaults
  BY DEF Crash, Fault, IInv, TypeOK
<1>3. /\ <<>> \in Seq(Jobs) /\ Len(<<>>) = 0
  BY EmptySeq
<1>4. TypeOK'
  <2>1. /\ connected \in BOOLEAN /\ streams \subseteq Clients /\ out \in [Clients -> 0..Pages]
        /\ call \in [Clients -> {"none", "wanted", "locked", "posted", "ok", "error"}]
        /\ req \in [Jobs -> {"none", "checked", "spooling", "spooled", "accepted", "refused"}]
        /\ spools \subseteq Jobs /\ toggles \in 0..MaxToggles
    BY DEF IInv, TypeOK
  <2>2. call' \in [Clients -> {"none", "wanted", "locked", "posted", "ok", "error"}]
    BY <1>1
  <2>3. req' \in [Jobs -> {"none", "checked", "spooling", "spooled", "accepted", "refused"}]
    BY <1>1
  <2>4. /\ status' \in [Jobs -> {"none", "queued", "running"} \cup Ended]
        /\ pages' \in [Jobs -> 0..Pages]
    BY <1>1
  <2>5. /\ history' \in Seq(Jobs) /\ Len(history') <= MaxHistory
        /\ queue' \in Seq(Jobs) /\ Len(queue') <= QueueSize /\ accepted' \in Seq(Jobs)
    BY <1>1, <1>3
  <2>6. QED
    BY <1>1, <1>2, <2>1, <2>2, <2>3, <2>4, <2>5 DEF TypeOK
<1>5. CallInv'
  BY <1>1 DEF IInv, CallInv
<1>6. PageInv'
  BY <1>1 DEF IInv, TypeOK, PageInv, Clients
<1>7. WorkerInv' /\ EntryInv' /\ SpoolInv'
  BY <1>1, <1>3 DEF WorkerInv, EntryInv, SpoolInv, Serving
<1>8. QueueInv'
  BY <1>1, <1>3 DEF QueueInv, Once, Ended
<1>9. QED
  BY <1>4, <1>5, <1>6, <1>7, <1>8 DEF IInv

-----------------------------------------------------------------------------
(* The invariant, and what it says.                                        *)

LEMMA InitIInv == Init => IInv
<1> SUFFICES ASSUME Init PROVE IInv
  OBVIOUS
<1>1. <<>> \in Seq(Jobs) /\ Len(<<>>) = 0
  BY EmptySeq
<1>2. TypeOK
  <2>1. out \in [Clients -> 0..Pages] /\ pages \in [Jobs -> 0..Pages]
    BY DEF Init
  <2>2. /\ call \in [Clients -> {"none", "wanted", "locked", "posted", "ok", "error"}]
        /\ req \in [Jobs -> {"none", "checked", "spooling", "spooled", "accepted", "refused"}]
        /\ status \in [Jobs -> {"none", "queued", "running"} \cup Ended]
    BY DEF Init
  <2>3. /\ history \in Seq(Jobs) /\ Len(history) <= MaxHistory
        /\ queue \in Seq(Jobs) /\ Len(queue) <= QueueSize /\ accepted \in Seq(Jobs)
    BY <1>1 DEF Init
  <2>4. connected \in BOOLEAN /\ started \in BOOLEAN
    BY DEF Init
  <2>5. /\ streams \subseteq Clients /\ lock \in Clients \cup {NoOne} /\ spools \subseteq Jobs
        /\ worker \in {"none", "idle", "load", "page", "print", "finish", "mute", "count", "dead"}
        /\ current \in Jobs \cup {NoOne}
        /\ faults \in 0..MaxFaults /\ toggles \in 0..MaxToggles
    BY DEF Init
  <2>6. QED
    BY <2>1, <2>2, <2>3, <2>4, <2>5 DEF TypeOK
<1>3. CallInv /\ PageInv
  BY DEF Init, CallInv, PageInv, Clients
<1>4. WorkerInv /\ EntryInv /\ SpoolInv
  BY <1>1 DEF Init, WorkerInv, EntryInv, SpoolInv, Serving
<1>5. QueueInv
  BY <1>1 DEF Init, QueueInv, Once, Ended
<1>6. QED
  BY <1>2, <1>3, <1>4, <1>5 DEF IInv

LEMMA NextIInv == IInv /\ [Next]_vars => IInv'
<1> SUFFICES ASSUME IInv, [Next]_vars PROVE IInv'
  OBVIOUS
<1>1. CASE Toggle
  BY <1>1, ToggleStep
<1>2. CASE Worker
  BY <1>2, TakeStep, LoadStep, PrintPageStep, PageDoneStep, FinishStep, CountStep
     DEF Worker
<1>3. CASE Crash
  BY <1>3, CrashStep
<1>4. ASSUME NEW c \in Clients, Printing(c) \/ PrintFails(c) \/ TimesOut(c) PROVE IInv'
  BY <1>4, CallEffect, CallStep
<1>5. ASSUME NEW d \in Direct, PrintDirect(d) PROVE IInv'
  BY <1>5, DirectStep
<1>6. ASSUME NEW j \in Jobs, Submission(j) PROVE IInv'
  BY <1>6, CheckStep, AdmitStep, WriteStep, EnqueueStep DEF Submission
<1>7. CASE UNCHANGED vars
  <2>1. UNCHANGED <<connected, streams, out, lock, call, req, status, pages, history,
                    spools, queue, started, worker, current, accepted, faults, toggles>>
    BY <1>7 DEF vars, printer, adapter, table, thread
  <2>2. TypeOK'
    BY <2>1 DEF IInv, TypeOK
  <2>3. QED
    BY <2>1, <2>2, QueueKept, EntryKept, SpoolKept, CallKept, PageKept, WorkerKept DEF IInv
<1>8. CASE OutOfMemory
  BY <1>8, MemoryStep
<1>9. QED
  BY <1>1, <1>2, <1>3, <1>4, <1>5, <1>6, <1>7, <1>8 DEF Next

\* What is left of the accepted jobs is a suffix of them, in their order.
LEMMA OrderKept == IInv => InOrder
<1> SUFFICES ASSUME IInv,
                    NEW i \in DOMAIN accepted, NEW k \in DOMAIN accepted, i < k,
                    status[accepted[i]] = "queued"
             PROVE  status[accepted[k]] = "queued"
  BY DEF InOrder
<1> DEFINE d == Len(accepted) - Len(queue)
<1>1. /\ Len(queue) \in Nat /\ Len(accepted) \in Nat
      /\ i \in 1..Len(accepted) /\ k \in 1..Len(accepted)
  BY LenProperties DEF IInv, TypeOK
<1>2. accepted[i] \in Jobs /\ accepted[k] \in Jobs
  BY <1>1 DEF IInv, EntryInv
<1>3. /\ d \in Nat /\ d + Len(queue) = Len(accepted) /\ Once(accepted)
      /\ \A n \in 1..Len(queue) : queue[n] = accepted[d + n] /\ d + n \in 1..Len(accepted)
  BY <1>1 DEF IInv, QueueInv
<1> HIDE DEF d
<1>4. PICK n \in 1..Len(queue) : queue[n] = accepted[i]
  BY <1>2 DEF IInv, QueueInv
<1>5. i = d + n
  <2>1. accepted[i] = accepted[d + n] /\ d + n \in 1..Len(accepted)
    BY <1>3, <1>4
  <2>2. QED
    BY <1>1, <1>3, <2>1 DEF Once
<1>6. k - d \in 1..Len(queue) /\ queue[k - d] = accepted[k]
  <2>1. k - d \in 1..Len(queue) /\ d + (k - d) = k
    BY <1>1, <1>3, <1>5
  <2>2. QED
    BY <1>3, <2>1
<1>7. QED
  BY <1>2, <1>6 DEF IInv, QueueInv

LEMMA LockHeld == IInv => OneAtATime
<1> SUFFICES ASSUME IInv PROVE Cardinality({c \in streams : call[c] = "posted"}) <= 1
  BY DEF OneAtATime
<1> DEFINE waiting == {c \in streams : call[c] = "posted"}
<1>1. waiting \subseteq {lock}
  BY DEF IInv, TypeOK, CallInv
<1>2. IsFiniteSet({lock}) /\ Cardinality({lock}) = 1
  BY FS_Singleton
<1>3. Cardinality(waiting) <= 1
  BY <1>1, <1>2, FS_Subset
<1>4. QED
  BY <1>3

LEMMA InvariantIsCorrect == IInv => JobsCorrect
<1> SUFFICES ASSUME IInv PROVE JobsCorrect
  OBVIOUS
<1>1. /\ DOMAIN queue = 1..Len(queue) /\ DOMAIN history = 1..Len(history)
      /\ \A i \in 1..Len(queue) : queue[i] \in Jobs
      /\ \A i \in 1..Len(history) : history[i] \in Jobs
  BY LenProperties, ElementOfSeq DEF IInv, TypeOK
<1>2. ReportedIsPrinted
  BY DEF IInv, PageInv, ReportedIsPrinted
<1>3. JobsKept
  <2>1. \A i \in DOMAIN queue : status[queue[i]] = "queued"
    BY <1>1 DEF IInv, QueueInv
  <2>2. worker \in {"load", "page", "print", "finish", "mute"} => status[current] = "running"
    BY DEF IInv, WorkerInv, Serving
  <2>3. {j \in Jobs : status[j] \in Ended} = ToSet(history)
    <3>1. \A j : j \in ToSet(history) <=> \E i \in 1..Len(history) : history[i] = j
      BY <1>1 DEF ToSet
    <3>2. \A j \in Jobs : status[j] \in Ended <=> j \in ToSet(history)
      BY <3>1 DEF IInv, QueueInv
    <3>3. ToSet(history) \subseteq Jobs
      BY <1>1, <3>1
    <3>4. QED
      BY <3>2, <3>3 DEF Ended
  <2>4. QED
    BY <2>1, <2>2, <2>3 DEF JobsKept
<1>4. SpoolsInUse
  <2>1. \A j \in Jobs : j \in ToSet(queue) <=> status[j] = "queued"
    BY <1>1 DEF IInv, QueueInv, ToSet
  <2>2. ToSet(queue) \subseteq Jobs /\ spools \subseteq Jobs
    BY <1>1 DEF IInv, TypeOK, ToSet
  <2>3. worker = "load" => current \in Jobs
    BY DEF IInv, WorkerInv, Serving
  <2>4. started => \A j : j \in spools <=> \/ j \in ToSet(queue)
                                           \/ (j \in Jobs /\ req[j] = "spooled")
                                           \/ (worker = "load" /\ current = j)
    BY <2>1, <2>2, <2>3 DEF IInv, SpoolInv
  <2>5. QED
    BY <2>4 DEF SpoolsInUse
<1>5. QED
  BY <1>2, <1>3, <1>4, OrderKept, LockHeld DEF IInv, JobsCorrect

\* Print jobs (runtime_features.py, niimblue.py): in every state the table, the
\* queue, the spool files and the printer agree, the jobs are printed in the order
\* they were accepted, and only one caller of the adapter waits for a print.
THEOREM PrintJobsCorrect == Spec => []JobsCorrect
<1>1. IInv /\ [Next]_vars => IInv'
  BY NextIInv
<1>2. QED
  BY InitIInv, <1>1, InvariantIsCorrect, PTL DEF Spec

-----------------------------------------------------------------------------
(* Without time-outs and restarts the printer executes one print at a time. *)

Awaited == \A c \in streams : call[c] = "posted"

LEMMA AwaitedKept ==
    ASSUME {"slow", "crash"} \cap Faults = {}, IInv, Awaited, [Next]_vars
    PROVE  Awaited'
<1> USE DEF Awaited, printer, adapter
<1>0. /\ streams \subseteq Clients
      /\ call \in [Clients -> {"none", "wanted", "locked", "posted", "ok", "error"}]
  BY DEF IInv, TypeOK
<1>1. ~Fault("slow") /\ ~Fault("crash")
  BY DEF Fault
<1>2. CASE Toggle \/ UNCHANGED vars
  BY <1>2 DEF Toggle, vars
<1>3. CASE Worker
  <2>1. CASE PrintPage
    <3>1. current \in Jobs /\ call[current] \in {"none", "ok"}
      BY <2>1 DEF PrintPage, IInv, WorkerInv, Serving
    <3>2. QED
      BY <1>0, <2>1, <3>1 DEF PrintPage
  <2>2. QED
    BY <1>3, <2>1 DEF Worker, Take, LoadSpool, PageDone, FinishJob, CountJob
<1>4. CASE Crash
  BY <1>1, <1>4 DEF Crash
<1>5. ASSUME NEW c \in Clients, Printing(c) \/ PrintFails(c) \/ TimesOut(c) PROVE Awaited'
  <2>1. CASE Acquire(c)
    BY <1>0, <2>1 DEF Acquire
  <2>2. CASE Post(c)
    BY <1>0, <2>2 DEF Post
  <2>3. CASE Printed(c)
    BY <1>0, <2>3 DEF Printed, Answer
  <2>4. CASE PrintFails(c)
    BY <1>0, <2>4 DEF PrintFails, Answer
  <2>5. CASE TimesOut(c)
    BY <1>1, <2>5 DEF TimesOut
  <2>6. QED
    BY <1>5, <2>1, <2>2, <2>3, <2>4, <2>5 DEF Printing
<1>6. ASSUME NEW d \in Direct, PrintDirect(d) PROVE Awaited'
  BY <1>0, <1>6 DEF PrintDirect
<1>7. ASSUME NEW j \in Jobs, Submission(j) PROVE Awaited'
  BY <1>7 DEF Submission, CheckPrinter, Admit, WriteSpool, Enqueue
<1>8. CASE OutOfMemory
  BY <1>8 DEF OutOfMemory
<1>9. QED
  BY <1>2, <1>3, <1>4, <1>5, <1>6, <1>7, <1>8 DEF Next

\* "A physical printer can execute only one print stream at a time. Keep this at
\* the adapter layer" (niimblue.py): the print lock does so as long as no call
\* times out and B2M does not restart during a print.
THEOREM OneStreamUnlessSlow ==
    ASSUME {"slow", "crash"} \cap Faults = {} PROVE Spec => []OneStream
<1>1. Init => Awaited
  BY DEF Init, Awaited
<1>2. IInv /\ Awaited /\ [Next]_vars => IInv' /\ Awaited'
  BY NextIInv, AwaitedKept
<1>3. IInv /\ Awaited => OneStream
  <2> SUFFICES ASSUME IInv, Awaited PROVE Cardinality(streams) <= 1
    BY DEF OneStream
  <2>1. streams = {c \in streams : call[c] = "posted"}
    BY DEF Awaited
  <2>2. Cardinality({c \in streams : call[c] = "posted"}) <= 1
    BY LockHeld DEF OneAtATime
  <2>3. QED
    BY <2>1, <2>2
<1>4. QED
  BY InitIInv, <1>1, <1>2, <1>3, PTL DEF Spec
=============================================================================
