----------------------------- MODULE PrinterLink -----------------------------
(***************************************************************************)
(* Who owns the Bluetooth connection of the label printer: the user's      *)
(* Connect, Disconnect and device scan, and the status polls of every open *)
(* page, which reconnect while the stored intent says "connected"          *)
(* (app/routers/label_printer.py, app/services/niimblue.py).               *)
(***************************************************************************)
EXTENDS Integers, FiniteSets

CONSTANTS
    Polls,     \* status polls that may be under way at a time
    User,      \* the request the user waits for
    MaxClicks, \* bound: requests of the user
    MaxDrops   \* bound: lost connections and failed attempts

VARIABLES
    desired,   \* labels.b21.connection_desired
    connected, \* niimblue-node holds the printer's connection
    recent,    \* _last_auto_reconnect is less than 10 s ago
    pc,        \* per request: its next step
    wants,     \* per poll: the intent it has read
    attempt,   \* per request: its attempt to connect
    wish,      \* history: what the user has asked for last
    clicks,
    drops

intent == <<desired, wish, clicks>>
vars == <<intent, connected, recent, pc, wants, attempt, drops>>

Requests == Polls \cup {User}

Steps == {"idle", "probe", "due", "mark", "connect", "clear", "open", "wait",
          "disconnect"}

TypeOK ==
    /\ desired \in BOOLEAN /\ connected \in BOOLEAN /\ recent \in BOOLEAN
    /\ pc \in [Requests -> Steps]
    /\ wants \in [Polls -> BOOLEAN]
    /\ attempt \in [Requests -> 0..2]
    /\ wish \in {"none", "on", "off"}
    /\ clicks \in 0..MaxClicks /\ drops \in 0..MaxDrops

Init ==
    /\ desired = FALSE /\ connected = FALSE /\ recent = FALSE
    /\ pc = [r \in Requests |-> "idle"]
    /\ wants = [p \in Polls |-> FALSE]
    /\ attempt = [r \in Requests |-> 0]
    /\ wish = "none" /\ clicks = 0 /\ drops = 0

Go(r, step) == pc' = [pc EXCEPT ![r] = step]

-----------------------------------------------------------------------------
(* b21_status.                                                             *)

PollStarts(p) ==
    /\ pc[p] = "idle" /\ Go(p, "probe")
    /\ wants' = [wants EXCEPT ![p] = desired]
    /\ UNCHANGED <<intent, connected, recent, attempt, drops>>

\* printer_status takes seconds when the printer does not answer.
Probe(p) ==
    /\ pc[p] = "probe"
    /\ Go(p, IF wants[p] /\ ~connected THEN "due" ELSE "idle")
    /\ UNCHANGED <<intent, connected, recent, wants, attempt, drops>>

CheckPeriod(p) ==
    /\ pc[p] = "due" /\ Go(p, IF recent THEN "idle" ELSE "mark")
    /\ UNCHANGED <<intent, connected, recent, wants, attempt, drops>>

Mark(p) ==
    /\ pc[p] = "mark" /\ Go(p, "connect") /\ recent' = TRUE
    /\ UNCHANGED <<intent, connected, wants, attempt, drops>>

PeriodEnds ==
    /\ recent /\ recent' = FALSE
    /\ UNCHANGED <<intent, connected, pc, wants, attempt, drops>>

-----------------------------------------------------------------------------
(* connect_printer, for a poll or the user.                                *)

Connect(r) ==
    /\ pc[r] = "connect"
    /\ Go(r, IF connected THEN "idle" ELSE "clear")
    /\ attempt' = [attempt EXCEPT ![r] = IF connected THEN 0 ELSE 1]
    /\ UNCHANGED <<intent, connected, recent, wants, drops>>

\* _disconnect_best_effort.
Clear(r) ==
    /\ pc[r] = "clear" /\ Go(r, "open")
    /\ connected' = FALSE
    /\ UNCHANGED <<intent, recent, wants, attempt, drops>>

\* _connect_once: POST /connect, which may fail.
Open(r) ==
    /\ pc[r] = "open" /\ Go(r, "wait")
    /\ \/ connected' = TRUE /\ UNCHANGED drops
       \/ drops < MaxDrops /\ drops' = drops + 1 /\ UNCHANGED connected
    /\ UNCHANGED <<intent, recent, wants, attempt>>

\* _wait_connected; there is one more attempt.
Wait(r) ==
    /\ pc[r] = "wait"
    /\ IF connected \/ attempt[r] = 2
          THEN Go(r, "idle") /\ attempt' = [attempt EXCEPT ![r] = 0]
          ELSE Go(r, "clear") /\ attempt' = [attempt EXCEPT ![r] = 2]
    /\ UNCHANGED <<intent, connected, recent, wants, drops>>

-----------------------------------------------------------------------------
(* b21_connect, b21_disconnect and b21_scan. The user waits for the answer *)
(* of one request before the next.                                         *)

\* Mutant: the intent is left to the request for the status.
ClickOnce(intended, asked, step) ==
    /\ pc[User] = "idle" /\ clicks < MaxClicks
    /\ clicks' = clicks + 1 /\ wish' = asked
    /\ desired' = (desired /\ intended)
    /\ Go(User, step)
    /\ UNCHANGED <<connected, recent, wants, attempt, drops>>

\* _save_state before anything is sent to the printer.
Click(intended, asked, step) ==
    /\ pc[User] = "idle" /\ clicks < MaxClicks
    /\ clicks' = clicks + 1 /\ wish' = asked
    /\ desired' = intended
    /\ Go(User, step)
    /\ UNCHANGED <<connected, recent, wants, attempt, drops>>

ClickConnect == Click(TRUE, "on", "connect")

ClickDisconnect == Click(FALSE, "off", "disconnect")

ClickScan == Click(FALSE, "none", "idle")

\* disconnect_printer.
Disconnect ==
    /\ pc[User] = "disconnect" /\ Go(User, "idle")
    /\ connected' = FALSE
    /\ UNCHANGED <<intent, recent, wants, attempt, drops>>

\* The printer is switched off or out of reach.
Drop ==
    /\ connected /\ connected' = FALSE
    /\ drops < MaxDrops /\ drops' = drops + 1
    /\ UNCHANGED <<intent, recent, pc, wants, attempt>>

Connecting(r) == Connect(r) \/ Clear(r) \/ Open(r) \/ Wait(r)

Poll(p) == PollStarts(p) \/ Probe(p) \/ CheckPeriod(p) \/ Mark(p)

Next ==
    \/ ClickConnect \/ ClickDisconnect \/ ClickScan \/ Disconnect
    \/ Drop \/ PeriodEnds
    \/ \E p \in Polls : Poll(p)
    \/ \E r \in Requests : Connecting(r)

Spec == Init /\ [][Next]_vars

\* A page is open and polls, requests go on, and time passes.
FairSpec ==
    /\ Spec
    /\ WF_vars(PeriodEnds) /\ WF_vars(Disconnect)
    /\ \A p \in Polls : WF_vars(Poll(p))
    /\ \A r \in Requests : WF_vars(Connecting(r))

-----------------------------------------------------------------------------
(* Once the user has asked for the connection, and as long as he asks for  *)
(* nothing else, a connection that failed or was lost comes back whatever  *)
(* the polls of other pages do to each other (label_printer.py:142-147).   *)
Reconnects == <>[](wish = "on") => []<>connected

(* niimblue.py:6-8: "The label UI deliberately controls connection state.  *)
(* [...] this keeps the B21 available for the official niim.blue Web       *)
(* Bluetooth UI when B2M is not using it." After Disconnect has answered   *)
(* B2M does not connect by itself. Not kept (README, Divergences).         *)
LeftAlone == wish = "off" /\ pc[User] = "idle" => ~connected
=============================================================================
