--------------------------- MODULE ScannerStatus ---------------------------
(***************************************************************************)
(* What B2M shows of a scanner (app/auth.py, app/routers/scanner.py) and   *)
(* what the scanner runs with (scanner_runtime_config): the USB bridge     *)
(* (tools/barcode2mealie-usb/scanner.py) sends its state with every scan   *)
(* and every heartbeat, each from a thread of its own, and asks for its    *)
(* settings after each heartbeat.                                          *)
(*                                                                         *)
(* Time passes in Ticks. A thread of the bridge that is due, or whose      *)
(* request has timed out, acts before the next Tick; so does the server    *)
(* with a request that has been under way for Life.                        *)
(***************************************************************************)
EXTENDS Naturals, FiniteSets

CONSTANTS
    Slots,         \* requests under way
    Interval,      \* HEARTBEAT_INTERVAL
    Slack,         \* the time-out of a request
    Life,          \* how long the server may have a request
    OnlineFor,     \* three minutes
    Throttle,      \* fifteen seconds
    Configs,       \* values of the bridge's settings
    MaxScans, MaxFaults, MaxStops, MaxPlugs, MaxSaves   \* bounds

VARIABLES
    token,         \* the row of api_tokens, or None
    config,        \* the settings stored in system_state
    bridge, req,
    faults, stops, plugs, saves

vars == <<token, config, bridge, req, faults, stops, plugs, saves>>

None == [none |-> TRUE]

AgeCap == OnlineFor + Life + 1

\* age: time since scanner_last_seen_at.
Token == [age : 0..AgeCap, scans : 0..MaxScans, plugged : BOOLEAN, prefix : BOOLEAN]

\* misses: heartbeats without an answer, 2 for more (history); off: how long
\* the scanner has been unplugged, or the bridge stopped (history).
Bridge == [up : BOOLEAN, scans : 0..MaxScans, pending : 0..MaxScans,
           plugged : BOOLEAN, due : 0..Interval,
           beat : {"sleeps", "waits", "config"}, config : Configs,
           misses : 0..2, off : 0..AgeCap]

\* waits: the bridge still waits for the answer. full: all that it sends is
\* stored. life, since: time since it was sent, and since it was read.
Request == [kind : {"scan", "beat"}, at : {"free", "sent", "read"},
            scans : 0..MaxScans, plugged : BOOLEAN, waits : BOOLEAN,
            full : BOOLEAN, life : 0..Life, since : 0..Life]

TypeOK ==
    /\ token \in Token \cup {None}
    /\ config \in Configs
    /\ bridge \in Bridge
    /\ req \in [Slots -> Request]
    /\ faults \in 0..MaxFaults /\ stops \in 0..MaxStops
    /\ plugs \in 0..MaxPlugs /\ saves \in 0..MaxSaves

Free == [kind |-> "scan", at |-> "free", scans |-> 0, plugged |-> FALSE,
         waits |-> FALSE, full |-> FALSE, life |-> 0, since |-> 0]

Init ==
    /\ token \in [age : {AgeCap}, scans : {0}, plugged : {FALSE}, prefix : BOOLEAN]
    /\ config \in Configs
    /\ \E c \in Configs :
           bridge = [up |-> FALSE, scans |-> 0, pending |-> 0, plugged |-> FALSE,
                     due |-> 0, beat |-> "sleeps", config |-> c,
                     misses |-> 2, off |-> AgeCap]
    /\ req = [s \in Slots |-> Free]
    /\ faults = 0 /\ stops = 0 /\ plugs = 0 /\ saves = 0

Least(i, j) == IF i < j THEN i ELSE j

Used == {s \in Slots : req[s].at # "free"}

Waiting(kind) == \E s \in Used : req[s].kind = kind /\ req[s].waits

Counters == <<faults, stops, plugs, saves>>

Fault == faults < MaxFaults /\ faults' = faults + 1

-----------------------------------------------------------------------------
Urgent ==
    \/ bridge.up /\ bridge.beat = "sleeps" /\ bridge.due = 0
    \/ bridge.beat = "config"
    \/ \E s \in Used : \/ req[s].waits /\ req[s].life = Slack
                       \/ req[s].life = Life

Tick ==
    /\ ~Urgent
    /\ token' = IF token = None THEN None
                ELSE [token EXCEPT !.age = Least(@ + 1, AgeCap)]
    /\ bridge' = [bridge EXCEPT !.due = IF @ = 0 THEN 0 ELSE @ - 1,
                      !.off = IF bridge.up /\ bridge.plugged THEN 0
                              ELSE Least(@ + 1, AgeCap)]
    /\ req' = [s \in Slots |->
                   IF s \notin Used THEN req[s]
                   ELSE [req[s] EXCEPT !.life = @ + 1,
                             !.since = IF req[s].at = "read" THEN @ + 1 ELSE @]]
    /\ UNCHANGED <<config, Counters>>

-----------------------------------------------------------------------------
(* The bridge.                                                             *)

\* main: the settings are asked for before the threads start; the counter
\* starts at 0, the outbox is as it was.
BridgeStarts ==
    /\ ~bridge.up
    /\ \/ /\ token # None
          /\ bridge' = [bridge EXCEPT !.up = TRUE, !.scans = 0, !.due = 0,
                            !.beat = "sleeps", !.misses = 2, !.config = config]
          /\ UNCHANGED faults
       \/ /\ token # None => Fault
          /\ token = None => UNCHANGED faults
          /\ bridge' = [bridge EXCEPT !.up = TRUE, !.scans = 0, !.due = 0,
                            !.beat = "sleeps", !.misses = 2]
    /\ UNCHANGED <<token, config, req, stops, plugs, saves>>

BridgeStops ==
    /\ bridge.up /\ stops < MaxStops
    /\ stops' = stops + 1
    /\ bridge' = [bridge EXCEPT !.up = FALSE, !.beat = "sleeps", !.plugged = FALSE,
                      !.due = 0, !.misses = 2]
    /\ req' = [s \in Slots |-> [req[s] EXCEPT !.waits = FALSE]]
    /\ UNCHANGED <<token, config, faults, plugs, saves>>

Plugs ==
    /\ bridge.up /\ plugs < MaxPlugs
    /\ plugs' = plugs + 1
    /\ bridge' = [bridge EXCEPT !.plugged = ~@, !.off = 0]
    /\ UNCHANGED <<token, config, req, faults, stops, saves>>

\* _enqueue_barcode
ReadsCode ==
    /\ bridge.up /\ bridge.plugged /\ bridge.scans + bridge.pending < MaxScans
    /\ bridge' = [bridge EXCEPT !.scans = @ + 1, !.pending = @ + 1]
    /\ UNCHANGED <<token, config, req, Counters>>

\* telemetry_headers
Sent(kind) == [Free EXCEPT !.kind = kind, !.at = "sent", !.waits = TRUE,
                   !.scans = bridge.scans, !.plugged = bridge.plugged]

SendScan(s) ==
    /\ bridge.up /\ bridge.pending > 0 /\ s \notin Used /\ ~Waiting("scan")
    /\ req' = [req EXCEPT ![s] = Sent("scan")]
    /\ UNCHANGED <<token, config, bridge, Counters>>

\* heartbeat_loop
SendBeat(s) ==
    /\ bridge.up /\ bridge.beat = "sleeps" /\ bridge.due = 0 /\ s \notin Used
    /\ req' = [req EXCEPT ![s] = Sent("beat")]
    /\ bridge' = [bridge EXCEPT !.beat = "waits"]
    /\ UNCHANGED <<token, config, Counters>>

\* What the bridge makes of an answer, or of none (_post).
Told(r, ok) ==
    IF ~r.waits THEN bridge
    ELSE IF r.kind = "scan"
    THEN [bridge EXCEPT !.pending = IF ok THEN @ - 1 ELSE @]
    ELSE [bridge EXCEPT !.beat = "config",
              !.misses = IF ok THEN 0 ELSE Least(@ + 1, 2)]

Lose(s) ==
    /\ req[s].at = "sent" /\ Fault
    /\ bridge' = Told(req[s], FALSE)
    /\ req' = [req EXCEPT ![s] = Free]
    /\ UNCHANGED <<token, config, stops, plugs, saves>>

TimesOut(s) ==
    /\ s \in Used /\ req[s].waits /\ req[s].life = Slack /\ Fault
    /\ bridge' = Told(req[s], FALSE)
    /\ req' = [req EXCEPT ![s].waits = FALSE]
    /\ UNCHANGED <<token, config, stops, plugs, saves>>

Asked == config

\* refresh_runtime_config, without telemetry; then the thread sleeps.
Refresh ==
    /\ bridge.beat = "config"
    /\ \/ /\ token # None
          /\ bridge' = [bridge EXCEPT !.config = Asked,
                            !.beat = "sleeps", !.due = Interval]
          /\ UNCHANGED faults
       \/ /\ token # None => Fault
          /\ token = None => UNCHANGED faults
          /\ bridge' = [bridge EXCEPT !.beat = "sleeps", !.due = Interval]
    /\ UNCHANGED <<token, config, req, stops, plugs, saves>>

-----------------------------------------------------------------------------
(* The server.                                                             *)

Throttled(r) == r.kind = "scan" /\ token.age < Throttle

\* _authenticate_raw_token, which gives a token of an earlier version its
\* prefix; _update_scanner_telemetry looks how old the last report is.
Read(s) ==
    /\ req[s].at = "sent"
    /\ IF token = None
       THEN /\ bridge' = Told(req[s], FALSE)
            /\ req' = [req EXCEPT ![s] = Free]
            /\ UNCHANGED token
       ELSE /\ req' = [req EXCEPT ![s].at = "read", ![s].since = 0,
                                  ![s].full = ~Throttled(req[s])]
            /\ token' = [token EXCEPT !.prefix = TRUE]
            /\ UNCHANGED bridge
    /\ UNCHANGED <<config, Counters>>

Stored(r) ==
    IF r.full THEN [token EXCEPT !.age = r.since, !.scans = r.scans,
                                 !.plugged = r.plugged]
    ELSE [token EXCEPT !.scans = r.scans]

\* A row that is gone cannot be updated: the request fails. A scan handled
\* before is answered again, and what it sent is not stored unless in full.
Commit(s) ==
    LET r == req[s] IN
    /\ r.at = "read"
    /\ req' = [req EXCEPT ![s] = Free]
    /\ \/ /\ token = None
          /\ bridge' = Told(r, FALSE)
          /\ UNCHANGED <<token, faults>>
       \/ /\ token # None
          /\ \/ token' = Stored(r)
             \/ r.kind = "scan" /\ ~r.full /\ UNCHANGED token
          /\ \/ bridge' = Told(r, TRUE) /\ UNCHANGED faults
             \/ r.waits /\ Fault /\ bridge' = Told(r, FALSE)
    /\ UNCHANGED <<config, stops, plugs, saves>>

\* delete_token
DeleteToken ==
    /\ token # None
    /\ token' = None
    /\ UNCHANGED <<config, bridge, req, Counters>>

\* save_scanner_bridge_settings: _require_admin is defined nowhere, so every
\* request ends in a NameError and the settings stay as they are.
Save ==
    /\ saves < MaxSaves
    /\ saves' = saves + 1
    /\ UNCHANGED <<token, config, bridge, req, faults, stops, plugs>>

Handles(s) == Read(s) \/ Commit(s)

Next ==
    \/ Tick \/ BridgeStarts \/ BridgeStops \/ Plugs \/ ReadsCode \/ Refresh
    \/ DeleteToken \/ Save
    \/ \E s \in Slots : \/ SendScan(s) \/ SendBeat(s) \/ Lose(s) \/ TimesOut(s)
                        \/ Handles(s)

Spec == Init /\ [][Next]_vars

-----------------------------------------------------------------------------
(* What the pages show (_scanner_state).                                   *)

Online == token # None /\ token.age <= OnlineFor

Connected == Online /\ token.plugged

\* A bridge that runs is shown online, unless two heartbeats in a row got no
\* answer or its token was deleted.
RunningIsOnline ==
    bridge.up /\ token # None /\ bridge.misses <= 1 => Online

\* A scanner that was unplugged, or whose bridge stopped, is shown connected
\* for the three minutes and the time of a late request, and not longer.
UnpluggedFades == bridge.off > OnlineFor + Life => ~Connected

\* B2M shows a bridge and a device as they are, give or take the heartbeat
\* (_update_scanner_telemetry, _scanner_state).
StatusCorrect == TypeOK /\ RunningIsOnline /\ UnpluggedFades
=============================================================================
