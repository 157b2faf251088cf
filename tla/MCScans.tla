------------------------------ MODULE MCScans ------------------------------
(***************************************************************************)
(* ScanFeed, BarcodeLinks, ScannerStatus and ScanKeys for TLC: what users  *)
(* see of scans, of barcodes and of scanners, and what the bridge reads.   *)
(* One of them runs in each behaviour; nothing is lost by that, since they *)
(* share no state: what the others do to a component is among its own      *)
(* actions.                                                                *)
(***************************************************************************)
EXTENDS ScanFeed, TLC

CONSTANTS
    s1, s2, c1, c2, f1, f2, r1, r2, v1, v2,
    Codes, Numeric, Foods, Requests, MaxEdits,
    Slots, Interval, Slack, Life, OnlineFor, Throttle, Configs,
    MaxScans, MaxMisses, MaxStops, MaxPlugs, MaxSaves,
    one, two, long, k1, k2, a, capA, b,
    Labels, KeysOf, DraftsOf, Normal, Shifted, KeySettings,
    MaxLength, Cap, MaxLabels, MaxLosses, MaxRefreshes

ASSUME LinksAssumption == Numeric \subseteq Codes /\ MaxEdits \in Nat

\* Two heartbeats fit into the time for which a bridge is shown online, and the
\* server's time for a report: 60 s and 8 s each by default, and 180 s.
ASSUME StatusAssumption ==
    /\ Interval \in Nat /\ Slack \in Nat /\ Life \in Nat /\ OnlineFor \in Nat
    /\ Throttle \in Nat
    /\ MaxScans \in Nat /\ MaxMisses \in Nat /\ MaxStops \in Nat
    /\ MaxPlugs \in Nat /\ MaxSaves \in Nat
    /\ Life + 2 * (Interval + Slack) <= OnlineFor

VARIABLES
    part,   \* the component that runs
    cache, targets, known, req, edits, crossed, deleted,
    token, config, bridge, report, misses, stops, plugs, saves,
    buffer, shift, since, setting, plugged, rest, typed, last, losses, refreshes

linkVars == <<cache, targets, known, req, edits, crossed, deleted>>

statusVars == <<token, config, bridge, report, misses, stops, plugs, saves>>

keyVars == <<buffer, shift, since, setting, plugged, rest, typed, last, losses,
             refreshes>>

all == <<part, vars, linkVars, statusVars, keyVars>>

B == INSTANCE BarcodeLinks

S == INSTANCE ScannerStatus WITH
         req <- report, faults <- misses, MaxFaults <- MaxMisses

K == INSTANCE ScanKeys WITH
         MaxScans <- MaxLabels, MaxFaults <- MaxLosses, MaxSaves <- MaxRefreshes,
         scan <- typed, faults <- losses, saves <- refreshes

Draft == [text : Seq({Normal[k] : k \in DOMAIN Normal} \cup {Shifted[k] : k \in DOMAIN Shifted}),
          shift : BOOLEAN]

\* Every scanner types its labels by the tables of the layout.
ASSUME KeysAssumption ==
    /\ \A l \in Labels : /\ KeysOf[l] \in Seq(K!Key) /\ DraftsOf[l] \in Seq(Draft)
                         /\ K!IsTyped(KeysOf[l], DraftsOf[l])
    /\ KeySettings \subseteq [min : Nat, gap : Nat]
    /\ MaxLength \in Nat /\ Cap \in Nat
    /\ MaxLabels \in Nat /\ MaxLosses \in Nat /\ MaxRefreshes \in Nat

\* A label with a Shift in it, one with a correction, and one that is too long.
MCKeys == one :> <<k1, "shift", k1, "unshift", "enter">>
          @@ two :> <<k2, "backspace", k2, "enter">>
          @@ long :> <<"escape", k2, k1, k2, k1, "enter">>

MCDraft(text, down) == [text |-> text, shift |-> down]

MCDrafts == one :> << MCDraft(<<>>, FALSE), MCDraft(<<a>>, FALSE), MCDraft(<<a>>, TRUE),
                      MCDraft(<<a, capA>>, TRUE), MCDraft(<<a, capA>>, FALSE) >>
            @@ two :> << MCDraft(<<>>, FALSE), MCDraft(<<b>>, FALSE), MCDraft(<<>>, FALSE),
                         MCDraft(<<b>>, FALSE) >>
            @@ long :> << MCDraft(<<>>, FALSE), MCDraft(<<>>, FALSE), MCDraft(<<b>>, FALSE),
                          MCDraft(<<b, a>>, FALSE), MCDraft(<<b, a, b>>, FALSE),
                          MCDraft(<<b, a, b, a>>, FALSE) >>

MCNormal == k1 :> a @@ k2 :> b

MCShifted == k1 :> capA

MCSettings == [min : {1, 2}, gap : {0, 1}]

\* One of the two receipts is lost, and each behaviour has either an open
\* page, or clicks, or troubles.
FeedInit ==
    /\ receipt[s2] = "gone"
    /\ \/ page /\ clicks = MaxClicks /\ troubles = MaxTroubles
       \/ ~page /\ clicks = 0 /\ troubles = MaxTroubles
       \/ ~page /\ clicks = MaxClicks /\ troubles = 0

FeedRests ==
    /\ ~linked /\ ~page /\ clicks = 0 /\ troubles = 0
    /\ receipt = [s \in Scans |-> "gone"]

LinksRest == \A r \in Requests : req[r].op = "scan" /\ req[r].code = c1

KeysRest == setting = [min |-> 1, gap |-> 1]

MCInit ==
    /\ part \in {"feed", "links", "status", "keys"}
    /\ Init /\ IF part = "feed" THEN FeedInit ELSE FeedRests
    /\ B!Init /\ (part = "links" \/ LinksRest)
    /\ S!Init /\ config = v1 /\ bridge.config = v1 /\ ~token.prefix
    /\ K!Init /\ (part = "keys" \/ KeysRest)

MCNext ==
    /\ UNCHANGED part
    /\ \/ part = "feed" /\ Next
             /\ UNCHANGED <<linkVars, statusVars, keyVars>>
       \/ part = "links" /\ B!Next
             /\ UNCHANGED <<vars, statusVars, keyVars>>
       \/ part = "status" /\ S!Next
             /\ UNCHANGED <<vars, linkVars, keyVars>>
       \/ part = "keys" /\ K!Next
             /\ UNCHANGED <<vars, linkVars, statusVars>>

\* Requests are alike.
Alike == Permutations({r1, r2})

MCSpec == MCInit /\ [][MCNext]_all

-----------------------------------------------------------------------------
\* Nothing a scan says is lost (ScanFeed).
FeedKept == part = "feed" => FeedCorrect

\* The rows of a barcode belong together (BarcodeLinks).
LinksCorrect == part = "links" => B!LinksCorrect

\* A scan keeps and routes the links of its barcode (BarcodeLinks).
ScansObeyLinks == B!ScansObeyLinks

\* Bridge and device are shown as they are (ScannerStatus), and what is
\* scanned is what the bridge posts (ScanKeys).
ScannerCorrect == /\ part = "status" => S!StatusCorrect
                  /\ part = "keys" => K!KeysCorrect
=============================================================================
