------------------------------ MODULE ScanKeys ------------------------------
(***************************************************************************)
(* How the USB bridge makes barcodes of key events (_read_device and       *)
(* decode_key of tools/barcode2mealie-usb/scanner.py). The scanner is a    *)
(* keyboard: it types the characters of a label and Enter. Keys are lost,  *)
(* the device goes and comes back, the bridge reads late, and the heartbeat*)
(* thread changes the settings at any moment. What becomes of a barcode    *)
(* afterwards is ScanDelivery.                                             *)
(*                                                                         *)
(* Shift stands for AltGr as well. Labels neither begin nor end with       *)
(* blanks, which the bridge would strip.                                   *)
(***************************************************************************)
EXTENDS Naturals, FiniteSets, Sequences, SequencesExt

CONSTANTS
    Labels,           \* what can be scanned
    KeysOf,           \* per label: the keys that its scanner types
    DraftsOf,         \* and what they say before each of them is typed
    Normal, Shifted,  \* the tables of the keyboard's layout
    MaxLength,        \* MAX_BARCODE_LENGTH
    KeySettings,      \* values of the settings: [min, gap]
    Cap,              \* bound of the clock, above each gap
    MaxScans, MaxFaults, MaxSaves   \* bounds

VARIABLES
    buffer,    \* the characters read, each with its scan (history)
    shift,     \* shift_down
    since,     \* time since the last character was read
    setting,   \* _runtime_config
    plugged,   \* the device is open
    rest,      \* keys that the scanner has still to type
    scan,      \* the scan that is typed (history, as is the next)
    last,      \* the scan that ended last, and what was made of it
    faults, saves

bounds == <<faults, saves>>

vars == <<buffer, shift, since, setting, plugged, rest, scan, last, bounds>>

\* The characters of a label.
TextOf(l) == Last(DraftsOf[l]).text

Key == UNION {ToSet(KeysOf[l]) : l \in Labels}

Char == [is : {Normal[k] : k \in DOMAIN Normal} \cup {Shifted[k] : k \in DOMAIN Shifted},
         of : 1..MaxScans]

\* apart: it began on an empty buffer, or later than the gap after what is in
\* the buffer, which is not full. whole: each key of it is read, in the pace of
\* the gap, with Shift as it should be, and it is never too long.
Scan == [n : 0..MaxScans, text : {<<>>} \cup {TextOf(l) : l \in Labels},
         apart : BOOLEAN, whole : BOOLEAN]

TypeOK ==
    /\ buffer \in Seq(Char) /\ Len(buffer) <= MaxLength
    /\ shift \in BOOLEAN /\ plugged \in BOOLEAN
    /\ since \in 0..Cap
    /\ setting \in KeySettings
    /\ scan \in Scan /\ rest \in Seq(Key)
    /\ faults \in 0..MaxFaults /\ saves \in 0..MaxSaves

NoScan == [n |-> 0, text |-> <<>>, apart |-> FALSE, whole |-> FALSE]

Init ==
    /\ buffer = <<>> /\ shift = FALSE /\ since = Cap
    /\ setting \in KeySettings
    /\ plugged = TRUE
    /\ rest = <<>> /\ scan = NoScan
    /\ last = [scan |-> NoScan, min |-> 0, value |-> <<>>]
    /\ faults = 0 /\ saves = 0

-----------------------------------------------------------------------------
(* The scanner and its surroundings.                                       *)

StartsScan(l) ==
    /\ rest = <<>> /\ scan.n < MaxScans
    /\ rest' = KeysOf[l]
    /\ scan' = [n |-> scan.n + 1, text |-> TextOf(l),
                apart |-> \/ buffer = <<>>
                          \/ since > setting.gap /\ Len(buffer) < MaxLength,
                whole |-> /\ plugged /\ ~shift
                          /\ \A d \in ToSet(DraftsOf[l]) : Len(d.text) <= MaxLength]
    /\ UNCHANGED <<buffer, shift, since, setting, plugged, last, bounds>>

Missed == rest' = Tail(rest) /\ scan' = [scan EXCEPT !.whole = FALSE]

LosesKey ==
    /\ rest # <<>> /\ faults < MaxFaults
    /\ faults' = faults + 1
    /\ Missed
    /\ UNCHANGED <<buffer, shift, since, setting, plugged, last, saves>>

TypesUnheard ==
    /\ rest # <<>> /\ ~plugged
    /\ Missed
    /\ UNCHANGED <<buffer, shift, since, setting, plugged, last, bounds>>

\* The time at which the bridge reads a key counts, not that of the key.
Tick ==
    /\ since < Cap
    /\ since' = since + 1
    /\ scan' = [scan EXCEPT !.whole =
                    @ /\ ~(/\ rest # <<>> /\ since' > setting.gap
                           /\ \E i \in DOMAIN buffer : buffer[i].of = scan.n)]
    /\ UNCHANGED <<buffer, shift, setting, plugged, rest, last, bounds>>

\* main: the keys read so far are forgotten with the device.
Unplugs ==
    /\ plugged /\ faults < MaxFaults
    /\ faults' = faults + 1
    /\ plugged' = FALSE /\ buffer' = <<>> /\ shift' = FALSE
    /\ scan' = [scan EXCEPT !.whole = @ /\ rest = <<>>]
    /\ UNCHANGED <<since, setting, rest, last, saves>>

Replugs ==
    /\ ~plugged
    /\ plugged' = TRUE
    /\ UNCHANGED <<buffer, shift, since, setting, rest, scan, last, bounds>>

\* refresh_runtime_config, by the heartbeat thread.
Refresh ==
    /\ saves < MaxSaves
    /\ saves' = saves + 1
    /\ setting' \in KeySettings \ {setting}
    /\ scan' = [scan EXCEPT !.apart = @ /\ setting'.gap = setting.gap,
                            !.whole = @ /\ setting'.gap = setting.gap]
    /\ UNCHANGED <<buffer, shift, since, plugged, rest, last, faults>>

-----------------------------------------------------------------------------
(* The bridge reads a key.                                                 *)

\* A table of the layout, or else the one without Shift (decode_key).
Decodes(key, down) == key \in DOMAIN Normal \/ (down /\ key \in DOMAIN Shifted)

Decoded(key, down) ==
    IF down /\ key \in DOMAIN Shifted THEN Shifted[key] ELSE Normal[key]

Modifiers == {"shift", "unshift", "enter", "backspace", "escape"}

\* Mutant: what is in the buffer is never too old.
NeverStale == FALSE

Stale == buffer # <<>> /\ since > setting.gap

Reads(key) ==
    /\ plugged /\ rest # <<>> /\ Head(rest) = key
    /\ rest' = Tail(rest)
    /\ UNCHANGED <<setting, plugged, bounds>>

ReadShift ==
    /\ \/ Reads("shift") /\ shift' = TRUE
       \/ Reads("unshift") /\ shift' = FALSE
    /\ UNCHANGED <<buffer, since, scan, last>>

ReadEnter ==
    /\ Reads("enter")
    /\ last' = [scan |-> scan, min |-> setting.min,
                value |-> IF Len(buffer) < setting.min \/ Len(buffer) > MaxLength
                          THEN <<>> ELSE buffer]
    /\ buffer' = <<>>
    /\ UNCHANGED <<shift, since, scan>>

ReadBackspace ==
    /\ Reads("backspace")
    /\ buffer' = IF buffer = <<>> THEN <<>> ELSE Front(buffer)
    /\ UNCHANGED <<shift, since, scan, last>>

ReadEscape ==
    /\ Reads("escape")
    /\ buffer' = <<>>
    /\ UNCHANGED <<shift, since, scan, last>>

\* A full buffer takes no character, and is not looked at for its age.
ReadChar(key) ==
    /\ Reads(key)
    /\ key \notin Modifiers
    /\ IF Decodes(key, shift) /\ Len(buffer) < MaxLength
       THEN /\ buffer' = Append(IF Stale THEN <<>> ELSE buffer,
                                [is |-> Decoded(key, shift), of |-> scan.n])
            /\ since' = 0
       ELSE UNCHANGED <<buffer, since>>
    /\ UNCHANGED <<shift, scan, last>>

ReadKey ==
    \/ ReadShift \/ ReadEnter \/ ReadBackspace \/ ReadEscape
    \/ \E key \in ToSet(rest) : ReadChar(key)

Next ==
    \/ \E l \in Labels : StartsScan(l)
    \/ LosesKey \/ TypesUnheard \/ Tick \/ Unplugs \/ Replugs \/ Refresh
    \/ ReadKey

Spec == Init /\ [][Next]_vars

-----------------------------------------------------------------------------
(* A scanner types the keys by which the layout gives the characters of a  *)
(* label, corrections included, and then Enter.                            *)

After(draft, key) ==
    CASE key = "shift" -> [draft EXCEPT !.shift = TRUE]
      [] key = "unshift" -> [draft EXCEPT !.shift = FALSE]
      [] key = "backspace" ->
             [draft EXCEPT !.text = IF @ = <<>> THEN <<>> ELSE Front(@)]
      [] key = "escape" -> [draft EXCEPT !.text = <<>>]
      [] OTHER -> IF Decodes(key, draft.shift)
                  THEN [draft EXCEPT !.text = Append(@, Decoded(key, draft.shift))]
                  ELSE draft

IsTyped(keys, drafts) ==
    /\ keys # <<>> /\ Len(drafts) = Len(keys)
    /\ drafts[1] = [text |-> <<>>, shift |-> FALSE]
    /\ \A p \in 1..(Len(keys) - 1) :
           keys[p] # "enter" /\ drafts[p + 1] = After(drafts[p], keys[p])
    /\ Last(keys) = "enter" /\ Last(drafts).text # <<>>

-----------------------------------------------------------------------------
Text(value) == [i \in DOMAIN value |-> value[i].is]

\* A scan that was read apart from others and in whole gives its barcode,
\* unless that is too short, whatever became of the scans before it.
WholeScansCount ==
    last.scan.apart /\ last.scan.whole =>
        Text(last.value) = IF Len(last.scan.text) < last.min THEN <<>>
                           ELSE last.scan.text

\* The characters of a scan that began apart are never in the buffer with
\* those of another.
NoneMixed ==
    scan.apart /\ (\E i \in DOMAIN buffer : buffer[i].of = scan.n) =>
        \A i \in DOMAIN buffer : buffer[i].of = scan.n

\* The bridge posts what was scanned, also after broken scans (_read_device).
KeysCorrect == TypeOK /\ WholeScansCount /\ NoneMixed

-----------------------------------------------------------------------------
(* What the sources say and the code does not keep (README, Divergences).  *)

\* "Ignoring too-long scan" (scanner.py:493): not a part of it is posted.
TooLongIgnored == Len(last.scan.text) > MaxLength => last.value = <<>>

\* "Discarding stale partial scan" (scanner.py:507): no character goes to an
\* Enter that is read later than the gap.
StaleDiscarded ==
    [][last' # last /\ since > setting.gap => last'.value = <<>>]_vars
=============================================================================
