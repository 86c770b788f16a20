------------------------------ MODULE RigBridge ------------------------------
(***************************************************************************)
(* sim/bridge.py polling the rig and publishing its points: one Modbus read  *)
(* of the registers, which the rig's Modbus task copies one word at a time   *)
(* while its loop rewrites them, one of the discrete inputs, and then every  *)
(* node.  Nothing reads two nodes together, so publishing is one step.       *)
(***************************************************************************)
EXTENDS RigFirmware

VARIABLES
  poll,      \* "idle", "registers" being copied, "bits" asked for, "publish"
  words,     \* the registers copied so far, and the status word
  inputs,    \* the discrete inputs of the reply
  pub        \* each node: value and quality

bridgeVars == <<poll, words, inputs, pub>>
vars == <<fwVars, bridgeVars>>

Digitals == {"running", "relay1", "relay2"}
Null(quality) == [value |-> "none", quality |-> quality]
NoWords  == [p \in {} |-> "invalid"]
Nodes    == Analog \cup Digitals
Nothing  == [running |-> FALSE, relay |-> [r \in Relays |-> FALSE]]

TypeOK ==
  /\ build \in Settings /\ moves \in 0 .. build.moves
  /\ reg \in [Analog -> Reading] /\ status \subseteq Bits
  /\ acs.next \in 1 .. Scans /\ acs.count \in 0 .. Scans
  /\ acs.window \in [1 .. Scans -> {"old", "forward", "back"}]
  /\ \A p \in Probes : known[p].settled => known[p].candidate = "none"
  /\ phase \in 0 .. ScansPerTemp - 1
  /\ task.op \in {"idle", "pin", "stamp"} /\ (~ build.relays => task = Idle)
  /\ poll \in {"idle", "registers", "bits", "publish"}
  /\ DOMAIN words \subseteq Analog \cup {"status"}
  /\ \A n \in Nodes : pub[n].value = "none" <=> pub[n].quality \notin {"Good", "Uncertain"}

-----------------------------------------------------------------------------

BadCode(p) == IF p = "supply" THEN "BadOutOfRange" ELSE "BadDeviceFailure"

\* Mutant of Decode: the status bit alone decides.
Decode_StatusOnly(p, w) ==
  IF p \in Probes /\ "config" \notin w["status"] THEN Null("BadConfigurationError")
  ELSE IF p = "current" /\ "zeroed" \notin w["status"] THEN Null("BadDeviceFailure")
  ELSE IF p \notin w["status"] THEN Null(BadCode(p))
  ELSE [value |-> w[p], quality |-> IF p = "current" THEN "Uncertain" ELSE "Good"]

\* The words carry a reading when its status bit is set and it is no sentinel.
Decode(p, w) ==
  IF p \in Probes /\ "config" \notin w["status"] THEN Null("BadConfigurationError")
  ELSE IF p = "current" /\ "zeroed" \notin w["status"] THEN Null("BadDeviceFailure")
  ELSE IF p \notin w["status"] THEN Null(BadCode(p))
  ELSE IF w[p] = "invalid" THEN Null("BadDeviceFailure")
  ELSE [value |-> w[p], quality |-> IF p = "current" THEN "Uncertain" ELSE "Good"]

OnOff(on) == IF on THEN "on" ELSE "off"
Input(d, i) == OnOff(CASE d = "running" -> i.running
                       [] d = "relay1" -> i.relay[1] [] d = "relay2" -> i.relay[2])

\* Mutant of DecodeDigital: an input reads what it reads.
DecodeDigital_AsRead(d, w, i) == [value |-> Input(d, i), quality |-> "Good"]

DecodeDigital(d, w, i) ==
  IF (IF d = "running" THEN "switch" ELSE "relays") \notin w["status"] THEN Null("BadNotConnected")
  ELSE [value |-> Input(d, i), quality |-> "Good"]

Poll ==
  /\ poll = "idle" /\ serving /\ task.op = "idle"
  /\ poll' = "registers"
  /\ UNCHANGED <<fwVars, words, inputs, pub>>

\* The reply w with the word of p added.
With(w, p, value) == [q \in DOMAIN w \cup {p} |-> IF q = p THEN value ELSE w[q]]

\* onReadInputRegisters, one word: data registers before the status word.
CopyWord ==
  /\ poll = "registers" /\ serving
  /\ LET left == {i \in DOMAIN Points : Points[i] \in build.sensors \ DOMAIN words}
         p    == Points[Min(left)]
     IN IF left # {}
        THEN words' = With(words, p, reg[p]) /\ UNCHANGED poll
        ELSE words' = With(words, "status", status) /\ poll' = "bits"
  /\ UNCHANGED <<fwVars, inputs, pub>>

ReadBits ==
  /\ poll = "bits" /\ serving /\ task.op = "idle"
  /\ inputs' = bits /\ poll' = "publish"
  /\ UNCHANGED <<fwVars, words, pub>>

Publish ==
  /\ poll = "publish" /\ poll' = "idle"
  /\ pub' = [n \in Nodes |-> IF n \in Analog THEN Decode(n, words)
                             ELSE DecodeDigital(n, words, inputs)]
  /\ words' = NoWords /\ inputs' = Nothing /\ UNCHANGED fwVars

Marked(n) == Null("BadNoCommunication")

\* The rig cannot be reached, resets, or a reply is lost: _mark_all_bad.
PollFails ==
  /\ \/ ~ serving /\ poll # "publish" /\ UNCHANGED moves
     \/ poll \in {"registers", "bits"} /\ Moving("reset")
  /\ pub' = [n \in Nodes |-> Marked(n)]
  /\ poll' = "idle" /\ words' = NoWords /\ inputs' = Nothing
  /\ UNCHANGED <<build, bench, pc, phase, serving, memory, sensing, coils, rezeroRequested>>

Bridge == Poll \/ CopyWord \/ ReadBits \/ Publish \/ PollFails

\* The Modbus task serves one request at a time.
Serving == poll # "registers" /\ Coil

\* build_address_space: every node is Good from the start, at 0.0 or False.
AsBuilt == [n \in Nodes |-> [value   |-> IF n \in Analog THEN "unread" ELSE OnOff(FALSE),
                             quality |-> "Good"]]

Init == FwInit /\ poll = "idle" /\ words = NoWords /\ inputs = Nothing /\ pub = AsBuilt

Next == \/ (Arduino \/ Serving \/ Bench \/ Tick) /\ UNCHANGED bridgeVars
        \/ Bridge

\* The bridge's loop; a poll fails by itself only when nothing answers.
Polls == Poll \/ CopyWord \/ ReadBits \/ Publish \/ (~ serving /\ PollFails)

\* loop runs for ever, requests that were accepted are carried out, the bridge
\* polls every second, and time passes.
Spec == Init /\ [][Next]_vars
FairSpec == /\ Spec
            /\ WF_vars(Arduino /\ UNCHANGED bridgeVars)
            /\ WF_vars(CoilStep /\ UNCHANGED bridgeVars)
            /\ WF_vars(Tick /\ UNCHANGED bridgeVars)
            /\ WF_vars(Polls)

-----------------------------------------------------------------------------
(* A number is published only for a reading: never a sentinel (-32.768 A, 655.35 mm/s), although the words of a reply *)
(* are copied while the loop writes them and setup sets the accelerometer's status bit before anything was read; and  *)
(* never the wild first conversion or the power-on value of a probe that was pulled and put back.  (And every         *)
(* variable keeps its type.)  The 0.0 that a node is built with is no reading and no sentinel: it stands, as Good,    *)
(* until the first poll ends (SilentUntilRead below).                                                                 *)
OnlyReadings ==
  /\ TypeOK
  /\ \A p \in Analog : pub[p].value # "invalid"
  /\ \A p \in Probes : pub[p].value # "wild"

(* main.cpp "no average ever spans a fault": a published current is the mean of scans since the last that failed,    *)
(* although the window is emptied by its count alone and its next place stays where it was.                          *)
NoAverageSpansAFault == pub["current"].value # "spans"

(* REGISTER_MAP.md "Fan starts": two coils are never energised less than Stagger apart, whoever asks.                *)
StartsStaggered ==
  [][\A r \in Relays : ~ pin[r] /\ pin'[r] => sinceStart >= Stagger]_vars

(* rig_config.h: a run switch or a relay that is not fitted is never published as an input that reads False, from    *)
(* the first poll on (before it, see SilentUntilRead below) and whatever resets and is lost after it; one that is     *)
(* fitted is published as commanded, once the commands rest.  In between it may not be: ClosedIsOn below.            *)
Polled == pub["current"].value # "unread"
DigitalsAgree ==
  /\ [](Polled /\ ~ build.switch => pub["running"].value = "none")
  /\ [](Polled /\ ~ build.relays => pub["relay1"].value = "none" /\ pub["relay2"].value = "none")
  /\ <>[](build.relays => /\ pub["relay1"].value = OnOff(relayOn[1])
                          /\ pub["relay2"].value = OnOff(relayOn[2]))
  /\ <>[](build.switch => pub["running"].value = OnOff(running))

(* Whatever failed and came back, was pulled and put back, reset or lost on the way: a point whose sensor reads is   *)
(* in the end published with a value again, and one whose sensor does not is Bad.                                    *)
Reads(p) == CASE p = "current" -> acs.zeroed /\ "acs" \notin broken /\ (acs.zero = "true" \/ Load)
              [] p = "vib"     -> mpuPresent /\ "vib" \notin broken
              [] p \in Probes  -> build.config /\ probe[p].plug = "in"
              [] p = "supply"  -> supply = "on"
PointsSettle == \A p \in Analog :
  /\ <>[](p \in build.sensors /\ Reads(p)) => <>[](pub[p].value # "none")
  /\ <>[](p \in build.sensors /\ ~ Reads(p)) => <>[](pub[p].value = "none")

-----------------------------------------------------------------------------
(* What the documentation says, or a reader may expect, and the code does not do: no run checks these; the README     *)
(* says on which instance TLC refutes each.                                                                           *)

(* main.cpp:205 "Only with every relay de-energised and settled: a zero taken with the fans running would offset     *)
(* every current reading for the life of the boot."                                                                  *)
ZeroHasNoLoad == acs.zeroed => acs.zero = "true"

(* bridge.py decode "A value is returned only when the firmware says the sensor was read", rig_config.h on inputs     *)
(* that are not fitted: nothing is shown of what was never read.  Until the first poll ends, every node is Good.      *)
SilentUntilRead ==
  /\ \A p \in Analog : p \notin build.sensors => pub[p].value = "none"
  /\ ~ build.switch => pub["running"].value = "none"

(* A run switch that nobody touches and that was closed from the start is not published as open.  Over RS-485 the     *)
(* server answers, after a reset, before the first pass of loop has read the switch.                                  *)
ClosedIsOn ==
  [][Publish /\ build.switch /\ "run" \notin build.moving => pub'["running"].value # "off"]_vars
=============================================================================
