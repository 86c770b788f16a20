----------------------------- MODULE RigFirmware -----------------------------
(***************************************************************************)
(* firmware/src/main.cpp: the bench rig.  Two tasks share its memory word by *)
(* word: the Arduino task, which runs setup and then loop for ever and alone *)
(* writes the input registers, and the Modbus task, which copies registers   *)
(* into its replies and carries out coil writes.  `pc' is the next step of   *)
(* the first, `task' what the second is in the middle of.                    *)
(*                                                                         *)
(* A register holds what its number is worth: "true" (what the sensor sees), *)
(* "offset" (a current over a zero taken under load), "spans" (an average    *)
(* over a fault), "wild" (a probe's first conversion), or the sentinel.      *)
(* Status bits carry the name of the point they speak of.                    *)
(***************************************************************************)
EXTENDS Integers, FiniteSets, SequencesExt, TLC

CONSTANTS
  Settings,      \* the builds, and for each what happens on the bench (Setting)
  Scans,         \* ACS_AVERAGE_SCANS
  ScansPerTemp,  \* loop passes with a scan for one with temperatures
  Stagger,       \* RELAY_STAGGER_MS, in ticks
  Settle         \* RELAY_SETTLE_MS, in ticks

Points  == <<"current", "vib", "hub", "amb", "supply">>   \* in register order
Analog  == Range(Points)
Probes  == {"hub", "amb"}
Relays  == {1, 2}
Reading == {"invalid", "true", "offset", "spans", "wild"}
Bits    == Analog \cup {"zeroed", "config", "switch", "relays"}

\* A build (rig_config.h; RS-485 or WiFi) and the bounds of its behaviours: the
\* sensors that are read, what may move, and how many moves there are.
Setting == [relays : BOOLEAN, switch : BOOLEAN, config : BOOLEAN, rtu : BOOLEAN,
            sensors : SUBSET Analog, moves : Nat,
            moving : SUBSET {"acs", "vib", "hub", "supply", "coils", "run", "reset"}]

ASSUME SettingAssumption == \A s \in Settings : s \in Setting
ASSUME RigAssumption     == Scans \in Nat \ {0} /\ ScansPerTemp \in Nat \ {0}
                            /\ Stagger \in Nat /\ Settle \in Nat

VARIABLES
  build,       \* the setting
  moves,
  supply,      \* the 12 V supply: "off" (under the ADC's floor), "on", "high" (at its ceiling)
  broken,      \* of "acs" and "vib": those that do not read
  probe,       \* each DS18B20: in its socket, scratchpad, no conversion yet
  running,     \* the run switch is closed
  pc, phase, serving,
  reg, status, bits,           \* inputRegisters, its status word, discreteInputs
  acs,         \* zero, acsZeroed, acsWindow, acsWindowNext, acsWindowCount; load seen in sampling
  known,       \* ProbeState of each probe
  pending,     \* tempConversionPending
  mpuPresent, rezeroRequested, lastSupply,
  relayOn, pin,                \* the flag, and the coil itself
  sinceOn, sinceOff,           \* millis() - lastRelayOn, - lastRelayOff
  sinceStart,                  \* since a coil was last energised
  task

bench    == <<supply, broken, probe, running>>
memory   == <<reg, status, bits>>
sensing  == <<acs, known, pending, mpuPresent, lastSupply>>
coils    == <<relayOn, pin, sinceOn, sinceOff, sinceStart, task>>
fwVars   == <<build, moves, bench, pc, phase, serving, memory, sensing,
              coils, rezeroRequested>>

Idle == [op |-> "idle", relay |-> 1, on |-> FALSE]

Load == IF build.relays THEN \E r \in Relays : pin[r] ELSE supply # "off"
\* loadIsOff, the supply having last read `last'.
LoadIsOff(last) == IF build.relays THEN (\A r \in Relays : ~ relayOn[r]) /\ sinceOff >= Settle
                   ELSE last = "off"

Clamp(n, top) == IF n < top THEN n ELSE top

-----------------------------------------------------------------------------
(* The Arduino task.                                                        *)

Unread  == [p \in Analog |-> "invalid"]
NoScan  == [i \in 1 .. Scans |-> "old"]
FreshAcs == [zero |-> "none", zeroed |-> FALSE, window |-> NoScan, next |-> 1,
             count |-> 0, loaded |-> FALSE]
FreshProbe == [settled |-> FALSE, candidate |-> "none"]
AtBoot == UNION {IF build.config THEN {"config"} ELSE {},
                 IF build.switch THEN {"switch"} ELSE {},
                 IF build.relays THEN {"relays"} ELSE {},
                 {"vib"} \cap (build.sensors \ broken)}

\* setup, up to the Modbus server, which over RS-485 begins before the zero.
Setup ==
  /\ pc = "setup"
  /\ reg' = Unread /\ status' = AtBoot /\ bits' = [running |-> FALSE, relay |-> [r \in Relays |-> FALSE]]
  /\ acs' = FreshAcs /\ known' = [p \in Probes |-> FreshProbe] /\ pending' = FALSE
  /\ mpuPresent' = ("vib" \notin broken) /\ lastSupply' = "off"
  /\ relayOn' = [r \in Relays |-> FALSE] /\ pin' = [r \in Relays |-> FALSE]
  /\ sinceOn' = 0 /\ sinceOff' = 0 /\ sinceStart' = Stagger /\ task' = Idle
  /\ rezeroRequested' = FALSE /\ phase' = 0 /\ serving' = build.rtu
  /\ pc' = "firstZero"
  /\ UNCHANGED <<build, moves, bench>>

Begin ==
  /\ pc = "begin" /\ pc' = "top" /\ serving' = TRUE
  /\ UNCHANGED <<build, moves, bench, phase, memory, sensing, coils, rezeroRequested>>

Loops == UNCHANGED <<build, moves, bench, serving, coils>>

\* The body of loop, in order; the temperatures are read in one pass of
\* ScansPerTemp, once a conversion has been asked for.
Body == <<"hub", "amb", "hubStatus", "ambStatus", "request", "current",
          "currentStatus", "vib", "vibStatus", "supply", "supplyStatus", "digital">>
Temps == {"hub", "amb", "hubStatus", "ambStatus"}
About(s) == CASE s \in {"hub", "hubStatus", "request"} -> "hub"
              [] s \in {"amb", "ambStatus"}            -> "amb"
              [] s \in {"current", "currentStatus"}    -> "current"
              [] s \in {"vib", "vibStatus"}            -> "vib"
              [] s \in {"supply", "supplyStatus"}      -> "supply"
Taken(s) == /\ s # "digital" => About(s) \in build.sensors
            /\ s \in Temps => phase = 0 /\ pending
            /\ s = "request" => phase = 0
Ahead(n) == {i \in n .. Len(Body) : Taken(Body[i])}
From(n)  == Body[Min(Ahead(n))]
Place(s) == CHOOSE i \in DOMAIN Body : Body[i] = s
At(s)    == pc = s /\ pc' = From(Place(s) + 1)
Zeroing(first) == IF pc = first THEN "begin" ELSE From(1)

\* zeroCurrentSensor: whether the load is off now, and then half a second of
\* samples, during which `loaded' records that it was not.
CheckZero ==
  /\ pc \in {"firstZero", "zero"}
  /\ pc = "firstZero" => sinceOff >= Settle              \* delay(RELAY_SETTLE_MS)
  /\ lastSupply' = IF build.relays THEN lastSupply ELSE supply
  /\ IF LoadIsOff(lastSupply')
     THEN /\ acs' = [acs EXCEPT !.loaded = Load] /\ UNCHANGED status
          /\ pc' = IF pc = "zero" THEN "sample" ELSE "firstSample"
     ELSE /\ acs' = [acs EXCEPT !.zeroed = FALSE] /\ status' = status \ {"zeroed"}
          /\ pc' = Zeroing("firstZero")
  /\ Loops /\ UNCHANGED <<phase, reg, bits, known, pending, mpuPresent, rezeroRequested>>

SampleZero ==
  /\ pc \in {"firstSample", "sample"}
  /\ LET plausible == "acs" \notin broken IN
     /\ acs' = [acs EXCEPT !.zero = IF acs.loaded \/ Load THEN "offset" ELSE "true",
                           !.zeroed = plausible, !.loaded = FALSE]
     /\ status' = IF plausible THEN status \cup {"zeroed"} ELSE status \ {"zeroed"}
  /\ pc' = Zeroing("firstSample")
  /\ Loops /\ UNCHANGED <<phase, reg, bits, known, pending, mpuPresent, lastSupply, rezeroRequested>>

Top ==
  /\ pc = "top"
  /\ rezeroRequested' = FALSE
  /\ pc' = IF rezeroRequested THEN "zero" ELSE From(1)
  /\ probe' = [p \in Probes |-> IF probe[p].plug = "pulled" THEN [probe[p] EXCEPT !.plug = "out"]
                                ELSE probe[p]]
  /\ UNCHANGED <<build, moves, supply, broken, running, phase, serving, memory, sensing, coils>>

\* readProbe: no answer and the power-on value are not readings.
ReadProbe(p) == IF build.config /\ probe[p].plug = "in" /\ probe[p].scratch # "reset"
                THEN probe[p].scratch ELSE "invalid"

\* Mutant of Confirmed: a reading that disagrees replaces nothing.
Confirmed_KeepsCandidate(p, v) ==
  IF v = "invalid" THEN [served |-> v, state |-> FreshProbe]
  ELSE IF known[p].settled \/ known[p].candidate = v
    THEN [served |-> v, state |-> [settled |-> TRUE, candidate |-> "none"]]
  ELSE [served |-> "invalid", state |-> [settled |-> FALSE, candidate |->
          IF known[p].candidate = "none" THEN v ELSE known[p].candidate]]

\* readProbeConfirmed: what is served of the reading v, and the state after it.
Confirmed(p, v) ==
  IF v = "invalid" THEN [served |-> v, state |-> FreshProbe]
  ELSE IF known[p].settled \/ known[p].candidate = v
    THEN [served |-> v, state |-> [settled |-> TRUE, candidate |-> "none"]]
  ELSE [served |-> "invalid", state |-> [settled |-> FALSE, candidate |-> v]]

ReadTemperature(p) ==
  /\ At(p)
  /\ LET r == Confirmed(p, ReadProbe(p)) IN
     reg' = [reg EXCEPT ![p] = r.served] /\ known' = [known EXCEPT ![p] = r.state]
  /\ Loops /\ UNCHANGED <<phase, status, bits, acs, pending, mpuPresent, lastSupply, rezeroRequested>>

\* setStatus: a register holds its sentinel exactly when the read failed.
SetStatus(p, s) ==
  /\ At(s)
  /\ status' = IF reg[p] = "invalid" THEN status \ {p} ELSE status \cup {p}
  /\ Loops /\ UNCHANGED <<phase, reg, bits, sensing, rezeroRequested>>

\* requestTemperatures: every probe on the bus converts, and is done before it
\* is read.  The first conversion since the probe was powered may be wild.
Request ==
  /\ At("request") /\ pending' = TRUE
  /\ \E first \in {"true", "wild"} :
       probe' = [p \in Probes |->
         IF probe[p].plug # "in" THEN probe[p]
         ELSE [plug |-> "in", first |-> FALSE, scratch |-> IF probe[p].first THEN first ELSE "true"]]
  /\ UNCHANGED <<build, moves, supply, broken, running, phase, serving, memory, acs,
                 known, mpuPresent, lastSupply, coils, rezeroRequested>>

\* Mutants of Emptied: a failed scan leaves the window as it was.
Emptied_Keeps == [acs EXCEPT !.window = NoScan]

\* A scan that fails empties the window: what is in it is old from then on.
Emptied == [acs EXCEPT !.count = 0, !.window = NoScan]

\* The window with one more scan in it: "back" is a current below zero.
Averaged ==
  LET sample == IF acs.zero = "offset" /\ ~ Load THEN "back" ELSE "forward"
  IN [acs EXCEPT !.window[acs.next] = sample, !.next = (acs.next % Scans) + 1,
                 !.count = Clamp(acs.count + 1, Scans)]

\* readCurrentAmps over the window w of `count' scans: the mean is the sum of
\* its first `count' places, wherever the next one goes.
Mean(w, count) ==
  LET taken == {w[i] : i \in 1 .. count}
      value == IF "old" \in taken THEN "spans"
               ELSE IF acs.zero = "offset" THEN "offset" ELSE "true"
  IN IF count < Scans \/ taken = {"back"} THEN {"invalid"}
     ELSE IF "back" \in taken THEN {"invalid", value} ELSE {value}

ReadCurrent ==
  /\ At("current")
  /\ acs' = IF acs.zeroed /\ "acs" \notin broken THEN Averaged ELSE Emptied
  /\ \E v \in IF acs.zeroed /\ "acs" \notin broken THEN Mean(acs'.window, acs'.count)
              ELSE {"invalid"} :
       reg' = [reg EXCEPT !["current"] = v]
  /\ Loops /\ UNCHANGED <<phase, status, bits, known, pending, mpuPresent, lastSupply, rezeroRequested>>

ReadVibration ==
  /\ At("vib")
  /\ reg' = [reg EXCEPT !["vib"] = IF mpuPresent /\ "vib" \notin broken THEN "true" ELSE "invalid"]
  /\ Loops /\ UNCHANGED <<phase, status, bits, sensing, rezeroRequested>>

ReadSupply ==
  /\ At("supply")
  /\ lastSupply' = supply
  /\ reg' = [reg EXCEPT !["supply"] = IF supply = "on" THEN "true" ELSE "invalid"]
  /\ Loops /\ UNCHANGED <<phase, status, bits, acs, known, pending, mpuPresent, rezeroRequested>>

ReadDigitals ==
  /\ pc = "digital" /\ pc' = "top" /\ phase' = (phase + 1) % ScansPerTemp
  /\ bits' = [running |-> build.switch /\ running, relay |-> relayOn]
  /\ Loops /\ UNCHANGED <<reg, status, sensing, rezeroRequested>>

Arduino ==
  \/ Setup \/ Begin \/ CheckZero \/ SampleZero \/ Top
  \/ \E p \in Probes : ReadTemperature(p)
  \/ SetStatus("hub", "hubStatus") \/ SetStatus("amb", "ambStatus")
  \/ Request
  \/ ReadCurrent   \/ SetStatus("current", "currentStatus")
  \/ ReadVibration \/ SetStatus("vib", "vibStatus")
  \/ ReadSupply    \/ SetStatus("supply", "supplyStatus")
  \/ ReadDigitals

-----------------------------------------------------------------------------
(* The Modbus task: coil writes.  Reads are RigBridge's.                    *)

Moving(what) == what \in build.moving /\ moves < build.moves /\ moves' = moves + 1
Sampling == pc \in {"firstSample", "sample"}
Serves == UNCHANGED <<build, bench, pc, phase, serving, memory, known, pending,
                      mpuPresent, lastSupply>>

\* Mutant of TooSoon: starts are not staggered.
TooSoon_Never(r) == FALSE

TooSoon(r) == ~ relayOn[r] /\ sinceOn < Stagger

\* onWriteCoil and setRelay: the flag, then the pin, then the time.
WriteCoil(r, on) ==
  /\ Moving("coils") /\ serving /\ task.op = "idle" /\ build.relays
  /\ ~ (on /\ TooSoon(r))
  /\ relayOn' = [relayOn EXCEPT ![r] = on] /\ task' = [op |-> "pin", relay |-> r, on |-> on]
  /\ Serves /\ UNCHANGED <<pin, sinceOn, sinceOff, sinceStart, acs, rezeroRequested>>

WritePin ==
  /\ serving /\ task.op = "pin" /\ task' = [task EXCEPT !.op = "stamp"]
  /\ pin' = [pin EXCEPT ![task.relay] = task.on]
  /\ sinceStart' = IF task.on /\ ~ pin[task.relay] THEN 0 ELSE sinceStart
  /\ Serves /\ UNCHANGED <<moves, relayOn, sinceOn, sinceOff, rezeroRequested>>
  /\ acs' = [acs EXCEPT !.loaded = Sampling /\ (@ \/ Load')]

StampRelay ==
  /\ serving /\ task.op = "stamp" /\ task' = Idle
  /\ sinceOn' = IF task.on THEN 0 ELSE sinceOn
  /\ sinceOff' = IF task.on THEN sinceOff ELSE 0
  /\ Serves /\ UNCHANGED <<moves, relayOn, pin, sinceStart, acs, rezeroRequested>>

Rezero ==
  /\ Moving("coils") /\ serving /\ task.op = "idle" /\ LoadIsOff(lastSupply)
  /\ rezeroRequested' = TRUE
  /\ Serves /\ UNCHANGED <<coils, acs>>

CoilStep == WritePin \/ StampRelay
Coil == CoilStep \/ Rezero \/ \E r \in Relays, on \in BOOLEAN : WriteCoil(r, on)

-----------------------------------------------------------------------------
(* The bench, and time.                                                     *)

Still == UNCHANGED <<build, pc, phase, serving, memory, known, pending, mpuPresent,
                     lastSupply, coils, rezeroRequested>>

Break == /\ \E s \in {"acs", "vib"} : Moving(s) /\ broken' = (broken \cup {s}) \ (broken \cap {s})
         /\ Still /\ UNCHANGED <<supply, probe, running, acs>>

\* A probe is out for longer than a pass reads temperatures: see Top.
Unplug == /\ Moving("hub") /\ probe["hub"].plug = "in"
          /\ probe' = [probe EXCEPT !["hub"].plug = "pulled"]
          /\ Still /\ UNCHANGED <<supply, broken, running, acs>>

Plug == /\ Moving("hub") /\ probe["hub"].plug = "out"
        /\ probe' = [probe EXCEPT !["hub"] = [plug |-> "in", scratch |-> "reset", first |-> TRUE]]
        /\ Still /\ UNCHANGED <<supply, broken, running, acs>>

TurnSupply == /\ Moving("supply") /\ \E s \in {"off", "on", "high"} \ {supply} : supply' = s
              /\ Still /\ UNCHANGED <<broken, probe, running>>
              /\ acs' = [acs EXCEPT !.loaded = Sampling /\ (@ \/ Load')]

Switch == /\ Moving("run") /\ running' = ~ running
          /\ Still /\ UNCHANGED <<supply, broken, probe, acs>>

Tick == /\ <<sinceOn, sinceOff, sinceStart>> # <<Stagger, Settle, Stagger>>
        /\ sinceOn' = Clamp(sinceOn + 1, Stagger) /\ sinceOff' = Clamp(sinceOff + 1, Settle)
        /\ sinceStart' = Clamp(sinceStart + 1, Stagger)
        /\ UNCHANGED <<build, moves, bench, pc, phase, serving, memory, sensing,
                       relayOn, pin, task, rezeroRequested>>

\* The ESP32 resets; nothing is served until setup has run.
Reset == /\ Moving("reset") /\ pc # "setup" /\ pc' = "setup" /\ serving' = FALSE
         /\ UNCHANGED <<build, bench, phase, memory, sensing, coils, rezeroRequested>>

Bench == Break \/ Unplug \/ Plug \/ TurnSupply \/ Switch \/ Reset

FwInit ==
  /\ build \in Settings /\ moves = 0
  /\ supply \in IF build.relays THEN {"on"} ELSE {"off", "on"}
  /\ broken = {} /\ running = TRUE
  /\ probe = [p \in Probes |-> [plug |-> "in", scratch |-> "reset", first |-> TRUE]]
  /\ pc = "setup" /\ phase = 0 /\ serving = FALSE
  /\ reg = Unread /\ status = {} /\ bits = [running |-> FALSE, relay |-> [r \in Relays |-> FALSE]]
  /\ acs = FreshAcs /\ known = [p \in Probes |-> FreshProbe] /\ pending = FALSE
  /\ mpuPresent = FALSE /\ lastSupply = "off" /\ rezeroRequested = FALSE
  /\ relayOn = [r \in Relays |-> FALSE] /\ pin = [r \in Relays |-> FALSE]
  /\ sinceOn = 0 /\ sinceOff = 0 /\ sinceStart = Stagger /\ task = Idle
=============================================================================
