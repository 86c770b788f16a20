------------------------------- MODULE RigProofs -------------------------------
(***************************************************************************)
(* Theorems about the rig and its bridge, for every set of builds, window   *)
(* length, temperature interval and pair of relay times:                    *)
(*                                                                         *)
(*   AveragesSpanNoFault  Spec => []NoAverageSpansAFault                   *)
(*   FansStartApart       Spec => StartsStaggered                          *)
(*   ReadingsOnly         Spec => []OnlyReadings                           *)
(*                                                                         *)
(* Each rests on what one part of the firmware keeps true between its       *)
(* steps: which places of the current's window were filled since the last   *)
(* fault (WindowInv), what the coil write in progress has done so far       *)
(* (CoilInv), which steps of loop the current pass takes (PathInv) and how  *)
(* far a probe's first conversion can have come (ProbeInv); and on the       *)
(* words of a reply being registers of that firmware (WordsInv).            *)
(***************************************************************************)
EXTENDS RigBridge, Extrema

-----------------------------------------------------------------------------
(* Types.                                                                   *)

Steps == {"setup", "firstZero", "firstSample", "begin", "top", "zero", "sample",
          "hub", "amb", "hubStatus", "ambStatus", "request", "current",
          "currentStatus", "vib", "vibStatus", "supply", "supplyStatus", "digital"}

AcsType   == [zero : {"none", "true", "offset"}, zeroed : BOOLEAN,
              window : [1 .. Scans -> {"old", "forward", "back"}],
              next : 1 .. Scans, count : 0 .. Scans, loaded : BOOLEAN]
KnownType == [settled : BOOLEAN, candidate : {"none", "true", "wild"}]
ProbeType == [plug : {"in", "pulled", "out"}, scratch : {"reset", "true", "wild"},
              first : BOOLEAN]
TaskType  == [op : {"idle", "pin", "stamp"}, relay : Relays, on : BOOLEAN]

LEMMA BuildType ==
  ASSUME build \in Settings
  PROVE  /\ build.sensors \subseteq Analog /\ build.moves \in Nat
         /\ build.relays \in BOOLEAN /\ build.switch \in BOOLEAN
         /\ build.config \in BOOLEAN /\ build.rtu \in BOOLEAN
BY SettingAssumption DEF Setting

LEMMA AnalogNames == Analog = {"current", "vib", "hub", "amb", "supply"}
<1>1. DOMAIN Points = 1 .. 5
  BY DEF Points
<1>2. Range(Points) = {Points[i] : i \in 1 .. 5}
  BY <1>1 DEF Range
<1>3. /\ Points[1] = "current" /\ Points[2] = "vib" /\ Points[3] = "hub"
      /\ Points[4] = "amb" /\ Points[5] = "supply"
  BY DEF Points
<1> QED BY <1>2, <1>3 DEF Analog

\* The steps of loop's body, by their places.
LEMMA BodyPlaces ==
  /\ Len(Body) = 12 /\ DOMAIN Body = 1 .. 12
  /\ Body[1] = "hub" /\ Body[2] = "amb" /\ Body[3] = "hubStatus"
  /\ Body[4] = "ambStatus" /\ Body[5] = "request" /\ Body[6] = "current"
  /\ Body[7] = "currentStatus" /\ Body[8] = "vib" /\ Body[9] = "vibStatus"
  /\ Body[10] = "supply" /\ Body[11] = "supplyStatus" /\ Body[12] = "digital"
BY DEF Body

\* A step stands at one place of the body only.
PlaceNamed(s) ==
  CASE s = "hub" -> 1            [] s = "amb" -> 2      [] s = "hubStatus" -> 3
    [] s = "ambStatus" -> 4     [] s = "request" -> 5  [] s = "current" -> 6
    [] s = "currentStatus" -> 7 [] s = "vib" -> 8      [] s = "vibStatus" -> 9
    [] s = "supply" -> 10        [] s = "supplyStatus" -> 11
    [] s = "digital" -> 12

LEMMA PlaceOf == \A i \in 1 .. 12 : Place(Body[i]) = i
<1>1. /\ PlaceNamed("hub") = 1 /\ PlaceNamed("amb") = 2 /\ PlaceNamed("hubStatus") = 3
      /\ PlaceNamed("ambStatus") = 4 /\ PlaceNamed("request") = 5
      /\ PlaceNamed("current") = 6 /\ PlaceNamed("currentStatus") = 7
      /\ PlaceNamed("vib") = 8 /\ PlaceNamed("vibStatus") = 9
      /\ PlaceNamed("supply") = 10 /\ PlaceNamed("supplyStatus") = 11
      /\ PlaceNamed("digital") = 12
  BY DEF PlaceNamed
<1>2. \A i \in 1 .. 12 : PlaceNamed(Body[i]) = i
  <2> SUFFICES ASSUME NEW i \in 1 .. 12 PROVE PlaceNamed(Body[i]) = i
    OBVIOUS
  <2>1. \/ i = 1 \/ i = 2 \/ i = 3 \/ i = 4 \/ i = 5 \/ i = 6
        \/ i = 7 \/ i = 8 \/ i = 9 \/ i = 10 \/ i = 11 \/ i = 12
    OBVIOUS
  <2> QED BY <1>1, <2>1, BodyPlaces
<1>3. DOMAIN Body = 1 .. 12
  BY BodyPlaces
<1> SUFFICES ASSUME NEW i \in 1 .. 12 PROVE Place(Body[i]) = i
  OBVIOUS
<1>4. Place(Body[i]) \in 1 .. 12 /\ Body[Place(Body[i])] = Body[i]
  BY <1>3 DEF Place
<1> QED BY <1>2, <1>4

\* From(n) is the first step from place n on that the pass takes.
LEMMA FromTakes ==
  ASSUME NEW n \in 1 .. 12
  PROVE  \E m \in n .. 12 : /\ From(n) = Body[m] /\ Taken(Body[m])
                            /\ \A i \in n .. 12 : Taken(Body[i]) => m <= i
<1>1. Ahead(n) = {i \in n .. 12 : Taken(Body[i])}
  BY BodyPlaces DEF Ahead
<1>2. Taken("digital")
  BY DEF Taken, Temps
<1>3. Taken(Body[12])
  BY <1>2, BodyPlaces
<1>4. 12 \in n .. 12
  OBVIOUS
<1>5. 12 \in Ahead(n)
  BY <1>1, <1>3, <1>4
<1>6. Ahead(n) \subseteq Nat /\ Ahead(n) # {}
  BY <1>1, <1>5
<1>7. Min(Ahead(n)) \in Ahead(n) /\ \A i \in Ahead(n) : Min(Ahead(n)) <= i
  BY <1>6, MinIsLeast
<1> QED BY <1>1, <1>7 DEF From

\* After the step at place i the loop goes on at the next one the pass takes.
LEMMA StepsOn ==
  ASSUME NEW i \in 1 .. 11, At(Body[i])
  PROVE  /\ pc = Body[i]
         /\ \E m \in i + 1 .. 12 : /\ pc' = Body[m] /\ Taken(Body[m])
                                   /\ \A j \in i + 1 .. 12 : Taken(Body[j]) => m <= j
<1>1. Place(Body[i]) = i
  BY PlaceOf
<1>2. pc = Body[i] /\ pc' = From(i + 1)
  BY <1>1 DEF At
<1>3. i + 1 \in 1 .. 12
  OBVIOUS
<1> QED BY <1>2, <1>3, FromTakes

LEMMA BodyNames == \A i \in 1 .. 12 : Body[i] \in Steps \ {"setup"}
<1> SUFFICES ASSUME NEW i \in 1 .. 12 PROVE Body[i] \in Steps \ {"setup"}
  OBVIOUS
<1>1. \/ i = 1 \/ i = 2 \/ i = 3 \/ i = 4 \/ i = 5 \/ i = 6
      \/ i = 7 \/ i = 8 \/ i = 9 \/ i = 10 \/ i = 11 \/ i = 12
  OBVIOUS
<1> QED BY <1>1, BodyPlaces DEF Steps

\* The steps of loop's body that Arduino names, as steps at a place.
LEMMA PassGoesOn ==
  ASSUME NEW s, At(s), \E i \in 1 .. 11 : s = Body[i]
  PROVE  pc = s /\ pc' \in Steps \ {"setup"}
<1>1. PICK i \in 1 .. 11 : s = Body[i]
  OBVIOUS
<1>2. At(Body[i])
  BY <1>1
<1>3. PICK m \in i + 1 .. 12 : pc' = Body[m]
  BY <1>2, StepsOn
<1>4. pc = Body[i]
  BY <1>2, StepsOn
<1>5. m \in 1 .. 12
  BY <1>3
<1> QED BY <1>1, <1>3, <1>4, <1>5, BodyNames

LEMMA EachStepPlaced ==
  \A s \in {"hub", "amb", "hubStatus", "ambStatus", "request", "current",
            "currentStatus", "vib", "vibStatus", "supply", "supplyStatus"} :
     \E i \in 1 .. 11 : s = Body[i]
<1>1. /\ 1 \in 1 .. 11 /\ 2 \in 1 .. 11 /\ 3 \in 1 .. 11 /\ 4 \in 1 .. 11
      /\ 5 \in 1 .. 11 /\ 6 \in 1 .. 11 /\ 7 \in 1 .. 11 /\ 8 \in 1 .. 11
      /\ 9 \in 1 .. 11 /\ 10 \in 1 .. 11 /\ 11 \in 1 .. 11
  OBVIOUS
<1> QED BY <1>1, BodyPlaces

LEMMA FirstOfPass == From(1) \in Steps \ {"setup"}
<1>1. 1 \in 1 .. 12
  OBVIOUS
<1>2. PICK m \in 1 .. 12 : From(1) = Body[m]
  BY <1>1, FromTakes
<1> QED BY <1>2, BodyNames

\* Once set up, the Arduino task leaves the coils alone and never returns to
\* setup by itself.
LoopStep ==
  \/ Begin \/ CheckZero \/ SampleZero \/ Top
  \/ \E p \in Probes : ReadTemperature(p)
  \/ SetStatus("hub", "hubStatus") \/ SetStatus("amb", "ambStatus")
  \/ Request
  \/ ReadCurrent   \/ SetStatus("current", "currentStatus")
  \/ ReadVibration \/ SetStatus("vib", "vibStatus")
  \/ ReadSupply    \/ SetStatus("supply", "supplyStatus")
  \/ ReadDigitals

LEMMA LoopKeepsCoils ==
  ASSUME LoopStep
  PROVE  /\ pc \in Steps \ {"setup"} /\ pc' \in Steps \ {"setup"}
         /\ UNCHANGED <<build, moves, coils, supply, broken, running>>
<1> USE DEF LoopStep
<1>1. CASE Begin
  BY <1>1 DEF Begin, Steps, bench
<1>2. CASE CheckZero
  BY <1>2, FirstOfPass DEF CheckZero, Steps, Loops, Zeroing, bench
<1>3. CASE SampleZero
  BY <1>3, FirstOfPass DEF SampleZero, Steps, Loops, Zeroing, bench
<1>4. CASE Top
  BY <1>4, FirstOfPass DEF Top, Steps
<1>5. ASSUME NEW p \in Probes, ReadTemperature(p)
      PROVE  /\ pc \in Steps \ {"setup"} /\ pc' \in Steps \ {"setup"}
             /\ UNCHANGED <<build, moves, coils, supply, broken, running>>
  <2>1. At(p) /\ p \in {"hub", "amb"}
    BY <1>5 DEF ReadTemperature, Probes
  <2>2. pc = p /\ pc' \in Steps \ {"setup"}
    BY <2>1, EachStepPlaced, PassGoesOn
  <2> QED BY <1>5, <2>1, <2>2 DEF ReadTemperature, Loops, bench, Steps
<1>6. ASSUME NEW p, NEW s \in {"hubStatus", "ambStatus", "currentStatus", "vibStatus",
                               "supplyStatus"}, SetStatus(p, s)
      PROVE  /\ pc \in Steps \ {"setup"} /\ pc' \in Steps \ {"setup"}
             /\ UNCHANGED <<build, moves, coils, supply, broken, running>>
  <2>1. At(s)
    BY <1>6 DEF SetStatus
  <2>2. \E i \in 1 .. 11 : s = Body[i]
    BY EachStepPlaced
  <2>3. pc = s /\ pc' \in Steps \ {"setup"}
    BY <2>1, <2>2, PassGoesOn
  <2> QED BY <1>6, <2>3 DEF SetStatus, Loops, bench, Steps
<1>7. CASE Request
  <2>1. pc = "request" /\ pc' \in Steps \ {"setup"}
    BY <1>7, EachStepPlaced, PassGoesOn DEF Request
  <2> QED BY <1>7, <2>1 DEF Request, Steps
<1>8. CASE ReadCurrent
  <2>1. pc = "current" /\ pc' \in Steps \ {"setup"}
    BY <1>8, EachStepPlaced, PassGoesOn DEF ReadCurrent
  <2> QED BY <1>8, <2>1 DEF ReadCurrent, Loops, bench, Steps
<1>9. CASE ReadVibration
  <2>1. pc = "vib" /\ pc' \in Steps \ {"setup"}
    BY <1>9, EachStepPlaced, PassGoesOn DEF ReadVibration
  <2> QED BY <1>9, <2>1 DEF ReadVibration, Loops, bench, Steps
<1>10. CASE ReadSupply
  <2>1. pc = "supply" /\ pc' \in Steps \ {"setup"}
    BY <1>10, EachStepPlaced, PassGoesOn DEF ReadSupply
  <2> QED BY <1>10, <2>1 DEF ReadSupply, Loops, bench, Steps
<1>11. CASE ReadDigitals
  BY <1>11 DEF ReadDigitals, Loops, bench, Steps
<1> QED BY <1>1, <1>2, <1>3, <1>4, <1>5, <1>6, <1>7, <1>8, <1>9, <1>10, <1>11

-----------------------------------------------------------------------------
(* The coils.                                                               *)

CoilType ==
  /\ relayOn \in [Relays -> BOOLEAN] /\ pin \in [Relays -> BOOLEAN]
  /\ sinceOn \in 0 .. Stagger /\ sinceOff \in 0 .. Settle /\ sinceStart \in 0 .. Stagger
  /\ task \in TaskType /\ serving \in BOOLEAN

\* A coil follows its flag but for the write in progress, and lastRelayOn is
\* no earlier than the last start but between a start and its stamp; a write
\* that is about to start a fan found it Stagger after the one before.
PinsFollow   == \A r \in Relays : task.op # "pin" \/ r # task.relay => pin[r] = relayOn[r]
FlagIsSet    == task.op # "idle" => relayOn[task.relay] = task.on
StampsFollow == ~ (task.op = "stamp" /\ task.on) => sinceOn <= sinceStart
StartIsDue   == task.op = "pin" /\ task.on /\ ~ pin[task.relay] => sinceStart >= Stagger
CoilInv == /\ CoilType
           /\ serving => pc # "setup"
           /\ pc # "setup" => PinsFollow /\ FlagIsSet /\ StampsFollow /\ StartIsDue

\* What a step does to the coils, whoever takes it.
CoilsRest == UNCHANGED coils

LEMMA ClampTops ==
  ASSUME NEW n \in Nat, NEW top \in Nat, n <= top
  PROVE  Clamp(n + 1, top) \in 0 .. top /\ Clamp(n + 1, top) >= n
BY DEF Clamp

LEMMA ClampKeepsOrder ==
  ASSUME NEW m \in Nat, NEW n \in Nat, NEW top \in Nat, m <= n
  PROVE  Clamp(m, top) <= Clamp(n, top)
BY DEF Clamp

LEMMA CoilRest ==
  ASSUME CoilInv, CoilsRest, pc' = pc \/ pc # "setup",
         serving' \in BOOLEAN, serving' => pc' # "setup"
  PROVE  CoilInv'
<1>1. /\ relayOn' = relayOn /\ pin' = pin /\ sinceOn' = sinceOn /\ sinceOff' = sinceOff
      /\ sinceStart' = sinceStart /\ task' = task
  BY DEF CoilsRest, coils
<1>2. CoilType'
  BY <1>1 DEF CoilInv, CoilType
<1>3. pc' # "setup" => (PinsFollow /\ FlagIsSet /\ StampsFollow /\ StartIsDue)'
  BY <1>1 DEF CoilInv, PinsFollow, FlagIsSet, StampsFollow, StartIsDue
<1> QED BY <1>2, <1>3 DEF CoilInv

LEMMA CoilWrite ==
  ASSUME CoilInv, NEW r \in Relays, NEW on \in BOOLEAN, WriteCoil(r, on)
  PROVE  CoilInv'
<1>1. /\ serving /\ task.op = "idle" /\ ~ (on /\ ~ relayOn[r] /\ sinceOn < Stagger)
      /\ relayOn' = [relayOn EXCEPT ![r] = on]
      /\ task' = [op |-> "pin", relay |-> r, on |-> on]
      /\ pin' = pin /\ sinceOn' = sinceOn /\ sinceOff' = sinceOff
      /\ sinceStart' = sinceStart /\ pc' = pc /\ serving' = serving
  BY DEF WriteCoil, TooSoon, Serves
<1>2. CoilType /\ pc # "setup"
  BY <1>1 DEF CoilInv
<1>3. PinsFollow /\ FlagIsSet /\ StampsFollow /\ StartIsDue
  BY <1>2 DEF CoilInv
<1>4. task'.op = "pin" /\ task'.relay = r /\ task'.on = on
  BY <1>1
<1>5. task' \in TaskType
  BY <1>1 DEF TaskType
<1>6. relayOn' \in [Relays -> BOOLEAN]
  BY <1>1, <1>2 DEF CoilType
<1>7. CoilType'
  BY <1>1, <1>2, <1>5, <1>6 DEF CoilType
<1>8. PinsFollow'
  <2>1. \A q \in Relays : pin[q] = relayOn[q]
    BY <1>1, <1>3 DEF PinsFollow
  <2>2. \A q \in Relays : q # r => relayOn'[q] = relayOn[q]
    BY <1>1, <1>2 DEF CoilType
  <2> QED BY <1>1, <1>4, <2>1, <2>2 DEF PinsFollow
<1>9. FlagIsSet'
  BY <1>1, <1>2, <1>4 DEF FlagIsSet, CoilType
<1>10. StampsFollow'
  BY <1>1, <1>3, <1>4 DEF StampsFollow
<1>11. StartIsDue'
  <2> SUFFICES ASSUME on, ~ pin[r] PROVE sinceStart >= Stagger
    BY <1>1, <1>4 DEF StartIsDue
  <2>1. ~ relayOn[r]
    BY <1>1, <1>3 DEF PinsFollow
  <2>2. ~ (sinceOn < Stagger)
    BY <1>1, <2>1
  <2>3. sinceOn <= sinceStart
    BY <1>1, <1>3 DEF StampsFollow
  <2> QED BY <1>2, <2>2, <2>3, RigAssumption DEF CoilType
<1> QED BY <1>1, <1>2, <1>7, <1>8, <1>9, <1>10, <1>11 DEF CoilInv

LEMMA CoilPin ==
  ASSUME CoilInv, WritePin
  PROVE  CoilInv'
<1>1. /\ serving /\ task.op = "pin" /\ task' = [task EXCEPT !.op = "stamp"]
      /\ pin' = [pin EXCEPT ![task.relay] = task.on]
      /\ sinceStart' = IF task.on /\ ~ pin[task.relay] THEN 0 ELSE sinceStart
      /\ relayOn' = relayOn /\ sinceOn' = sinceOn /\ sinceOff' = sinceOff
      /\ pc' = pc /\ serving' = serving
  BY DEF WritePin, Serves
<1>2. CoilType /\ pc # "setup"
  BY <1>1 DEF CoilInv
<1>3. PinsFollow /\ FlagIsSet /\ StampsFollow /\ StartIsDue
  BY <1>2 DEF CoilInv
<1>4. task \in TaskType
  BY <1>2 DEF CoilType
<1>5. task.relay \in Relays /\ task.on \in BOOLEAN
  BY <1>4 DEF TaskType
<1>6. /\ task'.op = "stamp" /\ task'.relay = task.relay /\ task'.on = task.on
      /\ task' \in TaskType
  BY <1>1, <1>4 DEF TaskType
<1>7. pin' \in [Relays -> BOOLEAN]
  BY <1>1, <1>2, <1>5 DEF CoilType
<1>8. CoilType'
  <2>1. sinceStart' \in 0 .. Stagger
    BY <1>1, <1>2, RigAssumption DEF CoilType
  <2> QED BY <1>1, <1>2, <1>6, <1>7, <2>1 DEF CoilType
<1>9. PinsFollow'
  <2> SUFFICES ASSUME NEW q \in Relays PROVE pin'[q] = relayOn[q]
    BY <1>1 DEF PinsFollow
  <2>1. CASE q = task.relay
    BY <1>1, <1>2, <1>3, <1>5, <2>1 DEF CoilType, FlagIsSet
  <2>2. CASE q # task.relay
    BY <1>1, <1>2, <1>3, <1>5, <2>2 DEF CoilType, PinsFollow
  <2> QED BY <2>1, <2>2
<1>10. FlagIsSet'
  BY <1>1, <1>3, <1>6 DEF FlagIsSet
<1>11. StampsFollow'
  <2> SUFFICES ASSUME ~ task.on PROVE sinceOn' <= sinceStart'
    BY <1>6 DEF StampsFollow
  <2>1. sinceStart' = sinceStart /\ sinceOn <= sinceStart
    BY <1>1, <1>3 DEF StampsFollow
  <2> QED BY <1>1, <2>1
<1>12. StartIsDue'
  BY <1>6 DEF StartIsDue
<1> QED BY <1>1, <1>2, <1>8, <1>9, <1>10, <1>11, <1>12 DEF CoilInv

LEMMA CoilStamp ==
  ASSUME CoilInv, StampRelay
  PROVE  CoilInv'
<1>1. /\ serving /\ task.op = "stamp" /\ task' = Idle
      /\ sinceOn' = IF task.on THEN 0 ELSE sinceOn
      /\ sinceOff' = IF task.on THEN sinceOff ELSE 0
      /\ pin' = pin /\ sinceStart' = sinceStart /\ relayOn' = relayOn
      /\ pc' = pc /\ serving' = serving
  BY DEF StampRelay, Serves
<1>2. CoilType /\ pc # "setup"
  BY <1>1 DEF CoilInv
<1>3. PinsFollow /\ FlagIsSet /\ StampsFollow /\ StartIsDue
  BY <1>2 DEF CoilInv
<1>4. task' \in TaskType /\ task'.op = "idle"
  BY <1>1 DEF TaskType, Idle, Relays
<1>5. CoilType'
  BY <1>1, <1>2, <1>4, RigAssumption DEF CoilType
<1>6. PinsFollow'
  BY <1>1, <1>3 DEF PinsFollow
<1>7. StampsFollow'
  BY <1>1, <1>2, <1>3 DEF StampsFollow, CoilType
<1> QED BY <1>1, <1>2, <1>4, <1>5, <1>6, <1>7 DEF CoilInv, FlagIsSet, StartIsDue

LEMMA CoilTick ==
  ASSUME CoilInv, Tick
  PROVE  CoilInv'
<1>1. /\ sinceOn' = Clamp(sinceOn + 1, Stagger) /\ sinceOff' = Clamp(sinceOff + 1, Settle)
      /\ sinceStart' = Clamp(sinceStart + 1, Stagger)
      /\ relayOn' = relayOn /\ pin' = pin /\ task' = task
      /\ pc' = pc /\ serving' = serving
  BY DEF Tick
<1>2. CoilType
  BY DEF CoilInv
<1>3. /\ sinceOn \in Nat /\ sinceOff \in Nat /\ sinceStart \in Nat
      /\ sinceOn <= Stagger /\ sinceOff <= Settle /\ sinceStart <= Stagger
      /\ Stagger \in Nat /\ Settle \in Nat
  BY <1>2, RigAssumption DEF CoilType
<1>4. sinceOn' \in 0 .. Stagger
  BY <1>1, <1>3, ClampTops
<1>5. sinceOff' \in 0 .. Settle
  BY <1>1, <1>3, ClampTops
<1>6. sinceStart' \in 0 .. Stagger /\ sinceStart' >= sinceStart
  BY <1>1, <1>3, ClampTops
<1>7. CoilType'
  BY <1>1, <1>2, <1>4, <1>5, <1>6 DEF CoilType
<1>8. ASSUME pc # "setup" PROVE (PinsFollow /\ FlagIsSet /\ StampsFollow /\ StartIsDue)'
  <2>1. PinsFollow /\ FlagIsSet /\ StampsFollow /\ StartIsDue
    BY <1>8 DEF CoilInv
  <2>2. PinsFollow' /\ FlagIsSet'
    BY <1>1, <2>1 DEF PinsFollow, FlagIsSet
  <2>3. sinceOn <= sinceStart => sinceOn' <= sinceStart'
    <3>1. sinceOn + 1 \in Nat /\ sinceStart + 1 \in Nat
      BY <1>3
    <3>2. sinceOn <= sinceStart => sinceOn + 1 <= sinceStart + 1
      BY <1>3
    <3> QED BY <1>1, <1>3, <3>1, <3>2, ClampKeepsOrder
  <2>4. StampsFollow'
    BY <1>1, <2>1, <2>3 DEF StampsFollow
  <2>5. sinceStart >= Stagger => sinceStart' >= Stagger
    BY <1>3, <1>4, <1>6
  <2>6. StartIsDue'
    BY <1>1, <2>1, <2>5 DEF StartIsDue
  <2> QED BY <2>2, <2>4, <2>6
<1> QED BY <1>1, <1>7, <1>8 DEF CoilInv

LEMMA CoilSetup ==
  ASSUME build \in Settings, Setup
  PROVE  CoilInv' /\ pin' = [r \in Relays |-> FALSE]
<1>1. /\ relayOn' = [r \in Relays |-> FALSE] /\ pin' = [r \in Relays |-> FALSE]
      /\ sinceOn' = 0 /\ sinceOff' = 0 /\ sinceStart' = Stagger /\ task' = Idle
      /\ serving' = build.rtu /\ pc' = "firstZero"
  BY DEF Setup
<1>2. sinceOn' = 0 /\ sinceOff' = 0 /\ sinceStart' = Stagger
  BY <1>1
<1>3. Stagger \in Nat /\ Settle \in Nat
  BY RigAssumption
<1>4. task' \in TaskType /\ task'.op = "idle"
  BY <1>1 DEF Idle, TaskType, Relays
<1>5. build.rtu \in BOOLEAN
  BY BuildType
<1>6. CoilType'
  <2>1. sinceOn' \in 0 .. Stagger /\ sinceOff' \in 0 .. Settle /\ sinceStart' \in 0 .. Stagger
    BY <1>3, <1>2
  <2> QED BY <1>1, <1>4, <1>5, <2>1 DEF CoilType
<1>7. PinsFollow' /\ FlagIsSet' /\ StartIsDue'
  BY <1>1, <1>4 DEF PinsFollow, FlagIsSet, StartIsDue
<1>8. StampsFollow'
  BY <1>3, <1>2 DEF StampsFollow
<1> QED BY <1>1, <1>6, <1>7, <1>8 DEF CoilInv

LEMMA CoilInit == ASSUME Init PROVE CoilInv
<1>1. /\ relayOn = [r \in Relays |-> FALSE] /\ pin = [r \in Relays |-> FALSE]
      /\ sinceOn = 0 /\ sinceOff = 0 /\ sinceStart = Stagger /\ task = Idle
      /\ serving = FALSE /\ pc = "setup"
  BY DEF Init, FwInit
<1>2. sinceOn \in 0 .. Stagger /\ sinceOff \in 0 .. Settle /\ sinceStart \in 0 .. Stagger
  BY <1>1, RigAssumption
<1>3. task \in TaskType
  BY <1>1 DEF Idle, TaskType, Relays
<1> QED BY <1>1, <1>2, <1>3 DEF CoilInv, CoilType

\* Every step is one of these.
BenchStep == Break \/ Unplug \/ Plug \/ TurnSupply \/ Switch
LEMMA EveryStep ==
  ASSUME [Next]_vars
  PROVE  \/ Setup /\ UNCHANGED bridgeVars
         \/ LoopStep /\ UNCHANGED bridgeVars
         \/ poll # "registers" /\ UNCHANGED bridgeVars
            /\ \/ WritePin \/ StampRelay \/ Rezero
               \/ \E r \in Relays, on \in BOOLEAN : WriteCoil(r, on)
         \/ BenchStep /\ UNCHANGED bridgeVars
         \/ Reset /\ UNCHANGED bridgeVars
         \/ Tick /\ UNCHANGED bridgeVars
         \/ Bridge
         \/ UNCHANGED vars
<1>1. CASE Arduino /\ UNCHANGED bridgeVars
  BY <1>1 DEF Arduino, LoopStep
<1>2. CASE Serving /\ UNCHANGED bridgeVars
  BY <1>2 DEF Serving, Coil, CoilStep
<1>3. CASE Bench /\ UNCHANGED bridgeVars
  BY <1>3 DEF Bench, BenchStep
<1> QED BY <1>1, <1>2, <1>3 DEF Next

LEMMA BridgeKeeps ==
  ASSUME Bridge \/ UNCHANGED vars
  PROVE  UNCHANGED <<build, bench, pc, phase, serving, memory, sensing, coils, rezeroRequested>>
<1>1. CASE PollFails
  BY <1>1 DEF PollFails
<1> QED BY <1>1 DEF Bridge, Poll, CopyWord, ReadBits, Publish, vars, fwVars

LEMMA BenchKeeps ==
  ASSUME BenchStep
  PROVE  UNCHANGED <<build, pc, phase, serving, memory, known, pending, mpuPresent,
                     lastSupply, coils, rezeroRequested>>
BY DEF BenchStep, Break, Unplug, Plug, TurnSupply, Switch, Still

LEMMA BuildFixed == ASSUME build \in Settings, [Next]_vars PROVE build' = build
<1>1. CASE LoopStep
  BY <1>1, LoopKeepsCoils
<1>2. CASE BenchStep
  BY <1>2, BenchKeeps
<1>3. CASE Bridge \/ UNCHANGED vars
  BY <1>3, BridgeKeeps
<1>4. CASE Setup \/ Reset \/ Tick
  BY <1>4 DEF Setup, Reset, Tick
<1>5. CASE \/ WritePin \/ StampRelay \/ Rezero
             \/ \E r \in Relays, on \in BOOLEAN : WriteCoil(r, on)
  BY <1>5 DEF WritePin, StampRelay, Rezero, WriteCoil, Serves
<1> QED BY <1>1, <1>2, <1>3, <1>4, <1>5, EveryStep

LEMMA CoilStays ==
  ASSUME build \in Settings, CoilInv, [Next]_vars
  PROVE  CoilInv'
<1>1. CASE Setup
  BY <1>1, CoilSetup
<1>2. CASE LoopStep
  <2>1. CoilsRest /\ pc # "setup" /\ pc' # "setup"
    BY <1>2, LoopKeepsCoils DEF CoilsRest
  <2>2. serving' = serving \/ serving' = TRUE
    BY <1>2 DEF LoopStep, Begin, CheckZero, SampleZero, Top, ReadTemperature, SetStatus,
                Request, ReadCurrent, ReadVibration, ReadSupply, ReadDigitals, Loops
  <2>3. serving \in BOOLEAN
    BY DEF CoilInv, CoilType
  <2> QED BY <2>1, <2>2, <2>3, CoilRest
<1>3. CASE WritePin
  BY <1>3, CoilPin
<1>4. CASE StampRelay
  BY <1>4, CoilStamp
<1>5. ASSUME NEW r \in Relays, NEW on \in BOOLEAN, WriteCoil(r, on) PROVE CoilInv'
  BY <1>5, CoilWrite
<1>6. CASE Tick
  BY <1>6, CoilTick
<1>7. CASE Reset
  BY <1>7 DEF Reset, CoilInv, CoilType, coils
<1>8. CASE Rezero \/ BenchStep \/ Bridge \/ UNCHANGED vars
  <2>1. CoilsRest /\ pc' = pc /\ serving' = serving
    <3>1. CASE Rezero
      BY <3>1 DEF Rezero, Serves, CoilsRest
    <3>2. CASE BenchStep
      BY <3>2, BenchKeeps DEF CoilsRest
    <3>3. CASE Bridge \/ UNCHANGED vars
      BY <3>3, BridgeKeeps DEF CoilsRest
    <3> QED BY <1>8, <3>1, <3>2, <3>3
  <2>2. serving \in BOOLEAN /\ (serving => pc # "setup")
    BY DEF CoilInv, CoilType
  <2> QED BY <2>1, <2>2, CoilRest
<1> QED BY <1>1, <1>2, <1>3, <1>4, <1>5, <1>6, <1>7, <1>8, EveryStep

\* What a step from a state of CoilInv may do to the pins.
LEMMA PinsStaggered ==
  ASSUME build \in Settings, CoilInv, [Next]_vars
  PROVE  \A r \in Relays : ~ pin[r] /\ pin'[r] => sinceStart >= Stagger
<1> SUFFICES ASSUME NEW r \in Relays, ~ pin[r], pin'[r] PROVE sinceStart >= Stagger
  OBVIOUS
<1>1. pin' # pin
  OBVIOUS
<1>2. CASE Setup
  BY <1>2, CoilSetup
<1>3. CASE WritePin
  <2>1. /\ serving /\ task.op = "pin"
        /\ pin' = [pin EXCEPT ![task.relay] = task.on]
    BY <1>3 DEF WritePin
  <2>2. StartIsDue /\ CoilType
    BY <2>1 DEF CoilInv
  <2>3. task.relay = r /\ task.on
    BY <2>1, <2>2 DEF CoilType
  <2> QED BY <2>1, <2>2, <2>3 DEF StartIsDue
<1>4. CASE \/ LoopStep \/ StampRelay \/ Rezero \/ BenchStep \/ Reset \/ Tick
           \/ Bridge \/ UNCHANGED vars
           \/ \E q \in Relays, on \in BOOLEAN : WriteCoil(q, on)
  <2>1. pin' = pin
    <3>1. CASE LoopStep
      BY <3>1, LoopKeepsCoils DEF coils
    <3>2. CASE BenchStep
      BY <3>2, BenchKeeps DEF coils
    <3>3. CASE Bridge \/ UNCHANGED vars
      BY <3>3, BridgeKeeps DEF coils
    <3>4. CASE \/ StampRelay \/ Rezero \/ Reset \/ Tick
               \/ \E q \in Relays, on \in BOOLEAN : WriteCoil(q, on)
      BY <3>4 DEF StampRelay, Rezero, Reset, Tick, WriteCoil, coils
    <3> QED BY <1>4, <3>1, <3>2, <3>3, <3>4
  <2> QED BY <1>1, <2>1
<1> QED BY <1>2, <1>3, <1>4, EveryStep

(* REGISTER_MAP.md "Fan starts": two coils are never energised less than Stagger apart, whoever asks, although the   *)
(* check of the time since the last start, the flag, the pin and the stamp of the time are steps of their own.       *)
THEOREM FansStartApart == Spec => StartsStaggered
<1> DEFINE Inv == build \in Settings /\ CoilInv
<1>1. Init => Inv
  <2>1. Init => build \in Settings
    BY DEF Init, FwInit
  <2> QED BY <2>1, CoilInit
<1>2. Inv /\ [Next]_vars => Inv'
  <2> SUFFICES ASSUME Inv, [Next]_vars PROVE Inv'
    OBVIOUS
  <2>1. build' = build
    BY BuildFixed
  <2> QED BY <2>1, CoilStays
<1>3. Inv /\ [Next]_vars
        => [\A r \in Relays : ~ pin[r] /\ pin'[r] => sinceStart >= Stagger]_vars
  BY PinsStaggered
<1> HIDE DEF Inv
<1> QED BY <1>1, <1>2, <1>3, PTL DEF Spec, StartsStaggered

-----------------------------------------------------------------------------
(* The current's window.                                                    *)

\* The places filled since the window was last emptied, which are the `count'
\* places before the next one, hold no scan from before.
Recent(a, i)   == IF i < a.next THEN a.next - i <= a.count ELSE a.next + Scans - i <= a.count
WindowFresh(a) == \A i \in 1 .. Scans : Recent(a, i) => a.window[i] # "old"
WindowInv      == acs \in AcsType /\ WindowFresh(acs)

LEMMA NextPlace ==
  ASSUME NEW n \in 1 .. Scans
  PROVE  /\ (n % Scans) + 1 = IF n = Scans THEN 1 ELSE n + 1
         /\ (n % Scans) + 1 \in 1 .. Scans
<1>1. Scans \in Nat \ {0}
  BY RigAssumption
<1>2. CASE n = Scans
  <2>1. Scans % Scans = 0
    BY <1>1
  <2> QED BY <1>1, <1>2, <2>1
<1>3. CASE n # Scans
  <2>1. n \in Nat /\ n < Scans
    BY <1>1, <1>3
  <2>2. n % Scans = n
    BY <1>1, <2>1
  <2> QED BY <1>1, <2>1, <2>2
<1> QED BY <1>2, <1>3

LEMMA LoadedOnly ==
  ASSUME WindowInv, NEW b \in BOOLEAN, acs' = [acs EXCEPT !.loaded = b]
  PROVE  WindowInv'
<1>1. acs \in AcsType /\ WindowFresh(acs)
  BY DEF WindowInv
<1>2. acs' \in AcsType
  BY <1>1 DEF AcsType
<1>3. acs'.next = acs.next /\ acs'.count = acs.count /\ acs'.window = acs.window
  BY <1>1 DEF AcsType
<1>4. WindowFresh(acs')
  BY <1>1, <1>3 DEF WindowFresh, Recent
<1> QED BY <1>2, <1>4 DEF WindowInv

LEMMA ZeroOnly ==
  ASSUME WindowInv, NEW z \in {"none", "true", "offset"}, NEW d \in BOOLEAN, NEW b \in BOOLEAN,
         acs' = [acs EXCEPT !.zero = z, !.zeroed = d, !.loaded = b]
  PROVE  WindowInv'
<1>1. acs \in AcsType /\ WindowFresh(acs)
  BY DEF WindowInv
<1>2. acs' \in AcsType
  BY <1>1 DEF AcsType
<1>3. acs'.next = acs.next /\ acs'.count = acs.count /\ acs'.window = acs.window
  BY <1>1 DEF AcsType
<1>4. WindowFresh(acs')
  BY <1>1, <1>3 DEF WindowFresh, Recent
<1> QED BY <1>2, <1>4 DEF WindowInv

LEMMA NewWindow == FreshAcs \in AcsType /\ WindowFresh(FreshAcs)
<1>1. 1 \in 1 .. Scans /\ 0 \in 0 .. Scans /\ Scans \in Nat \ {0}
  BY RigAssumption
<1>2. FreshAcs \in AcsType
  BY <1>1 DEF FreshAcs, AcsType, NoScan
<1>3. FreshAcs.next = 1 /\ FreshAcs.count = 0
  BY DEF FreshAcs
<1>4. \A i \in 1 .. Scans : ~ Recent(FreshAcs, i)
  BY <1>1, <1>3 DEF Recent
<1> QED BY <1>2, <1>4 DEF WindowFresh

LEMMA EmptiedIsFresh ==
  ASSUME WindowInv
  PROVE  Emptied \in AcsType /\ WindowFresh(Emptied)
<1>1. acs \in AcsType
  BY DEF WindowInv
<1>2. 0 \in 0 .. Scans /\ NoScan \in [1 .. Scans -> {"old", "forward", "back"}]
  BY RigAssumption DEF NoScan
<1>3. Emptied \in AcsType
  BY <1>1, <1>2 DEF Emptied, AcsType
<1>4. Emptied.next = acs.next /\ Emptied.count = 0
  BY <1>1 DEF Emptied, AcsType
<1>5. acs.next \in 1 .. Scans /\ Scans \in Nat
  BY <1>1, RigAssumption DEF AcsType
<1>6. \A i \in 1 .. Scans : ~ Recent(Emptied, i)
  BY <1>4, <1>5 DEF Recent
<1> QED BY <1>3, <1>6 DEF WindowFresh

LEMMA AveragedIsFresh ==
  ASSUME WindowInv
  PROVE  Averaged \in AcsType /\ WindowFresh(Averaged)
<1> DEFINE s == IF acs.zero = "offset" /\ ~ Load THEN "back" ELSE "forward"
           a == Averaged
           c == Clamp(acs.count + 1, Scans)
<1>1. /\ acs \in AcsType /\ WindowFresh(acs) /\ Scans \in Nat \ {0}
      /\ acs.next \in 1 .. Scans /\ acs.count \in 0 .. Scans
      /\ acs.window \in [1 .. Scans -> {"old", "forward", "back"}]
  BY RigAssumption DEF WindowInv, AcsType
<1>2. s \in {"old", "forward", "back"} /\ s # "old"
  OBVIOUS
<1>3. c \in 0 .. Scans /\ c <= acs.count + 1
  BY <1>1 DEF Clamp
<1>4. a = [acs EXCEPT !.window[acs.next] = s, !.next = (acs.next % Scans) + 1, !.count = c]
  BY DEF Averaged
<1> HIDE DEF a, s, c
<1>5. /\ a.window = [acs.window EXCEPT ![acs.next] = s]
      /\ a.next = (acs.next % Scans) + 1 /\ a.count = c
      /\ a.zero = acs.zero /\ a.zeroed = acs.zeroed /\ a.loaded = acs.loaded
  BY <1>1, <1>4 DEF AcsType
<1>6. a.next = (IF acs.next = Scans THEN 1 ELSE acs.next + 1) /\ a.next \in 1 .. Scans
  BY <1>1, <1>5, NextPlace
<1>7. a.window \in [1 .. Scans -> {"old", "forward", "back"}]
  BY <1>1, <1>2, <1>5
<1>8. a \in AcsType
  BY <1>1, <1>3, <1>4, <1>5, <1>6, <1>7 DEF AcsType
<1>9. WindowFresh(a)
  <2> SUFFICES ASSUME NEW i \in 1 .. Scans, Recent(a, i) PROVE a.window[i] # "old"
    BY DEF WindowFresh
  <2>1. CASE i = acs.next
    BY <1>1, <1>2, <1>5, <2>1
  <2>2. CASE i # acs.next
    <3>1. a.window[i] = acs.window[i]
      BY <1>1, <1>5, <2>2
    <3>2. Recent(acs, i)
      <4>1. c = a.count /\ c <= acs.count + 1 /\ c \in Nat /\ acs.count \in Nat
        BY <1>1, <1>3, <1>5
      <4>2. CASE acs.next = Scans
        <5>1. a.next = 1 /\ i < acs.next
          BY <1>1, <1>6, <2>2, <4>2
        <5>2. 1 + Scans - i <= c
          BY <4>1, <5>1 DEF Recent
        <5>3. acs.next - i <= acs.count
          BY <1>1, <4>1, <4>2, <5>2
        <5> QED BY <5>1, <5>3 DEF Recent
      <4>3. CASE acs.next # Scans /\ i < acs.next
        <5>1. a.next = acs.next + 1 /\ i < a.next
          BY <1>1, <1>6, <4>3
        <5>2. a.next - i <= a.count
          BY <5>1 DEF Recent
        <5>3. acs.next - i <= acs.count
          BY <1>1, <4>1, <5>1, <5>2
        <5> QED BY <4>3, <5>3 DEF Recent
      <4>4. CASE acs.next # Scans /\ acs.next < i
        <5>1. a.next = acs.next + 1 /\ ~ (i < a.next)
          BY <1>1, <1>6, <4>4
        <5>2. acs.next + 1 + Scans - i <= c
          BY <4>1, <5>1 DEF Recent
        <5>3. acs.next + Scans - i <= acs.count
          BY <1>1, <4>1, <5>2
        <5>4. ~ (i < acs.next)
          BY <1>1, <4>4
        <5> QED BY <5>3, <5>4 DEF Recent
      <4> QED BY <1>1, <2>2, <4>2, <4>3, <4>4
    <3> QED BY <1>1, <3>1, <3>2 DEF WindowFresh
  <2> QED BY <2>1, <2>2
<1> QED BY <1>8, <1>9 DEF a

\* A mean over a window whose recent places hold no old scan spans no fault:
\* there is a mean only once every place is recent.
LEMMA MeanSpansNothing ==
  ASSUME NEW a \in AcsType, WindowFresh(a), NEW v \in Mean(a.window, a.count)
  PROVE  v \in {"invalid", "offset", "true"}
<1>1. /\ Scans \in Nat \ {0} /\ a.next \in 1 .. Scans /\ a.count \in 0 .. Scans
      /\ a.window \in [1 .. Scans -> {"old", "forward", "back"}]
  BY RigAssumption DEF AcsType
<1>2. CASE a.count < Scans
  BY <1>1, <1>2 DEF Mean
<1>3. CASE ~ (a.count < Scans)
  <2>1. a.count = Scans
    BY <1>1, <1>3
  <2>2. \A i \in 1 .. Scans : Recent(a, i)
    BY <1>1, <2>1 DEF Recent
  <2>3. "old" \notin {a.window[i] : i \in 1 .. a.count}
    BY <2>1, <2>2 DEF WindowFresh
  <2> DEFINE value == IF acs.zero = "offset" THEN "offset" ELSE "true"
  <2>4. Mean(a.window, a.count) \subseteq {"invalid", value}
    BY <2>3 DEF Mean
  <2> QED BY <2>4
<1> QED BY <1>2, <1>3

RegType == reg \in [Analog -> Reading] /\ reg["current"] # "spans"

LEMMA CurrentAnalog ==
  /\ "current" \in Analog /\ "vib" \in Analog /\ "supply" \in Analog
  /\ "hub" \in Analog /\ "amb" \in Analog /\ Probes \subseteq Analog
BY AnalogNames DEF Probes

LEMMA CurrentRead ==
  ASSUME WindowInv, RegType, ReadCurrent
  PROVE  /\ WindowInv' /\ RegType'
         /\ \A p \in Analog \ {"current"} : reg'[p] = reg[p]
<1> DEFINE good == acs.zeroed /\ "acs" \notin broken
<1>1. acs' = IF good THEN Averaged ELSE Emptied
  BY DEF ReadCurrent
<1>2. acs' \in AcsType /\ WindowFresh(acs')
  BY <1>1, AveragedIsFresh, EmptiedIsFresh
<1>3. PICK v \in (IF good THEN Mean(acs'.window, acs'.count) ELSE {"invalid"}) :
         reg' = [reg EXCEPT !["current"] = v]
  BY DEF ReadCurrent
<1>4. v \in {"invalid", "offset", "true"}
  BY <1>2, <1>3, MeanSpansNothing
<1>5. RegType'
  BY <1>3, <1>4, CurrentAnalog DEF RegType, Reading
<1> QED BY <1>2, <1>3, <1>5, CurrentAnalog DEF WindowInv, RegType

LEMMA WindowSampled == ASSUME WindowInv, SampleZero PROVE WindowInv'
<1>1. acs' = [acs EXCEPT !.zero = IF acs.loaded \/ Load THEN "offset" ELSE "true",
                         !.zeroed = "acs" \notin broken, !.loaded = FALSE]
  BY DEF SampleZero
<1> DEFINE z == IF acs.loaded \/ Load THEN "offset" ELSE "true"
           d == "acs" \notin broken
<1>2. z \in {"none", "true", "offset"} /\ d \in BOOLEAN
  OBVIOUS
<1>3. acs' = [acs EXCEPT !.zero = z, !.zeroed = d, !.loaded = FALSE]
  BY <1>1
<1> HIDE DEF z, d
<1> QED BY <1>2, <1>3, ZeroOnly

LEMMA WindowChecked == ASSUME WindowInv, CheckZero PROVE WindowInv'
<1>1. CASE acs' = [acs EXCEPT !.loaded = Load]
  <2>1. Load \in BOOLEAN
    BY DEF Load
  <2> QED BY <1>1, <2>1, LoadedOnly
<1>2. CASE acs' = [acs EXCEPT !.zeroed = FALSE]
  <2>1. acs \in AcsType
    BY DEF WindowInv
  <2>2. /\ acs.zero \in {"none", "true", "offset"} /\ acs.loaded \in BOOLEAN
        /\ acs' = [acs EXCEPT !.zero = acs.zero, !.zeroed = FALSE, !.loaded = acs.loaded]
    BY <1>2, <2>1 DEF AcsType
  <2> QED BY <2>2, ZeroOnly
<1> QED BY <1>1, <1>2 DEF CheckZero

-----------------------------------------------------------------------------
(* The firmware's memory.                                                   *)

\* A probe that is settled has no candidate.
KnownShape == \A p \in Probes : known[p].settled => known[p].candidate = "none"
ProbeTypes == /\ probe \in [Probes -> ProbeType] /\ known \in [Probes -> KnownType]
              /\ KnownShape /\ pending \in BOOLEAN /\ phase \in 0 .. ScansPerTemp - 1
FwType == /\ moves \in 0 .. build.moves /\ status \subseteq Bits /\ RegType /\ WindowInv
          /\ ProbeTypes /\ (~ build.relays => task = Idle)

LEMMA BitNames == Analog \subseteq Bits /\ {"zeroed", "config", "switch", "relays"} \subseteq Bits
BY DEF Bits

LEMMA FreshTypes ==
  /\ FreshProbe \in KnownType /\ (FreshProbe.settled => FreshProbe.candidate = "none")
  /\ Unread \in [Analog -> Reading] /\ Unread["current"] = "invalid"
BY CurrentAnalog DEF FreshProbe, KnownType, Unread, Reading

LEMMA ReadIsReading ==
  ASSUME ProbeTypes, NEW p \in Probes
  PROVE  ReadProbe(p) \in {"invalid", "true", "wild"}
BY DEF ProbeTypes, ReadProbe, ProbeType

LEMMA ConfirmedTypes ==
  ASSUME ProbeTypes, NEW p \in Probes, NEW v \in {"invalid", "true", "wild"}
  PROVE  /\ Confirmed(p, v).served \in {"invalid", "true", "wild"}
         /\ Confirmed(p, v).state \in KnownType
         /\ Confirmed(p, v).state.settled => Confirmed(p, v).state.candidate = "none"
BY FreshTypes DEF Confirmed, KnownType

\* What a temperature is served as, and what is kept of its probe.
LEMMA TemperatureTypes ==
  ASSUME RegType, ProbeTypes, NEW p \in Probes, ReadTemperature(p)
  PROVE  RegType' /\ ProbeTypes'
<1> DEFINE r == Confirmed(p, ReadProbe(p))
<1>1. /\ reg' = [reg EXCEPT ![p] = r.served] /\ known' = [known EXCEPT ![p] = r.state]
      /\ phase' = phase /\ pending' = pending /\ probe' = probe
  BY DEF ReadTemperature, Loops, bench
<1>2. ReadProbe(p) \in {"invalid", "true", "wild"}
  BY ReadIsReading
<1>3. /\ r.served \in {"invalid", "true", "wild"} /\ r.state \in KnownType
      /\ (r.state.settled => r.state.candidate = "none")
  BY <1>2, ConfirmedTypes
<1> HIDE DEF r
<1>4. p # "current" /\ p \in Analog
  BY CurrentAnalog DEF Probes
<1>5. RegType'
  BY <1>1, <1>3, <1>4, CurrentAnalog DEF RegType, Reading
<1>6. known' \in [Probes -> KnownType]
  BY <1>1, <1>3 DEF ProbeTypes
<1>7. KnownShape'
  BY <1>1, <1>3 DEF ProbeTypes, KnownShape
<1> QED BY <1>1, <1>5, <1>6, <1>7 DEF ProbeTypes

LEMMA LoopTypes ==
  ASSUME build \in Settings, FwType, LoopStep
  PROVE  FwType'
<1>1. /\ build' = build /\ moves' = moves /\ task' = task
  BY LoopKeepsCoils DEF coils
<1>2. /\ moves \in 0 .. build.moves /\ status \subseteq Bits /\ RegType /\ WindowInv
      /\ ProbeTypes /\ (~ build.relays => task = Idle)
  BY DEF FwType
<1>3. ASSUME WindowInv', RegType', ProbeTypes', status' \subseteq Bits PROVE FwType'
  BY <1>1, <1>2, <1>3 DEF FwType
<1>4. ASSUME UNCHANGED acs PROVE WindowInv'
  BY <1>2, <1>4 DEF WindowInv
<1>5. ASSUME UNCHANGED reg PROVE RegType'
  BY <1>2, <1>5 DEF RegType
<1>6. ASSUME UNCHANGED <<probe, known, pending, phase>> PROVE ProbeTypes'
  BY <1>2, <1>6 DEF ProbeTypes, KnownShape
<1>7. CASE Begin
  BY <1>2, <1>3, <1>4, <1>5, <1>6, <1>7 DEF Begin, bench, sensing, memory
<1>8. CASE CheckZero
  <2>1. WindowInv'
    BY <1>2, <1>8, WindowChecked
  <2>2. UNCHANGED <<reg, probe, known, pending, phase>>
    BY <1>8 DEF CheckZero, Loops, bench
  <2>3. status' = status \/ status' = status \ {"zeroed"}
    BY <1>8 DEF CheckZero
  <2> QED BY <1>2, <1>3, <1>5, <1>6, <2>1, <2>2, <2>3
<1>9. CASE SampleZero
  <2>1. WindowInv'
    BY <1>2, <1>9, WindowSampled
  <2>2. UNCHANGED <<reg, probe, known, pending, phase>>
    BY <1>9 DEF SampleZero, Loops, bench
  <2>3. status' = status \cup {"zeroed"} \/ status' = status \ {"zeroed"}
    BY <1>9 DEF SampleZero
  <2>4. status' \subseteq Bits
    BY <1>2, <2>3, BitNames
  <2> QED BY <1>3, <1>5, <1>6, <2>1, <2>2, <2>4
<1>10. CASE Top
  <2>1. UNCHANGED <<reg, status, acs, known, pending, phase>>
    BY <1>10 DEF Top, memory, sensing
  <2>2. probe' = [p \in Probes |-> IF probe[p].plug = "pulled"
                                   THEN [probe[p] EXCEPT !.plug = "out"] ELSE probe[p]]
    BY <1>10 DEF Top
  <2>3. probe' \in [Probes -> ProbeType]
    BY <1>2, <2>2 DEF ProbeTypes, ProbeType
  <2>4. ProbeTypes'
    BY <1>2, <2>1, <2>3 DEF ProbeTypes, KnownShape
  <2> QED BY <1>2, <1>3, <1>4, <1>5, <2>1, <2>4
<1>11. ASSUME NEW p \in Probes, ReadTemperature(p) PROVE FwType'
  <2>1. RegType' /\ ProbeTypes'
    BY <1>2, <1>11, TemperatureTypes
  <2>2. UNCHANGED <<acs, status>>
    BY <1>11 DEF ReadTemperature
  <2> QED BY <1>2, <1>3, <1>4, <2>1, <2>2
<1>12. ASSUME NEW p \in Analog, NEW s, SetStatus(p, s) PROVE FwType'
  <2>1. UNCHANGED <<reg, acs, probe, known, pending, phase>>
    BY <1>12 DEF SetStatus, Loops, bench, sensing
  <2>2. status' \subseteq Bits
    BY <1>2, <1>12, BitNames DEF SetStatus
  <2> QED BY <1>2, <1>3, <1>4, <1>5, <1>6, <2>1, <2>2
<1>13. CASE Request
  <2>1. UNCHANGED <<reg, status, acs, known, phase>> /\ pending' = TRUE
    BY <1>13 DEF Request, memory
  <2>2. PICK first \in {"true", "wild"} : probe' = [p \in Probes |->
           IF probe[p].plug # "in" THEN probe[p]
           ELSE [plug |-> "in", first |-> FALSE,
                 scratch |-> IF probe[p].first THEN first ELSE "true"]]
    BY <1>13 DEF Request
  <2>3. probe' \in [Probes -> ProbeType]
    BY <1>2, <2>2 DEF ProbeTypes, ProbeType
  <2>4. ProbeTypes'
    BY <1>2, <2>1, <2>3 DEF ProbeTypes, KnownShape
  <2> QED BY <1>2, <1>3, <1>4, <1>5, <2>1, <2>4
<1>14. CASE ReadCurrent
  <2>1. WindowInv' /\ RegType'
    BY <1>2, <1>14, CurrentRead
  <2>2. UNCHANGED <<status, probe, known, pending, phase>>
    BY <1>14 DEF ReadCurrent, Loops, bench
  <2> QED BY <1>2, <1>3, <1>6, <2>1, <2>2
<1>15. ASSUME NEW p \in {"vib", "supply"}, NEW v \in {"true", "invalid"},
              reg' = [reg EXCEPT ![p] = v]
       PROVE  RegType'
  BY <1>2, <1>15, CurrentAnalog DEF RegType, Reading
<1>16. CASE ReadVibration
  <2>1. UNCHANGED <<status, acs, probe, known, pending, phase>>
    BY <1>16 DEF ReadVibration, Loops, bench, sensing
  <2>2. RegType'
    BY <1>15, <1>16 DEF ReadVibration
  <2> QED BY <1>2, <1>3, <1>4, <1>6, <2>1, <2>2
<1>17. CASE ReadSupply
  <2>1. UNCHANGED <<status, acs, probe, known, pending, phase>>
    BY <1>17 DEF ReadSupply, Loops, bench
  <2>2. RegType'
    BY <1>15, <1>17 DEF ReadSupply
  <2> QED BY <1>2, <1>3, <1>4, <1>6, <2>1, <2>2
<1>18. CASE ReadDigitals
  <2>1. UNCHANGED <<reg, status, acs, probe, known, pending>>
        /\ phase' = (phase + 1) % ScansPerTemp
    BY <1>18 DEF ReadDigitals, Loops, bench, sensing
  <2>2. phase' \in 0 .. ScansPerTemp - 1
    <3>1. phase \in 0 .. ScansPerTemp - 1 /\ ScansPerTemp \in Nat \ {0}
      BY <1>2, RigAssumption DEF ProbeTypes
    <3>2. phase + 1 \in Nat
      BY <3>1
    <3> QED BY <2>1, <3>1, <3>2
  <2>3. ProbeTypes'
    BY <1>2, <2>1, <2>2 DEF ProbeTypes, KnownShape
  <2> QED BY <1>2, <1>3, <1>4, <1>5, <2>1, <2>3
<1>19. "hub" \in Analog /\ "amb" \in Analog /\ "current" \in Analog
       /\ "vib" \in Analog /\ "supply" \in Analog
  BY CurrentAnalog
<1> QED BY <1>7, <1>8, <1>9, <1>10, <1>11, <1>12, <1>13, <1>14, <1>16, <1>17, <1>18, <1>19
        DEF LoopStep

LEMMA FreshIsTyped ==
  ASSUME build \in Settings, moves \in 0 .. build.moves, status \subseteq Bits, reg = Unread,
         acs = FreshAcs, known = [p \in Probes |-> FreshProbe], pending = FALSE, phase = 0,
         probe \in [Probes -> ProbeType], task = Idle
  PROVE  FwType
<1>1. RegType
  BY FreshTypes DEF RegType
<1>2. WindowInv
  BY NewWindow DEF WindowInv
<1>3. known \in [Probes -> KnownType] /\ KnownShape
  BY FreshTypes DEF KnownShape
<1>4. 0 \in 0 .. ScansPerTemp - 1
  BY RigAssumption
<1>5. ProbeTypes
  BY <1>3, <1>4 DEF ProbeTypes
<1> QED BY <1>1, <1>2, <1>5 DEF FwType

LEMMA InitTypes == ASSUME Init PROVE build \in Settings /\ FwType
<1>1. /\ build \in Settings /\ moves = 0 /\ status = {} /\ reg = Unread /\ acs = FreshAcs
      /\ known = [p \in Probes |-> FreshProbe] /\ pending = FALSE /\ phase = 0 /\ task = Idle
      /\ probe = [p \in Probes |-> [plug |-> "in", scratch |-> "reset", first |-> TRUE]]
  BY DEF Init, FwInit
<1>2. moves \in 0 .. build.moves
  BY <1>1, BuildType
<1>3. probe \in [Probes -> ProbeType]
  BY <1>1 DEF ProbeType
<1> QED BY <1>1, <1>2, <1>3, FreshIsTyped

LEMMA SetupTypes == ASSUME build \in Settings, FwType, Setup PROVE FwType'
<1>1. /\ build' = build /\ moves' = moves /\ status' = AtBoot /\ reg' = Unread /\ acs' = FreshAcs
      /\ known' = [p \in Probes |-> FreshProbe] /\ pending' = FALSE /\ phase' = 0 /\ task' = Idle
      /\ probe' = probe
  BY DEF Setup, bench
<1>2. (moves \in 0 .. build.moves)' /\ (probe \in [Probes -> ProbeType])'
  BY <1>1 DEF FwType, ProbeTypes
<1>3. AtBoot \subseteq Bits
  BY BitNames, CurrentAnalog DEF AtBoot
<1>4. RegType'
  BY <1>1, FreshTypes DEF RegType
<1>5. WindowInv'
  BY <1>1, NewWindow DEF WindowInv
<1>6. (known \in [Probes -> KnownType])' /\ KnownShape'
  BY <1>1, FreshTypes DEF KnownShape
<1>7. 0 \in 0 .. ScansPerTemp - 1
  BY RigAssumption
<1>8. ProbeTypes'
  BY <1>1, <1>2, <1>6, <1>7 DEF ProbeTypes
<1> QED BY <1>1, <1>2, <1>3, <1>4, <1>5, <1>8 DEF FwType

\* Nothing but the Arduino task changes the registers or what it knows of a
\* probe; a coil or the supply may move under the half second of a zero.
LEMMA OtherTypes ==
  ASSUME build \in Settings, FwType, build' = build, moves' \in 0 .. build.moves,
         UNCHANGED <<reg, status, known, pending>>, phase' = phase,
         probe' \in [Probes -> ProbeType], ~ build.relays => task' = Idle,
         acs' = acs \/ \E b \in BOOLEAN : acs' = [acs EXCEPT !.loaded = b]
  PROVE  FwType'
<1>1. RegType /\ WindowInv /\ ProbeTypes /\ status \subseteq Bits
  BY DEF FwType
<1>2. WindowInv'
  <2>1. CASE acs' = acs
    BY <1>1, <2>1 DEF WindowInv
  <2>2. ASSUME NEW b \in BOOLEAN, acs' = [acs EXCEPT !.loaded = b] PROVE WindowInv'
    BY <1>1, <2>2, LoadedOnly
  <2> QED BY <2>1, <2>2
<1>3. RegType'
  BY <1>1 DEF RegType
<1>4. ProbeTypes'
  BY <1>1 DEF ProbeTypes, KnownShape
<1> QED BY <1>1, <1>2, <1>3, <1>4 DEF FwType

LEMMA MovesCount ==
  ASSUME build \in Settings, moves \in 0 .. build.moves, NEW what, Moving(what)
  PROVE  moves' \in 0 .. build.moves
<1>1. build.moves \in Nat
  BY BuildType
<1> QED BY <1>1 DEF Moving

LEMMA CoilTypes ==
  ASSUME build \in Settings, FwType,
         \/ WritePin \/ StampRelay \/ Rezero
         \/ \E r \in Relays, on \in BOOLEAN : WriteCoil(r, on)
  PROVE  FwType'
<1>1. /\ UNCHANGED <<build, probe, reg, status, known, pending, phase>>
  BY DEF WritePin, StampRelay, Rezero, WriteCoil, Serves, bench, memory
<1>2. moves \in 0 .. build.moves /\ (~ build.relays => task = Idle)
      /\ probe \in [Probes -> ProbeType]
  BY DEF FwType, ProbeTypes
<1>3. moves' \in 0 .. build.moves
  <2>1. CASE WritePin \/ StampRelay
    BY <1>2, <2>1 DEF WritePin, StampRelay
  <2>2. CASE Rezero \/ \E r \in Relays, on \in BOOLEAN : WriteCoil(r, on)
    <3>1. Moving("coils")
      BY <2>2 DEF Rezero, WriteCoil
    <3> QED BY <1>2, <3>1, MovesCount
  <2> QED BY <2>1, <2>2
<1>4. ~ build.relays => task' = Idle
  <2>1. Idle.op = "idle"
    BY DEF Idle
  <2> QED BY <1>2, <2>1 DEF WritePin, StampRelay, Rezero, WriteCoil, coils
<1>5. acs' = acs \/ \E b \in BOOLEAN : acs' = [acs EXCEPT !.loaded = b]
  <2>1. CASE WritePin
    <3> DEFINE b == Sampling /\ (acs.loaded \/ Load')
    <3>1. acs' = [acs EXCEPT !.loaded = b]
      BY <2>1 DEF WritePin
    <3>2. b \in BOOLEAN
      OBVIOUS
    <3> QED BY <3>1, <3>2
  <2> QED BY <2>1 DEF StampRelay, Rezero, WriteCoil
<1> QED BY <1>1, <1>2, <1>3, <1>4, <1>5, OtherTypes

LEMMA BenchTypes ==
  ASSUME build \in Settings, FwType, BenchStep
  PROVE  FwType'
<1>1. UNCHANGED <<build, reg, status, known, pending, phase, task>>
  BY BenchKeeps DEF memory, coils
<1>2. moves \in 0 .. build.moves /\ (~ build.relays => task = Idle)
      /\ probe \in [Probes -> ProbeType]
  BY DEF FwType, ProbeTypes
<1>3. moves' \in 0 .. build.moves
  <2>1. \E what : Moving(what)
    BY DEF BenchStep, Break, Unplug, Plug, TurnSupply, Switch
  <2> QED BY <1>2, <2>1, MovesCount
<1>4. probe' \in [Probes -> ProbeType]
  <2>1. CASE Break \/ TurnSupply \/ Switch
    BY <1>2, <2>1 DEF Break, TurnSupply, Switch
  <2>2. CASE Unplug
    <3>1. probe' = [probe EXCEPT !["hub"].plug = "pulled"]
      BY <2>2 DEF Unplug
    <3> QED BY <1>2, <3>1 DEF ProbeType, Probes
  <2>3. CASE Plug
    <3>1. probe' = [probe EXCEPT !["hub"] = [plug |-> "in", scratch |-> "reset", first |-> TRUE]]
      BY <2>3 DEF Plug
    <3>2. [plug |-> "in", scratch |-> "reset", first |-> TRUE] \in ProbeType
      BY DEF ProbeType
    <3> QED BY <1>2, <3>1, <3>2
  <2> QED BY <2>1, <2>2, <2>3 DEF BenchStep
<1>5. acs' = acs \/ \E b \in BOOLEAN : acs' = [acs EXCEPT !.loaded = b]
  <2>1. CASE TurnSupply
    <3> DEFINE b == Sampling /\ (acs.loaded \/ Load')
    <3>1. acs' = [acs EXCEPT !.loaded = b]
      BY <2>1 DEF TurnSupply
    <3>2. b \in BOOLEAN
      OBVIOUS
    <3> QED BY <3>1, <3>2
  <2>2. CASE Break \/ Unplug \/ Plug \/ Switch
    BY <2>2 DEF Break, Unplug, Plug, Switch
  <2> QED BY <2>1, <2>2 DEF BenchStep
<1> QED BY <1>1, <1>2, <1>3, <1>4, <1>5, OtherTypes

LEMMA RestTypes ==
  ASSUME build \in Settings, FwType, Reset \/ Tick \/ Bridge \/ UNCHANGED vars
  PROVE  FwType'
<1>1. UNCHANGED <<build, reg, status, known, pending, phase, task, acs, probe>>
  <2>1. CASE Reset \/ Tick
    BY <2>1 DEF Reset, Tick, memory, sensing, coils, bench
  <2>2. CASE Bridge \/ UNCHANGED vars
    BY <2>2, BridgeKeeps DEF memory, sensing, coils, bench
  <2> QED BY <2>1, <2>2
<1>2. moves \in 0 .. build.moves /\ (~ build.relays => task = Idle)
      /\ probe \in [Probes -> ProbeType]
  BY DEF FwType, ProbeTypes
<1>3. moves' \in 0 .. build.moves
  <2>1. moves' = moves \/ Moving("reset")
    BY DEF Reset, Tick, Bridge, Poll, CopyWord, ReadBits, Publish, PollFails, vars, fwVars
  <2> QED BY <1>2, <2>1, MovesCount
<1> QED BY <1>1, <1>2, <1>3, OtherTypes

LEMMA TypesStay ==
  ASSUME build \in Settings, FwType, [Next]_vars
  PROVE  FwType'
<1>1. ASSUME \/ WritePin \/ StampRelay \/ Rezero
             \/ \E r \in Relays, on \in BOOLEAN : WriteCoil(r, on)
      PROVE FwType'
  BY <1>1, CoilTypes
<1> QED BY <1>1, SetupTypes, LoopTypes, BenchTypes, RestTypes, EveryStep

-----------------------------------------------------------------------------
(* The words of a reply.                                                    *)

\* The pass takes the steps of loop only of sensors that are there, and the
\* temperatures only once in a while, so that a status bit is of such a sensor.
PathInv == /\ pc \in {Body[i] : i \in 1 .. 12} => Taken(pc)
           /\ status \cap Analog \subseteq build.sensors

LEMMA PathMoves ==
  ASSUME NEW s, At(s), \E i \in 1 .. 11 : s = Body[i], build' = build, phase' = phase,
         pending' = pending \/ pending' = TRUE
  PROVE  Taken(pc)'
<1>1. PICK i \in 1 .. 11 : s = Body[i]
  OBVIOUS
<1>2. At(Body[i])
  BY <1>1
<1>3. PICK m \in i + 1 .. 12 : pc' = Body[m] /\ Taken(Body[m])
  BY <1>2, StepsOn
<1> QED BY <1>3 DEF Taken

BodySteps == {Body[i] : i \in 1 .. 12}
Outside   == {"setup", "firstZero", "firstSample", "begin", "top", "zero", "sample"}

LEMMA OutsideBody == Outside \cap BodySteps = {}
<1> SUFFICES ASSUME NEW i \in 1 .. 12 PROVE Body[i] \notin Outside
  BY DEF BodySteps
<1>1. \/ i = 1 \/ i = 2 \/ i = 3 \/ i = 4 \/ i = 5 \/ i = 6
      \/ i = 7 \/ i = 8 \/ i = 9 \/ i = 10 \/ i = 11 \/ i = 12
  OBVIOUS
<1> QED BY <1>1, BodyPlaces DEF Outside

LEMMA AboutNames ==
  /\ About("hub") = "hub" /\ About("hubStatus") = "hub" /\ About("request") = "hub"
  /\ About("amb") = "amb" /\ About("ambStatus") = "amb"
  /\ About("current") = "current" /\ About("currentStatus") = "current"
  /\ About("vib") = "vib" /\ About("vibStatus") = "vib"
  /\ About("supply") = "supply" /\ About("supplyStatus") = "supply"
BY DEF About

\* A status bit is written at a step the pass takes for its sensor.
StatusStep(p, s) ==
  \/ p = "hub" /\ s = "hubStatus"
  \/ p = "amb" /\ s = "ambStatus"
  \/ p = "current" /\ s = "currentStatus"
  \/ p = "vib" /\ s = "vibStatus"
  \/ p = "supply" /\ s = "supplyStatus"

LEMMA StatusPlaced ==
  ASSUME NEW p, NEW s, StatusStep(p, s)
  PROVE  s # "digital" /\ About(s) = p /\ \E i \in 1 .. 11 : s = Body[i]
<1>1. s # "digital" /\ About(s) = p
  BY AboutNames DEF StatusStep
<1>2. s \in {"hubStatus", "ambStatus", "currentStatus", "vibStatus", "supplyStatus"}
  BY DEF StatusStep
<1>3. \E i \in 1 .. 11 : s = Body[i]
  BY <1>2, EachStepPlaced
<1> QED BY <1>1, <1>3

LEMMA PathSetup == ASSUME build \in Settings, Setup PROVE PathInv'
<1>1. build' = build /\ status' = AtBoot /\ pc' = "firstZero"
  BY DEF Setup
<1>2. AtBoot \cap Analog \subseteq build.sensors
  <2>1. {"config", "switch", "relays"} \cap Analog = {}
    BY AnalogNames
  <2>2. AtBoot \subseteq {"config", "switch", "relays"} \cup build.sensors
    BY DEF AtBoot
  <2> QED BY <2>1, <2>2
<1>3. pc' \notin BodySteps
  BY <1>1, OutsideBody DEF Outside
<1> QED BY <1>1, <1>2, <1>3 DEF PathInv, BodySteps

LEMMA PathLoop ==
  ASSUME build \in Settings, FwType, PathInv, LoopStep
  PROVE  PathInv'
<1>1. build' = build /\ status \cap Analog \subseteq build.sensors
  BY LoopKeepsCoils DEF PathInv
<1>2. ASSUME pc' \in Outside \/ Taken(pc)', status' \cap Analog \subseteq build.sensors
      PROVE  PathInv'
  BY <1>1, <1>2, OutsideBody DEF PathInv, BodySteps
<1>3. ASSUME UNCHANGED <<phase, pending>>, pc' = From(1) PROVE Taken(pc)'
  <2>1. 1 \in 1 .. 12
    OBVIOUS
  <2>2. PICK m \in 1 .. 12 : From(1) = Body[m] /\ Taken(Body[m])
    BY <2>1, FromTakes
  <2> QED BY <1>1, <1>3, <2>2 DEF Taken
<1>4. "zeroed" \notin Analog
  BY AnalogNames
<1>5. CASE Begin
  <2>1. pc' \in Outside /\ status' = status
    BY <1>5 DEF Begin, Outside, memory
  <2> QED BY <1>1, <1>2, <2>1
<1>6. CASE CheckZero
  <2>1. UNCHANGED <<phase, pending>>
    BY <1>6 DEF CheckZero
  <2>2. status' \subseteq status
    BY <1>6 DEF CheckZero
  <2>3. pc' \in Outside \/ pc' = From(1)
    BY <1>6 DEF CheckZero, Zeroing, Outside
  <2> QED BY <1>1, <1>2, <1>3, <2>1, <2>2, <2>3
<1>7. CASE SampleZero
  <2>1. UNCHANGED <<phase, pending>>
    BY <1>7 DEF SampleZero
  <2>2. status' \subseteq status \cup {"zeroed"}
    BY <1>7 DEF SampleZero
  <2>3. pc' \in Outside \/ pc' = From(1)
    BY <1>7 DEF SampleZero, Zeroing, Outside
  <2> QED BY <1>1, <1>2, <1>3, <1>4, <2>1, <2>2, <2>3
<1>8. CASE Top
  <2>1. UNCHANGED <<phase, pending, status>>
    BY <1>8 DEF Top, memory, sensing
  <2>2. pc' \in Outside \/ pc' = From(1)
    BY <1>8 DEF Top, Outside
  <2> QED BY <1>1, <1>2, <1>3, <2>1, <2>2
<1>9. ASSUME NEW s, \E i \in 1 .. 11 : s = Body[i], At(s),
             phase' = phase, pending' = pending \/ pending' = TRUE, status' = status
      PROVE  PathInv'
  <2>1. Taken(pc)'
    BY <1>1, <1>9, PathMoves
  <2> QED BY <1>1, <1>2, <1>9, <2>1
<1>10. ASSUME NEW p \in Probes, ReadTemperature(p) PROVE PathInv'
  <2>1. At(p) /\ UNCHANGED <<phase, pending, status>>
    BY <1>10 DEF ReadTemperature
  <2>2. p \in {"hub", "amb"}
    BY DEF Probes
  <2>3. \E i \in 1 .. 11 : p = Body[i]
    BY <2>2, EachStepPlaced
  <2> QED BY <1>9, <2>1, <2>3
<1>11. ASSUME NEW p, NEW s, StatusStep(p, s), SetStatus(p, s) PROVE PathInv'
  <2>1. At(s) /\ UNCHANGED <<phase, pending>> /\ status' \subseteq status \cup {p}
    BY <1>11 DEF SetStatus, sensing
  <2>2. s # "digital" /\ About(s) = p
    BY <1>11, StatusPlaced
  <2>3. PICK i \in 1 .. 11 : s = Body[i]
    BY <1>11, StatusPlaced
  <2>4. pc = s
    BY <2>1 DEF At
  <2>5. i \in 1 .. 12
    OBVIOUS
  <2>6. Taken(s)
    BY <2>3, <2>4, <2>5 DEF PathInv
  <2>7. p \in build.sensors
    BY <2>2, <2>6 DEF Taken
  <2>8. Taken(pc)'
    BY <1>1, <2>1, <2>3, PathMoves
  <2> QED BY <1>1, <1>2, <2>1, <2>7, <2>8
<1>12. CASE Request
  <2>1. At("request") /\ phase' = phase /\ pending' = TRUE /\ status' = status
    BY <1>12 DEF Request, memory
  <2> QED BY <1>9, <2>1, EachStepPlaced
<1>13. CASE ReadCurrent
  BY <1>9, <1>13, EachStepPlaced DEF ReadCurrent
<1>14. CASE ReadVibration
  BY <1>9, <1>14, EachStepPlaced DEF ReadVibration, sensing
<1>15. CASE ReadSupply
  BY <1>9, <1>15, EachStepPlaced DEF ReadSupply
<1>16. CASE ReadDigitals
  <2>1. pc' \in Outside /\ status' = status
    BY <1>16 DEF ReadDigitals, Outside
  <2> QED BY <1>1, <1>2, <2>1
<1>17. CASE \/ SetStatus("hub", "hubStatus") \/ SetStatus("amb", "ambStatus")
            \/ SetStatus("current", "currentStatus") \/ SetStatus("vib", "vibStatus")
            \/ SetStatus("supply", "supplyStatus")
  <2>1. /\ StatusStep("hub", "hubStatus") /\ StatusStep("amb", "ambStatus")
        /\ StatusStep("current", "currentStatus") /\ StatusStep("vib", "vibStatus")
        /\ StatusStep("supply", "supplyStatus")
    BY DEF StatusStep
  <2> QED BY <1>11, <1>17, <2>1
<1> QED BY <1>5, <1>6, <1>7, <1>8, <1>10, <1>12, <1>13, <1>14, <1>15, <1>16, <1>17
        DEF LoopStep

LEMMA PathStays ==
  ASSUME build \in Settings, FwType, PathInv, [Next]_vars
  PROVE  PathInv'
<1>1. CASE Reset
  <2>1. pc' \in Outside /\ status' = status /\ build' = build
    BY <1>1 DEF Reset, memory, Outside
  <2> QED BY <2>1, OutsideBody DEF PathInv, BodySteps
<1>2. CASE Tick \/ BenchStep \/ Bridge \/ (UNCHANGED vars)
           \/ WritePin \/ StampRelay \/ Rezero
           \/ \E r \in Relays, on \in BOOLEAN : WriteCoil(r, on)
  <2>1. UNCHANGED <<build, pc, phase, pending, status>>
    <3>1. CASE BenchStep
      BY <3>1, BenchKeeps DEF memory
    <3>2. CASE Bridge \/ UNCHANGED vars
      BY <3>2, BridgeKeeps DEF memory, sensing
    <3>3. CASE Tick
      BY <3>3 DEF Tick, memory, sensing
    <3>4. CASE WritePin \/ StampRelay \/ Rezero
               \/ \E r \in Relays, on \in BOOLEAN : WriteCoil(r, on)
      BY <3>4 DEF WritePin, StampRelay, Rezero, WriteCoil, Serves, memory
    <3> QED BY <1>2, <3>1, <3>2, <3>3, <3>4
  <2> QED BY <2>1 DEF PathInv, Taken
<1> QED BY <1>1, <1>2, PathSetup, PathLoop, EveryStep

\* What may be served of a point: nothing of a fault, and no first conversion.
Served(p, v) == v \in Reading \cup {"unread"} /\ (p = "current" => v # "spans") /\ (p \in Probes => v # "wild")
RegsServed   == \A p \in Analog : Served(p, reg[p])

\* A reply carries what was served, and once its status word is in, a word for
\* every sensor that is there, so for every point whose status bit it may have.
WordsInv ==
  /\ DOMAIN words \subseteq Analog \cup {"status"}
  /\ \A p \in DOMAIN words \cap Analog : Served(p, words[p])
  /\ "status" \in DOMAIN words => words["status"] \cap Analog \subseteq build.sensors
  /\ poll \in {"idle", "registers", "bits", "publish"}
  /\ poll \in {"bits", "publish"} => build.sensors \cup {"status"} \subseteq DOMAIN words
  /\ poll = "idle" => words = NoWords
PubInv ==
  /\ \A n \in Nodes : pub[n].value = "none" <=> pub[n].quality \notin {"Good", "Uncertain"}
  /\ \A p \in Analog : pub[p].value # "none"
                        => pub[p].value # "invalid" /\ Served(p, pub[p].value)

LEMMA EmptyWords == DOMAIN NoWords = {}
BY DEF NoWords

LEMMA WordCopied ==
  ASSUME build \in Settings, PathInv, WordsInv, RegsServed, CopyWord
  PROVE  WordsInv'
<1> DEFINE left == {i \in DOMAIN Points : Points[i] \in build.sensors \ DOMAIN words}
           p == Points[Min(left)]
<1>1. poll = "registers" /\ build' = build
  BY DEF CopyWord, fwVars
<1>2. /\ DOMAIN words \subseteq Analog \cup {"status"}
      /\ \A q \in DOMAIN words \cap Analog : Served(q, words[q])
      /\ "status" \in DOMAIN words => words["status"] \cap Analog \subseteq build.sensors
  BY DEF WordsInv
<1>3. "status" \notin Analog /\ build.sensors \subseteq Analog
  BY AnalogNames, BuildType
<1>4. CASE left # {}
  <2>1. words' = With(words, p, reg[p]) /\ poll' = poll
    BY <1>4 DEF CopyWord
  <2>2. left \subseteq Nat
    BY DEF Points
  <2>3. Min(left) \in left
    BY <1>4, <2>2, MinIsLeast
  <2>4. p \in build.sensors
    BY <2>3
  <2> HIDE DEF left, p
  <2>5. p \in Analog /\ p # "status"
    BY <1>3, <2>4
  <2>6. /\ DOMAIN words' = DOMAIN words \cup {p} /\ words'[p] = reg[p]
        /\ \A q \in DOMAIN words : q # p => words'[q] = words[q]
    <3> DEFINE w == With(words, p, reg[p])
    <3>1. /\ DOMAIN w = DOMAIN words \cup {p} /\ w[p] = reg[p]
          /\ \A q \in DOMAIN words : q # p => w[q] = words[q]
      BY DEF With
    <3>2. words' = w
      BY <2>1
    <3> HIDE DEF w
    <3> QED BY <3>1, <3>2
  <2>7. Served(p, reg[p])
    BY <2>5 DEF RegsServed
  <2>8. \A q \in DOMAIN words' \cap Analog : Served(q, words'[q])
    BY <1>2, <2>6, <2>7
  <2>9. DOMAIN words' \subseteq Analog \cup {"status"}
    BY <1>2, <2>5, <2>6
  <2>10. "status" \in DOMAIN words' => words'["status"] \cap Analog \subseteq build.sensors
    BY <1>2, <2>5, <2>6
  <2> QED BY <1>1, <2>1, <2>8, <2>9, <2>10 DEF WordsInv
<1>5. CASE left = {}
  <2>1. words' = With(words, "status", status) /\ poll' = "bits"
    BY <1>5 DEF CopyWord
  <2>2. build.sensors \subseteq DOMAIN words
    <3> SUFFICES ASSUME NEW s \in build.sensors PROVE s \in DOMAIN words
      OBVIOUS
    <3>1. PICK i \in DOMAIN Points : Points[i] = s
      BY <1>3 DEF Analog, Range
    <3> QED BY <1>5, <3>1
  <2> HIDE DEF left, p
  <2>3. /\ DOMAIN words' = DOMAIN words \cup {"status"} /\ words'["status"] = status
        /\ \A q \in DOMAIN words : q # "status" => words'[q] = words[q]
    <3> DEFINE w == With(words, "status", status)
    <3>1. /\ DOMAIN w = DOMAIN words \cup {"status"} /\ w["status"] = status
          /\ \A q \in DOMAIN words : q # "status" => w[q] = words[q]
      BY DEF With
    <3>2. words' = w
      BY <2>1
    <3> HIDE DEF w
    <3> QED BY <3>1, <3>2
  <2>4. \A q \in DOMAIN words' \cap Analog : Served(q, words'[q])
    BY <1>2, <1>3, <2>3
  <2>5. DOMAIN words' \subseteq Analog \cup {"status"}
    BY <1>2, <2>3
  <2>6. words'["status"] \cap Analog \subseteq build.sensors
    BY <2>3 DEF PathInv
  <2>7. build.sensors \cup {"status"} \subseteq DOMAIN words'
    BY <2>2, <2>3
  <2> QED BY <1>1, <2>1, <2>4, <2>5, <2>6, <2>7 DEF WordsInv
<1> HIDE DEF left
<1> QED BY <1>4, <1>5

LEMMA WordsDropped ==
  ASSUME poll' = "idle", words' = NoWords
  PROVE  WordsInv'
<1>1. DOMAIN words' = {}
  BY EmptyWords
<1> QED BY <1>1 DEF WordsInv

LEMMA WordsStay ==
  ASSUME build \in Settings, PathInv, WordsInv, RegsServed, [Next]_vars, build' = build
  PROVE  WordsInv'
<1>1. CASE UNCHANGED words /\ (poll' = poll \/ (poll = "bits" /\ poll' = "publish")
                                \/ (poll = "idle" /\ poll' = "registers"))
  BY <1>1 DEF WordsInv
<1>2. CASE UNCHANGED bridgeVars \/ UNCHANGED vars
  BY <1>1, <1>2 DEF bridgeVars, vars
<1>3. CASE Poll
  BY <1>1, <1>3 DEF Poll
<1>4. CASE CopyWord
  BY <1>4, WordCopied
<1>5. CASE ReadBits
  BY <1>1, <1>5 DEF ReadBits
<1>6. CASE Publish \/ PollFails
  BY <1>6, WordsDropped DEF Publish, PollFails
<1> QED BY <1>2, <1>3, <1>4, <1>5, <1>6, EveryStep DEF Bridge

LEMMA NullIsNull ==
  ASSUME NEW q \in {"BadConfigurationError", "BadDeviceFailure", "BadOutOfRange",
                    "BadNotConnected", "BadNoCommunication", "BadWaitingForInitialData"}
  PROVE  /\ Null(q).value = "none" /\ Null(q).quality \notin {"Good", "Uncertain"}
BY DEF Null

\* A point with a value has its status bit in the status word, so its word in
\* the reply, and that is no sentinel.
LEMMA DecodedFine ==
  ASSUME build \in Settings, WordsInv, poll = "publish", NEW p \in Analog
  PROVE  /\ Decode(p, words).value = "none"
              <=> Decode(p, words).quality \notin {"Good", "Uncertain"}
         /\ Decode(p, words).value # "none"
              => /\ Decode(p, words).value # "invalid" /\ Served(p, Decode(p, words).value)
<1> DEFINE d == Decode(p, words)
<1>1. \/ d \in {Null("BadConfigurationError"), Null("BadDeviceFailure"), Null(BadCode(p))}
      \/ /\ p \in words["status"] /\ words[p] # "invalid"
         /\ d = [value |-> words[p], quality |-> IF p = "current" THEN "Uncertain" ELSE "Good"]
  BY DEF Decode
<1>2. CASE d \in {Null("BadConfigurationError"), Null("BadDeviceFailure"), Null(BadCode(p))}
  <2>1. BadCode(p) \in {"BadOutOfRange", "BadDeviceFailure"}
    BY DEF BadCode
  <2>2. d.value = "none" /\ d.quality \notin {"Good", "Uncertain"}
    BY <1>2, <2>1 DEF Null
  <2> QED BY <2>2
<1>3. CASE /\ p \in words["status"] /\ words[p] # "invalid"
           /\ d = [value |-> words[p], quality |-> IF p = "current" THEN "Uncertain" ELSE "Good"]
  <2>1. "status" \in DOMAIN words /\ build.sensors \subseteq DOMAIN words
    BY DEF WordsInv
  <2>2. p \in DOMAIN words
    BY <1>3, <2>1 DEF WordsInv
  <2>3. Served(p, words[p])
    BY <2>2 DEF WordsInv
  <2>4. words[p] # "none"
    BY <2>3 DEF Served, Reading
  <2>5. d.value = words[p] /\ d.quality \in {"Good", "Uncertain"}
    BY <1>3
  <2> HIDE DEF d
  <2>6. /\ d.value = "none" <=> d.quality \notin {"Good", "Uncertain"}
        /\ d.value # "none" => d.value # "invalid" /\ Served(p, d.value)
    BY <1>3, <2>3, <2>4, <2>5
  <2> QED BY <2>6 DEF d
<1> QED BY <1>1, <1>2, <1>3

LEMMA DigitalFine ==
  ASSUME NEW n
  PROVE  DecodeDigital(n, words, inputs).value = "none"
           <=> DecodeDigital(n, words, inputs).quality \notin {"Good", "Uncertain"}
<1> DEFINE d == DecodeDigital(n, words, inputs)
<1>1. d = Null("BadNotConnected") \/ d = [value |-> Input(n, inputs), quality |-> "Good"]
  BY DEF DecodeDigital
<1>2. Input(n, inputs) # "none"
  BY DEF Input, OnOff
<1>3. CASE d = Null("BadNotConnected")
  BY <1>3 DEF Null
<1>4. CASE d = [value |-> Input(n, inputs), quality |-> "Good"]
  BY <1>2, <1>4
<1> QED BY <1>1, <1>3, <1>4

LEMMA PubStays ==
  ASSUME build \in Settings, WordsInv, PubInv, [Next]_vars
  PROVE  PubInv'
<1>1. CASE pub' = pub
  BY <1>1 DEF PubInv
<1>2. CASE Publish
  <2>1. /\ poll = "publish"
        /\ pub' = [n \in Nodes |-> IF n \in Analog THEN Decode(n, words)
                                   ELSE DecodeDigital(n, words, inputs)]
    BY <1>2 DEF Publish
  <2>2. \A n \in Nodes : pub'[n].value = "none" <=> pub'[n].quality \notin {"Good", "Uncertain"}
    <3> SUFFICES ASSUME NEW n \in Nodes
                 PROVE  pub'[n].value = "none" <=> pub'[n].quality \notin {"Good", "Uncertain"}
      OBVIOUS
    <3>1. CASE n \in Analog
      <4>1. pub'[n] = Decode(n, words)
        BY <2>1, <3>1
      <4> QED BY <2>1, <3>1, <4>1, DecodedFine
    <3>2. CASE n \notin Analog
      <4>1. pub'[n] = DecodeDigital(n, words, inputs)
        BY <2>1, <3>2
      <4> QED BY <4>1, DigitalFine
    <3> QED BY <3>1, <3>2
  <2>3. \A p \in Analog : pub'[p].value # "none"
                            => pub'[p].value # "invalid" /\ Served(p, pub'[p].value)
    <3> SUFFICES ASSUME NEW p \in Analog
                 PROVE  pub'[p].value # "none"
                          => pub'[p].value # "invalid" /\ Served(p, pub'[p].value)
      OBVIOUS
    <3>1. pub'[p] = Decode(p, words)
      BY <2>1 DEF Nodes
    <3> QED BY <2>1, <3>1, DecodedFine
  <2> QED BY <2>2, <2>3 DEF PubInv
<1>3. CASE PollFails
  <2>1. pub' = [n \in Nodes |-> Null("BadNoCommunication")]
    BY <1>3 DEF PollFails, Marked
  <2>2. \A n \in Nodes : pub'[n].value = "none" /\ pub'[n].quality \notin {"Good", "Uncertain"}
    BY <2>1 DEF Null
  <2> QED BY <2>2 DEF PubInv, Nodes
<1> QED BY <1>1, <1>2, <1>3, EveryStep DEF Bridge, Poll, CopyWord, ReadBits, bridgeVars, vars

-----------------------------------------------------------------------------
(* The probes.                                                              *)

\* The steps between the reading of probe p and the next conversion's start.
Past(p) == IF p = "hub" THEN {"amb", "hubStatus", "ambStatus", "request"}
           ELSE {"hubStatus", "ambStatus", "request"}

\* A first conversion is in the scratchpad of a probe that has been settled on
\* nothing, and has been read at most in the pass that is about to replace it.
ProbeFine(sensors, p, q, k, c, asked) ==
  /\ q.scratch # "reset" => "hub" \in sensors
  /\ q.plug = "in" /\ q.scratch = "wild"
       => ~ q.first /\ ~ k.settled /\ (k.candidate # "none" => c \in Past(p) \cup {"setup"})
  /\ q.plug = "in" /\ q.first => q.scratch = "reset"
  /\ c \in Past(p) /\ (q.plug = "out" \/ (q.plug = "in" /\ q.first)) => k = FreshProbe
  /\ ~ asked \/ p \notin sensors => k = FreshProbe
ProbeInv ==
  /\ \A p \in Probes : ProbeFine(build.sensors, p, probe[p], known[p], pc, pending)
  /\ \A p \in Probes : reg[p] # "wild"

\* While a conversion is due, the pass does not leave the temperatures.
LEMMA PassToRequest ==
  ASSUME NEW i \in 1 .. 4, At(Body[i]), Taken("request")
  PROVE  \E m \in i + 1 .. 5 : pc' = Body[m]
<1>1. i \in 1 .. 11 /\ 5 \in i + 1 .. 12
  OBVIOUS
<1>2. PICK m \in i + 1 .. 12 : /\ pc' = Body[m]
                               /\ \A j \in i + 1 .. 12 : Taken(Body[j]) => m <= j
  BY <1>1, StepsOn
<1>3. Taken(Body[5])
  BY BodyPlaces
<1>4. m <= 5
  BY <1>1, <1>2, <1>3
<1>5. m \in i + 1 .. 5
  BY <1>2, <1>4
<1> QED BY <1>2, <1>5

LEMMA HubStays ==
  ASSUME At("hub"), Taken("request")
  PROVE  pc' \in {"amb", "hubStatus", "ambStatus", "request"}
<1>1. 1 \in 1 .. 4 /\ At(Body[1])
  BY BodyPlaces
<1>2. PICK m \in 2 .. 5 : pc' = Body[m]
  BY <1>1, PassToRequest
<1>3. m = 2 \/ m = 3 \/ m = 4 \/ m = 5
  OBVIOUS
<1> QED BY <1>2, <1>3, BodyPlaces

LEMMA AmbStays ==
  ASSUME At("amb"), Taken("request")
  PROVE  pc' \in {"hubStatus", "ambStatus", "request"}
<1>1. 2 \in 1 .. 4 /\ At(Body[2])
  BY BodyPlaces
<1>2. PICK m \in 3 .. 5 : pc' = Body[m]
  BY <1>1, PassToRequest
<1>3. m = 3 \/ m = 4 \/ m = 5
  OBVIOUS
<1> QED BY <1>2, <1>3, BodyPlaces

LEMMA StatusStays ==
  ASSUME At("hubStatus") \/ At("ambStatus"), Taken("request")
  PROVE  pc' \in {"ambStatus", "request"}
<1>1. At(Body[3]) \/ At(Body[4])
  BY BodyPlaces
<1>2. PICK i \in {3, 4} : At(Body[i])
  BY <1>1
<1>3. i \in 1 .. 4
  OBVIOUS
<1>4. PICK m \in i + 1 .. 5 : pc' = Body[m]
  BY <1>2, <1>3, PassToRequest
<1>5. m = 4 \/ m = 5
  BY <1>4
<1> QED BY <1>4, <1>5, BodyPlaces

\* Past the request, the pass does not come back to the temperatures.
LEMMA PassMovesOn ==
  ASSUME NEW i \in 5 .. 11, At(Body[i])
  PROVE  pc' \notin {"hub", "amb", "hubStatus", "ambStatus", "request", "setup"}
<1>1. i \in 1 .. 11
  OBVIOUS
<1>2. PICK m \in i + 1 .. 12 : pc' = Body[m]
  BY <1>1, StepsOn
<1>3. m = 6 \/ m = 7 \/ m = 8 \/ m = 9 \/ m = 10 \/ m = 11 \/ m = 12
  BY <1>2
<1> QED BY <1>2, <1>3, BodyPlaces

\* A pass that begins past the reading of a probe has nothing to read of it.
LEMMA PassBegins ==
  \E m \in 1 .. 12 : /\ From(1) = Body[m] /\ Taken(Body[m])
                     /\ \A i \in 1 .. 12 : Taken(Body[i]) => m <= i
<1>1. 1 \in 1 .. 12
  OBVIOUS
<1> QED BY <1>1, FromTakes

LEMMA HubSkipped ==
  ASSUME From(1) \in {"amb", "hubStatus", "ambStatus", "request"}
  PROVE  ~ pending \/ "hub" \notin build.sensors
<1>1. PICK m \in 1 .. 12 : /\ From(1) = Body[m] /\ Taken(Body[m])
                           /\ \A i \in 1 .. 12 : Taken(Body[i]) => m <= i
  BY PassBegins
<1>2. Taken(From(1))
  BY <1>1
<1>3. phase = 0
  BY <1>2 DEF Taken, Temps
<1> SUFFICES ASSUME pending, "hub" \in build.sensors PROVE FALSE
  OBVIOUS
<1>4. Taken("hub")
  BY <1>3, AboutNames DEF Taken
<1>5. 1 \in 1 .. 12 /\ Taken(Body[1])
  BY <1>4, BodyPlaces
<1>6. m <= 1
  BY <1>1, <1>5
<1>7. m = 1
  BY <1>6
<1>8. From(1) = "hub"
  BY <1>1, <1>7, BodyPlaces
<1> QED BY <1>8

LEMMA AmbSkipped ==
  ASSUME From(1) \in {"hubStatus", "ambStatus", "request"}
  PROVE  ~ pending \/ "amb" \notin build.sensors
<1>1. PICK m \in 1 .. 12 : /\ From(1) = Body[m] /\ Taken(Body[m])
                           /\ \A i \in 1 .. 12 : Taken(Body[i]) => m <= i
  BY PassBegins
<1>2. Taken(From(1))
  BY <1>1
<1>3. phase = 0
  BY <1>2 DEF Taken, Temps
<1> SUFFICES ASSUME pending, "amb" \in build.sensors PROVE FALSE
  OBVIOUS
<1>4. Taken("amb")
  BY <1>3, AboutNames DEF Taken
<1>5. 2 \in 1 .. 12 /\ Taken(Body[2])
  BY <1>4, BodyPlaces
<1>6. m <= 2
  BY <1>1, <1>5
<1>7. m = 1 \/ m = 2
  BY <1>6
<1>8. From(1) \in {"hub", "amb"}
  BY <1>1, <1>7, BodyPlaces
<1> QED BY <1>8

\* The loop moves on: what is known of the probe stays true if the pass comes
\* past its reading only with nothing known, and leaves only after the request.
LEMMA FineMoves ==
  ASSUME NEW S, NEW p, NEW q, NEW k, NEW c, NEW d, NEW o, NEW e,
         ProbeFine(S, p, q, k, c, o), o => e,
         \/ c \notin Past(p) \cup {"setup"}
         \/ d \in Past(p) \cup {"setup"}
         \/ q.scratch = "reset",
         d \in Past(p) => c \in Past(p) \/ k = FreshProbe
  PROVE  ProbeFine(S, p, q, k, d, e)
BY DEF ProbeFine

\* The steps that are not past the reading of any probe.
LEMMA NotPast ==
  ASSUME NEW p \in Probes
  PROVE  /\ Past(p) \subseteq {"amb", "hubStatus", "ambStatus", "request"}
         /\ {"hubStatus", "ambStatus", "request"} \subseteq Past(p)
         /\ "setup" \notin Past(p)
BY DEF Past

LEMMA SkippedIsFresh ==
  ASSUME ProbeInv, NEW p \in Probes, From(1) \in Past(p)
  PROVE  known[p] = FreshProbe
<1>1. ~ pending \/ p \notin build.sensors => known[p] = FreshProbe
  BY DEF ProbeInv, ProbeFine
<1>2. CASE p = "hub"
  BY <1>1, <1>2, HubSkipped DEF Past
<1>3. CASE p = "amb"
  <2>1. From(1) \in {"hubStatus", "ambStatus", "request"}
    BY <1>3 DEF Past
  <2> QED BY <1>1, <1>3, <2>1, AmbSkipped
<1> QED BY <1>2, <1>3 DEF Probes

\* From outside the body the pass goes to its first step or stays outside.
LEMMA ProbeOutside ==
  ASSUME ProbeInv, build' = build, UNCHANGED <<probe, known, pending>>,
         pc \notin {"amb", "hubStatus", "ambStatus", "request", "setup"},
         pc' \in Outside \cup {"digital", "hub"} \/ pc' = From(1),
         \A p \in Probes : reg'[p] = reg[p]
  PROVE  ProbeInv'
<1>1. ASSUME NEW p \in Probes
      PROVE  ProbeFine(build.sensors, p, probe[p], known[p], pc', pending)
  <2>1. ProbeFine(build.sensors, p, probe[p], known[p], pc, pending)
    BY DEF ProbeInv
  <2>2. pc \notin Past(p) \cup {"setup"}
    BY NotPast
  <2>3. pc' \in Past(p) => known[p] = FreshProbe
    <3>1. CASE pc' = From(1)
      BY <3>1, SkippedIsFresh
    <3>2. CASE pc' \in Outside \cup {"digital", "hub"}
      BY <3>2, NotPast DEF Outside
    <3> QED BY <3>1, <3>2
  <2> QED BY <2>1, <2>2, <2>3, FineMoves
<1>2. \A p \in Probes : reg'[p] # "wild"
  BY DEF ProbeInv
<1> QED BY <1>1, <1>2 DEF ProbeInv

\* Beyond the request the pass stays beyond.
LEMMA ProbeBeyond ==
  ASSUME ProbeInv, build' = build, UNCHANGED <<probe, known, pending>>,
         NEW i \in 6 .. 11, At(Body[i]), \A p \in Probes : reg'[p] = reg[p]
  PROVE  ProbeInv'
<1>1. pc = Body[i] /\ i \in 1 .. 11 /\ i \in 5 .. 11
  BY DEF At
<1>2. pc \notin {"amb", "hubStatus", "ambStatus", "request", "setup"}
  <2>1. i = 6 \/ i = 7 \/ i = 8 \/ i = 9 \/ i = 10 \/ i = 11
    OBVIOUS
  <2> QED BY <1>1, <2>1, BodyPlaces
<1>3. pc' \notin {"hub", "amb", "hubStatus", "ambStatus", "request", "setup"}
  BY <1>1, PassMovesOn
<1>4. ASSUME NEW p \in Probes
      PROVE  ProbeFine(build.sensors, p, probe[p], known[p], pc', pending)
  <2>1. ProbeFine(build.sensors, p, probe[p], known[p], pc, pending)
    BY DEF ProbeInv
  <2>2. pc \notin Past(p) \cup {"setup"} /\ pc' \notin Past(p)
    BY <1>2, <1>3, NotPast
  <2> QED BY <2>1, <2>2, FineMoves
<1>5. \A p \in Probes : reg'[p] # "wild"
  BY DEF ProbeInv
<1> QED BY <1>4, <1>5 DEF ProbeInv

LEMMA RequestDue ==
  ASSUME PathInv, pc \in BodySteps, phase = 0, "hub" \in build.sensors
  PROVE  Taken("request")
BY AboutNames DEF Taken, Temps

LEMMA ProbeStatus ==
  ASSUME ProbeInv, PathInv, build' = build, UNCHANGED <<probe, known, pending>>,
         At("hubStatus") \/ At("ambStatus"), \A p \in Probes : reg'[p] = reg[p]
  PROVE  ProbeInv'
<1>1. pc \in {"hubStatus", "ambStatus"}
  BY DEF At
<1>2. pc \in BodySteps
  BY <1>1, EachStepPlaced DEF BodySteps
<1>3. phase = 0
  BY <1>1, <1>2 DEF PathInv, BodySteps, Taken, Temps
<1>4. ASSUME NEW p \in Probes
      PROVE  ProbeFine(build.sensors, p, probe[p], known[p], pc', pending)
  <2>1. ProbeFine(build.sensors, p, probe[p], known[p], pc, pending)
    BY DEF ProbeInv
  <2>2. pc \in Past(p)
    BY <1>1, NotPast
  <2>3. CASE "hub" \in build.sensors
    <3>1. Taken("request")
      BY <1>2, <1>3, <2>3, RequestDue
    <3>2. pc' \in {"ambStatus", "request"}
      BY <3>1, StatusStays
    <3>3. pc' \in Past(p)
      BY <3>2, NotPast
    <3> QED BY <2>1, <2>2, <3>3, FineMoves
  <2>4. CASE "hub" \notin build.sensors
    <3>1. probe[p].scratch = "reset"
      BY <2>1, <2>4 DEF ProbeFine
    <3> QED BY <2>1, <2>2, <3>1, FineMoves
  <2> QED BY <2>3, <2>4
<1>5. \A p \in Probes : reg'[p] # "wild"
  BY DEF ProbeInv
<1> QED BY <1>4, <1>5 DEF ProbeInv

\* A first conversion is not served: the probe is settled on nothing and has
\* no candidate when it is read, and becomes the candidate.
LEMMA ReadOfProbe ==
  ASSUME ProbeTypes, ProbeInv, NEW p \in Probes, pc = p, p \in build.sensors, pending,
         "hub" \in build.sensors => pc' \in Past(p)
  PROVE  LET r == Confirmed(p, ReadProbe(p)) IN
         /\ r.served # "wild"
         /\ ProbeFine(build.sensors, p, probe[p], r.state, pc', pending)
<1> DEFINE r == Confirmed(p, ReadProbe(p))
           q == probe[p]
           k == known[p]
<1>1. ProbeFine(build.sensors, p, q, k, pc, pending)
  BY DEF ProbeInv
<1>2. pc \notin Past(p) \cup {"setup"}
  BY DEF Past, Probes
<1>3. CASE q.plug = "in" /\ q.scratch = "wild"
  <2>1. ~ q.first /\ ~ k.settled /\ k.candidate = "none" /\ "hub" \in build.sensors
    BY <1>1, <1>2, <1>3 DEF ProbeFine
  <2>2. ReadProbe(p) = "wild" \/ ReadProbe(p) = "invalid"
    BY <1>3 DEF ReadProbe
  <2>3. r.served = "invalid" /\ ~ r.state.settled
    BY <2>1, <2>2 DEF Confirmed, FreshProbe
  <2>4. ProbeFine(build.sensors, p, q, r.state, pc', pending)
    BY <1>3, <2>1, <2>3 DEF ProbeFine
  <2> QED BY <2>3, <2>4
<1>4. CASE ~ (q.plug = "in" /\ q.scratch = "wild")
  <2>1. ReadProbe(p) # "wild"
    BY <1>4 DEF ReadProbe
  <2>2. r.served # "wild"
    BY <2>1 DEF Confirmed
  <2>3. q.plug = "out" \/ (q.plug = "in" /\ q.first) => r.state = FreshProbe
    <3> SUFFICES ASSUME q.plug = "out" \/ (q.plug = "in" /\ q.first)
                 PROVE  r.state = FreshProbe
      OBVIOUS
    <3>1. ReadProbe(p) = "invalid"
      BY <1>1 DEF ReadProbe, ProbeFine
    <3> QED BY <3>1 DEF Confirmed
  <2>4. ProbeFine(build.sensors, p, q, r.state, pc', pending)
    <3> HIDE DEF r
    <3> QED BY <1>1, <1>4, <2>3 DEF ProbeFine
  <2> QED BY <2>2, <2>4
<1> QED BY <1>3, <1>4

LEMMA ProbeReads ==
  ASSUME build' = build, RegType, ProbeTypes, ProbeInv, PathInv,
         NEW p \in Probes, ReadTemperature(p)
  PROVE  ProbeInv'
<1> DEFINE r == Confirmed(p, ReadProbe(p))
<1>1. /\ At(p) /\ probe' = probe /\ pending' = pending
      /\ reg' = [reg EXCEPT ![p] = r.served] /\ known' = [known EXCEPT ![p] = r.state]
  BY DEF ReadTemperature, Loops, bench
<1>2. pc = p /\ p \in {"hub", "amb"}
  BY <1>1 DEF At, Probes
<1>3. pc \in BodySteps
  BY <1>2, EachStepPlaced DEF BodySteps
<1>4. phase = 0 /\ pending /\ p \in build.sensors
  BY <1>2, <1>3, AboutNames DEF PathInv, BodySteps, Taken, Temps
<1>5. "hub" \in build.sensors => Taken("request")
  BY <1>3, <1>4, RequestDue
<1>6. p = "hub" => ("hub" \in build.sensors
                      => pc' \in {"amb", "hubStatus", "ambStatus", "request"})
  BY <1>1, <1>5, HubStays
<1>7. p = "amb" => ("hub" \in build.sensors => pc' \in {"hubStatus", "ambStatus", "request"})
  BY <1>1, <1>5, AmbStays
<1>8. "hub" \in build.sensors => pc' \in Past(p)
  BY <1>2, <1>6, <1>7 DEF Past
<1>9. r.served # "wild" /\ ProbeFine(build.sensors, p, probe[p], r.state, pc', pending)
  BY <1>2, <1>4, <1>8, ReadOfProbe
<1> HIDE DEF r
<1>10. /\ known'[p] = r.state /\ reg'[p] = r.served
       /\ \A q \in Probes : q # p => known'[q] = known[q] /\ reg'[q] = reg[q]
  BY <1>1, CurrentAnalog DEF ProbeTypes, RegType
<1>11. ASSUME NEW q \in Probes, q # p
       PROVE  ProbeFine(build.sensors, q, probe[q], known[q], pc', pending)
  <2>1. ProbeFine(build.sensors, q, probe[q], known[q], pc, pending)
    BY DEF ProbeInv
  <2>2. CASE p = "hub" /\ q = "amb"
    <3>1. pc \notin Past(q) \cup {"setup"}
      BY <1>2, <2>2 DEF Past
    <3>2. pc' \in Past(q) => known[q] = FreshProbe
      <4> SUFFICES ASSUME pc' \in {"hubStatus", "ambStatus", "request"}
                   PROVE  known[q] = FreshProbe
        BY <2>2 DEF Past
      <4>1. CASE "amb" \in build.sensors
        <5>1. Taken("amb")
          BY <1>4, <4>1, AboutNames DEF Taken
        <5>2. At(Body[1])
          BY <1>1, <2>2, BodyPlaces
        <5>3. 1 \in 1 .. 11 /\ 2 \in 2 .. 12
          OBVIOUS
        <5>4. PICK m \in 2 .. 12 : /\ pc' = Body[m]
                                   /\ \A j \in 2 .. 12 : Taken(Body[j]) => m <= j
          BY <5>2, <5>3, StepsOn
        <5>5. Taken(Body[2])
          BY <5>1, BodyPlaces
        <5>6. m = 2
          BY <5>3, <5>4, <5>5
        <5>7. pc' = "amb"
          BY <5>4, <5>6, BodyPlaces
        <5> QED BY <5>7
      <4>2. CASE "amb" \notin build.sensors
        BY <2>1, <2>2, <4>2 DEF ProbeFine
      <4> QED BY <4>1, <4>2
    <3> QED BY <2>1, <3>1, <3>2, FineMoves
  <2>3. CASE p = "amb" /\ q = "hub"
    <3>1. pc \in Past(q)
      BY <1>2, <2>3 DEF Past
    <3>2. CASE "hub" \in build.sensors
      <4>1. pc' \in Past(q)
        BY <1>7, <2>3, <3>2 DEF Past
      <4> QED BY <2>1, <3>1, <4>1, FineMoves
    <3>3. CASE "hub" \notin build.sensors
      <4>1. probe[q].scratch = "reset"
        BY <2>1, <3>3 DEF ProbeFine
      <4> QED BY <2>1, <3>1, <4>1, FineMoves
    <3> QED BY <3>2, <3>3
  <2> QED BY <1>2, <1>11, <2>2, <2>3 DEF Probes
<1>12. \A q \in Probes : ProbeFine(build.sensors, q, probe[q], known'[q], pc', pending)
  BY <1>9, <1>10, <1>11
<1>13. \A q \in Probes : reg'[q] # "wild"
  BY <1>9, <1>10 DEF ProbeInv
<1> QED BY <1>1, <1>12, <1>13 DEF ProbeInv

LEMMA ProbeRequests ==
  ASSUME build' = build, ProbeTypes, ProbeInv, PathInv, Request
  PROVE  ProbeInv'
<1>1. At("request") /\ pending' = TRUE /\ UNCHANGED <<reg, known>>
  BY DEF Request, memory
<1>2. PICK first \in {"true", "wild"} : probe' = [p \in Probes |->
         IF probe[p].plug # "in" THEN probe[p]
         ELSE [plug |-> "in", first |-> FALSE,
               scratch |-> IF probe[p].first THEN first ELSE "true"]]
  BY DEF Request
<1>3. pc = "request" /\ pc \in BodySteps
  BY <1>1, EachStepPlaced DEF At, BodySteps
<1>4. "hub" \in build.sensors
  BY <1>3, AboutNames DEF PathInv, BodySteps, Taken
<1>5. pc' \notin {"hub", "amb", "hubStatus", "ambStatus", "request", "setup"}
  <2>1. 5 \in 5 .. 11 /\ At(Body[5])
    BY <1>1, BodyPlaces
  <2> QED BY <2>1, PassMovesOn
<1>6. ASSUME NEW p \in Probes
      PROVE  ProbeFine(build.sensors, p, probe'[p], known[p], pc', TRUE)
  <2>1. ProbeFine(build.sensors, p, probe[p], known[p], pc, pending)
    BY DEF ProbeInv
  <2>2. pc \in Past(p) /\ pc \notin {"setup"} /\ pc' \notin Past(p)
    BY <1>3, <1>5, NotPast
  <2>3. p \notin build.sensors => known[p] = FreshProbe
    BY <2>1 DEF ProbeFine
  <2>4. CASE probe[p].plug # "in"
    <3>1. probe'[p] = probe[p]
      BY <1>2, <2>4
    <3> QED BY <2>1, <2>2, <2>3, <2>4, <3>1 DEF ProbeFine
  <2>5. CASE probe[p].plug = "in"
    <3> DEFINE s == IF probe[p].first THEN first ELSE "true"
    <3>1. probe'[p] = [plug |-> "in", first |-> FALSE, scratch |-> s]
      BY <1>2, <2>5
    <3>2. probe'[p].plug = "in" /\ probe'[p].first = FALSE /\ probe'[p].scratch = s
      BY <3>1
    <3>3. s = "wild" => known[p] = FreshProbe
      <4>1. s = "wild" => probe[p].first
        OBVIOUS
      <4> QED BY <2>1, <2>2, <2>5, <4>1 DEF ProbeFine
    <3>4. s = "wild" => ~ known[p].settled /\ known[p].candidate = "none"
      BY <3>3 DEF FreshProbe
    <3> HIDE DEF s
    <3> QED BY <1>4, <2>2, <2>3, <3>2, <3>4 DEF ProbeFine
  <2> QED BY <2>4, <2>5
<1>7. \A p \in Probes : reg'[p] # "wild"
  BY <1>1 DEF ProbeInv
<1> QED BY <1>1, <1>6, <1>7 DEF ProbeInv

LEMMA ProbeSetUp == ASSUME ProbeInv, Setup PROVE ProbeInv'
<1>1. /\ pc = "setup" /\ build' = build /\ probe' = probe /\ reg' = Unread
      /\ known' = [p \in Probes |-> FreshProbe] /\ pc' = "firstZero"
  BY DEF Setup, bench
<1>2. ASSUME NEW p \in Probes
      PROVE  ProbeFine(build.sensors, p, probe[p], FreshProbe, pc', pending')
  <2>1. ProbeFine(build.sensors, p, probe[p], known[p], pc, pending)
    BY DEF ProbeInv
  <2>2. ~ FreshProbe.settled /\ FreshProbe.candidate = "none"
    BY DEF FreshProbe
  <2> QED BY <2>1, <2>2 DEF ProbeFine
<1>3. \A p \in Probes : reg'[p] # "wild"
  BY <1>1, CurrentAnalog DEF Unread
<1> QED BY <1>1, <1>2, <1>3 DEF ProbeInv

\* A probe that was pulled counts as out once a pass begins.
LEMMA ProbeTop ==
  ASSUME build' = build, ProbeTypes, ProbeInv, Top
  PROVE  ProbeInv'
<1>1. /\ pc = "top" /\ UNCHANGED <<reg, known, pending>>
      /\ pc' = IF rezeroRequested THEN "zero" ELSE From(1)
      /\ probe' = [p \in Probes |-> IF probe[p].plug = "pulled"
                                    THEN [probe[p] EXCEPT !.plug = "out"] ELSE probe[p]]
  BY DEF Top, memory, sensing
<1>2. ASSUME NEW p \in Probes
      PROVE  ProbeFine(build.sensors, p, probe'[p], known[p], pc', pending)
  <2>1. ProbeFine(build.sensors, p, probe[p], known[p], pc, pending)
    BY DEF ProbeInv
  <2>2. pc \notin Past(p) \cup {"setup"}
    BY <1>1, NotPast
  <2>3. pc' \in Past(p) => known[p] = FreshProbe
    <3>1. CASE rezeroRequested
      BY <1>1, <3>1, NotPast
    <3>2. CASE ~ rezeroRequested
      BY <1>1, <3>2, SkippedIsFresh
    <3> QED BY <3>1, <3>2
  <2>4. ProbeFine(build.sensors, p, probe[p], known[p], pc', pending)
    BY <2>1, <2>2, <2>3, FineMoves
  <2>5. CASE probe[p].plug = "pulled"
    <3>1. probe'[p] = [probe[p] EXCEPT !.plug = "out"]
      BY <1>1, <2>5
    <3>2. probe'[p].plug = "out" /\ probe'[p].scratch = probe[p].scratch
      BY <3>1 DEF ProbeTypes, ProbeType
    <3> QED BY <2>3, <2>4, <3>2 DEF ProbeFine
  <2>6. CASE probe[p].plug # "pulled"
    <3>1. probe'[p] = probe[p]
      BY <1>1, <2>6
    <3> QED BY <2>4, <3>1
  <2> QED BY <2>5, <2>6
<1>3. \A p \in Probes : reg'[p] # "wild"
  BY <1>1 DEF ProbeInv
<1> QED BY <1>1, <1>2, <1>3 DEF ProbeInv

LEMMA ProbePlugs ==
  ASSUME build' = build, ProbeTypes, ProbeInv, Unplug \/ Plug
  PROVE  ProbeInv'
<1>1. UNCHANGED <<reg, known, pending, pc>>
  BY DEF Unplug, Plug, Still, memory
<1>2. "hub" \in Probes /\ ProbeFine(build.sensors, "hub", probe["hub"], known["hub"], pc, pending)
  BY DEF Probes, ProbeInv
<1>3. ProbeFine(build.sensors, "hub", probe'["hub"], known["hub"], pc, pending)
  <2>1. CASE Unplug
    <3>1. probe'["hub"] = [probe["hub"] EXCEPT !.plug = "pulled"]
      BY <1>2, <2>1 DEF Unplug, ProbeTypes
    <3>2. probe'["hub"].plug = "pulled" /\ probe'["hub"].scratch = probe["hub"].scratch
      BY <1>2, <3>1 DEF ProbeTypes, ProbeType
    <3> QED BY <1>2, <3>2 DEF ProbeFine
  <2>2. CASE Plug
    <3>1. probe["hub"].plug = "out"
      BY <2>2 DEF Plug
    <3>2. probe'["hub"] = [plug |-> "in", scratch |-> "reset", first |-> TRUE]
      BY <1>2, <2>2 DEF Plug, ProbeTypes
    <3>3. probe'["hub"].scratch = "reset" /\ probe'["hub"].plug = "in"
      BY <3>2
    <3> QED BY <1>2, <3>1, <3>3 DEF ProbeFine
  <2> QED BY <2>1, <2>2
<1>4. \A p \in Probes : p # "hub" => probe'[p] = probe[p]
  BY DEF Unplug, Plug, ProbeTypes
<1>5. ASSUME NEW p \in Probes
      PROVE  ProbeFine(build.sensors, p, probe'[p], known[p], pc, pending)
  BY <1>3, <1>4 DEF ProbeInv
<1>6. \A p \in Probes : reg'[p] # "wild"
  BY <1>1 DEF ProbeInv
<1> QED BY <1>1, <1>5, <1>6 DEF ProbeInv

LEMMA ProbeLoop ==
  ASSUME build \in Settings, FwType, PathInv, ProbeInv, LoopStep
  PROVE  ProbeInv'
<1>1. build' = build /\ RegType /\ WindowInv /\ ProbeTypes
  BY LoopKeepsCoils DEF FwType
<1>2. CASE Begin
  BY <1>1, <1>2, ProbeOutside DEF Begin, bench, memory, sensing, Outside
<1>3. CASE CheckZero
  <2>1. UNCHANGED <<probe, known, pending, reg>> /\ pc \in {"firstZero", "zero"}
    BY <1>3 DEF CheckZero, Loops, bench
  <2>2. pc' \in Outside \/ pc' = From(1)
    BY <1>3 DEF CheckZero, Zeroing, Outside
  <2> QED BY <1>1, <2>1, <2>2, ProbeOutside
<1>4. CASE SampleZero
  <2>1. UNCHANGED <<probe, known, pending, reg>> /\ pc \in {"firstSample", "sample"}
    BY <1>4 DEF SampleZero, Loops, bench
  <2>2. pc' \in Outside \/ pc' = From(1)
    BY <1>4 DEF SampleZero, Zeroing, Outside
  <2> QED BY <1>1, <2>1, <2>2, ProbeOutside
<1>5. CASE Top
  BY <1>1, <1>5, ProbeTop
<1>6. ASSUME NEW p \in Probes, ReadTemperature(p) PROVE ProbeInv'
  BY <1>1, <1>6, ProbeReads
<1>7. CASE SetStatus("hub", "hubStatus") \/ SetStatus("amb", "ambStatus")
  <2>1. UNCHANGED <<probe, known, pending, reg>> /\ (At("hubStatus") \/ At("ambStatus"))
    BY <1>7 DEF SetStatus, Loops, bench, sensing
  <2> QED BY <1>1, <2>1, ProbeStatus
<1>8. CASE Request
  BY <1>1, <1>8, ProbeRequests
<1>9. ASSUME NEW i \in 6 .. 11, At(Body[i]), UNCHANGED <<probe, known, pending>>,
             \A p \in Probes : reg'[p] = reg[p]
      PROVE  ProbeInv'
  BY <1>1, <1>9, ProbeBeyond
<1>10. /\ 6 \in 6 .. 11 /\ 7 \in 6 .. 11 /\ 8 \in 6 .. 11 /\ 9 \in 6 .. 11
       /\ 10 \in 6 .. 11 /\ 11 \in 6 .. 11
  OBVIOUS
<1>11. CASE ReadCurrent
  <2>1. At(Body[6]) /\ UNCHANGED <<probe, known, pending>>
    BY <1>11, BodyPlaces DEF ReadCurrent, Loops, bench
  <2>2. \A p \in Analog \ {"current"} : reg'[p] = reg[p]
    BY <1>1, <1>11, CurrentRead
  <2>3. \A p \in Probes : reg'[p] = reg[p]
    BY <2>2, CurrentAnalog DEF Probes
  <2> QED BY <1>9, <1>10, <2>1, <2>3
<1>12. CASE SetStatus("current", "currentStatus")
  <2>1. At(Body[7]) /\ UNCHANGED <<probe, known, pending, reg>>
    BY <1>12, BodyPlaces DEF SetStatus, Loops, bench, sensing
  <2> QED BY <1>9, <1>10, <2>1
<1>13. CASE ReadVibration
  <2>1. At(Body[8]) /\ UNCHANGED <<probe, known, pending>>
    BY <1>13, BodyPlaces DEF ReadVibration, Loops, bench, sensing
  <2>2. \A p \in Probes : reg'[p] = reg[p]
    BY <1>1, <1>13, CurrentAnalog DEF ReadVibration, RegType, Probes
  <2> QED BY <1>9, <1>10, <2>1, <2>2
<1>14. CASE SetStatus("vib", "vibStatus")
  <2>1. At(Body[9]) /\ UNCHANGED <<probe, known, pending, reg>>
    BY <1>14, BodyPlaces DEF SetStatus, Loops, bench, sensing
  <2> QED BY <1>9, <1>10, <2>1
<1>15. CASE ReadSupply
  <2>1. At(Body[10]) /\ UNCHANGED <<probe, known, pending>>
    BY <1>15, BodyPlaces DEF ReadSupply, Loops, bench
  <2>2. \A p \in Probes : reg'[p] = reg[p]
    BY <1>1, <1>15, CurrentAnalog DEF ReadSupply, RegType, Probes
  <2> QED BY <1>9, <1>10, <2>1, <2>2
<1>16. CASE SetStatus("supply", "supplyStatus")
  <2>1. At(Body[11]) /\ UNCHANGED <<probe, known, pending, reg>>
    BY <1>16, BodyPlaces DEF SetStatus, Loops, bench, sensing
  <2> QED BY <1>9, <1>10, <2>1
<1>17. CASE ReadDigitals
  <2>1. UNCHANGED <<probe, known, pending, reg>> /\ pc = "digital" /\ pc' = "top"
    BY <1>17 DEF ReadDigitals, Loops, bench, sensing
  <2> QED BY <1>1, <2>1, ProbeOutside DEF Outside
<1> QED BY <1>2, <1>3, <1>4, <1>5, <1>6, <1>7, <1>8, <1>11, <1>12, <1>13, <1>14, <1>15,
           <1>16, <1>17 DEF LoopStep

LEMMA ProbeStays ==
  ASSUME build \in Settings, FwType, PathInv, ProbeInv, [Next]_vars, build' = build
  PROVE  ProbeInv'
<1>1. ProbeTypes
  BY DEF FwType
<1>2. CASE Reset
  <2>1. UNCHANGED <<probe, known, pending, reg>> /\ pc' = "setup"
    BY <1>2 DEF Reset, bench, sensing, memory
  <2>2. ASSUME NEW p \in Probes
        PROVE  ProbeFine(build.sensors, p, probe[p], known[p], "setup", pending)
    <3>1. ProbeFine(build.sensors, p, probe[p], known[p], pc, pending)
      BY DEF ProbeInv
    <3> QED BY <3>1, NotPast, FineMoves
  <2> QED BY <2>1, <2>2 DEF ProbeInv
<1>3. CASE Unplug \/ Plug
  BY <1>1, <1>3, ProbePlugs
<1>4. CASE Break \/ TurnSupply \/ Switch \/ Tick \/ Bridge \/ (UNCHANGED vars)
           \/ WritePin \/ StampRelay \/ Rezero
           \/ \E r \in Relays, on \in BOOLEAN : WriteCoil(r, on)
  <2>1. UNCHANGED <<pc, probe, known, pending, reg>>
    <3>1. CASE Break \/ TurnSupply \/ Switch
      BY <3>1 DEF Break, TurnSupply, Switch, Still, memory
    <3>2. CASE Bridge \/ UNCHANGED vars
      BY <3>2, BridgeKeeps DEF memory, sensing, bench
    <3>3. CASE Tick
      BY <3>3 DEF Tick, memory, sensing, bench
    <3>4. CASE WritePin \/ StampRelay \/ Rezero
               \/ \E r \in Relays, on \in BOOLEAN : WriteCoil(r, on)
      BY <3>4 DEF WritePin, StampRelay, Rezero, WriteCoil, Serves, memory, bench
    <3> QED BY <1>4, <3>1, <3>2, <3>3, <3>4
  <2> QED BY <2>1 DEF ProbeInv
<1>5. CASE Setup
  BY <1>5, ProbeSetUp
<1>6. CASE LoopStep
  BY <1>6, ProbeLoop
<1> QED BY <1>2, <1>3, <1>4, <1>5, <1>6, EveryStep DEF BenchStep

-----------------------------------------------------------------------------
(* What is published.                                                       *)

RigInv == /\ build \in Settings /\ FwType /\ CoilInv /\ PathInv
          /\ ProbeInv /\ WordsInv /\ PubInv

LEMMA RegistersServed == ASSUME RegType, ProbeInv PROVE RegsServed
BY DEF RegType, ProbeInv, RegsServed, Served

LEMMA RigStarts == Init => RigInv
<1> SUFFICES ASSUME Init PROVE RigInv
  OBVIOUS
<1>1. build \in Settings /\ FwType /\ CoilInv
  BY InitTypes, CoilInit
<1>2. PathInv
  <2>1. pc = "setup" /\ status = {}
    BY DEF Init, FwInit
  <2> QED BY <2>1, OutsideBody DEF PathInv, BodySteps, Outside
<1>3. ProbeInv
  <2>1. /\ probe = [p \in Probes |-> [plug |-> "in", scratch |-> "reset", first |-> TRUE]]
        /\ known = [p \in Probes |-> FreshProbe] /\ pc = "setup" /\ reg = Unread
    BY DEF Init, FwInit
  <2>2. ASSUME NEW p \in Probes
        PROVE  ProbeFine(build.sensors, p, probe[p], known[p], pc, pending)
    <3>1. probe[p].scratch = "reset" /\ known[p] = FreshProbe
      BY <2>1
    <3> QED BY <3>1 DEF ProbeFine
  <2>3. \A p \in Probes : reg[p] # "wild"
    BY <2>1, CurrentAnalog DEF Unread
  <2> QED BY <2>2, <2>3 DEF ProbeInv
<1>4. WordsInv
  BY EmptyWords DEF Init, WordsInv
<1>5. PubInv
  <2>1. \A n \in Nodes : pub[n].value \in {"unread", "off"} /\ pub[n].quality = "Good"
    BY DEF Init, AsBuilt, OnOff
  <2>2. \A p \in Analog : pub[p].value = "unread"
    BY DEF Init, AsBuilt, Nodes
  <2>3. \A n \in Nodes : pub[n].value = "none" <=> pub[n].quality \notin {"Good", "Uncertain"}
    BY <2>1
  <2>4. \A p \in Analog : pub[p].value # "invalid" /\ Served(p, pub[p].value)
    BY <2>2 DEF Served
  <2> QED BY <2>3, <2>4 DEF PubInv
<1> QED BY <1>1, <1>2, <1>3, <1>4, <1>5 DEF RigInv

LEMMA RigStays == RigInv /\ [Next]_vars => RigInv'
<1> SUFFICES ASSUME RigInv, [Next]_vars PROVE RigInv'
  OBVIOUS
<1>1. /\ build \in Settings /\ FwType /\ CoilInv /\ PathInv
      /\ ProbeInv /\ WordsInv /\ PubInv
  BY DEF RigInv
<1>2. build' = build
  BY <1>1, BuildFixed
<1>3. RegsServed
  BY <1>1, RegistersServed DEF FwType
<1>4. FwType' /\ CoilInv' /\ PathInv'
  BY <1>1, TypesStay, CoilStays, PathStays
<1>5. ProbeInv'
  BY <1>1, <1>2, ProbeStays
<1>6. WordsInv' /\ PubInv'
  BY <1>1, <1>2, <1>3, WordsStay, PubStays
<1> QED BY <1>1, <1>2, <1>4, <1>5, <1>6 DEF RigInv

(* main.cpp "no average ever spans a fault": a published current is the mean of scans since the last that failed,    *)
(* although the window is emptied by its count alone and the words of a reply are copied while the loop goes on.     *)
THEOREM AveragesSpanNoFault == Spec => []NoAverageSpansAFault
<1>1. RigInv => NoAverageSpansAFault
  <2>1. PubInv => NoAverageSpansAFault
    <3>1. "current" \in Analog
      BY CurrentAnalog
    <3> QED BY <3>1 DEF PubInv, Served, NoAverageSpansAFault
  <2> QED BY <2>1 DEF RigInv
<1> QED BY <1>1, RigStarts, RigStays, PTL DEF Spec

(* bridge.py: a number is published only for a reading, never a sentinel, whatever the loop has rewritten between    *)
(* the words of a reply, and never the first conversion of a probe that was put back.                                *)
THEOREM ReadingsOnly == Spec => []OnlyReadings
<1>1. RigInv => OnlyReadings
  <2> SUFFICES ASSUME RigInv PROVE OnlyReadings
    OBVIOUS
  <2>1. FwType /\ CoilInv /\ WordsInv /\ PubInv /\ build \in Settings
    BY DEF RigInv
  <2>2. TypeOK
    <3>1. moves \in 0 .. build.moves /\ status \subseteq Bits /\ reg \in [Analog -> Reading]
      BY <2>1 DEF FwType, RegType
    <3>2. /\ acs.next \in 1 .. Scans /\ acs.count \in 0 .. Scans
          /\ acs.window \in [1 .. Scans -> {"old", "forward", "back"}]
      BY <2>1 DEF FwType, WindowInv, AcsType
    <3>3. /\ \A p \in Probes : known[p].settled => known[p].candidate = "none"
          /\ phase \in 0 .. ScansPerTemp - 1
      BY <2>1 DEF FwType, ProbeTypes, KnownShape
    <3>4. task.op \in {"idle", "pin", "stamp"} /\ (~ build.relays => task = Idle)
      BY <2>1 DEF FwType, CoilInv, CoilType, TaskType
    <3>5. /\ poll \in {"idle", "registers", "bits", "publish"}
          /\ DOMAIN words \subseteq Analog \cup {"status"}
          /\ \A n \in Nodes : pub[n].value = "none" <=> pub[n].quality \notin {"Good", "Uncertain"}
      BY <2>1 DEF WordsInv, PubInv
    <3> QED BY <2>1, <3>1, <3>2, <3>3, <3>4, <3>5 DEF TypeOK
  <2>3. \A p \in Analog : pub[p].value # "invalid"
    BY <2>1 DEF PubInv
  <2>4. \A p \in Probes : pub[p].value # "wild"
    BY <2>1, CurrentAnalog DEF PubInv, Served
  <2> QED BY <2>2, <2>3, <2>4 DEF OnlyReadings
<1> QED BY <1>1, RigStarts, RigStays, PTL DEF Spec
=============================================================================
