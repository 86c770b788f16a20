----------------------------- MODULE Compression -----------------------------
(***************************************************************************)
(* collector/compression.py: exception reporting, then the swinging door,    *)
(* for one tag of the live path.  What is sent to the archive is held against *)
(* the raw series, all of which the model remembers.  Numbers are exact here   *)
(* (the code allows 1e-12 for its floats): slopes are compared by             *)
(* cross-multiplying.  The door's two slopes are not kept: its timestamps      *)
(* increase, so they are those of the open segment and of the witnesses up to  *)
(* the newest sample.                                                        *)
(***************************************************************************)
EXTENDS Integers, FiniteSetsExt, SequencesExt

CONSTANTS
  Settings,    \* configurations, and what a behaviour contains (Setting)
  MaxTime,     \* max_time, in ticks
  Off          \* a deadband that is not configured

Null == -1     \* the value of a sample without a number
None == [ts |-> 0, v |-> Null, q |-> "none"]

\* ExcDev and CompDev; the values, qualities and steps of time that occur (a
\* step below 1 is a timestamp that does not advance); bound: samples received.
Setting == [exc : Nat \cup {Off}, comp : Nat \cup {Off}, values : SUBSET (Nat \cup {Null}),
            qualities : SUBSET {"Good", "Uncertain"}, steps : SUBSET Int, size : Nat]

ASSUME SettingAssumption == Settings \subseteq Setting
ASSUME BoundAssumption == MaxTime \in Nat \ {0}

VARIABLES
  setting,
  raw,         \* every sample compressed, in order of arrival
  filter,      \* ExceptionFilter
  door,        \* SwingingDoor
  archive,     \* what was admitted to the pipeline, in order
  flushed

vars == <<setting, raw, filter, door, archive, flushed>>

Distance(a, b) == IF a > b THEN a - b ELSE b - a
Numeric(s) == s # None /\ s.v # Null

\* Mutants of Forced: a quality change is not special; nor is a long silence.
Forced_NotQuality(s, previous, since) == s.v = Null \/ s.ts <= previous.ts \/ s.ts - since.ts >= MaxTime
Forced_NotTime(s, previous, since) == s.v = Null \/ s.ts <= previous.ts \/ s.q # previous.q

\* The four exceptions to both deadbands.
Forced(s, previous, since) ==
  \/ s.q # previous.q
  \/ s.ts <= previous.ts
  \/ s.v = Null
  \/ s.ts - since.ts >= MaxTime

-----------------------------------------------------------------------------
(* Stage one.                                                               *)

Quiet(f, s) == /\ setting.exc # Off /\ Numeric(s) /\ Numeric(f.reported)
               /\ Distance(s.v, f.reported.v) <= setting.exc

\* A sample that breaks out is reported after the one held before it.
Reports(f, s) == (IF f.held # None /\ f.held.ts < s.ts THEN <<f.held>> ELSE <<>>) \o <<s>>

FilterPush(f, s) ==
  IF f.reported # None /\ ~ Forced(s, f.previous, f.reported) /\ Quiet(f, s)
  THEN [filter |-> [f EXCEPT !.held = s, !.previous = s], out |-> <<>>]
  ELSE [filter |-> [reported |-> s, held |-> None, previous |-> s], out |-> Reports(f, s)]

-----------------------------------------------------------------------------
(* Stage two.                                                               *)

Between(d, from, to) == {w \in d.witness : from.ts < w.ts /\ w.ts < to.ts}

\* p is within CompDev of the line from a to b (a.ts < b.ts).
Near(p, a, b, dev) ==
  /\ Numeric(p)
  /\ Distance((p.v - a.v) * (b.ts - a.ts), (b.v - a.v) * (p.ts - a.ts)) <= dev * (b.ts - a.ts)

WithinBound(d, target, discarded) ==
  /\ Numeric(d.anchor) /\ Numeric(target) /\ target.ts > d.anchor.ts
  /\ \A p \in discarded \cup Between(d, d.anchor, target) : Near(p, d.anchor, target, setting.comp)

\* No line from the anchor is within CompDev of every point up to the last.
Closed(d) ==
  LET a      == d.anchor
      points == {p \in Range(d.segment) \cup Between(d, a, Last(d.segment)) : Numeric(p)}
  IN \E p, q \in points : (p.v - a.v - setting.comp) * (q.ts - a.ts)
                            > (q.v - a.v + setting.comp) * (p.ts - a.ts)

\* Mutant of Choose: the textbook's, the last point that fitted the cone.
Choose_Textbook(d) == IF Len(d.segment) = 1 THEN 1 ELSE Len(d.segment) - 1

\* _choose: the latest point before the last to which the line holds, or the first.
Choose(d) ==
  LET fits == {i \in 2 .. Len(d.segment) - 1 :
                 WithinBound(d, d.segment[i], Range(SubSeq(d.segment, 1, i - 1)))}
  IN IF fits = {} THEN 1 ELSE Max(fits)

Reset(d, anchor, rest) ==
  [d EXCEPT !.anchor = anchor, !.segment = rest, !.witness = {w \in @ : w.ts > anchor.ts}]

Rest(d, i) == SubSeq(d.segment, i + 1, Len(d.segment))

\* A round of _drain_segment: the door, and what has been archived so far.
Round(d, out) ==
  IF d.segment = <<>> THEN [door |-> d, out |-> out]
  ELSE IF Len(d.segment) = 1 \/ WithinBound(d, Last(d.segment), Range(Front(d.segment)))
  THEN [door |-> [d EXCEPT !.anchor = Last(d.segment), !.segment = <<>>],
        out |-> Append(out, Last(d.segment))]
  ELSE LET i == Choose(d)
       IN [door |-> Reset(d, d.segment[i], Rest(d, i)), out |-> Append(out, d.segment[i])]

\* _drain_segment: every round shortens the segment.
Drain(d) ==
  LET after[n \in 0 .. Len(d.segment)] ==
        IF n = 0 THEN [door |-> d, out |-> <<>>] ELSE Round(after[n - 1].door, after[n - 1].out)
  IN after[Len(d.segment)]

\* A sample that the door passes on at once, after what the segment held.
Pass(d, s) ==
  LET drained == Drain(d)
  IN [door |-> Reset(drained.door, s, <<>>), out |-> Append(drained.out, s)]

Hold(d, s) ==
  LET longer == [d EXCEPT !.segment = Append(@, s)]
      i      == Choose(longer)
  IN IF ~ Closed(longer) THEN [door |-> longer, out |-> <<>>]
     ELSE [door |-> Reset(longer, longer.segment[i], Rest(longer, i)), out |-> <<longer.segment[i]>>]

DoorPush(d, s) ==
  LET seen == [d EXCEPT !.previous = s] IN
  IF d.anchor = None \/ Forced(s, d.previous, d.anchor) \/ setting.comp = Off \/ ~ Numeric(d.anchor)
  THEN Pass(seen, s) ELSE Hold(seen, s)

-----------------------------------------------------------------------------
(* TwoStageCompressor, and the pipeline that calls it.                        *)

\* What comes of a sample that follows what r came of.
Then(r, s) == LET next == DoorPush(r.door, s) IN [door |-> next.door, out |-> r.out \o next.out]

\* What stage one reports, at most two samples.
DoorPushAll(d, samples) ==
  LET before == [door |-> d, out |-> <<>>]
  IN IF samples = <<>> THEN before
     ELSE IF Len(samples) = 1 THEN Then(before, samples[1])
     ELSE Then(Then(before, samples[1]), samples[2])

\* push.  The pipeline has absorbed a sample with the last one's timestamp.
Receive(s) ==
  /\ ~ flushed /\ Len(raw) < setting.size /\ (raw # <<>> => s.ts # Last(raw).ts)
  /\ raw' = Append(raw, s)
  /\ LET stage1 == FilterPush(filter, s)
         stage2 == DoorPushAll([door EXCEPT !.witness = @ \cup {s}], stage1.out)
     IN /\ filter' = stage1.filter
        /\ door' = stage2.door
        /\ archive' = archive \o stage2.out
  /\ UNCHANGED <<setting, flushed>>

Held(f) == IF f.held = None THEN <<>> ELSE <<f.held>>

\* flush, at shutdown.
Flush ==
  /\ ~ flushed /\ flushed' = TRUE
  /\ LET pushed == DoorPushAll(door, Held(filter))
         last   == Drain(pushed.door)
     IN door' = last.door /\ archive' = archive \o pushed.out \o last.out
  /\ filter' = [filter EXCEPT !.held = None]
  /\ UNCHANGED <<setting, raw>>

Init ==
  /\ setting \in Settings
  /\ raw = <<>> /\ archive = <<>> /\ flushed = FALSE
  /\ filter = [reported |-> None, held |-> None, previous |-> None]
  /\ door = [anchor |-> None, segment |-> <<>>, witness |-> {}, previous |-> None]

Source ==
  LET now == IF raw = <<>> THEN 1 ELSE Max({x.ts : x \in Range(raw)}) IN
  \E step \in setting.steps, v \in setting.values, q \in setting.qualities :
    now + step >= 1 /\ Receive([ts |-> now + step, v |-> v, q |-> q])

Next == Source \/ Flush
Spec == Init /\ [][Next]_vars

-----------------------------------------------------------------------------
TypeOK ==
  /\ setting \in Settings /\ Len(raw) <= setting.size
  /\ Range(archive) \subseteq Range(raw)
  /\ {filter.reported, filter.held, filter.previous, door.anchor} \subseteq Range(raw) \cup {None}
  /\ door.witness \subseteq Range(raw)
  /\ \A i \in DOMAIN door.segment : i > 1 => door.segment[i - 1].ts < door.segment[i].ts
  /\ filter.held # None => filter.held = filter.previous /\ filter.held.ts > filter.reported.ts

Advancing == \A step \in setting.steps : step > 0
Pairs     == 1 .. Len(archive) - 1

(* compression.py:38 "a sample inside the deadband is one whose value can be reconstructed from its neighbours to       *)
(* within CompDev", against the raw series, with stage one in front and segments closed in whichever way.             *)
ReconstructsWithinCompDev ==
  (Advancing /\ setting.comp # Off) =>
    \A i \in Pairs : LET a == archive[i] b == archive[i + 1] IN
      \A w \in Range(raw) : a.ts < w.ts /\ w.ts < b.ts /\ Numeric(a) /\ Numeric(b)
                              => Near(w, a, b, setting.comp)

(* compression.py:17-24: a change of quality, or a sample without a number, goes to the archive with the call that     *)
(* brings it, whatever the deadbands hold back, also when timestamps go backwards around it; and a clean stop loses   *)
(* neither end of the series: not the sample that stage one holds, nor the open segment.                               *)
MustKeep ==
  /\ \A i \in DOMAIN raw :
       raw[i].v = Null \/ (i > 1 /\ raw[i].q # raw[i - 1].q) => raw[i] \in Range(archive)
  /\ flushed /\ raw # <<>> /\ Advancing => archive[1] = raw[1] /\ Last(archive) = Last(raw)

(* compression.py:28: a steady tag keeps producing rows, at most max_time apart, unless the source itself was silent;   *)
(* and nothing is archived twice or out of order, even when one breakout drains a segment in parts.  (And every       *)
(* variable keeps its type.)                                                                                          *)
NoLongGap ==
  TypeOK /\ (Advancing => \A i \in Pairs :
    /\ archive[i].ts < archive[i + 1].ts
    /\ \A w \in Range(raw) :
         archive[i].ts < w.ts /\ w.ts < archive[i + 1].ts => w.ts - archive[i].ts < MaxTime)

-----------------------------------------------------------------------------
(* What the documentation says and the code does not do: no run checks it; the README says on which instance TLC      *)
(* refutes it.                                                                                                        *)

(* compression.py:41 "the COMPRESSOR forces a repeated timestamp through": also one that goes back, as the pipeline     *)
(* lets through.                                                                                                     *)
LateKept ==
  \A i \in DOMAIN raw : i > 1 /\ raw[i].ts < raw[i - 1].ts => raw[i] \in Range(archive)
=============================================================================
