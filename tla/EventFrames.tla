----------------------------- MODULE EventFrames -----------------------------
(***************************************************************************)
(* Event frames: the engine service re-runs a batch state machine           *)
(* (engine/events.py, detect) over a window of the archive that moves with   *)
(* time, and stores what it finds (store, engine/service.py run_events).    *)
(* One template on one element, with its start trigger on one attribute and *)
(* its end trigger on another; other attributes of the template report in   *)
(* every scan.  Milestones follow the same debouncer as the end and are     *)
(* left out.                                                               *)
(*                                                                         *)
(* Time is counted in scans.  All of a scan's samples share their source    *)
(* timestamp, and the archive receives whole scans, in order, possibly late. *)
(* A report is what a trigger makes of a sample: satisfied, not satisfied,  *)
(* not Good, or no sample of that attribute in the scan.                   *)
(***************************************************************************)
EXTENDS Integers, SequencesExt

CONSTANTS
  StartReports, EndReports,    \* reports the two attributes can make
  StartDebounce, EndDebounce,  \* Trigger.debounce_s
  MaxDuration,                 \* EventTemplate.max_duration_s
  Margin,                      \* run_events: re-read before the last pass
  Back,                        \* run_events: re-read before an open frame
  Orders,                      \* iteration orders of the set `needed'
  Torn,                        \* a pass may read the newest scan in part
  Horizon,                     \* bound: scans
  MaxLag,                      \* bound: scans behind that the archive can be when time passes
  MaxOdd                       \* bound: scans without a Good start report

Reports    == {"yes", "no", "bad", "none"}
Attributes == {"start", "end", "other"}

ASSUME ReportsAssumption  == StartReports \subseteq Reports /\ EndReports \subseteq Reports
ASSUME DebounceAssumption == StartDebounce \in Nat /\ EndDebounce \in Nat
ASSUME OrdersAssumption   ==
  \A ord \in Orders : /\ ord \in Seq(Attributes) /\ IsInjective(ord)
                      /\ {"start", "end"} \subseteq Range(ord)
ASSUME WindowAssumption   == MaxDuration \in Nat \ {0} /\ Margin \in Nat /\ Back \in Nat
ASSUME TornAssumption     == Torn \in BOOLEAN
ASSUME BoundAssumption    == {Horizon, MaxLag, MaxOdd} \subseteq Nat

VARIABLES
  now,       \* the present
  hist,      \* the archive: the scans 1 .. Len(hist)
  frames,    \* table event_frame
  ran,       \* Engine._events_ran, 0 before the first pass
  order,     \* how this process iterates over a scan's attributes
  read       \* history: the scans a complete last pass has read, else 0;
             \* -1 once a pass has read a scan in part

vars == <<now, hist, frames, ran, order, read>>

Scan  == [start : StartReports, end : EndReports]
Frame == [start : Nat, end : Nat, status : {"open", "closed", "aborted"}]

TypeOK ==
  /\ now \in 0 .. Horizon
  /\ hist \in Seq(Scan) /\ Len(hist) <= now
  /\ \A f \in frames : f \in Frame /\ (f.end = 0 <=> f.status = "open")
                                   /\ (f.end # 0 => f.start < f.end)
  /\ ran \in 0 .. now
  /\ order \in Orders
  /\ read \in -1 .. Len(hist)

-----------------------------------------------------------------------------
(* _Debouncer.  `since' is _true_since with 0 for None.                     *)

Watching(edge) == [since |-> 0, seenFalse |-> ~ edge, fired |-> FALSE]

\* Mutant of Feed: any sample that is not satisfied counts as seen false.
Feed_BadIsFalse(d, ts, report, debounce) ==
  IF d.fired THEN d
  ELSE IF report # "yes"
  THEN [d EXCEPT !.since = 0, !.seenFalse = @ \/ report \in {"no", "bad"}]
  ELSE IF ~ d.seenFalse THEN d
  ELSE LET began == IF d.since = 0 THEN ts ELSE d.since IN
       [d EXCEPT !.since = began, !.fired = ts - began >= debounce]

\* feed: it fires when the condition has held for the debounce, and then says
\* since when.
Feed(d, ts, report, debounce) ==
  IF d.fired THEN d
  ELSE IF report # "yes"
  THEN [d EXCEPT !.since = 0, !.seenFalse = @ \/ report = "no"]
  ELSE IF ~ d.seenFalse THEN d
  ELSE LET began == IF d.since = 0 THEN ts ELSE d.since IN
       [d EXCEPT !.since = began, !.fired = ts - began >= debounce]

Fires(d, e) == ~ d.fired /\ e.fired

-----------------------------------------------------------------------------
(* detect                                                                   *)

\* The attribute has no sample in the scan.
Silent(h, ts, a) == (a = "start" /\ h[ts].start = "none") \/ (a = "end" /\ h[ts].end = "none")

Looking == [latest  |-> [start |-> "none", end |-> "none"],
            current |-> 0,
            starting |-> Watching(TRUE), ending |-> Watching(FALSE),
            found   |-> <<>>]

\* current = 0 stands for no frame.
Closing(st, end, status) ==
  [st EXCEPT !.found = Append(@, [start |-> st.current, end |-> end, status |-> status]),
             !.current = 0,
             !.starting = Watching(TRUE)]

\* A frame that is open at ts: its end, then its age.
WhileOpen(st, ts) ==
  LET e == Feed(st.ending, ts, st.latest.end, EndDebounce) IN
  IF Fires(st.ending, e) /\ e.since > st.current
  THEN Closing([st EXCEPT !.ending = e], e.since, "closed")
  ELSE IF ts - st.current > MaxDuration
  THEN Closing([st EXCEPT !.ending = e], ts, "aborted")
  ELSE [st EXCEPT !.ending = e]

\* What the next sample makes of it: ts is its scan, a its attribute.
Detecting(h, st0, ts, a) ==
  LET st == CASE a = "start" -> [st0 EXCEPT !.latest.start = h[ts].start]
              [] a = "end"   -> [st0 EXCEPT !.latest.end = h[ts].end]
              [] OTHER       -> st0
      s  == Feed(st.starting, ts, st.latest.start, StartDebounce)
  IN IF st.current # 0 THEN WhileOpen(st, ts)
     ELSE IF Fires(st.starting, s)
     THEN WhileOpen([st EXCEPT !.starting = s, !.current = s.since,
                               !.ending = Watching(FALSE)], ts)
     ELSE [st EXCEPT !.starting = s]

\* The samples of one scan, in the order `ord'.
Within(h, st, ts, ord) ==
  LET after[i \in 0 .. Len(ord)] ==
        IF i = 0 THEN st
        ELSE IF Silent(h, ts, ord[i]) THEN after[i - 1]
        ELSE Detecting(h, after[i - 1], ts, ord[i])
  IN after[Len(ord)]

\* The frames of a window, in order; the last may still be open.
Detect(h, since, until, ord) ==
  LET last == IF until > Len(h) THEN Len(h) ELSE until
      upTo[t \in 0 .. last] ==
        IF t = 0 \/ t < since THEN Looking ELSE Within(h, upTo[t - 1], t, ord)
      st == upTo[last]
  IN IF st.current = 0 THEN st.found
     ELSE Append(st.found, [start |-> st.current, end |-> 0, status |-> "open"])

-----------------------------------------------------------------------------
(* store, and the index that admits one open frame                         *)

Admits(F, f) == f.end # 0 \/ \A g \in F : g.end # 0 \/ g.start = f.start

\* A frame found by its start is updated, else inserted.
Stored(F, f) == {g \in F : g.start # f.start} \cup {f}

-----------------------------------------------------------------------------
(* run_events                                                              *)

\* A frame that began before this is out of every window's reach.
Longest == now - MaxDuration - Margin

\* Mutant of GivenUp: without the margin.
GivenUp_Early(F) ==
  {IF f.end = 0 /\ f.start < now - MaxDuration
   THEN [f EXCEPT !.end = f.start + MaxDuration, !.status = "aborted"]
   ELSE f : f \in F}

\* The UPDATE that gives up frames no window will reach again.
GivenUp(F) ==
  {IF f.end = 0 /\ f.start < Longest
   THEN [f EXCEPT !.end = f.start + MaxDuration, !.status = "aborted"]
   ELSE f : f \in F}

\* Mutant of Since: an open frame does not extend the window.
Since_NoOpen(F) ==
  IF ran = 0 \/ Longest > ran - Margin THEN Longest ELSE ran - Margin

\* Where the window begins: one longest frame ago on the first pass; later a
\* margin before the last pass, or a little before a frame that is open.
Since(F) ==
  LET open == {f.start : f \in {g \in F : g.end = 0 /\ g.start >= Longest}}
      recent == IF Longest > ran - Margin THEN Longest ELSE ran - Margin
  IN IF ran = 0 THEN Longest
     ELSE IF open # {} /\ Min(open) - Back < recent THEN Min(open) - Back
     ELSE recent

\* What the queries of one pass, one per attribute, find.  The samples of the
\* newest scan may be written between two of them.
Found ==
  {hist} \cup (IF Torn /\ hist # <<>>
              THEN {[hist EXCEPT ![Len(hist)].start = "none"],
                    [hist EXCEPT ![Len(hist)].end = "none"]}
              ELSE {})

\* A pass stores its frames one transaction at a time.  It ends early when a
\* transaction is refused or the archive goes away; the next pass then starts
\* from where the last complete one ended.
Pass ==
  /\ now > 0
  /\ \E h \in Found :
       LET kept  == GivenUp(frames)
           fs    == Detect(h, Since(kept), now, order)
           after[n \in 0 .. Len(fs)] == IF n = 0 THEN kept ELSE Stored(after[n - 1], fs[n])
       IN \E n \in 0 .. Len(fs) :
            /\ \A i \in 1 .. n : Admits(after[i - 1], fs[i])
            /\ frames' = after[n]
            /\ ran' = IF n = Len(fs) THEN now ELSE ran
            /\ read' = IF read = -1 \/ h # hist THEN -1
                       ELSE IF n = Len(fs) THEN Len(hist)
                       ELSE 0
  /\ UNCHANGED <<now, hist, order>>

\* The engine is restarted; iteration orders differ between processes.
Restart ==
  /\ ran' = 0
  /\ order' \in Orders
  /\ UNCHANGED <<now, hist, frames, read>>

\* Time passes, the archive at most MaxLag + 1 scans behind ...
Tick ==
  /\ now < Horizon /\ now - Len(hist) <= MaxLag
  /\ now' = now + 1
  /\ UNCHANGED <<hist, frames, ran, order, read>>

\* ... and the collector delivers the next scan.
Record ==
  /\ Len(hist) < now
  /\ \E s \in Scan : hist' = Append(hist, s)
  /\ Cardinality({u \in DOMAIN hist' : hist'[u].start \in {"bad", "none"}}) <= MaxOdd
  /\ UNCHANGED <<now, frames, ran, order, read>>

Init ==
  /\ now = 0
  /\ hist = <<>>
  /\ frames = {}
  /\ ran = 0
  /\ order \in Orders
  /\ read = 0

Next == Pass \/ Restart \/ Tick \/ Record

Spec == Init /\ [][Next]_vars
-----------------------------------------------------------------------------
(* Properties                                                              *)

\* The start attribute's sample is the first of its scan, for every process.
StartLeads == \A ord \in Orders : ord[1] = "start"

\* A frame starts at a transition and at nothing less: its start is a report
\* that the condition is satisfied, not preceded by another, with an earlier
\* one that it was not, and it held for the debounce.  Wherever a window
\* begins, a unit that already runs opens no frame, and neither do a Bad sample
\* or a spike, unless its last scan was read in part, or another attribute's
\* sample of it comes first (events.py, _Debouncer).  And every variable keeps
\* its type.
StartIsAnEdge ==
  TypeOK /\
  \A f \in frames :
    LET before == {u \in 1 .. f.start - 1 : hist[u].start # "none"} IN
    /\ hist[f.start].start = "yes"
    /\ \E u \in before : hist[u].start = "no"
    /\ hist[Max(before)].start # "yes"
    /\ \A u \in f.start + 1 .. f.start + StartDebounce - (IF read < 0 \/ ~ StartLeads THEN 1 ELSE 0) :
         hist[u].start \in {"yes", "none"}

\* Re-detection never revises a frame that is over (unless a scan was read in
\* part: the frame found then is a guess, which the next pass corrects).
OverIsOver ==
  [][read' >= 0 => \A f \in frames : f.end # 0 => f \in frames']_vars

\* The frames of the whole history, as one pass over all of it finds them.
Whole == ToSet(Detect(SubSeq(hist, 1, read), 1, read, order))

\* The start condition does not lapse while a frame is in progress.
Undisturbed(F) ==
  \A f \in F :
    \A u \in f.start .. (IF f.end = 0 THEN read ELSE f.end) : hist[u].start # "no"

Same(f, g) == f.start = g.start /\ f.status = g.status
                                /\ (f.status = "closed" => f.end = g.end)

\* The start attribute has a Good sample in every scan.
Cyclic == \A u \in 1 .. read : hist[u].start \in {"yes", "no"}

\* Passes over moving windows add up to one pass over everything: after a pass
\* that ended normally the stored frames are the frames of the whole history,
\* as far back as the service promises to look, whatever interrupted passes
\* and restarts came before, and with samples that are late by less than the
\* margin has room for.  (By exception, through Bad samples or with samples
\* that are later it is not so: see OpenFrameIsClosed, and the README.)
WindowsAddUp ==
  read > 0 /\ Cyclic =>
    LET whole == Whole IN
    Undisturbed(whole) =>
      /\ \A f \in whole : f.start > Longest => \E g \in frames : Same(f, g)
      /\ \A g \in frames : g.start > Longest => \E f \in whole : Same(f, g)

-----------------------------------------------------------------------------
(* What the documentation says and the code does not do: no run checks      *)
(* these; the README says on which instances TLC refutes them.              *)

\* "... or from the start of a frame still open, so it can be closed"
\* (service.py): no frame stays open whose end is in what the pass has read.
OpenFrameIsClosed ==
  \A f \in frames : read > 0 /\ f.end = 0 =>
    ~ \E g \in Whole : g.start = f.start /\ g.status = "closed"

\* "Only one event of a template may be open on an element at a time"
\* (003_event_frames.sql): frames do not overlap.
FramesDisjoint ==
  \A f, g \in frames : f.start < g.start => f.end # 0 /\ f.end <= g.start

\* "The same history yields the same frames" (events.py, detect), in whatever
\* process.
SameHistorySameFrames ==
  \A o, p \in Orders :
    Detect(hist, 1, Len(hist), o) = Detect(hist, 1, Len(hist), p)
=============================================================================
