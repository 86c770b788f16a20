---------------------------- MODULE SequenceGaps ----------------------------
(***************************************************************************)
(* Reconciliation: what the archive can tell about samples it does not     *)
(* hold, from the sequence numbers of those it does (view sample_seq_gap)  *)
(* and from the ledger of discarded ranges (collector_loss), both of       *)
(* archive/migrations/014_review_findings.sql, over the behaviours of         *)
(* StoreForward.                                                           *)
(***************************************************************************)
EXTENDS StoreForward

\* Records on their way to the ledger, and in it.
Ledger == lost \cup collectorLoss

Covers(l, s) ==
  l.run = s.run /\ l.tag = s.tag /\ s.seq \in l.firstSeq .. l.lastSeq

\* view sample_seq_gap: pairs of a run's and tag's rows with consecutive
\* sequence numbers that are more than one apart.
Gaps ==
  {g \in sample \X sample :
     LET a == g[1]
         b == g[2]
     IN /\ a.run = b.run /\ a.tag = b.tag
        /\ b.seq - a.seq > 1
        /\ ~ \E c \in sample : /\ c.run = a.run /\ c.tag = a.tag
                               /\ a.seq < c.seq /\ c.seq < b.seq}

\* Its columns missing, held_by_other_runs and recorded_as_lost.
Missing(a, b) == b.seq - a.seq - 1

HeldByOtherRuns(a, b) ==
  Cardinality({x \in sample : /\ x.tag = a.tag /\ x.run # a.run
                              /\ a.ts < x.ts /\ x.ts < b.ts})

\* The records that reach into the hole, and how many of its numbers each holds.
Reaching(a, b) ==
  {l \in Ledger : /\ l.run = a.run /\ l.tag = a.tag
                  /\ l.firstSeq <= b.seq - 1
                  /\ l.lastSeq >= a.seq + 1}

RecordedAsLost(a, b) ==
  SumFunction([l \in Reaching(a, b) |->
                 Min({l.lastSeq, b.seq - 1}) - Max({l.firstSeq, a.seq + 1}) + 1])

Inside(s, g) ==
  s.run = g[1].run /\ s.tag = g[1].tag /\ g[1].seq < s.seq /\ s.seq < g[2].seq

-----------------------------------------------------------------------------
(* Properties                                                              *)

\* A hole that neither another run's rows nor the ledger explains is an
\* unexplained loss: a run that is never stopped with samples in the
\* forwarder's hands leaves none, at any moment of an outage or a recovery.
HolesAreExplained ==
  \A g \in Gaps :
    (\A s \in dropped : ~ Inside(s, g)) =>
       Missing(g[1], g[2]) <= HeldByOtherRuns(g[1], g[2])
                              + RecordedAsLost(g[1], g[2])

\* The ledger is complete and exact: every discarded sample is on record with
\* its run and number ("each discarded range is recorded with its sequence
\* numbers", pipeline.py), every number in a record's range was discarded and
\* counted, except those a stop left in the forwarder's hands, and no number
\* is in two records.
LedgerExact ==
  /\ \A s \in discarded : \E l \in Ledger : Covers(l, s)
  /\ \A l \in Ledger :
    /\ l.samples = Cardinality({s \in discarded : Covers(l, s)})
    /\ \A n \in l.firstSeq .. l.lastSeq :
         \E s \in discarded \cup dropped : Covers(l, s) /\ s.seq = n
    /\ \A m \in Ledger, s \in discarded : Covers(l, s) /\ Covers(m, s) => l = m

\* Weaker: the ledger at least has a record, of whichever run, of the stretch
\* of time of every discarded sample the archive does not hold.
DiscardedTimeOnRecord ==
  \A s \in discarded :
    \/ Key(s) \in Keys(sample)
    \/ \E l \in Ledger : l.tag = s.tag /\ s.ts \in l.firstTs .. l.lastTs

\* A hole in a run's numbers is a sample it meant to write that it did not
\* write ("A hole is a sample it meant to write that is not in the archive").
HolesAreMissing ==
  \A g \in Gaps, s \in admitted :
    Inside(s, g) => ~ \E x \in sample : x.run = s.run /\ Key(x) = Key(s)
=============================================================================
