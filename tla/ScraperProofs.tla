---------------------------- MODULE ScraperProofs ----------------------------
(***************************************************************************)
(* Proofs about ScraperPoll, for every interval, list of back-offs, times,  *)
(* pages and bounds: NoRetryFiresLate, TheLogAddsUp, WholePagesOnly.        *)
(*                                                                         *)
(* The three invariants share one inductive invariant, Inv.  Its core is    *)
(* what the open transaction holds at each step (PendingInv): rows of the   *)
(* page in hand alone, none of which has its key in a table yet, and with    *)
(* the tables enough to make the page whole once all three are through.     *)
(* Counting is done with keys: since a table has at most one row for a       *)
(* time, the rows of a time are as many as the tables that have one          *)
(* (CountedLemma), and adding up rows becomes adding up tables.              *)
(***************************************************************************)
EXTENDS ScraperPoll, FiniteSetTheorems, TLAPS

Outcomes == {"none", "ok", "http_error", "parse_error", "db_error"}
PollerType ==
  [pc : {"wait", "fetch", "again", "log", "report", "commit"} \cup Tables, clock : Int,
   attempt : 0 .. Len(Backoffs), page : Pages \cup {NoPage}, outcome : Outcomes, written : Nat]

\* The step has the page that it was given.
Writing == {"station", "unit", "system", "commit"}

\* R has a row of the table for time n.
Has(R, table, n) == \E r \in R : r.table = table /\ r.ts = n
One(R, table, n) == IF Has(R, table, n) THEN 1 ELSE 0

\* The rows that rows_written counts.
Counts(R, n)  == {r \in R : r.ts = n /\ r.table # "system"}
Number(R, n)  == One(R, "station", n) + One(R, "unit", n)

\* PRIMARY KEY (..., source_ts).
Keyed(R) == \A a, b \in R : a.table = b.table /\ a.ts = b.ts => a = b

Through ==
  CASE poller.pc = "unit" -> {"station"} [] poller.pc = "system" -> {"station", "unit"}
    [] poller.pc = "commit" -> Tables [] OTHER -> {}

ClockInv ==
  /\ poller.pc # "wait" => poller.clock >= 0
  /\ poller.pc = "fetch" => poller.clock <= Interval

PageInv ==
  /\ poller.pc \in Writing => poller.page \in Pages
  /\ poller.pc = "log" => poller.outcome # "none"
  /\ poller.pc = "log" /\ poller.outcome = "ok" => poller.page \in Pages

PendingInv ==
  /\ \A r \in pending : /\ r = Row(r.table, poller.page) /\ r.table \in Through
                        /\ ~ Has(rows, r.table, poller.page.ts)
  /\ \A table \in Through : Has(rows, table, poller.page.ts) \/ Row(table, poller.page) \in pending

NoteInv ==
  /\ poller.pc \notin {"wait", "report"} => note = "none"
  /\ poller.pc \in {"wait", "report"} /\ note = "none" => upset
  /\ \/ poller.pc = "log" /\ poller.outcome = "ok"
     \/ poller.pc = "report" /\ note = "ok"
     => \A table \in Tables : Has(rows, table, poller.page.ts)

CountInv ==
  /\ \A n \in unsure : Has(rows, "station", n) /\ Has(rows, "unit", n)
  /\ \A n \in Stamps \ unsure : told[n] = Number(rows, n)
  /\ \A n \in Stamps : told[n] <= Number(rows, n)
  /\ poller.pc = "log" /\ poller.outcome = "ok" /\ poller.written > 0 =>
       told[poller.page.ts] + poller.written = Number(rows, poller.page.ts)

WholeInv == \A n \in Stamps \ Held : OnePage(n)

Inv == /\ TypeOK /\ ClockInv /\ PageInv /\ Keyed(rows) /\ PendingInv
       /\ NoteInv /\ CountInv /\ WholeInv

-----------------------------------------------------------------------------
(* Rows and how many there are                                              *)

\* A row says which table, time and page it is of.
LEMMA RowFields ==
  ASSUME NEW table, NEW page
  PROVE  /\ Row(table, page).table = table /\ Row(table, page).ts = page.ts
         /\ Row(table, page).page = page
BY DEF Row

\* A page that the site serves has a known time, and its rows have their type.
LEMMA RowTyped ==
  ASSUME NEW table \in Tables, NEW page \in Pages
  PROVE  page.ts \in Stamps /\ Row(table, page) \in RowType
BY PagesAssumption DEF RowType, Stamps

\* Where no two rows share a key, the rows of a time are as many as the tables
\* that have one.
LEMMA CountedLemma ==
  ASSUME NEW R, NEW n, Keyed(R), \A r \in R : r.table \in Tables
  PROVE  Cardinality(Counts(R, n)) = Number(R, n)
<1> DEFINE Of(table) == {r \in R : r.table = table /\ r.ts = n}
<1>1. ASSUME NEW table \in Tables
      PROVE  IsFiniteSet(Of(table)) /\ Cardinality(Of(table)) = One(R, table, n)
  <2>1. CASE Has(R, table, n)
    <3>1. PICK r \in R : r.table = table /\ r.ts = n BY <2>1 DEF Has
    <3>2. Of(table) = {r} BY <3>1 DEF Keyed
    <3> QED BY <2>1, <3>2, FS_Singleton DEF One
  <2>2. CASE ~ Has(R, table, n)
    <3>1. Of(table) = {} BY <2>2 DEF Has
    <3> QED BY <2>2, <3>1, FS_EmptySet DEF One
  <2> QED BY <2>1, <2>2
<1>2. Counts(R, n) = Of("station") \cup Of("unit") BY DEF Counts, Tables
<1>3. Of("station") \cap Of("unit") = {} OBVIOUS
<1>4. "station" \in Tables /\ "unit" \in Tables BY DEF Tables
<1> HIDE DEF Of
<1>5. Cardinality(Of("station") \cup Of("unit"))
        = Cardinality(Of("station")) + Cardinality(Of("unit")) - Cardinality(Of("station") \cap Of("unit"))
  BY <1>1, <1>4, FS_Union
<1>6. Cardinality(Of("station") \cap Of("unit")) = 0 BY <1>3, FS_EmptySet
<1>7. One(R, "station", n) \in Nat /\ One(R, "unit", n) \in Nat BY DEF One
<1> QED BY <1>1, <1>2, <1>4, <1>5, <1>6, <1>7 DEF Number

LEMMA NumberNat == ASSUME NEW R, NEW n PROVE Number(R, n) \in Nat
BY DEF Number, One

\* Rows whose keys are not in a table yet add to its rows.
LEMMA NumberAdds ==
  ASSUME NEW R, NEW P, NEW n, \A p \in P : ~ Has(R, p.table, p.ts)
  PROVE  Number(R \cup P, n) = Number(R, n) + Number(P, n)
<1>1. ASSUME NEW table
      PROVE  One(R \cup P, table, n) = One(R, table, n) + One(P, table, n)
  <2>1. Has(R \cup P, table, n) <=> Has(R, table, n) \/ Has(P, table, n) BY DEF Has
  <2>2. ~ (Has(R, table, n) /\ Has(P, table, n)) BY DEF Has
  <2> QED BY <2>1, <2>2 DEF One
<1>2. ASSUME NEW table PROVE One(R, table, n) \in Nat /\ One(P, table, n) \in Nat BY DEF One
<1>3. One(R \cup P, "station", n) = One(R, "station", n) + One(P, "station", n) BY <1>1
<1>4. One(R \cup P, "unit", n) = One(R, "unit", n) + One(P, "unit", n) BY <1>1
<1> HIDE DEF One
<1> QED BY <1>2, <1>3, <1>4, SMT DEF Number

LEMMA NumberElsewhere ==
  ASSUME NEW P, NEW n, \A p \in P : p.ts # n
  PROVE  Number(P, n) = 0
BY DEF Number, One, Has

LEMMA HasGrows ==
  ASSUME NEW R, NEW P, NEW table, NEW n, Has(R, table, n)
  PROVE  Has(R \cup P, table, n)
BY DEF Has

-----------------------------------------------------------------------------
(* What the open transaction holds                                          *)

LEMMA TypeFacts ==
  ASSUME TypeOK
  PROVE  /\ poller \in PollerType
         /\ \A r \in rows \cup pending : r.table \in Tables /\ r.ts \in Stamps
         /\ told \in [Stamps -> Nat] /\ unsure \subseteq Stamps
<1>1. \A r \in RowType : r.table \in Tables /\ r.ts \in Stamps
  BY RowFields DEF RowType
<1> QED BY <1>1 DEF TypeOK, PollerType, Outcomes

LEMMA PendingFacts ==
  ASSUME TypeOK, PendingInv
  PROVE  /\ \A r \in pending : r.ts = poller.page.ts /\ r.page = poller.page
         /\ Keyed(pending)
         /\ \A r \in pending : ~ Has(rows, r.table, r.ts)
         /\ Through = {} => pending = {}
<1>1. \A r \in pending : r.ts = poller.page.ts /\ r.page = poller.page
  BY RowFields DEF PendingInv
<1>2. Keyed(pending) BY DEF PendingInv, Keyed
<1> QED BY <1>1, <1>2 DEF PendingInv

LEMMA WrittenIs ==
  ASSUME TypeOK, PendingInv
  PROVE  Written = Number(pending, poller.page.ts) /\ Written \in Nat
<1>1. {r \in pending : r.table # "system"} = Counts(pending, poller.page.ts)
  BY PendingFacts DEF Counts
<1>2. Cardinality(Counts(pending, poller.page.ts)) = Number(pending, poller.page.ts)
  BY PendingFacts, TypeFacts, CountedLemma
<1> QED BY <1>1, <1>2, NumberNat DEF Written

\* Where nothing is being written, nothing is pending.
LEMMA NothingPending ==
  ASSUME TypeOK, PendingInv, poller.pc \notin {"unit", "system", "commit"}
  PROVE  pending = {}
<1>1. Through = {} BY DEF Through
<1> QED BY <1>1, PendingFacts

-----------------------------------------------------------------------------
(* The type                                                                 *)

LEMMA InsertTyped ==
  ASSUME TypeOK, PageInv, NEW table \in Tables, Insert(table)
  PROVE  /\ Inserted(table, poller.page) \subseteq RowType
         /\ After(table) \in Writing /\ poller.page \in Pages
<1>1. poller.page \in Pages BY DEF PageInv, Insert, Tables, Writing
<1>2. After(table) \in Writing BY DEF After, Tables, Writing
<1> QED BY <1>1, <1>2, RowTyped DEF Inserted

LEMMA ClockKept ==
  ASSUME NEW c \in Int
  PROVE  /\ StartsAt(c) \in 0 .. Interval
         /\ \A d \in FetchTimes \cup DbTimes : c + d \in Int /\ (c >= 0 => c + d >= 0)
         /\ c - Interval \in Int
         /\ \A d \in DbTimes : c + d - Interval \in Int
BY IntervalAssumption, TimesAssumption DEF StartsAt

LEMMA BackoffTyped ==
  ASSUME TypeOK, MayRetry
  PROVE  /\ poller.attempt + 1 \in 0 .. Len(Backoffs)
         /\ Backoffs[poller.attempt + 1] \in Nat
<1>1. Len(Backoffs) \in Nat /\ \A i \in 1 .. Len(Backoffs) : Backoffs[i] \in Nat
  BY IntervalAssumption
<1>2. poller.attempt \in 0 .. Len(Backoffs) BY TypeFacts DEF PollerType
<1> QED BY <1>1, <1>2 DEF MayRetry

\* The fields of a poller whose step, clock and the like are set.
LEMMA PollerMoves ==
  ASSUME NEW p \in PollerType,
         NEW pc \in {"wait", "fetch", "again", "log", "report", "commit"} \cup Tables, NEW c \in Int
  PROVE  /\ [p EXCEPT !.pc = pc] \in PollerType
         /\ [p EXCEPT !.clock = c] \in PollerType
         /\ [p EXCEPT !.clock = c, !.pc = pc] \in PollerType
         /\ [p EXCEPT !.pc = pc, !.clock = c] \in PollerType
         /\ \A o \in Outcomes : [p EXCEPT !.pc = pc, !.outcome = o] \in PollerType
         /\ \A o \in Outcomes : [p EXCEPT !.pc = pc, !.clock = c, !.outcome = o] \in PollerType
         /\ \A o \in Outcomes : [p EXCEPT !.clock = c, !.pc = pc, !.outcome = o] \in PollerType
         /\ \A o \in Outcomes, w \in Nat :
              [p EXCEPT !.pc = pc, !.clock = c, !.outcome = o, !.written = w] \in PollerType
         /\ \A page \in Pages : [p EXCEPT !.clock = c, !.pc = pc, !.page = page] \in PollerType
         /\ \A a \in 0 .. Len(Backoffs) :
              [p EXCEPT !.pc = pc, !.attempt = a, !.clock = c] \in PollerType
BY DEF PollerType

LEMMA FreshTyped == Fresh \in PollerType
<1>1. 0 \in 0 .. Len(Backoffs) BY IntervalAssumption
<1> QED BY <1>1 DEF Fresh, PollerType, Outcomes

LEMMA PollerStep ==
  ASSUME TypeOK, PageInv, PendingInv, [Next]_vars
  PROVE  poller' \in PollerType
<1>1. poller \in PollerType /\ poller.clock \in Int BY TypeFacts DEF PollerType
<1>2. CASE Begin
  <2>1. StartsAt(poller.clock) \in 0 .. Interval BY <1>1, ClockKept
  <2>2. StartsAt(poller.clock) \in Int BY <2>1, IntervalAssumption
  <2> QED BY <1>2, <2>2, FreshTyped, PollerMoves DEF Begin
<1>3. CASE Fetch
  <2>1. PICK d \in FetchTimes :
          \/ poller' = [poller EXCEPT !.clock = @ + d, !.pc = "again"]
          \/ poller' = [poller EXCEPT !.clock = @ + d, !.pc = "log", !.outcome = "parse_error"]
          \/ site.got = "page" /\ poller' = [poller EXCEPT !.clock = @ + d, !.pc = "station", !.page = site.page]
          \/ poller' = [poller EXCEPT !.clock = @ + d, !.pc = "report"]
    BY <1>3 DEF Fetch
  <2>2. poller.clock + d \in Int BY <1>1, ClockKept
  <2>3. site.got = "page" => site.page \in Pages BY DEF TypeOK, Gets
  <2>4. "parse_error" \in Outcomes BY DEF Outcomes
  <2>5. CASE poller' = [poller EXCEPT !.clock = @ + d, !.pc = "again"]
    BY <1>1, <2>2, <2>5, PollerMoves
  <2>6. CASE poller' = [poller EXCEPT !.clock = @ + d, !.pc = "log", !.outcome = "parse_error"]
    BY <1>1, <2>2, <2>4, <2>6, PollerMoves
  <2>7. CASE site.got = "page" /\ poller' = [poller EXCEPT !.clock = @ + d, !.pc = "station", !.page = site.page]
    BY <1>1, <2>2, <2>3, <2>7, PollerMoves DEF Tables
  <2>8. CASE poller' = [poller EXCEPT !.clock = @ + d, !.pc = "report"]
    BY <1>1, <2>2, <2>8, PollerMoves
  <2> QED BY <2>1, <2>5, <2>6, <2>7, <2>8
<1>4. CASE Again
  <2>1. CASE MayRetry
    <3>1. poller' = [poller EXCEPT !.pc = "fetch", !.attempt = poller.attempt + 1,
                       !.clock = poller.clock + Backoffs[poller.attempt + 1]]
      BY <1>4, <2>1 DEF Again
    <3>2. poller.clock + Backoffs[poller.attempt + 1] \in Int BY <1>1, <2>1, BackoffTyped
    <3> QED BY <1>1, <2>1, <3>1, <3>2, BackoffTyped, PollerMoves
  <2>2. CASE ~ MayRetry
    <3>1. "http_error" \in Outcomes BY DEF Outcomes
    <3>2. poller' = [poller EXCEPT !.pc = "log", !.outcome = "http_error"]
      BY <1>4, <2>2 DEF Again, End
    <3> QED BY <1>1, <3>1, <3>2, PollerMoves
  <2> QED BY <2>1, <2>2
<1>5. ASSUME NEW table \in Tables, Insert(table) PROVE poller' \in PollerType
  <2>1. After(table) \in {"commit"} \cup Tables BY <1>5, InsertTyped DEF Writing, Tables
  <2> QED BY <1>1, <1>5, <2>1, PollerMoves DEF Insert, Goto
<1>6. CASE Commit
  <2>1. PICK d \in DbTimes : poller' = [poller EXCEPT !.pc = "log", !.clock = poller.clock + d, !.outcome = "ok", !.written = Written]
    BY <1>6 DEF Commit
  <2>2. poller.clock + d \in Int BY <1>1, ClockKept
  <2>3. "ok" \in Outcomes BY DEF Outcomes
  <2> QED BY <1>1, <2>1, <2>2, <2>3, WrittenIs, PollerMoves
<1>7. CASE WriteFails
  <2>1. PICK d \in DbTimes : poller' = [poller EXCEPT !.pc = "log", !.clock = poller.clock + d, !.outcome = "db_error"]
    BY <1>7 DEF WriteFails
  <2>2. poller.clock + d \in Int BY <1>1, ClockKept
  <2>3. "db_error" \in Outcomes BY DEF Outcomes
  <2> QED BY <1>1, <2>1, <2>2, <2>3, PollerMoves
<1>8. CASE Log \/ LogFails
  BY <1>1, <1>8, PollerMoves DEF Log, LogFails, Goto
<1>9. CASE Report
  <2>1. PICK c \in Int : poller' = [Fresh EXCEPT !.clock = c]
    BY <1>1, <1>9, ClockKept DEF Report
  <2> QED BY <2>1, FreshTyped, PollerMoves
<1>10. CASE Crash
  BY <1>10, FreshTyped DEF Crash
<1>11. CASE SiteChanges \/ DbStops \/ DbStarts \/ UNCHANGED vars
  BY <1>1, <1>11 DEF SiteChanges, DbStops, DbStarts, vars
<1> QED BY <1>2, <1>3, <1>4, <1>5, <1>6, <1>7, <1>8, <1>9, <1>10, <1>11 DEF Next, Poll

LEMMA RowsStep ==
  ASSUME TypeOK, PageInv, [Next]_vars
  PROVE  rows' \subseteq RowType /\ pending' \subseteq RowType
<1>1. rows \subseteq RowType /\ pending \subseteq RowType BY DEF TypeOK
<1>2. ASSUME NEW table \in Tables, Insert(table)
      PROVE  rows' \subseteq RowType /\ pending' \subseteq RowType
  <2>1. rows' = rows /\ pending' = pending \cup Inserted(table, poller.page) BY <1>2 DEF Insert
  <2> QED BY <1>1, <1>2, <2>1, InsertTyped
<1>3. CASE Begin \/ Fetch \/ Again \/ Commit \/ WriteFails \/ Log \/ LogFails \/ Report
  BY <1>1, <1>3 DEF Begin, Fetch, Again, Commit, WriteFails, Log, LogFails, Report
<1>4. CASE SiteChanges \/ DbStops \/ DbStarts \/ Crash \/ UNCHANGED vars
  BY <1>1, <1>4 DEF SiteChanges, DbStops, DbStarts, Crash, vars
<1> QED BY <1>2, <1>3, <1>4 DEF Next, Poll

LEMMA LedgerStep ==
  ASSUME TypeOK, PageInv, PendingInv, [Next]_vars
  PROVE  told' \in [Stamps -> Nat] /\ unsure' \subseteq Stamps /\ note' \in Outcomes
<1>1. told \in [Stamps -> Nat] /\ unsure \subseteq Stamps /\ note \in Outcomes
  BY DEF TypeOK, Outcomes
<1>2. poller.outcome \in Outcomes /\ poller.written \in Nat BY TypeFacts DEF PollerType
<1>3. CASE Log
  <2>1. CASE poller.outcome = "ok"
    <3>1. poller.page \in Pages BY <1>3, <2>1 DEF PageInv, Log
    <3>2. poller.page.ts \in Stamps BY <3>1 DEF Stamps
    <3>3. told' = [told EXCEPT ![poller.page.ts] = told[poller.page.ts] + poller.written]
      BY <1>3, <2>1 DEF Log
    <3>4. told[poller.page.ts] + poller.written \in Nat BY <1>1, <1>2, <3>2
    <3>5. unsure' \subseteq unsure BY <1>3, <2>1 DEF Log
    <3>6. note' = poller.outcome BY <1>3 DEF Log
    <3> QED BY <1>1, <1>2, <3>2, <3>3, <3>4, <3>5, <3>6
  <2>2. CASE poller.outcome # "ok" BY <1>1, <1>2, <1>3, <2>2 DEF Log
  <2> QED BY <2>1, <2>2
<1>4. CASE Commit \/ WriteFails
  <2>1. poller.page.ts \in Stamps \/ unsure' = unsure
    BY <1>4 DEF Commit, WriteFails, PageInv, Writing, Stamps
  <2>2. unsure' \subseteq unsure \cup {poller.page.ts} BY <1>4 DEF Commit, WriteFails
  <2>3. told' = told /\ note' = note BY <1>4 DEF Commit, WriteFails
  <2> QED BY <1>1, <2>1, <2>2, <2>3
<1>5. CASE Begin \/ Fetch \/ Again \/ (\E table \in Tables : Insert(table)) \/ LogFails \/ Report
  BY <1>1, <1>5 DEF Begin, Fetch, Again, Insert, LogFails, Report, Outcomes
<1>6. CASE SiteChanges \/ DbStops \/ DbStarts \/ Crash \/ UNCHANGED vars
  BY <1>1, <1>6 DEF SiteChanges, DbStops, DbStarts, Crash, vars
<1> QED BY <1>3, <1>4, <1>5, <1>6 DEF Next, Poll

LEMMA RestStep ==
  ASSUME TypeOK, [Next]_vars
  PROVE  /\ site' \in Gets /\ db' \in [up : BOOLEAN, stops : Nat]
         /\ conn' \in {"none", "live", "dead"}
         /\ budget' \in [changes : Nat, crashes : Nat] /\ upset' \in BOOLEAN
<1>1. /\ site \in Gets /\ db \in [up : BOOLEAN, stops : Nat] /\ conn \in {"none", "live", "dead"}
      /\ budget \in [changes : Nat, crashes : Nat] /\ upset \in BOOLEAN
  BY DEF TypeOK
<1>2. CASE Begin \/ Fetch \/ Again \/ (\E table \in Tables : Insert(table))
  BY <1>1, <1>2 DEF Begin, Fetch, Again, Insert, Discarded
<1>3. CASE Commit \/ WriteFails \/ Log \/ LogFails \/ Report
  BY <1>1, <1>3 DEF Commit, WriteFails, Log, LogFails, Report, Discarded
<1>4. CASE SiteChanges
  <2>1. budget' \in [changes : Nat, crashes : Nat] BY <1>1, <1>4 DEF SiteChanges
  <2>2. site' \in Gets /\ db' = db /\ conn' = conn /\ upset' = upset BY <1>4 DEF SiteChanges
  <2> QED BY <1>1, <2>1, <2>2
<1>5. CASE DbStops \/ DbStarts
  <2>1. db' \in [up : BOOLEAN, stops : Nat]
    <3>1. db \in [up : BOOLEAN, stops : Nat] /\ db.stops \in Nat BY <1>1
    <3>2. CASE db' = [up |-> FALSE, stops |-> db.stops + 1] BY <3>1, <3>2
    <3>3. CASE db' = [db EXCEPT !.up = TRUE] BY <3>1, <3>3
    <3> QED BY <1>5, <3>2, <3>3 DEF DbStops, DbStarts
  <2> QED BY <1>1, <1>5, <2>1 DEF DbStops, DbStarts
<1>6. CASE Crash
  <2>1. budget' \in [changes : Nat, crashes : Nat] BY <1>1, <1>6 DEF Crash
  <2> QED BY <1>1, <1>6, <2>1 DEF Crash
<1>7. CASE UNCHANGED vars BY <1>1, <1>7 DEF vars
<1> QED BY <1>2, <1>3, <1>4, <1>5, <1>6, <1>7 DEF Next, Poll

LEMMA TypeStep ==
  ASSUME TypeOK, PageInv, PendingInv, [Next]_vars
  PROVE  TypeOK'
BY PollerStep, RowsStep, LedgerStep, RestStep DEF TypeOK, PollerType, Outcomes

-----------------------------------------------------------------------------
(* The clock and the page in hand                                           *)

LEMMA ClockStep ==
  ASSUME TypeOK, ClockInv, [Next]_vars
  PROVE  ClockInv'
<1>1. poller \in PollerType /\ poller.clock \in Int BY TypeFacts DEF PollerType
<1> USE DEF ClockInv
<1>2. CASE Begin
  <2>1. StartsAt(poller.clock) \in 0 .. Interval BY <1>1, ClockKept
  <2>2. poller'.pc = "fetch" /\ poller'.clock = StartsAt(poller.clock)
    BY <1>2 DEF Begin, Fresh
  <2> QED BY <2>1, <2>2, IntervalAssumption
<1>3. CASE Fetch
  <2>1. PICK d \in FetchTimes : poller'.clock = poller.clock + d /\ poller'.pc # "fetch"
    BY <1>1, <1>3 DEF Fetch, PollerType
  <2>2. poller.clock >= 0 BY <1>3 DEF Fetch
  <2> QED BY <1>1, <2>1, <2>2, ClockKept
<1>4. CASE Again
  <2>1. poller.clock >= 0 BY <1>4 DEF Again
  <2>2. CASE MayRetry
    <3>1. poller'.clock = poller.clock + Backoffs[poller.attempt + 1]
      BY <1>1, <1>4, <2>2 DEF Again, PollerType
    <3>2. Interval - poller.clock > Backoffs[poller.attempt + 1] BY <2>2 DEF MayRetry
    <3> QED BY <1>1, <2>1, <2>2, <3>1, <3>2, BackoffTyped, IntervalAssumption
  <2>3. CASE ~ MayRetry
    <3>1. poller' = [poller EXCEPT !.pc = "log", !.outcome = "http_error"]
      BY <1>4, <2>3 DEF Again, End
    <3>2. poller'.pc = "log" /\ poller'.clock = poller.clock BY <1>1, <3>1 DEF PollerType
    <3> QED BY <2>1, <3>2
  <2> QED BY <2>2, <2>3
<1>5. ASSUME NEW table \in Tables, Insert(table) PROVE ClockInv'
  <2>1. poller'.pc = After(table) /\ poller'.clock = poller.clock /\ poller.clock >= 0
    BY <1>1, <1>5 DEF Insert, Goto, PollerType, Tables
  <2>2. After(table) # "fetch" BY DEF After, Tables
  <2> QED BY <2>1, <2>2
<1>6. CASE Commit \/ WriteFails
  <2>1. PICK d \in DbTimes : poller'.clock = poller.clock + d /\ poller'.pc = "log"
    BY <1>1, <1>6 DEF Commit, WriteFails, PollerType
  <2>2. poller.clock >= 0 BY <1>6 DEF Commit, WriteFails, Tables
  <2> QED BY <1>1, <2>1, <2>2, ClockKept
<1>7. CASE Log \/ LogFails
  <2>1. poller'.pc = "report" /\ poller'.clock = poller.clock /\ poller.clock >= 0
    BY <1>1, <1>7 DEF Log, LogFails, Goto, PollerType
  <2> QED BY <2>1
<1>8. CASE Report \/ Crash
  <2>1. poller'.pc = "wait" BY <1>8 DEF Report, Crash, Fresh
  <2> QED BY <2>1
<1>9. CASE SiteChanges \/ DbStops \/ DbStarts \/ UNCHANGED vars
  BY <1>9 DEF SiteChanges, DbStops, DbStarts, vars
<1> QED BY <1>2, <1>3, <1>4, <1>5, <1>6, <1>7, <1>8, <1>9 DEF Next, Poll

LEMMA PageStep ==
  ASSUME TypeOK, PageInv, [Next]_vars
  PROVE  PageInv'
<1>1. poller \in PollerType BY TypeFacts
<1> USE DEF PageInv
<1>2. CASE Begin \/ Report \/ Crash
  <2>1. CASE Begin
    <3>1. poller'.pc = "fetch" BY <2>1 DEF Begin, Fresh
    <3> QED BY <3>1 DEF Writing
  <2>2. CASE Report \/ Crash
    <3>1. poller'.pc = "wait" BY <2>2 DEF Report, Crash, Fresh
    <3> QED BY <3>1 DEF Writing
  <2> QED BY <1>2, <2>1, <2>2
<1>3. CASE Fetch
  <2>1. \/ poller'.pc \in {"again", "report"}
        \/ poller'.pc = "log" /\ poller'.outcome = "parse_error"
        \/ site.got = "page" /\ poller'.pc = "station" /\ poller'.page = site.page
    BY <1>1, <1>3 DEF Fetch, PollerType
  <2>2. site.got = "page" => site.page \in Pages BY DEF TypeOK, Gets
  <2> QED BY <2>1, <2>2 DEF Writing
<1>4. CASE Again
  <2>1. \/ poller'.pc = "fetch"
        \/ poller'.pc = "log" /\ poller'.outcome = "http_error"
    BY <1>1, <1>4 DEF Again, End, PollerType
  <2> QED BY <2>1 DEF Writing
<1>5. ASSUME NEW table \in Tables, Insert(table) PROVE PageInv'
  <2>1. poller'.pc = After(table) /\ poller'.page = poller.page
    BY <1>1, <1>5 DEF Insert, Goto, PollerType
  <2>2. After(table) \in Writing /\ poller.page \in Pages BY <1>5, InsertTyped
  <2> QED BY <2>1, <2>2 DEF Writing
<1>6. CASE Commit \/ WriteFails
  <2>1. /\ poller'.pc = "log" /\ poller'.outcome \in {"ok", "db_error"}
        /\ poller'.page = poller.page
    BY <1>1, <1>6 DEF Commit, WriteFails, PollerType
  <2>2. poller.page \in Pages BY <1>6 DEF Commit, WriteFails, Tables, Writing
  <2> QED BY <2>1, <2>2 DEF Writing
<1>7. CASE Log \/ LogFails
  <2>1. poller'.pc = "report" BY <1>1, <1>7 DEF Log, LogFails, Goto, PollerType
  <2> QED BY <2>1 DEF Writing
<1>8. CASE SiteChanges \/ DbStops \/ DbStarts \/ UNCHANGED vars
  BY <1>8 DEF SiteChanges, DbStops, DbStarts, vars
<1> QED BY <1>2, <1>3, <1>4, <1>5, <1>6, <1>7, <1>8 DEF Next, Poll

-----------------------------------------------------------------------------
(* What is pending and what is in the tables                                *)

\* Where each step leads.
LEMMA PollerEffects ==
  ASSUME TypeOK
  PROVE  /\ Begin => poller'.pc = "fetch"
         /\ Fetch => \/ poller'.pc \in {"again", "report", "station"}
                     \/ poller'.pc = "log" /\ poller'.outcome = "parse_error"
         /\ Again => poller'.pc = "fetch" \/ (poller'.pc = "log" /\ poller'.outcome = "http_error")
         /\ \A table \in Tables : Insert(table) => poller'.pc = After(table) /\ poller'.page = poller.page
         /\ Commit => /\ poller'.pc = "log" /\ poller'.page = poller.page
                      /\ poller'.outcome = "ok" /\ poller'.written = Written
         /\ WriteFails => poller'.pc = "log" /\ poller'.page = poller.page /\ poller'.outcome = "db_error"
         /\ Log \/ LogFails => poller'.pc = "report" /\ poller'.page = poller.page
         /\ Report \/ Crash => poller'.pc = "wait"
<1>1. poller \in PollerType BY TypeFacts
<1>2. Begin => poller'.pc = "fetch" BY DEF Begin, Fresh
<1>3. Fetch => \/ poller'.pc \in {"again", "report", "station"}
               \/ poller'.pc = "log" /\ poller'.outcome = "parse_error"
  BY <1>1 DEF Fetch, PollerType
<1>4. Again => poller'.pc = "fetch" \/ (poller'.pc = "log" /\ poller'.outcome = "http_error")
  BY <1>1 DEF Again, End, PollerType
<1>5. \A table \in Tables : Insert(table) => poller'.pc = After(table) /\ poller'.page = poller.page
  BY <1>1 DEF Insert, Goto, PollerType
<1>6. Commit => /\ poller'.pc = "log" /\ poller'.page = poller.page
                /\ poller'.outcome = "ok" /\ poller'.written = Written
  BY <1>1 DEF Commit, PollerType
<1>7. WriteFails => poller'.pc = "log" /\ poller'.page = poller.page /\ poller'.outcome = "db_error"
  BY <1>1 DEF WriteFails, PollerType
<1>8. Log \/ LogFails => poller'.pc = "report" /\ poller'.page = poller.page
  BY <1>1 DEF Log, LogFails, Goto, PollerType
<1>9. Report \/ Crash => poller'.pc = "wait" BY DEF Report, Crash, Fresh
<1> QED BY <1>2, <1>3, <1>4, <1>5, <1>6, <1>7, <1>8, <1>9

\* Outside a write nothing is pending and nothing is through.
LEMMA PendingRests ==
  ASSUME pending' = {}, poller'.pc \notin {"unit", "system", "commit"}
  PROVE  PendingInv'
<1>1. Through' = {} BY DEF Through
<1> QED BY <1>1 DEF PendingInv

LEMMA InsertPending ==
  ASSUME TypeOK, PageInv, PendingInv, NEW table \in Tables, Insert(table)
  PROVE  PendingInv'
<1> DEFINE page == poller.page
           row  == Row(table, page)
<1>1. poller'.pc = After(table) /\ poller'.page = page BY PollerEffects
<1>2. poller.pc = table /\ pending' = pending \cup Inserted(table, page) /\ rows' = rows
  BY DEF Insert
<1>3. Through' = Through \cup {table}
  <2>1. CASE table = "station" BY <1>1, <1>2, <2>1 DEF Through, After
  <2>2. CASE table = "unit" BY <1>1, <1>2, <2>2 DEF Through, After
  <2>3. CASE table = "system" BY <1>1, <1>2, <2>3 DEF Through, After, Tables
  <2> QED BY <2>1, <2>2, <2>3 DEF Tables
<1>4. row.table = table /\ row.ts = page.ts BY RowFields
<1>5. \/ Has(rows, table, page.ts) /\ pending' = pending
      \/ ~ Has(rows, table, page.ts) /\ pending' = pending \cup {row}
  BY <1>2 DEF Inserted, Has
<1> HIDE DEF page, row
<1>6. \A r \in pending : /\ r = Row(r.table, page) /\ r.table \in Through
                         /\ ~ Has(rows, r.table, page.ts)
  BY DEF PendingInv, page
<1>7. \A t \in Through : Has(rows, t, page.ts) \/ Row(t, page) \in pending
  BY DEF PendingInv, page
<1>8. row = Row(table, page) BY DEF row
<1>9. \A r \in pending' : /\ r = Row(r.table, page) /\ r.table \in Through'
                          /\ ~ Has(rows, r.table, page.ts)
  BY <1>3, <1>4, <1>5, <1>6, <1>8
<1>10. \A t \in Through' : Has(rows, t, page.ts) \/ Row(t, page) \in pending'
  BY <1>3, <1>5, <1>7, <1>8
<1> QED BY <1>1, <1>2, <1>9, <1>10 DEF PendingInv

LEMMA PendingStep ==
  ASSUME TypeOK, PageInv, PendingInv, [Next]_vars
  PROVE  PendingInv'
<1>1. CASE Begin \/ Fetch \/ Again \/ Log \/ LogFails \/ Report
  <2>1. pending' = pending /\ poller.pc \notin {"unit", "system", "commit"}
    BY <1>1 DEF Begin, Fetch, Again, Log, LogFails, Report
  <2>2. poller'.pc \notin {"unit", "system", "commit"} BY <1>1, PollerEffects
  <2> QED BY <2>1, <2>2, NothingPending, PendingRests
<1>2. CASE \E table \in Tables : Insert(table) BY <1>2, InsertPending
<1>3. CASE Commit \/ WriteFails \/ Crash
  <2>1. pending' = {} BY <1>3 DEF Commit, WriteFails, Crash
  <2>2. poller'.pc \notin {"unit", "system", "commit"} BY <1>3, PollerEffects
  <2> QED BY <2>1, <2>2, PendingRests
<1>4. CASE SiteChanges \/ DbStops \/ DbStarts \/ UNCHANGED vars
  <2>1. UNCHANGED <<pending, rows, poller>>
    BY <1>4 DEF SiteChanges, DbStops, DbStarts, vars
  <2> QED BY <2>1 DEF PendingInv, Through
<1> QED BY <1>1, <1>2, <1>3, <1>4 DEF Next, Poll

\* The only steps that add to the tables, and what they add.
LEMMA RowsEffects ==
  ASSUME [Next]_vars
  PROVE  \/ rows' = rows
         \/ rows' = rows \cup pending /\ poller.pc = "commit" /\ (Commit \/ WriteFails)
<1>1. CASE Begin \/ Fetch \/ Again \/ Log \/ LogFails \/ Report \/ (\E table \in Tables : Insert(table))
  BY <1>1 DEF Begin, Fetch, Again, Log, LogFails, Report, Insert
<1>2. CASE Commit \/ WriteFails BY <1>2 DEF Commit, WriteFails
<1>3. CASE SiteChanges \/ DbStops \/ DbStarts \/ Crash \/ UNCHANGED vars
  BY <1>3 DEF SiteChanges, DbStops, DbStarts, Crash, vars
<1> QED BY <1>1, <1>2, <1>3 DEF Next, Poll

LEMMA KeyedStep ==
  ASSUME TypeOK, PendingInv, Keyed(rows), [Next]_vars
  PROVE  Keyed(rows')
<1>1. Keyed(pending) /\ \A r \in pending : ~ Has(rows, r.table, r.ts) BY PendingFacts
<1>2. Keyed(rows \cup pending) BY <1>1 DEF Keyed, Has
<1> QED BY <1>2, RowsEffects

-----------------------------------------------------------------------------
(* Pages, whole                                                             *)

\* After the commit the tables hold the page's time.
LEMMA CommitFills ==
  ASSUME TypeOK, PendingInv, poller.pc = "commit"
  PROVE  \A table \in Tables : Has(rows \cup pending, table, poller.page.ts)
<1>1. Through = Tables BY DEF Through
<1>2. ASSUME NEW table \in Tables, Row(table, poller.page) \in pending
      PROVE  Has(rows \cup pending, table, poller.page.ts)
  BY <1>2, RowFields DEF Has
<1> QED BY <1>1, <1>2, HasGrows DEF PendingInv

LEMMA WholeStep ==
  ASSUME TypeOK, PendingInv, WholeInv, [Next]_vars
  PROVE  WholeInv'
<1>1. CASE rows' = rows BY <1>1 DEF WholeInv, OnePage
<1>2. CASE rows' = rows \cup pending /\ poller.pc = "commit"
  <2> SUFFICES ASSUME NEW n \in Stamps \ Held PROVE OnePage(n)'
    BY DEF WholeInv
  <2>1. OnePage(n) BY DEF WholeInv
  <2>2. \A r \in pending : r.ts = poller.page.ts /\ r.page = poller.page BY PendingFacts
  <2>3. CASE \A r \in pending : r.ts # n
    BY <1>2, <2>1, <2>3 DEF OnePage
  <2>4. CASE ~ (\A r \in pending : r.ts # n)
    <3>1. n = poller.page.ts BY <2>2, <2>4
    <3>2. \A a \in rows : a.ts # n
      <4>1. PICK p \in pending : p.ts = n BY <2>4
      <4>2. ~ Has(rows, p.table, n) /\ p.table \in Tables BY <4>1, PendingFacts, TypeFacts
      <4> QED BY <2>1, <4>2 DEF OnePage, Has
    <3>3. \A a \in rows' : a.ts = n => a \in pending BY <1>2, <3>2
    <3>4. \A table \in Tables : \E b \in rows' : b.ts = n /\ b.table = table
      BY <1>2, <3>1, CommitFills DEF Has
    <3>5. \A a, b \in pending : a.page = b.page /\ (a.table = b.table => a = b)
      BY <2>2, PendingFacts DEF Keyed
    <3> QED BY <3>3, <3>4, <3>5 DEF OnePage
  <2> QED BY <2>3, <2>4
<1> QED BY <1>1, <1>2, RowsEffects

-----------------------------------------------------------------------------
(* The log                                                                  *)

LEMMA NoteStep ==
  ASSUME TypeOK, PageInv, PendingInv, NoteInv, [Next]_vars
  PROVE  NoteInv'
<1>1. CASE Begin
  BY <1>1, PollerEffects DEF Begin, NoteInv
<1>2. CASE Fetch
  <2>1. poller.pc = "fetch" /\ note' = note BY <1>2 DEF Fetch
  <2>2. poller'.pc = "report" => upset'
    <3>1. poller \in PollerType BY TypeFacts
    <3> QED BY <1>2, <3>1 DEF Fetch, PollerType
  <2>3. note = "none" BY <2>1 DEF NoteInv
  <2> QED BY <1>2, <2>1, <2>2, <2>3, PollerEffects DEF NoteInv
<1>3. CASE Again
  <2>1. poller.pc = "again" /\ note' = note BY <1>3 DEF Again
  <2>2. note = "none" BY <2>1 DEF NoteInv
  <2> QED BY <1>3, <2>1, <2>2, PollerEffects DEF NoteInv
<1>4. ASSUME NEW table \in Tables, Insert(table) PROVE NoteInv'
  <2>1. poller.pc = table /\ note' = note BY <1>4 DEF Insert
  <2>2. note = "none" BY <2>1 DEF NoteInv, Tables
  <2>3. poller'.pc \in Writing BY <1>4, PollerEffects, InsertTyped
  <2> QED BY <2>1, <2>2, <2>3 DEF NoteInv, Writing
<1>5. CASE Commit
  <2>1. poller.pc = "commit" /\ note' = note /\ rows' = rows \cup pending BY <1>5 DEF Commit
  <2>2. note = "none" BY <2>1 DEF NoteInv
  <2>3. \A table \in Tables : Has(rows', table, poller.page.ts) BY <2>1, CommitFills
  <2> QED BY <1>5, <2>1, <2>2, <2>3, PollerEffects DEF NoteInv
<1>6. CASE WriteFails
  <2>1. poller.pc \in Tables \cup {"commit"} /\ note' = note BY <1>6 DEF WriteFails
  <2>2. note = "none" BY <2>1 DEF NoteInv, Tables
  <2> QED BY <1>6, <2>1, <2>2, PollerEffects DEF NoteInv
<1>7. CASE Log
  <2>1. poller.pc = "log" /\ note' = poller.outcome /\ rows' = rows BY <1>7 DEF Log
  <2>2. poller.outcome # "none" BY <2>1 DEF PageInv
  <2>3. poller.outcome = "ok" => \A table \in Tables : Has(rows, table, poller.page.ts)
    BY <2>1 DEF NoteInv
  <2> QED BY <1>7, <2>1, <2>2, <2>3, PollerEffects DEF NoteInv
<1>8. CASE LogFails
  <2>1. poller.pc = "log" /\ note' = note /\ upset' = TRUE BY <1>8 DEF LogFails
  <2>2. note = "none" BY <2>1 DEF NoteInv
  <2> QED BY <1>8, <2>1, <2>2, PollerEffects DEF NoteInv
<1>9. CASE Report
  <2>1. poller.pc = "report" /\ note' = note /\ upset' = upset BY <1>9 DEF Report
  <2>2. note = "none" => upset BY <2>1 DEF NoteInv
  <2> QED BY <1>9, <2>1, <2>2, PollerEffects DEF NoteInv
<1>10. CASE Crash
  <2>1. upset' = TRUE BY <1>10 DEF Crash
  <2> QED BY <1>10, <2>1, PollerEffects DEF NoteInv
<1>11. CASE SiteChanges \/ DbStops \/ DbStarts \/ UNCHANGED vars
  <2>1. UNCHANGED <<rows, poller, note, upset>>
    BY <1>11 DEF SiteChanges, DbStops, DbStarts, vars
  <2> QED BY <2>1 DEF NoteInv
<1> QED BY <1>1, <1>2, <1>3, <1>4, <1>5, <1>6, <1>7, <1>8, <1>9, <1>10, <1>11 DEF Next, Poll

\* Where neither the rows nor what was told of them changes, and no count is on
\* its way to the log.
LEMMA CountRests ==
  ASSUME CountInv, UNCHANGED <<rows, told, unsure>>,
         ~ (poller'.pc = "log" /\ poller'.outcome = "ok")
  PROVE  CountInv'
BY DEF CountInv

\* A commit puts as many rows more into the tables as it writes, and they are
\* of a time that was told of in full if there are any.
LEMMA CommitCounts ==
  ASSUME TypeOK, PendingInv, CountInv, poller.pc = "commit", poller.page \in Pages
  PROVE  /\ \A n \in Stamps : n # poller.page.ts => Number(rows \cup pending, n) = Number(rows, n)
         /\ Number(rows \cup pending, poller.page.ts) = Number(rows, poller.page.ts) + Written
         /\ Written > 0 => poller.page.ts \notin unsure
<1>1. \A r \in pending : r.ts = poller.page.ts /\ ~ Has(rows, r.table, r.ts) BY PendingFacts
<1>2. \A n \in Stamps : Number(rows \cup pending, n) = Number(rows, n) + Number(pending, n)
  BY <1>1, NumberAdds
<1>3. \A n \in Stamps : n # poller.page.ts => Number(pending, n) = 0
  BY <1>1, NumberElsewhere
<1>4. \A n \in Stamps : Number(rows, n) \in Nat BY NumberNat
<1>5. poller.page.ts \in Stamps BY DEF Stamps
<1>6. ASSUME poller.page.ts \in unsure PROVE Written = 0
  <2>1. Has(rows, "station", poller.page.ts) /\ Has(rows, "unit", poller.page.ts)
    BY <1>6 DEF CountInv
  <2>2. ~ Has(pending, "station", poller.page.ts) /\ ~ Has(pending, "unit", poller.page.ts)
    BY <1>1, <2>1 DEF Has
  <2>3. One(pending, "station", poller.page.ts) = 0 /\ One(pending, "unit", poller.page.ts) = 0
    BY <2>2 DEF One
  <2>4. Number(pending, poller.page.ts) = 0 BY <2>3 DEF Number
  <2> QED BY <2>4, WrittenIs
<1>7. ASSUME NEW n \in Stamps, n # poller.page.ts
      PROVE  Number(rows \cup pending, n) = Number(rows, n)
  <2>1. Number(rows \cup pending, n) = Number(rows, n) + Number(pending, n) BY <1>2
  <2>2. Number(pending, n) = 0 BY <1>3, <1>7
  <2>3. Number(rows, n) \in Nat BY <1>4
  <2> QED BY <2>1, <2>2, <2>3
<1>8. Number(rows \cup pending, poller.page.ts) = Number(rows, poller.page.ts) + Written
  BY <1>2, <1>5, WrittenIs
<1>9. ASSUME Written > 0 PROVE poller.page.ts \notin unsure
  <2>1. Written # 0 BY <1>9
  <2> QED BY <1>6, <2>1
<1> QED BY <1>7, <1>8, <1>9

LEMMA CountCommit ==
  ASSUME TypeOK, PageInv, PendingInv, CountInv, Commit \/ (WriteFails /\ rows' # rows)
  PROVE  CountInv'
<1> DEFINE ts == poller.page.ts
<1>1. /\ poller.pc = "commit" /\ rows' = rows \cup pending /\ told' = told
      /\ unsure' = IF Written > 0 THEN unsure \cup {ts} ELSE unsure
  BY DEF Commit, WriteFails
<1>2. poller.page \in Pages /\ ts \in Stamps BY <1>1 DEF PageInv, Writing, Stamps
<1>3. /\ \A n \in Stamps : n # ts => Number(rows', n) = Number(rows, n)
      /\ Number(rows', ts) = Number(rows, ts) + Written
      /\ Written > 0 => ts \notin unsure
  BY <1>1, <1>2, CommitCounts
<1>4. Written \in Nat /\ \A n \in Stamps : Number(rows, n) \in Nat BY WrittenIs, NumberNat
<1>5. told \in [Stamps -> Nat] /\ unsure \subseteq Stamps BY TypeFacts
<1>6. /\ poller'.pc = "log" /\ poller'.page = poller.page
      /\ poller'.outcome = "ok" => poller'.written = Written
  BY PollerEffects
<1> HIDE DEF ts
<1>7. \A n \in unsure' : Has(rows', "station", n) /\ Has(rows', "unit", n)
  <2>1. \A table \in Tables : Has(rows', table, ts) BY <1>1, CommitFills DEF ts
  <2>2. \A n \in unsure : Has(rows', "station", n) /\ Has(rows', "unit", n)
    BY <1>1, HasGrows DEF CountInv
  <2> QED BY <1>1, <2>1, <2>2 DEF Tables
<1>8. \A n \in Stamps \ unsure' : told'[n] = Number(rows', n)
  <2> SUFFICES ASSUME NEW n \in Stamps \ unsure' PROVE told[n] = Number(rows', n)
    BY <1>1
  <2>1. n \notin unsure /\ told[n] = Number(rows, n) BY <1>1 DEF CountInv
  <2>2. CASE n = ts
    <3>1. ~ (Written > 0) BY <1>1, <2>2
    <3>2. Written = 0 BY <1>4, <3>1
    <3> QED BY <1>3, <1>4, <2>1, <2>2, <3>2
  <2> QED BY <1>3, <2>1, <2>2
<1>9. \A n \in Stamps : told'[n] <= Number(rows', n)
  <2> SUFFICES ASSUME NEW n \in Stamps PROVE told[n] <= Number(rows', n)
    BY <1>1
  <2>1. told[n] <= Number(rows, n) /\ told[n] \in Nat BY <1>5 DEF CountInv
  <2>2. CASE n = ts BY <1>3, <1>4, <2>1, <2>2
  <2> QED BY <1>3, <2>1, <2>2
<1>10. poller'.pc = "log" /\ poller'.outcome = "ok" /\ poller'.written > 0 =>
         told'[poller'.page.ts] + poller'.written = Number(rows', poller'.page.ts)
  <2> SUFFICES ASSUME poller'.outcome = "ok", poller'.written > 0
               PROVE  told[ts] + Written = Number(rows', ts)
    BY <1>1, <1>6 DEF ts
  <2>1. ts \in Stamps \ unsure BY <1>2, <1>3, <1>6
  <2>2. told[ts] = Number(rows, ts) BY <2>1 DEF CountInv
  <2> QED BY <1>3, <2>2
<1> QED BY <1>7, <1>8, <1>9, <1>10 DEF CountInv

LEMMA CountLog ==
  ASSUME TypeOK, PageInv, CountInv, Log
  PROVE  CountInv'
<1> DEFINE ts == poller.page.ts
<1>1. poller.pc = "log" /\ rows' = rows BY DEF Log
<1>2. poller'.pc = "report" BY PollerEffects
<1>3. CASE poller.outcome = "ok" /\ poller.written > 0
  <2>1. ts \in Stamps BY <1>1, <1>3 DEF PageInv, Stamps
  <2>2. told' = [told EXCEPT ![ts] = told[ts] + poller.written] /\ unsure' = unsure \ {ts}
    BY <1>3 DEF Log
  <2>3. told[ts] + poller.written = Number(rows, ts) BY <1>1, <1>3 DEF CountInv
  <2>4. told \in [Stamps -> Nat] BY TypeFacts
  <2> HIDE DEF ts
  <2>5. told'[ts] = Number(rows, ts) /\ \A n \in Stamps : n # ts => told'[n] = told[n]
    BY <2>1, <2>2, <2>3, <2>4
  <2>6. \A n \in Stamps \ unsure' : told'[n] = Number(rows, n)
    BY <2>2, <2>5 DEF CountInv
  <2>7. \A n \in Stamps : told'[n] <= Number(rows, n)
    BY <2>5, NumberNat DEF CountInv
  <2> QED BY <1>1, <1>2, <2>2, <2>6, <2>7 DEF CountInv
<1>4. CASE ~ (poller.outcome = "ok" /\ poller.written > 0)
  <2>1. unsure' = unsure BY <1>4 DEF Log
  <2>2. told' = told
    <3>1. CASE poller.outcome = "ok"
      <4>1. poller.written = 0 BY <1>4, <3>1, TypeFacts DEF PollerType
      <4>2. told' = [told EXCEPT ![ts] = told[ts] + 0] BY <3>1, <4>1 DEF Log
      <4>3. ts \in Stamps BY <1>1, <3>1 DEF PageInv, Stamps
      <4> QED BY <4>2, <4>3, TypeFacts
    <3>2. CASE poller.outcome # "ok" BY <3>2 DEF Log
    <3> QED BY <3>1, <3>2
  <2> QED BY <1>1, <1>2, <2>1, <2>2, CountRests
<1> QED BY <1>3, <1>4

LEMMA CountStep ==
  ASSUME TypeOK, PageInv, PendingInv, CountInv, [Next]_vars
  PROVE  CountInv'
<1>1. CASE Commit BY <1>1, CountCommit
<1>2. CASE WriteFails
  <2>1. CASE rows' = rows
    <3>1. told' = told BY <1>2 DEF WriteFails
    <3>2. unsure' = unsure
      <4>1. CASE unsure' # unsure
        <5>1. poller.pc = "commit" /\ rows' = rows \cup pending /\ Written > 0
          BY <1>2, <4>1 DEF WriteFails
        <5>2. poller.page \in Pages BY <5>1 DEF PageInv, Writing
        <5>3. Number(rows, poller.page.ts) = Number(rows, poller.page.ts) + Written
          BY <2>1, <5>1, <5>2, CommitCounts
        <5> QED BY <5>1, <5>3, WrittenIs, NumberNat
      <4> QED BY <4>1
    <3> QED BY <1>2, <2>1, <3>1, <3>2, PollerEffects, CountRests
  <2> QED BY <1>2, <2>1, CountCommit
<1>3. CASE Log BY <1>3, CountLog
<1>4. CASE Begin \/ Fetch \/ Again \/ LogFails \/ Report \/ Crash
  <2>1. UNCHANGED <<rows, told, unsure>>
    BY <1>4 DEF Begin, Fetch, Again, LogFails, Report, Crash
  <2>2. ~ (poller'.pc = "log" /\ poller'.outcome = "ok") BY <1>4, PollerEffects
  <2> QED BY <2>1, <2>2, CountRests
<1>5. ASSUME NEW table \in Tables, Insert(table) PROVE CountInv'
  <2>1. UNCHANGED <<rows, told, unsure>> BY <1>5 DEF Insert
  <2>2. poller'.pc \in Writing BY <1>5, PollerEffects, InsertTyped
  <2> QED BY <2>1, <2>2, CountRests DEF Writing
<1>6. CASE SiteChanges \/ DbStops \/ DbStarts \/ UNCHANGED vars
  <2>1. UNCHANGED <<rows, told, unsure, poller>>
    BY <1>6 DEF SiteChanges, DbStops, DbStarts, vars
  <2> QED BY <2>1 DEF CountInv
<1> QED BY <1>1, <1>2, <1>3, <1>4, <1>5, <1>6 DEF Next, Poll

-----------------------------------------------------------------------------
(* The inductive invariant                                                  *)

\* A database from before units were recorded has stations and system rows.
LEMMA InitRows ==
  ASSUME Init
  PROVE  /\ \A r \in rows : r.table \in {"station", "system"} /\ r.ts \in Held /\ r \in RowType
         /\ Keyed(rows)
         /\ \A n \in Held : Has(rows, "station", n)
         /\ \A n : ~ Has(rows, "unit", n)
         /\ \A n : n \notin Held => ~ Has(rows, "station", n)
<1> DEFINE Old(n) == [ts |-> n, text |-> [t \in Tables |-> "number"]]
<1>1. rows = {Row(table, Old(n)) : table \in {"station", "system"}, n \in Held} BY DEF Init
<1>2. Held \subseteq Stamps BY PagesAssumption
<1>3. \A n \in Held : Old(n) \in [ts : Stamps, text : [Tables -> Texts]] BY <1>2 DEF Texts
<1>4. \A n : Old(n).ts = n OBVIOUS
<1> HIDE DEF Old
<1>5. \A r \in rows : \E table \in {"station", "system"}, n \in Held :
        r = Row(table, Old(n)) /\ r.table = table /\ r.ts = n
  BY <1>1, <1>4, RowFields
<1>6. \A table \in {"station", "system"}, n \in Held : Row(table, Old(n)) \in RowType
  BY <1>3 DEF RowType, Tables
<1>7. \A r \in rows : r.table \in {"station", "system"} /\ r.ts \in Held /\ r \in RowType
  BY <1>5, <1>6
<1>8. Keyed(rows) BY <1>5 DEF Keyed
<1>9. \A n \in Held : Has(rows, "station", n)
  <2> SUFFICES ASSUME NEW n \in Held PROVE Has(rows, "station", n) OBVIOUS
  <2>1. Row("station", Old(n)) \in rows BY <1>1
  <2>2. Row("station", Old(n)).table = "station" /\ Row("station", Old(n)).ts = n
    BY <1>4, RowFields
  <2> QED BY <2>1, <2>2 DEF Has
<1>10. \A n : ~ Has(rows, "unit", n) BY <1>7 DEF Has
<1>11. \A n : n \notin Held => ~ Has(rows, "station", n) BY <1>7 DEF Has
<1> QED BY <1>7, <1>8, <1>9, <1>10, <1>11

LEMMA InvInit == Init => Inv
<1> SUFFICES ASSUME Init PROVE Inv OBVIOUS
<1>1. /\ poller = Fresh /\ pending = {} /\ upset = TRUE /\ unsure = {} /\ note = "none"
      /\ told = [n \in Stamps |-> IF n \in Held THEN 1 ELSE 0]
      /\ db = [up |-> TRUE, stops |-> 0] /\ conn = "none" /\ site \in Gets
      /\ budget = [changes |-> MaxChanges, crashes |-> MaxCrashes]
  BY DEF Init
<1>2. Fresh.pc = "wait" /\ Fresh.outcome = "none" BY DEF Fresh
<1>3. TypeOK
  <2>1. told \in [Stamps -> Nat] BY <1>1
  <2>2. budget \in [changes : Nat, crashes : Nat] BY <1>1, ScraperBounds
  <2>3. poller \in PollerType BY <1>1, FreshTyped
  <2>4. db \in [up : BOOLEAN, stops : Nat] BY <1>1
  <2>5. rows \subseteq RowType BY InitRows
  <2>6. conn \in {"none", "live", "dead"} /\ site \in Gets /\ pending \subseteq RowType
        /\ note \in {"none", "ok", "http_error", "parse_error", "db_error"}
        /\ upset \in BOOLEAN /\ unsure \subseteq Stamps
    BY <1>1
  <2> QED BY <2>1, <2>2, <2>3, <2>4, <2>5, <2>6 DEF TypeOK, PollerType, Outcomes
<1>4. ClockInv BY <1>1, <1>2 DEF ClockInv
<1>5. PageInv BY <1>1, <1>2 DEF PageInv, Writing
<1>6. Keyed(rows) BY InitRows
<1>7. PendingInv BY <1>1, <1>2 DEF PendingInv, Through
<1>8. NoteInv BY <1>1, <1>2 DEF NoteInv
<1>9. CountInv
  <2>1. \A n \in Stamps : told[n] = Number(rows, n)
    <3> SUFFICES ASSUME NEW n \in Stamps PROVE told[n] = Number(rows, n) OBVIOUS
    <3>1. One(rows, "unit", n) = 0 BY InitRows DEF One
    <3>2. One(rows, "station", n) = IF n \in Held THEN 1 ELSE 0 BY InitRows DEF One
    <3> QED BY <1>1, <3>1, <3>2 DEF Number
  <2>2. \A n \in Stamps : told[n] <= Number(rows, n) BY <2>1, NumberNat
  <2> QED BY <1>1, <1>2, <2>1, <2>2 DEF CountInv
<1>10. WholeInv BY InitRows DEF WholeInv, OnePage
<1> QED BY <1>3, <1>4, <1>5, <1>6, <1>7, <1>8, <1>9, <1>10 DEF Inv

LEMMA InvStep == Inv /\ [Next]_vars => Inv'
<1> SUFFICES ASSUME Inv, [Next]_vars PROVE Inv' OBVIOUS
<1>1. /\ TypeOK /\ ClockInv /\ PageInv /\ Keyed(rows) /\ PendingInv
      /\ NoteInv /\ CountInv /\ WholeInv
  BY DEF Inv
<1>2. TypeOK' BY <1>1, TypeStep
<1>3. ClockInv' BY <1>1, ClockStep
<1>4. PageInv' BY <1>1, PageStep
<1>5. Keyed(rows)' BY <1>1, KeyedStep
<1>6. PendingInv' BY <1>1, PendingStep
<1>7. NoteInv' BY <1>1, NoteStep
<1>8. CountInv' BY <1>1, CountStep
<1>9. WholeInv' BY <1>1, WholeStep
<1> QED BY <1>2, <1>3, <1>4, <1>5, <1>6, <1>7, <1>8, <1>9 DEF Inv

LEMMA Invariance == Spec => []Inv
<1> QED BY InvInit, InvStep, PTL DEF Spec

-----------------------------------------------------------------------------
(* Theorems                                                                 *)

\* However long fetches and transactions take and however the site and the
\* database behave, poll.py begins no attempt, first or retried, outside the
\* interval of its own tick.
THEOREM NoRetryFiresLate == Spec => []NothingFiresLate
<1>1. Inv => NothingFiresLate BY TypeFacts DEF Inv, ClockInv, PollerType, NothingFiresLate
<1> QED BY <1>1, Invariance, PTL

\* What sldc_poll_log says of the attempts agrees with the tables and with the
\* failures met: `ok' is said of a page that is there, silence of an attempt
\* that a failure other than the site's upset, and rows_written adds up to the
\* rows, except for times whose row could not be written.
THEOREM TheLogAddsUp == Spec => []LogAddsUp
<1>1. Inv => LogAddsUp
  <2> SUFFICES ASSUME Inv PROVE LogAddsUp OBVIOUS
  <2>1. Keyed(rows) /\ TypeOK /\ NoteInv /\ CountInv BY DEF Inv
  <2>2. \A r \in rows : r.table \in Tables BY <2>1, TypeFacts
  <2>3. \A n \in Stamps : Cardinality({r \in rows : r.ts = n /\ r.table # "system"}) = Number(rows, n)
    BY <2>1, <2>2, CountedLemma DEF Counts
  <2>4. poller.pc = "wait" /\ note = "none" => upset BY <2>1 DEF NoteInv
  <2>5. poller.pc = "report" /\ note = "ok" =>
          \A table \in Tables : \E r \in rows : r.table = table /\ r.ts = poller.page.ts
    BY <2>1 DEF NoteInv, Has
  <2>6. \A n \in Stamps \ unsure : told[n] = Cardinality({r \in rows : r.ts = n /\ r.table # "system"})
    BY <2>1, <2>3 DEF CountInv
  <2>7. \A n \in Stamps : told[n] <= Cardinality({r \in rows : r.ts = n /\ r.table # "system"})
    BY <2>1, <2>3 DEF CountInv
  <2> QED BY <2>4, <2>5, <2>6, <2>7 DEF LogAddsUp
<1> QED BY <1>1, Invariance, PTL

\* The rows of a time that the archive holds in the three tables are of one
\* page and complete, unless they are from before units were recorded.
THEOREM WholePagesOnly == Spec => []PagesStayWhole
<1>1. Inv => PagesStayWhole BY DEF Inv, WholeInv, PagesStayWhole
<1> QED BY <1>1, Invariance, PTL
=============================================================================
