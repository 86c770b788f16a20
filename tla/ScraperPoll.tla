----------------------------- MODULE ScraperPoll -----------------------------
(***************************************************************************)
(* scraper/: a recorder that polls a public page on an absolute schedule,   *)
(* retries within its tick, and writes what the page published and how the   *)
(* attempt went to the archive (poll.py, parse.py, store.py).               *)
(*                                                                         *)
(* Time is relative to the moment the tick in hand was due (`clock'): only   *)
(* that difference matters to the code, and it makes the schedule endless.   *)
(* A page is its own timestamp and what each of its elements holds; one       *)
(* element stands for each of the three tables a page is written to.        *)
(***************************************************************************)
EXTENDS Integers, FiniteSets, Sequences

CONSTANTS
  Interval,      \* config.interval_s
  Backoffs,      \* config.retry_backoff_s
  FetchTimes,    \* how long a fetch may take (the timeout is per socket operation)
  DbTimes,       \* how long a transaction may take
  Pages,         \* pages that the site may serve
  Held,          \* timestamps whose stations were recorded before units were
  MaxChanges,    \* bound: times the site changes
  MaxStops,      \* bound: times the database goes away
  MaxCrashes     \* bound: times the recorder is killed

Tables == {"station", "unit", "system"}
Texts  == {"missing", "empty", "words", "number"}
Stamps == {page.ts : page \in Pages}

ASSUME IntervalAssumption == Interval \in Nat \ {0} /\ Backoffs \in Seq(Nat)
ASSUME TimesAssumption    == FetchTimes \subseteq Nat /\ DbTimes \subseteq Nat
ASSUME PagesAssumption    == Pages \subseteq [ts : Nat, text : [Tables -> Texts]] /\ Held \subseteq Stamps
ASSUME ScraperBounds      == MaxChanges \in Nat /\ MaxStops \in Nat /\ MaxCrashes \in Nat

VARIABLES
  site,      \* what a fetch gets: a page, or what is wrong
  db,        \* [up, stops]
  conn,      \* Archive._conn: "none", "live", or "dead" without knowing it
  rows,      \* the three tables
  pending,   \* what the open transaction has inserted
  told,      \* sum of rows_written in the ok rows of sldc_poll_log, by page_source_ts
  note,      \* outcome of the last attempt in sldc_poll_log, or "none"
  poller,
  budget,    \* changes and crashes left
  upset,     \* for the properties: the attempt met a failure besides the site's
  unsure     \* for the properties: timestamps with rows that no ok row tells of

vars == <<site, db, conn, rows, pending, told, note, poller, budget, upset, unsure>>

-----------------------------------------------------------------------------
(* parse                                                                    *)

\* _number: a value only from a number; a zero is a number.
Reading(text) ==
  [value   |-> text = "number",
   quality |-> CASE text = "missing" -> "BadNodeIdUnknown" [] text = "empty"  -> "BadNoData"
                 [] text = "words"   -> "BadDecodingError" [] text = "number" -> "Good"]

\* A row of a table; the page it was parsed from is for the properties.
Row(table, page) == [table |-> table, ts |-> page.ts, reading |-> Reading(page.text[table]), page |-> page]

Blank  == [table \in Tables |-> "missing"]
NoPage == [ts |-> 0, text |-> Blank]

\* What a fetch can get: a page; or nothing, a page without a timestamp it can
\* read, or what `fetch' has no FetchError for (an unknown charset).
Gets == [got : {"page"}, page : Pages] \cup [got : {"down", "untimed", "garbled"}, page : {NoPage}]

-----------------------------------------------------------------------------
(* run: the schedule                                                        *)

Fresh == [pc |-> "wait", clock |-> 0, attempt |-> 0, page |-> NoPage, outcome |-> "none", written |-> 0]

\* Mutant of StartsAt: what was missed is caught up with.
StartsAt_Burst(clock) == IF clock < 0 THEN 0 ELSE clock

\* Sleep until due; more than an interval late, skip to the last tick due.
StartsAt(clock) ==
  IF clock < 0 THEN 0 ELSE IF clock > Interval THEN clock % Interval ELSE clock

Begin ==
  /\ poller.pc = "wait"
  /\ poller' = [Fresh EXCEPT !.pc = "fetch", !.clock = StartsAt(poller.clock)]
  /\ note' = "none" /\ upset' = FALSE
  /\ UNCHANGED <<site, db, conn, rows, pending, told, budget, unsure>>

-----------------------------------------------------------------------------
(* poll_once                                                                *)

Goto(pc)          == poller' = [poller EXCEPT !.pc = pc]
End(outcome)      == poller' = [poller EXCEPT !.pc = "log", !.outcome = outcome]

\* Mutant of Discarded: the connection is kept.
Discarded_Kept == conn
Discarded == "none"

\* A fetch, and the parsing of what it got.
Fetch ==
  /\ poller.pc = "fetch"
  /\ \E d \in FetchTimes :
       \/ /\ site.got = "down" /\ poller' = [poller EXCEPT !.clock = @ + d, !.pc = "again"]
          /\ UNCHANGED <<conn, upset>>
       \/ /\ site.got = "untimed"
          /\ poller' = [poller EXCEPT !.clock = @ + d, !.pc = "log", !.outcome = "parse_error"]
          /\ UNCHANGED <<conn, upset>>
       \/ /\ site.got = "page"
          /\ poller' = [poller EXCEPT !.clock = @ + d, !.pc = "station", !.page = site.page]
          /\ UNCHANGED <<conn, upset>>
       \/ /\ site.got = "garbled" /\ poller' = [poller EXCEPT !.clock = @ + d, !.pc = "report"]
          /\ conn' = Discarded /\ upset' = TRUE
  /\ UNCHANGED <<site, db, rows, pending, told, note, budget, unsure>>

\* The next backoff ends before the next tick is due.
MayRetry ==
  /\ poller.attempt < Len(Backoffs)
  /\ Interval - poller.clock > Backoffs[poller.attempt + 1]

Again ==
  /\ poller.pc = "again"
  /\ IF MayRetry
     THEN poller' = [poller EXCEPT !.pc = "fetch", !.attempt = @ + 1,
                                   !.clock = @ + Backoffs[poller.attempt + 1]]
     ELSE End("http_error")
  /\ UNCHANGED <<site, db, conn, rows, pending, told, note, budget, upset, unsure>>

\* Archive.connection: one that is not closed is used, and may be dead.
Usable == db.up /\ conn # "dead"

\* Mutant of Inserted: a table without its key.
Inserted_Always(table, page) == {Row(table, page)}

\* ON CONFLICT (..., source_ts) DO NOTHING.
Inserted(table, page) ==
  IF \E r \in rows : r.table = table /\ r.ts = page.ts THEN {} ELSE {Row(table, page)}

After(table) == CASE table = "station" -> "unit" [] table = "unit" -> "system" [] table = "system" -> "commit"

\* write_reading: three inserts and a commit, one transaction.
Insert(table) ==
  /\ poller.pc = table /\ Usable
  /\ pending' = pending \cup Inserted(table, poller.page)
  /\ conn' = "live" /\ Goto(After(table))
  /\ UNCHANGED <<site, db, rows, told, note, budget, upset, unsure>>

\* Mutant of Written: what the page had, not what was inserted.
Written_Had == 2
\* stations and units; the system row does not count.
Written == Cardinality({r \in pending : r.table # "system"})

Commit ==
  /\ poller.pc = "commit" /\ Usable
  /\ rows' = rows \cup pending /\ pending' = {}
  /\ \E d \in DbTimes :
       poller' = [poller EXCEPT !.pc = "log", !.clock = @ + d, !.outcome = "ok", !.written = Written]
  /\ unsure' = IF Written > 0 THEN unsure \cup {poller.page.ts} ELSE unsure
  /\ UNCHANGED <<site, db, conn, told, note, budget, upset>>

\* psycopg.Error, also when it is the answer to a commit that was done.
WriteFails ==
  /\ poller.pc \in Tables \cup {"commit"}
  /\ \/ ~ Usable /\ UNCHANGED <<rows, unsure>>
     \/ /\ poller.pc = "commit" /\ Usable /\ rows' = rows \cup pending
        /\ unsure' = IF Written > 0 THEN unsure \cup {poller.page.ts} ELSE unsure
  /\ pending' = {} /\ conn' = Discarded /\ upset' = TRUE
  /\ \E d \in DbTimes : poller' = [poller EXCEPT !.pc = "log", !.clock = @ + d, !.outcome = "db_error"]
  /\ UNCHANGED <<site, db, told, note, budget>>

\* log_attempt, best effort.
Log ==
  /\ poller.pc = "log" /\ Usable
  /\ note' = poller.outcome
  /\ IF poller.outcome = "ok"
     THEN /\ told' = [told EXCEPT ![poller.page.ts] = @ + poller.written]
          /\ unsure' = IF poller.written > 0 THEN unsure \ {poller.page.ts} ELSE unsure
     ELSE UNCHANGED <<told, unsure>>
  /\ conn' \in {"live", Discarded} /\ Goto("report")
  /\ UNCHANGED <<site, db, rows, pending, budget, upset>>

LogFails ==
  /\ poller.pc = "log" /\ ~ Usable
  /\ conn' = Discarded /\ upset' = TRUE /\ Goto("report")
  /\ UNCHANGED <<site, db, rows, pending, told, note, budget, unsure>>

\* On the first tick of a day, report_daily; then on to the next tick.
Report ==
  /\ poller.pc = "report"
  /\ \/ UNCHANGED conn /\ poller' = [Fresh EXCEPT !.clock = poller.clock - Interval]
     \/ /\ conn' = IF Usable THEN "live" ELSE Discarded
        /\ \E d \in DbTimes : poller' = [Fresh EXCEPT !.clock = poller.clock + d - Interval]
  /\ UNCHANGED <<site, db, rows, pending, told, note, budget, upset, unsure>>

Poll == \/ Begin \/ Fetch \/ Again \/ (\E table \in Tables : Insert(table))
        \/ Commit \/ WriteFails \/ Log \/ LogFails \/ Report

-----------------------------------------------------------------------------
(* What happens to it                                                       *)

SiteChanges ==
  /\ budget.changes > 0 /\ budget' = [budget EXCEPT !.changes = @ - 1]
  /\ site' \in Gets \ {site}
  /\ UNCHANGED <<db, conn, rows, pending, told, note, poller, upset, unsure>>

\* An open transaction goes with the database; the recorder does not know.
DbStops ==
  /\ db.up /\ db.stops < MaxStops
  /\ db' = [up |-> FALSE, stops |-> db.stops + 1]
  /\ conn' = IF conn = "live" THEN "dead" ELSE conn
  /\ UNCHANGED <<site, rows, pending, told, note, poller, budget, upset, unsure>>

DbStarts ==
  /\ ~ db.up /\ db' = [db EXCEPT !.up = TRUE]
  /\ UNCHANGED <<site, conn, rows, pending, told, note, poller, budget, upset, unsure>>

\* launchd starts it again.
Crash ==
  /\ budget.crashes > 0 /\ budget' = [budget EXCEPT !.crashes = @ - 1]
  /\ poller' = Fresh /\ conn' = "none" /\ pending' = {} /\ upset' = TRUE
  /\ UNCHANGED <<site, db, rows, told, note, unsure>>

Init ==
  /\ site \in Gets /\ db = [up |-> TRUE, stops |-> 0] /\ conn = "none"
  /\ rows = {Row(table, [ts |-> n, text |-> [t \in Tables |-> "number"]]) : table \in {"station", "system"}, n \in Held}
  /\ told = [n \in Stamps |-> IF n \in Held THEN 1 ELSE 0]
  /\ pending = {} /\ note = "none" /\ poller = Fresh
  /\ budget = [changes |-> MaxChanges, crashes |-> MaxCrashes]
  /\ upset = TRUE /\ unsure = {}

Next == Poll \/ SiteChanges \/ DbStops \/ DbStarts \/ Crash
Spec == Init /\ [][Next]_vars
FairSpec == Spec /\ WF_vars(Poll) /\ WF_vars(DbStarts)
-----------------------------------------------------------------------------
(* Properties                                                               *)

RowType == {Row(table, page) : table \in Tables, page \in [ts : Stamps, text : [Tables -> Texts]]}

TypeOK ==
  /\ site \in Gets /\ db \in [up : BOOLEAN, stops : Nat] /\ conn \in {"none", "live", "dead"}
  /\ rows \subseteq RowType /\ pending \subseteq RowType
  /\ told \in [Stamps -> Nat]
  /\ note \in {"none", "ok", "http_error", "parse_error", "db_error"}
  /\ poller \in [pc : {"wait", "fetch", "again", "log", "report", "commit"} \cup Tables, clock : Int,
                 attempt : 0 .. Len(Backoffs), page : Pages \cup {NoPage},
                 outcome : {"none", "ok", "http_error", "parse_error", "db_error"}, written : Nat]
  /\ budget \in [changes : Nat, crashes : Nat]
  /\ upset \in BOOLEAN /\ unsure \subseteq Stamps

\* "We never queue up retries that would fire late" (poll.py:12): however long
\* fetches and transactions take, an attempt begins within its own tick's
\* interval, and what was missed is skipped.
NothingFiresLate == poller.pc = "fetch" => poller.clock \in 0 .. Interval

\* The stations, units and system values that the archive holds for a time
\* are all of one page as it was fetched once (a database that holds stations
\* from before units were recorded aside): unit sums and totals can be compared.
OnePage(n) ==
  /\ \A a, b \in rows : a.ts = n /\ b.ts = n => a.page = b.page /\ (a.table = b.table => a = b)
  /\ \A a \in rows : a.ts = n => \A table \in Tables : \E b \in rows : b.ts = n /\ b.table = table

\* sldc_poll_log tells the recorder that is alive and fails from one that is
\* dead: a tick that left no row met a failure of the database or worse, `ok'
\* means that the page is in the archive, and the rows written add up to the
\* rows there are, except where the row itself could not be written.
LogAddsUp ==
  /\ poller.pc = "wait" /\ note = "none" => upset
  /\ poller.pc = "report" /\ note = "ok" =>
       \A table \in Tables : \E r \in rows : r.table = table /\ r.ts = poller.page.ts
  /\ \A n \in Stamps \ unsure : told[n] = Cardinality({r \in rows : r.ts = n /\ r.table # "system"})
  /\ \A n \in Stamps : told[n] <= Cardinality({r \in rows : r.ts = n /\ r.table # "system"})

\* A page is recorded whole or not at all, and never mixed with what the site
\* later published under the same time.
PagesStayWhole == TypeOK /\ \A n \in Stamps \ Held : OnePage(n)

\* "The database coming back is then just the next tick succeeding"
\* (poll.py:225), the site too: what the site goes on publishing is recorded.
Recovers ==
  \A page \in Pages :
    <>[](site.got = "page" /\ site.page = page) => <>[](\A table \in Tables : \E r \in rows : r.table = table /\ r.ts = page.ts)

-----------------------------------------------------------------------------
(* What the documentation says and the code does not do: no run checks it;  *)
(* the README says on which instance TLC refutes it.                         *)

\* "this tick is abandoned and logged, and the next one starts on time"
\* (poll.py:11).
TicksStartOnTime == poller.pc = "fetch" /\ poller.attempt = 0 => poller.clock = 0
=============================================================================
