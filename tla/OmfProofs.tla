------------------------------ MODULE OmfProofs ------------------------------
(***************************************************************************)
(* Theorems about OmfSink, for every set of tags, batch and buffer size.    *)
(*                                                                         *)
(*   StoredIsAcquired    Spec => []StoredAsMade                            *)
(*   NothingElseIsLost   Spec => []InCustody                               *)
(*                                                                         *)
(* The samples that are neither stored nor gone form one line: the buffer,  *)
(* the forwarder's batch, the queue, each in the order of source timestamps *)
(* and each before the next (InLine).  What is posted is always the front   *)
(* of that line, because the buffer is empty whenever the forwarder writes  *)
(* a batch (InHand), and so is what a full buffer discards; so a stored or  *)
(* discarded sample has nothing older behind it.                            *)
(***************************************************************************)
EXTENDS OmfSink, Extrema

-----------------------------------------------------------------------------
(* Samples, sequences of them, and their order.                             *)

Message == [tag : Tags, ts : Nat, server : Nat \cup {None}, value : Nat \cup {None}, quality : BOOLEAN]

\* Everything in s is older than everything in t.
Before(s, t) == \A a \in Range(s), b \in Range(t) : a.ts < b.ts

LEMMA SampleIsMessage ==
  ASSUME NEW n \in Nat, NEW tag \in Tags, NEW kind
  PROVE  Sample(n, tag, kind) \in Message /\ Sample(n, tag, kind).ts = n
BY DEF Sample, Message

\* The row that the receiver stores of a sample is the sample.
LEMMA RowOfBody ==
  ASSUME NEW s \in Message
  PROVE  Row(s.tag, Body(s)) = s
BY DEF Row, Body, Message

LEMMA EmptyLine ==
  /\ Range(<<>>) = {} /\ Ascending(<<>>)
  /\ \A s : Before(<<>>, s) /\ Before(s, <<>>)
BY DEF Range, Ascending, Before

LEMMA LineOfSet ==
  ASSUME NEW S, NEW s \in Seq(S)
  PROVE  Range(s) \subseteq S /\ (\A T : S \subseteq T => s \in Seq(T)) /\ (s # <<>> => Range(s) # {})
BY DEF Range

LEMMA Concatenated ==
  ASSUME NEW S \in SUBSET Message, NEW s \in Seq(S), NEW t \in Seq(S)
  PROVE  /\ s \o t \in Seq(S)
         /\ Range(s \o t) = Range(s) \cup Range(t)
         /\ Ascending(s) /\ Ascending(t) /\ Before(s, t) => Ascending(s \o t)
<1>1. s \o t \in Seq(S) /\ Len(s \o t) = Len(s) + Len(t)
  OBVIOUS
<1>2. \A i \in 1 .. Len(s) : (s \o t)[i] = s[i] /\ s[i] \in Range(s)
  BY DEF Range
<1>3. \A i \in 1 .. Len(t) : (s \o t)[Len(s) + i] = t[i] /\ t[i] \in Range(t)
  BY DEF Range
<1>4. \A i \in 1 .. Len(s \o t) : i \in 1 .. Len(s) \/ (i - Len(s) \in 1 .. Len(t) /\ i = Len(s) + (i - Len(s)))
  BY <1>1
<1>5. Range(s \o t) = Range(s) \cup Range(t)
  <2>1. Range(s \o t) \subseteq Range(s) \cup Range(t)
    BY <1>1, <1>2, <1>3, <1>4 DEF Range
  <2>2. Range(s) \subseteq Range(s \o t)
    BY <1>1, <1>2 DEF Range
  <2>3. Range(t) \subseteq Range(s \o t)
    <3> SUFFICES ASSUME NEW i \in 1 .. Len(t) PROVE t[i] \in Range(s \o t)
      BY DEF Range
    <3>1. Len(s) + i \in 1 .. Len(s \o t) /\ (s \o t)[Len(s) + i] = t[i]
      BY <1>1, <1>3
    <3> QED BY <1>1, <3>1 DEF Range
  <2> QED BY <2>1, <2>2, <2>3
<1>6. ASSUME Ascending(s), Ascending(t), Before(s, t)
      PROVE  Ascending(s \o t)
  <2> SUFFICES ASSUME NEW i \in 1 .. Len(s \o t), NEW j \in 1 .. Len(s \o t), i < j
               PROVE  (s \o t)[i].ts < (s \o t)[j].ts
    BY <1>1 DEF Ascending
  <2>1. CASE j \in 1 .. Len(s)
    <3>1. i \in 1 .. Len(s)
      BY <2>1
    <3> QED BY <1>2, <1>6, <2>1, <3>1 DEF Ascending
  <2>2. CASE i \in 1 .. Len(s) /\ j \notin 1 .. Len(s)
    <3>1. (s \o t)[i] \in Range(s) /\ (s \o t)[j] \in Range(t)
      BY <1>2, <1>3, <1>4, <2>2
    <3> QED BY <1>6, <3>1 DEF Before
  <2>3. CASE i \notin 1 .. Len(s)
    <3>1. j \notin 1 .. Len(s)
      BY <2>3
    <3>2. /\ i - Len(s) \in 1 .. Len(t) /\ j - Len(s) \in 1 .. Len(t) /\ i - Len(s) < j - Len(s)
          /\ (s \o t)[i] = t[i - Len(s)] /\ (s \o t)[j] = t[j - Len(s)]
      BY <1>1, <1>3, <1>4, <2>3, <3>1
    <3> QED BY <1>6, <3>2 DEF Ascending
  <2> QED BY <1>4, <2>1, <2>2, <2>3
<1> QED BY <1>1, <1>5, <1>6

LEMMA CutInTwo ==
  ASSUME NEW S \in SUBSET Message, NEW s \in Seq(S), NEW n \in 0 .. Len(s), Ascending(s)
  PROVE  /\ SubSeq(s, 1, n) \in Seq(S) /\ SubSeq(s, n + 1, Len(s)) \in Seq(S)
         /\ Range(s) = Range(SubSeq(s, 1, n)) \cup Range(SubSeq(s, n + 1, Len(s)))
         /\ Ascending(SubSeq(s, n + 1, Len(s)))
         /\ Before(SubSeq(s, 1, n), SubSeq(s, n + 1, Len(s)))
         /\ Len(SubSeq(s, 1, n)) = n
<1> DEFINE front == SubSeq(s, 1, n)
           rest  == SubSeq(s, n + 1, Len(s))
<1>1. front \in Seq(S) /\ Len(front) = n /\ \A i \in 1 .. n : front[i] = s[i]
  OBVIOUS
<1>2. rest \in Seq(S) /\ Len(rest) = Len(s) - n /\ \A i \in 1 .. Len(s) - n : rest[i] = s[n + i]
  OBVIOUS
<1>3. \A i \in 1 .. Len(s) : i \in 1 .. n \/ (i - n \in 1 .. Len(s) - n /\ i = n + (i - n))
  OBVIOUS
<1>4. \A i \in 1 .. n, j \in 1 .. Len(s) - n : i \in 1 .. Len(s) /\ n + j \in 1 .. Len(s) /\ i < n + j
  OBVIOUS
<1> HIDE DEF front, rest
<1>5. ASSUME NEW i \in 1 .. Len(s) PROVE s[i] \in Range(front) \cup Range(rest)
  <2>1. CASE i \in 1 .. n
    BY <1>1, <2>1 DEF Range
  <2>2. CASE i - n \in 1 .. Len(s) - n
    <3>1. rest[i - n] = s[i]
      BY <1>2, <2>2
    <3> QED BY <1>2, <2>2, <3>1 DEF Range
  <2> QED BY <1>3, <2>1, <2>2
<1>6. Range(front) \subseteq Range(s)
  <2>1. \A i \in 1 .. n : i \in 1 .. Len(s)
    OBVIOUS
  <2> QED BY <1>1, <2>1 DEF Range
<1>7. Range(rest) \subseteq Range(s)
  <2> SUFFICES ASSUME NEW i \in 1 .. Len(s) - n PROVE rest[i] \in Range(s)
    BY <1>2 DEF Range
  <2>1. n + i \in 1 .. Len(s) /\ rest[i] = s[n + i]
    BY <1>2
  <2> QED BY <2>1 DEF Range
<1>8. Range(s) = Range(front) \cup Range(rest)
  <2>1. Range(s) \subseteq Range(front) \cup Range(rest)
    BY <1>5 DEF Range
  <2> QED BY <1>6, <1>7, <2>1
<1>9. Ascending(rest)
  <2> SUFFICES ASSUME NEW i \in 1 .. Len(s) - n, NEW j \in 1 .. Len(s) - n, i < j
               PROVE  rest[i].ts < rest[j].ts
    BY <1>2 DEF Ascending
  <2>1. n + i \in DOMAIN s /\ n + j \in DOMAIN s /\ n + i < n + j
    OBVIOUS
  <2> QED BY <1>2, <2>1 DEF Ascending
<1>10. Before(front, rest)
  <2> SUFFICES ASSUME NEW a \in Range(front), NEW b \in Range(rest)
               PROVE  a.ts < b.ts
    BY DEF Before
  <2>1. PICK i \in 1 .. n : a = s[i]
    BY <1>1 DEF Range
  <2>2. PICK j \in 1 .. Len(s) - n : b = s[n + j]
    BY <1>2 DEF Range
  <2> QED BY <1>4, <2>1, <2>2 DEF Ascending
<1> QED BY <1>1, <1>2, <1>8, <1>9, <1>10 DEF front, rest
-----------------------------------------------------------------------------
(* The inductive invariant.                                                 *)

Places == {"wait", "connect", "register", "tags", "tasks", "write", "drain", "forget", "losses", "ended", "stopped"}
Forwarders(S) == [at : Places, why : {"start", "recover", "write"}, link : BOOLEAN, batch : Seq(S)]

Typed ==
  /\ setting \in Setting
  /\ made \subseteq Message /\ IsFiniteSet(made)
  /\ stored \subseteq made /\ Gone \subseteq made
  /\ queue \in Seq(made) /\ buffer \in Seq(made) /\ Len(buffer) <= MaxRows
  /\ fwd \in Forwarders(made)
  /\ receiver \in [up : BOOLEAN, types : BOOLEAN, containers : SUBSET Tags]
  /\ receiver.containers # {} => receiver.types

\* Samples are numbered from 1 on, in the order in which they are made.
Numbered ==
  /\ \A s \in made : s.ts \in 1 .. Cardinality(made)
  /\ \A s, r \in made : s.ts = r.ts => s = r

\* A batch is in hand only between Collect and the answer to its post; once it is
\* complete, and whenever the link is up, the buffer is empty unless it is being
\* drained.  What is to be forgotten is stored.
InHand ==
  /\ fwd.batch # <<>> => fwd.at \in {"wait", "write", "connect", "register"}
  /\ fwd.batch # <<>> /\ fwd.at # "wait" => fwd.link
  /\ fwd.at \in {"connect", "register"} => (fwd.batch # <<>> <=> fwd.why = "write")
  /\ fwd.at = "write" => fwd.batch # <<>>
  /\ fwd.at = "wait" => fwd.why = "recover"
  /\ fwd.at \in {"drain", "forget", "losses"} => fwd.why # "write"
  /\ fwd.at \in {"tags", "tasks"} => fwd.why = "start"
  /\ fwd.link /\ fwd.at \notin {"drain", "forget"} => buffer = <<>>
  /\ fwd.at = "forget" => Range(Round(buffer)) \subseteq stored

InLine ==
  /\ Ascending(buffer) /\ Ascending(fwd.batch) /\ Ascending(queue)
  /\ Before(buffer, fwd.batch) /\ Before(buffer, queue) /\ Before(fwd.batch, queue)

Held == Range(buffer) \cup Range(fwd.batch) \cup Range(queue)
Accounted == made \subseteq stored \cup Gone \cup Held
OldestFirst == \A s \in made, r \in stored \cup OnRecord : s.ts < r.ts => s \in stored \cup Gone

Inv == Typed /\ Numbered /\ InHand /\ InLine /\ Accounted /\ OldestFirst

LEMMA InvImplies ==
  Inv => StoredAsMade /\ InCustody
<1> SUFFICES ASSUME Inv PROVE StoredAsMade /\ InCustody
  OBVIOUS
<1>1. TypeOK
  BY DEF Inv, Typed, Forwarders, Places, InHand, InLine, TypeOK
<1> QED BY <1>1 DEF Inv, Typed, Accounted, OldestFirst, Held, StoredAsMade, InCustody

-----------------------------------------------------------------------------
(* What is kept, and what a post does to the archive.                       *)

\* A round of drain is the front of what it is taken from.
LEMMA RoundIsFront ==
  ASSUME NEW S \in SUBSET Message, NEW s \in Seq(S), Ascending(s)
  PROVE  LET rest == SubSeq(s, Len(Round(s)) + 1, Len(s))
         IN /\ Round(s) \in Seq(S) /\ rest \in Seq(S) /\ Len(rest) <= Len(s)
            /\ Range(s) = Range(Round(s)) \cup Range(rest)
            /\ Ascending(rest) /\ Before(Round(s), rest)
<1> DEFINE n == Min({BatchSize, Len(s)})
<1>1. {BatchSize, Len(s)} \subseteq Nat /\ {BatchSize, Len(s)} # {}
  BY BatchAssumption
<1>2. n \in {BatchSize, Len(s)} /\ n <= Len(s)
  BY <1>1, MinIsLeast
<1>3. n \in 0 .. Len(s)
  BY <1>1, <1>2
<1> HIDE DEF n
<1>4. Round(s) = SubSeq(s, 1, n)
  BY DEF Round, n
<1>5. Len(Round(s)) = n
  BY <1>3, <1>4, CutInTwo
<1>6. Len(SubSeq(s, n + 1, Len(s))) <= Len(s)
  BY <1>3
<1> QED BY <1>3, <1>4, <1>5, <1>6, CutInTwo

\* A batch that is put behind the buffer, with rest behind it: the buffer stays
\* within its bound and in line, and what it discards was the front of the line.
LEMMA KeptInLine ==
  ASSUME Typed, NEW b \in Seq(made), NEW rest \in Seq(made), Keep(b),
         Ascending(buffer), Ascending(b), Before(buffer, b), Before(buffer, rest), Before(b, rest),
         made \subseteq stored \cup Gone \cup Range(buffer) \cup Range(b) \cup Range(rest)
  PROVE  /\ buffer' = Kept(b) /\ buffer' \in Seq(made) /\ Len(buffer') <= MaxRows
         /\ Ascending(buffer') /\ Before(buffer', rest)
         /\ records \subseteq records' /\ records' \subseteq made
         /\ Range(buffer) \cup Range(b) \subseteq Range(buffer') \cup records'
         /\ Range(buffer') \subseteq Range(buffer) \cup Range(b)
         /\ \A s \in made, r \in records' \ records : s.ts < r.ts => s \in stored \cup Gone \cup records'
<1> DEFINE all == buffer \o b
           n   == Excess(b)
<1>1. made \in SUBSET Message /\ buffer \in Seq(made) /\ Gone \subseteq made
  BY DEF Typed
<1>2. all \in Seq(made) /\ Range(all) = Range(buffer) \cup Range(b) /\ Ascending(all)
  BY <1>1, Concatenated
<1>3. Len(all) = Len(buffer) + Len(b) /\ Len(buffer) \in Nat /\ Len(b) \in Nat /\ MaxRows \in Nat /\ MaxRows > 0
  BY <1>1, RowsAssumption
<1>4. n \in 0 .. Len(all) /\ Len(all) - n <= MaxRows
  <2> DEFINE m == Len(buffer) + Len(b)
             least == Min({m, MaxRows})
  <2>1. {m, MaxRows} \subseteq Nat /\ {m, MaxRows} # {}
    BY <1>3
  <2>2. least \in {m, MaxRows} /\ least <= m /\ least <= MaxRows
    <3> HIDE DEF m
    <3> QED BY <2>1, MinIsLeast
  <2>3. n = m - least
    BY DEF Excess
  <2> HIDE DEF least, n
  <2> QED BY <1>3, <2>1, <2>2, <2>3
<1>5. buffer' = SubSeq(all, n + 1, Len(all)) /\ buffer' = Kept(b) /\ records' = records \cup Range(SubSeq(all, 1, n))
  BY <1>3 DEF Keep, Kept, Discarded
<1> HIDE DEF all, n
<1> DEFINE front == SubSeq(all, 1, n)
<1>6. /\ front \in Seq(made) /\ buffer' \in Seq(made) /\ Ascending(buffer')
      /\ Range(all) = Range(front) \cup Range(buffer') /\ Before(front, buffer')
  BY <1>1, <1>2, <1>4, <1>5, CutInTwo
<1>7. Len(buffer') <= MaxRows
  BY <1>2, <1>4, <1>5
<1>8. records' = records \cup Range(front) /\ Range(front) \subseteq made
  BY <1>5, <1>6, LineOfSet
<1> HIDE DEF front
<1>9. Before(buffer', rest) /\ Before(front, rest)
  BY <1>2, <1>6 DEF Before
<1>10. ASSUME NEW s \in made, NEW r \in records' \ records, s.ts < r.ts
       PROVE  s \in stored \cup Gone \cup records'
  <2>1. r \in Range(front) /\ r \in made /\ r.ts \in Nat /\ s.ts \in Nat
    BY <1>1, <1>8, <1>10 DEF Message
  <2>2. s \notin Range(buffer') \cup Range(rest)
    <3> SUFFICES ASSUME s \in Range(buffer') \cup Range(rest) PROVE FALSE
      OBVIOUS
    <3>1. r.ts < s.ts
      BY <1>6, <1>9, <2>1 DEF Before
    <3> QED BY <1>10, <2>1, <3>1
  <2> QED BY <1>2, <1>6, <1>8, <2>2
<1>11. records' \subseteq made
  BY <1>1, <1>8 DEF Gone, OnRecord
<1> QED BY <1>2, <1>5, <1>6, <1>7, <1>8, <1>9, <1>10, <1>11

LEMMA Inserted ==
  ASSUME Typed, Numbered, NEW s \in Seq(made)
  PROVE  Insert({Row(x.tag, Body(x)) : x \in Range(s)}) = stored \cup Range(s)
<1> DEFINE rows == {Row(x.tag, Body(x)) : x \in Range(s)}
<1>1. Range(s) \subseteq made
  BY LineOfSet
<1>2. rows = Range(s)
  <2>1. \A x \in Range(s) : Row(x.tag, Body(x)) = x
    BY <1>1, RowOfBody DEF Typed
  <2> QED BY <2>1
<1> HIDE DEF rows
<1>3. ASSUME NEW r \in Range(s), r \notin stored
      PROVE  \A old \in stored : old.tag # r.tag \/ old.ts # r.ts
  BY <1>1, <1>3 DEF Typed, Numbered
<1>4. Insert(rows) = stored \cup Range(s)
  BY <1>2, <1>3 DEF Insert
<1> QED BY <1>4 DEF rows

LEMMA Posted ==
  ASSUME Typed, Numbered, NEW s \in Seq(made), NEW p \in Posts(s), Settle(p)
  PROVE  /\ setting' \in Setting
         /\ stored' \in {stored, stored \cup Range(s)} /\ stored' \subseteq made
         /\ p.ok => Range(s) \subseteq stored'
         /\ p.ok \in BOOLEAN
<1>1. Range(s) \subseteq made
  BY LineOfSet
<1>2. /\ p.rows \in {stored, stored \cup Range(s)}
      /\ p.ok => p.rows = stored \cup Range(s)
      /\ p.ok \in BOOLEAN
      /\ p.cut => Budget("lose")
  <2> DEFINE rows == Insert({Row(x.tag, Body(x)) : x \in Range(s)})
  <2>1. rows = stored \cup Range(s)
    BY Inserted
  <2>2. Posts(s) =
          IF Accepted(s)
          THEN {[rows |-> rows, ok |-> TRUE, cut |-> FALSE]}
               \cup {[rows |-> r, ok |-> FALSE, cut |-> TRUE] : r \in IF Budget("lose") THEN {rows, stored} ELSE {}}
          ELSE {[rows |-> stored, ok |-> FALSE, cut |-> FALSE]}
    BY DEF Posts
  <2> HIDE DEF rows
  <2>3. \/ p = [rows |-> rows, ok |-> TRUE, cut |-> FALSE]
        \/ p = [rows |-> stored, ok |-> FALSE, cut |-> FALSE]
        \/ Budget("lose") /\ \E r \in {rows, stored} : p = [rows |-> r, ok |-> FALSE, cut |-> TRUE]
    BY <2>2
  <2>4. p.ok \in BOOLEAN
    <3>1. p.ok = TRUE \/ p.ok = FALSE
      BY <2>3
    <3> QED BY <3>1
  <2>5. p.rows \in {stored, rows} /\ (p.ok => p.rows = rows) /\ (p.cut => Budget("lose"))
    BY <2>3
  <2> QED BY <2>1, <2>4, <2>5
<1>3. stored' = p.rows
  BY DEF Settle
<1>4. setting' \in Setting
  <2>1. CASE ~ p.cut
    BY <2>1 DEF Settle, Typed
  <2>2. CASE p.cut
    <3>1. setting.lose \in Nat /\ setting.lose > 0
      BY <1>2, <2>2 DEF Budget, Typed, Setting
    <3>2. setting' = [setting EXCEPT !.lose = @ - 1]
      BY <2>2 DEF Settle, Spent
    <3>3. setting.lose - 1 \in Nat
      BY <3>1
    <3> QED BY <3>2, <3>3 DEF Typed, Setting
  <2> QED BY <2>1, <2>2
<1> QED BY <1>1, <1>2, <1>3, <1>4 DEF Typed

\* A forwarder whose batch is taken from it, also when it is stopped.
LEMMA HandEmptied ==
  ASSUME NEW S, fwd \in Forwarders(S), NEW p \in Places
  PROVE  /\ [fwd EXCEPT !.at = p, !.batch = <<>>] \in Forwarders(S)
         /\ [fwd EXCEPT !.at = p, !.link = FALSE, !.batch = <<>>] \in Forwarders(S)
<1>1. <<>> \in Seq(S)
  OBVIOUS
<1>2. ASSUME NEW b \in Seq(S)
      PROVE  /\ [fwd EXCEPT !.at = p, !.batch = b] \in Forwarders(S)
             /\ [fwd EXCEPT !.at = p, !.link = FALSE, !.batch = b] \in Forwarders(S)
  BY DEF Forwarders
<1> QED BY <1>1, <1>2

\* One of the bounds of a setting is used up by one.
LEMMA SpentSetting ==
  ASSUME Typed, NEW what \in {"db", "receiver", "lose", "stops"}, Budget(what)
  PROVE  Spent(what) \in Setting
<1>1. setting \in Setting /\ setting[what] \in Nat /\ setting[what] > 0
  BY DEF Typed, Setting, Budget
<1>2. setting[what] - 1 \in Nat
  BY <1>1
<1> QED BY <1>1, <1>2 DEF Spent, Setting

-----------------------------------------------------------------------------
(* The steps.                                                               *)

\* A step that moves no sample.
LEMMA SameLine ==
  ASSUME Inv, UNCHANGED <<made, losses, queue, buffer, stored>>, fwd'.batch = fwd.batch
  PROVE  Numbered' /\ InLine' /\ Accounted' /\ OldestFirst'
BY DEF Inv, Numbered, InLine, Accounted, OldestFirst, Held, Gone, OnRecord, losses

\* A step after which only the front of the line is newly stored or on record.
LEMMA StillOldest ==
  ASSUME OldestFirst, made' = made, stored \subseteq stored', Gone \subseteq Gone',
         \A s \in made, r \in (stored' \ stored) \cup (OnRecord' \ OnRecord) : s.ts < r.ts => s \in stored' \cup Gone'
  PROVE  OldestFirst'
BY DEF OldestFirst

\* A step that does nothing with samples but put the forwarder's batch into the buffer.
LEMMA BatchKept ==
  ASSUME Inv, Keep(fwd.batch), UNCHANGED <<made, lost, dropped, ledger, queue, stored>>, fwd'.batch = <<>>
  PROVE  /\ buffer' \in Seq(made) /\ Len(buffer') <= MaxRows /\ Gone' \subseteq made
         /\ Numbered' /\ InLine' /\ Accounted' /\ OldestFirst'
<1>1. Typed /\ Numbered /\ InLine /\ Accounted /\ OldestFirst
  BY DEF Inv
<1>2. fwd.batch \in Seq(made) /\ queue \in Seq(made) /\ Gone \subseteq made
  BY <1>1 DEF Typed, Forwarders
<1>3. made \subseteq stored \cup Gone \cup Range(buffer) \cup Range(fwd.batch) \cup Range(queue)
  BY <1>1 DEF Accounted, Held
<1>4. /\ buffer' \in Seq(made) /\ Len(buffer') <= MaxRows
      /\ Ascending(buffer') /\ Before(buffer', queue)
      /\ records \subseteq records' /\ records' \subseteq made
      /\ Range(buffer) \cup Range(fwd.batch) \subseteq Range(buffer') \cup records'
      /\ \A s \in made, r \in records' \ records : s.ts < r.ts => s \in stored \cup Gone \cup records'
  BY <1>1, <1>2, <1>3, KeptInLine DEF InLine
<1>5. Gone' = Gone \cup records' /\ OnRecord' = OnRecord \cup records'
  BY <1>4 DEF Gone, OnRecord
<1>6. Accounted'
  BY <1>3, <1>4, <1>5, EmptyLine DEF Accounted, Held
<1>7. OldestFirst'
  <2>1. \A s \in made, r \in (stored' \ stored) \cup (OnRecord' \ OnRecord) : s.ts < r.ts => s \in stored' \cup Gone'
    BY <1>4, <1>5 DEF OnRecord
  <2> QED BY <1>1, <1>5, <2>1, StillOldest
<1>8. Numbered' /\ InLine'
  BY <1>1, <1>4, EmptyLine DEF Numbered, InLine
<1> QED BY <1>2, <1>4, <1>5, <1>6, <1>7, <1>8

LEMMA CollectStep == ASSUME Inv, Collect PROVE Inv'
<1>1. /\ Typed /\ Numbered /\ InHand /\ InLine /\ Accounted /\ OldestFirst
      /\ fwd.at = "wait" /\ queue # <<>>
      /\ fwd' = [fwd EXCEPT !.batch = Append(fwd.batch, Head(queue))] /\ queue' = Tail(queue)
      /\ UNCHANGED <<setting, made, losses, buffer, sink, receiver, db, stored>>
  BY DEF Inv, Collect
<1>2. made \in SUBSET Message /\ fwd.batch \in Seq(made) /\ queue \in Seq(made)
  BY <1>1 DEF Typed, Forwarders
<1> DEFINE h == SubSeq(queue, 1, 1)
           t == SubSeq(queue, 1 + 1, Len(queue))
<1>3. 1 \in 0 .. Len(queue) /\ queue' = t /\ h = <<Head(queue)>>
  <2>1. Len(queue) \in Nat /\ Len(queue) > 0 /\ Head(queue) = queue[1] /\ Tail(queue) = SubSeq(queue, 2, Len(queue))
    BY <1>1, <1>2
  <2>2. h = <<queue[1]>>
    <3>1. h \in Seq(made) /\ Len(h) = 1 /\ h[1] = queue[1]
      BY <1>2, <2>1
    <3> HIDE DEF h
    <3> QED BY <3>1
  <2>3. queue' = t
    BY <1>1, <2>1
  <2> QED BY <2>1, <2>2, <2>3
<1>4. /\ h \in Seq(made) /\ queue' \in Seq(made) /\ Range(queue) = Range(h) \cup Range(queue')
      /\ Ascending(queue') /\ Before(h, queue')
  <2>1. Ascending(queue)
    BY <1>1 DEF InLine
  <2>2. /\ h \in Seq(made) /\ t \in Seq(made) /\ Range(queue) = Range(h) \cup Range(t)
        /\ Ascending(t) /\ Before(h, t)
    BY <1>2, <1>3, <2>1, CutInTwo
  <2> HIDE DEF h, t
  <2> QED BY <1>3, <2>2
<1>5. Ascending(h)
  BY <1>3 DEF Ascending
<1>6. fwd'.batch = fwd.batch \o h
  <2>1. fwd'.batch = Append(fwd.batch, Head(queue))
    BY <1>1 DEF Typed, Forwarders
  <2> QED BY <1>2, <1>3, <2>1
<1> HIDE DEF h
<1>7. Before(fwd.batch, h) /\ Before(buffer, h) /\ Before(fwd.batch, queue') /\ Before(buffer, queue')
  BY <1>1, <1>4 DEF InLine, Before
<1>8. /\ fwd'.batch \in Seq(made) /\ Range(fwd'.batch) = Range(fwd.batch) \cup Range(h)
      /\ Ascending(fwd'.batch)
  <2>1. Ascending(fwd.batch)
    BY <1>1 DEF InLine
  <2> DEFINE b == fwd.batch
  <2>2. b \in Seq(made) /\ h \in Seq(made) /\ Ascending(b) /\ Ascending(h) /\ Before(b, h)
    BY <1>2, <1>4, <1>5, <1>7, <2>1
  <2> HIDE DEF b
  <2>3. b \o h \in Seq(made) /\ Range(b \o h) = Range(b) \cup Range(h) /\ Ascending(b \o h)
    BY <1>2, <2>2, Concatenated
  <2> QED BY <1>6, <2>3 DEF b
<1>9. fwd'.at = "wait" /\ fwd'.why = fwd.why /\ fwd'.link = fwd.link /\ fwd' \in Forwarders(made)
  BY <1>1, <1>8 DEF Typed, Forwarders
<1>10. Typed'
  BY <1>1, <1>4, <1>9 DEF Typed, losses, Gone, OnRecord
<1>11. InHand'
  BY <1>1, <1>9 DEF InHand
<1>12. InLine'
  BY <1>1, <1>4, <1>7, <1>8 DEF InLine, Before
<1>13. Accounted'
  BY <1>1, <1>4, <1>8 DEF Accounted, Held, losses, Gone, OnRecord
<1>14. Numbered' /\ OldestFirst'
  BY <1>1 DEF Numbered, OldestFirst, losses, Gone, OnRecord
<1> QED BY <1>10, <1>11, <1>12, <1>13, <1>14 DEF Inv

LEMMA TakeStep == ASSUME Inv, Take PROVE Inv'
<1>1. Typed /\ InHand /\ fwd.at = "wait" /\ fwd.why = "recover"
  BY DEF Inv, InHand, Take
<1>2. CASE fwd.batch # <<>> /\ fwd.link /\ fwd' = At("write") /\ UNCHANGED <<buffer, records>>
  <2>1. fwd'.batch = fwd.batch /\ fwd'.link /\ fwd'.at = "write" /\ fwd'.why = fwd.why
    BY <1>1, <1>2 DEF At, Typed, Forwarders
  <2>2. Typed'
    BY <1>1, <1>2 DEF Typed, Forwarders, Places, At, Take, Gone, OnRecord
  <2>3. InHand'
    BY <1>1, <1>2, <2>1 DEF InHand
  <2> QED BY <1>2, <2>1, <2>2, <2>3, SameLine DEF Inv, Take, losses
<1>3. CASE ~ fwd.link /\ fwd' = [fwd EXCEPT !.at = "connect", !.batch = <<>>] /\ Keep(fwd.batch)
  <2>1. fwd'.batch = <<>> /\ ~ fwd'.link /\ fwd'.at = "connect" /\ fwd'.why = "recover"
    BY <1>1, <1>3 DEF Typed, Forwarders
  <2>2. /\ buffer' \in Seq(made) /\ Len(buffer') <= MaxRows /\ Gone' \subseteq made
        /\ Numbered' /\ InLine' /\ Accounted' /\ OldestFirst'
    BY <1>3, <2>1, BatchKept DEF Take
  <2>3. fwd' \in Forwarders(made)
    BY <1>1, <1>3, HandEmptied DEF Typed, Places
  <2>4. Typed'
    BY <1>1, <2>2, <2>3 DEF Typed, Take
  <2>5. InHand'
    BY <2>1 DEF InHand
  <2> QED BY <2>2, <2>4, <2>5 DEF Inv
<1> QED BY <1>2, <1>3 DEF Take

\* SinkUnavailable, whatever the forwarder connected for.
LEMMA UnavailableStep ==
  ASSUME Inv, fwd.at \in {"connect", "register"}, Unavailable,
         UNCHANGED <<made, lost, dropped, ledger, queue, stored>>, setting' \in Setting,
         receiver' \in [up : BOOLEAN, types : BOOLEAN, containers : SUBSET Tags],
         receiver'.containers # {} => receiver'.types
  PROVE  Inv'
<1>1. Typed /\ InHand /\ fwd.why \in {"start", "recover", "write"}
  BY DEF Inv, Typed, Forwarders
<1>2. CASE fwd.why # "write"
  <2>1. fwd.batch = <<>> /\ UNCHANGED <<buffer, records>>
    BY <1>1, <1>2 DEF InHand, Unavailable
  <2>2. \/ fwd' = At("connect") /\ fwd.why = "start"
        \/ fwd' = At("wait") /\ fwd.why = "recover"
    BY <1>1, <1>2 DEF Unavailable
  <2>3. fwd'.batch = fwd.batch /\ fwd'.link = fwd.link /\ fwd'.why = fwd.why
    BY <1>1, <2>2 DEF At, Typed, Forwarders
  <2>4. \/ fwd'.at = "connect" /\ fwd'.why = "start"
        \/ fwd'.at = "wait" /\ fwd'.why = "recover"
    BY <1>1, <2>2 DEF At, Typed, Forwarders
  <2>5. Typed'
    BY <1>1, <2>1, <2>2 DEF Typed, Forwarders, Places, At, Gone, OnRecord
  <2>6. InHand'
    BY <1>1, <1>2, <2>1, <2>3, <2>4 DEF InHand
  <2> QED BY <2>1, <2>3, <2>5, <2>6, SameLine DEF Inv, losses
<1>3. CASE fwd.why = "write"
  <2>1. fwd' = Down /\ Keep(fwd.batch)
    BY <1>1, <1>3 DEF Unavailable
  <2>2. fwd'.at = "wait" /\ ~ fwd'.link /\ fwd'.batch = <<>> /\ fwd'.why = "recover"
    BY <1>3, <2>1 DEF Down, OnwardTo
  <2>3. /\ buffer' \in Seq(made) /\ Len(buffer') <= MaxRows /\ Gone' \subseteq made
        /\ Numbered' /\ InLine' /\ Accounted' /\ OldestFirst'
    BY <2>1, <2>2, BatchKept
  <2>4. fwd' \in Forwarders(made)
    BY <1>3, <2>1 DEF Down, OnwardTo, Forwarders, Places
  <2>5. Typed'
    BY <1>1, <2>3, <2>4 DEF Typed
  <2>6. InHand'
    BY <2>2 DEF InHand
  <2> QED BY <2>3, <2>5, <2>6 DEF Inv
<1> QED BY <1>2, <1>3

LEMMA OpenDbStep == ASSUME Inv, OpenDb PROVE Inv'
<1>1. CASE db /\ UNCHANGED <<fwd, buffer, records>>
  <2>1. Typed' /\ InHand'
    BY <1>1 DEF Inv, Typed, InHand, OpenDb, Gone, OnRecord
  <2> QED BY <1>1, <2>1, SameLine DEF Inv, OpenDb, losses
<1>2. CASE ~ db /\ Unavailable
  BY <1>2, UnavailableStep DEF Inv, Typed, OpenDb
<1> QED BY <1>1, <1>2 DEF OpenDb

\* The batch is taken from the line, and is gone.
LEMMA BatchGone ==
  ASSUME Inv, UNCHANGED <<made, queue, buffer, stored, OnRecord>>, fwd'.batch = <<>>,
         lost' \cup dropped' = lost \cup dropped \cup Range(fwd.batch)
  PROVE  Gone' \subseteq made /\ Numbered' /\ InLine' /\ Accounted' /\ OldestFirst'
<1>1. Typed /\ Numbered /\ InLine /\ Accounted /\ OldestFirst
  BY DEF Inv
<1>2. Gone' = Gone \cup Range(fwd.batch) /\ Range(fwd.batch) \subseteq made
  BY <1>1, LineOfSet DEF Gone, Typed, Forwarders
<1>3. Numbered' /\ InLine'
  BY <1>1, EmptyLine DEF Numbered, InLine
<1>4. Accounted'
  BY <1>1, <1>2 DEF Accounted, Held
<1>5. OldestFirst'
  BY <1>1, <1>2, StillOldest
<1> QED BY <1>1, <1>2, <1>3, <1>4, <1>5 DEF Typed

LEMMA AskTagsStep == ASSUME Inv, AskTags PROVE Inv'
<1>1. Typed /\ InHand
  BY DEF Inv
<1>2. CASE fwd' = At("register") /\ UNCHANGED lost
  <2>1. fwd'.batch = fwd.batch /\ fwd'.link = fwd.link /\ fwd'.why = fwd.why /\ fwd'.at = "register"
    BY <1>1, <1>2 DEF At, Typed, Forwarders
  <2>2. Typed'
    BY <1>1, <1>2 DEF Typed, Forwarders, Places, At, AskTags, Gone, OnRecord
  <2>3. InHand'
    BY <1>1, <2>1 DEF InHand, AskTags
  <2> QED BY <1>2, <2>1, <2>2, <2>3, SameLine DEF Inv, AskTags, losses
<1>3. CASE Raises /\ fwd.why = "start"
  <2>1. fwd.batch = <<>> /\ fwd' = At("connect") /\ UNCHANGED lost
    <3>1. fwd.batch = <<>>
      BY <1>1, <1>3 DEF InHand, AskTags
    <3> QED BY <1>3, <3>1, EmptyLine DEF Raises
  <2>2. fwd'.batch = fwd.batch /\ fwd'.link = fwd.link /\ fwd'.why = fwd.why /\ fwd'.at = "connect"
    BY <1>1, <2>1 DEF At, Typed, Forwarders
  <2>3. Typed'
    BY <1>1, <2>1 DEF Typed, Forwarders, Places, At, AskTags, Gone, OnRecord
  <2>4. InHand'
    BY <1>1, <2>2 DEF InHand, AskTags
  <2> QED BY <2>1, <2>2, <2>3, <2>4, SameLine DEF Inv, AskTags, losses
<1>4. CASE Raises /\ fwd.why # "start"
  <2>1. fwd' = [fwd EXCEPT !.at = "ended", !.batch = <<>>] /\ lost' = lost \cup Range(fwd.batch)
    BY <1>4 DEF Raises
  <2>2. fwd'.at = "ended" /\ fwd'.batch = <<>> /\ fwd'.link = fwd.link
    BY <1>1, <2>1 DEF Typed, Forwarders
  <2>3. UNCHANGED <<made, queue, buffer, stored, OnRecord>> /\ lost' \cup dropped' = lost \cup dropped \cup Range(fwd.batch)
    BY <2>1 DEF AskTags, OnRecord
  <2>4. Gone' \subseteq made /\ Numbered' /\ InLine' /\ Accounted' /\ OldestFirst'
    BY <2>2, <2>3, BatchGone
  <2>5. fwd' \in Forwarders(made)
    BY <1>1, <2>1, HandEmptied DEF Typed, Places
  <2>6. Typed'
    BY <1>1, <2>4, <2>5 DEF Typed, AskTags
  <2>7. InHand'
    BY <1>1, <2>2 DEF InHand, AskTags
  <2> QED BY <2>4, <2>6, <2>7 DEF Inv
<1> QED BY <1>2, <1>3, <1>4 DEF AskTags

LEMMA RegisterStep == ASSUME Inv, Register PROVE Inv'
<1>1. Typed /\ InHand /\ fwd.why \in {"start", "recover", "write"} /\ fwd.at = "register"
  BY DEF Inv, Typed, Forwarders, Register
<1>2. CASE /\ receiver' = Containers(Types(receiver))
           /\ fwd' = CASE fwd.why = "start"   -> At("tags")
                       [] fwd.why = "recover" -> Recovered
                       [] fwd.why = "write"   -> At("write")
           /\ UNCHANGED <<setting, buffer, records>>
  <2>1. \/ fwd.why = "start" /\ fwd' = At("tags")
        \/ fwd.why = "recover" /\ fwd' = Recovered
        \/ fwd.why = "write" /\ fwd' = At("write")
    BY <1>1, <1>2
  <2>2. fwd'.batch = fwd.batch /\ fwd'.why = fwd.why
    BY <1>1, <2>1 DEF At, Recovered, Typed, Forwarders
  <2>3. \/ fwd.why = "start" /\ fwd'.at = "tags" /\ fwd'.link = fwd.link
        \/ fwd.why = "recover" /\ fwd'.at = "drain"
        \/ fwd.why = "recover" /\ fwd'.at = "losses" /\ buffer = <<>>
        \/ fwd.why = "write" /\ fwd'.at = "write" /\ fwd'.link = fwd.link
    BY <1>1, <2>1 DEF At, Recovered, Typed, Forwarders
  <2>4. receiver' \in [up : BOOLEAN, types : BOOLEAN, containers : SUBSET Tags] /\ receiver'.types
    BY <1>1, <1>2 DEF Typed, Containers, Types, ContainerMessage, Known
  <2>5. Typed'
    <3>1. fwd' \in Forwarders(made)
      BY <1>1, <2>1 DEF At, Recovered, Typed, Forwarders, Places
    <3> QED BY <1>1, <1>2, <2>4, <3>1 DEF Typed, Register, Gone, OnRecord
  <2>6. InHand'
    BY <1>1, <1>2, <2>2, <2>3 DEF InHand, Register
  <2> QED BY <1>2, <2>2, <2>5, <2>6, SameLine DEF Inv, Register, losses
<1>3. CASE Unavailable /\ UNCHANGED <<setting, receiver>>
  BY <1>1, <1>3, UnavailableStep DEF Typed, Register
<1>4. CASE /\ Budget("lose") /\ setting' = Spent("lose") /\ Unavailable
           /\ receiver' \in {receiver, Types(receiver), Containers(Types(receiver))}
  <2>1. setting' \in Setting
    BY <1>1, <1>4, SpentSetting
  <2>2. /\ receiver' \in [up : BOOLEAN, types : BOOLEAN, containers : SUBSET Tags]
        /\ receiver'.containers # {} => receiver'.types
    <3>1. /\ receiver \in [up : BOOLEAN, types : BOOLEAN, containers : SUBSET Tags]
          /\ Known \subseteq Tags
          /\ receiver.containers # {} => receiver.types
      BY <1>1 DEF Typed, Known
    <3>2. CASE receiver' = receiver
      BY <3>1, <3>2
    <3>3. CASE receiver' = Types(receiver)
      BY <3>1, <3>3 DEF Types
    <3>4. CASE receiver' = Containers(Types(receiver))
      <4>1. receiver' = [up |-> receiver.up, types |-> TRUE,
                         containers |-> receiver.containers \cup Known]
        BY <3>1, <3>4 DEF Types, Containers, ContainerMessage
      <4> QED BY <3>1, <4>1
    <3>5. receiver' \in {receiver, Types(receiver), Containers(Types(receiver))}
      BY <1>4
    <3> QED BY <3>2, <3>3, <3>4, <3>5
  <2> QED BY <1>4, <2>1, <2>2, UnavailableStep DEF Register
<1> QED BY <1>2, <1>3, <1>4 DEF Register

LEMMA ReadTagsStep == ASSUME Inv, ReadTags PROVE Inv'
<1>1. Typed /\ InHand /\ fwd.at = "tags" /\ fwd.why = "start" /\ UNCHANGED buffer
  BY DEF Inv, InHand, ReadTags
<1>2. \/ fwd' = [fwd EXCEPT !.at = IF buffer = <<>> THEN "tasks" ELSE "drain", !.link = TRUE]
      \/ fwd' = At("connect")
  BY DEF ReadTags
<1>3. fwd'.batch = fwd.batch /\ fwd.batch = <<>> /\ fwd'.why = "start"
  BY <1>1, <1>2 DEF At, Typed, Forwarders, InHand
<1>4. \/ fwd'.at = "drain"
      \/ fwd'.at = "tasks" /\ buffer = <<>>
      \/ fwd'.at = "connect" /\ fwd'.link = fwd.link
  BY <1>1, <1>2 DEF At, Typed, Forwarders
<1>5. Typed'
  BY <1>1, <1>2 DEF Typed, Forwarders, Places, At, ReadTags, losses, Gone, OnRecord
<1>6. InHand'
  BY <1>1, <1>3, <1>4 DEF InHand
<1> QED BY <1>3, <1>5, <1>6, SameLine DEF Inv, ReadTags

LEMMA StartTasksStep == ASSUME Inv, StartTasks PROVE Inv'
<1>1. Typed /\ InHand /\ fwd.at = "tasks" /\ fwd.batch = <<>> /\ UNCHANGED buffer
  BY DEF Inv, InHand, StartTasks
<1>2. \/ fwd' = [fwd EXCEPT !.at = "wait", !.why = "recover"]
      \/ fwd' = [fwd EXCEPT !.at = "stopped", !.link = FALSE]
  BY DEF StartTasks
<1>3. fwd'.batch = fwd.batch
  BY <1>1, <1>2 DEF Typed, Forwarders
<1>4. \/ fwd'.at = "wait" /\ fwd'.why = "recover" /\ fwd'.link = fwd.link
      \/ fwd'.at = "stopped" /\ ~ fwd'.link
  BY <1>1, <1>2 DEF Typed, Forwarders
<1>5. Typed'
  BY <1>1, <1>2 DEF Typed, Forwarders, Places, StartTasks, losses, Gone, OnRecord
<1>6. InHand'
  BY <1>1, <1>3, <1>4 DEF InHand
<1> QED BY <1>3, <1>5, <1>6, SameLine DEF Inv, StartTasks

\* The batch is the front of the line when it is written, and so are the rows of a
\* round when they are drained.
LEMMA WriteStep == ASSUME Inv, Write PROVE Inv'
<1>1. /\ Typed /\ Numbered /\ InHand /\ InLine /\ Accounted /\ OldestFirst
      /\ fwd.batch # <<>> /\ buffer = <<>> /\ fwd.link /\ fwd.at = "write"
  BY DEF Inv, InHand, Write
<1>2. made \in SUBSET Message /\ fwd.batch \in Seq(made) /\ queue \in Seq(made)
  BY <1>1 DEF Typed, Forwarders
<1>3. CASE fwd' = [fwd EXCEPT !.at = "connect", !.why = "write"] /\ UNCHANGED <<setting, buffer, records, stored>>
  <2>1. fwd'.batch = fwd.batch /\ fwd'.link = fwd.link /\ fwd'.at = "connect" /\ fwd'.why = "write"
    BY <1>1, <1>3 DEF Typed, Forwarders
  <2>2. Typed'
    BY <1>1, <1>3 DEF Typed, Forwarders, Places, Write, Gone, OnRecord
  <2>3. InHand'
    BY <1>1, <1>3, <2>1 DEF InHand
  <2> QED BY <1>3, <2>1, <2>2, <2>3, SameLine DEF Inv, Write, losses
<1>4. CASE \E p \in Posts(fwd.batch) :
             /\ Settle(p)
             /\ \/ p.ok /\ fwd' = [fwd EXCEPT !.at = "losses", !.why = "recover", !.batch = <<>>]
                   /\ UNCHANGED <<buffer, records>>
                \/ ~ p.ok /\ fwd' = Down /\ Keep(fwd.batch)
  <2>0. PICK p \in Posts(fwd.batch) :
             /\ Settle(p)
             /\ \/ p.ok /\ fwd' = [fwd EXCEPT !.at = "losses", !.why = "recover", !.batch = <<>>]
                   /\ UNCHANGED <<buffer, records>>
                \/ ~ p.ok /\ fwd' = Down /\ Keep(fwd.batch)
    BY <1>4
  <2>1. made \subseteq stored \cup Gone \cup Range(buffer) \cup Range(fwd.batch) \cup Range(queue)
    BY <1>1 DEF Accounted, Held
  <2>2. /\ setting' \in Setting
        /\ stored' \in {stored, stored \cup Range(fwd.batch)} /\ stored' \subseteq made
        /\ p.ok => Range(fwd.batch) \subseteq stored'
    BY <1>1, <1>2, <2>0, Posted
  <2>3. UNCHANGED <<made, lost, dropped, ledger, queue, receiver>>
    BY DEF Write
  <2>4. ASSUME NEW s \in made, NEW r \in stored' \ stored, s.ts < r.ts
        PROVE  s \in stored' \cup Gone
    <3>1. r \in Range(fwd.batch) /\ stored' = stored \cup Range(fwd.batch)
      BY <2>2, <2>4
    <3>2. r \in made /\ s.ts \in Nat /\ r.ts \in Nat
      BY <1>2, <2>2, <2>4 DEF Message
    <3>3. s \notin Range(queue)
      <4> SUFFICES ASSUME s \in Range(queue) PROVE FALSE
        OBVIOUS
      <4>1. r.ts < s.ts
        BY <1>1, <3>1 DEF InLine, Before
      <4> QED BY <2>4, <3>2, <4>1
    <3> QED BY <1>1, <2>1, <3>1, <3>3, EmptyLine
  <2>5. CASE p.ok /\ fwd' = [fwd EXCEPT !.at = "losses", !.why = "recover", !.batch = <<>>]
             /\ UNCHANGED <<buffer, records>>
    <3>1. fwd'.batch = <<>> /\ fwd'.at = "losses" /\ fwd'.link /\ fwd'.why = "recover"
      BY <1>1, <2>5 DEF Typed, Forwarders
    <3>2. Gone' = Gone /\ OnRecord' = OnRecord
      BY <2>3, <2>5 DEF Gone, OnRecord
    <3>3. Typed'
      BY <1>1, <2>2, <2>3, <2>5, <3>2 DEF Typed, Forwarders, Places
    <3>4. InHand'
      BY <1>1, <2>5, <3>1 DEF InHand
    <3>5. InLine' /\ Numbered'
      BY <1>1, <2>3, <2>5, <3>1, EmptyLine DEF InLine, Numbered
    <3>6. Accounted'
      BY <2>1, <2>2, <2>3, <2>5, <3>1, <3>2, EmptyLine DEF Accounted, Held
    <3>7. OldestFirst'
      BY <1>1, <2>2, <2>3, <2>4, <3>2, StillOldest
    <3> QED BY <3>3, <3>4, <3>5, <3>6, <3>7 DEF Inv
  <2>6. CASE ~ p.ok /\ fwd' = Down /\ Keep(fwd.batch)
    <3>1. /\ fwd'.batch = <<>> /\ ~ fwd'.link
          /\ (fwd'.at = "wait" /\ fwd'.why = "recover") \/ (fwd'.at = "tasks" /\ fwd'.why = "start")
      BY <2>6 DEF Down, OnwardTo
    <3>2. /\ buffer' \in Seq(made) /\ Len(buffer') <= MaxRows
          /\ Ascending(buffer') /\ Before(buffer', queue)
          /\ records \subseteq records' /\ records' \subseteq made
          /\ Range(buffer) \cup Range(fwd.batch) \subseteq Range(buffer') \cup records'
          /\ \A s \in made, r \in records' \ records : s.ts < r.ts => s \in stored \cup Gone \cup records'
      BY <1>1, <1>2, <2>1, <2>6, KeptInLine DEF InLine
    <3>3. Gone' = Gone \cup records' /\ OnRecord' = OnRecord \cup records' /\ Gone' \subseteq made
      BY <1>1, <2>3, <3>2 DEF Gone, OnRecord, Typed
    <3>4. fwd' \in Forwarders(made)
      BY <2>6 DEF Down, OnwardTo, Forwarders, Places
    <3>5. Typed'
      BY <1>1, <2>2, <2>3, <3>2, <3>3, <3>4 DEF Typed
    <3>6. InHand'
      BY <3>1 DEF InHand
    <3>7. InLine' /\ Numbered'
      BY <1>1, <2>3, <3>1, <3>2, EmptyLine DEF InLine, Numbered
    <3>8. Accounted'
      BY <2>1, <2>2, <2>3, <3>1, <3>2, <3>3, EmptyLine DEF Accounted, Held
    <3>9. OldestFirst'
      <4>1. \A s \in made, r \in (stored' \ stored) \cup (OnRecord' \ OnRecord) : s.ts < r.ts => s \in stored' \cup Gone'
        BY <2>2, <2>4, <3>2, <3>3 DEF OnRecord
      <4> QED BY <1>1, <2>2, <2>3, <3>3, <4>1, StillOldest
    <3> QED BY <3>5, <3>6, <3>7, <3>8, <3>9 DEF Inv
  <2> QED BY <2>0, <2>5, <2>6
<1> QED BY <1>3, <1>4 DEF Write

LEMMA DrainStep == ASSUME Inv, Drain PROVE Inv'
<1>1. /\ Typed /\ Numbered /\ InHand /\ InLine /\ Accounted /\ OldestFirst
      /\ fwd.batch = <<>> /\ fwd.at = "drain" /\ fwd.why # "write" /\ queue' = <<>> /\ Keep(queue)
      /\ UNCHANGED <<made, lost, dropped, ledger, receiver>>
  BY DEF Inv, InHand, Drain
<1>2. made \in SUBSET Message /\ queue \in Seq(made) /\ <<>> \in Seq(made) /\ fwd.why \in {"start", "recover"}
  BY <1>1 DEF Typed, Forwarders
<1>3. made \subseteq stored \cup Gone \cup Range(buffer) \cup Range(queue) \cup Range(<<>>)
  BY <1>1 DEF Accounted, Held
<1>4. /\ buffer' = Kept(queue) /\ buffer' \in Seq(made) /\ Len(buffer') <= MaxRows /\ Ascending(buffer')
      /\ records \subseteq records' /\ records' \subseteq made
      /\ Range(buffer) \cup Range(queue) \subseteq Range(buffer') \cup records'
      /\ \A s \in made, r \in records' \ records : s.ts < r.ts => s \in stored \cup Gone \cup records'
  BY <1>1, <1>2, <1>3, EmptyLine, KeptInLine DEF InLine
<1>5. Gone' = Gone \cup records' /\ OnRecord' = OnRecord \cup records' /\ Gone' \subseteq made
  BY <1>1, <1>4 DEF Gone, OnRecord, Typed
<1>6. Numbered'
  BY <1>1 DEF Numbered
<1>7. CASE Kept(queue) = <<>> /\ fwd' = At("losses") /\ UNCHANGED <<setting, stored>>
  <2>1. fwd'.batch = <<>> /\ fwd'.at = "losses" /\ fwd'.why = fwd.why /\ buffer' = <<>>
    BY <1>1, <1>4, <1>7 DEF At, Typed, Forwarders
  <2>2. fwd' \in Forwarders(made)
    BY <1>1, <1>7 DEF At, Typed, Forwarders, Places
  <2>3. Typed'
    BY <1>1, <1>2, <1>4, <1>5, <1>7, <2>2 DEF Typed
  <2>4. InHand'
    BY <1>1, <2>1 DEF InHand
  <2>5. InLine'
    BY <1>1, <2>1, EmptyLine DEF InLine
  <2>6. Accounted'
    BY <1>1, <1>3, <1>4, <1>5, <1>7, <2>1, EmptyLine DEF Accounted, Held
  <2>7. OldestFirst'
    <3>1. \A s \in made, r \in (stored' \ stored) \cup (OnRecord' \ OnRecord) : s.ts < r.ts => s \in stored' \cup Gone'
      BY <1>4, <1>5, <1>7 DEF OnRecord
    <3> QED BY <1>1, <1>5, <1>7, <3>1, StillOldest
  <2> QED BY <1>6, <2>3, <2>4, <2>5, <2>6, <2>7 DEF Inv
<1>8. CASE \E p \in Posts(Round(Kept(queue))) :
             /\ Settle(p)
             /\ fwd' = IF p.ok THEN At("forget") ELSE Down
  <2> DEFINE rows == Round(Kept(queue))
             rest == SubSeq(buffer', Len(rows) + 1, Len(buffer'))
  <2>0. PICK p \in Posts(rows) : Settle(p) /\ fwd' = IF p.ok THEN At("forget") ELSE Down
    BY <1>8
  <2>1. /\ rows \in Seq(made) /\ Range(buffer') = Range(rows) \cup Range(rest) /\ Before(rows, rest)
        /\ rows = Round(buffer')
    BY <1>2, <1>4, RoundIsFront
  <2> HIDE DEF rows, rest
  <2>2. /\ setting' \in Setting
        /\ stored' \in {stored, stored \cup Range(rows)} /\ stored' \subseteq made
        /\ p.ok => Range(rows) \subseteq stored'
        /\ p.ok \in BOOLEAN
    BY <1>1, <2>0, <2>1, Posted
  <2>3. ASSUME NEW s \in made, NEW r \in stored' \ stored, s.ts < r.ts
        PROVE  s \in stored' \cup Gone'
    <3>1. r \in Range(rows) /\ stored' = stored \cup Range(rows)
      BY <2>2, <2>3
    <3>2. r \in made /\ s.ts \in Nat /\ r.ts \in Nat
      BY <1>2, <2>2, <2>3 DEF Message
    <3>3. s \notin Range(rest)
      <4> SUFFICES ASSUME s \in Range(rest) PROVE FALSE
        OBVIOUS
      <4>1. r.ts < s.ts
        BY <2>1, <3>1 DEF Before
      <4> QED BY <2>3, <3>2, <4>1
    <3> QED BY <1>3, <1>4, <1>5, <2>1, <3>1, <3>3, EmptyLine
  <2>4. /\ fwd'.batch = <<>>
        /\ \/ fwd'.at = "forget" /\ fwd'.why = fwd.why /\ p.ok
           \/ fwd'.at = "wait" /\ fwd'.why = "recover" /\ ~ fwd'.link
           \/ fwd'.at = "tasks" /\ fwd'.why = "start" /\ ~ fwd'.link
    <3>1. CASE p.ok
      BY <1>1, <2>0, <3>1 DEF At, Typed, Forwarders
    <3>2. CASE ~ p.ok
      BY <2>0, <3>2 DEF Down, OnwardTo
    <3> QED BY <3>1, <3>2
  <2>5. fwd' \in Forwarders(made)
    <3>1. CASE p.ok
      BY <1>1, <2>0, <3>1 DEF At, Typed, Forwarders, Places
    <3>2. CASE ~ p.ok
      BY <1>2, <2>0, <3>2 DEF Down, OnwardTo, Forwarders, Places
    <3> QED BY <3>1, <3>2
  <2>6. Typed'
    BY <1>1, <1>2, <1>4, <1>5, <2>2, <2>5 DEF Typed
  <2>7. InHand'
    BY <1>1, <2>1, <2>2, <2>4 DEF InHand
  <2>8. InLine'
    BY <1>1, <1>4, <2>4, EmptyLine DEF InLine
  <2>9. Accounted'
    BY <1>1, <1>3, <1>4, <1>5, <2>2, <2>4, EmptyLine DEF Accounted, Held
  <2>10. OldestFirst'
    <3>1. \A s \in made, r \in (stored' \ stored) \cup (OnRecord' \ OnRecord) : s.ts < r.ts => s \in stored' \cup Gone'
      BY <1>4, <1>5, <2>2, <2>3 DEF OnRecord
    <3> QED BY <1>1, <1>5, <2>2, <3>1, StillOldest
  <2> QED BY <1>6, <2>6, <2>7, <2>8, <2>9, <2>10 DEF Inv
<1> QED BY <1>7, <1>8 DEF Drain

LEMMA ForgetStep == ASSUME Inv, Forget PROVE Inv'
<1>1. /\ Typed /\ Numbered /\ InHand /\ InLine /\ Accounted /\ OldestFirst
      /\ fwd.batch = <<>> /\ fwd.why # "write" /\ Range(Round(buffer)) \subseteq stored
      /\ fwd' = At("drain") /\ buffer' = SubSeq(buffer, Len(Round(buffer)) + 1, Len(buffer))
      /\ UNCHANGED <<setting, made, losses, queue, receiver, stored>>
  BY DEF Inv, InHand, Forget
<1>2. /\ buffer' \in Seq(made) /\ Len(buffer') <= Len(buffer) /\ Ascending(buffer')
      /\ Range(buffer) = Range(Round(buffer)) \cup Range(buffer')
  BY <1>1, RoundIsFront DEF Typed, InLine
<1>3. fwd'.batch = <<>> /\ fwd'.at = "drain" /\ fwd'.why = fwd.why /\ fwd' \in Forwarders(made)
  BY <1>1 DEF At, Typed, Forwarders, Places
<1>4. Len(buffer') <= MaxRows
  BY <1>1, <1>2, RowsAssumption DEF Typed
<1>5. Gone' = Gone /\ OnRecord' = OnRecord
  BY <1>1 DEF losses, Gone, OnRecord
<1>6. Typed'
  BY <1>1, <1>2, <1>3, <1>4, <1>5 DEF Typed
<1>7. InHand'
  BY <1>1, <1>3 DEF InHand
<1>8. InLine'
  BY <1>1, <1>2, <1>3, EmptyLine DEF InLine, Before
<1>9. Accounted'
  BY <1>1, <1>2, <1>3, <1>5 DEF Accounted, Held
<1>10. Numbered' /\ OldestFirst'
  BY <1>1, <1>5 DEF Numbered, OldestFirst
<1> QED BY <1>6, <1>7, <1>8, <1>9, <1>10 DEF Inv

LEMMA SendLossesStep == ASSUME Inv, SendLosses PROVE Inv'
<1>1. /\ Typed /\ Numbered /\ InHand /\ InLine /\ Accounted /\ OldestFirst
      /\ fwd.at = "losses" /\ fwd.batch = <<>> /\ fwd.why # "write"
      /\ fwd' = At(OnwardTo("wait")) /\ UNCHANGED <<setting, made, lost, dropped, queue, buffer, receiver, stored>>
  BY DEF Inv, InHand, SendLosses
<1>2. /\ fwd'.batch = fwd.batch /\ fwd'.why = fwd.why /\ fwd'.link = fwd.link
      /\ fwd'.at = OnwardTo("wait") /\ fwd.why \in {"start", "recover"}
  BY <1>1 DEF At, Typed, Forwarders
<1>3. OnRecord' = OnRecord
  BY DEF SendLosses, CutOff, OnRecord
<1>4. Gone' = Gone
  BY <1>1, <1>3 DEF Gone
<1>5. Typed'
  BY <1>1, <1>4 DEF Typed, Forwarders, Places, At, OnwardTo
<1>6. InHand'
  BY <1>1, <1>2 DEF InHand, OnwardTo
<1>7. Numbered' /\ InLine'
  BY <1>1, <1>2 DEF Numbered, InLine
<1>8. Accounted' /\ OldestFirst'
  BY <1>1, <1>2, <1>3, <1>4 DEF Accounted, Held, OldestFirst
<1> QED BY <1>5, <1>6, <1>7, <1>8 DEF Inv

LEMMA ShutdownStep == ASSUME Inv, Shutdown PROVE Inv'
<1>1. /\ Typed /\ Numbered /\ InHand /\ InLine /\ Accounted /\ OldestFirst
      /\ fwd.batch = <<>> /\ queue' = <<>> /\ Keep(queue)
      /\ fwd' = [At("stopped") EXCEPT !.link = FALSE]
      /\ UNCHANGED <<setting, made, lost, dropped, ledger, receiver, stored>>
  BY DEF Inv, InHand, Shutdown
<1>2. made \in SUBSET Message /\ queue \in Seq(made) /\ <<>> \in Seq(made)
  BY <1>1 DEF Typed
<1>3. made \subseteq stored \cup Gone \cup Range(buffer) \cup Range(queue) \cup Range(<<>>)
  BY <1>1 DEF Accounted, Held
<1>4. /\ buffer' \in Seq(made) /\ Len(buffer') <= MaxRows /\ Ascending(buffer')
      /\ records \subseteq records' /\ records' \subseteq made
      /\ Range(buffer) \cup Range(queue) \subseteq Range(buffer') \cup records'
      /\ \A s \in made, r \in records' \ records : s.ts < r.ts => s \in stored \cup Gone \cup records'
  BY <1>1, <1>2, <1>3, EmptyLine, KeptInLine DEF InLine
<1>5. Gone' = Gone \cup records' /\ OnRecord' = OnRecord \cup records' /\ Gone' \subseteq made
  BY <1>1, <1>4 DEF Gone, OnRecord, Typed
<1>6. fwd'.batch = <<>> /\ fwd'.at = "stopped" /\ ~ fwd'.link /\ fwd' \in Forwarders(made)
  BY <1>1 DEF At, Typed, Forwarders, Places
<1>7. Typed'
  BY <1>1, <1>2, <1>4, <1>5, <1>6 DEF Typed
<1>8. InHand'
  BY <1>6 DEF InHand
<1>9. InLine' /\ Numbered'
  BY <1>1, <1>4, <1>6, EmptyLine DEF InLine, Numbered
<1>10. Accounted'
  BY <1>1, <1>3, <1>4, <1>5, <1>6, EmptyLine DEF Accounted, Held
<1>11. OldestFirst'
  <2>1. \A s \in made, r \in (stored' \ stored) \cup (OnRecord' \ OnRecord) : s.ts < r.ts => s \in stored' \cup Gone'
    BY <1>1, <1>4, <1>5 DEF OnRecord
  <2> QED BY <1>1, <1>5, <2>1, StillOldest
<1> QED BY <1>7, <1>8, <1>9, <1>10, <1>11 DEF Inv

LEMMA StartStep == ASSUME Inv, Start PROVE Inv'
<1>1. Typed /\ InHand /\ fwd.at = "stopped" /\ UNCHANGED buffer
      /\ fwd' = [fwd EXCEPT !.at = "connect", !.why = "start"]
  BY DEF Inv, Start
<1>2. /\ fwd'.batch = fwd.batch /\ fwd.batch = <<>>
      /\ fwd'.at = "connect" /\ fwd'.why = "start" /\ fwd'.link = fwd.link
  BY <1>1 DEF Typed, Forwarders, InHand
<1>3. Typed'
  BY <1>1 DEF Typed, Forwarders, Places, Start, losses, Gone, OnRecord
<1>4. InHand'
  BY <1>1, <1>2 DEF InHand
<1> QED BY <1>2, <1>3, <1>4, SameLine DEF Inv, Start

LEMMA StopStep == ASSUME Inv, Stop PROVE Inv'
<1>1. /\ Typed /\ InHand /\ fwd.at \in {"wait", "connect", "losses"}
      /\ setting' = Spent("stops") /\ Budget("stops")
      /\ fwd' = [fwd EXCEPT !.at = "ended", !.batch = <<>>] /\ dropped' = dropped \cup Range(fwd.batch)
      /\ ledger' \in CutOff /\ UNCHANGED <<made, lost, records, queue, buffer, receiver, stored>>
  BY DEF Inv, Stop, Awaits
<1>2. fwd'.at = "ended" /\ fwd'.batch = <<>> /\ fwd'.link = fwd.link
  BY <1>1 DEF Typed, Forwarders
<1>3. UNCHANGED OnRecord /\ lost' \cup dropped' = lost \cup dropped \cup Range(fwd.batch)
  BY <1>1 DEF OnRecord, CutOff
<1>4. Gone' \subseteq made /\ Numbered' /\ InLine' /\ Accounted' /\ OldestFirst'
  BY <1>1, <1>2, <1>3, BatchGone
<1>5. setting' \in Setting
  BY <1>1, SpentSetting
<1>6. fwd' \in Forwarders(made)
  BY <1>1, HandEmptied DEF Typed, Places
<1>7. Typed'
  BY <1>1, <1>4, <1>5, <1>6 DEF Typed
<1>8. InHand'
  BY <1>1, <1>2 DEF InHand
<1> QED BY <1>4, <1>7, <1>8 DEF Inv

LEMMA KillStep == ASSUME Inv, Kill PROVE Inv'
<1>1. /\ Typed /\ Numbered /\ InHand /\ InLine /\ Accounted /\ OldestFirst
      /\ setting' = Spent("stops") /\ Budget("stops")
      /\ fwd' = [fwd EXCEPT !.at = "stopped", !.link = FALSE, !.batch = <<>>] /\ queue' = <<>>
      /\ dropped' = dropped \cup Range(fwd.batch) \cup Range(queue)
      /\ ledger' \in CutOff /\ UNCHANGED <<made, lost, records, buffer, receiver, stored>>
  BY DEF Inv, Kill
<1>2. fwd'.at = "stopped" /\ fwd'.batch = <<>> /\ ~ fwd'.link
  BY <1>1 DEF Typed, Forwarders
<1>3. Range(fwd.batch) \subseteq made /\ Range(queue) \subseteq made
  BY <1>1, LineOfSet DEF Typed, Forwarders
<1>4. OnRecord' = OnRecord
  BY <1>1 DEF OnRecord, CutOff
<1>5. Gone' = Gone \cup Range(fwd.batch) \cup Range(queue) /\ Gone' \subseteq made
  BY <1>1, <1>3, <1>4 DEF Gone, Typed
<1>6. setting' \in Setting
  BY <1>1, SpentSetting
<1>7. Typed'
  <2>1. fwd' \in Forwarders(made) /\ <<>> \in Seq(made)
    BY <1>1, HandEmptied DEF Typed, Places
  <2> QED BY <1>1, <1>5, <1>6, <2>1 DEF Typed
<1>8. InHand'
  BY <1>2 DEF InHand
<1>9. InLine' /\ Numbered'
  BY <1>1, <1>2, EmptyLine DEF InLine, Numbered
<1>10. Accounted'
  BY <1>1, <1>5 DEF Accounted, Held
<1>11. OldestFirst'
  BY <1>1, <1>4, <1>5, StillOldest
<1> QED BY <1>7, <1>8, <1>9, <1>10, <1>11 DEF Inv

LEMMA AcquireStep == ASSUME Inv, Acquire PROVE Inv'
<1> DEFINE n == Cardinality(made) + 1
<1>1. Typed /\ Numbered /\ InHand /\ InLine /\ Accounted /\ OldestFirst
  BY DEF Inv
<1>2. PICK tag \in setting.tags, kind \in setting.kinds :
        /\ made' = made \cup {Sample(n, tag, kind)}
        /\ queue' = Append(queue, Sample(n, tag, kind))
  BY DEF Acquire
<1> DEFINE s == Sample(n, tag, kind)
<1>3. Cardinality(made) \in Nat /\ n \in Nat
  BY <1>1, FS_CardinalityType DEF Typed
<1>4. s \in Message /\ s.ts = n
  <2>1. tag \in Tags
    BY <1>1 DEF Typed, Setting
  <2> QED BY <1>3, <2>1, SampleIsMessage
<1> HIDE DEF s
<1>5. \A a \in made : a.ts < s.ts /\ a.ts \in Nat
  BY <1>1, <1>3, <1>4 DEF Numbered
<1>6. s \notin made
  BY <1>5, <1>3, <1>4
<1>7. Cardinality(made') = n /\ IsFiniteSet(made')
  BY <1>1, <1>2, <1>6, FS_AddElement DEF Typed, s
<1>8. Numbered'
  <2>1. \A a \in made : a.ts \in 1 .. n
    BY <1>1, <1>3 DEF Numbered
  <2>2. s.ts \in 1 .. n
    BY <1>3, <1>4
  <2>3. \A a \in made' : a \in made \/ a = s
    BY <1>2 DEF s
  <2>4. \A a \in made' : a.ts \in 1 .. Cardinality(made')
    BY <1>7, <2>1, <2>2, <2>3
  <2>5. \A a, b \in made' : a.ts = b.ts => a = b
    BY <1>1, <1>3, <1>4, <1>5, <2>3 DEF Numbered
  <2> QED BY <2>4, <2>5 DEF Numbered
<1>9. made \subseteq made' /\ s \in made' /\ made' = made \cup {s}
  BY <1>2 DEF s
<1>10. queue \in Seq(made') /\ buffer \in Seq(made') /\ fwd.batch \in Seq(made')
  BY <1>1, <1>9, LineOfSet DEF Typed, Forwarders
<1>11. <<s>> \in Seq(made') /\ queue' = queue \o <<s>> /\ Ascending(<<s>>) /\ Range(<<s>>) = {s}
  <2>1. <<s>> \in Seq(made')
    BY <1>9
  <2>2. queue' = queue \o <<s>>
    BY <1>2, <1>10 DEF s
  <2>3. Ascending(<<s>>) /\ Range(<<s>>) = {s}
    BY DEF Ascending, Range
  <2> QED BY <2>1, <2>2, <2>3
<1>12. Range(queue) \cup Range(buffer) \cup Range(fwd.batch) \subseteq made
  BY <1>1, LineOfSet DEF Typed, Forwarders
<1>13. Before(queue, <<s>>) /\ Before(buffer, <<s>>) /\ Before(fwd.batch, <<s>>)
  BY <1>5, <1>11, <1>12 DEF Before
<1>14. made' \in SUBSET Message
  BY <1>1, <1>4, <1>9 DEF Typed
<1>15. /\ queue' \in Seq(made') /\ Range(queue') = Range(queue) \cup {s}
       /\ Ascending(queue')
  <2> HIDE DEF n
  <2>1. Ascending(queue) /\ Before(queue, <<s>>) /\ Ascending(<<s>>)
    BY <1>1, <1>11, <1>13 DEF InLine
  <2>2. queue \in Seq(made') /\ <<s>> \in Seq(made')
    BY <1>10, <1>11
  <2>3. /\ queue \o <<s>> \in Seq(made')
        /\ Range(queue \o <<s>>) = Range(queue) \cup Range(<<s>>)
        /\ Ascending(queue \o <<s>>)
    BY <2>1, <2>2, <1>14, Concatenated
  <2> QED BY <2>3, <1>11
<1>16. Typed'
  <2>1. fwd \in Forwarders(made')
    BY <1>1, <1>10 DEF Typed, Forwarders
  <2>2. Gone' = Gone
    BY DEF Acquire, losses, Gone, OnRecord
  <2> QED BY <1>1, <1>7, <1>9, <1>10, <1>14, <1>15, <2>1, <2>2 DEF Typed, Acquire
<1>17. InHand'
  BY <1>1 DEF InHand, Acquire
<1>18. InLine'
  BY <1>1, <1>11, <1>13, <1>15 DEF InLine, Acquire, Before
<1>19. Accounted'
  BY <1>1, <1>9, <1>15 DEF Accounted, Held, Acquire, losses, Gone, OnRecord
<1>20. OldestFirst'
  <2>0. stored' = stored /\ OnRecord' = OnRecord /\ Gone' = Gone
    BY DEF Acquire, losses, Gone, OnRecord
  <2> SUFFICES ASSUME NEW a \in made', NEW b \in stored \cup OnRecord, a.ts < b.ts
               PROVE  a \in stored \cup Gone
    BY <2>0 DEF OldestFirst
  <2>1. b \in made
    BY <1>1 DEF Typed, Gone
  <2>2. a # s
    BY <1>3, <1>4, <1>5, <2>1
  <2> QED BY <1>1, <1>9, <2>2 DEF OldestFirst
<1> QED BY <1>8, <1>16, <1>17, <1>18, <1>19, <1>20 DEF Inv

\* The receiver, the database and their repair move no sample.
LEMMA OutsideStep == ASSUME Inv, ReceiverStops \/ DbStops \/ Repair PROVE Inv'
<1>1. Typed /\ InHand
  BY DEF Inv
<1>2. UNCHANGED <<made, losses, queue, buffer, fwd, stored>>
  BY DEF ReceiverStops, DbStops, Repair, ReceiverStarts, DbStarts
<1>3. setting' \in Setting
  <2>1. CASE ReceiverStops
    BY <1>1, <2>1, SpentSetting DEF ReceiverStops
  <2>2. CASE DbStops
    BY <1>1, <2>2, SpentSetting DEF DbStops
  <2>3. CASE Repair
    BY <1>1, <2>3 DEF Repair, ReceiverStarts, DbStarts, Typed
  <2> QED BY <2>1, <2>2, <2>3
<1>4. /\ receiver' \in [up : BOOLEAN, types : BOOLEAN, containers : SUBSET Tags]
      /\ receiver'.containers # {} => receiver'.types
  <2>1. CASE ReceiverStops
    BY <2>1 DEF ReceiverStops
  <2>2. CASE ReceiverStarts
    BY <1>1, <2>2 DEF ReceiverStarts, Typed
  <2>3. CASE DbStops \/ DbStarts
    BY <1>1, <2>3 DEF DbStops, DbStarts, Typed
  <2> QED BY <2>1, <2>2, <2>3 DEF Repair
<1>5. Typed' /\ InHand'
  BY <1>1, <1>2, <1>3, <1>4 DEF Typed, InHand, losses, Gone, OnRecord
<1> QED BY <1>2, <1>5, SameLine DEF Inv

-----------------------------------------------------------------------------
LEMMA InvInit == Init => Inv
<1> SUFFICES ASSUME Init PROVE Inv
  OBVIOUS
<1>1. IsFiniteSet(made) /\ Cardinality(made) = 0
  BY FS_EmptySet DEF Init
<1>2. Typed
  <2>1. Gone = {} /\ Len(buffer) <= MaxRows
    BY RowsAssumption DEF Init, Gone, OnRecord
  <2> QED BY <1>1, <2>1, SettingAssumption DEF Init, Typed, Forwarders, Places
<1>3. Numbered /\ InHand /\ InLine /\ Accounted /\ OldestFirst
  BY EmptyLine DEF Init, Numbered, InHand, InLine, Accounted, Held, OldestFirst, OnRecord
<1> QED BY <1>2, <1>3 DEF Inv

LEMMA InvNext == Inv /\ [Next]_vars => Inv'
<1> SUFFICES ASSUME Inv, [Next]_vars PROVE Inv'
  OBVIOUS
<1>1. CASE Forwarder
  BY <1>1, CollectStep, TakeStep, OpenDbStep, AskTagsStep, RegisterStep, ReadTagsStep, StartTasksStep,
     WriteStep, DrainStep, ForgetStep, SendLossesStep, ShutdownStep, StartStep DEF Forwarder
<1>2. CASE Acquire \/ Stop \/ Kill
  BY <1>2, AcquireStep, StopStep, KillStep
<1>3. CASE ReceiverStops \/ DbStops \/ Repair
  BY <1>3, OutsideStep
<1>4. CASE UNCHANGED vars
  BY <1>4 DEF vars, losses, Inv, Typed, Numbered, InHand, InLine, Accounted, Held, OldestFirst, Gone, OnRecord
<1> QED BY <1>1, <1>2, <1>3, <1>4 DEF Next

LEMMA AlwaysInv == Spec => []Inv
BY InvInit, InvNext, PTL DEF Spec

(* omf_receiver.py: whatever is repeated, answered or not, a stored row is a sample that was acquired, with both       *)
(* timestamps, the value or its absence, and the quality.                                                          *)
THEOREM StoredIsAcquired == Spec => []StoredAsMade
BY AlwaysInv, InvImplies, PTL

(* pipeline.py on the OMF sink, through outages, stops and kills: a sample is stored, buffered, queued or in hand,      *)
(* unless it was in hand at an exception or a stop, in memory at a kill, or discarded by a full buffer and its loss     *)
(* recorded; and nothing is stored or discarded before an older sample.                                              *)
THEOREM NothingElseIsLost == Spec => []InCustody
BY AlwaysInv, InvImplies, PTL
=============================================================================
