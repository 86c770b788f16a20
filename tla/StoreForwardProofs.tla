------------------------- MODULE StoreForwardProofs -------------------------
(***************************************************************************)
(* Theorems about StoreForward and SequenceGaps, for every set of tags,     *)
(* batch size, buffer bound and number of runs.                            *)
(*                                                                         *)
(*   TypeCorrect                Spec => []TypeOK                           *)
(*   DrainedFirst               Spec => []LiveOnlyWhenDrained              *)
(*   Accounted                  Spec => []EverySampleAccounted             *)
(*   FirstWriterStays           Spec => FirstWriteWins                     *)
(*   BufferStaysBounded         Spec => []BufferBounded                    *)
(*   SafelyForgotten            Spec => ForgottenOnlyWhenSafe              *)
(*   CollectorImplementsCustody Spec => ImplementsCustody                  *)
(*   ArchivedInOrder            Spec => ArchiveInOrder, if ~ ReadsOvertake *)
(*   LedgerIsExact              Spec => []LedgerExact, and                 *)
(*   HolesExplained             Spec => []HolesAreExplained, both if       *)
(*                              MaxRuns <= 1 and ~ ReadsOvertake           *)
(*                                                                         *)
(* Each is proved from an inductive invariant of its own; the lemmas before *)
(* them say what the operators of the buffer and of the archive preserve.   *)
(* The bound rests on ids: the rows of an append are the youngest.  The      *)
(* refinement needs that what is in memory is in nobody else's custody       *)
(* (MemoryInv), the order that a tag's samples stand in one line, buffer,    *)
(* batch, queue, source, each part behind the one before (OrderInv).        *)
(*                                                                         *)
(* The hypotheses of the last two are the limits of the claims themselves: *)
(* a second run over the rows of a first one leaves two records for one    *)
(* key, and a read that overtakes a notification numbers a tag's samples   *)
(* against their times.  Without them numbers and timestamps agree         *)
(* (Numbered), what waits stands in line by number (InLine), without a     *)
(* hole but for what a stop dropped (Unbroken), so that what the bound     *)
(* discards is a stretch from the front of the line, behind every stretch  *)
(* already on the ledger (OnLedger); and every number up to a tag's last   *)
(* is a sample's (Complete), so that a hole in the archive is made of      *)
(* samples on the ledger, which its records are too short to understate.   *)
(***************************************************************************)
EXTENDS SequenceGaps, Extrema, SequenceTheorems

-----------------------------------------------------------------------------
(* Sequences and keys                                                      *)

LEMMA SeqRange ==
  ASSUME NEW S, NEW q \in Seq(S)
  PROVE  /\ Range(q) \subseteq S
         /\ DOMAIN q = 1 .. Len(q)
         /\ Len(q) \in Nat
<1>1. DOMAIN q = 1 .. Len(q) /\ Len(q) \in Nat
  BY LenProperties
<1>2. \A i \in 1 .. Len(q) : q[i] \in S
  BY ElementOfSeq
<1>3. Range(q) \subseteq S
  BY <1>1, <1>2 DEF Range
<1> QED BY <1>1, <1>3

\* Appending adds the new element to the range, taking the head off leaves it
\* and the tail.
LEMMA RangeOfAppend ==
  ASSUME NEW S, NEW q \in Seq(S), NEW e \in S
  PROVE  Range(Append(q, e)) = Range(q) \cup {e}
<1>1. /\ Append(q, e) \in Seq(S)
      /\ Len(Append(q, e)) = Len(q) + 1
      /\ \A i \in 1 .. Len(q) : Append(q, e)[i] = q[i]
      /\ Append(q, e)[Len(q) + 1] = e
  BY AppendProperties
<1>2. /\ DOMAIN Append(q, e) = 1 .. (Len(q) + 1)
      /\ DOMAIN q = 1 .. Len(q) /\ Len(q) \in Nat
  BY <1>1, LenProperties
<1>3. 1 .. (Len(q) + 1) = (1 .. Len(q)) \cup {Len(q) + 1}
  BY <1>2
<1> QED BY <1>1, <1>2, <1>3 DEF Range

LEMMA RangeOfTail ==
  ASSUME NEW S, NEW q \in Seq(S), q # <<>>
  PROVE  /\ Range(q) = {Head(q)} \cup Range(Tail(q))
         /\ Head(q) \in S
         /\ Tail(q) \in Seq(S)
<1>1. /\ Head(q) \in S /\ Tail(q) \in Seq(S)
      /\ Len(Tail(q)) = Len(q) - 1
      /\ \A i \in 1 .. Len(Tail(q)) : Tail(q)[i] = q[i + 1]
  BY HeadTailProperties
<1>2. DOMAIN q = 1 .. Len(q) /\ DOMAIN Tail(q) = 1 .. Len(Tail(q))
  BY <1>1, LenProperties
<1>3. Len(q) \in Nat \ {0} /\ Head(q) = q[1]
  BY EmptySeq
<1>4. \A i \in 1 .. Len(q) : i = 1 \/ (i - 1 \in 1 .. Len(Tail(q)) /\ i = (i - 1) + 1)
  BY <1>1, <1>3
<1>5. \A i \in 1 .. Len(Tail(q)) : i + 1 \in 1 .. Len(q)
  BY <1>1, <1>3
<1>6. Range(q) \subseteq {Head(q)} \cup Range(Tail(q))
  <2> SUFFICES ASSUME NEW i \in 1 .. Len(q), i # 1
               PROVE  q[i] \in Range(Tail(q))
    BY <1>2, <1>3 DEF Range
  <2>1. i - 1 \in 1 .. Len(Tail(q)) /\ q[i] = Tail(q)[i - 1]
    BY <1>1, <1>4
  <2> QED BY <2>1, <1>2 DEF Range
<1>7. {Head(q)} \cup Range(Tail(q)) \subseteq Range(q)
  BY <1>1, <1>2, <1>3, <1>5 DEF Range
<1> QED BY <1>1, <1>6, <1>7

LEMMA EmptyRange == Range(<<>>) = {}
BY DEF Range

\* Every key of the sequence that the table does not have is new at exactly
\* one index.
LEMMA NewInFindsKeys ==
  ASSUME NEW S, NEW q \in Seq(S), NEW K, NEW x \in Range(q), Key(x) \notin K
  PROVE  \E i \in NewIn(q, K) : Key(q[i]) = Key(x)
<1> DEFINE I == {i \in DOMAIN q : Key(q[i]) = Key(x)}
<1>1. I \subseteq Nat /\ I # {}
  BY SeqRange DEF Range
<1>2. PICK i \in I : \A j \in I : i <= j
  BY <1>1, SmallestExists
<1>3. DOMAIN q = 1 .. Len(q) /\ Len(q) \in Nat
  BY LenProperties
<1>4. \A j \in 1 .. (i - 1) : j \in DOMAIN q /\ ~ (i <= j)
  BY <1>1, <1>3
<1>5. \A j \in 1 .. (i - 1) : Key(q[j]) # Key(q[i])
  BY <1>2, <1>4
<1> QED BY <1>5 DEF NewIn

LEMMA NewInUnique ==
  ASSUME NEW S, NEW q \in Seq(S), NEW K,
         NEW i \in NewIn(q, K), NEW j \in NewIn(q, K), Key(q[i]) = Key(q[j])
  PROVE  i = j
<1>1. i \in Nat /\ j \in Nat /\ i >= 1 /\ j >= 1
  BY LenProperties DEF NewIn
<1>2. ~ (i \in 1 .. (j - 1)) /\ ~ (j \in 1 .. (i - 1))
  BY DEF NewIn
<1> QED BY <1>1, <1>2

\* What NewIn picks is in the sequence, at an index a number of its length.
LEMMA NewInType ==
  ASSUME NEW S, NEW q \in Seq(S), NEW K
  PROVE  /\ NewIn(q, K) \subseteq Nat
         /\ IsFiniteSet(NewIn(q, K))
         /\ \A i \in NewIn(q, K) : /\ i >= 1
                                   /\ q[i] \in S
                                   /\ q[i] \in Range(q)
                                   /\ Key(q[i]) \notin K
<1>1. DOMAIN q = 1 .. Len(q) /\ Len(q) \in Nat
  BY LenProperties
<1>2. NewIn(q, K) \in SUBSET (1 .. Len(q))
  BY <1>1 DEF NewIn
<1>3. IsFiniteSet(NewIn(q, K))
  <2>1. IsFiniteSet(1 .. Len(q))
    BY <1>1, FS_Interval
  <2> HIDE DEF NewIn
  <2> QED BY <1>2, <2>1, FS_Subset
<1>4. \A i \in NewIn(q, K) : i \in Nat /\ i >= 1 /\ q[i] \in S /\ q[i] \in Range(q)
  BY <1>1, <1>2, ElementOfSeq DEF Range
<1> QED BY <1>2, <1>3, <1>4 DEF NewIn

-----------------------------------------------------------------------------
(* The archive's insert and the buffer's                                   *)

\* ON CONFLICT DO NOTHING keeps every row there is, adds only samples of the
\* batch, and afterwards the table has the key of each of them.
LEMMA UpsertKeys ==
  ASSUME NEW S, NEW q \in Seq(S), NEW T
  PROVE  /\ T \subseteq Upsert(T, q)
         /\ Upsert(T, q) \subseteq T \cup Range(q)
         /\ Keys(Range(q)) \subseteq Keys(Upsert(T, q))
<1>1. T \subseteq Upsert(T, q)
  BY DEF Upsert
<1>2. Upsert(T, q) \subseteq T \cup Range(q)
  BY NewInType DEF Upsert
<1>3. ASSUME NEW x \in Range(q) PROVE Key(x) \in Keys(Upsert(T, q))
  <2>1. CASE Key(x) \in Keys(T)
    BY <1>1, <2>1 DEF Keys
  <2>2. CASE Key(x) \notin Keys(T)
    <3>1. PICK i \in NewIn(q, Keys(T)) : Key(q[i]) = Key(x)
      BY <2>2, NewInFindsKeys
    <3>2. q[i] \in Upsert(T, q)
      BY DEF Upsert
    <3> QED BY <3>1, <3>2 DEF Keys
  <2> QED BY <2>1, <2>2
<1> QED BY <1>1, <1>2, <1>3 DEF Keys

LEMMA UpsertRowsKeys ==
  ASSUME NEW R, NEW T
  PROVE  /\ T \subseteq UpsertRows(T, R)
         /\ UpsertRows(T, R) \subseteq T \cup Held(R)
         /\ Keys(Held(R)) \subseteq Keys(UpsertRows(T, R))
BY DEF UpsertRows, Keys

\* Both only add rows whose key the table did not have.
LEMMA OnlyNewKeysAdded ==
  ASSUME NEW S, NEW q \in Seq(S), NEW R, NEW T
  PROVE  /\ \A x \in Upsert(T, q) \ T : Key(x) \notin Keys(T)
         /\ \A x \in UpsertRows(T, R) \ T : Key(x) \notin Keys(T)
<1>1. \A i \in NewIn(q, Keys(T)) : Key(q[i]) \notin Keys(T)
  BY NewInType
<1> QED BY <1>1 DEF Upsert, UpsertRows

\* What append makes of the batch: one row per new key.
LEMMA HeldByAppended ==
  ASSUME NEW R, NEW q
  PROVE  Held(Appended(R, q)) = Held(R) \cup {q[i] : i \in NewIn(q, Keys(Held(R)))}
<1> DEFINE row(i) == [id |-> LastId(R) + i, s |-> q[i]]
           I      == NewIn(q, Keys(Held(R)))
<1>1. Appended(R, q) = R \cup {row(i) : i \in I}
  BY DEF Appended
<1>2. \A i \in I : row(i).s = q[i]
  OBVIOUS
<1> HIDE DEF row, I
<1>3. {r.s : r \in {row(i) : i \in I}} = {q[i] : i \in I}
  BY <1>2
<1>4. Held(Appended(R, q)) = Held(R) \cup {r.s : r \in {row(i) : i \in I}}
  BY <1>1 DEF Held
<1> QED BY <1>3, <1>4 DEF I

\* After append the buffer holds its old rows and every key of the batch.
LEMMA AppendedHolds ==
  ASSUME NEW S, NEW q \in Seq(S), NEW R
  PROVE  /\ R \subseteq Appended(R, q)
         /\ Keys(Held(R)) \cup Keys(Range(q)) \subseteq Keys(Held(Appended(R, q)))
         /\ Held(Appended(R, q)) \subseteq Held(R) \cup Range(q)
<1>1. R \subseteq Appended(R, q)
  BY DEF Appended
<1>2. Keys(Held(R)) \subseteq Keys(Held(Appended(R, q)))
  BY <1>1 DEF Keys, Held
<1>3. ASSUME NEW x \in Range(q) PROVE Key(x) \in Keys(Held(Appended(R, q)))
  <2>1. CASE Key(x) \in Keys(Held(R))
    BY <1>2, <2>1
  <2>2. CASE Key(x) \notin Keys(Held(R))
    <3>1. PICK i \in NewIn(q, Keys(Held(R))) : Key(q[i]) = Key(x)
      BY <2>2, NewInFindsKeys
    <3>2. q[i] \in Held(Appended(R, q))
      BY HeldByAppended
    <3> QED BY <3>1, <3>2 DEF Keys
  <2> QED BY <2>1, <2>2
<1>4. Held(Appended(R, q)) \subseteq Held(R) \cup Range(q)
  BY NewInType, HeldByAppended
<1> QED BY <1>1, <1>2, <1>3, <1>4 DEF Keys

LEMMA LastIdType ==
  ASSUME NEW R \in SUBSET Row, IsFiniteSet(R)
  PROVE  LastId(R) \in Nat /\ \A r \in R : r.id <= LastId(R)
<1> DEFINE ids == {r.id : r \in R}
<1>1. CASE R = {}
  BY <1>1 DEF LastId
<1>2. CASE R # {}
  <2> DEFINE f == [r \in R |-> r.id]
  <2>1. ids = {f[r] : r \in R}
    OBVIOUS
  <2>2. IsFiniteSet({f[r] : r \in R})
    <3> HIDE DEF f
    <3>1. DOMAIN f = R
      BY DEF f
    <3> QED BY <3>1, ImageFinite
  <2>3. ids \subseteq Nat /\ ids # {} /\ IsFiniteSet(ids)
    BY <1>2, <2>1, <2>2 DEF Row
  <2>4. Max(ids) \in ids /\ \A n \in ids : Max(ids) >= n
    <3> HIDE DEF ids
    <3> QED BY <2>3, MaxIsGreatest
  <2>5. LastId(R) = Max(ids)
    BY <1>2 DEF LastId
  <2>6. LastId(R) \in Nat /\ \A n \in ids : n \in Nat /\ LastId(R) >= n
    BY <2>3, <2>4, <2>5
  <2> QED BY <2>6
<1> QED BY <1>1, <1>2

LEMMA AppendedType ==
  ASSUME NEW R \in SUBSET Row, IsFiniteSet(R), NEW q \in Seq(Sample)
  PROVE  Appended(R, q) \in SUBSET Row /\ IsFiniteSet(Appended(R, q))
<1> DEFINE I == NewIn(q, Keys(Held(R)))
           f == [i \in I |-> [id |-> LastId(R) + i, s |-> q[i]]]
<1>1. IsFiniteSet(I) /\ I \subseteq Nat /\ \A i \in I : q[i] \in Sample
  BY NewInType
<1>2. Appended(R, q) = R \cup {f[i] : i \in I}
  BY DEF Appended
<1>3. {f[i] : i \in I} \subseteq Row
  BY <1>1, LastIdType DEF Row
<1>4. IsFiniteSet({f[i] : i \in I})
  <2>1. DOMAIN f = I
    OBVIOUS
  <2> HIDE DEF f, I
  <2> QED BY <1>1, <2>1, ImageFinite
<1>5. IsFiniteSet(R \cup {f[i] : i \in I})
  <2> HIDE DEF f, I
  <2> QED BY <1>4, FS_Union
<1> QED BY <1>2, <1>3, <1>5

\* The oldest row of a nonempty buffer is always taken.
LEMMA TakeFindsOldest ==
  ASSUME NEW R \in SUBSET Row, R # {}
  PROVE  Take(R) # {}
<1> DEFINE Before(o, r) == o.s.ts < r.s.ts \/ (o.s.ts = r.s.ts /\ o.id < r.id)
<1>1. \A r \in R : r.id \in Nat /\ r.s.ts \in Nat
  BY DEF Row, Sample
<1>2. PICK t \in {r.s.ts : r \in R} : \A u \in {r.s.ts : r \in R} : t <= u
  <2> DEFINE T == {r.s.ts : r \in R}
  <2>1. T \subseteq Nat /\ T # {}
    BY <1>1
  <2> HIDE DEF T
  <2>2. \E t \in T : \A u \in T : t <= u
    BY <2>1, SmallestExists
  <2> QED BY <2>2 DEF T
<1>3. PICK n \in {r.id : r \in {x \in R : x.s.ts = t}} :
             \A k \in {r.id : r \in {x \in R : x.s.ts = t}} : n <= k
  <2> DEFINE N == {r.id : r \in {x \in R : x.s.ts = t}}
  <2>1. N \subseteq Nat /\ N # {}
    BY <1>1, <1>2
  <2> HIDE DEF N
  <2>2. \E m \in N : \A k \in N : m <= k
    BY <2>1, SmallestExists
  <2> QED BY <2>2 DEF N
<1>4. PICK r \in R : r.s.ts = t /\ r.id = n
  BY <1>3
<1>5. \A o \in R : t <= o.s.ts /\ (o.s.ts = t => n <= o.id)
  BY <1>2, <1>3
<1>6. \A o \in R : ~ Before(o, r)
  BY <1>1, <1>4, <1>5
<1>7. {o \in R : Before(o, r)} = {}
  BY <1>6
<1>8. Cardinality({o \in R : Before(o, r)}) < BatchSize
  <2>1. Cardinality({}) = 0 /\ 0 < BatchSize
    BY FS_EmptySet, BatchSizeAssumption
  <2> QED BY <1>7, <2>1
<1>9. Take(R) = {x \in R : Cardinality({o \in R : Before(o, x)}) < BatchSize}
  BY DEF Take
<1> QED BY <1>4, <1>8, <1>9

\* The record of what one tag and run lost is a record.
LEMMA LossOfType ==
  ASSUME NEW S \in SUBSET Sample, S # {}, IsFiniteSet(S)
  PROVE  LossOf(S) \in Loss
<1> DEFINE any   == CHOOSE s \in S : TRUE
           times == {s.ts : s \in S}
           nums  == {s.seq : s \in S}
           ft    == [s \in S |-> s.ts]
           fn    == [s \in S |-> s.seq]
<1>1. any \in Sample
  OBVIOUS
<1>2. times \subseteq Nat /\ times # {} /\ nums \subseteq Nat /\ nums # {}
  BY DEF Sample
<1>3. times = {ft[s] : s \in S} /\ nums = {fn[s] : s \in S}
  OBVIOUS
<1>4. IsFiniteSet(times) /\ IsFiniteSet(nums)
  <2>1. DOMAIN ft = S /\ DOMAIN fn = S
    OBVIOUS
  <2> HIDE DEF ft, fn, times, nums
  <2> QED BY <1>3, <2>1, ImageFinite
<1>5. /\ Min(times) \in Nat /\ Max(times) \in Nat
      /\ Min(nums) \in Nat /\ Max(nums) \in Nat
  <2> HIDE DEF times, nums
  <2> QED BY <1>2, <1>4, MinIsLeast, MaxIsGreatest
<1>6. Cardinality(S) \in Nat
  BY FS_CardinalityType
<1>7. LossOf(S) = [run |-> any.run, tag |-> any.tag,
                   firstTs  |-> Min(times), lastTs  |-> Max(times),
                   firstSeq |-> Min(nums),  lastSeq |-> Max(nums),
                   samples  |-> Cardinality(S)]
  BY DEF LossOf
<1>8. any.run \in Nat /\ any.tag \in Tag
  BY <1>1 DEF Sample
<1> HIDE DEF any, times, nums
<1> QED BY <1>5, <1>6, <1>7, <1>8 DEF Loss

LEMMA LossesOfType ==
  ASSUME NEW D \in SUBSET Sample, IsFiniteSet(D)
  PROVE  LossesOf(D) \subseteq Loss
<1> SUFFICES ASSUME NEW x \in D
             PROVE  LossOf({s \in D : s.run = x.run /\ s.tag = x.tag}) \in Loss
  BY DEF LossesOf
<1> DEFINE S == {s \in D : s.run = x.run /\ s.tag = x.tag}
<1>1. S \in SUBSET D /\ S # {} /\ S \in SUBSET Sample
  OBVIOUS
<1>2. IsFiniteSet(S)
  <2> HIDE DEF S
  <2> QED BY <1>1, FS_Subset
<1>3. LossOf(S) \in Loss
  <2> HIDE DEF S
  <2> QED BY <1>1, <1>2, LossOfType
<1> QED BY <1>3

-----------------------------------------------------------------------------
(* One transaction of the buffer                                           *)

LEMMA BufferIntoType ==
  ASSUME NEW R \in SUBSET Row, IsFiniteSet(R), NEW q \in Seq(Sample),
         lost \subseteq Loss, discarded \subseteq Sample, BufferInto(R, q)
  PROVE  /\ buffered' \subseteq Row
         /\ IsFiniteSet(buffered')
         /\ lost' \subseteq Loss
         /\ discarded' \subseteq Sample
<1> DEFINE all  == Appended(R, q)
           gone == Doomed(all)
           f    == [r \in gone |-> r.s]
<1>1. all \in SUBSET Row /\ IsFiniteSet(all)
  BY AppendedType
<1>2. gone \in SUBSET all /\ all \ gone \in SUBSET all
  BY DEF Doomed
<1>3. /\ buffered' = all \ gone
      /\ lost' = lost \cup LossesOf(Held(gone))
      /\ discarded' = discarded \cup Held(gone)
  BY DEF BufferInto
<1>4. Held(gone) = {f[r] : r \in gone} /\ DOMAIN f = gone
  BY DEF Held
<1>5. Held(gone) \in SUBSET Sample
  BY <1>1, <1>2 DEF Held, Row
<1> HIDE DEF all, gone, f
<1>6. IsFiniteSet(gone) /\ IsFiniteSet(all \ gone)
  BY <1>1, <1>2, FS_Subset
<1>7. IsFiniteSet(Held(gone))
  BY <1>4, <1>6, ImageFinite
<1>8. LossesOf(Held(gone)) \subseteq Loss
  BY <1>5, <1>7, LossesOfType
<1> QED BY <1>1, <1>2, <1>3, <1>5, <1>6, <1>8

\* Buffering a batch keeps the key of every row and of every sample of the
\* batch, in the table or among the discarded.
LEMMA BufferIntoKeepsKeys ==
  ASSUME NEW S, NEW q \in Seq(S), NEW R, BufferInto(R, q)
  PROVE  /\ Keys(Held(R)) \cup Keys(Range(q))
              \subseteq Keys(Held(buffered')) \cup Keys(discarded')
         /\ Keys(discarded) \subseteq Keys(discarded')
<1> DEFINE all  == Appended(R, q)
           gone == Doomed(all)
<1>1. Keys(Held(R)) \cup Keys(Range(q)) \subseteq Keys(Held(all))
  BY AppendedHolds
<1>2. buffered' = all \ gone /\ discarded' = discarded \cup Held(gone)
  BY DEF BufferInto
<1>3. gone \subseteq all
  BY DEF Doomed
<1> HIDE DEF all, gone
<1>4. Held(all) \subseteq Held(buffered') \cup discarded'
  BY <1>2, <1>3 DEF Held
<1>5. Keys(Held(all)) \subseteq Keys(Held(buffered')) \cup Keys(discarded')
  BY <1>4 DEF Keys
<1> QED BY <1>1, <1>2, <1>5 DEF Keys

-----------------------------------------------------------------------------
(* Types.  Besides TypeOK: the buffer is finite, so that its largest id and *)
(* the extremes of what it discards exist, and the source has stamped each  *)
(* tag's first value.                                                      *)

TypeInv ==
  /\ TypeOK
  /\ IsFiniteSet(buffered)
  /\ \A t \in Tag : srcTs[t] >= 1

LEMMA OnSampleType ==
  ASSUME TypeInv, NEW t \in Tag, NEW ts \in Nat, OnSample(t, ts)
  PROVE  /\ lastTs' \in [Tag -> Nat]
         /\ seq' \in [Tag -> Nat]
         /\ queue' \in Seq(Sample)
         /\ admitted' \in SUBSET Sample
<1> USE DEF TypeInv, TypeOK
<1>1. CASE lastTs[t] = ts
  BY <1>1 DEF OnSample, ingressVars
<1>2. CASE lastTs[t] # ts
  <2> DEFINE s == [tag |-> t, ts |-> ts, run |-> run, seq |-> seq[t] + 1]
  <2>1. s \in Sample
    BY DEF Sample
  <2>2. /\ lastTs' = [lastTs EXCEPT ![t] = ts]
        /\ seq' = [seq EXCEPT ![t] = @ + 1]
        /\ queue' = Append(queue, s)
        /\ admitted' = admitted \cup {s}
    BY <1>2 DEF OnSample
  <2>3. queue' \in Seq(Sample)
    <3> HIDE DEF s
    <3> QED BY <2>1, <2>2, AppendProperties
  <2>4. lastTs' \in [Tag -> Nat] /\ seq' \in [Tag -> Nat]
    BY <2>2
  <2>5. admitted' \in SUBSET Sample
    <3> HIDE DEF s
    <3> QED BY <2>1, <2>2
  <2> QED BY <2>3, <2>4, <2>5
<1> QED BY <1>1, <1>2

LEMMA DrainTurnType ==
  ASSUME TypeInv, NEW R \in SUBSET Row, IsFiniteSet(R), DrainTurn(R)
  PROVE  /\ buffered' \subseteq Row
         /\ IsFiniteSet(buffered')
         /\ lost' \subseteq Loss
         /\ discarded' \subseteq Sample
         /\ queue' = <<>>
         /\ replay' \subseteq Row
         /\ pc' \in Pcs
<1>1. /\ buffered' \subseteq Row
      /\ IsFiniteSet(buffered')
      /\ lost' \subseteq Loss
      /\ discarded' \subseteq Sample
  BY BufferIntoType DEF DrainTurn, TypeInv, TypeOK
<1>2. queue' = <<>> /\ replay' = Take(buffered')
  BY DEF DrainTurn
<1>3. replay' \subseteq Row
  BY <1>1, <1>2 DEF Take
<1>4. pc' \in Pcs
  BY DEF DrainTurn, ForwardLosses, Pcs
<1> QED BY <1>1, <1>2, <1>3, <1>4

\* Upserts of samples and of losses stay within their tables' types.
LEMMA ArchiveType ==
  ASSUME TypeInv
  PROVE  /\ Upsert(sample, batch) \subseteq Sample
         /\ UpsertRows(sample, replay) \subseteq Sample
         /\ UpsertLosses(collectorLoss, lost) \subseteq Loss
<1> USE DEF TypeInv, TypeOK
<1>1. Upsert(sample, batch) \subseteq Sample
  BY UpsertKeys, SeqRange
<1>2. UpsertRows(sample, replay) \subseteq Sample
  BY DEF UpsertRows, Held, Row
<1>3. UpsertLosses(collectorLoss, lost) \subseteq Loss
  BY DEF UpsertLosses
<1> QED BY <1>1, <1>2, <1>3

LEMMA TypeInit == Init => TypeInv
<1> SUFFICES ASSUME Init PROVE TypeInv
  OBVIOUS
<1>1. IsFiniteSet(buffered)
  BY FS_EmptySet DEF Init
<1>2. TypeOK
  <2>1. queue \in Seq(Sample) /\ batch \in Seq(Sample)
    BY EmptySeq DEF Init
  <2>2. /\ srcTs \in [Tag -> Nat] /\ published \in [Tag -> Nat]
        /\ lastTs \in [Tag -> Nat] /\ seq \in [Tag -> Nat]
        /\ run \in Nat
    BY DEF Init
  <2>3. phase \in Phases /\ pc \in Pcs /\ linkUp \in BOOLEAN
        /\ conn \in {"none", "open", "broken"} /\ archUp \in BOOLEAN
    BY DEF Init, Phases, Pcs
  <2>4. /\ replay \in SUBSET Row /\ buffered \in SUBSET Row
        /\ lost \in SUBSET Loss /\ collectorLoss \in SUBSET Loss
        /\ sample \in SUBSET Sample /\ admitted \in SUBSET Sample
        /\ discarded \in SUBSET Sample /\ killed \in SUBSET Sample
        /\ dropped \in SUBSET Sample
    BY DEF Init
  <2> QED BY <2>1, <2>2, <2>3, <2>4 DEF TypeOK
<1>3. \A t \in Tag : srcTs[t] >= 1
  BY DEF Init
<1> QED BY <1>1, <1>2, <1>3 DEF TypeInv

\* What a process that is gone leaves has the right types.
LEMMA GoneType ==
  ASSUME Gone
  PROVE  /\ phase' \in Phases /\ linkUp' \in BOOLEAN
         /\ conn' \in {"none", "open", "broken"} /\ pc' \in Pcs
         /\ queue' \in Seq(Sample) /\ batch' \in Seq(Sample)
         /\ replay' \in SUBSET Row
         /\ lastTs' \in [Tag -> Nat] /\ seq' \in [Tag -> Nat]
<1>1. queue' = <<>> /\ batch' = <<>>
  BY DEF Gone
<1>2. queue' \in Seq(Sample) /\ batch' \in Seq(Sample)
  BY <1>1, EmptySeq
<1>3. lastTs' \in [Tag -> Nat] /\ seq' \in [Tag -> Nat]
  BY DEF Gone
<1> QED BY <1>2, <1>3 DEF Gone, Phases, Pcs

\* A new subscription's first notification is the current value.
LEMMA SubscribedType ==
  ASSUME TypeInv
  PROVE  Subscribed \in [Tag -> Nat]
<1>1. \A t \in Tag : srcTs[t] - 1 \in Nat
  BY DEF TypeInv, TypeOK
<1> QED BY <1>1 DEF Subscribed

LEMMA TypeSource == TypeInv /\ (Source \/ Reconnect) => TypeInv'
<1> SUFFICES ASSUME TypeInv, Source \/ Reconnect PROVE TypeInv'
  OBVIOUS
<1> USE DEF TypeInv, TypeOK, sourceVars, ingressVars, storeVars, archiveVars,
            historyVars
<1>1. ASSUME NEW t \in Tag, SourceChange(t) PROVE TypeInv'
  <2>1. srcTs' \in [Tag -> Nat] /\ \A u \in Tag : srcTs'[u] >= 1
    BY <1>1 DEF SourceChange
  <2> QED BY <1>1, <2>1 DEF SourceChange
<1>2. ASSUME NEW t \in Tag, Notify(t) PROVE TypeInv'
  <2>1. published[t] + 1 \in Nat /\ OnSample(t, published[t] + 1)
    BY <1>2 DEF Notify
  <2>2. /\ lastTs' \in [Tag -> Nat] /\ seq' \in [Tag -> Nat]
        /\ queue' \in Seq(Sample) /\ admitted' \in SUBSET Sample
    BY <2>1, OnSampleType
  <2>3. published' \in [Tag -> Nat]
    BY <1>2 DEF Notify
  <2> QED BY <1>2, <2>2, <2>3 DEF Notify
<1>3. ASSUME NEW t \in Tag, MaxTimeRead(t) PROVE TypeInv'
  <2>1. srcTs[t] \in Nat /\ OnSample(t, srcTs[t])
    BY <1>3 DEF MaxTimeRead
  <2>2. /\ lastTs' \in [Tag -> Nat] /\ seq' \in [Tag -> Nat]
        /\ queue' \in Seq(Sample) /\ admitted' \in SUBSET Sample
    BY <2>1, OnSampleType
  <2> QED BY <1>3, <2>2 DEF MaxTimeRead
<1>4. CASE Reconnect
  <2>1. published' \in [Tag -> Nat]
    BY <1>4, SubscribedType DEF Reconnect
  <2> QED BY <1>4, <2>1 DEF Reconnect
<1> QED BY <1>1, <1>2, <1>3, <1>4 DEF Source

LEMMA TypeArchive == TypeInv /\ Archive => TypeInv'
<1> USE DEF TypeInv, TypeOK, sourceVars, ingressVars, storeVars, archiveVars,
            historyVars, Break
<1>1. TypeInv /\ ArchiveDown => TypeInv'
  BY DEF ArchiveDown
<1>2. TypeInv /\ ArchiveUp => TypeInv'
  BY DEF ArchiveUp
<1>3. TypeInv /\ ConnectionLost => TypeInv'
  BY DEF ConnectionLost
<1> QED BY <1>1, <1>2, <1>3 DEF Archive

LEMMA TypeForwarder == TypeInv /\ Forwarder => TypeInv'
<1> SUFFICES ASSUME TypeInv, Forwarder PROVE TypeInv'
  OBVIOUS
<1> USE DEF TypeInv, TypeOK, sourceVars, ingressVars, storeVars, archiveVars,
            historyVars, Pcs
<1>0. <<>> \in Seq(Sample)
  BY EmptySeq
<1>1. CASE CollectOne
  <2>1. Head(queue) \in Sample /\ Tail(queue) \in Seq(Sample)
    BY <1>1, HeadTailProperties DEF CollectOne
  <2>2. Append(batch, Head(queue)) \in Seq(Sample)
    BY <2>1, AppendProperties
  <2> QED BY <1>1, <2>1, <2>2 DEF CollectOne
<1>2. CASE CollectDone
  <2>1. CASE linkUp
    BY <1>2, <2>1 DEF CollectDone
  <2>2. CASE ~ linkUp
    <3>1. BufferInto(buffered, batch) /\ pc' = "connect" /\ batch' = <<>>
      BY <1>2, <2>2 DEF CollectDone
    <3>2. /\ buffered' \subseteq Row /\ IsFiniteSet(buffered')
          /\ lost' \subseteq Loss /\ discarded' \subseteq Sample
      BY <3>1, BufferIntoType
    <3> QED BY <1>0, <1>2, <3>1, <3>2 DEF CollectDone
  <2> QED BY <2>1, <2>2
<1>3. CASE WriteCommit
  BY <1>3, ArchiveType DEF WriteCommit
<1>4. CASE WriteAck
  BY <1>0, <1>4 DEF WriteAck, ForwardLosses
<1>5. CASE WriteFail
  <2>1. /\ buffered' \subseteq Row /\ IsFiniteSet(buffered')
        /\ lost' \subseteq Loss /\ discarded' \subseteq Sample
    BY <1>5, BufferIntoType DEF WriteFail
  <2> QED BY <1>0, <1>5, <2>1 DEF WriteFail, CloseSink
<1>6. CASE ConnectOk
  <2>1. CASE buffered = {}
    BY <1>6, <2>1 DEF ConnectOk, Drain, ForwardLosses
  <2>2. CASE buffered # {}
    <3>1. DrainTurn(buffered)
      BY <1>6, <2>2 DEF ConnectOk, Drain
    <3>2. /\ buffered' \subseteq Row /\ IsFiniteSet(buffered')
          /\ lost' \subseteq Loss /\ discarded' \subseteq Sample
          /\ queue' = <<>> /\ replay' \subseteq Row /\ pc' \in Pcs
      BY <3>1, DrainTurnType
    <3> QED BY <1>0, <1>6, <3>2 DEF ConnectOk
  <2> QED BY <2>1, <2>2
<1>7. CASE ConnectFail
  BY <1>7 DEF ConnectFail
<1>8. CASE ReplayCommit
  BY <1>8, ArchiveType DEF ReplayCommit
<1>9. CASE ReplayAck
  <2>1. buffered \ replay \in SUBSET Row /\ IsFiniteSet(buffered \ replay)
    BY FS_Subset
  <2>2. DrainTurn(buffered \ replay)
    BY <1>9 DEF ReplayAck
  <2>3. /\ buffered' \subseteq Row /\ IsFiniteSet(buffered')
        /\ lost' \subseteq Loss /\ discarded' \subseteq Sample
        /\ queue' = <<>> /\ replay' \subseteq Row /\ pc' \in Pcs
    BY <2>1, <2>2, DrainTurnType
  <2> QED BY <1>0, <1>9, <2>3 DEF ReplayAck
<1>10. CASE ReplayFail
  BY <1>10 DEF ReplayFail, CloseSink
<1>11. CASE LossCommit
  BY <1>11, ArchiveType DEF LossCommit
<1>12. CASE LossAck
  BY <1>12 DEF LossAck
<1>13. CASE LossFail
  BY <1>13 DEF LossFail, CloseSink
<1> QED BY <1>1, <1>2, <1>3, <1>4, <1>5, <1>6, <1>7, <1>8, <1>9, <1>10,
           <1>11, <1>12, <1>13 DEF Forwarder

LEMMA TypeProcess == TypeInv /\ Process => TypeInv'
<1> SUFFICES ASSUME TypeInv, Process PROVE TypeInv'
  OBVIOUS
<1> USE DEF TypeInv, TypeOK, sourceVars, ingressVars, storeVars, archiveVars,
            historyVars
<1>0. /\ <<>> \in Seq(Sample)
      /\ Range(queue) \subseteq Sample /\ Range(batch) \subseteq Sample
  BY EmptySeq, SeqRange
<1>1. CASE Start
  <2>1. Take(buffered) \subseteq Row
    BY DEF Take
  <2> QED BY <1>1, <2>1 DEF Start, Phases, Pcs
<1>2. CASE StartTasks
  BY <1>2, SubscribedType DEF StartTasks, Phases
<1>3. CASE StartFail
  BY <1>3, GoneType DEF StartFail
<1>4. CASE Stop
  BY <1>0, <1>4 DEF Stop, Phases, Pcs
<1>5. CASE Flush
  <2>1. /\ buffered' \subseteq Row /\ IsFiniteSet(buffered')
        /\ lost' \subseteq Loss /\ discarded' \subseteq Sample
    BY <1>5, BufferIntoType DEF Flush
  <2> QED BY <1>5, <2>1, GoneType DEF Flush
<1>6. CASE Kill
  BY <1>0, <1>6, GoneType DEF Kill
<1> QED BY <1>1, <1>2, <1>3, <1>4, <1>5, <1>6 DEF Process

LEMMA TypeNext == TypeInv /\ [Next]_vars => TypeInv'
<1>1. TypeInv /\ UNCHANGED vars => TypeInv'
  BY DEF TypeInv, TypeOK, vars
<1> QED BY <1>1, TypeSource, TypeArchive, TypeForwarder, TypeProcess DEF Next

\* The state always has its type, whatever the interleaving of arrivals,
\* outages, stops and kills: timestamps and numbers are naturals (a new
\* subscription included), the buffer's rows and every record of a loss are
\* well formed.
THEOREM TypeCorrect == Spec => []TypeOK
<1>1. Spec => []TypeInv
  BY TypeInit, TypeNext, PTL DEF Spec
<1>2. TypeInv => TypeOK
  BY DEF TypeInv
<1> QED BY <1>1, <1>2, PTL

-----------------------------------------------------------------------------
(* Recovery drains before forwarding resumes.  LiveOnlyWhenDrained speaks of *)
(* the moment a live write is under way; what makes it inductive is that    *)
(* wherever the forwarder could next choose a live write, link up and not in *)
(* the middle of a drain, the buffer is empty already.                      *)

DrainInv ==
  /\ linkUp /\ pc \in {"collect", "write", "wrote", "losses", "sent"} => buffered = {}
  /\ pc \in {"write", "wrote"} => linkUp
  /\ pc = "connect" => ~ linkUp

\* A turn of the drain either has rows to replay or leaves nothing behind.
LEMMA DrainTurnEmpties ==
  ASSUME TypeInv, NEW R \in SUBSET Row, IsFiniteSet(R), DrainTurn(R)
  PROVE  pc' = "replay" \/ (buffered' = {} /\ pc' \in {"collect", "losses"})
<1>1. CASE replay' = {}
  <2>1. buffered' \in SUBSET Row /\ Take(buffered') = {}
    BY <1>1, DrainTurnType DEF DrainTurn
  <2>2. buffered' = {}
    BY <2>1, TakeFindsOldest
  <2> QED BY <1>1, <2>2 DEF DrainTurn, ForwardLosses
<1>2. CASE replay' # {}
  BY <1>2 DEF DrainTurn
<1> QED BY <1>1, <1>2

LEMMA DrainForwarder == TypeInv /\ DrainInv /\ Forwarder => DrainInv'
<1> SUFFICES ASSUME TypeInv, DrainInv, Forwarder PROVE DrainInv'
  OBVIOUS
<1> USE DEF DrainInv, storeVars
<1>1. CASE CollectOne
  BY <1>1 DEF CollectOne
<1>2. CASE CollectDone
  BY <1>2 DEF CollectDone
<1>3. CASE WriteCommit
  BY <1>3 DEF WriteCommit
<1>4. CASE WriteAck
  BY <1>4 DEF WriteAck, ForwardLosses
<1>5. CASE WriteFail
  BY <1>5 DEF WriteFail
<1>6. CASE ConnectOk
  <2>1. CASE buffered = {}
    BY <1>6, <2>1 DEF ConnectOk, Drain, ForwardLosses
  <2>2. CASE buffered # {}
    <3>1. DrainTurn(buffered) /\ linkUp'
      BY <1>6, <2>2 DEF ConnectOk, Drain
    <3>2. pc' = "replay" \/ (buffered' = {} /\ pc' \in {"collect", "losses"})
      BY <3>1, DrainTurnEmpties DEF TypeInv, TypeOK
    <3> QED BY <3>1, <3>2
  <2> QED BY <2>1, <2>2
<1>7. CASE ConnectFail
  BY <1>7 DEF ConnectFail
<1>8. CASE ReplayCommit
  BY <1>8 DEF ReplayCommit
<1>9. CASE ReplayAck
  <2>1. buffered \ replay \in SUBSET Row /\ IsFiniteSet(buffered \ replay)
    BY FS_Subset DEF TypeInv, TypeOK
  <2>2. DrainTurn(buffered \ replay) /\ linkUp' = linkUp
    BY <1>9 DEF ReplayAck
  <2>3. pc' = "replay" \/ (buffered' = {} /\ pc' \in {"collect", "losses"})
    BY <2>1, <2>2, DrainTurnEmpties
  <2> QED BY <2>2, <2>3
<1>10. CASE ReplayFail
  BY <1>10 DEF ReplayFail
<1>11. CASE LossCommit
  BY <1>11 DEF LossCommit
<1>12. CASE LossAck
  BY <1>12 DEF LossAck
<1>13. CASE LossFail
  BY <1>13 DEF LossFail
<1> QED BY <1>1, <1>2, <1>3, <1>4, <1>5, <1>6, <1>7, <1>8, <1>9, <1>10,
           <1>11, <1>12, <1>13 DEF Forwarder

LEMMA DrainNext == TypeInv /\ DrainInv /\ [Next]_vars => DrainInv'
<1> SUFFICES ASSUME TypeInv, DrainInv, [Next]_vars PROVE DrainInv'
  OBVIOUS
<1>1. CASE Source \/ Reconnect \/ Archive
  BY <1>1 DEF DrainInv, Source, SourceChange, Notify, MaxTimeRead, Reconnect,
              Archive, ArchiveDown, ArchiveUp, ConnectionLost, storeVars
<1>2. CASE Process
  <2>1. CASE Start
    BY <2>1 DEF DrainInv, Start, storeVars
  <2>2. CASE StartTasks
    BY <2>2 DEF DrainInv, StartTasks, storeVars
  <2>3. CASE Stop
    BY <2>3 DEF DrainInv, Stop
  <2>4. CASE StartFail \/ Flush \/ Kill
    BY <2>4 DEF DrainInv, StartFail, Flush, Kill, Gone
  <2> QED BY <1>2, <2>1, <2>2, <2>3, <2>4 DEF Process
<1>3. CASE UNCHANGED vars
  BY <1>3 DEF DrainInv, vars
<1> QED BY <1>1, <1>2, <1>3, DrainForwarder DEF Next

\* Live samples are written only when nothing older waits in the buffer, for
\* every bound and batch size and however often a drain is interrupted
\* (pipeline.py, drain and _try_recover).
THEOREM DrainedFirst == Spec => []LiveOnlyWhenDrained
<1>1. Init => DrainInv
  BY DEF Init, DrainInv
<1>2. Spec => [](TypeInv /\ DrainInv)
  BY <1>1, TypeInit, TypeNext, DrainNext, PTL DEF Spec
<1>3. TypeInv /\ DrainInv => LiveOnlyWhenDrained
  BY DEF TypeInv, DrainInv, LiveOnlyWhenDrained
<1> QED BY <1>2, <1>3, PTL

-----------------------------------------------------------------------------
(* Nothing disappears.  Samples leave memory without a trace in the history *)
(* only when a write is acknowledged, when the buffer takes them, or with a *)
(* process that has not begun to collect, so EverySampleAccounted needs to  *)
(* know what those moments know.                                           *)

CustodyInv ==
  /\ EverySampleAccounted
  /\ pc = "wrote" => Keys(Range(batch)) \subseteq Keys(sample)
  /\ pc = "replayed" => Keys(Held(replay)) \subseteq Keys(sample)
  /\ phase \in {"down", "starting"} => queue = <<>>
  /\ phase # "running" => batch = <<>>

\* The keys in the buffer, in the archive or on the list of the discarded.
Stored == Keys(Held(buffered)) \cup Keys(sample) \cup Keys(discarded)

\* Accounts stay complete when nothing stored or lost is taken back and what
\* leaves memory is stored or lost.
LEMMA AccountsKept ==
  ASSUME EverySampleAccounted, admitted' = admitted,
         Stored \subseteq Stored', killed \cup dropped \subseteq (killed \cup dropped)',
         \A s \in InMemory : s \in (InMemory \cup killed \cup dropped)'
                             \/ Key(s) \in Stored'
  PROVE  EverySampleAccounted'
BY DEF EverySampleAccounted, Stored

LEMMA KeysMonotonic ==
  ASSUME NEW S, NEW T, S \subseteq T
  PROVE  Keys(S) \subseteq Keys(T)
BY DEF Keys

LEMMA KeyInKeys ==
  ASSUME NEW S, NEW x \in S
  PROVE  Key(x) \in Keys(S)
BY DEF Keys

\* Buffering q over what is left of the buffer keeps everything stored, given
\* that the archive has what was taken out of the buffer.
LEMMA BufferIntoStores ==
  ASSUME NEW S, NEW q \in Seq(S), NEW P, Keys(Held(P)) \subseteq Keys(sample),
         BufferInto(buffered \ P, q), sample' = sample
  PROVE  /\ Stored \subseteq Stored'
         /\ \A s \in Range(q) : Key(s) \in Stored'
<1>1. /\ Keys(Held(buffered \ P)) \cup Keys(Range(q))
              \subseteq Keys(Held(buffered')) \cup Keys(discarded')
      /\ Keys(discarded) \subseteq Keys(discarded')
  BY BufferIntoKeepsKeys
<1>2. Held(buffered) \subseteq Held(buffered \ P) \cup Held(P)
  BY DEF Held
<1>3. Keys(Held(buffered)) \subseteq Keys(Held(buffered \ P)) \cup Keys(Held(P))
  BY <1>2 DEF Keys
<1>4. Stored' = Keys(Held(buffered')) \cup Keys(sample') \cup Keys(discarded')
  BY DEF Stored
<1>5. Stored \subseteq Stored'
  BY <1>1, <1>3, <1>4 DEF Stored
<1>6. \A s \in Range(q) : Key(s) \in Keys(Range(q))
  BY KeyInKeys
<1> QED BY <1>1, <1>4, <1>5, <1>6

\* An arrival is either absorbed or in the queue.
LEMMA OnSampleAccounted ==
  ASSUME TypeInv, EverySampleAccounted, NEW t \in Tag, NEW ts \in Nat,
         OnSample(t, ts), batch' = batch, buffered' = buffered,
         sample' = sample, discarded' = discarded, killed' = killed,
         dropped' = dropped
  PROVE  EverySampleAccounted'
<1>1. Stored' = Stored
  BY DEF Stored
<1>2. CASE lastTs[t] = ts
  <2>1. admitted' = admitted /\ queue' = queue
    BY <1>2 DEF OnSample, ingressVars
  <2> QED BY <1>1, <2>1 DEF EverySampleAccounted, InMemory
<1>3. CASE lastTs[t] # ts
  <2> DEFINE s == [tag |-> t, ts |-> ts, run |-> run, seq |-> seq[t] + 1]
  <2>1. admitted' = admitted \cup {s} /\ queue' = Append(queue, s)
    BY <1>3 DEF OnSample
  <2>2. s \in Sample
    BY DEF Sample, TypeInv, TypeOK
  <2> HIDE DEF s
  <2>3. Range(queue') = Range(queue) \cup {s}
    BY <2>1, <2>2, RangeOfAppend DEF TypeInv, TypeOK
  <2>4. InMemory' = InMemory \cup {s}
    BY <2>3 DEF InMemory
  <2> QED BY <1>1, <2>1, <2>4 DEF EverySampleAccounted, Stored
<1> QED BY <1>2, <1>3

\* Steps that leave memory and every store as they are.
LEMMA AccountsUnchanged ==
  ASSUME EverySampleAccounted, UNCHANGED <<queue, batch, buffered, sample,
         admitted, discarded, killed, dropped>>
  PROVE  EverySampleAccounted'
BY DEF EverySampleAccounted, InMemory

\* Recovery's buffering: the queue goes into what is left of the buffer.
LEMMA DrainTurnAccounted ==
  ASSUME TypeInv, EverySampleAccounted, NEW P,
         Keys(Held(P)) \subseteq Keys(sample), DrainTurn(buffered \ P),
         UNCHANGED <<batch, sample, admitted, killed, dropped>>
  PROVE  EverySampleAccounted'
<1>1. BufferInto(buffered \ P, queue) /\ queue' = <<>>
  BY DEF DrainTurn
<1>2. Stored \subseteq Stored' /\ \A s \in Range(queue) : Key(s) \in Stored'
  BY <1>1, BufferIntoStores DEF TypeInv, TypeOK
<1>3. \A s \in InMemory : s \in InMemory' \/ Key(s) \in Stored'
  BY <1>2 DEF InMemory
<1>4. killed \cup dropped \subseteq (killed \cup dropped)'
  OBVIOUS
<1>5. \A s \in InMemory : s \in (InMemory \cup killed \cup dropped)'
                        \/ Key(s) \in Stored'
  BY <1>3
<1> QED BY <1>2, <1>4, <1>5, AccountsKept

\* A batch put into the buffer.
LEMMA BatchBufferedAccounted ==
  ASSUME TypeInv, EverySampleAccounted, BufferInto(buffered, batch),
         UNCHANGED <<queue, sample, admitted, killed, dropped>>
  PROVE  EverySampleAccounted'
<1>1. Keys(Held({})) \subseteq Keys(sample) /\ buffered \ {} = buffered
  BY DEF Held, Keys
<1>2. Stored \subseteq Stored' /\ \A s \in Range(batch) : Key(s) \in Stored'
  <2>1. BufferInto(buffered \ {}, batch)
    BY <1>1
  <2> QED BY <1>1, <2>1, BufferIntoStores DEF TypeInv, TypeOK
<1>3. \A s \in InMemory : s \in (InMemory \cup killed \cup dropped)'
                        \/ Key(s) \in Stored'
  BY <1>2 DEF InMemory
<1>4. killed \cup dropped \subseteq (killed \cup dropped)'
  OBVIOUS
<1> QED BY <1>2, <1>3, <1>4, AccountsKept

\* A commit only adds rows to the archive.
LEMMA CommitAccounted ==
  ASSUME EverySampleAccounted, sample \subseteq sample',
         UNCHANGED <<queue, batch, buffered, admitted, discarded, killed, dropped>>
  PROVE  EverySampleAccounted'
<1>1. Keys(sample) \subseteq Keys(sample')
  BY KeysMonotonic
<1> QED BY <1>1 DEF EverySampleAccounted, InMemory

LEMMA CustodyForwarder == TypeInv /\ CustodyInv /\ Forwarder => CustodyInv'
<1> SUFFICES ASSUME TypeInv, CustodyInv, Forwarder PROVE CustodyInv'
  OBVIOUS
<1> USE DEF sourceVars, ingressVars, storeVars, archiveVars, historyVars
<1>1. CASE CollectOne
  <2>1. /\ queue # <<>> /\ queue \in Seq(Sample) /\ batch \in Seq(Sample)
        /\ batch' = Append(batch, Head(queue)) /\ queue' = Tail(queue)
        /\ UNCHANGED <<buffered, sample, discarded, admitted, killed, dropped>>
        /\ pc' = "collect" /\ phase' = "running"
    BY <1>1 DEF CollectOne, TypeInv, TypeOK
  <2>2. Range(queue) = {Head(queue)} \cup Range(queue') /\ Head(queue) \in Sample
    BY <2>1, RangeOfTail
  <2>3. Range(batch') = Range(batch) \cup {Head(queue)}
    BY <2>1, <2>2, RangeOfAppend
  <2>4. InMemory' = InMemory
    BY <2>2, <2>3 DEF InMemory
  <2>5. EverySampleAccounted'
    BY <2>1, <2>4 DEF EverySampleAccounted, CustodyInv
  <2> QED BY <2>1, <2>5 DEF CustodyInv
<1>2. CASE CollectDone
  <2>1. CASE linkUp
    <3>1. EverySampleAccounted'
      BY <1>2, <2>1, AccountsUnchanged DEF CollectDone, CustodyInv
    <3> QED BY <1>2, <2>1, <3>1 DEF CollectDone, CustodyInv
  <2>2. CASE ~ linkUp
    <3>1. EverySampleAccounted'
      BY <1>2, <2>2, BatchBufferedAccounted DEF CollectDone, CustodyInv
    <3> QED BY <1>2, <2>2, <3>1 DEF CollectDone, CustodyInv
  <2> QED BY <2>1, <2>2
<1>3. CASE WriteCommit
  <2>1. sample \subseteq sample' /\ Keys(Range(batch)) \subseteq Keys(sample')
    BY <1>3, UpsertKeys DEF WriteCommit, TypeInv, TypeOK
  <2>2. EverySampleAccounted'
    BY <1>3, <2>1, CommitAccounted DEF WriteCommit, CustodyInv
  <2> QED BY <1>3, <2>1, <2>2 DEF WriteCommit, CustodyInv
<1>4. CASE WriteAck
  <2>1. \A s \in Range(batch) : Key(s) \in Keys(sample)
    BY <1>4, KeyInKeys DEF WriteAck, CustodyInv
  <2>2. Stored' = Stored
    BY <1>4 DEF WriteAck, Stored
  <2>3. \A s \in InMemory : s \in (InMemory \cup killed \cup dropped)'
                          \/ Key(s) \in Stored'
    BY <1>4, <2>1, <2>2 DEF WriteAck, InMemory, Stored
  <2>4. EverySampleAccounted'
    BY <1>4, <2>2, <2>3, AccountsKept DEF WriteAck, CustodyInv
  <2> QED BY <1>4, <2>4 DEF WriteAck, ForwardLosses, CustodyInv
<1>5. CASE WriteFail
  <2>1. EverySampleAccounted'
    BY <1>5, BatchBufferedAccounted DEF WriteFail, CustodyInv
  <2> QED BY <1>5, <2>1 DEF WriteFail, CustodyInv
<1>6. CASE ConnectOk
  <2>1. CASE buffered = {}
    <3>1. EverySampleAccounted'
      BY <1>6, <2>1, AccountsUnchanged DEF ConnectOk, Drain, CustodyInv
    <3> QED BY <1>6, <2>1, <3>1 DEF ConnectOk, Drain, ForwardLosses, CustodyInv
  <2>2. CASE buffered # {}
    <3>1. DrainTurn(buffered)
      BY <1>6, <2>2 DEF ConnectOk, Drain
    <3>2. DrainTurn(buffered \ {}) /\ Keys(Held({})) \subseteq Keys(sample)
      <4>1. buffered \ {} = buffered
        OBVIOUS
      <4> QED BY <3>1, <4>1 DEF Held, Keys
    <3>3. EverySampleAccounted'
      BY <1>6, <3>2, DrainTurnAccounted DEF ConnectOk, CustodyInv
    <3>4. pc' \in {"collect", "losses", "replay"} /\ queue' = <<>>
      BY <3>1 DEF DrainTurn, ForwardLosses
    <3> QED BY <1>6, <3>3, <3>4 DEF ConnectOk, CustodyInv
  <2> QED BY <2>1, <2>2
<1>7. CASE ConnectFail
  <2>1. EverySampleAccounted'
    BY <1>7, AccountsUnchanged DEF ConnectFail, CustodyInv
  <2> QED BY <1>7, <2>1 DEF ConnectFail, CustodyInv
<1>8. CASE ReplayCommit
  <2>1. sample \subseteq sample' /\ Keys(Held(replay)) \subseteq Keys(sample')
    BY <1>8, UpsertRowsKeys DEF ReplayCommit
  <2>2. EverySampleAccounted'
    BY <1>8, <2>1, CommitAccounted DEF ReplayCommit, CustodyInv
  <2> QED BY <1>8, <2>1, <2>2 DEF ReplayCommit, CustodyInv
<1>9. CASE ReplayAck
  <2>1. DrainTurn(buffered \ replay) /\ Keys(Held(replay)) \subseteq Keys(sample)
    BY <1>9 DEF ReplayAck, CustodyInv
  <2>2. EverySampleAccounted'
    BY <1>9, <2>1, DrainTurnAccounted DEF ReplayAck, CustodyInv
  <2>3. pc' \in {"collect", "losses", "replay"} /\ queue' = <<>>
    BY <2>1 DEF DrainTurn, ForwardLosses
  <2> QED BY <1>9, <2>2, <2>3 DEF ReplayAck, CustodyInv
<1>10. CASE ReplayFail
  <2>1. EverySampleAccounted'
    BY <1>10, AccountsUnchanged DEF ReplayFail, CustodyInv
  <2> QED BY <1>10, <2>1 DEF ReplayFail, CustodyInv
<1>11. CASE LossCommit \/ LossAck \/ LossFail
  <2>1. EverySampleAccounted'
    BY <1>11, AccountsUnchanged DEF LossCommit, LossAck, LossFail, CustodyInv
  <2> QED BY <1>11, <2>1 DEF LossCommit, LossAck, LossFail, CustodyInv
<1> QED BY <1>1, <1>2, <1>3, <1>4, <1>5, <1>6, <1>7, <1>8, <1>9, <1>10,
           <1>11 DEF Forwarder

LEMMA CustodyProcess == TypeInv /\ CustodyInv /\ Process => CustodyInv'
<1> SUFFICES ASSUME TypeInv, CustodyInv, Process PROVE CustodyInv'
  OBVIOUS
<1> USE DEF sourceVars, ingressVars, storeVars, archiveVars, historyVars
<1>1. CASE Start
  <2>1. EverySampleAccounted'
    BY <1>1, AccountsUnchanged DEF Start, CustodyInv
  <2> QED BY <1>1, <2>1 DEF Start, CustodyInv
<1>2. CASE StartTasks
  <2>1. EverySampleAccounted'
    BY <1>2, AccountsUnchanged DEF StartTasks, CustodyInv
  <2> QED BY <1>2, <2>1 DEF StartTasks, CustodyInv
<1>3. CASE StartFail
  <2>1. queue = <<>> /\ batch = <<>>
    BY <1>3 DEF StartFail, CustodyInv
  <2>2. EverySampleAccounted'
    BY <1>3, <2>1, AccountsUnchanged DEF StartFail, Gone, CustodyInv
  <2> QED BY <1>3, <2>2 DEF StartFail, Gone, CustodyInv
<1>4. CASE Stop
  <2>1. /\ InMemory \subseteq (InMemory \cup killed \cup dropped)'
        /\ killed \cup dropped \subseteq (killed \cup dropped)'
    BY <1>4 DEF Stop, InMemory
  <2>2. Stored' = Stored /\ admitted' = admitted
    BY <1>4 DEF Stop, Stored
  <2>3. EverySampleAccounted'
    BY <2>1, <2>2, AccountsKept DEF CustodyInv
  <2> QED BY <1>4, <2>3 DEF Stop, CustodyInv
<1>5. CASE Flush
  <2>1. BufferInto(buffered \ {}, queue) /\ Keys(Held({})) \subseteq Keys(sample)
    <3>1. buffered \ {} = buffered
      OBVIOUS
    <3> QED BY <1>5, <3>1 DEF Flush, Held, Keys
  <2>2. Stored \subseteq Stored' /\ \A s \in Range(queue) : Key(s) \in Stored'
    BY <1>5, <2>1, BufferIntoStores DEF Flush, TypeInv, TypeOK
  <2>3. batch = <<>>
    BY <1>5 DEF Flush, CustodyInv
  <2>4. \A s \in InMemory : Key(s) \in Stored'
    BY <2>2, <2>3, EmptyRange DEF InMemory
  <2>5. EverySampleAccounted'
    BY <1>5, <2>2, <2>4, AccountsKept DEF Flush, CustodyInv
  <2> QED BY <1>5, <2>5 DEF Flush, Gone, CustodyInv
<1>6. CASE Kill
  <2>1. /\ InMemory \subseteq (InMemory \cup killed \cup dropped)'
        /\ killed \cup dropped \subseteq (killed \cup dropped)'
    BY <1>6 DEF Kill, InMemory
  <2>2. Stored' = Stored /\ admitted' = admitted
    BY <1>6 DEF Kill, Stored
  <2>3. EverySampleAccounted'
    BY <2>1, <2>2, AccountsKept DEF CustodyInv
  <2> QED BY <1>6, <2>3 DEF Kill, Gone, CustodyInv
<1> QED BY <1>1, <1>2, <1>3, <1>4, <1>5, <1>6 DEF Process

LEMMA CustodySource == TypeInv /\ CustodyInv /\ (Source \/ Reconnect) => CustodyInv'
<1> SUFFICES ASSUME TypeInv, CustodyInv, Source \/ Reconnect PROVE CustodyInv'
  OBVIOUS
<1> USE DEF sourceVars, ingressVars, storeVars, archiveVars, historyVars
<1>1. ASSUME NEW t \in Tag, SourceChange(t) PROVE CustodyInv'
  <2>1. EverySampleAccounted'
    BY <1>1, AccountsUnchanged DEF SourceChange, CustodyInv
  <2> QED BY <1>1, <2>1 DEF SourceChange, CustodyInv
<1>2. ASSUME NEW t \in Tag, Notify(t) PROVE CustodyInv'
  <2>1. published[t] + 1 \in Nat
    BY DEF TypeInv, TypeOK
  <2>2. EverySampleAccounted'
    BY <1>2, <2>1, OnSampleAccounted DEF Notify, CustodyInv
  <2> QED BY <1>2, <2>2 DEF Notify, CustodyInv
<1>3. ASSUME NEW t \in Tag, MaxTimeRead(t) PROVE CustodyInv'
  <2>1. srcTs[t] \in Nat
    BY DEF TypeInv, TypeOK
  <2>2. EverySampleAccounted'
    BY <1>3, <2>1, OnSampleAccounted DEF MaxTimeRead, CustodyInv
  <2> QED BY <1>3, <2>2 DEF MaxTimeRead, CustodyInv
<1>4. CASE Reconnect
  <2>1. EverySampleAccounted'
    BY <1>4, AccountsUnchanged DEF Reconnect, CustodyInv
  <2> QED BY <1>4, <2>1 DEF Reconnect, CustodyInv
<1> QED BY <1>1, <1>2, <1>3, <1>4 DEF Source

LEMMA CustodyArchive == CustodyInv /\ Archive => CustodyInv'
<1> SUFFICES ASSUME CustodyInv, Archive PROVE CustodyInv'
  OBVIOUS
<1> USE DEF sourceVars, ingressVars, storeVars, archiveVars, historyVars
<1>1. EverySampleAccounted'
  BY AccountsUnchanged DEF Archive, ArchiveDown, ArchiveUp, ConnectionLost, CustodyInv
<1> QED BY <1>1 DEF Archive, ArchiveDown, ArchiveUp, ConnectionLost, CustodyInv

LEMMA CustodyInit == Init => CustodyInv
BY DEF Init, CustodyInv, EverySampleAccounted

LEMMA CustodyNext == TypeInv /\ CustodyInv /\ [Next]_vars => CustodyInv'
<1>1. CustodyInv /\ UNCHANGED vars => CustodyInv'
  <2> SUFFICES ASSUME CustodyInv, UNCHANGED vars PROVE CustodyInv'
    OBVIOUS
  <2>1. EverySampleAccounted'
    BY AccountsUnchanged DEF vars, CustodyInv
  <2> QED BY <2>1 DEF vars, CustodyInv
<1> QED BY <1>1, CustodySource, CustodyForwarder, CustodyProcess, CustodyArchive
        DEF Next

\* Every sample the pipeline ever numbered is in memory, or its key is stored
\* or recorded as discarded, or it was in memory at a kill or in the
\* forwarder's hands at a stop: for every buffer bound, batch size, number of
\* runs, and wherever an outage, a stop or a kill falls (pipeline.py).
THEOREM Accounted == Spec => []EverySampleAccounted
<1>1. Spec => [](TypeInv /\ CustodyInv)
  BY TypeInit, TypeNext, CustodyInit, CustodyNext, PTL DEF Spec
<1>2. CustodyInv => EverySampleAccounted
  BY DEF CustodyInv
<1> QED BY <1>1, <1>2, PTL

-----------------------------------------------------------------------------
(* One row per key.  The archive's row of a key is the first one written,   *)
(* because no key is ever in it, or in the buffer, twice, and what is being *)
(* replayed is part of the buffer.                                          *)

UniqueKeys(T) == \A a, b \in T : Key(a) = Key(b) => a = b
UniqueRows(R) == \A a, b \in R : Key(a.s) = Key(b.s) => a = b

UniqueInv ==
  /\ UniqueKeys(sample)
  /\ UniqueRows(buffered)
  /\ replay \subseteq buffered
  /\ pc \notin {"replay", "replayed"} => replay = {}

LEMMA AppendedUnique ==
  ASSUME NEW S, NEW q \in Seq(S), NEW R, UniqueRows(R)
  PROVE  UniqueRows(Appended(R, q))
<1> DEFINE row(i) == [id |-> LastId(R) + i, s |-> q[i]]
           I      == NewIn(q, Keys(Held(R)))
<1>1. Appended(R, q) = R \cup {row(i) : i \in I}
  BY DEF Appended
<1>2. \A i \in I : Key(row(i).s) \notin Keys(Held(R))
  BY NewInType
<1>3. \A r \in R : Key(r.s) \in Keys(Held(R))
  BY DEF Keys, Held
<1>4. \A i, j \in I : Key(row(i).s) = Key(row(j).s) => i = j
  BY NewInUnique
<1> HIDE DEF row, I
<1> QED BY <1>1, <1>2, <1>3, <1>4 DEF UniqueRows

LEMMA UpsertUnique ==
  ASSUME NEW S, NEW q \in Seq(S), NEW T, UniqueKeys(T)
  PROVE  UniqueKeys(Upsert(T, q))
<1>1. \A i, j \in NewIn(q, Keys(T)) : Key(q[i]) = Key(q[j]) => i = j
  BY NewInUnique
<1>2. \A i \in NewIn(q, Keys(T)) : Key(q[i]) \notin Keys(T)
  BY NewInType
<1>3. \A x \in T : Key(x) \in Keys(T)
  BY KeyInKeys
<1> QED BY <1>1, <1>2, <1>3 DEF Upsert, UniqueKeys

LEMMA UpsertRowsUnique ==
  ASSUME NEW R, NEW T, UniqueKeys(T), UniqueRows(R)
  PROVE  UniqueKeys(UpsertRows(T, R))
<1>1. \A x \in T : Key(x) \in Keys(T)
  BY KeyInKeys
<1>2. UniqueKeys(Held(R))
  BY DEF UniqueKeys, UniqueRows, Held
<1> QED BY <1>1, <1>2 DEF UpsertRows, UniqueKeys

LEMMA BufferIntoUnique ==
  ASSUME NEW S, NEW q \in Seq(S), NEW R, UniqueRows(R), BufferInto(R, q)
  PROVE  UniqueRows(buffered')
<1>1. UniqueRows(Appended(R, q))
  BY AppendedUnique
<1>2. buffered' \subseteq Appended(R, q)
  BY DEF BufferInto
<1> QED BY <1>1, <1>2 DEF UniqueRows

LEMMA DrainTurnUnique ==
  ASSUME TypeInv, NEW P, UniqueInv, DrainTurn(buffered \ P), sample' = sample
  PROVE  UniqueInv'
<1>1. UniqueRows(buffered \ P)
  BY DEF UniqueInv, UniqueRows
<1>2. UniqueRows(buffered')
  BY <1>1, BufferIntoUnique DEF DrainTurn, TypeInv, TypeOK
<1>3. replay' \subseteq buffered' /\ (pc' # "replay" => replay' = {})
  BY DEF DrainTurn, Take, ForwardLosses
<1> QED BY <1>2, <1>3 DEF UniqueInv

LEMMA UniqueForwarder == TypeInv /\ UniqueInv /\ Forwarder => UniqueInv'
<1> SUFFICES ASSUME TypeInv, UniqueInv, Forwarder PROVE UniqueInv'
  OBVIOUS
<1> USE DEF storeVars, archiveVars
<1>1. CASE CollectOne \/ ConnectFail \/ LossCommit \/ LossAck \/ LossFail
  BY <1>1 DEF CollectOne, ConnectFail, LossCommit, LossAck, LossFail, UniqueInv
<1>2. CASE CollectDone
  <2>1. CASE linkUp
    BY <1>2, <2>1 DEF CollectDone, UniqueInv
  <2>2. CASE ~ linkUp
    <3>1. BufferInto(buffered, batch) /\ replay' = replay /\ replay = {}
      BY <1>2, <2>2 DEF CollectDone, UniqueInv
    <3>2. UniqueRows(buffered')
      BY <3>1, BufferIntoUnique DEF UniqueInv, TypeInv, TypeOK
    <3> QED BY <1>2, <3>1, <3>2 DEF CollectDone, UniqueInv
  <2> QED BY <2>1, <2>2
<1>3. CASE WriteCommit
  <2>1. UniqueKeys(sample')
    BY <1>3, UpsertUnique DEF WriteCommit, UniqueInv, TypeInv, TypeOK
  <2> QED BY <1>3, <2>1 DEF WriteCommit, UniqueInv
<1>4. CASE WriteAck
  BY <1>4 DEF WriteAck, ForwardLosses, UniqueInv
<1>5. CASE WriteFail
  <2>1. BufferInto(buffered, batch) /\ replay' = replay /\ replay = {}
    BY <1>5 DEF WriteFail, UniqueInv
  <2>2. UniqueRows(buffered')
    BY <2>1, BufferIntoUnique DEF UniqueInv, TypeInv, TypeOK
  <2> QED BY <1>5, <2>1, <2>2 DEF WriteFail, UniqueInv
<1>6. CASE ConnectOk
  <2>1. CASE buffered = {}
    BY <1>6, <2>1 DEF ConnectOk, Drain, ForwardLosses, UniqueInv
  <2>2. CASE buffered # {}
    <3>1. buffered \ {} = buffered
      OBVIOUS
    <3>2. DrainTurn(buffered \ {}) /\ sample' = sample
      BY <1>6, <2>2, <3>1 DEF ConnectOk, Drain
    <3> QED BY <3>2, DrainTurnUnique
  <2> QED BY <2>1, <2>2
<1>7. CASE ReplayCommit
  <2>1. UniqueRows(replay)
    BY DEF UniqueInv, UniqueRows
  <2>2. UniqueKeys(sample')
    BY <1>7, <2>1, UpsertRowsUnique DEF ReplayCommit, UniqueInv
  <2> QED BY <1>7, <2>2 DEF ReplayCommit, UniqueInv
<1>8. CASE ReplayAck
  BY <1>8, DrainTurnUnique DEF ReplayAck
<1>9. CASE ReplayFail
  BY <1>9 DEF ReplayFail, UniqueInv
<1> QED BY <1>1, <1>2, <1>3, <1>4, <1>5, <1>6, <1>7, <1>8, <1>9 DEF Forwarder

LEMMA UniqueNext == TypeInv /\ UniqueInv /\ [Next]_vars => UniqueInv'
<1> SUFFICES ASSUME TypeInv, UniqueInv, [Next]_vars PROVE UniqueInv'
  OBVIOUS
<1> USE DEF storeVars, archiveVars
<1>1. CASE Source \/ Reconnect \/ Archive
  BY <1>1 DEF UniqueInv, Source, SourceChange, Notify, MaxTimeRead, Reconnect,
              Archive, ArchiveDown, ArchiveUp, ConnectionLost
<1>2. CASE Process
  <2>1. CASE Start
    <3>1. Take(buffered) \subseteq buffered
      BY DEF Take
    <3> QED BY <2>1, <3>1 DEF Start, UniqueInv
  <2>2. CASE Flush
    <3>1. UniqueRows(buffered')
      BY <2>2, BufferIntoUnique DEF Flush, UniqueInv, TypeInv, TypeOK
    <3> QED BY <2>2, <3>1 DEF Flush, Gone, UniqueInv
  <2>3. CASE StartTasks \/ StartFail \/ Stop \/ Kill
    BY <2>3 DEF StartTasks, StartFail, Stop, Kill, Gone, UniqueInv
  <2> QED BY <1>2, <2>1, <2>2, <2>3 DEF Process
<1>3. CASE UNCHANGED vars
  BY <1>3 DEF UniqueInv, vars
<1> QED BY <1>1, <1>2, <1>3, UniqueForwarder DEF Next

\* The archive only gains rows, and only under keys it did not have.
LEMMA ArchiveGrows ==
  TypeInv /\ [Next]_vars =>
    /\ sample \subseteq sample'
    /\ \A x \in sample' \ sample : Key(x) \notin Keys(sample)
<1> SUFFICES ASSUME TypeInv, [Next]_vars
             PROVE  /\ sample \subseteq sample'
                    /\ \A x \in sample' \ sample : Key(x) \notin Keys(sample)
  OBVIOUS
<1>1. CASE WriteCommit
  BY <1>1, UpsertKeys, OnlyNewKeysAdded DEF WriteCommit, TypeInv, TypeOK
<1>2. CASE ReplayCommit
  BY <1>2, UpsertRowsKeys, OnlyNewKeysAdded, EmptySeq DEF ReplayCommit
<1>3. CASE sample' = sample
  BY <1>3
<1>4. [Next]_vars => WriteCommit \/ ReplayCommit \/ sample' = sample
  BY DEF Next, vars, archiveVars, Source, SourceChange, Notify, MaxTimeRead,
         Reconnect, Forwarder, CollectOne, CollectDone, WriteAck, WriteFail,
         ConnectOk, ConnectFail, ReplayAck, ReplayFail, LossCommit, LossAck,
         LossFail, Process, Start, StartTasks, StartFail, Stop, Flush, Kill,
         Archive, ArchiveDown, ArchiveUp, ConnectionLost
<1> QED BY <1>1, <1>2, <1>3, <1>4

\* No key is ever written twice to the archive, and its first row is never
\* replaced: not by a replay of a batch that had been committed after all, not
\* by another run (sink.py, ON CONFLICT DO NOTHING; buffer.py, UNIQUE).
THEOREM FirstWriterStays == Spec => FirstWriteWins
<1>1. Init => UniqueInv
  BY DEF Init, UniqueInv, UniqueKeys, UniqueRows
<1>2. Spec => [](TypeInv /\ UniqueInv)
  BY <1>1, TypeInit, TypeNext, UniqueNext, PTL DEF Spec
<1>3. TypeInv /\ UniqueInv /\ [Next]_vars
        => [\A s \in sample : {x \in sample' : Key(x) = Key(s)} = {s}]_vars
  <2> SUFFICES ASSUME TypeInv, UniqueInv, [Next]_vars, NEW s \in sample
               PROVE  {x \in sample' : Key(x) = Key(s)} = {s}
    OBVIOUS
  <2>1. s \in sample' /\ Key(s) \in Keys(sample)
    BY ArchiveGrows, KeyInKeys
  <2>2. \A x \in sample' : Key(x) = Key(s) => x \in sample
    BY <2>1, ArchiveGrows
  <2>3. \A x \in sample' : Key(x) = Key(s) => x = s
    BY <2>2 DEF UniqueInv, UniqueKeys
  <2> QED BY <2>1, <2>3
<1> QED BY <1>2, <1>3, PTL DEF Spec, FirstWriteWins

-----------------------------------------------------------------------------
(* What _enforce_bound leaves.  Ids order the rows of a table, so "the rows *)
(* with fewer than MaxRows younger ones" are the MaxRows youngest.         *)

UniqueIds(R) == \A a, b \in R : a.id = b.id => a = b

\* T is a youngest part of R.
Youngest(T, R) == \A t \in T, o \in R \ T : t.id > o.id

\* A nonempty table has a youngest row.
LEMMA YoungestRow ==
  ASSUME NEW R \in SUBSET Row, IsFiniteSet(R), R # {}
  PROVE  \E m \in R : \A r \in R : m.id >= r.id
<1> DEFINE f == [r \in R |-> r.id]
           ids == {f[r] : r \in R}
<1>1. DOMAIN f = R /\ ids \subseteq Nat /\ ids # {}
  BY DEF Row
<1>2. \A r \in R : f[r] = r.id
  OBVIOUS
<1> HIDE DEF f
<1>3. IsFiniteSet(ids)
  BY <1>1, ImageFinite
<1>4. PICK n \in ids : \A k \in ids : n >= k
  <2> HIDE DEF ids
  <2> QED BY <1>1, <1>3, LargestExists
<1> QED BY <1>2, <1>4

\* For every number up to its size, a table has a youngest part of that size.
LEMMA YoungestPart ==
  ASSUME NEW R \in SUBSET Row, IsFiniteSet(R), UniqueIds(R),
         NEW n \in 0 .. Cardinality(R)
  PROVE  \E T \in SUBSET R : Cardinality(T) = n /\ Youngest(T, R)
<1> DEFINE Part(k) == \E T \in SUBSET R : Cardinality(T) = k /\ Youngest(T, R)
           Without == {k \in 0 .. Cardinality(R) : ~ Part(k)}
<1>1. Cardinality(R) \in Nat
  BY FS_CardinalityType
<1> SUFFICES ASSUME Without # {} PROVE FALSE
  BY DEF Youngest
<1>2. PICK k \in Without : \A j \in Without : k <= j
  <2>1. Without \subseteq Nat
    BY <1>1
  <2> HIDE DEF Without
  <2> QED BY <2>1, SmallestExists
<1>3. Part(0)
  BY FS_EmptySet DEF Youngest
<1>4. k # 0 /\ k \in Nat /\ k <= Cardinality(R) /\ ~ Part(k)
  BY <1>1, <1>2, <1>3
<1>5. k - 1 \in 0 .. Cardinality(R) /\ k - 1 < k
  BY <1>1, <1>4
<1>6. Part(k - 1)
  BY <1>1, <1>2, <1>4, <1>5
<1>7. PICK T \in SUBSET R : Cardinality(T) = k - 1 /\ Youngest(T, R)
  BY <1>6
<1>8. IsFiniteSet(T) /\ IsFiniteSet(R \ T)
  BY FS_Subset
<1>9. R \ T # {}
  <2>1. T # R
    BY <1>1, <1>4, <1>7
  <2> QED BY <2>1
<1>10. PICK m \in R \ T : \A r \in R \ T : m.id >= r.id
  <2>1. R \ T \in SUBSET Row
    OBVIOUS
  <2> QED BY <2>1, <1>8, <1>9, YoungestRow
<1>11. Cardinality(T \cup {m}) = k
  <2>1. Cardinality(T \cup {m}) = Cardinality(T) + 1
    BY <1>8, <1>10, FS_AddElement
  <2>2. (k - 1) + 1 = k
    BY <1>4
  <2> QED BY <1>7, <2>1, <2>2
<1>12. Youngest(T \cup {m}, R)
  <2> SUFFICES ASSUME NEW t \in T \cup {m}, NEW o \in R \ (T \cup {m})
               PROVE  t.id > o.id
    BY DEF Youngest
  <2>1. CASE t \in T
    BY <1>7, <2>1 DEF Youngest
  <2>2. CASE t = m
    <3>1. m.id >= o.id /\ m.id # o.id /\ m.id \in Nat /\ o.id \in Nat
      BY <1>10 DEF UniqueIds, Row
    <3> QED BY <2>2, <3>1
  <2> QED BY <2>1, <2>2
<1>13. T \cup {m} \in SUBSET R
  BY <1>10
<1> QED BY <1>4, <1>11, <1>12, <1>13

\* _enforce_bound keeps everything when it fits, and exactly MaxRows rows when
\* it discards anything.
LEMMA BoundEnforced ==
  ASSUME NEW R \in SUBSET Row, IsFiniteSet(R), UniqueIds(R)
  PROVE  /\ Cardinality(R \ Doomed(R)) <= MaxRows
         /\ Doomed(R) # {} => Cardinality(R \ Doomed(R)) = MaxRows
<1> DEFINE Younger(r) == {o \in R : o.id > r.id}
<1>1. MaxRows \in Nat /\ Cardinality(R) \in Nat
  BY FS_CardinalityType, MaxRowsAssumption
<1>2. Doomed(R) = {r \in R : Cardinality(Younger(r)) >= MaxRows}
  BY DEF Doomed
<1>3. \A r \in R : r.id \in Nat
  BY DEF Row
<1>4. CASE Cardinality(R) < MaxRows
  <2>1. ASSUME NEW r \in R PROVE ~ (Cardinality(Younger(r)) >= MaxRows)
    <3>1. Younger(r) \in SUBSET R
      OBVIOUS
    <3> HIDE DEF Younger
    <3>2. IsFiniteSet(Younger(r)) /\ Cardinality(Younger(r)) <= Cardinality(R)
      BY <3>1, FS_Subset
    <3>3. Cardinality(Younger(r)) \in Nat
      BY <3>2, FS_CardinalityType
    <3> QED BY <1>1, <1>4, <3>2, <3>3
  <2>2. Doomed(R) = {}
    BY <1>2, <2>1
  <2>3. R \ Doomed(R) = R
    BY <2>2
  <2> QED BY <1>1, <1>4, <2>2, <2>3
<1>5. CASE Cardinality(R) >= MaxRows
  <2>1. PICK T \in SUBSET R : Cardinality(T) = MaxRows /\ Youngest(T, R)
    BY <1>1, <1>5, YoungestPart
  <2>2. IsFiniteSet(T)
    BY FS_Subset
  <2>3. ASSUME NEW t \in T PROVE t \notin Doomed(R)
    <3>1. Younger(t) \in SUBSET (T \ {t})
      BY <1>3, <2>1 DEF Youngest
    <3>2. IsFiniteSet(T \ {t}) /\ Cardinality(T \ {t}) = MaxRows - 1
      BY <2>1, <2>2, FS_RemoveElement
    <3> HIDE DEF Younger
    <3>3. IsFiniteSet(Younger(t)) /\ Cardinality(Younger(t)) <= MaxRows - 1
      BY <3>1, <3>2, FS_Subset
    <3>4. Cardinality(Younger(t)) \in Nat
      BY <3>3, FS_CardinalityType
    <3>5. ~ (Cardinality(Younger(t)) >= MaxRows)
      BY <1>1, <3>3, <3>4
    <3> QED BY <1>2, <3>5
  <2>4. ASSUME NEW r \in R \ T PROVE r \in Doomed(R)
    <3>1. T \in SUBSET Younger(r)
      BY <2>1 DEF Youngest
    <3>2. Younger(r) \in SUBSET R
      OBVIOUS
    <3> HIDE DEF Younger
    <3>3. IsFiniteSet(Younger(r))
      BY <3>2, FS_Subset
    <3>4. Cardinality(T) <= Cardinality(Younger(r)) /\ Cardinality(Younger(r)) \in Nat
      BY <3>1, <3>3, FS_Subset, FS_CardinalityType
    <3>5. Cardinality(Younger(r)) >= MaxRows
      BY <1>1, <2>1, <3>4
    <3> QED BY <1>2, <3>5
  <2>5. R \ Doomed(R) = T
    BY <2>3, <2>4
  <2> QED BY <1>1, <2>1, <2>5
<1> QED BY <1>1, <1>4, <1>5

\* New rows get ids no row has yet.
LEMMA AppendedIds ==
  ASSUME NEW R \in SUBSET Row, IsFiniteSet(R), UniqueIds(R), NEW q \in Seq(Sample)
  PROVE  UniqueIds(Appended(R, q))
<1> DEFINE row(i) == [id |-> LastId(R) + i, s |-> q[i]]
           I      == NewIn(q, Keys(Held(R)))
<1>1. Appended(R, q) = R \cup {row(i) : i \in I}
  BY DEF Appended
<1>2. LastId(R) \in Nat /\ \A r \in R : r.id \in Nat /\ r.id <= LastId(R)
  BY LastIdType DEF Row
<1>3. \A i \in I : i \in Nat /\ i >= 1
  BY NewInType
<1>4. \A i \in I : row(i).id = LastId(R) + i
  OBVIOUS
<1> HIDE DEF row, I
<1>5. \A i \in I, r \in R : row(i).id # r.id
  BY <1>2, <1>3, <1>4
<1>6. \A i, j \in I : row(i).id = row(j).id => i = j
  BY <1>2, <1>3, <1>4
<1> QED BY <1>1, <1>5, <1>6 DEF UniqueIds

-----------------------------------------------------------------------------
(* How a step can change the buffer: not at all, or by one transaction over *)
(* the whole table or over what a committed replay leaves of it.           *)

LEMMA BufferSteps ==
  ASSUME [Next]_vars
  PROVE  \/ buffered' = buffered
         \/ \E P \in {{}, replay}, q \in {queue, batch} :
              /\ BufferInto(buffered \ P, q)
              /\ P # {} => pc = "replayed"
<1> DEFINE Goal == \/ buffered' = buffered
                   \/ \E P \in {{}, replay}, q \in {queue, batch} :
                        /\ BufferInto(buffered \ P, q)
                        /\ P # {} => pc = "replayed"
<1>1. buffered \ {} = buffered
  OBVIOUS
<1>2. ASSUME NEW q \in {queue, batch}, BufferInto(buffered, q) PROVE Goal
  BY <1>1, <1>2
<1>3. CASE CollectDone \/ WriteFail \/ Flush
  <2>1. buffered' = buffered \/ \E q \in {queue, batch} : BufferInto(buffered, q)
    BY <1>3 DEF CollectDone, WriteFail, Flush, storeVars
  <2> HIDE DEF Goal
  <2>2. CASE buffered' = buffered
    BY <2>2 DEF Goal
  <2> QED BY <1>2, <2>1, <2>2
<1>4. CASE ConnectOk
  <2>1. buffered' = buffered \/ BufferInto(buffered, queue)
    BY <1>4 DEF ConnectOk, Drain, DrainTurn, storeVars
  <2> HIDE DEF Goal
  <2>2. CASE buffered' = buffered
    BY <2>2 DEF Goal
  <2> QED BY <1>2, <2>1, <2>2
<1>5. CASE ReplayAck
  BY <1>5 DEF ReplayAck, DrainTurn
<1>6. CASE ~ (CollectDone \/ WriteFail \/ Flush \/ ConnectOk \/ ReplayAck)
  <2>1. buffered' = buffered
    BY <1>6 DEF Next, vars, storeVars, Source, SourceChange, Notify, MaxTimeRead,
       Reconnect, Forwarder, CollectOne, WriteCommit, WriteAck, ConnectFail,
       ReplayCommit, ReplayFail, LossCommit, LossAck, LossFail, Process, Start,
       StartTasks, StartFail, Stop, Kill, Archive, ArchiveDown, ArchiveUp,
       ConnectionLost
  <2> QED BY <2>1
<1> QED BY <1>3, <1>4, <1>5, <1>6

-----------------------------------------------------------------------------
(* The buffer never outgrows its bound.  BufferBounded is inductive together *)
(* with the types: ids are handed out above every id in the table, so the   *)
(* younger rows are counted without a tie.                                 *)

BoundInv ==
  /\ UniqueIds(buffered)
  /\ Cardinality(buffered) <= MaxRows

\* One transaction leaves a table within the bound.
LEMMA BufferIntoBounded ==
  ASSUME NEW R \in SUBSET Row, IsFiniteSet(R), UniqueIds(R),
         NEW q \in Seq(Sample), BufferInto(R, q)
  PROVE  /\ UniqueIds(buffered')
         /\ Cardinality(buffered') <= MaxRows
         /\ Doomed(Appended(R, q)) # {} => Cardinality(buffered') = MaxRows
<1> DEFINE all == Appended(R, q)
<1>1. all \in SUBSET Row /\ IsFiniteSet(all) /\ UniqueIds(all)
  BY AppendedType, AppendedIds
<1>2. buffered' = all \ Doomed(all)
  BY DEF BufferInto
<1> HIDE DEF all
<1>3. /\ Cardinality(buffered') <= MaxRows
      /\ Doomed(all) # {} => Cardinality(buffered') = MaxRows
  BY <1>1, <1>2, BoundEnforced
<1>4. UniqueIds(buffered')
  BY <1>1, <1>2 DEF UniqueIds
<1> QED BY <1>3, <1>4 DEF all

LEMMA BoundNext == TypeInv /\ BoundInv /\ [Next]_vars => BoundInv'
<1> SUFFICES ASSUME TypeInv, BoundInv, [Next]_vars PROVE BoundInv'
  OBVIOUS
<1>1. CASE buffered' = buffered
  BY <1>1 DEF BoundInv
<1>2. ASSUME NEW P, NEW q \in {queue, batch}, BufferInto(buffered \ P, q)
      PROVE  BoundInv'
  <2>1. /\ buffered \ P \in SUBSET Row /\ IsFiniteSet(buffered \ P)
        /\ UniqueIds(buffered \ P)
    BY FS_Subset DEF TypeInv, TypeOK, BoundInv, UniqueIds
  <2>2. q \in Seq(Sample)
    BY DEF TypeInv, TypeOK
  <2> QED BY <1>2, <2>1, <2>2, BufferIntoBounded DEF BoundInv
<1> QED BY <1>1, <1>2, BufferSteps

LEMMA BoundInit == Init => BoundInv
BY FS_EmptySet, MaxRowsAssumption DEF Init, BoundInv, UniqueIds

\* The buffer holds at most MaxRows rows and no two rows with one id or one
\* key, for every bound, batch size and history of drains, overflows and
\* restarts (buffer.py, _enforce_bound and the UNIQUE constraint).
THEOREM BufferStaysBounded == Spec => []BufferBounded
<1>1. Init => UniqueInv
  BY DEF Init, UniqueInv, UniqueKeys, UniqueRows
<1>2. Spec => [](TypeInv /\ UniqueInv /\ BoundInv)
  BY <1>1, TypeInit, TypeNext, UniqueNext, BoundInit, BoundNext, PTL DEF Spec
<1>3. UniqueInv /\ BoundInv => BufferBounded
  BY DEF UniqueInv, UniqueRows, BoundInv, UniqueIds, BufferBounded
<1> QED BY <1>2, <1>3, PTL

-----------------------------------------------------------------------------
(* What leaves the buffer.                                                 *)

\* Every discarded sample is within a loss record of its tag and run.
LEMMA LossesCover ==
  ASSUME NEW D \in SUBSET Sample, IsFiniteSet(D), NEW x \in D
  PROVE  \E l \in LossesOf(D) : /\ l.run = x.run /\ l.tag = x.tag
                                /\ x.seq \in l.firstSeq .. l.lastSeq
<1> DEFINE S    == {s \in D : s.run = x.run /\ s.tag = x.tag}
           f    == [s \in S |-> s.seq]
           seqs == {s.seq : s \in S}
           any  == CHOOSE s \in S : TRUE
<1>1. LossOf(S) \in LossesOf(D)
  BY DEF LossesOf
<1>2. any \in S
  OBVIOUS
<1>3. /\ LossOf(S).run = any.run /\ LossOf(S).tag = any.tag
      /\ LossOf(S).firstSeq = Min(seqs) /\ LossOf(S).lastSeq = Max(seqs)
  BY DEF LossOf
<1>4. S \in SUBSET D /\ x \in S
  OBVIOUS
<1>5. IsFiniteSet(S)
  <2> HIDE DEF S
  <2> QED BY <1>4, FS_Subset
<1>6. seqs = {f[s] : s \in S} /\ DOMAIN f = S
  OBVIOUS
<1>7. IsFiniteSet(seqs)
  <2> HIDE DEF S, f, seqs
  <2> QED BY <1>5, <1>6, ImageFinite
<1>8. seqs \subseteq Nat /\ x.seq \in seqs
  BY <1>4 DEF Sample
<1>9. Min(seqs) <= x.seq /\ x.seq <= Max(seqs) /\ Min(seqs) \in Nat /\ Max(seqs) \in Nat
  <2> HIDE DEF seqs
  <2>1. Min(seqs) \in seqs /\ \A n \in seqs : Min(seqs) <= n
    BY <1>8, MinIsLeast
  <2>2. Max(seqs) \in seqs /\ \A n \in seqs : Max(seqs) >= n
    BY <1>7, <1>8, MaxIsGreatest
  <2> QED BY <1>8, <2>1, <2>2
<1>10. x.seq \in LossOf(S).firstSeq .. LossOf(S).lastSeq
  BY <1>3, <1>8, <1>9
<1>11. any.run = x.run /\ any.tag = x.tag
  BY <1>2
<1> QED BY <1>1, <1>3, <1>10, <1>11

\* What one transaction takes out of the table is on the ledger.
LEMMA DiscardedOnLedger ==
  ASSUME NEW R \in SUBSET Row, IsFiniteSet(R), NEW q \in Seq(Sample),
         BufferInto(R, q), NEW r \in R \ buffered'
  PROVE  \E l \in lost' : /\ l.run = r.s.run /\ l.tag = r.s.tag
                          /\ r.s.seq \in l.firstSeq .. l.lastSeq
<1> DEFINE all  == Appended(R, q)
           gone == Doomed(all)
           f    == [d \in gone |-> d.s]
<1>1. all \in SUBSET Row /\ IsFiniteSet(all) /\ R \subseteq all
  BY AppendedType, AppendedHolds
<1>2. gone \in SUBSET all
  BY DEF Doomed
<1>3. buffered' = all \ gone /\ lost' = lost \cup LossesOf(Held(gone))
  BY DEF BufferInto
<1>4. Held(gone) = {f[d] : d \in gone} /\ DOMAIN f = gone
  BY DEF Held
<1>5. Held(gone) \in SUBSET Sample
  BY <1>1, <1>2 DEF Held, Row
<1>6. r \in gone /\ r.s \in Held(gone)
  BY <1>1, <1>3 DEF Held
<1> HIDE DEF all, gone, f
<1>7. IsFiniteSet(gone)
  BY <1>1, <1>2, FS_Subset
<1>8. IsFiniteSet(Held(gone))
  BY <1>4, <1>7, ImageFinite
<1> QED BY <1>3, <1>5, <1>6, <1>8, LossesCover

\* A row leaves the buffer only when the archive has its key, or onto the loss
\* ledger in the same transaction: also when the answer to a replay was lost,
\* and when the drain's own buffering overflows the table (buffer.py, forget
\* and _enforce_bound; pipeline.py, drain).
THEOREM SafelyForgotten == Spec => ForgottenOnlyWhenSafe
<1>1. Spec => [](TypeInv /\ CustodyInv)
  BY TypeInit, TypeNext, CustodyInit, CustodyNext, PTL DEF Spec
<1>2. TypeInv /\ CustodyInv /\ [Next]_vars
        => [\A r \in buffered \ buffered' :
              \/ Key(r.s) \in Keys(sample)
              \/ \E l \in lost' : /\ l.run = r.s.run /\ l.tag = r.s.tag
                                  /\ r.s.seq \in l.firstSeq .. l.lastSeq]_vars
  <2> SUFFICES ASSUME TypeInv, CustodyInv, [Next]_vars, NEW r \in buffered \ buffered'
               PROVE  \/ Key(r.s) \in Keys(sample)
                      \/ \E l \in lost' : /\ l.run = r.s.run /\ l.tag = r.s.tag
                                          /\ r.s.seq \in l.firstSeq .. l.lastSeq
    OBVIOUS
  <2>1. PICK P \in {{}, replay}, q \in {queue, batch} :
           BufferInto(buffered \ P, q) /\ (P # {} => pc = "replayed")
    BY BufferSteps
  <2>2. CASE r \in P
    <3>1. pc = "replayed" /\ r \in replay
      BY <2>1, <2>2
    <3>2. Keys(Held(replay)) \subseteq Keys(sample)
      BY <3>1 DEF CustodyInv
    <3> QED BY <3>1, <3>2 DEF Keys, Held
  <2>3. CASE r \notin P
    <3>1. buffered \ P \in SUBSET Row /\ IsFiniteSet(buffered \ P) /\ q \in Seq(Sample)
      BY FS_Subset DEF TypeInv, TypeOK
    <3>2. r \in (buffered \ P) \ buffered'
      BY <2>3
    <3> QED BY <2>1, <3>1, <3>2, DiscardedOnLedger
  <2> QED BY <2>2, <2>3
<1> QED BY <1>1, <1>2, PTL DEF Spec, ForgottenOnlyWhenSafe

-----------------------------------------------------------------------------
(* What is in memory.  A sample is numbered once, and is in one place: the  *)
(* queue or the batch, never both and never twice.                         *)

MemoryInv ==
  /\ \A s \in admitted : /\ s.run <= run
                         /\ phase # "down" /\ s.run = run => s.seq <= seq[s.tag]
  /\ InMemory \subseteq admitted
  /\ \A i, j \in DOMAIN queue : queue[i] = queue[j] => i = j
  /\ Range(queue) \cap Range(batch) = {}

\* The first of a sequence without repetitions is not in its rest.
LEMMA HeadApart ==
  ASSUME NEW S, NEW q \in Seq(S), q # <<>>,
         \A i, j \in DOMAIN q : q[i] = q[j] => i = j
  PROVE  /\ Head(q) \notin Range(Tail(q))
         /\ \A i, j \in DOMAIN Tail(q) : Tail(q)[i] = Tail(q)[j] => i = j
<1>1. /\ Tail(q) \in Seq(S) /\ Len(Tail(q)) = Len(q) - 1
      /\ \A i \in 1 .. Len(Tail(q)) : Tail(q)[i] = q[i + 1]
  BY HeadTailProperties
<1>2. DOMAIN q = 1 .. Len(q) /\ DOMAIN Tail(q) = 1 .. Len(Tail(q))
  BY <1>1, LenProperties
<1>3. Len(q) \in Nat \ {0} /\ Head(q) = q[1]
  BY EmptySeq
<1>4. \A i \in DOMAIN Tail(q) : i \in Nat /\ i + 1 \in DOMAIN q /\ i + 1 # 1
  BY <1>1, <1>2, <1>3
<1>5. 1 \in DOMAIN q
  BY <1>2, <1>3
<1>6. \A i \in DOMAIN Tail(q) : Tail(q)[i] # Head(q)
  BY <1>1, <1>2, <1>3, <1>4, <1>5
<1>7. Head(q) \notin Range(Tail(q))
  BY <1>6 DEF Range
<1>8. ASSUME NEW i \in DOMAIN Tail(q), NEW j \in DOMAIN Tail(q), Tail(q)[i] = Tail(q)[j]
      PROVE  i = j
  <2>1. i + 1 = j + 1
    BY <1>1, <1>2, <1>4, <1>8
  <2> QED BY <1>4, <2>1
<1> QED BY <1>7, <1>8

\* Appending something new keeps a sequence free of repetitions.
LEMMA AppendNew ==
  ASSUME NEW S, NEW q \in Seq(S), NEW e \in S, e \notin Range(q),
         \A i, j \in DOMAIN q : q[i] = q[j] => i = j
  PROVE  \A i, j \in DOMAIN Append(q, e) :
           Append(q, e)[i] = Append(q, e)[j] => i = j
<1>1. /\ Append(q, e) \in Seq(S)
      /\ Len(Append(q, e)) = Len(q) + 1
      /\ \A i \in 1 .. Len(q) : Append(q, e)[i] = q[i]
      /\ Append(q, e)[Len(q) + 1] = e
  BY AppendProperties
<1>2. /\ DOMAIN Append(q, e) = 1 .. (Len(q) + 1)
      /\ DOMAIN q = 1 .. Len(q) /\ Len(q) \in Nat
  BY <1>1, LenProperties
<1>3. \A i \in DOMAIN Append(q, e) : i \in DOMAIN q \/ i = Len(q) + 1
  BY <1>2
<1>4. \A i \in DOMAIN q : q[i] # e
  BY DEF Range
<1> QED BY <1>1, <1>2, <1>3, <1>4

\* What an arrival does: nothing, or a sample never numbered before joins the
\* queue.
LEMMA OnSampleFresh ==
  ASSUME TypeInv, MemoryInv, phase # "down", NEW t \in Tag, NEW ts \in Nat,
         OnSample(t, ts)
  PROVE  \/ UNCHANGED <<queue, admitted, seq>>
         \/ \E s \in Sample :
              /\ s.tag = t /\ s.ts = ts /\ s.run = run /\ s.seq = seq[t] + 1
              /\ s \notin admitted
              /\ admitted' = admitted \cup {s}
              /\ queue' = Append(queue, s)
              /\ seq' = [seq EXCEPT ![t] = @ + 1]
<1>1. CASE lastTs[t] = ts
  BY <1>1 DEF OnSample, ingressVars
<1>2. CASE lastTs[t] # ts
  <2> DEFINE s == [tag |-> t, ts |-> ts, run |-> run, seq |-> seq[t] + 1]
  <2>1. /\ seq' = [seq EXCEPT ![t] = @ + 1]
        /\ queue' = Append(queue, s)
        /\ admitted' = admitted \cup {s}
    BY <1>2 DEF OnSample
  <2>2. seq[t] \in Nat /\ run \in Nat
    BY DEF TypeInv, TypeOK
  <2>3. s \in Sample
    BY <2>2 DEF Sample
  <2>4. ~ (s.seq <= seq[s.tag]) /\ s.run = run
    BY <2>2
  <2>5. s \notin admitted
    BY <2>4 DEF MemoryInv
  <2>6. s.tag = t /\ s.ts = ts /\ s.run = run /\ s.seq = seq[t] + 1
    OBVIOUS
  <2> HIDE DEF s
  <2> QED BY <2>1, <2>3, <2>5, <2>6
<1> QED BY <1>1, <1>2

LEMMA OnSampleMemory ==
  ASSUME TypeInv, MemoryInv, phase # "down", NEW t \in Tag, NEW ts \in Nat,
         OnSample(t, ts), UNCHANGED <<phase, run, batch>>
  PROVE  MemoryInv'
<1>1. CASE UNCHANGED <<queue, admitted, seq>>
  BY <1>1 DEF MemoryInv, InMemory
<1>2. ASSUME NEW s \in Sample,
             s.tag = t, s.run = run, s.seq = seq[t] + 1, s \notin admitted,
             admitted' = admitted \cup {s}, queue' = Append(queue, s),
             seq' = [seq EXCEPT ![t] = @ + 1]
      PROVE  MemoryInv'
  <2>1. queue \in Seq(Sample) /\ seq \in [Tag -> Nat] /\ run \in Nat
        /\ \A x \in admitted : x.tag \in Tag /\ x.seq \in Nat
    BY DEF TypeInv, TypeOK, Sample
  <2>2. Range(queue') = Range(queue) \cup {s}
    BY <1>2, <2>1, RangeOfAppend
  <2>3. s \notin Range(queue) /\ s \notin Range(batch)
    BY <1>2 DEF MemoryInv, InMemory
  <2>4. \A i, j \in DOMAIN queue' : queue'[i] = queue'[j] => i = j
    BY <1>2, <2>1, <2>3, AppendNew DEF MemoryInv
  <2>5. Range(queue') \cap Range(batch') = {}
    BY <2>2, <2>3 DEF MemoryInv
  <2>6. InMemory' \subseteq admitted'
    BY <1>2, <2>2 DEF MemoryInv, InMemory
  <2>7. ASSUME NEW x \in admitted'
        PROVE  x.run <= run' /\ (phase' # "down" /\ x.run = run' => x.seq <= seq'[x.tag])
    <3>1. CASE x = s
      BY <1>2, <2>1, <3>1
    <3>2. CASE x \in admitted
      <4>1. x.run <= run /\ (x.run = run => x.seq <= seq[x.tag])
        BY <3>2 DEF MemoryInv
      <4>2. x.tag \in Tag /\ x.seq \in Nat /\ seq[x.tag] <= seq'[x.tag] /\ seq[x.tag] \in Nat
            /\ seq'[x.tag] \in Nat
        BY <1>2, <2>1, <3>2
      <4> QED BY <4>1, <4>2
    <3> QED BY <1>2, <3>1, <3>2
  <2> QED BY <2>4, <2>5, <2>6, <2>7 DEF MemoryInv
<1> QED BY <1>1, <1>2, OnSampleFresh

\* Steps that number nothing and bring nothing into memory.
LEMMA MemoryShrinks ==
  ASSUME MemoryInv, UNCHANGED <<run, phase, seq, admitted>>,
         queue' = queue \/ queue' = <<>>, batch' = batch \/ batch' = <<>>
  PROVE  MemoryInv'
<1>1. Range(queue') \subseteq Range(queue) /\ Range(batch') \subseteq Range(batch)
  BY EmptyRange
<1>2. \A i, j \in DOMAIN queue' : queue'[i] = queue'[j] => i = j
  BY EmptySeq DEF MemoryInv
<1> QED BY <1>1, <1>2 DEF MemoryInv, InMemory

LEMMA MemoryForwarder == TypeInv /\ MemoryInv /\ Forwarder => MemoryInv'
<1> SUFFICES ASSUME TypeInv, MemoryInv, Forwarder PROVE MemoryInv'
  OBVIOUS
<1> USE DEF sourceVars, ingressVars, storeVars, archiveVars, historyVars
<1>1. CASE CollectOne
  <2>1. /\ queue # <<>> /\ queue \in Seq(Sample) /\ batch \in Seq(Sample)
        /\ batch' = Append(batch, Head(queue)) /\ queue' = Tail(queue)
        /\ UNCHANGED <<admitted, run, phase, seq>>
    BY <1>1 DEF CollectOne, TypeInv, TypeOK
  <2>2. Range(queue) = {Head(queue)} \cup Range(queue') /\ Head(queue) \in Sample
    BY <2>1, RangeOfTail
  <2>3. Range(batch') = Range(batch) \cup {Head(queue)}
    BY <2>1, <2>2, RangeOfAppend
  <2>4. /\ Head(queue) \notin Range(queue')
        /\ \A i, j \in DOMAIN queue' : queue'[i] = queue'[j] => i = j
    BY <2>1, HeadApart DEF MemoryInv
  <2>5. InMemory' = InMemory /\ Range(queue') \cap Range(batch') = {}
    BY <2>2, <2>3, <2>4 DEF InMemory, MemoryInv
  <2> QED BY <2>1, <2>4, <2>5 DEF MemoryInv
<1>2. CASE ~ CollectOne
  <2>1. /\ UNCHANGED <<run, phase, seq, admitted>>
        /\ queue' = queue \/ queue' = <<>>
        /\ batch' = batch \/ batch' = <<>>
    BY <1>2 DEF Forwarder, CollectDone, WriteCommit, WriteAck, WriteFail,
       ConnectOk, Drain, DrainTurn, ConnectFail, ReplayCommit, ReplayAck,
       ReplayFail, LossCommit, LossAck, LossFail
  <2> QED BY <2>1, MemoryShrinks
<1> QED BY <1>1, <1>2

\* A process that is gone has nothing in memory.
LEMMA MemoryGone ==
  ASSUME MemoryInv, Gone, UNCHANGED <<run, admitted>>
  PROVE  MemoryInv'
<1>1. queue' = <<>> /\ batch' = <<>> /\ phase' = "down"
  BY DEF Gone
<1>2. InMemory' = {}
  BY <1>1, EmptyRange DEF InMemory
<1>3. \A i, j \in DOMAIN queue' : queue'[i] = queue'[j] => i = j
  BY <1>1, EmptySeq
<1> QED BY <1>1, <1>2, <1>3 DEF MemoryInv, InMemory

LEMMA MemoryProcess == TypeInv /\ CustodyInv /\ MemoryInv /\ Process => MemoryInv'
<1> SUFFICES ASSUME TypeInv, CustodyInv, MemoryInv, Process PROVE MemoryInv'
  OBVIOUS
<1> USE DEF sourceVars, ingressVars, storeVars, archiveVars, historyVars
<1>1. CASE Start
  <2>1. /\ run' = run + 1 /\ run \in Nat /\ phase' = "starting"
        /\ UNCHANGED <<admitted, queue, batch, seq>>
        /\ \A s \in admitted : s.run \in Nat
    BY <1>1 DEF Start, TypeInv, TypeOK, Sample
  <2>2. \A s \in admitted : s.run <= run' /\ s.run # run'
    BY <2>1 DEF MemoryInv
  <2> QED BY <2>1, <2>2 DEF MemoryInv, InMemory
<1>2. CASE StartTasks
  <2>1. phase # "down" /\ UNCHANGED <<run, admitted, queue, batch, seq>>
    BY <1>2 DEF StartTasks
  <2> QED BY <2>1 DEF MemoryInv, InMemory
<1>3. CASE Stop
  <2>1. phase # "down" /\ UNCHANGED <<run, admitted, queue, seq>> /\ batch' = <<>>
    BY <1>3 DEF Stop
  <2>2. InMemory' \subseteq InMemory /\ Range(queue') \cap Range(batch') = {}
    BY <2>1, EmptyRange DEF InMemory
  <2> QED BY <2>1, <2>2 DEF MemoryInv
<1>4. CASE StartFail \/ Flush \/ Kill
  BY <1>4, MemoryGone DEF StartFail, Flush, Kill
<1> QED BY <1>1, <1>2, <1>3, <1>4 DEF Process

LEMMA MemoryNext ==
  TypeInv /\ CustodyInv /\ MemoryInv /\ [Next]_vars => MemoryInv'
<1> SUFFICES ASSUME TypeInv, CustodyInv, MemoryInv, [Next]_vars PROVE MemoryInv'
  OBVIOUS
<1> USE DEF sourceVars, ingressVars, storeVars, archiveVars, historyVars
<1>1. ASSUME NEW t \in Tag, Notify(t) PROVE MemoryInv'
  <2>1. published[t] + 1 \in Nat /\ phase # "down"
    BY <1>1 DEF TypeInv, TypeOK, Notify
  <2> QED BY <1>1, <2>1, OnSampleMemory DEF Notify
<1>2. ASSUME NEW t \in Tag, MaxTimeRead(t) PROVE MemoryInv'
  <2>1. srcTs[t] \in Nat /\ phase # "down"
    BY <1>2 DEF TypeInv, TypeOK, MaxTimeRead
  <2> QED BY <1>2, <2>1, OnSampleMemory DEF MaxTimeRead
<1>3. CASE (\E t \in Tag : SourceChange(t)) \/ Reconnect \/ Archive \/ UNCHANGED vars
  <2>1. UNCHANGED <<run, phase, seq, admitted, queue, batch>>
    BY <1>3 DEF SourceChange, Reconnect, Archive, ArchiveDown, ArchiveUp,
                ConnectionLost, vars
  <2> QED BY <2>1, MemoryShrinks
<1> QED BY <1>1, <1>2, <1>3, MemoryForwarder, MemoryProcess DEF Next, Source

LEMMA MemoryInit == Init => MemoryInv
BY EmptySeq, EmptyRange DEF Init, MemoryInv, InMemory

-----------------------------------------------------------------------------
(* The collector implements SampleCustody.                                 *)

\* The two ways to write a sample's key are one.
LEMMA SameKeys == \A S : Custody!KeysOf(S) = Keys(S)
BY DEF Custody!KeysOf, Custody!KeyOf, Keys, Key

\* ... and so are the two ways to count.
LEMMA SameCardinality == \A S : Custody!Cardinality(S) = Cardinality(S)
BY DEF Custody!Cardinality, Cardinality

\* Without repeated keys a table has as many keys as rows.
LEMMA RowsAndKeys ==
  ASSUME NEW R, IsFiniteSet(R), UniqueRows(R)
  PROVE  Cardinality(Keys(Held(R))) = Cardinality(R)
<1> DEFINE f == [r \in R |-> Key(r.s)]
           T == Keys(Held(R))
<1>1. T = {f[r] : r \in R} /\ DOMAIN f = R
  BY DEF Keys, Held
<1>2. \A a, b \in R : f[a] = f[b] => a = b
  BY DEF UniqueRows
<1>3. f \in [R -> T]
  BY DEF Keys, Held
<1> HIDE DEF f, T
<1>4. f \in Injection(R, T)
  BY <1>2, <1>3 DEF Injection, IsInjective
<1>5. f \in Surjection(R, T)
  BY <1>1, <1>3 DEF Surjection
<1>6. f \in Bijection(R, T)
  BY <1>4, <1>5 DEF Bijection
<1> QED BY <1>6, FS_Bijection DEF ExistsBijection, T

\* Buffering q over the table, or over what a committed replay leaves of it,
\* is a legal hand-over: of the given keys none is still in the buffer, and
\* only a full buffer gives any up.
LEMMA BufferIntoSaves ==
  ASSUME TypeInv, UniqueInv, BoundInv, NEW P, NEW q \in Seq(Sample),
         Keys(Held(P)) \subseteq Keys(sample), BufferInto(buffered \ P, q),
         Range(q) \subseteq InMemory, InMemory' = InMemory \ Range(q),
         UNCHANGED <<admitted, sample, killed, dropped>>
  PROVE  Custody!Save
<1> DEFINE R     == buffered \ P
           all   == Appended(R, q)
           gone  == Doomed(all)
           saved == Keys(Range(q))
           out   == (Keys(Held(buffered)) \cup saved) \ Keys(Held(buffered'))
           given == Keys(discarded') \ Keys(discarded)
<1>1. R \in SUBSET Row /\ IsFiniteSet(R) /\ UniqueIds(R) /\ UniqueRows(R)
  BY FS_Subset DEF TypeInv, TypeOK, BoundInv, UniqueIds, UniqueInv, UniqueRows
<1>2. buffered' = all \ gone /\ discarded' = discarded \cup Held(gone)
  BY DEF BufferInto
<1>3. gone \subseteq all
  BY DEF Doomed
<1>4. UniqueRows(all) /\ Held(all) \subseteq Held(R) \cup Range(q)
  BY <1>1, AppendedUnique, AppendedHolds
<1>5. InMemory \ InMemory' = Range(q) /\ InMemory' \subseteq InMemory
  OBVIOUS
<1>6. Held(R) \subseteq Held(buffered)
  BY DEF Held
<1>7. Keys(Held(all)) \subseteq Keys(Held(buffered)) \cup saved
  BY <1>4, <1>6 DEF Keys
<1>8. Keys(Held(buffered')) \subseteq Keys(Held(buffered)) \cup saved
  <2> HIDE DEF all, gone, saved
  <2>1. buffered' \subseteq all
    BY <1>2
  <2>2. Held(buffered') \subseteq Held(all)
    BY <2>1 DEF Held
  <2>3. Keys(Held(buffered')) \subseteq Keys(Held(all))
    BY <2>2 DEF Keys
  <2> QED BY <1>7, <2>3
<1>9. Keys(discarded) \subseteq Keys(discarded')
  BY <1>2 DEF Keys
<1>10. out \subseteq Keys(sample) \cup Keys(discarded')
  <2>1. Keys(Held(R)) \cup saved \subseteq Keys(Held(buffered')) \cup Keys(discarded')
    BY BufferIntoKeepsKeys
  <2>2. Keys(Held(buffered)) \subseteq Keys(Held(R)) \cup Keys(Held(P))
    BY DEF Keys, Held
  <2> QED BY <2>1, <2>2
<1>11. given \subseteq Keys(Held(gone))
  BY <1>2 DEF Keys
<1>12. given \subseteq out
  <2>1. Keys(Held(gone)) \subseteq Keys(Held(all))
    BY <1>3 DEF Keys, Held
  <2>2. Keys(Held(gone)) \cap Keys(Held(buffered')) = {}
    <3>1. \A a \in gone, b \in all \ gone : Key(a.s) # Key(b.s)
      BY <1>3, <1>4 DEF UniqueRows
    <3>2. \A k \in Keys(Held(gone)) : \E a \in gone : k = Key(a.s)
      BY DEF Keys, Held
    <3>3. \A k \in Keys(Held(buffered')) : \E b \in all \ gone : k = Key(b.s)
      BY <1>2 DEF Keys, Held
    <3>4. PICK G, L : G = Keys(Held(gone)) /\ L = Keys(Held(buffered'))
      OBVIOUS
    <3>5. ASSUME NEW k \in G, k \in L PROVE FALSE
      <4>1. PICK a \in gone : k = Key(a.s)
        BY <3>2, <3>4, <3>5
      <4>2. PICK b \in all \ gone : k = Key(b.s)
        BY <3>3, <3>4, <3>5
      <4> HIDE DEF gone, all
      <4> QED BY <3>1, <4>1, <4>2
    <3>6. G \cap L = {}
      BY <3>5
    <3> QED BY <3>4, <3>6
  <2> QED BY <1>7, <1>11, <2>1, <2>2
<1>13. given # {} => Cardinality(Keys(Held(buffered'))) = MaxRows
  <2> SUFFICES ASSUME given # {} PROVE Cardinality(Keys(Held(buffered'))) = MaxRows
    OBVIOUS
  <2>1. gone # {}
    BY <1>11 DEF Keys, Held
  <2>2. Cardinality(buffered') = MaxRows
    BY <1>1, <2>1, BufferIntoBounded
  <2>3. IsFiniteSet(buffered')
    BY <1>1, BufferIntoType DEF TypeInv, TypeOK
  <2>4. UniqueRows(buffered')
    BY <1>2, <1>4 DEF UniqueRows
  <2> QED BY <2>2, <2>3, <2>4, RowsAndKeys
<1>14. UNCHANGED <<admitted, Keys(sample), killed \cup dropped>>
  BY DEF Keys
<1>15. Custody!KeysOf(InMemory \ InMemory') = saved
  BY <1>5, SameKeys
<1>16. Custody!Cardinality(Keys(Held(buffered'))) = Cardinality(Keys(Held(buffered')))
  BY SameCardinality
<1> QED BY <1>5, <1>8, <1>9, <1>10, <1>12, <1>13, <1>14, <1>15, <1>16
        DEF Custody!Save

\* Arrivals are accepted, or absorbed.
LEMMA OnSampleAccepts ==
  ASSUME TypeInv, MemoryInv, phase # "down", NEW t \in Tag, NEW ts \in Nat,
         OnSample(t, ts),
         UNCHANGED <<batch, buffered, discarded, sample, killed, dropped>>
  PROVE  Custody!Next \/ UNCHANGED Custody!vars
<1>1. UNCHANGED <<Keys(Held(buffered)), Keys(sample), Keys(discarded), killed \cup dropped>>
  OBVIOUS
<1>2. CASE UNCHANGED <<queue, admitted, seq>>
  BY <1>1, <1>2 DEF Custody!vars, InMemory
<1>3. ASSUME NEW s \in Sample, s \notin admitted, admitted' = admitted \cup {s},
             queue' = Append(queue, s)
      PROVE  Custody!Accept
  <2>1. Range(queue') = Range(queue) \cup {s}
    BY <1>3, RangeOfAppend DEF TypeInv, TypeOK
  <2>2. InMemory' = InMemory \cup {s}
    BY <2>1 DEF InMemory
  <2> QED BY <1>1, <1>3, <2>2 DEF Custody!Accept
<1> QED BY <1>2, <1>3, OnSampleFresh DEF Custody!Next

LEMMA CustodyUnchanged ==
  ASSUME UNCHANGED <<admitted, buffered, sample, discarded, killed, dropped>>,
         InMemory' = InMemory
  PROVE  UNCHANGED Custody!vars
BY DEF Custody!vars

\* The whole queue or the whole batch leaves memory.
LEMMA QueueLeaves ==
  ASSUME MemoryInv
  PROVE  /\ queue' = <<>> /\ batch' = batch => InMemory' = InMemory \ Range(queue)
         /\ batch' = <<>> /\ queue' = queue => InMemory' = InMemory \ Range(batch)
BY EmptyRange DEF MemoryInv, InMemory

\* A turn of the drain saves the queue.
LEMMA DrainTurnSaves ==
  ASSUME TypeInv, UniqueInv, BoundInv, MemoryInv, NEW P,
         Keys(Held(P)) \subseteq Keys(sample), DrainTurn(buffered \ P),
         UNCHANGED <<batch, admitted, sample, killed, dropped>>
  PROVE  Custody!Save
<1>1. BufferInto(buffered \ P, queue) /\ queue' = <<>>
  BY DEF DrainTurn
<1>2. InMemory' = InMemory \ Range(queue) /\ Range(queue) \subseteq InMemory
  BY <1>1, QueueLeaves DEF InMemory
<1>3. queue \in Seq(Sample)
  BY DEF TypeInv, TypeOK
<1> QED BY <1>1, <1>2, <1>3, BufferIntoSaves

\* A queue or a batch that is buffered whole is saved.
LEMMA BufferingSaves ==
  ASSUME TypeInv, UniqueInv, BoundInv, MemoryInv, NEW q \in {queue, batch},
         BufferInto(buffered, q), InMemory' = InMemory \ Range(q),
         UNCHANGED <<admitted, sample, killed, dropped>>
  PROVE  Custody!Save
<1>1. buffered \ {} = buffered /\ Keys(Held({})) \subseteq Keys(sample)
  BY DEF Keys, Held
<1>2. BufferInto(buffered \ {}, q)
  BY <1>1
<1>3. q \in Seq(Sample) /\ Range(q) \subseteq InMemory
  BY DEF TypeInv, TypeOK, InMemory
<1> QED BY <1>1, <1>2, <1>3, BufferIntoSaves

CustodyContext == TypeInv /\ CustodyInv /\ UniqueInv /\ BoundInv /\ MemoryInv

LEMMA ForwarderHandsOver ==
  ASSUME CustodyContext, Forwarder
  PROVE  Custody!Next \/ UNCHANGED Custody!vars
<1> USE DEF sourceVars, ingressVars, storeVars, archiveVars, historyVars
<1>1. TypeInv /\ CustodyInv /\ UniqueInv /\ BoundInv /\ MemoryInv
  BY DEF CustodyContext
<1>2. CASE CollectOne
  <2>1. /\ queue # <<>> /\ queue \in Seq(Sample) /\ batch \in Seq(Sample)
        /\ batch' = Append(batch, Head(queue)) /\ queue' = Tail(queue)
        /\ UNCHANGED <<admitted, buffered, sample, discarded, killed, dropped>>
    BY <1>1, <1>2 DEF CollectOne, TypeInv, TypeOK
  <2>2. Range(queue) = {Head(queue)} \cup Range(queue') /\ Head(queue) \in Sample
    BY <2>1, RangeOfTail
  <2>3. Range(batch') = Range(batch) \cup {Head(queue)}
    BY <2>1, <2>2, RangeOfAppend
  <2>4. InMemory' = InMemory
    BY <2>2, <2>3 DEF InMemory
  <2> QED BY <2>1, <2>4, CustodyUnchanged
<1>3. CASE CollectDone
  <2>1. CASE linkUp
    <3>1. /\ UNCHANGED <<admitted, buffered, sample, discarded, killed, dropped>>
          /\ InMemory' = InMemory
      BY <1>3, <2>1 DEF CollectDone, InMemory
    <3> QED BY <3>1, CustodyUnchanged
  <2>2. CASE ~ linkUp
    <3>1. /\ BufferInto(buffered, batch) /\ batch' = <<>> /\ queue' = queue
          /\ UNCHANGED <<admitted, sample, killed, dropped>>
      BY <1>3, <2>2 DEF CollectDone
    <3>2. InMemory' = InMemory \ Range(batch)
      BY <1>1, <3>1, QueueLeaves
    <3> QED BY <1>1, <3>1, <3>2, BufferingSaves DEF Custody!Next
  <2> QED BY <2>1, <2>2
<1>4. CASE WriteCommit
  <2>1. /\ sample' = Upsert(sample, batch) /\ InMemory' = InMemory
        /\ UNCHANGED <<admitted, buffered, discarded, killed, dropped>>
    BY <1>4 DEF WriteCommit, InMemory
  <2>2. sample \subseteq sample' /\ sample' \subseteq sample \cup InMemory
    BY <1>1, <2>1, UpsertKeys DEF InMemory, TypeInv, TypeOK
  <2>3. Keys(sample) \subseteq Keys(sample') /\ Keys(sample') \subseteq Keys(sample) \cup Keys(InMemory)
    BY <2>2 DEF Keys
  <2>4. Custody!Archive
    BY <2>1, <2>3, SameKeys DEF Custody!Archive
  <2> QED BY <2>4 DEF Custody!Next
<1>5. CASE WriteAck
  <2>1. /\ Keys(Range(batch)) \subseteq Keys(sample)
        /\ batch' = <<>> /\ queue' = queue
        /\ UNCHANGED <<admitted, buffered, sample, discarded, killed, dropped>>
    BY <1>1, <1>5 DEF WriteAck, CustodyInv
  <2>2. InMemory' = InMemory \ Range(batch) /\ Range(batch) \in SUBSET InMemory
    BY <1>1, <2>1, QueueLeaves DEF InMemory
  <2>3. Custody!KeysOf(Range(batch)) \subseteq Keys(sample)
    BY <2>1, SameKeys
  <2>4. UNCHANGED <<Keys(Held(buffered)), Keys(sample), Keys(discarded), killed \cup dropped>>
    BY <2>1
  <2>5. Custody!Release
    BY <2>1, <2>2, <2>3, <2>4 DEF Custody!Release
  <2> QED BY <2>5 DEF Custody!Next
<1>6. CASE WriteFail
  <2>1. /\ BufferInto(buffered, batch) /\ batch' = <<>> /\ queue' = queue
        /\ UNCHANGED <<admitted, sample, killed, dropped>>
    BY <1>6 DEF WriteFail
  <2>2. InMemory' = InMemory \ Range(batch)
    BY <1>1, <2>1, QueueLeaves
  <2> QED BY <1>1, <2>1, <2>2, BufferingSaves DEF Custody!Next
<1>7. CASE ConnectOk
  <2>1. CASE buffered = {}
    <3>1. /\ UNCHANGED <<admitted, buffered, sample, discarded, killed, dropped>>
          /\ InMemory' = InMemory
      BY <1>7, <2>1 DEF ConnectOk, Drain, InMemory
    <3> QED BY <3>1, CustodyUnchanged
  <2>2. CASE buffered # {}
    <3>1. buffered \ {} = buffered /\ Keys(Held({})) \subseteq Keys(sample)
      BY DEF Keys, Held
    <3>2. /\ DrainTurn(buffered \ {})
          /\ UNCHANGED <<batch, admitted, sample, killed, dropped>>
      BY <1>7, <2>2, <3>1 DEF ConnectOk, Drain
    <3> QED BY <1>1, <3>1, <3>2, DrainTurnSaves DEF Custody!Next
  <2> QED BY <2>1, <2>2
<1>8. CASE ReplayCommit
  <2>1. /\ sample' = UpsertRows(sample, replay) /\ InMemory' = InMemory
        /\ UNCHANGED <<admitted, buffered, discarded, killed, dropped>>
    BY <1>8 DEF ReplayCommit, InMemory
  <2>2. sample \subseteq sample' /\ sample' \subseteq sample \cup Held(buffered)
    BY <1>1, <2>1, UpsertRowsKeys DEF UniqueInv, Held
  <2>3. Keys(sample) \subseteq Keys(sample') /\ Keys(sample') \subseteq Keys(sample) \cup Keys(Held(buffered))
    BY <2>2 DEF Keys
  <2>4. Custody!Archive
    BY <2>1, <2>3 DEF Custody!Archive
  <2> QED BY <2>4 DEF Custody!Next
<1>9. CASE ReplayAck
  <2>1. /\ Keys(Held(replay)) \subseteq Keys(sample) /\ DrainTurn(buffered \ replay)
        /\ UNCHANGED <<batch, admitted, sample, killed, dropped>>
    BY <1>1, <1>9 DEF ReplayAck, CustodyInv
  <2> QED BY <1>1, <2>1, DrainTurnSaves DEF Custody!Next
<1>10. CASE ConnectFail \/ ReplayFail \/ LossCommit \/ LossAck \/ LossFail
  <2>1. /\ UNCHANGED <<admitted, buffered, sample, discarded, killed, dropped>>
        /\ InMemory' = InMemory
    BY <1>10 DEF ConnectFail, ReplayFail, LossCommit, LossAck, LossFail, InMemory
  <2> QED BY <2>1, CustodyUnchanged
<1> QED BY <1>2, <1>3, <1>4, <1>5, <1>6, <1>7, <1>8, <1>9, <1>10 DEF Forwarder

LEMMA ProcessHandsOver ==
  ASSUME CustodyContext, Process
  PROVE  Custody!Next \/ UNCHANGED Custody!vars
<1> USE DEF sourceVars, ingressVars, storeVars, archiveVars, historyVars
<1>1. TypeInv /\ CustodyInv /\ UniqueInv /\ BoundInv /\ MemoryInv
  BY DEF CustodyContext
<1>2. CASE Start \/ StartTasks
  <2>1. /\ UNCHANGED <<admitted, buffered, sample, discarded, killed, dropped>>
        /\ InMemory' = InMemory
    BY <1>2 DEF Start, StartTasks, InMemory
  <2> QED BY <2>1, CustodyUnchanged
<1>3. CASE StartFail
  <2>1. queue = <<>> /\ batch = <<>> /\ queue' = <<>> /\ batch' = <<>>
    BY <1>1, <1>3 DEF StartFail, Gone, CustodyInv
  <2>2. /\ UNCHANGED <<admitted, buffered, sample, discarded, killed, dropped>>
        /\ InMemory' = InMemory
    BY <1>3, <2>1 DEF StartFail, InMemory
  <2> QED BY <2>2, CustodyUnchanged
<1>4. CASE Stop
  <2>1. /\ batch' = <<>> /\ queue' = queue /\ dropped' = dropped \cup Range(batch)
        /\ UNCHANGED <<admitted, buffered, sample, discarded, killed>>
    BY <1>4 DEF Stop
  <2>2. InMemory' = InMemory \ Range(batch) /\ Range(batch) \subseteq InMemory
    BY <1>1, <2>1, QueueLeaves DEF InMemory
  <2>3. (killed \cup dropped)' = (killed \cup dropped) \cup (InMemory \ InMemory')
    BY <2>1, <2>2
  <2>4. Custody!Lose
    BY <2>1, <2>2, <2>3 DEF Custody!Lose
  <2> QED BY <2>4 DEF Custody!Next
<1>5. CASE Flush
  <2>1. /\ BufferInto(buffered, queue) /\ batch = <<>>
        /\ batch' = <<>> /\ queue' = <<>>
        /\ UNCHANGED <<admitted, sample, killed, dropped>>
    BY <1>1, <1>5 DEF Flush, Gone, CustodyInv
  <2>2. InMemory' = InMemory \ Range(queue)
    BY <1>1, <2>1, QueueLeaves
  <2> QED BY <1>1, <2>1, <2>2, BufferingSaves DEF Custody!Next
<1>6. CASE Kill
  <2>1. /\ batch' = <<>> /\ queue' = <<>>
        /\ killed' = killed \cup Range(queue) \cup Range(batch)
        /\ UNCHANGED <<admitted, buffered, sample, discarded, dropped>>
    BY <1>6 DEF Kill, Gone
  <2>2. InMemory' = {}
    BY <2>1, EmptyRange DEF InMemory
  <2>3. (killed \cup dropped)' = (killed \cup dropped) \cup (InMemory \ InMemory')
    BY <2>1, <2>2 DEF InMemory
  <2>4. Custody!Lose
    BY <2>1, <2>2, <2>3 DEF Custody!Lose
  <2> QED BY <2>4 DEF Custody!Next
<1> QED BY <1>2, <1>3, <1>4, <1>5, <1>6 DEF Process

LEMMA NextHandsOver ==
  CustodyContext /\ [Next]_vars => Custody!Next \/ UNCHANGED Custody!vars
<1> SUFFICES ASSUME CustodyContext, [Next]_vars
             PROVE  Custody!Next \/ UNCHANGED Custody!vars
  OBVIOUS
<1> USE DEF sourceVars, ingressVars, storeVars, archiveVars, historyVars
<1>1. TypeInv /\ MemoryInv
  BY DEF CustodyContext
<1>2. ASSUME NEW t \in Tag, Notify(t)
      PROVE  Custody!Next \/ UNCHANGED Custody!vars
  <2>1. published[t] + 1 \in Nat /\ phase # "down"
    BY <1>1, <1>2 DEF TypeInv, TypeOK, Notify
  <2> QED BY <1>1, <1>2, <2>1, OnSampleAccepts DEF Notify
<1>3. ASSUME NEW t \in Tag, MaxTimeRead(t)
      PROVE  Custody!Next \/ UNCHANGED Custody!vars
  <2>1. srcTs[t] \in Nat /\ phase # "down"
    BY <1>1, <1>3 DEF TypeInv, TypeOK, MaxTimeRead
  <2> QED BY <1>1, <1>3, <2>1, OnSampleAccepts DEF MaxTimeRead
<1>4. CASE (\E t \in Tag : SourceChange(t)) \/ Reconnect \/ Archive \/ UNCHANGED vars
  <2>1. /\ UNCHANGED <<admitted, buffered, sample, discarded, killed, dropped>>
        /\ InMemory' = InMemory
    BY <1>4 DEF SourceChange, Reconnect, Archive, ArchiveDown, ArchiveUp,
                ConnectionLost, vars, InMemory
  <2> QED BY <2>1, CustodyUnchanged
<1> QED BY <1>2, <1>3, <1>4, ForwarderHandsOver, ProcessHandsOver DEF Next, Source

\* Every step of the collector, an outage, a stop or a kill included, is a
\* legal hand-over of custody or leaves custody alone: the collector implements
\* SampleCustody (pipeline.py, buffer.py, sink.py, main.py).
THEOREM CollectorImplementsCustody == Spec => ImplementsCustody
<1>1. Init => CustodyContext
  <2>1. Init => UniqueInv
    BY DEF Init, UniqueInv, UniqueKeys, UniqueRows
  <2> QED BY <2>1, TypeInit, CustodyInit, BoundInit, MemoryInit DEF CustodyContext
<1>2. CustodyContext /\ [Next]_vars => CustodyContext'
  BY TypeNext, CustodyNext, UniqueNext, BoundNext, MemoryNext DEF CustodyContext
<1>3. Init => Custody!Init
  BY EmptyRange DEF Init, Custody!Init, InMemory, Keys, Held
<1>4. CustodyContext /\ [Next]_vars => [Custody!Next]_Custody!vars
  BY NextHandsOver
<1> QED BY <1>1, <1>2, <1>3, <1>4, PTL DEF Spec, ImplementsCustody, Custody!Spec

-----------------------------------------------------------------------------
(* The order of the archive.  From the archive over the buffer and the      *)
(* batch to the queue timestamps only grow, except for what is on its way   *)
(* to the archive a second time; a max-time read that overtakes a queued    *)
(* notification breaks this, so the theorem is for the case that none does. *)

NotAfter(S, T) == \A a \in S, b \in T : a.tag = b.tag => a.ts <= b.ts
NewTo(S, T) ==
  \A a \in S, b \in T : a.tag = b.tag => Key(b) \in Keys(S) \/ a.ts < b.ts

Pending == Held(buffered) \cup InMemory
Known   == sample \cup Pending

QueueInOrder ==
  \A i, j \in DOMAIN queue :
    i < j /\ queue[i].tag = queue[j].tag => queue[i].ts <= queue[j].ts

OrderInv ==
  /\ \A s \in Known :
       /\ s.ts <= srcTs[s.tag]
       /\ phase \in {"running", "stopping"} => s.ts <= published[s.tag] + 1
  /\ QueueInOrder
  /\ NotAfter(Range(batch), Range(queue))
  /\ NotAfter(Held(buffered), InMemory)
  /\ \A x \in replay, r \in buffered \ replay : x.s.ts <= r.s.ts
  /\ NewTo(sample, Pending)
  /\ pc \notin {"collect", "write", "wrote"} => batch = <<>>

\* take leaves nothing older than what it takes.
LEMMA TakesOldest ==
  ASSUME NEW R \in SUBSET Row, IsFiniteSet(R), NEW x \in Take(R), NEW r \in R \ Take(R)
  PROVE  x.s.ts <= r.s.ts
<1> DEFINE Before(n) == {o \in R : \/ o.s.ts < n.s.ts
                                   \/ o.s.ts = n.s.ts /\ o.id < n.id}
<1>1. \A n \in R : n.s.ts \in Nat /\ n.id \in Nat
  BY DEF Row, Sample
<1>2. Take(R) = {n \in R : Cardinality(Before(n)) < BatchSize}
  BY DEF Take
<1>3. x \in R /\ r \in R
  BY <1>2
<1> SUFFICES ASSUME r.s.ts < x.s.ts PROVE FALSE
  BY <1>1, <1>3
<1>4. Before(r) \in SUBSET Before(x)
  BY <1>1, <1>3
<1>5. Before(x) \in SUBSET R
  OBVIOUS
<1>6. Cardinality(Before(x)) < BatchSize /\ ~ (Cardinality(Before(r)) < BatchSize)
  BY <1>2
<1> HIDE DEF Before
<1>7. IsFiniteSet(Before(x)) /\ IsFiniteSet(Before(r))
  BY <1>4, <1>5, FS_Subset
<1>8. /\ Cardinality(Before(r)) <= Cardinality(Before(x))
      /\ Cardinality(Before(x)) \in Nat /\ Cardinality(Before(r)) \in Nat
  BY <1>4, <1>7, FS_Subset, FS_CardinalityType
<1> QED BY <1>6, <1>8, BatchSizeAssumption

\* The elements of a queue in order, split into the first and the rest.
LEMMA HeadInOrder ==
  ASSUME TypeInv, QueueInOrder, queue # <<>>, queue' = Tail(queue)
  PROVE  QueueInOrder' /\ NotAfter({Head(queue)}, Range(queue'))
<1>1. /\ Tail(queue) \in Seq(Sample) /\ Len(Tail(queue)) = Len(queue) - 1
      /\ \A i \in 1 .. Len(Tail(queue)) : Tail(queue)[i] = queue[i + 1]
  BY HeadTailProperties DEF TypeInv, TypeOK
<1>2. DOMAIN queue = 1 .. Len(queue) /\ DOMAIN Tail(queue) = 1 .. Len(Tail(queue))
  BY <1>1, LenProperties DEF TypeInv, TypeOK
<1>3. Len(queue) \in Nat \ {0} /\ Head(queue) = queue[1]
  BY EmptySeq DEF TypeInv, TypeOK
<1>4. \A i \in DOMAIN Tail(queue) :
        i \in Nat /\ 1 < i + 1 /\ i + 1 \in DOMAIN queue /\ Tail(queue)[i] = queue[i + 1]
  BY <1>1, <1>2, <1>3
<1>5. 1 \in DOMAIN queue
  BY <1>2, <1>3
<1>6. NotAfter({Head(queue)}, Range(queue'))
  BY <1>3, <1>4, <1>5 DEF QueueInOrder, NotAfter, Range
<1>7. ASSUME NEW i \in DOMAIN queue', NEW j \in DOMAIN queue', i < j,
             queue'[i].tag = queue'[j].tag
      PROVE  queue'[i].ts <= queue'[j].ts
  <2>1. i + 1 \in DOMAIN queue /\ j + 1 \in DOMAIN queue /\ i + 1 < j + 1
    BY <1>4, <1>7
  <2>2. queue'[i] = queue[i + 1] /\ queue'[j] = queue[j + 1]
    BY <1>4
  <2> QED BY <1>7, <2>1, <2>2 DEF QueueInOrder
<1> QED BY <1>6, <1>7 DEF QueueInOrder

\* A sample that is not older than the queued ones of its tag may join them.
LEMMA AppendInOrder ==
  ASSUME TypeInv, QueueInOrder, NEW s \in Sample, NotAfter(Range(queue), {s}),
         queue' = Append(queue, s)
  PROVE  QueueInOrder'
<1>1. /\ Append(queue, s) \in Seq(Sample)
      /\ Len(Append(queue, s)) = Len(queue) + 1
      /\ \A i \in 1 .. Len(queue) : Append(queue, s)[i] = queue[i]
      /\ Append(queue, s)[Len(queue) + 1] = s
  BY AppendProperties DEF TypeInv, TypeOK
<1>2. /\ DOMAIN queue' = 1 .. (Len(queue) + 1)
      /\ DOMAIN queue = 1 .. Len(queue) /\ Len(queue) \in Nat
  BY <1>1, LenProperties DEF TypeInv, TypeOK
<1>3. ASSUME NEW i \in DOMAIN queue', NEW j \in DOMAIN queue', i < j,
             queue'[i].tag = queue'[j].tag
      PROVE  queue'[i].ts <= queue'[j].ts
  <2>1. i \in DOMAIN queue /\ queue'[i] = queue[i] /\ queue[i] \in Range(queue)
    BY <1>1, <1>2, <1>3 DEF Range
  <2>2. CASE j = Len(queue) + 1
    <3>1. queue'[j] = s
      BY <1>1, <2>2
    <3> QED BY <1>3, <2>1, <3>1 DEF NotAfter
  <2>3. CASE j # Len(queue) + 1
    <3>1. j \in DOMAIN queue /\ queue'[j] = queue[j]
      BY <1>1, <1>2, <2>3
    <3> QED BY <1>3, <2>1, <3>1 DEF QueueInOrder
  <2> QED BY <2>2, <2>3
<1> QED BY <1>3 DEF QueueInOrder

\* An arrival not older than anything known of its tag keeps the order.
LEMMA OnSampleInOrder ==
  ASSUME TypeInv, MemoryInv, OrderInv, phase \in {"running", "stopping"},
         NEW t \in Tag, NEW ts \in Nat, OnSample(t, ts),
         \A s \in Known : s.tag = t => s.ts <= ts,
         ts <= srcTs[t], ts <= published'[t] + 1,
         \A u \in Tag : published[u] <= published'[u], published' \in [Tag -> Nat],
         UNCHANGED <<srcTs, phase, pc, batch, buffered, replay, sample>>
  PROVE  OrderInv'
<1>1. \A s \in Known : s.tag \in Tag /\ s.ts \in Nat
  <2>1. Range(queue) \subseteq Sample /\ Range(batch) \subseteq Sample
    BY SeqRange DEF TypeInv, TypeOK
  <2>2. Known \subseteq Sample
    BY <2>1 DEF Known, Pending, InMemory, Held, Row, TypeInv, TypeOK
  <2> QED BY <2>2 DEF Sample
<1>2. \A u \in Tag : published[u] \in Nat /\ published'[u] \in Nat /\ published[u] <= published'[u]
  BY DEF TypeInv, TypeOK
<1>3. \A s \in Known : s.ts <= srcTs'[s.tag] /\ s.ts <= published'[s.tag] + 1
  <2> SUFFICES ASSUME NEW s \in Known
               PROVE  s.ts <= srcTs'[s.tag] /\ s.ts <= published'[s.tag] + 1
    OBVIOUS
  <2>1. s.ts <= srcTs[s.tag] /\ s.ts <= published[s.tag] + 1
    BY DEF OrderInv
  <2> QED BY <1>1, <1>2, <2>1
<1>4. CASE UNCHANGED <<queue, admitted, seq>>
  <2>1. UNCHANGED <<Known, Pending, InMemory>>
    BY <1>4 DEF Known, Pending, InMemory
  <2>2. QueueInOrder'
    BY <1>4 DEF OrderInv, QueueInOrder
  <2> QED BY <1>3, <1>4, <2>1, <2>2 DEF OrderInv
<1>5. ASSUME NEW s \in Sample, s.tag = t, s.ts = ts, queue' = Append(queue, s)
      PROVE  OrderInv'
  <2>1. Range(queue') = Range(queue) \cup {s}
    BY <1>5, RangeOfAppend DEF TypeInv, TypeOK
  <2>2. InMemory' = InMemory \cup {s} /\ Pending' = Pending \cup {s} /\ Known' = Known \cup {s}
    BY <2>1 DEF InMemory, Pending, Known
  <2>3. NotAfter(Known, {s})
    BY <1>5 DEF NotAfter
  <2>4. QueueInOrder'
    BY <1>5, <2>3, AppendInOrder DEF OrderInv, Known, Pending, InMemory, NotAfter
  <2>5. NotAfter(Range(batch'), Range(queue')) /\ NotAfter(Held(buffered'), InMemory')
    BY <2>1, <2>2, <2>3 DEF OrderInv, NotAfter, Known, Pending, InMemory
  <2>6. NewTo(sample', Pending')
    <3> SUFFICES ASSUME NEW a \in sample, a.tag = s.tag
                 PROVE  Key(s) \in Keys(sample) \/ a.ts < s.ts
      BY <2>2 DEF OrderInv, NewTo
    <3>1. a.ts <= s.ts /\ a.ts \in Nat /\ s.ts \in Nat
      BY <1>1, <1>5, <2>3 DEF NotAfter, Known
    <3>2. a.ts = s.ts => Key(a) = Key(s) /\ Key(a) \in Keys(sample)
      BY KeyInKeys DEF Key
    <3> QED BY <3>1, <3>2
  <2>7. \A x \in Known' : x.ts <= srcTs'[x.tag] /\ x.ts <= published'[x.tag] + 1
    BY <1>3, <1>5, <2>2
  <2> QED BY <2>4, <2>5, <2>6, <2>7 DEF OrderInv
<1> QED BY <1>4, <1>5, OnSampleFresh

LEMMA KnownType ==
  ASSUME TypeInv
  PROVE  \A s \in Known : s \in Sample /\ s.tag \in Tag /\ s.ts \in Nat
<1>1. Range(queue) \subseteq Sample /\ Range(batch) \subseteq Sample
  BY SeqRange DEF TypeInv, TypeOK
<1>2. Known \subseteq Sample
  BY <1>1 DEF Known, Pending, InMemory, Held, Row, TypeInv, TypeOK
<1> QED BY <1>2 DEF Sample

\* What one transaction leaves in the table was there or came with the batch.
LEMMA BufferIntoFrom ==
  ASSUME NEW S, NEW q \in Seq(S), NEW R, BufferInto(R, q)
  PROVE  Held(buffered') \subseteq Held(R) \cup Range(q)
<1>1. Held(Appended(R, q)) \subseteq Held(R) \cup Range(q)
  BY AppendedHolds
<1>2. buffered' \subseteq Appended(R, q)
  BY DEF BufferInto
<1> QED BY <1>1, <1>2 DEF Held

\* A whole queue or batch is buffered, and with an empty batch or queue left
\* behind nothing gets out of order.
LEMMA BufferIntoInOrder ==
  ASSUME TypeInv, UniqueInv, OrderInv, NEW P \in SUBSET buffered,
         NEW q \in {queue, batch}, BufferInto(buffered \ P, q),
         \/ q = queue /\ queue' = <<>> /\ batch = <<>> /\ batch' = <<>>
         \/ q = batch /\ batch' = <<>> /\ queue' = queue,
         \/ replay' = {}
         \/ replay' = Take(buffered'),
         \/ UNCHANGED <<srcTs, published, phase>>
         \/ UNCHANGED srcTs /\ phase' = "down",
         sample' = sample
  PROVE  OrderInv'
<1>1. q \in Seq(Sample) /\ buffered \ P \in SUBSET Row /\ IsFiniteSet(buffered \ P)
  BY FS_Subset DEF TypeInv, TypeOK
<1>2. Held(buffered') \subseteq Held(buffered) \cup Range(q)
  <2>1. Held(buffered \ P) \subseteq Held(buffered)
    BY DEF Held
  <2> QED BY <1>1, <2>1, BufferIntoFrom
<1>3. InMemory' \subseteq Range(queue) /\ Range(batch') = {} /\ Range(q) \subseteq InMemory
  BY EmptyRange DEF InMemory
<1>4. Pending' \subseteq Pending /\ Known' \subseteq Known
  BY <1>2, <1>3 DEF Pending, Known, InMemory
<1>5. NotAfter(Held(buffered'), InMemory')
  <2>1. CASE InMemory' = {}
    BY <2>1 DEF NotAfter
  <2>2. CASE q = batch
    BY <1>2, <1>3, <2>2 DEF OrderInv, NotAfter, InMemory
  <2>3. q = queue /\ queue' = <<>> => InMemory' = {}
    BY <1>3, EmptyRange DEF InMemory
  <2> QED BY <2>1, <2>2, <2>3
<1>6. NewTo(sample', Pending')
  BY <1>4 DEF OrderInv, NewTo
<1>7. \A x \in replay', r \in buffered' \ replay' : x.s.ts <= r.s.ts
  <2>1. buffered' \in SUBSET Row /\ IsFiniteSet(buffered')
    BY <1>1, BufferIntoType DEF TypeInv, TypeOK
  <2> QED BY <2>1, TakesOldest
<1>8. QueueInOrder'
  BY EmptySeq DEF OrderInv, QueueInOrder
<1>9. NotAfter(Range(batch'), Range(queue'))
  BY <1>3 DEF NotAfter
<1>10. batch' = <<>>
  OBVIOUS
<1>11. \A s \in Known' :
         /\ s.ts <= srcTs'[s.tag]
         /\ phase' \in {"running", "stopping"} => s.ts <= published'[s.tag] + 1
  BY <1>4 DEF OrderInv
<1> QED BY <1>5, <1>6, <1>7, <1>8, <1>9, <1>10, <1>11 DEF OrderInv

\* Steps that bring nothing new into the path and take at most the batch out.
LEMMA OrderShrinks ==
  ASSUME TypeInv, OrderInv, UNCHANGED <<srcTs, buffered, sample>>,
         \/ UNCHANGED <<published, phase>>
         \/ \A t \in Tag : published'[t] = srcTs[t] - 1
         \/ phase' \in {"down", "starting"}
         \/ UNCHANGED published /\ phase = "running" /\ phase' = "stopping",
         \/ UNCHANGED <<queue, batch>>
         \/ queue' = queue /\ batch' = <<>>
         \/ queue' = <<>> /\ batch' = <<>>,
         \/ replay' = replay
         \/ replay' = {}
         \/ replay' = Take(buffered),
         \/ pc' = pc
         \/ pc \in {"collect", "write", "wrote"} /\ pc' \in {"collect", "write", "wrote"}
         \/ batch' = <<>>
  PROVE  OrderInv'
<1>1. /\ Range(queue') \subseteq Range(queue) /\ Range(batch') \subseteq Range(batch)
  BY EmptyRange
<1>2. InMemory' \subseteq InMemory /\ Pending' \subseteq Pending /\ Known' \subseteq Known
  BY <1>1 DEF InMemory, Pending, Known
<1>3. QueueInOrder'
  BY EmptySeq DEF OrderInv, QueueInOrder
<1>4. NotAfter(Range(batch'), Range(queue')) /\ NotAfter(Held(buffered'), InMemory')
  BY <1>1, <1>2 DEF OrderInv, NotAfter
<1>5. NewTo(sample', Pending')
  BY <1>2 DEF OrderInv, NewTo
<1>6. \A x \in replay', r \in buffered' \ replay' : x.s.ts <= r.s.ts
  <2>1. buffered \in SUBSET Row /\ IsFiniteSet(buffered)
    BY DEF TypeInv, TypeOK
  <2> QED BY <2>1, TakesOldest DEF OrderInv
<1>7. ASSUME NEW s \in Known'
      PROVE  /\ s.ts <= srcTs'[s.tag]
             /\ phase' \in {"running", "stopping"} => s.ts <= published'[s.tag] + 1
  <2>1. /\ s \in Known /\ s.tag \in Tag /\ s.ts \in Nat
        /\ srcTs[s.tag] \in Nat /\ s.ts <= srcTs[s.tag]
        /\ phase \in {"running", "stopping"} => s.ts <= published[s.tag] + 1
    BY <1>2, KnownType DEF OrderInv, TypeInv, TypeOK
  <2>2. CASE UNCHANGED <<published, phase>>
    BY <2>1, <2>2
  <2>3. CASE \A t \in Tag : published'[t] = srcTs[t] - 1
    <3>1. published'[s.tag] = srcTs[s.tag] - 1
      BY <2>1, <2>3
    <3> QED BY <2>1, <3>1
  <2>4. CASE phase' \in {"down", "starting"}
    BY <2>1, <2>4
  <2>5. CASE UNCHANGED published /\ phase = "running" /\ phase' = "stopping"
    BY <2>1, <2>5
  <2> QED BY <2>2, <2>3, <2>4, <2>5
<1>8. pc' \notin {"collect", "write", "wrote"} => batch' = <<>>
  BY DEF OrderInv
<1> QED BY <1>3, <1>4, <1>5, <1>6, <1>7, <1>8 DEF OrderInv

\* A commit makes of its samples the newest of their tags, whether all, some or
\* none of their keys were there before.
LEMMA CommitInOrder ==
  ASSUME TypeInv, OrderInv, NEW W, W \subseteq Pending,
         sample \subseteq sample', sample' \subseteq sample \cup W,
         Keys(W) \subseteq Keys(sample'), NotAfter(W, Pending \ W),
         UNCHANGED <<srcTs, published, phase, queue, batch, buffered, replay>>,
         pc' \in {"collect", "write", "wrote"} \/ batch = <<>>
  PROVE  OrderInv'
<1>1. UNCHANGED <<InMemory, Pending>> /\ Known' \subseteq Known
  BY DEF InMemory, Pending, Known
<1>2. NewTo(sample', Pending)
  <2> SUFFICES ASSUME NEW a \in sample', NEW b \in Pending, a.tag = b.tag,
                      Key(b) \notin Keys(sample')
               PROVE  a.ts < b.ts
    BY DEF NewTo
  <2>1. b \notin W /\ Key(b) \notin Keys(sample)
    BY KeysMonotonic, KeyInKeys
  <2>2. CASE a \in sample
    BY <2>1, <2>2 DEF OrderInv, NewTo
  <2>3. CASE a \in W
    <3>1. a.ts <= b.ts /\ a.ts \in Nat /\ b.ts \in Nat
      BY <2>1, <2>3, KnownType DEF NotAfter, Known
    <3>2. a.ts # b.ts
      BY <2>3, KeyInKeys DEF Key
    <3> QED BY <3>1, <3>2
  <2> QED BY <2>2, <2>3
<1>3. QueueInOrder'
  BY DEF OrderInv, QueueInOrder
<1> QED BY <1>1, <1>2, <1>3 DEF OrderInv

\* The live batch and the rows being replayed are the oldest that wait.
LEMMA OldestFirst ==
  ASSUME TypeInv, DrainInv, UniqueInv, OrderInv
  PROVE  /\ pc = "write" => NotAfter(Range(batch), Pending \ Range(batch))
         /\ pc = "replay" => NotAfter(Held(replay), Pending \ Held(replay))
<1>1. ASSUME pc = "write" PROVE NotAfter(Range(batch), Pending \ Range(batch))
  <2>1. buffered = {}
    BY <1>1 DEF DrainInv
  <2>2. Pending \ Range(batch) \subseteq Range(queue)
    BY <2>1 DEF Pending, InMemory, Held
  <2> QED BY <2>2 DEF OrderInv, NotAfter
<1>2. NotAfter(Held(replay), Pending \ Held(replay))
  <2> SUFFICES ASSUME NEW x \in replay, NEW b \in Pending \ Held(replay), x.s.tag = b.tag
               PROVE  x.s.ts <= b.ts
    BY DEF NotAfter, Held
  <2>1. CASE b \in InMemory
    BY <2>1 DEF OrderInv, NotAfter, UniqueInv, Held
  <2>2. CASE b \in Held(buffered)
    BY <2>2 DEF OrderInv, Held
  <2> QED BY <2>1, <2>2 DEF Pending
<1> QED BY <1>1, <1>2

LEMMA OrderForwarder ==
  ASSUME TypeInv, DrainInv, CustodyInv, UniqueInv, OrderInv, Forwarder
  PROVE  OrderInv'
<1> USE DEF sourceVars, ingressVars, storeVars, archiveVars, historyVars
<1>1. CASE CollectOne
  <2>1. /\ queue # <<>> /\ queue \in Seq(Sample) /\ batch \in Seq(Sample)
        /\ batch' = Append(batch, Head(queue)) /\ queue' = Tail(queue)
        /\ UNCHANGED <<srcTs, published, phase, buffered, replay, sample>>
        /\ pc' = "collect"
    BY <1>1 DEF CollectOne, TypeInv, TypeOK
  <2>2. Range(queue) = {Head(queue)} \cup Range(queue') /\ Head(queue) \in Sample
    BY <2>1, RangeOfTail
  <2>3. Range(batch') = Range(batch) \cup {Head(queue)}
    BY <2>1, <2>2, RangeOfAppend
  <2>4. UNCHANGED <<InMemory, Pending, Known>>
    BY <2>1, <2>2, <2>3 DEF InMemory, Pending, Known
  <2>5. QueueInOrder' /\ NotAfter({Head(queue)}, Range(queue'))
    BY <2>1, HeadInOrder DEF OrderInv
  <2>6. NotAfter(Range(batch'), Range(queue'))
    BY <2>2, <2>3, <2>5 DEF OrderInv, NotAfter
  <2> QED BY <2>1, <2>4, <2>5, <2>6 DEF OrderInv
<1>2. CASE CollectDone
  <2>1. CASE linkUp
    BY <1>2, <2>1, OrderShrinks DEF CollectDone
  <2>2. CASE ~ linkUp
    <3>1. /\ BufferInto(buffered, batch) /\ batch' = <<>> /\ queue' = queue
          /\ replay' = {} /\ UNCHANGED <<srcTs, published, phase, sample>>
      BY <1>2, <2>2 DEF CollectDone, UniqueInv
    <3>2. buffered \ {} = buffered
      OBVIOUS
    <3>3. BufferInto(buffered \ {}, batch)
      BY <3>1, <3>2
    <3> QED BY <3>1, <3>3, BufferIntoInOrder
  <2> QED BY <2>1, <2>2
<1>3. CASE WriteCommit
  <2>1. /\ sample' = Upsert(sample, batch) /\ pc = "write" /\ pc' = "wrote"
        /\ UNCHANGED <<srcTs, published, phase, queue, batch, buffered, replay>>
    BY <1>3 DEF WriteCommit
  <2>2. /\ sample \subseteq sample' /\ sample' \subseteq sample \cup Range(batch)
        /\ Keys(Range(batch)) \subseteq Keys(sample')
    BY <2>1, UpsertKeys DEF TypeInv, TypeOK
  <2>3. Range(batch) \subseteq Pending
    BY DEF Pending, InMemory
  <2> QED BY <2>1, <2>2, <2>3, OldestFirst, CommitInOrder
<1>4. CASE WriteAck
  BY <1>4, OrderShrinks DEF WriteAck
<1>5. CASE WriteFail
  <2>1. /\ BufferInto(buffered, batch) /\ batch' = <<>> /\ queue' = queue
        /\ replay' = {} /\ UNCHANGED <<srcTs, published, phase, sample>>
    BY <1>5 DEF WriteFail, UniqueInv
  <2>2. buffered \ {} = buffered
    OBVIOUS
  <2>3. BufferInto(buffered \ {}, batch)
    BY <2>1, <2>2
  <2> QED BY <2>1, <2>3, BufferIntoInOrder
<1>6. CASE ConnectOk
  <2>1. batch = <<>> /\ batch' = <<>> /\ UNCHANGED <<srcTs, published, phase, sample>>
    BY <1>6 DEF ConnectOk, OrderInv
  <2>2. CASE buffered = {}
    BY <1>6, <2>1, <2>2, OrderShrinks DEF ConnectOk, Drain
  <2>3. CASE buffered # {}
    <3>1. DrainTurn(buffered) /\ buffered \ {} = buffered
      BY <1>6, <2>3 DEF ConnectOk, Drain
    <3>2. /\ BufferInto(buffered \ {}, queue) /\ queue' = <<>>
          /\ replay' = Take(buffered')
      BY <3>1 DEF DrainTurn
    <3> QED BY <2>1, <3>2, BufferIntoInOrder
  <2> QED BY <2>2, <2>3
<1>7. CASE ConnectFail \/ ReplayFail \/ LossCommit \/ LossAck \/ LossFail
  <2>1. batch = <<>> /\ batch' = batch
    BY <1>7 DEF ConnectFail, ReplayFail, LossCommit, LossAck, LossFail, OrderInv
  <2> QED BY <1>7, <2>1, OrderShrinks
          DEF ConnectFail, ReplayFail, LossCommit, LossAck, LossFail
<1>8. CASE ReplayCommit
  <2>1. /\ sample' = UpsertRows(sample, replay) /\ pc = "replay" /\ batch = <<>>
        /\ UNCHANGED <<srcTs, published, phase, queue, batch, buffered, replay>>
    BY <1>8 DEF ReplayCommit, OrderInv
  <2>2. /\ sample \subseteq sample' /\ sample' \subseteq sample \cup Held(replay)
        /\ Keys(Held(replay)) \subseteq Keys(sample')
    BY <2>1, UpsertRowsKeys
  <2>3. Held(replay) \subseteq Pending
    BY DEF Pending, Held, UniqueInv
  <2> QED BY <2>1, <2>2, <2>3, OldestFirst, CommitInOrder
<1>9. CASE ReplayAck
  <2>1. /\ DrainTurn(buffered \ replay) /\ replay \in SUBSET buffered
        /\ batch = <<>> /\ batch' = <<>>
        /\ UNCHANGED <<srcTs, published, phase, sample>>
    BY <1>9 DEF ReplayAck, OrderInv, UniqueInv
  <2>2. /\ BufferInto(buffered \ replay, queue) /\ queue' = <<>>
        /\ replay' = Take(buffered')
    BY <2>1 DEF DrainTurn
  <2> QED BY <2>1, <2>2, BufferIntoInOrder
<1> QED BY <1>1, <1>2, <1>3, <1>4, <1>5, <1>6, <1>7, <1>8, <1>9 DEF Forwarder

LEMMA OrderProcess ==
  ASSUME TypeInv, CustodyInv, UniqueInv, OrderInv, Process
  PROVE  OrderInv'
<1> USE DEF sourceVars, ingressVars, storeVars, archiveVars, historyVars
<1>1. CASE Start
  <2>1. batch = <<>>
    BY <1>1 DEF Start, CustodyInv
  <2> QED BY <1>1, <2>1, OrderShrinks DEF Start
<1>2. CASE StartTasks
  <2>1. \A t \in Tag : published'[t] = srcTs[t] - 1
    BY <1>2 DEF StartTasks, Subscribed
  <2> QED BY <1>2, <2>1, OrderShrinks DEF StartTasks
<1>3. CASE StartFail \/ Kill
  BY <1>3, OrderShrinks DEF StartFail, Kill, Gone
<1>4. CASE Stop
  BY <1>4, OrderShrinks DEF Stop
<1>5. CASE Flush
  <2>1. /\ BufferInto(buffered, queue) /\ queue' = <<>> /\ batch = <<>> /\ batch' = <<>>
        /\ replay' = {} /\ UNCHANGED <<srcTs, sample>> /\ phase' = "down"
    BY <1>5 DEF Flush, Gone, CustodyInv
  <2>2. buffered \ {} = buffered
    OBVIOUS
  <2>3. BufferInto(buffered \ {}, queue)
    BY <2>1, <2>2
  <2> QED BY <2>1, <2>3, BufferIntoInOrder
<1> QED BY <1>1, <1>2, <1>3, <1>4, <1>5 DEF Process

LEMMA OrderSource ==
  ASSUME ~ ReadsOvertake, TypeInv, MemoryInv, OrderInv, Source \/ Reconnect
  PROVE  OrderInv'
<1> USE DEF sourceVars, ingressVars, storeVars, archiveVars, historyVars
<1>1. \A u \in Tag : srcTs[u] \in Nat /\ published[u] \in Nat
  BY DEF TypeInv, TypeOK
<1>2. ASSUME NEW t \in Tag, SourceChange(t) PROVE OrderInv'
  <2>1. /\ srcTs' = [srcTs EXCEPT ![t] = @ + 1] /\ srcTs \in [Tag -> Nat]
        /\ UNCHANGED <<published, phase, pc, queue, batch, buffered, replay, sample>>
    BY <1>2 DEF SourceChange, TypeInv, TypeOK
  <2>2. UNCHANGED <<InMemory, Pending, Known>>
    BY <2>1 DEF InMemory, Pending, Known
  <2>3. ASSUME NEW s \in Known PROVE s.ts <= srcTs'[s.tag]
    <3>1. s.ts <= srcTs[s.tag] /\ s.tag \in Tag /\ s.ts \in Nat
      BY KnownType DEF OrderInv
    <3>2. srcTs[s.tag] <= srcTs'[s.tag] /\ srcTs[s.tag] \in Nat /\ srcTs'[s.tag] \in Nat
      BY <2>1, <3>1
    <3> QED BY <3>1, <3>2
  <2>4. QueueInOrder'
    BY <2>1 DEF OrderInv, QueueInOrder
  <2> QED BY <2>1, <2>2, <2>3, <2>4 DEF OrderInv
<1>3. ASSUME NEW t \in Tag, Notify(t) PROVE OrderInv'
  <2>1. /\ phase \in {"running", "stopping"} /\ published[t] < srcTs[t]
        /\ published' = [published EXCEPT ![t] = @ + 1] /\ published \in [Tag -> Nat]
        /\ OnSample(t, published[t] + 1)
        /\ UNCHANGED <<srcTs, phase, pc, batch, buffered, replay, sample>>
    BY <1>3 DEF Notify, TypeInv, TypeOK
  <2>2. /\ published[t] + 1 \in Nat /\ published[t] + 1 <= srcTs[t]
        /\ published[t] + 1 <= published'[t] + 1
        /\ \A u \in Tag : published[u] <= published'[u]
        /\ published' \in [Tag -> Nat]
    BY <1>1, <2>1
  <2>3. \A s \in Known : s.tag = t => s.ts <= published[t] + 1
    BY <2>1 DEF OrderInv
  <2> QED BY <2>1, <2>2, <2>3, OnSampleInOrder
<1>4. ASSUME NEW t \in Tag, MaxTimeRead(t) PROVE OrderInv'
  <2>1. /\ phase \in {"running", "stopping"} /\ published[t] = srcTs[t]
        /\ OnSample(t, srcTs[t])
        /\ UNCHANGED <<srcTs, published, phase, pc, batch, buffered, replay, sample>>
    BY <1>4 DEF MaxTimeRead
  <2>2. /\ srcTs[t] <= srcTs[t] /\ srcTs[t] <= published'[t] + 1
        /\ \A u \in Tag : published[u] <= published'[u]
        /\ published' \in [Tag -> Nat]
    BY <1>1, <2>1 DEF TypeInv, TypeOK
  <2>3. \A s \in Known : s.tag = t => s.ts <= srcTs[t]
    BY DEF OrderInv
  <2> QED BY <1>1, <2>1, <2>2, <2>3, OnSampleInOrder
<1>5. CASE Reconnect
  <2>1. \A t \in Tag : published'[t] = srcTs[t] - 1
    BY <1>5 DEF Reconnect, Subscribed
  <2> QED BY <1>5, <2>1, OrderShrinks DEF Reconnect
<1> QED BY <1>2, <1>3, <1>4, <1>5 DEF Source

LEMMA OrderNext ==
  ASSUME ~ ReadsOvertake, TypeInv, DrainInv, CustodyInv, UniqueInv, MemoryInv,
         OrderInv, [Next]_vars
  PROVE  OrderInv'
<1>1. CASE Archive \/ UNCHANGED vars
  BY <1>1, OrderShrinks DEF Archive, ArchiveDown, ArchiveUp, ConnectionLost, vars,
     sourceVars, ingressVars, storeVars, archiveVars
<1> QED BY <1>1, OrderSource, OrderForwarder, OrderProcess DEF Next

LEMMA OrderInit == Init => OrderInv
<1> SUFFICES ASSUME Init PROVE OrderInv
  OBVIOUS
<1>1. Known = {} /\ Pending = {} /\ InMemory = {} /\ Range(queue) = {} /\ Range(batch) = {}
  BY EmptyRange DEF Init, Known, Pending, InMemory, Held
<1>2. QueueInOrder
  BY EmptySeq DEF Init, QueueInOrder
<1> QED BY <1>1, <1>2 DEF Init, OrderInv, NotAfter, NewTo

\* While max-time reads never overtake a queued notification, the archive
\* receives each tag's samples in order, through outages, ambiguous commits,
\* drains that are interrupted and restarts (pipeline.py, drain; buffer.py,
\* take; session.py, max_time_read).
THEOREM ArchivedInOrder == ASSUME ~ ReadsOvertake PROVE Spec => ArchiveInOrder
<1> DEFINE All == TypeInv /\ DrainInv /\ CustodyInv /\ UniqueInv /\ MemoryInv /\ OrderInv
<1>1. Init => All
  <2>1. Init => DrainInv /\ UniqueInv
    BY DEF Init, DrainInv, UniqueInv, UniqueKeys, UniqueRows
  <2> QED BY <2>1, TypeInit, CustodyInit, MemoryInit, OrderInit
<1>2. All /\ [Next]_vars => All'
  BY TypeNext, DrainNext, CustodyNext, UniqueNext, MemoryNext, OrderNext
<1>3. All /\ [Next]_vars
        => [\A new \in sample' \ sample, old \in sample :
              new.tag = old.tag => old.ts < new.ts]_vars
  <2> SUFFICES ASSUME All, [Next]_vars, NEW new \in sample' \ sample,
                      NEW old \in sample, new.tag = old.tag
               PROVE  old.ts < new.ts
    OBVIOUS
  <2>1. Key(new) \notin Keys(sample)
    BY ArchiveGrows
  <2>2. new \in Pending
    <3>1. CASE WriteCommit
      BY <3>1, UpsertKeys DEF WriteCommit, TypeInv, TypeOK, Pending, InMemory
    <3>2. CASE ReplayCommit
      BY <3>2, UpsertRowsKeys DEF ReplayCommit, UniqueInv, Pending, Held
    <3>3. CASE ~ (WriteCommit \/ ReplayCommit)
      <4>1. sample' = sample
        BY <3>3 DEF Next, vars, archiveVars, Source, SourceChange, Notify, MaxTimeRead,
           Reconnect, Forwarder, CollectOne, CollectDone, WriteAck, WriteFail,
           ConnectOk, ConnectFail, ReplayAck, ReplayFail, LossCommit, LossAck,
           LossFail, Process, Start, StartTasks, StartFail, Stop, Flush, Kill,
           Archive, ArchiveDown, ArchiveUp, ConnectionLost
      <4> QED BY <4>1
    <3> QED BY <3>1, <3>2, <3>3
  <2> QED BY <2>1, <2>2 DEF OrderInv, NewTo
<1> HIDE DEF All
<1> QED BY <1>1, <1>2, <1>3, PTL DEF Spec, ArchiveInOrder

-----------------------------------------------------------------------------
(* One run numbers its samples in the order of their timestamps.           *)

Numbered ==
  /\ run = 0 => phase = "down" /\ admitted = {}
  /\ phase = "down" => pc = "off"
  /\ \A a \in admitted :
       a.run = run /\ (phase # "down" => a.ts <= lastTs[a.tag])
  /\ \A a, b \in admitted :
       a.tag = b.tag => /\ a.seq < b.seq <=> a.ts < b.ts
                        /\ a.seq = b.seq => a = b
  /\ \A t \in Tag :
       /\ lastTs[t] <= srcTs[t]
       /\ phase \in {"running", "stopping"} => lastTs[t] <= published[t] + 1

\* Samples of one tag: the earlier one has the smaller number.
LEMMA EarlierIsLower ==
  ASSUME TypeInv, Numbered, NEW a \in admitted, NEW b \in admitted,
         a.tag = b.tag, a.ts <= b.ts, a # b
  PROVE  a.seq < b.seq
<1>1. a.ts \in Nat /\ b.ts \in Nat /\ a.seq \in Nat /\ b.seq \in Nat
  BY DEF TypeInv, TypeOK, Sample
<1>2. (b.seq < a.seq <=> b.ts < a.ts) /\ a.seq # b.seq
  BY DEF Numbered
<1> QED BY <1>1, <1>2

\* A key is one sample's.
LEMMA KeyIsSamples ==
  ASSUME TypeInv, Numbered, NEW a \in admitted, NEW b \in admitted, Key(a) = Key(b)
  PROVE  a = b
<1>1. a.tag = b.tag /\ a.ts = b.ts /\ a.ts \in Nat
  BY DEF Key, TypeInv, TypeOK, Sample
<1>2. a.seq \in Nat /\ b.seq \in Nat
  BY DEF TypeInv, TypeOK, Sample
<1>3. ~ (a.seq < b.seq) /\ ~ (b.seq < a.seq)
  BY <1>1 DEF Numbered
<1>4. a.seq = b.seq
  BY <1>2, <1>3
<1> QED BY <1>1, <1>4 DEF Numbered

LEMMA OnSampleNumbered ==
  ASSUME TypeInv, MemoryInv, Numbered, phase \in {"running", "stopping"},
         NEW t \in Tag, NEW ts \in Nat, OnSample(t, ts),
         lastTs[t] <= ts, ts <= srcTs[t], ts <= published'[t] + 1,
         \A u \in Tag : published[u] <= published'[u], published' \in [Tag -> Nat],
         UNCHANGED <<srcTs, phase, run, pc>>
  PROVE  Numbered'
<1>1. /\ lastTs \in [Tag -> Nat] /\ seq \in [Tag -> Nat] /\ run \in Nat
      /\ \A u \in Tag : published[u] \in Nat /\ published'[u] \in Nat /\ srcTs[u] \in Nat
      /\ \A a \in admitted : a.tag \in Tag /\ a.ts \in Nat /\ a.seq \in Nat
  BY DEF TypeInv, TypeOK, Sample
<1>2. run # 0 /\ phase # "down"
  BY DEF Numbered
<1>3. CASE lastTs[t] = ts
  <2>1. UNCHANGED <<lastTs, seq, admitted>>
    BY <1>3 DEF OnSample, ingressVars
  <2>2. \A u \in Tag : lastTs'[u] <= srcTs'[u] /\ lastTs'[u] <= published'[u] + 1
    <3> SUFFICES ASSUME NEW u \in Tag
                 PROVE  lastTs[u] <= srcTs[u] /\ lastTs[u] <= published'[u] + 1
      BY <2>1
    <3>1. lastTs[u] <= srcTs[u] /\ lastTs[u] <= published[u] + 1 /\ lastTs[u] \in Nat
      BY <1>1 DEF Numbered
    <3> QED BY <1>1, <3>1
  <2> QED BY <1>2, <2>1, <2>2 DEF Numbered
<1>4. CASE lastTs[t] # ts
  <2> DEFINE s == [tag |-> t, ts |-> ts, run |-> run, seq |-> seq[t] + 1]
  <2>1. /\ lastTs' = [lastTs EXCEPT ![t] = ts]
        /\ admitted' = admitted \cup {s}
    BY <1>4 DEF OnSample
  <2>2. s.tag = t /\ s.ts = ts /\ s.run = run /\ s.seq = seq[t] + 1
    OBVIOUS
  <2> HIDE DEF s
  <2>3. lastTs[t] < ts /\ lastTs[t] \in Nat /\ seq[t] \in Nat
    BY <1>1, <1>4
  <2>4. \A a \in admitted : a.tag = t => a.ts < s.ts /\ a.seq < s.seq
    <3> SUFFICES ASSUME NEW a \in admitted, a.tag = t PROVE a.ts < s.ts /\ a.seq < s.seq
      OBVIOUS
    <3>1. a.ts <= lastTs[t]
      BY <1>2 DEF Numbered
    <3>2. a.seq <= seq[t]
      BY <1>2 DEF MemoryInv, Numbered
    <3> QED BY <1>1, <2>2, <2>3, <3>1, <3>2
  <2>5. s.ts \in Nat /\ s.seq \in Nat
    BY <2>2, <2>3
  <2>6. ASSUME NEW a \in admitted', NEW b \in admitted', a.tag = b.tag
        PROVE  (a.seq < b.seq <=> a.ts < b.ts) /\ (a.seq = b.seq => a = b)
    <3>1. CASE a \in admitted /\ b \in admitted
      BY <2>6, <3>1 DEF Numbered
    <3>2. CASE a \in admitted /\ b = s
      BY <1>1, <2>2, <2>4, <2>5, <2>6, <3>2
    <3>3. CASE a = s /\ b \in admitted
      BY <1>1, <2>2, <2>4, <2>5, <2>6, <3>3
    <3>4. CASE a = s /\ b = s
      BY <2>5, <3>4
    <3> QED BY <2>1, <3>1, <3>2, <3>3, <3>4
  <2>7. \A a \in admitted' : a.run = run' /\ a.ts <= lastTs'[a.tag]
    <3> SUFFICES ASSUME NEW a \in admitted' PROVE a.run = run' /\ a.ts <= lastTs'[a.tag]
      OBVIOUS
    <3>1. CASE a = s
      BY <1>1, <2>1, <2>2, <2>5, <3>1
    <3>2. CASE a \in admitted
      <4>1. a.run = run /\ a.ts <= lastTs[a.tag] /\ a.tag \in Tag
        BY <1>1, <1>2, <3>2 DEF Numbered
      <4>2. lastTs[a.tag] <= lastTs'[a.tag] /\ lastTs'[a.tag] \in Nat /\ lastTs[a.tag] \in Nat
        BY <1>1, <2>1, <2>3, <4>1
      <4> QED BY <1>1, <3>2, <4>1, <4>2
    <3> QED BY <2>1, <3>1, <3>2
  <2>8. \A u \in Tag : lastTs'[u] <= srcTs'[u] /\ lastTs'[u] <= published'[u] + 1
    <3> SUFFICES ASSUME NEW u \in Tag
                 PROVE  lastTs'[u] <= srcTs[u] /\ lastTs'[u] <= published'[u] + 1
      OBVIOUS
    <3>1. CASE u = t
      BY <1>1, <2>1, <3>1
    <3>2. CASE u # t
      <4>1. lastTs'[u] = lastTs[u] /\ lastTs[u] \in Nat
        BY <1>1, <2>1, <3>2
      <4>2. lastTs[u] <= srcTs[u] /\ lastTs[u] <= published[u] + 1
        BY DEF Numbered
      <4> QED BY <1>1, <4>1, <4>2
    <3> QED BY <3>1, <3>2
  <2> QED BY <1>2, <2>6, <2>7, <2>8 DEF Numbered
<1> QED BY <1>3, <1>4

\* Steps that number nothing and move the source only forward.
LEMMA NumberedKept ==
  ASSUME TypeInv, Numbered, UNCHANGED <<run, admitted>>,
         phase' = "down" => pc' = "off", run = 0 => phase' = "down",
         \A u \in Tag : srcTs[u] <= srcTs'[u] /\ srcTs'[u] \in Nat,
         lastTs' = lastTs \/ (phase' = "down" /\ lastTs' = [u \in Tag |-> 0]),
         phase' # "down" => phase # "down",
         \/ published' = published /\ phase' = phase
         \/ published' = published /\ phase = "running" /\ phase' = "stopping"
         \/ \A u \in Tag : published'[u] = srcTs'[u] - 1
         \/ phase' \in {"down", "starting"}
  PROVE  Numbered'
<1>1. \A u \in Tag : /\ lastTs[u] \in Nat /\ srcTs[u] \in Nat /\ lastTs[u] <= srcTs[u]
                     /\ lastTs'[u] = lastTs[u] \/ lastTs'[u] = 0
  BY DEF TypeInv, TypeOK, Numbered
<1>2. \A u \in Tag : lastTs'[u] <= srcTs'[u] /\ lastTs'[u] \in Nat
  BY <1>1
<1>3. ASSUME NEW u \in Tag, phase' \in {"running", "stopping"}
      PROVE  lastTs'[u] <= published'[u] + 1
  <2>1. lastTs' = lastTs
    BY <1>3
  <2>2. CASE phase \in {"running", "stopping"} /\ published' = published
    BY <2>1, <2>2 DEF Numbered
  <2>3. CASE published'[u] = srcTs'[u] - 1
    <3>1. lastTs'[u] <= srcTs'[u] /\ lastTs'[u] \in Nat /\ srcTs'[u] \in Nat
      BY <1>2
    <3> QED BY <2>3, <3>1
  <2> QED BY <1>3, <2>2, <2>3
<1>4. \A a \in admitted' : a.run = run' /\ (phase' # "down" => a.ts <= lastTs'[a.tag])
  BY DEF Numbered
<1>5. \A a, b \in admitted' :
        a.tag = b.tag => /\ a.seq < b.seq <=> a.ts < b.ts
                         /\ a.seq = b.seq => a = b
  BY DEF Numbered
<1>6. run' = 0 => phase' = "down" /\ admitted' = {}
  BY DEF Numbered
<1> QED BY <1>2, <1>3, <1>4, <1>5, <1>6 DEF Numbered

LEMMA NumberedSource ==
  ASSUME ~ ReadsOvertake, TypeInv, MemoryInv, Numbered, Source \/ Reconnect
  PROVE  Numbered'
<1> USE DEF sourceVars, ingressVars, storeVars, archiveVars, historyVars
<1>1. \A u \in Tag : srcTs[u] \in Nat /\ published[u] \in Nat /\ lastTs[u] \in Nat
  BY DEF TypeInv, TypeOK
<1>2. ASSUME NEW t \in Tag, SourceChange(t) PROVE Numbered'
  <2>1. /\ srcTs' = [srcTs EXCEPT ![t] = @ + 1] /\ srcTs \in [Tag -> Nat]
        /\ UNCHANGED <<published, phase, pc, run, lastTs, admitted>>
    BY <1>2 DEF SourceChange, TypeInv, TypeOK
  <2>2. \A u \in Tag : srcTs[u] <= srcTs'[u] /\ srcTs'[u] \in Nat
    BY <2>1
  <2>3. (phase' = "down" => pc' = "off") /\ (run = 0 => phase' = "down")
    BY <2>1 DEF Numbered
  <2> QED BY <2>1, <2>2, <2>3, NumberedKept
<1>3. ASSUME NEW t \in Tag, Notify(t) PROVE Numbered'
  <2>1. /\ phase \in {"running", "stopping"} /\ published[t] < srcTs[t]
        /\ published' = [published EXCEPT ![t] = @ + 1] /\ published \in [Tag -> Nat]
        /\ OnSample(t, published[t] + 1)
        /\ UNCHANGED <<srcTs, phase, pc, run>>
    BY <1>3 DEF Notify, TypeInv, TypeOK
  <2>2. /\ published[t] + 1 \in Nat /\ published[t] + 1 <= srcTs[t]
        /\ published[t] + 1 <= published'[t] + 1
        /\ \A u \in Tag : published[u] <= published'[u]
        /\ published' \in [Tag -> Nat]
    BY <1>1, <2>1
  <2>3. lastTs[t] <= published[t] + 1
    BY <2>1 DEF Numbered
  <2> QED BY <2>1, <2>2, <2>3, OnSampleNumbered
<1>4. ASSUME NEW t \in Tag, MaxTimeRead(t) PROVE Numbered'
  <2>1. /\ phase \in {"running", "stopping"} /\ published[t] = srcTs[t]
        /\ OnSample(t, srcTs[t])
        /\ UNCHANGED <<srcTs, published, phase, pc, run>>
    BY <1>4 DEF MaxTimeRead
  <2>2. /\ srcTs[t] <= srcTs[t] /\ srcTs[t] <= published'[t] + 1
        /\ \A u \in Tag : published[u] <= published'[u]
        /\ published' \in [Tag -> Nat] /\ lastTs[t] <= srcTs[t]
    BY <1>1, <2>1 DEF TypeInv, TypeOK, Numbered
  <2> QED BY <1>1, <2>1, <2>2, OnSampleNumbered
<1>5. CASE Reconnect
  <2>1. /\ \A u \in Tag : published'[u] = srcTs'[u] - 1
        /\ UNCHANGED <<srcTs, phase, pc, run, lastTs, admitted>>
    BY <1>5 DEF Reconnect, Subscribed
  <2>2. \A u \in Tag : srcTs[u] <= srcTs'[u] /\ srcTs'[u] \in Nat
    BY <1>1, <2>1
  <2>3. (phase' = "down" => pc' = "off") /\ (run = 0 => phase' = "down")
    BY <2>1 DEF Numbered
  <2> QED BY <2>1, <2>2, <2>3, NumberedKept
<1> QED BY <1>2, <1>3, <1>4, <1>5 DEF Source

LEMMA NumberedNext ==
  ASSUME MaxRuns <= 1, ~ ReadsOvertake, TypeInv, MemoryInv, Numbered, [Next]_vars
  PROVE  Numbered'
<1> USE DEF sourceVars, ingressVars, storeVars, archiveVars, historyVars
<1>1. \A u \in Tag : srcTs[u] \in Nat
  BY DEF TypeInv, TypeOK
<1>2. CASE Forwarder
  <2>1. UNCHANGED <<run, admitted, srcTs, published, phase, lastTs>> /\ pc # "off"
    BY <1>2 DEF Forwarder, CollectOne, CollectDone, WriteCommit, WriteAck, WriteFail,
       ConnectOk, ConnectFail, ReplayCommit, ReplayAck, ReplayFail, LossCommit,
       LossAck, LossFail
  <2>2. phase # "down" /\ run # 0
    BY <2>1 DEF Numbered
  <2> QED BY <1>1, <2>1, <2>2, NumberedKept
<1>3. CASE Archive \/ UNCHANGED vars
  <2>1. UNCHANGED <<run, admitted, srcTs, published, phase, lastTs, pc>>
    BY <1>3 DEF Archive, ArchiveDown, ArchiveUp, ConnectionLost, vars
  <2>2. (phase' = "down" => pc' = "off") /\ (run = 0 => phase' = "down")
    BY <2>1 DEF Numbered
  <2> QED BY <1>1, <2>1, <2>2, NumberedKept
<1>4. CASE Start
  <2>1. /\ run < MaxRuns /\ run' = run + 1 /\ run \in Nat /\ phase' = "starting"
        /\ UNCHANGED <<srcTs, lastTs, admitted>>
    BY <1>4 DEF Start, TypeInv, TypeOK
  <2>2. run = 0 /\ run' # 0
    BY <2>1, BoundsAssumption
  <2>3. admitted' = {}
    BY <2>1, <2>2 DEF Numbered
  <2> QED BY <2>1, <2>2, <2>3 DEF Numbered
<1>5. CASE StartTasks
  <2>1. /\ \A u \in Tag : published'[u] = srcTs'[u] - 1
        /\ UNCHANGED <<srcTs, run, lastTs, admitted, pc>>
        /\ phase = "starting" /\ phase' = "running"
    BY <1>5 DEF StartTasks, Subscribed
  <2>2. run # 0
    BY <2>1 DEF Numbered
  <2> QED BY <1>1, <2>1, <2>2, NumberedKept
<1>6. CASE Stop
  <2>1. /\ phase = "running" /\ phase' = "stopping" /\ pc' = "off"
        /\ UNCHANGED <<srcTs, published, run, lastTs, admitted>>
    BY <1>6 DEF Stop
  <2>2. run # 0
    BY <2>1 DEF Numbered
  <2> QED BY <1>1, <2>1, <2>2, NumberedKept
<1>7. CASE StartFail \/ Flush \/ Kill
  <2>1. /\ phase' = "down" /\ pc' = "off" /\ lastTs' = [u \in Tag |-> 0]
        /\ UNCHANGED <<srcTs, run, admitted>>
    BY <1>7 DEF StartFail, Flush, Kill, Gone
  <2> QED BY <1>1, <2>1, NumberedKept
<1> QED BY <1>2, <1>3, <1>4, <1>5, <1>6, <1>7, NumberedSource DEF Next, Process

LEMMA NumberedInit == Init => Numbered
BY DEF Init, Numbered

-----------------------------------------------------------------------------
(* What waits stands in line, and the ledger ends where the line begins.   *)

InOrder(q) ==
  \A i, j \in DOMAIN q : i < j /\ q[i].tag = q[j].tag => q[i].ts <= q[j].ts

\* The rows of a table have their ids in the order of their numbers.
IdsInLine(R) ==
  \A a, b \in R : a.s.tag = b.s.tag /\ a.s.seq < b.s.seq => a.id < b.id

\* Every number of D is below every number of T.
Below(D, T) == \A x \in D, y \in T : x.tag = y.tag => x.seq < y.seq

InLine ==
  /\ Pending \cup discarded \cup dropped \subseteq admitted
  /\ Held(buffered) \cap InMemory = {}
  /\ IdsInLine(buffered)
  /\ InOrder(batch)

\* From any sample that waits on, every number is a sample that waits or was
\* dropped.
Unbroken ==
  phase # "down" =>
    \A a \in Pending : \A n \in a.seq .. seq[a.tag] :
      \E s \in Pending \cup dropped : s.tag = a.tag /\ s.seq = n

\* A record of this run, behind what waits, that begins with a sample.
OnLedger(l) ==
  /\ l.run = run
  /\ \A s \in Pending : s.tag = l.tag => l.lastSeq < s.seq
  /\ phase # "down" => l.lastSeq <= seq[l.tag]
  /\ \E s \in discarded : Covers(l, s) /\ s.seq = l.firstSeq /\ s.ts = l.firstTs

LedgerInv ==
  /\ InLine
  /\ Unbroken
  /\ \A l \in Ledger : OnLedger(l)
  /\ LedgerExact
  /\ pc = "sent" => lost \subseteq collectorLoss

LEMMA LedgerInit == Init => LedgerInv
<1> SUFFICES ASSUME Init PROVE LedgerInv
  OBVIOUS
<1>1. Pending = {} /\ InMemory = {} /\ buffered = {} /\ discarded = {} /\ dropped = {}
  BY EmptyRange DEF Init, Pending, InMemory, Held
<1>2. Ledger = {} /\ phase = "down" /\ pc = "off"
  BY DEF Init, Ledger
<1>3. InOrder(batch)
  BY EmptySeq DEF Init, InOrder
<1>4. InLine
  BY <1>1, <1>3 DEF InLine, IdsInLine
<1>5. LedgerExact
  BY <1>1, <1>2 DEF LedgerExact
<1> QED BY <1>2, <1>4, <1>5 DEF LedgerInv, Unbroken

\* What waits is typed.
LEMMA PendingType ==
  ASSUME TypeInv
  PROVE  /\ \A s \in Pending \cup discarded \cup dropped \cup admitted :
              s \in Sample /\ s.tag \in Tag /\ s.ts \in Nat /\ s.seq \in Nat
         /\ \A l \in Ledger : /\ l \in Loss /\ l.tag \in Tag
                              /\ l.firstSeq \in Nat /\ l.lastSeq \in Nat
         /\ \A t \in Tag : seq[t] \in Nat
<1>1. Pending \subseteq Known
  BY DEF Known
<1>2. Pending \cup discarded \cup dropped \cup admitted \subseteq Sample
  BY <1>1, KnownType DEF TypeInv, TypeOK
<1>3. Ledger \subseteq Loss
  BY DEF Ledger, TypeInv, TypeOK
<1> QED BY <1>2, <1>3 DEF Sample, Loss, TypeInv, TypeOK

\* The line and the ledger when nothing is buffered, numbered or recorded: what
\* leaves memory leaves from the front, or is dropped.
LEMMA LedgerShrinks ==
  ASSUME TypeInv, LedgerInv,
         UNCHANGED <<run, admitted, buffered, discarded>>, Ledger' = Ledger,
         InMemory' \subseteq InMemory, InOrder(batch'),
         phase' # "down" => phase # "down" /\ seq' = seq,
         dropped \subseteq dropped', dropped' \subseteq dropped \cup InMemory,
         phase' = "down" \/ Below(InMemory \ (InMemory' \cup dropped'), Pending'),
         pc' = "sent" => lost' \subseteq collectorLoss'
  PROVE  LedgerInv'
<1>1. Pending' \subseteq Pending /\ Pending \subseteq Pending' \cup InMemory
  BY DEF Pending
<1>2. InLine'
  <2>1. Pending' \cup discarded' \cup dropped' \subseteq admitted'
    BY <1>1 DEF LedgerInv, InLine, Pending
  <2>2. Held(buffered') \cap InMemory' = {}
    BY DEF LedgerInv, InLine
  <2> QED BY <2>1, <2>2 DEF LedgerInv, InLine
<1>3. Unbroken'
  <2> SUFFICES ASSUME phase' # "down", NEW a \in Pending', NEW n \in a.seq .. seq[a.tag]
               PROVE  \E s \in Pending' \cup dropped' : s.tag = a.tag /\ s.seq = n
    BY DEF Unbroken
  <2>1. PICK s \in Pending \cup dropped : s.tag = a.tag /\ s.seq = n
    BY <1>1 DEF LedgerInv, Unbroken
  <2>2. n \in Nat /\ a.seq <= n /\ a.seq \in Nat
    BY <1>1, PendingType
  <2>3. CASE s \in InMemory \ (InMemory' \cup dropped')
    <3>1. s.seq < a.seq
      BY <2>1, <2>3 DEF Below
    <3> QED BY <2>1, <2>2, <3>1
  <2>4. CASE s \in Pending' \cup dropped'
    BY <2>1, <2>4
  <2>5. s \in Held(buffered) => s \in Pending'
    BY DEF Pending
  <2> QED BY <2>1, <2>3, <2>4, <2>5 DEF Pending
<1>4. ASSUME NEW l \in Ledger' PROVE OnLedger(l)'
  <2>1. OnLedger(l)
    BY <1>4 DEF LedgerInv
  <2> QED BY <1>1, <2>1 DEF OnLedger
<1>5. LedgerExact'
  <2>1. \A l \in Ledger : \A n \in l.firstSeq .. l.lastSeq :
          \E s \in discarded' \cup dropped' : Covers(l, s) /\ s.seq = n
    BY DEF LedgerInv, LedgerExact
  <2> QED BY <2>1 DEF LedgerInv, LedgerExact
<1> QED BY <1>2, <1>3, <1>4, <1>5 DEF LedgerInv

\* A sample is numbered and queued: it is the last in line.
LEMMA LedgerArrival ==
  ASSUME TypeInv, MemoryInv, Numbered, LedgerInv, phase # "down",
         NEW t \in Tag, NEW ts \in Nat, OnSample(t, ts),
         UNCHANGED <<phase, run, pc, batch, buffered, lost, collectorLoss,
                     discarded, dropped>>
  PROVE  LedgerInv'
<1>1. Ledger' = Ledger
  BY DEF Ledger
<1>2. CASE UNCHANGED <<queue, admitted, seq>>
  <2>1. InMemory' = InMemory
    BY <1>2 DEF InMemory
  <2>2. Below(InMemory \ (InMemory' \cup dropped'), Pending')
    BY <2>1 DEF Below
  <2> QED BY <1>1, <1>2, <2>1, <2>2, LedgerShrinks DEF LedgerInv, InLine
<1>3. ASSUME NEW s \in Sample, s.tag = t, s.run = run, s.seq = seq[t] + 1,
             s \notin admitted, admitted' = admitted \cup {s},
             queue' = Append(queue, s), seq' = [seq EXCEPT ![t] = @ + 1]
      PROVE  LedgerInv'
  <2>1. seq \in [Tag -> Nat]
    BY DEF TypeInv, TypeOK
  <2>2. InMemory' = InMemory \cup {s} /\ Pending' = Pending \cup {s}
    <3>1. Range(queue') = Range(queue) \cup {s}
      BY <1>3, RangeOfAppend DEF TypeInv, TypeOK
    <3> QED BY <3>1 DEF InMemory, Pending
  <2>3. InLine'
    <3>1. s \notin Held(buffered)
      BY <1>3 DEF LedgerInv, InLine, Pending
    <3>2. Held(buffered') \cap InMemory' = {}
      BY <2>2, <3>1 DEF LedgerInv, InLine
    <3>3. Pending' \cup discarded' \cup dropped' \subseteq admitted'
      BY <1>3, <2>2 DEF LedgerInv, InLine
    <3> QED BY <3>2, <3>3 DEF LedgerInv, InLine
  <2>4. ASSUME NEW a \in Pending', NEW n \in a.seq .. seq'[a.tag]
        PROVE  \E x \in Pending' \cup dropped' : x.tag = a.tag /\ x.seq = n
    <3>1. a.tag \in Tag /\ a.seq \in Nat /\ n \in Nat /\ seq[t] \in Nat
      BY <1>3, <2>1, <2>2, PendingType DEF Sample
    <3>2. CASE a.tag = t /\ n = seq[t] + 1
      BY <1>3, <2>2, <3>2
    <3>3. CASE ~ (a.tag = t /\ n = seq[t] + 1)
      <4>1. n \in a.seq .. seq[a.tag]
        BY <1>3, <2>1, <3>1, <3>3
      <4>2. a # s
        BY <1>3, <3>1, <4>1
      <4>3. PICK x \in Pending \cup dropped : x.tag = a.tag /\ x.seq = n
        BY <2>2, <4>1, <4>2 DEF LedgerInv, Unbroken
      <4> QED BY <2>2, <4>3
    <3> QED BY <3>2, <3>3
  <2>5. ASSUME NEW l \in Ledger' PROVE OnLedger(l)'
    <3>1. OnLedger(l) /\ l.tag \in Tag /\ l.lastSeq \in Nat
      BY <1>1, <2>5, PendingType DEF LedgerInv
    <3>2. l.lastSeq <= seq[l.tag] /\ seq[l.tag] \in Nat
      BY <2>1, <3>1 DEF OnLedger
    <3>3. l.lastSeq <= seq'[l.tag]
      BY <1>3, <2>1, <3>1, <3>2
    <3>4. s.tag = l.tag => l.lastSeq < s.seq
      BY <1>3, <3>1, <3>2
    <3>5. \A x \in Pending' : x.tag = l.tag => l.lastSeq < x.seq
      BY <2>2, <3>1, <3>4 DEF OnLedger
    <3> QED BY <3>1, <3>3, <3>5 DEF OnLedger
  <2>6. LedgerExact'
    BY <1>1 DEF LedgerInv, LedgerExact
  <2>7. Unbroken'
    BY <2>4 DEF Unbroken
  <2> QED BY <2>3, <2>5, <2>6, <2>7 DEF LedgerInv
<1> QED BY <1>2, <1>3, OnSampleFresh

-----------------------------------------------------------------------------
(* The record of one tag's share of what is discarded.                     *)

\* It bears the tag of the samples that it stands for.
LEMMA TagOfRecord ==
  ASSUME NEW D, NEW x \in D,
         NEW l, l = LossOf({s \in D : s.run = x.run /\ s.tag = x.tag})
  PROVE  l.tag = x.tag
<1> DEFINE S   == {s \in D : s.run = x.run /\ s.tag = x.tag}
           any == CHOOSE s \in S : TRUE
<1>1. l.tag = any.tag
  BY DEF LossOf
<1>2. any \in S
  OBVIOUS
<1> QED BY <1>1, <1>2

\* It begins with the tag's first discarded sample and ends with its last.
LEMMA RecordOf ==
  ASSUME NEW D \in SUBSET Sample, IsFiniteSet(D), \A s \in D : s.run = run,
         \A a, b \in D : a.tag = b.tag => (a.seq < b.seq <=> a.ts < b.ts),
         NEW x \in D,
         NEW l, l = LossOf({s \in D : s.run = x.run /\ s.tag = x.tag})
  PROVE  /\ l.run = run /\ l.tag = x.tag
         /\ l.samples = Cardinality({s \in D : s.tag = x.tag})
         /\ \E a \in D : a.tag = x.tag /\ a.seq = l.firstSeq /\ a.ts = l.firstTs
         /\ \E b \in D : b.tag = x.tag /\ b.seq = l.lastSeq
         /\ \A s \in D : s.tag = x.tag => s.seq \in l.firstSeq .. l.lastSeq
<1> DEFINE S     == {s \in D : s.run = x.run /\ s.tag = x.tag}
           f     == [s \in S |-> s.seq]
           seqs  == {s.seq : s \in S}
           times == {s.ts : s \in S}
           any   == CHOOSE s \in S : TRUE
<1>1. /\ LossOf(S).run = any.run /\ LossOf(S).tag = any.tag
      /\ LossOf(S).firstSeq = Min(seqs) /\ LossOf(S).lastSeq = Max(seqs)
      /\ LossOf(S).firstTs = Min(times) /\ LossOf(S).samples = Cardinality(S)
  BY DEF LossOf
<1>2. x \in S /\ any \in S
  OBVIOUS
<1>3. S \in SUBSET D /\ S = {s \in D : s.tag = x.tag}
  OBVIOUS
<1>4. any.run = run /\ any.tag = x.tag
  BY <1>2
<1>5. seqs = {f[s] : s \in S} /\ DOMAIN f = S
  OBVIOUS
<1>6. seqs \subseteq Nat /\ x.seq \in seqs /\ times \subseteq Nat /\ x.ts \in times
  BY <1>2 DEF Sample
<1> HIDE DEF f, any
<1>7. IsFiniteSet(seqs)
  <2>1. IsFiniteSet(S)
    <3> HIDE DEF S
    <3> QED BY <1>3, FS_Subset
  <2> HIDE DEF S, seqs
  <2> QED BY <1>5, <2>1, ImageFinite
<1>8. /\ Min(seqs) \in seqs /\ \A n \in seqs : Min(seqs) <= n
      /\ Max(seqs) \in seqs /\ \A n \in seqs : Max(seqs) >= n
      /\ Min(times) \in times /\ \A n \in times : Min(times) <= n
  <2> HIDE DEF seqs, times
  <2> QED BY <1>6, <1>7, MinIsLeast, MaxIsGreatest
<1>9. PICK a \in S : a.seq = Min(seqs)
  BY <1>8
<1>10. PICK e \in S : e.ts = Min(times)
  BY <1>8
<1>11. a.ts = Min(times)
  <2>1. a.ts \in times /\ e.seq \in seqs
    OBVIOUS
  <2>2. Min(times) <= a.ts /\ Min(seqs) <= e.seq
    BY <1>8, <2>1
  <2>3. a.tag = e.tag /\ a.seq \in Nat /\ e.seq \in Nat /\ a.ts \in Nat /\ e.ts \in Nat
    BY <1>6, <1>9, <1>10, <2>1
  <2>4. e.seq < a.seq <=> e.ts < a.ts
    BY <2>3
  <2>5. ~ (e.seq < a.seq) /\ e.ts <= a.ts
    BY <1>9, <1>10, <2>2, <2>3
  <2> QED BY <1>10, <2>3, <2>4, <2>5
<1>12. PICK b \in S : b.seq = Max(seqs)
  BY <1>8
<1>13. \A s \in S : s.seq \in Min(seqs) .. Max(seqs)
  <2> SUFFICES ASSUME NEW s \in S PROVE s.seq \in Min(seqs) .. Max(seqs)
    OBVIOUS
  <2>1. s.seq \in seqs
    OBVIOUS
  <2> QED BY <1>6, <1>8, <2>1
<1>14. \A s \in D : s.tag = x.tag => s \in S
  BY <1>3
<1> HIDE DEF S, seqs, times
<1>15. l = LossOf(S)
  BY DEF S
<1> QED BY <1>1, <1>3, <1>4, <1>9, <1>11, <1>12, <1>13, <1>14, <1>15

\* The front D of the line is discarded and recorded, while X, before it, is in
\* the archive and forgotten: the ledger stays exact.
LEMMA FrontRecorded ==
  ASSUME TypeInv, Numbered, MemoryInv, LedgerInv, phase # "down",
         NEW D \in SUBSET Pending, IsFiniteSet(D), NEW X \in SUBSET Pending,
         Pending' \subseteq Pending, Pending \subseteq X \cup D \cup Pending',
         Below(X, D \cup Pending'), Below(D, Pending'),
         lost' = lost \cup LossesOf(D), discarded' = discarded \cup D,
         UNCHANGED <<run, admitted, collectorLoss, dropped>>,
         phase' # "down" => seq' = seq
  PROVE  Unbroken' /\ LedgerExact' /\ \A l \in Ledger' : OnLedger(l)'
<1> DEFINE New == LossesOf(D)
<1>1. Ledger' = Ledger \cup New
  BY DEF Ledger
<1>2. /\ Pending \subseteq admitted /\ discarded \subseteq admitted /\ D \subseteq admitted
      /\ \A s \in admitted : s \in Sample /\ s.run = run /\ s.tag \in Tag /\ s.seq \in Nat
      /\ \A s \in admitted : s.seq <= seq[s.tag]
      /\ \A t \in Tag : seq[t] \in Nat
      /\ \A l \in Ledger : l.tag \in Tag /\ l.firstSeq \in Nat /\ l.lastSeq \in Nat
  BY PendingType DEF LedgerInv, InLine, Numbered, MemoryInv
<1>3. ASSUME NEW l \in New
      PROVE  /\ l.run = run
             /\ l.samples = Cardinality({s \in D : s.tag = l.tag})
             /\ \E a \in D : a.tag = l.tag /\ a.seq = l.firstSeq /\ a.ts = l.firstTs
             /\ \E b \in D : b.tag = l.tag /\ b.seq = l.lastSeq
             /\ \A s \in D : s.tag = l.tag => s.seq \in l.firstSeq .. l.lastSeq
  <2>1. PICK x \in D : l = LossOf({s \in D : s.run = x.run /\ s.tag = x.tag})
    BY DEF LossesOf
  <2>2. \A a, b \in D : a.tag = b.tag => (a.seq < b.seq <=> a.ts < b.ts)
    BY <1>2 DEF Numbered
  <2>3. D \in SUBSET Sample /\ \A s \in D : s.run = run
    BY <1>2
  <2>4. l.run = run /\ l.tag = x.tag
    BY <2>1, <2>2, <2>3, RecordOf
  <2>5. l.samples = Cardinality({s \in D : s.tag = x.tag})
    BY <2>1, <2>2, <2>3, RecordOf
  <2>6. \E a \in D : a.tag = x.tag /\ a.seq = l.firstSeq /\ a.ts = l.firstTs
    BY <2>1, <2>2, <2>3, RecordOf
  <2>7. \E b \in D : b.tag = x.tag /\ b.seq = l.lastSeq
    BY <2>1, <2>2, <2>3, RecordOf
  <2>8. \A s \in D : s.tag = x.tag => s.seq \in l.firstSeq .. l.lastSeq
    BY <2>1, <2>2, <2>3, RecordOf
  <2> QED BY <2>4, <2>5, <2>6, <2>7, <2>8
<1>4. \A s \in D : \E l \in New : l.run = s.run /\ l.tag = s.tag /\ s.seq \in l.firstSeq .. l.lastSeq
  BY <1>2, LossesCover
<1>5. \A l, m \in New : l.tag = m.tag => l = m
  <2> SUFFICES ASSUME NEW l \in New, NEW m \in New, l.tag = m.tag PROVE l = m
    OBVIOUS
  <2>1. PICK x \in D : l = LossOf({s \in D : s.run = x.run /\ s.tag = x.tag})
    BY DEF LossesOf
  <2>2. PICK y \in D : m = LossOf({s \in D : s.run = y.run /\ s.tag = y.tag})
    BY DEF LossesOf
  <2>3. \A s \in D : s.run = run
    BY <1>2
  <2>4. l.tag = x.tag
    BY <2>1, <2>3, TagOfRecord
  <2>5. m.tag = y.tag
    BY <2>2, <2>3, TagOfRecord
  <2>6. x.tag = y.tag /\ x.run = y.run
    BY <2>3, <2>4, <2>5
  <2> QED BY <2>1, <2>2, <2>6
<1> HIDE DEF New
\* Old records are behind D, so behind every new record.
<1>5a. \A l \in Ledger, s \in D : s.tag = l.tag => l.lastSeq < s.seq
  BY DEF LedgerInv, OnLedger
<1>6. \A l \in Ledger, s \in D : ~ Covers(l, s)
  BY <1>2, <1>5a DEF Covers
<1>7. \A l \in New, s \in discarded : ~ Covers(l, s)
  <2> SUFFICES ASSUME NEW l \in New, NEW s \in discarded, Covers(l, s) PROVE FALSE
    OBVIOUS
  <2>1. PICK m \in Ledger : Covers(m, s)
    BY DEF LedgerInv, LedgerExact
  <2>2. PICK a \in D : a.tag = l.tag /\ a.seq = l.firstSeq
    BY <1>3
  <2>3. m.lastSeq < a.seq
    BY <1>5a, <2>1, <2>2 DEF Covers
  <2>4. s.seq <= m.lastSeq /\ l.firstSeq <= s.seq
    BY <2>1 DEF Covers
  <2> QED BY <1>2, <2>2, <2>3, <2>4
<1>8. \A l \in New, s \in D : Covers(l, s) <=> s.tag = l.tag
  <2>1. \A l \in New, s \in D : l.run = run /\ s.run = run
    BY <1>2, <1>3
  <2>2. \A l \in New, s \in D : s.tag = l.tag => s.seq \in l.firstSeq .. l.lastSeq
    BY <1>3
  <2> QED BY <2>1, <2>2 DEF Covers
\* Between the ends of a new record there is no hole.
<1>9. ASSUME NEW l \in New, NEW n \in l.firstSeq .. l.lastSeq
      PROVE  \E s \in discarded' \cup dropped' : Covers(l, s) /\ s.seq = n
  <2>1. PICK a \in D : a.tag = l.tag /\ a.seq = l.firstSeq
    BY <1>3, <1>9
  <2>2. PICK b \in D : b.tag = l.tag /\ b.seq = l.lastSeq
    BY <1>3, <1>9
  <2>3. /\ a.seq \in Nat /\ b.seq \in Nat /\ n \in Nat /\ a.seq <= n /\ n <= b.seq
        /\ b.seq <= seq[a.tag] /\ seq[a.tag] \in Nat
    BY <1>2, <2>1, <2>2
  <2>4. PICK s \in Pending \cup dropped : s.tag = a.tag /\ s.seq = n
    <3>1. n \in a.seq .. seq[a.tag] /\ a \in Pending
      BY <2>3
    <3> QED BY <3>1 DEF LedgerInv, Unbroken
  <2>5. s \notin Pending'
    <3>1. s \in Pending' => b.seq < s.seq
      BY <2>1, <2>2, <2>4 DEF Below
    <3> QED BY <2>3, <2>4, <3>1
  <2>6. s \notin X
    <3>1. s \in X => s.seq < a.seq
      BY <2>4 DEF Below
    <3> QED BY <2>3, <2>4, <3>1
  <2>7. s \in D \cup dropped
    BY <2>4, <2>5, <2>6
  <2>8. s.run = run /\ l.run = run
    BY <1>2, <1>3, <1>9, <2>7 DEF LedgerInv, InLine
  <2>9. Covers(l, s)
    BY <1>9, <2>1, <2>4, <2>8 DEF Covers
  <2> QED BY <2>4, <2>7, <2>9
<1>10. ASSUME NEW l \in Ledger'
       PROVE  l.samples = Cardinality({s \in discarded' : Covers(l, s)})
  <2>1. CASE l \in Ledger
    <3>1. {s \in discarded' : Covers(l, s)} = {s \in discarded : Covers(l, s)}
      BY <1>6, <2>1
    <3> QED BY <2>1, <3>1 DEF LedgerInv, LedgerExact
  <2>2. CASE l \in New
    <3>1. {s \in discarded' : Covers(l, s)} = {s \in D : s.tag = l.tag}
      BY <1>7, <1>8, <2>2
    <3> QED BY <1>3, <2>2, <3>1
  <2> QED BY <1>1, <1>10, <2>1, <2>2
<1>11. ASSUME NEW l \in Ledger', NEW m \in Ledger', NEW s \in discarded',
              Covers(l, s), Covers(m, s)
       PROVE  l = m
  <2>1. CASE s \in D
    <3>1. l \in New /\ m \in New
      BY <1>1, <1>6, <1>11, <2>1
    <3>2. l.tag = m.tag
      BY <1>11 DEF Covers
    <3> QED BY <1>5, <3>1, <3>2
  <2>2. CASE s \in discarded
    <3>1. l \in Ledger /\ m \in Ledger
      BY <1>1, <1>7, <1>11, <2>2
    <3> QED BY <1>11, <2>2, <3>1 DEF LedgerInv, LedgerExact
  <2> QED BY <1>11, <2>1, <2>2
<1>12. \A s \in discarded' : \E l \in Ledger' : Covers(l, s)
  <2>1. \A s \in D : \E l \in Ledger' : Covers(l, s)
    BY <1>1, <1>4 DEF Covers
  <2>2. \A s \in discarded : \E l \in Ledger' : Covers(l, s)
    BY <1>1 DEF LedgerInv, LedgerExact
  <2> QED BY <2>1, <2>2
<1>13. ASSUME NEW l \in Ledger', NEW n \in l.firstSeq .. l.lastSeq
       PROVE  \E s \in discarded' \cup dropped' : Covers(l, s) /\ s.seq = n
  <2>1. CASE l \in Ledger
    BY <1>13, <2>1 DEF LedgerInv, LedgerExact
  <2> QED BY <1>1, <1>9, <1>13, <2>1
<1>14. LedgerExact'
  BY <1>10, <1>11, <1>12, <1>13 DEF LedgerExact
<1>15. ASSUME NEW l \in Ledger' PROVE OnLedger(l)'
  <2>1. CASE l \in Ledger
    <3>1. OnLedger(l)
      BY <2>1 DEF LedgerInv
    <3>2. phase' # "down" => l.lastSeq <= seq'[l.tag]
      BY <3>1 DEF OnLedger
    <3> QED BY <3>1, <3>2 DEF OnLedger
  <2>2. CASE l \in New
    <3>1. PICK a \in D : a.tag = l.tag /\ a.seq = l.firstSeq /\ a.ts = l.firstTs
      BY <1>3, <2>2
    <3>2. PICK b \in D : b.tag = l.tag /\ b.seq = l.lastSeq
      BY <1>3, <2>2
    <3>3. Covers(l, a)
      BY <1>8, <2>2, <3>1
    <3>4. \A s \in Pending' : s.tag = l.tag => l.lastSeq < s.seq
      BY <3>2 DEF Below
    <3>5. phase' # "down" => l.lastSeq <= seq'[l.tag]
      BY <1>2, <3>2
    <3>6. l.run = run'
      BY <1>3, <2>2
    <3> QED BY <3>1, <3>3, <3>4, <3>5, <3>6 DEF OnLedger
  <2> QED BY <1>1, <1>15, <2>1, <2>2
<1>16. ASSUME phase' # "down", NEW a \in Pending', NEW n \in a.seq .. seq'[a.tag]
       PROVE  \E s \in Pending' \cup dropped' : s.tag = a.tag /\ s.seq = n
  <2>1. PICK s \in Pending \cup dropped : s.tag = a.tag /\ s.seq = n
    BY <1>16 DEF LedgerInv, Unbroken
  <2>2. a.seq \in Nat /\ n \in Nat /\ a.seq <= n
    BY <1>2, <1>16
  <2>3. s \in X \cup D => s.seq < a.seq
    BY <1>16, <2>1 DEF Below
  <2> QED BY <2>1, <2>2, <2>3
<1>17. Unbroken'
  BY <1>16 DEF Unbroken
<1> QED BY <1>14, <1>15, <1>17

-----------------------------------------------------------------------------
(* What one transaction of the buffer discards is the front of the line.   *)

\* _enforce_bound discards no row before an older one.
LEMMA DoomedFirst ==
  ASSUME NEW R \in SUBSET Row, IsFiniteSet(R), NEW x \in Doomed(R), NEW y \in R \ Doomed(R)
  PROVE  x.id <= y.id
<1> DEFINE Younger(r) == {o \in R : o.id > r.id}
<1>1. \A r \in R : r.id \in Nat
  BY DEF Row
<1>2. Doomed(R) = {r \in R : Cardinality(Younger(r)) >= MaxRows}
  BY DEF Doomed
<1>3. x \in R /\ y \in R
  BY <1>2
<1> SUFFICES ASSUME y.id < x.id PROVE FALSE
  BY <1>1, <1>3
<1>4. Younger(x) \in SUBSET Younger(y) /\ Younger(y) \in SUBSET R
  BY <1>1, <1>3
<1>5. Cardinality(Younger(x)) >= MaxRows /\ ~ (Cardinality(Younger(y)) >= MaxRows)
  BY <1>2
<1> HIDE DEF Younger
<1>6. IsFiniteSet(Younger(y))
  BY <1>4, FS_Subset
<1>7. /\ IsFiniteSet(Younger(x))
      /\ Cardinality(Younger(x)) <= Cardinality(Younger(y))
      /\ Cardinality(Younger(x)) \in Nat /\ Cardinality(Younger(y)) \in Nat
  BY <1>4, <1>6, FS_Subset, FS_CardinalityType
<1> QED BY <1>5, <1>7, MaxRowsAssumption

\* Rows appended from memory keep a table's ids in the order of the numbers.
LEMMA AppendedInLine ==
  ASSUME TypeInv, Numbered, NEW R \in SUBSET Row, IsFiniteSet(R),
         IdsInLine(R), NEW q \in Seq(Sample), InOrder(q),
         Held(R) \cup Range(q) \subseteq admitted, NotAfter(Held(R), Range(q))
  PROVE  IdsInLine(Appended(R, q))
<1> DEFINE row(i) == [id |-> LastId(R) + i, s |-> q[i]]
           I      == NewIn(q, Keys(Held(R)))
<1>1. Appended(R, q) = R \cup {row(i) : i \in I}
  BY DEF Appended
<1>2. LastId(R) \in Nat /\ \A r \in R : r.id \in Nat /\ r.id <= LastId(R) /\ r.s \in Held(R)
  BY LastIdType DEF Row, Held
<1>3. \A i \in I : i \in Nat /\ i >= 1 /\ i \in DOMAIN q /\ q[i] \in Range(q)
  BY NewInType DEF NewIn
<1>4. \A i \in I : row(i).id = LastId(R) + i /\ row(i).s = q[i]
  OBVIOUS
<1>5. \A a \in admitted : a.ts \in Nat /\ a.seq \in Nat
  BY PendingType
<1>6. \A a, b \in admitted : a.tag = b.tag => (a.seq < b.seq <=> a.ts < b.ts)
  BY DEF Numbered
<1> HIDE DEF row, I
<1> SUFFICES ASSUME NEW a \in Appended(R, q), NEW b \in Appended(R, q),
                    a.s.tag = b.s.tag, a.s.seq < b.s.seq
             PROVE  a.id < b.id
  BY DEF IdsInLine
<1>7. CASE a \in R /\ b \in R
  BY <1>7 DEF IdsInLine
<1>8. ASSUME a \in R, NEW j \in I, b = row(j) PROVE a.id < b.id
  BY <1>2, <1>3, <1>4, <1>8
<1>9. ASSUME NEW i \in I, a = row(i), b \in R PROVE FALSE
  <2>1. a.s \in Range(q) /\ b.s \in Held(R)
    BY <1>2, <1>3, <1>4, <1>9
  <2>2. b.s.ts <= a.s.ts /\ a.s.ts < b.s.ts
    BY <1>6, <2>1 DEF NotAfter
  <2> QED BY <1>5, <2>1, <2>2
<1>10. ASSUME NEW i \in I, NEW j \in I, a = row(i), b = row(j) PROVE a.id < b.id
  <2>1. a.s = q[i] /\ b.s = q[j] /\ q[i] \in admitted /\ q[j] \in admitted
    BY <1>3, <1>4, <1>10
  <2>2. q[i].ts < q[j].ts /\ q[i].ts \in Nat /\ q[j].ts \in Nat
    BY <1>5, <1>6, <2>1
  <2>3. ~ (j < i)
    <3>1. j < i => q[j].ts <= q[i].ts
      BY <1>3, <2>1 DEF InOrder
    <3> QED BY <2>2, <3>1
  <2>4. i # j
    BY <2>2
  <2>5. i < j
    BY <1>3, <2>3, <2>4
  <2> QED BY <1>2, <1>3, <1>4, <1>10, <2>5
<1> QED BY <1>1, <1>7, <1>8, <1>9, <1>10

\* Everything that memory hands to the buffer gets a row: no key of it is taken.
LEMMA AppendedWhole ==
  ASSUME TypeInv, Numbered, NEW R \in SUBSET Row, NEW q \in Seq(Sample),
         Held(R) \cup Range(q) \subseteq admitted, Held(R) \cap Range(q) = {}
  PROVE  Held(Appended(R, q)) = Held(R) \cup Range(q)
<1>1. Held(Appended(R, q)) \subseteq Held(R) \cup Range(q)
  BY AppendedHolds
<1>2. ASSUME NEW x \in Range(q) PROVE x \in Held(Appended(R, q))
  <2>1. Key(x) \notin Keys(Held(R))
    <3> SUFFICES ASSUME NEW y \in Held(R), Key(x) = Key(y) PROVE FALSE
      BY DEF Keys
    <3> QED BY KeyIsSamples
  <2>2. PICK i \in NewIn(q, Keys(Held(R))) : Key(q[i]) = Key(x)
    BY <2>1, NewInFindsKeys
  <2>3. q[i] \in Range(q)
    BY NewInType
  <2>4. q[i] = x
    BY <2>2, <2>3, KeyIsSamples
  <2> QED BY <2>4, HeldByAppended
<1>3. Held(R) \subseteq Held(Appended(R, q))
  BY HeldByAppended
<1> QED BY <1>1, <1>2, <1>3

\* The transaction over the table, or over what a committed replay P leaves of
\* it: P was before the rest of the line, and what overflows is before what stays.
LEMMA FrontBuffered ==
  ASSUME TypeInv, UniqueInv, MemoryInv, OrderInv, Numbered, LedgerInv,
         NEW P \in SUBSET buffered, \A x \in P, r \in buffered \ P : x.s.ts <= r.s.ts,
         NEW q \in {queue, batch}, BufferInto(buffered \ P, q),
         \/ q = queue /\ queue' = <<>> /\ batch = <<>> /\ batch' = <<>>
         \/ q = batch /\ batch' = <<>> /\ queue' = queue
  PROVE  \E D \in SUBSET Pending :
           /\ IsFiniteSet(D)
           /\ Pending' \subseteq Pending
           /\ Pending \subseteq Held(P) \cup D \cup Pending'
           /\ Below(Held(P), D \cup Pending') /\ Below(D, Pending')
           /\ lost' = lost \cup LossesOf(D) /\ discarded' = discarded \cup D
           /\ Held(buffered') \cap InMemory' = {} /\ IdsInLine(buffered')
<1> DEFINE R    == buffered \ P
           all  == Appended(R, q)
           gone == Doomed(all)
           D    == Held(gone)
<1>1. /\ R \in SUBSET Row /\ IsFiniteSet(R) /\ q \in Seq(Sample) /\ R \subseteq buffered
      /\ Range(q) \subseteq InMemory
  BY FS_Subset DEF TypeInv, TypeOK, InMemory
<1>2. /\ Held(R) \subseteq Held(buffered) /\ Held(P) \subseteq Held(buffered)
      /\ Held(buffered) = Held(R) \cup Held(P)
  BY <1>1 DEF Held
<1>3. /\ Held(buffered) \subseteq admitted /\ InMemory \subseteq admitted
      /\ Held(buffered) \cap InMemory = {}
  BY DEF LedgerInv, InLine, Pending
<1>4. InOrder(q)
  BY DEF OrderInv, QueueInOrder, LedgerInv, InLine, InOrder
<1>5. Held(all) = Held(R) \cup Range(q)
  BY <1>1, <1>2, <1>3, AppendedWhole
<1>6. IdsInLine(all)
  <2>1. IdsInLine(R)
    BY <1>1 DEF LedgerInv, InLine, IdsInLine
  <2>2. NotAfter(Held(R), Range(q))
    BY <1>1, <1>2 DEF OrderInv, NotAfter
  <2> QED BY <1>1, <1>2, <1>3, <1>4, <2>1, <2>2, AppendedInLine
<1>7. all \in SUBSET Row /\ IsFiniteSet(all) /\ UniqueRows(all)
  <2>1. UniqueRows(R)
    BY <1>1 DEF UniqueInv, UniqueRows
  <2> QED BY <1>1, <2>1, AppendedType, AppendedUnique
<1>8. gone \in SUBSET all /\ buffered' = all \ gone
  BY DEF Doomed, BufferInto
<1>9. lost' = lost \cup LossesOf(D) /\ discarded' = discarded \cup D
  BY DEF BufferInto
<1>10. Held(all) = D \cup Held(buffered')
  BY <1>8 DEF Held
<1>11. IsFiniteSet(D)
  <2> DEFINE f == [d \in gone |-> d.s]
  <2>1. D = {f[d] : d \in gone} /\ DOMAIN f = gone
    BY DEF Held
  <2> HIDE DEF f, D, gone, all
  <2>2. IsFiniteSet(gone)
    BY <1>7, <1>8, FS_Subset
  <2> QED BY <2>1, <2>2, ImageFinite
<1> HIDE DEF R, all
\* The other half of memory is behind what is buffered.
<1>12. /\ InMemory' = InMemory \ Range(q)
       /\ NotAfter(Held(R) \cup Range(q), InMemory')
  <2>1. InMemory' = InMemory \ Range(q)
    <3>1. batch = <<>> => Range(batch) = {}
      BY EmptyRange
    <3> QED BY <3>1, EmptyRange DEF MemoryInv, InMemory
  <2>2. NotAfter(Held(R), InMemory')
    BY <1>2, <2>1 DEF OrderInv, NotAfter
  <2>3. NotAfter(Range(q), InMemory')
    <3>1. CASE q = queue /\ batch = <<>>
      <4>1. InMemory' = {}
        BY <2>1, <3>1, EmptyRange DEF InMemory
      <4> QED BY <4>1 DEF NotAfter
    <3>2. CASE q = batch
      <4>1. InMemory' \subseteq Range(queue)
        BY <2>1, <3>2 DEF InMemory
      <4> QED BY <3>2, <4>1 DEF OrderInv, NotAfter
    <3> QED BY <3>1, <3>2
  <2> QED BY <2>1, <2>2, <2>3 DEF NotAfter
<1>13. Pending' \subseteq Pending
  BY <1>1, <1>2, <1>5, <1>10, <1>12 DEF Pending
<1>14. D \in SUBSET Pending
  BY <1>1, <1>2, <1>5, <1>10 DEF Pending
<1>15. Pending \subseteq Held(P) \cup D \cup Pending'
  BY <1>2, <1>5, <1>10, <1>12 DEF Pending
<1>16. Held(buffered') \cap InMemory' = {}
  BY <1>2, <1>3, <1>5, <1>10, <1>12
<1>17. IdsInLine(buffered')
  BY <1>6, <1>8 DEF IdsInLine
\* What overflows is before what stays in the table: it has the lower ids.
<1>18. Below(D, Held(buffered'))
  <2> SUFFICES ASSUME NEW x \in gone, NEW y \in all \ gone, x.s.tag = y.s.tag
               PROVE  x.s.seq < y.s.seq
    BY <1>8 DEF Below, Held
  <2>1. x \in all /\ y \in all /\ x.id \in Nat /\ y.id \in Nat
    BY <1>7, <1>8 DEF Row
  <2>2. x.id <= y.id
    BY <1>7, DoomedFirst
  <2>3. ~ (y.s.seq < x.s.seq)
    BY <1>6, <2>1, <2>2 DEF IdsInLine
  <2>4. x.s \in admitted /\ y.s \in admitted
    BY <1>1, <1>2, <1>3, <1>5, <2>1 DEF Held
  <2>5. x.s # y.s
    BY <1>7, <2>1 DEF UniqueRows
  <2>6. x.s.seq # y.s.seq
    BY <2>4, <2>5 DEF Numbered
  <2>7. x.s.seq \in Nat /\ y.s.seq \in Nat
    BY <2>4, PendingType
  <2> QED BY <2>3, <2>6, <2>7
<1>19. Below(D, InMemory')
  <2> SUFFICES ASSUME NEW x \in D, NEW y \in InMemory', x.tag = y.tag PROVE x.seq < y.seq
    BY DEF Below
  <2>1. x \in Held(R) \cup Range(q) /\ y \in InMemory /\ y \notin Range(q)
    BY <1>5, <1>10, <1>12
  <2>2. x # y /\ x \in admitted /\ y \in admitted
    BY <1>1, <1>2, <1>3, <2>1
  <2>3. x.ts <= y.ts
    BY <1>12, <2>1 DEF NotAfter
  <2> QED BY <2>2, <2>3, EarlierIsLower
<1>20. Below(Held(P), (Held(R) \cup InMemory))
  <2> SUFFICES ASSUME NEW x \in P, NEW y \in Held(R) \cup InMemory, x.s.tag = y.tag
               PROVE  x.s.seq < y.seq
    BY DEF Below, Held
  <2>1. x.s \in Held(P) /\ x.s \in Held(buffered) /\ x.s \in admitted /\ y \in admitted
    BY <1>2, <1>3 DEF Held
  <2>2. CASE y \in InMemory
    <3>1. x.s # y
      BY <1>3, <2>1, <2>2
    <3>2. x.s.ts <= y.ts
      BY <2>1, <2>2 DEF OrderInv, NotAfter
    <3> QED BY <2>1, <3>1, <3>2, EarlierIsLower
  <2>3. CASE y \in Held(R)
    <3>1. PICK r \in buffered \ P : y = r.s
      BY <2>3 DEF Held, R
    <3>2. x.s # y
      BY <3>1 DEF UniqueInv, UniqueRows
    <3>3. x.s.ts <= y.ts
      BY <3>1
    <3> QED BY <2>1, <3>2, <3>3, EarlierIsLower
  <2> QED BY <2>2, <2>3
<1>21. D \cup Pending' \subseteq Held(R) \cup InMemory
  BY <1>1, <1>5, <1>10, <1>12 DEF Pending
<1> HIDE DEF D
<1>22. Below(Held(P), D \cup Pending') /\ Below(D, Pending')
  BY <1>18, <1>19, <1>20, <1>21 DEF Below, Pending
<1> QED BY <1>9, <1>11, <1>13, <1>14, <1>15, <1>16, <1>17, <1>22

LEMMA LedgerBuffers ==
  ASSUME TypeInv, UniqueInv, MemoryInv, OrderInv, Numbered, LedgerInv, phase # "down",
         NEW P \in SUBSET buffered, \A x \in P, r \in buffered \ P : x.s.ts <= r.s.ts,
         NEW q \in {queue, batch}, BufferInto(buffered \ P, q),
         \/ q = queue /\ queue' = <<>> /\ batch = <<>> /\ batch' = <<>>
         \/ q = batch /\ batch' = <<>> /\ queue' = queue,
         UNCHANGED <<run, admitted, collectorLoss, dropped>>,
         phase' # "down" => seq' = seq, pc' # "sent"
  PROVE  LedgerInv'
<1>1. PICK D \in SUBSET Pending :
        /\ IsFiniteSet(D)
        /\ Pending' \subseteq Pending
        /\ Pending \subseteq Held(P) \cup D \cup Pending'
        /\ Below(Held(P), D \cup Pending') /\ Below(D, Pending')
        /\ lost' = lost \cup LossesOf(D) /\ discarded' = discarded \cup D
        /\ Held(buffered') \cap InMemory' = {} /\ IdsInLine(buffered')
  BY FrontBuffered
<1>2. Held(P) \in SUBSET Pending
  BY DEF Held, Pending
<1>3. Unbroken' /\ LedgerExact' /\ \A l \in Ledger' : OnLedger(l)'
  BY <1>1, <1>2, FrontRecorded
<1>4. Pending' \cup discarded' \cup dropped' \subseteq admitted'
  BY <1>1 DEF LedgerInv, InLine
<1>5. batch' = <<>>
  OBVIOUS
<1>6. InOrder(batch')
  BY <1>5, EmptySeq DEF InOrder
<1> QED BY <1>1, <1>3, <1>4, <1>6 DEF LedgerInv, InLine

-----------------------------------------------------------------------------
(* Step by step.                                                           *)

GapsContext ==
  TypeInv /\ DrainInv /\ CustodyInv /\ UniqueInv /\ MemoryInv /\ OrderInv /\ Numbered

\* Two records with one key in the archive's ledger are one: both begin with
\* the same discarded sample.  So every record sent is in the ledger.
LEMMA LossesArrive ==
  ASSUME TypeInv, Numbered, LedgerInv
  PROVE  /\ lost \subseteq UpsertLosses(collectorLoss, lost)
         /\ lost \cup UpsertLosses(collectorLoss, lost) = Ledger
<1>1. ASSUME NEW l \in lost, NEW m \in Ledger, LossKey(m) = LossKey(l) PROVE l = m
  <2>1. l \in Ledger /\ l.tag = m.tag /\ l.firstTs = m.firstTs
    BY <1>1 DEF Ledger, LossKey
  <2>2. PICK s \in discarded : Covers(l, s) /\ s.ts = l.firstTs
    BY <2>1 DEF LedgerInv, OnLedger
  <2>3. PICK x \in discarded : Covers(m, x) /\ x.ts = m.firstTs
    BY <1>1 DEF LedgerInv, OnLedger
  <2>4. Key(s) = Key(x)
    BY <2>1, <2>2, <2>3 DEF Covers, Key
  <2>5. s = x
    BY <2>4, KeyIsSamples DEF LedgerInv, InLine
  <2> QED BY <2>1, <2>2, <2>3, <2>5 DEF LedgerInv, LedgerExact
<1>2. \A l \in lost : ~ Earlier(l, l)
  <2> SUFFICES ASSUME NEW l \in lost PROVE ~ Earlier(l, l)
    OBVIOUS
  <2>1. l.run \in Nat /\ l.firstSeq \in Nat
    BY DEF TypeInv, TypeOK, Loss
  <2> QED BY <2>1 DEF Earlier
<1>3. ASSUME NEW l \in lost PROVE l \in UpsertLosses(collectorLoss, lost)
  <2>1. \A m \in lost : LossKey(m) = LossKey(l) => ~ Earlier(m, l)
    BY <1>1, <1>2 DEF Ledger
  <2>2. CASE \A m \in collectorLoss : LossKey(m) # LossKey(l)
    BY <2>1, <2>2 DEF UpsertLosses
  <2>3. CASE \E m \in collectorLoss : LossKey(m) = LossKey(l)
    <3>1. l \in collectorLoss
      BY <1>1, <2>3 DEF Ledger
    <3> QED BY <3>1 DEF UpsertLosses
  <2> QED BY <2>2, <2>3
<1>4. /\ collectorLoss \subseteq UpsertLosses(collectorLoss, lost)
      /\ UpsertLosses(collectorLoss, lost) \subseteq collectorLoss \cup lost
  BY DEF UpsertLosses
<1> QED BY <1>3, <1>4 DEF Ledger

\* An element appended behind the others keeps a sequence in order.
LEMMA AppendedLast ==
  ASSUME NEW q \in Seq(Sample), NEW s \in Sample, InOrder(q), NotAfter(Range(q), {s})
  PROVE  InOrder(Append(q, s))
<1> DEFINE r == Append(q, s)
<1>1. /\ r \in Seq(Sample) /\ Len(r) = Len(q) + 1
      /\ \A i \in 1 .. Len(q) : r[i] = q[i]
      /\ r[Len(q) + 1] = s
  BY AppendProperties
<1>2. DOMAIN r = 1 .. (Len(q) + 1) /\ DOMAIN q = 1 .. Len(q) /\ Len(q) \in Nat
  BY <1>1, LenProperties
<1> HIDE DEF r
<1>3. ASSUME NEW i \in DOMAIN r, NEW j \in DOMAIN r, i < j, r[i].tag = r[j].tag
      PROVE  r[i].ts <= r[j].ts
  <2>1. i \in DOMAIN q /\ r[i] = q[i] /\ q[i] \in Range(q)
    BY <1>1, <1>2, <1>3 DEF Range
  <2>2. CASE j = Len(q) + 1
    BY <1>1, <1>3, <2>1, <2>2 DEF NotAfter
  <2>3. CASE j # Len(q) + 1
    <3>1. j \in DOMAIN q /\ r[j] = q[j]
      BY <1>1, <1>2, <2>3
    <3> QED BY <1>3, <2>1, <3>1 DEF InOrder
  <2> QED BY <2>2, <2>3
<1>4. InOrder(r)
  BY <1>3 DEF InOrder
<1> QED BY <1>4 DEF r

\* Steps that touch neither memory nor the buffer.
LEMMA LedgerStays ==
  ASSUME TypeInv, LedgerInv,
         UNCHANGED <<run, admitted, buffered, discarded, dropped, queue, batch, seq>>,
         Ledger' = Ledger, phase' # "down" => phase # "down",
         pc' = "sent" => lost' \subseteq collectorLoss'
  PROVE  LedgerInv'
<1>1. InMemory' = InMemory
  BY DEF InMemory
<1>2. Below(InMemory \ (InMemory' \cup dropped'), Pending')
  BY <1>1 DEF Below
<1>3. InOrder(batch')
  BY DEF LedgerInv, InLine
<1> QED BY <1>1, <1>2, <1>3, LedgerShrinks

LEMMA LedgerForwarder ==
  ASSUME GapsContext, LedgerInv, Forwarder
  PROVE  LedgerInv'
<1> USE DEF sourceVars, ingressVars, storeVars, archiveVars, historyVars
<1>1. TypeInv /\ DrainInv /\ CustodyInv /\ UniqueInv /\ MemoryInv /\ OrderInv /\ Numbered
  BY DEF GapsContext
<1>2. phase # "down" /\ UNCHANGED <<run, admitted, seq, dropped, phase>>
  <2>1. pc # "off" /\ UNCHANGED <<run, admitted, seq, dropped, phase>>
    BY DEF Forwarder, CollectOne, CollectDone, WriteCommit, WriteAck, WriteFail,
       ConnectOk, ConnectFail, ReplayCommit, ReplayAck, ReplayFail, LossCommit,
       LossAck, LossFail
  <2> QED BY <1>1, <2>1 DEF Numbered
<1>3. buffered \ {} = buffered /\ {} \in SUBSET buffered
  OBVIOUS
<1>4. InOrder(batch) /\ InOrder(<<>>)
  BY EmptySeq DEF LedgerInv, InLine, InOrder
<1>5. CASE CollectOne
  <2>1. /\ queue # <<>> /\ queue \in Seq(Sample) /\ batch \in Seq(Sample)
        /\ batch' = Append(batch, Head(queue)) /\ queue' = Tail(queue)
        /\ UNCHANGED <<buffered, discarded, lost, collectorLoss>> /\ pc' = "collect"
    BY <1>1, <1>5 DEF CollectOne, TypeInv, TypeOK
  <2>2. Range(queue) = {Head(queue)} \cup Range(queue') /\ Head(queue) \in Sample
    BY <2>1, RangeOfTail
  <2>3. Range(batch') = Range(batch) \cup {Head(queue)}
    BY <2>1, <2>2, RangeOfAppend
  <2>4. InMemory' = InMemory
    BY <2>2, <2>3 DEF InMemory
  <2>5. NotAfter(Range(batch), {Head(queue)})
    BY <1>1, <2>2 DEF OrderInv, NotAfter
  <2>6. InOrder(batch')
    BY <1>4, <2>1, <2>2, <2>5, AppendedLast
  <2>7. Below(InMemory \ (InMemory' \cup dropped'), Pending')
    BY <2>4 DEF Below
  <2>8. Ledger' = Ledger
    BY <2>1 DEF Ledger
  <2> QED BY <1>1, <1>2, <2>1, <2>4, <2>6, <2>7, <2>8, LedgerShrinks
<1>6. CASE CollectDone
  <2>1. CASE linkUp
    <3>1. UNCHANGED <<buffered, discarded, lost, collectorLoss, queue, batch>> /\ pc' # "sent"
      BY <1>6, <2>1 DEF CollectDone
    <3>2. Ledger' = Ledger
      BY <3>1 DEF Ledger
    <3> QED BY <1>1, <1>2, <3>1, <3>2, LedgerStays
  <2>2. CASE ~ linkUp
    <3>1. /\ BufferInto(buffered \ {}, batch) /\ batch' = <<>> /\ queue' = queue
          /\ pc' # "sent" /\ UNCHANGED collectorLoss
      BY <1>3, <1>6, <2>2 DEF CollectDone
    <3> QED BY <1>1, <1>2, <1>3, <3>1, LedgerBuffers
  <2> QED BY <2>1, <2>2
<1>7. CASE WriteCommit \/ ConnectFail \/ ReplayCommit \/ ReplayFail \/ LossFail
  <2>1. UNCHANGED <<buffered, discarded, lost, collectorLoss, queue, batch>> /\ pc' # "sent"
    BY <1>7 DEF WriteCommit, ConnectFail, ReplayCommit, ReplayFail, LossFail
  <2>2. Ledger' = Ledger
    BY <2>1 DEF Ledger
  <2> QED BY <1>1, <1>2, <2>1, <2>2, LedgerStays
<1>8. CASE WriteAck
  <2>1. /\ batch' = <<>> /\ queue' = queue /\ pc' # "sent" /\ pc = "wrote"
        /\ UNCHANGED <<buffered, discarded, lost, collectorLoss>>
    BY <1>8 DEF WriteAck, ForwardLosses
  <2>2. buffered = {} /\ Held(buffered) = {}
    BY <1>1, <2>1 DEF DrainInv, Held
  <2>3. InMemory' = InMemory \ Range(batch) /\ InMemory' \subseteq Range(queue)
    BY <1>1, <2>1, QueueLeaves, EmptyRange DEF InMemory
  <2>4. Below(InMemory \ (InMemory' \cup dropped'), Pending')
    <3> SUFFICES ASSUME NEW x \in Range(batch), NEW y \in Range(queue), x.tag = y.tag
                 PROVE  x.seq < y.seq
      BY <2>1, <2>2, <2>3 DEF Below, Pending
    <3>1. x \in admitted /\ y \in admitted /\ x # y
      BY <1>1 DEF MemoryInv, InMemory
    <3>2. x.ts <= y.ts
      BY <1>1 DEF OrderInv, NotAfter
    <3> QED BY <1>1, <3>1, <3>2, EarlierIsLower
  <2>5. Ledger' = Ledger
    BY <2>1 DEF Ledger
  <2> QED BY <1>1, <1>2, <1>4, <2>1, <2>3, <2>4, <2>5, LedgerShrinks
<1>9. CASE WriteFail
  <2>1. /\ BufferInto(buffered \ {}, batch) /\ batch' = <<>> /\ queue' = queue
        /\ pc' # "sent" /\ UNCHANGED collectorLoss
    BY <1>3, <1>9 DEF WriteFail
  <2> QED BY <1>1, <1>2, <1>3, <2>1, LedgerBuffers
<1>10. CASE ConnectOk
  <2>1. batch = <<>> /\ batch' = <<>> /\ UNCHANGED collectorLoss /\ pc' # "sent"
    BY <1>1, <1>10 DEF ConnectOk, OrderInv, Drain, DrainTurn, ForwardLosses
  <2>2. CASE buffered = {}
    <3>1. UNCHANGED <<buffered, discarded, lost, queue, batch>>
      BY <1>10, <2>1, <2>2 DEF ConnectOk, Drain
    <3>2. Ledger' = Ledger
      BY <2>1, <3>1 DEF Ledger
    <3> QED BY <1>1, <1>2, <2>1, <3>1, <3>2, LedgerStays
  <2>3. CASE buffered # {}
    <3>1. DrainTurn(buffered)
      BY <1>10, <2>3 DEF ConnectOk, Drain
    <3>2. BufferInto(buffered \ {}, queue) /\ queue' = <<>>
      BY <1>3, <3>1 DEF DrainTurn
    <3> QED BY <1>1, <1>2, <1>3, <2>1, <3>2, LedgerBuffers
  <2> QED BY <2>2, <2>3
<1>11. CASE ReplayAck
  <2>1. /\ DrainTurn(buffered \ replay) /\ replay \in SUBSET buffered
        /\ batch = <<>> /\ batch' = <<>> /\ UNCHANGED collectorLoss
    BY <1>1, <1>11 DEF ReplayAck, OrderInv, UniqueInv
  <2>2. BufferInto(buffered \ replay, queue) /\ queue' = <<>> /\ pc' # "sent"
    BY <2>1 DEF DrainTurn, ForwardLosses
  <2>3. \A x \in replay, r \in buffered \ replay : x.s.ts <= r.s.ts
    BY <1>1 DEF OrderInv
  <2> QED BY <1>1, <1>2, <2>1, <2>2, <2>3, LedgerBuffers
<1>12. CASE LossCommit
  <2>1. /\ collectorLoss' = UpsertLosses(collectorLoss, lost) /\ lost' = lost
        /\ UNCHANGED <<buffered, discarded, queue, batch>>
    BY <1>12 DEF LossCommit
  <2>2. Ledger' = Ledger /\ lost' \subseteq collectorLoss'
    BY <1>1, <2>1, LossesArrive DEF Ledger
  <2> QED BY <1>1, <1>2, <2>1, <2>2, LedgerStays
<1>13. CASE LossAck
  <2>1. /\ lost' = {} /\ collectorLoss' = collectorLoss /\ pc = "sent" /\ pc' = "collect"
        /\ UNCHANGED <<buffered, discarded, queue, batch>>
    BY <1>13 DEF LossAck
  <2>2. Ledger' = Ledger
    BY <2>1 DEF Ledger, LedgerInv
  <2> QED BY <1>1, <1>2, <2>1, <2>2, LedgerStays
<1> QED BY <1>5, <1>6, <1>7, <1>8, <1>9, <1>10, <1>11, <1>12, <1>13 DEF Forwarder

LEMMA LedgerProcess ==
  ASSUME MaxRuns <= 1, GapsContext, LedgerInv, Process
  PROVE  LedgerInv'
<1> USE DEF sourceVars, ingressVars, storeVars, archiveVars, historyVars
<1>1. TypeInv /\ CustodyInv /\ UniqueInv /\ MemoryInv /\ OrderInv /\ Numbered
  BY DEF GapsContext
<1>2. InOrder(<<>>)
  BY EmptySeq DEF InOrder
\* The only start is the first, with nothing numbered.
<1>3. CASE Start
  <2>1. /\ run < MaxRuns /\ run \in Nat /\ batch' = batch /\ queue' = queue /\ pc' # "sent"
        /\ UNCHANGED <<admitted, buffered, discarded, lost, collectorLoss, dropped>>
    BY <1>1, <1>3 DEF Start, TypeInv, TypeOK
  <2>2. run = 0
    BY <2>1, BoundsAssumption
  <2>3. admitted = {}
    BY <1>1, <2>2 DEF Numbered
  <2>4. Pending = {} /\ discarded = {} /\ dropped = {}
    BY <2>3 DEF LedgerInv, InLine
  <2>5. Ledger = {}
    BY <2>4 DEF LedgerInv, OnLedger
  <2>6. Pending' = {} /\ Ledger' = {}
    BY <2>1, <2>4, <2>5 DEF Pending, InMemory, Ledger
  <2>7. InLine'
    BY <2>1, <2>4, <2>6 DEF LedgerInv, InLine, Pending, InMemory
  <2>8. LedgerExact'
    BY <2>1, <2>4, <2>6 DEF LedgerExact
  <2> QED BY <2>1, <2>6, <2>7, <2>8 DEF LedgerInv, Unbroken
<1>4. CASE StartTasks
  <2>1. /\ UNCHANGED <<run, admitted, buffered, discarded, dropped, queue, batch, seq,
                       lost, collectorLoss, pc>>
        /\ phase = "starting"
    BY <1>4 DEF StartTasks
  <2>2. Ledger' = Ledger
    BY <2>1 DEF Ledger
  <2> QED BY <1>1, <2>1, <2>2, LedgerStays DEF LedgerInv
<1>5. CASE StartFail \/ Kill
  <2>1. /\ UNCHANGED <<run, admitted, buffered, discarded, dropped, lost, collectorLoss>>
        /\ phase' = "down" /\ pc' = "off" /\ queue' = <<>> /\ batch' = <<>>
    BY <1>5 DEF StartFail, Kill, Gone
  <2>2. InMemory' \subseteq InMemory
    BY <2>1, EmptyRange DEF InMemory
  <2>3. Ledger' = Ledger
    BY <2>1 DEF Ledger
  <2> QED BY <1>1, <1>2, <2>1, <2>2, <2>3, LedgerShrinks
<1>6. CASE Stop
  <2>1. /\ UNCHANGED <<run, admitted, buffered, discarded, lost, collectorLoss, queue, seq>>
        /\ phase = "running" /\ pc' = "off" /\ batch' = <<>>
        /\ dropped' = dropped \cup Range(batch)
    BY <1>6 DEF Stop
  <2>2. InMemory' = InMemory \ Range(batch) /\ Range(batch) \subseteq InMemory
    BY <1>1, <2>1, QueueLeaves DEF InMemory
  <2>3. Below(InMemory \ (InMemory' \cup dropped'), Pending')
    BY <2>1, <2>2 DEF Below
  <2>4. Ledger' = Ledger
    BY <2>1 DEF Ledger
  <2> QED BY <1>1, <1>2, <2>1, <2>2, <2>3, <2>4, LedgerShrinks
<1>7. CASE Flush
  <2>1. /\ BufferInto(buffered, queue) /\ queue' = <<>> /\ batch = <<>> /\ batch' = <<>>
        /\ phase = "stopping" /\ phase' = "down" /\ pc' = "off"
        /\ UNCHANGED <<run, admitted, collectorLoss, dropped>>
    BY <1>1, <1>7 DEF Flush, Gone, CustodyInv
  <2>2. buffered \ {} = buffered /\ {} \in SUBSET buffered
    OBVIOUS
  <2>3. BufferInto(buffered \ {}, queue)
    BY <2>1, <2>2
  <2> QED BY <1>1, <2>1, <2>2, <2>3, LedgerBuffers
<1> QED BY <1>3, <1>4, <1>5, <1>6, <1>7 DEF Process

LEMMA LedgerNext ==
  ASSUME MaxRuns <= 1, GapsContext, LedgerInv, [Next]_vars
  PROVE  LedgerInv'
<1> USE DEF sourceVars, ingressVars, storeVars, archiveVars, historyVars
<1>1. TypeInv /\ MemoryInv /\ Numbered
  BY DEF GapsContext
<1>2. ASSUME NEW t \in Tag, Notify(t) PROVE LedgerInv'
  <2>1. published[t] + 1 \in Nat /\ phase # "down" /\ OnSample(t, published[t] + 1)
        /\ UNCHANGED <<phase, run, pc, batch, buffered, lost, collectorLoss, discarded, dropped>>
    BY <1>1, <1>2 DEF TypeInv, TypeOK, Notify
  <2> QED BY <1>1, <2>1, LedgerArrival
<1>3. ASSUME NEW t \in Tag, MaxTimeRead(t) PROVE LedgerInv'
  <2>1. srcTs[t] \in Nat /\ phase # "down" /\ OnSample(t, srcTs[t])
        /\ UNCHANGED <<phase, run, pc, batch, buffered, lost, collectorLoss, discarded, dropped>>
    BY <1>1, <1>3 DEF TypeInv, TypeOK, MaxTimeRead
  <2> QED BY <1>1, <2>1, LedgerArrival
<1>4. CASE (\E t \in Tag : SourceChange(t)) \/ Reconnect \/ Archive \/ UNCHANGED vars
  <2>1. UNCHANGED <<run, admitted, buffered, discarded, dropped, queue, batch, seq,
                    lost, collectorLoss, pc, phase>>
    BY <1>4 DEF SourceChange, Reconnect, Archive, ArchiveDown, ArchiveUp,
                ConnectionLost, vars
  <2>2. Ledger' = Ledger
    BY <2>1 DEF Ledger
  <2> QED BY <1>1, <2>1, <2>2, LedgerStays DEF LedgerInv
<1> QED BY <1>2, <1>3, <1>4, LedgerForwarder, LedgerProcess DEF Next, Source

\* In one life of the process the loss ledger is complete and exact, at every
\* moment of an outage, an overflow, a drain, an ambiguous commit of the records
\* themselves, a stop or a kill: every discarded sample is in exactly one record,
\* whose range holds nothing else but what a stop dropped, and whose count is
\* the number of samples discarded in it (buffer.py, _enforce_bound and
\* record_loss; sink.py, write_losses).
THEOREM LedgerIsExact ==
  ASSUME MaxRuns <= 1, ~ ReadsOvertake
  PROVE  Spec => []LedgerExact
<1> DEFINE All == GapsContext /\ LedgerInv
<1>1. Init => All
  <2>1. Init => DrainInv /\ UniqueInv
    BY DEF Init, DrainInv, UniqueInv, UniqueKeys, UniqueRows
  <2> QED BY <2>1, TypeInit, CustodyInit, MemoryInit, OrderInit, NumberedInit,
             LedgerInit DEF GapsContext
<1>2. All /\ [Next]_vars => All'
  <2> SUFFICES ASSUME All, [Next]_vars PROVE All'
    OBVIOUS
  <2>1. LedgerInv'
    BY LedgerNext
  <2>2. GapsContext'
    BY TypeNext, DrainNext, CustodyNext, UniqueNext, MemoryNext, OrderNext,
       NumberedNext DEF GapsContext
  <2> QED BY <2>1, <2>2
<1>3. All => LedgerExact
  BY DEF LedgerInv
<1> HIDE DEF All
<1> QED BY <1>1, <1>2, <1>3, PTL DEF Spec


-----------------------------------------------------------------------------
(* What the archive lacks of the numbers it spans is on the ledger.        *)

\* Every number up to a sample's, and up to a tag's last, is a sample's.
Complete ==
  /\ \A t \in Tag : \A n \in 1 .. seq[t] : \E s \in admitted : s.tag = t /\ s.seq = n
  /\ \A a \in admitted : \A n \in 1 .. a.seq :
       \E s \in admitted : s.tag = a.tag /\ s.seq = n

\* A kill ends the only run, and takes nothing older than what is archived.
KilledLast ==
  /\ killed # {} => phase = "down" /\ run # 0
  /\ NewTo(sample, killed)

HolesInv ==
  /\ Complete
  /\ KilledLast
  /\ sample \subseteq admitted
  /\ IsFiniteSet(lost) /\ IsFiniteSet(collectorLoss)

LEMMA HolesInit == Init => HolesInv
<1> SUFFICES ASSUME Init PROVE HolesInv
  OBVIOUS
<1>1. \A t \in Tag : 1 .. seq[t] = {}
  BY DEF Init
<1>2. Complete
  BY <1>1 DEF Init, Complete
<1>3. KilledLast
  BY DEF Init, KilledLast, NewTo
<1> QED BY <1>2, <1>3, FS_EmptySet DEF Init, HolesInv

\* A sample is numbered: its number follows the tag's last.
LEMMA CompleteArrival ==
  ASSUME TypeInv, MemoryInv, Complete, phase # "down",
         NEW t \in Tag, NEW ts \in Nat, OnSample(t, ts)
  PROVE  Complete' /\ admitted \subseteq admitted'
<1>1. CASE UNCHANGED <<queue, admitted, seq>>
  BY <1>1 DEF Complete
<1>2. ASSUME NEW s \in Sample, s.tag = t, s.seq = seq[t] + 1,
             admitted' = admitted \cup {s}, seq' = [seq EXCEPT ![t] = @ + 1]
      PROVE  Complete' /\ admitted \subseteq admitted'
  <2>1. seq \in [Tag -> Nat] /\ \A a \in admitted : a.tag \in Tag /\ a.seq \in Nat
    BY DEF TypeInv, TypeOK, Sample
  <2>2. s \in admitted' /\ admitted \subseteq admitted'
    BY <1>2
  <2>3. ASSUME NEW n \in 1 .. seq[t] + 1
        PROVE  \E x \in admitted' : x.tag = t /\ x.seq = n
    <3>1. CASE n = seq[t] + 1
      BY <1>2, <2>2, <3>1
    <3>2. CASE n # seq[t] + 1
      <4>1. n \in 1 .. seq[t]
        BY <2>1, <2>3, <3>2
      <4> QED BY <2>2, <4>1 DEF Complete
    <3> QED BY <3>1, <3>2
  <2>4. ASSUME NEW u \in Tag, NEW n \in 1 .. seq'[u]
        PROVE  \E x \in admitted' : x.tag = u /\ x.seq = n
    <3>1. CASE u = t
      <4>1. seq'[u] = seq[t] + 1
        BY <1>2, <2>1, <3>1
      <4> QED BY <2>3, <2>4, <3>1, <4>1
    <3>2. CASE u # t
      <4>1. seq'[u] = seq[u]
        BY <1>2, <2>1, <3>2
      <4> QED BY <2>2, <2>4, <4>1 DEF Complete
    <3> QED BY <3>1, <3>2
  <2>5. ASSUME NEW a \in admitted', NEW n \in 1 .. a.seq
        PROVE  \E x \in admitted' : x.tag = a.tag /\ x.seq = n
    <3>1. CASE a = s
      BY <1>2, <2>3, <2>5, <3>1
    <3>2. CASE a \in admitted
      BY <2>2, <2>5, <3>2 DEF Complete
    <3> QED BY <1>2, <3>1, <3>2
  <2> QED BY <2>2, <2>4, <2>5 DEF Complete
<1> QED BY <1>1, <1>2, OnSampleFresh

LEMMA CompleteNext ==
  ASSUME TypeInv, MemoryInv, Complete, [Next]_vars
  PROVE  Complete' /\ admitted \subseteq admitted'
<1> USE DEF sourceVars, ingressVars, storeVars, archiveVars, historyVars
<1>1. ASSUME NEW t \in Tag, Notify(t) PROVE Complete' /\ admitted \subseteq admitted'
  <2>1. published[t] + 1 \in Nat /\ phase # "down" /\ OnSample(t, published[t] + 1)
    BY <1>1 DEF TypeInv, TypeOK, Notify
  <2> QED BY <2>1, CompleteArrival
<1>2. ASSUME NEW t \in Tag, MaxTimeRead(t) PROVE Complete' /\ admitted \subseteq admitted'
  <2>1. srcTs[t] \in Nat /\ phase # "down" /\ OnSample(t, srcTs[t])
    BY <1>2 DEF TypeInv, TypeOK, MaxTimeRead
  <2> QED BY <2>1, CompleteArrival
<1>3. CASE StartFail \/ Flush \/ Kill
  <2>1. admitted' = admitted /\ \A t \in Tag : seq'[t] = 0
    BY <1>3 DEF StartFail, Flush, Kill, Gone
  <2>2. \A t \in Tag : 1 .. seq'[t] = {}
    BY <2>1
  <2> QED BY <2>1, <2>2 DEF Complete
<1>4. CASE Forwarder
  <2>1. UNCHANGED <<admitted, seq>>
    BY <1>4 DEF Forwarder, CollectOne, CollectDone, WriteCommit, WriteAck, WriteFail,
       ConnectOk, ConnectFail, ReplayCommit, ReplayAck, ReplayFail, LossCommit,
       LossAck, LossFail
  <2> QED BY <2>1 DEF Complete
<1>5. CASE (\E t \in Tag : SourceChange(t)) \/ Reconnect \/ Archive \/ UNCHANGED vars
           \/ Start \/ StartTasks \/ Stop
  <2>1. UNCHANGED <<admitted, seq>>
    BY <1>5 DEF SourceChange, Reconnect, Archive, ArchiveDown, ArchiveUp,
                ConnectionLost, vars, Start, StartTasks, Stop
  <2> QED BY <2>1 DEF Complete
<1> QED BY <1>1, <1>2, <1>3, <1>4, <1>5 DEF Next, Source, Process

\* A transaction of the buffer records finitely many losses.
LEMMA LossesFinite ==
  ASSUME NEW R \in SUBSET Row, IsFiniteSet(R), NEW q \in Seq(Sample),
         IsFiniteSet(lost), BufferInto(R, q)
  PROVE  IsFiniteSet(lost')
<1> DEFINE all  == Appended(R, q)
           gone == Doomed(all)
           f    == [r \in gone |-> r.s]
           D    == Held(gone)
           g    == [x \in D |-> LossOf({s \in D : s.run = x.run /\ s.tag = x.tag})]
<1>1. all \in SUBSET Row /\ IsFiniteSet(all)
  BY AppendedType
<1>2. gone \in SUBSET all
  BY DEF Doomed
<1>3. IsFiniteSet(gone)
  <2> HIDE DEF gone, all
  <2> QED BY <1>1, <1>2, FS_Subset
<1>4. D = {f[r] : r \in gone} /\ DOMAIN f = gone
  BY DEF Held
<1>5. IsFiniteSet(D)
  <2> HIDE DEF D, f, gone
  <2> QED BY <1>3, <1>4, ImageFinite
<1>6. LossesOf(D) = {g[x] : x \in D} /\ DOMAIN g = D
  <2> HIDE DEF D
  <2> QED BY DEF LossesOf
<1>7. IsFiniteSet(LossesOf(D))
  <2> HIDE DEF D, g
  <2> QED BY <1>5, <1>6, ImageFinite
<1>8. lost' = lost \cup LossesOf(D)
  BY DEF BufferInto
<1> QED BY <1>7, <1>8, FS_Union

LEMMA LedgerFinite ==
  ASSUME TypeInv, IsFiniteSet(lost), IsFiniteSet(collectorLoss), [Next]_vars
  PROVE  IsFiniteSet(lost') /\ IsFiniteSet(collectorLoss')
<1> USE DEF sourceVars, ingressVars, storeVars, archiveVars, historyVars
<1>1. ASSUME NEW P, NEW q \in {queue, batch}, BufferInto(buffered \ P, q)
      PROVE  IsFiniteSet(lost')
  <2>1. buffered \ P \in SUBSET buffered /\ IsFiniteSet(buffered) /\ buffered \in SUBSET Row
    BY DEF TypeInv, TypeOK
  <2>2. buffered \ P \in SUBSET Row /\ IsFiniteSet(buffered \ P)
    BY <2>1, FS_Subset
  <2>3. q \in Seq(Sample)
    BY DEF TypeInv, TypeOK
  <2> QED BY <1>1, <2>2, <2>3, LossesFinite
<1>2. buffered \ {} = buffered
  OBVIOUS
<1>3. CASE WriteFail \/ Flush \/ ConnectOk \/ ReplayAck \/ CollectDone
  <2>1. collectorLoss' = collectorLoss
    BY <1>3 DEF WriteFail, Flush, ConnectOk, ReplayAck, CollectDone
  <2>2. \/ lost' = lost
        \/ BufferInto(buffered \ {}, queue)
        \/ BufferInto(buffered \ {}, batch)
        \/ BufferInto(buffered \ replay, queue)
    BY <1>2, <1>3 DEF WriteFail, Flush, ConnectOk, ReplayAck, CollectDone, Drain, DrainTurn
  <2> QED BY <1>1, <2>1, <2>2
<1>4. CASE LossCommit
  <2>1. collectorLoss' \subseteq collectorLoss \cup lost /\ lost' = lost
    BY <1>4 DEF LossCommit, UpsertLosses
  <2>2. IsFiniteSet(collectorLoss \cup lost)
    BY FS_Union
  <2>3. collectorLoss' \in SUBSET (collectorLoss \cup lost)
    BY <2>1
  <2> QED BY <2>1, <2>2, <2>3, FS_Subset
<1>5. CASE LossAck
  <2>1. lost' = {} /\ collectorLoss' = collectorLoss
    BY <1>5 DEF LossAck
  <2> QED BY <2>1, FS_EmptySet
<1>6. CASE CollectOne \/ WriteCommit \/ WriteAck \/ ConnectFail \/ ReplayCommit
           \/ ReplayFail \/ LossFail
  BY <1>6 DEF CollectOne, WriteCommit, WriteAck, ConnectFail, ReplayCommit,
              ReplayFail, LossFail
<1>7. CASE Start \/ StartTasks \/ StartFail \/ Stop \/ Kill \/ Reconnect \/ UNCHANGED vars
  BY <1>7 DEF Start, StartTasks, StartFail, Stop, Kill, Reconnect, vars
<1>8. CASE Source \/ Archive
  BY <1>8 DEF Source, SourceChange, Notify, MaxTimeRead, Archive, ArchiveDown,
              ArchiveUp, ConnectionLost
<1> QED BY <1>3, <1>4, <1>5, <1>6, <1>7, <1>8 DEF Next, Forwarder, Process

LEMMA HolesNext ==
  ASSUME MaxRuns <= 1, GapsContext, LedgerInv, HolesInv, [Next]_vars
  PROVE  HolesInv'
<1> USE DEF sourceVars, ingressVars, storeVars, archiveVars, historyVars
<1>1. TypeInv /\ UniqueInv /\ MemoryInv /\ OrderInv /\ Numbered
  BY DEF GapsContext
<1>2. Complete' /\ admitted \subseteq admitted'
  BY <1>1, CompleteNext DEF HolesInv
<1>3. IsFiniteSet(lost') /\ IsFiniteSet(collectorLoss')
  BY <1>1, LedgerFinite DEF HolesInv
\* Only the forwarder of a process that runs adds to the archive.
<1>4. CASE WriteCommit \/ ReplayCommit
  <2>1. killed' = killed /\ pc # "off"
    BY <1>4 DEF WriteCommit, ReplayCommit
  <2>2. killed' = {}
    BY <1>1, <2>1 DEF Numbered, HolesInv, KilledLast
  <2>3. sample' \subseteq sample \cup Range(batch) \cup Held(replay)
    BY <1>1, <1>4, UpsertKeys, UpsertRowsKeys DEF WriteCommit, ReplayCommit, TypeInv, TypeOK
  <2>4. Range(batch) \subseteq admitted /\ Held(replay) \subseteq admitted
    BY <1>1 DEF LedgerInv, InLine, Pending, InMemory, Held, UniqueInv
  <2>5. sample' \subseteq admitted'
    BY <1>2, <2>3, <2>4 DEF HolesInv
  <2>6. KilledLast'
    BY <2>2 DEF KilledLast, NewTo
  <2> QED BY <1>2, <1>3, <2>5, <2>6 DEF HolesInv
<1>5. CASE ~ (WriteCommit \/ ReplayCommit)
  <2>1. sample' = sample
    BY <1>5 DEF Next, Source, SourceChange, Notify, MaxTimeRead, Reconnect,
       Forwarder, CollectOne, CollectDone, WriteAck, WriteFail, ConnectOk,
       ConnectFail, ReplayAck, ReplayFail, LossCommit, LossAck, LossFail, Process, Start,
       StartTasks, StartFail, Stop, Flush, Kill, Archive, ArchiveDown, ArchiveUp,
       ConnectionLost, vars
  <2>2. CASE Kill
    <3>1. killed' = killed \cup InMemory /\ phase # "down" /\ phase' = "down" /\ run' = run
      BY <2>2 DEF Kill, Gone, InMemory
    <3>2. killed = {} /\ run # 0
      BY <1>1, <3>1 DEF HolesInv, KilledLast, Numbered
    <3>3. NewTo(sample, InMemory)
      BY <1>1 DEF OrderInv, NewTo, Pending
    <3>4. KilledLast'
      BY <2>1, <3>1, <3>2, <3>3 DEF KilledLast, NewTo
    <3> QED BY <1>2, <1>3, <2>1, <3>4 DEF HolesInv
  <2>3. CASE ~ Kill
    <3>1. killed' = killed
      BY <1>5, <2>3 DEF Next, Source, SourceChange, Notify, MaxTimeRead, Reconnect,
         Forwarder, CollectOne, CollectDone, WriteAck, WriteFail, ConnectOk,
         ConnectFail, ReplayAck, ReplayFail, LossCommit, LossAck, LossFail, Process, Start,
         StartTasks, StartFail, Stop, Flush, Archive, ArchiveDown, ArchiveUp,
         ConnectionLost, vars
    <3>2. ASSUME killed # {} PROVE phase' = "down" /\ run' # 0
      <4>1. phase = "down" /\ run # 0 /\ pc = "off" /\ run \in Nat
        BY <1>1, <3>2 DEF HolesInv, KilledLast, Numbered, TypeInv, TypeOK
      <4>2. ~ Start
        BY <4>1, BoundsAssumption DEF Start
      <4> QED BY <1>5, <2>3, <4>1, <4>2
         DEF Next, Source, SourceChange, Notify, MaxTimeRead, Reconnect,
         Forwarder, CollectOne, CollectDone, WriteAck, WriteFail, ConnectOk,
         ConnectFail, ReplayAck, ReplayFail, LossCommit, LossAck, LossFail, Process,
         StartTasks, StartFail, Stop, Flush, Archive, ArchiveDown, ArchiveUp,
         ConnectionLost, vars
    <3>3. KilledLast'
      BY <2>1, <3>1, <3>2 DEF HolesInv, KilledLast
    <3> QED BY <1>2, <1>3, <2>1, <3>3 DEF HolesInv
  <2> QED BY <2>2, <2>3
<1> QED BY <1>4, <1>5

\* A number inside a hole is on a record that reaches into it, unless a stop
\* dropped its sample: the sample neither waits nor was killed, for those come
\* after what is archived, so the bound discarded it.
LEMMA MissingRecorded ==
  ASSUME GapsContext, LedgerInv, HolesInv, NEW a, NEW b, <<a, b>> \in Gaps,
         \A s \in dropped : ~ Inside(s, <<a, b>>),
         NEW n \in a.seq + 1 .. b.seq - 1
  PROVE  \E l \in Reaching(a, b) : n \in l.firstSeq .. l.lastSeq
<1>1. TypeInv /\ CustodyInv /\ MemoryInv /\ OrderInv /\ Numbered
  BY DEF GapsContext
<1>2. /\ a \in sample /\ b \in sample /\ a.tag = b.tag /\ b.seq - a.seq > 1
      /\ ~ \E c \in sample : c.run = a.run /\ c.tag = a.tag /\ a.seq < c.seq /\ c.seq < b.seq
  BY DEF Gaps
<1>3. a \in admitted /\ b \in admitted
  BY <1>2 DEF HolesInv
<1>4. a.seq \in Nat /\ b.seq \in Nat /\ b.ts \in Nat
  BY <1>1, <1>3, PendingType
<1>5. n \in 1 .. b.seq /\ a.seq < n /\ n < b.seq /\ n \in Nat
  BY <1>4
<1>6. PICK s \in admitted : s.tag = b.tag /\ s.seq = n
  BY <1>3, <1>5 DEF HolesInv, Complete
<1>7. s.run = run /\ a.run = run /\ b.run = run
  BY <1>1, <1>3 DEF Numbered
<1>8. s \notin sample /\ s \notin dropped
  BY <1>2, <1>5, <1>6, <1>7 DEF Inside
<1>9. s.ts < b.ts /\ s.ts \in Nat
  BY <1>1, <1>3, <1>5, <1>6, PendingType DEF Numbered
<1>10. Key(s) \notin Keys(sample)
  <2> SUFFICES ASSUME NEW x \in sample, Key(x) = Key(s) PROVE FALSE
    BY DEF Keys
  <2>1. x = s
    BY <1>1, <1>6, KeyIsSamples DEF HolesInv
  <2> QED BY <1>8, <2>1
<1>11. s \notin Pending /\ s \notin killed
  <2>1. \A y \in Pending \cup killed : y.tag = b.tag => Key(y) \in Keys(sample) \/ b.ts < y.ts
    BY <1>1, <1>2 DEF OrderInv, HolesInv, KilledLast, NewTo
  <2>2. ~ (b.ts < s.ts)
    BY <1>4, <1>9
  <2> QED BY <1>6, <1>10, <2>1, <2>2
<1>12. s \in discarded
  <2>1. Key(s) \in Keys(Held(buffered)) \cup Keys(discarded)
    BY <1>1, <1>6, <1>8, <1>10, <1>11 DEF CustodyInv, EverySampleAccounted, Pending
  <2>2. PICK x \in Held(buffered) \cup discarded : Key(x) = Key(s)
    BY <2>1 DEF Keys
  <2>3. x \in admitted
    BY DEF LedgerInv, InLine, Pending
  <2>4. x = s
    BY <1>1, <1>6, <2>2, <2>3, KeyIsSamples
  <2> QED BY <1>11, <2>4 DEF Pending
<1>13. PICK l \in Ledger : Covers(l, s)
  BY <1>12 DEF LedgerInv, LedgerExact
<1>14. l.run = a.run /\ l.tag = a.tag /\ n \in l.firstSeq .. l.lastSeq
  BY <1>2, <1>6, <1>7, <1>13 DEF Covers
<1>15. l.firstSeq \in Nat /\ l.lastSeq \in Nat
  BY <1>1, <1>13, PendingType
<1>16. l.firstSeq <= b.seq - 1 /\ l.lastSeq >= a.seq + 1
  BY <1>4, <1>5, <1>14, <1>15
<1> QED BY <1>13, <1>14, <1>16 DEF Reaching

\* The larger and the smaller of two.
LEMMA OfTwo ==
  ASSUME NEW i \in Nat, NEW c \in Nat
  PROVE  /\ \E x \in Nat : x \in {i, c} /\ x = Max({i, c}) /\ x >= i /\ x >= c
         /\ \E x \in Nat : x \in {i, c} /\ x = Min({i, c}) /\ x <= i /\ x <= c
<1> DEFINE A == {i, c}
<1>1. A \subseteq Nat /\ A # {} /\ i \in A /\ c \in A
  OBVIOUS
<1>2. IsFiniteSet(A)
  <2>1. IsFiniteSet({i}) /\ A = {i} \cup {c}
    BY FS_Singleton
  <2> QED BY <2>1, FS_AddElement
<1> HIDE DEF A
<1>3. Max(A) \in A /\ Max(A) >= i /\ Max(A) >= c
  BY <1>1, <1>2, MaxIsGreatest
<1>4. Min(A) \in A /\ Min(A) <= i /\ Min(A) <= c
  BY <1>1, MinIsLeast
<1>5. /\ \E x \in Nat : x \in A /\ x = Max(A) /\ x >= i /\ x >= c
      /\ \E x \in Nat : x \in A /\ x = Min(A) /\ x <= i /\ x <= c
  BY <1>1, <1>3, <1>4
<1> QED BY <1>5 DEF A

LEMMA HoleCounted ==
  ASSUME GapsContext, LedgerInv, HolesInv, NEW a, NEW b, <<a, b>> \in Gaps,
         \A s \in dropped : ~ Inside(s, <<a, b>>)
  PROVE  Missing(a, b) <= RecordedAsLost(a, b) /\ RecordedAsLost(a, b) \in Nat
<1>1. TypeInv
  BY DEF GapsContext
<1>2. a \in admitted /\ b \in admitted /\ b.seq - a.seq > 1
  BY DEF Gaps, HolesInv
<1>3. PICK c \in Nat : c = a.seq + 1
  BY <1>1, <1>2, PendingType
<1>4. PICK d \in Nat : d = b.seq - 1
  BY <1>1, <1>2, PendingType
<1>5. c <= d /\ Missing(a, b) = d - c + 1
  BY <1>1, <1>2, <1>3, <1>4, PendingType DEF Missing
<1> DEFINE S == Reaching(a, b)
           f == [l \in S |-> Min({l.lastSeq, d}) - Max({l.firstSeq, c}) + 1]
           p == [l \in S |-> (l.firstSeq .. l.lastSeq) \cap (c .. d)]
<1>6. IsFiniteSet(S)
  <2>1. IsFiniteSet(Ledger)
    BY FS_Union DEF HolesInv, Ledger
  <2>2. S \in SUBSET Ledger
    BY DEF Reaching
  <2> HIDE DEF S
  <2> QED BY <2>1, <2>2, FS_Subset
<1>7. ASSUME NEW l \in S
      PROVE  f[l] \in Nat /\ IsFiniteSet(p[l]) /\ Cardinality(p[l]) <= f[l]
  <2>1. PICK i \in Nat : i = l.firstSeq
    BY <1>1, PendingType DEF Reaching
  <2>2. PICK j \in Nat : j = l.lastSeq
    BY <1>1, PendingType DEF Reaching
  <2>3. i <= d /\ j >= c
    BY <1>3, <1>4, <2>1, <2>2 DEF Reaching
  <2>4. i <= j
    <3>1. PICK s \in discarded : s.seq \in l.firstSeq .. l.lastSeq
      BY DEF Reaching, LedgerInv, OnLedger, Covers
    <3>2. s.seq \in Nat
      BY <1>1, PendingType
    <3> QED BY <2>1, <2>2, <3>1, <3>2
  <2>5. PICK x \in Nat : x \in {i, c} /\ x = Max({i, c}) /\ x >= i /\ x >= c
    BY OfTwo
  <2>6. PICK y \in Nat : y \in {j, d} /\ y = Min({j, d}) /\ y <= j /\ y <= d
    BY OfTwo
  <2>7. x <= y /\ \A n \in Int : n \in i .. j /\ n \in c .. d <=> n \in x .. y
    <3>1. (x = i \/ x = c) /\ x >= i /\ x >= c /\ (y = j \/ y = d) /\ y <= j /\ y <= d
      BY <2>5, <2>6
    <3>2. i <= j /\ c <= d /\ i <= d /\ c <= j
      BY <1>5, <2>3, <2>4
    <3>3. x <= y
      BY <3>1, <3>2
    <3>4. ASSUME NEW n \in Int PROVE n \in i .. j /\ n \in c .. d <=> n \in x .. y
      BY <3>1
    <3> QED BY <3>3, <3>4
  <2>8. /\ f[l] = y - x + 1
        /\ p[l] = x .. y /\ x <= y
    <3>1. f[l] = y - x + 1
      BY <2>1, <2>2, <2>5, <2>6
    <3>2. p[l] = (i .. j) \cap (c .. d)
      BY <2>1, <2>2
    <3>3. (i .. j) \cap (c .. d) = x .. y
      BY <2>7
    <3> QED BY <2>7, <3>1, <3>2, <3>3
  <2>9. IsFiniteSet(x .. y) /\ Cardinality(x .. y) = y - x + 1
    <3>1. x \in Int /\ y \in Int /\ x <= y
      BY <2>7
    <3> QED BY <3>1, FS_Interval
  <2>10. y - x + 1 \in Nat
    BY <2>7
  <2> HIDE DEF f, p
  <2> QED BY <2>8, <2>9, <2>10
<1>8. f \in [S -> Nat]
  BY <1>7
<1>9. c .. d \subseteq UNION {p[l] : l \in S}
  <2> SUFFICES ASSUME NEW n \in c .. d PROVE \E l \in S : n \in p[l]
    OBVIOUS
  <2>1. n \in a.seq + 1 .. b.seq - 1
    BY <1>3, <1>4
  <2>2. PICK l \in Reaching(a, b) : n \in l.firstSeq .. l.lastSeq
    BY <2>1, MissingRecorded
  <2> QED BY <2>2
<1>10. RecordedAsLost(a, b) = SumFunction(f)
  <2>1. f = [l \in Reaching(a, b) |->
               Min({l.lastSeq, b.seq - 1}) - Max({l.firstSeq, a.seq + 1}) + 1]
    BY <1>3, <1>4
  <2> HIDE DEF f
  <2> QED BY <2>1 DEF RecordedAsLost
<1>11. PICK U : U = UNION {p[l] : l \in S}
  OBVIOUS
<1>12. IsFiniteSet(U) /\ Cardinality(U) <= SumFunction(f) /\ SumFunction(f) \in Nat
  <2>1. \A l \in S : IsFiniteSet(p[l]) /\ Cardinality(p[l]) <= f[l]
    BY <1>7
  <2> HIDE DEF S, f, p
  <2> QED BY <1>6, <1>8, <1>11, <2>1, CoverBound, SumIsNat
<1>13. Cardinality(c .. d) = d - c + 1
  BY <1>5, FS_Interval
<1>14. Cardinality(c .. d) <= Cardinality(U) /\ Cardinality(U) \in Nat
  <2>1. c .. d \in SUBSET U
    BY <1>9, <1>11
  <2> QED BY <1>12, <2>1, FS_Subset, FS_CardinalityType
<1> HIDE DEF f
<1> QED BY <1>5, <1>10, <1>12, <1>13, <1>14

\* In one life of the process every hole in the archive's numbers is explained:
\* the records that reach into it hold at least as many numbers as it lacks, for
\* as long as no stop dropped one of them (view sample_seq_gap; pipeline.py and
\* buffer.py, who number the samples and record the discarded ranges), at every
\* moment of an outage, an overflow, a recovery, a drain or a kill.
THEOREM HolesExplained ==
  ASSUME MaxRuns <= 1, ~ ReadsOvertake
  PROVE  Spec => []HolesAreExplained
<1> DEFINE All == GapsContext /\ LedgerInv /\ HolesInv
<1>1. Init => All
  <2>1. Init => DrainInv /\ UniqueInv
    BY DEF Init, DrainInv, UniqueInv, UniqueKeys, UniqueRows
  <2> QED BY <2>1, TypeInit, CustodyInit, MemoryInit, OrderInit, NumberedInit,
             LedgerInit, HolesInit DEF GapsContext
<1>2. All /\ [Next]_vars => All'
  <2> SUFFICES ASSUME All, [Next]_vars PROVE All'
    OBVIOUS
  <2>1. LedgerInv' /\ HolesInv'
    BY LedgerNext, HolesNext
  <2>2. GapsContext'
    BY TypeNext, DrainNext, CustodyNext, UniqueNext, MemoryNext, OrderNext,
       NumberedNext DEF GapsContext
  <2> QED BY <2>1, <2>2
<1>3. All => HolesAreExplained
  <2> SUFFICES ASSUME All, NEW g \in Gaps, \A s \in dropped : ~ Inside(s, g)
               PROVE  Missing(g[1], g[2]) <= HeldByOtherRuns(g[1], g[2])
                                             + RecordedAsLost(g[1], g[2])
    BY DEF HolesAreExplained
  <2>1. PICK a \in sample, b \in sample : g = <<a, b>>
    BY DEF Gaps
  <2>2. Missing(a, b) <= RecordedAsLost(a, b) /\ RecordedAsLost(a, b) \in Nat
    BY <2>1, HoleCounted
  <2>3. HeldByOtherRuns(a, b) = 0
    <3>1. \A x \in sample : x.run = run
      BY DEF HolesInv, GapsContext, Numbered
    <3>2. {x \in sample : x.tag = a.tag /\ x.run # a.run /\ a.ts < x.ts /\ x.ts < b.ts} = {}
      BY <3>1
    <3> QED BY <3>2, FS_EmptySet DEF HeldByOtherRuns
  <2>4. Missing(a, b) \in Int
    <3>1. a.seq \in Nat /\ b.seq \in Nat
      BY PendingType DEF HolesInv, GapsContext
    <3> QED BY <3>1 DEF Missing
  <2>5. Missing(a, b) <= HeldByOtherRuns(a, b) + RecordedAsLost(a, b)
    BY <2>2, <2>3, <2>4
  <2> QED BY <2>1, <2>5
<1> HIDE DEF All
<1> QED BY <1>1, <1>2, <1>3, PTL DEF Spec
=============================================================================
