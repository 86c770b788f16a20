---------------------------- MODULE IngressProofs ----------------------------
(***************************************************************************)
(* Theorems about Ingress and the event stream, for every set of settings,  *)
(* tags, groups and subscribers and every size of the queues; and, of an     *)
(* instance of it, about Compression, which the samples reach next.          *)
(*                                                                         *)
(*   MessagesAccounted   Spec => []EveryMessageAccounted, if OneTrouble     *)
(*   OldestDropped       Spec => []OnlyTheOldestDropped                     *)
(*   NothingSpecialIsLost      Comp!Spec => []Comp!MustKeep                 *)
(*   SteadyTagsKeepReporting   Comp!Spec => []Comp!NoLongGap                *)
(*   ArchiveReconstructs       Comp!Spec => []Comp!ReconstructsWithinCompDev *)
(*                                                                         *)
(* The watch over the numbers works because what is on the way stands in    *)
(* order behind what was heard of (Numbered), and because a number that is   *)
(* remembered is not taken for that of a later one (NoneAgain, AllForgotten). *)
(***************************************************************************)
EXTENDS Ingress, Extrema, SequenceTheorems

-----------------------------------------------------------------------------
(* The invariant.                                                          *)

Marks == {"noSource", "noStatus", "text", "noServer"}
Messages == [id : Nat, number : Nat, keep : BOOLEAN, value : SUBSET Marks, again : BOOLEAN]
Live == DOMAIN server.subs

Typed ==
  /\ setting \in Setting
  /\ DOMAIN server = {"ids", "nodes", "subs"} /\ server.ids \in Nat
  /\ \A id \in Live : /\ DOMAIN server.subs[id] = {"tags", "next"}
                      /\ server.subs[id].next \in 1 .. setting.data + 1
  /\ wire \in Seq(Messages)
  /\ \A i \in DOMAIN wire : /\ wire[i].number \in 1 .. setting.data + 1
                            /\ wire[i].id \in 1 .. server.ids
  /\ link \in BOOLEAN
  /\ DOMAIN session = {"phase", "subs", "opening", "groups", "forgot"}
  /\ session.phase \in {"off", "connecting", "on", "closing"}
  /\ session.subs \in Seq(Nat) /\ session.opening \subseteq Nat /\ session.forgot \in BOOLEAN
  /\ counts \in [DOMAIN NoCounts -> Nat] /\ counts.gaps <= counts.missed
  /\ DOMAIN heard = {"of", "past", "repeats", "stray", "reused"} /\ heard.past \in Nat /\ heard.repeats \in Nat

\* The subscriptions that the session holds, with the one that it is making, are
\* those of the source, as long as the connection works, and each has an id of
\* its own.
Held ==
  /\ \A i, j \in DOMAIN session.subs : session.subs[i] = session.subs[j] => i = j
  /\ session.opening \cap Range(session.subs) = {} /\ \A a, b \in session.opening : a = b
  /\ session.phase = "off" => session.subs = <<>> /\ session.opening = {} /\ ~ link
  /\ session.forgot => session.phase = "closing" /\ session.subs # <<>>
  /\ Live = IF link THEN Range(session.subs) \cup session.opening ELSE {}
  /\ link => Range(session.subs) \cup session.opening \subseteq 1 .. server.ids
  /\ ~ link => wire = <<>>

\* What was heard of is what the watch remembers.
Watched ==
  /\ IsFiniteSet(DOMAIN last) /\ DOMAIN last \subseteq Nat /\ DOMAIN heard.of = DOMAIN last
  /\ \A id \in DOMAIN last :
       /\ last[id] \in Nat
       /\ DOMAIN heard.of[id] = {"from", "to", "got"}
       /\ heard.of[id].to = last[id]
       /\ heard.of[id].from \in Nat /\ heard.of[id].from <= last[id] + 1
       /\ heard.of[id].got \subseteq 1 .. last[id]

\* A message on the way of a subscription that exists: a repeated one is known,
\* any other is not.
Fits(m) ==
  IF m.again THEN ~ m.keep /\ m.id \in DOMAIN last /\ m.number <= last[m.id]
  ELSE IF m.keep THEN m.number <= server.subs[m.id].next
  ELSE m.number < server.subs[m.id].next /\ (m.id \in DOMAIN last => last[m.id] < m.number)

\* m is on the way ahead of o.
InOrder(m, o) ==
  m.id = o.id /\ m.id \in Live /\ ~ m.again /\ ~ o.again /\ ~ o.keep =>
    m.number <= o.number /\ (~ m.keep => m.number # o.number)

Numbered ==
  /\ \A id \in (DOMAIN last) \cap Live : last[id] < server.subs[id].next
  /\ \A i \in DOMAIN wire : wire[i].id \in Live => Fits(wire[i])
  /\ \A i, j \in DOMAIN wire : i < j => InOrder(wire[i], wire[j])

\* No number is remembered for an id that will be given again: ids are not given
\* again, or every subscription is forgotten before the next ones are made, but
\* those that the session never came to hold.
NoneAgain ==
  /\ setting.restart = 0 /\ setting.repeat = 0
  /\ DOMAIN last \subseteq 1 .. server.ids
  /\ \A i \in DOMAIN wire : ~ wire[i].again
AllForgotten ==
  /\ setting.halfway = 0
  /\ session.phase = "closing" => ~ link
  /\ DOMAIN last \subseteq Range(session.subs) \cup session.opening \cup heard.stray
  /\ session.forgot => Head(session.subs) \notin DOMAIN last

Balanced ==
  counts.samples + counts.noSource + counts.noStatus + counts.text + counts.missed = Due(heard) + heard.repeats

\* As long as the source has given none of those ids again.
IInv == Typed /\ Held /\ Watched /\ Numbered /\ (NoneAgain \/ AllForgotten) /\ Balanced

Accounted ==
  /\ DOMAIN heard = {"of", "past", "repeats", "stray", "reused"}
  /\ heard.reused \/ IInv

\* Of the troubles that a behaviour may contain: connect does not fail halfway
\* in one where the source also restarts, and counts its ids from 1, or repeats.
OneTrouble == \A s \in Settings : s.halfway = 0 \/ (s.restart = 0 /\ s.repeat = 0)

-----------------------------------------------------------------------------
(* Functions with a changing domain, and what is due for a history.         *)

\* What Append makes, by any name.
LEMMA Lengthened ==
  ASSUME NEW S, NEW q \in Seq(S), NEW x \in S, NEW r, r = Append(q, x)
  PROVE  /\ r \in Seq(S) /\ Len(r) = Len(q) + 1
         /\ \A i \in 1 .. Len(q) : r[i] = q[i]
         /\ r[Len(q) + 1] = x
BY AppendProperties

\* A history that can be added up.
History(h) ==
  /\ DOMAIN h = {"of", "past", "repeats", "stray", "reused"} /\ h.past \in Nat /\ h.repeats \in Nat
  /\ IsFiniteSet(DOMAIN h.of)
  /\ \A id \in DOMAIN h.of : /\ h.of[id].from \in Nat /\ h.of[id].to \in Nat
                             /\ h.of[id].from <= h.of[id].to + 1

Of(h) == [id \in DOMAIN h.of |-> Known(h, id)]

LEMMA KnownIsNat ==
  ASSUME NEW h, History(h)
  PROVE  /\ \A id : Known(h, id) \in Nat
         /\ Of(h) \in [DOMAIN h.of -> Nat]
         /\ Due(h) \in Nat
<1>1. ASSUME NEW id PROVE Known(h, id) \in Nat
  <2>1. CASE id \in DOMAIN h.of
    <3>1. h.of[id].from \in Nat /\ h.of[id].to \in Nat /\ h.of[id].from <= h.of[id].to + 1
      BY <2>1 DEF History
    <3> QED BY <2>1, <3>1 DEF Known
  <2>2. CASE id \notin DOMAIN h.of
    BY <2>2 DEF Known
  <2> QED BY <2>1, <2>2
<1>2. Of(h) \in [DOMAIN h.of -> Nat]
  BY <1>1 DEF Of
<1>3. SumFunction(Of(h)) \in Nat
  BY <1>2, SumIsNat DEF History
<1> QED BY <1>1, <1>2, <1>3 DEF Due, Of, History

\* A history where more is known of one subscription.
LEMMA DueOfPut ==
  ASSUME NEW h, History(h), NEW id, NEW r, r.from \in Nat, r.to \in Nat, r.from <= r.to + 1,
         NEW k, k = [h EXCEPT !.of = Put(@, id, r)]
  PROVE  /\ History(k)
         /\ Due(k) + Known(h, id) = Due(h) + (r.to - r.from + 1)
<1>1. k.of = Put(h.of, id, r) /\ k.past = h.past /\ k.repeats = h.repeats
      /\ DOMAIN k = {"of", "past", "repeats", "stray", "reused"}
  BY DEF History
<1> DEFINE D == DOMAIN h.of
           R == D \ {id}
           E == D \cup {id}
           rest == [i \in R |-> Known(h, i)]
<1>2. /\ DOMAIN k.of = E /\ k.of[id] = r
      /\ \A j \in R : k.of[j] = h.of[j]
  BY <1>1 DEF Put
<1>3. IsFiniteSet(D) /\ IsFiniteSet(E) /\ IsFiniteSet(R)
  BY FS_AddElement, FS_RemoveElement DEF History
<1>4. History(k)
  <2>1. \A j \in E : k.of[j].from \in Nat /\ k.of[j].to \in Nat /\ k.of[j].from <= k.of[j].to + 1
    BY <1>2 DEF History
  <2> QED BY <1>1, <1>2, <1>3, <2>1 DEF History
<1>5. /\ Of(k) \in [E -> Nat] /\ Of(h) \in [D -> Nat] /\ Known(h, id) \in Nat
      /\ \A j \in R : Known(k, j) = Known(h, j)
      /\ Known(k, id) = r.to - r.from + 1
  <2>1. Of(k) \in [E -> Nat]
    BY <1>2, <1>4, KnownIsNat
  <2>2. Of(h) \in [D -> Nat] /\ Known(h, id) \in Nat
    BY KnownIsNat
  <2>3. \A j \in R : Known(k, j) = Known(h, j)
    BY <1>2 DEF Known
  <2>4. Known(k, id) = r.to - r.from + 1
    BY <1>2 DEF Known
  <2> QED BY <2>1, <2>2, <2>3, <2>4
<1>6. /\ rest \in [R -> Nat] /\ SumFunction(rest) \in Nat
  <2>1. rest \in [R -> Nat]
    BY KnownIsNat
  <2> HIDE DEF rest, R
  <2> QED BY <1>3, <2>1, SumIsNat
<1>7. SumFunction(Of(k)) = Known(k, id) + SumFunction(rest)
  <2>1. id \in E /\ E \ {id} = R
    OBVIOUS
  <2>2. Of(k)[id] = Known(k, id) /\ [i \in R |-> Of(k)[i]] = rest
    BY <1>2, <1>5 DEF Of
  <2> HIDE DEF E, R, rest
  <2>3. SumFunction(Of(k)) = Of(k)[id] + SumFunction([i \in E \ {id} |-> Of(k)[i]])
    <3>1. PICK f : f = Of(k)
      OBVIOUS
    <3>0. f \in [E -> Nat]
      BY <1>5, <3>1
    <3>2. SumFunction(f) = f[id] + SumFunction([i \in E \ {id} |-> f[i]])
      BY <1>3, <2>1, <3>0, SumWithout
    <3> QED BY <3>1, <3>2
  <2> QED BY <2>1, <2>2, <2>3
<1>8. SumFunction(Of(h)) = Known(h, id) + SumFunction(rest)
  <2>1. CASE id \in D
    <3>1. Of(h)[id] = Known(h, id) /\ [i \in R |-> Of(h)[i]] = rest
      BY <2>1 DEF Of
    <3>2. SumFunction(Of(h)) = Of(h)[id] + SumFunction([i \in D \ {id} |-> Of(h)[i]])
      <4> HIDE DEF D, rest
      <4> QED BY <1>3, <1>5, <2>1, SumWithout
    <3> QED BY <3>1, <3>2
  <2>2. CASE id \notin D
    <3>1. Known(h, id) = 0 /\ Of(h) = rest
      BY <2>2 DEF Known, Of
    <3> HIDE DEF rest
    <3> QED BY <1>6, <3>1
  <2> QED BY <2>1, <2>2
<1>9. Due(k) = h.past + (Known(k, id) + SumFunction(rest)) /\ Due(h) = h.past + (Known(h, id) + SumFunction(rest))
  BY <1>1, <1>7, <1>8 DEF Due, Of
<1> HIDE DEF rest, R, E, D
<1>10. h.past \in Nat
  BY DEF History
<1> QED BY <1>4, <1>5, <1>6, <1>9, <1>10

\* A subscription that ends leaves what was known of it in the past.
LEMMA DueOfEnded ==
  ASSUME NEW h, History(h), NEW id
  PROVE  /\ History(Ended(h, id))
         /\ Due(Ended(h, id)) = Due(h)
         /\ Ended(h, id).of = Without(h.of, id)
         /\ Ended(h, id).repeats = h.repeats
<1> DEFINE k == Ended(h, id)
           D == DOMAIN h.of
           R == D \ {id}
           rest == [i \in R |-> Known(h, i)]
<1>1. /\ k.of = Without(h.of, id) /\ k.past = h.past + Known(h, id) /\ k.repeats = h.repeats
      /\ DOMAIN k = {"of", "past", "repeats", "stray", "reused"}
  BY DEF History, Ended
<1>2. DOMAIN k.of = R /\ \A j \in R : k.of[j] = h.of[j]
  BY <1>1 DEF Without, Restrict
<1> HIDE DEF k
<1>3. IsFiniteSet(D) /\ IsFiniteSet(R) /\ Known(h, id) \in Nat /\ h.past \in Nat
  BY FS_RemoveElement, KnownIsNat DEF History
<1>4. History(k)
  <2>1. \A j \in R : k.of[j].from \in Nat /\ k.of[j].to \in Nat /\ k.of[j].from <= k.of[j].to + 1
    BY <1>2 DEF History
  <2>2. k.past \in Nat /\ k.repeats \in Nat
    BY <1>1, <1>3 DEF History
  <2> QED BY <1>1, <1>2, <1>3, <2>1, <2>2 DEF History
<1>5. rest \in [R -> Nat] /\ Of(h) \in [D -> Nat]
  BY KnownIsNat
<1>6. Of(k) = rest
  BY <1>2 DEF Of, Known
<1>7. SumFunction(Of(h)) = Known(h, id) + SumFunction(rest)
  <2>1. CASE id \in D
    <3>1. Of(h)[id] = Known(h, id) /\ [i \in R |-> Of(h)[i]] = rest
      BY <2>1 DEF Of
    <3>2. SumFunction(Of(h)) = Of(h)[id] + SumFunction([i \in D \ {id} |-> Of(h)[i]])
      <4> HIDE DEF D, rest
      <4> QED BY <1>3, <1>5, <2>1, SumWithout
    <3> QED BY <3>1, <3>2
  <2>2. CASE id \notin D
    <3>1. Known(h, id) = 0 /\ Of(h) = rest
      BY <2>2 DEF Known, Of
    <3>2. SumFunction(rest) \in Nat
      <4> HIDE DEF rest, R
      <4> QED BY <1>3, <1>5, SumIsNat
    <3> HIDE DEF rest
    <3> QED BY <3>1, <3>2
  <2> QED BY <2>1, <2>2
<1>8. SumFunction(rest) \in Nat
  <2> HIDE DEF rest, R
  <2> QED BY <1>3, <1>5, SumIsNat
<1>9. Due(k) = k.past + SumFunction(rest) /\ Due(h) = h.past + SumFunction(Of(h))
  BY <1>6 DEF Due, Of
<1> HIDE DEF rest
<1>10. Due(k) = Due(h)
  BY <1>1, <1>3, <1>7, <1>8, <1>9
<1> QED BY <1>1, <1>4, <1>10 DEF k

-----------------------------------------------------------------------------
(* Messages on the way, and budgets.                                        *)

\* v is w with messages left out.
LeftOf(v, w) ==
  /\ v \in Seq(Messages)
  /\ \E e : /\ \A j \in DOMAIN v : e[j] \in DOMAIN w /\ v[j] = w[e[j]]
            /\ \A i, j \in DOMAIN v : i < j => e[i] < e[j]

LEMMA SeqDomain ==
  ASSUME NEW S, NEW w \in Seq(S)
  PROVE  /\ DOMAIN w = 1 .. Len(w) /\ Len(w) \in Nat
         /\ \A i \in DOMAIN w : w[i] \in S
  BY LenProperties, ElementOfSeq

LEMMA TailFacts ==
  ASSUME NEW S, NEW w \in Seq(S), w # <<>>
  PROVE  /\ Head(w) = w[1] /\ Head(w) \in S /\ 1 \in DOMAIN w
         /\ Tail(w) \in Seq(S)
         /\ \A j \in DOMAIN Tail(w) : j + 1 \in DOMAIN w /\ Tail(w)[j] = w[j + 1] /\ j \in Nat \ {0}
<1>1. /\ Head(w) \in S /\ Tail(w) \in Seq(S)
      /\ Len(Tail(w)) = Len(w) - 1
      /\ \A i \in 1 .. Len(Tail(w)) : Tail(w)[i] = w[i + 1]
  BY HeadTailProperties
<1>2. DOMAIN w = 1 .. Len(w) /\ DOMAIN Tail(w) = 1 .. Len(Tail(w)) /\ Len(w) \in Nat
  BY <1>1, LenProperties
<1>3. Len(w) # 0
  BY EmptySeq
<1>4. Head(w) = w[1]
  BY <1>3
<1> QED BY <1>1, <1>2, <1>3, <1>4

LEMMA AppendFacts ==
  ASSUME NEW S, NEW w \in Seq(S), NEW m \in S
  PROVE  /\ Append(w, m) \in Seq(S)
         /\ \A j \in DOMAIN Append(w, m) :
              \/ j \in DOMAIN w /\ j <= Len(w) /\ Append(w, m)[j] = w[j]
              \/ j = Len(w) + 1 /\ Append(w, m)[j] = m
<1>1. /\ Append(w, m) \in Seq(S)
      /\ Len(Append(w, m)) = Len(w) + 1
      /\ \A i \in 1 .. Len(w) : Append(w, m)[i] = w[i]
      /\ Append(w, m)[Len(w) + 1] = m
  BY AppendProperties
<1>2. /\ DOMAIN Append(w, m) = 1 .. (Len(w) + 1)
      /\ DOMAIN w = 1 .. Len(w) /\ Len(w) \in Nat
  BY <1>1, LenProperties
<1> QED BY <1>1, <1>2

LEMMA TailIsLeft ==
  ASSUME NEW w \in Seq(Messages), w # <<>>
  PROVE  LeftOf(Tail(w), w)
<1> DEFINE e == [j \in DOMAIN Tail(w) |-> j + 1]
<1>1. /\ Tail(w) \in Seq(Messages)
      /\ \A j \in DOMAIN Tail(w) : j + 1 \in DOMAIN w /\ Tail(w)[j] = w[j + 1] /\ j \in Nat \ {0}
  BY TailFacts
<1>2. /\ \A j \in DOMAIN Tail(w) : e[j] \in DOMAIN w /\ Tail(w)[j] = w[e[j]]
      /\ \A i, j \in DOMAIN Tail(w) : i < j => e[i] < e[j]
  BY <1>1
<1> HIDE DEF e
<1> QED BY <1>1, <1>2 DEF LeftOf

LEMMA RemovedIsLeft ==
  ASSUME NEW w \in Seq(Messages), NEW i \in DOMAIN w
  PROVE  LeftOf(RemoveAt(w, i), w)
<1> DEFINE n == Len(w)
           k == i - 1
           l == i + 1
           a == SubSeq(w, 1, k)
           b == SubSeq(w, l, n)
           v == RemoveAt(w, i)
           e == [j \in DOMAIN v |-> IF j < i THEN j ELSE j + 1]
<1>1. n \in Nat /\ DOMAIN w = 1 .. n /\ i \in 1 .. n /\ i \in Nat
  BY SeqDomain
<1>a. k \in Int /\ l \in Int /\ n \in Int /\ k = i - 1 /\ l = i + 1 /\ 1 \in Int
  BY <1>1
<1> HIDE DEF n, k, l
<1>2. /\ a \in Seq(Messages) /\ Len(a) = i - 1 /\ \A j \in 1 .. i - 1 : a[j] = w[j]
  <2>1. \A j \in 1 .. k : w[j] \in Messages
    BY <1>1, <1>a, SeqDomain
  <2>2. a \in Seq(Messages) /\ Len(a) = (IF 1 <= k THEN k - 1 + 1 ELSE 0)
        /\ \A j \in 1 .. k - 1 + 1 : a[j] = w[1 + j - 1]
    BY <1>a, <2>1, SubSeqProperties
  <2> HIDE DEF a
  <2> QED BY <1>1, <1>a, <2>2
<1>3. /\ b \in Seq(Messages) /\ Len(b) = n - i /\ \A j \in 1 .. n - i : b[j] = w[i + j]
  <2>1. \A j \in l .. n : w[j] \in Messages
    BY <1>1, <1>a, SeqDomain
  <2>2. b \in Seq(Messages) /\ Len(b) = (IF l <= n THEN n - l + 1 ELSE 0)
        /\ \A j \in 1 .. n - l + 1 : b[j] = w[l + j - 1]
    BY <1>a, <2>1, SubSeqProperties
  <2> HIDE DEF b
  <2>3. Len(b) = n - i
    BY <1>1, <1>a, <2>2
  <2>4. ASSUME NEW j \in 1 .. n - i PROVE b[j] = w[i + j]
    <3>1. j \in 1 .. n - l + 1 /\ l + j - 1 = i + j
      BY <1>1, <1>a
    <3> QED BY <2>2, <3>1
  <2> QED BY <2>2, <2>3, <2>4
<1>4. v = a \o b
  BY DEF RemoveAt, n, k, l
<1> HIDE DEF a, b, v
<1>5. /\ v \in Seq(Messages) /\ Len(v) = n - 1
      /\ \A j \in 1 .. Len(v) : v[j] = IF j < i THEN w[j] ELSE w[j + 1]
  <2>1. /\ v \in Seq(Messages) /\ Len(v) = Len(a) + Len(b)
        /\ \A j \in 1 .. Len(a) + Len(b) : v[j] = IF j <= Len(a) THEN a[j] ELSE b[j - Len(a)]
    BY <1>2, <1>3, <1>4, ConcatProperties
  <2>2. Len(v) = n - 1
    BY <1>1, <1>2, <1>3, <2>1
  <2>3. ASSUME NEW j \in 1 .. Len(v) PROVE v[j] = IF j < i THEN w[j] ELSE w[j + 1]
    <3>1. v[j] = IF j <= i - 1 THEN a[j] ELSE b[j - (i - 1)]
      BY <1>2, <2>1
    <3>2. CASE j < i
      <4>1. j <= i - 1 /\ j \in 1 .. i - 1
        BY <1>1, <3>2
      <4> QED BY <1>2, <3>1, <3>2, <4>1
    <3>3. CASE ~ (j < i)
      <4>1. ~ (j <= i - 1) /\ j - (i - 1) \in 1 .. n - i /\ i + (j - (i - 1)) = j + 1
        BY <1>1, <2>2, <3>3
      <4> QED BY <1>3, <3>1, <3>3, <4>1
    <3> QED BY <3>2, <3>3
  <2> QED BY <2>1, <2>2, <2>3
<1>6. DOMAIN v = 1 .. n - 1
  BY <1>5, LenProperties
<1>7. \A j \in DOMAIN v : e[j] \in DOMAIN w /\ v[j] = w[e[j]]
  BY <1>1, <1>5, <1>6
<1>8. \A j, h \in DOMAIN v : j < h => e[j] < e[h]
  BY <1>1, <1>6
<1> HIDE DEF e
<1>9. LeftOf(v, w)
  BY <1>5, <1>7, <1>8 DEF LeftOf
<1> QED BY <1>9 DEF v

\* What the budgets of a setting leave out stays out.
Milder ==
  /\ setting' \in Setting /\ setting'.data = setting.data
  /\ setting.restart = 0 => setting'.restart = 0
  /\ setting.repeat = 0 => setting'.repeat = 0
  /\ setting.halfway = 0 => setting'.halfway = 0

LEMMA SpentIsMilder ==
  ASSUME setting \in Setting, NEW what \in {"lose", "repeat", "cut", "restart", "halfway"},
         Budget(what), Spend(what)
  PROVE  Milder
<1>1. setting[what] \in Nat /\ setting[what] - 1 \in Nat
  BY DEF Setting, Budget
<1>2. setting' \in Setting /\ setting'.data = setting.data
  BY <1>1 DEF Setting, Spend
<1>3. \A x \in {"restart", "repeat", "halfway"} : setting[x] = 0 => setting'[x] = 0
  BY <1>1 DEF Setting, Spend, Budget
<1> QED BY <1>2, <1>3 DEF Milder

-----------------------------------------------------------------------------
(* A message is handled.                                                    *)

LEMMA MaxOfTwo ==
  ASSUME NEW a \in Nat, NEW b \in Nat
  PROVE  Max({a, b}) = IF a <= b THEN b ELSE a
<1>1. IsFiniteSet({a, b})
  <2>1. {a, b} = {a} \cup {b}
    OBVIOUS
  <2>2. IsFiniteSet({a})
    BY FS_Singleton
  <2>3. IsFiniteSet({a} \cup {b})
    BY <2>2, FS_AddElement
  <2> QED BY <2>1, <2>3
<1>2. {a, b} \subseteq Nat /\ {a, b} # {}
  OBVIOUS
<1>3. Max({a, b}) \in {a, b} /\ \A y \in {a, b} : Max({a, b}) >= y
  BY <1>1, <1>2, MaxIsGreatest
<1> QED BY <1>3

Seen(m) == IF m.keep THEN m.number - 1 ELSE m.number
Missed(m) == Observe(m.id, m.number, m.keep).missed
Arrived(m) == m \in Messages /\ m.number \in Nat \ {0} /\ m.id \in Live /\ Fits(m)

\* r is what is known of m's subscription once m is handled.
Learnt(m, r) ==
  /\ DOMAIN r = {"from", "to", "got"} /\ r.from \in Nat /\ r.to \in Nat
  /\ r.from <= r.to + 1 /\ r.got \subseteq 1 .. r.to
  /\ \/ m.id \in DOMAIN last /\ last[m.id] = r.to /\ Observe(m.id, m.number, m.keep).last = last
     \/ m.id \in DOMAIN last /\ last[m.id] < r.to /\ r.to = Seen(m)
        /\ Observe(m.id, m.number, m.keep).last = Put(last, m.id, r.to)
     \/ m.id \notin DOMAIN last /\ r.to = Seen(m)
        /\ Observe(m.id, m.number, m.keep).last = Put(last, m.id, r.to)
  /\ Seen(m) <= r.to /\ (~ m.keep => r.to = Seen(m))
  /\ Missed(m) \in Nat
  /\ Missed(m) + (IF m.keep THEN 0 ELSE 1) + Known(heard, m.id) = r.to - r.from + 1

LEMMA RepeatIsNoGap ==
  ASSUME Watched, NEW m, Arrived(m), m.again
  PROVE  /\ Observe(m.id, m.number, m.keep).last = last
         /\ Missed(m) = 0 /\ ~ m.keep
         /\ Told(heard, m) = [heard EXCEPT !.repeats = @ + 1]
<1>1. ~ m.keep /\ m.id \in DOMAIN last /\ m.number <= last[m.id]
  BY DEF Arrived, Fits
<1>2. Told(heard, m) = [heard EXCEPT !.repeats = @ + 1]
  BY DEF Told
<1> QED BY <1>1, <1>2 DEF Observe, Missed

LEMMA NewsIsLearnt ==
  ASSUME Watched, NEW m, Arrived(m), ~ m.again
  PROVE  \E r : Learnt(m, r) /\ Told(heard, m) = [heard EXCEPT !.of = Put(@, m.id, r)]
<1>1. /\ m.number \in Nat /\ m.number >= 1 /\ m.keep \in BOOLEAN
      /\ Seen(m) = IF m.keep THEN m.number - 1 ELSE m.number
      /\ Seen(m) \in Nat
  BY DEF Arrived, Messages, Seen
<1>2. CASE m.id \in DOMAIN last
  <2> DEFINE l == last[m.id]
             o == heard.of[m.id]
             r == [o EXCEPT !.to = Max({@, Seen(m)}), !.got = @ \cup IF m.keep THEN {} ELSE {Seen(m)}]
  <2>1. /\ l \in Nat /\ o.to = l /\ DOMAIN o = {"from", "to", "got"}
        /\ o.from \in Nat /\ o.from <= l + 1 /\ o.got \subseteq 1 .. l
        /\ m.id \in DOMAIN heard.of
    BY <1>2 DEF Watched
  <2>2. Told(heard, m) = [heard EXCEPT !.of = Put(@, m.id, r)]
    BY <2>1 DEF Told, Seen
  <2>3. /\ DOMAIN r = {"from", "to", "got"} /\ r.from = o.from
        /\ r.to = Max({l, Seen(m)})
        /\ r.got = o.got \cup IF m.keep THEN {} ELSE {Seen(m)}
    BY <2>1
  <2>4. Known(heard, m.id) = l - o.from + 1
    BY <2>1 DEF Known
  <2>5. r.to = IF l <= Seen(m) THEN Seen(m) ELSE l
    BY <1>1, <2>1, <2>3, MaxOfTwo
  <2>6. ~ m.keep => l < Seen(m)
    BY <1>1, <1>2 DEF Arrived, Fits
  <2>7. Observe(m.id, m.number, m.keep) =
          IF Seen(m) <= l THEN [last |-> last, missed |-> 0]
          ELSE [last |-> Put(last, m.id, Seen(m)),
                missed |-> IF m.keep THEN Seen(m) - l ELSE Seen(m) - l - 1]
    BY <1>2 DEF Observe, Seen
  <2> HIDE DEF l, o, r
  <2>8. r.got \subseteq 1 .. r.to
    BY <1>1, <2>1, <2>3, <2>5
  <2>9. CASE Seen(m) <= l
    <3>1. m.keep /\ r.to = l /\ Observe(m.id, m.number, m.keep).last = last /\ Missed(m) = 0
      BY <1>1, <2>1, <2>5, <2>6, <2>7, <2>9 DEF Missed
    <3>2. Missed(m) + (IF m.keep THEN 0 ELSE 1) + Known(heard, m.id) = r.to - r.from + 1
      BY <2>1, <2>3, <2>4, <3>1
    <3>4. r.from \in Nat /\ r.to \in Nat /\ r.from <= r.to + 1 /\ Seen(m) <= r.to /\ Missed(m) \in Nat
      BY <2>1, <2>3, <2>9, <3>1
    <3>5. m.id \in DOMAIN last /\ last[m.id] = r.to /\ Observe(m.id, m.number, m.keep).last = last
      BY <1>2, <3>1 DEF l
    <3>3. Learnt(m, r)
      BY <2>3, <2>8, <3>1, <3>2, <3>4, <3>5 DEF Learnt
    <3> QED BY <2>2, <3>3
  <2>10. CASE l < Seen(m)
    <3>1. r.to = Seen(m)
      BY <1>1, <2>1, <2>5, <2>10
    <3>2. /\ Observe(m.id, m.number, m.keep).last = Put(last, m.id, r.to)
          /\ Missed(m) = IF m.keep THEN Seen(m) - l ELSE Seen(m) - l - 1
      BY <1>1, <2>1, <2>7, <2>10, <3>1 DEF Missed
    <3>3. /\ Missed(m) \in Nat
          /\ Missed(m) + (IF m.keep THEN 0 ELSE 1) + Known(heard, m.id) = r.to - r.from + 1
      BY <1>1, <2>1, <2>3, <2>4, <2>10, <3>1, <3>2
    <3>4. r.from \in Nat /\ r.to \in Nat /\ r.from <= r.to + 1 /\ Seen(m) <= r.to
      BY <1>1, <2>1, <2>3, <2>10, <3>1
    <3>5. /\ m.id \in DOMAIN last /\ last[m.id] < r.to /\ r.to = Seen(m)
          /\ Observe(m.id, m.number, m.keep).last = Put(last, m.id, r.to)
      BY <1>2, <2>10, <3>1, <3>2 DEF l
    <3>6. Learnt(m, r)
      BY <2>3, <2>8, <3>3, <3>4, <3>5 DEF Learnt
    <3> QED BY <2>2, <3>6
  <2> QED BY <1>1, <2>1, <2>9, <2>10
<1>3. CASE m.id \notin DOMAIN last
  <2> DEFINE o == [from |-> IF m.keep THEN Seen(m) + 1 ELSE Seen(m), to |-> Seen(m), got |-> {}]
             r == [o EXCEPT !.to = Max({@, Seen(m)}), !.got = @ \cup IF m.keep THEN {} ELSE {Seen(m)}]
  <2>1. m.id \notin DOMAIN heard.of
    BY <1>3 DEF Watched
  <2>2. Told(heard, m) = [heard EXCEPT !.of = Put(@, m.id, r)]
    BY <2>1 DEF Told, Seen
  <2>3. /\ DOMAIN r = {"from", "to", "got"} /\ r.from = IF m.keep THEN Seen(m) + 1 ELSE Seen(m)
        /\ r.to = Max({Seen(m), Seen(m)})
        /\ r.got = IF m.keep THEN {} ELSE {Seen(m)}
    OBVIOUS
  <2>4. r.to = Seen(m)
    BY <1>1, <2>3, MaxOfTwo
  <2>5. Known(heard, m.id) = 0
    BY <2>1 DEF Known
  <2>6. Observe(m.id, m.number, m.keep) = [last |-> Put(last, m.id, Seen(m)), missed |-> 0]
    BY <1>3 DEF Observe, Seen
  <2> HIDE DEF r
  <2>7. Observe(m.id, m.number, m.keep).last = Put(last, m.id, r.to) /\ Missed(m) = 0
    BY <2>4, <2>6 DEF Missed
  <2>8. /\ r.from \in Nat /\ r.to \in Nat /\ r.from <= r.to + 1
        /\ Missed(m) + (IF m.keep THEN 0 ELSE 1) + Known(heard, m.id) = r.to - r.from + 1
    BY <1>1, <2>3, <2>4, <2>5, <2>7
  <2>9. r.got \subseteq 1 .. r.to
    BY <1>1, <2>3, <2>4
  <2>11. Seen(m) <= r.to /\ Missed(m) \in Nat
    BY <1>1, <2>4, <2>7
  <2>10. Learnt(m, r)
    BY <1>3, <2>3, <2>4, <2>7, <2>8, <2>9, <2>11 DEF Learnt
  <2> QED BY <2>2, <2>10
<1> QED BY <1>2, <1>3

LEMMA HeadArrived ==
  ASSUME Typed, Numbered, wire # <<>>, Head(wire).id \in Live
  PROVE  Arrived(Head(wire))
<1>1. Head(wire) = wire[1] /\ Head(wire) \in Messages /\ 1 \in DOMAIN wire
  BY TailFacts DEF Typed
<1>2. wire[1].number \in 1 .. setting.data + 1 /\ setting.data \in Nat
  BY <1>1 DEF Typed, Setting
<1>3. wire[1].number \in Nat \ {0}
  BY <1>2
<1>4. Fits(wire[1])
  BY <1>1 DEF Numbered
<1> QED BY <1>1, <1>3, <1>4 DEF Arrived

\* What the watch remembers once a message with news is handled.
LEMMA Remembered ==
  ASSUME Watched, NEW m, NEW r, Learnt(m, r), last' = Observe(m.id, m.number, m.keep).last
  PROVE  /\ DOMAIN last' = (DOMAIN last) \cup {m.id}
         /\ last'[m.id] = r.to
         /\ \A id \in (DOMAIN last) \ {m.id} : last'[id] = last[id]
         /\ \A id \in DOMAIN last : last[id] \in Nat /\ last[id] <= last'[id]
<1>1. \A id \in DOMAIN last : last[id] \in Nat
  BY DEF Watched
<1>2. r.to \in Nat
  BY DEF Learnt
<1>3. CASE m.id \in DOMAIN last /\ last[m.id] = r.to /\ Observe(m.id, m.number, m.keep).last = last
  BY <1>1, <1>3
<1>4. CASE last' = Put(last, m.id, r.to) /\ (m.id \in DOMAIN last => last[m.id] < r.to)
  <2>1. /\ DOMAIN last' = (DOMAIN last) \cup {m.id} /\ last'[m.id] = r.to
        /\ \A id \in (DOMAIN last) \ {m.id} : last'[id] = last[id]
    BY <1>4 DEF Put
  <2>2. ASSUME NEW id \in DOMAIN last PROVE last[id] <= last'[id]
    BY <1>1, <1>2, <1>4, <2>1
  <2> QED BY <1>1, <2>1, <2>2
<1> QED BY <1>3, <1>4 DEF Learnt

LEMMA HandledWatched ==
  ASSUME Typed, Watched, NEW m, Arrived(m), Handle(m)
  PROVE  Watched'
<1>1. last' = Observe(m.id, m.number, m.keep).last /\ heard' = Told(heard, m)
  BY DEF Handle
<1>2. DOMAIN heard = {"of", "past", "repeats", "stray", "reused"}
  BY DEF Typed
<1>3. CASE m.again
  <2>1. last' = last /\ heard' = [heard EXCEPT !.repeats = @ + 1]
    BY <1>1, <1>3, RepeatIsNoGap
  <2>2. heard'.of = heard.of
    BY <1>2, <2>1
  <2> QED BY <2>1, <2>2 DEF Watched
<1>4. CASE ~ m.again
  <2>1. PICK r : Learnt(m, r) /\ heard' = [heard EXCEPT !.of = Put(@, m.id, r)]
    BY <1>1, <1>4, NewsIsLearnt
  <2>2. heard'.of = Put(heard.of, m.id, r)
    BY <1>2, <2>1
  <2>3. /\ DOMAIN last' = (DOMAIN last) \cup {m.id}
        /\ last'[m.id] = r.to
        /\ \A id \in (DOMAIN last) \ {m.id} : last'[id] = last[id]
    BY <1>1, <2>1, Remembered
  <2>4. /\ DOMAIN heard'.of = DOMAIN last'
        /\ heard'.of[m.id] = r
        /\ \A id \in (DOMAIN last) \ {m.id} : heard'.of[id] = heard.of[id]
    BY <2>2, <2>3 DEF Put, Watched
  <2>5. m.id \in Nat
    BY DEF Arrived, Messages
  <2>6. IsFiniteSet(DOMAIN last') /\ DOMAIN last' \subseteq Nat
    <3>1. IsFiniteSet(DOMAIN last) /\ DOMAIN last \subseteq Nat
      BY DEF Watched
    <3>2. IsFiniteSet((DOMAIN last) \cup {m.id})
      BY <3>1, FS_AddElement
    <3> QED BY <2>3, <2>5, <3>1, <3>2
  <2>7. ASSUME NEW id \in DOMAIN last'
        PROVE  /\ last'[id] \in Nat
               /\ DOMAIN heard'.of[id] = {"from", "to", "got"}
               /\ heard'.of[id].to = last'[id]
               /\ heard'.of[id].from \in Nat /\ heard'.of[id].from <= last'[id] + 1
               /\ heard'.of[id].got \subseteq 1 .. last'[id]
    <3>1. CASE id = m.id
      BY <2>1, <2>3, <2>4, <3>1 DEF Learnt
    <3>2. CASE id # m.id
      <4>1. id \in (DOMAIN last) \ {m.id} /\ last'[id] = last[id] /\ heard'.of[id] = heard.of[id]
        BY <2>3, <2>4, <3>2
      <4> QED BY <4>1 DEF Watched
    <3> QED BY <3>1, <3>2
  <2> QED BY <2>4, <2>6, <2>7 DEF Watched
<1> QED BY <1>3, <1>4

LEMMA WatchedIsHistory ==
  ASSUME Typed, Watched
  PROVE  History(heard)
  BY DEF Typed, Watched, History

-----------------------------------------------------------------------------
(* Nothing is counted twice.                                                *)

Handled == {"samples", "noSource", "noStatus", "text"}

\* A DataValue is a sample or counts as one refusal.
LEMMA OneOutcome ==
  ASSUME NEW dv \in SUBSET Marks
  PROVE  \E what \in Handled : Outcome(dv) \cap Handled = {what}
<1> DEFINE reasons == {i \in DOMAIN Refusals : Refusals[i] \in dv}
<1>1. DOMAIN Refusals = 1 .. 3
  BY DEF Refusals
<1>2. CASE reasons # {}
  <2>1. reasons \subseteq Nat
    BY <1>1
  <2>2. Min(reasons) \in reasons
    <3> HIDE DEF reasons
    <3> QED BY <1>2, <2>1, MinIsLeast
  <2>3. Outcome(dv) = {Refusals[Min(reasons)]}
    BY <1>2 DEF Outcome
  <2>4. Refusals[Min(reasons)] \in {"noSource", "noStatus", "text"}
    <3>1. Min(reasons) \in 1 .. 3
      BY <1>1, <2>2
    <3> HIDE DEF reasons
    <3>2. Min(reasons) = 1 \/ Min(reasons) = 2 \/ Min(reasons) = 3
      BY <3>1
    <3> QED BY <3>2 DEF Refusals
  <2>5. Refusals[Min(reasons)] \in Handled /\ Outcome(dv) \cap Handled = {Refusals[Min(reasons)]}
    BY <2>3, <2>4 DEF Handled
  <2> QED BY <2>5
<1>3. CASE reasons = {}
  <2>1. Outcome(dv) = {"samples"} \cup (dv \cap {"noServer"})
    BY <1>3 DEF Outcome
  <2>2. Outcome(dv) \cap Handled = {"samples"} /\ "samples" \in Handled
    BY <2>1 DEF Handled
  <2> QED BY <2>2
<1> QED BY <1>2, <1>3

Handlings == counts.samples + counts.noSource + counts.noStatus + counts.text

LEMMA CountedOnce ==
  ASSUME Typed, NEW m \in Messages, NEW missed \in Nat,
         counts' = Counted(IF m.keep THEN {} ELSE Outcome(m.value), missed)
  PROVE  /\ counts' \in [DOMAIN NoCounts -> Nat] /\ counts'.gaps <= counts'.missed
         /\ Handlings' = Handlings + (IF m.keep THEN 0 ELSE 1)
         /\ counts'.missed = counts.missed + missed
<1> DEFINE outcome == IF m.keep THEN {} ELSE Outcome(m.value)
           more(what) == IF what = "missed" THEN missed
                         ELSE IF what \in outcome \/ (what = "gaps" /\ missed > 0) THEN 1 ELSE 0
<1>1. /\ counts \in [DOMAIN NoCounts -> Nat] /\ counts.gaps <= counts.missed
      /\ DOMAIN NoCounts = {"noSource", "noStatus", "text", "noServer", "gaps", "missed", "unresolved", "samples"}
  BY DEF Typed, NoCounts
<1>2. \A what \in DOMAIN counts : more(what) \in Nat
  OBVIOUS
<1>3. counts' = [what \in DOMAIN counts |-> counts[what] + more(what)]
  BY DEF Counted
<1>4. outcome \subseteq {"noSource", "noStatus", "text", "noServer", "samples"}
  <2>1. Outcome(m.value) \subseteq {"noSource", "noStatus", "text", "noServer", "samples"}
    <3> DEFINE reasons == {i \in DOMAIN Refusals : Refusals[i] \in m.value}
    <3>1. DOMAIN Refusals = 1 .. 3
      BY DEF Refusals
    <3>2. CASE reasons # {}
      <4>1. reasons \subseteq Nat
        BY <3>1
      <4>2. Min(reasons) \in reasons
        <5> HIDE DEF reasons
        <5> QED BY <3>2, <4>1, MinIsLeast
      <4>3. Outcome(m.value) = {Refusals[Min(reasons)]}
        BY <3>2 DEF Outcome
      <4>4. Refusals[Min(reasons)] \in m.value
        BY <4>2
      <4> QED BY <4>3, <4>4 DEF Messages, Marks
    <3>3. CASE reasons = {}
      BY <3>3 DEF Outcome
    <3> QED BY <3>2, <3>3
  <2> QED BY <2>1
<1>5. more("gaps") = (IF missed > 0 THEN 1 ELSE 0) /\ more("missed") = missed
  BY <1>4
<1>6. more("samples") + more("noSource") + more("noStatus") + more("text") = IF m.keep THEN 0 ELSE 1
  <2>1. \A what \in Handled : more(what) = IF what \in outcome THEN 1 ELSE 0
    BY DEF Handled
  <2>2. CASE m.keep
    <3>1. \A what \in Handled : more(what) = 0
      BY <2>1, <2>2
    <3> HIDE DEF more
    <3> QED BY <2>2, <3>1 DEF Handled
  <2>3. CASE ~ m.keep
    <3>1. PICK w \in Handled : outcome \cap Handled = {w}
      <4>1. m.value \in SUBSET Marks
        BY DEF Messages
      <4> QED BY <2>3, <4>1, OneOutcome
    <3>2. \A what \in Handled : more(what) = IF what = w THEN 1 ELSE 0
      BY <2>1, <3>1
    <3> HIDE DEF more, outcome
    <3>3. /\ more("samples") = IF "samples" = w THEN 1 ELSE 0
          /\ more("noSource") = IF "noSource" = w THEN 1 ELSE 0
          /\ more("noStatus") = IF "noStatus" = w THEN 1 ELSE 0
          /\ more("text") = IF "text" = w THEN 1 ELSE 0
      BY <3>2 DEF Handled
    <3>4. w = "samples" \/ w = "noSource" \/ w = "noStatus" \/ w = "text"
      BY DEF Handled
    <3> QED BY <2>3, <3>3, <3>4
  <2> QED BY <2>2, <2>3
<1> HIDE DEF more
<1>7. counts' \in [DOMAIN NoCounts -> Nat]
  BY <1>1, <1>2, <1>3
<1>8. \A what \in DOMAIN NoCounts : counts'[what] = counts[what] + more(what) /\ counts[what] \in Nat /\ more(what) \in Nat
  BY <1>1, <1>2, <1>3
<1>9. /\ counts'.gaps = counts.gaps + more("gaps") /\ counts'.missed = counts.missed + more("missed")
      /\ counts.gaps \in Nat /\ counts.missed \in Nat
  BY <1>1, <1>8
<1>10. /\ counts'.samples = counts.samples + more("samples")
       /\ counts'.noSource = counts.noSource + more("noSource")
       /\ counts'.noStatus = counts.noStatus + more("noStatus")
       /\ counts'.text = counts.text + more("text")
  BY <1>1, <1>8
<1>11. /\ counts.samples \in Nat /\ counts.noSource \in Nat /\ counts.noStatus \in Nat /\ counts.text \in Nat
       /\ more("samples") \in Nat /\ more("noSource") \in Nat /\ more("noStatus") \in Nat /\ more("text") \in Nat
  BY <1>1, <1>8
<1>12. counts'.gaps <= counts'.missed
  BY <1>1, <1>5, <1>9
<1>13. Handlings' = Handlings + (more("samples") + more("noSource") + more("noStatus") + more("text"))
  BY <1>10, <1>11 DEF Handlings
<1> QED BY <1>5, <1>6, <1>7, <1>9, <1>12, <1>13

LEMMA HandledBalanced ==
  ASSUME Typed, Watched, Balanced, NEW m, Arrived(m), Handle(m)
  PROVE  Balanced' /\ counts' \in [DOMAIN NoCounts -> Nat] /\ counts'.gaps <= counts'.missed
<1> DEFINE missed == Missed(m)
<1>1. /\ last' = Observe(m.id, m.number, m.keep).last /\ heard' = Told(heard, m)
      /\ counts' = Counted(IF m.keep THEN {} ELSE Outcome(m.value), missed)
      /\ m \in Messages
  BY DEF Handle, Arrived, Missed
<1>2. /\ History(heard) /\ Due(heard) \in Nat /\ heard.repeats \in Nat
      /\ Handlings \in Nat /\ counts.missed \in Nat /\ Known(heard, m.id) \in Nat
  <2>1. History(heard) /\ Due(heard) \in Nat /\ heard.repeats \in Nat /\ Known(heard, m.id) \in Nat
    BY WatchedIsHistory, KnownIsNat DEF History
  <2>2. /\ counts.samples \in Nat /\ counts.noSource \in Nat /\ counts.noStatus \in Nat
        /\ counts.text \in Nat /\ counts.missed \in Nat
    BY DEF Typed, NoCounts
  <2>3. Handlings \in Nat
    BY <2>2 DEF Handlings
  <2> QED BY <2>1, <2>2, <2>3
<1>3. missed \in Nat
  <2>1. CASE m.again
    BY <2>1, RepeatIsNoGap
  <2>2. CASE ~ m.again
    BY <2>2, NewsIsLearnt DEF Learnt
  <2> QED BY <2>1, <2>2
<1> HIDE DEF missed
<1>4. /\ counts' \in [DOMAIN NoCounts -> Nat] /\ counts'.gaps <= counts'.missed
      /\ Handlings' = Handlings + (IF m.keep THEN 0 ELSE 1)
      /\ counts'.missed = counts.missed + missed
  BY <1>1, <1>3, CountedOnce
<1>5. Handlings + counts.missed = Due(heard) + heard.repeats
  BY <1>2 DEF Balanced, Handlings
<1>6. Handlings' + counts'.missed = Due(heard)' + heard'.repeats
  <2>1. CASE m.again
    <3>1. missed = 0 /\ ~ m.keep /\ heard' = [heard EXCEPT !.repeats = @ + 1]
      BY <1>1, <2>1, RepeatIsNoGap DEF missed
    <3>2. heard'.of = heard.of /\ heard'.past = heard.past /\ heard'.repeats = heard.repeats + 1
      BY <1>2, <3>1 DEF History
    <3>3. Due(heard)' = Due(heard)
      BY <3>2 DEF Due, Known
    <3> QED BY <1>2, <1>4, <1>5, <3>1, <3>2, <3>3
  <2>2. CASE ~ m.again
    <3>1. PICK r : Learnt(m, r) /\ heard' = [heard EXCEPT !.of = Put(@, m.id, r)]
      BY <1>1, <2>2, NewsIsLearnt
    <3>2. /\ r.from \in Nat /\ r.to \in Nat /\ r.from <= r.to + 1
          /\ missed + (IF m.keep THEN 0 ELSE 1) + Known(heard, m.id) = r.to - r.from + 1
      BY <3>1 DEF Learnt, missed
    <3>3. Due(heard)' + Known(heard, m.id) = Due(heard) + (r.to - r.from + 1)
      <4>1. PICK k : k = heard'
        OBVIOUS
      <4>2. History(k) /\ Due(k) + Known(heard, m.id) = Due(heard) + (r.to - r.from + 1)
        BY <1>2, <3>1, <3>2, <4>1, DueOfPut
      <4>3. Due(k) = Due(heard)'
        BY <4>1 DEF Due, Known
      <4> QED BY <4>2, <4>3
    <3>4. heard'.repeats = heard.repeats
      BY <1>2, <3>1 DEF History
    <3>5. Due(heard)' \in Nat
      <4>1. PICK k : k = heard'
        OBVIOUS
      <4>2. History(k)
        BY <1>2, <3>1, <3>2, <4>1, DueOfPut
      <4>3. Due(k) \in Nat
        BY <4>2, KnownIsNat
      <4>4. Due(k) = Due(heard)'
        BY <4>1 DEF Due, Known
      <4> QED BY <4>3, <4>4
    <3> QED BY <1>2, <1>3, <1>4, <1>5, <3>2, <3>3, <3>4, <3>5
  <2> QED BY <2>1, <2>2
<1>7. Balanced'
  <2>1. /\ counts'.samples \in Nat /\ counts'.noSource \in Nat /\ counts'.noStatus \in Nat
        /\ counts'.text \in Nat /\ counts'.missed \in Nat
    BY <1>4 DEF NoCounts
  <2>2. Handlings' + counts'.missed = counts'.samples + counts'.noSource + counts'.noStatus + counts'.text + counts'.missed
    BY <2>1 DEF Handlings
  <2> QED BY <1>6, <2>2 DEF Balanced
<1> QED BY <1>4, <1>7

-----------------------------------------------------------------------------
(* The order of the messages on the way.                                    *)

LEMMA LeftInOrder ==
  ASSUME Numbered, LeftOf(wire', wire), Live' = Live
  PROVE  \A i, j \in DOMAIN wire' : i < j => InOrder(wire[i], wire[j])'
<1>1. PICK e : /\ \A j \in DOMAIN wire' : e[j] \in DOMAIN wire /\ wire'[j] = wire[e[j]]
               /\ \A i, j \in DOMAIN wire' : i < j => e[i] < e[j]
  BY DEF LeftOf
<1> SUFFICES ASSUME NEW i \in DOMAIN wire', NEW j \in DOMAIN wire', i < j
             PROVE  InOrder(wire[i], wire[j])'
  OBVIOUS
<1>2. InOrder(wire[e[i]], wire[e[j]])
  BY <1>1 DEF Numbered
<1>3. wire'[i] = wire[e[i]] /\ wire'[j] = wire[e[j]]
  BY <1>1
<1> QED BY <1>2, <1>3 DEF InOrder

LEMMA LeftNumbered ==
  ASSUME Numbered, LeftOf(wire', wire), UNCHANGED <<server, last>>
  PROVE  Numbered'
<1>1. Live' = Live
  BY DEF Live
<1>2. \A i, j \in DOMAIN wire' : i < j => InOrder(wire[i], wire[j])'
  BY <1>1, LeftInOrder
<1>3. ASSUME NEW i \in DOMAIN wire', wire'[i].id \in Live' PROVE Fits(wire[i])'
  <2>1. PICK k \in DOMAIN wire : wire'[i] = wire[k]
    BY DEF LeftOf
  <2>2. Fits(wire[k])
    BY <1>1, <1>3, <2>1 DEF Numbered
  <2> QED BY <2>1, <2>2 DEF Fits
<1> QED BY <1>1, <1>2, <1>3 DEF Numbered

\* What is handled takes its place behind what is on the way.
LEMMA HandledNumbered ==
  ASSUME Typed, Watched, Numbered, wire # <<>>, wire' = Tail(wire), server' = server,
         Head(wire).id \in Live, Handle(Head(wire))
  PROVE  Numbered'
<1> DEFINE m == Head(wire)
<1>1. /\ m = wire[1] /\ m \in Messages /\ 1 \in DOMAIN wire /\ Arrived(m)
      /\ \A j \in DOMAIN wire' : j + 1 \in DOMAIN wire /\ wire'[j] = wire[j + 1] /\ j \in Nat \ {0}
  BY TailFacts, HeadArrived DEF Typed
<1>2. LeftOf(wire', wire) /\ Live' = Live
  BY TailIsLeft DEF Typed, Live
<1>3. \A i, j \in DOMAIN wire' : i < j => InOrder(wire[i], wire[j])'
  BY <1>2, LeftInOrder
<1>4. last' = Observe(m.id, m.number, m.keep).last
  BY DEF Handle
<1>5. Fits(m) /\ m.id \in Live /\ m.number \in Nat \ {0}
  BY <1>1 DEF Arrived
<1>6. CASE m.again
  <2>1. last' = last
    BY <1>1, <1>4, <1>6, RepeatIsNoGap
  <2> QED BY <1>2, <2>1, LeftNumbered
<1>7. CASE ~ m.again
  <2>1. PICK r : Learnt(m, r)
    BY <1>1, <1>7, NewsIsLearnt
  <2>2. /\ DOMAIN last' = (DOMAIN last) \cup {m.id}
        /\ last'[m.id] = r.to
        /\ \A id \in (DOMAIN last) \ {m.id} : last'[id] = last[id]
        /\ \A id \in DOMAIN last : last[id] \in Nat /\ last[id] <= last'[id]
    BY <1>4, <2>1, Remembered
  <2>3. /\ r.to \in Nat /\ m.keep \in BOOLEAN
        /\ r.to = Seen(m) \/ (m.id \in DOMAIN last /\ r.to = last[m.id])
        /\ Seen(m) = IF m.keep THEN m.number - 1 ELSE m.number
    BY <1>1, <2>1 DEF Learnt, Seen, Messages
  <2>4. m.id \in DOMAIN last => last[m.id] < server.subs[m.id].next
    BY <1>5 DEF Numbered
  <2>5. server.subs[m.id].next \in Nat
    <3>1. server.subs[m.id].next \in 1 .. setting.data + 1 /\ setting.data \in Nat
      BY <1>5 DEF Typed, Setting
    <3> QED BY <3>1
  <2>6. IF m.keep THEN m.number <= server.subs[m.id].next ELSE m.number < server.subs[m.id].next
    BY <1>5, <1>7 DEF Fits
  <2> HIDE DEF m
  <2>7. ASSUME NEW id \in (DOMAIN last') \cap Live' PROVE last'[id] < server'.subs[id].next
    <3>1. CASE id = m.id
      <4>1. r.to < server.subs[m.id].next
        BY <1>5, <2>3, <2>4, <2>5, <2>6
      <4> QED BY <2>2, <3>1, <4>1
    <3>2. CASE id # m.id
      <4>1. id \in (DOMAIN last) \cap Live /\ last'[id] = last[id]
        BY <1>2, <2>2, <3>2
      <4> QED BY <4>1 DEF Numbered
    <3> QED BY <3>1, <3>2
  <2>8. ASSUME NEW i \in DOMAIN wire', wire'[i].id \in Live' PROVE Fits(wire[i])'
    <3>0. PICK o : o = wire[i + 1]
      OBVIOUS
    <3>1. /\ i + 1 \in DOMAIN wire /\ wire'[i] = o /\ 1 < i + 1 /\ o.id \in Live /\ o \in Messages
      <4>1. i + 1 \in DOMAIN wire /\ wire'[i] = wire[i + 1] /\ i \in Nat \ {0}
        BY <1>1
      <4>2. \A k \in DOMAIN wire : wire[k] \in Messages
        BY SeqDomain DEF Typed
      <4> QED BY <1>2, <2>8, <3>0, <4>1, <4>2
    <3>2. Fits(o) /\ InOrder(m, o)
      BY <1>1, <3>0, <3>1 DEF Numbered, m
    <3>3. o.number \in Nat /\ o.keep \in BOOLEAN /\ o.again \in BOOLEAN
      BY <3>1 DEF Messages
    <3>4. CASE o.again
      <4>1. ~ o.keep /\ o.id \in DOMAIN last /\ o.number <= last[o.id]
        BY <3>2, <3>4 DEF Fits
      <4>2. o.id \in DOMAIN last' /\ o.number <= last'[o.id]
        <5>1. o.id \in DOMAIN last' /\ last[o.id] \in Nat /\ last[o.id] <= last'[o.id]
          BY <2>2, <4>1
        <5>2. last'[o.id] \in Nat
          BY <2>2, <2>3, <4>1
        <5> QED BY <3>3, <4>1, <5>1, <5>2
      <4> QED BY <3>1, <3>4, <4>1, <4>2 DEF Fits
    <3>5. CASE ~ o.again /\ o.keep
      BY <3>1, <3>2, <3>5 DEF Fits
    <3>6. CASE ~ o.again /\ ~ o.keep
      <4>1. o.number < server.subs[o.id].next /\ (o.id \in DOMAIN last => last[o.id] < o.number)
        BY <3>2, <3>6 DEF Fits
      <4>2. ASSUME o.id \in DOMAIN last' PROVE last'[o.id] < o.number
        <5>1. CASE o.id # m.id
          BY <2>2, <4>1, <4>2, <5>1
        <5>2. CASE o.id = m.id
          <6>1. m.number <= o.number /\ (~ m.keep => m.number # o.number)
            BY <1>5, <1>7, <3>2, <3>6, <5>2 DEF InOrder
          <6>2. Seen(m) < o.number
            BY <1>5, <2>3, <3>3, <6>1
          <6>3. r.to < o.number
            BY <2>3, <4>1, <5>2, <6>2
          <6> QED BY <2>2, <5>2, <6>3
        <5> QED BY <5>1, <5>2
      <4> QED BY <3>1, <3>6, <4>1, <4>2 DEF Fits
    <3> QED BY <3>3, <3>4, <3>5, <3>6
  <2> QED BY <1>3, <2>7, <2>8 DEF Numbered
<1> QED BY <1>6, <1>7

\* A message is sent.
LEMMA SentNumbered ==
  ASSUME Typed, Watched, Numbered, NEW m \in Messages, wire' = Append(wire, m), last' = last,
         Live' = Live, m.id \in Live,
         \A id \in Live : server.subs[id].next <= server'.subs[id].next /\ server'.subs[id].next \in Nat,
         Fits(m)', \A i \in DOMAIN wire : InOrder(wire[i], m)
  PROVE  Numbered'
<1>1. /\ DOMAIN wire = 1 .. Len(wire) /\ Len(wire) \in Nat
      /\ \A i \in DOMAIN wire : wire[i] \in Messages
  BY SeqDomain DEF Typed
<1>2. \A j \in DOMAIN wire' : \/ j \in DOMAIN wire /\ j <= Len(wire) /\ wire'[j] = wire[j]
                              \/ j = Len(wire) + 1 /\ wire'[j] = m
  BY AppendFacts DEF Typed
<1>3. \A id \in Live : server.subs[id].next \in Nat
  <2>1. \A id \in Live : server.subs[id].next \in 1 .. setting.data + 1
    BY DEF Typed
  <2>2. setting.data \in Nat
    BY DEF Typed, Setting
  <2> QED BY <2>1, <2>2
<1>4. ASSUME NEW id \in (DOMAIN last') \cap Live' PROVE last'[id] < server'.subs[id].next
  <2>1. id \in (DOMAIN last) \cap Live /\ last[id] < server.subs[id].next
    BY <1>4 DEF Numbered
  <2>2. server.subs[id].next <= server'.subs[id].next
    BY <2>1
  <2>3. server.subs[id].next \in Nat /\ server'.subs[id].next \in Nat
    BY <1>3, <2>1
  <2>4. last[id] \in Nat
    BY <2>1 DEF Watched
  <2>5. last'[id] = last[id]
    OBVIOUS
  <2> QED BY <2>1, <2>2, <2>3, <2>4, <2>5
<1>5. ASSUME NEW i \in DOMAIN wire', wire'[i].id \in Live' PROVE Fits(wire[i])'
  <2>1. CASE wire'[i] = m
    BY <2>1
  <2>2. CASE i \in DOMAIN wire /\ wire'[i] = wire[i]
    <3>0. PICK o : o = wire[i]
      OBVIOUS
    <3>1. o.id \in Live /\ o \in Messages /\ Fits(o)
      BY <1>1, <1>5, <2>2, <3>0 DEF Numbered
    <3>2. /\ o.number \in Nat /\ server.subs[o.id].next \in Nat /\ server'.subs[o.id].next \in Nat
          /\ server.subs[o.id].next <= server'.subs[o.id].next
      BY <1>3, <3>1 DEF Messages
    <3>3. /\ o.number <= server.subs[o.id].next => o.number <= server'.subs[o.id].next
          /\ o.number < server.subs[o.id].next => o.number < server'.subs[o.id].next
      BY <3>2
    <3>4. Fits(o)'
      BY <3>1, <3>3 DEF Fits
    <3> QED BY <2>2, <3>0, <3>4
  <2> QED BY <1>2, <2>1, <2>2
<1>6. ASSUME NEW i \in DOMAIN wire', NEW j \in DOMAIN wire', i < j
      PROVE  InOrder(wire[i], wire[j])'
  <2>1. i \in DOMAIN wire /\ i <= Len(wire) /\ wire'[i] = wire[i]
    BY <1>1, <1>2, <1>6
  <2>2. CASE wire'[j] = m
    <3>1. InOrder(wire[i], m)
      BY <2>1
    <3> QED BY <2>1, <2>2, <3>1 DEF InOrder
  <2>3. CASE j \in DOMAIN wire /\ wire'[j] = wire[j]
    <3>1. InOrder(wire[i], wire[j])
      BY <1>6, <2>1, <2>3 DEF Numbered
    <3> QED BY <2>1, <2>3, <3>1 DEF InOrder
  <2> QED BY <1>2, <2>2, <2>3
<1> QED BY <1>4, <1>5, <1>6 DEF Numbered

-----------------------------------------------------------------------------
(* Each step keeps the invariant.                                           *)

LEMMA SameWatched ==
  ASSUME Watched, last' = last, heard'.of = heard.of
  PROVE  Watched'
BY DEF Watched

LEMMA SameBalanced ==
  ASSUME Balanced, counts' = counts, heard'.of = heard.of, heard'.past = heard.past, heard'.repeats = heard.repeats
  PROVE  Balanced'
BY DEF Balanced, Due, Known

LEMMA DataIsNat ==
  ASSUME Typed
  PROVE  /\ setting.data \in Nat
         /\ \A id \in Live : server.subs[id].next \in Nat \ {0}
<1>1. setting.data \in Nat
  BY DEF Typed, Setting
<1>2. \A id \in Live : server.subs[id].next \in 1 .. setting.data + 1
  BY DEF Typed
<1> QED BY <1>1, <1>2

\* Messages that are left are typed as they were.
LEMMA LeftTyped ==
  ASSUME Typed, LeftOf(wire', wire)
  PROVE  /\ wire' \in Seq(Messages)
         /\ \A i \in DOMAIN wire' : /\ wire'[i].number \in 1 .. setting.data + 1
                                    /\ wire'[i].id \in 1 .. server.ids
         /\ (\A i \in DOMAIN wire : ~ wire[i].again) => \A i \in DOMAIN wire' : ~ wire'[i].again
<1>1. wire' \in Seq(Messages) /\ \A i \in DOMAIN wire' : \E k \in DOMAIN wire : wire'[i] = wire[k]
  BY DEF LeftOf
<1> QED BY <1>1 DEF Typed

LEMMA DeliverKeeps ==
  ASSUME IInv, Deliver
  PROVE  IInv'
<1>1. /\ Typed /\ Held /\ Watched /\ Numbered /\ Balanced /\ (NoneAgain \/ AllForgotten)
      /\ wire # <<>> /\ link /\ wire' = Tail(wire) /\ UNCHANGED <<setting, server, link, session>>
  BY DEF IInv, Deliver
<1>2. LeftOf(wire', wire)
  BY <1>1, TailIsLeft DEF Typed
<1>3. Held'
  BY <1>1 DEF Held, Live
<1>4. CASE Head(wire).id \in Live
  <2>1. Handle(Head(wire)) /\ Arrived(Head(wire))
    BY <1>1, <1>4, HeadArrived DEF Deliver, Live
  <2>2. PICK m : m = Head(wire)
    OBVIOUS
  <2>3. Watched' /\ Numbered'
    <3>1. Watched'
      BY <1>1, <2>1, <2>2, HandledWatched
    <3>2. Numbered'
      BY <1>1, <1>4, <2>1, HandledNumbered
    <3> QED BY <3>1, <3>2
  <2>4. Balanced' /\ counts' \in [DOMAIN NoCounts -> Nat] /\ counts'.gaps <= counts'.missed
    BY <1>1, <2>1, <2>2, HandledBalanced
  <2>5. DOMAIN heard' = {"of", "past", "repeats", "stray", "reused"} /\ heard'.past = heard.past /\ heard'.repeats \in Nat
        /\ heard'.stray = heard.stray
    <3>1. heard' = Told(heard, m) /\ DOMAIN heard = {"of", "past", "repeats", "stray", "reused"} /\ heard.repeats \in Nat
      BY <1>1, <2>1, <2>2 DEF Handle, Typed
    <3>2. CASE m.again
      <4>1. heard' = [heard EXCEPT !.repeats = @ + 1]
        BY <1>1, <2>1, <2>2, <3>1, <3>2, RepeatIsNoGap
      <4> QED BY <3>1, <4>1
    <3>3. CASE ~ m.again
      <4>1. PICK r : heard' = [heard EXCEPT !.of = Put(@, m.id, r)]
        BY <1>1, <2>1, <2>2, <3>1, <3>3, NewsIsLearnt
      <4> QED BY <3>1, <4>1
    <3> QED BY <3>2, <3>3
  <2>6. Typed'
    <3>1. /\ wire' \in Seq(Messages)
          /\ \A i \in DOMAIN wire' : /\ wire'[i].number \in 1 .. setting.data + 1
                                     /\ wire'[i].id \in 1 .. server.ids
      BY <1>1, <1>2, LeftTyped
    <3> QED BY <1>1, <2>4, <2>5, <3>1 DEF Typed, Live
  <2>7. DOMAIN last' \subseteq (DOMAIN last) \cup {m.id}
    <3>1. last' = Observe(m.id, m.number, m.keep).last
      BY <2>1, <2>2 DEF Handle
    <3>2. CASE m.again
      BY <1>1, <2>1, <2>2, <3>1, <3>2, RepeatIsNoGap
    <3>3. CASE ~ m.again
      <4>1. PICK r : Learnt(m, r)
        BY <1>1, <2>1, <2>2, <3>3, NewsIsLearnt
      <4> QED BY <1>1, <3>1, <4>1, Remembered
    <3> QED BY <3>2, <3>3
  <2>8. m.id \in Range(session.subs) \cup session.opening /\ m.id \in 1 .. server.ids
    BY <1>1, <1>4, <2>2 DEF Held
  <2>9. CASE NoneAgain
    <3>1. \A i \in DOMAIN wire' : ~ wire'[i].again
      BY <1>1, <1>2, <2>9, LeftTyped DEF NoneAgain
    <3>2. NoneAgain'
      BY <1>1, <2>7, <2>8, <2>9, <3>1 DEF NoneAgain
    <3> QED BY <1>3, <2>3, <2>4, <2>6, <3>2 DEF IInv
  <2>10. CASE AllForgotten
    <3>1. ~ session.forgot
      BY <1>1, <2>10 DEF AllForgotten, Held
    <3>2. AllForgotten'
      BY <1>1, <2>5, <2>7, <2>8, <2>10, <3>1 DEF AllForgotten
    <3> QED BY <1>3, <2>3, <2>4, <2>6, <3>2 DEF IInv
  <2> QED BY <1>1, <2>9, <2>10
<1>5. CASE Head(wire).id \notin Live
  <2>1. UNCHANGED <<last, counts, heard>>
    BY <1>5 DEF Deliver, Live
  <2>2. Watched' /\ Balanced'
    BY <1>1, <2>1, SameWatched, SameBalanced
  <2>3. Numbered'
    BY <1>1, <1>2, <2>1, LeftNumbered
  <2>4. Typed'
    <3>1. /\ wire' \in Seq(Messages)
          /\ \A i \in DOMAIN wire' : /\ wire'[i].number \in 1 .. setting.data + 1
                                     /\ wire'[i].id \in 1 .. server.ids
      BY <1>1, <1>2, LeftTyped
    <3> QED BY <1>1, <2>1, <3>1 DEF Typed, Live
  <2>5. NoneAgain => NoneAgain'
    <3> SUFFICES ASSUME NoneAgain PROVE NoneAgain'
      OBVIOUS
    <3>1. \A i \in DOMAIN wire' : ~ wire'[i].again
      BY <1>1, <1>2, LeftTyped DEF NoneAgain
    <3> QED BY <1>1, <2>1, <3>1 DEF NoneAgain
  <2>6. AllForgotten => AllForgotten'
    BY <1>1, <2>1 DEF AllForgotten
  <2> QED BY <1>1, <1>3, <2>2, <2>3, <2>4, <2>5, <2>6 DEF IInv
<1> QED BY <1>4, <1>5

LEMMA LoseKeeps ==
  ASSUME IInv, Lose
  PROVE  IInv'
<1>1. /\ Typed /\ Held /\ Watched /\ Numbered /\ Balanced /\ (NoneAgain \/ AllForgotten)
      /\ UNCHANGED <<server, link, session, last, counts, heard>>
      /\ Budget("lose") /\ Spend("lose")
  BY DEF IInv, Lose
<1>2. Milder
  BY <1>1, SpentIsMilder DEF Typed
<1>3. PICK i \in DOMAIN wire : wire' = RemoveAt(wire, i)
  BY DEF Lose
<1>4. LeftOf(wire', wire)
  <2>1. wire \in Seq(Messages)
    BY <1>1 DEF Typed
  <2> QED BY <1>3, <2>1, RemovedIsLeft
<1>5. Watched' /\ Balanced' /\ Numbered'
  <2>1. Watched' /\ Balanced'
    BY <1>1, SameWatched, SameBalanced
  <2>2. Numbered'
    BY <1>1, <1>4, LeftNumbered
  <2> QED BY <2>1, <2>2
<1>6. Typed'
  <2>1. /\ wire' \in Seq(Messages)
        /\ \A j \in DOMAIN wire' : /\ wire'[j].number \in 1 .. setting.data + 1
                                   /\ wire'[j].id \in 1 .. server.ids
    BY <1>1, <1>4, LeftTyped
  <2> QED BY <1>1, <1>2, <2>1 DEF Typed, Live, Milder
<1>7. Held'
  <2>1. wire # <<>>
    <3>1. DOMAIN <<>> = {}
      OBVIOUS
    <3> QED BY <1>3, <3>1
  <2> QED BY <1>1, <2>1 DEF Held, Live
<1>8. NoneAgain => NoneAgain'
  <2> SUFFICES ASSUME NoneAgain PROVE NoneAgain'
    OBVIOUS
  <2>1. \A j \in DOMAIN wire' : ~ wire'[j].again
    BY <1>1, <1>4, LeftTyped DEF NoneAgain
  <2> QED BY <1>1, <1>2, <2>1 DEF NoneAgain, Milder
<1>9. AllForgotten => AllForgotten'
  BY <1>1, <1>2 DEF AllForgotten, Milder
<1> QED BY <1>1, <1>5, <1>6, <1>7, <1>8, <1>9 DEF IInv

\* The supervisor's steps that make and end no subscription.
LEMMA ConnectKeeps ==
  ASSUME IInv, Connect
  PROVE  IInv'
<1>1. /\ Typed /\ Held /\ Watched /\ Numbered /\ Balanced /\ (NoneAgain \/ AllForgotten)
      /\ session.phase = "off" /\ link' = TRUE
      /\ UNCHANGED <<setting, server, wire, last, heard>>
      /\ counts' = [counts EXCEPT !.unresolved = Unresolved]
      /\ session'.phase = "connecting" /\ session'.subs = <<>> /\ session'.opening = {} /\ ~ session'.forgot
      /\ session'.forgot \in BOOLEAN /\ DOMAIN session' = {"phase", "subs", "opening", "groups", "forgot"}
  BY DEF IInv, Connect
<1>2. session.subs = <<>> /\ session.opening = {} /\ ~ link /\ Live = {} /\ Range(<<>>) = {} /\ wire = <<>>
  <2>1. Range(<<>>) = {}
    BY DEF Range
  <2> QED BY <1>1, <2>1 DEF Held
<1>3. Unresolved \in Nat
  <2>1. IsFiniteSet(Tags \ Acquired)
    BY TagAssumption, FS_Subset
  <2> QED BY <2>1, FS_CardinalityType DEF Unresolved
<1>4. counts' \in [DOMAIN NoCounts -> Nat] /\ counts'.gaps <= counts'.missed
      /\ Handlings' = Handlings /\ counts'.missed = counts.missed
  <2>1. counts \in [DOMAIN NoCounts -> Nat] /\ counts.gaps <= counts.missed
        /\ DOMAIN NoCounts = {"noSource", "noStatus", "text", "noServer", "gaps", "missed", "unresolved", "samples"}
    BY <1>1 DEF Typed, NoCounts
  <2>2. counts' \in [DOMAIN NoCounts -> Nat]
    BY <1>1, <1>3, <2>1
  <2>3. counts'.gaps = counts.gaps /\ counts'.missed = counts.missed
        /\ counts'.samples = counts.samples /\ counts'.noSource = counts.noSource
        /\ counts'.noStatus = counts.noStatus /\ counts'.text = counts.text
    BY <1>1, <2>1
  <2> QED BY <2>1, <2>2, <2>3 DEF Handlings
<1>5. Typed'
  <2>1. <<>> \in Seq(Nat)
    BY EmptySeq
  <2> QED BY <1>1, <1>4, <2>1 DEF Typed, Live
<1>6. Held'
  <2>1. DOMAIN <<>> = {}
    OBVIOUS
  <2> QED BY <1>1, <1>2, <2>1 DEF Held, Live
<1>7. Watched' /\ Numbered' /\ Balanced'
  <2>1. Watched'
    BY <1>1, SameWatched
  <2>2. Numbered'
    BY <1>1 DEF Numbered, Fits, InOrder, Live
  <2>3. Due(heard)' = Due(heard) /\ heard'.repeats = heard.repeats
    BY <1>1 DEF Due, Known
  <2>4. Balanced'
    BY <1>1, <1>4, <2>3 DEF Balanced, Handlings
  <2> QED BY <2>1, <2>2, <2>4
<1>8. NoneAgain => NoneAgain'
  BY <1>1 DEF NoneAgain
<1>9. AllForgotten => AllForgotten'
  BY <1>1, <1>2 DEF AllForgotten
<1> QED BY <1>1, <1>5, <1>6, <1>7, <1>8, <1>9 DEF IInv

LEMMA PhaseKeeps ==
  ASSUME IInv, Connected \/ GiveUp
  PROVE  IInv'
<1>1. /\ Typed /\ Held /\ Watched /\ Numbered /\ Balanced /\ (NoneAgain \/ AllForgotten)
      /\ UNCHANGED <<server, last, counts, heard>>
      /\ \E p \in {"on", "closing"} : session' = [session EXCEPT !.phase = p]
  BY DEF IInv, Connected, GiveUp
<1>2. DOMAIN session = {"phase", "subs", "opening", "groups", "forgot"}
  BY <1>1 DEF Typed
<1>3. /\ session'.subs = session.subs /\ session'.opening = session.opening /\ session'.forgot = session.forgot
      /\ DOMAIN session' = {"phase", "subs", "opening", "groups", "forgot"}
      /\ session'.phase \in {"off", "connecting", "on", "closing"}
  BY <1>1, <1>2
<1>4. Watched' /\ Balanced'
  BY <1>1, SameWatched, SameBalanced
<1>5. CASE Connected
  <2>1. session.phase = "connecting" /\ session'.phase = "on" /\ UNCHANGED <<setting, wire, link>>
    BY <1>2, <1>5 DEF Connected
  <2>2. Typed'
    BY <1>1, <1>3, <2>1 DEF Typed, Live
  <2>3. Held'
    BY <1>1, <1>3, <2>1 DEF Held, Live
  <2>4. Numbered'
    BY <1>1, <2>1 DEF Numbered, Fits, InOrder, Live
  <2>5. (NoneAgain => NoneAgain') /\ (AllForgotten => AllForgotten')
    BY <1>1, <1>3, <2>1 DEF NoneAgain, AllForgotten
  <2> QED BY <1>1, <1>4, <2>2, <2>3, <2>4, <2>5 DEF IInv
<1>6. CASE GiveUp
  <2>1. session'.phase = "closing" /\ UNCHANGED <<wire, link>>
    BY <1>2, <1>6 DEF GiveUp
  <2>2. /\ Milder /\ session.phase \in {"connecting", "on"}
        /\ \/ ~ link
           \/ Budget("halfway")
    <3>1. CASE setting' = setting
      BY <1>1, <1>6, <3>1 DEF GiveUp, Milder, Typed
    <3>2. CASE Budget("halfway") /\ Spend("halfway")
      <4>1. Milder
        BY <1>1, <3>2, SpentIsMilder DEF Typed
      <4> QED BY <1>6, <3>2, <4>1 DEF GiveUp
    <3> QED BY <1>6, <3>1, <3>2 DEF GiveUp
  <2>3. Typed'
    BY <1>1, <1>3, <2>1, <2>2 DEF Typed, Live, Milder
  <2>4. Held'
    BY <1>1, <1>3, <2>1, <2>2 DEF Held, Live
  <2>5. Numbered'
    BY <1>1, <2>1 DEF Numbered, Fits, InOrder, Live
  <2>6. NoneAgain => NoneAgain'
    BY <1>1, <1>3, <2>1, <2>2 DEF NoneAgain, Milder
  <2>7. AllForgotten => AllForgotten'
    <3> SUFFICES ASSUME AllForgotten PROVE AllForgotten'
      OBVIOUS
    <3>1. ~ Budget("halfway")
      BY DEF AllForgotten, Budget
    <3>2. ~ link
      BY <2>2, <3>1
    <3> QED BY <1>1, <1>3, <2>1, <2>2, <3>2 DEF AllForgotten, Milder
  <2> QED BY <1>1, <1>4, <2>3, <2>4, <2>5, <2>6, <2>7 DEF IInv
<1> QED BY <1>5, <1>6

\* What the session was making is left behind.
LEMMA DisconnectedKeeps ==
  ASSUME IInv, Disconnected
  PROVE  IInv'
<1>1. /\ Typed /\ Held /\ Watched /\ Numbered /\ Balanced /\ (NoneAgain \/ AllForgotten)
      /\ session.phase = "closing" /\ session.subs = <<>> /\ link' = FALSE /\ wire' = <<>>
      /\ UNCHANGED <<setting, last, counts>>
  BY DEF IInv, Disconnected
<1>2. /\ session'.phase = "off" /\ session'.subs = <<>> /\ session'.opening = {} /\ session'.forgot = session.forgot
      /\ DOMAIN session' = {"phase", "subs", "opening", "groups", "forgot"}
  <2>1. /\ DOMAIN session = {"phase", "subs", "opening", "groups", "forgot"}
        /\ session' = [session EXCEPT !.phase = "off", !.opening = {}]
    BY <1>1 DEF Typed, Disconnected
  <2> QED BY <1>1, <2>1
<1>3. /\ DOMAIN server' = {"ids", "nodes", "subs"} /\ server'.ids = server.ids
      /\ Live' = {}
  <2>1. DOMAIN server = {"ids", "nodes", "subs"} /\ server' = [server EXCEPT !.subs = Empty]
    BY <1>1 DEF Typed, Disconnected
  <2>2. DOMAIN Empty = {}
    BY DEF Empty
  <2> QED BY <2>1, <2>2 DEF Live
<1>4. /\ DOMAIN heard' = {"of", "past", "repeats", "stray", "reused"}
      /\ heard'.of = heard.of /\ heard'.past = heard.past /\ heard'.repeats = heard.repeats
      /\ heard'.stray = heard.stray \cup session.opening
  <2>1. /\ DOMAIN heard = {"of", "past", "repeats", "stray", "reused"}
        /\ heard' = [heard EXCEPT !.stray = @ \cup session.opening]
    BY <1>1 DEF Typed, Disconnected
  <2> QED BY <2>1
<1>5. /\ DOMAIN wire' = {} /\ wire' \in Seq(Messages) /\ session'.subs \in Seq(Nat)
      /\ DOMAIN session'.subs = {} /\ Range(session.subs) = {} /\ Range(session'.subs) = {}
  <2>1. DOMAIN <<>> = {} /\ <<>> \in Seq(Messages) /\ <<>> \in Seq(Nat)
    BY EmptySeq
  <2> QED BY <1>1, <1>2, <2>1 DEF Range
<1>6. ~ session.forgot
  BY <1>1 DEF Held
<1>7. Watched' /\ Balanced'
  BY <1>1, <1>4, SameWatched, SameBalanced
<1>8. Typed'
  BY <1>1, <1>2, <1>3, <1>4, <1>5 DEF Typed
<1>9. Held'
  BY <1>1, <1>2, <1>3, <1>5, <1>6 DEF Held
<1>10. Numbered'
  BY <1>3, <1>5 DEF Numbered
<1>11. NoneAgain => NoneAgain'
  BY <1>1, <1>3, <1>5 DEF NoneAgain
<1>12. AllForgotten => AllForgotten'
  BY <1>1, <1>2, <1>4, <1>5, <1>6 DEF AllForgotten
<1> QED BY <1>1, <1>7, <1>8, <1>9, <1>10, <1>11, <1>12 DEF IInv

\* A subscription gets an id of which nothing is remembered.
LEMMA SubscribeKeeps ==
  ASSUME IInv, Subscribe, ~ heard'.reused
  PROVE  IInv'
<1> DEFINE id == server.ids + 1
<1>1. /\ Typed /\ Held /\ Watched /\ Numbered /\ Balanced /\ (NoneAgain \/ AllForgotten)
      /\ session.phase = "connecting" /\ link /\ session.opening = {}
      /\ UNCHANGED <<setting, wire, link, last, counts>>
      /\ heard' = [Ended(heard, id) EXCEPT !.reused = @ \/ id \in heard.stray \cap DOMAIN last]
  BY DEF IInv, Subscribe
<1>2. server' = [server EXCEPT !.ids = id, !.subs = Put(@, id, [tags |-> {}, next |-> 1])]
  BY DEF Subscribe
<1>3. session' = [session EXCEPT !.opening = {id}]
  BY DEF Subscribe
<1>4. /\ DOMAIN server = {"ids", "nodes", "subs"} /\ server.ids \in Nat /\ id \in Nat /\ id # 0 /\ id > server.ids
      /\ DOMAIN session = {"phase", "subs", "opening", "groups", "forgot"}
      /\ session.subs \in Seq(Nat)
  BY <1>1 DEF Typed
<1> HIDE DEF id
<1>5. /\ DOMAIN server' = {"ids", "nodes", "subs"} /\ server'.ids = id
      /\ server'.subs = Put(server.subs, id, [tags |-> {}, next |-> 1])
  BY <1>2, <1>4
<1>6. /\ Live' = Live \cup {id}
      /\ server'.subs[id] = [tags |-> {}, next |-> 1]
      /\ \A j \in Live \ {id} : server'.subs[j] = server.subs[j]
  BY <1>5 DEF Put, Live
<1>7. /\ DOMAIN session' = {"phase", "subs", "opening", "groups", "forgot"}
      /\ session'.phase = session.phase /\ session'.forgot = session.forgot
      /\ session'.subs = session.subs /\ session'.opening = {id}
  BY <1>3, <1>4
<1>10. Range(session.subs) \subseteq 1 .. server.ids /\ id \notin Range(session.subs) /\ Live = Range(session.subs)
  <2>1. Range(session.subs) \subseteq 1 .. server.ids /\ Live = Range(session.subs)
    BY <1>1 DEF Held
  <2>2. id \notin 1 .. server.ids
    BY <1>4
  <2> QED BY <2>1, <2>2
<1>11. ~ session.forgot
  BY <1>1, <1>4 DEF Held
<1>12. id \notin DOMAIN last
  <2>1. CASE NoneAgain
    <3>1. id \notin 1 .. server.ids
      BY <1>4
    <3> QED BY <2>1, <3>1 DEF NoneAgain
  <2>2. CASE AllForgotten
    <3> SUFFICES ASSUME id \in DOMAIN last PROVE FALSE
      OBVIOUS
    <3>1. id \in heard.stray \cap DOMAIN last
      BY <1>1, <1>10, <2>2 DEF AllForgotten
    <3>2. "reused" \in DOMAIN Ended(heard, id)
      BY <1>1, WatchedIsHistory, DueOfEnded DEF History
    <3>3. heard'.reused = (Ended(heard, id).reused \/ TRUE)
      BY <1>1, <3>1, <3>2
    <3> QED BY <3>3
  <2> QED BY <1>1, <2>1, <2>2
<1>13. /\ heard'.of = Without(heard.of, id) /\ Due(heard)' = Due(heard) /\ heard'.repeats = heard.repeats
       /\ DOMAIN heard' = {"of", "past", "repeats", "stray", "reused"} /\ heard'.past \in Nat
       /\ heard'.stray = heard.stray
  <2>1. PICK h : h = Ended(heard, id)
    OBVIOUS
  <2>2. /\ History(h) /\ Due(h) = Due(heard)
        /\ h.of = Without(heard.of, id) /\ h.repeats = heard.repeats
    BY <1>1, <2>1, WatchedIsHistory, DueOfEnded
  <2>3. DOMAIN h = {"of", "past", "repeats", "stray", "reused"} /\ h.past \in Nat
    BY <2>2 DEF History
  <2>4. /\ DOMAIN heard' = DOMAIN h /\ heard'.of = h.of /\ heard'.past = h.past
        /\ heard'.repeats = h.repeats /\ heard'.stray = h.stray
    <3>1. PICK p : heard' = [h EXCEPT !.reused = p]
      BY <1>1, <2>1
    <3> QED BY <2>3, <3>1
  <2>5. h.stray = heard.stray
    <3>1. DOMAIN heard = {"of", "past", "repeats", "stray", "reused"}
      BY <1>1 DEF Typed
    <3> QED BY <2>1, <3>1 DEF Ended
  <2>6. Due(heard)' = Due(h)
    BY <2>4 DEF Due, Known
  <2> QED BY <2>2, <2>3, <2>4, <2>5, <2>6
<1>14. /\ DOMAIN heard'.of = DOMAIN heard.of
       /\ \A j \in DOMAIN heard.of : heard'.of[j] = heard.of[j]
  <2>1. id \notin DOMAIN heard.of
    BY <1>1, <1>12 DEF Watched
  <2> QED BY <1>13, <2>1 DEF Without, Restrict
<1>15. Watched'
  <2>1. DOMAIN heard'.of = DOMAIN last'
    BY <1>1, <1>14 DEF Watched
  <2>2. \A j \in DOMAIN last' : heard'.of[j] = heard.of[j] /\ last'[j] = last[j] /\ j \in DOMAIN last
    BY <1>1, <1>14 DEF Watched
  <2> QED BY <1>1, <2>1, <2>2 DEF Watched
<1>16. Balanced'
  BY <1>1, <1>13 DEF Balanced
<1>17. \A i \in DOMAIN wire : wire[i].id \in 1 .. server.ids /\ wire[i].id # id
  <2>1. \A i \in DOMAIN wire : wire[i].id \in 1 .. server.ids
    BY <1>1 DEF Typed
  <2>2. id \notin 1 .. server.ids
    BY <1>4
  <2> QED BY <2>1, <2>2
<1>18. Typed'
  <2>1. ASSUME NEW j \in Live'
        PROVE  DOMAIN server'.subs[j] = {"tags", "next"} /\ server'.subs[j].next \in 1 .. setting'.data + 1
    <3>1. CASE j = id
      <4>1. 1 \in 1 .. setting.data + 1
        <5>1. setting.data \in Nat
          BY <1>1, DataIsNat
        <5> QED BY <5>1
      <4> QED BY <1>1, <1>6, <3>1, <4>1
    <3>2. CASE j # id
      <4>1. j \in Live /\ server'.subs[j] = server.subs[j]
        BY <1>6, <3>2
      <4> QED BY <1>1, <4>1 DEF Typed
    <3> QED BY <3>1, <3>2
  <2>2. \A i \in DOMAIN wire : wire[i].id \in 1 .. id
    BY <1>4, <1>17
  <2>3. /\ setting \in Setting /\ wire \in Seq(Messages)
        /\ \A i \in DOMAIN wire : wire[i].number \in 1 .. setting.data + 1
        /\ link \in BOOLEAN /\ session.phase \in {"off", "connecting", "on", "closing"}
        /\ session.forgot \in BOOLEAN
        /\ counts \in [DOMAIN NoCounts -> Nat] /\ counts.gaps <= counts.missed /\ heard.repeats \in Nat
    BY <1>1 DEF Typed
  <2> QED BY <1>1, <1>4, <1>5, <1>7, <1>13, <2>1, <2>2, <2>3 DEF Typed
<1>19. Held'
  <2>1. 1 .. server.ids \subseteq 1 .. id /\ id \in 1 .. id
    BY <1>4
  <2>2. Live' = Range(session'.subs) \cup session'.opening
    BY <1>6, <1>7, <1>10
  <2>3. Range(session'.subs) \cup session'.opening \subseteq 1 .. id
    BY <1>7, <1>10, <2>1
  <2>4. session'.opening \cap Range(session'.subs) = {} /\ \A a, b \in session'.opening : a = b
    BY <1>7, <1>10
  <2> QED BY <1>1, <1>5, <1>7, <1>11, <2>2, <2>3, <2>4 DEF Held
<1>20. Numbered'
  <2>1. ASSUME NEW j \in (DOMAIN last') \cap Live' PROVE last'[j] < server'.subs[j].next
    <3>1. j \in (DOMAIN last) \cap Live /\ j # id /\ last' = last
      BY <1>1, <1>6, <1>12
    <3>2. server'.subs[j] = server.subs[j]
      BY <1>6, <3>1
    <3> QED BY <1>1, <3>1, <3>2 DEF Numbered
  <2>2. \A i \in DOMAIN wire : wire[i].id \in Live' => wire[i].id \in Live
    BY <1>6, <1>17
  <2>3. ASSUME NEW i \in DOMAIN wire', wire'[i].id \in Live' PROVE Fits(wire[i])'
    <3>1. i \in DOMAIN wire /\ wire'[i] = wire[i] /\ wire[i].id \in Live
      BY <1>1, <2>2, <2>3
    <3>2. Fits(wire[i]) /\ server'.subs[wire[i].id] = server.subs[wire[i].id]
      BY <1>1, <1>6, <1>17, <3>1 DEF Numbered
    <3> QED BY <1>1, <3>1, <3>2 DEF Fits
  <2>4. ASSUME NEW i \in DOMAIN wire', NEW j \in DOMAIN wire', i < j
        PROVE  InOrder(wire[i], wire[j])'
    <3>1. InOrder(wire[i], wire[j]) /\ (wire[i].id \in Live' => wire[i].id \in Live)
      BY <1>1, <2>2, <2>4 DEF Numbered
    <3> QED BY <1>1, <3>1 DEF InOrder
  <2> QED BY <2>1, <2>3, <2>4 DEF Numbered
<1>21. NoneAgain => NoneAgain'
  <2>1. 1 .. server.ids \subseteq 1 .. id
    BY <1>4
  <2> QED BY <1>1, <1>5, <2>1 DEF NoneAgain
<1>22. AllForgotten => AllForgotten'
  BY <1>1, <1>7, <1>11, <1>13 DEF AllForgotten
<1> QED BY <1>1, <1>15, <1>16, <1>18, <1>19, <1>20, <1>21, <1>22 DEF IInv

\* A tag more; with the last one of the group, the session holds the subscription.
LEMMA MonitorKeeps ==
  ASSUME IInv, Monitor
  PROVE  IInv'
<1>1. /\ Typed /\ Held /\ Watched /\ Numbered /\ Balanced /\ (NoneAgain \/ AllForgotten)
      /\ session.phase = "connecting" /\ link
      /\ UNCHANGED <<setting, wire, link, last, counts, heard>>
  BY DEF IInv, Monitor
<1>2. PICK id \in session.opening :
        /\ \E t : server' = [server EXCEPT !.subs[id].tags = @ \cup {t}]
        /\ \/ session' = session
           \/ session' = [session EXCEPT !.subs = Append(@, id), !.opening = {}, !.groups = Tail(@)]
  BY DEF Monitor
<1>3. /\ DOMAIN server = {"ids", "nodes", "subs"} /\ session.subs \in Seq(Nat) /\ id \in Nat
      /\ DOMAIN session = {"phase", "subs", "opening", "groups", "forgot"}
      /\ id \in Live /\ DOMAIN server.subs[id] = {"tags", "next"}
      /\ session.opening = {id} /\ id \notin Range(session.subs) /\ ~ session.forgot
      /\ Live = Range(session.subs) \cup {id} /\ Live \subseteq 1 .. server.ids
  BY <1>1, <1>2 DEF Typed, Held
<1>4. /\ DOMAIN server' = {"ids", "nodes", "subs"} /\ server'.ids = server.ids
      /\ Live' = Live
      /\ \A j \in Live : /\ DOMAIN server'.subs[j] = DOMAIN server.subs[j]
                         /\ server'.subs[j].next = server.subs[j].next
  <2>1. /\ DOMAIN server' = {"ids", "nodes", "subs"} /\ server'.ids = server.ids
        /\ \E t : server'.subs = [server.subs EXCEPT ![id].tags = @ \cup {t}]
    BY <1>2, <1>3
  <2>2. /\ DOMAIN server'.subs = DOMAIN server.subs
        /\ \E t : server'.subs[id] = [server.subs[id] EXCEPT !.tags = @ \cup {t}]
        /\ \A j \in Live \ {id} : server'.subs[j] = server.subs[j]
    BY <1>3, <2>1 DEF Live
  <2>3. DOMAIN server'.subs[id] = DOMAIN server.subs[id] /\ server'.subs[id].next = server.subs[id].next
    BY <1>3, <2>2
  <2> QED BY <2>1, <2>2, <2>3 DEF Live
<1>5. Watched' /\ Balanced'
  BY <1>1, SameWatched, SameBalanced
<1>6. Numbered'
  BY <1>1, <1>4 DEF Numbered, Fits, InOrder
<1>7. CASE session' = session
  <2>1. Typed'
    BY <1>1, <1>4, <1>7 DEF Typed
  <2>2. Held'
    BY <1>1, <1>4, <1>7 DEF Held
  <2>3. (NoneAgain => NoneAgain') /\ (AllForgotten => AllForgotten')
    BY <1>1, <1>4, <1>7 DEF NoneAgain, AllForgotten
  <2> QED BY <1>1, <1>5, <1>6, <2>1, <2>2, <2>3 DEF IInv
<1>8. CASE session' = [session EXCEPT !.subs = Append(@, id), !.opening = {}, !.groups = Tail(@)]
  <2>1. /\ DOMAIN session' = {"phase", "subs", "opening", "groups", "forgot"}
        /\ session'.phase = session.phase /\ session'.forgot = session.forgot
        /\ session'.subs = Append(session.subs, id) /\ session'.opening = {}
    BY <1>3, <1>8
  <2>2. /\ session'.subs \in Seq(Nat) /\ Len(session.subs) \in Nat
        /\ DOMAIN session.subs = 1 .. Len(session.subs)
        /\ DOMAIN session'.subs = 1 .. Len(session.subs) + 1
        /\ \A i \in DOMAIN session.subs : session'.subs[i] = session.subs[i]
        /\ session'.subs[Len(session.subs) + 1] = id
    <3>1. session.subs \in Seq(Nat) /\ id \in Nat
      BY <1>3
    <3>2. PICK q : q = session.subs
      OBVIOUS
    <3>3. PICK r : r = session'.subs
      OBVIOUS
    <3>4. q \in Seq(Nat) /\ id \in Nat /\ r = Append(q, id)
      BY <2>1, <3>1, <3>2, <3>3
    <3>5. /\ r \in Seq(Nat) /\ Len(r) = Len(q) + 1
          /\ \A i \in 1 .. Len(q) : r[i] = q[i]
          /\ r[Len(q) + 1] = id
      BY <3>4, Lengthened
    <3>6. DOMAIN q = 1 .. Len(q) /\ DOMAIN r = 1 .. Len(r) /\ Len(q) \in Nat
      BY <3>4, <3>5, LenProperties
    <3> QED BY <3>2, <3>3, <3>5, <3>6
  <2>3. Range(session'.subs) = Range(session.subs) \cup {id}
    <3>1. PICK q : q = session.subs
      OBVIOUS
    <3>2. PICK r : r = session'.subs
      OBVIOUS
    <3>3. PICK n \in Nat : n = Len(q) + 1 /\ DOMAIN q = 1 .. n - 1
      BY <2>2, <3>1
    <3>4. DOMAIN r = 1 .. n /\ r[n] = id /\ \A i \in DOMAIN q : r[i] = q[i]
      BY <2>2, <3>1, <3>2, <3>3
    <3>5. DOMAIN r = (DOMAIN q) \cup {n}
      <4>1. n \in 1 .. n /\ 1 .. n - 1 \subseteq 1 .. n /\ 1 .. n \subseteq (1 .. n - 1) \cup {n}
        BY <3>3
      <4> QED BY <3>3, <3>4, <4>1
    <3>6. Range(r) = Range(q) \cup {id}
      BY <3>4, <3>5 DEF Range
    <3> QED BY <3>1, <3>2, <3>6
  <2>4. Typed'
    BY <1>1, <1>4, <2>1, <2>2 DEF Typed
  <2>5. Held'
    <3>1. ASSUME NEW i \in DOMAIN session'.subs, NEW j \in DOMAIN session'.subs,
                 session'.subs[i] = session'.subs[j]
          PROVE  i = j
      <4>1. \A k \in DOMAIN session.subs : session'.subs[k] \in Range(session.subs)
        BY <2>2 DEF Range
      <4>2. i \in DOMAIN session.subs \/ i = Len(session.subs) + 1
        BY <2>2
      <4>3. j \in DOMAIN session.subs \/ j = Len(session.subs) + 1
        BY <2>2
      <4>4. CASE i \in DOMAIN session.subs /\ j \in DOMAIN session.subs
        BY <1>1, <2>2, <3>1, <4>4 DEF Held
      <4> QED BY <2>2, <1>3, <3>1, <4>1, <4>2, <4>3, <4>4
    <3>2. Live' = Range(session'.subs) \cup session'.opening /\ Range(session'.subs) \subseteq 1 .. server'.ids
      BY <1>3, <1>4, <2>1, <2>3
    <3> QED BY <1>1, <1>3, <2>1, <3>1, <3>2 DEF Held
  <2>6. (NoneAgain => NoneAgain') /\ (AllForgotten => AllForgotten')
    BY <1>1, <1>3, <1>4, <2>1, <2>3 DEF NoneAgain, AllForgotten
  <2> QED BY <1>1, <1>5, <1>6, <2>4, <2>5, <2>6 DEF IInv
<1> QED BY <1>2, <1>7, <1>8

LEMMA ForgetFirstKeeps ==
  ASSUME IInv, ForgetFirst
  PROVE  IInv'
<1> DEFINE id == Head(session.subs)
<1>1. /\ Typed /\ Held /\ Watched /\ Numbered /\ Balanced /\ (NoneAgain \/ AllForgotten)
      /\ session.phase = "closing" /\ session.subs # <<>>
      /\ UNCHANGED <<setting, server, wire, link, counts>>
      /\ last' = Without(last, id)
      /\ heard' = Ended(heard, id)
  BY DEF IInv, ForgetFirst, Forget
<1>2. /\ DOMAIN session' = {"phase", "subs", "opening", "groups", "forgot"}
      /\ session'.phase = session.phase /\ session'.subs = session.subs /\ session'.opening = session.opening
      /\ session'.forgot = TRUE
  <2>1. DOMAIN session = {"phase", "subs", "opening", "groups", "forgot"} /\ session' = [session EXCEPT !.forgot = TRUE]
    BY <1>1 DEF Typed, ForgetFirst
  <2> QED BY <2>1
<1> HIDE DEF id
<1>3. /\ DOMAIN last' = (DOMAIN last) \ {id}
      /\ \A j \in (DOMAIN last) \ {id} : last'[j] = last[j]
  BY <1>1 DEF Without, Restrict
<1>4. /\ heard'.of = Without(heard.of, id) /\ Due(heard)' = Due(heard) /\ heard'.repeats = heard.repeats
      /\ DOMAIN heard' = {"of", "past", "repeats", "stray", "reused"} /\ heard'.past \in Nat
      /\ heard'.stray = heard.stray
  <2>1. PICK h : h = heard'
    OBVIOUS
  <2>2. /\ History(h) /\ Due(h) = Due(heard)
        /\ h.of = Without(heard.of, id) /\ h.repeats = heard.repeats
    BY <1>1, <2>1, WatchedIsHistory, DueOfEnded
  <2>3. Due(h) = Due(heard)'
    BY <2>1 DEF Due, Known
  <2>4. heard'.stray = heard.stray
    <3>1. DOMAIN heard = {"of", "past", "repeats", "stray", "reused"}
      BY <1>1 DEF Typed
    <3> QED BY <1>1, <3>1 DEF Ended
  <2> QED BY <2>1, <2>2, <2>3, <2>4 DEF History
<1>5. Watched'
  <2>1. DOMAIN heard'.of = DOMAIN last' /\ \A j \in DOMAIN last' : heard'.of[j] = heard.of[j]
    BY <1>1, <1>3, <1>4 DEF Watched, Without, Restrict
  <2>2. IsFiniteSet(DOMAIN last')
    <3>1. IsFiniteSet(DOMAIN last)
      BY <1>1 DEF Watched
    <3> QED BY <1>3, <3>1, FS_RemoveElement
  <2>3. DOMAIN last' \subseteq DOMAIN last /\ \A j \in DOMAIN last' : last'[j] = last[j]
    BY <1>3
  <2> QED BY <1>1, <2>1, <2>2, <2>3 DEF Watched
<1>6. Balanced'
  BY <1>1, <1>4 DEF Balanced
<1>7. Typed'
  BY <1>1, <1>2, <1>4 DEF Typed, Live
<1>8. Held'
  BY <1>1, <1>2 DEF Held, Live
<1>9. \A i \in DOMAIN wire : ~ wire[i].again
  <2>1. CASE NoneAgain
    BY <2>1 DEF NoneAgain
  <2>2. CASE AllForgotten
    <3>1. wire = <<>>
      BY <1>1, <2>2 DEF AllForgotten, Held
    <3>2. DOMAIN <<>> = {}
      OBVIOUS
    <3> QED BY <3>1, <3>2
  <2> QED BY <1>1, <2>1, <2>2
<1>10. Numbered'
  <2>1. ASSUME NEW j \in (DOMAIN last') \cap Live' PROVE last'[j] < server'.subs[j].next
    <3>1. j \in (DOMAIN last) \cap Live /\ last'[j] = last[j] /\ server' = server
      BY <1>1, <1>3 DEF Live
    <3> QED BY <1>1, <3>1 DEF Numbered
  <2>2. ASSUME NEW i \in DOMAIN wire', wire'[i].id \in Live' PROVE Fits(wire[i])'
    <3>1. i \in DOMAIN wire /\ wire'[i] = wire[i] /\ wire[i].id \in Live /\ server' = server
      BY <1>1, <2>2 DEF Live
    <3>2. Fits(wire[i]) /\ ~ wire[i].again
      BY <1>1, <1>9, <3>1 DEF Numbered
    <3> QED BY <1>3, <3>1, <3>2 DEF Fits
  <2>3. ASSUME NEW i \in DOMAIN wire', NEW j \in DOMAIN wire', i < j
        PROVE  InOrder(wire[i], wire[j])'
    <3>1. InOrder(wire[i], wire[j])
      BY <1>1, <2>3 DEF Numbered
    <3> QED BY <1>1, <3>1 DEF InOrder, Live
  <2> QED BY <2>1, <2>2, <2>3 DEF Numbered
<1>11. NoneAgain => NoneAgain'
  BY <1>1, <1>3 DEF NoneAgain
<1>12. AllForgotten => AllForgotten'
  BY <1>1, <1>2, <1>3, <1>4 DEF AllForgotten, id
<1> QED BY <1>1, <1>5, <1>6, <1>7, <1>8, <1>10, <1>11, <1>12 DEF IInv

LEMMA DeleteFirstKeeps ==
  ASSUME IInv, DeleteFirst
  PROVE  IInv'
<1> DEFINE id == Head(session.subs)
<1>1. /\ Typed /\ Held /\ Watched /\ Numbered /\ Balanced /\ (NoneAgain \/ AllForgotten)
      /\ session.phase = "closing" /\ session.forgot
      /\ UNCHANGED <<setting, wire, link, last, counts, heard>>
  BY DEF IInv, DeleteFirst
<1>2. /\ DOMAIN session' = {"phase", "subs", "opening", "groups", "forgot"}
      /\ session'.phase = session.phase /\ session'.subs = Tail(session.subs) /\ session'.opening = session.opening
      /\ session'.forgot = FALSE
  <2>1. /\ DOMAIN session = {"phase", "subs", "opening", "groups", "forgot"}
        /\ session' = [session EXCEPT !.forgot = FALSE, !.subs = Tail(@)]
    BY <1>1 DEF Typed, DeleteFirst
  <2> QED BY <2>1
<1>3. /\ DOMAIN server' = {"ids", "nodes", "subs"} /\ server'.ids = server.ids
      /\ server'.subs = Without(server.subs, id)
  <2>1. DOMAIN server = {"ids", "nodes", "subs"} /\ server' = [server EXCEPT !.subs = Without(@, id)]
    BY <1>1 DEF Typed, DeleteFirst
  <2> HIDE DEF id
  <2> QED BY <2>1
<1>4. session.subs # <<>> /\ session.subs \in Seq(Nat)
  BY <1>1 DEF Held, Typed
<1>5. /\ id = session.subs[1] /\ 1 \in DOMAIN session.subs
      /\ session'.subs \in Seq(Nat)
      /\ \A j \in DOMAIN session'.subs : /\ j + 1 \in DOMAIN session.subs /\ j \in Nat \ {0}
                                         /\ session'.subs[j] = session.subs[j + 1]
  BY <1>2, <1>4, TailFacts
<1> HIDE DEF id
<1>6. Live' = Live \ {id} /\ \A j \in Live' : server'.subs[j] = server.subs[j]
  BY <1>3 DEF Live, Without, Restrict
<1>7. /\ \A i, j \in DOMAIN session.subs : session.subs[i] = session.subs[j] => i = j
      /\ Range(session'.subs) = Range(session.subs) \ {id}
  <2>1. \A i, j \in DOMAIN session.subs : session.subs[i] = session.subs[j] => i = j
    BY <1>1 DEF Held
  <2>2. \A j \in DOMAIN session'.subs : j + 1 # 1
    BY <1>5
  <2>3. ASSUME NEW x \in Range(session'.subs) PROVE x \in Range(session.subs) \ {id}
    BY <1>5, <2>1, <2>2 DEF Range
  <2>4. ASSUME NEW x \in Range(session.subs) \ {id} PROVE x \in Range(session'.subs)
    <3>1. PICK i \in DOMAIN session.subs : x = session.subs[i] /\ i # 1
      BY <1>5 DEF Range
    <3>2. DOMAIN session.subs = 1 .. Len(session.subs) /\ Len(session.subs) \in Nat
      BY <1>4, LenProperties
    <3>3. Len(session'.subs) = Len(session.subs) - 1 /\ DOMAIN session'.subs = 1 .. Len(session'.subs)
      <4>1. Len(session'.subs) = Len(session.subs) - 1
        BY <1>2, <1>4, HeadTailProperties
      <4> QED BY <1>5, <4>1, LenProperties
    <3>4. i - 1 \in DOMAIN session'.subs /\ (i - 1) + 1 = i
      BY <3>1, <3>2, <3>3
    <3>5. session'.subs[i - 1] = session.subs[i]
      BY <1>5, <3>4
    <3> QED BY <3>1, <3>4, <3>5 DEF Range
  <2> QED BY <2>1, <2>3, <2>4
<1>8. Watched' /\ Balanced'
  BY <1>1, SameWatched, SameBalanced
<1>9. Typed'
  BY <1>1, <1>2, <1>3, <1>5, <1>6 DEF Typed
<1>10. Held'
  <2>1. ASSUME NEW i \in DOMAIN session'.subs, NEW j \in DOMAIN session'.subs,
               session'.subs[i] = session'.subs[j]
        PROVE  i = j
    <3>1. i + 1 = j + 1 /\ i \in Nat /\ j \in Nat
      BY <1>5, <1>7, <2>1
    <3> QED BY <3>1
  <2>2. /\ Live = IF link THEN Range(session.subs) \cup session.opening ELSE {}
        /\ id \notin session.opening
    BY <1>1, <1>5 DEF Held, Range
  <2>3. Live' = IF link THEN Range(session'.subs) \cup session'.opening ELSE {}
    BY <1>2, <1>6, <1>7, <2>2
  <2> QED BY <1>1, <1>2, <1>3, <1>7, <2>1, <2>3 DEF Held
<1>11. Numbered'
  <2>1. ASSUME NEW j \in (DOMAIN last') \cap Live' PROVE last'[j] < server'.subs[j].next
    <3>1. j \in (DOMAIN last) \cap Live /\ last' = last /\ server'.subs[j] = server.subs[j]
      BY <1>1, <1>6
    <3> QED BY <1>1, <3>1 DEF Numbered
  <2>2. ASSUME NEW i \in DOMAIN wire', wire'[i].id \in Live' PROVE Fits(wire[i])'
    <3>1. i \in DOMAIN wire /\ wire'[i] = wire[i] /\ wire[i].id \in Live
          /\ server'.subs[wire[i].id] = server.subs[wire[i].id]
      BY <1>1, <1>6, <2>2
    <3>2. Fits(wire[i])
      BY <1>1, <3>1 DEF Numbered
    <3> QED BY <1>1, <3>1, <3>2 DEF Fits
  <2>3. ASSUME NEW i \in DOMAIN wire', NEW j \in DOMAIN wire', i < j
        PROVE  InOrder(wire[i], wire[j])'
    <3>1. InOrder(wire[i], wire[j]) /\ Live' \subseteq Live
      BY <1>1, <1>6, <2>3 DEF Numbered
    <3> QED BY <1>1, <3>1 DEF InOrder
  <2> QED BY <2>1, <2>2, <2>3 DEF Numbered
<1>12. NoneAgain => NoneAgain'
  BY <1>1, <1>3 DEF NoneAgain
<1>13. AllForgotten => AllForgotten'
  BY <1>1, <1>2, <1>7 DEF AllForgotten, id
<1> QED BY <1>1, <1>8, <1>9, <1>10, <1>11, <1>12, <1>13 DEF IInv

\* A message on the way is typed as Message says.
LEMMA AppendedTyped ==
  ASSUME Typed, NEW m \in Messages, wire' = Append(wire, m),
         m.number \in 1 .. setting.data + 1, m.id \in 1 .. server.ids
  PROVE  /\ wire' \in Seq(Messages)
         /\ \A i \in DOMAIN wire' : /\ wire'[i].number \in 1 .. setting.data + 1
                                    /\ wire'[i].id \in 1 .. server.ids
         /\ (\A i \in DOMAIN wire : ~ wire[i].again) /\ ~ m.again => \A i \in DOMAIN wire' : ~ wire'[i].again
<1>1. /\ wire' \in Seq(Messages)
      /\ \A j \in DOMAIN wire' : wire'[j] = m \/ (j \in DOMAIN wire /\ wire'[j] = wire[j])
  BY AppendFacts DEF Typed
<1> QED BY <1>1 DEF Typed

LEMMA LiveIsHeld ==
  ASSUME Typed, Held, NEW id \in Live
  PROVE  /\ link /\ id \in 1 .. server.ids /\ id \in Nat
         /\ server.subs[id].next \in 1 .. setting.data + 1 /\ server.subs[id].next \in Nat \ {0}
<1>1. link /\ id \in 1 .. server.ids
  BY DEF Held
<1>2. id \in Nat
  BY <1>1
<1>3. server.subs[id].next \in 1 .. setting.data + 1
  BY DEF Typed
<1> QED BY <1>1, <1>2, <1>3, DataIsNat

\* What a message on the way stands behind.
LEMMA BehindAll ==
  ASSUME Typed, Numbered, NEW m \in Messages, m.number = server.subs[m.id].next
  PROVE  \A i \in DOMAIN wire : InOrder(wire[i], m)
<1> SUFFICES ASSUME NEW i \in DOMAIN wire, wire[i].id = m.id, wire[i].id \in Live, ~ wire[i].again
             PROVE  wire[i].number <= m.number /\ (~ wire[i].keep => wire[i].number # m.number)
  BY DEF InOrder
<1>1. Fits(wire[i])
  BY DEF Numbered
<1>2. wire[i].number \in Nat /\ m.number \in Nat
  <2>1. wire[i] \in Messages
    BY SeqDomain DEF Typed
  <2> QED BY <2>1 DEF Messages
<1> QED BY <1>1, <1>2 DEF Fits

LEMMA PublishKeeps ==
  ASSUME IInv, NEW id \in Live, Publish(id)
  PROVE  IInv'
<1> DEFINE n == server.subs[id].next
<1>1. /\ Typed /\ Held /\ Watched /\ Numbered /\ Balanced /\ (NoneAgain \/ AllForgotten)
      /\ link /\ n <= setting.data
      /\ UNCHANGED <<setting, link, session, last, counts, heard>>
  BY DEF IInv, Publish
<1>2. PICK value \in setting.values : wire' = Append(wire, Message(id, FALSE, value))
  BY DEF Publish
<1>3. PICK m : m = Message(id, FALSE, value)
  OBVIOUS
<1>4. id \in 1 .. server.ids /\ id \in Nat /\ n \in 1 .. setting.data + 1 /\ n \in Nat \ {0} /\ setting.data \in Nat
  BY <1>1, LiveIsHeld, DataIsNat
<1>5. /\ m.id = id /\ m.number = n /\ m.keep = FALSE /\ m.again = FALSE /\ m \in Messages
  <2>1. value \in SUBSET Marks
    BY <1>1 DEF Typed, Setting, Marks
  <2> QED BY <1>3, <1>4, <2>1 DEF Message, Messages
<1>6. /\ DOMAIN server' = {"ids", "nodes", "subs"} /\ server'.ids = server.ids
      /\ Live' = Live
      /\ DOMAIN server'.subs[id] = {"tags", "next"} /\ server'.subs[id].next = n + 1
      /\ \A j \in Live \ {id} : server'.subs[j] = server.subs[j]
  <2>1. /\ server' = [server EXCEPT !.subs[id].next = @ + 1] /\ DOMAIN server = {"ids", "nodes", "subs"}
        /\ DOMAIN server.subs[id] = {"tags", "next"}
    BY <1>1 DEF Publish, Typed
  <2>2. /\ DOMAIN server' = {"ids", "nodes", "subs"} /\ server'.ids = server.ids
        /\ server'.subs = [server.subs EXCEPT ![id].next = @ + 1]
    BY <2>1
  <2> QED BY <2>1, <2>2 DEF Live
<1> HIDE DEF n
<1>7. /\ wire' \in Seq(Messages)
      /\ \A i \in DOMAIN wire' : /\ wire'[i].number \in 1 .. setting.data + 1
                                 /\ wire'[i].id \in 1 .. server.ids
      /\ (\A i \in DOMAIN wire : ~ wire[i].again) => \A i \in DOMAIN wire' : ~ wire'[i].again
  BY <1>1, <1>2, <1>3, <1>4, <1>5, AppendedTyped
<1>8. Typed'
  <2>1. n + 1 \in 1 .. setting.data + 1
    BY <1>1, <1>4
  <2>2. ASSUME NEW j \in Live'
        PROVE  DOMAIN server'.subs[j] = {"tags", "next"} /\ server'.subs[j].next \in 1 .. setting'.data + 1
    <3>1. CASE j = id
      BY <1>1, <1>6, <2>1, <3>1
    <3>2. CASE j # id
      BY <1>1, <1>6, <3>2 DEF Typed
    <3> QED BY <3>1, <3>2
  <2> QED BY <1>1, <1>6, <1>7, <2>2 DEF Typed
<1>9. Held'
  BY <1>1, <1>6 DEF Held
<1>10. Watched' /\ Balanced'
  BY <1>1, SameWatched, SameBalanced
<1>11. Numbered'
  <2>1. ASSUME NEW j \in Live
        PROVE  server.subs[j].next <= server'.subs[j].next /\ server'.subs[j].next \in Nat
    <3>1. server.subs[j].next \in Nat
      BY <1>1, DataIsNat
    <3>2. CASE j = id
      BY <1>4, <1>6, <3>2 DEF n
    <3>3. CASE j # id
      BY <1>6, <3>1, <3>3
    <3> QED BY <3>2, <3>3
  <2>2. Fits(m)'
    <3>1. n < n + 1
      BY <1>4
    <3>2. id \in DOMAIN last => last[id] < n
      BY <1>1 DEF Numbered, n
    <3> QED BY <1>1, <1>5, <1>6, <3>1, <3>2 DEF Fits
  <2>3. \A i \in DOMAIN wire : InOrder(wire[i], m)
    BY <1>1, <1>5, BehindAll DEF n
  <2>4. wire' = Append(wire, m) /\ last' = last /\ m \in Messages /\ m.id \in Live
    BY <1>1, <1>2, <1>3, <1>5
  <2> QED BY <1>1, <1>6, <2>1, <2>2, <2>3, <2>4, SentNumbered
<1>12. NoneAgain => NoneAgain'
  BY <1>1, <1>6, <1>7 DEF NoneAgain
<1>13. AllForgotten => AllForgotten'
  BY <1>1 DEF AllForgotten
<1> QED BY <1>1, <1>8, <1>9, <1>10, <1>11, <1>12, <1>13 DEF IInv

LEMMA KeepAliveKeeps ==
  ASSUME IInv, NEW id \in Live, KeepAlive(id)
  PROVE  IInv'
<1> DEFINE n == server.subs[id].next
<1>1. /\ Typed /\ Held /\ Watched /\ Numbered /\ Balanced /\ (NoneAgain \/ AllForgotten)
      /\ link /\ UNCHANGED <<setting, server, link, session, last, counts, heard>>
  BY DEF IInv, KeepAlive
<1>2. PICK m : m = Message(id, TRUE, {})
  OBVIOUS
<1>3. wire' = Append(wire, m)
  BY <1>2 DEF KeepAlive
<1>4. id \in 1 .. server.ids /\ id \in Nat /\ n \in 1 .. setting.data + 1 /\ n \in Nat \ {0} /\ setting.data \in Nat
  BY <1>1, LiveIsHeld, DataIsNat
<1>5. m.id = id /\ m.number = n /\ m.keep = TRUE /\ m.again = FALSE /\ m \in Messages
  BY <1>2, <1>4 DEF Message, Messages
<1> HIDE DEF n
<1>6. /\ wire' \in Seq(Messages)
      /\ \A i \in DOMAIN wire' : /\ wire'[i].number \in 1 .. setting.data + 1
                                 /\ wire'[i].id \in 1 .. server.ids
      /\ (\A i \in DOMAIN wire : ~ wire[i].again) => \A i \in DOMAIN wire' : ~ wire'[i].again
  BY <1>1, <1>3, <1>4, <1>5, AppendedTyped
<1>7. Typed'
  BY <1>1, <1>6 DEF Typed, Live
<1>8. Held' /\ Watched' /\ Balanced'
  <2>1. Held'
    BY <1>1 DEF Held, Live
  <2> QED BY <1>1, <2>1, SameWatched, SameBalanced
<1>9. Numbered'
  <2>1. \A j \in Live : server.subs[j].next <= server'.subs[j].next /\ server'.subs[j].next \in Nat
    <3>1. \A j \in Live : server.subs[j].next \in Nat
      BY <1>1, DataIsNat
    <3> QED BY <1>1, <3>1
  <2>2. Fits(m)'
    <3>1. server'.subs[id].next = n /\ n <= n
      BY <1>1, <1>4 DEF n
    <3> QED BY <1>5, <3>1 DEF Fits
  <2>3. \A i \in DOMAIN wire : InOrder(wire[i], m)
    BY <1>5 DEF InOrder
  <2>4. wire' = Append(wire, m) /\ last' = last /\ m \in Messages /\ m.id \in Live /\ Live' = Live
    BY <1>1, <1>3, <1>5 DEF Live
  <2> QED BY <1>1, <2>1, <2>2, <2>3, <2>4, SentNumbered
<1>10. NoneAgain => NoneAgain'
  BY <1>1, <1>6 DEF NoneAgain
<1>11. AllForgotten => AllForgotten'
  BY <1>1 DEF AllForgotten
<1> QED BY <1>1, <1>7, <1>8, <1>9, <1>10, <1>11 DEF IInv

LEMMA RepublishKeeps ==
  ASSUME IInv, NEW id \in Live, Republish(id)
  PROVE  IInv'
<1>1. /\ Typed /\ Held /\ Watched /\ Numbered /\ Balanced /\ (NoneAgain \/ AllForgotten)
      /\ link /\ UNCHANGED <<server, link, session, last, counts, heard>>
      /\ Budget("repeat") /\ Spend("repeat") /\ id \in DOMAIN heard.of
  BY DEF IInv, Republish
<1>2. PICK n \in heard.of[id].got :
        wire' = Append(wire, [Message(id, FALSE, {}) EXCEPT !.number = n, !.again = TRUE])
  BY DEF Republish
<1>3. PICK m : m = [Message(id, FALSE, {}) EXCEPT !.number = n, !.again = TRUE]
  OBVIOUS
<1>4. Milder /\ AllForgotten
  <2>1. Milder
    BY <1>1, SpentIsMilder DEF Typed
  <2>2. ~ NoneAgain
    BY <1>1 DEF NoneAgain, Budget
  <2> QED BY <1>1, <2>1, <2>2
<1>5. /\ id \in 1 .. server.ids /\ id \in Nat /\ id \in DOMAIN last /\ last[id] \in Nat
      /\ n \in 1 .. last[id] /\ last[id] < server.subs[id].next
      /\ server.subs[id].next \in 1 .. setting.data + 1 /\ setting.data \in Nat
  <2>1. id \in 1 .. server.ids /\ id \in Nat
    BY <1>1, LiveIsHeld
  <2>2. id \in DOMAIN last /\ last[id] \in Nat /\ heard.of[id].got \subseteq 1 .. last[id]
    BY <1>1 DEF Watched
  <2>3. last[id] < server.subs[id].next
    BY <1>1, <2>2 DEF Numbered
  <2>4. server.subs[id].next \in 1 .. setting.data + 1 /\ setting.data \in Nat
    BY <1>1, LiveIsHeld, DataIsNat
  <2> QED BY <2>1, <2>2, <2>3, <2>4
<1>6. n \in 1 .. setting.data + 1 /\ n \in Nat /\ n <= last[id]
  BY <1>5
<1>7. m.id = id /\ m.number = n /\ m.keep = FALSE /\ m.again = TRUE /\ m \in Messages
  BY <1>3, <1>5, <1>6 DEF Message, Messages
<1>8. /\ wire' \in Seq(Messages)
      /\ \A i \in DOMAIN wire' : /\ wire'[i].number \in 1 .. setting.data + 1
                                 /\ wire'[i].id \in 1 .. server.ids
  BY <1>1, <1>2, <1>3, <1>5, <1>6, <1>7, AppendedTyped
<1>9. Typed'
  BY <1>1, <1>4, <1>8 DEF Typed, Live, Milder
<1>10. Held' /\ Watched' /\ Balanced'
  <2>1. Held'
    BY <1>1 DEF Held, Live
  <2> QED BY <1>1, <2>1, SameWatched, SameBalanced
<1>11. Numbered'
  <2>1. \A j \in Live : server.subs[j].next <= server'.subs[j].next /\ server'.subs[j].next \in Nat
    <3>1. \A j \in Live : server.subs[j].next \in Nat
      BY <1>1, DataIsNat
    <3> QED BY <1>1, <3>1
  <2>2. Fits(m)'
    BY <1>1, <1>5, <1>6, <1>7 DEF Fits
  <2>3. \A i \in DOMAIN wire : InOrder(wire[i], m)
    BY <1>7 DEF InOrder
  <2>4. wire' = Append(wire, m) /\ last' = last /\ m \in Messages /\ m.id \in Live /\ Live' = Live
    BY <1>1, <1>2, <1>3, <1>7 DEF Live
  <2> QED BY <1>1, <2>1, <2>2, <2>3, <2>4, SentNumbered
<1>12. AllForgotten'
  BY <1>1, <1>4 DEF AllForgotten, Milder
<1> QED BY <1>9, <1>10, <1>11, <1>12 DEF IInv

\* The connection is lost, or the source restarts.
LEMMA BreakKeeps ==
  ASSUME IInv, Cut \/ Restart
  PROVE  IInv'
<1>1. /\ Typed /\ Held /\ Watched /\ Numbered /\ Balanced /\ (NoneAgain \/ AllForgotten)
      /\ UNCHANGED <<session, last, counts, heard>>
      /\ link' = FALSE
      /\ wire' = <<>>
  BY DEF IInv, Cut, Restart
<1>2. Milder
  <2>1. (Budget("cut") /\ Spend("cut")) \/ (Budget("restart") /\ Spend("restart"))
    BY DEF Cut, Restart
  <2> QED BY <1>1, <2>1, SpentIsMilder DEF Typed
<1>3. /\ DOMAIN server' = {"ids", "nodes", "subs"} /\ server'.subs = Empty /\ server'.ids \in Nat
      /\ server'.ids = server.ids \/ Budget("restart")
  <2>1. CASE Cut
    <3>1. server' = [server EXCEPT !.subs = Empty] /\ DOMAIN server = {"ids", "nodes", "subs"} /\ server.ids \in Nat
      BY <1>1, <2>1 DEF Cut, Typed
    <3> QED BY <3>1
  <2>2. CASE Restart
    <3>1. PICK nodes : server' = [ids |-> 0, nodes |-> nodes, subs |-> Empty]
      BY <2>2 DEF Restart
    <3> QED BY <2>2, <3>1 DEF Restart
  <2> QED BY <2>1, <2>2
<1>4. Live' = {}
  BY <1>3 DEF Live, Empty
<1>5. DOMAIN wire' = {} /\ wire' \in Seq(Messages)
  <2>1. DOMAIN <<>> = {} /\ <<>> \in Seq(Messages)
    BY EmptySeq
  <2> QED BY <1>1, <2>1
<1>6. Typed'
  BY <1>1, <1>2, <1>3, <1>4, <1>5 DEF Typed, Milder
<1>7. Held'
  BY <1>1, <1>4 DEF Held
<1>8. Watched' /\ Balanced'
  BY <1>1, SameWatched, SameBalanced
<1>9. Numbered'
  BY <1>4, <1>5 DEF Numbered
<1>10. NoneAgain => NoneAgain'
  BY <1>1, <1>2, <1>3, <1>5 DEF NoneAgain, Milder, Budget
<1>11. AllForgotten => AllForgotten'
  BY <1>1, <1>2 DEF AllForgotten, Milder
<1> QED BY <1>1, <1>6, <1>7, <1>8, <1>9, <1>10, <1>11 DEF IInv

LEMMA IdleKeeps ==
  ASSUME IInv, UNCHANGED <<setting, server, wire, link, session, last, counts, heard>>
  PROVE  IInv'
<1>1. Typed' /\ Held' /\ Watched' /\ Balanced'
  <2>1. Typed /\ Held /\ Watched /\ Balanced
    BY DEF IInv
  <2>2. Typed'
    BY <2>1 DEF Typed, Live
  <2>3. Held'
    BY <2>1 DEF Held, Live
  <2> QED BY <2>1, <2>2, <2>3, SameWatched, SameBalanced
<1>2. Numbered'
  BY DEF IInv, Numbered, Fits, InOrder, Live
<1>3. NoneAgain' \/ AllForgotten'
  BY DEF IInv, NoneAgain, AllForgotten
<1> QED BY <1>1, <1>2, <1>3 DEF IInv

LEMMA StepKeeps ==
  ASSUME IInv, [Next]_vars, ~ heard'.reused
  PROVE  IInv'
<1>1. CASE Deliver
  BY <1>1, DeliverKeeps
<1>2. CASE Supervise
  BY <1>2, ConnectKeeps, SubscribeKeeps, MonitorKeeps, PhaseKeeps, ForgetFirstKeeps, DeleteFirstKeeps, DisconnectedKeeps DEF Supervise
<1>3. CASE Source
  BY <1>3, PublishKeeps, KeepAliveKeeps, RepublishKeeps, LoseKeeps, BreakKeeps DEF Source, Live
<1>4. CASE Browse
  BY <1>4, IdleKeeps DEF Browse
<1>5. CASE UNCHANGED vars
  BY <1>5, IdleKeeps DEF vars
<1> QED BY <1>1, <1>2, <1>3, <1>4, <1>5 DEF Next

\* That an id was given again is not taken back.
LEMMA ReusedStays ==
  ASSUME DOMAIN heard = {"of", "past", "repeats", "stray", "reused"}, [Next]_vars
  PROVE  /\ DOMAIN heard' = {"of", "past", "repeats", "stray", "reused"}
         /\ heard.reused => heard'.reused
<1>1. CASE heard' = heard
  BY <1>1
<1>2. CASE \E m : heard' = Told(heard, m)
  <2>1. \E x : heard' = [heard EXCEPT !.repeats = x] \/ heard' = [heard EXCEPT !.of = x]
    BY <1>2 DEF Told
  <2> QED BY <2>1
<1>3. CASE \E id : heard' = Ended(heard, id)
  <2>1. \E x, y : heard' = [heard EXCEPT !.of = x, !.past = y]
    BY <1>3 DEF Ended
  <2> QED BY <2>1
<1>4. CASE Subscribe
  <2>1. PICK x, y, p : heard' = [[heard EXCEPT !.of = x, !.past = y] EXCEPT !.reused = @ \/ p]
    BY <1>4 DEF Subscribe, Ended
  <2>2. PICK h : h = [heard EXCEPT !.of = x, !.past = y]
    OBVIOUS
  <2>3. DOMAIN h = DOMAIN heard /\ h.reused = heard.reused
    BY <2>2
  <2>4. DOMAIN heard' = DOMAIN h /\ heard'.reused = (h.reused \/ p)
    BY <2>1, <2>2, <2>3
  <2> QED BY <2>3, <2>4
<1>5. CASE Disconnected
  <2>1. PICK x : heard' = [heard EXCEPT !.stray = x]
    BY <1>5 DEF Disconnected
  <2> QED BY <2>1
<1> QED BY <1>1, <1>2, <1>3, <1>4, <1>5
    DEF Next, vars, Deliver, Handle, Supervise, Connect, Monitor, Connected, GiveUp, ForgetFirst, DeleteFirst,
        Source, Publish, KeepAlive, Republish, Lose, Cut, Restart, Browse

LEMMA InitKeeps ==
  ASSUME Init, OneTrouble
  PROVE  IInv
<1>1. /\ setting \in Setting /\ (setting.halfway = 0 \/ (setting.restart = 0 /\ setting.repeat = 0))
  BY SettingAssumption DEF Init, OneTrouble
<1>2. PICK nodes : server = [ids |-> 0, nodes |-> nodes, subs |-> Empty]
  BY DEF Init
<1>3. /\ wire = <<>> /\ link = FALSE /\ last = Empty /\ counts = NoCounts
      /\ session = [phase |-> "off", subs |-> <<>>, opening |-> {}, groups |-> <<>>, forgot |-> FALSE]
      /\ heard = [of |-> Empty, past |-> 0, repeats |-> 0, stray |-> {}, reused |-> FALSE]
  BY DEF Init
<1>4. Live = {} /\ DOMAIN last = {} /\ DOMAIN heard.of = {} /\ DOMAIN wire = {} /\ DOMAIN session.subs = {}
      /\ Range(session.subs) = {}
  <2>1. DOMAIN <<>> = {}
    OBVIOUS
  <2>2. DOMAIN Empty = {}
    BY DEF Empty
  <2> QED BY <1>2, <1>3, <2>1, <2>2 DEF Live, Range
<1>5. Typed
  <2>1. <<>> \in Seq(Messages) /\ <<>> \in Seq(Nat)
    BY EmptySeq
  <2>2. counts \in [DOMAIN NoCounts -> Nat] /\ counts.gaps <= counts.missed
    BY <1>3 DEF NoCounts
  <2> QED BY <1>1, <1>2, <1>3, <1>4, <2>1, <2>2 DEF Typed
<1>6. Held
  BY <1>3, <1>4 DEF Held
<1>7. Watched
  BY <1>4, FS_EmptySet DEF Watched
<1>8. Numbered
  BY <1>4 DEF Numbered
<1>9. NoneAgain \/ AllForgotten
  BY <1>1, <1>3, <1>4 DEF NoneAgain, AllForgotten
<1>10. Balanced
  <2>1. Of(heard) \in [{} -> Nat]
    BY <1>4 DEF Of
  <2>2. SumFunction(Of(heard)) = 0
    BY <2>1, SumOfNothing
  <2>3. Due(heard) = 0 + 0
    BY <1>3, <2>2 DEF Due, Of
  <2> QED BY <1>3, <2>3 DEF Balanced, NoCounts
<1> QED BY <1>5, <1>6, <1>7, <1>8, <1>9, <1>10 DEF IInv

\* Of the data messages of every subscription, from the first that was heard
\* of to the last, each is a sample, a counted refusal or counted as missed,
\* whatever is lost, repeated, cut and restarted, until the source gives again
\* an id that disconnect did not hold (session.py, PublishSequence,
\* _SubscriptionHandler and connect).
THEOREM MessagesAccounted ==
  ASSUME OneTrouble
  PROVE  Spec => []EveryMessageAccounted
<1>1. Init => Accounted
  BY InitKeeps DEF Accounted, Init
<1>2. Accounted /\ [Next]_vars => Accounted'
  BY StepKeeps, ReusedStays DEF Accounted
<1>3. Accounted => EveryMessageAccounted
  <2> SUFFICES ASSUME IInv PROVE EveryMessageAccounted
    BY DEF Accounted, EveryMessageAccounted
  <2>1. TypeOK
    BY DEF IInv, Typed, Held, Live, TypeOK
  <2> QED BY <2>1 DEF IInv, Balanced, AllAccounted, EveryMessageAccounted
<1> QED BY <1>1, <1>2, <1>3, PTL DEF Spec

-----------------------------------------------------------------------------
(* The event stream.  What waits for a subscriber is a window on the events, *)
(* the newest of them.                                                      *)

\* The newest l of e events.
Window(e, l) == [i \in 1 .. l |-> e - l + i]

Least(a, b) == IF a <= b THEN a ELSE b

LEMMA WindowIsSeq ==
  ASSUME NEW e \in Nat, NEW l \in Nat
  PROVE  /\ Window(e, l) \in Seq(Int) /\ Len(Window(e, l)) = l
         /\ \A i \in 1 .. l : Window(e, l)[i] = e - l + i
<1>1. Window(e, l) \in [1 .. l -> Int]
  BY DEF Window
<1>2. Window(e, l) \in Seq(Int)
  BY <1>1, SeqDef
<1>3. Len(Window(e, l)) = l
  BY <1>1, <1>2, LenProperties
<1> QED BY <1>2, <1>3 DEF Window

\* put_nowait on a window: the newest events with one more.
LEMMA OfferedOne ==
  ASSUME NEW e \in Nat, NEW l \in Nat, l <= QueueSize
  PROVE  Offer(Window(e, l), e + 1) = Window(e + 1, Least(l + 1, QueueSize))
<1> DEFINE w == Window(e, l)
           k == Least(l + 1, QueueSize)
           v == Offer(w, e + 1)
<1>0. QueueSize \in Nat \ {0}
  BY QueueAssumption
<1>1. w \in Seq(Int) /\ Len(w) = l /\ \A i \in 1 .. l : w[i] = e - l + i
  BY WindowIsSeq
<1>2. PICK d \in Nat : d = e + 1
  OBVIOUS
<1>d. d \in Int /\ k \in Nat
  BY <1>0, <1>2 DEF Least
<1>3. /\ Window(e + 1, k) \in Seq(Int) /\ Len(Window(e + 1, k)) = k
      /\ \A i \in 1 .. k : Window(e + 1, k)[i] = (e + 1) - k + i
  <2> HIDE DEF k
  <2>2. /\ Window(d, k) \in Seq(Int) /\ Len(Window(d, k)) = k
        /\ \A i \in 1 .. k : Window(d, k)[i] = d - k + i
    BY <1>d, WindowIsSeq
  <2> QED BY <1>2, <2>2
<1> HIDE DEF w
<1>4. v \in Seq(Int) /\ Len(v) = k /\ \A i \in 1 .. k : v[i] = (e + 1) - k + i
  <2>1. CASE l < QueueSize
    <3>1. v = Append(w, d) /\ k = l + 1
      BY <1>0, <1>1, <1>2, <2>1 DEF Offer, Least
    <3>2. /\ v \in Seq(Int) /\ Len(v) = l + 1
          /\ \A i \in 1 .. l : v[i] = w[i]
          /\ v[l + 1] = d
      <4>1. PICK r : r = Append(w, d)
        OBVIOUS
      <4>2. /\ r \in Seq(Int) /\ Len(r) = Len(w) + 1
            /\ \A i \in 1 .. Len(w) : r[i] = w[i]
            /\ r[Len(w) + 1] = d
        BY <1>1, <1>d, <4>1, Lengthened
      <4> HIDE DEF v
      <4> QED BY <1>1, <3>1, <4>1, <4>2
    <3> HIDE DEF v, k
    <3>3. ASSUME NEW i \in 1 .. k PROVE v[i] = (e + 1) - k + i
      <4>1. CASE i = l + 1
        BY <1>2, <3>1, <3>2, <4>1
      <4>2. CASE i \in 1 .. l
        <5>1. v[i] = e - l + i
          BY <1>1, <3>2, <4>2
        <5> QED BY <3>1, <4>2, <5>1
      <4>3. i = l + 1 \/ i \in 1 .. l
        BY <3>1
      <4> QED BY <4>1, <4>2, <4>3
    <3> QED BY <3>1, <3>2, <3>3
  <2>2. CASE l = QueueSize
    <3> DEFINE t == Tail(w)
    <3>1. v = Append(t, d) /\ k = l /\ w # <<>>
      <4>1. w # <<>>
        BY <1>0, <1>1, <2>2, EmptySeq
      <4> QED BY <1>0, <1>1, <1>2, <2>2, <4>1 DEF Offer, Least
    <3>2. t \in Seq(Int) /\ Len(t) = l - 1 /\ \A i \in 1 .. Len(t) : t[i] = w[i + 1]
      BY <1>1, <3>1, HeadTailProperties
    <3> HIDE DEF t
    <3>3. /\ v \in Seq(Int) /\ Len(v) = Len(t) + 1
          /\ \A i \in 1 .. Len(t) : v[i] = t[i]
          /\ v[Len(t) + 1] = d
      <4>1. /\ Append(t, d) \in Seq(Int) /\ Len(Append(t, d)) = Len(t) + 1
            /\ \A i \in 1 .. Len(t) : Append(t, d)[i] = t[i]
            /\ Append(t, d)[Len(t) + 1] = d
        BY <1>d, <3>2, AppendProperties
      <4> HIDE DEF v
      <4> QED BY <3>1, <4>1
    <3> HIDE DEF v, k
    <3>4. ASSUME NEW i \in 1 .. k PROVE v[i] = (e + 1) - k + i
      <4>1. CASE i = l
        <5>1. Len(t) + 1 = l
          BY <3>2
        <5>2. v[l] = e + 1
          BY <1>2, <3>3, <5>1
        <5>3. (e + 1) - k + i = e + 1
          BY <3>1, <4>1
        <5> QED BY <4>1, <5>2, <5>3
      <4>2. CASE i \in 1 .. l - 1
        <5>1. v[i] = w[i + 1] /\ i + 1 \in 1 .. l
          BY <3>2, <3>3, <4>2
        <5>2. w[i + 1] = e - l + (i + 1)
          BY <1>1, <5>1
        <5>3. (e + 1) - k + i = e - l + (i + 1)
          BY <3>1, <4>2
        <5> QED BY <5>1, <5>2, <5>3
      <4>3. i = l \/ i \in 1 .. l - 1
        BY <3>1
      <4> QED BY <4>1, <4>2, <4>3
    <3> QED BY <3>1, <3>2, <3>3, <3>4
  <2> QED BY <1>0, <2>1, <2>2
<1> HIDE DEF v, k
<1>5. v = Window(e + 1, k)
  <2>1. Len(v) = Len(Window(e + 1, k)) /\ \A i \in 1 .. Len(v) : v[i] = Window(e + 1, k)[i]
    BY <1>3, <1>4
  <2> QED BY <1>3, <1>4, <2>1, SeqEqual
<1> QED BY <1>5 DEF v, w, k

\* k calls of emit.
LEMMA OfferedIsWindow ==
  ASSUME stream.emitted \in Nat, NEW k \in Nat, NEW l \in Nat, l <= QueueSize
  PROVE  Offered(k, Window(stream.emitted, l)) = Window(stream.emitted + k, Least(l + k, QueueSize))
<1> DEFINE e == stream.emitted
           q == Window(e, l)
           W(n) == Window(e + n, Least(l + n, QueueSize))
           step(f, n) == IF n = 0 THEN q ELSE Offer(f[n - 1], e + n)
           after == CHOOSE f : f = [n \in 0 .. k |-> step(f, n)]
           g == [n \in 0 .. k |-> W(n)]
<1>0. QueueSize \in Nat \ {0}
  BY QueueAssumption
<1>1. W(0) = q
  <2>1. e + 0 = e /\ Least(l + 0, QueueSize) = l
    BY <1>0 DEF Least
  <2> QED BY <2>1
<1>2. ASSUME NEW n \in 1 .. k PROVE W(n) = Offer(W(n - 1), e + n)
  <2> DEFINE a == e + (n - 1)
             b == Least(l + (n - 1), QueueSize)
  <2>1. /\ a \in Nat /\ b \in Nat /\ b <= QueueSize /\ a + 1 = e + n
        /\ Least(b + 1, QueueSize) = Least(l + n, QueueSize)
    BY <1>0 DEF Least
  <2> HIDE DEF a, b
  <2>2. Offer(Window(a, b), a + 1) = Window(a + 1, Least(b + 1, QueueSize))
    BY <2>1, OfferedOne
  <2> QED BY <2>1, <2>2 DEF a, b
<1> HIDE DEF W
<1>3. g = [n \in 0 .. k |-> step(g, n)]
  <2>1. ASSUME NEW n \in 0 .. k PROVE g[n] = step(g, n)
    <3>1. CASE n = 0
      BY <1>1, <3>1
    <3>2. CASE n # 0
      <4>1. n \in 1 .. k /\ n - 1 \in 0 .. k
        BY <3>2
      <4> QED BY <1>2, <3>2, <4>1
    <3> QED BY <3>1, <3>2
  <2> QED BY <2>1
<1> HIDE DEF g
<1>4. after = [n \in 0 .. k |-> step(after, n)]
  BY <1>3
<1>5. Offered(k, q) = after[k]
  BY DEF Offered
<1> HIDE DEF after
<1>6. \A n \in 0 .. k : after[n] = step(after, n)
  BY <1>4
<1> DEFINE Bad == {n \in 0 .. k : after[n] # W(n)}
<1>7. Bad = {}
  <2> SUFFICES ASSUME Bad # {} PROVE FALSE
    OBVIOUS
  <2>1. Bad \subseteq Nat
    OBVIOUS
  <2>2. PICK n \in Bad : \A m \in Bad : n <= m
    <3> HIDE DEF Bad
    <3> QED BY <2>1, SmallestExists
  <2>3. n \in 0 .. k /\ after[n] # W(n)
    BY <2>2
  <2>4. n # 0
    <3>1. after[0] = q
      BY <1>6
    <3> QED BY <1>1, <2>3, <3>1
  <2>5. n - 1 \in 0 .. k /\ n \in 1 .. k /\ ~ (n <= n - 1)
    BY <2>3, <2>4
  <2>6. after[n - 1] = W(n - 1)
    BY <2>2, <2>5
  <2>7. after[n] = Offer(after[n - 1], e + n)
    BY <1>6, <2>3, <2>4
  <2> QED BY <1>2, <2>3, <2>5, <2>6, <2>7
<1>8. after[k] = W(k)
  BY <1>7
<1> QED BY <1>5, <1>8 DEF W

\* The events that were emitted while c was subscribed and that it has not
\* been given and will not be.
Lost(c) == stream.emitted - clients[c].from - clients[c].taken - Len(clients[c].queue)
Full == {c \in Clients : Subscribed(c)}
NoneGone == \A c \in Clients : clients[c].state # "closed"

StreamInv ==
  /\ DOMAIN stream = {"emitted", "dropped"} /\ stream.emitted \in Nat
  /\ DOMAIN clients = Clients
  /\ \A c \in Clients :
       /\ DOMAIN clients[c] = {"state", "queue", "sending", "from", "taken"}
       /\ clients[c].queue \in Seq(Int) /\ clients[c].from \in Nat /\ clients[c].taken \in Nat
       /\ clients[c].state = "new" => clients[c].queue = <<>> /\ clients[c].taken = 0
       /\ Subscribed(c) => /\ Len(clients[c].queue) <= QueueSize
                           /\ clients[c].queue = Window(stream.emitted, Len(clients[c].queue))
                           /\ Lost(c) \in Nat
  /\ NoneGone => stream.dropped = SumFunction([c \in Full |-> Lost(c)])

LEMMA MaxWithZero ==
  ASSUME NEW x \in Int
  PROVE  Max({0, x}) = IF x >= 0 THEN x ELSE 0
<1>1. \E a \in {0, x} : \A b \in {0, x} : a >= b
  BY SMT
<1>2. Max({0, x}) \in {0, x} /\ \A b \in {0, x} : Max({0, x}) >= b
  BY <1>1 DEF Max
<1> QED BY <1>2

LEMMA FullIsFinite ==
  IsFiniteSet(Full)
BY QueueAssumption, FS_Subset DEF Full

LEMMA EmitKeeps ==
  ASSUME StreamInv, NEW k \in Nat, Emit(k)
  PROVE  StreamInv'
<1> DEFINE e == stream.emitted
           over(c) == Overflow(k, clients[c].queue)
           f == [c \in Full |-> Lost(c)]
           o == [c \in Full |-> over(c)]
<1>0. QueueSize \in Nat \ {0}
  BY QueueAssumption
<1>1. /\ clients' = [c \in Clients |->
           IF c \in Full THEN [clients[c] EXCEPT !.queue = Offered(k, @)] ELSE clients[c]]
      /\ stream' = [emitted |-> e + k, dropped |-> stream.dropped + SumFunction(o)]
  BY DEF Emit, Full
<1>2. DOMAIN stream' = {"emitted", "dropped"} /\ stream'.emitted = e + k /\ e + k \in Nat /\ e \in Nat
      /\ stream'.dropped = stream.dropped + SumFunction(o)
  BY <1>1 DEF StreamInv
<1> HIDE DEF o, f, over
<1>3. ASSUME NEW c \in Full
      PROVE  /\ DOMAIN clients'[c] = {"state", "queue", "sending", "from", "taken"}
             /\ clients'[c].queue = Offered(k, clients[c].queue)
             /\ clients'[c].from = clients[c].from /\ clients'[c].taken = clients[c].taken
             /\ clients'[c].state = clients[c].state
  <2>1. c \in Clients /\ DOMAIN clients[c] = {"state", "queue", "sending", "from", "taken"}
    BY DEF Full, StreamInv
  <2>2. clients'[c] = [clients[c] EXCEPT !.queue = Offered(k, @)]
    BY <1>1, <2>1
  <2> QED BY <2>1, <2>2
<1>4. ASSUME NEW c \in Clients \ Full PROVE clients'[c] = clients[c]
  BY <1>1
<1>5. \A c \in Clients : clients'[c].state = clients[c].state
  BY <1>3, <1>4
<1>6. Full' = Full /\ NoneGone' = NoneGone
  <2>1. Full' = Full
    BY <1>5 DEF Full, Subscribed
  <2>2. NoneGone' <=> NoneGone
    BY <1>5 DEF NoneGone
  <2> QED BY <2>1, <2>2 DEF NoneGone
<1>7. ASSUME NEW c \in Full
      PROVE  /\ clients'[c].queue \in Seq(Int)
             /\ Len(clients'[c].queue) <= QueueSize
             /\ clients'[c].queue = Window(e + k, Len(clients'[c].queue))
             /\ over(c) \in Nat /\ Lost(c) \in Nat
             /\ Lost(c)' = Lost(c) + over(c)
  <2> DEFINE q == clients[c].queue
             l == Len(q)
             n == Least(l + k, QueueSize)
  <2>1. /\ q \in Seq(Int) /\ l <= QueueSize /\ q = Window(e, l) /\ Lost(c) \in Nat
        /\ clients[c].from \in Nat /\ clients[c].taken \in Nat
    BY DEF Full, StreamInv
  <2>2. l \in Nat
    BY <2>1, LenProperties
  <2>3. n \in Nat /\ n <= QueueSize /\ l + k \in Nat
    BY <1>0, <2>2 DEF Least
  <2>4. clients'[c].queue = Window(e + k, n)
    <3>1. clients'[c].queue = Offered(k, q)
      BY <1>3
    <3> HIDE DEF q, l
    <3>2. Offered(k, Window(e, l)) = Window(e + k, Least(l + k, QueueSize))
      BY <1>2, <2>1, <2>2, OfferedIsWindow
    <3> QED BY <2>1, <3>1, <3>2
  <2>5. Window(e + k, n) \in Seq(Int) /\ Len(Window(e + k, n)) = n
    <3>1. PICK d \in Nat : d = e + k
      BY <1>2
    <3> HIDE DEF n
    <3>2. Window(d, n) \in Seq(Int) /\ Len(Window(d, n)) = n
      BY <2>3, WindowIsSeq
    <3> QED BY <3>1, <3>2
  <2>6. over(c) = IF l + k - QueueSize >= 0 THEN l + k - QueueSize ELSE 0
    <3> HIDE DEF l
    <3>1. PICK x \in Int : x = l + k - QueueSize
      BY <1>0, <2>2
    <3>2. Max({0, x}) = IF x >= 0 THEN x ELSE 0
      BY MaxWithZero
    <3>3. over(c) = Max({0, x})
      BY <3>1 DEF over, Overflow, l
    <3> QED BY <3>1, <3>2, <3>3
  <2>7. over(c) \in Nat /\ n + over(c) = l + k
    <3> HIDE DEF l
    <3> QED BY <1>0, <2>2, <2>6 DEF Least
  <2>8. Lost(c)' = (e + k) - clients[c].from - clients[c].taken - n
    BY <1>2, <1>3, <2>4, <2>5 DEF Lost
  <2>9. Lost(c) = e - clients[c].from - clients[c].taken - l
    BY DEF Lost
  <2> HIDE DEF n, l, q
  <2>10. Lost(c)' = Lost(c) + over(c)
    <3>1. clients[c].from \in Nat /\ clients[c].taken \in Nat /\ over(c) \in Nat /\ n + over(c) = l + k
      BY <2>1, <2>7
    <3>2. \A a, b, t, x, y, z \in Nat : x + y = z + k => (a + k) - b - t - x = (a - b - t - z) + y
      OBVIOUS
    <3>3. (e + k) - clients[c].from - clients[c].taken - n = (e - clients[c].from - clients[c].taken - l) + over(c)
      <4> HIDE DEF e
      <4>1. PICK b \in Nat : b = clients[c].from
        BY <3>1
      <4>2. PICK t \in Nat : t = clients[c].taken
        BY <3>1
      <4>3. PICK y \in Nat : y = over(c)
        BY <3>1
      <4>4. n \in Nat /\ l \in Nat /\ e \in Nat /\ n + y = l + k
        BY <1>2, <2>2, <2>3, <3>1, <4>3
      <4>5. (e + k) - b - t - n = (e - b - t - l) + y
        BY <3>2, <4>4
      <4> QED BY <4>1, <4>2, <4>3, <4>5
    <3> QED BY <2>8, <2>9, <3>3
  <2> QED BY <2>1, <2>3, <2>4, <2>5, <2>7, <2>10
<1>8. ASSUME NoneGone' PROVE stream'.dropped = SumFunction([c \in Full |-> Lost(c)])'
  <2>1. stream.dropped = SumFunction(f)
    BY <1>6, <1>8 DEF StreamInv, f
  <2>2. IsFiniteSet(Full) /\ f \in [Full -> Nat] /\ o \in [Full -> Nat]
    BY <1>7, FullIsFinite DEF f, o
  <2>3. SumFunction([c \in Full |-> f[c] + o[c]]) = SumFunction(f) + SumFunction(o)
    BY <2>2, SumPlus
  <2>4. [c \in Full |-> Lost(c)]' = [c \in Full |-> f[c] + o[c]]
    <3>1. \A c \in Full : Lost(c)' = f[c] + o[c]
      BY <1>7 DEF f, o
    <3> QED BY <1>6, <3>1
  <2>5. SumFunction([c \in Full |-> Lost(c)])' = SumFunction([c \in Full |-> f[c] + o[c]])
    BY <2>4
  <2> QED BY <1>2, <2>1, <2>3, <2>5
<1>9. ASSUME NEW c \in Clients
      PROVE  /\ DOMAIN clients'[c] = {"state", "queue", "sending", "from", "taken"}
             /\ clients'[c].queue \in Seq(Int) /\ clients'[c].from \in Nat /\ clients'[c].taken \in Nat
             /\ clients'[c].state = "new" => clients'[c].queue = <<>> /\ clients'[c].taken = 0
             /\ Subscribed(c)' => /\ Len(clients'[c].queue) <= QueueSize
                                  /\ clients'[c].queue = Window(stream'.emitted, Len(clients'[c].queue))
                                  /\ Lost(c)' \in Nat
  <2>1. CASE c \in Full
    <3>1. clients[c].state # "new" /\ clients[c].from \in Nat /\ clients[c].taken \in Nat
      BY <2>1 DEF Full, Subscribed, StreamInv
    <3>2. Lost(c)' \in Nat
      BY <1>7, <2>1
    <3> QED BY <1>2, <1>3, <1>7, <2>1, <3>1, <3>2
  <2>2. CASE c \notin Full
    <3>1. clients'[c] = clients[c] /\ ~ Subscribed(c)'
      BY <1>4, <1>6, <2>2 DEF Full
    <3> QED BY <3>1 DEF StreamInv
  <2> QED BY <2>1, <2>2
<1>10. DOMAIN clients' = Clients
  BY <1>1
<1> QED BY <1>2, <1>8, <1>9, <1>10 DEF StreamInv

\* A step of the endpoint is one subscriber's.  It loses nothing.
LEMMA ServeKeeps ==
  ASSUME StreamInv, NEW c \in Clients, Open(c) \/ Leave(c) \/ Take(c) \/ Sent(c) \/ Hangup(c)
  PROVE  StreamInv'
<1>0. /\ stream' = stream /\ DOMAIN clients' = Clients
      /\ \A d \in Clients \ {c} : clients'[d] = clients[d]
      /\ DOMAIN clients'[c] = {"state", "queue", "sending", "from", "taken"}
  <2>1. DOMAIN clients = Clients /\ DOMAIN clients[c] = {"state", "queue", "sending", "from", "taken"}
    BY DEF StreamInv
  <2>2. CASE Open(c)
    BY <2>1, <2>2 DEF Open
  <2>3. CASE Leave(c)
    BY <2>1, <2>3 DEF Leave
  <2>4. CASE Take(c)
    BY <2>1, <2>4 DEF Take
  <2>5. CASE Sent(c)
    BY <2>1, <2>5 DEF Sent
  <2>6. CASE Hangup(c)
    BY <2>1, <2>6 DEF Hangup
  <2> QED BY <2>2, <2>3, <2>4, <2>5, <2>6
<1>1. /\ DOMAIN stream = {"emitted", "dropped"} /\ stream.emitted \in Nat
      /\ clients[c].queue \in Seq(Int) /\ clients[c].from \in Nat /\ clients[c].taken \in Nat
      /\ clients[c].state = "new" => clients[c].queue = <<>> /\ clients[c].taken = 0
      /\ Subscribed(c) => /\ Len(clients[c].queue) <= QueueSize
                          /\ clients[c].queue = Window(stream.emitted, Len(clients[c].queue))
                          /\ Lost(c) \in Nat
      /\ c \in DOMAIN clients /\ DOMAIN clients[c] = {"state", "queue", "sending", "from", "taken"}
  BY DEF StreamInv
\* What c's own step does.
<1>2. /\ clients'[c].queue \in Seq(Int) /\ clients'[c].from \in Nat /\ clients'[c].taken \in Nat
      /\ clients'[c].state = "new" => clients'[c].queue = <<>> /\ clients'[c].taken = 0
      /\ Subscribed(c)' => /\ Len(clients'[c].queue) <= QueueSize
                           /\ clients'[c].queue = Window(stream.emitted, Len(clients'[c].queue))
                           /\ Lost(c)' \in Nat
      /\ clients[c].state # "closed"
      /\ clients'[c].state # "closed" =>
           /\ Subscribed(c)'
           /\ Lost(c)' = IF Subscribed(c) THEN Lost(c) ELSE 0
  <2>1. CASE Open(c)
    <3>1. clients[c].state = "new" /\ clients' = [clients EXCEPT ![c].state = "open", ![c].from = stream.emitted]
      BY <2>1 DEF Open
    <3>2. /\ clients'[c].queue = <<>> /\ clients'[c].taken = 0
          /\ clients'[c].state = "open" /\ clients'[c].from = stream.emitted
      BY <1>1, <3>1
    <3>3. Len(<<>>) = 0 /\ <<>> \in Seq(Int)
      BY EmptySeq
    <3>4. <<>> = Window(stream.emitted, 0)
      <4>1. Window(stream.emitted, 0) \in Seq(Int) /\ Len(Window(stream.emitted, 0)) = 0
        BY <1>1, WindowIsSeq
      <4> QED BY <4>1, EmptySeq
    <3>5. Lost(c)' = 0
      BY <1>0, <1>1, <3>2, <3>3 DEF Lost
    <3>6. ~ Subscribed(c) /\ Subscribed(c)'
      BY <3>1, <3>2 DEF Subscribed
    <3>7. 0 <= QueueSize
      BY QueueAssumption
    <3> QED BY <1>1, <3>1, <3>2, <3>3, <3>4, <3>5, <3>6, <3>7
  <2>2. CASE Leave(c) \/ Sent(c) \/ Hangup(c)
    <3>1. /\ clients[c].state \in {"open", "left"} /\ clients'[c].state \in {"open", "left", "closed"}
          /\ clients'[c].queue = clients[c].queue /\ clients'[c].from = clients[c].from
          /\ clients'[c].taken = clients[c].taken
      <4>1. CASE Leave(c)
        BY <1>1, <4>1 DEF Leave
      <4>2. CASE Sent(c)
        <5>1. clients[c].state = "open" /\ clients' = [clients EXCEPT ![c].sending = None]
          BY <4>2 DEF Sent
        <5> QED BY <1>1, <5>1
      <4>3. CASE Hangup(c)
        BY <1>1, <4>3 DEF Hangup
      <4> QED BY <2>2, <4>1, <4>2, <4>3
    <3>2. Lost(c)' = Lost(c)
      BY <1>0, <3>1 DEF Lost
    <3>3. Subscribed(c) /\ (clients'[c].state # "closed" => Subscribed(c)')
      BY <3>1 DEF Subscribed
    <3> QED BY <1>1, <3>1, <3>2, <3>3
  <2>3. CASE Take(c)
    <3> DEFINE q == clients[c].queue
               l == Len(q)
    <3>1. /\ Subscribed(c) /\ q # <<>>
          /\ clients' = [clients EXCEPT ![c].sending = Head(clients[c].queue),
                                        ![c].queue = Tail(@), ![c].taken = @ + 1]
      BY <2>3 DEF Take
    <3>2. /\ clients'[c].queue = Tail(q) /\ clients'[c].from = clients[c].from
          /\ clients'[c].taken = clients[c].taken + 1 /\ clients'[c].state = clients[c].state
      BY <1>1, <3>1
    <3>3. /\ q \in Seq(Int) /\ l \in Nat \ {0} /\ l <= QueueSize /\ q = Window(stream.emitted, l)
          /\ QueueSize \in Nat
      <4>1. l \in Nat \ {0}
        BY <1>1, <3>1, EmptySeq
      <4> QED BY <1>1, <3>1, <4>1, QueueAssumption
    <3>4. Tail(q) \in Seq(Int) /\ Len(Tail(q)) = l - 1 /\ \A i \in 1 .. Len(Tail(q)) : Tail(q)[i] = q[i + 1]
      BY <3>1, <3>3, HeadTailProperties
    <3>5. \A i \in 1 .. l : q[i] = stream.emitted - l + i
      <4> HIDE DEF q, l
      <4>1. \A i \in 1 .. l : Window(stream.emitted, l)[i] = stream.emitted - l + i
        BY <1>1, <3>3, WindowIsSeq
      <4> QED BY <3>3, <4>1
    <3> HIDE DEF q, l
    <3>6. Tail(q) = Window(stream.emitted, l - 1)
      <4>1. PICK k \in Nat : k = l - 1
        BY <3>3
      <4>2. /\ Window(stream.emitted, k) \in Seq(Int) /\ Len(Window(stream.emitted, k)) = k
            /\ \A i \in 1 .. k : Window(stream.emitted, k)[i] = stream.emitted - k + i
        BY <1>1, WindowIsSeq
      <4>3. ASSUME NEW i \in 1 .. k PROVE Tail(q)[i] = Window(stream.emitted, k)[i]
        <5>1. Tail(q)[i] = q[i + 1] /\ i + 1 \in 1 .. l
          BY <3>3, <3>4, <4>1
        <5>2. q[i + 1] = stream.emitted - l + (i + 1)
          BY <3>5, <5>1
        <5>3. stream.emitted - l + (i + 1) = stream.emitted - k + i
          BY <1>1, <3>3, <4>1
        <5> QED BY <4>2, <5>1, <5>2, <5>3
      <4>4. Len(Tail(q)) = Len(Window(stream.emitted, k))
        BY <3>4, <4>1, <4>2
      <4>5. Tail(q) = Window(stream.emitted, k)
        BY <3>4, <4>1, <4>2, <4>3, <4>4, SeqEqual
      <4> QED BY <4>1, <4>5
    <3>7. Lost(c)' = Lost(c)
      <4>1. Lost(c)' = stream.emitted - clients[c].from - (clients[c].taken + 1) - (l - 1)
        BY <1>0, <3>2, <3>4 DEF Lost
      <4>2. Lost(c) = stream.emitted - clients[c].from - clients[c].taken - l
        BY DEF Lost, l, q
      <4> QED BY <1>1, <3>3, <4>1, <4>2
    <3>8. Subscribed(c)' /\ clients[c].state \notin {"new", "closed"}
      BY <3>1, <3>2 DEF Subscribed
    <3>9. l - 1 <= QueueSize /\ clients[c].taken + 1 \in Nat
      BY <1>1, <3>3
    <3> QED BY <1>1, <3>1, <3>2, <3>4, <3>6, <3>7, <3>8, <3>9
  <2> QED BY <2>1, <2>2, <2>3
<1>3. \A d \in Clients \ {c} : Lost(d)' = Lost(d) /\ Subscribed(d)' = Subscribed(d)
  <2>1. \A d \in Clients \ {c} : Lost(d)' = Lost(d)
    BY <1>0 DEF Lost
  <2>2. \A d \in Clients \ {c} : Subscribed(d)' <=> Subscribed(d)
    BY <1>0 DEF Subscribed
  <2> QED BY <2>1, <2>2 DEF Subscribed
<1>4. ASSUME NEW d \in Clients
      PROVE  /\ DOMAIN clients'[d] = {"state", "queue", "sending", "from", "taken"}
             /\ clients'[d].queue \in Seq(Int) /\ clients'[d].from \in Nat /\ clients'[d].taken \in Nat
             /\ clients'[d].state = "new" => clients'[d].queue = <<>> /\ clients'[d].taken = 0
             /\ Subscribed(d)' => /\ Len(clients'[d].queue) <= QueueSize
                                  /\ clients'[d].queue = Window(stream'.emitted, Len(clients'[d].queue))
                                  /\ Lost(d)' \in Nat
  <2>1. CASE d = c
    BY <1>0, <1>2, <2>1
  <2>2. CASE d # c
    <3>1. clients'[d] = clients[d] /\ stream' = stream /\ Lost(d)' = Lost(d) /\ (Subscribed(d)' <=> Subscribed(d))
      BY <1>0, <1>3, <2>2
    <3> QED BY <3>1 DEF StreamInv
  <2> QED BY <2>1, <2>2
<1>5. ASSUME NoneGone' PROVE stream'.dropped = SumFunction([d \in Full |-> Lost(d)])'
  <2> DEFINE f == [d \in Full |-> Lost(d)]
             R == Full \ {c}
             rest == [d \in R |-> Lost(d)]
  <2>1. clients'[c].state # "closed" /\ NoneGone
    BY <1>0, <1>2, <1>5 DEF NoneGone
  <2>2. Subscribed(c)' /\ Lost(c)' = (IF Subscribed(c) THEN Lost(c) ELSE 0) /\ Lost(c)' \in Nat
    BY <1>2, <2>1
  <2>3. Full' = R \cup {c} /\ c \notin R
    BY <1>3, <2>2 DEF Full
  <2>4. stream.dropped = SumFunction(f)
    BY <2>1 DEF StreamInv
  <2>5. IsFiniteSet(Full) /\ IsFiniteSet(R) /\ IsFiniteSet(R \cup {c})
    BY FullIsFinite, FS_RemoveElement, FS_AddElement
  <2>6. f \in [Full -> Nat] /\ rest \in [R -> Nat] /\ SumFunction(rest) \in Nat
    <3>1. \A d \in Full : Lost(d) \in Nat
      BY DEF Full, StreamInv
    <3>2. rest \in [R -> Nat]
      BY <3>1
    <3>3. f \in [Full -> Nat]
      BY <3>1
    <3> HIDE DEF rest, R
    <3> QED BY <2>5, <3>2, <3>3, SumIsNat
  <2>7. SumFunction(f) = (IF Subscribed(c) THEN Lost(c) ELSE 0) + SumFunction(rest)
    <3>1. CASE Subscribed(c)
      <4>1. c \in Full /\ f[c] = Lost(c) /\ [d \in Full \ {c} |-> f[d]] = rest
        BY <3>1 DEF Full
      <4>2. SumFunction(f) = f[c] + SumFunction([d \in Full \ {c} |-> f[d]])
        <5> HIDE DEF f
        <5>1. IsFiniteSet(Full) /\ f \in [Full -> Nat] /\ c \in Full
          BY <2>5, <2>6, <4>1
        <5> QED BY <5>1, SumWithout
      <4> QED BY <3>1, <4>1, <4>2
    <3>2. CASE ~ Subscribed(c)
      <4>1. R = Full
        BY <3>2 DEF Full
      <4>2. rest = f
        BY <4>1
      <4> HIDE DEF rest, f
      <4> QED BY <2>6, <3>2, <4>2
    <3> QED BY <3>1, <3>2
  <2>8. PICK g : g = [d \in Full |-> Lost(d)]'
    OBVIOUS
  <2>9. /\ g \in [R \cup {c} -> Nat] /\ g[c] = Lost(c)'
        /\ [d \in (R \cup {c}) \ {c} |-> g[d]] = rest
    <3>1. \A d \in R : Lost(d)' = Lost(d) /\ Lost(d) \in Nat
      BY <1>3 DEF Full, StreamInv
    <3>2. g = [d \in R \cup {c} |-> Lost(d)']
      BY <2>3, <2>8
    <3>3. g \in [R \cup {c} -> Nat]
      BY <2>2, <3>1, <3>2
    <3>4. (R \cup {c}) \ {c} = R
      OBVIOUS
    <3>5. \A d \in R : g[d] = Lost(d)
      BY <3>1, <3>2
    <3>6. g[c] = Lost(c)'
      BY <3>2
    <3> HIDE DEF R
    <3> QED BY <3>3, <3>4, <3>5, <3>6
  <2> HIDE DEF R, rest, f
  <2>10. SumFunction(g) = g[c] + SumFunction([d \in (R \cup {c}) \ {c} |-> g[d]])
    <3>1. c \in R \cup {c}
      OBVIOUS
    <3> QED BY <2>5, <2>9, <3>1, SumWithout
  <2>11. SumFunction(g) = SumFunction(f)
    BY <2>2, <2>7, <2>9, <2>10
  <2> QED BY <1>0, <2>4, <2>8, <2>11
<1> QED BY <1>0, <1>1, <1>4, <1>5 DEF StreamInv

\* What waits for a subscriber is the newest events in order, and stream.dropped
\* is what subscribers were not given (events.py: "Subscribers that cannot keep
\* up lose the oldest events").
THEOREM OldestDropped == Spec => []OnlyTheOldestDropped
<1> DEFINE Inv == StreamInv /\ setting \in Setting
<1>1. Init => Inv
  <2> SUFFICES ASSUME Init PROVE Inv
    OBVIOUS
  <2>1. setting \in Setting
    BY SettingAssumption DEF Init
  <2>2. stream = [emitted |-> 0, dropped |-> 0] /\ clients = [c \in Clients |-> Client]
    BY DEF Init, StreamInit
  <2>3. \A c \in Clients : clients[c] = Client
    BY <2>2
  <2>4. Full = {}
    BY <2>3 DEF Full, Subscribed, Client
  <2>5. SumFunction([c \in Full |-> Lost(c)]) = 0
    <3>1. [c \in Full |-> Lost(c)] \in [{} -> Nat]
      BY <2>4
    <3> QED BY <3>1, SumOfNothing
  <2>6. <<>> \in Seq(Int)
    BY EmptySeq
  <2>7. \A c \in Clients : ~ Subscribed(c)
    BY <2>4 DEF Full
  <2> QED BY <2>1, <2>2, <2>3, <2>5, <2>6, <2>7 DEF StreamInv, Client
<1>2. Inv /\ [Next]_vars => Inv'
  <2> SUFFICES ASSUME Inv, [Next]_vars PROVE Inv'
    OBVIOUS
  <2>1. setting' \in Setting
    <3>1. setting' = setting \/ \E what \in {"lose", "repeat", "cut", "restart", "halfway"} : Budget(what) /\ Spend(what)
      BY DEF Next, Deliver, Supervise, Connect, Subscribe, Monitor, Connected, GiveUp, ForgetFirst, DeleteFirst, Disconnected,
             Source, Publish, KeepAlive, Republish, Lose, Cut, Restart, Browse, vars
    <3> QED BY <3>1, SpentIsMilder DEF Milder
  <2>2. \/ \E k \in Nat : Emit(k)
        \/ \E c \in Clients : Open(c) \/ Leave(c) \/ Take(c) \/ Sent(c) \/ Hangup(c)
        \/ UNCHANGED streamVars
    <3>1. ASSUME NEW m, Handle(m) PROVE \E k \in Nat : Emit(k)
      <4> DEFINE missed == Observe(m.id, m.number, m.keep).missed
                 outcome == IF m.keep THEN {} ELSE Outcome(m.value)
      <4>1. PICK k \in Events(outcome, missed) : Emit(k)
        BY <3>1 DEF Handle
      <4>2. outcome = {} \/ "samples" \in outcome \/ \E x : outcome = {x}
        BY DEF Outcome
      <4>3. setting.events \subseteq Nat
        BY DEF Setting
      <4>4. "samples" \notin outcome => Cardinality(outcome) \in Nat
        <5>1. CASE outcome = {}
          BY <5>1, FS_EmptySet
        <5>2. CASE \E x : outcome = {x}
          <6>1. PICK x : outcome = {x}
            BY <5>2
          <6>2. IsFiniteSet({x})
            BY FS_Singleton
          <6> QED BY <6>1, <6>2, FS_CardinalityType
        <5> QED BY <4>2, <5>1, <5>2
      <4> HIDE DEF outcome, missed
      <4>5. k \in Nat
        BY <4>1, <4>3, <4>4 DEF Events
      <4> QED BY <4>1, <4>5
    <3>2. CASE Deliver
      BY <3>1, <3>2 DEF Deliver, streamVars
    <3>3. CASE Supervise
      BY <3>3 DEF Supervise, Connect, Subscribe, Monitor, Connected, GiveUp, ForgetFirst, DeleteFirst, Disconnected
    <3>4. CASE Source
      BY <3>4 DEF Source, Publish, KeepAlive, Republish, Lose, Cut, Restart
    <3>5. CASE Browse
      BY <3>5 DEF Browse, Serve
    <3>6. CASE UNCHANGED vars
      BY <3>6 DEF vars, streamVars
    <3> QED BY <3>2, <3>3, <3>4, <3>5, <3>6 DEF Next
  <2>3. CASE UNCHANGED streamVars
    <3>1. StreamInv'
      BY <2>3 DEF StreamInv, streamVars, Lost, Full, NoneGone, Subscribed
    <3> QED BY <2>1, <3>1
  <2> QED BY <2>1, <2>2, <2>3, EmitKeeps, ServeKeeps
<1>3. Inv => OnlyTheOldestDropped
  <2> SUFFICES ASSUME StreamInv PROVE OnlyTheOldestDropped
    OBVIOUS
  <2>1. \A c \in Clients : Subscribed(c) =>
          /\ Len(clients[c].queue) <= QueueSize
          /\ clients[c].queue = [i \in 1 .. Len(clients[c].queue) |-> stream.emitted - Len(clients[c].queue) + i]
    BY DEF StreamInv, Window
  <2>2. NoneGone => stream.dropped = SumFunction([c \in {d \in Clients : Subscribed(d)} |->
          stream.emitted - clients[c].from - clients[c].taken - Len(clients[c].queue)])
    BY DEF StreamInv, Full, Lost
  <2> QED BY <2>1, <2>2 DEF OnlyTheOldestDropped, NoneGone
<1> QED BY <1>1, <1>2, <1>3, PTL DEF Spec

-----------------------------------------------------------------------------
(* Compression: its three properties, for every configuration, max_time and   *)
(* series.  The door is described by what lies between neighbours: of anchor   *)
(* and segment only what stage one let pass (Close), of the archive what may    *)
(* have been discarded (Good); _choose, _drain_segment and push keep both.      *)

CONSTANTS Deadbands, Silence, NoBand
VARIABLES band, raw, filter, door, archive, flushed

Comp == INSTANCE Compression WITH Settings <- Deadbands, MaxTime <- Silence, Off <- NoBand, setting <- band

\* Samples; the door's state; a source whose timestamps advance; deadbands of the
\* recommended ratio.
Samples   == [ts : Nat \ {0}, v : Nat \cup {-1}, q : {"Good", "Uncertain"}]
Doors(S)  == [anchor : S \cup {Comp!None}, segment : Seq(S), witness : SUBSET S, previous : S \cup {Comp!None}]
Forward(c) == \A step \in c.steps : step > 0
Tight(c)   == c.exc # NoBand /\ c.comp # NoBand => 2 * c.exc <= c.comp

\* Stage one may have held back every sample between x and y.
Close(c, S, x, y) ==
  \A w \in S : x.ts < w.ts /\ w.ts < y.ts =>
    /\ w.ts - x.ts < Silence
    /\ c.exc # NoBand /\ Comp!Numeric(w) /\ Comp!Numeric(x) /\ Comp!Numeric(y)
    /\ Comp!Distance(w.v, x.v) <= c.exc /\ Comp!Distance(y.v, x.v) <= c.exc

\* a and b may follow each other in the archive.
Good(c, S, a, b) ==
  /\ a.ts < b.ts
  /\ \A w \in S : a.ts < w.ts /\ w.ts < b.ts =>
       /\ w.ts - a.ts < Silence
       /\ c.comp # NoBand /\ Tight(c) /\ Comp!Numeric(a) /\ Comp!Numeric(b) => Comp!Near(w, a, b, c.comp)

\* The last sample that the door has seen.
End(d) == IF d.segment = <<>> THEN d.anchor ELSE d.segment[Len(d.segment)]

\* The door d after A was archived: what was archived last is the anchor; the
\* segment's samples, in order, are within max_time of it; all that is newer is a
\* witness; only stage one's silence is between them, and the archive is linked.
Placed(A, d) ==
  /\ d.anchor = Comp!None => d.segment = <<>> /\ A = <<>>
  /\ d.anchor # Comp!None => A # <<>> /\ A[Len(A)] = d.anchor

Ordered(c, d) ==
  /\ d.segment # <<>> => Comp!Numeric(d.anchor) /\ c.comp # NoBand
  /\ \A i \in 1 .. Len(d.segment) : /\ Comp!Numeric(d.segment[i]) /\ d.anchor.ts < d.segment[i].ts
                                    /\ d.segment[i].ts - d.anchor.ts < Silence
  /\ \A i, j \in 1 .. Len(d.segment) : i < j => d.segment[i].ts < d.segment[j].ts

Witnessed(S, d) == \A w \in S : d.anchor = Comp!None \/ w.ts > d.anchor.ts => w \in d.witness
Adjacent(c, S, d) ==
  /\ d.segment # <<>> => Close(c, S, d.anchor, d.segment[1])
  /\ \A i \in 1 .. Len(d.segment) - 1 : Close(c, S, d.segment[i], d.segment[i + 1])
Linked(c, S, A) == \A i \in 1 .. Len(A) - 1 : Good(c, S, A[i], A[i + 1])

DoorOK(c, S, A, d) ==
  /\ d \in Doors(S) /\ A \in Seq(S) /\ Placed(A, d) /\ Ordered(c, d)
  /\ Forward(c) => Witnessed(S, d) /\ Adjacent(c, S, d) /\ Linked(c, S, A)

Sized == Silence \in Nat \ {0}

\* Within a deadband of x, within two of any line from x.
LEMMA CloseIsNear ==
  ASSUME NEW c, NEW S, S \subseteq Samples, NEW x \in S, NEW y \in S, NEW w \in S, Close(c, S, x, y),
         c.exc \in Nat \cup {NoBand}, c.comp \in Nat, c.comp # NoBand, Tight(c), x.ts < w.ts, w.ts < y.ts
  PROVE  Comp!Near(w, x, y, c.comp)
<1>1. /\ Comp!Numeric(w) /\ Comp!Numeric(x) /\ Comp!Numeric(y) /\ c.exc # NoBand
      /\ Comp!Distance(w.v, x.v) <= c.exc /\ Comp!Distance(y.v, x.v) <= c.exc
  BY DEF Close
<1>2. PICK T \in Nat, t \in Nat : T = y.ts - x.ts /\ t = w.ts - x.ts /\ t < T
  <2>1. x.ts \in Nat /\ y.ts \in Nat /\ w.ts \in Nat
    BY DEF Samples
  <2>2. y.ts - x.ts \in Nat /\ w.ts - x.ts \in Nat /\ w.ts - x.ts < y.ts - x.ts
    BY <2>1
  <2> QED BY <2>2
<1>3. PICK p \in Int, r \in Int : p = w.v - x.v /\ r = y.v - x.v
  BY DEF Samples
<1>4. PICK e \in Nat : e = c.exc
  BY <1>1
<1>5. -e <= p /\ p <= e /\ -e <= r /\ r <= e
  <2>1. w.v \in Int /\ x.v \in Int /\ y.v \in Int
    BY DEF Samples
  <2> QED BY <1>1, <1>3, <1>4, <2>1 DEF Comp!Distance
<1>6. PICK m \in Nat : m = c.comp
  OBVIOUS
<1>7. 2 * e <= m
  BY <1>1, <1>4, <1>6 DEF Tight
<1>8. p * T - r * t <= m * T /\ r * t - p * T <= m * T
  <2>1. p * T <= e * T /\ -(e * T) <= p * T
    <3>1. (e - p) * T >= 0 /\ (e + p) * T >= 0
      BY <1>2, <1>3, <1>4, <1>5
    <3> QED BY <1>2, <1>3, <1>4, <3>1
  <2>2. r * t <= e * t /\ -(e * t) <= r * t
    <3>1. (e - r) * t >= 0 /\ (e + r) * t >= 0
      BY <1>2, <1>3, <1>4, <1>5
    <3> QED BY <1>2, <1>3, <1>4, <3>1
  <2>3. e * t <= e * T
    <3>1. e * (T - t) >= 0
      BY <1>2, <1>4
    <3> QED BY <1>2, <1>4, <3>1
  <2>4. 2 * (e * T) <= m * T
    <3>1. (m - 2 * e) * T >= 0
      BY <1>2, <1>4, <1>6, <1>7
    <3> QED BY <1>2, <1>4, <1>6, <3>1
  <2>5. e * T \in Int /\ e * t \in Int /\ m * T \in Int /\ p * T \in Int /\ r * t \in Int
    BY <1>2, <1>3, <1>4, <1>6
  <2> QED BY <2>1, <2>2, <2>3, <2>4, <2>5
<1>9. Comp!Distance(p * T, r * t) <= m * T
  <2>1. p * T \in Int /\ r * t \in Int /\ m * T \in Int
    BY <1>2, <1>3, <1>6
  <2> QED BY <1>8, <2>1 DEF Comp!Distance
<1> QED BY <1>1, <1>2, <1>3, <1>6, <1>9 DEF Comp!Near

\* Such neighbours may also follow each other in the archive.
LEMMA CloseIsGood ==
  ASSUME NEW c, NEW S, S \subseteq Samples, NEW x \in S, NEW y \in S, Close(c, S, x, y), x.ts < y.ts,
         c.exc \in Nat \cup {NoBand}, c.comp \in Nat \cup {NoBand}
  PROVE  Good(c, S, x, y)
<1> SUFFICES ASSUME NEW w \in S, x.ts < w.ts, w.ts < y.ts
             PROVE  /\ w.ts - x.ts < Silence
                    /\ c.comp # NoBand /\ Tight(c) => Comp!Near(w, x, y, c.comp)
  BY DEF Good
<1>1. w.ts - x.ts < Silence
  BY DEF Close
<1>2. ASSUME c.comp # NoBand, Tight(c) PROVE Comp!Near(w, x, y, c.comp)
  BY <1>2, CloseIsNear
<1> QED BY <1>1, <1>2

\* None is no sample.
LEMMA NoneIsNoSample ==
  ASSUME NEW S, S \subseteq Samples
  PROVE  Comp!None \notin S
BY DEF Samples, Comp!None

\* _reset, field by field.
LEMMA ResetIs ==
  ASSUME NEW S, NEW d \in Doors(S), NEW a, NEW rest
  PROVE  Comp!Reset(d, a, rest) = [anchor |-> a, segment |-> rest, previous |-> d.previous,
                                  witness |-> {w \in d.witness : w.ts > a.ts}]
<1>1. PICK b, g, p, q : d = [anchor |-> b, segment |-> g, witness |-> p, previous |-> q]
  BY DEF Doors
<1>2. PICK u : u = {w \in d.witness : w.ts > a.ts}
  OBVIOUS
<1>3. Comp!Reset(d, a, rest) = [d EXCEPT !.anchor = a, !.segment = rest, !.witness = u]
  BY <1>1, <1>2 DEF Comp!Reset
<1> QED BY <1>1, <1>2, <1>3

\* What is left of the segment after its i-th sample.
LEMMA RestIs ==
  ASSUME NEW S, NEW d, d.segment \in Seq(S), NEW i \in 1 .. Len(d.segment)
  PROVE  /\ Comp!Rest(d, i) \in Seq(S) /\ Len(Comp!Rest(d, i)) = Len(d.segment) - i
         /\ \A j \in 1 .. Len(d.segment) - i : Comp!Rest(d, i)[j] = d.segment[i + j]
<1>1. PICK g \in Seq(S) : g = d.segment
  OBVIOUS
<1>2. PICK h : h = SubSeq(g, i + 1, Len(g))
  OBVIOUS
<1>3. h \in Seq(S) /\ Len(h) = Len(g) - i
  BY <1>1, <1>2
<1>4. \A j \in 1 .. Len(g) - i : h[j] = g[i + j]
  BY <1>1, <1>2
<1> QED BY <1>1, <1>2, <1>3, <1>4 DEF Comp!Rest

\* A sample that may follow the last one can be archived.
LEMMA LinkedAppend ==
  ASSUME NEW S, NEW A \in Seq(S), NEW x \in S, Linked(band, S, A),
         A = <<>> \/ Good(band, S, A[Len(A)], x)
  PROVE  Linked(band, S, Append(A, x))
<1>1. PICK B, n : B = Append(A, x) /\ n = Len(A)
  OBVIOUS
<1>2. n \in Nat /\ Len(B) = n + 1 /\ B[n + 1] = x /\ \A k \in 1 .. n : B[k] = A[k]
  BY <1>1
<1> SUFFICES ASSUME NEW k \in 1 .. n PROVE Good(band, S, B[k], B[k + 1])
  BY <1>1, <1>2 DEF Linked
<1>3. CASE k = n
  <2>1. A # <<>>
    BY <1>1, <1>3
  <2> QED BY <1>1, <1>2, <1>3, <2>1
<1>4. CASE k # n
  <2>1. k \in 1 .. n - 1 /\ k \in 1 .. n /\ k + 1 \in 1 .. n
    BY <1>2, <1>4
  <2>2. B[k] = A[k] /\ B[k + 1] = A[k + 1]
    BY <1>2, <2>1
  <2> QED BY <1>1, <2>1, <2>2 DEF Linked
<1> QED BY <1>3, <1>4

\* The line from the anchor to the i-th sample of the segment holds.
Reached(S, d, i) ==
  i = 1 \/ \A w \in S : d.anchor.ts < w.ts /\ w.ts < d.segment[i].ts
                          => Comp!Near(w, d.anchor, d.segment[i], band.comp)

\* The i-th sample of the segment is archived and becomes the anchor.
Advanced(d, i, e) ==
  /\ e.anchor = d.segment[i] /\ e.segment = Comp!Rest(d, i) /\ e.previous = d.previous
  /\ e.witness \subseteq d.witness /\ \A w \in d.witness : w.ts > e.anchor.ts => w \in e.witness
  /\ e = [anchor |-> e.anchor, segment |-> e.segment, witness |-> e.witness, previous |-> e.previous]

\* _reset after a point was chosen: what is archived stays linked, and the last sample seen stays the last.
LEMMA AdvanceKeeps ==
  ASSUME NEW S, S \subseteq Samples, NEW A, NEW d, DoorOK(band, S, A, d),
         NEW i \in 1 .. Len(d.segment), Forward(band) => Reached(S, d, i),
         NEW e, Advanced(d, i, e), Sized,
         band.exc \in Nat \cup {NoBand}, band.comp \in Nat \cup {NoBand}
  PROVE  DoorOK(band, S, Append(A, d.segment[i]), e) /\ End(e) = End(d)
<1>1. /\ d \in Doors(S) /\ A \in Seq(S) /\ Placed(A, d) /\ Ordered(band, d)
      /\ Forward(band) => Witnessed(S, d) /\ Adjacent(band, S, d) /\ Linked(band, S, A)
  BY DEF DoorOK
<1>2. PICK g \in Seq(S), n \in Nat : g = d.segment /\ n = Len(g) /\ n # 0 /\ i \in 1 .. n
  BY <1>1 DEF Doors
<1>3. PICK x : x = g[i]
  OBVIOUS
<1>4. x \in S /\ x # Comp!None /\ e.anchor = x
  BY <1>2, <1>3, NoneIsNoSample DEF Advanced
<1>5. /\ e.segment \in Seq(S) /\ Len(e.segment) = n - i
      /\ \A j \in 1 .. n - i : e.segment[j] = g[i + j]
  <2>1. /\ Comp!Rest(d, i) \in Seq(S) /\ Len(Comp!Rest(d, i)) = Len(d.segment) - i
        /\ \A j \in 1 .. Len(d.segment) - i : Comp!Rest(d, i)[j] = d.segment[i + j]
    BY <1>2, RestIs
  <2>2. e.segment = Comp!Rest(d, i)
    BY DEF Advanced
  <2> QED BY <1>2, <2>1, <2>2
<1>6. PICK h \in Seq(S) : h = e.segment /\ Len(h) = n - i /\ \A j \in 1 .. n - i : h[j] = g[i + j]
  BY <1>5
<1>7. d.anchor # Comp!None /\ d.anchor \in S
  <2>1. d.segment # <<>>
    BY <1>2
  <2> QED BY <1>1, <2>1 DEF Placed, Doors
<1>8. PICK a \in S : a = d.anchor /\ a.ts \in Nat /\ x.ts \in Nat
  BY <1>4, <1>7 DEF Samples
<1>9. /\ Comp!Numeric(a) /\ band.comp # NoBand
      /\ \A k \in 1 .. n : Comp!Numeric(g[k]) /\ a.ts < g[k].ts /\ g[k].ts - a.ts < Silence /\ g[k].ts \in Nat
      /\ \A k, l \in 1 .. n : k < l => g[k].ts < g[l].ts
  <2>1. \A k \in 1 .. n : g[k].ts \in Nat
    BY <1>2 DEF Samples
  <2>2. d.segment # <<>>
    BY <1>2
  <2> QED BY <1>1, <1>2, <1>8, <2>1, <2>2 DEF Ordered
<1>10. A # <<>> /\ A[Len(A)] = a
  BY <1>1, <1>7, <1>8 DEF Placed
<1>11. PICK B : B = Append(A, x)
  OBVIOUS
<1>12. /\ B \in Seq(S) /\ B # <<>> /\ Len(B) = Len(A) + 1 /\ B[Len(B)] = x /\ Len(A) \in Nat
       /\ \A k \in 1 .. Len(A) : B[k] = A[k]
  BY <1>1, <1>4, <1>11
<1>13. e \in Doors(S)
  <2>1. e.witness \in SUBSET S /\ e.previous \in S \cup {Comp!None}
    BY <1>1 DEF Advanced, Doors
  <2>2. e = [anchor |-> e.anchor, segment |-> e.segment, witness |-> e.witness, previous |-> e.previous]
    BY DEF Advanced
  <2> QED BY <1>4, <1>5, <2>1, <2>2 DEF Doors
<1>14. Placed(B, e)
  BY <1>4, <1>12 DEF Placed
<1>15. Ordered(band, e)
  <2>1. Comp!Numeric(x)
    BY <1>2, <1>3, <1>9
  <2>2. \A j \in 1 .. n - i : /\ Comp!Numeric(h[j]) /\ x.ts < h[j].ts
                              /\ h[j].ts - x.ts < Silence
    <3> TAKE j \in 1 .. n - i
    <3>1. i + j \in 1 .. n /\ i < i + j /\ h[j] = g[i + j]
      BY <1>2, <1>6
    <3>2. Comp!Numeric(h[j]) /\ x.ts < h[j].ts /\ h[j].ts - a.ts < Silence /\ h[j].ts \in Nat /\ a.ts < x.ts
      BY <1>2, <1>3, <1>9, <3>1
    <3>3. h[j].ts - x.ts < Silence
      <4>1. PICK t \in Nat, y \in Nat, z \in Nat : t = h[j].ts /\ y = a.ts /\ z = x.ts
        BY <1>8, <3>2
      <4>2. t - y < Silence /\ y < z
        BY <3>2, <4>1
      <4> QED BY <4>1, <4>2 DEF Sized
    <3> QED BY <3>2, <3>3
  <2>3. \A j, k \in 1 .. n - i : j < k => h[j].ts < h[k].ts
    <3> TAKE j, k \in 1 .. n - i
    <3> HAVE j < k
    <3>1. i + j \in 1 .. n /\ i + k \in 1 .. n /\ i + j < i + k
      BY <1>2
    <3>2. h[j] = g[i + j] /\ h[k] = g[i + k]
      BY <1>6
    <3> QED BY <1>9, <3>1, <3>2
  <2> QED BY <1>4, <1>6, <1>9, <2>1, <2>2, <2>3 DEF Ordered
<1>16. ASSUME Forward(band) PROVE Witnessed(S, e)
  <2> SUFFICES ASSUME NEW w \in S, w.ts > x.ts PROVE w \in e.witness
    BY <1>4 DEF Witnessed
  <2>1. a.ts < x.ts /\ w.ts \in Nat
    BY <1>2, <1>3, <1>9 DEF Samples
  <2>2. w.ts > a.ts
    BY <1>8, <2>1
  <2>3. w \in d.witness
    BY <1>1, <1>8, <1>16, <2>2 DEF Witnessed
  <2> QED BY <1>4, <2>3 DEF Advanced
<1>17. ASSUME Forward(band) PROVE Adjacent(band, S, e)
  <2>1. \A k \in 1 .. n - 1 : Close(band, S, g[k], g[k + 1])
    BY <1>1, <1>2, <1>17 DEF Adjacent
  <2>2. h # <<>> => Close(band, S, x, h[1])
    <3> HAVE h # <<>>
    <3>1. Len(h) # 0 /\ i \in 1 .. n - 1 /\ 1 \in 1 .. n - i /\ h[1] = g[i + 1]
      BY <1>2, <1>6
    <3> QED BY <1>3, <2>1, <3>1
  <2>3. \A j \in 1 .. (n - i) - 1 : Close(band, S, h[j], h[j + 1])
    <3> TAKE j \in 1 .. (n - i) - 1
    <3>1. i + j \in 1 .. n - 1 /\ j \in 1 .. n - i /\ j + 1 \in 1 .. n - i /\ i + (j + 1) = (i + j) + 1
      BY <1>2
    <3>2. h[j] = g[i + j] /\ h[j + 1] = g[(i + j) + 1]
      BY <1>6, <3>1
    <3> QED BY <2>1, <3>1, <3>2
  <2> QED BY <1>4, <1>6, <2>2, <2>3 DEF Adjacent
<1>18. ASSUME Forward(band) PROVE Good(band, S, a, x)
  <2>1. a.ts < x.ts /\ x.ts - a.ts < Silence
    BY <1>2, <1>3, <1>9
  <2> SUFFICES ASSUME NEW w \in S, a.ts < w.ts, w.ts < x.ts
               PROVE  /\ w.ts - a.ts < Silence
                      /\ Tight(band) => Comp!Near(w, a, x, band.comp)
    BY <2>1 DEF Good
  <2>2. w.ts - a.ts < Silence
    <3>1. w.ts \in Nat
      BY DEF Samples
    <3> QED BY <1>8, <2>1, <3>1 DEF Sized
  <2>3. ASSUME Tight(band) PROVE Comp!Near(w, a, x, band.comp)
    <3>1. CASE i = 1
      <4>1. Close(band, S, a, x)
        BY <1>1, <1>2, <1>3, <1>8, <1>18, <3>1 DEF Adjacent
      <4> QED BY <1>4, <1>9, <2>3, <4>1, CloseIsNear
    <3>2. CASE i # 1
      BY <1>2, <1>3, <1>8, <1>18, <3>2 DEF Reached
    <3> QED BY <3>1, <3>2
  <2> QED BY <2>2, <2>3
<1>19. ASSUME Forward(band) PROVE Linked(band, S, B)
  BY <1>1, <1>4, <1>10, <1>11, <1>18, <1>19, LinkedAppend
<1>20. End(e) = End(d)
  <2>1. CASE i = n
    <3>1. h = <<>>
      BY <1>2, <1>6, <2>1
    <3> QED BY <1>2, <1>3, <1>4, <1>6, <2>1, <3>1 DEF End
  <2>2. CASE i # n
    <3>1. n - i \in 1 .. n - i /\ i + (n - i) = n /\ Len(h) = n - i /\ h # <<>> /\ g # <<>>
      BY <1>2, <1>6, <2>2
    <3>2. h[n - i] = g[n]
      BY <1>6, <3>1
    <3> QED BY <1>2, <1>6, <3>1, <3>2 DEF End
  <2> QED BY <2>1, <2>2
<1>21. d.segment[i] = x
  BY <1>2, <1>3
<1> QED BY <1>11, <1>12, <1>13, <1>14, <1>15, <1>16, <1>17, <1>19, <1>20, <1>21 DEF DoorOK

\* _within_bound speaks of all the raw samples in between: they are witnesses.
LEMMA WithinIsReached ==
  ASSUME NEW S, NEW A, NEW d, DoorOK(band, S, A, d), Forward(band),
         NEW i \in 1 .. Len(d.segment), NEW P, Comp!WithinBound(d, d.segment[i], P)
  PROVE  Reached(S, d, i)
<1> SUFFICES ASSUME NEW w \in S, d.anchor.ts < w.ts, w.ts < d.segment[i].ts
             PROVE  Comp!Near(w, d.anchor, d.segment[i], band.comp)
  BY DEF Reached
<1>1. d.anchor.ts \in Nat => w.ts > d.anchor.ts
  OBVIOUS
<1>2. w \in d.witness
  BY DEF DoorOK, Witnessed
<1>3. w \in Comp!Between(d, d.anchor, d.segment[i])
  BY <1>2 DEF Comp!Between
<1> QED BY <1>3 DEF Comp!WithinBound

\* _choose: the first of the segment, or one to which the line holds; not the last.
LEMMA ChooseIs ==
  ASSUME NEW S, NEW d \in Doors(S), Len(d.segment) # 0
  PROVE  /\ Comp!Choose(d) \in 1 .. Len(d.segment)
         /\ Comp!Choose(d) = 1 \/ \E P : Comp!WithinBound(d, d.segment[Comp!Choose(d)], P)
<1>1. PICK n \in Nat : n = Len(d.segment) /\ n # 0
  BY DEF Doors
<1> DEFINE fits == {i \in 2 .. Len(d.segment) - 1 :
                      Comp!WithinBound(d, d.segment[i], Comp!Range(SubSeq(d.segment, 1, i - 1)))}
<1>2. Comp!Choose(d) = IF fits = {} THEN 1 ELSE Comp!Max(fits)
  BY DEF Comp!Choose
<1>3. fits \subseteq 2 .. n - 1 /\ fits \subseteq Nat
  BY <1>1
<1>4. IsFiniteSet(fits)
  <2>1. IsFiniteSet(2 .. n - 1)
    BY <1>1, FS_Interval
  <2> QED BY <1>3, <2>1, FS_Subset
<1>5. ASSUME fits # {} PROVE Comp!Max(fits) \in fits
  <2> HIDE DEF fits
  <2>1. Max(fits) \in fits
    BY <1>3, <1>4, <1>5, MaxIsGreatest
  <2>2. Comp!Max(fits) = Max(fits)
    BY DEF Comp!Max, Max
  <2> QED BY <2>1, <2>2
<1>6. CASE fits = {}
  BY <1>1, <1>2, <1>6
<1>7. CASE fits # {}
  <2>1. PICK m \in fits : m = Comp!Choose(d)
    BY <1>2, <1>5, <1>7
  <2>2. m \in 1 .. n /\ Comp!WithinBound(d, d.segment[m], Comp!Range(SubSeq(d.segment, 1, m - 1)))
    BY <1>1, <1>3, <2>1
  <2> QED BY <1>1, <2>1, <2>2
<1> QED BY <1>6, <1>7

\* The configuration is a configuration.
Settled == /\ Sized /\ band.exc \in Nat \cup {NoBand} /\ band.comp \in Nat \cup {NoBand}

\* What has come of a door d, with what was archived since A.
Follows(S, A, d, r) ==
  /\ r.out \in Seq(S) /\ DoorOK(band, S, A \o r.out, r.door)
  /\ End(r.door) = End(d) /\ r.door.previous = d.previous

\* What is appended last is appended to all.
LEMMA AppendAfter ==
  ASSUME NEW S, NEW A \in Seq(S), NEW B \in Seq(S), NEW x \in S
  PROVE  A \o Append(B, x) = Append(A \o B, x) /\ Append(B, x) \in Seq(S) /\ A \o B \in Seq(S)
OBVIOUS

\* The same, with what was archived before it in the same call.
LEMMA AdvanceFollows ==
  ASSUME NEW S, S \subseteq Samples, NEW A \in Seq(S), NEW d, NEW r, Follows(S, A, d, r), Settled,
         NEW i \in 1 .. Len(r.door.segment), i = 1 \/ \E P : Comp!WithinBound(r.door, r.door.segment[i], P),
         NEW e, Advanced(r.door, i, e)
  PROVE  Follows(S, A, d, [door |-> e, out |-> Append(r.out, r.door.segment[i])])
<1>1. PICK x \in S : x = r.door.segment[i]
  BY DEF Follows, DoorOK, Doors
<1>2. PICK B \in Seq(S) : B = r.out
  BY DEF Follows
<1>3. DoorOK(band, S, A \o B, r.door)
  BY <1>2 DEF Follows
<1>4. Forward(band) => Reached(S, r.door, i)
  <2>1. CASE i = 1
    BY <2>1 DEF Reached
  <2>2. CASE i # 1
    BY <1>3, <2>2, WithinIsReached
  <2> QED BY <2>1, <2>2
<1>5. DoorOK(band, S, Append(A \o B, x), e) /\ End(e) = End(r.door)
  BY <1>1, <1>3, <1>4, AdvanceKeeps DEF Settled
<1>6. A \o Append(B, x) = Append(A \o B, x) /\ Append(B, x) \in Seq(S)
  BY AppendAfter
<1> QED BY <1>1, <1>2, <1>5, <1>6 DEF Follows, Advanced

\* A round of _drain_segment.
LEMMA RoundFollows ==
  ASSUME NEW S, S \subseteq Samples, NEW A \in Seq(S), NEW d, NEW r, Follows(S, A, d, r), Settled
  PROVE  /\ Follows(S, A, d, Comp!Round(r.door, r.out))
         /\ Comp!Round(r.door, r.out).door.segment = <<>>
            \/ Len(Comp!Round(r.door, r.out).door.segment) < Len(r.door.segment)
<1>1. PICK p : p = r.door
  OBVIOUS
<1>2. p \in Doors(S) /\ p.segment \in Seq(S)
  BY <1>1 DEF Follows, DoorOK, Doors
<1>3. PICK g \in Seq(S), n \in Nat : g = p.segment /\ n = Len(g)
  BY <1>2
<1>4. CASE g = <<>>
  <2>1. Comp!Round(p, r.out) = [door |-> p, out |-> r.out]
    BY <1>3, <1>4 DEF Comp!Round
  <2>2. PICK u : u = Comp!Round(p, r.out)
    OBVIOUS
  <2>3. u.door = r.door /\ u.out = r.out
    <3>1. u = [door |-> p, out |-> r.out]
      BY <1>1, <2>1, <2>2
    <3> QED BY <1>1, <3>1
  <2>4. Follows(S, A, d, u)
    BY <2>3 DEF Follows
  <2>5. u.door.segment = <<>>
    BY <1>1, <1>3, <1>4, <2>3
  <2> QED BY <1>1, <2>2, <2>4, <2>5
<1>5. CASE g # <<>> /\ (n = 1 \/ Comp!WithinBound(p, Comp!Last(g), Comp!Range(Comp!Front(g))))
  <2>1. PICK e : e = [p EXCEPT !.anchor = Comp!Last(g), !.segment = <<>>]
    OBVIOUS
  <2>2. Comp!Round(p, r.out) = [door |-> e, out |-> Append(r.out, Comp!Last(g))]
    BY <1>3, <1>5, <2>1 DEF Comp!Round
  <2>3. Comp!Last(g) = g[n] /\ n \in 1 .. n
    BY <1>3, <1>5 DEF Comp!Last
  <2>4. Comp!Rest(p, n) = <<>>
    <3>1. Comp!Rest(p, n) \in Seq(S) /\ Len(Comp!Rest(p, n)) = 0
      BY <1>3, <2>3, RestIs
    <3> QED BY <3>1
  <2>5. Advanced(p, n, e)
    <3>1. e.anchor = g[n] /\ e.segment = <<>> /\ e.previous = p.previous /\ e.witness = p.witness
      BY <1>2, <2>1, <2>3 DEF Doors
    <3>2. e = [anchor |-> e.anchor, segment |-> e.segment, witness |-> e.witness, previous |-> e.previous]
      BY <1>2, <2>1 DEF Doors
    <3> QED BY <1>3, <2>4, <3>1, <3>2 DEF Advanced
  <2>6. n = 1 \/ \E P : Comp!WithinBound(p, p.segment[n], P)
    BY <1>3, <1>5, <2>3
  <2>7. Follows(S, A, d, [door |-> e, out |-> Append(r.out, g[n])])
    BY <1>1, <1>3, <2>3, <2>5, <2>6, AdvanceFollows
  <2>8. e.segment = <<>>
    BY <1>2, <2>1 DEF Doors
  <2> QED BY <1>1, <2>2, <2>3, <2>7, <2>8
<1>6. CASE g # <<>> /\ n # 1 /\ ~ Comp!WithinBound(p, Comp!Last(g), Comp!Range(Comp!Front(g)))
  <2>1. PICK i : i = Comp!Choose(p)
    OBVIOUS
  <2>2. i \in 1 .. n /\ (i = 1 \/ \E P : Comp!WithinBound(p, p.segment[i], P))
    BY <1>2, <1>3, <1>6, <2>1, ChooseIs
  <2>3. PICK e : e = Comp!Reset(p, g[i], Comp!Rest(p, i))
    OBVIOUS
  <2>4. Comp!Round(p, r.out) = [door |-> e, out |-> Append(r.out, g[i])]
    BY <1>3, <1>6, <2>1, <2>3 DEF Comp!Round
  <2>5. Advanced(p, i, e) /\ e.segment = Comp!Rest(p, i)
    <3>1. e = [anchor |-> g[i], segment |-> Comp!Rest(p, i), previous |-> p.previous,
               witness |-> {w \in p.witness : w.ts > g[i].ts}]
      BY <1>2, <2>3, ResetIs
    <3>2. PICK u : u = {w \in p.witness : w.ts > g[i].ts}
      OBVIOUS
    <3>3. u \subseteq p.witness /\ \A w \in p.witness : w.ts > g[i].ts => w \in u
      BY <3>2
    <3>4. e.anchor = g[i] /\ e.segment = Comp!Rest(p, i) /\ e.previous = p.previous /\ e.witness = u
      BY <3>1, <3>2
    <3>5. e = [anchor |-> e.anchor, segment |-> e.segment, witness |-> e.witness, previous |-> e.previous]
      BY <3>1, <3>4
    <3> QED BY <1>3, <3>3, <3>4, <3>5 DEF Advanced
  <2>6. Follows(S, A, d, [door |-> e, out |-> Append(r.out, g[i])])
    BY <1>1, <1>3, <2>2, <2>5, AdvanceFollows
  <2>7. Len(e.segment) < n
    <3>1. Len(e.segment) = n - i
      BY <1>2, <1>3, <2>2, <2>5, RestIs
    <3> QED BY <2>2, <3>1
  <2> QED BY <1>1, <1>3, <2>4, <2>6, <2>7
<1> QED BY <1>3, <1>4, <1>5, <1>6

\* One round of the recursion of _drain_segment.
Untouched(d) == [door |-> d, out |-> <<>>]
Again(r)     == Comp!Round(r.door, r.out)
DrainStep(d, N, f) == [n \in 0 .. N |-> IF n = 0 THEN Untouched(d) ELSE Again(f[n - 1])]

\* The recursion defines a function.
LEMMA DrainExists ==
  ASSUME NEW d, NEW N \in Nat
  PROVE  \E f : f = DrainStep(d, N, f)
<1> DEFINE Made(f) == [n \in 0 .. N |-> IF n = 0 THEN Untouched(d) ELSE Again(f[n - 1])]
           Fine(f, m) == \A n \in 0 .. N : n <= m => f[n] = Made(f)[n]
           Bad == {m \in Nat : ~ \E f : Fine(f, m)}
<1>1. 0 \notin Bad
  <2>1. Fine(Made(<<>>), 0)
    OBVIOUS
  <2> QED BY <2>1
<1>2. ASSUME NEW m \in Nat, m \notin Bad PROVE m + 1 \notin Bad
  <2>1. PICK f : Fine(f, m)
    BY <1>2
  <2>2. ASSUME NEW n \in 0 .. N, n <= m + 1 PROVE Made(f)[n] = Made(Made(f))[n]
    <3>1. CASE n = 0
      BY <3>1
    <3>2. CASE n # 0
      <4>1. n - 1 \in 0 .. N /\ n - 1 <= m
        BY <2>2, <3>2
      <4>2. f[n - 1] = Made(f)[n - 1]
        BY <2>1, <4>1
      <4> HIDE DEF Fine
      <4> QED BY <3>2, <4>2
    <3> QED BY <3>1, <3>2
  <2>3. Fine(Made(f), m + 1)
    BY <2>2
  <2> QED BY <2>3
<1>3. Bad = {}
  <2> SUFFICES ASSUME Bad # {} PROVE FALSE
    OBVIOUS
  <2>1. Bad \subseteq Nat
    OBVIOUS
  <2> HIDE DEF Bad
  <2>2. PICK m \in Bad : \A k \in Bad : m <= k
    BY <2>1, SmallestExists
  <2>3. m \in Nat /\ m # 0
    BY <1>1, <2>1, <2>2
  <2>4. m - 1 \in Nat /\ m - 1 \notin Bad /\ (m - 1) + 1 = m
    BY <2>2, <2>3
  <2> QED BY <1>2, <2>2, <2>4
<1>4. PICK f : Fine(f, N)
  BY <1>3
<1>5. \A n \in 0 .. N : f[n] = Made(f)[n]
  BY <1>4
<1>6. Made(f) = Made(Made(f))
  <2>1. ASSUME NEW n \in 0 .. N, n # 0 PROVE f[n - 1] = Made(f)[n - 1]
    BY <1>5, <2>1
  <2> HIDE DEF Fine, Bad
  <2> QED BY <2>1
<1> QED BY <1>6 DEF DrainStep

\* _drain_segment archives the segment, or some of it, and its last sample.
LEMMA DrainFollows ==
  ASSUME NEW S, S \subseteq Samples, NEW A, NEW d, DoorOK(band, S, A, d), Settled
  PROVE  Follows(S, A, d, Comp!Drain(d)) /\ Comp!Drain(d).door.segment = <<>>
<1>1. A \in Seq(S) /\ d.segment \in Seq(S)
  BY DEF DoorOK, Doors
<1>2. PICK N \in Nat : N = Len(d.segment)
  BY <1>1
<1> DEFINE f == CHOOSE g : g = DrainStep(d, N, g)
<1>3. f = DrainStep(d, N, f)
  <2>1. \E g : g = DrainStep(d, N, g)
    BY <1>2, DrainExists
  <2> QED BY <2>1
<1>4. Comp!Drain(d) = f[N]
  BY <1>2 DEF Comp!Drain, DrainStep, Untouched, Again
<1> HIDE DEF f
<1>5. f[0] = [door |-> d, out |-> <<>>]
  BY <1>2, <1>3 DEF DrainStep, Untouched
<1>6. \A n \in 1 .. N : f[n] = Comp!Round(f[n - 1].door, f[n - 1].out)
  BY <1>2, <1>3 DEF DrainStep, Again
<1> DEFINE Fine(n) == /\ Follows(S, A, d, f[n])
                      /\ f[n].door.segment = <<>> \/ Len(f[n].door.segment) <= N - n
           Bad == {n \in 0 .. N : ~ Fine(n)}
<1>7. Fine(0)
  <2>1. f[0].door = d /\ f[0].out = <<>>
    BY <1>5
  <2>2. A \o <<>> = A /\ <<>> \in Seq(S)
    BY <1>1
  <2>3. Follows(S, A, d, f[0])
    BY <2>1, <2>2 DEF Follows
  <2> QED BY <1>2, <2>1, <2>3
<1>8. ASSUME NEW n \in 1 .. N, Fine(n - 1) PROVE Fine(n)
  <2>1. PICK r : r = f[n - 1]
    OBVIOUS
  <2>2. PICK e : e = Comp!Round(r.door, r.out)
    OBVIOUS
  <2>3. f[n] = e
    BY <1>6, <2>1, <2>2
  <2>4. Follows(S, A, d, r) /\ (r.door.segment = <<>> \/ Len(r.door.segment) <= N - (n - 1))
    BY <1>8, <2>1
  <2>5. Follows(S, A, d, e) /\ (e.door.segment = <<>> \/ Len(e.door.segment) < Len(r.door.segment))
    BY <1>1, <2>2, <2>4, RoundFollows
  <2>6. r.door.segment \in Seq(S) /\ e.door.segment \in Seq(S)
    BY <2>4, <2>5 DEF Follows, DoorOK, Doors
  <2>7. PICK k \in Nat, l \in Nat : k = Len(r.door.segment) /\ l = Len(e.door.segment)
    BY <2>6
  <2>8. e.door.segment = <<>> \/ l <= N - n
    <3>1. CASE r.door.segment = <<>>
      <4>1. k = 0
        BY <2>7, <3>1
      <4> QED BY <2>5, <2>7, <4>1
    <3>2. CASE k <= N - (n - 1)
      BY <2>5, <2>7, <3>2
    <3> QED BY <2>4, <2>7, <3>1, <3>2
  <2> QED BY <2>3, <2>5, <2>7, <2>8
<1>9. Bad = {}
  <2> SUFFICES ASSUME Bad # {} PROVE FALSE
    OBVIOUS
  <2>1. Bad \subseteq Nat /\ Bad \subseteq 0 .. N
    OBVIOUS
  <2>2. PICK n \in Bad : \A k \in Bad : n <= k
    <3> HIDE DEF Bad
    <3> QED BY <2>1, SmallestExists
  <2>3. ~ Fine(n) /\ n \in 0 .. N
    BY <2>2
  <2>4. n # 0
    BY <1>7, <2>3
  <2>5. n \in 1 .. N /\ n - 1 \in 0 .. N /\ ~ (n <= n - 1)
    BY <2>3, <2>4
  <2>6. Fine(n - 1)
    <3>1. n - 1 \notin Bad
      <4> HIDE DEF Bad
      <4> QED BY <2>2, <2>5
    <3> HIDE DEF Fine
    <3> QED BY <2>5, <3>1
  <2> HIDE DEF Fine
  <2> QED BY <1>8, <2>3, <2>5, <2>6
<1>10. Fine(N)
  <2> HIDE DEF Fine
  <2> QED BY <1>2, <1>9
<1>11. f[N].door.segment \in Seq(S)
  BY <1>10 DEF Follows, DoorOK, Doors
<1>12. f[N].door.segment = <<>>
  <2>1. PICK g \in Seq(S) : g = f[N].door.segment
    BY <1>11
  <2>2. g = <<>> \/ Len(g) <= 0
    BY <1>2, <1>10, <2>1
  <2> QED BY <2>1, <2>2
<1> QED BY <1>4, <1>10, <1>12

-----------------------------------------------------------------------------
(* A sample reaches the door.                                               *)

\* One more raw sample, a witness.
Widened(d, s) == [d EXCEPT !.witness = @ \cup {s}]

\* observe_raw: the samples stay linked when one more is known.
LEMMA GrowthKeeps ==
  ASSUME NEW S, S \subseteq Samples, NEW s \in Samples, NEW A, NEW d, DoorOK(band, S, A, d),
         Forward(band) => \A w \in S : w.ts < s.ts
  PROVE  /\ DoorOK(band, S \cup {s}, A, Widened(d, s))
         /\ End(Widened(d, s)) = End(d) /\ Widened(d, s).previous = d.previous
<1>a. PICK e : e = Widened(d, s)
  OBVIOUS
<1>1. /\ d \in Doors(S) /\ A \in Seq(S) /\ Placed(A, d) /\ Ordered(band, d)
      /\ Forward(band) => Witnessed(S, d) /\ Adjacent(band, S, d) /\ Linked(band, S, A)
  BY DEF DoorOK
<1>2. PICK T : T = S \cup {s}
  OBVIOUS
<1>3. S \subseteq T /\ T \subseteq Samples /\ A \in Seq(T) /\ d.segment \in Seq(T)
  BY <1>1, <1>2 DEF Doors
<1>4. /\ e.anchor = d.anchor /\ e.segment = d.segment /\ e.previous = d.previous
      /\ e.witness = d.witness \cup {s}
      /\ e = [anchor |-> d.anchor, segment |-> d.segment, witness |-> d.witness \cup {s}, previous |-> d.previous]
  BY <1>1, <1>a DEF Doors, Widened
<1>5. e \in Doors(T)
  <2>1. d.witness \cup {s} \in SUBSET T /\ d.anchor \in T \cup {Comp!None} /\ d.previous \in T \cup {Comp!None}
    BY <1>1, <1>2 DEF Doors
  <2> QED BY <1>3, <1>4, <2>1 DEF Doors
<1>6. Placed(A, e) /\ Ordered(band, e) /\ End(e) = End(d)
  BY <1>1, <1>4 DEF Placed, Ordered, End
<1>7. ASSUME Forward(band) PROVE Witnessed(T, e)
  BY <1>1, <1>2, <1>4, <1>7 DEF Witnessed
<1>8. ASSUME Forward(band), NEW y \in S PROVE ~ (s.ts < y.ts)
  <2>1. s.ts \in Nat /\ y.ts \in Nat /\ y.ts < s.ts
    BY <1>8 DEF Samples
  <2> QED BY <2>1
<1>9. ASSUME Forward(band), NEW x, NEW y \in S, Close(band, S, x, y) PROVE Close(band, T, x, y)
  BY <1>2, <1>8, <1>9 DEF Close
<1>10. ASSUME Forward(band), NEW x, NEW y \in S, Good(band, S, x, y) PROVE Good(band, T, x, y)
  BY <1>2, <1>8, <1>10 DEF Good
<1>11. ASSUME Forward(band) PROVE Adjacent(band, T, e)
  <2>1. PICK g \in Seq(S), n \in Nat : g = d.segment /\ n = Len(g) /\ \A i \in 1 .. n : g[i] \in S
    BY <1>1 DEF Doors
  <2>2. g # <<>> => Close(band, T, d.anchor, g[1])
    <3> HAVE g # <<>>
    <3>1. 1 \in 1 .. n
      BY <2>1
    <3>2. Close(band, S, d.anchor, g[1])
      BY <1>1, <1>11, <2>1 DEF Adjacent
    <3> QED BY <1>9, <1>11, <2>1, <3>1, <3>2
  <2>3. \A i \in 1 .. n - 1 : Close(band, T, g[i], g[i + 1])
    <3> TAKE i \in 1 .. n - 1
    <3>1. i + 1 \in 1 .. n
      BY <2>1
    <3>2. Close(band, S, g[i], g[i + 1])
      <4>1. \A j \in 1 .. Len(d.segment) - 1 : Close(band, S, d.segment[j], d.segment[j + 1])
        BY <1>1, <1>11 DEF Adjacent
      <4> QED BY <2>1, <4>1
    <3> QED BY <1>9, <1>11, <2>1, <3>1, <3>2
  <2> QED BY <1>4, <2>1, <2>2, <2>3 DEF Adjacent
<1>12. ASSUME Forward(band) PROVE Linked(band, T, A)
  <2> SUFFICES ASSUME NEW i \in 1 .. Len(A) - 1 PROVE Good(band, T, A[i], A[i + 1])
    BY DEF Linked
  <2>1. i + 1 \in 1 .. Len(A) /\ A[i + 1] \in S
    BY <1>1
  <2>2. Good(band, S, A[i], A[i + 1])
    BY <1>1, <1>12 DEF Linked
  <2> QED BY <1>10, <1>12, <2>1, <2>2
<1> QED BY <1>a, <1>2, <1>3, <1>4, <1>5, <1>6, <1>7, <1>11, <1>12 DEF DoorOK

\* s may be pushed next.
Admissible(S, d, s) ==
  Forward(band) /\ End(d) # Comp!None => End(d).ts < s.ts /\ Close(band, S, End(d), s)

\* s was pushed, and r came of it; it was archived if it had to be.
Pushed(S, A, s, must, r) ==
  /\ r.out \in Seq(S) /\ DoorOK(band, S, A \o r.out, r.door)
  /\ End(r.door) = s /\ r.door.previous = s
  /\ must => \E i \in 1 .. Len(r.out) : r.out[i] = s

\* A sample that is passed on at once.
LEMMA PassPushes ==
  ASSUME NEW S, S \subseteq Samples, NEW A, NEW d, DoorOK(band, S, A, d), NEW s \in S,
         Admissible(S, d, s), d.previous = s, Settled, NEW must
  PROVE  Pushed(S, A, s, must, Comp!Pass(d, s))
<1>1. PICK r : r = Comp!Drain(d)
  OBVIOUS
<1>2. Follows(S, A, d, r) /\ r.door.segment = <<>>
  BY <1>1, DrainFollows
<1>3. PICK p : p = r.door
  OBVIOUS
<1>4. PICK B \in Seq(S) : B = r.out
  BY <1>2 DEF Follows
<1>5. A \in Seq(S)
  BY DEF DoorOK
<1>6. /\ p \in Doors(S) /\ A \o B \in Seq(S) /\ Placed(A \o B, p)
      /\ Forward(band) => Witnessed(S, p) /\ Linked(band, S, A \o B)
  BY <1>2, <1>3, <1>4 DEF Follows, DoorOK
<1>7. End(d) = p.anchor /\ p.previous = s
  BY <1>2, <1>3 DEF Follows, End
<1>8. PICK e : e = Comp!Reset(p, s, <<>>)
  OBVIOUS
<1>9. PICK u : u = {w \in p.witness : w.ts > s.ts}
  OBVIOUS
<1>10. e = [anchor |-> s, segment |-> <<>>, previous |-> s, witness |-> u]
  BY <1>6, <1>7, <1>8, <1>9, ResetIs
<1>11. /\ e \in Doors(S) /\ e.anchor = s /\ e.segment = <<>> /\ e.previous = s /\ e.witness = u
       /\ s # Comp!None
  <2>1. u \in SUBSET S /\ <<>> \in Seq(S)
    BY <1>6, <1>9 DEF Doors
  <2>2. s # Comp!None
    BY NoneIsNoSample
  <2> QED BY <1>10, <2>1, <2>2 DEF Doors
<1>12. PICK C : C = Append(B, s)
  OBVIOUS
<1>13. PICK E : E = A \o C
  OBVIOUS
<1>a. PICK D \in Seq(S) : D = A \o B
  BY <1>6
<1>b. C \in Seq(S) /\ E = Append(D, s) /\ E \in Seq(S)
  BY <1>5, <1>12, <1>13, <1>a, AppendAfter
<1>14. Placed(E, e)
  <2>1. E # <<>> /\ E[Len(E)] = s
    <3>1. PICK n \in Nat : n = Len(D)
      BY <1>a
    <3>2. Len(E) = n + 1 /\ E[n + 1] = s
      BY <1>a, <1>b, <3>1
    <3> QED BY <1>b, <3>1, <3>2
  <2> QED BY <1>11, <2>1 DEF Placed
<1>15. Ordered(band, e)
  BY <1>11 DEF Ordered
<1>16. ASSUME Forward(band) PROVE Witnessed(S, e)
  <2> SUFFICES ASSUME NEW w \in S, w.ts > s.ts PROVE w \in u
    BY <1>11 DEF Witnessed
  <2>1. CASE p.anchor = Comp!None
    BY <1>6, <1>9, <1>16, <2>1 DEF Witnessed
  <2>2. CASE p.anchor # Comp!None
    <3>1. p.anchor.ts < s.ts
      BY <1>7, <1>16, <2>2 DEF Admissible
    <3>2. p.anchor \in S
      BY <1>6, <2>2 DEF Doors
    <3>3. w.ts > p.anchor.ts
      <4>1. p.anchor.ts \in Nat /\ w.ts \in Nat /\ s.ts \in Nat
        BY <3>2 DEF Samples
      <4> QED BY <3>1, <4>1
    <3> QED BY <1>6, <1>9, <1>16, <3>3 DEF Witnessed
  <2> QED BY <2>1, <2>2
<1>17. Adjacent(band, S, e)
  BY <1>11 DEF Adjacent
<1>18. ASSUME Forward(band) PROVE Linked(band, S, E)
  <2>1. Linked(band, S, D)
    BY <1>6, <1>18, <1>a
  <2>2. CASE p.anchor = Comp!None
    <3>1. D = <<>>
      BY <1>6, <1>a, <2>2 DEF Placed
    <3> QED BY <1>b, <2>1, <3>1, LinkedAppend
  <2>3. CASE p.anchor # Comp!None
    <3>1. D[Len(D)] = p.anchor /\ p.anchor \in S
      BY <1>6, <1>a, <2>3 DEF Placed, Doors
    <3>2. Good(band, S, p.anchor, s)
      BY <1>7, <1>18, <2>3, <3>1, CloseIsGood DEF Admissible, Settled
    <3> QED BY <1>b, <2>1, <3>1, <3>2, LinkedAppend
  <2> QED BY <2>2, <2>3
<1>19. DoorOK(band, S, E, e)
  BY <1>11, <1>b, <1>14, <1>15, <1>16, <1>17, <1>18 DEF DoorOK
<1>20. End(e) = s
  BY <1>11 DEF End
<1>21. \E i \in 1 .. Len(C) : C[i] = s
  <2>1. Len(B) + 1 \in 1 .. Len(C) /\ C[Len(B) + 1] = s
    BY <1>12
  <2> QED BY <2>1
<1>22. Comp!Pass(d, s) = [door |-> e, out |-> C]
  BY <1>1, <1>3, <1>4, <1>8, <1>12 DEF Comp!Pass
<1>23. PICK v : v = Comp!Pass(d, s)
  OBVIOUS
<1>24. v.door = e /\ v.out = C
  BY <1>22, <1>23
<1>25. v.out \in Seq(S) /\ DoorOK(band, S, A \o v.out, v.door)
  BY <1>13, <1>19, <1>24, <1>b
<1>26. End(v.door) = s /\ v.door.previous = s
  BY <1>11, <1>20, <1>24
<1>27. \E i \in 1 .. Len(v.out) : v.out[i] = s
  BY <1>21, <1>24
<1> QED BY <1>23, <1>25, <1>26, <1>27 DEF Pushed

\* A sample that may be discarded later.
LEMMA HoldPushes ==
  ASSUME NEW S, S \subseteq Samples, NEW A, NEW d, DoorOK(band, S, A, d), NEW s \in S,
         Admissible(S, d, s), d.previous = s, Settled,
         d.anchor # Comp!None, Comp!Numeric(d.anchor), Comp!Numeric(s), band.comp # NoBand,
         End(d).ts < s.ts, s.ts - d.anchor.ts < Silence
  PROVE  Pushed(S, A, s, FALSE, Comp!Hold(d, s))
<1>1. /\ d \in Doors(S) /\ A \in Seq(S) /\ Placed(A, d) /\ Ordered(band, d)
      /\ Forward(band) => Witnessed(S, d) /\ Adjacent(band, S, d) /\ Linked(band, S, A)
  BY DEF DoorOK
<1>2. PICK g \in Seq(S), n \in Nat : g = d.segment /\ n = Len(g) /\ \A i \in 1 .. n : g[i] \in S
  BY <1>1 DEF Doors
<1>a. n = 0 => g = <<>>
  <2>1. g \in Seq(S) /\ n = Len(g)
    BY <1>2
  <2> QED BY <2>1, EmptySeq
<1>3. PICK h : h = Append(g, s)
  OBVIOUS
<1>4. h \in Seq(S) /\ Len(h) = n + 1 /\ h[n + 1] = s /\ h # <<>> /\ \A i \in 1 .. n : h[i] = g[i]
  BY <1>2, <1>3
<1>5. PICK p : p = [d EXCEPT !.segment = h]
  OBVIOUS
<1>6. /\ p.anchor = d.anchor /\ p.segment = h /\ p.witness = d.witness /\ p.previous = s
      /\ p = [anchor |-> d.anchor, segment |-> h, witness |-> d.witness, previous |-> s]
  BY <1>1, <1>5 DEF Doors
<1>7. p \in Doors(S) /\ Placed(A, p)
  <2>1. p \in Doors(S)
    BY <1>1, <1>4, <1>6 DEF Doors
  <2> QED BY <1>1, <1>6, <2>1 DEF Placed
<1>8. PICK a \in S : a = d.anchor /\ a.ts \in Nat /\ s.ts \in Nat
  BY <1>1 DEF Doors, Samples
<1>9. /\ \A i \in 1 .. n : /\ Comp!Numeric(g[i]) /\ a.ts < g[i].ts /\ g[i].ts - a.ts < Silence
                            /\ g[i].ts \in Nat /\ g[i].ts < s.ts
      /\ \A i, j \in 1 .. n : i < j => g[i].ts < g[j].ts
      /\ a.ts < s.ts
  <2>1. /\ \A i \in 1 .. n : Comp!Numeric(g[i]) /\ a.ts < g[i].ts /\ g[i].ts - a.ts < Silence /\ g[i].ts \in Nat
        /\ \A i, j \in 1 .. n : i < j => g[i].ts < g[j].ts
    <3>1. \A i \in 1 .. n : g[i].ts \in Nat
      BY <1>2 DEF Samples
    <3> QED BY <1>1, <1>2, <1>8, <3>1 DEF Ordered
  <2>2. CASE n = 0
    <3>1. g = <<>>
      BY <1>a, <2>2
    <3>2. a.ts < s.ts
      BY <1>2, <1>8, <3>1 DEF End
    <3> QED BY <2>1, <2>2, <3>2
  <2>3. CASE n # 0
    <3>1. g # <<>> /\ n \in 1 .. n
      BY <1>2, <2>3
    <3>2. g[n].ts < s.ts
      BY <1>2, <3>1 DEF End
    <3>3. \A i \in 1 .. n : g[i].ts < s.ts
      <4> TAKE i \in 1 .. n
      <4>1. g[i].ts \in Nat /\ g[n].ts \in Nat /\ (i = n \/ g[i].ts < g[n].ts)
        BY <2>1, <3>1
      <4> QED BY <1>8, <3>2, <4>1
    <3>4. a.ts < s.ts
      BY <1>8, <2>1, <3>1, <3>2
    <3> QED BY <2>1, <3>3, <3>4
  <2> QED BY <2>2, <2>3
<1>10. Ordered(band, p)
  <2>1. \A i \in 1 .. n + 1 : Comp!Numeric(h[i]) /\ a.ts < h[i].ts /\ h[i].ts - a.ts < Silence
    <3> TAKE i \in 1 .. n + 1
    <3>1. CASE i = n + 1
      BY <1>4, <1>8, <1>9, <3>1
    <3>2. CASE i # n + 1
      <4>1. i \in 1 .. n
        BY <3>2
      <4> QED BY <1>4, <1>9, <4>1
    <3> QED BY <3>1, <3>2
  <2>2. \A i, j \in 1 .. n + 1 : i < j => h[i].ts < h[j].ts
    <3> TAKE i, j \in 1 .. n + 1
    <3> HAVE i < j
    <3>1. i \in 1 .. n /\ (j = n + 1 \/ j \in 1 .. n)
      OBVIOUS
    <3>2. CASE j = n + 1
      BY <1>4, <1>9, <3>1, <3>2
    <3>3. CASE j \in 1 .. n
      BY <1>4, <1>9, <3>1, <3>3
    <3> QED BY <3>1, <3>2, <3>3
  <2> QED BY <1>4, <1>6, <1>8, <2>1, <2>2 DEF Ordered
<1>11. ASSUME Forward(band) PROVE Witnessed(S, p) /\ Adjacent(band, S, p)
  <2>1. Witnessed(S, p)
    BY <1>1, <1>6, <1>11 DEF Witnessed
  <2>2. End(d) # Comp!None
    <3>1. CASE g = <<>>
      BY <1>2, <3>1 DEF End
    <3>2. CASE g # <<>>
      <4>1. n \in 1 .. n
        BY <1>2, <3>2
      <4>2. g[n] \in S
        BY <1>2, <4>1
      <4> QED BY <1>2, <3>2, <4>2, NoneIsNoSample DEF End
    <3> QED BY <3>1, <3>2
  <2>3. Close(band, S, End(d), s)
    BY <1>11, <2>2 DEF Admissible
  <2>4. Close(band, S, a, h[1])
    <3>1. CASE n = 0
      <4>1. g = <<>>
        BY <1>a, <3>1
      <4>2. End(d) = a /\ h[1] = s
        BY <1>2, <1>4, <1>8, <3>1, <4>1 DEF End
      <4> QED BY <2>3, <4>2
    <3>2. CASE n # 0
      <4>1. g # <<>> /\ h[1] = g[1]
        BY <1>2, <1>4, <3>2
      <4> QED BY <1>1, <1>2, <1>8, <1>11, <4>1 DEF Adjacent
    <3> QED BY <3>1, <3>2
  <2>5. \A i \in 1 .. (n + 1) - 1 : Close(band, S, h[i], h[i + 1])
    <3> TAKE i \in 1 .. (n + 1) - 1
    <3>1. CASE i = n
      <4>1. g # <<>> /\ h[i] = g[n] /\ h[i + 1] = s
        BY <1>2, <1>4, <3>1
      <4> QED BY <1>2, <2>3, <4>1 DEF End
    <3>2. CASE i # n
      <4>1. i \in 1 .. n - 1 /\ i \in 1 .. n /\ i + 1 \in 1 .. n
        BY <3>2
      <4>2. h[i] = g[i] /\ h[i + 1] = g[i + 1]
        BY <1>4, <4>1
      <4> QED BY <1>1, <1>2, <1>11, <4>1, <4>2 DEF Adjacent
    <3> QED BY <3>1, <3>2
  <2>6. Adjacent(band, S, p)
    BY <1>4, <1>6, <1>8, <2>4, <2>5 DEF Adjacent
  <2> QED BY <2>1, <2>6
<1>12. DoorOK(band, S, A, p)
  BY <1>1, <1>7, <1>10, <1>11 DEF DoorOK
<1>13. End(p) = s
  BY <1>4, <1>6 DEF End
<1>14. A \o <<>> = A /\ <<>> \in Seq(S)
  BY <1>1
<1>15. Comp!Hold(d, s) = IF ~ Comp!Closed(p) THEN [door |-> p, out |-> <<>>]
                         ELSE [door |-> Comp!Reset(p, h[Comp!Choose(p)], Comp!Rest(p, Comp!Choose(p))),
                               out |-> <<h[Comp!Choose(p)]>>]
  BY <1>2, <1>3, <1>5, <1>6 DEF Comp!Hold
<1>16. PICK v : v = Comp!Hold(d, s)
  OBVIOUS
<1>17. CASE ~ Comp!Closed(p)
  <2>1. v.door = p /\ v.out = <<>>
    BY <1>15, <1>16, <1>17
  <2>2. v.out \in Seq(S) /\ DoorOK(band, S, A \o v.out, v.door)
    BY <1>12, <1>14, <2>1
  <2>3. End(v.door) = s /\ v.door.previous = s
    BY <1>6, <1>13, <2>1
  <2> QED BY <1>16, <2>2, <2>3 DEF Pushed
<1>18. CASE Comp!Closed(p)
  <2>1. PICK i : i = Comp!Choose(p)
    OBVIOUS
  <2>2. i \in 1 .. n + 1 /\ (i = 1 \/ \E P : Comp!WithinBound(p, p.segment[i], P))
    <3>1. Len(p.segment) # 0 /\ Len(p.segment) = n + 1
      BY <1>4, <1>6
    <3> QED BY <1>7, <2>1, <3>1, ChooseIs
  <2>3. PICK x \in S : x = h[i]
    BY <1>4, <2>2
  <2>4. PICK e : e = Comp!Reset(p, x, Comp!Rest(p, i))
    OBVIOUS
  <2>5. v = [door |-> e, out |-> <<x>>]
    BY <1>15, <1>16, <1>18, <2>1, <2>3, <2>4
  <2>6. Advanced(p, i, e)
    <3>1. e = [anchor |-> x, segment |-> Comp!Rest(p, i), previous |-> p.previous,
               witness |-> {w \in p.witness : w.ts > x.ts}]
      BY <1>7, <2>4, ResetIs
    <3>2. PICK u : u = {w \in p.witness : w.ts > x.ts}
      OBVIOUS
    <3>3. u \subseteq p.witness /\ \A w \in p.witness : w.ts > x.ts => w \in u
      BY <3>2
    <3>4. e.anchor = x /\ e.segment = Comp!Rest(p, i) /\ e.previous = p.previous /\ e.witness = u
      BY <3>1, <3>2
    <3>5. e = [anchor |-> e.anchor, segment |-> e.segment, witness |-> e.witness, previous |-> e.previous]
      BY <3>1, <3>4
    <3> QED BY <1>6, <2>3, <3>3, <3>4, <3>5 DEF Advanced
  <2>7. Forward(band) => Reached(S, p, i)
    <3>1. CASE i = 1
      BY <3>1 DEF Reached
    <3>2. CASE i # 1
      <4>1. i \in 1 .. Len(p.segment)
        BY <1>4, <1>6, <2>2
      <4> QED BY <1>12, <2>2, <3>2, <4>1, WithinIsReached
    <3> QED BY <3>1, <3>2
  <2>8. DoorOK(band, S, Append(A, x), e) /\ End(e) = s
    <3>1. i \in 1 .. Len(p.segment) /\ p.segment[i] = x
      BY <1>4, <1>6, <2>2, <2>3
    <3> QED BY <1>12, <1>13, <2>6, <2>7, <3>1, AdvanceKeeps DEF Settled
  <2>9. A \o <<x>> = Append(A, x) /\ <<x>> \in Seq(S)
    BY <1>1
  <2>10. v.door = e /\ v.out = <<x>> /\ e.previous = s
    BY <1>6, <2>5, <2>6 DEF Advanced
  <2>11. v.out \in Seq(S) /\ DoorOK(band, S, A \o v.out, v.door)
    BY <2>8, <2>9, <2>10
  <2> QED BY <1>16, <2>8, <2>10, <2>11 DEF Pushed
<1> QED BY <1>17, <1>18

\* What goes to the archive with the call that brings it.
Special(d, s) == d.anchor = Comp!None \/ s.v = -1 \/ s.q # d.previous.q

\* SwingingDoor.push.
LEMMA DoorPushes ==
  ASSUME NEW S, S \subseteq Samples, NEW A, NEW d, DoorOK(band, S, A, d), NEW s \in S,
         Admissible(S, d, s), d.previous = End(d), Settled
  PROVE  Pushed(S, A, s, Special(d, s), Comp!DoorPush(d, s))
<1>1. d \in Doors(S)
  BY DEF DoorOK
<1>2. PICK p : p = [d EXCEPT !.previous = s]
  OBVIOUS
<1>3. /\ p.anchor = d.anchor /\ p.segment = d.segment /\ p.witness = d.witness /\ p.previous = s
      /\ p = [anchor |-> d.anchor, segment |-> d.segment, witness |-> d.witness, previous |-> s]
  BY <1>1, <1>2 DEF Doors
<1>4. p \in Doors(S)
  BY <1>1, <1>3 DEF Doors
<1>5. DoorOK(band, S, A, p) /\ End(p) = End(d) /\ Admissible(S, p, s)
  <2>1. End(p) = End(d)
    BY <1>3 DEF End
  <2>2. DoorOK(band, S, A, p)
    BY <1>3, <1>4 DEF DoorOK, Placed, Ordered, Witnessed, Adjacent
  <2> QED BY <2>1, <2>2 DEF Admissible
<1>6. PICK out : out = (d.anchor = Comp!None \/ Comp!Forced(s, d.previous, d.anchor)
                       \/ band.comp = NoBand \/ ~ Comp!Numeric(d.anchor))
  OBVIOUS
<1>7. Comp!DoorPush(d, s) = IF out THEN Comp!Pass(p, s) ELSE Comp!Hold(p, s)
  BY <1>2, <1>6 DEF Comp!DoorPush
<1>8. CASE out
  BY <1>3, <1>5, <1>7, <1>8, PassPushes
<1>9. CASE ~ out
  <2>1. /\ d.anchor # Comp!None /\ ~ Comp!Forced(s, d.previous, d.anchor)
        /\ band.comp # NoBand /\ Comp!Numeric(d.anchor)
    BY <1>6, <1>9
  <2>2. /\ s.q = d.previous.q /\ ~ (s.ts <= d.previous.ts) /\ s.v # Comp!Null
        /\ ~ (s.ts - d.anchor.ts >= Silence)
    BY <2>1 DEF Comp!Forced
  <2>3. Comp!Numeric(s)
    BY <2>2, NoneIsNoSample DEF Comp!Numeric
  <2>4. End(d) \in S
    <3>1. d.anchor \in S
      BY <1>1, <2>1 DEF Doors
    <3>2. PICK g \in Seq(S) : g = d.segment
      BY <1>1 DEF Doors
    <3>3. CASE g = <<>>
      BY <3>1, <3>2, <3>3 DEF End
    <3>4. CASE g # <<>>
      BY <3>2, <3>4 DEF End
    <3> QED BY <3>3, <3>4
  <2>5. End(p).ts < s.ts /\ s.ts - p.anchor.ts < Silence
    <3>1. d.anchor \in S
      BY <1>1, <2>1 DEF Doors
    <3>2. End(d).ts \in Nat /\ s.ts \in Nat /\ d.anchor.ts \in Nat
      BY <2>4, <3>1 DEF Samples
    <3> QED BY <1>3, <1>5, <2>2, <3>2 DEF Settled, Sized
  <2>6. Pushed(S, A, s, FALSE, Comp!Hold(p, s))
    BY <1>3, <1>5, <2>1, <2>3, <2>5, HoldPushes
  <2>7. ~ Special(d, s)
    BY <2>1, <2>2 DEF Special, Comp!Null
  <2>8. Pushed(S, A, s, Special(d, s), Comp!Hold(p, s))
    BY <2>6, <2>7 DEF Pushed
  <2> QED BY <1>7, <1>9, <2>8
<1> QED BY <1>8, <1>9

\* Two samples in one call.
LEMMA ThenPushes ==
  ASSUME NEW S, S \subseteq Samples, NEW A \in Seq(S), NEW r, r.out \in Seq(S),
         DoorOK(band, S, A \o r.out, r.door), NEW s \in S, Admissible(S, r.door, s),
         r.door.previous = End(r.door), Settled
  PROVE  Pushed(S, A, s, Special(r.door, s), Comp!Then(r, s))
<1>1. PICK B \in Seq(S) : B = r.out
  OBVIOUS
<1>2. PICK n : n = Comp!DoorPush(r.door, s)
  OBVIOUS
<1>3. Pushed(S, A \o B, s, Special(r.door, s), n)
  BY <1>1, <1>2, DoorPushes
<1>4. PICK C \in Seq(S) : C = n.out
  BY <1>3 DEF Pushed
<1>5. PICK v : v = Comp!Then(r, s)
  OBVIOUS
<1>6. v.door = n.door /\ v.out = B \o C
  BY <1>1, <1>2, <1>4, <1>5 DEF Comp!Then
<1>7. A \o (B \o C) = (A \o B) \o C /\ B \o C \in Seq(S)
  OBVIOUS
<1>8. v.out \in Seq(S) /\ DoorOK(band, S, A \o v.out, v.door)
  BY <1>3, <1>4, <1>6, <1>7 DEF Pushed
<1>9. End(v.door) = s /\ v.door.previous = s
  BY <1>3, <1>6 DEF Pushed
<1>10. ASSUME Special(r.door, s) PROVE \E i \in 1 .. Len(v.out) : v.out[i] = s
  <2>1. PICK i \in 1 .. Len(C) : C[i] = s
    BY <1>3, <1>4, <1>10 DEF Pushed
  <2>2. PICK D : D = B \o C
    OBVIOUS
  <2>3. Len(B) + i \in 1 .. Len(D) /\ D[Len(B) + i] = s
    BY <2>1, <2>2
  <2> QED BY <1>6, <2>2, <2>3
<1> QED BY <1>5, <1>8, <1>9, <1>10 DEF Pushed

-----------------------------------------------------------------------------
(* A sample reaches the filter.                                             *)

Filters(S) == [reported : S \cup {Comp!None}, held : S \cup {Comp!None}, previous : S \cup {Comp!None}]

\* What the filter has let pass in silence.
Hushed(c, f, w) ==
  /\ w.ts - f.reported.ts < Silence
  /\ c.exc # NoBand /\ Comp!Numeric(w) /\ Comp!Numeric(f.reported)
  /\ Comp!Distance(w.v, f.reported.v) <= c.exc

\* The filter f before the door d: all since the last report was let pass.
FilterOK(c, S, f, d) ==
  /\ f \in Filters(S) /\ d.previous = f.reported /\ End(d) = f.reported
  /\ f.reported = Comp!None => f.held = Comp!None
  /\ f.held = Comp!None => f.previous = f.reported
  /\ f.held # Comp!None => f.held = f.previous /\ f.reported.ts < f.held.ts
  /\ f.reported # Comp!None => f.previous.q = f.reported.q
  /\ Forward(c) => \A w \in S : /\ f.reported # Comp!None /\ w.ts <= f.previous.ts
                                /\ f.reported.ts < w.ts => Hushed(c, f, w)

\* What has come of s, received after f and A.
Received(S, A, s, must, f, r) ==
  /\ r.out \in Seq(S) /\ DoorOK(band, S, A \o r.out, r.door) /\ FilterOK(band, S, f, r.door)
  /\ f.previous = s
  /\ must => \E i \in 1 .. Len(r.out) : r.out[i] = s

\* A sample that must be archived, after those f has seen.
Marked(f, s) == f.reported = Comp!None \/ s.v = -1 \/ s.q # f.previous.q

\* The door has seen a sample when it has an anchor.
LEMMA EndIsNone ==
  ASSUME NEW S, S \subseteq Samples, NEW A, NEW d, DoorOK(band, S, A, d)
  PROVE  End(d) \in S \cup {Comp!None} /\ (End(d) = Comp!None <=> d.anchor = Comp!None)
<1>1. d \in Doors(S) /\ Placed(A, d)
  BY DEF DoorOK
<1>2. PICK g \in Seq(S) : g = d.segment
  BY <1>1 DEF Doors
<1>3. CASE g = <<>>
  BY <1>1, <1>2, <1>3 DEF End, Doors
<1>4. CASE g # <<>>
  <2>1. g[Len(g)] \in S
    BY <1>4
  <2>2. End(d) \in S
    BY <1>2, <1>4, <2>1 DEF End
  <2>3. d.anchor # Comp!None
    BY <1>1, <1>2, <1>4 DEF Placed
  <2> QED BY <2>2, <2>3, NoneIsNoSample
<1> QED BY <1>3, <1>4

\* The sample reported is the newest.
Restarted(s) == [reported |-> s, held |-> Comp!None, previous |-> s]

\* Nothing has been held back since it.
LEMMA ReportedIsFine ==
  ASSUME NEW S, S \subseteq Samples, NEW s \in S, Forward(band) => \A w \in S : w.ts <= s.ts,
         NEW d, End(d) = s, d.previous = s
  PROVE  FilterOK(band, S, Restarted(s), d)
<1>a. PICK f : f = Restarted(s)
  OBVIOUS
<1>1. f.reported = s /\ f.held = Comp!None /\ f.previous = s /\ f \in Filters(S)
  BY <1>a DEF Filters, Restarted
<1>2. s # Comp!None
  BY NoneIsNoSample
<1>3. ASSUME Forward(band), NEW w \in S PROVE w.ts <= s.ts /\ ~ (s.ts < w.ts)
  <2>1. w.ts \in Nat /\ s.ts \in Nat /\ w.ts <= s.ts
    BY <1>3 DEF Samples
  <2> QED BY <2>1
<1> QED BY <1>a, <1>1, <1>2, <1>3 DEF FilterOK

\* Stage one's reports, pushed one after the other.
LEMMA ReportsReceived ==
  ASSUME NEW S, S \subseteq Samples, NEW s \in Samples, NEW A, NEW d, DoorOK(band, S, A, d),
         NEW f, FilterOK(band, S, f, d), Forward(band) => \A w \in S : w.ts < s.ts, Settled
  PROVE  Received(S \cup {s}, A, s, Marked(f, s), Restarted(s),
                  Comp!DoorPushAll(Widened(d, s), Comp!Reports(f, s)))
<1>a. PICK p, f1 : p = Widened(d, s) /\ f1 = Restarted(s)
  OBVIOUS
<1>b. f1.previous = s
  BY <1>a DEF Restarted
<1>1. PICK T : T = S \cup {s}
  OBVIOUS
<1>2. s \in T /\ S \subseteq T /\ T \subseteq Samples
  BY <1>1
<1>3. DoorOK(band, T, A, p) /\ End(p) = f.reported /\ p.previous = f.reported
  <2>1. End(d) = f.reported /\ d.previous = f.reported
    BY DEF FilterOK
  <2>2. /\ DoorOK(band, S \cup {s}, A, Widened(d, s))
        /\ End(Widened(d, s)) = End(d) /\ Widened(d, s).previous = d.previous
    BY GrowthKeeps
  <2> QED BY <1>1, <1>a, <2>1, <2>2
<1>4. A \in Seq(T) /\ A \o <<>> = A /\ <<>> \in Seq(T)
  BY <1>3 DEF DoorOK
<1>5. /\ f \in Filters(S)
      /\ f.reported = Comp!None => f.held = Comp!None
      /\ f.held = Comp!None => f.previous = f.reported
      /\ f.held # Comp!None => f.held = f.previous /\ f.reported.ts < f.held.ts
      /\ f.reported # Comp!None => f.previous.q = f.reported.q
      /\ Forward(band) => \A w \in S : /\ f.reported # Comp!None /\ w.ts <= f.previous.ts
                                       /\ f.reported.ts < w.ts => Hushed(band, f, w)
  BY DEF FilterOK
<1>6. PICK b : b = [door |-> p, out |-> <<>>]
  OBVIOUS
<1>7. b.door = p /\ b.out = <<>>
  BY <1>6
<1>8. Forward(band) => \A w \in T : w.ts <= s.ts
  <2>1. \A w \in T : w.ts \in Nat
    BY <1>2 DEF Samples
  <2> QED BY <1>1, <1>2, <2>1
<1>9. PICK v : v = Comp!DoorPushAll(p, Comp!Reports(f, s))
  OBVIOUS
<1>10. CASE f.held # Comp!None /\ f.held.ts < s.ts
  <2>1. PICK h \in S : h = f.held /\ h = f.previous /\ f.reported # Comp!None
    BY <1>5, <1>10 DEF Filters
  <2>3. PICK r1 : r1 = Comp!Then(b, h)
    OBVIOUS
  <2>4. v = Comp!Then(r1, s)
    <3>1. PICK q : q = Comp!Reports(f, s)
      OBVIOUS
    <3>2. q = <<h>> \o <<s>>
      BY <1>10, <2>1, <3>1 DEF Comp!Reports
    <3>3. q # <<>> /\ Len(q) = 2 /\ q[1] = h /\ q[2] = s
      BY <3>2
    <3> QED BY <1>6, <1>9, <2>3, <3>1, <3>3 DEF Comp!DoorPushAll
  <2>5. Admissible(T, p, h)
    <3> SUFFICES ASSUME Forward(band) PROVE f.reported.ts < h.ts /\ Close(band, T, f.reported, h)
      BY <1>3 DEF Admissible
    <3>1. f.reported.ts < h.ts
      BY <1>5, <1>10, <2>1
    <3>2. Hushed(band, f, h)
      BY <1>5, <2>1, <3>1
    <3> SUFFICES ASSUME NEW w \in T, f.reported.ts < w.ts, w.ts < h.ts
                 PROVE  Hushed(band, f, w)
      BY <3>1, <3>2 DEF Close, Hushed
    <3>3. w # s
      <4>1. h.ts \in Nat /\ s.ts \in Nat /\ h.ts < s.ts
        BY <1>10, <2>1 DEF Samples
      <4> QED BY <4>1
    <3> QED BY <1>1, <1>5, <3>3
  <2>6. Pushed(T, A, h, Special(p, h), r1)
    BY <1>2, <1>3, <1>4, <1>7, <2>1, <2>3, <2>5, ThenPushes
  <2>7. /\ r1.out \in Seq(T) /\ DoorOK(band, T, A \o r1.out, r1.door)
        /\ End(r1.door) = h /\ r1.door.previous = h
    BY <2>6 DEF Pushed
  <2>8. Admissible(T, r1.door, s)
    <3> SUFFICES ASSUME Forward(band) PROVE h.ts < s.ts /\ Close(band, T, h, s)
      BY <2>7 DEF Admissible
    <3> SUFFICES ASSUME NEW w \in T, h.ts < w.ts, w.ts < s.ts PROVE FALSE
      BY <1>10, <2>1 DEF Close
    <3>1. w.ts \in Nat /\ h.ts \in Nat /\ s.ts \in Nat
      BY <1>2, <2>1 DEF Samples
    <3>2. w \in S
      BY <1>1, <3>1
    <3>3. w.ts <= h.ts
      BY <1>5, <2>1, <3>2
    <3> QED BY <3>1, <3>3
  <2>9. Pushed(T, A, s, Special(r1.door, s), v)
    BY <1>2, <1>4, <2>4, <2>7, <2>8, ThenPushes
  <2>10. Marked(f, s) => Special(r1.door, s)
    BY <2>1, <2>7 DEF Marked, Special
  <2>11. FilterOK(band, T, f1, v.door)
    BY <1>a, <1>2, <1>8, <2>9, ReportedIsFine DEF Pushed
  <2> QED BY <1>a, <1>b, <1>1, <1>9, <2>9, <2>10, <2>11 DEF Pushed, Received
<1>11. CASE ~ (f.held # Comp!None /\ f.held.ts < s.ts)
  <2>2. v = Comp!Then(b, s)
    <3>1. PICK q : q = Comp!Reports(f, s)
      OBVIOUS
    <3>2. q = <<>> \o <<s>>
      BY <1>11, <3>1 DEF Comp!Reports
    <3>3. q # <<>> /\ Len(q) = 1 /\ q[1] = s
      BY <3>2
    <3> QED BY <1>6, <1>9, <3>1, <3>3 DEF Comp!DoorPushAll
  <2>3. Admissible(T, p, s)
    <3> SUFFICES ASSUME Forward(band), f.reported # Comp!None
                 PROVE  f.reported.ts < s.ts /\ Close(band, T, f.reported, s)
      BY <1>3 DEF Admissible
    <3>1. f.held = Comp!None
      BY <1>5, <1>11 DEF Filters
    <3>2. PICK h \in S : h = f.reported /\ h = f.previous
      BY <1>5, <3>1 DEF Filters
    <3>3. h.ts < s.ts
      BY <3>2
    <3> SUFFICES ASSUME NEW w \in T, h.ts < w.ts, w.ts < s.ts PROVE FALSE
      BY <3>2, <3>3 DEF Close
    <3>4. w.ts \in Nat /\ h.ts \in Nat /\ s.ts \in Nat
      BY <1>2, <3>2 DEF Samples
    <3>5. w \in S
      BY <1>1, <3>4
    <3>6. w.ts <= h.ts
      BY <1>5, <3>2, <3>5
    <3> QED BY <3>4, <3>6
  <2>4. Pushed(T, A, s, Special(p, s), v)
    BY <1>2, <1>3, <1>4, <1>7, <2>2, <2>3, ThenPushes
  <2>5. Marked(f, s) => Special(p, s)
    <3>1. f.reported = Comp!None => p.anchor = Comp!None
      BY <1>2, <1>3, EndIsNone
    <3> QED BY <1>3, <1>5, <3>1 DEF Marked, Special
  <2>6. FilterOK(band, T, f1, v.door)
    BY <1>a, <1>2, <1>8, <2>4, ReportedIsFine DEF Pushed
  <2> QED BY <1>a, <1>b, <1>1, <1>9, <2>4, <2>5, <2>6 DEF Pushed, Received
<1> QED BY <1>10, <1>11

\* A held sample follows the reported one.
LEMMA HeldIsAdmissible ==
  ASSUME NEW S, S \subseteq Samples, NEW d, NEW f, FilterOK(band, S, f, d), f.held # Comp!None
  PROVE  Admissible(S, d, f.held) /\ f.held \in S /\ f.held = f.previous
<1>1. /\ f \in Filters(S) /\ End(d) = f.reported /\ f.held = f.previous /\ f.reported.ts < f.held.ts
      /\ Forward(band) => \A w \in S : f.reported.ts < w.ts => Hushed(band, f, w)
  BY DEF FilterOK
<1>2. PICK h \in S : h = f.held
  BY <1>1 DEF Filters
<1>3. Admissible(S, d, h)
  <2> SUFFICES ASSUME Forward(band) PROVE f.reported.ts < h.ts /\ Close(band, S, f.reported, h)
    BY <1>1 DEF Admissible
  <2>1. f.reported.ts < h.ts /\ Hushed(band, f, h)
    BY <1>1, <1>2
  <2>2. \A w \in S : f.reported.ts < w.ts => Hushed(band, f, w)
    BY <1>1
  <2> QED BY <2>1, <2>2 DEF Close, Hushed
<1> QED BY <1>1, <1>2, <1>3

\* TwoStageCompressor.push.
LEMMA PushReceived ==
  ASSUME NEW S, S \subseteq Samples, NEW s \in Samples, NEW A, NEW d, DoorOK(band, S, A, d),
         NEW f, FilterOK(band, S, f, d), Forward(band) => \A w \in S : w.ts < s.ts, Settled
  PROVE  Received(S \cup {s}, A, s, Marked(f, s), Comp!FilterPush(f, s).filter,
                  Comp!DoorPushAll(Widened(d, s), Comp!FilterPush(f, s).out))
<1>1. PICK n : n = Comp!FilterPush(f, s)
  OBVIOUS
<1>2. PICK hush \in BOOLEAN : hush = (f.reported # Comp!None /\ ~ Comp!Forced(s, f.previous, f.reported)
                                      /\ Comp!Quiet(f, s))
  OBVIOUS
<1>3. CASE ~ hush
  <2>1. n.filter = Restarted(s) /\ n.out = Comp!Reports(f, s)
    BY <1>1, <1>2, <1>3 DEF Comp!FilterPush, Restarted
  <2>2. Received(S \cup {s}, A, s, Marked(f, s), Restarted(s),
                 Comp!DoorPushAll(Widened(d, s), Comp!Reports(f, s)))
    BY ReportsReceived
  <2> QED BY <1>1, <2>1, <2>2
<1>4. CASE hush
  <2>1. f.reported # Comp!None /\ ~ Comp!Forced(s, f.previous, f.reported) /\ Comp!Quiet(f, s)
    BY <1>2, <1>4
  <2>2. /\ s.q = f.previous.q /\ ~ (s.ts <= f.previous.ts) /\ s.v # -1
        /\ ~ (s.ts - f.reported.ts >= Silence)
    BY <2>1 DEF Comp!Forced, Comp!Null
  <2>3. ~ Marked(f, s)
    BY <2>1, <2>2 DEF Marked
  <2>4. /\ f \in Filters(S) /\ d.previous = f.reported /\ End(d) = f.reported
        /\ f.held = Comp!None => f.previous = f.reported
        /\ f.held # Comp!None => f.held = f.previous /\ f.reported.ts < f.held.ts
        /\ f.previous.q = f.reported.q
        /\ Forward(band) => \A w \in S : f.reported.ts < w.ts => Hushed(band, f, w)
    BY <2>1 DEF FilterOK
  <2>5. PICK T : T = S \cup {s}
    OBVIOUS
  <2>6. PICK p : p = Widened(d, s)
    OBVIOUS
  <2>7. DoorOK(band, T, A, p) /\ End(p) = f.reported /\ p.previous = f.reported
    <3>1. /\ DoorOK(band, S \cup {s}, A, Widened(d, s))
          /\ End(Widened(d, s)) = End(d) /\ Widened(d, s).previous = d.previous
      BY GrowthKeeps
    <3> QED BY <2>4, <2>5, <2>6, <3>1
  <2>8. PICK g : g = [f EXCEPT !.held = s, !.previous = s]
    OBVIOUS
  <2>9. n.filter = g /\ n.out = <<>>
    BY <1>1, <2>1, <2>8 DEF Comp!FilterPush
  <2>10. /\ g.reported = f.reported /\ g.held = s /\ g.previous = s
         /\ g = [reported |-> f.reported, held |-> s, previous |-> s]
    BY <2>4, <2>8 DEF Filters
  <2>11. s # Comp!None /\ s \in T
    BY <2>5, NoneIsNoSample
  <2>12. g \in Filters(T)
    BY <2>4, <2>5, <2>10 DEF Filters
  <2>13. PICK r \in S : r = f.reported
    BY <2>1, <2>4 DEF Filters
  <2>14. r.ts < s.ts
    <3>1. s.ts \in Nat /\ r.ts \in Nat
      BY <2>13 DEF Samples
    <3>2. CASE f.held = Comp!None
      BY <2>2, <2>4, <2>13, <3>1, <3>2
    <3>3. CASE f.held # Comp!None
      <4>1. f.previous \in S /\ r.ts < f.previous.ts
        BY <2>4, <2>13, <3>3 DEF Filters
      <4>2. f.previous.ts \in Nat
        BY <4>1 DEF Samples
      <4> QED BY <2>2, <3>1, <4>1, <4>2
    <3> QED BY <3>2, <3>3
  <2>15. Hushed(band, g, s)
    <3>1. s.ts - r.ts < Silence
      <4>1. s.ts \in Nat /\ r.ts \in Nat
        BY <2>13 DEF Samples
      <4> QED BY <2>2, <2>13, <4>1 DEF Settled, Sized
    <3> QED BY <2>1, <2>10, <2>13, <3>1 DEF Hushed, Comp!Quiet
  <2>16. ASSUME Forward(band), NEW w \in T PROVE w.ts <= s.ts /\ (r.ts < w.ts => Hushed(band, g, w))
    <3>1. CASE w = s
      <4>1. s.ts \in Nat
        BY DEF Samples
      <4> QED BY <2>15, <3>1, <4>1
    <3>2. CASE w # s
      <4>1. w \in S
        BY <2>5, <3>2
      <4>2. w.ts \in Nat /\ s.ts \in Nat /\ w.ts < s.ts
        BY <2>16, <4>1 DEF Samples
      <4>3. r.ts < w.ts => Hushed(band, f, w)
        BY <2>4, <2>13, <2>16, <4>1
      <4>4. r.ts < w.ts => Hushed(band, g, w)
        BY <2>10, <4>3 DEF Hushed
      <4> QED BY <4>2, <4>4
    <3> QED BY <3>1, <3>2
  <2>17. FilterOK(band, T, g, p)
    BY <2>1, <2>2, <2>4, <2>7, <2>10, <2>11, <2>12, <2>13, <2>14, <2>16 DEF FilterOK
  <2>18. A \o <<>> = A /\ <<>> \in Seq(T)
    <3>1. A \in Seq(T)
      BY <2>7 DEF DoorOK
    <3> QED BY <3>1
  <2>19. PICK v : v = Comp!DoorPushAll(p, <<>>)
    OBVIOUS
  <2>20. v.door = p /\ v.out = <<>>
    BY <2>19 DEF Comp!DoorPushAll
  <2>21. Received(T, A, s, Marked(f, s), g, v)
    BY <2>3, <2>7, <2>10, <2>17, <2>18, <2>20 DEF Received
  <2> QED BY <1>1, <2>5, <2>6, <2>9, <2>19, <2>21
<1> QED BY <1>3, <1>4

\* What a flush leaves.
Emptied(S, A, newest, b, l) ==
  /\ b.out \in Seq(S) /\ l.out \in Seq(S)
  /\ DoorOK(band, S, (A \o b.out) \o l.out, l.door)
  /\ l.door.segment = <<>> /\ l.door.anchor = newest

\* TwoStageCompressor.flush.
LEMMA FlushEmpties ==
  ASSUME NEW S, S \subseteq Samples, NEW A, NEW d, DoorOK(band, S, A, d),
         NEW f, FilterOK(band, S, f, d), Settled
  PROVE  Emptied(S, A, f.previous, Comp!DoorPushAll(d, Comp!Held(f)),
                 Comp!Drain(Comp!DoorPushAll(d, Comp!Held(f)).door))
<1>1. PICK v : v = Comp!DoorPushAll(d, Comp!Held(f))
  OBVIOUS
<1>2. A \in Seq(S) /\ A \o <<>> = A /\ <<>> \in Seq(S)
  BY DEF DoorOK
<1>3. PICK b : b = [door |-> d, out |-> <<>>]
  OBVIOUS
<1>4. b.door = d /\ b.out = <<>>
  BY <1>3
<1>5. v.out \in Seq(S) /\ DoorOK(band, S, A \o v.out, v.door) /\ End(v.door) = f.previous
  <2>1. CASE f.held = Comp!None
    <3>1. Comp!Held(f) = <<>>
      BY <2>1 DEF Comp!Held
    <3>2. v = b
      BY <1>1, <1>3, <3>1 DEF Comp!DoorPushAll
    <3>3. End(d) = f.previous
      BY <2>1 DEF FilterOK
    <3> QED BY <1>2, <1>4, <3>2, <3>3
  <2>2. CASE f.held # Comp!None
    <3>1. PICK h \in S : h = f.held /\ h = f.previous /\ Admissible(S, d, h)
      BY <2>2, HeldIsAdmissible
    <3>2. v = Comp!Then(b, h)
      <4>1. PICK q : q = Comp!Held(f)
        OBVIOUS
      <4>2. q = <<h>>
        BY <2>2, <3>1, <4>1 DEF Comp!Held
      <4>3. q # <<>> /\ Len(q) = 1 /\ q[1] = h
        BY <4>2
      <4> QED BY <1>1, <1>3, <4>1, <4>3 DEF Comp!DoorPushAll
    <3>3. End(d) = d.previous
      BY DEF FilterOK
    <3>4. Pushed(S, A, h, Special(d, h), v)
      BY <1>2, <1>4, <3>1, <3>2, <3>3, ThenPushes
    <3> QED BY <3>1, <3>4 DEF Pushed
  <2> QED BY <2>1, <2>2
<1>6. PICK l : l = Comp!Drain(v.door)
  OBVIOUS
<1>7. Follows(S, A \o v.out, v.door, l) /\ l.door.segment = <<>>
  BY <1>5, <1>6, DrainFollows
<1>8. /\ l.out \in Seq(S) /\ DoorOK(band, S, (A \o v.out) \o l.out, l.door)
      /\ l.door.anchor = f.previous
  BY <1>5, <1>7 DEF Follows, End
<1> QED BY <1>1, <1>5, <1>6, <1>7, <1>8 DEF Emptied

-----------------------------------------------------------------------------
(* The invariant.                                                           *)

CompAssumed == Comp!SettingAssumption /\ Comp!BoundAssumption

Past   == Comp!Range(raw)
Newest == IF raw = <<>> THEN Comp!None ELSE raw[Len(raw)]

SeriesTyped == /\ band \in Deadbands /\ raw \in Seq(Samples) /\ Len(raw) <= band.size
               /\ flushed \in BOOLEAN /\ filter \in Filters(Past)
Streaming == ~ flushed => FilterOK(band, Past, filter, door) /\ filter.previous = Newest
AllKept   == \A i \in 1 .. Len(raw) : (raw[i].v = -1 \/ (i > 1 /\ raw[i].q # raw[i - 1].q))
                                        => \E j \in 1 .. Len(archive) : archive[j] = raw[i]
FirstKept == raw # <<>> => archive # <<>> /\ archive[1] = raw[1]
LastKept  == flushed => /\ filter.held = Comp!None
                        /\ raw # <<>> => archive[Len(archive)] = raw[Len(raw)]

CompInv == /\ SeriesTyped /\ DoorOK(band, Past, archive, door)
           /\ Streaming /\ AllKept /\ FirstKept /\ LastKept

\* The range of a sequence.
LEMMA RangeHolds ==
  ASSUME NEW X, NEW f, f \in Seq(X)
  PROVE  /\ Comp!Range(f) \subseteq X /\ f \in Seq(Comp!Range(f))
         /\ \A i \in 1 .. Len(f) : f[i] \in Comp!Range(f)
         /\ \A x \in Comp!Range(f) : \E i \in 1 .. Len(f) : f[i] = x
<1>1. DOMAIN f = 1 .. Len(f) /\ Len(f) \in Nat /\ \A i \in 1 .. Len(f) : f[i] \in X
  OBVIOUS
<1>2. \A i \in 1 .. Len(f) : f[i] \in Comp!Range(f)
  BY <1>1 DEF Comp!Range
<1>3. \A x \in Comp!Range(f) : \E i \in 1 .. Len(f) : f[i] = x
  BY <1>1 DEF Comp!Range
<1>4. Comp!Range(f) \subseteq X
  BY <1>1, <1>3
<1>5. f \in Seq(Comp!Range(f))
  <2>1. f = [i \in 1 .. Len(f) |-> f[i]]
    OBVIOUS
  <2>2. f \in [1 .. Len(f) -> Comp!Range(f)]
    BY <1>2, <2>1
  <2> QED BY <1>1, <2>2, SeqDef
<1> QED BY <1>2, <1>3, <1>4, <1>5

\* The range when one more follows.
LEMMA RangeWithNext ==
  ASSUME NEW X, NEW f \in Seq(X), NEW x
  PROVE  Comp!Range(Append(f, x)) = Comp!Range(f) \cup {x}
<1>1. PICK n \in Nat : n = Len(f) /\ DOMAIN f = 1 .. n
  OBVIOUS
<1>2. PICK g : g = Append(f, x)
  OBVIOUS
<1>3. DOMAIN g = 1 .. n + 1 /\ g[n + 1] = x /\ \A i \in 1 .. n : g[i] = f[i]
  BY <1>1, <1>2
<1>4. {g[i] : i \in DOMAIN g} = {f[i] : i \in DOMAIN f} \cup {x}
  <2>1. ASSUME NEW y \in {g[i] : i \in DOMAIN g} PROVE y \in {f[i] : i \in DOMAIN f} \cup {x}
    <3>1. PICK i \in 1 .. n + 1 : y = g[i]
      BY <1>3, <2>1
    <3>2. i = n + 1 \/ i \in 1 .. n
      OBVIOUS
    <3> QED BY <1>1, <1>3, <3>1, <3>2
  <2>2. ASSUME NEW y \in {f[i] : i \in DOMAIN f} \cup {x} PROVE y \in {g[i] : i \in DOMAIN g}
    <3>1. CASE y = x
      <4>1. n + 1 \in DOMAIN g
        BY <1>3
      <4> QED BY <1>3, <3>1, <4>1
    <3>2. CASE y # x
      <4>1. PICK i \in 1 .. n : y = f[i]
        BY <1>1, <2>2, <3>2
      <4>2. i \in DOMAIN g /\ g[i] = y
        BY <1>3, <4>1
      <4> QED BY <4>2
    <3> QED BY <3>1, <3>2
  <2> QED BY <2>1, <2>2
<1> QED BY <1>2, <1>4 DEF Comp!Range

\* Every configuration is settled.
LEMMA BandSettled ==
  ASSUME CompAssumed, band \in Deadbands
  PROVE  Settled
<1>1. band \in Comp!Setting
  BY DEF CompAssumed, Comp!SettingAssumption
<1>2. band.exc \in Nat \cup {NoBand} /\ band.comp \in Nat \cup {NoBand}
  BY <1>1 DEF Comp!Setting
<1> QED BY <1>2 DEF CompAssumed, Comp!BoundAssumption, Settled, Sized

\* It holds at first.
LEMMA CompInit ==
  ASSUME CompAssumed
  PROVE  Comp!Init => CompInv
<1> SUFFICES ASSUME Comp!Init PROVE CompInv
  OBVIOUS
<1>1. /\ band \in Deadbands /\ raw = <<>> /\ archive = <<>> /\ flushed = FALSE
      /\ filter = [reported |-> Comp!None, held |-> Comp!None, previous |-> Comp!None]
      /\ door = [anchor |-> Comp!None, segment |-> <<>>, witness |-> {}, previous |-> Comp!None]
  BY DEF Comp!Init
<1>2. Past = {}
  BY <1>1 DEF Past, Comp!Range
<1>3. band.size \in Nat
  BY <1>1 DEF CompAssumed, Comp!SettingAssumption, Comp!Setting
<1>4. SeriesTyped
  <2>1. raw \in Seq(Samples) /\ Len(raw) <= band.size
    BY <1>1, <1>3
  <2>2. filter \in Filters(Past)
    BY <1>1 DEF Filters
  <2> QED BY <1>1, <2>1, <2>2 DEF SeriesTyped
<1>5. DoorOK(band, Past, archive, door)
  BY <1>1, <1>2 DEF DoorOK, Doors, Placed, Ordered, Witnessed, Adjacent, Linked
<1>6. Streaming
  BY <1>1, <1>2 DEF Streaming, FilterOK, Filters, End, Newest
<1>7. AllKept /\ FirstKept /\ LastKept
  BY <1>1 DEF AllKept, FirstKept, LastKept
<1> QED BY <1>4, <1>5, <1>6, <1>7 DEF CompInv

\* on_sample keeps it.
LEMMA ReceiveKeeps ==
  ASSUME CompAssumed, CompInv, NEW s \in Samples, Comp!Receive(s),
         Forward(band) => \A w \in Past : w.ts < s.ts
  PROVE  CompInv'
<1>1. /\ ~ flushed /\ raw' = Append(raw, s) /\ band' = band /\ flushed' = flushed
      /\ Len(raw) < band.size
  BY DEF Comp!Receive
<1>2. /\ band \in Deadbands /\ raw \in Seq(Samples) /\ flushed \in BOOLEAN
      /\ DoorOK(band, Past, archive, door) /\ FilterOK(band, Past, filter, door)
      /\ filter.previous = Newest /\ AllKept /\ FirstKept
  BY <1>1 DEF CompInv, SeriesTyped, Streaming
<1>3. Settled
  BY <1>2, BandSettled
<1>4. PICK S : S = Past
  OBVIOUS
<1>5. PICK T : T = S \cup {s}
  OBVIOUS
<1>6. S \subseteq Samples /\ Past' = T
  <2>1. Past' = Comp!Range(Append(raw, s))
    BY <1>1 DEF Past
  <2>2. Comp!Range(Append(raw, s)) = Comp!Range(raw) \cup {s}
    BY <1>2, RangeWithNext
  <2>3. Comp!Range(raw) \subseteq Samples
    BY <1>2, RangeHolds
  <2> QED BY <1>4, <1>5, <2>1, <2>2, <2>3 DEF Past
<1>7. PICK n : n = Comp!FilterPush(filter, s)
  OBVIOUS
<1>8. PICK r : r = Comp!DoorPushAll(Widened(door, s), n.out)
  OBVIOUS
<1>9. filter' = n.filter /\ door' = r.door /\ archive' = archive \o r.out
  BY <1>7, <1>8 DEF Comp!Receive, Widened
<1>10. Received(T, archive, s, Marked(filter, s), n.filter, r)
  BY <1>2, <1>3, <1>4, <1>5, <1>6, <1>7, <1>8, PushReceived
<1>11. PICK o \in Seq(T) : o = r.out /\ (Marked(filter, s) => \E i \in 1 .. Len(o) : o[i] = s)
  BY <1>10 DEF Received
<1>12. PICK A \in Seq(T) : A = archive
  BY <1>2, <1>4, <1>5 DEF DoorOK
<1>13. PICK B : B = A \o o
  OBVIOUS
<1>14. archive' = B
  BY <1>9, <1>11, <1>12, <1>13
<1>15. DoorOK(band, T, B, r.door) /\ FilterOK(band, T, n.filter, r.door) /\ n.filter.previous = s
  BY <1>10, <1>11, <1>12, <1>13 DEF Received
<1>16. DoorOK(band, Past, archive, door)'
  BY <1>1, <1>6, <1>9, <1>14, <1>15
<1>17. PICK m \in Nat : m = Len(raw)
  BY <1>2
<1>18. /\ raw' \in Seq(Samples) /\ Len(raw') = m + 1 /\ raw'[m + 1] = s /\ raw' # <<>>
       /\ \A i \in 1 .. m : raw'[i] = raw[i]
  BY <1>1, <1>2, <1>17
<1>19. SeriesTyped'
  <2>1. band.size \in Nat
    BY <1>2 DEF CompAssumed, Comp!SettingAssumption, Comp!Setting
  <2>2. m + 1 <= band.size
    BY <1>1, <1>17, <2>1
  <2>3. n.filter \in Filters(T)
    BY <1>15 DEF FilterOK
  <2> QED BY <1>1, <1>2, <1>6, <1>9, <1>18, <2>2, <2>3 DEF SeriesTyped
<1>20. Streaming'
  <2>1. Newest' = s
    BY <1>18 DEF Newest
  <2> QED BY <1>1, <1>6, <1>9, <1>15, <2>1 DEF Streaming
<1>21. /\ \A j \in 1 .. Len(A) : j \in 1 .. Len(B) /\ B[j] = A[j]
       /\ \A j \in 1 .. Len(o) : Len(A) + j \in 1 .. Len(B) /\ B[Len(A) + j] = o[j]
  BY <1>13
<1>22. AllKept'
  <2> SUFFICES ASSUME NEW i \in 1 .. m + 1, raw'[i].v = -1 \/ (i > 1 /\ raw'[i].q # raw'[i - 1].q)
               PROVE  \E j \in 1 .. Len(B) : B[j] = raw'[i]
    BY <1>14, <1>18 DEF AllKept
  <2>1. CASE i = m + 1
    <3>1. Marked(filter, s)
      <4>1. CASE s.v = -1
        BY <4>1 DEF Marked
      <4>2. CASE i > 1 /\ s.q # raw'[i - 1].q
        <5>1. m \in 1 .. m /\ raw # <<>>
          BY <1>2, <1>17, <2>1, <4>2
        <5>2. raw'[m] = raw[m] /\ Newest = raw[m] /\ i - 1 = m
          BY <1>17, <1>18, <2>1, <5>1 DEF Newest
        <5> QED BY <1>2, <4>2, <5>2 DEF Marked
      <4> QED BY <1>18, <2>1, <4>1, <4>2
    <3>2. PICK j \in 1 .. Len(o) : o[j] = s
      BY <1>11, <3>1
    <3> QED BY <1>18, <1>21, <2>1, <3>2
  <2>2. CASE i # m + 1
    <3>1. i \in 1 .. m /\ raw'[i] = raw[i] /\ (i > 1 => raw'[i - 1] = raw[i - 1])
      <4>1. i \in 1 .. m
        BY <2>2
      <4>2. i > 1 => i - 1 \in 1 .. m
        BY <4>1
      <4> QED BY <1>18, <4>1, <4>2
    <3>2. PICK j \in 1 .. Len(archive) : archive[j] = raw[i]
      BY <1>2, <1>17, <3>1 DEF AllKept
    <3> QED BY <1>12, <1>21, <3>1, <3>2
  <2> QED BY <2>1, <2>2
<1>23. FirstKept'
  <2>1. B # <<>> /\ B[1] = raw'[1]
    <3>1. CASE m = 0
      <4>1. raw = <<>>
        BY <1>2, <1>17, <3>1, EmptySeq
      <4>2. S = {}
        BY <1>4, <4>1 DEF Past, Comp!Range
      <4>3. A = <<>>
        <5>1. A \in Seq({})
          BY <1>2, <1>4, <1>12, <4>2 DEF DoorOK
        <5> QED BY <5>1
      <4>4. filter.previous = Comp!None
        BY <1>2, <4>1 DEF Newest
      <4>5. filter.reported = Comp!None
        BY <1>2, <4>4 DEF FilterOK
      <4>6. PICK j \in 1 .. Len(o) : o[j] = s
        BY <1>11, <4>5 DEF Marked
      <4>7. T = {s} /\ 1 \in 1 .. Len(o)
        BY <1>5, <4>2, <4>6
      <4>8. o[1] = s
        BY <4>7
      <4>9. B = o
        BY <1>13, <4>3
      <4>10. raw'[1] = s
        BY <1>18, <3>1
      <4> QED BY <4>7, <4>8, <4>9, <4>10
    <3>2. CASE m # 0
      <4>1. raw # <<>> /\ 1 \in 1 .. m
        BY <1>2, <1>17, <3>2
      <4>2. A # <<>> /\ A[1] = raw[1]
        BY <1>2, <1>12, <4>1 DEF FirstKept
      <4>3. 1 \in 1 .. Len(A)
        BY <4>2
      <4>4. B # <<>> /\ B[1] = A[1]
        BY <1>21, <4>3
      <4> QED BY <1>18, <4>1, <4>2, <4>4
    <3> QED BY <3>1, <3>2
  <2> QED BY <1>14, <2>1 DEF FirstKept
<1>24. LastKept'
  BY <1>1 DEF LastKept
<1> QED BY <1>16, <1>19, <1>20, <1>22, <1>23, <1>24 DEF CompInv

\* Timestamps go on from the latest one.
LEMMA SourceReceives ==
  ASSUME CompAssumed, CompInv, Comp!Source
  PROVE  \E s \in Samples : Comp!Receive(s) /\ (Forward(band) => \A w \in Past : w.ts < s.ts)
<1>1. raw \in Seq(Samples) /\ band \in Comp!Setting
  BY DEF CompInv, SeriesTyped, CompAssumed, Comp!SettingAssumption
<1>2. band.values \subseteq Nat \cup {-1} /\ band.qualities \subseteq {"Good", "Uncertain"} /\ band.steps \subseteq Int
  BY <1>1 DEF Comp!Setting, Comp!Null
<1>3. PICK now : now = IF raw = <<>> THEN 1 ELSE Comp!Max({x.ts : x \in Comp!Range(raw)})
  OBVIOUS
<1>4. PICK step \in band.steps, v \in band.values, q \in band.qualities :
        now + step >= 1 /\ Comp!Receive([ts |-> now + step, v |-> v, q |-> q])
  BY <1>3 DEF Comp!Source
<1>5. /\ Past \subseteq Samples
      /\ \A x \in Past : \E i \in 1 .. Len(raw) : raw[i] = x
      /\ \A i \in 1 .. Len(raw) : raw[i] \in Past
  BY <1>1, RangeHolds DEF Past
<1>6. now \in Nat /\ \A w \in Past : w.ts <= now
  <2>1. CASE raw = <<>>
    <3>1. Past = {}
      BY <1>5, <2>1
    <3> QED BY <1>3, <2>1, <3>1
  <2>2. CASE raw # <<>>
    <3>1. PICK n \in Nat : n = Len(raw) /\ n # 0
      BY <1>1, <2>2
    <3>2. PICK f : f = [i \in 1 .. n |-> raw[i].ts]
      OBVIOUS
    <3>3. PICK M : M = {f[i] : i \in 1 .. n}
      OBVIOUS
    <3>4. IsFiniteSet(M)
      <4>1. IsFiniteSet(1 .. n) /\ DOMAIN f = 1 .. n
        BY <3>2, FS_Interval
      <4> QED BY <3>3, <4>1, ImageFinite
    <3>5. \A x : x \in {y.ts : y \in Past} <=> x \in M
      <4>1. ASSUME NEW y \in Past PROVE y.ts \in M
        BY <1>5, <3>1, <3>2, <3>3
      <4>2. ASSUME NEW i \in 1 .. n PROVE f[i] \in {y.ts : y \in Past}
        BY <1>5, <3>1, <3>2
      <4> QED BY <3>3, <4>1, <4>2
    <3>6. M = {y.ts : y \in Past}
      BY <3>5
    <3>7. M \subseteq Nat /\ M # {}
      <4>1. \A y \in Past : y.ts \in Nat
        BY <1>5 DEF Samples
      <4>2. 1 \in 1 .. n
        BY <3>1
      <4> QED BY <3>3, <3>6, <4>1, <4>2
    <3>8. now = Max(M)
      BY <1>3, <2>2, <3>6 DEF Past, Comp!Max, Max
    <3>9. Max(M) \in M /\ \A y \in M : Max(M) >= y
      BY <3>4, <3>7, MaxIsGreatest
    <3>10. now \in Nat
      BY <3>7, <3>8, <3>9
    <3>11. ASSUME NEW w \in Past PROVE w.ts <= now
      <4>1. w.ts \in M /\ w.ts \in Nat
        BY <3>6, <3>7
      <4>2. now >= w.ts
        BY <3>8, <3>9, <4>1
      <4> QED BY <3>10, <4>1, <4>2
    <3> QED BY <3>10, <3>11
  <2> QED BY <2>1, <2>2
<1>7. PICK s : s = [ts |-> now + step, v |-> v, q |-> q]
  OBVIOUS
<1>8. s \in Samples
  <2>1. now + step \in Nat \ {0}
    BY <1>2, <1>4, <1>6
  <2> QED BY <1>2, <1>7, <2>1 DEF Samples
<1>9. ASSUME Forward(band), NEW w \in Past PROVE w.ts < s.ts
  <2>1. step > 0 /\ step \in Int /\ w.ts <= now /\ s.ts = now + step
    BY <1>2, <1>6, <1>7, <1>9 DEF Forward
  <2>2. w.ts \in Nat
    BY <1>5 DEF Samples
  <2> QED BY <1>6, <2>1, <2>2
<1> QED BY <1>4, <1>7, <1>8, <1>9

\* A clean stop keeps it.
LEMMA FlushKeeps ==
  ASSUME CompAssumed, CompInv, Comp!Flush
  PROVE  CompInv'
<1>1. ~ flushed /\ flushed' = TRUE /\ band' = band /\ raw' = raw
  BY DEF Comp!Flush
<1>2. /\ SeriesTyped /\ DoorOK(band, Past, archive, door) /\ FilterOK(band, Past, filter, door)
      /\ filter.previous = Newest /\ AllKept /\ FirstKept /\ filter \in Filters(Past)
  BY <1>1 DEF CompInv, Streaming, SeriesTyped
<1>3. Settled
  BY <1>2, BandSettled DEF SeriesTyped
<1>4. raw \in Seq(Samples)
  BY <1>2 DEF SeriesTyped
<1>5. PICK S : S = Past
  OBVIOUS
<1>6. S \subseteq Samples /\ Past' = S
  <2>1. Past' = Past
    BY <1>1 DEF Past
  <2> QED BY <1>4, <1>5, <2>1, RangeHolds DEF Past
<1>7. PICK b, l : b = Comp!DoorPushAll(door, Comp!Held(filter)) /\ l = Comp!Drain(b.door)
  OBVIOUS
<1>8. Emptied(S, archive, filter.previous, b, l)
  BY <1>2, <1>3, <1>5, <1>6, <1>7, FlushEmpties
<1>9. door' = l.door /\ archive' = (archive \o b.out) \o l.out /\ filter' = [filter EXCEPT !.held = Comp!None]
  <2>1. door' = l.door /\ archive' = archive \o b.out \o l.out
    BY <1>7 DEF Comp!Flush
  <2>2. filter' = [filter EXCEPT !.held = Comp!None]
    BY DEF Comp!Flush
  <2> QED BY <2>1, <2>2
<1>10. PICK A \in Seq(S), o \in Seq(S), u \in Seq(S) : A = archive /\ o = b.out /\ u = l.out
  BY <1>2, <1>5, <1>8 DEF DoorOK, Emptied
<1>11. PICK B : B = (A \o o) \o u
  OBVIOUS
<1>12. archive' = B /\ DoorOK(band, S, B, l.door) /\ l.door.anchor = filter.previous
  BY <1>8, <1>9, <1>10, <1>11 DEF Emptied
<1>13. DoorOK(band, Past, archive, door)'
  BY <1>1, <1>6, <1>9, <1>12
<1>14. filter' \in Filters(S) /\ filter'.held = Comp!None
  BY <1>2, <1>5, <1>9 DEF Filters
<1>15. SeriesTyped'
  BY <1>1, <1>2, <1>6, <1>14 DEF SeriesTyped
<1>16. Streaming'
  BY <1>1 DEF Streaming
<1>17. \A j \in 1 .. Len(A) : j \in 1 .. Len(B) /\ B[j] = A[j]
  <2>1. PICK D : D = A \o o
    OBVIOUS
  <2>2. D \in Seq(S) /\ \A j \in 1 .. Len(A) : j \in 1 .. Len(D) /\ D[j] = A[j]
    BY <2>1
  <2>3. B = D \o u
    BY <1>11, <2>1
  <2>4. \A j \in 1 .. Len(D) : j \in 1 .. Len(B) /\ B[j] = D[j]
    BY <2>2, <2>3
  <2> QED BY <2>2, <2>4
<1>18. AllKept'
  <2> SUFFICES ASSUME NEW i \in 1 .. Len(raw), raw[i].v = -1 \/ (i > 1 /\ raw[i].q # raw[i - 1].q)
               PROVE  \E j \in 1 .. Len(B) : B[j] = raw[i]
    BY <1>1, <1>12 DEF AllKept
  <2>1. PICK j \in 1 .. Len(archive) : archive[j] = raw[i]
    BY <1>2 DEF AllKept
  <2> QED BY <1>10, <1>17, <2>1
<1>19. FirstKept'
  <2> SUFFICES ASSUME raw # <<>> PROVE B # <<>> /\ B[1] = raw[1]
    BY <1>1, <1>12 DEF FirstKept
  <2>1. A # <<>> /\ A[1] = raw[1]
    BY <1>2, <1>10 DEF FirstKept
  <2>2. 1 \in 1 .. Len(A)
    BY <1>10, <2>1
  <2>3. 1 \in 1 .. Len(B) /\ B[1] = A[1]
    BY <1>17, <2>2
  <2>4. B # <<>>
    BY <2>3
  <2> QED BY <2>1, <2>3, <2>4
<1>20. LastKept'
  <2>1. raw # <<>> => B[Len(B)] = raw[Len(raw)]
    <3> HAVE raw # <<>>
    <3>1. filter.previous = raw[Len(raw)] /\ raw[Len(raw)] \in Samples
      BY <1>2, <1>4 DEF Newest
    <3>2. filter.previous # Comp!None
      <4>1. Samples \subseteq Samples
        OBVIOUS
      <4> QED BY <3>1, <4>1, NoneIsNoSample
    <3>3. Placed(B, l.door)
      BY <1>12 DEF DoorOK
    <3> QED BY <1>12, <3>1, <3>2, <3>3 DEF Placed
  <2> QED BY <1>1, <1>12, <1>14, <2>1 DEF LastKept
<1> QED BY <1>13, <1>15, <1>16, <1>18, <1>19, <1>20 DEF CompInv

\* Every step keeps it.
LEMMA CompNext ==
  ASSUME CompAssumed
  PROVE  CompInv /\ [Comp!Next]_(Comp!vars) => CompInv'
<1> SUFFICES ASSUME CompInv, [Comp!Next]_(Comp!vars) PROVE CompInv'
  OBVIOUS
<1>1. CASE Comp!Source
  <2>1. PICK s \in Samples : Comp!Receive(s) /\ (Forward(band) => \A w \in Past : w.ts < s.ts)
    BY <1>1, SourceReceives
  <2> QED BY <2>1, ReceiveKeeps
<1>2. CASE Comp!Flush
  BY <1>2, FlushKeeps
<1>3. CASE UNCHANGED Comp!vars
  <2>1. band' = band /\ raw' = raw /\ filter' = filter /\ door' = door /\ archive' = archive /\ flushed' = flushed
    BY <1>3 DEF Comp!vars
  <2>2. Past' = Past
    BY <2>1 DEF Past
  <2>3. SeriesTyped' /\ Streaming' /\ AllKept' /\ FirstKept' /\ LastKept'
    BY <2>1, <2>2 DEF CompInv, SeriesTyped, Streaming, AllKept, FirstKept, LastKept, Newest
  <2>4. DoorOK(band, Past, archive, door)'
    BY <2>1, <2>2 DEF CompInv
  <2> QED BY <2>3, <2>4 DEF CompInv
<1> QED BY <1>1, <1>2, <1>3 DEF Comp!Next

-----------------------------------------------------------------------------
(* What it gives.                                                           *)

\* What is archived is of the past.
LEMMA PastFacts ==
  ASSUME CompInv
  PROVE  /\ raw \in Seq(Samples) /\ raw \in Seq(Past) /\ Past \subseteq Samples /\ archive \in Seq(Past)
         /\ DOMAIN raw = 1 .. Len(raw) /\ Comp!Range(raw) = Past /\ Comp!Range(archive) \subseteq Past
         /\ \A i \in 1 .. Len(archive) : archive[i] \in Comp!Range(archive)
<1>1. raw \in Seq(Samples) /\ archive \in Seq(Past)
  BY DEF CompInv, SeriesTyped, DoorOK
<1>2. Past \subseteq Samples /\ raw \in Seq(Past)
  BY <1>1, RangeHolds DEF Past
<1>3. Comp!Range(archive) \subseteq Past /\ \A i \in 1 .. Len(archive) : archive[i] \in Comp!Range(archive)
  BY <1>1, RangeHolds
<1> QED BY <1>1, <1>2, <1>3 DEF Past

\* It implies MustKeep.
LEMMA KeepsWhatMustBe ==
  ASSUME CompInv
  PROVE  Comp!MustKeep
<1>1. /\ raw \in Seq(Samples) /\ archive \in Seq(Past) /\ DOMAIN raw = 1 .. Len(raw)
      /\ \A i \in 1 .. Len(archive) : archive[i] \in Comp!Range(archive)
  BY PastFacts
<1>2. AllKept /\ FirstKept /\ LastKept
  BY DEF CompInv
<1>3. \A i \in DOMAIN raw : raw[i].v = Comp!Null \/ (i > 1 /\ raw[i].q # raw[i - 1].q)
                              => raw[i] \in Comp!Range(archive)
  <2> SUFFICES ASSUME NEW i \in 1 .. Len(raw), raw[i].v = -1 \/ (i > 1 /\ raw[i].q # raw[i - 1].q)
               PROVE  raw[i] \in Comp!Range(archive)
    BY <1>1 DEF Comp!Null
  <2>1. PICK j \in 1 .. Len(archive) : archive[j] = raw[i]
    BY <1>2 DEF AllKept
  <2> QED BY <1>1, <2>1
<1>4. flushed /\ raw # <<>> => archive[1] = raw[1] /\ archive[Len(archive)] = raw[Len(raw)]
  BY <1>2 DEF FirstKept, LastKept
<1>5. flushed /\ raw # <<>> => archive[1] = raw[1] /\ Comp!Last(archive) = Comp!Last(raw)
  BY <1>4 DEF Comp!Last
<1> QED BY <1>3, <1>5 DEF Comp!MustKeep

\* Forward is the model's Advancing.
LEMMA ForwardIsAdvancing == Comp!Advancing <=> Forward(band)
BY DEF Comp!Advancing, Forward

\* It implies NoLongGap.
LEMMA NeverSilent ==
  ASSUME CompInv
  PROVE  Comp!NoLongGap
<1>1. /\ raw \in Seq(Samples) /\ raw \in Seq(Past) /\ Past \subseteq Samples /\ archive \in Seq(Past)
      /\ Comp!Range(raw) = Past /\ Comp!Range(archive) \subseteq Past
  BY PastFacts
<1>2. /\ door \in Doors(Past) /\ Ordered(band, door)
      /\ Forward(band) => Linked(band, Past, archive)
  BY DEF CompInv, DoorOK
<1>3. Comp!TypeOK
  <2>1. band \in Deadbands /\ Len(raw) <= band.size /\ filter \in Filters(Past)
    BY DEF CompInv, SeriesTyped
  <2>2. {filter.reported, filter.held, filter.previous, door.anchor} \subseteq Past \cup {Comp!None}
    BY <1>2, <2>1 DEF Filters, Doors
  <2>3. door.witness \subseteq Past
    BY <1>2 DEF Doors
  <2>4. \A i \in DOMAIN door.segment : i > 1 => door.segment[i - 1].ts < door.segment[i].ts
    <3>1. PICK g \in Seq(Past) : g = door.segment
      BY <1>2 DEF Doors
    <3>2. DOMAIN g = 1 .. Len(g) /\ Len(g) \in Nat
      BY <3>1
    <3>3. \A i, j \in 1 .. Len(g) : i < j => g[i].ts < g[j].ts
      BY <1>2, <3>1 DEF Ordered
    <3>4. ASSUME NEW i \in 1 .. Len(g), i > 1 PROVE g[i - 1].ts < g[i].ts
      <4>1. i - 1 \in 1 .. Len(g) /\ i - 1 < i
        BY <3>2, <3>4
      <4> QED BY <3>3, <4>1
    <3> QED BY <3>1, <3>2, <3>4
  <2>5. filter.held # Comp!None => filter.held = filter.previous /\ filter.held.ts > filter.reported.ts
    <3> HAVE filter.held # Comp!None
    <3>1. ~ flushed
      BY DEF CompInv, LastKept
    <3>2. filter.held = filter.previous /\ filter.reported.ts < filter.held.ts
      BY <3>1 DEF CompInv, Streaming, FilterOK
    <3> QED BY <3>2
  <2> QED BY <1>1, <2>1, <2>2, <2>3, <2>4, <2>5 DEF Comp!TypeOK
<1>4. ASSUME Comp!Advancing, NEW i \in Comp!Pairs
      PROVE  /\ archive[i].ts < archive[i + 1].ts
             /\ \A w \in Comp!Range(raw) :
                  archive[i].ts < w.ts /\ w.ts < archive[i + 1].ts => w.ts - archive[i].ts < Silence
  <2>1. Good(band, Past, archive[i], archive[i + 1])
    BY <1>2, <1>4, ForwardIsAdvancing DEF Linked, Comp!Pairs
  <2> QED BY <1>1, <2>1 DEF Good
<1> QED BY <1>3, <1>4 DEF Comp!NoLongGap

\* And, where the deadbands fit, ReconstructsWithinCompDev.
LEMMA Reconstructs ==
  ASSUME CompInv, Tight(band)
  PROVE  Comp!ReconstructsWithinCompDev
<1> SUFFICES ASSUME Comp!Advancing, band.comp # NoBand, NEW i \in Comp!Pairs, NEW w \in Comp!Range(raw),
                    archive[i].ts < w.ts, w.ts < archive[i + 1].ts,
                    Comp!Numeric(archive[i]), Comp!Numeric(archive[i + 1])
             PROVE  Comp!Near(w, archive[i], archive[i + 1], band.comp)
  BY DEF Comp!ReconstructsWithinCompDev
<1>1. Comp!Range(raw) = Past
  BY PastFacts
<1>2. Forward(band) => Linked(band, Past, archive)
  BY DEF CompInv, DoorOK
<1>3. Good(band, Past, archive[i], archive[i + 1])
  BY <1>2, ForwardIsAdvancing DEF Linked, Comp!Pairs
<1> QED BY <1>1, <1>3 DEF Good

\* MustKeep: a change of quality and a sample without a number are archived with
\* the call that brings them, also when timestamps go back, and a clean stop
\* archives both ends of the series (compression.py:17-24, flush).
THEOREM NothingSpecialIsLost ==
  ASSUME CompAssumed
  PROVE  Comp!Spec => []Comp!MustKeep
<1>1. Comp!Init => CompInv
  BY CompInit
<1>2. CompInv /\ [Comp!Next]_(Comp!vars) => CompInv'
  BY CompNext
<1>3. CompInv => Comp!MustKeep
  BY KeepsWhatMustBe
<1> QED BY <1>1, <1>2, <1>3, PTL DEF Comp!Spec

\* NoLongGap: while timestamps advance, the archive is in order without repeats,
\* and no raw sample is max_time or more after an archived one and before the next
\* archived one (_forced_reason, _drain_segment).
THEOREM SteadyTagsKeepReporting ==
  ASSUME CompAssumed
  PROVE  Comp!Spec => []Comp!NoLongGap
<1>1. Comp!Init => CompInv
  BY CompInit
<1>2. CompInv /\ [Comp!Next]_(Comp!vars) => CompInv'
  BY CompNext
<1>3. CompInv => Comp!NoLongGap
  BY NeverSilent
<1> QED BY <1>1, <1>2, <1>3, PTL DEF Comp!Spec

\* ReconstructsWithinCompDev: every raw sample is within CompDev of the line
\* between its archived neighbours, both stages together, if ExcDev is at most
\* half of CompDev (compression.py:38, _within_bound, ExceptionFilter.push).
THEOREM ArchiveReconstructs ==
  ASSUME CompAssumed, \A c \in Deadbands : Tight(c)
  PROVE  Comp!Spec => []Comp!ReconstructsWithinCompDev
<1>1. Comp!Init => CompInv
  BY CompInit
<1>2. CompInv /\ [Comp!Next]_(Comp!vars) => CompInv'
  BY CompNext
<1>3. CompInv => Comp!ReconstructsWithinCompDev
  BY Reconstructs DEF CompInv, SeriesTyped
<1> QED BY <1>1, <1>2, <1>3, PTL DEF Comp!Spec
=============================================================================
