------------------------------ MODULE Extrema ------------------------------
(***************************************************************************)
(* Smallest and largest elements of finite sets of numbers, images of      *)
(* finite sets, sums over them, and what finite sets cover together: what  *)
(* the proofs of this project need to know of the CHOOSEs behind Min, Max  *)
(* and SumFunction, and of the IsFiniteSets behind Cardinality.            *)
(***************************************************************************)
EXTENDS Naturals, FiniteSetsExt, FiniteSetTheorems, WellFoundedInduction, TLAPS

\* A nonempty set of numbers has a smallest element.
LEMMA SmallestExists ==
  ASSUME NEW S, S \subseteq Nat, S # {}
  PROVE  \E x \in S : \A y \in S : x <= y
<1>1. PICK x \in S : \A y \in S : ~ (<<y, x>> \in OpToRel(<, Nat))
  BY NatLessThanWellFounded, WFMin
<1>2. ASSUME NEW y \in S PROVE x <= y
  <2>1. <<y, x>> \notin OpToRel(<, Nat)
    BY <1>1
  <2>2. ~ (y < x)
    BY <2>1 DEF OpToRel
  <2> QED BY <2>2
<1> QED BY <1>2

\* A finite nonempty set of numbers has a largest element.
LEMMA LargestExists ==
  ASSUME NEW S, S \subseteq Nat, S # {}, IsFiniteSet(S)
  PROVE  \E x \in S : \A y \in S : x >= y
<1> DEFINE Topped(T) == \E x \in T : \A y \in T : x >= y
           Topless   == {T \in SUBSET S : T # {} /\ ~ Topped(T)}
<1> SUFFICES ASSUME ~ Topped(S) PROVE FALSE
  OBVIOUS
<1>1. Topless \subseteq FiniteSubsetsOf(S) /\ Topless # {}
  BY FS_FiniteSubsetsOfFinite
<1>2. PICK T \in Topless : \A U \in Topless : <<U, T>> \notin StrictSubsetOrdering(S)
  BY <1>1, FS_StrictSubsetOrderingWellFounded, WFMin
<1>3. PICK x \in T : TRUE
  OBVIOUS
<1>4. T \ {x} \notin Topless
  BY <1>2, <1>3 DEF StrictSubsetOrdering
<1>5. CASE T \ {x} = {}
  <2>1. \A y \in T : x >= y
    BY <1>3, <1>5
  <2> QED BY <2>1, <1>3
<1>6. CASE Topped(T \ {x})
  <2>1. PICK z \in T \ {x} : \A y \in T \ {x} : z >= y
    BY <1>6
  <2>2. x \in Nat /\ z \in Nat /\ T \subseteq Nat
    BY <1>3
  <2>3. (\A y \in T : x >= y) \/ (\A y \in T : z >= y)
    BY <2>1, <2>2
  <2> QED BY <2>3, <1>3
<1> QED BY <1>4, <1>5, <1>6

\* Min and Max are what they are called.
LEMMA MinIsLeast ==
  ASSUME NEW S, S \subseteq Nat, S # {}
  PROVE  Min(S) \in S /\ \A y \in S : Min(S) <= y
BY SmallestExists DEF Min

LEMMA MaxIsGreatest ==
  ASSUME NEW S, S \subseteq Nat, S # {}, IsFiniteSet(S)
  PROVE  Max(S) \in S /\ \A y \in S : Max(S) >= y
BY LargestExists DEF Max

\* The image of a finite set under a function is finite.
LEMMA ImageFinite ==
  ASSUME NEW S, IsFiniteSet(S), NEW f, DOMAIN f = S
  PROVE  IsFiniteSet({f[x] : x \in S})
<1> DEFINE T == {f[x] : x \in S}
           g == [x \in S |-> f[x]]
<1>1. g \in Surjection(S, T)
  BY DEF Surjection
<1> HIDE DEF g
<1> QED BY <1>1, FS_Surjection

-----------------------------------------------------------------------------
(* Sums.  SumFunction adds the values of a function one at a time, in the    *)
(* order of the CHOOSEs; that it does so, and that the order does not matter, *)
(* are the lemmas that follow.  A partial sum is one over a part of the       *)
(* domain.                                                                   *)

\* Among subsets of a finite set there is one that none of the others is inside.
LEMMA SmallestSubset ==
  ASSUME NEW S, IsFiniteSet(S), NEW F, F \subseteq SUBSET S, F # {}
  PROVE  \E T \in F : \A U \in SUBSET T : U # T => U \notin F
<1>1. F \subseteq FiniteSubsetsOf(S)
  BY FS_FiniteSubsetsOfFinite
<1>2. PICK T \in F : \A U \in F : <<U, T>> \notin StrictSubsetOrdering(S)
  BY <1>1, FS_StrictSubsetOrderingWellFounded, WFMin
<1>3. \A U \in SUBSET T : U # T => U \notin F
  BY <1>2 DEF StrictSubsetOrdering
<1> QED BY <1>3

One(s) == CHOOSE x \in s : TRUE
Added(S, f, g) == [s \in SUBSET S |-> IF s = {} THEN 0 ELSE f[One(s)] + g[s \ {One(s)}]]
PartialSums(S, f, g) == g \in [SUBSET S -> Nat] /\ g = Added(S, f, g)

LEMMA OneOf ==
  ASSUME NEW S, S # {}
  PROVE  One(S) \in S
BY DEF One

LEMMA PartialSumsExist ==
  ASSUME NEW S, IsFiniteSet(S), NEW f \in [S -> Nat]
  PROVE  \E g : PartialSums(S, f, g)
<1> DEFINE Good(g, n) == /\ g \in [SUBSET S -> Nat]
                         /\ \A s \in SUBSET S : Cardinality(s) <= n => g[s] = Added(S, f, g)[s]
           Bad == {n \in Nat : ~ \E g : Good(g, n)}
<1>1. \A s \in SUBSET S : IsFiniteSet(s) /\ Cardinality(s) \in Nat
  BY FS_Subset, FS_CardinalityType
<1>2. ASSUME NEW g \in [SUBSET S -> Nat] PROVE Added(S, f, g) \in [SUBSET S -> Nat]
  <2> SUFFICES ASSUME NEW s \in SUBSET S, s # {} PROVE f[One(s)] + g[s \ {One(s)}] \in Nat
    BY DEF Added
  <2>1. One(s) \in S /\ s \ {One(s)} \in SUBSET S
    BY OneOf
  <2> QED BY <2>1
<1>3. 0 \notin Bad
  <2> DEFINE g == [s \in SUBSET S |-> 0]
  <2>1. \A s \in SUBSET S : Cardinality(s) <= 0 => s = {}
    BY <1>1, FS_EmptySet
  <2>2. Good(g, 0)
    BY <2>1 DEF Added
  <2> QED BY <2>2
<1>4. ASSUME NEW n \in Nat, n \notin Bad PROVE n + 1 \notin Bad
  <2>1. PICK g : Good(g, n)
    BY <1>4
  <2> DEFINE h == Added(S, f, g)
  <2>2. h \in [SUBSET S -> Nat]
    BY <1>2, <2>1
  <2>3. ASSUME NEW s \in SUBSET S, Cardinality(s) <= n + 1 PROVE h[s] = Added(S, f, h)[s]
    <3>1. CASE s = {}
      BY <3>1 DEF Added
    <3>2. CASE s # {}
      <4> DEFINE t == s \ {One(s)}
      <4>1. One(s) \in s /\ t \in SUBSET S
        BY <3>2, OneOf
      <4>2. Cardinality(t) <= n
        <5>1. Cardinality(t) = Cardinality(s) - 1
          BY <1>1, <4>1, FS_RemoveElement
        <5> QED BY <1>1, <2>3, <5>1
      <4>3. g[t] = h[t]
        BY <2>1, <4>1, <4>2
      <4> QED BY <3>2, <4>1, <4>3 DEF Added
    <3> QED BY <3>1, <3>2
  <2>4. Good(h, n + 1)
    BY <2>2, <2>3
  <2> QED BY <2>4
<1>5. Bad = {}
  <2> SUFFICES ASSUME Bad # {} PROVE FALSE
    OBVIOUS
  <2>1. PICK n \in Bad : \A k \in Bad : n <= k
    BY SmallestExists
  <2> HIDE DEF Bad
  <2>2. n \in Nat /\ n # 0
    BY <1>3, <2>1 DEF Bad
  <2>3. n - 1 \in Nat /\ n - 1 \notin Bad /\ (n - 1) + 1 = n
    BY <2>1, <2>2
  <2> QED BY <1>4, <2>1, <2>3
<1>6. PICK g : Good(g, Cardinality(S))
  BY <1>1, <1>5
<1>7. \A s \in SUBSET S : g[s] = Added(S, f, g)[s]
  BY <1>6, FS_Subset
<1>8. Added(S, f, g) \in [SUBSET S -> Nat] /\ g \in [SUBSET S -> Nat]
  BY <1>2, <1>6
<1> QED BY <1>7, <1>8 DEF PartialSums

LEMMA SumIsPartialSum ==
  ASSUME NEW S, IsFiniteSet(S), NEW f \in [S -> Nat]
  PROVE  \E g : PartialSums(S, f, g) /\ SumFunction(f) = g[S]
<1> DEFINE g == CHOOSE h : h = Added(S, f, h)
<1>1. PICK p : PartialSums(S, f, p)
  BY PartialSumsExist
<1>2. g = Added(S, f, g)
  BY <1>1 DEF PartialSums
<1>3. SumFunction(f) = g[S]
  BY DEF SumFunction, SumFunctionOnSet, FoldFunctionOnSet, MapThenFoldSet, Added, One
<1> HIDE DEF g
<1>4. \A s \in SUBSET S : g[s] = p[s]
  <2> DEFINE F == {s \in SUBSET S : g[s] # p[s]}
  <2> SUFFICES ASSUME F # {} PROVE FALSE
    OBVIOUS
  <2>a. F \subseteq SUBSET S
    OBVIOUS
  <2> HIDE DEF F
  <2>1. PICK s \in F : \A u \in SUBSET s : u # s => u \notin F
    BY <2>a, SmallestSubset
  <2> USE DEF F
  <2>2. p = Added(S, f, p)
    BY <1>1 DEF PartialSums
  <2>3. s \in SUBSET S /\ g[s] = Added(S, f, g)[s] /\ p[s] = Added(S, f, p)[s]
    BY <1>2, <2>1, <2>2
  <2>4. s # {}
    BY <2>1, <2>3 DEF Added
  <2> DEFINE t == s \ {One(s)}
  <2>5. t \in SUBSET s /\ t # s
    BY <2>4, OneOf
  <2>6. g[t] = p[t]
    BY <2>1, <2>3, <2>5
  <2> QED BY <2>1, <2>3, <2>4, <2>6 DEF Added
<1>5. g = p
  <2>1. g = [s \in SUBSET S |-> g[s]]
    BY <1>2 DEF Added
  <2>2. p = [s \in SUBSET S |-> p[s]]
    BY <1>1 DEF PartialSums
  <2> QED BY <1>4, <2>1, <2>2
<1> QED BY <1>1, <1>3, <1>5

LEMMA PartialSumStep ==
  ASSUME NEW S, NEW f, NEW g, PartialSums(S, f, g)
  PROVE  /\ \A s \in SUBSET S : g[s] \in Nat
         /\ g[{}] = 0
         /\ \A s \in SUBSET S : s # {} => /\ One(s) \in s /\ s \ {One(s)} \in SUBSET S
                                        /\ g[s] = f[One(s)] + g[s \ {One(s)}]
<1>1. \A s \in SUBSET S : g[s] = Added(S, f, g)[s] /\ g[s] \in Nat
  BY DEF PartialSums
<1>2. g[{}] = 0
  BY <1>1 DEF Added
<1>3. \A s \in SUBSET S : s # {} => /\ One(s) \in s /\ s \ {One(s)} \in SUBSET S
                                   /\ g[s] = f[One(s)] + g[s \ {One(s)}]
  BY <1>1, OneOf DEF Added
<1> QED BY <1>1, <1>2, <1>3

\* Any element can be taken out first.
LEMMA PartialSumRemove ==
  ASSUME NEW S, IsFiniteSet(S), NEW f \in [S -> Nat], NEW g, PartialSums(S, f, g),
         NEW s \in SUBSET S, NEW x \in s
  PROVE  g[s] = f[x] + g[s \ {x}]
<1> DEFINE F == {u \in SUBSET S : \E y \in u : g[u] # f[y] + g[u \ {y}]}
<1> SUFFICES ASSUME F # {} PROVE FALSE
  OBVIOUS
<1>1. PICK u \in F : \A v \in SUBSET u : v # u => v \notin F
  <2>1. F \subseteq SUBSET S
    OBVIOUS
  <2> HIDE DEF F
  <2> QED BY <2>1, SmallestSubset
<1>2. PICK y \in u : g[u] # f[y] + g[u \ {y}]
  BY <1>1
<1> DEFINE z == One(u)
<1>3. u \in SUBSET S /\ z \in u /\ z \in S /\ y \in S
  BY <1>1, <1>2, OneOf
<1>4. g[u] = f[z] + g[u \ {z}]
  BY <1>3, PartialSumStep
<1>5. z # y
  BY <1>2, <1>4
<1> HIDE DEF z
<1>6. /\ u \ {z} \in SUBSET S /\ u \ {z} \notin F /\ y \in u \ {z}
      /\ u \ {y} \in SUBSET S /\ u \ {y} \notin F /\ z \in u \ {y}
      /\ (u \ {z}) \ {y} = (u \ {y}) \ {z} /\ (u \ {z}) \ {y} \in SUBSET S
  BY <1>1, <1>2, <1>3, <1>5
<1>7. g[u \ {z}] = f[y] + g[(u \ {z}) \ {y}]
  BY <1>6
<1>8. g[u \ {y}] = f[z] + g[(u \ {z}) \ {y}]
  BY <1>6
<1>9. f[z] \in Nat /\ f[y] \in Nat /\ g[(u \ {z}) \ {y}] \in Nat
  BY <1>3, <1>6, PartialSumStep
<1> HIDE DEF F
<1> QED BY <1>2, <1>4, <1>7, <1>8, <1>9

\* A partial sum depends on what is added alone.
LEMMA PartialSumsAgree ==
  ASSUME NEW S, IsFiniteSet(S), NEW f, NEW g, PartialSums(S, f, g),
         NEW T, NEW e, NEW h, PartialSums(T, e, h),
         NEW s \in SUBSET S, s \in SUBSET T, \A x \in s : f[x] = e[x]
  PROVE  g[s] = h[s]
<1> DEFINE F == {u \in SUBSET s : g[u] # h[u]}
<1> SUFFICES ASSUME F # {} PROVE FALSE
  OBVIOUS
<1>1. IsFiniteSet(s) /\ F \subseteq SUBSET s
  BY FS_Subset
<1> HIDE DEF F
<1>2. PICK u \in F : \A v \in SUBSET u : v # u => v \notin F
  BY <1>1, SmallestSubset
<1> USE DEF F
<1>3. u \in SUBSET s /\ u \in SUBSET S /\ u \in SUBSET T /\ g[u] # h[u]
  BY <1>2
<1>4. u # {}
  <2>1. g[{}] = 0
    BY PartialSumStep
  <2>2. h[{}] = 0
    BY PartialSumStep
  <2> QED BY <1>3, <2>1, <2>2
<1>5. One(u) \in u /\ g[u] = f[One(u)] + g[u \ {One(u)}] /\ h[u] = e[One(u)] + h[u \ {One(u)}]
  <2>1. One(u) \in u /\ g[u] = f[One(u)] + g[u \ {One(u)}]
    BY <1>3, <1>4, PartialSumStep
  <2>2. h[u] = e[One(u)] + h[u \ {One(u)}]
    BY <1>3, <1>4, PartialSumStep
  <2> QED BY <2>1, <2>2
<1>6. u \ {One(u)} \in SUBSET s /\ u \ {One(u)} \in SUBSET u /\ u \ {One(u)} # u
  BY <1>3, <1>5
<1>7. g[u \ {One(u)}] = h[u \ {One(u)}]
  BY <1>2, <1>6
<1>8. f[One(u)] = e[One(u)]
  BY <1>3, <1>5
<1> QED BY <1>3, <1>5, <1>7, <1>8

LEMMA SumIsNat ==
  ASSUME NEW S, IsFiniteSet(S), NEW f \in [S -> Nat]
  PROVE  SumFunction(f) \in Nat
<1>1. PICK g : PartialSums(S, f, g) /\ SumFunction(f) = g[S]
  BY SumIsPartialSum
<1>2. S \in SUBSET S
  OBVIOUS
<1> QED BY <1>1, <1>2, PartialSumStep

LEMMA SumOfNothing ==
  ASSUME NEW f \in [{} -> Nat]
  PROVE  SumFunction(f) = 0
<1>1. IsFiniteSet({})
  BY FS_EmptySet
<1>2. PICK g : PartialSums({}, f, g) /\ SumFunction(f) = g[{}]
  BY <1>1, SumIsPartialSum
<1> QED BY <1>2, PartialSumStep

\* A value can be taken out of a sum.
LEMMA SumWithout ==
  ASSUME NEW S, IsFiniteSet(S), NEW f \in [S -> Nat], NEW x \in S
  PROVE  SumFunction(f) = f[x] + SumFunction([y \in S \ {x} |-> f[y]])
<1> DEFINE T == S \ {x}
           e == [y \in T |-> f[y]]
<1>1. PICK g : PartialSums(S, f, g) /\ SumFunction(f) = g[S]
  BY SumIsPartialSum
<1>2. IsFiniteSet(T) /\ e \in [T -> Nat]
  BY FS_Subset
<1>3. PICK h : PartialSums(T, e, h) /\ SumFunction(e) = h[T]
  BY <1>2, SumIsPartialSum
<1>4. g[S] = f[x] + g[T]
  BY <1>1, PartialSumRemove
<1>5. T \in SUBSET S /\ T \in SUBSET T /\ \A y \in T : f[y] = e[y]
  OBVIOUS
<1> HIDE DEF T, e
<1>6. g[T] = h[T]
  BY <1>1, <1>3, <1>5, PartialSumsAgree
<1> QED BY <1>1, <1>3, <1>4, <1>6 DEF e, T

\* The sum of two functions' values, taken one element at a time.
LEMMA SumPlus ==
  ASSUME NEW S, IsFiniteSet(S), NEW f \in [S -> Nat], NEW e \in [S -> Nat]
  PROVE  SumFunction([x \in S |-> f[x] + e[x]]) = SumFunction(f) + SumFunction(e)
<1> DEFINE d == [x \in S |-> f[x] + e[x]]
<1>1. PICK g : PartialSums(S, f, g) /\ SumFunction(f) = g[S]
  BY SumIsPartialSum
<1>2. PICK h : PartialSums(S, e, h) /\ SumFunction(e) = h[S]
  BY SumIsPartialSum
<1>3. d \in [S -> Nat] /\ \A x \in S : d[x] = f[x] + e[x] /\ f[x] \in Nat /\ e[x] \in Nat
  OBVIOUS
<1> HIDE DEF d
<1>4. PICK p : PartialSums(S, d, p) /\ SumFunction(d) = p[S]
  BY <1>3, SumIsPartialSum
<1> DEFINE F == {u \in SUBSET S : p[u] # g[u] + h[u]}
<1>5. F = {}
  <2> SUFFICES ASSUME F # {} PROVE FALSE
    OBVIOUS
  <2>1. F \subseteq SUBSET S
    OBVIOUS
  <2> HIDE DEF F
  <2>2. PICK u \in F : \A v \in SUBSET u : v # u => v \notin F
    BY <2>1, SmallestSubset
  <2> USE DEF F
  <2>3. u \in SUBSET S /\ p[u] # g[u] + h[u]
    BY <2>2
  <2>4. u # {}
    <3>1. p[{}] = 0
      BY <1>4, PartialSumStep
    <3>2. g[{}] = 0
      BY <1>1, PartialSumStep
    <3>3. h[{}] = 0
      BY <1>2, PartialSumStep
    <3>4. u = {} => p[u] = g[u] + h[u]
      BY <3>1, <3>2, <3>3
    <3> QED BY <2>3, <3>4
  <2> DEFINE x == One(u)
             v == u \ {x}
  <2>5. x \in S /\ v \in SUBSET S /\ v \in SUBSET u /\ v # u
    BY <2>3, <2>4, OneOf
  <2>6. p[u] = d[x] + p[v]
    BY <1>4, <2>3, <2>4, PartialSumStep
  <2>7. g[u] = f[x] + g[v] /\ g[v] \in Nat
    <3>1. g[u] = f[x] + g[v]
      BY <1>1, <2>3, <2>4, PartialSumStep
    <3>2. g[v] \in Nat
      BY <1>1, <2>5, PartialSumStep
    <3> QED BY <3>1, <3>2
  <2>8. h[u] = e[x] + h[v] /\ h[v] \in Nat
    <3>1. h[u] = e[x] + h[v]
      BY <1>2, <2>3, <2>4, PartialSumStep
    <3>2. h[v] \in Nat
      BY <1>2, <2>5, PartialSumStep
    <3> QED BY <3>1, <3>2
  <2>9. p[v] = g[v] + h[v]
    BY <2>2, <2>5
  <2> HIDE DEF x, v, F
  <2>10. d[x] = f[x] + e[x] /\ f[x] \in Nat /\ e[x] \in Nat
    BY <1>3, <2>5
  <2> QED BY <2>3, <2>6, <2>7, <2>8, <2>9, <2>10
<1>6. p[S] = g[S] + h[S]
  BY <1>5
<1> QED BY <1>1, <1>2, <1>4, <1>6 DEF d

\* What finitely many finite sets hold together is no more than the sum of what
\* each holds.
LEMMA CoverBound ==
  ASSUME NEW S, IsFiniteSet(S), NEW p, NEW f \in [S -> Nat],
         \A x \in S : IsFiniteSet(p[x]) /\ Cardinality(p[x]) <= f[x]
  PROVE  /\ IsFiniteSet(UNION {p[x] : x \in S})
         /\ Cardinality(UNION {p[x] : x \in S}) <= SumFunction(f)
<1> DEFINE U(T) == UNION {p[x] : x \in T}
           g(T) == [x \in T |-> f[x]]
           Fine(T) == IsFiniteSet(U(T)) /\ Cardinality(U(T)) <= SumFunction(g(T))
           Bad == {T \in SUBSET S : ~ Fine(T)}
<1>1. ASSUME Bad # {} PROVE FALSE
  <2>1. PICK T \in Bad : \A V \in SUBSET T : V # T => V \notin Bad
    <3>1. PICK B : B = Bad
      OBVIOUS
    <3>2. B \subseteq SUBSET S /\ B # {}
      BY <1>1, <3>1
    <3>3. \E T \in B : \A V \in SUBSET T : V # T => V \notin B
      BY <3>2, SmallestSubset
    <3> QED BY <3>1, <3>3
  <2>2. IsFiniteSet(T) /\ T \in SUBSET S /\ g(T) \in [T -> Nat]
    BY <2>1, FS_Subset
  <2>3. CASE T = {}
    <3>1. U(T) = {}
      BY <2>3
    <3>2. IsFiniteSet(U(T)) /\ Cardinality(U(T)) = 0
      BY <3>1, FS_EmptySet
    <3>3. SumFunction(g(T)) \in Nat
      <4> HIDE DEF g
      <4> QED BY <2>2, SumIsNat
    <3> HIDE DEF U, g
    <3>4. Fine(T)
      BY <3>2, <3>3
    <3> QED BY <2>1, <3>4
  <2>4. CASE T # {}
    <3>1. PICK x : x \in T
      BY <2>4
    <3> DEFINE V == T \ {x}
    <3>2. V \in SUBSET T /\ V # T
      BY <3>1
    <3>3. Fine(V)
      <4> HIDE DEF Fine, V
      <4> QED BY <2>1, <2>2, <3>2
    <3>4. U(T) = U(V) \cup p[x]
      BY <3>1
    <3>5. IsFiniteSet(V) /\ g(V) \in [V -> Nat]
      BY <2>2, <3>2, FS_Subset
    <3>6. SumFunction(g(T)) = f[x] + SumFunction(g(V))
      <4>1. g(T)[x] = f[x] /\ [y \in T \ {x} |-> g(T)[y]] = g(V)
        BY <3>1
      <4>2. PICK h \in [T -> Nat] : h = g(T)
        BY <2>2
      <4>3. SumFunction(h) = h[x] + SumFunction([y \in T \ {x} |-> h[y]])
        <5>1. IsFiniteSet(T) /\ x \in T
          BY <2>2, <3>1
        <5> HIDE DEF U, g, V, Fine, Bad
        <5> QED BY <5>1, SumWithout
      <4> HIDE DEF g, V
      <4> QED BY <4>1, <4>2, <4>3
    <3>7. IsFiniteSet(p[x]) /\ Cardinality(p[x]) <= f[x] /\ f[x] \in Nat
      BY <2>2, <3>1
    <3>8. SumFunction(g(V)) \in Nat
      <4> HIDE DEF g, V
      <4> QED BY <3>5, SumIsNat
    <3> HIDE DEF g, V
    <3>9. /\ IsFiniteSet(U(V)) /\ Cardinality(U(V)) <= SumFunction(g(V))
      BY <3>3
    <3> HIDE DEF U
    <3>10. PICK A : A = U(V)
      OBVIOUS
    <3>11. PICK B : B = p[x]
      OBVIOUS
    <3>12. /\ IsFiniteSet(A \cup B)
           /\ Cardinality(A \cup B) = Cardinality(A) + Cardinality(B) - Cardinality(A \cap B)
      BY <3>7, <3>9, <3>10, <3>11, FS_Union
    <3>13. Cardinality(A) \in Nat /\ Cardinality(B) \in Nat /\ Cardinality(A \cap B) \in Nat
      <4>1. IsFiniteSet(A) /\ IsFiniteSet(B)
        BY <3>7, <3>9, <3>10, <3>11
      <4>2. IsFiniteSet(A \cap B)
        BY <4>1, FS_Intersection
      <4> QED BY <4>1, <4>2, FS_CardinalityType
    <3>14. Cardinality(A \cup B) <= SumFunction(g(T))
      <4>1. PICK s \in Nat : s = SumFunction(g(V))
        BY <3>8
      <4>2. Cardinality(A) <= s /\ Cardinality(B) <= f[x] /\ SumFunction(g(T)) = f[x] + s
        BY <3>6, <3>7, <3>9, <3>10, <3>11, <4>1
      <4>3. Cardinality(A) + Cardinality(B) - Cardinality(A \cap B) <= f[x] + s
        BY <3>7, <3>13, <4>1, <4>2
      <4> QED BY <3>12, <4>2, <4>3
    <3>15. Fine(T)
      BY <3>4, <3>10, <3>11, <3>12, <3>14
    <3> HIDE DEF Fine
    <3> QED BY <2>1, <3>15
  <2> QED BY <2>3, <2>4
<1>2. S \in SUBSET S
  OBVIOUS
<1>3. Fine(S)
  <2> HIDE DEF Fine
  <2> QED BY <1>1, <1>2
<1>4. g(S) = f
  OBVIOUS
<1> QED BY <1>3, <1>4
=============================================================================
