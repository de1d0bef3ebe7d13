--------------------------- MODULE ChatCountProofs ---------------------------
(***************************************************************************)
(* That a message is not multiplied, whichever of the map, Redis and the   *)
(* table serves its addressee.                                             *)
(***************************************************************************)
EXTENDS ChatPresenceProofs, FiniteSetTheorems, WellFoundedInduction

-----------------------------------------------------------------------------
(* Sums over finite sets.                                                  *)

\* Induction over the subsets of a finite set, for a set of them.
LEMMA SubsetsAll ==
    ASSUME NEW S, IsFiniteSet(S), NEW G,
           \A T \in SUBSET S : (\A x \in T : T \ {x} \in G) => T \in G
    PROVE  SUBSET S \subseteq G
<1> DEFINE B == {T \in SUBSET S : T \notin G}
           R == StrictSubsetOrdering(S)
<1>1. SUFFICES ASSUME B # {} PROVE FALSE
  OBVIOUS
<1>2. IsWellFoundedOn(R, SUBSET S)
  BY FS_FiniteSubsetsOfFinite, FS_StrictSubsetOrderingWellFounded
<1>3. \A T, U \in SUBSET S : T \subseteq U /\ T # U => <<T, U>> \in R
  BY DEF StrictSubsetOrdering
<1>4. B \subseteq SUBSET S
  OBVIOUS
<1> HIDE DEF R, B
<1>5. PICK T \in B : \A U \in B : ~(<<U, T>> \in R)
  BY <1>1, <1>2, <1>4, WFMin
<1>6. \A x \in T : T \ {x} \in G
  <2> TAKE x \in T
  <2>1. T \ {x} \in SUBSET S /\ T \ {x} \subseteq T /\ T \ {x} # T /\ T \in SUBSET S
    BY <1>5 DEF B
  <2> QED
    BY <1>3, <1>5, <2>1 DEF B
<1> QED
  BY <1>5, <1>6 DEF B

\* The element of a set that the folds take first.
First(s) == CHOOSE x \in s : TRUE

\* The sums of f over the subsets of S.
Sums(f, S) ==
    CHOOSE g : g = [s \in SUBSET S |-> IF s = {} THEN 0
                                       ELSE f[First(s)] + g[s \ {First(s)}]]

LEMMA TotalIsSum == \A f : Total(f) = Sums(f, DOMAIN f)[DOMAIN f]
  BY DEF Total, FoldFunction, FoldFunctionOnSet, MapThenFoldSet, Sums, First

Adds(f, g, s) == g[s] = IF s = {} THEN 0 ELSE f[First(s)] + g[s \ {First(s)}]

SumsUpTo(f, g, T) == g \in [SUBSET T -> Nat] /\ \A s \in SUBSET T : Adds(f, g, s)

LEMMA FirstIn == \A s : s # {} => First(s) \in s
  BY DEF First

LEMMA SumsAgree ==
    ASSUME NEW S, IsFiniteSet(S), NEW f, NEW T \in SUBSET S, NEW U \in SUBSET S,
           NEW g, NEW h, SumsUpTo(f, g, T), SumsUpTo(f, h, U)
    PROVE  \A s \in SUBSET T : s \in SUBSET U => g[s] = h[s]
<1> DEFINE G == {s : s \in {t \in SUBSET S : t \subseteq T /\ t \subseteq U => g[t] = h[t]}}
<1>1. ASSUME NEW s \in SUBSET S, \A x \in s : s \ {x} \in G, s \subseteq T, s \subseteq U
      PROVE  g[s] = h[s]
  <2>1. Adds(f, g, s) /\ Adds(f, h, s)
    BY <1>1 DEF SumsUpTo
  <2>2. CASE s = {}
    BY <2>1, <2>2 DEF Adds
  <2>3. CASE s # {}
    <3>1. First(s) \in s /\ s \ {First(s)} \subseteq T /\ s \ {First(s)} \subseteq U
      BY <1>1, <2>3, FirstIn
    <3>2. g[s \ {First(s)}] = h[s \ {First(s)}]
      BY <1>1, <3>1
    <3> QED
      BY <2>1, <2>3, <3>2 DEF Adds
  <2> QED
    BY <2>2, <2>3
<1>2. \A s \in SUBSET S : (\A x \in s : s \ {x} \in G) => s \in G
  BY <1>1
<1> HIDE DEF G
<1>3. SUBSET S \subseteq G
  BY <1>2, SubsetsAll
<1> QED
  BY <1>3 DEF G

LEMMA SumsExist ==
    ASSUME NEW S, IsFiniteSet(S), NEW f \in [S -> Nat]
    PROVE  \E g : SumsUpTo(f, g, S)
<1> DEFINE G == {T \in SUBSET S : \E g : SumsUpTo(f, g, T)}
<1>1. ASSUME NEW T \in SUBSET S, \A x \in T : T \ {x} \in G
      PROVE  \E g : SumsUpTo(f, g, T)
  <2> DEFINE h(x) == CHOOSE g : SumsUpTo(f, g, T \ {x})
             out(s) == CHOOSE x \in T : x \notin s
             new == [s \in SUBSET T |-> IF s = {} THEN 0
                                        ELSE IF s = T THEN f[First(T)] + h(First(T))[T \ {First(T)}]
                                        ELSE h(out(s))[s]]
  <2>1. \A x \in T : SumsUpTo(f, h(x), T \ {x})
    BY <1>1
  <2>2. \A s \in SUBSET T : s # T => out(s) \in T /\ s \in SUBSET (T \ {out(s)})
    <3> TAKE s \in SUBSET T
    <3> HAVE s # T
    <3>1. \E x \in T : x \notin s
      OBVIOUS
    <3>2. out(s) \in T /\ out(s) \notin s
      BY <3>1
    <3> QED
      BY <3>2
  <2> HIDE DEF h, out
  <2>3. \A x, y \in T : \A s \in SUBSET (T \ {x}) : s \in SUBSET (T \ {y}) => h(x)[s] = h(y)[s]
    <3> TAKE x, y \in T
    <3>1. T \ {x} \in SUBSET S /\ T \ {y} \in SUBSET S
      OBVIOUS
    <3>2. SumsUpTo(f, h(x), T \ {x}) /\ SumsUpTo(f, h(y), T \ {y})
      BY <2>1
    <3> QED
      BY ONLY <3>1, <3>2, IsFiniteSet(S), SumsAgree
  <2>4. T # {} => First(T) \in T
    BY FirstIn
  <2>5. \A x \in T : \A s \in SUBSET (T \ {x}) : h(x)[s] \in Nat /\ Adds(f, h(x), s)
    BY <2>1 DEF SumsUpTo
  <2>6. new \in [SUBSET T -> Nat]
    <3>1. ASSUME NEW s \in SUBSET T PROVE new[s] \in Nat
      <4>1. CASE s # {} /\ s = T
        <5>1. First(T) \in T /\ T \ {First(T)} \in SUBSET (T \ {First(T)}) /\ First(T) \in S
          BY <2>4, <4>1
        <5>2. f[First(T)] \in Nat /\ h(First(T))[T \ {First(T)}] \in Nat
          BY <2>5, <5>1
        <5> QED
          BY <4>1, <5>2
      <4>2. CASE s # {} /\ s # T
        BY <2>2, <2>5, <4>2
      <4> QED
        BY <4>1, <4>2
    <3> QED
      BY <3>1
  <2>7. \A x \in T : \A s \in SUBSET (T \ {x}) : s # {} => new[s] = h(x)[s]
    <3> TAKE x \in T
    <3> TAKE s \in SUBSET (T \ {x})
    <3> HAVE s # {}
    <3>1. s \in SUBSET T /\ s # T
      OBVIOUS
    <3>2. out(s) \in T /\ s \in SUBSET (T \ {out(s)})
      BY <2>2, <3>1
    <3>3. h(out(s))[s] = h(x)[s]
      BY <2>3, <3>2
    <3> QED
      BY <3>1, <3>3
  <2>8. ASSUME NEW s \in SUBSET T, s # {} PROVE new[s] = f[First(s)] + new[s \ {First(s)}]
    <3> DEFINE y == First(s)
    <3>1. y \in s /\ y \in T /\ s \ {y} \in SUBSET (T \ {y}) /\ s \ {y} \in SUBSET T
      BY <2>8, FirstIn
    <3>2. new[s \ {y}] = h(y)[s \ {y}]
      <4>1. CASE s \ {y} = {}
        <5>1. Adds(f, h(y), {})
          BY <2>5, <3>1, <4>1
        <5>2. h(y)[{}] = 0
          BY <5>1 DEF Adds
        <5> QED
          BY <4>1, <5>2
      <4>2. CASE s \ {y} # {}
        BY <2>7, <3>1, <4>2
      <4> QED
        BY <4>1, <4>2
    <3>3. CASE s = T
      BY <2>8, <3>2, <3>3
    <3>4. CASE s # T
      <4>1. out(s) \in T /\ s \in SUBSET (T \ {out(s)})
        BY <2>2, <3>4
      <4>2. new[s] = h(out(s))[s]
        BY <2>8, <3>4
      <4>3. Adds(f, h(out(s)), s)
        BY <2>5, <4>1
      <4>4. s \ {y} \in SUBSET (T \ {out(s)})
        BY <4>1
      <4>5. h(out(s))[s \ {y}] = h(y)[s \ {y}]
        BY <2>3, <3>1, <4>1, <4>4
      <4> HIDE DEF new
      <4> QED
        BY <2>8, <3>2, <4>2, <4>3, <4>5 DEF Adds
    <3> QED
      BY <3>3, <3>4
  <2>9. new[{}] = 0
    OBVIOUS
  <2> HIDE DEF new
  <2>10. SumsUpTo(f, new, T)
    BY <2>6, <2>8, <2>9 DEF SumsUpTo, Adds
  <2> QED
    BY <2>10
<1>2. \A T \in SUBSET S : (\A x \in T : T \ {x} \in G) => T \in G
  BY <1>1
<1> HIDE DEF G
<1>3. SUBSET S \subseteq G
  BY <1>2, SubsetsAll
<1> QED
  BY <1>3 DEF G

LEMMA SumSteps ==
    ASSUME NEW S, IsFiniteSet(S), NEW f \in [S -> Nat]
    PROVE  SumsUpTo(f, Sums(f, S), S)
<1> DEFINE Is(g) == g = [s \in SUBSET S |-> IF s = {} THEN 0
                                            ELSE f[First(s)] + g[s \ {First(s)}]]
<1>1. PICK g : SumsUpTo(f, g, S)
  BY SumsExist
<1>2. Is(g)
  <2>1. g = [s \in SUBSET S |-> g[s]]
    BY <1>1 DEF SumsUpTo
  <2>2. \A s \in SUBSET S : g[s] = IF s = {} THEN 0 ELSE f[First(s)] + g[s \ {First(s)}]
    BY <1>1 DEF SumsUpTo, Adds
  <2> QED
    BY <2>1, <2>2
<1> DEFINE h == Sums(f, S)
<1>3. h = CHOOSE k : Is(k)
  BY DEF Sums
<1> HIDE DEF h
<1>4. Is(h)
  <2> HIDE DEF Is
  <2> QED
    BY <1>2, <1>3
<1>5. \A s \in SUBSET S : Adds(f, h, s)
  BY <1>4 DEF Adds
<1> DEFINE G == {s \in SUBSET S : h[s] \in Nat}
<1>6. \A s \in SUBSET S : (\A x \in s : s \ {x} \in G) => s \in G
  <2> SUFFICES ASSUME NEW s \in SUBSET S, \A x \in s : s \ {x} \in G PROVE h[s] \in Nat
    OBVIOUS
  <2>1. Adds(f, h, s)
    BY <1>5
  <2>2. CASE s # {}
    <3>1. First(s) \in S /\ h[s \ {First(s)}] \in Nat
      BY <2>2, FirstIn
    <3> HIDE DEF G
    <3>2. f[First(s)] \in Nat
      BY <3>1
    <3> QED
      BY <2>1, <2>2, <3>1, <3>2 DEF Adds
  <2> QED
    BY <2>1, <2>2 DEF Adds
<1> HIDE DEF G
<1>7. SUBSET S \subseteq G
  BY <1>6, SubsetsAll
<1>8. \A s \in SUBSET S : h[s] \in Nat
  BY <1>7 DEF G
<1>9. h \in [SUBSET S -> Nat]
  BY <1>4, <1>8
<1> QED
  BY <1>5, <1>9 DEF SumsUpTo, h

\* Any element of a set may be added last.
LEMMA SumAny ==
    ASSUME NEW S, IsFiniteSet(S), NEW f \in [S -> Nat]
    PROVE  \A T \in SUBSET S : \A x \in T :
               Sums(f, S)[T] = f[x] + Sums(f, S)[T \ {x}]
<1> DEFINE h == Sums(f, S)
           G == {T \in SUBSET S : \A x \in T : h[T] = f[x] + h[T \ {x}]}
<1>1. SumsUpTo(f, h, S)
  BY SumSteps
<1> HIDE DEF h
<1>2. /\ \A T \in SUBSET S : h[T] \in Nat
      /\ \A T \in SUBSET S : T # {} => h[T] = f[First(T)] + h[T \ {First(T)}]
  BY <1>1 DEF SumsUpTo, Adds
<1>3. ASSUME NEW T \in SUBSET S, \A x \in T : T \ {x} \in G, NEW x \in T
      PROVE  h[T] = f[x] + h[T \ {x}]
  <2> DEFINE y == First(T)
  <2>1. y \in T /\ h[T] = f[y] + h[T \ {y}]
    BY <1>2, FirstIn
  <2> HIDE DEF y
  <2>2. CASE x # y
    <3>1. x \in T \ {y} /\ y \in T \ {x} /\ (T \ {y}) \ {x} = (T \ {x}) \ {y}
      BY <2>1, <2>2
    <3>2. h[T \ {y}] = f[x] + h[(T \ {y}) \ {x}] /\ h[T \ {x}] = f[y] + h[(T \ {x}) \ {y}]
      BY <1>3, <2>1, <3>1
    <3>3. f[x] \in Nat /\ f[y] \in Nat /\ h[(T \ {y}) \ {x}] \in Nat
      BY <1>2, <2>1
    <3>4. \A a, b, c, t, p, q \in Int : t = b + p /\ p = a + c /\ q = b + c => t = a + q
      OBVIOUS
    <3>5. h[T] \in Nat /\ h[T \ {y}] \in Nat /\ h[T \ {x}] \in Nat
      BY <1>2
    <3> QED
      BY <2>1, <3>1, <3>2, <3>3, <3>4, <3>5
  <2> QED
    BY <2>1, <2>2
<1>4. \A T \in SUBSET S : (\A x \in T : T \ {x} \in G) => T \in G
  BY <1>3
<1> HIDE DEF G
<1>5. SUBSET S \subseteq G
  BY <1>4, SubsetsAll
<1> QED
  BY <1>5 DEF G, h

\* Terms that grow by at most k, which is 0 or 1.
LEMMA SumBound ==
    ASSUME NEW S, IsFiniteSet(S), NEW f \in [S -> Nat], NEW g \in [S -> Nat], NEW k \in {0, 1},
           \A x \in S : g[x] <= f[x] + k
    PROVE  \A T \in SUBSET S :
               Sums(g, S)[T] <= Sums(f, S)[T] + (IF k = 0 THEN 0 ELSE Cardinality(T))
<1> DEFINE a == Sums(f, S)
           b == Sums(g, S)
           more(T) == IF k = 0 THEN 0 ELSE Cardinality(T)
           G == {T \in SUBSET S : b[T] <= a[T] + more(T)}
<1>1. SumsUpTo(f, a, S) /\ SumsUpTo(g, b, S)
  BY SumSteps
<1> HIDE DEF a, b
<1>2. /\ \A T \in SUBSET S : a[T] \in Nat /\ b[T] \in Nat
      /\ a[{}] = 0 /\ b[{}] = 0
      /\ \A T \in SUBSET S : T # {} => /\ a[T] = f[First(T)] + a[T \ {First(T)}]
                                       /\ b[T] = g[First(T)] + b[T \ {First(T)}]
  BY <1>1 DEF SumsUpTo, Adds
<1>3. more({}) = 0 /\ \A T \in SUBSET S : more(T) \in Nat /\ \A x \in T : more(T \ {x}) + k = more(T)
  <2>1. more({}) = 0
    BY FS_EmptySet
  <2>2. ASSUME NEW T \in SUBSET S
        PROVE  Cardinality(T) \in Nat /\ \A x \in T : Cardinality(T \ {x}) = Cardinality(T) - 1
    <3>1. IsFiniteSet(T)
      BY FS_Subset
    <3> QED
      BY <3>1, FS_CardinalityType, FS_RemoveElement
  <2> QED
    BY <2>1, <2>2
<1> HIDE DEF more
<1>4. ASSUME NEW T \in SUBSET S, \A x \in T : T \ {x} \in G PROVE b[T] <= a[T] + more(T)
  <2>1. CASE T = {}
    BY <1>2, <1>3, <2>1
  <2>2. CASE T # {}
    <3> DEFINE y == First(T)
    <3>1. y \in T /\ a[T] = f[y] + a[T \ {y}] /\ b[T] = g[y] + b[T \ {y}]
      BY <1>2, <2>2, FirstIn
    <3> HIDE DEF y
    <3>2. b[T \ {y}] <= a[T \ {y}] + more(T \ {y}) /\ more(T \ {y}) + k = more(T)
      BY <1>3, <1>4, <3>1
    <3>3. g[y] <= f[y] + k /\ g[y] \in Nat /\ f[y] \in Nat
      BY <3>1
    <3>4. T \ {y} \in SUBSET S
      OBVIOUS
    <3>5. \A u, v, w, x, z, n \in Int : u <= v + n /\ w <= x + z => u + w <= v + x + (z + n)
      OBVIOUS
    <3>6. a[T \ {y}] \in Int /\ b[T \ {y}] \in Int /\ more(T \ {y}) \in Int /\ k \in Int
      BY <1>2, <1>3, <3>4
    <3>7. g[y] + b[T \ {y}] <= f[y] + a[T \ {y}] + (more(T \ {y}) + k)
      BY <3>2, <3>3, <3>5, <3>6
    <3> QED
      BY <3>1, <3>2, <3>7
  <2> QED
    BY <2>1, <2>2
<1>5. \A T \in SUBSET S : (\A x \in T : T \ {x} \in G) => T \in G
  BY <1>4
<1> HIDE DEF G
<1>6. SUBSET S \subseteq G
  BY <1>5, SubsetsAll
<1> QED
  BY <1>6 DEF G, a, b, more

(* What the proofs below need of Total.                                    *)
LEMMA TotalNat ==
    ASSUME NEW S, IsFiniteSet(S), NEW f \in [S -> Nat]
    PROVE  Total(f) \in Nat
<1>1. SumsUpTo(f, Sums(f, S), S) /\ Total(f) = Sums(f, S)[S]
  BY SumSteps, TotalIsSum
<1> QED
  BY <1>1 DEF SumsUpTo

LEMMA TotalLe ==
    ASSUME NEW S, IsFiniteSet(S), NEW f \in [S -> Nat], NEW g \in [S -> Nat],
           \A x \in S : g[x] <= f[x]
    PROVE  Total(g) <= Total(f)
<1>1. Total(f) = Sums(f, S)[S] /\ Total(g) = Sums(g, S)[S] /\ Total(f) \in Nat
  BY TotalIsSum, TotalNat
<1>2. \A x \in S : g[x] <= f[x] + 0
  OBVIOUS
<1>3. Sums(g, S)[S] <= Sums(f, S)[S] + 0
  BY <1>2, SumBound
<1> QED
  BY <1>1, <1>3

LEMMA TotalUpTo ==
    ASSUME NEW S, IsFiniteSet(S), NEW f \in [S -> Nat], NEW g \in [S -> Nat],
           \A x \in S : g[x] <= f[x] + 1
    PROVE  Total(g) <= Total(f) + Cardinality(S)
<1>1. Total(f) = Sums(f, S)[S] /\ Total(g) = Sums(g, S)[S]
  BY TotalIsSum
<1>2. Sums(g, S)[S] <= Sums(f, S)[S] + Cardinality(S)
  BY SumBound
<1> QED
  BY <1>1, <1>2

LEMMA TotalStep ==
    ASSUME NEW S, IsFiniteSet(S), NEW f \in [S -> Nat], NEW g \in [S -> Nat], NEW x \in S,
           \A y \in S \ {x} : g[y] = f[y]
    PROVE  Total(g) + f[x] = Total(f) + g[x]
<1> DEFINE a == Sums(f, S)
           b == Sums(g, S)
<1>1. SumsUpTo(f, a, S) /\ SumsUpTo(g, b, S) /\ Total(f) = a[S] /\ Total(g) = b[S]
  BY SumSteps, TotalIsSum
<1>2. a[S] = f[x] + a[S \ {x}] /\ b[S] = g[x] + b[S \ {x}]
  BY SumAny
<1> DEFINE G == {T \in SUBSET S : x \notin T => a[T] = b[T]}
<1> HIDE DEF a, b
<1>3. ASSUME NEW T \in SUBSET S, \A y \in T : T \ {y} \in G, x \notin T PROVE a[T] = b[T]
  <2>1. CASE T # {}
    <3>1. First(T) \in T /\ f[First(T)] = g[First(T)] /\ T \ {First(T)} \in G
      BY <1>3, <2>1, FirstIn
    <3>2. a[T \ {First(T)}] = b[T \ {First(T)}]
      BY <1>3, <3>1
    <3>3. Adds(f, a, T) /\ Adds(g, b, T)
      BY <1>1 DEF SumsUpTo
    <3> QED
      BY <2>1, <3>1, <3>2, <3>3 DEF Adds
  <2>2. CASE T = {}
    BY <1>1, <2>2 DEF SumsUpTo, Adds
  <2> QED
    BY <2>1, <2>2
<1>4. \A T \in SUBSET S : (\A y \in T : T \ {y} \in G) => T \in G
  BY <1>3
<1> HIDE DEF G
<1>5. SUBSET S \subseteq G
  BY <1>4, SubsetsAll
<1>6. a[S \ {x}] = b[S \ {x}]
  BY <1>5 DEF G
<1>7. a[S \ {x}] \in Nat /\ f[x] \in Nat /\ g[x] \in Nat
  BY <1>1 DEF SumsUpTo
<1> QED
  BY <1>1, <1>2, <1>6, <1>7

LEMMA TotalZero ==
    ASSUME NEW S, IsFiniteSet(S), NEW f \in [S -> Nat], \A x \in S : f[x] = 0
    PROVE  Total(f) = 0
<1> DEFINE a == Sums(f, S)
           G == {T \in SUBSET S : a[T] = 0}
<1>1. SumsUpTo(f, a, S) /\ Total(f) = a[S]
  BY SumSteps, TotalIsSum
<1> HIDE DEF a
<1>2. ASSUME NEW T \in SUBSET S, \A y \in T : T \ {y} \in G PROVE a[T] = 0
  <2>1. Adds(f, a, T)
    BY <1>1 DEF SumsUpTo
  <2>2. T # {} => f[First(T)] = 0 /\ a[T \ {First(T)}] = 0
    BY <1>2, FirstIn
  <2> QED
    BY <2>1, <2>2 DEF Adds
<1>3. \A T \in SUBSET S : (\A y \in T : T \ {y} \in G) => T \in G
  BY <1>2
<1> HIDE DEF G
<1>4. SUBSET S \subseteq G
  BY <1>3, SubsetsAll
<1> QED
  BY <1>1, <1>4 DEF G

\* One term that grows by d, or shrinks, while the others do not grow.
LEMMA TotalBy ==
    ASSUME NEW S, IsFiniteSet(S), NEW f \in [S -> Nat], NEW g \in [S -> Nat], NEW x \in S,
           NEW d \in Int, \A y \in S \ {x} : g[y] <= f[y], g[x] <= f[x] + d
    PROVE  Total(g) <= Total(f) + d
<1> DEFINE h == [f EXCEPT ![x] = g[x]]
<1>1. h \in [S -> Nat] /\ h[x] = g[x] /\ \A y \in S \ {x} : h[y] = f[y]
  OBVIOUS
<1> HIDE DEF h
<1>2. Total(h) + f[x] = Total(f) + g[x]
  BY <1>1, TotalStep
<1>3. \A y \in S : g[y] <= h[y]
  BY <1>1
<1>4. Total(g) <= Total(h)
  BY <1>1, <1>3, TotalLe
<1>5. Total(f) \in Nat /\ Total(g) \in Nat /\ Total(h) \in Nat /\ f[x] \in Nat /\ g[x] \in Nat
  BY <1>1, TotalNat
<1> QED
  BY <1>1, <1>2, <1>4, <1>5

\* How often an item is in a sequence.
LEMMA CountNat ==
    ASSUME NEW S, NEW q \in Seq(S)
    PROVE  \A x : CountIn(q, x) \in Nat
<1> TAKE x
<1>1. DOMAIN q = 1..Len(q) /\ Len(q) \in Nat
  BY LenProperties
<1>2. IsFiniteSet(1..Len(q))
  BY <1>1, FS_Interval
<1>3. {i \in DOMAIN q : q[i] = x} \in SUBSET (1..Len(q))
  BY <1>1
<1>4. IsFiniteSet({i \in DOMAIN q : q[i] = x})
  BY <1>2, <1>3, FS_Subset
<1> QED
  BY <1>4, FS_CardinalityType DEF CountIn

LEMMA CountEmpty == \A x : CountIn(<<>>, x) = 0
<1> TAKE x
<1>1. {i \in DOMAIN <<>> : <<>>[i] = x} = {}
  OBVIOUS
<1> QED
  BY <1>1, FS_EmptySet DEF CountIn

LEMMA CountAppend ==
    ASSUME NEW S, NEW q \in Seq(S), NEW y \in S
    PROVE  \A x : CountIn(Append(q, y), x) = CountIn(q, x) + (IF x = y THEN 1 ELSE 0)
<1> TAKE x
<1> DEFINE A == {i \in DOMAIN q : q[i] = x}
           n == Len(q) + 1
<1>1. DOMAIN q = 1..Len(q) /\ Len(q) \in Nat
  BY LenProperties
<1>2. /\ DOMAIN Append(q, y) = (1..Len(q)) \cup {n} /\ Append(q, y)[n] = y
      /\ \A i \in 1..Len(q) : Append(q, y)[i] = q[i]
  <2>1. /\ Append(q, y) \in Seq(S) /\ Len(Append(q, y)) = n
        /\ \A i \in 1..Len(q) : Append(q, y)[i] = q[i]
        /\ Append(q, y)[n] = y
    BY AppendProperties
  <2>2. DOMAIN Append(q, y) = 1..n
    BY <2>1, LenProperties
  <2>3. 1..n = (1..Len(q)) \cup {n}
    BY <1>1
  <2> QED
    BY <2>1, <2>2, <2>3
<1>3. IsFiniteSet(A) /\ n \notin A
  <2>1. IsFiniteSet(1..Len(q)) /\ A \in SUBSET (1..Len(q)) /\ n \notin 1..Len(q)
    BY <1>1, FS_Interval
  <2> QED
    BY <2>1, FS_Subset
<1>4. {i \in DOMAIN Append(q, y) : Append(q, y)[i] = x} = IF x = y THEN A \cup {n} ELSE A
  BY <1>1, <1>2
<1>5. Cardinality(A \cup {n}) = Cardinality(A) + 1 /\ Cardinality(A) \in Nat
  BY <1>3, FS_AddElement, FS_CardinalityType
<1>6. CountIn(q, x) = Cardinality(A)
  BY DEF CountIn
<1>7. CountIn(Append(q, y), x) = Cardinality(IF x = y THEN A \cup {n} ELSE A)
  BY <1>4 DEF CountIn
<1> HIDE DEF A
<1> QED
  BY <1>5, <1>6, <1>7

LEMMA CountTail ==
    ASSUME NEW S, NEW q \in Seq(S), q # <<>>
    PROVE  \A x : CountIn(q, x) = CountIn(Tail(q), x) + (IF x = Head(q) THEN 1 ELSE 0)
<1> TAKE x
<1>1. Len(q) \in Nat \ {0} /\ DOMAIN q = 1..Len(q) /\ q[1] = Head(q)
  BY LenProperties, EmptySeq, HeadTailProperties
<1>2. /\ Tail(q) \in Seq(S) /\ DOMAIN Tail(q) = 1..(Len(q) - 1)
      /\ \A i \in 1..(Len(q) - 1) : Tail(q)[i] = q[i + 1]
  BY <1>1, HeadTailProperties, LenProperties
<1> DEFINE A == {i \in DOMAIN Tail(q) : Tail(q)[i] = x}
           B == {i \in 2..Len(q) : q[i] = x}
           f == [i \in A |-> i + 1]
<1>3. IsFiniteSet(A) /\ IsFiniteSet(B)
  <2>1. IsFiniteSet(1..(Len(q) - 1)) /\ IsFiniteSet(2..Len(q))
    BY <1>1, FS_Interval
  <2>2. A \in SUBSET (1..(Len(q) - 1)) /\ B \in SUBSET (2..Len(q))
    BY <1>2
  <2> QED
    BY <2>1, <2>2, FS_Subset
<1>4. f \in Bijection(A, B)
  <2>1. \A i \in A : i \in Nat /\ i + 1 \in B
    BY <1>1, <1>2
  <2>2. \A j \in B : j - 1 \in A /\ (j - 1) + 1 = j
    <3> TAKE j \in B
    <3>1. j - 1 \in 1..(Len(q) - 1) /\ (j - 1) + 1 = j
      BY <1>1
    <3> QED
      BY <1>2, <3>1
  <2>3. f \in [A -> B] /\ \A i \in A : f[i] = i + 1
    BY <2>1
  <2> HIDE DEF f, A, B
  <2>4. \A i, j \in A : f[i] = f[j] => i = j
    BY <2>1, <2>3
  <2>5. \A j \in B : \E i \in A : f[i] = j
    BY <2>2, <2>3
  <2> QED
    BY <2>3, <2>4, <2>5 DEF Bijection, Injection, Surjection, IsInjective
<1> HIDE DEF f
<1>5. Cardinality(A) = Cardinality(B)
  BY <1>3, <1>4, FS_Bijection DEF ExistsBijection
<1>6. {i \in DOMAIN q : q[i] = x} = IF x = Head(q) THEN B \cup {1} ELSE B
  <2>1. 1..Len(q) = (2..Len(q)) \cup {1}
    BY <1>1
  <2> QED
    BY <1>1, <2>1
<1>7. Cardinality(B \cup {1}) = Cardinality(B) + 1
  <2>1. 1 \notin B
    OBVIOUS
  <2> QED
    BY <1>3, <2>1, FS_AddElement
<1>8. Cardinality(B) \in Nat
  BY <1>3, FS_CardinalityType
<1>9. CountIn(Tail(q), x) = Cardinality(A)
  BY DEF CountIn
<1>10. CountIn(q, x) = Cardinality(IF x = Head(q) THEN B \cup {1} ELSE B)
  BY <1>6 DEF CountIn
<1> HIDE DEF A, B
<1> QED
  BY <1>5, <1>7, <1>8, <1>9, <1>10

-----------------------------------------------------------------------------
(* The copies of a message, and those that are still due.  A copy sent is  *)
(* one that has arrived at no handler, or a handler owes it to each        *)
(* addressee it has not dealt with; each may become one for every server.  *)

\* The handler of c has yet to make copies of m for u.
Owes(c, u, m) ==
    /\ msg[c] = m
    /\ \/ pc[c] \in OneChatPc \cup {"gpublish", "gstore"} /\ user[c] = u
       \/ pc[c] \in GroupPc /\ u \in todo[c]

OwedBy(u, m) == [c \in Conns |-> IF Owes(c, u, m) THEN 1 ELSE 0]

Due(u, m) == inflight[m] + Total(OwedBy(u, m))

Fanout == Cardinality(Servers)

Bounded(u, m) == Copies(u, m) + Fanout * Due(u, m) <= Fanout * tries[m]

\* What a login has read is in the table until it removes it.
RowsKept ==
    \A c \in Conns : pc[c] = "remove" =>
        \A m \in Msgs : rows[c][m] <= offlineMessage[user[c]][m]

\* A groupChat has taken the member it is busy with off its list.
OneMember == \A c \in Conns : pc[c] \in {"gpublish", "gstore"} => user[c] \notin todo[c]

CountInv == RowsKept /\ OneMember /\ TasksWhole /\ \A u \in Users, m \in Msgs : Bounded(u, m)

Finitely == IsFiniteSet(Servers) /\ IsFiniteSet(Conns)

Terms(u, m) ==
    /\ ReadBy(u, m) \in [Conns -> Nat] /\ OwedBy(u, m) \in [Conns -> Nat]
    /\ QueuedFor(u, m) \in [Servers -> Nat] /\ SentTo(u, m) \in [Servers -> Nat]
    /\ got[u][m] \in Nat /\ offlineMessage[u][m] \in Nat
    /\ inflight[m] \in Nat /\ tries[m] \in Nat
    /\ Total(ReadBy(u, m)) \in Nat /\ Total(OwedBy(u, m)) \in Nat
    /\ Total(QueuedFor(u, m)) \in Nat /\ Total(SentTo(u, m)) \in Nat
    /\ Copies(u, m) \in Nat /\ Due(u, m) \in Nat

LEMMA TermsNow ==
    ASSUME Finitely, TypeOK, NEW u \in Users, NEW m \in Msgs
    PROVE  Terms(u, m)
<1>1. ReadBy(u, m) \in [Conns -> Nat]
  BY DEF ReadBy, TypeOK, HandlerTypes
<1>2. OwedBy(u, m) \in [Conns -> Nat]
  BY DEF OwedBy
<1>3. QueuedFor(u, m) \in [Servers -> Nat]
  BY CountNat DEF QueuedFor, TypeOK, ProcessTypes
<1>4. SentTo(u, m) \in [Servers -> Nat]
  BY CountNat DEF SentTo, TypeOK, RedisTypes
<1>5. /\ got[u][m] \in Nat /\ offlineMessage[u][m] \in Nat
      /\ inflight[m] \in Nat /\ tries[m] \in Nat
  BY DEF TypeOK, OutcomeTypes, MySQLTypes, ClientTypes
<1>6. /\ Total(ReadBy(u, m)) \in Nat /\ Total(OwedBy(u, m)) \in Nat
      /\ Total(QueuedFor(u, m)) \in Nat /\ Total(SentTo(u, m)) \in Nat
  BY <1>1, <1>2, <1>3, <1>4, TotalNat DEF Finitely
<1> QED
  BY <1>1, <1>2, <1>3, <1>4, <1>5, <1>6 DEF Terms, Copies, Due

LEMMA TermsNext ==
    ASSUME Finitely, TypeOK', NEW u \in Users, NEW m \in Msgs
    PROVE  Terms(u, m)'
<1>1. ReadBy(u, m)' \in [Conns -> Nat]
  BY DEF ReadBy, TypeOK, HandlerTypes
<1>2. OwedBy(u, m)' \in [Conns -> Nat]
  BY DEF OwedBy
<1>3. QueuedFor(u, m)' \in [Servers -> Nat]
  BY CountNat DEF QueuedFor, TypeOK, ProcessTypes
<1>4. SentTo(u, m)' \in [Servers -> Nat]
  BY CountNat DEF SentTo, TypeOK, RedisTypes
<1>5. /\ got'[u][m] \in Nat /\ offlineMessage'[u][m] \in Nat
      /\ inflight'[m] \in Nat /\ tries'[m] \in Nat
  BY DEF TypeOK, OutcomeTypes, MySQLTypes, ClientTypes
<1>6. /\ Total(ReadBy(u, m)') \in Nat /\ Total(OwedBy(u, m)') \in Nat
      /\ Total(QueuedFor(u, m)') \in Nat /\ Total(SentTo(u, m)') \in Nat
  BY <1>1, <1>2, <1>3, <1>4, TotalNat DEF Finitely
<1> QED
  BY <1>1, <1>2, <1>3, <1>4, <1>5, <1>6 DEF Terms, Copies, Due

\* What a step may do to the copies of m for u.
Pays(u, m) ==
    \/ /\ Copies(u, m)' <= Copies(u, m) /\ Due(u, m)' <= Due(u, m)
       /\ tries'[m] >= tries[m]
    \/ /\ Copies(u, m)' <= Copies(u, m) + Fanout /\ Due(u, m)' + 1 <= Due(u, m)
       /\ tries'[m] = tries[m]
    \/ /\ Copies(u, m)' <= Copies(u, m) /\ Due(u, m)' <= Due(u, m) + 1
       /\ tries'[m] = tries[m] + 1

LEMMA PaidBound ==
    ASSUME Finitely, TypeOK, TypeOK', NEW u \in Users, NEW m \in Msgs,
           Bounded(u, m), Pays(u, m)
    PROVE  Bounded(u, m)'
<1> DEFINE a == Copies(u, m)
           b == Copies(u, m)'
           d == Due(u, m)
           e == Due(u, m)'
           t == tries[m]
           v == tries'[m]
           N == Fanout
<1>1. a \in Nat /\ b \in Nat /\ d \in Nat /\ e \in Nat /\ t \in Nat /\ v \in Nat
  BY TermsNow, TermsNext DEF Terms
<1>2. N \in Nat
  BY FS_CardinalityType DEF Fanout, Finitely
<1>3. a + N * d <= N * t
  BY DEF Bounded
<1>4. \/ b <= a /\ e <= d /\ v >= t
      \/ b <= a + N /\ e + 1 <= d /\ v = t
      \/ b <= a /\ e <= d + 1 /\ v = t + 1
  BY DEF Pays
<1> SUFFICES b + N * e <= N * v
  BY DEF Bounded, Fanout
<1> HIDE DEF a, b, d, e, t, v, N
<1>5. \A k, l \in Nat : k <= l => N * k <= N * l
  BY <1>2
<1>6. \A k \in Nat : N * (k + 1) = N * k + N /\ N * k \in Nat
  BY <1>2
<1>7. CASE b <= a /\ e <= d /\ v >= t
  BY <1>1, <1>3, <1>5, <1>6, <1>7
<1>8. CASE b <= a + N /\ e + 1 <= d /\ v = t
  <2>1. N * (e + 1) <= N * d /\ N * (e + 1) = N * e + N
    BY <1>1, <1>5, <1>6, <1>8
  <2> QED
    BY <1>1, <1>2, <1>3, <1>6, <1>8, <2>1
<1>9. CASE b <= a /\ e <= d + 1 /\ v = t + 1
  <2>1. N * e <= N * (d + 1) /\ N * (d + 1) = N * d + N /\ N * (t + 1) = N * t + N
    BY <1>1, <1>5, <1>6, <1>9
  <2> QED
    BY <1>1, <1>2, <1>3, <1>6, <1>9, <2>1
<1> QED
  BY <1>4, <1>7, <1>8, <1>9

\* By how much the terms of the copies grow: received, in the table, read,
\* queued, published; and what is owed and on its way to the servers.
Moved(u, m, a, b, r, q, s, w, i) ==
    /\ got'[u][m] <= got[u][m] + a
    /\ offlineMessage'[u][m] <= offlineMessage[u][m] + b
    /\ Total(ReadBy(u, m))' <= Total(ReadBy(u, m)) + r
    /\ Total(QueuedFor(u, m))' <= Total(QueuedFor(u, m)) + q
    /\ Total(SentTo(u, m))' <= Total(SentTo(u, m)) + s
    /\ Total(OwedBy(u, m))' <= Total(OwedBy(u, m)) + w
    /\ inflight'[m] <= inflight[m] + i

LEMMA Paid ==
    ASSUME Finitely, TypeOK, TypeOK', NEW u \in Users, NEW m \in Msgs,
           NEW a \in Int, NEW b \in Int, NEW r \in Int, NEW q \in Int, NEW s \in Int,
           NEW w \in Int, NEW i \in Int,
           Moved(u, m, a, b, r, q, s, w, i), tries'[m] = tries[m],
           \/ a + b + r + q + s <= 0 /\ w + i <= 0
           \/ a + b + r + q + s <= Fanout /\ w + i <= -1
    PROVE  Pays(u, m)
<1>0. /\ got'[u][m] <= got[u][m] + a
      /\ offlineMessage'[u][m] <= offlineMessage[u][m] + b
      /\ Total(ReadBy(u, m))' <= Total(ReadBy(u, m)) + r
      /\ Total(QueuedFor(u, m))' <= Total(QueuedFor(u, m)) + q
      /\ Total(SentTo(u, m))' <= Total(SentTo(u, m)) + s
      /\ Total(OwedBy(u, m))' <= Total(OwedBy(u, m)) + w
      /\ inflight'[m] <= inflight[m] + i
  BY DEF Moved
<1>10. Terms(u, m) /\ Terms(u, m)'
  BY TermsNow, TermsNext
<1>11. /\ Copies(u, m) = got[u][m] + offlineMessage[u][m] + Total(ReadBy(u, m))
                          + Total(QueuedFor(u, m)) + Total(SentTo(u, m))
      /\ Copies(u, m)' = got'[u][m] + offlineMessage'[u][m] + Total(ReadBy(u, m))'
                          + Total(QueuedFor(u, m))' + Total(SentTo(u, m))'
      /\ Due(u, m) = inflight[m] + Total(OwedBy(u, m))
      /\ Due(u, m)' = inflight'[m] + Total(OwedBy(u, m))'
  BY DEF Copies, Due
<1>12. /\ got[u][m] \in Int /\ offlineMessage[u][m] \in Int /\ Total(ReadBy(u, m)) \in Int
      /\ Total(QueuedFor(u, m)) \in Int /\ Total(SentTo(u, m)) \in Int
      /\ inflight[m] \in Int /\ Total(OwedBy(u, m)) \in Int
      /\ got'[u][m] \in Int /\ offlineMessage'[u][m] \in Int /\ Total(ReadBy(u, m))' \in Int
      /\ Total(QueuedFor(u, m))' \in Int /\ Total(SentTo(u, m))' \in Int
      /\ inflight'[m] \in Int /\ Total(OwedBy(u, m))' \in Int
  BY <1>10 DEF Terms
<1>1. /\ Copies(u, m)' <= Copies(u, m) + (a + b + r + q + s)
      /\ Due(u, m)' <= Due(u, m) + (w + i)
  BY ONLY <1>0, <1>11, <1>12, a \in Int, b \in Int, r \in Int, q \in Int, s \in Int,
     w \in Int, i \in Int
<1>2. /\ Copies(u, m) \in Nat /\ Copies(u, m)' \in Nat
      /\ Due(u, m) \in Nat /\ Due(u, m)' \in Nat /\ tries[m] \in Nat
  BY TermsNow, TermsNext DEF Terms
<1>3. Fanout \in Nat
  BY FS_CardinalityType DEF Fanout, Finitely
<1> DEFINE x == a + b + r + q + s
           y == w + i
           c == Copies(u, m)
           d == Copies(u, m)'
           e == Due(u, m)
           f == Due(u, m)'
<1>4. x \in Int /\ y \in Int
  OBVIOUS
<1>5. /\ d <= c + x /\ f <= e + y
      /\ c \in Nat /\ d \in Nat /\ e \in Nat /\ f \in Nat
      /\ (x <= 0 /\ y <= 0) \/ (x <= Fanout /\ y <= -1)
  BY <1>1, <1>2
<1> SUFFICES (d <= c /\ f <= e) \/ (d <= c + Fanout /\ f + 1 <= e)
  BY <1>2 DEF Pays
<1> HIDE DEF x, y, c, d, e, f
<1> QED
  BY ONLY <1>3, <1>4, <1>5

LEMMA Unmoved ==
    ASSUME Finitely, TypeOK, TypeOK', NEW u \in Users, NEW m \in Msgs,
           Moved(u, m, 0, 0, 0, 0, 0, 0, 0), tries'[m] = tries[m]
    PROVE  Pays(u, m)
<1>1. 0 \in Int /\ 0 + 0 + 0 + 0 + 0 <= 0 /\ 0 + 0 <= 0
  OBVIOUS
<1> QED
  BY <1>1, Paid

\* The handler of c does not move.
Waiting(c) ==
    /\ pc'[c] = pc[c] /\ user'[c] = user[c] /\ msg'[c] = msg[c]
    /\ todo'[c] = todo[c] /\ rows'[c] = rows[c]

LEMMA ReadStays ==
    ASSUME Finitely, TypeOK, TypeOK', NEW u \in Users, NEW m \in Msgs,
           \A c \in Conns : \/ Waiting(c)
                            \/ pc'[c] = "reply" => rows'[c][m] = 0
    PROVE  Total(ReadBy(u, m))' <= Total(ReadBy(u, m)) + 0
<1>1. Terms(u, m) /\ Terms(u, m)'
  BY TermsNow, TermsNext
<1>2. \A c \in Conns : ReadBy(u, m)'[c] <= ReadBy(u, m)[c]
  <2> TAKE c \in Conns
  <2>1. /\ ReadBy(u, m)[c] = IF pc[c] = "reply" /\ user[c] = u THEN rows[c][m] ELSE 0
        /\ ReadBy(u, m)'[c] = IF pc'[c] = "reply" /\ user'[c] = u THEN rows'[c][m] ELSE 0
        /\ rows[c][m] \in Nat
    BY DEF ReadBy, TypeOK, HandlerTypes
  <2> QED
    BY <2>1 DEF Waiting
<1> HIDE DEF ReadBy
<1>3. Total(ReadBy(u, m)') <= Total(ReadBy(u, m))
  BY <1>1, <1>2, TotalLe DEF Finitely, Terms
<1> QED
  BY <1>1, <1>3 DEF Terms

LEMMA OwedStays ==
    ASSUME Finitely, TypeOK, TypeOK', NEW u \in Users, NEW m \in Msgs,
           \A c \in Conns : Waiting(c) \/ (Owes(c, u, m)' => Owes(c, u, m))
    PROVE  Total(OwedBy(u, m))' <= Total(OwedBy(u, m)) + 0
<1>1. Terms(u, m) /\ Terms(u, m)'
  BY TermsNow, TermsNext
<1>2. \A c \in Conns : OwedBy(u, m)'[c] <= OwedBy(u, m)[c]
  BY DEF OwedBy, Waiting, Owes
<1>3. Total(OwedBy(u, m)') <= Total(OwedBy(u, m))
  BY <1>1, <1>2, TotalLe DEF Finitely, Terms
<1> QED
  BY <1>1, <1>3 DEF Terms

\* A handler pays what it owed, or takes on a copy.
LEMMA OwedChanges ==
    ASSUME Finitely, TypeOK, TypeOK', NEW u \in Users, NEW m \in Msgs, NEW c \in Conns,
           \A d \in Conns \ {c} : Waiting(d)
    PROVE  /\ Owes(c, u, m) /\ ~Owes(c, u, m)' =>
                  Total(OwedBy(u, m))' <= Total(OwedBy(u, m)) + (-1)
           /\ Total(OwedBy(u, m))' <= Total(OwedBy(u, m)) + 1
<1>1. Terms(u, m) /\ Terms(u, m)'
  BY TermsNow, TermsNext
<1>2. /\ \A d \in Conns \ {c} : OwedBy(u, m)'[d] <= OwedBy(u, m)[d]
      /\ Owes(c, u, m) /\ ~Owes(c, u, m)' => OwedBy(u, m)'[c] <= OwedBy(u, m)[c] + (-1)
      /\ OwedBy(u, m)'[c] <= OwedBy(u, m)[c] + 1
  BY DEF OwedBy, Waiting, Owes
<1>3. OwedBy(u, m) \in [Conns -> Nat] /\ OwedBy(u, m)' \in [Conns -> Nat] /\ IsFiniteSet(Conns)
  BY <1>1 DEF Terms, Finitely
<1>4. Total(OwedBy(u, m)') <= Total(OwedBy(u, m)) + 1
  BY <1>2, <1>3, TotalBy
<1>5. ASSUME Owes(c, u, m) /\ ~Owes(c, u, m)'
      PROVE  Total(OwedBy(u, m)') <= Total(OwedBy(u, m)) + (-1)
  BY <1>2, <1>3, <1>5, TotalBy
<1> QED
  BY <1>4, <1>5

LEMMA QueueStays ==
    ASSUME Finitely, TypeOK, TypeOK', NEW u \in Users, NEW m \in Msgs,
           \/ dbQueue' = dbQueue
           \/ \E s \in Servers, t \in DbTaskArgs : t # OfflineTask(u, m) /\ PushTask(s, t)
    PROVE  Total(QueuedFor(u, m))' <= Total(QueuedFor(u, m)) + 0
<1>1. Terms(u, m) /\ Terms(u, m)'
  BY TermsNow, TermsNext
<1>2. \A s \in Servers : QueuedFor(u, m)'[s] <= QueuedFor(u, m)[s]
  <2>1. CASE dbQueue' = dbQueue
    <3>1. QueuedFor(u, m)' = QueuedFor(u, m)
      BY <2>1 DEF QueuedFor
    <3> QED
      BY <1>1, <3>1 DEF Terms
  <2>2. CASE \E s \in Servers, t \in DbTaskArgs : t # OfflineTask(u, m) /\ PushTask(s, t)
    <3>1. PICK s \in Servers, t \in DbTaskArgs : t # OfflineTask(u, m) /\ PushTask(s, t)
      BY <2>2
    <3>2. /\ dbQueue' = [dbQueue EXCEPT ![s] = Append(dbQueue[s], t)]
          /\ dbQueue \in [Servers -> Seq(DbTaskArgs)]
      BY <3>1 DEF PushTask, TypeOK, ProcessTypes
    <3>3. CountIn(Append(dbQueue[s], t), OfflineTask(u, m)) = CountIn(dbQueue[s], OfflineTask(u, m)) + 0
      BY <3>1, <3>2, CountAppend
    <3>4. \A z \in Servers : CountIn(dbQueue[z], OfflineTask(u, m)) \in Nat
      BY <3>2, CountNat
    <3>5. \A z \in Servers : CountIn(dbQueue'[z], OfflineTask(u, m)) <= CountIn(dbQueue[z], OfflineTask(u, m))
      BY <3>2, <3>3, <3>4
    <3> QED
      BY <3>5 DEF QueuedFor
  <2> QED
    BY <2>1, <2>2
<1>3. Total(QueuedFor(u, m)') <= Total(QueuedFor(u, m))
  BY <1>1, <1>2, TotalLe DEF Finitely, Terms
<1> QED
  BY <1>1, <1>3 DEF Terms

LEMMA SentStays ==
    ASSUME Finitely, TypeOK, NEW u \in Users, NEW m \in Msgs, channel' = channel
    PROVE  Total(SentTo(u, m))' <= Total(SentTo(u, m)) + 0
<1>1. Terms(u, m)
  BY TermsNow
<1>2. Total(SentTo(u, m))' = Total(SentTo(u, m))
  BY DEF SentTo
<1> QED
  BY <1>1, <1>2 DEF Terms

-----------------------------------------------------------------------------
(* Most steps make no copy and owe none.                                   *)

Calm ==
    /\ UNCHANGED <<got, offlineMessage, channel, tries>>
    /\ \A m \in Msgs : inflight'[m] <= inflight[m]
    /\ \/ dbQueue' = dbQueue
       \/ \E s \in Servers, v \in Users, st \in {"Online", "Offline"} :
              PushTask(s, StateTask(v, st))
    /\ \A c \in Conns :
          \/ Waiting(c)
          \/ /\ pc'[c] = "reply" => rows'[c] = None
             /\ pc'[c] \in OneChatPc \cup {"gpublish", "gstore"} =>
                    /\ pc[c] \in OneChatPc \cup {"gpublish", "gstore"} /\ msg'[c] = msg[c]
                    /\ user'[c] \in {user[c], NoUser}
             /\ pc'[c] \in GroupPc => pc[c] \in GroupPc /\ msg'[c] = msg[c] /\ todo'[c] = todo[c]

LEMMA CalmPays ==
    ASSUME Finitely, TypeOK, TypeOK', Calm, NEW u \in Users, NEW m \in Msgs
    PROVE  Pays(u, m)
<1>1. Total(ReadBy(u, m))' <= Total(ReadBy(u, m)) + 0
  <2>1. \A c \in Conns : Waiting(c) \/ (pc'[c] = "reply" => rows'[c][m] = 0)
    BY DEF Calm, None
  <2> QED
    BY <2>1, ReadStays
<1>2. Total(OwedBy(u, m))' <= Total(OwedBy(u, m)) + 0
  <2>1. \A c \in Conns : Waiting(c) \/ (Owes(c, u, m)' => Owes(c, u, m))
    BY ChatAssumption DEF Calm, Owes
  <2> QED
    BY <2>1, OwedStays
<1>3. Total(QueuedFor(u, m))' <= Total(QueuedFor(u, m)) + 0
  <2>1. \A v \in Users, st \in {"Online", "Offline"} :
            StateTask(v, st) \in DbTaskArgs /\ StateTask(v, st) # OfflineTask(u, m)
    <3>1. \A v, st : StateTask(v, st).type = "state"
      BY DEF StateTask
    <3>2. OfflineTask(u, m).type = "offline"
      BY DEF OfflineTask
    <3> QED
      BY <3>1, <3>2, TaskTypes
  <2>2. \/ dbQueue' = dbQueue
        \/ \E s \in Servers, t \in DbTaskArgs : t # OfflineTask(u, m) /\ PushTask(s, t)
    BY <2>1 DEF Calm
  <2> QED
    BY <2>2, QueueStays
<1>4. Total(SentTo(u, m))' <= Total(SentTo(u, m)) + 0
  BY SentStays DEF Calm
<1>5. Terms(u, m)
  BY TermsNow
<1>6. /\ got'[u][m] <= got[u][m] + 0 /\ offlineMessage'[u][m] <= offlineMessage[u][m] + 0
      /\ inflight'[m] <= inflight[m] + 0 /\ tries'[m] >= tries[m]
  <2>1. inflight'[m] <= inflight[m] /\ got' = got /\ offlineMessage' = offlineMessage /\ tries' = tries
    BY DEF Calm
  <2> QED
    BY <1>5, <2>1 DEF Terms
<1>7. Moved(u, m, 0, 0, 0, 0, 0, 0, 0) /\ tries'[m] = tries[m]
  BY <1>1, <1>2, <1>3, <1>4, <1>6 DEF Moved, Calm
<1> QED
  BY <1>7, Unmoved

\* A step that sends nothing takes nothing that is on its way.
LEMMA InflightSame ==
    ASSUME TypeOK, inflight' = inflight
    PROVE  \A m \in Msgs : inflight'[m] <= inflight[m]
  BY DEF TypeOK, ClientTypes

LEMMA CalmLogin ==
    ASSUME IInv, NEW c \in Conns,
           \/ \E u \in Users : LoginAccept(c, u)
           \/ LoginInsert(c) \/ LoginSubscribe(c) \/ LoginSet(c) \/ LoginOnline(c) \/ LoginQuery(c)
    PROVE  Calm
<1> USE DEF Calm, Waiting, At, Goto, client, process, server, work, handler, redis,
            pubsub, mysql, outcome, traffic, LoginPc, OneChatPc, GroupPc
<1>0. TypeOK /\ HandlerTypes
  BY DEF IInv, TypeOK
<1>1. ASSUME inflight' = inflight PROVE \A m \in Msgs : inflight'[m] <= inflight[m]
  BY <1>0, <1>1, InflightSame
<1>2. ASSUME NEW u \in Users, LoginAccept(c, u) PROVE Calm
  BY <1>0, <1>1, <1>2 DEF LoginAccept, HandlerTypes
<1>3. CASE LoginInsert(c)
  BY <1>0, <1>1, <1>3 DEF LoginInsert, HandlerTypes
<1>4. CASE LoginSubscribe(c)
  BY <1>0, <1>1, <1>4 DEF LoginSubscribe, HandlerTypes
<1>5. CASE LoginSet(c)
  BY <1>0, <1>1, <1>5 DEF LoginSet, HandlerTypes
<1>6. CASE LoginOnline(c)
  <2>1. host[c] \in Servers /\ user[c] \in Users
    BY <1>6, HostType DEF LoginOnline, IInv, WorkOK
  <2> QED
    BY <1>0, <1>1, <1>6, <2>1 DEF LoginOnline, HandlerTypes
<1>7. CASE LoginQuery(c)
  BY <1>0, <1>1, <1>7 DEF LoginQuery, HandlerTypes
<1> QED
  BY <1>2, <1>3, <1>4, <1>5, <1>6, <1>7

LEMMA CalmLeave ==
    ASSUME IInv, NEW c \in Conns, LogoutBegin(c) \/ CloseBegin(c) \/ Leave(c)
    PROVE  Calm
<1> USE DEF Calm, Waiting, At, Goto, client, process, server, work, handler, redis,
            pubsub, mysql, outcome, traffic, LeavePc, OneChatPc, GroupPc
<1>0. TypeOK /\ HandlerTypes
  BY DEF IInv, TypeOK
<1>1. ASSUME inflight' = inflight PROVE \A m \in Msgs : inflight'[m] <= inflight[m]
  BY <1>0, <1>1, InflightSame
<1>2. CASE LogoutBegin(c)
  BY <1>0, <1>1, <1>2 DEF LogoutBegin, HandlerTypes
<1>3. CASE CloseBegin(c)
  BY <1>0, <1>1, <1>3 DEF CloseBegin, HandlerTypes
<1>4. CASE LeaveUnsubscribe(c)
  BY <1>0, <1>1, <1>4 DEF LeaveUnsubscribe, HandlerTypes
<1>5. CASE LeaveDelete(c)
  BY <1>0, <1>1, <1>5 DEF LeaveDelete, HandlerTypes
<1>6. CASE LeaveOffline(c)
  <2>1. host[c] \in Servers /\ user[c] \in Users
    BY <1>6, HostType DEF LeaveOffline, IInv, WorkOK
  <2> QED
    BY <1>0, <1>1, <1>6, <2>1 DEF LeaveOffline, MarkOffline, HandlerTypes
<1> QED
  BY <1>2, <1>3, <1>4, <1>5, <1>6 DEF Leave

LEMMA CalmChat ==
    ASSUME IInv, NEW c \in Conns, ChatGet(c) \/ ChatState(c) \/ GroupLock(c) \/ GroupEnd(c)
    PROVE  Calm
<1> USE DEF Calm, Waiting, At, Goto, client, process, server, work, handler, redis,
            pubsub, mysql, outcome, traffic, OneChatPc, GroupPc
<1>0. TypeOK /\ HandlerTypes
  BY DEF IInv, TypeOK
<1>1. ASSUME inflight' = inflight PROVE \A m \in Msgs : inflight'[m] <= inflight[m]
  BY <1>0, <1>1, InflightSame
<1>2. CASE ChatGet(c)
  BY <1>0, <1>1, <1>2 DEF ChatGet, HandlerTypes
<1>3. CASE ChatState(c)
  BY <1>0, <1>1, <1>3 DEF ChatState, HandlerTypes
<1>4. CASE GroupLock(c)
  BY <1>0, <1>1, <1>4 DEF GroupLock, HandlerTypes
<1>5. CASE GroupEnd(c)
  BY <1>0, <1>1, <1>5 DEF GroupEnd, Finish, HandlerTypes
<1> QED
  BY <1>2, <1>3, <1>4, <1>5

LEMMA CalmOthers ==
    ASSUME IInv,
           \/ \E c \in Conns : Connect(c) \/ ClientExit(c)
           \/ \E s \in Servers : RedisSubscriber(s) \/ ResetState(s) \/ Restart(s)
           \/ \E u \in Users : KeyExpire(u)
           \/ UNCHANGED vars
    PROVE  Calm
<1> USE DEF Calm, Waiting, client, process, server, work, handler, redis,
            pubsub, mysql, outcome, traffic
<1>0. TypeOK
  BY DEF IInv
<1>1. ASSUME inflight' = inflight PROVE \A m \in Msgs : inflight'[m] <= inflight[m]
  BY <1>0, <1>1, InflightSame
<1>2. ASSUME NEW c \in Conns, Connect(c) \/ ClientExit(c) PROVE Calm
  <2>1. CASE Connect(c)
    BY <1>1, <2>1 DEF Connect
  <2>2. CASE ClientExit(c)
    <3>1. \A m \in Msgs : inflight'[m] <= inflight[m]
      BY <1>0, <1>1, <2>2 DEF ClientExit, TypeOK, ClientTypes
    <3> QED
      BY <2>2, <3>1 DEF ClientExit
  <2> QED
    BY <1>2, <2>1, <2>2
<1>3. ASSUME NEW s \in Servers, RedisSubscriber(s) \/ ResetState(s) \/ Restart(s) PROVE Calm
  BY <1>1, <1>3 DEF RedisSubscriber, ResetState, Restart
<1>4. ASSUME NEW u \in Users, KeyExpire(u) PROVE Calm
  BY <1>1, <1>4 DEF KeyExpire
<1>5. CASE UNCHANGED vars
  BY <1>1, <1>5 DEF vars
<1> QED
  BY <1>2, <1>3, <1>4, <1>5

-----------------------------------------------------------------------------
(* What the other steps do to one part of the copies.                      *)

LEMMA FanoutOne ==
    ASSUME Finitely, NEW s \in Servers
    PROVE  Fanout \in Nat /\ Fanout >= 1
<1>1. Fanout \in Nat /\ (Fanout = 0 <=> Servers = {})
  BY FS_CardinalityType, FS_EmptySet DEF Fanout, Finitely
<1> QED
  BY <1>1

\* Who receives what is sent on a connection.
LEMMA ReceiveGets ==
    ASSUME TypeOK, NEW d \in Conns, NEW w \in Users, NEW bag \in [Msgs -> Nat],
           Receive(d, w, bag), account[d] = w, NEW u \in Users, NEW m \in Msgs
    PROVE  /\ link[d] = "open" /\ u = w => got'[u][m] = got[u][m] + bag[m]
           /\ link[d] # "open" \/ u # w => got'[u][m] = got[u][m]
<1>1. got \in [Users -> [Msgs -> Nat]]
  BY DEF TypeOK, OutcomeTypes
<1>2. CASE link[d] = "open"
  <2>1. got' = [got EXCEPT ![w] = [k \in Msgs |-> got[w][k] + bag[k]]]
    BY <1>2 DEF Receive
  <2> QED
    BY <1>1, <1>2, <2>1
<1>3. CASE link[d] # "open"
  BY <1>3 DEF Receive
<1> QED
  BY <1>2, <1>3

LEMMA OneIs == \A m, k \in Msgs : One(m)[k] = IF k = m THEN 1 ELSE 0
  BY DEF One

\* One copy of n is handed to the connection that serves w.
LEMMA HandsOne ==
    ASSUME IInv, NEW s \in Servers, NEW w \in Users, NEW n \in Msgs,
           userConnMap[s][w] # NoConn, Receive(userConnMap[s][w], w, One(n)),
           NEW u \in Users, NEW m \in Msgs
    PROVE  /\ got'[u][m] <= got[u][m] + 1
           /\ u # w \/ m # n => got'[u][m] <= got[u][m] + 0
<1>1. userConnMap[s][w] \in Conns /\ account[userConnMap[s][w]] = w
  BY DEF IInv, MapOK, TypeOK, ProcessTypes
<1>2. TypeOK /\ got[u][m] \in Nat /\ One(n) \in [Msgs -> Nat] /\ One(n)[m] \in {0, 1}
      /\ (m # n => One(n)[m] = 0)
  BY BagTypes, OneIs DEF IInv, TypeOK, OutcomeTypes
<1>3. got'[u][m] = got[u][m] + One(n)[m] \/ got'[u][m] = got[u][m]
  BY <1>1, <1>2, ReceiveGets
<1>4. u # w => got'[u][m] = got[u][m]
  BY <1>1, <1>2, ReceiveGets
<1> QED
  BY <1>2, <1>3, <1>4

\* A publication is a copy for each server that is subscribed.
LEMMA PublishSends ==
    ASSUME Finitely, TypeOK, TypeOK', NEW w \in Users, NEW n \in Msgs, Publish(w, n),
           NEW u \in Users, NEW m \in Msgs
    PROVE  /\ Total(SentTo(u, m))' <= Total(SentTo(u, m)) + Fanout
           /\ u # w \/ m # n => Total(SentTo(u, m))' <= Total(SentTo(u, m)) + 0
<1>1. Terms(u, m) /\ Terms(u, m)'
  BY TermsNow, TermsNext
<1>2. ASSUME NEW s \in Servers
      PROVE  /\ SentTo(u, m)'[s] <= SentTo(u, m)[s] + 1
             /\ u # w \/ m # n => SentTo(u, m)'[s] <= SentTo(u, m)[s]
  <2>1. channel[s] \in Seq(Users \X Msgs) /\ <<w, n>> \in Users \X Msgs
    BY DEF TypeOK, RedisTypes
  <2>2. channel'[s] = Append(channel[s], <<w, n>>) \/ channel'[s] = channel[s]
    BY DEF Publish
  <2>3. CountIn(channel[s], <<u, m>>) \in Nat
    BY <2>1, CountNat
  <2>4. CountIn(Append(channel[s], <<w, n>>), <<u, m>>)
            = CountIn(channel[s], <<u, m>>) + (IF <<u, m>> = <<w, n>> THEN 1 ELSE 0)
    BY <2>1, CountAppend
  <2>5. SentTo(u, m)[s] = CountIn(channel[s], <<u, m>>)
        /\ SentTo(u, m)'[s] = CountIn(channel'[s], <<u, m>>)
    BY DEF SentTo
  <2>6. CASE channel'[s] = channel[s]
    <3>1. SentTo(u, m)'[s] = SentTo(u, m)[s] /\ SentTo(u, m)[s] \in Nat
      BY <2>3, <2>5, <2>6
    <3> QED
      BY ONLY <3>1
  <2>7. CASE channel'[s] = Append(channel[s], <<w, n>>)
    <3> DEFINE x == SentTo(u, m)[s]
               y == SentTo(u, m)'[s]
    <3>1. /\ y = x + 1 \/ y = x
          /\ u # w \/ m # n => y = x
      BY <2>3, <2>4, <2>5, <2>7
    <3>2. x \in Nat
      BY <2>3, <2>5
    <3> HIDE DEF x, y
    <3>3. y <= x + 1 /\ (u # w \/ m # n => y <= x)
      BY ONLY <3>1, <3>2
    <3> QED
      BY <3>3 DEF x, y
  <2> QED
    BY <2>2, <2>6, <2>7
<1>3. SentTo(u, m) \in [Servers -> Nat] /\ SentTo(u, m)' \in [Servers -> Nat] /\ IsFiniteSet(Servers)
  BY <1>1 DEF Terms, Finitely
<1>4. Total(SentTo(u, m)') <= Total(SentTo(u, m)) + Fanout
  BY <1>2, <1>3, TotalUpTo DEF Fanout
<1>5. ASSUME u # w \/ m # n PROVE Total(SentTo(u, m)') <= Total(SentTo(u, m)) + 0
  <2>1. Total(SentTo(u, m)') <= Total(SentTo(u, m))
    BY <1>2, <1>3, <1>5, TotalLe
  <2> QED
    BY <1>1, <2>1 DEF Terms
<1> QED
  BY <1>4, <1>5

\* A task that is pushed is a copy when it is the one for the message.
LEMMA PushQueues ==
    ASSUME Finitely, TypeOK, TypeOK', NEW s \in Servers, NEW t \in DbTaskArgs, PushTask(s, t),
           NEW u \in Users, NEW m \in Msgs
    PROVE  Total(QueuedFor(u, m))' <= Total(QueuedFor(u, m)) + 1
<1>1. Terms(u, m) /\ Terms(u, m)'
  BY TermsNow, TermsNext
<1>2. /\ dbQueue' = [dbQueue EXCEPT ![s] = Append(dbQueue[s], t)]
      /\ dbQueue \in [Servers -> Seq(DbTaskArgs)]
  BY DEF PushTask, TypeOK, ProcessTypes
<1>3. CountIn(Append(dbQueue[s], t), OfflineTask(u, m))
          = CountIn(dbQueue[s], OfflineTask(u, m)) + (IF OfflineTask(u, m) = t THEN 1 ELSE 0)
  BY <1>2, CountAppend
<1>4. \A z \in Servers : CountIn(dbQueue[z], OfflineTask(u, m)) \in Nat
  BY <1>2, CountNat
<1>5. /\ \A z \in Servers \ {s} : QueuedFor(u, m)'[z] <= QueuedFor(u, m)[z]
      /\ QueuedFor(u, m)'[s] <= QueuedFor(u, m)[s] + 1
  <2>1. \A z \in Servers : QueuedFor(u, m)[z] = CountIn(dbQueue[z], OfflineTask(u, m))
                           /\ QueuedFor(u, m)'[z] = CountIn(dbQueue'[z], OfflineTask(u, m))
    BY DEF QueuedFor
  <2>2. dbQueue'[s] = Append(dbQueue[s], t) /\ \A z \in Servers \ {s} : dbQueue'[z] = dbQueue[z]
    BY <1>2
  <2>3. ASSUME NEW z \in Servers \ {s} PROVE QueuedFor(u, m)'[z] <= QueuedFor(u, m)[z]
    <3>1. QueuedFor(u, m)'[z] = QueuedFor(u, m)[z] /\ QueuedFor(u, m)[z] \in Nat
      BY <1>4, <2>1, <2>2
    <3> QED
      BY ONLY <3>1
  <2>4. QueuedFor(u, m)'[s] <= QueuedFor(u, m)[s] + 1
    <3> DEFINE x == QueuedFor(u, m)[s]
               y == QueuedFor(u, m)'[s]
    <3>1. (y = x + 1 \/ y = x + 0) /\ x \in Nat
      BY <1>3, <1>4, <2>1, <2>2
    <3> HIDE DEF x, y
    <3>2. y <= x + 1
      BY ONLY <3>1
    <3> QED
      BY <3>2 DEF x, y
  <2> QED
    BY <2>3, <2>4
<1>6. QueuedFor(u, m) \in [Servers -> Nat] /\ QueuedFor(u, m)' \in [Servers -> Nat]
      /\ IsFiniteSet(Servers) /\ 1 \in Int
  BY <1>1 DEF Terms, Finitely
<1>7. Total(QueuedFor(u, m)') <= Total(QueuedFor(u, m)) + 1
  BY <1>5, <1>6, TotalBy
<1> QED
  BY <1>7

\* The head of a queue, and of a channel, is taken.
LEMMA HeadTaken ==
    ASSUME Finitely, TypeOK, TypeOK', NEW s \in Servers, NEW u \in Users, NEW m \in Msgs
    PROVE  /\ dbQueue[s] # <<>> /\ dbQueue' = [dbQueue EXCEPT ![s] = Tail(@)] =>
                  /\ Total(QueuedFor(u, m))' <= Total(QueuedFor(u, m)) + 0
                  /\ Head(dbQueue[s]) = OfflineTask(u, m) =>
                         Total(QueuedFor(u, m))' <= Total(QueuedFor(u, m)) + (-1)
           /\ channel[s] # <<>> /\ channel' = [channel EXCEPT ![s] = Tail(@)] =>
                  /\ Total(SentTo(u, m))' <= Total(SentTo(u, m)) + 0
                  /\ Head(channel[s]) = <<u, m>> =>
                         Total(SentTo(u, m))' <= Total(SentTo(u, m)) + (-1)
<1>1. Terms(u, m) /\ Terms(u, m)'
  BY TermsNow, TermsNext
<1>2. ASSUME NEW S, NEW q \in [Servers -> Seq(S)], q[s] # <<>>, NEW x,
             NEW z \in Servers
      PROVE  LET p == [q EXCEPT ![s] = Tail(@)]
             IN  /\ CountIn(p[z], x) <= CountIn(q[z], x)
                 /\ z = s /\ Head(q[s]) = x => CountIn(p[z], x) <= CountIn(q[z], x) + (-1)
  <2>1. CountIn(q[z], x) \in Nat
    BY CountNat
  <2>2. CASE z = s
    <3>1. CountIn(q[s], x) = CountIn(Tail(q[s]), x) + (IF x = Head(q[s]) THEN 1 ELSE 0)
      BY <1>2, CountTail
    <3>2. Tail(q[s]) \in Seq(S)
      BY <1>2, HeadTailProperties
    <3>3. CountIn(Tail(q[s]), x) \in Nat
      BY <3>2, CountNat
    <3> QED
      BY <2>1, <2>2, <3>1, <3>3
  <2>3. CASE z # s
    BY <2>1, <2>3
  <2> QED
    BY <2>2, <2>3
<1>3. ASSUME dbQueue[s] # <<>>, dbQueue' = [dbQueue EXCEPT ![s] = Tail(@)]
      PROVE  /\ Total(QueuedFor(u, m))' <= Total(QueuedFor(u, m)) + 0
             /\ Head(dbQueue[s]) = OfflineTask(u, m) =>
                    Total(QueuedFor(u, m))' <= Total(QueuedFor(u, m)) + (-1)
  <2>1. dbQueue \in [Servers -> Seq(DbTaskArgs)]
    BY DEF TypeOK, ProcessTypes
  <2>2. \A z \in Servers :
            /\ CountIn(dbQueue'[z], OfflineTask(u, m)) <= CountIn(dbQueue[z], OfflineTask(u, m))
            /\ z = s /\ Head(dbQueue[s]) = OfflineTask(u, m) =>
                  CountIn(dbQueue'[z], OfflineTask(u, m)) <= CountIn(dbQueue[z], OfflineTask(u, m)) + (-1)
    BY <1>2, <1>3, <2>1
  <2>3. /\ \A z \in Servers : QueuedFor(u, m)'[z] <= QueuedFor(u, m)[z]
        /\ Head(dbQueue[s]) = OfflineTask(u, m) =>
              QueuedFor(u, m)'[s] <= QueuedFor(u, m)[s] + (-1)
    BY <2>2 DEF QueuedFor
  <2>4. QueuedFor(u, m) \in [Servers -> Nat] /\ QueuedFor(u, m)' \in [Servers -> Nat]
        /\ IsFiniteSet(Servers) /\ Total(QueuedFor(u, m)) \in Nat
    BY <1>1 DEF Terms, Finitely
  <2>5. Total(QueuedFor(u, m)') <= Total(QueuedFor(u, m))
    BY <2>3, <2>4, TotalLe
  <2>6. Head(dbQueue[s]) = OfflineTask(u, m) =>
            Total(QueuedFor(u, m)') <= Total(QueuedFor(u, m)) + (-1)
    BY <2>3, <2>4, TotalBy
  <2> QED
    BY <2>4, <2>5, <2>6
<1>4. ASSUME channel[s] # <<>>, channel' = [channel EXCEPT ![s] = Tail(@)]
      PROVE  /\ Total(SentTo(u, m))' <= Total(SentTo(u, m)) + 0
             /\ Head(channel[s]) = <<u, m>> =>
                    Total(SentTo(u, m))' <= Total(SentTo(u, m)) + (-1)
  <2>1. channel \in [Servers -> Seq(Users \X Msgs)]
    BY DEF TypeOK, RedisTypes
  <2>2. \A z \in Servers :
            /\ CountIn(channel'[z], <<u, m>>) <= CountIn(channel[z], <<u, m>>)
            /\ z = s /\ Head(channel[s]) = <<u, m>> =>
                  CountIn(channel'[z], <<u, m>>) <= CountIn(channel[z], <<u, m>>) + (-1)
    BY <1>2, <1>4, <2>1
  <2>3. /\ \A z \in Servers : SentTo(u, m)'[z] <= SentTo(u, m)[z]
        /\ Head(channel[s]) = <<u, m>> => SentTo(u, m)'[s] <= SentTo(u, m)[s] + (-1)
    BY <2>2 DEF SentTo
  <2>4. SentTo(u, m) \in [Servers -> Nat] /\ SentTo(u, m)' \in [Servers -> Nat]
        /\ IsFiniteSet(Servers) /\ Total(SentTo(u, m)) \in Nat
    BY <1>1 DEF Terms, Finitely
  <2>5. Total(SentTo(u, m)') <= Total(SentTo(u, m))
    BY <2>3, <2>4, TotalLe
  <2>6. Head(channel[s]) = <<u, m>> => Total(SentTo(u, m)') <= Total(SentTo(u, m)) + (-1)
    BY <2>3, <2>4, TotalBy
  <2> QED
    BY <2>4, <2>5, <2>6
<1> QED
  BY <1>3, <1>4

-----------------------------------------------------------------------------
(* The steps that make copies or pay what was owed, one by one.            *)

\* Nothing of what a message is counted by is touched.
LEMMA SameRows ==
    ASSUME TypeOK, NEW u \in Users, NEW m \in Msgs
    PROVE  /\ got' = got => got'[u][m] <= got[u][m] + 0
           /\ offlineMessage' = offlineMessage => offlineMessage'[u][m] <= offlineMessage[u][m] + 0
           /\ inflight' = inflight => inflight'[m] <= inflight[m] + 0
<1>1. got[u][m] \in Nat /\ offlineMessage[u][m] \in Nat /\ inflight[m] \in Nat
  BY DEF TypeOK, OutcomeTypes, MySQLTypes, ClientTypes
<1> QED
  BY <1>1

\* A chat is typed, or sent once more.
LEMMA SendPays ==
    ASSUME Finitely, IInv, TypeOK', NEW n \in Msgs,
           Resend(n) \/ \E c \in Conns : Send(c, n), NEW u \in Users, NEW m \in Msgs
    PROVE  Pays(u, m)
<1>1. TypeOK /\ inflight \in [Msgs -> Nat] /\ tries \in [Msgs -> Nat]
  BY DEF IInv, TypeOK, ClientTypes
<1>2. /\ UNCHANGED <<got, offlineMessage, dbQueue, channel, pc, user, msg, todo, rows>>
      /\ inflight'[m] <= inflight[m] + (IF m = n THEN 1 ELSE 0)
      /\ tries'[m] = tries[m] + (IF m = n THEN 1 ELSE 0)
  BY <1>1 DEF Send, Resend, mysql, redis, pubsub, process, handler, work, outcome
<1>3. Terms(u, m) /\ Terms(u, m)'
  BY <1>1, TermsNow, TermsNext
<1>4. Copies(u, m)' = Copies(u, m)
  BY <1>2 DEF Copies, ReadBy, QueuedFor, SentTo
<1>5. Total(OwedBy(u, m))' = Total(OwedBy(u, m))
  BY <1>2 DEF OwedBy, Owes
<1>6. Due(u, m)' <= Due(u, m) + (IF m = n THEN 1 ELSE 0)
  <2>1. /\ Due(u, m)' = inflight'[m] + Total(OwedBy(u, m))
        /\ Due(u, m) = inflight[m] + Total(OwedBy(u, m))
    BY <1>5 DEF Due
  <2> QED
    BY <1>2, <1>3, <2>1 DEF Terms
<1> QED
  BY <1>1, <1>2, <1>3, <1>4, <1>6 DEF Pays, Terms

\* Where the handler of c moves, and nothing but this one.
OnlyMoves(c) == \A d \in Conns \ {c} : Waiting(d)

LEMMA ChatBeginPays ==
    ASSUME Finitely, IInv, TypeOK', NEW c \in Conns, NEW n \in Msgs, ChatBegin(c, n),
           NEW u \in Users, NEW m \in Msgs
    PROVE  Pays(u, m)
<1>1. TypeOK /\ HandlerTypes /\ inflight \in [Msgs -> Nat] /\ inflight[n] > 0
  BY DEF IInv, TypeOK, ClientTypes, ChatBegin, Take
<1>2. /\ UNCHANGED <<offlineMessage, dbQueue, channel, tries, todo, rows>>
      /\ inflight'[m] <= inflight[m] + (IF m = n THEN -1 ELSE 0)
  BY <1>1 DEF ChatBegin, Take, mysql, redis, pubsub, process
<1>3. PICK w \in Addressees[n] :
          \/ /\ userConnMap[host[c]][w] # NoConn
             /\ HandOver(c, w, n)
             /\ UNCHANGED <<pc, user, msg>>
          \/ /\ msg' = [msg EXCEPT ![c] = n]
             /\ user' = [user EXCEPT ![c] = w]
             /\ Goto(c, "get")
             /\ UNCHANGED outcome
  BY DEF ChatBegin
<1>4. w \in Users /\ host[c] \in Servers /\ pc[c] = "idle"
  BY ChatAssumption, HostType DEF ChatBegin, Take, At
<1>5. Total(QueuedFor(u, m))' <= Total(QueuedFor(u, m)) + 0
  BY <1>1, <1>2, QueueStays
<1>6. Total(SentTo(u, m))' <= Total(SentTo(u, m)) + 0
  BY <1>1, <1>2, SentStays
<1>7. offlineMessage'[u][m] <= offlineMessage[u][m] + 0
  BY <1>1, <1>2, SameRows
<1>8. CASE userConnMap[host[c]][w] # NoConn /\ HandOver(c, w, n) /\ UNCHANGED <<pc, user, msg>>
  <2>1. \A d \in Conns : Waiting(d)
    BY <1>2, <1>8 DEF Waiting
  <2>2. /\ Total(ReadBy(u, m))' <= Total(ReadBy(u, m)) + 0
        /\ Total(OwedBy(u, m))' <= Total(OwedBy(u, m)) + 0
    BY <1>1, <2>1, ReadStays, OwedStays
  <2>3. /\ got'[u][m] <= got[u][m] + 1
        /\ m # n => got'[u][m] <= got[u][m] + 0
    BY <1>4, <1>8, HandsOne DEF HandOver
  <2>4. CASE m = n
    <3>1. Moved(u, m, 1, 0, 0, 0, 0, 0, -1)
      BY <1>2, <1>5, <1>6, <1>7, <2>2, <2>3, <2>4 DEF Moved
    <3>2. 1 + 0 + 0 + 0 + 0 <= Fanout /\ 0 + (-1) <= -1 /\ 0 \in Int /\ 1 \in Int /\ -1 \in Int
      BY <1>4, FanoutOne
    <3>3. Finitely /\ TypeOK /\ TypeOK' /\ u \in Users /\ m \in Msgs /\ tries'[m] = tries[m]
      BY <1>1, <1>2
    <3> QED
      BY ONLY <3>1, <3>2, <3>3, Paid, Zenon
  <2>5. CASE m # n
    <3>1. Moved(u, m, 0, 0, 0, 0, 0, 0, 0)
      BY <1>2, <1>5, <1>6, <1>7, <2>2, <2>3, <2>5 DEF Moved
    <3> QED
      BY <1>1, <1>2, <3>1, Unmoved
  <2> QED
    BY <2>4, <2>5
<1>9. CASE /\ msg' = [msg EXCEPT ![c] = n] /\ user' = [user EXCEPT ![c] = w]
           /\ Goto(c, "get") /\ UNCHANGED outcome
  <2>1. OnlyMoves(c) /\ pc'[c] = "get" /\ msg'[c] = n
    BY <1>1, <1>2, <1>9 DEF Waiting, OnlyMoves, Goto, HandlerTypes
  <2>2. Total(ReadBy(u, m))' <= Total(ReadBy(u, m)) + 0
    BY <1>1, <2>1, ReadStays DEF OnlyMoves
  <2>3. got'[u][m] <= got[u][m] + 0
    BY <1>1, <1>9, SameRows DEF outcome
  <2>4. Total(OwedBy(u, m))' <= Total(OwedBy(u, m)) + 1
    BY <1>1, <2>1, OwedChanges DEF OnlyMoves
  <2>5. CASE m = n
    <3>1. Moved(u, m, 0, 0, 0, 0, 0, 1, -1)
      BY <1>2, <1>5, <1>6, <1>7, <2>2, <2>3, <2>4, <2>5 DEF Moved
    <3>2. 0 + 0 + 0 + 0 + 0 <= 0 /\ 1 + (-1) <= 0 /\ 0 \in Int /\ 1 \in Int /\ -1 \in Int
      OBVIOUS
    <3>3. Finitely /\ TypeOK /\ TypeOK' /\ u \in Users /\ m \in Msgs /\ tries'[m] = tries[m]
      BY <1>1, <1>2
    <3> QED
      BY ONLY <3>1, <3>2, <3>3, Paid, Zenon
  <2>6. CASE m # n
    <3>1. \A d \in Conns : Waiting(d) \/ (Owes(d, u, m)' => Owes(d, u, m))
      BY <2>1, <2>6 DEF OnlyMoves, Owes
    <3>2. Total(OwedBy(u, m))' <= Total(OwedBy(u, m)) + 0
      BY <1>1, <3>1, OwedStays
    <3>3. Moved(u, m, 0, 0, 0, 0, 0, 0, 0)
      BY <1>2, <1>5, <1>6, <1>7, <2>2, <2>3, <2>6, <3>2 DEF Moved
    <3> QED
      BY <1>1, <1>2, <3>3, Unmoved
  <2> QED
    BY <2>5, <2>6
<1> QED
  BY <1>3, <1>8, <1>9

LEMMA TasksDiffer ==
    ASSUME NEW u, NEW m, NEW w, NEW n, OfflineTask(u, m) = OfflineTask(w, n)
    PROVE  u = w /\ m = n
  BY OfflineTaskFields

\* The handler of c publishes what it owed.
LEMMA PublishPays ==
    ASSUME Finitely, IInv, OneMember, TypeOK', NEW c \in Conns, ChatPublish(c) \/ GroupPublish(c),
           NEW u \in Users, NEW m \in Msgs
    PROVE  Pays(u, m)
<1> DEFINE w == user[c]
           n == msg[c]
<1>1. TypeOK /\ HandlerTypes
  BY DEF IInv, TypeOK
<1>2. w \in Users /\ n \in Msgs /\ pc[c] \in {"publish", "gpublish"} /\ Publish(w, n)
  BY ChatAssumption DEF IInv, WorkOK, ChatPublish, GroupPublish, At, OneChatPc, GroupPc
<1>3. /\ UNCHANGED <<got, offlineMessage, dbQueue, inflight, tries, todo, rows>>
      /\ OnlyMoves(c) /\ pc'[c] \in {"idle", "member"}
      /\ pc'[c] = "member" => pc[c] = "gpublish" /\ msg'[c] = n
  BY <1>1, <1>2 DEF ChatPublish, GroupPublish, Finish, NextMember, Goto, OnlyMoves, Waiting, At,
     HandlerTypes, mysql, process, server, client, traffic
<1>4. /\ Total(ReadBy(u, m))' <= Total(ReadBy(u, m)) + 0
      /\ Total(QueuedFor(u, m))' <= Total(QueuedFor(u, m)) + 0
  BY <1>1, <1>3, ReadStays, QueueStays DEF OnlyMoves
<1>5. /\ got'[u][m] <= got[u][m] + 0 /\ offlineMessage'[u][m] <= offlineMessage[u][m] + 0
      /\ inflight'[m] <= inflight[m] + 0
  BY <1>1, <1>3, SameRows
<1>6. Fanout \in Nat
  BY <1>1, HostType, FanoutOne
<1>7. CASE u = w /\ m = n
  <2>1. Owes(c, u, m)
    BY <1>2, <1>7 DEF Owes, OneChatPc
  <2>2. ~Owes(c, u, m)'
    BY <1>3, <1>7 DEF Owes, OneChatPc, GroupPc, OneMember
  <2>3. Total(OwedBy(u, m))' <= Total(OwedBy(u, m)) + (-1)
    BY <1>1, <1>3, <2>1, <2>2, OwedChanges DEF OnlyMoves
  <2>4. Total(SentTo(u, m))' <= Total(SentTo(u, m)) + Fanout
    BY <1>1, <1>2, PublishSends
  <2>5. Moved(u, m, 0, 0, 0, 0, Fanout, -1, 0)
    BY <1>4, <1>5, <2>3, <2>4 DEF Moved
  <2>6. 0 + 0 + 0 + 0 + Fanout <= Fanout /\ (-1) + 0 <= -1 /\ 0 \in Int /\ Fanout \in Int /\ -1 \in Int
    BY <1>6
  <2>7. Finitely /\ TypeOK /\ TypeOK' /\ u \in Users /\ m \in Msgs /\ tries'[m] = tries[m]
    BY <1>1, <1>3
  <2> QED
    BY ONLY <2>5, <2>6, <2>7, Paid, Zenon
<1>8. CASE u # w \/ m # n
  <2>1. \A d \in Conns : Waiting(d) \/ (Owes(d, u, m)' => Owes(d, u, m))
    BY <1>2, <1>3 DEF OnlyMoves, Owes, OneChatPc, GroupPc
  <2>2. Total(OwedBy(u, m))' <= Total(OwedBy(u, m)) + 0
    BY <1>1, <2>1, OwedStays
  <2>3. Total(SentTo(u, m))' <= Total(SentTo(u, m)) + 0
    BY <1>1, <1>2, <1>8, PublishSends
  <2>4. Moved(u, m, 0, 0, 0, 0, 0, 0, 0)
    BY <1>4, <1>5, <2>2, <2>3 DEF Moved
  <2> QED
    BY <1>1, <1>3, <2>4, Unmoved
<1> QED
  BY <1>7, <1>8

\* The handler of c queues what it owed for the worker.
LEMMA StorePays ==
    ASSUME Finitely, IInv, OneMember, TypeOK', NEW c \in Conns, ChatStore(c) \/ GroupStore(c),
           NEW u \in Users, NEW m \in Msgs
    PROVE  Pays(u, m)
<1> DEFINE w == user[c]
           n == msg[c]
<1>1. TypeOK /\ HandlerTypes /\ host[c] \in Servers
  BY HostType DEF IInv, TypeOK
<1>2. /\ w \in Users \cup {NoUser} /\ n \in Msgs /\ pc[c] \in {"store", "gstore"}
      /\ PushTask(host[c], OfflineTask(w, n))
  BY <1>1, ChatAssumption DEF IInv, WorkOK, ChatStore, GroupStore, KeepOffline, At, OneChatPc, GroupPc,
     HandlerTypes
<1>3. /\ UNCHANGED <<got, offlineMessage, channel, inflight, tries, todo, rows>>
      /\ OnlyMoves(c) /\ pc'[c] \in {"idle", "member"}
      /\ pc'[c] = "member" => pc[c] = "gstore" /\ msg'[c] = n
  BY <1>1, <1>2 DEF ChatStore, GroupStore, Finish, NextMember, Goto, OnlyMoves, Waiting, At,
     HandlerTypes, mysql, redis, pubsub, client, traffic, outcome
<1>4. /\ Total(ReadBy(u, m))' <= Total(ReadBy(u, m)) + 0
      /\ Total(SentTo(u, m))' <= Total(SentTo(u, m)) + 0
  BY <1>1, <1>3, ReadStays, SentStays DEF OnlyMoves
<1>5. /\ got'[u][m] <= got[u][m] + 0 /\ offlineMessage'[u][m] <= offlineMessage[u][m] + 0
      /\ inflight'[m] <= inflight[m] + 0
  BY <1>1, <1>3, SameRows
<1>6. Fanout \in Nat /\ Fanout >= 1 /\ OfflineTask(w, n) \in DbTaskArgs
  BY <1>1, <1>2, FanoutOne, TaskTypes
<1>7. CASE u = w /\ m = n
  <2>1. Owes(c, u, m)
    BY <1>2, <1>7 DEF Owes, OneChatPc
  <2>2. ~Owes(c, u, m)'
    BY <1>3, <1>7 DEF Owes, OneChatPc, GroupPc, OneMember
  <2>3. Total(OwedBy(u, m))' <= Total(OwedBy(u, m)) + (-1)
    BY <1>1, <1>3, <2>1, <2>2, OwedChanges DEF OnlyMoves
  <2>4. Total(QueuedFor(u, m))' <= Total(QueuedFor(u, m)) + 1
    BY <1>1, <1>2, <1>6, PushQueues
  <2>5. Moved(u, m, 0, 0, 0, 1, 0, -1, 0)
    BY <1>4, <1>5, <2>3, <2>4 DEF Moved
  <2>6. 0 + 0 + 0 + 1 + 0 <= Fanout /\ (-1) + 0 <= -1 /\ 0 \in Int /\ 1 \in Int /\ -1 \in Int
    BY <1>6
  <2>7. Finitely /\ TypeOK /\ TypeOK' /\ u \in Users /\ m \in Msgs /\ tries'[m] = tries[m]
    BY <1>1, <1>3
  <2> QED
    BY ONLY <2>5, <2>6, <2>7, Paid, Zenon
<1>8. CASE u # w \/ m # n
  <2>1. \A d \in Conns : Waiting(d) \/ (Owes(d, u, m)' => Owes(d, u, m))
    BY <1>2, <1>3 DEF OnlyMoves, Owes, OneChatPc, GroupPc
  <2>2. Total(OwedBy(u, m))' <= Total(OwedBy(u, m)) + 0
    BY <1>1, <2>1, OwedStays
  <2>3. Total(QueuedFor(u, m))' <= Total(QueuedFor(u, m)) + 0
    <3>1. OfflineTask(w, n) # OfflineTask(u, m)
      BY <1>8, TasksDiffer
    <3> QED
      BY <1>1, <1>2, <1>6, <3>1, QueueStays
  <2>4. Moved(u, m, 0, 0, 0, 0, 0, 0, 0)
    BY <1>4, <1>5, <2>2, <2>3 DEF Moved
  <2> QED
    BY <1>1, <1>3, <2>4, Unmoved
<1> QED
  BY <1>7, <1>8

\* A groupChat begins, and owes the message to every member.
LEMMA GroupBeginPays ==
    ASSUME Finitely, IInv, TypeOK', NEW c \in Conns, NEW n \in Msgs, GroupBegin(c, n),
           NEW u \in Users, NEW m \in Msgs
    PROVE  Pays(u, m)
<1>1. TypeOK /\ HandlerTypes /\ inflight \in [Msgs -> Nat] /\ inflight[n] > 0
  BY DEF IInv, TypeOK, ClientTypes, GroupBegin, Take
<1>2. /\ UNCHANGED <<got, offlineMessage, dbQueue, channel, tries, rows>>
      /\ OnlyMoves(c) /\ pc'[c] = "lock" /\ msg'[c] = n
      /\ inflight'[m] <= inflight[m] + (IF m = n THEN -1 ELSE 0)
  BY <1>1 DEF GroupBegin, Take, mysql, redis, pubsub, process, Goto, OnlyMoves, Waiting, HandlerTypes
<1>3. /\ Total(ReadBy(u, m))' <= Total(ReadBy(u, m)) + 0
      /\ Total(QueuedFor(u, m))' <= Total(QueuedFor(u, m)) + 0
      /\ Total(SentTo(u, m))' <= Total(SentTo(u, m)) + 0
  BY <1>1, <1>2, ReadStays, QueueStays, SentStays DEF OnlyMoves
<1>4. got'[u][m] <= got[u][m] + 0 /\ offlineMessage'[u][m] <= offlineMessage[u][m] + 0
  BY <1>1, <1>2, SameRows
<1>5. CASE m = n
  <2>1. Total(OwedBy(u, m))' <= Total(OwedBy(u, m)) + 1
    BY <1>1, <1>2, OwedChanges DEF OnlyMoves
  <2>2. Moved(u, m, 0, 0, 0, 0, 0, 1, -1)
    BY <1>2, <1>3, <1>4, <1>5, <2>1 DEF Moved
  <2>3. 0 + 0 + 0 + 0 + 0 <= 0 /\ 1 + (-1) <= 0 /\ 0 \in Int /\ 1 \in Int /\ -1 \in Int
    OBVIOUS
  <2>4. Finitely /\ TypeOK /\ TypeOK' /\ u \in Users /\ m \in Msgs /\ tries'[m] = tries[m]
    BY <1>1, <1>2
  <2> QED
    BY ONLY <2>2, <2>3, <2>4, Paid, Zenon
<1>6. CASE m # n
  <2>1. \A d \in Conns : Waiting(d) \/ (Owes(d, u, m)' => Owes(d, u, m))
    BY <1>2, <1>6 DEF OnlyMoves, Owes
  <2>2. Total(OwedBy(u, m))' <= Total(OwedBy(u, m)) + 0
    BY <1>1, <2>1, OwedStays
  <2>3. Moved(u, m, 0, 0, 0, 0, 0, 0, 0)
    BY <1>2, <1>3, <1>4, <1>6, <2>2 DEF Moved
  <2> QED
    BY <1>1, <1>2, <2>3, Unmoved
<1> QED
  BY <1>5, <1>6

\* A member is served on this server, or it is decided how.
LEMMA GroupMemberPays ==
    ASSUME Finitely, IInv, TypeOK', NEW c \in Conns, GroupMember(c),
           NEW u \in Users, NEW m \in Msgs
    PROVE  Pays(u, m)
<1> DEFINE n == msg[c]
<1>1. TypeOK /\ HandlerTypes /\ host[c] \in Servers
  BY HostType DEF IInv, TypeOK
<1>2. PICK w \in todo[c] :
          /\ todo' = [todo EXCEPT ![c] = @ \ {w}]
          /\ \/ /\ userConnMap[host[c]][w] # NoConn
                /\ Receive(userConnMap[host[c]][w], w, One(n))
                /\ UNCHANGED <<pc, user>>
             \/ /\ user' = [user EXCEPT ![c] = w]
                /\ Goto(c, "gpublish") \/ Goto(c, "gstore")
                /\ UNCHANGED got
  BY DEF GroupMember
<1>3. /\ n \in Msgs /\ w \in Users /\ pc[c] = "member" /\ msg' = msg
      /\ UNCHANGED <<offlineMessage, dbQueue, channel, inflight, tries, rows>>
  BY <1>1, ChatAssumption DEF IInv, WorkOK, GroupMember, At, GroupPc, HandlerTypes, mysql,
     redis, pubsub, process, client, traffic
<1>4. OnlyMoves(c)
  BY <1>1, <1>2, <1>3 DEF OnlyMoves, Waiting, HandlerTypes, Goto
<1>5. /\ Total(QueuedFor(u, m))' <= Total(QueuedFor(u, m)) + 0
      /\ Total(SentTo(u, m))' <= Total(SentTo(u, m)) + 0
  BY <1>1, <1>3, QueueStays, SentStays
<1>6. pc'[c] # "reply" /\ w \notin todo'[c] /\ todo'[c] \subseteq todo[c]
  BY <1>1, <1>2, <1>3 DEF Goto, HandlerTypes
<1>7. Total(ReadBy(u, m))' <= Total(ReadBy(u, m)) + 0
  BY <1>1, <1>4, <1>6, ReadStays DEF OnlyMoves
<1>8. offlineMessage'[u][m] <= offlineMessage[u][m] + 0 /\ inflight'[m] <= inflight[m] + 0
  BY <1>1, <1>3, SameRows
<1>9. \A d \in Conns : Waiting(d) \/ (Owes(d, u, m)' => Owes(d, u, m))
  BY <1>1, <1>2, <1>3, <1>4, <1>6 DEF OnlyMoves, Owes, OneChatPc, GroupPc, Goto, HandlerTypes
<1>10. Total(OwedBy(u, m))' <= Total(OwedBy(u, m)) + 0
  BY <1>1, <1>9, OwedStays
<1>11. CASE got'[u][m] <= got[u][m] + 0
  <2>1. Moved(u, m, 0, 0, 0, 0, 0, 0, 0)
    BY <1>5, <1>7, <1>8, <1>10, <1>11 DEF Moved
  <2> QED
    BY <1>1, <1>3, <2>1, Unmoved
<1>12. CASE ~(got'[u][m] <= got[u][m] + 0)
  <2>1. got' # got
    BY <1>1, <1>12, SameRows
  <2>2. /\ userConnMap[host[c]][w] # NoConn /\ UNCHANGED <<pc, user>>
        /\ Receive(userConnMap[host[c]][w], w, One(n))
    BY <1>2, <2>1
  <2>3. u = w /\ m = n /\ got'[u][m] <= got[u][m] + 1
    BY <1>1, <1>3, <1>12, <2>2, HandsOne
  <2>4. Owes(c, u, m) /\ ~Owes(c, u, m)'
    BY <1>3, <1>6, <2>2, <2>3 DEF Owes, GroupPc, OneChatPc
  <2>5. Total(OwedBy(u, m))' <= Total(OwedBy(u, m)) + (-1)
    BY <1>1, <1>4, <2>4, OwedChanges DEF OnlyMoves
  <2>6. Moved(u, m, 1, 0, 0, 0, 0, -1, 0)
    BY <1>5, <1>7, <1>8, <2>3, <2>5 DEF Moved
  <2>7. 1 + 0 + 0 + 0 + 0 <= Fanout /\ (-1) + 0 <= -1 /\ 0 \in Int /\ 1 \in Int /\ -1 \in Int
    BY <1>1, FanoutOne
  <2>8. Finitely /\ TypeOK /\ TypeOK' /\ u \in Users /\ m \in Msgs /\ tries'[m] = tries[m]
    BY <1>1, <1>3
  <2> QED
    BY ONLY <2>6, <2>7, <2>8, Paid, Zenon
<1> QED
  BY <1>11, <1>12

\* What a login has read leaves the table.
LEMMA RemovePays ==
    ASSUME Finitely, MaxFaults = 0, IInv, RowsKept, TypeOK', NEW c \in Conns, LoginRemove(c),
           NEW u \in Users, NEW m \in Msgs
    PROVE  Pays(u, m)
<1>1. TypeOK /\ HandlerTypes /\ offlineMessage \in [Users -> [Msgs -> Nat]]
  BY DEF IInv, TypeOK, MySQLTypes
<1>2. user[c] \in Users /\ pc[c] = "remove" /\ rows[c][m] \in Nat
  BY <1>1 DEF IInv, WorkOK, LoginRemove, At, LoginPc, HandlerTypes
<1>3. offlineMessage' = [offlineMessage EXCEPT ![user[c]] = None]
  BY DEF LoginRemove, Fault, IInv, TypeOK, BoundTypes
<1>4. /\ UNCHANGED <<got, dbQueue, channel, inflight, tries, todo, rows, user, msg>>
      /\ OnlyMoves(c) /\ pc'[c] = "reply"
  BY <1>1 DEF LoginRemove, redis, pubsub, process, work, client, traffic, Goto, OnlyMoves, Waiting,
     HandlerTypes
<1>5. /\ Total(QueuedFor(u, m))' <= Total(QueuedFor(u, m)) + 0
      /\ Total(SentTo(u, m))' <= Total(SentTo(u, m)) + 0
  BY <1>1, <1>4, QueueStays, SentStays
<1>6. got'[u][m] <= got[u][m] + 0 /\ inflight'[m] <= inflight[m] + 0
  BY <1>1, <1>4, SameRows
<1>7. Total(OwedBy(u, m))' <= Total(OwedBy(u, m)) + 0
  <2>1. \A d \in Conns : Waiting(d) \/ (Owes(d, u, m)' => Owes(d, u, m))
    BY <1>4 DEF OnlyMoves, Owes, OneChatPc, GroupPc
  <2> QED
    BY <1>1, <2>1, OwedStays
<1>8. CASE u = user[c]
  <2> DEFINE x == rows[c][m]
             y == offlineMessage[u][m]
  <2>1. x <= y /\ x \in Nat /\ y \in Nat
    BY <1>1, <1>2, <1>8 DEF RowsKept
  <2>2. offlineMessage'[u][m] = 0
    BY <1>1, <1>3, <1>8 DEF None
  <2>3. Terms(u, m) /\ Terms(u, m)'
    BY <1>1, TermsNow, TermsNext
  <2>4. /\ \A d \in Conns \ {c} : ReadBy(u, m)'[d] <= ReadBy(u, m)[d]
        /\ ReadBy(u, m)'[c] <= ReadBy(u, m)[c] + x
    <3>1. \A d \in Conns : rows[d][m] \in Nat
      BY <1>1 DEF HandlerTypes
    <3>2. ASSUME NEW d \in Conns \ {c} PROVE ReadBy(u, m)'[d] <= ReadBy(u, m)[d]
      BY <1>4, <3>1, <3>2 DEF ReadBy, OnlyMoves, Waiting
    <3>3. ReadBy(u, m)[c] = 0 /\ ReadBy(u, m)'[c] = x
      BY <1>2, <1>4, <1>8 DEF ReadBy
    <3> QED
      BY <2>1, <3>2, <3>3
  <2> HIDE DEF x, y
  <2>5. Total(ReadBy(u, m)') <= Total(ReadBy(u, m)) + x
    <3>1. ReadBy(u, m) \in [Conns -> Nat] /\ ReadBy(u, m)' \in [Conns -> Nat]
          /\ IsFiniteSet(Conns) /\ x \in Int
      BY <2>1, <2>3 DEF Terms, Finitely
    <3> QED
      BY <2>4, <3>1, TotalBy
  <2>6. offlineMessage'[u][m] <= offlineMessage[u][m] + (-y)
    BY <2>1, <2>2 DEF y
  <2>7. Moved(u, m, 0, -y, x, 0, 0, 0, 0)
    BY <1>5, <1>6, <1>7, <2>5, <2>6 DEF Moved
  <2>8. 0 + (-y) + x + 0 + 0 <= 0 /\ 0 + 0 <= 0 /\ -y \in Int /\ x \in Int /\ 0 \in Int
    BY <2>1
  <2>9. Finitely /\ TypeOK /\ TypeOK' /\ u \in Users /\ m \in Msgs /\ tries'[m] = tries[m]
    BY <1>1, <1>4
  <2> QED
    BY ONLY <2>7, <2>8, <2>9, Paid, Zenon
<1>9. CASE u # user[c]
  <2>1. offlineMessage'[u][m] <= offlineMessage[u][m] + 0
    BY <1>1, <1>3, <1>9
  <2>2. Terms(u, m) /\ Terms(u, m)'
    BY <1>1, TermsNow, TermsNext
  <2>3. \A d \in Conns : ReadBy(u, m)'[d] <= ReadBy(u, m)[d]
    <3>1. \A d \in Conns : rows[d][m] \in Nat
      BY <1>1 DEF HandlerTypes
    <3> QED
      BY <1>4, <1>9, <3>1 DEF ReadBy, OnlyMoves, Waiting
  <2>4. Total(ReadBy(u, m)') <= Total(ReadBy(u, m))
    BY <2>2, <2>3, TotalLe DEF Terms, Finitely
  <2>5. Total(ReadBy(u, m))' <= Total(ReadBy(u, m)) + 0
    BY <2>2, <2>4 DEF Terms
  <2>6. Moved(u, m, 0, 0, 0, 0, 0, 0, 0)
    BY <1>5, <1>6, <1>7, <2>1, <2>5 DEF Moved
  <2> QED
    BY <1>1, <1>4, <2>6, Unmoved
<1> QED
  BY <1>8, <1>9

\* What a login has read is received.
LEMMA ReplyPays ==
    ASSUME Finitely, IInv, TypeOK', NEW c \in Conns, LoginReply(c),
           NEW u \in Users, NEW m \in Msgs
    PROVE  Pays(u, m)
<1> DEFINE w == user[c]
<1>1. TypeOK /\ HandlerTypes
  BY DEF IInv, TypeOK
<1>2. w \in Users /\ account[c] = w /\ pc[c] = "reply" /\ rows[c] \in [Msgs -> Nat]
      /\ Receive(c, w, rows[c])
  BY <1>1 DEF IInv, WorkOK, LoginReply, At, LoginPc, HandlerTypes
<1>3. /\ UNCHANGED <<offlineMessage, dbQueue, channel, inflight, tries, todo, msg>>
      /\ OnlyMoves(c) /\ pc'[c] = "idle"
  BY <1>1 DEF LoginReply, mysql, redis, pubsub, process, client, traffic, Goto, OnlyMoves, Waiting,
     HandlerTypes
<1>4. /\ Total(QueuedFor(u, m))' <= Total(QueuedFor(u, m)) + 0
      /\ Total(SentTo(u, m))' <= Total(SentTo(u, m)) + 0
  BY <1>1, <1>3, QueueStays, SentStays
<1>5. offlineMessage'[u][m] <= offlineMessage[u][m] + 0 /\ inflight'[m] <= inflight[m] + 0
  BY <1>1, <1>3, SameRows
<1>6. Total(OwedBy(u, m))' <= Total(OwedBy(u, m)) + 0
  <2>1. \A d \in Conns : Waiting(d) \/ (Owes(d, u, m)' => Owes(d, u, m))
    BY <1>3 DEF OnlyMoves, Owes, OneChatPc, GroupPc
  <2> QED
    BY <1>1, <2>1, OwedStays
<1>7. got[u][m] \in Nat
  BY <1>1 DEF TypeOK, OutcomeTypes
<1>8. CASE link[c] = "open" /\ u = w
  <2> DEFINE x == rows[c][m]
  <2>1. x \in Nat /\ got'[u][m] <= got[u][m] + x
    <3>1. got'[u][m] = got[u][m] + x /\ x \in Nat
      BY <1>1, <1>2, <1>8, ReceiveGets
    <3> QED
      BY <1>7, <3>1
  <2>2. Terms(u, m) /\ Terms(u, m)'
    BY <1>1, TermsNow, TermsNext
  <2>3. /\ \A d \in Conns \ {c} : ReadBy(u, m)'[d] <= ReadBy(u, m)[d]
        /\ ReadBy(u, m)'[c] <= ReadBy(u, m)[c] + (-x)
    <3>1. \A d \in Conns : rows[d][m] \in Nat
      BY <1>1 DEF HandlerTypes
    <3>2. ASSUME NEW d \in Conns \ {c} PROVE ReadBy(u, m)'[d] <= ReadBy(u, m)[d]
      BY <1>3, <3>1, <3>2 DEF ReadBy, OnlyMoves, Waiting
    <3>3. ReadBy(u, m)[c] = x /\ ReadBy(u, m)'[c] = 0
      BY <1>2, <1>3, <1>8 DEF ReadBy
    <3> QED
      BY <2>1, <3>2, <3>3
  <2> HIDE DEF x
  <2>4. Total(ReadBy(u, m)') <= Total(ReadBy(u, m)) + (-x)
    <3>1. ReadBy(u, m) \in [Conns -> Nat] /\ ReadBy(u, m)' \in [Conns -> Nat]
          /\ IsFiniteSet(Conns) /\ -x \in Int
      BY <2>1, <2>2 DEF Terms, Finitely
    <3> QED
      BY <2>3, <3>1, TotalBy
  <2>5. Moved(u, m, x, 0, -x, 0, 0, 0, 0)
    BY <1>4, <1>5, <1>6, <2>1, <2>4 DEF Moved
  <2>6. x + 0 + (-x) + 0 + 0 <= 0 /\ 0 + 0 <= 0 /\ -x \in Int /\ x \in Int /\ 0 \in Int
    BY <2>1
  <2>7. Finitely /\ TypeOK /\ TypeOK' /\ u \in Users /\ m \in Msgs /\ tries'[m] = tries[m]
    BY <1>1, <1>3
  <2> QED
    BY ONLY <2>5, <2>6, <2>7, Paid, Zenon
<1>9. CASE link[c] # "open" \/ u # w
  <2>1. got'[u][m] <= got[u][m] + 0
    <3>1. got'[u][m] = got[u][m]
      BY <1>1, <1>2, <1>9, ReceiveGets
    <3> QED
      BY <1>7, <3>1
  <2>2. Total(ReadBy(u, m))' <= Total(ReadBy(u, m)) + 0
    BY <1>1, <1>3, ReadStays DEF OnlyMoves
  <2>3. Moved(u, m, 0, 0, 0, 0, 0, 0, 0)
    BY <1>4, <1>5, <1>6, <2>1, <2>2 DEF Moved
  <2> QED
    BY <1>1, <1>3, <2>3, Unmoved
<1> QED
  BY <1>8, <1>9

\* The worker files what is queued.
LEMMA WorkerPays ==
    ASSUME Finitely, IInv, TasksWhole, TypeOK', NEW s \in Servers, Worker(s),
           NEW u \in Users, NEW m \in Msgs
    PROVE  Pays(u, m)
<1> DEFINE t == Head(dbQueue[s])
<1>1. TypeOK /\ offlineMessage \in [Users -> [Msgs -> Nat]] /\ dbQueue[s] \in Seq(DbTaskArgs)
  BY DEF IInv, TypeOK, MySQLTypes, ProcessTypes
<1>2. /\ UNCHANGED <<got, channel, inflight, tries, pc, user, msg, todo, rows>>
      /\ dbQueue[s] # <<>> /\ dbQueue' = [dbQueue EXCEPT ![s] = Tail(@)]
      /\ Apply(t) \/ offlineMessage' = offlineMessage
  BY DEF Worker, redis, pubsub, handler, work, client, traffic, mysql
<1>3. t \in DbTaskArgs /\ (t.type = "offline" => t.state = "Offline")
  <2>1. t \in DbTaskArgs /\ 1 \in DOMAIN dbQueue[s] /\ t = dbQueue[s][1]
    BY <1>1, <1>2, HeadTailProperties, LenProperties, EmptySeq
  <2> QED
    BY <2>1 DEF TasksWhole, Whole
<1>4. \A d \in Conns : Waiting(d)
  BY <1>2 DEF Waiting
<1>5. /\ Total(ReadBy(u, m))' <= Total(ReadBy(u, m)) + 0
      /\ Total(OwedBy(u, m))' <= Total(OwedBy(u, m)) + 0
      /\ Total(SentTo(u, m))' <= Total(SentTo(u, m)) + 0
  BY <1>1, <1>2, <1>4, ReadStays, OwedStays, SentStays
<1>6. got'[u][m] <= got[u][m] + 0 /\ inflight'[m] <= inflight[m] + 0
  BY <1>1, <1>2, SameRows
<1>7. CASE t = OfflineTask(u, m)
  <2>1. t.type = "offline" /\ t.user = u /\ t.msg = m /\ u # NoUser
    BY <1>7, OfflineTaskFields, ChatAssumption
  <2>2. offlineMessage'[u][m] <= offlineMessage[u][m] + 1
    <3>1. offlineMessage' = offlineMessage
          \/ offlineMessage' = [offlineMessage EXCEPT ![u][m] = @ + 1]
      BY <1>2, <2>1 DEF Apply
    <3> QED
      BY <1>1, <3>1
  <2>3. Total(QueuedFor(u, m))' <= Total(QueuedFor(u, m)) + (-1)
    BY <1>1, <1>2, <1>7, HeadTaken
  <2>4. Moved(u, m, 0, 1, 0, -1, 0, 0, 0)
    BY <1>5, <1>6, <2>2, <2>3 DEF Moved
  <2>5. 0 + 1 + 0 + (-1) + 0 <= 0 /\ 0 + 0 <= 0 /\ 0 \in Int /\ 1 \in Int /\ -1 \in Int
    OBVIOUS
  <2>6. Finitely /\ TypeOK /\ TypeOK' /\ u \in Users /\ m \in Msgs /\ tries'[m] = tries[m]
    BY <1>1, <1>2
  <2> QED
    BY ONLY <2>4, <2>5, <2>6, Paid, Zenon
<1>8. CASE t # OfflineTask(u, m)
  <2>1. offlineMessage'[u][m] <= offlineMessage[u][m] + 0
    <3>1. CASE offlineMessage' = offlineMessage
      BY <1>1, <3>1, SameRows
    <3>2. CASE offlineMessage' # offlineMessage
      <4>1. /\ t.type = "offline"
            /\ offlineMessage' = [offlineMessage EXCEPT ![t.user][t.msg] = @ + 1]
        BY <1>2, <3>2 DEF Apply, mysql
      <4>2. t = OfflineTask(t.user, t.msg)
        BY <1>3, <4>1 DEF OfflineTask, DbTaskArgs
      <4>3. t.user # u \/ t.msg # m
        BY <1>8, <4>2
      <4>4. offlineMessage'[u][m] = offlineMessage[u][m]
        BY <1>1, <4>1, <4>3
      <4> QED
        BY <1>1, <4>4
    <3> QED
      BY <3>1, <3>2
  <2>2. Total(QueuedFor(u, m))' <= Total(QueuedFor(u, m)) + 0
    BY <1>1, <1>2, HeadTaken
  <2>3. Moved(u, m, 0, 0, 0, 0, 0, 0, 0)
    BY <1>5, <1>6, <2>1, <2>2 DEF Moved
  <2> QED
    BY <1>1, <1>2, <2>3, Unmoved
<1> QED
  BY <1>7, <1>8

\* The subscriber thread hands a publication over, or files it.
LEMMA ObservePays ==
    ASSUME Finitely, IInv, TypeOK', NEW s \in Servers, Observe(s),
           NEW u \in Users, NEW m \in Msgs
    PROVE  Pays(u, m)
<1>1. TypeOK /\ offlineMessage \in [Users -> [Msgs -> Nat]] /\ channel[s] \in Seq(Users \X Msgs)
      /\ got[u][m] \in Nat
  BY DEF IInv, TypeOK, MySQLTypes, RedisTypes, OutcomeTypes
<1>2. /\ UNCHANGED <<dbQueue, inflight, tries, pc, user, msg, todo, rows>>
      /\ channel[s] # <<>> /\ channel' = [channel EXCEPT ![s] = Tail(@)]
  BY DEF Observe, process, handler, work, client, traffic
<1>3. PICK w \in Users, n \in Msgs : Head(channel[s]) = <<w, n>>
  BY <1>1, <1>2, HeadTailProperties
<1>4. \/ /\ userConnMap[s][w] # NoConn /\ Receive(userConnMap[s][w], w, One(n))
         /\ UNCHANGED offlineMessage
      \/ UNCHANGED got /\ offlineMessage' = [offlineMessage EXCEPT ![w][n] = @ + 1]
      \/ UNCHANGED <<got, offlineMessage>>
  BY <1>3 DEF Observe, mysql
<1>5. \A d \in Conns : Waiting(d)
  BY <1>2 DEF Waiting
<1>6. /\ Total(ReadBy(u, m))' <= Total(ReadBy(u, m)) + 0
      /\ Total(OwedBy(u, m))' <= Total(OwedBy(u, m)) + 0
      /\ Total(QueuedFor(u, m))' <= Total(QueuedFor(u, m)) + 0
  BY <1>1, <1>2, <1>5, ReadStays, OwedStays, QueueStays
<1>7. inflight'[m] <= inflight[m] + 0
  BY <1>1, <1>2, SameRows
<1>8. /\ \/ got'[u][m] <= got[u][m] + 1 /\ offlineMessage'[u][m] <= offlineMessage[u][m] + 0
         \/ got'[u][m] <= got[u][m] + 0 /\ offlineMessage'[u][m] <= offlineMessage[u][m] + 1
      /\ u # w \/ m # n => /\ got'[u][m] <= got[u][m] + 0
                           /\ offlineMessage'[u][m] <= offlineMessage[u][m] + 0
  <2>1. CASE /\ userConnMap[s][w] # NoConn /\ Receive(userConnMap[s][w], w, One(n))
             /\ UNCHANGED offlineMessage
    <3>1. offlineMessage'[u][m] <= offlineMessage[u][m] + 0
      BY <1>1, <2>1, SameRows
    <3>2. /\ got'[u][m] <= got[u][m] + 1
          /\ u # w \/ m # n => got'[u][m] <= got[u][m] + 0
      BY <2>1, HandsOne
    <3> QED
      BY <3>1, <3>2
  <2>2. CASE UNCHANGED got /\ offlineMessage' = [offlineMessage EXCEPT ![w][n] = @ + 1]
    <3>1. got'[u][m] <= got[u][m] + 0
      BY <1>1, <2>2, SameRows
    <3>2. /\ u # w \/ m # n => offlineMessage'[u][m] = offlineMessage[u][m]
          /\ u = w /\ m = n => offlineMessage'[u][m] = offlineMessage[u][m] + 1
          /\ offlineMessage[u][m] \in Nat
      BY <1>1, <2>2
    <3> HIDE <2>2
    <3> QED
      BY <3>1, <3>2
  <2>3. CASE UNCHANGED <<got, offlineMessage>>
    BY <1>1, <2>3
  <2> QED
    BY <1>4, <2>1, <2>2, <2>3
<1>9. Finitely /\ TypeOK /\ TypeOK' /\ u \in Users /\ m \in Msgs /\ tries'[m] = tries[m]
  BY <1>1, <1>2
<1>10. CASE u = w /\ m = n
  <2>1. Total(SentTo(u, m))' <= Total(SentTo(u, m)) + (-1)
    BY <1>1, <1>2, <1>3, <1>10, HeadTaken
  <2>2. Moved(u, m, 1, 0, 0, 0, -1, 0, 0) \/ Moved(u, m, 0, 1, 0, 0, -1, 0, 0)
    BY <1>6, <1>7, <1>8, <2>1 DEF Moved
  <2>3. /\ 1 + 0 + 0 + 0 + (-1) <= 0 /\ 0 + 1 + 0 + 0 + (-1) <= 0 /\ 0 + 0 <= 0
        /\ 0 \in Int /\ 1 \in Int /\ -1 \in Int
    OBVIOUS
  <2>4. CASE Moved(u, m, 1, 0, 0, 0, -1, 0, 0)
    BY ONLY <1>9, <2>3, <2>4, Paid, Zenon
  <2>5. CASE Moved(u, m, 0, 1, 0, 0, -1, 0, 0)
    BY ONLY <1>9, <2>3, <2>5, Paid, Zenon
  <2> QED
    BY <2>2, <2>4, <2>5
<1>11. CASE u # w \/ m # n
  <2>1. Total(SentTo(u, m))' <= Total(SentTo(u, m)) + 0
    BY <1>1, <1>2, HeadTaken
  <2>2. Moved(u, m, 0, 0, 0, 0, 0, 0, 0)
    BY <1>6, <1>7, <1>8, <1>11, <2>1 DEF Moved
  <2> QED
    BY <1>9, <2>2, Unmoved
<1> QED
  BY <1>10, <1>11

\* A process that ends takes copies with it and makes none.
LEMMA StopPays ==
    ASSUME Finitely, IInv, TypeOK', NEW s \in Servers, Crash(s) \/ Exit(s),
           NEW u \in Users, NEW m \in Msgs
    PROVE  Pays(u, m)
<1>1. TypeOK /\ HandlerTypes /\ ProcessTypes /\ RedisTypes /\ inflight[m] \in Nat
  BY DEF IInv, TypeOK, ClientTypes
<1>2. Stop(s) /\ UNCHANGED <<got, offlineMessage, tries>>
  BY DEF Crash, Exit, Stop, mysql
<1>3. Terms(u, m) /\ Terms(u, m)'
  BY <1>1, TermsNow, TermsNext
<1>4. \A c \in Conns : Waiting(c) \/ (pc'[c] = "idle" /\ rows'[c] = None)
  BY <1>2 DEF Stop, Waiting
<1>5. Total(ReadBy(u, m))' <= Total(ReadBy(u, m)) + 0
  BY <1>1, <1>4, ReadStays
<1>6. Total(OwedBy(u, m))' <= Total(OwedBy(u, m)) + 0
  <2>1. \A c \in Conns : Waiting(c) \/ (Owes(c, u, m)' => Owes(c, u, m))
    BY <1>4 DEF Owes, OneChatPc, GroupPc
  <2> QED
    BY <1>1, <2>1, OwedStays
<1>7. Total(QueuedFor(u, m))' <= Total(QueuedFor(u, m)) + 0
  <2>1. \A z \in Servers : QueuedFor(u, m)'[z] <= QueuedFor(u, m)[z]
    <3> TAKE z \in Servers
    <3>1. dbQueue'[z] = dbQueue[z] \/ dbQueue'[z] = <<>>
      BY <1>1, <1>2 DEF Stop, ProcessTypes
    <3>2. CountIn(dbQueue[z], OfflineTask(u, m)) \in Nat
      BY <1>1, CountNat DEF ProcessTypes
    <3> QED
      BY <3>1, <3>2, CountEmpty DEF QueuedFor
  <2>2. Total(QueuedFor(u, m)') <= Total(QueuedFor(u, m))
    BY <1>3, <2>1, TotalLe DEF Terms, Finitely
  <2> QED
    BY <1>3, <2>2 DEF Terms
<1>8. Total(SentTo(u, m))' <= Total(SentTo(u, m)) + 0
  <2>1. \A z \in Servers : SentTo(u, m)'[z] <= SentTo(u, m)[z]
    <3> TAKE z \in Servers
    <3>1. channel'[z] = channel[z] \/ channel'[z] = <<>>
      BY <1>1, <1>2 DEF Stop, RedisTypes
    <3>2. CountIn(channel[z], <<u, m>>) \in Nat
      BY <1>1, CountNat DEF RedisTypes
    <3> QED
      BY <3>1, <3>2, CountEmpty DEF SentTo
  <2>2. Total(SentTo(u, m)') <= Total(SentTo(u, m))
    BY <1>3, <2>1, TotalLe DEF Terms, Finitely
  <2> QED
    BY <1>3, <2>2 DEF Terms
<1>9. got'[u][m] <= got[u][m] + 0 /\ offlineMessage'[u][m] <= offlineMessage[u][m] + 0
  BY <1>1, <1>2, SameRows
<1>10. inflight'[m] <= inflight[m] + 0
  BY <1>1, <1>2 DEF Stop
<1>11. Moved(u, m, 0, 0, 0, 0, 0, 0, 0)
  BY <1>5, <1>6, <1>7, <1>8, <1>9, <1>10 DEF Moved
<1> QED
  BY <1>1, <1>2, <1>11, Unmoved

-----------------------------------------------------------------------------
(* What the counting rests on stays true.                                  *)

\* No row is removed, and no login gets to the removal.
Firm ==
    /\ Queues
    /\ \A u \in Users, m \in Msgs : offlineMessage'[u][m] >= offlineMessage[u][m]
    /\ \A c \in Conns :
          /\ pc'[c] = "remove" =>
                pc[c] = "remove" /\ user'[c] = user[c] /\ rows'[c] = rows[c]
          /\ pc'[c] \in {"gpublish", "gstore"} => user'[c] \notin todo'[c]

LEMMA FirmStays ==
    ASSUME IInv, TypeOK', RowsKept, TasksWhole, Firm
    PROVE  RowsKept' /\ OneMember' /\ TasksWhole'
<1>1. TasksWhole'
  BY QueuesWhole DEF Firm, IInv
<1>2. OneMember'
  BY DEF Firm, OneMember
<1>3. ASSUME NEW c \in Conns, pc'[c] = "remove", NEW m \in Msgs
      PROVE  rows'[c][m] <= offlineMessage'[user'[c]][m]
  <2>1. pc[c] = "remove" /\ user'[c] = user[c] /\ rows'[c] = rows[c]
    BY <1>3 DEF Firm
  <2>2. rows[c][m] <= offlineMessage[user[c]][m]
    BY <2>1 DEF RowsKept
  <2>3. user[c] \in Users
    BY <2>1 DEF IInv, WorkOK, LoginPc
  <2>4. offlineMessage'[user[c]][m] >= offlineMessage[user[c]][m]
    BY <1>3, <2>3 DEF Firm
  <2>5. /\ offlineMessage[user[c]][m] \in Nat /\ rows[c][m] \in Nat
        /\ offlineMessage'[user[c]][m] \in Nat
    BY <1>3, <2>3 DEF IInv, TypeOK, MySQLTypes, HandlerTypes
  <2> QED
    BY <2>1, <2>2, <2>4, <2>5
<1> QED
  BY <1>1, <1>2, <1>3 DEF RowsKept

LEMMA RowsSame ==
    ASSUME TypeOK, offlineMessage' = offlineMessage
    PROVE  \A u \in Users, m \in Msgs : offlineMessage'[u][m] >= offlineMessage[u][m]
  BY DEF TypeOK, MySQLTypes

LEMMA LoginFirm ==
    ASSUME IInv, OneMember, NEW c \in Conns,
           \/ \E u \in Users : LoginAccept(c, u)
           \/ LoginInsert(c) \/ LoginSubscribe(c) \/ LoginSet(c) \/ LoginOnline(c) \/ LoginReply(c)
    PROVE  Firm
<1> USE DEF Firm, At, Goto, client, process, server, work, handler, redis, pubsub, mysql
<1>0. TypeOK /\ HandlerTypes /\ host[c] \in Servers /\ (dbQueue' = dbQueue => Queues)
  BY HostType DEF IInv, TypeOK, Queues
<1>1. ASSUME offlineMessage' = offlineMessage
      PROVE  \A u \in Users, m \in Msgs : offlineMessage'[u][m] >= offlineMessage[u][m]
  BY <1>0, <1>1, RowsSame
<1>2. ASSUME NEW u \in Users, LoginAccept(c, u) PROVE Firm
  BY <1>0, <1>1, <1>2 DEF LoginAccept, HandlerTypes, OneMember
<1>3. CASE LoginInsert(c) \/ LoginSubscribe(c) \/ LoginSet(c)
  BY <1>0, <1>1, <1>3 DEF LoginInsert, LoginSubscribe, LoginSet, HandlerTypes, OneMember
<1>4. CASE LoginOnline(c)
  <2>1. user[c] \in Users \cup {NoUser} /\ PushTask(host[c], StateTask(user[c], "Online"))
    BY <1>0, <1>4 DEF LoginOnline, HandlerTypes
  <2>2. Queues
    BY <1>0, <2>1, StateWhole
  <2> QED
    BY <1>0, <1>1, <1>4, <2>2 DEF LoginOnline, HandlerTypes, OneMember
<1>5. CASE LoginReply(c)
  BY <1>0, <1>1, <1>5 DEF LoginReply, HandlerTypes, OneMember
<1> QED
  BY <1>2, <1>3, <1>4, <1>5

LEMMA LeaveFirm ==
    ASSUME IInv, OneMember, NEW c \in Conns, LogoutBegin(c) \/ CloseBegin(c) \/ Leave(c)
    PROVE  Firm
<1> USE DEF Firm, At, Goto, client, process, server, work, handler, redis, pubsub, mysql
<1>0. TypeOK /\ HandlerTypes /\ host[c] \in Servers /\ (dbQueue' = dbQueue => Queues)
  BY HostType DEF IInv, TypeOK, Queues
<1>1. ASSUME offlineMessage' = offlineMessage
      PROVE  \A u \in Users, m \in Msgs : offlineMessage'[u][m] >= offlineMessage[u][m]
  BY <1>0, <1>1, RowsSame
<1>2. CASE LogoutBegin(c)
  BY <1>0, <1>1, <1>2 DEF LogoutBegin, HandlerTypes, OneMember
<1>3. CASE CloseBegin(c)
  BY <1>0, <1>1, <1>3 DEF CloseBegin, HandlerTypes, OneMember
<1>4. CASE LeaveUnsubscribe(c) \/ LeaveDelete(c)
  BY <1>0, <1>1, <1>4 DEF LeaveUnsubscribe, LeaveDelete, HandlerTypes, OneMember
<1>5. CASE LeaveOffline(c)
  <2>1. user[c] \in Users \cup {NoUser} /\ PushTask(host[c], StateTask(user[c], "Offline"))
    BY <1>0, <1>5 DEF LeaveOffline, MarkOffline, HandlerTypes
  <2>2. Queues
    BY <1>0, <2>1, StateWhole
  <2> QED
    BY <1>0, <1>1, <1>5, <2>2 DEF LeaveOffline, HandlerTypes, OneMember
<1> QED
  BY <1>2, <1>3, <1>4, <1>5 DEF Leave

LEMMA ChatFirm ==
    ASSUME IInv, OneMember, NEW c \in Conns, OneChat(c) \/ GroupChat(c)
    PROVE  Firm
<1> USE DEF Firm, At, Goto, client, process, server, work, handler, redis, pubsub, mysql
<1>0. TypeOK /\ HandlerTypes /\ host[c] \in Servers /\ (dbQueue' = dbQueue => Queues)
  BY HostType DEF IInv, TypeOK, Queues
<1>1. ASSUME offlineMessage' = offlineMessage
      PROVE  \A u \in Users, m \in Msgs : offlineMessage'[u][m] >= offlineMessage[u][m]
  BY <1>0, <1>1, RowsSame
<1>2. ASSUME NEW m \in Msgs, ChatBegin(c, m) PROVE Firm
  BY <1>0, <1>1, <1>2 DEF ChatBegin, Take, HandlerTypes, OneMember
<1>3. ASSUME NEW m \in Msgs, GroupBegin(c, m) PROVE Firm
  BY <1>0, <1>1, <1>3 DEF GroupBegin, Take, HandlerTypes, OneMember
<1>4. CASE ChatGet(c) \/ ChatState(c)
  BY <1>0, <1>1, <1>4 DEF ChatGet, ChatState, HandlerTypes, OneMember
<1>5. CASE ChatPublish(c)
  BY <1>0, <1>1, <1>5 DEF ChatPublish, Finish, HandlerTypes, OneMember
<1>6. CASE ChatStore(c) \/ GroupStore(c)
  <2>1. user[c] \in Users \cup {NoUser} /\ msg[c] \in Msgs
    BY <1>0, <1>6, ChatAssumption DEF ChatStore, GroupStore, IInv, WorkOK, OneChatPc, GroupPc,
       HandlerTypes
  <2>2. PushTask(host[c], OfflineTask(user[c], msg[c]))
    BY <1>6 DEF ChatStore, GroupStore, KeepOffline
  <2>3. Queues
    BY <1>0, <2>1, <2>2, OfflineWhole
  <2> QED
    BY <1>0, <1>1, <1>6, <2>3 DEF ChatStore, GroupStore, Finish, NextMember, HandlerTypes, OneMember
<1>7. CASE GroupLock(c) \/ GroupEnd(c)
  BY <1>0, <1>1, <1>7 DEF GroupLock, GroupEnd, Finish, HandlerTypes, OneMember
<1>8. CASE GroupMember(c)
  BY <1>0, <1>1, <1>8 DEF GroupMember, HandlerTypes, OneMember
<1>9. CASE GroupPublish(c)
  BY <1>0, <1>1, <1>9 DEF GroupPublish, NextMember, HandlerTypes, OneMember
<1> QED
  BY <1>2, <1>3, <1>4, <1>5, <1>6, <1>7, <1>8, <1>9 DEF OneChat, GroupChat

LEMMA ClientFirm ==
    ASSUME IInv, OneMember,
           \/ \E c \in Conns : Connect(c) \/ ClientExit(c) \/ \E m \in Msgs : Send(c, m)
           \/ \E m \in Msgs : Resend(m)
           \/ \E s \in Servers : RedisSubscriber(s) \/ ResetState(s) \/ Restart(s)
           \/ \E u \in Users : KeyExpire(u)
           \/ UNCHANGED vars
    PROVE  Firm
<1>0. TypeOK
  BY DEF IInv
<1>1. UNCHANGED <<offlineMessage, dbQueue, pc, user, todo, rows>>
  BY DEF Connect, ClientExit, Send, Resend, RedisSubscriber, ResetState, Restart, KeyExpire, vars,
     process, handler, work, mysql
<1>2. \A u \in Users, m \in Msgs : offlineMessage'[u][m] >= offlineMessage[u][m]
  BY <1>0, <1>1, RowsSame
<1> QED
  BY <1>1, <1>2 DEF Firm, Queues, OneMember

LEMMA ServerFirm ==
    ASSUME IInv, OneMember, NEW s \in Servers, Worker(s) \/ Observe(s) \/ Crash(s) \/ Exit(s)
    PROVE  Firm
<1>0. TypeOK /\ ProcessTypes /\ HandlerTypes /\ offlineMessage \in [Users -> [Msgs -> Nat]]
  BY DEF IInv, TypeOK, MySQLTypes
<1>1. ASSUME offlineMessage' = offlineMessage
      PROVE  \A u \in Users, m \in Msgs : offlineMessage'[u][m] >= offlineMessage[u][m]
  BY <1>0, <1>1, RowsSame
<1>2. ASSUME NEW w, NEW n, offlineMessage' = [offlineMessage EXCEPT ![w][n] = @ + 1]
      PROVE  \A u \in Users, m \in Msgs : offlineMessage'[u][m] >= offlineMessage[u][m]
  <2> TAKE u \in Users, m \in Msgs
  <2>1. offlineMessage[u][m] \in Nat
    BY <1>0
  <2>2. \/ offlineMessage'[u][m] = offlineMessage[u][m]
        \/ offlineMessage'[u][m] = offlineMessage[u][m] + 1
    BY <1>0, <1>2
  <2> QED
    BY <2>1, <2>2
<1>3. CASE Worker(s)
  <2>1. /\ UNCHANGED <<pc, user, todo, rows>>
        /\ dbQueue[s] # <<>> /\ dbQueue' = [dbQueue EXCEPT ![s] = Tail(@)]
        /\ \/ offlineMessage' = offlineMessage
           \/ \E w, n : offlineMessage' = [offlineMessage EXCEPT ![w][n] = @ + 1]
    BY <1>3 DEF Worker, Apply, handler, work, mysql
  <2> QED
    BY <1>1, <1>2, <2>1 DEF Firm, Queues, OneMember
<1>4. CASE Observe(s)
  <2>1. /\ UNCHANGED <<dbQueue, pc, user, todo, rows>>
        /\ \/ offlineMessage' = offlineMessage
           \/ \E w, n : offlineMessage' = [offlineMessage EXCEPT ![w][n] = @ + 1]
    BY <1>4 DEF Observe, process, handler, work, mysql
  <2> QED
    BY <1>1, <1>2, <2>1 DEF Firm, Queues, OneMember
<1>5. CASE Crash(s) \/ Exit(s)
  <2>1. Stop(s) /\ offlineMessage' = offlineMessage
    BY <1>5 DEF Crash, Exit, mysql
  <2>2. dbQueue' = [dbQueue EXCEPT ![s] = <<>>]
    BY <2>1 DEF Stop
  <2>3. \A c \in Conns : \/ pc'[c] = "idle"
                         \/ /\ pc'[c] = pc[c] /\ user'[c] = user[c] /\ todo'[c] = todo[c]
                            /\ rows'[c] = rows[c]
    BY <2>1 DEF Stop
  <2> QED
    BY <1>1, <2>1, <2>2, <2>3 DEF Firm, Queues, OneMember
<1> QED
  BY <1>3, <1>4, <1>5

\* A login reads the rows of its account.
LEMMA QueryStays ==
    ASSUME IInv, RowsKept, OneMember, TasksWhole, NEW c \in Conns, LoginQuery(c)
    PROVE  RowsKept' /\ OneMember' /\ TasksWhole'
<1>1. TypeOK /\ HandlerTypes /\ user[c] \in Users
  BY DEF IInv, TypeOK, LoginQuery, At, WorkOK, LoginPc
<1>2. /\ UNCHANGED <<offlineMessage, dbQueue, user, todo>>
      /\ \A d \in Conns \ {c} : pc'[d] = pc[d] /\ rows'[d] = rows[d]
      /\ pc'[c] \in {"reply", "remove"}
      /\ pc'[c] = "remove" => rows'[c] = offlineMessage[user[c]]
  BY <1>1 DEF LoginQuery, mysql, process, Goto, HandlerTypes
<1>3. offlineMessage[user[c]] \in [Msgs -> Nat]
  BY <1>1 DEF TypeOK, MySQLTypes
<1>4. RowsKept'
  BY <1>2, <1>3 DEF RowsKept
<1> QED
  BY <1>2, <1>4 DEF OneMember, TasksWhole, Whole

\* No other login of the account has read them too.
LEMMA RemoveStays ==
    ASSUME IInv, SessionInv, RowsKept, OneMember, TasksWhole, NEW c \in Conns, LoginRemove(c)
    PROVE  RowsKept' /\ OneMember' /\ TasksWhole'
<1>1. TypeOK /\ HandlerTypes /\ offlineMessage \in [Users -> [Msgs -> Nat]]
      /\ pc[c] = "remove" /\ user[c] \in Users /\ account[c] = user[c]
  BY DEF IInv, TypeOK, MySQLTypes, LoginRemove, At, WorkOK, LoginPc
<1>2. /\ UNCHANGED <<dbQueue, user, todo, rows>>
      /\ \A d \in Conns \ {c} : pc'[d] = pc[d]
      /\ pc'[c] = "reply"
      /\ \A u \in Users \ {user[c]} : offlineMessage'[u] = offlineMessage[u]
  BY <1>1 DEF LoginRemove, process, work, Goto, HandlerTypes
<1>3. ASSUME NEW d \in Conns \ {c}, pc[d] = "remove"
      PROVE  user[d] \in Users \ {user[c]}
  <2>1. user[d] \in Users /\ account[d] = user[d]
    BY <1>3 DEF IInv, WorkOK, LoginPc
  <2> QED
    BY <1>1, <1>3, <2>1 DEF SessionInv, OneBusy, Busy
<1>4. RowsKept'
  BY <1>2, <1>3 DEF RowsKept
<1> QED
  BY <1>2, <1>4 DEF OneMember, TasksWhole, Whole

LEMMA NextStays ==
    ASSUME IInv, IInv', SessionInv, RowsKept, OneMember, TasksWhole, [Next]_vars
    PROVE  RowsKept' /\ OneMember' /\ TasksWhole'
<1>1. CASE Firm
  <2>1. TypeOK'
    BY DEF IInv
  <2> QED
    BY <1>1, <2>1, FirmStays
<1>2. ASSUME NEW c \in Conns, Handler(c) PROVE RowsKept' /\ OneMember' /\ TasksWhole'
  BY <1>1, <1>2, LoginFirm, LeaveFirm, ChatFirm, QueryStays, RemoveStays DEF Handler, Login
<1>3. ASSUME NEW c \in Conns, NEW u \in Users, LoginAccept(c, u) PROVE Firm
  BY <1>3, LoginFirm
<1>4. ASSUME NEW c \in Conns, LogoutBegin(c) PROVE Firm
  BY <1>4, LeaveFirm
<1>5. ASSUME NEW s \in Servers,
             Background(s) \/ Crash(s) \/ ResetState(s) \/ Exit(s) \/ Restart(s)
      PROVE  Firm
  BY <1>5, ServerFirm, ClientFirm DEF Background
<1>6. ASSUME \/ \E c \in Conns : Connect(c) \/ ClientExit(c) \/ \E m \in Msgs : Send(c, m)
             \/ \E m \in Msgs : Resend(m)
             \/ \E u \in Users : KeyExpire(u)
             \/ UNCHANGED vars
      PROVE  Firm
  BY <1>6, ClientFirm
<1> QED
  BY <1>1, <1>2, <1>3, <1>4, <1>5, <1>6 DEF Next

LEMMA NextPays ==
    ASSUME Finitely, MaxFaults = 0, IInv, IInv', RowsKept, OneMember, TasksWhole, [Next]_vars,
           NEW u \in Users, NEW m \in Msgs
    PROVE  Pays(u, m)
<1>1. TypeOK /\ TypeOK'
  BY DEF IInv
<1>2. CASE Calm
  BY <1>1, <1>2, CalmPays
<1>3. ASSUME NEW c \in Conns, Login(c) PROVE Pays(u, m)
  BY <1>1, <1>2, <1>3, CalmLogin, RemovePays, ReplyPays DEF Login
<1>4. ASSUME NEW c \in Conns, OneChat(c) PROVE Pays(u, m)
  BY <1>1, <1>2, <1>4, CalmChat, ChatBeginPays, PublishPays, StorePays DEF OneChat
<1>5. ASSUME NEW c \in Conns, GroupChat(c) PROVE Pays(u, m)
  BY <1>1, <1>2, <1>5, CalmChat, GroupBeginPays, GroupMemberPays, PublishPays, StorePays
     DEF GroupChat
<1>6. ASSUME NEW c \in Conns, Handler(c) PROVE Pays(u, m)
  BY <1>2, <1>3, <1>4, <1>5, <1>6, CalmLeave DEF Handler
<1>7. ASSUME NEW c \in Conns, NEW v \in Users, LoginAccept(c, v) PROVE Calm
  BY <1>7, CalmLogin
<1>8. ASSUME NEW c \in Conns, LogoutBegin(c) PROVE Calm
  BY <1>8, CalmLeave
<1>9. ASSUME NEW s \in Servers,
             Background(s) \/ Crash(s) \/ ResetState(s) \/ Exit(s) \/ Restart(s)
      PROVE  Pays(u, m)
  BY <1>1, <1>2, <1>9, WorkerPays, ObservePays, StopPays, CalmOthers DEF Background
<1>10. ASSUME NEW n \in Msgs, Resend(n) \/ \E c \in Conns : Send(c, n) PROVE Pays(u, m)
  BY <1>1, <1>10, SendPays
<1>11. ASSUME \/ \E c \in Conns : Connect(c) \/ ClientExit(c)
              \/ \E v \in Users : KeyExpire(v)
              \/ UNCHANGED vars
       PROVE  Calm
  BY <1>11, CalmOthers
<1> QED
  BY <1>2, <1>6, <1>7, <1>8, <1>9, <1>10, <1>11 DEF Next

LEMMA NextCount ==
    ASSUME Finitely, MaxFaults = 0, IInv, IInv', SessionInv, CountInv, [Next]_vars
    PROVE  CountInv'
<1>1. RowsKept' /\ OneMember' /\ TasksWhole'
  BY NextStays DEF CountInv
<1>2. ASSUME NEW u \in Users, NEW m \in Msgs PROVE Bounded(u, m)'
  <2>1. Pays(u, m) /\ Bounded(u, m) /\ TypeOK /\ TypeOK'
    BY NextPays DEF CountInv, IInv
  <2> QED
    BY <2>1, PaidBound
<1> QED
  BY <1>1, <1>2 DEF CountInv

LEMMA InitCount ==
    ASSUME Finitely, Init
    PROVE  CountInv
<1>1. TypeOK
  BY InitIInv DEF IInv
<1>2. RowsKept /\ OneMember /\ TasksWhole
  BY DEF Init, RowsKept, OneMember, TasksWhole
<1>3. ASSUME NEW u \in Users, NEW m \in Msgs PROVE Bounded(u, m)
  <2>1. Terms(u, m)
    BY <1>1, TermsNow
  <2>2. /\ \A c \in Conns : ReadBy(u, m)[c] = 0 /\ OwedBy(u, m)[c] = 0
        /\ \A s \in Servers : QueuedFor(u, m)[s] = 0 /\ SentTo(u, m)[s] = 0
    BY CountEmpty DEF Init, ReadBy, OwedBy, Owes, OneChatPc, GroupPc, QueuedFor, SentTo
  <2>3. /\ Total(ReadBy(u, m)) = 0 /\ Total(OwedBy(u, m)) = 0
        /\ Total(QueuedFor(u, m)) = 0 /\ Total(SentTo(u, m)) = 0
    BY <2>1, <2>2, TotalZero DEF Terms, Finitely
  <2>4. got[u][m] = 0 /\ offlineMessage[u][m] = 0 /\ inflight[m] = 0 /\ tries[m] = 0
    BY DEF Init, None
  <2>5. Copies(u, m) = 0 /\ Due(u, m) = 0
    BY <2>3, <2>4 DEF Copies, Due
  <2>6. Fanout \in Nat
    BY FS_CardinalityType DEF Fanout, Finitely
  <2> QED
    BY <2>4, <2>5, <2>6 DEF Bounded
<1> QED
  BY <1>2, <1>3 DEF CountInv

(* No amplification: whatever was resent, wherever its addressees were     *)
(* looked for, and whichever process stopped, a message leaves at most one *)
(* copy per addressee, server and sending behind.  It takes accounts that  *)
(* are used by one client at a time, and a table that answers: two logins  *)
(* that read the same rows, or one that fails to remove them, deliver them *)
(* twice.                                                                  *)
THEOREM AmplificationCorrect ==
    Careful /\ Finitely /\ MaxFaults = 0 /\ Spec => []NoAmplification
<1> SUFFICES ASSUME Careful, Finitely, MaxFaults = 0 PROVE Spec => []NoAmplification
  OBVIOUS
<1>1. IInv /\ CountInv => NoAmplification
  <2> SUFFICES ASSUME IInv, CountInv, NEW u \in Users, NEW m \in Msgs
               PROVE  Copies(u, m) <= tries[m] * Cardinality(Servers)
    BY DEF NoAmplification
  <2>1. Copies(u, m) + Fanout * Due(u, m) <= Fanout * tries[m]
    BY DEF CountInv, Bounded
  <2>2. Terms(u, m)
    BY TermsNow DEF IInv
  <2>3. Fanout \in Nat /\ Fanout = Cardinality(Servers)
    BY FS_CardinalityType DEF Fanout, Finitely
  <2> DEFINE a == Copies(u, m)
             b == Due(u, m)
             n == Fanout
             t == tries[m]
  <2>4. a \in Nat /\ b \in Nat /\ t \in Nat /\ n \in Nat /\ a + n * b <= n * t
    BY <2>1, <2>2, <2>3 DEF Terms
  <2> SUFFICES a <= t * n
    BY <2>3
  <2> HIDE DEF a, b, n, t
  <2>5. n * b \in Nat /\ n * t = t * n /\ n * t \in Nat
    BY ONLY <2>4
  <2> QED
    BY ONLY <2>4, <2>5
<1>2. IInv /\ SessionInv /\ [Next]_vars => IInv' /\ SessionInv'
  BY NextStep, NextSession
<1>3. IInv /\ IInv' /\ SessionInv /\ CountInv /\ [Next]_vars => CountInv'
  BY NextCount
<1>4. Init => IInv /\ SessionInv /\ CountInv
  BY InitIInv, InitSession, InitCount
<1> QED
  BY <1>1, <1>2, <1>3, <1>4, PTL DEF Spec
=============================================================================
