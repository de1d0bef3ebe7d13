------------------------------ MODULE WireProofs ------------------------------
(***************************************************************************)
(* What is proved of the frames on one connection, for every choice of     *)
(* requests, answers, threads' frames and sizes: what reaches a handler    *)
(* and the client, and what ends the two processes.                        *)
(***************************************************************************)
EXTENDS Wire, SequenceTheorems, WellFoundedInduction, TLAPS

\* A set of numbers has a least element.
LEMMA NatMin ==
    ASSUME NEW S \in SUBSET Nat, S # {}
    PROVE  \E x \in S : \A y \in S : x <= y
<1> DEFINE R == OpToRel(<, Nat)
<1>1. \A x, y \in Nat : y < x => <<y, x>> \in R
  BY DEF OpToRel
<1>2. IsWellFoundedOn(R, Nat)
  BY NatLessThanWellFounded
<1> HIDE DEF R
<1>3. PICK x \in S : \A y \in S : ~(<<y, x>> \in R)
  BY <1>2, WFMin
<1>4. \A y \in S : ~(y < x)
  BY <1>1, <1>3
<1> QED
  BY <1>4

\* Induction, for a set of numbers.
LEMMA NatAll ==
    ASSUME NEW n \in Nat, NEW S, 0 \in S, \A k \in Nat : k < n /\ k \in S => k + 1 \in S
    PROVE  0..n \subseteq S
<1> DEFINE B == {k \in 0..n : k \notin S}
<1>1. SUFFICES ASSUME B # {} PROVE FALSE
  OBVIOUS
<1>2. B \in SUBSET Nat
  OBVIOUS
<1> HIDE DEF B
<1>3. PICK x \in B : \A y \in B : x <= y
  BY <1>1, <1>2, NatMin
<1>4. x \in Nat \ {0} /\ x <= n /\ x \notin S /\ x - 1 \in Nat /\ x - 1 < n /\ (x - 1) + 1 = x
  BY <1>3 DEF B
<1>5. x - 1 \in S
  BY <1>3, <1>4 DEF B
<1> QED
  BY <1>4, <1>5

-----------------------------------------------------------------------------
(* Order.                                                                  *)

\* s takes its elements from the first c of t, each once and in order.
Within(s, t, c) ==
    \E at \in [1..Len(s) -> 1..c] :
        \A i \in 1..Len(s) : s[i] = t[at[i]] /\ \A j \in 1..(i - 1) : at[j] < at[i]

\* The places of q with the a-th unit of a frame.
Marks(q, a) == {j \in 1..Len(q) : q[j].at = a}

\* These are, in order, those of the elements of t behind the first c.
Matches(q, a, t, c) ==
    \E p \in [(c + 1)..Len(t) -> Nat] :
        /\ \A k \in (c + 1)..Len(t) : p[k] \in Marks(q, a) /\ q[p[k]].of = t[k]
        /\ \A k, l \in (c + 1)..Len(t) : k < l => p[k] < p[l]
        /\ \A j \in Marks(q, a) : \E k \in (c + 1)..Len(t) : p[k] = j

LEMMA WithinEmpty == \A t : Within(<<>>, t, 0)
<1>1. Len(<<>>) = 0 /\ 1..0 = {}
  OBVIOUS
<1>2. [i \in {} |-> 0] \in [{} -> {}]
  OBVIOUS
<1>3. \A t : Within(<<>>, t, 0) <=> \E at \in [{} -> {}] : TRUE
  BY <1>1 DEF Within
<1> QED
  BY <1>2, <1>3

LEMMA WithinOrder ==
    ASSUME NEW S, NEW T, NEW s \in Seq(S), NEW t \in Seq(T), NEW c \in 0..Len(t), Within(s, t, c)
    PROVE  InOrder(s, t)
<1>1. DOMAIN s = 1..Len(s) /\ DOMAIN t = 1..Len(t) /\ Len(t) \in Nat
  BY LenProperties
<1>2. PICK at \in [1..Len(s) -> 1..c] :
          \A i \in 1..Len(s) : s[i] = t[at[i]] /\ \A j \in 1..(i - 1) : at[j] < at[i]
  BY DEF Within
<1>3. at \in [DOMAIN s -> DOMAIN t]
  BY <1>1, <1>2
<1> QED
  BY <1>1, <1>2, <1>3 DEF InOrder

\* More may be taken from, and more may be there.
LEMMA WithinMore ==
    ASSUME NEW S, NEW T, NEW s \in Seq(S), NEW t \in Seq(T), NEW c \in 0..Len(t), Within(s, t, c)
    PROVE  /\ \A d \in c..Len(t) : Within(s, t, d)
           /\ \A x \in T : Within(s, Append(t, x), c)
<1>1. Len(t) \in Nat /\ Len(s) \in Nat
  BY LenProperties
<1>2. PICK at \in [1..Len(s) -> 1..c] :
          \A i \in 1..Len(s) : s[i] = t[at[i]] /\ \A j \in 1..(i - 1) : at[j] < at[i]
  BY DEF Within
<1>3. ASSUME NEW d \in c..Len(t) PROVE Within(s, t, d)
  <2>1. at \in [1..Len(s) -> 1..d]
    BY <1>1, <1>2
  <2> QED
    BY <1>2, <2>1 DEF Within
<1>4. ASSUME NEW x \in T PROVE Within(s, Append(t, x), c)
  <2>1. \A k \in 1..c : Append(t, x)[k] = t[k]
    BY <1>1, AppendProperties
  <2> QED
    BY <1>2, <2>1 DEF Within
<1> QED
  BY <1>3, <1>4

\* One more is taken, from behind those taken so far.
LEMMA WithinAppend ==
    ASSUME NEW S, NEW T, NEW s \in Seq(S), NEW t \in Seq(T), NEW c \in 0..Len(t),
           NEW d \in c..Len(t), NEW k \in (c + 1)..d, NEW x \in S, x = t[k], Within(s, t, c)
    PROVE  Within(Append(s, x), t, d)
<1>1. Len(t) \in Nat /\ Len(s) \in Nat
  BY LenProperties
<1>2. PICK at \in [1..Len(s) -> 1..c] :
          \A i \in 1..Len(s) : s[i] = t[at[i]] /\ \A j \in 1..(i - 1) : at[j] < at[i]
  BY DEF Within
<1> DEFINE n == Len(s)
           new == [i \in 1..(n + 1) |-> IF i = n + 1 THEN k ELSE at[i]]
<1>3. /\ Len(Append(s, x)) = n + 1 /\ Append(s, x)[n + 1] = x
      /\ \A i \in 1..n : Append(s, x)[i] = s[i]
  BY AppendProperties
<1>4. new[n + 1] = k /\ \A i \in 1..n : new[i] = at[i] /\ at[i] \in 1..c
  BY <1>1, <1>2
<1>5. new \in [1..(n + 1) -> 1..d]
  BY <1>1, <1>2
<1> HIDE DEF new
<1>6. ASSUME NEW i \in 1..(n + 1)
      PROVE  Append(s, x)[i] = t[new[i]] /\ \A j \in 1..(i - 1) : new[j] < new[i]
  <2>1. CASE i = n + 1
    BY <1>1, <1>3, <1>4, <2>1
  <2>2. CASE i \in 1..n
    BY <1>1, <1>2, <1>3, <1>4, <2>2
  <2> QED
    BY <1>1, <2>1, <2>2
<1> QED
  BY <1>3, <1>5, <1>6 DEF Within

-----------------------------------------------------------------------------
LEMMA MatchesEmpty == \A a : Matches(<<>>, a, <<>>, 0)
<1>1. [k \in 1..0 |-> 0] \in [(0 + 1)..Len(<<>>) -> Nat] /\ Len(<<>>) = 0
  OBVIOUS
<1>2. (0 + 1)..Len(<<>>) = {}
  OBVIOUS
<1>3. \A a : Marks(<<>>, a) = {}
  BY DEF Marks
<1> QED
  BY <1>1, <1>2, <1>3 DEF Matches

\* Nothing is under way: everything is behind.
LEMMA MatchesGone ==
    ASSUME NEW T, NEW t \in Seq(T), NEW a
    PROVE  Matches(<<>>, a, t, Len(t))
<1>1. Len(t) \in Nat /\ (Len(t) + 1)..Len(t) = {}
  BY LenProperties
<1>2. [k \in (Len(t) + 1)..Len(t) |-> 0] \in [(Len(t) + 1)..Len(t) -> Nat]
  OBVIOUS
<1>3. Marks(<<>>, a) = {}
  BY DEF Marks
<1> QED
  BY <1>1, <1>2, <1>3 DEF Matches

\* Units arrive without the mark, or with one.
LEMMA MatchesJoin ==
    ASSUME NEW S, NEW T, NEW q \in Seq(S), NEW w \in Seq(S), NEW t \in Seq(T), NEW a,
           NEW c \in 0..Len(t), Matches(q, a, t, c)
    PROVE  /\ Marks(w, a) = {} => Matches(q \o w, a, t, c)
           /\ \A j \in Marks(w, a), x \in T :
                  Marks(w, a) = {j} /\ w[j].of = x => Matches(q \o w, a, Append(t, x), c)
<1> DEFINE r == q \o w
           n == Len(q)
<1>1. /\ n \in Nat /\ Len(w) \in Nat /\ Len(t) \in Nat /\ Len(r) = n + Len(w)
      /\ \A i \in 1..n : r[i] = q[i]
      /\ \A i \in (n + 1)..(n + Len(w)) : r[i] = w[i - n]
  BY LenProperties, ConcatProperties
<1>2. PICK p \in [(c + 1)..Len(t) -> Nat] :
        /\ \A k \in (c + 1)..Len(t) : p[k] \in Marks(q, a) /\ q[p[k]].of = t[k]
        /\ \A k, l \in (c + 1)..Len(t) : k < l => p[k] < p[l]
        /\ \A j \in Marks(q, a) : \E k \in (c + 1)..Len(t) : p[k] = j
  BY DEF Matches
<1> HIDE DEF r
<1>3. \A j \in Marks(q, a) : j \in 1..n /\ j \in Marks(r, a) /\ r[j] = q[j]
  BY <1>1 DEF Marks
<1>4. \A i \in Marks(r, a) : i \in Marks(q, a) \/ (i > n /\ i - n \in Marks(w, a) /\ i \in Nat)
  BY <1>1 DEF Marks
<1>5. \A j \in Marks(w, a) : n + j \in Marks(r, a) /\ r[n + j] = w[j] /\ j \in 1..Len(w)
  <2> TAKE j \in Marks(w, a)
  <2>1. j \in 1..Len(w) /\ w[j].at = a
    BY DEF Marks
  <2>2. n + j \in (n + 1)..(n + Len(w)) /\ (n + j) - n = j
    BY <1>1, <2>1
  <2>3. r[n + j] = w[(n + j) - n] /\ n + j \in 1..Len(r)
    BY <1>1, <2>2
  <2> QED
    BY <2>1, <2>2, <2>3 DEF Marks
<1>6. ASSUME Marks(w, a) = {} PROVE Matches(r, a, t, c)
  <2>1. \A k \in (c + 1)..Len(t) : p[k] \in Marks(r, a) /\ r[p[k]].of = t[k]
    BY <1>2, <1>3
  <2>2. \A j \in Marks(r, a) : \E k \in (c + 1)..Len(t) : p[k] = j
    BY <1>2, <1>4, <1>6
  <2> QED
    BY <1>2, <2>1, <2>2 DEF Matches
<1>7. ASSUME NEW j \in Marks(w, a), NEW x \in T, Marks(w, a) = {j}, w[j].of = x
      PROVE  Matches(r, a, Append(t, x), c)
  <2> DEFINE u == Append(t, x)
             m == Len(t)
             new == [k \in (c + 1)..(m + 1) |-> IF k = m + 1 THEN n + j ELSE p[k]]
  <2>1. Len(u) = m + 1 /\ u[m + 1] = x /\ \A k \in 1..m : u[k] = t[k]
    BY AppendProperties
  <2>2. /\ new[m + 1] = n + j /\ \A k \in (c + 1)..m : new[k] = p[k]
        /\ n + j \in Nat /\ m \in Nat /\ c \in 0..m /\ new \in [(c + 1)..(m + 1) -> Nat]
    BY <1>1, <1>2, <1>5
  <2> HIDE DEF u, new
  <2>3. ASSUME NEW k \in (c + 1)..(m + 1)
        PROVE  /\ new[k] \in Marks(r, a) /\ r[new[k]].of = u[k]
               /\ \A l \in (c + 1)..(m + 1) : k < l => new[k] < new[l]
    <3>1. CASE k = m + 1
      <4>1. r[n + j].of = x
        BY <1>5, <1>7
      <4> QED
        BY <1>5, <2>1, <2>2, <3>1, <4>1
    <3>2. CASE k \in (c + 1)..m
      <4>1. p[k] \in Marks(q, a) /\ q[p[k]].of = t[k] /\ p[k] \in 1..n
        BY <1>2, <1>3, <3>2
      <4>2. ASSUME NEW l \in (c + 1)..(m + 1), k < l PROVE new[k] < new[l]
        <5>1. CASE l = m + 1
          <6>1. j \in 1..Len(w)
            BY <1>5
          <6> QED
            BY <1>1, <2>2, <3>2, <4>1, <5>1, <6>1
        <5>2. CASE l \in (c + 1)..m
          BY <1>2, <2>2, <3>2, <4>2, <5>2
        <5> QED
          BY <2>2, <5>1, <5>2
      <4> QED
        BY <1>3, <2>1, <2>2, <3>2, <4>1, <4>2
    <3> QED
      BY <2>2, <3>1, <3>2
  <2>4. ASSUME NEW i \in Marks(r, a) PROVE \E k \in (c + 1)..(m + 1) : new[k] = i
    <3>1. CASE i \in Marks(q, a)
      BY <1>2, <2>2, <3>1
    <3>2. CASE i > n /\ i - n \in Marks(w, a) /\ i \in Nat
      <4>1. i - n = j
        BY <1>7, <3>2
      <4>2. i = n + j
        BY <1>1, <3>2, <4>1
      <4> QED
        BY <2>2, <4>2
    <3> QED
      BY <1>4, <3>1, <3>2
  <2>5. Matches(r, a, u, c)
    <3>1. /\ new \in [(c + 1)..Len(u) -> Nat]
          /\ \A k \in (c + 1)..Len(u) : new[k] \in Marks(r, a) /\ r[new[k]].of = u[k]
          /\ \A k, l \in (c + 1)..Len(u) : k < l => new[k] < new[l]
          /\ \A i \in Marks(r, a) : \E k \in (c + 1)..Len(u) : new[k] = i
      BY <2>1, <2>2, <2>3, <2>4
    <3> QED
      BY <3>1, Zenon DEF Matches
  <2> QED
    BY <2>5 DEF u
<1> QED
  BY <1>6, <1>7 DEF r

\* The first n of q hold the marks of the elements of t from c + 1 to d.
CutAt(q, a, t, c, n, d) ==
    /\ Matches(From(q, n), a, t, d)
    /\ \A j \in Marks(q, a) : j <= n => \E k \in (c + 1)..d : t[k] = q[j].of
    /\ \A k \in (c + 1)..d : \E j \in Marks(q, a) : j <= n /\ t[k] = q[j].of
    /\ \A j \in Marks(q, a) : (j <= n /\ \A i \in Marks(q, a) : i <= n => i = j)
           => d = c + 1 /\ t[c + 1] = q[j].of

\* What is in front is taken away.
LEMMA MatchesCut ==
    ASSUME NEW S, NEW T, NEW q \in Seq(S), NEW t \in Seq(T), NEW a, NEW c \in 0..Len(t),
           Matches(q, a, t, c), NEW n \in 0..Len(q)
    PROVE  \E d \in c..Len(t) : CutAt(q, a, t, c, n, d)
<1> DEFINE r == From(q, n)
           m == Len(t)
<1>1. /\ m \in Nat /\ Len(q) \in Nat /\ Len(r) = Len(q) - n
      /\ \A i \in 1..(Len(q) - n) : r[i] = q[n + i]
  BY LenProperties, SubSeqProperties DEF From
<1>2. PICK p \in [(c + 1)..m -> Nat] :
        /\ \A k \in (c + 1)..m : p[k] \in Marks(q, a) /\ q[p[k]].of = t[k]
        /\ \A k, l \in (c + 1)..m : k < l => p[k] < p[l]
        /\ \A j \in Marks(q, a) : \E k \in (c + 1)..m : p[k] = j
  BY DEF Matches
<1>3. PICK d \in c..m : /\ \A k \in (c + 1)..d : p[k] <= n
                        /\ \A k \in (d + 1)..m : p[k] > n
  <2> DEFINE K == {k \in (c + 1)..m : p[k] > n}
  <2>1. CASE K = {}
    <3>1. ASSUME NEW k \in (c + 1)..m PROVE p[k] <= n
      <4>1. k \notin K /\ p[k] \in Nat
        BY <1>2, <2>1
      <4>2. ~(p[k] > n)
        BY <4>1
      <4> QED
        BY <1>1, <4>1, <4>2
    <3>2. m \in c..m /\ (m + 1)..m = {}
      BY <1>1
    <3> QED
      BY <3>1, <3>2
  <2>2. CASE K # {}
    <3>1. K \in SUBSET Nat
      BY <1>1
    <3> HIDE DEF K
    <3>2. PICK x \in K : \A y \in K : x <= y
      BY <2>2, <3>1, NatMin
    <3>3. x \in (c + 1)..m /\ p[x] > n /\ \A k \in (c + 1)..m : p[k] > n => x <= k
      BY <3>2 DEF K
    <3>4. x - 1 \in c..m
      BY <1>1, <3>3
    <3>5. \A k \in (c + 1)..(x - 1) : p[k] <= n
      BY <1>1, <1>2, <3>3
    <3>6. \A k \in ((x - 1) + 1)..m : p[k] > n
      <4> TAKE k \in ((x - 1) + 1)..m
      <4>1. k = x \/ (x < k /\ k \in (c + 1)..m)
        BY <1>1, <3>3
      <4>2. k \in (c + 1)..m /\ p[k] \in Nat /\ p[x] \in Nat
        BY <1>1, <1>2, <3>3, <4>1
      <4>3. k = x \/ p[x] < p[k]
        BY <1>2, <3>3, <4>1, <4>2
      <4> QED
        BY <3>3, <4>2, <4>3
    <3> QED
      BY <3>4, <3>5, <3>6
  <2> QED
    BY <2>1, <2>2
<1>4. \A j \in Marks(q, a) : j \in 1..Len(q) /\ q[j].at = a
  BY DEF Marks
<1> HIDE DEF r
<1>5. Matches(r, a, t, d)
  <2> DEFINE new == [k \in (d + 1)..m |-> p[k] - n]
  <2>1. \A k \in (d + 1)..m : /\ k \in (c + 1)..m /\ new[k] = p[k] - n
                              /\ p[k] \in 1..Len(q) /\ p[k] > n /\ q[p[k]].at = a
    BY <1>1, <1>2, <1>3, <1>4
  <2>2. new \in [(d + 1)..m -> Nat]
    BY <1>1, <2>1
  <2> HIDE DEF new
  <2>3. ASSUME NEW k \in (d + 1)..m PROVE new[k] \in Marks(r, a) /\ r[new[k]].of = t[k]
    <3>1. new[k] \in 1..(Len(q) - n) /\ n + new[k] = p[k]
      BY <1>1, <2>1
    <3>2. r[new[k]] = q[p[k]]
      BY <1>1, <3>1
    <3> QED
      BY <1>1, <1>2, <2>1, <3>1, <3>2 DEF Marks
  <2>4. ASSUME NEW k \in (d + 1)..m, NEW l \in (d + 1)..m, k < l PROVE new[k] < new[l]
    <3>1. p[k] < p[l] /\ p[k] \in Nat /\ p[l] \in Nat
      BY <1>2, <2>1, <2>4
    <3> QED
      BY <2>1, <3>1
  <2>5. ASSUME NEW j \in Marks(r, a) PROVE \E k \in (d + 1)..m : new[k] = j
    <3>1. j \in 1..(Len(q) - n) /\ r[j].at = a /\ r[j] = q[n + j]
      BY <1>1 DEF Marks
    <3>2. n + j \in Marks(q, a)
      BY <1>1, <3>1 DEF Marks
    <3>3. PICK k \in (c + 1)..m : p[k] = n + j
      BY <1>2, <3>2
    <3>4. k \in (d + 1)..m
      BY <1>1, <1>3, <3>1, <3>3
    <3>5. new[k] = (n + j) - n /\ (n + j) - n = j
      BY <2>1, <3>1, <3>3, <3>4
    <3> QED
      BY <3>4, <3>5
  <2> QED
    BY <2>2, <2>3, <2>4, <2>5 DEF Matches
<1>6. ASSUME NEW j \in Marks(q, a), j <= n PROVE \E k \in (c + 1)..d : t[k] = q[j].of /\ p[k] = j
  <2>1. PICK k \in (c + 1)..m : p[k] = j
    BY <1>2
  <2>2. k \in (c + 1)..d
    BY <1>1, <1>3, <1>4, <1>6, <2>1
  <2> QED
    BY <1>2, <2>1, <2>2
<1>7. \A k \in (c + 1)..d : \E j \in Marks(q, a) : j <= n /\ t[k] = q[j].of
  <2> TAKE k \in (c + 1)..d
  <2>1. k \in (c + 1)..m /\ p[k] <= n
    BY <1>1, <1>3
  <2> QED
    BY <1>2, <2>1
<1>8. ASSUME NEW j \in Marks(q, a), j <= n, \A i \in Marks(q, a) : i <= n => i = j
      PROVE  d = c + 1 /\ t[c + 1] = q[j].of
  <2>1. PICK k \in (c + 1)..d : t[k] = q[j].of /\ p[k] = j
    BY <1>6, <1>8
  <2>2. \A l \in (c + 1)..d : p[l] = j
    BY <1>1, <1>2, <1>3, <1>8
  <2>3. \A l \in (c + 1)..d : ~(l < k) /\ ~(k < l)
    <3> SUFFICES ASSUME NEW l \in (c + 1)..d, l < k \/ k < l PROVE FALSE
      OBVIOUS
    <3>1. l \in (c + 1)..m /\ k \in (c + 1)..m
      BY <1>1
    <3>2. p[l] < p[k] \/ p[k] < p[l]
      BY <1>2, <3>1
    <3>3. p[l] = j /\ p[k] = j /\ j \in Nat
      BY <1>4, <2>1, <2>2
    <3> QED
      BY <3>2, <3>3
  <2>4. c + 1 \in (c + 1)..d /\ d \in (c + 1)..d
    BY <1>1
  <2>5. c + 1 = k /\ d = k
    <3>1. ~(c + 1 < k) /\ ~(k < c + 1) /\ ~(d < k) /\ ~(k < d)
      BY <2>3, <2>4
    <3> QED
      BY <1>1, <3>1
  <2> QED
    BY <2>1, <2>5
<1> QED
  BY <1>5, <1>6, <1>7, <1>8 DEF r, CutAt

-----------------------------------------------------------------------------
(* Units and frames.                                                       *)

UpUnit == {u \in [of : Request, at : Nat, size : Nat] :
               u.size = 4 + 2 * Blocks[u.of] /\ u.at \in 1..u.size}

Posts == Chat \cup UNION {AnswerFrames(f) : f \in Request}

DownUnit == {u \in [of : Posts, at : Nat, size : Nat] : u.size >= 6 /\ u.at \in 1..u.size}

LEMMA FrameShape ==
    ASSUME NEW f, NEW b \in Nat \ {0}
    PROVE  /\ Frame(f, b) \in Seq({[of |-> f, at |-> i, size |-> 4 + 2 * b] : i \in 1..(4 + 2 * b)})
           /\ Len(Frame(f, b)) = 4 + 2 * b
           /\ \A i \in 1..(4 + 2 * b) : Frame(f, b)[i] = [of |-> f, at |-> i, size |-> 4 + 2 * b]
           /\ \A a \in 1..(4 + 2 * b) : Marks(Frame(f, b), a) = {a}
<1> DEFINE n == 4 + 2 * b
           S == {[of |-> f, at |-> i, size |-> n] : i \in 1..n}
           F == Frame(f, b)
<1>1. n \in Nat
  OBVIOUS
<1>2. F = [i \in 1..n |-> [of |-> f, at |-> i, size |-> n]]
  BY DEF Frame
<1>3. F \in [1..n -> S]
  BY <1>2
<1> HIDE DEF S, F, n
<1>4. F \in Seq(S)
  BY <1>1, <1>3, SeqDef
<1>5. Len(F) = n
  <2>1. Len(F) \in Nat /\ DOMAIN F = 1..Len(F) /\ DOMAIN F = 1..n
    BY <1>3, <1>4, LenProperties
  <2>2. n \in 1..Len(F)
    BY <1>1, <2>1 DEF n
  <2>3. Len(F) \in 1..n
    BY <2>1, <2>2
  <2>4. n <= Len(F) /\ Len(F) <= n /\ Len(F) \in Nat
    BY <1>1, <2>1, <2>2, <2>3
  <2> QED
    BY <1>1, <2>4
<1>6. \A i \in 1..n : F[i] = [of |-> f, at |-> i, size |-> n] /\ F[i].at = i
  BY <1>2
<1>7. ASSUME NEW a \in 1..n PROVE Marks(F, a) = {a}
  BY <1>5, <1>6 DEF Marks
<1> QED
  BY <1>4, <1>5, <1>6, <1>7 DEF S, F, n

LEMMA RequestFrame ==
    ASSUME NEW f \in Request
    PROVE  Frame(f, Blocks[f]) \in Seq(UpUnit)
<1>1. Blocks[f] \in Nat \ {0}
  BY WireAssumption
<1> DEFINE S == {[of |-> f, at |-> i, size |-> 4 + 2 * Blocks[f]] : i \in 1..(4 + 2 * Blocks[f])}
<1>2. Frame(f, Blocks[f]) \in Seq(S)
  BY <1>1, FrameShape
<1>3. S \subseteq UpUnit
  BY <1>1 DEF UpUnit
<1> HIDE DEF S
<1> QED
  BY <1>2, <1>3, SeqDef

LEMMA PostFrame ==
    ASSUME NEW x \in Posts, NEW b \in Nat \ {0}
    PROVE  Frame(x, b) \in Seq(DownUnit)
<1> DEFINE S == {[of |-> x, at |-> i, size |-> 4 + 2 * b] : i \in 1..(4 + 2 * b)}
<1>1. Frame(x, b) \in Seq(S)
  BY FrameShape
<1>2. S \subseteq DownUnit
  BY DEF DownUnit
<1> HIDE DEF S
<1> QED
  BY <1>1, <1>2, SeqDef

\* What is left of a sequence, and what is taken of it.
LEMMA FromShape ==
    ASSUME NEW S, NEW s \in Seq(S), NEW n \in 0..Len(s)
    PROVE  /\ From(s, n) \in Seq(S) /\ Len(From(s, n)) = Len(s) - n
           /\ \A i \in 1..(Len(s) - n) : From(s, n)[i] = s[n + i]
           /\ SubSeq(s, 1, n) \in Seq(S) /\ Len(SubSeq(s, 1, n)) = n
           /\ \A i \in 1..n : SubSeq(s, 1, n)[i] = s[i]
<1>1. Len(s) \in Nat
  BY LenProperties
<1>2. /\ From(s, n) \in Seq(S) /\ Len(From(s, n)) = Len(s) - n
      /\ \A i \in 1..(Len(s) - n) : From(s, n)[i] = s[n + i]
  BY <1>1, SubSeqProperties DEF From
<1>3. /\ SubSeq(s, 1, n) \in Seq(S) /\ Len(SubSeq(s, 1, n)) = n
      /\ \A i \in 1..n : SubSeq(s, 1, n)[i] = s[i]
  BY <1>1, SubSeqProperties
<1> QED
  BY <1>2, <1>3

-----------------------------------------------------------------------------
(* What onMessage makes of what a read found.                              *)

LEMMA VerdictMeans ==
    ASSUME NEW s \in Seq(UpUnit), s # <<>>
    PROVE  /\ Verdict(s) \subseteq {"handle", "shutdown", "abort"}
           /\ "handle" \in Verdict(s) => Len(s) >= 5 /\ s[3].at = 3
           /\ "abort" \in Verdict(s) => Len(s) >= 2 /\ "throws" \in Decrypt(From(s, 2))
           /\ Len(s) >= 2 /\ IsEncrypted(s) = {TRUE} /\ Decrypt(From(s, 2)) = {"text"}
                  => Verdict(s) = {"handle"}
<1> DEFINE r == From(s, 2)
           D == Decrypt(r)
<1>0. Len(s) \in Nat \ {0}
  BY LenProperties, EmptySeq
<1>1. IsEncrypted(s) \subseteq BOOLEAN
  BY DEF IsEncrypted
<1>2. D \subseteq {"text", "noise", "throws"}
  BY DEF Decrypt
<1>3. ASSUME Len(s) >= 2, "text" \in D PROVE Len(s) >= 5 /\ s[3].at = 3
  <2>1. Len(r) = Len(s) - 2 /\ \A i \in 1..(Len(s) - 2) : r[i] = s[2 + i]
    BY <1>0, <1>3, FromShape
  <2> HIDE DEF r
  <2>2. Len(r) > 2 /\ r[1].at = 3
    BY <1>3 DEF Decrypt
  <2>3. 1 \in 1..(Len(s) - 2) /\ 2 + 1 = 3
    BY <1>0, <2>1, <2>2
  <2> QED
    BY <1>0, <2>1, <2>2, <2>3
<1> HIDE DEF D, r
<1>4. Len(s) < 2 => Verdict(s) = {"shutdown"}
  BY DEF Verdict
<1> DEFINE word(d) == CASE d = "text" -> "handle" [] d = "noise" -> "shutdown"
                        [] d = "throws" -> "abort"
           words(encrypted) == IF encrypted THEN {word(d) : d \in D} ELSE {"shutdown"}
<1>5. ~(Len(s) < 2) => Verdict(s) = UNION {words(encrypted) : encrypted \in IsEncrypted(s)}
  BY DEF Verdict, D, r
<1>6. word("text") = "handle" /\ word("noise") = "shutdown" /\ word("throws") = "abort"
  OBVIOUS
<1> HIDE DEF word
<1>7. \A v \in UNION {words(encrypted) : encrypted \in IsEncrypted(s)} :
          v = "shutdown" \/ \E d \in D : v = word(d)
  OBVIOUS
<1>8. ASSUME ~(Len(s) < 2), NEW v \in Verdict(s)
      PROVE  /\ v \in {"handle", "shutdown", "abort"}
             /\ v = "handle" => "text" \in D
             /\ v = "abort" => "throws" \in D
  BY <1>2, <1>5, <1>6, <1>7, <1>8
<1>9. ASSUME Len(s) >= 2, IsEncrypted(s) = {TRUE}, D = {"text"} PROVE Verdict(s) = {"handle"}
  <2>1. UNION {words(encrypted) : encrypted \in {TRUE}} = {word(d) : d \in {"text"}}
    BY <1>9
  <2> QED
    BY <1>0, <1>5, <1>6, <1>9, <2>1
<1>10. Verdict(s) \subseteq {"handle", "shutdown", "abort"}
  BY <1>4, <1>8
<1>11. "handle" \in Verdict(s) => Len(s) >= 5 /\ s[3].at = 3
  BY <1>0, <1>3, <1>4, <1>8
<1>12. "abort" \in Verdict(s) => Len(s) >= 2 /\ "throws" \in D
  BY <1>0, <1>4, <1>8
<1> QED
  BY <1>9, <1>10, <1>11, <1>12 DEF D, r

LEMMA UnitSizes ==
    ASSUME NEW u \in UpUnit
    PROVE  /\ u.of \in Request /\ u.at \in Nat /\ u.size \in Nat
           /\ u.size = 4 + 2 * Blocks[u.of] /\ Blocks[u.of] \in Nat \ {0}
           /\ u.size >= 6 /\ u.size % 2 = 0 /\ 1 <= u.at /\ u.at <= u.size
<1>1. /\ u.of \in Request /\ u.at \in Nat /\ u.size \in Nat
      /\ u.size = 4 + 2 * Blocks[u.of] /\ u.at \in 1..u.size
  BY DEF UpUnit
<1>2. Blocks[u.of] \in Nat \ {0}
  BY <1>1, WireAssumption
<1>3. \A b \in Nat \ {0} : 4 + 2 * b >= 6 /\ (4 + 2 * b) % 2 = 0
  OBVIOUS
<1> QED
  BY <1>1, <1>2, <1>3

\* Units without a gap count up from the first.
LEMMA UnbrokenCounts ==
    ASSUME NEW s \in Seq(UpUnit), s # <<>>, Unbroken(s)
    PROVE  \A i \in 1..Len(s) : s[i].at = s[1].at + (i - 1) /\ s[i].of = s[1].of
<1>0. Len(s) \in Nat \ {0} /\ \A i \in 1..Len(s) : s[i] \in UpUnit
  BY LenProperties, EmptySeq
<1> DEFINE S == {k \in Nat : k + 1 <= Len(s) =>
                     s[k + 1].at = s[1].at + k /\ s[k + 1].of = s[1].of}
<1>1. 0 \in S
  BY <1>0, UnitSizes
<1>2. ASSUME NEW k \in Nat, k \in S PROVE k + 1 \in S
  <2>1. SUFFICES ASSUME k + 2 <= Len(s)
                 PROVE  s[k + 2].at = s[1].at + (k + 1) /\ s[k + 2].of = s[1].of
    BY <1>2
  <2>2. k + 2 \in 2..Len(s) /\ (k + 2) - 1 = k + 1 /\ k + 1 \in 1..Len(s)
    BY <1>0, <2>1
  <2>3. Follows(s[k + 1], s[k + 2])
    BY <2>2 DEF Unbroken
  <2>4. s[1].at \in Nat
    BY <1>0, UnitSizes
  <2>5. s[k + 1].at = s[1].at + k /\ s[k + 1].of = s[1].of
    BY <1>2, <2>2
  <2>6. s[k + 2].at = s[k + 1].at + 1 /\ s[k + 2].of = s[k + 1].of
    BY <2>3 DEF Follows
  <2>7. (s[1].at + k) + 1 = s[1].at + (k + 1)
    BY <2>4
  <2> QED
    BY <2>5, <2>6, <2>7
<1> HIDE DEF S
<1>3. 0..Len(s) \subseteq S
  BY <1>0, <1>1, <1>2, NatAll
<1>4. ASSUME NEW i \in 1..Len(s) PROVE s[i].at = s[1].at + (i - 1) /\ s[i].of = s[1].of
  <2>1. i - 1 \in 0..Len(s) /\ (i - 1) + 1 = i
    BY <1>0
  <2>2. i - 1 \in S
    BY <1>3, <2>1
  <2> QED
    BY <1>0, <2>1, <2>2 DEF S
<1> QED
  BY <1>4

\* A whole frame is handled.
LEMMA FrameIsHandled ==
    ASSUME NEW s \in Seq(UpUnit), s # <<>>, Kind(s) = "frame"
    PROVE  /\ Verdict(s) = {"handle"}
           /\ Len(s) >= 5 /\ Marks(s, 3) = {3} /\ s[3].of = s[1].of
<1>1. s[1].at = 1 /\ s[Len(s)].at = s[Len(s)].size /\ Unbroken(s)
  BY DEF Kind
<1>2. Len(s) \in Nat \ {0} /\ \A i \in 1..Len(s) : s[i] \in UpUnit
  BY LenProperties, EmptySeq
<1>3. \A i \in 1..Len(s) : s[i].at = i /\ s[i].of = s[1].of
  <2>1. \A i \in 1..Len(s) : s[i].at = 1 + (i - 1) /\ s[i].of = s[1].of
    BY <1>1, UnbrokenCounts
  <2> QED
    BY <1>2, <2>1
<1>4. Len(s) >= 6 /\ Len(s) % 2 = 0 /\ s[Len(s)].size = Len(s)
  <2>1. Len(s) \in 1..Len(s) /\ s[Len(s)] \in UpUnit
    BY <1>2
  <2> QED
    BY <1>1, <1>3, <2>1, UnitSizes
<1>5. Marks(s, 3) = {3}
  BY <1>2, <1>3, <1>4 DEF Marks
<1> DEFINE r == From(s, 2)
<1>6. /\ r \in Seq(UpUnit) /\ Len(r) = Len(s) - 2
      /\ \A i \in 1..(Len(s) - 2) : r[i] = s[2 + i]
  <2>1. 2 \in 0..Len(s)
    BY <1>2, <1>4
  <2> QED
    BY <2>1, FromShape
<1> HIDE DEF r
<1>7. Len(r) >= 4 /\ Len(r) % 2 = 0 /\ Len(r) \in Nat
  BY <1>2, <1>4, <1>6
<1>8. \A i \in 1..Len(r) : r[i].at = i + 2 /\ r[i].of = s[1].of /\ r[i] = s[2 + i]
  <2> TAKE i \in 1..Len(r)
  <2>1. 2 + i \in 1..Len(s) /\ i \in 1..(Len(s) - 2)
    BY <1>2, <1>6, <1>7
  <2> QED
    BY <1>3, <1>6, <2>1
<1>9. Unbroken(r)
  <2> SUFFICES ASSUME NEW i \in 2..Len(r) PROVE Follows(r[i - 1], r[i])
    BY DEF Unbroken
  <2>1. i \in 1..Len(r) /\ i - 1 \in 1..Len(r)
    BY <1>7
  <2>2. r[i].at = i + 2 /\ r[i - 1].at = (i - 1) + 2 /\ r[i].of = r[i - 1].of
    BY <1>8, <2>1
  <2>3. i + 2 = ((i - 1) + 2) + 1
    OBVIOUS
  <2> QED
    BY <2>2, <2>3 DEF Follows
<1>10. Unbroken(Tail4(r))
  <2> DEFINE e == Tail4(r)
  <2>1. Len(e) = 4 /\ \A i \in 1..4 : e[i] = r[(Len(r) - 3) + i - 1]
    <3>1. /\ Len(r) - 3 \in 1..(Len(r) + 1) /\ Len(r) \in (Len(r) - 3)..Len(r)
          /\ (Len(r) - (Len(r) - 3)) + 1 = 4
      BY <1>7
    <3> QED
      BY <1>6, <1>7, <3>1, SubSeqProperties DEF Tail4
  <2> HIDE DEF e
  <2> SUFFICES ASSUME NEW i \in 2..4 PROVE Follows(e[i - 1], e[i])
    BY <2>1 DEF Unbroken, e
  <2>2. /\ i \in 1..4 /\ i - 1 \in 1..4
        /\ (Len(r) - 3) + i - 1 \in 1..Len(r) /\ (Len(r) - 3) + (i - 1) - 1 \in 1..Len(r)
    BY <1>7
  <2>3. e[i] = r[(Len(r) - 3) + i - 1] /\ e[i - 1] = r[(Len(r) - 3) + (i - 1) - 1]
    BY <2>1, <2>2
  <2>4. /\ e[i].at = ((Len(r) - 3) + i - 1) + 2 /\ e[i].of = s[1].of
        /\ e[i - 1].at = ((Len(r) - 3) + (i - 1) - 1) + 2 /\ e[i - 1].of = s[1].of
    BY <1>8, <2>2, <2>3
  <2>5. ((Len(r) - 3) + i - 1) + 2 = (((Len(r) - 3) + (i - 1) - 1) + 2) + 1
    BY <1>7
  <2> QED
    BY <2>4, <2>5 DEF Follows
<1>11. /\ Len(r) \in 1..Len(r) /\ r[Len(r)] = s[Len(s)] /\ r[Len(r)].at = Len(s)
       /\ r[Len(r)].size = Len(s) /\ r[1].at = 3
  <2>1. Len(r) \in 1..Len(r) /\ 1 \in 1..Len(r) /\ 2 + Len(r) = Len(s)
    BY <1>2, <1>6, <1>7
  <2>2. r[Len(r)] = s[2 + Len(r)] /\ r[Len(r)].at = Len(r) + 2 /\ r[1].at = 1 + 2
    BY <1>8, <2>1
  <2> QED
    BY <1>4, <1>7, <2>1, <2>2
<1>12. Decrypt(r) = {"text"}
  BY <1>2, <1>4, <1>7, <1>9, <1>10, <1>11 DEF Decrypt
<1>13. IsEncrypted(s) = {TRUE}
  <2>1. 2 \in 1..Len(s)
    BY <1>2, <1>4
  <2>2. s[2].at = 2
    BY <1>3, <2>1
  <2> QED
    BY <2>2 DEF IsEncrypted
<1>14. Verdict(s) = {"handle"}
  <2>1. Len(s) >= 2 /\ Decrypt(From(s, 2)) = {"text"}
    BY <1>2, <1>4, <1>12 DEF r
  <2> QED
    BY <1>13, <2>1, VerdictMeans
<1>15. Len(s) >= 5 /\ s[3].of = s[1].of
  BY <1>2, <1>3, <1>4
<1> QED
  BY <1>5, <1>14, <1>15

\* Nor do whole frames that arrive together end the server.
LEMMA FramesEnd ==
    ASSUME NEW s \in Seq(UpUnit), s # <<>>, Kind(s) = "frames"
    PROVE  "abort" \notin Verdict(s)
<1>1. /\ s[1].at = 1 /\ s[Len(s)].at = s[Len(s)].size
      /\ \A i \in 2..Len(s) : \/ Follows(s[i - 1], s[i])
                              \/ s[i - 1].at = s[i - 1].size /\ s[i].at = 1
  BY DEF Kind
<1>2. Len(s) \in Nat \ {0} /\ \A i \in 1..Len(s) : s[i] \in UpUnit
  BY LenProperties, EmptySeq
<1> DEFINE S == {k \in Nat : k + 1 <= Len(s) =>
                     s[k + 1].at % 2 = (k + 1) % 2 /\ s[k + 1].at <= k + 1}
<1>3. 0 \in S
  BY <1>1
<1>4. ASSUME NEW k \in Nat, k \in S PROVE k + 1 \in S
  <2>1. SUFFICES ASSUME k + 2 <= Len(s)
                 PROVE  s[k + 2].at % 2 = (k + 2) % 2 /\ s[k + 2].at <= k + 2
    BY <1>4
  <2>2. k + 2 \in 2..Len(s) /\ (k + 2) - 1 = k + 1 /\ k + 1 \in 1..Len(s)
    BY <1>2, <2>1
  <2>3. \/ Follows(s[k + 1], s[k + 2])
        \/ s[k + 1].at = s[k + 1].size /\ s[k + 2].at = 1
    BY <1>1, <2>2
  <2>4. s[k + 1].at % 2 = (k + 1) % 2 /\ s[k + 1].at <= k + 1
    BY <1>4, <2>2
  <2>5. s[k + 1].at \in Nat /\ s[k + 1].size % 2 = 0
    BY <1>2, <2>2, UnitSizes
  <2>6. CASE Follows(s[k + 1], s[k + 2])
    <3>1. s[k + 2].at = s[k + 1].at + 1
      BY <2>6 DEF Follows
    <3>2. \A x, y \in Nat : x % 2 = y % 2 => (x + 1) % 2 = (y + 1) % 2
      OBVIOUS
    <3>3. k + 1 \in Nat /\ (k + 1) + 1 = k + 2 /\ (s[k + 1].at + 1) % 2 = ((k + 1) + 1) % 2
      BY <2>4, <2>5, <3>2
    <3>4. s[k + 1].at + 1 <= k + 2
      <4>1. \A x \in Nat : x <= k + 1 => x + 1 <= k + 2
        OBVIOUS
      <4> QED
        BY <2>4, <2>5, <4>1
    <3> QED
      BY <3>1, <3>3, <3>4
  <2>7. CASE s[k + 1].at = s[k + 1].size /\ s[k + 2].at = 1
    <3>1. (k + 1) % 2 = 0
      BY <2>4, <2>5, <2>7
    <3> QED
      BY <2>7, <3>1
  <2> QED
    BY <2>3, <2>6, <2>7
<1> HIDE DEF S
<1>5. 0..Len(s) \subseteq S
  BY <1>2, <1>3, <1>4, NatAll
<1> DEFINE n == Len(s)
           z == s[n].at
<1>6. z % 2 = n % 2 /\ z <= n /\ z = s[n].size /\ z \in Nat /\ z >= 6 /\ z % 2 = 0
  <2>1. n - 1 \in 0..n /\ (n - 1) + 1 = n /\ n \in 1..n
    BY <1>2
  <2>2. n - 1 \in S
    BY <1>5, <2>1
  <2>3. z % 2 = n % 2 /\ z <= n
    BY <2>1, <2>2 DEF S
  <2>4. s[n].at \in Nat /\ s[n].size >= 6 /\ s[n].size % 2 = 0
    BY <1>2, <2>1, UnitSizes
  <2> QED
    BY <1>1, <2>3, <2>4
<1>7. n >= 6 /\ n \in Nat /\ n % 2 = 0
  BY <1>2, <1>6
<1>8. ASSUME NEW j \in {0, 1, 2}, s[n - j].at = z - j
      PROVE  Follows(s[n - j - 1], s[n - j]) /\ s[n - j - 1].at = z - (j + 1)
  <2>1. n - j \in 2..n /\ n - j \in 1..n /\ n - j - 1 \in 1..n
    BY <1>7
  <2>2. s[n - j].at # 1
    BY <1>6, <1>8
  <2>3. Follows(s[(n - j) - 1], s[n - j])
    BY <1>1, <2>1, <2>2
  <2>4. s[n - j].at = s[n - j - 1].at + 1 /\ s[n - j - 1].at \in Nat
    BY <1>2, <2>1, <2>3, UnitSizes DEF Follows
  <2>5. \A x, y \in Nat : y - j = x + 1 => x = y - (j + 1)
    OBVIOUS
  <2>6. s[n - j - 1].at = z - (j + 1)
    BY <1>6, <1>8, <2>4, <2>5
  <2> QED
    BY <2>3, <2>6
<1>9. /\ s[n - 1].at = z - 1 /\ Follows(s[n - 1], s[n])
      /\ s[n - 2].at = z - 2 /\ Follows(s[n - 2], s[n - 1])
      /\ Follows(s[n - 3], s[n - 2])
  <2>1. s[n - 0].at = z - 0 /\ n - 0 - 1 = n - 1 /\ n - 0 = n
    BY <1>6, <1>7
  <2>2. s[n - 1].at = z - 1 /\ Follows(s[n - 1], s[n])
    BY <1>8, <2>1
  <2>3. n - 1 - 1 = n - 2 /\ n - 2 - 1 = n - 3
    BY <1>7
  <2>4. s[n - 2].at = z - 2 /\ Follows(s[n - 2], s[n - 1])
    BY <1>8, <2>2, <2>3
  <2>5. Follows(s[n - 3], s[n - 2])
    BY <1>8, <2>3, <2>4
  <2> QED
    BY <2>2, <2>4, <2>5
<1> DEFINE r == From(s, 2)
<1>10. r \in Seq(UpUnit) /\ Len(r) = n - 2 /\ \A i \in 1..(n - 2) : r[i] = s[2 + i]
  <2>1. 2 \in 0..Len(s)
    BY <1>7
  <2> QED
    BY <2>1, FromShape
<1> HIDE DEF r
<1>11. Unbroken(Tail4(r))
  <2> DEFINE e == Tail4(r)
  <2>1. Len(e) = 4 /\ \A i \in 1..4 : e[i] = r[(Len(r) - 3) + i - 1]
    <3>1. /\ Len(r) - 3 \in 1..(Len(r) + 1) /\ Len(r) \in (Len(r) - 3)..Len(r)
          /\ (Len(r) - (Len(r) - 3)) + 1 = 4
      BY <1>7, <1>10
    <3> QED
      BY <1>10, <3>1, SubSeqProperties DEF Tail4
  <2> HIDE DEF e
  <2>2. e[1] = s[n - 3] /\ e[2] = s[n - 2] /\ e[3] = s[n - 1] /\ e[4] = s[n]
    <3>1. e[1] = r[n - 5] /\ e[2] = r[n - 4] /\ e[3] = r[n - 3] /\ e[4] = r[n - 2]
      <4>1. /\ (Len(r) - 3) + 1 - 1 = n - 5 /\ (Len(r) - 3) + 2 - 1 = n - 4
            /\ (Len(r) - 3) + 3 - 1 = n - 3 /\ (Len(r) - 3) + 4 - 1 = n - 2
        BY <1>7, <1>10
      <4>2. 1 \in 1..4 /\ 2 \in 1..4 /\ 3 \in 1..4 /\ 4 \in 1..4
        OBVIOUS
      <4> QED
        BY <2>1, <4>1, <4>2
    <3>2. \A j \in {2, 3, 4, 5} : n - j \in 1..(n - 2) /\ 2 + (n - j) = n - (j - 2)
      BY <1>7
    <3>3. \A j \in {2, 3, 4, 5} : r[n - j] = s[n - (j - 2)]
      BY <1>10, <3>2
    <3>4. r[n - 5] = s[n - 3] /\ r[n - 4] = s[n - 2] /\ r[n - 3] = s[n - 1] /\ r[n - 2] = s[n - 0]
      BY <3>3
    <3>5. n - 0 = n
      BY <1>7
    <3> QED
      BY <3>1, <3>4, <3>5
  <2>3. Follows(e[1], e[2]) /\ Follows(e[2], e[3]) /\ Follows(e[3], e[4])
    BY <1>9, <2>2
  <2>4. ASSUME NEW i \in 2..4 PROVE Follows(e[i - 1], e[i])
    <3>1. (i = 2 /\ i - 1 = 1) \/ (i = 3 /\ i - 1 = 2) \/ (i = 4 /\ i - 1 = 3)
      OBVIOUS
    <3> QED
      BY <2>3, <3>1
  <2> QED
    BY <2>1, <2>4 DEF Unbroken, e
<1>12. r[Len(r)] = s[n]
  <2>1. n - 2 \in 1..(n - 2) /\ 2 + (n - 2) = n
    BY <1>7
  <2> QED
    BY <1>10, <2>1
<1>13. Len(r) > 2 /\ Len(r) % 2 = 0
  BY <1>7, <1>10
<1>14. "throws" \notin Decrypt(r)
  BY <1>6, <1>11, <1>12, <1>13 DEF Decrypt
<1> QED
  BY <1>14, VerdictMeans DEF r

-----------------------------------------------------------------------------
(* The stream from the server to the client.                               *)

Joined(u, v) == (Follows(u, v) /\ v.size = u.size) \/ (u.at = u.size /\ v.at = 1)

\* Frames one behind the other, of which the first may be cut.
Stream(q) ==
    /\ \A i \in 2..Len(q) : Joined(q[i - 1], q[i])
    /\ q # <<>> => q[Len(q)].at = q[Len(q)].size

\* r and R are q and P with frames and their names appended.
Grown(q, P, c, r, R) ==
    /\ r \in Seq(DownUnit) /\ R \in Seq(Posts) /\ Stream(r) /\ Matches(r, 1, R, c)
    /\ Len(P) <= Len(R) /\ \A k \in 1..Len(P) : R[k] = P[k]
    /\ r # <<>> /\ r[1].at # 1 => q # <<>> /\ r[1] = q[1]

LEMMA AddFrame ==
    ASSUME NEW q \in Seq(DownUnit), NEW P \in Seq(Posts), NEW c \in 0..Len(P),
           Stream(q), Matches(q, 1, P, c), NEW x \in Posts, NEW b \in Nat \ {0}
    PROVE  Grown(q, P, c, q \o Frame(x, b), Append(P, x))
<1> DEFINE F == Frame(x, b)
           z == 4 + 2 * b
           r == q \o F
           n == Len(q)
<1>0. z \in Nat /\ z >= 6
  OBVIOUS
<1>1. /\ F \in Seq(DownUnit) /\ Len(F) = z /\ z \in Nat /\ z >= 6
      /\ \A i \in 1..z : F[i] = [of |-> x, at |-> i, size |-> z]
      /\ \A a \in 1..z : Marks(F, a) = {a}
  <2>1. F \in Seq(DownUnit)
    BY PostFrame
  <2>2. /\ Len(F) = z
        /\ \A i \in 1..z : F[i] = [of |-> x, at |-> i, size |-> z]
        /\ \A a \in 1..z : Marks(F, a) = {a}
    BY FrameShape
  <2> QED
    BY <1>0, <2>1, <2>2
<1>2. Marks(F, 1) = {1} /\ 1 \in Marks(F, 1) /\ F[1].of = x /\ F[1].at = 1
  <2>1. 1 \in 1..z
    BY <1>1
  <2> QED
    BY <1>1, <2>1
<1> HIDE DEF F, z
<1>3. Matches(r, 1, Append(P, x), c)
  BY <1>1, <1>2, MatchesJoin
<1>4. /\ n \in Nat /\ r \in Seq(DownUnit) /\ Len(r) = n + z
      /\ \A i \in 1..n : r[i] = q[i]
      /\ \A i \in (n + 1)..(n + z) : r[i] = F[i - n]
  <2>1. /\ r \in Seq(DownUnit) /\ Len(r) = Len(q) + Len(F)
        /\ \A i \in 1..(Len(q) + Len(F)) : r[i] = IF i <= Len(q) THEN q[i] ELSE F[i - Len(q)]
    <3>1. F \in Seq(DownUnit)
      BY <1>1
    <3> QED
      BY <3>1, ConcatProperties
  <2>2. n \in Nat
    BY LenProperties
  <2>3. \A i \in 1..n : i \in 1..(n + z) /\ i <= n
    BY <1>1, <2>2
  <2>4. \A i \in (n + 1)..(n + z) : i \in 1..(n + z) /\ ~(i <= n)
    BY <1>1, <2>2
  <2> HIDE DEF r
  <2> QED
    BY <1>1, <2>1, <2>2, <2>3, <2>4
<1>5. \A i \in 1..z : r[n + i] = [of |-> x, at |-> i, size |-> z]
                      /\ r[n + i].at = i /\ r[n + i].size = z
  <2> TAKE i \in 1..z
  <2>1. n + i \in (n + 1)..(n + z) /\ (n + i) - n = i
    BY <1>1, <1>4
  <2> QED
    BY <1>1, <1>4, <2>1
<1> HIDE DEF r
<1>6. ASSUME NEW i \in 2..Len(r) PROVE Joined(r[i - 1], r[i])
  <2>1. CASE i \in 2..n
    <3>1. i \in 1..n /\ i - 1 \in 1..n
      BY <1>4, <2>1
    <3> QED
      BY <1>4, <2>1, <3>1 DEF Stream
  <2>2. CASE i = n + 1
    <3>1. n >= 1 /\ n \in 1..n /\ 1 \in 1..z /\ i - 1 = n
      BY <1>1, <1>4, <2>2
    <3>2. q # <<>>
      BY <3>1
    <3>3. r[n].at = r[n].size
      BY <1>4, <3>1, <3>2 DEF Stream
    <3>4. r[n + 1].at = 1
      BY <1>5, <3>1
    <3> QED
      BY <2>2, <3>1, <3>3, <3>4 DEF Joined
  <2>3. CASE i \in (n + 2)..(n + z)
    <3>1. PICK j \in 2..z : i = n + j
      <4>1. i - n \in 2..z /\ i = n + (i - n)
        BY <1>1, <1>4, <2>3
      <4> QED
        BY <4>1
    <3>2. j \in 1..z /\ j - 1 \in 1..z /\ i - 1 = n + (j - 1)
      BY <1>1, <1>4, <3>1
    <3>3. r[i] = [of |-> x, at |-> j, size |-> z] /\ r[i - 1] = [of |-> x, at |-> j - 1, size |-> z]
      BY <1>5, <3>1, <3>2
    <3>4. j = (j - 1) + 1
      BY <3>1
    <3> QED
      BY <3>3, <3>4 DEF Joined, Follows
  <2> QED
    BY <1>1, <1>4, <2>1, <2>2, <2>3
<1>7. r[Len(r)].at = r[Len(r)].size
  <2>1. z \in 1..z /\ Len(r) = n + z
    BY <1>1, <1>4
  <2> QED
    BY <1>5, <2>1
<1>8. ASSUME r[1].at # 1 PROVE q # <<>> /\ r[1] = q[1]
  <2>1. n # 0
    <3>0. SUFFICES ASSUME n = 0 PROVE FALSE
      OBVIOUS
    <3>1. r[n + 1].at = 1 /\ n + 1 = 1
      <4>1. 1 \in 1..z /\ n + 1 = 1
        BY <1>1, <3>0
      <4>2. r[n + 1].at = 1
        BY <1>5, <4>1
      <4> QED
        BY <4>1, <4>2
    <3> QED
      BY <1>8, <3>1
  <2>2. 1 \in 1..n
    BY <1>4, <2>1
  <2> QED
    BY <1>4, <2>1, <2>2
<1>9. /\ Append(P, x) \in Seq(Posts) /\ Len(P) <= Len(Append(P, x))
      /\ \A k \in 1..Len(P) : Append(P, x)[k] = P[k]
  BY AppendProperties, LenProperties
<1>10. Stream(r)
  BY <1>6, <1>7 DEF Stream
<1> QED
  BY <1>3, <1>4, <1>8, <1>9, <1>10 DEF Grown, r, F

\* Frames of which the first is whole count up.
LEMMA FirstFrame ==
    ASSUME NEW q \in Seq(DownUnit), Stream(q), q # <<>>, q[1].at = 1,
           NEW n \in 1..Len(q), n < q[1].size
    PROVE  q[n].at = n /\ q[n].size = q[1].size
<1>1. Len(q) \in Nat /\ n \in Nat \ {0} /\ \A i \in 1..Len(q) : q[i] \in DownUnit
  BY LenProperties
<1> DEFINE S == {k \in Nat : k + 1 <= n => q[k + 1].at = k + 1 /\ q[k + 1].size = q[1].size}
<1>2. 0 \in S
  OBVIOUS
<1>3. ASSUME NEW k \in Nat, k \in S PROVE k + 1 \in S
  <2>1. SUFFICES ASSUME k + 2 <= n PROVE q[k + 2].at = k + 2 /\ q[k + 2].size = q[1].size
    BY <1>3
  <2>2. k + 2 \in 2..Len(q) /\ (k + 2) - 1 = k + 1 /\ k + 1 <= n
    BY <1>1, <2>1
  <2>3. Joined(q[k + 1], q[k + 2])
    BY <2>2 DEF Stream
  <2>4. q[k + 1].at = k + 1 /\ q[k + 1].size = q[1].size
    BY <1>3, <2>2
  <2>5. q[1].size \in Nat
    BY <1>1 DEF DownUnit
  <2>6. k + 1 # q[1].size
    BY <2>1, <2>5
  <2>7. Follows(q[k + 1], q[k + 2]) /\ q[k + 2].size = q[k + 1].size
    BY <2>3, <2>4, <2>6 DEF Joined
  <2>8. (k + 1) + 1 = k + 2
    OBVIOUS
  <2> QED
    BY <2>4, <2>7, <2>8 DEF Follows
<1> HIDE DEF S
<1>4. 0..n \subseteq S
  BY <1>1, <1>2, <1>3, NatAll
<1>5. n - 1 \in 0..n /\ (n - 1) + 1 = n
  BY <1>1
<1> QED
  BY <1>1, <1>4, <1>5 DEF S

\* What is behind a cut.
LEMMA StreamCut ==
    ASSUME NEW q \in Seq(DownUnit), Stream(q), NEW n \in 1..Len(q)
    PROVE  /\ Stream(From(q, n))
           /\ From(q, n) # <<>> /\ From(q, n)[1].at # 1 => q[n].at # q[n].size
<1> DEFINE r == From(q, n)
           m == Len(q) - n
<1>1. Len(q) \in Nat /\ n \in 0..Len(q) /\ m \in Nat /\ \A i \in 1..Len(q) : q[i] \in DownUnit
  BY LenProperties
<1>2. r \in Seq(DownUnit) /\ Len(r) = m /\ \A i \in 1..m : r[i] = q[n + i]
  BY <1>1, FromShape
<1> HIDE DEF r
<1>3. ASSUME NEW i \in 2..m PROVE Joined(r[i - 1], r[i])
  <2>1. /\ i \in 1..m /\ i - 1 \in 1..m /\ n + i \in 2..Len(q)
        /\ n + (i - 1) = (n + i) - 1
    BY <1>1
  <2>2. r[i] = q[n + i] /\ r[i - 1] = q[(n + i) - 1]
    BY <1>2, <2>1
  <2> QED
    BY <2>1, <2>2 DEF Stream
<1>4. ASSUME r # <<>> PROVE m >= 1 /\ 1 \in 1..m /\ r[m] = q[Len(q)] /\ q # <<>>
  <2>1. m # 0
    BY <1>2, <1>4, EmptySeq
  <2>2. m \in 1..m /\ n + m = Len(q)
    BY <1>1, <2>1
  <2>3. q # <<>>
    BY <1>1, <2>2
  <2> QED
    BY <1>1, <1>2, <2>1, <2>2, <2>3
<1>5. Stream(r)
  BY <1>2, <1>3, <1>4 DEF Stream
<1>6. ASSUME r # <<>>, r[1].at # 1 PROVE q[n].at # q[n].size
  <2>1. 1 \in 1..m /\ r[1] = q[n + 1] /\ n + 1 \in 2..Len(q) /\ (n + 1) - 1 = n
    BY <1>1, <1>2, <1>4, <1>6
  <2>2. Joined(q[n], q[n + 1])
    BY <2>1 DEF Stream
  <2>3. q[n + 1].at = q[n].at + 1 /\ q[n + 1].size = q[n].size
    BY <1>6, <2>1, <2>2 DEF Joined, Follows
  <2>4. q[n + 1].at \in Nat /\ q[n + 1].size \in Nat /\ q[n + 1].at <= q[n + 1].size /\ q[n].at \in Nat
    <3>1. q[n] \in DownUnit /\ q[n + 1] \in DownUnit
      BY <1>1, <2>1
    <3> QED
      BY <3>1 DEF DownUnit
  <2>5. \A x, y, z, v \in Nat : y = x + 1 /\ v = z /\ y <= v => x # z
    OBVIOUS
  <2>6. q[n].size \in Nat
    BY <1>1 DEF DownUnit
  <2> QED
    BY <2>3, <2>4, <2>5, <2>6
<1> QED
  BY <1>5, <1>6 DEF r

\* The bytes behind others are written one frame after the other.
BytesBehind(d, frames) ==
    CHOOSE f : f = [k \in 0..Len(frames) |-> IF k = 0 THEN d ELSE f[k - 1] \o frames[k]]

WrittenInTurn(b, d, frames, n) ==
    /\ b[0] = d /\ b[n] = Behind(d, frames)
    /\ \A k \in 0..n : k < n => b[k + 1] = b[k] \o frames[k + 1]

LEMMA BehindSteps ==
    ASSUME NEW S, NEW d \in Seq(S), NEW frames, NEW n \in Nat, Len(frames) = n,
           \A k \in 1..n : frames[k] \in Seq(S)
    PROVE  WrittenInTurn(BytesBehind(d, frames), d, frames, n)
<1> DEFINE Bytes(b, m) ==
               /\ b \in [0..m -> Seq(S)] /\ b[0] = d
               /\ \A k \in 1..m : b[k] = b[k - 1] \o frames[k]
           M == {m \in Nat : m <= n => \E b : Bytes(b, m)}
<1>1. 0 \in M
  <2>1. Bytes([k \in 0..0 |-> d], 0)
    OBVIOUS
  <2> HIDE DEF Bytes
  <2> QED
    BY <2>1
<1>2. ASSUME NEW m \in Nat, m \in M PROVE m + 1 \in M
  <2> HIDE DEF Bytes
  <2>1. SUFFICES ASSUME m + 1 <= n PROVE \E b : Bytes(b, m + 1)
    OBVIOUS
  <2>a. m <= n
    BY <2>1
  <2>b. PICK b : Bytes(b, m)
    BY <1>2, <2>a
  <2>2. /\ b \in [0..m -> Seq(S)] /\ b[0] = d
        /\ \A k \in 1..m : b[k] = b[k - 1] \o frames[k]
    BY <2>b DEF Bytes
  <2> DEFINE new == [k \in 0..(m + 1) |-> IF k = m + 1 THEN b[m] \o frames[m + 1] ELSE b[k]]
  <2>3. b[m] \o frames[m + 1] \in Seq(S)
    <3>1. b[m] \in Seq(S) /\ frames[m + 1] \in Seq(S)
      BY <2>1, <2>2
    <3> QED
      BY <3>1, ConcatProperties
  <2>4. new \in [0..(m + 1) -> Seq(S)]
    BY <2>2, <2>3
  <2>5. new[m + 1] = b[m] \o frames[m + 1] /\ \A k \in 0..m : new[k] = b[k]
    <3>1. m + 1 \in 0..(m + 1) /\ \A k \in 0..m : k \in 0..(m + 1) /\ k # m + 1
      OBVIOUS
    <3> QED
      BY <3>1
  <2> HIDE DEF new
  <2>6. \A k \in 1..(m + 1) : new[k] = new[k - 1] \o frames[k]
    <3> TAKE k \in 1..(m + 1)
    <3>1. CASE k = m + 1
      <4>1. k - 1 = m /\ m \in 0..m
        BY <3>1
      <4> QED
        BY <2>5, <3>1, <4>1
    <3>2. CASE k \in 1..m
      <4>1. k \in 0..m /\ k - 1 \in 0..m
        BY <3>2
      <4> QED
        BY <2>2, <2>5, <3>2, <4>1
    <3>3. k = m + 1 \/ k \in 1..m
      OBVIOUS
    <3> QED
      BY <3>1, <3>2, <3>3
  <2>7. 0 \in 0..m
    OBVIOUS
  <2>8. Bytes(new, m + 1)
    BY <2>2, <2>4, <2>5, <2>6, <2>7 DEF Bytes
  <2> QED
    BY <2>8
<1> HIDE DEF M, Bytes
<1>3. 0..n \subseteq M
  BY <1>1, <1>2, NatAll
<1>b. PICK b : Bytes(b, n)
  <2>1. n \in M /\ n <= n
    BY <1>3
  <2> QED
    BY <2>1 DEF M
<1>4. /\ b \in [0..n -> Seq(S)] /\ b[0] = d
      /\ \A k \in 1..n : b[k] = b[k - 1] \o frames[k]
  BY <1>b DEF Bytes
<1>5. b = [k \in 0..Len(frames) |-> IF k = 0 THEN d ELSE b[k - 1] \o frames[k]]
  <2>1. \A k \in 0..n : b[k] = IF k = 0 THEN d ELSE b[k - 1] \o frames[k]
    <3> TAKE k \in 0..n
    <3>1. k = 0 \/ (k \in 1..n /\ k # 0)
      OBVIOUS
    <3> QED
      BY <1>4, <3>1
  <2>2. b = [k \in 0..n |-> b[k]]
    BY <1>4
  <2>3. b = [k \in 0..n |-> IF k = 0 THEN d ELSE b[k - 1] \o frames[k]]
    BY <2>1, <2>2
  <2> QED
    BY <2>3
<1> DEFINE Def(f) == f = [k \in 0..Len(frames) |-> IF k = 0 THEN d ELSE f[k - 1] \o frames[k]]
           g == BytesBehind(d, frames)
<1>6. Def(g)
  <2>1. \E f : Def(f)
    BY <1>5
  <2>2. g = CHOOSE f : Def(f)
    BY DEF BytesBehind
  <2> HIDE DEF Def, g
  <2> QED
    BY <2>1, <2>2
<1>7. Behind(d, frames) = g[n]
  BY DEF Behind, BytesBehind
<1> HIDE DEF g
<1>8. g[0] = d
  BY <1>6
<1>9. \A k \in 0..n : k < n => g[k + 1] = g[k] \o frames[k + 1]
  <2> TAKE k \in 0..n
  <2> HAVE k < n
  <2>1. k + 1 \in 0..Len(frames) /\ k + 1 # 0 /\ (k + 1) - 1 = k
    OBVIOUS
  <2> QED
    BY <1>6, <2>1
<1> QED
  BY <1>7, <1>8, <1>9 DEF g, WrittenInTurn

LEMMA GrownMore ==
    ASSUME NEW q, NEW P \in Seq(Posts), NEW c \in 0..Len(P), NEW r, NEW R, NEW s, NEW T,
           Grown(q, P, c, r, R), R \in Seq(Posts), Grown(r, R, c, s, T)
    PROVE  Grown(q, P, c, s, T)
<1>1. Len(P) \in Nat /\ Len(R) \in Nat /\ Len(P) <= Len(R)
  BY LenProperties DEF Grown
<1>2. T \in Seq(Posts)
  BY DEF Grown
<1>3. Len(T) \in Nat /\ Len(R) <= Len(T)
  BY <1>2, LenProperties DEF Grown
<1>4. \A k \in 1..Len(P) : k \in 1..Len(R) /\ T[k] = P[k]
  <2> TAKE k \in 1..Len(P)
  <2>1. k \in 1..Len(R)
    BY <1>1
  <2> QED
    BY <2>1 DEF Grown
<1>5. Len(P) <= Len(T)
  BY <1>1, <1>3
<1> QED
  BY <1>4, <1>5 DEF Grown

\* What is sent of the answers to a request.
LEMMA AddAnswers ==
    ASSUME NEW q \in Seq(DownUnit), NEW P \in Seq(Posts), NEW c \in 0..Len(P),
           Stream(q), Matches(q, 1, P, c), NEW f \in Request, NEW n \in Nat, NEW ks,
           Len(ks) = n, \A i \in 1..n : ks[i] \in DOMAIN Answers[f]
    PROVE  Grown(q, P, c,
                 Behind(q, [k \in 1..Len(ks) |-> Frame(Answer(f, ks[k]), Answers[f][ks[k]])]),
                 P \o [k \in 1..Len(ks) |-> Answer(f, ks[k])])
<1> DEFINE F == [k \in 1..Len(ks) |-> Frame(Answer(f, ks[k]), Answers[f][ks[k]])]
           A == [k \in 1..Len(ks) |-> Answer(f, ks[k])]
           All(k) == P \o SubSeq(A, 1, k)
<1>1. \A i \in 1..n : Answer(f, ks[i]) \in Posts /\ Answers[f][ks[i]] \in Nat \ {0}
  <2> TAKE i \in 1..n
  <2>1. Answer(f, ks[i]) \in AnswerFrames(f)
    BY DEF AnswerFrames
  <2>2. Answers[f] \in Seq(Nat \ {0}) /\ ks[i] \in DOMAIN Answers[f]
    BY WireAssumption
  <2>3. Answers[f][ks[i]] \in Nat \ {0}
    BY <2>2, LenProperties
  <2> QED
    BY <2>1, <2>3 DEF Posts
<1>2. \A i \in 1..n : F[i] = Frame(Answer(f, ks[i]), Answers[f][ks[i]]) /\ F[i] \in Seq(DownUnit)
  <2> TAKE i \in 1..n
  <2>1. F[i] = Frame(Answer(f, ks[i]), Answers[f][ks[i]])
    OBVIOUS
  <2> HIDE DEF F
  <2> QED
    BY <1>1, <2>1, PostFrame
<1>3. A \in Seq(Posts) /\ Len(A) = n /\ \A i \in 1..n : A[i] = Answer(f, ks[i])
  <2>1. A \in [1..n -> Posts] /\ \A i \in 1..n : A[i] = Answer(f, ks[i])
    BY <1>1
  <2> HIDE DEF A
  <2>2. A \in Seq(Posts)
    BY <2>1, SeqDef
  <2>3. Len(A) \in Nat /\ DOMAIN A = 1..Len(A) /\ DOMAIN A = 1..n
    BY <2>1, <2>2, LenProperties
  <2> QED
    BY <2>1, <2>2, <2>3
<1>4. Len(F) = n
  <2>1. F \in [1..n -> Seq(DownUnit)]
    BY <1>2
  <2> HIDE DEF F
  <2>2. F \in Seq(Seq(DownUnit))
    BY <2>1, SeqDef
  <2>3. Len(F) \in Nat /\ DOMAIN F = 1..Len(F) /\ DOMAIN F = 1..n
    BY <2>1, <2>2, LenProperties
  <2>4. Len(F) \in Nat /\ 1..Len(F) = 1..n
    BY <2>3
  <2>5. \A m \in Nat : 1..m = 1..n => m = n
    <3> SUFFICES ASSUME NEW m \in Nat, 1..m = 1..n PROVE m = n
      OBVIOUS
    <3>1. m < n => n \in 1..n /\ n \notin 1..m
      OBVIOUS
    <3>2. n < m => m \in 1..m /\ m \notin 1..n
      OBVIOUS
    <3> QED
      BY <3>1, <3>2
  <2> QED
    BY <2>4, <2>5
<1> HIDE DEF F, A
<1> DEFINE b == BytesBehind(q, F)
<1>5. /\ b[0] = q /\ b[n] = Behind(q, F)
      /\ \A k \in 0..n : k < n => b[k + 1] = b[k] \o F[k + 1]
  <2>1. \A k \in 1..n : F[k] \in Seq(DownUnit)
    BY <1>2
  <2> QED
    <3>1. WrittenInTurn(b, q, F, n)
      BY <1>4, <2>1, BehindSteps
    <3> HIDE DEF b
    <3> QED
      BY <3>1 DEF WrittenInTurn
<1> HIDE DEF b
<1> DEFINE M == {m \in Nat : m <= n => Grown(q, P, c, b[m], All(m))}
<1>6. 0 \in M
  <2>1. SubSeq(A, 1, 0) = <<>>
    BY <1>3, SubSeqProperties, EmptySeq
  <2>2. All(0) = P
    BY <2>1, ConcatEmptySeq
  <2> HIDE DEF All
  <2>3. Len(P) \in Nat
    BY LenProperties
  <2> QED
    BY <1>5, <2>2, <2>3 DEF Grown
<1>7. ASSUME NEW m \in Nat, m \in M PROVE m + 1 \in M
  <2>1. SUFFICES ASSUME m + 1 <= n PROVE Grown(q, P, c, b[m + 1], All(m + 1))
    BY <1>7
  <2>2. Grown(q, P, c, b[m], All(m)) /\ m + 1 \in 1..n /\ m \in 0..n /\ m < n
    BY <1>7, <2>1
  <2>3. All(m + 1) = Append(All(m), Answer(f, ks[m + 1]))
    <3>1. SubSeq(A, 1, m + 1) = Append(SubSeq(A, 1, m), A[m + 1])
      BY <1>3, <2>2, SubSeqProperties, AppendProperties
    <3>2. SubSeq(A, 1, m) \in Seq(Posts) /\ A[m + 1] \in Posts
      BY <1>1, <1>3, <2>2, SubSeqProperties
    <3>3. \A u \in Seq(Posts), x \in Posts : P \o Append(u, x) = Append(P \o u, x)
      BY AppendProperties, ConcatProperties
    <3> QED
      BY <1>3, <2>2, <3>1, <3>2, <3>3
  <2>4. b[m + 1] = b[m] \o Frame(Answer(f, ks[m + 1]), Answers[f][ks[m + 1]])
    BY <1>2, <1>5, <2>2
  <2>5. /\ b[m] \in Seq(DownUnit) /\ All(m) \in Seq(Posts) /\ Stream(b[m])
        /\ Matches(b[m], 1, All(m), c) /\ Len(P) <= Len(All(m))
    BY <2>2 DEF Grown
  <2> HIDE DEF All
  <2>6. c \in 0..Len(All(m))
    BY <2>5, LenProperties
  <2>7. Grown(b[m], All(m), c, b[m + 1], All(m + 1))
    BY <1>1, <2>2, <2>3, <2>4, <2>5, <2>6, AddFrame
  <2> QED
    BY <2>2, <2>5, <2>7, GrownMore
<1> HIDE DEF M
<1>8. 0..n \subseteq M
  BY <1>6, <1>7, NatAll
<1>9. Grown(q, P, c, b[n], All(n))
  <2>1. n \in M
    BY <1>8
  <2> QED
    BY <2>1 DEF M
<1>10. SubSeq(A, 1, n) = A
  BY <1>3, SubSeqProperties
<1> QED
  BY <1>5, <1>9, <1>10 DEF F, A

-----------------------------------------------------------------------------
(* The invariant.                                                          *)

Processes ==
    /\ conn \in {"connected", "shut", "gone"} /\ server \in {"up", "aborted"}
    /\ client \in {"up", "ended"} /\ table \in BOOLEAN
    /\ reads \subseteq {"frame", "frames", "torn"} /\ recvs \subseteq {"whole", "part", "middle"}

\* What a thread has still to write are the last units of one frame.
Writings ==
    /\ writing \in [Threads -> Seq(UpUnit)]
    /\ \A t \in Threads : \A i \in 1..Len(writing[t]) :
           /\ writing[t][i].of = writing[t][1].of
           /\ writing[t][i].at = writing[t][1].at + (i - 1)

UpShape ==
    /\ todo \in [Threads -> Seq(Request)] /\ Writings
    /\ up \in Seq(UpUnit) /\ sent \in Seq(Request) /\ handled \in Seq(Request)

\* c payloads have been read, the others are under way.
ReadUp(c) ==
    /\ Matches(up, 3, sent, c) /\ Within(handled, sent, c)
    /\ reads \subseteq {"frame"} /\ conn # "gone" => c = Len(handled)

UpInv == UpShape /\ \E c \in 0..Len(sent) : ReadUp(c)

FrameInv ==
    reads \subseteq {"frame"} =>
        /\ Len(handled) <= Len(sent) /\ \A i \in 1..Len(handled) : handled[i] = sent[i]
        /\ server = "up"
        /\ client = "up" => conn = "connected"

DownShape ==
    /\ down \in Seq(DownUnit) /\ posted \in Seq(Posts) /\ seen \in Seq(Posts)
    /\ Stream(down)

\* c frames have reached the client, the others are under way.
ReadDown(c) ==
    /\ Matches(down, 1, posted, c) /\ Within(seen, posted, c)
    /\ client = "up" => \A k \in 1..c : Has(seen, posted[k]) \/ posted[k] \in dropped

DownInv ==
    /\ DownShape
    /\ \E c \in 0..Len(posted) : ReadDown(c)
    /\ down # <<>> /\ down[1].at # 1 => "part" \in recvs

HistoryInv ==
    /\ chats \in Seq(Chat) /\ faults \in Nat
    /\ Within(chats, seen, Len(seen))
    /\ table /\ faults = 0 => \A i \in DOMAIN seen : seen[i] \in Chat => Has(chats, seen[i])

WireInv == Processes /\ UpInv /\ FrameInv /\ DownInv /\ EndMeansTorn /\ HistoryInv

-----------------------------------------------------------------------------
(* The initial states.                                                     *)

LEMMA StartInv == Init => WireInv
<1> SUFFICES ASSUME Init PROVE WireInv
  OBVIOUS
<1>1. /\ up = <<>> /\ down = <<>> /\ sent = <<>> /\ handled = <<>> /\ posted = <<>>
      /\ seen = <<>> /\ chats = <<>> /\ writing = [t \in Threads |-> <<>>]
      /\ faults = 0 /\ reads = {} /\ client = "up" /\ conn = "connected" /\ server = "up"
  BY DEF Init
<1>2. Len(<<>>) = 0 /\ 1..0 = {} /\ 0 \in 0..0 /\ \A S : <<>> \in Seq(S)
  BY EmptySeq
<1>3. Processes /\ EndMeansTorn
  BY DEF Init, Processes, EndMeansTorn
<1>4. UpShape
  <2>1. todo \in [Threads -> Seq(Request)]
    BY WireAssumption DEF Init
  <2>2. Writings
    BY <1>1, <1>2 DEF Writings
  <2> QED
    BY <1>1, <1>2, <2>1, <2>2 DEF UpShape
<1>5. ReadUp(0)
  BY <1>1, <1>2, MatchesEmpty, WithinEmpty DEF ReadUp
<1>6. UpInv
  BY <1>1, <1>2, <1>4, <1>5 DEF UpInv
<1>7. FrameInv
  BY <1>1, <1>2 DEF FrameInv
<1>8. Stream(down)
  BY <1>1, <1>2 DEF Stream
<1>9. ReadDown(0)
  BY <1>1, <1>2, MatchesEmpty, WithinEmpty DEF ReadDown
<1>10. DownInv
  BY <1>1, <1>2, <1>8, <1>9 DEF DownInv, DownShape
<1>11. HistoryInv
  <2>1. DOMAIN seen = {}
    BY <1>1
  <2> QED
    BY <1>1, <1>2, <2>1, WithinEmpty DEF HistoryInv
<1> QED
  BY <1>3, <1>6, <1>7, <1>10, <1>11 DEF WireInv

-----------------------------------------------------------------------------
(* From the server to the client.                                          *)

LEMMA GrownSame ==
    ASSUME NEW q \in Seq(DownUnit), NEW P \in Seq(Posts), NEW c, Stream(q), Matches(q, 1, P, c)
    PROVE  Grown(q, P, c, q, P)
<1>1. Len(P) \in Nat
  BY LenProperties
<1> QED
  BY <1>1 DEF Grown

LEMMA AllAnswersShape ==
    ASSUME NEW f \in Request
    PROVE  /\ AllAnswers(f) \in Seq(DOMAIN Answers[f]) /\ Len(AllAnswers(f)) = Len(Answers[f])
           /\ DOMAIN Answers[f] = 1..Len(Answers[f]) /\ Len(Answers[f]) \in Nat
<1> DEFINE n == Len(Answers[f])
<1>1. n \in Nat /\ DOMAIN Answers[f] = 1..n
  BY WireAssumption, LenProperties
<1>2. AllAnswers(f) = [k \in 1..n |-> k]
  BY DEF AllAnswers
<1> HIDE DEF n
<1>3. AllAnswers(f) \in [1..n -> 1..n]
  BY <1>2
<1>4. AllAnswers(f) \in Seq(1..n)
  BY <1>1, <1>3, SeqDef
<1>5. Len(AllAnswers(f)) \in Nat /\ 1..Len(AllAnswers(f)) = 1..n
  BY <1>3, <1>4, LenProperties
<1>6. \A m \in Nat : 1..m = 1..n => m = n
  <2> SUFFICES ASSUME NEW m \in Nat, 1..m = 1..n PROVE m = n
    OBVIOUS
  <2>1. m < n => n \in 1..n /\ n \notin 1..m
    BY <1>1
  <2>2. n < m => m \in 1..m /\ m \notin 1..n
    BY <1>1
  <2> QED
    BY <1>1, <2>1, <2>2
<1>7. Len(AllAnswers(f)) = n
  BY <1>5, <1>6
<1> QED
  BY <1>1, <1>4, <1>7 DEF n

LEMMA ReplyGrows ==
    ASSUME NEW f \in Request, Reply(f), DownShape,
           NEW c \in 0..Len(posted), Matches(down, 1, posted, c)
    PROVE  /\ Grown(down, posted, c, down', posted')
           /\ UNCHANGED faults \/ faults' = faults + 1
<1>1. down \in Seq(DownUnit) /\ posted \in Seq(Posts) /\ Stream(down)
  BY DEF DownShape
<1>2. ASSUME NEW ks \in Seq(DOMAIN Answers[f]), Answered(f, ks)
      PROVE  Grown(down, posted, c, down', posted')
  <2>1. CASE conn # "connected"
    <3>1. down' = down /\ posted' = posted
      BY <1>2, <2>1 DEF Answered
    <3> QED
      BY <1>1, <3>1, GrownSame
  <2>2. CASE conn = "connected"
    <3>1. Len(ks) \in Nat /\ \A i \in 1..Len(ks) : ks[i] \in DOMAIN Answers[f]
      BY LenProperties
    <3>2. Grown(down, posted, c,
                Behind(down, [k \in 1..Len(ks) |-> Frame(Answer(f, ks[k]), Answers[f][ks[k]])]),
                posted \o [k \in 1..Len(ks) |-> Answer(f, ks[k])])
      BY <1>1, <3>1, AddAnswers
    <3>3. /\ down' = Behind(down, [k \in 1..Len(ks) |-> Frame(Answer(f, ks[k]), Answers[f][ks[k]])])
          /\ posted' = posted \o [k \in 1..Len(ks) |-> Answer(f, ks[k])]
      BY <1>2, <2>2 DEF Answered
    <3> QED
      BY <3>2, <3>3
  <2> QED
    BY <2>1, <2>2
<1>3. CASE Answered(f, AllAnswers(f)) /\ UNCHANGED faults
  BY <1>2, <1>3, AllAnswersShape
<1>4. ASSUME Fault, NEW k \in DOMAIN Answers[f],
             Answered(f, SubSeq(AllAnswers(f), 1, k - 1) \o From(AllAnswers(f), k))
      PROVE  Grown(down, posted, c, down', posted')
  <2>1. SubSeq(AllAnswers(f), 1, k - 1) \in Seq(DOMAIN Answers[f])
    <3>1. k - 1 \in 0..Len(AllAnswers(f))
      BY AllAnswersShape
    <3> QED
      BY <3>1, AllAnswersShape, FromShape
  <2>2. From(AllAnswers(f), k) \in Seq(DOMAIN Answers[f])
    <3>1. k \in 0..Len(AllAnswers(f))
      BY AllAnswersShape
    <3> QED
      BY <3>1, AllAnswersShape, FromShape
  <2>3. SubSeq(AllAnswers(f), 1, k - 1) \o From(AllAnswers(f), k) \in Seq(DOMAIN Answers[f])
    BY <2>1, <2>2, ConcatProperties
  <2> QED
    BY <1>2, <1>4, <2>3
<1>5. Fault => faults' = faults + 1
  BY DEF Fault
<1> QED
  BY <1>3, <1>4, <1>5 DEF Reply

LEMMA WithinLonger ==
    ASSUME NEW S, NEW T, NEW s \in Seq(S), NEW t \in Seq(T), NEW u \in Seq(T),
           NEW c \in 0..Len(t), Within(s, t, c), \A k \in 1..Len(t) : u[k] = t[k]
    PROVE  Within(s, u, c)
<1>1. Len(t) \in Nat /\ Len(s) \in Nat
  BY LenProperties
<1>2. PICK at \in [1..Len(s) -> 1..c] :
          \A i \in 1..Len(s) : s[i] = t[at[i]] /\ \A j \in 1..(i - 1) : at[j] < at[i]
  BY DEF Within
<1>3. \A i \in 1..Len(s) : s[i] = u[at[i]] /\ \A j \in 1..(i - 1) : at[j] < at[i]
  <2> TAKE i \in 1..Len(s)
  <2>1. at[i] \in 1..c
    BY <1>2
  <2>2. at[i] \in 1..Len(t)
    BY <1>1, <2>1
  <2>3. u[at[i]] = t[at[i]]
    BY <2>2
  <2> QED
    BY <1>2, <2>3
<1> QED
  BY <1>3 DEF Within

\* Frames are appended, or nothing happens but that the client ends.
LEMMA DownGrows ==
    ASSUME DownInv, UNCHANGED <<seen, dropped, recvs>>, client' \in {client, "ended"},
           \A c \in 0..Len(posted) :
               Matches(down, 1, posted, c) => Grown(down, posted, c, down', posted')
    PROVE  DownInv'
<1>1. DownShape /\ (down # <<>> /\ down[1].at # 1 => "part" \in recvs)
  BY DEF DownInv
<1>2. PICK c \in 0..Len(posted) : ReadDown(c)
  BY DEF DownInv
<1>3. Grown(down, posted, c, down', posted')
  BY <1>2 DEF ReadDown
<1>4. /\ down' \in Seq(DownUnit) /\ posted' \in Seq(Posts) /\ Stream(down')
      /\ Matches(down', 1, posted', c)
      /\ Len(posted) <= Len(posted') /\ \A k \in 1..Len(posted) : posted'[k] = posted[k]
      /\ down' # <<>> /\ down'[1].at # 1 => down # <<>> /\ down'[1] = down[1]
  BY <1>3 DEF Grown
<1>5. seen \in Seq(Posts) /\ posted \in Seq(Posts)
  BY <1>1 DEF DownShape
<1>6. c \in 0..Len(posted')
  BY <1>4, <1>5, LenProperties
<1>7. Within(seen', posted', c)
  BY <1>2, <1>4, <1>5, WithinLonger DEF ReadDown
<1>8. client' = "up" => \A k \in 1..c : Has(seen', posted'[k]) \/ posted'[k] \in dropped'
  <2> SUFFICES ASSUME client' = "up", NEW k \in 1..c
               PROVE  Has(seen', posted'[k]) \/ posted'[k] \in dropped'
    OBVIOUS
  <2>1. client = "up"
    OBVIOUS
  <2>2. k \in 1..Len(posted)
    BY <1>5, LenProperties
  <2>3. posted'[k] = posted[k]
    BY <1>4, <2>2
  <2> QED
    BY <1>2, <2>1, <2>3 DEF ReadDown
<1>9. ReadDown(c)'
  BY <1>4, <1>7, <1>8 DEF ReadDown
<1>10. DownShape'
  BY <1>4, <1>5 DEF DownShape
<1>11. (down # <<>> /\ down[1].at # 1 => "part" \in recvs)'
  BY <1>1, <1>4
<1> QED
  BY <1>6, <1>9, <1>10, <1>11 DEF DownInv

\* One recv.
LEMMA DownRead ==
    ASSUME Processes, DownInv, NEW n \in 1..Len(down), Recv(n)
    PROVE  DownInv' /\ (client' = "ended" => "part" \in recvs')
<1> DEFINE s == SubSeq(down, 1, n)
<1>1. /\ DownShape /\ (down # <<>> /\ down[1].at # 1 => "part" \in recvs)
      /\ down \in Seq(DownUnit) /\ posted \in Seq(Posts) /\ seen \in Seq(Posts) /\ Stream(down)
  BY DEF DownInv, DownShape
<1>2. PICK c \in 0..Len(posted) : ReadDown(c)
  BY DEF DownInv
<1>3. /\ client = "up" /\ down' = From(down, n) /\ recvs' = recvs \cup {Found(n)}
      /\ posted' = posted /\ (RecvFrame(n) \/ RecvBroken(n))
  BY DEF Recv, serverVars
<1>4. /\ Len(down) \in Nat /\ n \in 0..Len(down) /\ n \in Nat \ {0} /\ down # <<>>
      /\ 1 \in 1..Len(down) /\ Len(posted) \in Nat
      /\ \A i \in 1..Len(down) : down[i] \in DownUnit
  <2>1. Len(down) \in Nat /\ Len(posted) \in Nat
    BY <1>1, LenProperties
  <2>2. down # <<>>
    BY <2>1
  <2> QED
    BY <1>1, <2>1, <2>2
<1>5. PICK d \in c..Len(posted) : CutAt(down, 1, posted, c, n, d)
  <2>1. Matches(down, 1, posted, c)
    BY <1>2 DEF ReadDown
  <2> QED
    BY <1>1, <1>4, <2>1, MatchesCut
<1>6. /\ s \in Seq(DownUnit) /\ \A i \in 1..n : s[i] = down[i]
      /\ From(down, n) \in Seq(DownUnit)
  BY <1>1, <1>4, FromShape
<1>7. s[1] = down[1]
  <2>1. 1 \in 1..n
    BY <1>4
  <2> QED
    BY <1>6, <2>1
<1> HIDE DEF s
<1>8. Within(seen, posted, c) /\ \A k \in 1..c : Has(seen, posted[k]) \/ posted[k] \in dropped
  BY <1>2, <1>3 DEF ReadDown
<1>9. d \in 0..Len(posted)
  BY <1>4, <1>5
<1>10. ASSUME RecvBroken(n)
       PROVE  ReadDown(d)' /\ seen' \in Seq(Posts) /\ (client' = "ended" => "part" \in recvs')
  <2>1. client' = "ended" /\ seen' = seen
    BY <1>10 DEF RecvBroken, End
  <2>2. Within(seen, posted, d)
    BY <1>1, <1>5, <1>8, WithinMore
  <2>3. ReadDown(d)'
    BY <1>3, <1>5, <2>1, <2>2 DEF ReadDown, CutAt
  <2>4. "part" \in recvs'
    <3>1. CASE down[1].at # 1
      BY <1>1, <1>3, <1>4, <3>1
    <3>2. CASE down[1].at = 1
      <4>1. down[1].size \in Nat /\ down[1].size >= 6
        BY <1>4 DEF DownUnit
      <4>2. n < down[1].size
        BY <1>4, <1>10, <3>2, <4>1 DEF RecvBroken
      <4>3. down[n].at = n /\ down[n].size = down[1].size
        BY <1>1, <1>4, <3>2, <4>2, FirstFrame
      <4>4. n # down[1].size
        BY <1>4, <4>1, <4>2
      <4>5. Found(n) = "part"
        BY <3>2, <4>3, <4>4 DEF Found
      <4> QED
        BY <1>3, <4>5
    <3> QED
      BY <3>1, <3>2
  <2> QED
    BY <1>1, <2>1, <2>3, <2>4
<1>11. ASSUME RecvFrame(n)
       PROVE  ReadDown(d)' /\ seen' \in Seq(Posts) /\ (client' = "ended" => "part" \in recvs')
  <2>1. /\ down[1].at = 1 /\ seen' = Append(seen, down[1].of) /\ client' = client
        /\ dropped' = dropped \cup ({s[i].of : i \in 1..n} \ {down[1].of})
    BY <1>7, <1>11 DEF RecvFrame, s
  <2>2. 1 \in Marks(down, 1) /\ 1 <= n
    BY <1>4, <2>1 DEF Marks
  <2>3. PICK k \in (c + 1)..d : posted[k] = down[1].of
    BY <1>5, <2>2 DEF CutAt
  <2>4. down[1].of \in Posts
    BY <1>4 DEF DownUnit
  <2>5. Within(seen', posted, d)
    BY <1>1, <1>5, <1>8, <2>1, <2>3, <2>4, WithinAppend
  <2>6. \A x : Has(seen, x) \/ x = down[1].of => Has(seen', x)
    <3>1. /\ DOMAIN seen = 1..Len(seen) /\ Len(seen) \in Nat
          /\ DOMAIN seen' = 1..(Len(seen) + 1) /\ seen'[Len(seen) + 1] = down[1].of
          /\ \A i \in 1..Len(seen) : seen'[i] = seen[i]
      <4>1. seen' \in Seq(Posts) /\ Len(seen') = Len(seen) + 1
        BY <1>1, <2>1, <2>4, AppendProperties
      <4> QED
        BY <1>1, <2>1, <2>4, <4>1, AppendProperties, LenProperties
    <3> TAKE x
    <3>2. CASE Has(seen, x)
      <4>1. PICK i \in 1..Len(seen) : seen[i] = x
        BY <3>1, <3>2 DEF Has
      <4>2. i \in DOMAIN seen' /\ seen'[i] = x
        BY <3>1, <4>1
      <4> QED
        BY <4>2 DEF Has
    <3>3. CASE x = down[1].of
      <4>1. Len(seen) + 1 \in DOMAIN seen'
        BY <3>1
      <4> QED
        BY <3>1, <3>3, <4>1 DEF Has
    <3> QED
      BY <3>2, <3>3
  <2>7. ASSUME NEW m \in 1..d PROVE Has(seen', posted[m]) \/ posted[m] \in dropped'
    <3>1. CASE m \in 1..c
      BY <1>8, <2>1, <2>6, <3>1
    <3>2. CASE m \in (c + 1)..d
      <4>1. PICK j \in Marks(down, 1) : j <= n /\ posted[m] = down[j].of
        BY <1>5, <3>2 DEF CutAt
      <4>2. j \in 1..n /\ s[j].of = posted[m]
        <5>1. j \in 1..n
          BY <1>4, <4>1 DEF Marks
        <5> QED
          BY <1>6, <4>1, <5>1
      <4> QED
        BY <2>1, <2>6, <4>2
    <3>3. m \in 1..c \/ m \in (c + 1)..d
      BY <1>4, <1>5
    <3> QED
      BY <3>1, <3>2, <3>3
  <2>8. ReadDown(d)'
    BY <1>3, <1>5, <2>5, <2>7 DEF ReadDown, CutAt
  <2>9. seen' \in Seq(Posts)
    BY <1>1, <2>1, <2>4, AppendProperties
  <2> QED
    BY <1>3, <1>9, <2>1, <2>8, <2>9
<1>12. ReadDown(d)' /\ seen' \in Seq(Posts) /\ (client' = "ended" => "part" \in recvs')
  BY <1>3, <1>10, <1>11
<1>13. Stream(down') /\ (down' # <<>> /\ down'[1].at # 1 => down[n].at # down[n].size)
  BY <1>1, <1>3, StreamCut
<1>14. (down # <<>> /\ down[1].at # 1 => "part" \in recvs)'
  <2> SUFFICES ASSUME down' # <<>> /\ down'[1].at # 1 PROVE "part" \in recvs'
    OBVIOUS
  <2>1. down[1].at # 1 \/ Found(n) = "part"
    BY <1>13 DEF Found
  <2> QED
    BY <1>1, <1>3, <1>4, <2>1
<1>15. DownShape'
  BY <1>1, <1>3, <1>6, <1>12, <1>13 DEF DownShape
<1>16. d \in 0..Len(posted')
  BY <1>3, <1>9
<1> QED
  BY <1>12, <1>14, <1>15, <1>16 DEF DownInv

-----------------------------------------------------------------------------
(* From the client to the server.                                          *)

LEMMA FrameCounts ==
    ASSUME NEW f \in Request
    PROVE  \A i \in 1..Len(Frame(f, Blocks[f])) :
               /\ Frame(f, Blocks[f])[i].of = Frame(f, Blocks[f])[1].of
               /\ Frame(f, Blocks[f])[i].at = Frame(f, Blocks[f])[1].at + (i - 1)
<1> DEFINE b == Blocks[f]
           F == Frame(f, b)
           z == 4 + 2 * b
<1>1. b \in Nat \ {0}
  BY WireAssumption
<1>2. z \in Nat /\ 1 \in 1..z
  BY <1>1
<1> HIDE DEF b
<1>3. Len(F) = z /\ \A i \in 1..z : F[i] = [of |-> f, at |-> i, size |-> z]
  BY <1>1, FrameShape
<1> HIDE DEF z, F
<1>4. \A i \in 1..z : F[i].of = f /\ F[i].at = i
  BY <1>3
<1>5. \A i \in 1..z : i = 1 + (i - 1)
  BY <1>2
<1> QED
  BY <1>2, <1>3, <1>4, <1>5 DEF F, b

LEMMA WritingsChange ==
    ASSUME Writings, NEW t \in Threads, NEW w \in Seq(UpUnit),
           writing' = [writing EXCEPT ![t] = w],
           \A i \in 1..Len(w) : w[i].of = w[1].of /\ w[i].at = w[1].at + (i - 1)
    PROVE  Writings'
<1>1. writing' \in [Threads -> Seq(UpUnit)]
  BY DEF Writings
<1>2. ASSUME NEW u \in Threads
      PROVE  \A i \in 1..Len(writing'[u]) :
                 /\ writing'[u][i].of = writing'[u][1].of
                 /\ writing'[u][i].at = writing'[u][1].at + (i - 1)
  <2>1. CASE u = t
    <3>1. writing'[u] = w
      BY <2>1 DEF Writings
    <3> QED
      BY <3>1
  <2>2. CASE u # t
    <3>1. writing'[u] = writing[u]
      BY <2>2 DEF Writings
    <3> QED
      BY <3>1 DEF Writings
  <2> QED
    BY <2>1, <2>2
<1> QED
  BY <1>1, <1>2 DEF Writings

\* The frame a thread writes is encrypted, goes on or is given up.
LEMMA BeginUp ==
    ASSUME UpInv, NEW t \in Threads, Begin(t)
    PROVE  UpInv'
<1>1. UpShape /\ Writings
  BY DEF UpInv, UpShape
<1>2. PICK c \in 0..Len(sent) : ReadUp(c)
  BY DEF UpInv
<1>3. /\ UNCHANGED <<up, sent, handled, reads, conn>>
      /\ todo' = [todo EXCEPT ![t] = Tail(@)] /\ todo[t] # <<>>
      /\ writing' = [writing EXCEPT ![t] = Frame(Head(todo[t]), Blocks[Head(todo[t])])]
             \/ writing' = writing
  BY DEF Begin, serverVars
<1>4. todo[t] \in Seq(Request) /\ Head(todo[t]) \in Request /\ Tail(todo[t]) \in Seq(Request)
  BY <1>1, <1>3, HeadTailProperties DEF UpShape
<1>5. todo' \in [Threads -> Seq(Request)]
  BY <1>1, <1>3, <1>4 DEF UpShape
<1> DEFINE F == Frame(Head(todo[t]), Blocks[Head(todo[t])])
<1>6. /\ F \in Seq(UpUnit)
      /\ \A i \in 1..Len(F) : F[i].of = F[1].of /\ F[i].at = F[1].at + (i - 1)
  BY <1>4, RequestFrame, FrameCounts
<1> HIDE DEF F
<1>7. Writings'
  <2>1. CASE writing' = writing
    BY <1>1, <2>1 DEF Writings
  <2>2. CASE writing' = [writing EXCEPT ![t] = F]
    BY <1>1, <1>6, <2>2, WritingsChange
  <2> QED
    BY <1>3, <2>1, <2>2 DEF F
<1>8. UpShape'
  BY <1>1, <1>3, <1>5, <1>7 DEF UpShape
<1>9. ReadUp(c)'
  BY <1>2, <1>3 DEF ReadUp
<1> QED
  BY <1>2, <1>3, <1>8, <1>9 DEF UpInv

LEMMA WriteFailsUp ==
    ASSUME UpInv, NEW t \in Threads, WriteFails(t)
    PROVE  UpInv'
<1>1. UpShape /\ Writings
  BY DEF UpInv, UpShape
<1>2. PICK c \in 0..Len(sent) : ReadUp(c)
  BY DEF UpInv
<1>3. UNCHANGED <<up, sent, handled, reads, conn, todo>> /\ writing' = [writing EXCEPT ![t] = <<>>]
  BY DEF WriteFails, serverVars
<1>4. <<>> \in Seq(UpUnit) /\ 1..Len(<<>>) = {}
  BY EmptySeq
<1>5. Writings'
  <2>1. \A i \in 1..Len(<<>>) : <<>>[i].of = <<>>[1].of /\ <<>>[i].at = <<>>[1].at + (i - 1)
    BY <1>4
  <2> QED
    BY <1>1, <1>3, <1>4, <2>1, WritingsChange
<1>6. UpShape'
  BY <1>1, <1>3, <1>5 DEF UpShape
<1>7. ReadUp(c)'
  BY <1>2, <1>3 DEF ReadUp
<1> QED
  BY <1>2, <1>3, <1>6, <1>7 DEF UpInv

\* One send(): its payload begins with it, or has begun, or has not.
LEMMA WriteUp ==
    ASSUME UpInv, NEW t \in Threads, NEW n \in 1..Len(writing[t]), Write(t, n)
    PROVE  /\ UpInv'
           /\ Len(sent) <= Len(sent') /\ \A i \in 1..Len(sent) : sent'[i] = sent[i]
<1> DEFINE w == SubSeq(writing[t], 1, n)
<1>1. UpShape /\ Writings /\ up \in Seq(UpUnit) /\ sent \in Seq(Request) /\ handled \in Seq(Request)
  BY DEF UpInv, UpShape
<1>2. PICK c \in 0..Len(sent) : ReadUp(c)
  BY DEF UpInv
<1>3. /\ UNCHANGED <<handled, reads, conn, todo>> /\ up' = up \o w /\ conn # "gone"
      /\ writing' = [writing EXCEPT ![t] = Rest(t, n)]
      /\ sent' = IF \E i \in 1..n : writing[t][i].at = 3
                 THEN Append(sent, writing[t][1].of) ELSE sent
  BY DEF Write, serverVars
<1>4. /\ writing[t] \in Seq(UpUnit) /\ Len(writing[t]) \in Nat /\ n \in 0..Len(writing[t])
      /\ 1 \in 1..Len(writing[t]) /\ n \in Nat
      /\ \A i \in 1..Len(writing[t]) : writing[t][i] \in UpUnit
                                       /\ writing[t][i].of = writing[t][1].of
                                       /\ writing[t][i].at = writing[t][1].at + (i - 1)
  <2>1. writing[t] \in Seq(UpUnit)
    BY <1>1 DEF Writings
  <2>2. Len(writing[t]) \in Nat
    BY <2>1, LenProperties
  <2>3. \A i \in 1..Len(writing[t]) : writing[t][i] \in UpUnit
    BY <2>1, ElementOfSeq
  <2> QED
    BY <1>1, <2>1, <2>2, <2>3 DEF Writings
<1>5. /\ w \in Seq(UpUnit) /\ Len(w) = n /\ \A i \in 1..n : w[i] = writing[t][i]
      /\ From(writing[t], n) \in Seq(UpUnit)
      /\ Len(From(writing[t], n)) = Len(writing[t]) - n
      /\ \A i \in 1..(Len(writing[t]) - n) : From(writing[t], n)[i] = writing[t][n + i]
  <2>1. writing[t] \in Seq(UpUnit) /\ n \in 0..Len(writing[t])
    BY <1>4
  <2> QED
    BY ONLY <2>1, FromShape
<1> HIDE DEF w
<1>6. writing[t][1].at \in Nat /\ writing[t][1].of \in Request
  BY <1>4, UnitSizes
<1>7. Writings'
  <2>1. Rest(t, n) \in Seq(UpUnit)
    BY <1>5, EmptySeq DEF Rest
  <2>2. ASSUME NEW i \in 1..Len(Rest(t, n))
        PROVE  Rest(t, n)[i].of = Rest(t, n)[1].of /\ Rest(t, n)[i].at = Rest(t, n)[1].at + (i - 1)
    <3>1. CASE t = "main"
      <4>1. Rest(t, n) = From(writing[t], n)
        BY <3>1 DEF Rest
      <4>2. /\ i \in 1..(Len(writing[t]) - n) /\ 1 \in 1..(Len(writing[t]) - n)
            /\ n + i \in 1..Len(writing[t]) /\ n + 1 \in 1..Len(writing[t])
        BY <1>4, <1>5, <2>2, <4>1
      <4>3. Rest(t, n)[i] = writing[t][n + i] /\ Rest(t, n)[1] = writing[t][n + 1]
        BY <1>5, <4>1, <4>2
      <4>4. /\ Rest(t, n)[i].of = writing[t][1].of /\ Rest(t, n)[1].of = writing[t][1].of
            /\ Rest(t, n)[i].at = writing[t][1].at + ((n + i) - 1)
            /\ Rest(t, n)[1].at = writing[t][1].at + ((n + 1) - 1)
        BY <1>4, <4>2, <4>3
      <4>5. \A a \in Nat : a + ((n + i) - 1) = (a + ((n + 1) - 1)) + (i - 1)
        BY <1>4
      <4> QED
        BY <1>6, <4>4, <4>5
    <3>2. CASE t # "main"
      <4>1. Rest(t, n) = <<>>
        BY <3>2 DEF Rest
      <4> QED
        BY <2>2, <4>1
    <3> QED
      BY <3>1, <3>2
  <2> QED
    BY <1>1, <1>3, <2>1, <2>2, WritingsChange
<1>8. Matches(up, 3, sent, c) /\ Within(handled, sent, c) /\ (reads \subseteq {"frame"} => c = Len(handled))
  BY <1>2, <1>3 DEF ReadUp
<1>9. up' \in Seq(UpUnit)
  BY <1>1, <1>3, <1>5, ConcatProperties
<1>10. CASE \E i \in 1..n : writing[t][i].at = 3
  <2>1. PICK j \in 1..n : writing[t][j].at = 3
    BY <1>10
  <2>2. j \in Marks(w, 3) /\ w[j].of = writing[t][1].of
    <3>1. j \in 1..Len(writing[t])
      BY <1>4
    <3> QED
      BY <1>4, <1>5, <2>1, <3>1 DEF Marks
  <2>3. ASSUME NEW i \in Marks(w, 3) PROVE i = j
    <3>1. i \in 1..n /\ w[i].at = 3
      BY <1>5 DEF Marks
    <3>2. i \in 1..Len(writing[t]) /\ j \in 1..Len(writing[t])
      BY <1>4, <3>1
    <3>3. writing[t][1].at + (i - 1) = 3 /\ writing[t][1].at + (j - 1) = 3
      BY <1>4, <1>5, <2>1, <3>1, <3>2
    <3>4. \A a \in Nat : a + (i - 1) = 3 /\ a + (j - 1) = 3 => i = j
      BY <1>4, <3>2
    <3> QED
      BY <1>6, <3>3, <3>4
  <2>4. Marks(w, 3) = {j}
    BY <2>2, <2>3
  <2>5. sent' = Append(sent, writing[t][1].of)
    BY <1>3, <1>10
  <2>6. Matches(up', 3, sent', c)
    <3>1. \A i \in Marks(w, 3), x \in Request :
              Marks(w, 3) = {i} /\ w[i].of = x => Matches(up \o w, 3, Append(sent, x), c)
      BY <1>1, <1>5, <1>8, MatchesJoin
    <3>2. Matches(up \o w, 3, Append(sent, writing[t][1].of), c)
      BY <1>6, <2>2, <2>4, <3>1
    <3> QED
      BY <1>3, <2>5, <3>2
  <2>7. Within(handled, sent', c)
    BY <1>1, <1>6, <1>8, <2>5, WithinMore
  <2>8. /\ sent' \in Seq(Request) /\ Len(sent') = Len(sent) + 1 /\ Len(sent) \in Nat
        /\ \A i \in 1..Len(sent) : sent'[i] = sent[i]
    BY <1>1, <1>6, <2>5, AppendProperties, LenProperties
  <2>9. c \in 0..Len(sent') /\ Len(sent) <= Len(sent')
    BY <2>8
  <2>10. ReadUp(c)'
    BY <1>3, <1>8, <2>6, <2>7 DEF ReadUp
  <2>11. UpShape'
    BY <1>1, <1>3, <1>7, <1>9, <2>8 DEF UpShape
  <2> QED
    BY <2>8, <2>9, <2>10, <2>11 DEF UpInv
<1>11. CASE ~\E i \in 1..n : writing[t][i].at = 3
  <2>1. Marks(w, 3) = {}
    BY <1>5, <1>11 DEF Marks
  <2>2. sent' = sent
    BY <1>3, <1>11
  <2>3. Matches(up', 3, sent', c)
    BY <1>1, <1>3, <1>5, <1>8, <2>1, <2>2, MatchesJoin
  <2>4. ReadUp(c)'
    BY <1>3, <1>8, <2>2, <2>3 DEF ReadUp
  <2>5. UpShape'
    BY <1>1, <1>3, <1>7, <1>9, <2>2 DEF UpShape
  <2>6. Len(sent) \in Nat
    BY <1>1, LenProperties
  <2> QED
    BY <2>2, <2>4, <2>5, <2>6 DEF UpInv
<1> QED
  BY <1>10, <1>11

\* What onMessage did with what a read found.
Handles(n) ==
    /\ handled' = Append(handled, up[3].of) /\ n >= 3 /\ up[3].at = 3
    /\ UNCHANGED <<conn, server>>

LEMMA OnMessageMeans ==
    ASSUME UpShape, NEW n \in 1..Len(up), OnMessage(n)
    PROVE  LET s == SubSeq(up, 1, n)
           IN  /\ s \in Seq(UpUnit) /\ s # <<>> /\ Len(s) = n /\ n \in 1..Len(up)
               /\ \A i \in 1..n : s[i] = up[i]
               /\ \/ Handles(n) /\ Reply(up[3].of) /\ up[3].of \in Request
                  \/ /\ UNCHANGED <<handled, posted, down, faults>> /\ Verdict(s) # {"handle"}
                     /\ \/ conn' = "shut" /\ server' = server
                        \/ conn' = "gone" /\ server' = "aborted" /\ "abort" \in Verdict(s)
<1> DEFINE s == SubSeq(up, 1, n)
<1>1. up \in Seq(UpUnit) /\ Len(up) \in Nat /\ n \in 0..Len(up) /\ n \in Nat \ {0}
  BY LenProperties DEF UpShape
<1>2. s \in Seq(UpUnit) /\ Len(s) = n /\ \A i \in 1..n : s[i] = up[i]
  BY <1>1, FromShape
<1> HIDE DEF s
<1>3. s # <<>>
  BY <1>1, <1>2
<1>4. PICK verdict \in Verdict(s) :
          \/ /\ verdict = "handle"
             /\ handled' = Append(handled, s[3].of)
             /\ Reply(s[3].of)
             /\ UNCHANGED <<conn, server>>
          \/ /\ verdict = "shutdown"
             /\ ShutDown
             /\ UNCHANGED <<server, handled, posted, down, faults>>
          \/ /\ verdict = "abort"
             /\ server' = "aborted" /\ conn' = "gone"
             /\ UNCHANGED <<handled, posted, down, faults>>
  BY DEF OnMessage, s
<1>5. CASE verdict = "handle"
  <2>1. Len(s) >= 5 /\ s[3].at = 3
    BY <1>2, <1>3, <1>5, VerdictMeans
  <2>2. 3 \in 1..n /\ n >= 3
    BY <1>1, <1>2, <2>1
  <2>3. s[3] = up[3] /\ s[3] \in UpUnit
    BY <1>2, <2>2, ElementOfSeq
  <2>4. s[3].of \in Request
    BY <2>3, UnitSizes
  <2>5. handled' = Append(handled, s[3].of) /\ Reply(s[3].of) /\ UNCHANGED <<conn, server>>
    BY <1>4, <1>5
  <2>6. Handles(n) /\ Reply(up[3].of)
    BY <2>1, <2>2, <2>3, <2>5 DEF Handles
  <2> QED
    BY <1>2, <1>3, <2>3, <2>4, <2>6 DEF s
<1>6. CASE verdict # "handle"
  <2>1. Verdict(s) # {"handle"}
    BY <1>4, <1>6
  <2>2. /\ UNCHANGED <<handled, posted, down, faults>>
        /\ \/ conn' = "shut" /\ server' = server
           \/ conn' = "gone" /\ server' = "aborted" /\ "abort" \in Verdict(s)
    BY <1>4, <1>6 DEF ShutDown
  <2> QED
    BY <1>2, <1>3, <2>1, <2>2 DEF s
<1> QED
  BY <1>5, <1>6

LEMMA ReadUpSteps ==
    ASSUME UpInv, FrameInv, NEW n \in 1..Len(up), OnMessage(n)
    PROVE  UpInv' /\ FrameInv'
<1> DEFINE s == SubSeq(up, 1, n)
<1>1. /\ UpShape /\ up \in Seq(UpUnit) /\ sent \in Seq(Request) /\ handled \in Seq(Request)
      /\ Len(sent) \in Nat /\ Len(handled) \in Nat /\ Len(up) \in Nat
  BY LenProperties DEF UpInv, UpShape
<1>2. PICK c \in 0..Len(sent) : ReadUp(c)
  BY DEF UpInv
<1>3. /\ server = "up" /\ conn # "gone" /\ UNCHANGED <<todo, writing, sent, client>>
      /\ reads' = reads \cup {Kind(s)} /\ up' = From(up, n)
  BY DEF OnMessage, clientVars, readerVars, Taken
<1>4. /\ s \in Seq(UpUnit) /\ s # <<>> /\ Len(s) = n /\ \A i \in 1..n : s[i] = up[i]
      /\ \/ Handles(n) /\ up[3].of \in Request
         \/ handled' = handled /\ Verdict(s) # {"handle"}
  BY <1>1, OnMessageMeans
<1>5. n \in 0..Len(up) /\ n \in Nat
  BY <1>1
<1>6. PICK d \in c..Len(sent) : CutAt(up, 3, sent, c, n, d)
  <2>1. Matches(up, 3, sent, c)
    BY <1>2 DEF ReadUp
  <2> QED
    BY <1>1, <1>5, <2>1, MatchesCut
<1>7. Within(handled, sent, c) /\ (reads \subseteq {"frame"} => c = Len(handled))
  BY <1>2, <1>3 DEF ReadUp
<1>8. From(up, n) \in Seq(UpUnit)
  BY <1>1, <1>5, FromShape
<1> HIDE DEF s
<1>9. d \in 0..Len(sent)
  BY <1>1, <1>6
<1>10. reads' \subseteq {"frame"} => reads \subseteq {"frame"} /\ Kind(s) = "frame"
  BY <1>3
<1>11. CASE Handles(n) /\ up[3].of \in Request
  <2>1. handled' = Append(handled, up[3].of) /\ n >= 3 /\ up[3].at = 3 /\ UNCHANGED <<conn, server>>
    BY <1>11 DEF Handles
  <2>2. 3 \in Marks(up, 3) /\ 3 <= n /\ 3 \in 1..n
    BY <1>1, <1>5, <2>1 DEF Marks
  <2>3. PICK k \in (c + 1)..d : sent[k] = up[3].of
    BY <1>6, <2>2 DEF CutAt
  <2>4. Within(handled', sent, d)
    BY <1>1, <1>6, <1>7, <1>11, <2>1, <2>3, WithinAppend
  <2>5. /\ handled' \in Seq(Request) /\ Len(handled') = Len(handled) + 1
        /\ handled'[Len(handled) + 1] = up[3].of
        /\ \A i \in 1..Len(handled) : handled'[i] = handled[i]
    BY <1>1, <1>11, <2>1, AppendProperties
  <2>6. ASSUME reads' \subseteq {"frame"}
        PROVE  d = Len(handled') /\ sent[d] = up[3].of
    <3>1. c = Len(handled) /\ Kind(s) = "frame"
      BY <1>7, <1>10, <2>6
    <3>2. Marks(s, 3) = {3}
      BY <1>4, <3>1, FrameIsHandled
    <3>3. \A i \in Marks(up, 3) : i <= n => i = 3
      <4> TAKE i \in Marks(up, 3)
      <4> HAVE i <= n
      <4>1. i \in 1..n /\ up[i].at = 3
        BY <1>1, <1>5 DEF Marks
      <4>2. i \in Marks(s, 3)
        BY <1>4, <4>1 DEF Marks
      <4> QED
        BY <3>2, <4>2
    <3>4. d = c + 1 /\ sent[c + 1] = up[3].of
      BY <1>6, <2>2, <3>3 DEF CutAt
    <3> QED
      BY <2>5, <3>1, <3>4
  <2>7. ReadUp(d)'
    BY <1>3, <1>6, <2>4, <2>6 DEF ReadUp, CutAt
  <2>8. UpShape'
    BY <1>1, <1>3, <1>8, <2>5 DEF UpShape, Writings
  <2>9. UpInv'
    BY <1>3, <1>9, <2>7, <2>8 DEF UpInv
  <2>10. FrameInv'
    <3> SUFFICES ASSUME reads' \subseteq {"frame"}
                 PROVE  /\ Len(handled') <= Len(sent')
                        /\ \A i \in 1..Len(handled') : handled'[i] = sent'[i]
                        /\ server' = "up"
                        /\ client' = "up" => conn' = "connected"
      BY DEF FrameInv
    <3>1. d = Len(handled) + 1 /\ Len(handled') = d /\ sent[d] = up[3].of
      BY <2>5, <2>6
    <3>2. \A i \in 1..Len(handled') : handled'[i] = sent'[i]
      <4> TAKE i \in 1..Len(handled')
      <4>1. i = d \/ i \in 1..Len(handled)
        BY <1>1, <3>1
      <4> QED
        BY <1>3, <1>10, <2>5, <3>1, <4>1 DEF FrameInv
    <3> QED
      BY <1>3, <1>9, <1>10, <2>1, <3>1, <3>2 DEF FrameInv
  <2> QED
    BY <2>9, <2>10
<1>12. CASE handled' = handled /\ Verdict(s) # {"handle"}
  <2>1. ~(reads' \subseteq {"frame"})
    <3>1. Kind(s) # "frame"
      BY <1>4, <1>12, FrameIsHandled
    <3> QED
      BY <1>10, <3>1
  <2>2. Within(handled, sent, d)
    BY <1>1, <1>6, <1>7, WithinMore
  <2>3. ReadUp(d)'
    BY <1>3, <1>6, <1>12, <2>1, <2>2 DEF ReadUp, CutAt
  <2>4. UpShape'
    BY <1>1, <1>3, <1>8, <1>12 DEF UpShape, Writings
  <2> QED
    BY <1>3, <1>9, <2>1, <2>3, <2>4 DEF UpInv, FrameInv
<1> QED
  BY <1>4, <1>11, <1>12

\* The connection is gone, and what was under way with it.
LEMMA OnCloseUp ==
    ASSUME UpInv, OnClose
    PROVE  UpInv'
<1>1. UpShape /\ sent \in Seq(Request) /\ handled \in Seq(Request) /\ Len(sent) \in Nat
  BY LenProperties DEF UpInv, UpShape
<1>2. PICK c \in 0..Len(sent) : ReadUp(c)
  BY DEF UpInv
<1>3. up' = <<>> /\ conn' = "gone" /\ UNCHANGED <<todo, writing, sent, handled, reads>>
  BY DEF OnClose, clientVars
<1>4. Within(handled, sent, c)
  BY <1>2 DEF ReadUp
<1>5. Len(sent) \in c..Len(sent) /\ Len(sent) \in 0..Len(sent)
  BY <1>1
<1>6. Within(handled, sent, Len(sent))
  BY <1>1, <1>4, <1>5, WithinMore
<1>7. Matches(<<>>, 3, sent, Len(sent))
  BY <1>1, MatchesGone
<1>8. ReadUp(Len(sent)) '
  BY <1>3, <1>6, <1>7 DEF ReadUp
<1>9. UpShape'
  BY <1>1, <1>3, EmptySeq DEF UpShape, Writings
<1> QED
  BY <1>3, <1>5, <1>8, <1>9 DEF UpInv

-----------------------------------------------------------------------------
(* The history, and each step.                                             *)

LEMMA HistorySame ==
    ASSUME HistoryInv, UNCHANGED <<chats, seen, table>>, faults' \in {faults, faults + 1}
    PROVE  HistoryInv'
<1>1. faults \in Nat
  BY DEF HistoryInv
<1>2. faults' \in Nat /\ (faults' = 0 => faults = 0)
  BY <1>1
<1> QED
  BY <1>2 DEF HistoryInv

\* What is inserted is what was seen last.
LEMMA HistoryRead ==
    ASSUME DownShape, HistoryInv, NEW n \in 1..Len(down), RecvFrame(n)
    PROVE  HistoryInv'
<1> DEFINE x == down[1].of
           m == Len(seen)
<1>1. down \in Seq(DownUnit) /\ seen \in Seq(Posts)
  BY DEF DownShape
<1>2. Len(down) \in Nat /\ m \in Nat /\ n \in 0..Len(down) /\ 1 \in 1..n /\ 1 \in 1..Len(down)
  BY <1>1, LenProperties
<1>3. SubSeq(down, 1, n)[1] = down[1]
  BY <1>1, <1>2, FromShape
<1>4. x \in Posts
  <2>1. down[1] \in DownUnit
    BY <1>1, <1>2, ElementOfSeq
  <2> QED
    BY <2>1 DEF DownUnit
<1>5. /\ seen' = Append(seen, x) /\ table' = table
      /\ IF x \in Chat THEN Insert(x) ELSE UNCHANGED <<chats, faults>>
  BY <1>3 DEF RecvFrame, Keeps
<1> HIDE DEF x
<1>6. /\ chats \in Seq(Chat) /\ faults \in Nat /\ Within(chats, seen, m)
      /\ table /\ faults = 0 => \A i \in DOMAIN seen : seen[i] \in Chat => Has(chats, seen[i])
  BY DEF HistoryInv
<1>7. /\ seen' \in Seq(Posts) /\ Len(seen') = m + 1 /\ seen'[m + 1] = x
      /\ \A i \in 1..m : seen'[i] = seen[i]
      /\ DOMAIN seen = 1..m /\ DOMAIN seen' = 1..(m + 1)
  <2>1. /\ seen' \in Seq(Posts) /\ Len(seen') = m + 1 /\ seen'[m + 1] = x
        /\ \A i \in 1..m : seen'[i] = seen[i]
    BY <1>1, <1>4, <1>5, AppendProperties
  <2> QED
    BY <1>1, <2>1, LenProperties
<1>8. Within(chats, seen', m)
  <2>1. m \in 0..Len(seen)
    BY <1>2
  <2> QED
    BY <1>1, <1>4, <1>5, <1>6, <2>1, WithinMore
<1>9. m \in 0..Len(seen') /\ m + 1 \in m..Len(seen') /\ m + 1 \in (m + 1)..(m + 1)
  BY <1>2, <1>7
<1> HIDE DEF m
<1>10. CASE chats' = chats /\ ((faults' = faults /\ (x \in Chat => ~table)) \/ faults' = faults + 1)
  <2>1. Within(chats, seen', m + 1)
    BY <1>6, <1>7, <1>8, <1>9, WithinMore
  <2>2. ASSUME table', faults' = 0, NEW i \in DOMAIN seen', seen'[i] \in Chat
        PROVE  Has(chats, seen'[i])
    <3>1. faults = 0 /\ x \notin Chat /\ table
      BY <1>5, <1>6, <1>10, <2>2
    <3>2. i \in 1..m \/ i = m + 1
      BY <1>7, <1>9, <2>2
    <3>3. i \in 1..m
      BY <1>7, <2>2, <3>1, <3>2
    <3> QED
      BY <1>6, <1>7, <2>2, <3>1, <3>3
  <2>3. faults' \in Nat
    BY <1>6, <1>10
  <2> QED
    BY <1>6, <1>7, <1>10, <2>1, <2>2, <2>3 DEF HistoryInv
<1>11. CASE x \in Chat /\ chats' = Append(chats, x) /\ faults' = faults
  <2>1. Within(chats', seen', m + 1)
    BY <1>6, <1>7, <1>8, <1>9, <1>11, WithinAppend
  <2>2. \A y : Has(chats, y) \/ y = x => Has(chats', y)
    <3>1. /\ DOMAIN chats = 1..Len(chats) /\ Len(chats) \in Nat
          /\ DOMAIN chats' = 1..(Len(chats) + 1) /\ chats'[Len(chats) + 1] = x
          /\ \A i \in 1..Len(chats) : chats'[i] = chats[i]
      <4>1. chats' \in Seq(Chat) /\ Len(chats') = Len(chats) + 1
        BY <1>6, <1>11, AppendProperties
      <4> QED
        BY <1>6, <1>11, <4>1, AppendProperties, LenProperties
    <3> TAKE y
    <3>2. CASE Has(chats, y)
      <4>1. PICK i \in 1..Len(chats) : chats[i] = y
        BY <3>1, <3>2 DEF Has
      <4>2. i \in DOMAIN chats' /\ chats'[i] = y
        BY <3>1, <4>1
      <4> QED
        BY <4>2 DEF Has
    <3>3. CASE y = x
      <4>1. Len(chats) + 1 \in DOMAIN chats'
        BY <3>1
      <4> QED
        BY <3>1, <3>3, <4>1 DEF Has
    <3> QED
      BY <3>2, <3>3
  <2>3. ASSUME table', faults' = 0, NEW i \in DOMAIN seen', seen'[i] \in Chat
        PROVE  Has(chats', seen'[i])
    <3>1. i \in 1..m \/ i = m + 1
      BY <1>7, <1>9, <2>3
    <3> QED
      BY <1>5, <1>6, <1>7, <1>11, <2>2, <2>3, <3>1
  <2>4. chats' \in Seq(Chat)
    BY <1>6, <1>11, AppendProperties
  <2> QED
    BY <1>6, <1>7, <1>11, <2>1, <2>3, <2>4 DEF HistoryInv
<1>12. \/ chats' = chats /\ ((faults' = faults /\ (x \in Chat => ~table)) \/ faults' = faults + 1)
       \/ x \in Chat /\ chats' = Append(chats, x) /\ faults' = faults
  BY <1>5 DEF Insert, Fault
<1> QED
  BY <1>10, <1>11, <1>12

LEMMA UpSame ==
    ASSUME UpInv, UNCHANGED <<todo, writing, up, sent, handled, reads, conn>>
    PROVE  UpInv'
<1>1. PICK c \in 0..Len(sent) : ReadUp(c)
  BY DEF UpInv
<1>2. ReadUp(c)'
  BY <1>1 DEF ReadUp
<1>3. UpShape'
  BY DEF UpInv, UpShape, Writings
<1> QED
  BY <1>1, <1>2, <1>3 DEF UpInv

LEMMA DownSame ==
    ASSUME DownInv, UNCHANGED <<down, posted, seen, dropped, recvs>>, client' \in {client, "ended"}
    PROVE  DownInv'
<1>1. down \in Seq(DownUnit) /\ posted \in Seq(Posts) /\ Stream(down)
  BY DEF DownInv, DownShape
<1>2. ASSUME NEW c \in 0..Len(posted), Matches(down, 1, posted, c)
      PROVE  Grown(down, posted, c, down', posted')
  BY <1>1, <1>2, GrownSame
<1> QED
  BY <1>2, DownGrows

LEMMA FrameSame ==
    ASSUME UpShape, FrameInv, UNCHANGED <<handled, reads, server>>,
           sent' \in Seq(Request), Len(sent) <= Len(sent'),
           \A i \in 1..Len(sent) : sent'[i] = sent[i],
           client' = "up" => client = "up" /\ conn' = conn
    PROVE  FrameInv'
<1>1. Len(sent) \in Nat /\ Len(handled) \in Nat /\ Len(sent') \in Nat
  BY LenProperties DEF UpShape
<1> SUFFICES ASSUME reads' \subseteq {"frame"}
             PROVE  /\ Len(handled') <= Len(sent')
                    /\ \A i \in 1..Len(handled') : handled'[i] = sent'[i]
                    /\ server' = "up"
                    /\ client' = "up" => conn' = "connected"
  BY DEF FrameInv
<1>2. /\ Len(handled) <= Len(sent) /\ \A i \in 1..Len(handled) : handled[i] = sent[i]
      /\ server = "up" /\ (client = "up" => conn = "connected")
  BY DEF FrameInv
<1>3. \A i \in 1..Len(handled) : i \in 1..Len(sent)
  BY <1>1, <1>2
<1>4. \A i \in 1..Len(handled) : handled[i] = sent'[i]
  BY <1>2, <1>3
<1>5. Len(handled) <= Len(sent')
  BY <1>1, <1>2
<1> QED
  BY <1>2, <1>4, <1>5

-----------------------------------------------------------------------------
LEMMA ClientSteps ==
    ASSUME WireInv, NEW t \in Threads,
           Begin(t) \/ WriteFails(t) \/ \E n \in 1..Len(writing[t]) : Write(t, n)
    PROVE  WireInv'
<1>1. Processes /\ UpInv /\ FrameInv /\ DownInv /\ EndMeansTorn /\ HistoryInv /\ UpShape
  BY DEF WireInv, UpInv
<1>2. /\ UNCHANGED <<serverVars, table, seen, dropped, chats, recvs, down>>
      /\ faults' \in {faults, faults + 1}
      /\ client' = client \/ (client' = "ended" /\ conn = "gone")
      /\ client' \in {client, "ended"}
  <2>1. CASE Begin(t)
    BY <2>1 DEF Begin, Fault, readerVars
  <2>2. CASE WriteFails(t)
    BY <2>2 DEF WriteFails, readerVars
  <2>3. CASE \E n \in 1..Len(writing[t]) : Write(t, n)
    BY <2>3 DEF Write, readerVars
  <2> QED
    BY <2>1, <2>2, <2>3
<1>3. UpInv' /\ Len(sent) <= Len(sent') /\ \A i \in 1..Len(sent) : sent'[i] = sent[i]
  <2>1. Len(sent) <= Len(sent)
    BY <1>1, LenProperties DEF UpShape
  <2>2. CASE Begin(t)
    <3>1. sent' = sent
      BY <2>2 DEF Begin
    <3> QED
      BY <1>1, <2>1, <2>2, <3>1, BeginUp
  <2>3. CASE WriteFails(t)
    <3>1. sent' = sent
      BY <2>3 DEF WriteFails
    <3> QED
      BY <1>1, <2>1, <2>3, <3>1, WriteFailsUp
  <2>4. CASE \E n \in 1..Len(writing[t]) : Write(t, n)
    BY <1>1, <2>4, WriteUp
  <2> QED
    BY <2>2, <2>3, <2>4
<1>4. sent' \in Seq(Request)
  BY <1>3 DEF UpInv, UpShape
<1>5. /\ conn' = conn /\ server' = server /\ handled' = handled /\ posted' = posted /\ reads' = reads
      /\ recvs' = recvs /\ table' = table /\ seen' = seen /\ dropped' = dropped
      /\ chats' = chats /\ down' = down
  BY <1>2 DEF serverVars
<1>6. FrameInv'
  <2>1. client' = "up" => client = "up" /\ conn' = conn
    BY <1>2, <1>5
  <2> QED
    BY <1>1, <1>3, <1>4, <1>5, <2>1, FrameSame
<1>7. DownInv'
  BY <1>1, <1>2, <1>5, DownSame
<1>8. HistoryInv'
  BY <1>1, <1>2, <1>5, HistorySame
<1>9. EndMeansTorn'
  BY <1>1, <1>2, <1>5 DEF EndMeansTorn
<1>10. Processes'
  BY <1>1, <1>2, <1>5 DEF Processes
<1> QED
  BY <1>3, <1>6, <1>7, <1>8, <1>9, <1>10 DEF WireInv

LEMMA ServerSteps ==
    ASSUME WireInv, NEW n \in 1..Len(up), OnMessage(n)
    PROVE  WireInv'
<1> DEFINE s == SubSeq(up, 1, n)
<1>1. Processes /\ UpInv /\ FrameInv /\ DownInv /\ EndMeansTorn /\ HistoryInv /\ UpShape
  BY DEF WireInv, UpInv
<1>2. UpInv' /\ FrameInv'
  BY <1>1, ReadUpSteps
<1>3. /\ reads' = reads \cup {Kind(s)} /\ server = "up" /\ conn # "gone"
      /\ UNCHANGED <<client, table, seen, dropped, chats, recvs>>
  BY DEF OnMessage, readerVars
<1>4. /\ s \in Seq(UpUnit) /\ s # <<>>
      /\ \/ Handles(n) /\ Reply(up[3].of) /\ up[3].of \in Request
         \/ /\ UNCHANGED <<handled, posted, down, faults>> /\ Verdict(s) # {"handle"}
            /\ \/ conn' = "shut" /\ server' = server
               \/ conn' = "gone" /\ server' = "aborted" /\ "abort" \in Verdict(s)
  BY <1>1, OnMessageMeans
<1> HIDE DEF s
<1>5. /\ \A c \in 0..Len(posted) :
             Matches(down, 1, posted, c) => Grown(down, posted, c, down', posted')
      /\ faults' \in {faults, faults + 1}
  <2>0. DownShape /\ down \in Seq(DownUnit) /\ posted \in Seq(Posts) /\ Stream(down)
    BY <1>1 DEF DownInv, DownShape
  <2>1. CASE Reply(up[3].of) /\ up[3].of \in Request
    <3>1. ASSUME NEW c \in 0..Len(posted), Matches(down, 1, posted, c)
          PROVE  Grown(down, posted, c, down', posted') /\ faults' \in {faults, faults + 1}
      BY <2>0, <2>1, <3>1, ReplyGrows
    <3>2. \E c \in 0..Len(posted) : Matches(down, 1, posted, c)
      BY <1>1 DEF DownInv, ReadDown
    <3> QED
      BY <3>1, <3>2
  <2>2. CASE UNCHANGED <<posted, down, faults>>
    BY <2>0, <2>2, GrownSame
  <2> QED
    BY <1>4, <2>1, <2>2
<1>6. DownInv'
  BY <1>1, <1>3, <1>5, DownGrows
<1>7. HistoryInv'
  BY <1>1, <1>3, <1>5, HistorySame
<1>8. Kind(s) \in {"frame", "frames", "torn"}
  BY DEF Kind
<1>9. "abort" \in Verdict(s) => Kind(s) = "torn"
  <2>1. Kind(s) = "frame" => Verdict(s) = {"handle"}
    BY <1>4, FrameIsHandled
  <2>2. Kind(s) = "frames" => "abort" \notin Verdict(s)
    BY <1>4, FramesEnd
  <2> QED
    BY <1>8, <2>1, <2>2
<1>10. /\ conn' \in {conn, "shut", "gone"} /\ server' \in {"up", "aborted"}
       /\ server' = "aborted" => "torn" \in reads'
  BY <1>3, <1>4, <1>9 DEF Handles
<1>11. EndMeansTorn'
  BY <1>1, <1>3, <1>10 DEF EndMeansTorn
<1>12. Processes'
  BY <1>1, <1>3, <1>8, <1>10 DEF Processes
<1> QED
  BY <1>2, <1>6, <1>7, <1>11, <1>12 DEF WireInv

LEMMA ForwardStep ==
    ASSUME WireInv, NEW x \in Chat, Forward(x)
    PROVE  WireInv'
<1>1. Processes /\ UpInv /\ FrameInv /\ DownInv /\ EndMeansTorn /\ HistoryInv
  BY DEF WireInv
<1>2. /\ down' = down \o Frame(x, Blocks[x]) /\ posted' = Append(posted, x)
      /\ UNCHANGED <<todo, writing, sent, shorts, client, table, seen, dropped, chats, recvs>>
      /\ UNCHANGED <<conn, server, handled, reads, up, faults>>
  BY DEF Forward, clientVars, readerVars
<1>3. ASSUME NEW c \in 0..Len(posted), Matches(down, 1, posted, c)
      PROVE  Grown(down, posted, c, down', posted')
  <2>1. down \in Seq(DownUnit) /\ posted \in Seq(Posts) /\ Stream(down)
    BY <1>1 DEF DownInv, DownShape
  <2>2. x \in Posts /\ Blocks[x] \in Nat \ {0}
    BY WireAssumption DEF Posts
  <2> QED
    BY <1>2, <1>3, <2>1, <2>2, AddFrame
<1>4. DownInv'
  BY <1>1, <1>2, <1>3, DownGrows
<1>5. UpInv' /\ HistoryInv'
  BY <1>1, <1>2, UpSame, HistorySame
<1>6. FrameInv' /\ EndMeansTorn' /\ Processes'
  BY <1>1, <1>2 DEF FrameInv, EndMeansTorn, Processes
<1> QED
  BY <1>4, <1>5, <1>6 DEF WireInv

LEMMA CloseStep ==
    ASSUME WireInv, OnClose
    PROVE  WireInv'
<1>1. Processes /\ UpInv /\ FrameInv /\ DownInv /\ EndMeansTorn /\ HistoryInv
  BY DEF WireInv
<1>2. /\ client = "ended" /\ conn' = "gone"
      /\ UNCHANGED <<todo, writing, sent, shorts, client, table, seen, dropped, chats, recvs>>
      /\ UNCHANGED <<server, handled, posted, reads, down, faults>>
  BY DEF OnClose, clientVars, readerVars
<1>3. UpInv'
  BY <1>1, OnCloseUp
<1>4. DownInv' /\ HistoryInv'
  BY <1>1, <1>2, DownSame, HistorySame
<1>5. FrameInv' /\ EndMeansTorn' /\ Processes'
  BY <1>1, <1>2 DEF FrameInv, EndMeansTorn, Processes
<1> QED
  BY <1>3, <1>4, <1>5 DEF WireInv

LEMMA ReaderSteps ==
    ASSUME WireInv, RecvEnd \/ \E n \in 1..Len(down) : Recv(n)
    PROVE  WireInv'
<1>1. Processes /\ UpInv /\ FrameInv /\ DownInv /\ EndMeansTorn /\ HistoryInv /\ DownShape
  BY DEF WireInv, DownInv
<1>2. CASE RecvEnd
  <2>1. /\ client' = "ended" /\ conn # "connected" /\ UNCHANGED <<table, seen, dropped, chats, recvs>>
        /\ UNCHANGED <<todo, writing, sent, shorts, conn, server, handled, posted, reads>>
        /\ UNCHANGED <<up, down, faults>>
    BY <1>2 DEF RecvEnd, End, clientVars, serverVars
  <2>2. UpInv' /\ DownInv' /\ HistoryInv'
    BY <1>1, <2>1, UpSame, DownSame, HistorySame
  <2>3. FrameInv' /\ EndMeansTorn' /\ Processes'
    BY <1>1, <2>1 DEF FrameInv, EndMeansTorn, Processes
  <2> QED
    BY <2>2, <2>3 DEF WireInv
<1>3. ASSUME NEW n \in 1..Len(down), Recv(n) PROVE WireInv'
  <2>1. /\ UNCHANGED <<todo, writing, sent, shorts, conn, server, handled, posted, reads, up>>
        /\ client = "up" /\ recvs' = recvs \cup {Found(n)}
        /\ RecvFrame(n) \/ (RecvBroken(n) /\ UNCHANGED faults)
    BY <1>3 DEF Recv, clientVars, serverVars
  <2>2. DownInv' /\ (client' = "ended" => "part" \in recvs')
    BY <1>1, <1>3, DownRead
  <2>3. UpInv'
    BY <1>1, <2>1, UpSame
  <2>4. client' \in {"up", "ended"} /\ table' = table
    BY <2>1 DEF RecvFrame, RecvBroken, End
  <2>5. HistoryInv'
    <3>1. CASE RecvFrame(n)
      BY <1>1, <3>1, HistoryRead
    <3>2. CASE RecvBroken(n) /\ UNCHANGED faults
      <4>1. UNCHANGED <<chats, seen, table>>
        BY <3>2 DEF RecvBroken, End
      <4> QED
        BY <1>1, <3>2, <4>1, HistorySame
    <3> QED
      BY <2>1, <3>1, <3>2
  <2>6. FrameInv'
    BY <1>1, <2>1 DEF FrameInv
  <2>7. EndMeansTorn'
    BY <1>1, <2>1, <2>2 DEF EndMeansTorn
  <2>8. Processes'
    BY <1>1, <2>1, <2>4 DEF Processes, Found
  <2> QED
    BY <2>2, <2>3, <2>5, <2>6, <2>7, <2>8 DEF WireInv
<1> QED
  BY <1>2, <1>3

LEMMA WireSteps == WireInv /\ [Next]_wireVars => WireInv'
<1> SUFFICES ASSUME WireInv, [Next]_wireVars PROVE WireInv'
  OBVIOUS
<1>1. ASSUME NEW t \in Threads,
             Begin(t) \/ WriteFails(t) \/ \E n \in 1..Len(writing[t]) : Write(t, n)
      PROVE  WireInv'
  BY <1>1, ClientSteps
<1>2. ASSUME NEW n \in 1..Len(up), OnMessage(n) PROVE WireInv'
  BY <1>2, ServerSteps
<1>3. ASSUME NEW x \in Chat, Forward(x) PROVE WireInv'
  BY <1>3, ForwardStep
<1>4. CASE OnClose
  BY <1>4, CloseStep
<1>5. CASE RecvEnd \/ \E n \in 1..Len(down) : Recv(n)
  BY <1>5, ReaderSteps
<1>6. CASE UNCHANGED wireVars
  <2>1. /\ UNCHANGED <<todo, writing, sent, shorts, conn, server, handled, posted, reads>>
        /\ UNCHANGED <<client, table, seen, dropped, chats, recvs, up, down, faults>>
    BY <1>6 DEF wireVars, clientVars, serverVars, readerVars
  <2>2. Processes /\ UpInv /\ FrameInv /\ DownInv /\ EndMeansTorn /\ HistoryInv
    BY DEF WireInv
  <2>3. UpInv' /\ DownInv' /\ HistoryInv'
    BY <2>1, <2>2, UpSame, DownSame, HistorySame
  <2>4. FrameInv' /\ EndMeansTorn' /\ Processes'
    BY <2>1, <2>2 DEF FrameInv, EndMeansTorn, Processes
  <2> QED
    BY <2>3, <2>4 DEF WireInv
<1> QED
  BY <1>1, <1>2, <1>3, <1>4, <1>5, <1>6 DEF Next

LEMMA WireInvariant == Spec => []WireInv
<1>1. Init => WireInv
  BY StartInv
<1>2. WireInv /\ [Next]_wireVars => WireInv'
  BY WireSteps
<1> QED
  BY <1>1, <1>2, PTL DEF Spec

-----------------------------------------------------------------------------
(* The types of what onMessage, the client's threads and recv leave.       *)
THEOREM WireTypeCorrect == Spec => []TypeOK
<1>1. WireInv => TypeOK
  <2> SUFFICES ASSUME WireInv PROVE TypeOK
    OBVIOUS
  <2>1. /\ Processes /\ sent \in Seq(Request) /\ handled \in Seq(Request)
        /\ posted \in Seq(Posts) /\ chats \in Seq(Chat)
    BY DEF WireInv, UpInv, UpShape, DownInv, DownShape, HistoryInv
  <2>2. \A S, s : s \in Seq(S) => \A i \in DOMAIN s : s[i] \in S
    BY LenProperties, ElementOfSeq
  <2>3. \A s \in {sent, handled} : \A i \in DOMAIN s : s[i] \in Request
    BY <2>1, <2>2
  <2>4. \A i \in DOMAIN posted : posted[i] \in Chat \cup UNION {AnswerFrames(f) : f \in Request}
    BY <2>1, <2>2 DEF Posts
  <2>5. \A i \in DOMAIN chats : chats[i] \in Chat
    BY <2>1, <2>2
  <2> QED
    BY <2>1, <2>3, <2>4, <2>5 DEF TypeOK, Processes
<1> QED
  BY <1>1, WireInvariant, PTL

(* What reaches a handler was sent, what the client processes was posted,  *)
(* what is in the history was processed: each once and in order, wherever  *)
(* onMessage and recv cut the streams and whatever the two threads of the  *)
(* client write between each other's bytes.                                *)
THEOREM OrderCorrect == Spec => []NothingInvented
<1>1. WireInv => NothingInvented
  <2> SUFFICES ASSUME WireInv PROVE NothingInvented
    OBVIOUS
  <2>1. /\ sent \in Seq(Request) /\ handled \in Seq(Request)
        /\ posted \in Seq(Posts) /\ seen \in Seq(Posts) /\ HistoryInv
    BY DEF WireInv, UpInv, UpShape, DownInv, DownShape
  <2>2. PICK c \in 0..Len(sent) : ReadUp(c)
    BY DEF WireInv, UpInv
  <2>3. InOrder(handled, sent)
    BY <2>1, <2>2, WithinOrder DEF ReadUp
  <2>4. PICK d \in 0..Len(posted) : ReadDown(d)
    BY DEF WireInv, DownInv
  <2>5. InOrder(seen, posted)
    BY <2>1, <2>4, WithinOrder DEF ReadDown
  <2>6. chats \in Seq(Chat) /\ Within(chats, seen, Len(seen)) /\ Len(seen) \in 0..Len(seen)
    BY <2>1, LenProperties DEF HistoryInv
  <2>7. InOrder(chats, seen)
    BY <2>1, <2>6, WithinOrder
  <2> QED
    BY <2>1, <2>3, <2>5, <2>7 DEF NothingInvented, HistoryInv
<1> QED
  BY <1>1, WireInvariant, PTL

(* As long as each read of onMessage finds one whole frame, the handlers   *)
(* get all requests in the order sent, and the connection stays.           *)
THEOREM FrameCorrect == Spec => []FrameByFrame
<1>1. WireInv => FrameByFrame
  <2> SUFFICES ASSUME WireInv, reads \subseteq {"frame"}
               PROVE  /\ handled = SubSeq(sent, 1, Len(handled))
                      /\ server = "up"
                      /\ client = "up" =>
                             /\ conn = "connected"
                             /\ \A i \in (Len(handled) + 1)..Len(sent) :
                                    \E j \in DOMAIN up : up[j].of = sent[i] /\ up[j].at = 3
    BY DEF FrameByFrame
  <2>1. /\ up \in Seq(UpUnit) /\ sent \in Seq(Request) /\ handled \in Seq(Request)
        /\ Len(handled) \in Nat /\ Len(sent) \in Nat /\ DOMAIN up = 1..Len(up)
    BY LenProperties DEF WireInv, UpInv, UpShape
  <2>2. /\ Len(handled) <= Len(sent) /\ \A i \in 1..Len(handled) : handled[i] = sent[i]
        /\ server = "up" /\ (client = "up" => conn = "connected")
    BY DEF WireInv, FrameInv
  <2>3. handled = SubSeq(sent, 1, Len(handled))
    <3> DEFINE n == Len(handled)
               s == SubSeq(sent, 1, n)
    <3>1. n \in 0..Len(sent)
      BY <2>1, <2>2
    <3>2. s \in Seq(Request) /\ Len(s) = n /\ \A i \in 1..n : s[i] = sent[i]
      BY <2>1, <3>1, FromShape
    <3> HIDE DEF s
    <3>3. \A i \in 1..Len(handled) : handled[i] = s[i]
      BY <2>2, <3>2
    <3>4. handled = s
      BY <2>1, <3>2, <3>3, SeqEqual
    <3> QED
      BY <3>4 DEF s
  <2>4. ASSUME client = "up", NEW i \in (Len(handled) + 1)..Len(sent)
        PROVE  \E j \in DOMAIN up : up[j].of = sent[i] /\ up[j].at = 3
    <3>1. PICK c \in 0..Len(sent) : ReadUp(c)
      BY DEF WireInv, UpInv
    <3>2. c = Len(handled) /\ Matches(up, 3, sent, c)
      BY <2>2, <2>4, <3>1 DEF ReadUp
    <3>3. PICK p \in [(c + 1)..Len(sent) -> Nat] :
              \A k \in (c + 1)..Len(sent) : p[k] \in Marks(up, 3) /\ up[p[k]].of = sent[k]
      BY <3>2 DEF Matches
    <3>4. p[i] \in Marks(up, 3) /\ up[p[i]].of = sent[i]
      BY <2>4, <3>2, <3>3
    <3> QED
      BY <2>1, <3>4 DEF Marks
  <2> QED
    BY <2>2, <2>3, <2>4
<1> QED
  BY <1>1, WireInvariant, PTL

(* An exception of the decryption ends the server only after a read that   *)
(* cut a frame, and readTaskHandler ends the client only after such a recv. *)
THEOREM EndCorrect == Spec => []EndMeansTorn
<1>1. WireInv => EndMeansTorn
  BY DEF WireInv
<1> QED
  BY <1>1, WireInvariant, PTL

(* A frame the server sent is processed, dropped by a recv that found two, *)
(* or still under way, as long as the client lives.                        *)
THEOREM AnswerCorrect == Spec => []NoAnswerVanishes
<1>1. WireInv => NoAnswerVanishes
  <2> SUFFICES ASSUME WireInv, client = "up", NEW i \in DOMAIN posted
               PROVE  \/ Has(seen, posted[i]) \/ posted[i] \in dropped
                      \/ \E j \in DOMAIN down : down[j].of = posted[i] /\ down[j].at = 1
    BY DEF NoAnswerVanishes
  <2>1. /\ down \in Seq(DownUnit) /\ posted \in Seq(Posts)
        /\ DOMAIN down = 1..Len(down) /\ i \in 1..Len(posted) /\ Len(posted) \in Nat
    BY LenProperties DEF WireInv, DownInv, DownShape
  <2>2. PICK c \in 0..Len(posted) : ReadDown(c)
    BY DEF WireInv, DownInv
  <2>3. CASE i \in 1..c
    BY <2>2, <2>3 DEF ReadDown
  <2>4. CASE i \in (c + 1)..Len(posted)
    <3>1. PICK p \in [(c + 1)..Len(posted) -> Nat] :
              \A k \in (c + 1)..Len(posted) : p[k] \in Marks(down, 1) /\ down[p[k]].of = posted[k]
      BY <2>2 DEF ReadDown, Matches
    <3>2. p[i] \in Marks(down, 1) /\ down[p[i]].of = posted[i]
      BY <2>4, <3>1
    <3> QED
      BY <2>1, <3>2 DEF Marks
  <2>5. i \in 1..c \/ i \in (c + 1)..Len(posted)
    BY <2>1, <2>2
  <2> QED
    BY <2>3, <2>4, <2>5
<1> QED
  BY <1>1, WireInvariant, PTL
=============================================================================
