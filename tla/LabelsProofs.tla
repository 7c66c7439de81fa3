---------------------------- MODULE LabelsProofs ----------------------------
(***************************************************************************)
(* Labels, for all objects, names, values and lists: a set shows the map   *)
(* its writes amount to, and equal sets hash equally.                      *)
(***************************************************************************)
EXTENDS Labels, SequenceTheorems, FiniteSetTheorems, WellFoundedInduction, TLAPS

\* A list that takes its labels from a list, at the positions K: at[m] is
\* where it has the m-th from.
Picks(r, list, K, at) ==
  /\ r \in Seq(Label) /\ at \in [1..Len(r) -> K]
  /\ \A m \in 1..Len(r) : r[m] = list[at[m]]
  /\ \A i \in K : \E m \in 1..Len(r) : at[m] = i

\* In the order of their names, and of equal names in that of the list.
Precedes(list, i, j) ==
  list[i].name < list[j].name \/ (list[i].name = list[j].name /\ i < j)
InOrder(r, list, at) == \A m, k \in 1..Len(r) : m < k => Precedes(list, at[m], at[k])

\* The positions no later label of the name shadows.
Unshadowed(list) ==
  {i \in 1..Len(list) : \A j \in 1..Len(list) : j > i => list[j].name # list[i].name}

\* A list whose writes amount to a map.
Amounts(list, map) ==
  /\ \A i \in Unshadowed(list) : list[i].name \in DOMAIN map /\ map[list[i].name] = list[i].value
  /\ \A n \in DOMAIN map : \E i \in 1..Len(list) : list[i].name = n

\* Sorted by name, and at most one label of each.
Increasing(list) == \A i, j \in 1..Len(list) : i < j => list[i].name < list[j].name

----------------------------------------------------------------------------
(* Induction over a list, as a statement about sets of positions.          *)

\* A set of naturals that is not empty has a least element.
LEMMA LeastElement ==
  ASSUME NEW T \in SUBSET Nat, T # {}
  PROVE  \E x \in T : \A y \in T : ~(y < x)
<1> DEFINE R == OpToRel(<, Nat)
<1>1. IsWellFoundedOn(R, Nat)
  BY NatLessThanWellFounded
<1>2. \A x, y \in Nat : y < x => <<y, x>> \in R
  BY DEF OpToRel
<1> HIDE DEF R
<1>3. \E x \in T : \A y \in T : ~(<<y, x>> \in R)
  BY <1>1, WFMin
<1> QED BY <1>2, <1>3

\* A set that has m, and with each number up to N the next, has them all.
LEMMA Induction ==
  ASSUME NEW N \in Nat, NEW m \in Nat, NEW T,
         m \in T, \A i \in (m + 1)..N : i - 1 \in T => i \in T
  PROVE  \A i \in m..N : i \in T
<1> DEFINE U == {i \in m..N : i \notin T}
<1> SUFFICES ASSUME U # {} PROVE FALSE
  OBVIOUS
<1>1. U \in SUBSET Nat
  OBVIOUS
<1>2. PICK x \in U : \A y \in U : ~(y < x)
  BY <1>1, LeastElement
<1>3. x \in m..N /\ x \notin T /\ x # m
  BY <1>2
<1>4. x - 1 \in T
  BY <1>2, <1>3
<1> QED BY <1>3, <1>4

\* A position with a name has a last one after it, or is it.
LEMMA LastExists ==
  ASSUME NEW list \in Seq(Label), NEW i \in 1..Len(list)
  PROVE  \E k \in Unshadowed(list) : list[k].name = list[i].name
<1> DEFINE T == {d \in Nat : d < Len(list) /\ list[Len(list) - d].name = list[i].name}
<1>1. T \in SUBSET Nat /\ Len(list) - i \in T
  OBVIOUS
<1>2. PICK d \in T : \A e \in T : ~(e < d)
  BY <1>1, LeastElement
<1>3. Len(list) - d \in 1..Len(list) /\ list[Len(list) - d].name = list[i].name
  BY <1>2
<1>4. ASSUME NEW j \in 1..Len(list), j > Len(list) - d
      PROVE  list[j].name # list[i].name
  <2>1. Len(list) - j \in Nat /\ Len(list) - j < d /\ Len(list) - (Len(list) - j) = j
    BY <1>2, <1>4
  <2>2. Len(list) - j \notin T
    BY <1>2, <2>1
  <2> QED BY <2>1, <2>2
<1> QED BY <1>3, <1>4 DEF Unshadowed

----------------------------------------------------------------------------
(* Flattening.                                                             *)

\* What appending each list to what came before computes, up to the n-th.
Flattens(f, ss, n) == f = [i \in 1..n |-> IF i = 1 THEN ss[i] ELSE f[i - 1] \o ss[i]]

\* FlattenSeq computes it: f[i] is the first i lists, one after another.
Accumulates(f, ss, N) ==
  FlattenSeq(ss) = f[N] /\ f[1] = ss[1] /\ \A i \in 2..N : f[i] = f[i - 1] \o ss[i]

\* There is such an f for every sequence of lists that is not empty.
LEMMA Flattened ==
  ASSUME NEW N \in Nat, N # 0, NEW ss, Len(ss) = N
  PROVE  \E f : Accumulates(f, ss, N)
<1> DEFINE T == {n \in Nat : \E f : Flattens(f, ss, n)}
<1>1. 1 \in T
  <2> DEFINE g == [i \in 1..1 |-> ss[i]]
  <2>1. Flattens(g, ss, 1)
    BY DEF Flattens
  <2> QED BY <2>1
<1>2. ASSUME NEW n \in 2..N, n - 1 \in T PROVE n \in T
  <2>1. PICK f : Flattens(f, ss, n - 1)
    BY <1>2
  <2> DEFINE g == [i \in 1..n |-> IF i = n THEN f[n - 1] \o ss[n] ELSE f[i]]
  <2>2. \A i \in 1..(n - 1) : f[i] = IF i = 1 THEN ss[i] ELSE f[i - 1] \o ss[i]
    BY <2>1 DEF Flattens
  <2>3. \A i \in 1..n : g[i] = IF i = 1 THEN ss[i] ELSE g[i - 1] \o ss[i]
    BY <2>2
  <2>4. g = [i \in 1..n |-> g[i]]
    OBVIOUS
  <2> HIDE DEF g
  <2>5. g = [i \in 1..n |-> IF i = 1 THEN ss[i] ELSE g[i - 1] \o ss[i]]
    BY <2>3, <2>4
  <2>6. Flattens(g, ss, n)
    BY ONLY <2>5 DEF Flattens
  <2>7. n \in Nat
    OBVIOUS
  <2> QED BY <2>6, <2>7
<1>3. N \in T
  <2> HIDE DEF T
  <2>1. \A n \in (1 + 1)..N : n - 1 \in T => n \in T
    BY <1>2
  <2> QED BY <1>1, <2>1, Induction
<1> DEFINE F == CHOOSE f : f = [i \in 1..N |-> IF i = 1 THEN ss[i] ELSE f[i - 1] \o ss[i]]
<1>4. FlattenSeq(ss) = F[N]
  BY DEF FlattenSeq
<1>5. F = [i \in 1..N |-> IF i = 1 THEN ss[i] ELSE F[i - 1] \o ss[i]]
  <2>1. \E f : f = [i \in 1..N |-> IF i = 1 THEN ss[i] ELSE f[i - 1] \o ss[i]]
    BY <1>3 DEF Flattens
  <2> QED BY <2>1
<1> HIDE DEF F
<1>6. \A i \in 1..N : F[i] = IF i = 1 THEN ss[i] ELSE F[i - 1] \o ss[i]
  BY <1>5
<1>7. F[1] = ss[1]
  BY <1>6
<1>8. ASSUME NEW i \in 2..N PROVE F[i] = F[i - 1] \o ss[i]
  <2>1. i \in 1..N /\ i # 1
    OBVIOUS
  <2> QED BY <1>6, <2>1
<1> QED BY <1>4, <1>7, <1>8 DEF Accumulates

\* Positions kept are picked in their order.
KeptUpTo(r, list, K, i, at) ==
  /\ Picks(r, list, K \cap (1..i), at)
  /\ \A m, k \in 1..Len(r) : m < k => at[m] < at[k]

\* One more position of the list is kept, or is not.
LEMMA KeepStep ==
  ASSUME NEW list \in Seq(Label), NEW K \in SUBSET (1..Len(list)), NEW i \in 1..Len(list),
         NEW r, NEW a, KeptUpTo(r, list, K, i - 1, a)
  PROVE  \E b : KeptUpTo(r \o (IF i \in K THEN <<list[i]>> ELSE <<>>), list, K, i, b)
<1>1. /\ r \in Seq(Label) /\ Len(r) \in Nat /\ a \in [1..Len(r) -> K \cap (1..(i - 1))]
      /\ \A m \in 1..Len(r) : r[m] = list[a[m]]
      /\ \A j \in K \cap (1..(i - 1)) : \E m \in 1..Len(r) : a[m] = j
      /\ \A m, k \in 1..Len(r) : m < k => a[m] < a[k]
  BY DEF Picks, KeptUpTo
<1>2. CASE i \notin K
  <2>1. r \o <<>> = r
    BY <1>1
  <2>2. K \cap (1..i) = K \cap (1..(i - 1))
    BY <1>2
  <2>3. KeptUpTo(r, list, K, i, a)
    BY <2>2 DEF KeptUpTo
  <2> QED BY <1>2, <2>1, <2>3
<1>3. CASE i \in K
  <2> DEFINE q == Append(r, list[i])
  <2> DEFINE b == [m \in 1..(Len(r) + 1) |-> IF m <= Len(r) THEN a[m] ELSE i]
  <2>1. list[i] \in Label /\ r \o <<list[i]>> = q
    BY <1>1
  <2>2. /\ q \in Seq(Label) /\ Len(q) = Len(r) + 1
        /\ \A m \in 1..Len(r) : q[m] = r[m]
        /\ q[Len(r) + 1] = list[i]
    BY <1>1, <2>1
  <2> HIDE DEF q
  <2>3. b \in [1..Len(q) -> K \cap (1..i)]
    BY <1>1, <1>3, <2>2
  <2>4. \A m \in 1..Len(q) : q[m] = list[b[m]]
    BY <1>1, <2>2
  <2>5. ASSUME NEW j \in K \cap (1..i) PROVE \E m \in 1..Len(q) : b[m] = j
    <3>1. CASE j = i
      BY <1>1, <2>2, <3>1
    <3>2. CASE j # i
      <4>1. PICK m \in 1..Len(r) : a[m] = j
        BY <1>1, <3>2
      <4> QED BY <1>1, <2>2, <4>1
    <3> QED BY <3>1, <3>2
  <2>6. ASSUME NEW m \in 1..Len(q), NEW k \in 1..Len(q), m < k PROVE b[m] < b[k]
    <3>1. m \in 1..Len(r) /\ b[m] = a[m] /\ a[m] \in 1..(i - 1)
      BY <1>1, <2>2, <2>6
    <3>2. CASE k = Len(r) + 1
      BY <1>1, <3>1, <3>2
    <3>3. CASE k # Len(r) + 1
      <4>1. k \in 1..Len(r) /\ b[k] = a[k]
        BY <1>1, <2>2, <3>3
      <4> QED BY <1>1, <2>6, <3>1, <4>1
    <3> QED BY <3>2, <3>3
  <2> HIDE DEF b
  <2>7. KeptUpTo(q, list, K, i, b)
    BY <2>2, <2>3, <2>4, <2>5, <2>6 DEF Picks, KeptUpTo
  <2> QED BY <1>3, <2>1, <2>7
<1> QED BY <1>2, <1>3

\* Keep picks the positions kept, in their order.
LEMMA KeepFacts ==
  ASSUME NEW list \in Seq(Label), NEW K \in SUBSET (1..Len(list))
  PROVE  \E at : /\ Picks(Keep(list, K), list, K, at)
                 /\ \A m, k \in 1..Len(Keep(list, K)) : m < k => at[m] < at[k]
<1> DEFINE N == Len(list)
<1> DEFINE ss == [i \in DOMAIN list |-> IF i \in K THEN <<list[i]>> ELSE <<>>]
<1>1. N \in Nat /\ Keep(list, K) = FlattenSeq(ss) /\ Len(ss) = N
      /\ \A i \in 1..N : ss[i] = IF i \in K THEN <<list[i]>> ELSE <<>>
  BY DEF Keep
<1>range. \A i \in Nat : i \in 1..N => i \in 1..Len(list)
  OBVIOUS
<1>2. ss[1] = <<>> \o ss[1] \/ N = 0
  BY <1>1
<1> HIDE DEF ss, N
<1>3. \E at : KeptUpTo(Keep(list, K), list, K, N, at)
  <2>1. KeptUpTo(<<>>, list, K, 0, <<>>)
    <3>1. <<>> \in Seq(Label) /\ <<>> \in [1..Len(<<>>) -> K \cap (1..0)] /\ Len(<<>>) = 0
      OBVIOUS
    <3> QED BY <3>1 DEF KeptUpTo, Picks
  <2>2. CASE N = 0
    <3>1. Keep(list, K) = ss /\ ss = <<>>
      BY <1>1, <2>2 DEF FlattenSeq, ss
    <3> QED BY <2>1, <2>2, <3>1
  <2>3. CASE N # 0
    <3>1. PICK f : /\ Keep(list, K) = f[N] /\ f[1] = ss[1]
                   /\ \A i \in 2..N : f[i] = f[i - 1] \o ss[i]
      <4>1. N \in Nat /\ Len(ss) = N
        BY <1>1
      <4>2. PICK f : Accumulates(f, ss, N)
        BY <2>3, <4>1, Flattened
      <4> QED BY <1>1, <4>2 DEF Accumulates
    <3> DEFINE T == {i \in Nat : \E at : KeptUpTo(f[i], list, K, i, at)}
    <3>2. 1 \in T
      <4>1. 1 \in 1..N /\ 1 - 1 = 0 /\ f[1] = <<>> \o ss[1]
        BY <1>1, <1>2, <2>3, <3>1
      <4>2. \E b : KeptUpTo(<<>> \o ss[1], list, K, 1, b)
        <5>1. 1 \in 1..Len(list)
          BY <1>range, <4>1
        <5>2. \E b : KeptUpTo(<<>> \o (IF 1 \in K THEN <<list[1]>> ELSE <<>>), list, K, 1, b)
          <6>1. KeptUpTo(<<>>, list, K, 1 - 1, <<>>)
            BY <2>1, <4>1
          <6> QED BY <5>1, <6>1, KeepStep
        <5> QED BY <1>1, <4>1, <5>2
      <4> QED BY <4>1, <4>2
    <3>3. ASSUME NEW i \in (1 + 1)..N, i - 1 \in T PROVE i \in T
      <4>1. PICK a : KeptUpTo(f[i - 1], list, K, i - 1, a)
        BY <3>3
      <4>2. i \in 1..N /\ i \in 2..N /\ i \in Nat
        BY <1>1
      <4>3. \E b : KeptUpTo(f[i - 1] \o ss[i], list, K, i, b)
        <5>1. i \in 1..Len(list)
          BY <1>range, <4>2
        <5>2. \E b : KeptUpTo(f[i - 1] \o (IF i \in K THEN <<list[i]>> ELSE <<>>), list, K, i, b)
          BY <4>1, <5>1, KeepStep
        <5> QED BY <1>1, <4>2, <5>2
      <4> QED BY <3>1, <4>2, <4>3
    <3> HIDE DEF T
    <3>4. N \in T
      <4>1. N \in 1..N /\ 1 \in Nat
        BY <1>1, <2>3
      <4> QED BY <1>1, <3>2, <3>3, <4>1, Induction
    <3> QED BY <3>1, <3>4 DEF T
  <2> QED BY <2>2, <2>3
<1>4. K \cap (1..N) = K
  BY DEF N
<1> QED BY <1>3, <1>4 DEF KeptUpTo

----------------------------------------------------------------------------
(* The stable sort and the collapse.                                       *)

\* The labels of the names up to n are sorted.
Upto(list, n) == {i \in 1..Len(list) : list[i].name <= n}
SortedUpTo(r, list, n, at) == Picks(r, list, Upto(list, n), at) /\ InOrder(r, list, at)

\* What a list of labels holds.
LEMMA LabelTypes ==
  ASSUME NEW list \in Seq(Label)
  PROVE  /\ Len(list) \in Nat /\ DOMAIN list = 1..Len(list)
         /\ \A i \in 1..Len(list) :
              list[i] \in Label /\ list[i].name \in 1..LastName /\ list[i].value \in Values
<1>1. \A i \in 1..Len(list) : list[i] \in Label
  OBVIOUS
<1>2. \A l \in Label : l.name \in 1..LastName /\ l.value \in Values
  BY DEF Label, Names
<1> QED BY <1>1, <1>2

\* The labels of the next name follow.
LEMMA SortStep ==
  ASSUME NEW list \in Seq(Label), NEW n \in 1..LastName, NEW r, NEW a,
         SortedUpTo(r, list, n - 1, a)
  PROVE  \E b : SortedUpTo(r \o OfName(list, n), list, n, b)
<1> DEFINE K == {i \in DOMAIN list : list[i].name = n}
<1> DEFINE q == OfName(list, n)
<1>1. K \in SUBSET (1..Len(list)) /\ n \in Int
  BY LabelTypes, LabelsAssumption
<1>2. PICK c : /\ Picks(q, list, K, c)
               /\ \A m, k \in 1..Len(q) : m < k => c[m] < c[k]
  BY <1>1, KeepFacts DEF OfName
<1> HIDE DEF q
<1>3. /\ r \in Seq(Label) /\ Len(r) \in Nat /\ a \in [1..Len(r) -> Upto(list, n - 1)]
      /\ \A m \in 1..Len(r) : r[m] = list[a[m]]
      /\ \A i \in Upto(list, n - 1) : \E m \in 1..Len(r) : a[m] = i
      /\ \A m, k \in 1..Len(r) : m < k => Precedes(list, a[m], a[k])
  BY DEF SortedUpTo, Picks, InOrder
<1>4. /\ q \in Seq(Label) /\ Len(q) \in Nat /\ c \in [1..Len(q) -> K]
      /\ \A m \in 1..Len(q) : q[m] = list[c[m]]
      /\ \A i \in K : \E m \in 1..Len(q) : c[m] = i
  BY <1>2 DEF Picks
<1> DEFINE s == r \o q
<1> DEFINE b == [k \in 1..(Len(r) + Len(q)) |-> IF k <= Len(r) THEN a[k] ELSE c[k - Len(r)]]
<1>5. /\ s \in Seq(Label) /\ Len(s) = Len(r) + Len(q)
      /\ \A k \in 1..Len(s) : s[k] = IF k <= Len(r) THEN r[k] ELSE q[k - Len(r)]
  BY <1>3, <1>4
<1> HIDE DEF s
<1>6. \A i \in 1..Len(list) : list[i].name \in Int
  BY LabelTypes
<1>7. K \subseteq Upto(list, n) /\ Upto(list, n - 1) \subseteq Upto(list, n)
      /\ \A i \in Upto(list, n) : i \in K \/ i \in Upto(list, n - 1)
  BY <1>1, <1>6 DEF Upto
<1>8. ASSUME NEW k \in 1..Len(s), k \in 1..Len(r)
      PROVE  b[k] = a[k] /\ b[k] \in Upto(list, n - 1) /\ s[k] = list[b[k]]
  <2>1. b[k] = a[k] /\ s[k] = r[k]
    BY <1>3, <1>4, <1>5, <1>8
  <2> QED BY <1>3, <1>8, <2>1
<1>9. ASSUME NEW k \in 1..Len(s), k \notin 1..Len(r)
      PROVE  /\ k - Len(r) \in 1..Len(q) /\ b[k] = c[k - Len(r)]
             /\ b[k] \in K /\ s[k] = list[b[k]]
  <2>1. k - Len(r) \in 1..Len(q) /\ ~(k <= Len(r)) /\ k \in 1..(Len(r) + Len(q))
    BY <1>3, <1>4, <1>5, <1>9
  <2>2. b[k] = c[k - Len(r)] /\ s[k] = q[k - Len(r)]
    BY <1>5, <2>1
  <2> QED BY <1>4, <2>1, <2>2
<1>10. b \in [1..Len(s) -> Upto(list, n)] /\ \A k \in 1..Len(s) : s[k] = list[b[k]]
  <2>1. \A k \in 1..Len(s) : b[k] \in Upto(list, n) /\ s[k] = list[b[k]]
    BY <1>7, <1>8, <1>9
  <2> QED BY <1>5, <2>1
<1>11. ASSUME NEW i \in Upto(list, n) PROVE \E k \in 1..Len(s) : b[k] = i
  <2>1. CASE i \in Upto(list, n - 1)
    <3>1. PICK m \in 1..Len(r) : a[m] = i
      BY <1>3, <2>1
    <3>2. m \in 1..Len(s) /\ b[m] = a[m]
      BY <1>3, <1>4, <1>5
    <3> QED BY <3>1, <3>2
  <2>2. CASE i \in K
    <3>1. PICK m \in 1..Len(q) : c[m] = i
      BY <1>4, <2>2
    <3>2. /\ m + Len(r) \in 1..Len(s) /\ b[m + Len(r)] = c[m]
      BY <1>3, <1>4, <1>5
    <3> QED BY <3>1, <3>2
  <2> QED BY <1>7, <2>1, <2>2
<1> HIDE DEF b
<1>12. ASSUME NEW m \in 1..Len(s), NEW k \in 1..Len(s), m < k
       PROVE  Precedes(list, b[m], b[k])
  <2>1. CASE k \in 1..Len(r)
    <3>1. m \in 1..Len(r) /\ b[m] = a[m] /\ b[k] = a[k]
      BY <1>3, <1>8, <1>12, <2>1
    <3> QED BY <1>3, <1>12, <2>1, <3>1
  <2>2. CASE k \notin 1..Len(r)
    <3>1. /\ k - Len(r) \in 1..Len(q) /\ b[k] = c[k - Len(r)] /\ b[k] \in K
      BY <1>9, <2>2
    <3>2. CASE m \in 1..Len(r)
      <4>1. b[m] \in Upto(list, n - 1)
        BY <1>8, <3>2
      <4>2. list[b[m]].name <= n - 1 /\ list[b[k]].name = n /\ list[b[m]].name \in Int
        BY <1>6, <3>1, <4>1 DEF Upto
      <4> QED BY <1>1, <4>2 DEF Precedes
    <3>3. CASE m \notin 1..Len(r)
      <4>1. m - Len(r) \in 1..Len(q) /\ b[m] = c[m - Len(r)] /\ b[m] \in K
        BY <1>9, <3>3
      <4>2. m - Len(r) < k - Len(r)
        BY <1>3, <1>5, <1>12
      <4>3. b[m] < b[k]
        BY <1>2, <3>1, <4>1, <4>2
      <4> QED BY <3>1, <4>1, <4>3 DEF Precedes
    <3> QED BY <3>2, <3>3
  <2> QED BY <2>1, <2>2
<1>13. SortedUpTo(s, list, n, b)
  BY <1>5, <1>10, <1>11, <1>12 DEF SortedUpTo, Picks, InOrder
<1> QED BY <1>13 DEF s, q

\* StableSort has every label of the list, by name, and of equal names in the
\* order of the list.
LEMMA SortFacts ==
  ASSUME NEW list \in Seq(Label)
  PROVE  \E at : Picks(StableSort(list), list, 1..Len(list), at) /\ InOrder(StableSort(list), list, at)
<1> DEFINE ss == [n \in Names |-> OfName(list, n)]
<1>1. /\ StableSort(list) = FlattenSeq(ss) /\ LastName \in Nat
      /\ \A n \in 1..LastName : ss[n] = OfName(list, n)
  BY LabelsAssumption DEF StableSort, Names
<1>2. Len(ss) = LastName
  BY LabelsAssumption DEF Names
<1>3. \A i \in 1..Len(list) : list[i].name \in 1..LastName
  BY LabelTypes
<1>4. SortedUpTo(<<>>, list, 0, <<>>)
  <2>1. Upto(list, 0) = {}
    BY <1>1, <1>3 DEF Upto
  <2>2. <<>> \in Seq(Label) /\ <<>> \in [1..Len(<<>>) -> {}] /\ Len(<<>>) = 0
    OBVIOUS
  <2> QED BY <2>1, <2>2 DEF SortedUpTo, Picks, InOrder
<1>5. \E at : SortedUpTo(StableSort(list), list, LastName, at)
  <2>1. CASE LastName = 0
    <3>1. ss = <<>> /\ FlattenSeq(ss) = ss
      BY <1>2, <2>1 DEF FlattenSeq, Names
    <3> QED BY <1>1, <1>4, <2>1, <3>1
  <2>2. CASE LastName # 0
    <3> HIDE DEF ss
    <3>1. PICK f : Accumulates(f, ss, LastName)
      BY <1>1, <1>2, <2>2, Flattened
    <3> DEFINE T == {n \in Nat : \E at : SortedUpTo(f[n], list, n, at)}
    <3>2. 1 \in T
      <4>1. 1 \in 1..LastName /\ 1 - 1 = 0
        BY <1>1, <2>2
      <4>2. \E b : SortedUpTo(<<>> \o OfName(list, 1), list, 1, b)
        <5>1. SortedUpTo(<<>>, list, 1 - 1, <<>>)
          BY <1>4, <4>1
        <5> QED BY <4>1, <5>1, SortStep
      <4>3. OfName(list, 1) \in Seq(Label)
        <5>1. {i \in DOMAIN list : list[i].name = 1} \in SUBSET (1..Len(list))
          BY LabelTypes
        <5> QED BY <5>1, KeepFacts DEF OfName, Picks
      <4>4. f[1] = <<>> \o OfName(list, 1)
        BY <1>1, <3>1, <4>1, <4>3 DEF Accumulates
      <4> QED BY <4>2, <4>4
    <3>3. ASSUME NEW n \in (1 + 1)..LastName, n - 1 \in T PROVE n \in T
      <4>1. PICK a : SortedUpTo(f[n - 1], list, n - 1, a)
        BY <3>3
      <4>2. n \in 1..LastName /\ n \in 2..LastName /\ n \in Nat
        BY <1>1
      <4>3. \E b : SortedUpTo(f[n - 1] \o OfName(list, n), list, n, b)
        BY <4>1, <4>2, SortStep
      <4>4. f[n] = f[n - 1] \o OfName(list, n)
        BY <1>1, <3>1, <4>2 DEF Accumulates
      <4> QED BY <4>2, <4>3, <4>4
    <3> HIDE DEF T
    <3>4. LastName \in T
      <4>1. LastName \in 1..LastName /\ 1 \in Nat
        BY <1>1, <2>2
      <4> QED BY <1>1, <3>2, <3>3, <4>1, Induction
    <3> QED BY <1>1, <3>1, <3>4 DEF T, Accumulates
  <2> QED BY <2>1, <2>2
<1>6. Upto(list, LastName) = 1..Len(list)
  BY <1>1, <1>3 DEF Upto
<1> QED BY <1>5, <1>6 DEF SortedUpTo

\* Normalising leaves, in increasing order of the names, the labels that no
\* later one of the list shadows.
LEMMA NormalFacts ==
  ASSUME NEW list \in Seq(Label)
  PROVE  LET r == Collapse(StableSort(list))
         IN  Increasing(r) /\ \E at : Picks(r, list, Unshadowed(list), at)
<1> DEFINE s == StableSort(list)
<1> DEFINE r == Collapse(s)
<1>1. PICK p : Picks(s, list, 1..Len(list), p) /\ InOrder(s, list, p)
  BY SortFacts
<1> HIDE DEF s
<1> DEFINE K == {i \in DOMAIN s : ~Shadowed(s, i)}
<1>2. /\ s \in Seq(Label) /\ Len(s) \in Nat /\ p \in [1..Len(s) -> 1..Len(list)]
      /\ \A m \in 1..Len(s) : s[m] = list[p[m]]
      /\ \A i \in 1..Len(list) : \E m \in 1..Len(s) : p[m] = i
      /\ \A m, k \in 1..Len(s) : m < k => Precedes(list, p[m], p[k])
  BY <1>1 DEF Picks, InOrder
<1>3. K \in SUBSET (1..Len(s))
  BY <1>2
<1>4. PICK c : /\ Picks(r, s, K, c)
               /\ \A m, k \in 1..Len(r) : m < k => c[m] < c[k]
  BY <1>2, <1>3, KeepFacts DEF Collapse
<1> HIDE DEF r, K
<1>5. /\ r \in Seq(Label) /\ Len(r) \in Nat /\ c \in [1..Len(r) -> K]
      /\ \A m \in 1..Len(r) : r[m] = s[c[m]]
      /\ \A i \in K : \E m \in 1..Len(r) : c[m] = i
  BY <1>4 DEF Picks
<1>6. \A i \in 1..Len(s) : s[i].name \in Int /\ s[i].name = list[p[i]].name
  BY <1>2, LabelTypes
<1>7. ASSUME NEW i \in 1..Len(s), NEW j \in 1..Len(s), i < j
      PROVE  s[i].name <= s[j].name /\ (s[i].name = s[j].name => p[i] < p[j])
  <2>1. Precedes(list, p[i], p[j])
    BY <1>2, <1>7
  <2> QED BY <1>6, <2>1 DEF Precedes
<1>8. ASSUME NEW i \in K, NEW j \in 1..Len(s), i < j PROVE s[i].name < s[j].name
  <2>1. i \in 1..Len(s) /\ i + 1 \in 1..Len(s) /\ s[i].name # s[i + 1].name
    BY <1>2, <1>8 DEF Shadowed, K
  <2>2. s[i].name < s[i + 1].name
    BY <1>6, <1>7, <2>1
  <2>3. CASE i + 1 = j
    BY <2>2, <2>3
  <2>4. CASE i + 1 # j
    <3>1. s[i + 1].name <= s[j].name
      BY <1>7, <1>8, <2>1, <2>4
    <3> QED BY <1>6, <2>1, <2>2, <3>1
  <2> QED BY <2>3, <2>4
<1>9. Increasing(r)
  <2> SUFFICES ASSUME NEW m \in 1..Len(r), NEW k \in 1..Len(r), m < k
               PROVE  r[m].name < r[k].name
    BY DEF Increasing
  <2>1. c[m] < c[k] /\ c[m] \in K /\ c[k] \in 1..Len(s)
    BY <1>3, <1>4, <1>5
  <2> QED BY <1>5, <1>8, <2>1
<1>10. ASSUME NEW i \in 1..Len(s) PROVE i \in K <=> p[i] \in Unshadowed(list)
  <2>1. ASSUME i \in K, NEW j \in 1..Len(list), j > p[i], list[j].name = list[p[i]].name
        PROVE  FALSE
    <3>1. PICK m \in 1..Len(s) : p[m] = j
      BY <1>2
    <3>2. s[m].name = s[i].name /\ p[m] > p[i]
      BY <1>6, <2>1, <3>1
    <3>3. CASE m = i
      BY <1>2, <3>2, <3>3
    <3>4. CASE m < i
      <4>1. p[m] < p[i]
        BY <1>7, <3>2, <3>4
      <4>2. p[m] \in Int /\ p[i] \in Int
        <5>1. p[m] \in 1..Len(list) /\ p[i] \in 1..Len(list)
          BY <1>2
        <5> QED BY <5>1
      <4> QED BY <3>2, <4>1, <4>2
    <3>5. CASE m > i
      <4>1. s[i].name < s[m].name
        BY <1>8, <2>1, <3>5
      <4> QED BY <1>6, <3>2, <4>1
    <3> QED BY <3>3, <3>4, <3>5
  <2>2. ASSUME i \notin K PROVE p[i] \notin Unshadowed(list)
    <3>1. i + 1 \in 1..Len(s) /\ s[i].name = s[i + 1].name
      BY <1>2, <2>2 DEF Shadowed, K
    <3>2. p[i] < p[i + 1]
      BY <1>7, <3>1
    <3>3. p[i] \in 1..Len(list) /\ p[i + 1] \in 1..Len(list)
          /\ list[p[i + 1]].name = list[p[i]].name
      BY <1>2, <1>6, <3>1
    <3> QED BY <3>2, <3>3 DEF Unshadowed
  <2> QED BY <1>2, <2>1, <2>2 DEF Unshadowed
<1> DEFINE a == [m \in 1..Len(r) |-> p[c[m]]]
<1>11. a \in [1..Len(r) -> Unshadowed(list)] /\ \A m \in 1..Len(r) : r[m] = list[a[m]]
  <2>1. ASSUME NEW m \in 1..Len(r)
        PROVE  a[m] \in Unshadowed(list) /\ r[m] = list[a[m]]
    <3>1. c[m] \in K /\ c[m] \in 1..Len(s) /\ a[m] = p[c[m]]
      BY <1>3, <1>5
    <3> QED BY <1>2, <1>5, <1>10, <3>1
  <2> QED BY <2>1
<1>12. ASSUME NEW i \in Unshadowed(list) PROVE \E m \in 1..Len(r) : a[m] = i
  <2>1. PICK k \in 1..Len(s) : p[k] = i
    BY <1>2 DEF Unshadowed
  <2>2. k \in K
    BY <1>10, <2>1
  <2>3. PICK m \in 1..Len(r) : c[m] = k
    BY <1>5, <2>2
  <2> QED BY <2>1, <2>3
<1>13. Picks(r, list, Unshadowed(list), a)
  <2> HIDE DEF a
  <2> QED BY <1>5, <1>11, <1>12 DEF Picks
<1> QED BY <1>9, <1>13 DEF r, s

----------------------------------------------------------------------------
(* What the writes of a list amount to.                                    *)

\* No writes amount to no label.
LEMMA AmountsNone == Amounts(<<>>, Empty)
<1>1. Len(<<>>) = 0 /\ DOMAIN Empty = {} /\ 1..0 = {}
  BY DEF Empty
<1> QED BY <1>1 DEF Amounts, Unshadowed

\* One write amounts to its label.
LEMMA AmountsOne ==
  ASSUME NEW l \in Label
  PROVE  Amounts(<<l>>, [n \in {l.name} |-> l.value])
<1>1. Len(<<l>>) = 1 /\ <<l>>[1] = l /\ 1..1 = {1}
  OBVIOUS
<1> DEFINE list == <<l>>
<1> HIDE DEF list
<1>2. Len(list) = 1 /\ list[1] = l /\ 1..1 = {1}
  BY <1>1 DEF list
<1>3. Amounts(list, [n \in {l.name} |-> l.value])
  BY <1>2 DEF Amounts, Unshadowed
<1> QED BY <1>3 DEF list

\* Of two lists, one after the other, the second wins.
LEMMA AmountsBoth ==
  ASSUME NEW a \in Seq(Label), NEW b \in Seq(Label), NEW m, NEW n, Amounts(a, m), Amounts(b, n)
  PROVE  Amounts(a \o b, Overlaid(m, n))
<1> DEFINE c == a \o b
<1> DEFINE v == Overlaid(m, n)
<1>1. /\ Len(a) \in Nat /\ Len(b) \in Nat /\ Len(c) = Len(a) + Len(b)
      /\ \A i \in 1..Len(c) : c[i] = IF i <= Len(a) THEN a[i] ELSE b[i - Len(a)]
  OBVIOUS
<1>2. \A i \in 1..Len(a) : i \in 1..Len(c) /\ c[i] = a[i]
  BY <1>1
<1>3. \A i \in 1..Len(b) : Len(a) + i \in 1..Len(c) /\ c[Len(a) + i] = b[i]
  BY <1>1
<1>4. /\ DOMAIN v = DOMAIN m \union DOMAIN n
      /\ \A x \in DOMAIN v : v[x] = IF x \in DOMAIN n THEN n[x] ELSE m[x]
  BY DEF Overlaid
<1> HIDE DEF c, v
<1>5. ASSUME NEW i \in Unshadowed(c)
      PROVE  c[i].name \in DOMAIN v /\ v[c[i].name] = c[i].value
  <2>1. i \in 1..Len(c) /\ \A j \in 1..Len(c) : j > i => c[j].name # c[i].name
    BY DEF Unshadowed
  <2>2. CASE i <= Len(a)
    <3>1. i \in 1..Len(a) /\ c[i] = a[i]
      BY <1>1, <2>1, <2>2
    <3>2. i \in Unshadowed(a)
      BY <1>2, <2>1, <3>1 DEF Unshadowed
    <3>3. ASSUME NEW k \in 1..Len(b) PROVE b[k].name # c[i].name
      <4>1. Len(a) + k > i
        BY <1>1, <2>2, <3>1
      <4> QED BY <1>3, <2>1, <4>1
    <3>4. c[i].name \notin DOMAIN n
      BY <3>3 DEF Amounts
    <3>5. c[i].name \in DOMAIN m /\ m[c[i].name] = c[i].value
      BY <3>1, <3>2 DEF Amounts
    <3> QED BY <1>4, <3>4, <3>5
  <2>3. CASE ~(i <= Len(a))
    <3> DEFINE k == i - Len(a)
    <3>1. k \in 1..Len(b) /\ c[i] = b[k] /\ i = Len(a) + k
      BY <1>1, <2>1, <2>3
    <3> HIDE DEF k
    <3>2. ASSUME NEW j \in 1..Len(b), j > k PROVE b[j].name # b[k].name
      <4>1. Len(a) + j > i
        BY <1>1, <3>1, <3>2
      <4> QED BY <1>3, <2>1, <3>1, <4>1
    <3>3. k \in Unshadowed(b)
      BY <3>1, <3>2 DEF Unshadowed
    <3>4. c[i].name \in DOMAIN n /\ n[c[i].name] = c[i].value
      BY <3>1, <3>3 DEF Amounts
    <3> QED BY <1>4, <3>4
  <2> QED BY <2>2, <2>3
<1>6. ASSUME NEW x \in DOMAIN v PROVE \E i \in 1..Len(c) : c[i].name = x
  <2>1. CASE x \in DOMAIN m
    <3>1. PICK i \in 1..Len(a) : a[i].name = x
      BY <2>1 DEF Amounts
    <3> QED BY <1>2, <3>1
  <2>2. CASE x \in DOMAIN n
    <3>1. PICK i \in 1..Len(b) : b[i].name = x
      BY <2>2 DEF Amounts
    <3> QED BY <1>3, <3>1
  <2> QED BY <1>4, <2>1, <2>2
<1>7. Amounts(c, v)
  BY <1>5, <1>6 DEF Amounts
<1> QED BY <1>7 DEF c, v

\* Maps stay maps.
LEMMA MapFacts ==
  /\ Empty \in Maps
  /\ \A m, n \in Maps : Overlaid(m, n) \in Maps
  /\ \A l \in Label : [n \in {l.name} |-> l.value] \in Maps
<1>1. Empty \in Maps
  <2>1. Empty \in [{} -> Values] /\ {} \in SUBSET Names
    BY DEF Empty
  <2> QED BY <2>1 DEF Maps
<1>2. ASSUME NEW m \in Maps, NEW n \in Maps PROVE Overlaid(m, n) \in Maps
  <2>1. PICK M \in SUBSET Names : m \in [M -> Values]
    BY DEF Maps
  <2>2. PICK N \in SUBSET Names : n \in [N -> Values]
    BY DEF Maps
  <2>3. Overlaid(m, n) \in [M \union N -> Values]
    BY <2>1, <2>2 DEF Overlaid
  <2>4. M \union N \in SUBSET Names
    OBVIOUS
  <2> QED BY <2>3, <2>4 DEF Maps
<1>3. ASSUME NEW l \in Label PROVE [n \in {l.name} |-> l.value] \in Maps
  <2>1. l.name \in Names /\ l.value \in Values
    BY DEF Label
  <2>2. [n \in {l.name} |-> l.value] \in [{l.name} -> Values] /\ {l.name} \in SUBSET Names
    BY <2>1
  <2> QED BY <2>2 DEF Maps
<1> QED BY <1>1, <1>2, <1>3

\* What writing a list, label by label, computes.
Writing(w, map, list, n) == w = [i \in 0..n |-> IF i = 0 THEN map ELSE Put(w[i - 1], list[i])]
\* Writes computes it: w[i] is the map after the first i labels.
WritesThrough(w, map, list, N) ==
  Writes(map, list) = w[N] /\ w[0] = map /\ \A i \in 1..N : w[i] = Put(w[i - 1], list[i])

\* There is such a w for every list.
LEMMA Written ==
  ASSUME NEW N \in Nat, NEW map, NEW list, Len(list) = N
  PROVE  \E w : WritesThrough(w, map, list, N)
<1> DEFINE T == {n \in Nat : \E w : Writing(w, map, list, n)}
<1>1. 0 \in T
  <2> DEFINE g == [i \in 0..0 |-> map]
  <2>1. Writing(g, map, list, 0)
    BY DEF Writing
  <2> QED BY <2>1
<1>2. ASSUME NEW n \in 1..N, n - 1 \in T PROVE n \in T
  <2>1. PICK w : Writing(w, map, list, n - 1)
    BY <1>2
  <2> DEFINE g == [i \in 0..n |-> IF i = n THEN Put(w[n - 1], list[n]) ELSE w[i]]
  <2>2. \A i \in 0..(n - 1) : w[i] = IF i = 0 THEN map ELSE Put(w[i - 1], list[i])
    BY <2>1 DEF Writing
  <2>3. \A i \in 0..n : g[i] = IF i = 0 THEN map ELSE Put(g[i - 1], list[i])
    BY <2>2
  <2>4. g = [i \in 0..n |-> g[i]]
    OBVIOUS
  <2> HIDE DEF g
  <2>5. g = [i \in 0..n |-> IF i = 0 THEN map ELSE Put(g[i - 1], list[i])]
    BY <2>3, <2>4
  <2>6. Writing(g, map, list, n)
    BY ONLY <2>5 DEF Writing
  <2>7. n \in Nat
    OBVIOUS
  <2> QED BY <2>6, <2>7
<1>3. N \in T
  <2> HIDE DEF T
  <2>1. \A n \in (0 + 1)..N : n - 1 \in T => n \in T
    BY <1>2
  <2> QED BY <1>1, <2>1, Induction
<1> DEFINE W == CHOOSE w : w = [i \in 0..N |-> IF i = 0 THEN map ELSE Put(w[i - 1], list[i])]
<1>4. Writes(map, list) = W[N]
  BY DEF Writes
<1>5. W = [i \in 0..N |-> IF i = 0 THEN map ELSE Put(W[i - 1], list[i])]
  <2>1. \E w : w = [i \in 0..N |-> IF i = 0 THEN map ELSE Put(w[i - 1], list[i])]
    BY <1>3 DEF Writing
  <2> QED BY <2>1
<1> HIDE DEF W
<1>6. \A i \in 0..N : W[i] = IF i = 0 THEN map ELSE Put(W[i - 1], list[i])
  BY <1>5
<1>7. W[0] = map
  BY <1>6
<1>8. ASSUME NEW i \in 1..N PROVE W[i] = Put(W[i - 1], list[i])
  <2>1. i \in 0..N /\ i # 0
    OBVIOUS
  <2> QED BY <1>6, <2>1
<1> QED BY <1>4, <1>7, <1>8 DEF WritesThrough

\* Each label of a list overwrites the map that those before it left.
LEMMA AmountsWrites ==
  ASSUME NEW list \in Seq(Label)
  PROVE  Amounts(list, Writes(Empty, list)) /\ Writes(Empty, list) \in Maps
<1> DEFINE N == Len(list)
<1>1. N \in Nat /\ \A i \in 1..N : list[i] \in Label
  OBVIOUS
<1>2. PICK w : WritesThrough(w, Empty, list, N)
  BY <1>1, Written
<1> DEFINE T == {i \in Nat : Amounts(SubSeq(list, 1, i), w[i]) /\ w[i] \in Maps}
<1>3. 0 \in T
  <2>1. SubSeq(list, 1, 0) = <<>>
    OBVIOUS
  <2> QED BY <1>2, <2>1, AmountsNone, MapFacts DEF WritesThrough
<1>4. ASSUME NEW i \in (0 + 1)..N, i - 1 \in T PROVE i \in T
  <2> DEFINE p == SubSeq(list, 1, i - 1)
  <2> DEFINE m == [n \in {list[i].name} |-> list[i].value]
  <2>1. i \in 1..N /\ i \in Nat /\ list[i] \in Label /\ <<list[i]>> \in Seq(Label)
    OBVIOUS
  <2>2. p \in Seq(Label) /\ SubSeq(list, 1, i) = p \o <<list[i]>>
    BY <2>1, SubSeqRecursiveSecond
  <2>3. w[i] = Overlaid(w[i - 1], m)
    BY <1>2, <2>1 DEF WritesThrough, Put
  <2> HIDE DEF p, m
  <2>4. Amounts(p, w[i - 1]) /\ w[i - 1] \in Maps
    BY <1>4 DEF p
  <2>5. Amounts(<<list[i]>>, m) /\ m \in Maps
    BY <2>1, AmountsOne, MapFacts DEF m
  <2>6. Amounts(p \o <<list[i]>>, Overlaid(w[i - 1], m))
    BY <2>1, <2>2, <2>4, <2>5, AmountsBoth
  <2>7. Overlaid(w[i - 1], m) \in Maps
    BY <2>4, <2>5, MapFacts
  <2>8. Amounts(SubSeq(list, 1, i), w[i]) /\ w[i] \in Maps
    BY <2>2, <2>3, <2>6, <2>7
  <2> QED BY <2>1, <2>8
<1> HIDE DEF T
<1>5. N \in T
  <2>1. N \in 0..N
    BY <1>1
  <2> QED BY <1>1, <1>3, <1>4, <2>1, Induction
<1>6. SubSeq(list, 1, N) = list
  OBVIOUS
<1> QED BY <1>2, <1>5, <1>6 DEF T, WritesThrough

\* A list that increases has at most one label of each name.
LEMMA IncreasingFits ==
  ASSUME NEW r \in Seq(Label), Increasing(r)
  PROVE  r \in Contents
<1>1. /\ Len(r) \in Nat /\ LastName \in Nat
      /\ \A i \in 1..Len(r) : r[i] \in Label /\ r[i].name \in 1..LastName
  BY LabelTypes, LabelsAssumption
<1> DEFINE T == {i \in Nat : i \in 1..Len(r) => i <= r[i].name}
<1>2. 0 \in T
  OBVIOUS
<1>3. ASSUME NEW i \in (0 + 1)..Len(r), i - 1 \in T PROVE i \in T
  <2>1. i \in 1..Len(r) /\ i \in Nat /\ r[i].name \in 1..LastName
    BY <1>1
  <2>2. CASE i = 1
    BY <2>1, <2>2
  <2>3. CASE i # 1
    <3>1. i - 1 \in 1..Len(r) /\ i - 1 < i /\ i - 1 <= r[i - 1].name
      BY <1>3, <2>1, <2>3
    <3>2. r[i - 1].name < r[i].name /\ r[i - 1].name \in 1..LastName
      BY <1>1, <2>1, <3>1 DEF Increasing
    <3> QED BY <2>1, <3>1, <3>2
  <2> QED BY <2>2, <2>3
<1> HIDE DEF T
<1>4. \A i \in 0..Len(r) : i \in T
  BY <1>1, <1>2, <1>3, Induction
<1>5. Len(r) <= LastName
  <2>1. CASE Len(r) = 0
    BY <1>1, <2>1
  <2>2. CASE Len(r) # 0
    <3>1. Len(r) \in 1..Len(r) /\ Len(r) \in 0..Len(r) /\ r[Len(r)].name \in 1..LastName
      BY <1>1, <2>2
    <3>2. Len(r) <= r[Len(r)].name
      BY <1>4, <3>1 DEF T
    <3> QED BY <1>1, <3>1, <3>2
  <2> QED BY <2>1, <2>2
<1>6. Cardinality(Names) = LastName
  BY <1>1, FS_Interval DEF Names
<1>7. r \in [1..Len(r) -> Label] /\ Len(r) \in 0..LastName
  BY <1>1, <1>5
<1> QED BY <1>6, <1>7 DEF Contents, SeqOf

\* Normalising keeps what the writes of a list amount to.
LEMMA NormalShows ==
  ASSUME NEW list \in Seq(Label), NEW map, Amounts(list, map)
  PROVE  LET r == Collapse(StableSort(list))
         IN  r \in Contents /\ Increasing(r) /\ Amounts(r, map)
<1> DEFINE r == Collapse(StableSort(list))
<1>1. Increasing(r)
  BY NormalFacts
<1>2. PICK at : Picks(r, list, Unshadowed(list), at)
  BY NormalFacts
<1> HIDE DEF r
<1>3. /\ r \in Seq(Label) /\ at \in [1..Len(r) -> Unshadowed(list)]
      /\ \A m \in 1..Len(r) : r[m] = list[at[m]]
      /\ \A i \in Unshadowed(list) : \E m \in 1..Len(r) : at[m] = i
  BY <1>2 DEF Picks
<1>4. ASSUME NEW m \in Unshadowed(r) PROVE r[m].name \in DOMAIN map /\ map[r[m].name] = r[m].value
  <2>1. m \in 1..Len(r) /\ at[m] \in Unshadowed(list) /\ r[m] = list[at[m]]
    BY <1>3 DEF Unshadowed
  <2> QED BY <2>1 DEF Amounts
<1>5. ASSUME NEW n \in DOMAIN map PROVE \E m \in 1..Len(r) : r[m].name = n
  <2>1. PICK i \in 1..Len(list) : list[i].name = n
    BY DEF Amounts
  <2>2. PICK k \in Unshadowed(list) : list[k].name = n
    BY <2>1, LastExists
  <2>3. PICK m \in 1..Len(r) : at[m] = k
    BY <1>3, <2>2
  <2> QED BY <1>3, <2>2, <2>3
<1>6. Amounts(r, map)
  BY <1>4, <1>5 DEF Amounts
<1> QED BY <1>1, <1>3, <1>6, IncreasingFits DEF r
\* A list that increases and amounts to a map has the map's labels.
LEMMA SameLabels ==
  ASSUME NEW r \in Seq(Label), NEW map, Increasing(r), Amounts(r, map)
  PROVE  {<<r[i].name, r[i].value>> : i \in 1..Len(r)} = {<<n, map[n]>> : n \in DOMAIN map}
<1>1. ASSUME NEW i \in 1..Len(r)
      PROVE  r[i].name \in DOMAIN map /\ map[r[i].name] = r[i].value
  <2>1. ASSUME NEW j \in 1..Len(r), j > i PROVE r[j].name # r[i].name
    <3>1. r[i].name < r[j].name
      BY <2>1 DEF Increasing
    <3> QED BY <3>1, LabelTypes
  <2>2. i \in Unshadowed(r)
    BY <2>1 DEF Unshadowed
  <2> QED BY <2>2 DEF Amounts
<1>2. ASSUME NEW n \in DOMAIN map
      PROVE  \E i \in 1..Len(r) : n = r[i].name /\ map[n] = r[i].value
  <2>1. PICK i \in 1..Len(r) : r[i].name = n
    BY DEF Amounts
  <2> QED BY <1>1, <2>1
<1> QED BY <1>1, <1>2

----------------------------------------------------------------------------
(* The invariant.                                                          *)

\* An object's labels are sorted, one for each name, and amount to its map.
ShowInv ==
  \A o \in Objects : Increasing(object[o].labels) /\ Amounts(object[o].labels, written[o])

\* The cached hash of an object that was not moved from is that of its labels.
HashInv ==
  \A o \in Objects \ movedFrom : object[o].hash_valid => object[o].hash = object[o].labels

IInv == TypeOK /\ ShowInv /\ HashInv

\* The labels of an object are a list of labels.
LEMMA ContentsFacts ==
  /\ Contents \subseteq Seq(Label) /\ Lists \subseteq Seq(Label)
  /\ <<>> \in Contents /\ Increasing(<<>>)
<1>1. Contents \subseteq Seq(Label) /\ Lists \subseteq Seq(Label)
  BY DEF Contents, Lists, SeqOf
<1>2. Increasing(<<>>)
  <2>1. 1..Len(<<>>) = {}
    OBVIOUS
  <2> QED BY <2>1 DEF Increasing
<1>3. <<>> \in Seq(Label)
  OBVIOUS
<1> QED BY <1>1, <1>2, <1>3, IncreasingFits

\* At first every object is empty.
LEMMA InitStep == Init => IInv
<1> SUFFICES ASSUME Init PROVE IInv
  OBVIOUS
<1>1. TypeOK
  BY ContentsFacts, MapFacts DEF Init, TypeOK, Default
<1>2. ShowInv
  BY ContentsFacts, AmountsNone DEF Init, ShowInv, Default
<1>3. HashInv
  BY DEF Init, HashInv, Default
<1> QED BY <1>1, <1>2, <1>3 DEF IInv

\* An object that becomes a list normalised shows what the list amounts to,
\* and has no hash of what it was.
LEMMA BecomesStep ==
  ASSUME IInv, NEW o \in Objects, NEW base, NEW list \in Seq(Label), NEW map \in Maps,
         base \in [labels : Contents, hash_valid : BOOLEAN, hash : Contents],
         Amounts(list, map), Becomes(o, Normalize(base, list), map)
  PROVE  IInv'
<1> DEFINE r == Collapse(StableSort(list))
<1> DEFINE q == Normalize(base, list)
<1>1. r \in Contents /\ Increasing(r) /\ Amounts(r, map)
  BY NormalShows
<1> HIDE DEF r
<1>2. /\ q \in [labels : Contents, hash_valid : BOOLEAN, hash : Contents]
      /\ q.labels = r /\ q.hash_valid = FALSE
  BY <1>1 DEF Normalize, r
<1> HIDE DEF q
<1>3. /\ object' = [object EXCEPT ![o] = q]
      /\ written' = [written EXCEPT ![o] = map]
      /\ movedFrom' = movedFrom \ {o}
  BY DEF Becomes, q
<1>4. TypeOK'
  BY <1>2, <1>3 DEF IInv, TypeOK
<1>5. /\ object'[o] = q /\ written'[o] = map
      /\ \A p \in Objects : p # o => object'[p] = object[p] /\ written'[p] = written[p]
  BY <1>3 DEF IInv, TypeOK
<1>6. ShowInv'
  <2> SUFFICES ASSUME NEW p \in Objects
               PROVE  Increasing(object'[p].labels) /\ Amounts(object'[p].labels, written'[p])
    BY DEF ShowInv
  <2> QED BY <1>1, <1>2, <1>5 DEF IInv, ShowInv
<1>7. HashInv'
  BY <1>2, <1>3, <1>5 DEF IInv, HashInv
<1> QED BY <1>4, <1>6, <1>7 DEF IInv

\* Constructing from a list.
LEMMA ConstructStep ==
  ASSUME IInv, NEW o \in Objects, Construct(o)
  PROVE  IInv'
<1>1. PICK list \in Lists : Becomes(o, Normalize(Default, list), Writes(Empty, list))
  BY DEF Construct
<1>2. list \in Seq(Label)
  BY ContentsFacts
<1>3. Default \in [labels : Contents, hash_valid : BOOLEAN, hash : Contents]
  BY ContentsFacts DEF Default
<1> QED BY <1>1, <1>2, <1>3, AmountsWrites, BecomesStep

\* set: the label comes last, and wins.
LEMMA SetStep ==
  ASSUME IInv, NEW o \in Objects, Set(o)
  PROVE  IInv'
<1>1. PICK l \in Label :
        Becomes(o, Normalize(object[o], Append(object[o].labels, l)), Put(written[o], l))
  BY DEF Set
<1> DEFINE labels == object[o].labels
<1> DEFINE one == [n \in {l.name} |-> l.value]
<1>2. object[o] \in [labels : Contents, hash_valid : BOOLEAN, hash : Contents]
      /\ written[o] \in Maps
  BY DEF IInv, TypeOK
<1>3. labels \in Seq(Label) /\ Amounts(labels, written[o])
  BY <1>2, ContentsFacts DEF IInv, ShowInv
<1>4. Amounts(<<l>>, one) /\ one \in Maps
  BY AmountsOne, MapFacts
<1> HIDE DEF labels, one
<1>5. <<l>> \in Seq(Label) /\ Append(labels, l) = labels \o <<l>> /\ Append(labels, l) \in Seq(Label)
  BY <1>3
<1>6. Amounts(Append(labels, l), Overlaid(written[o], one))
  BY <1>3, <1>4, <1>5, AmountsBoth
<1>7. Put(written[o], l) = Overlaid(written[o], one) /\ Overlaid(written[o], one) \in Maps
  BY <1>2, <1>4, MapFacts DEF Put, one
<1>8. Becomes(o, Normalize(object[o], Append(labels, l)), Overlaid(written[o], one))
  BY <1>1, <1>7 DEF labels
<1> QED BY <1>2, <1>5, <1>6, <1>7, <1>8, BecomesStep

\* merged_with: the other's labels come last, and win.
LEMMA MergeStep ==
  ASSUME IInv, NEW o \in Objects, NEW p \in Objects, NEW q \in Objects, Merge(o, p, q)
  PROVE  IInv'
<1>1. /\ object[o].labels \in Seq(Label) /\ Amounts(object[o].labels, written[o])
      /\ object[p].labels \in Seq(Label) /\ Amounts(object[p].labels, written[p])
      /\ written[o] \in Maps /\ written[p] \in Maps
  <2>1. \A x \in Objects : object[x].labels \in Contents /\ written[x] \in Maps
    BY DEF IInv, TypeOK
  <2> QED BY <2>1, ContentsFacts DEF IInv, ShowInv
<1>2. Combined(o, p) \in Seq(Label) /\ Amounts(Combined(o, p), Overlaid(written[o], written[p]))
  BY <1>1, AmountsBoth DEF Combined
<1>3. Overlaid(written[o], written[p]) \in Maps
  BY <1>1, MapFacts
<1>4. Default \in [labels : Contents, hash_valid : BOOLEAN, hash : Contents]
  BY ContentsFacts DEF Default
<1>5. Becomes(q, Normalize(Default, Combined(o, p)), Overlaid(written[o], written[p]))
  BY DEF Merge
<1> QED BY <1>2, <1>3, <1>4, <1>5, BecomesStep

\* A copy has the labels, the map and the hash of the original, and was moved
\* from if that was.
LEMMA CopyStep ==
  ASSUME IInv, NEW o \in Objects, NEW p \in Objects, Copy(o, p)
  PROVE  IInv'
<1>1. TypeOK'
  BY DEF IInv, TypeOK, Copy
<1>2. /\ object'[p] = object[o] /\ written'[p] = written[o]
      /\ \A x \in Objects : x # p => object'[x] = object[x] /\ written'[x] = written[x]
  BY DEF IInv, TypeOK, Copy
<1>3. ShowInv'
  <2> SUFFICES ASSUME NEW x \in Objects
               PROVE  Increasing(object'[x].labels) /\ Amounts(object'[x].labels, written'[x])
    BY DEF ShowInv
  <2> QED BY <1>2 DEF IInv, ShowInv
<1>4. HashInv'
  BY <1>2 DEF IInv, HashInv, Copy
<1> QED BY <1>1, <1>3, <1>4 DEF IInv

\* A move leaves the original empty, with a hash that nothing claims.
LEMMA MoveStep ==
  ASSUME IInv, NEW o \in Objects, NEW p \in Objects, Move(o, p)
  PROVE  IInv'
<1> DEFINE left == [object[o] EXCEPT !.labels = <<>>]
<1>1. object[o] \in [labels : Contents, hash_valid : BOOLEAN, hash : Contents]
  BY DEF IInv, TypeOK
<1>2. /\ left \in [labels : Contents, hash_valid : BOOLEAN, hash : Contents]
      /\ left.labels = <<>>
  BY <1>1, ContentsFacts
<1>3. o # p /\ object' = [object EXCEPT ![p] = object[o], ![o] = left]
  BY DEF IInv, TypeOK, Move
<1> HIDE DEF left
<1>4. TypeOK'
  BY <1>1, <1>2, <1>3, MapFacts DEF IInv, TypeOK, Move
<1>5. /\ object'[p] = object[o] /\ written'[p] = written[o]
      /\ object'[o] = left /\ written'[o] = Empty
      /\ \A x \in Objects \ {o, p} : object'[x] = object[x] /\ written'[x] = written[x]
  BY <1>3 DEF IInv, TypeOK, Move
<1>6. ShowInv'
  <2> SUFFICES ASSUME NEW x \in Objects
               PROVE  Increasing(object'[x].labels) /\ Amounts(object'[x].labels, written'[x])
    BY DEF ShowInv
  <2>1. CASE x = o
    BY <1>2, <1>5, <2>1, ContentsFacts, AmountsNone
  <2>2. CASE x # o
    BY <1>5, <2>2 DEF IInv, ShowInv
  <2> QED BY <2>1, <2>2
<1>7. HashInv'
  <2> SUFFICES ASSUME NEW x \in Objects, x \notin movedFrom', object'[x].hash_valid
               PROVE  object'[x].hash = object'[x].labels
    BY DEF HashInv
  <2>1. x # o /\ (x = p => o \notin movedFrom) /\ (x # p => x \notin movedFrom)
    BY DEF Move
  <2>2. CASE x = p
    BY <1>5, <2>1, <2>2 DEF IInv, HashInv
  <2>3. CASE x # p
    BY <1>5, <2>1, <2>3 DEF IInv, HashInv
  <2> QED BY <2>2, <2>3
<1> QED BY <1>4, <1>6, <1>7 DEF IInv

\* hash() keeps the hash that is valid, or computes that of the labels.
LEMMA ComputeHashStep ==
  ASSUME IInv, NEW o \in Objects, ComputeHash(o)
  PROVE  IInv'
<1> DEFINE q == [object[o] EXCEPT !.hash = Hash(o), !.hash_valid = TRUE]
<1>1. object[o] \in [labels : Contents, hash_valid : BOOLEAN, hash : Contents]
  BY DEF IInv, TypeOK
<1>2. Hash(o) \in Contents
  BY <1>1 DEF Hash
<1>3. /\ q \in [labels : Contents, hash_valid : BOOLEAN, hash : Contents]
      /\ q.labels = object[o].labels /\ q.hash_valid = TRUE /\ q.hash = Hash(o)
  BY <1>1, <1>2
<1>4. object' = [object EXCEPT ![o] = q] /\ UNCHANGED <<written, movedFrom>>
  BY DEF IInv, TypeOK, ComputeHash
<1> HIDE DEF q
<1>5. TypeOK'
  BY <1>3, <1>4 DEF IInv, TypeOK
<1>6. object'[o] = q /\ \A x \in Objects : x # o => object'[x] = object[x]
  BY <1>4 DEF IInv, TypeOK
<1>7. ShowInv'
  <2> SUFFICES ASSUME NEW x \in Objects
               PROVE  Increasing(object'[x].labels) /\ Amounts(object'[x].labels, written'[x])
    BY DEF ShowInv
  <2> QED BY <1>3, <1>4, <1>6 DEF IInv, ShowInv
<1>8. o \notin movedFrom => Hash(o) = object[o].labels
  BY DEF IInv, HashInv, Hash
<1>9. HashInv'
  BY <1>3, <1>4, <1>6, <1>8 DEF IInv, HashInv
<1> QED BY <1>5, <1>7, <1>9 DEF IInv

\* Every step keeps the invariant.
LEMMA Step == IInv /\ [Next]_vars => IInv'
<1> SUFFICES ASSUME IInv, [Next]_vars PROVE IInv'
  OBVIOUS
<1>1. CASE UNCHANGED vars
  BY <1>1 DEF IInv, TypeOK, ShowInv, HashInv, vars
<1>2. CASE Next
  <2>1. PICK o \in Objects :
          \/ Construct(o) \/ Set(o) \/ ComputeHash(o)
          \/ \E p \in Objects : Copy(o, p) \/ Move(o, p) \/ \E q \in Objects : Merge(o, p, q)
    BY <1>2 DEF Next
  <2>2. CASE Construct(o)
    BY <2>2, ConstructStep
  <2>3. CASE Set(o)
    BY <2>3, SetStep
  <2>4. CASE ComputeHash(o)
    BY <2>4, ComputeHashStep
  <2>5. ASSUME NEW p \in Objects, Copy(o, p) PROVE IInv'
    BY <2>5, CopyStep
  <2>6. ASSUME NEW p \in Objects, Move(o, p) PROVE IInv'
    BY <2>6, MoveStep
  <2>7. ASSUME NEW p \in Objects, NEW q \in Objects, Merge(o, p, q) PROVE IInv'
    BY <2>7, MergeStep
  <2> QED BY <2>1, <2>2, <2>3, <2>4, <2>5, <2>6, <2>7
<1> QED BY <1>1, <1>2

\* In every state a set shows what its writes amount to, and a hash kept is
\* that of the labels (labels.hpp: normalize, set, merged_with, hash).
THEOREM Invariance == Spec => []IInv
<1> QED BY InitStep, Step, PTL DEF Spec

\* Objects, maps and moved-from objects have their types: in particular a set
\* never has more labels than there are names, for lists of any length.
THEOREM TypeCorrect == Spec => []TypeOK
<1>1. IInv => TypeOK
  BY DEF IInv
<1> QED BY <1>1, Invariance, PTL

\* Whatever is built, set, merged, copied and moved, the labels are sorted, one
\* for each name, with the value written last (Labels::normalize, merged_with).
THEOREM ShowsMap == Spec => []ViewIsTheMap
<1>1. IInv => ViewIsTheMap
  <2> SUFFICES ASSUME IInv, NEW o \in Objects
               PROVE  LET labels == object[o].labels IN
                      /\ \A i, j \in DOMAIN labels : i < j => labels[i].name < labels[j].name
                      /\ {<<labels[i].name, labels[i].value>> : i \in DOMAIN labels}
                           = {<<n, written[o][n]>> : n \in DOMAIN written[o]}
    BY DEF ViewIsTheMap
  <2> DEFINE labels == object[o].labels
  <2>1. labels \in Seq(Label)
    BY ContentsFacts DEF IInv, TypeOK
  <2>2. Increasing(labels) /\ Amounts(labels, written[o])
    BY DEF IInv, ShowInv
  <2> HIDE DEF labels
  <2>3. DOMAIN labels = 1..Len(labels)
    BY <2>1
  <2>4. \A i, j \in DOMAIN labels : i < j => labels[i].name < labels[j].name
    BY <2>2, <2>3 DEF Increasing
  <2>5. {<<labels[i].name, labels[i].value>> : i \in DOMAIN labels}
          = {<<n, written[o][n]>> : n \in DOMAIN written[o]}
    BY <2>1, <2>2, <2>3, SameLabels
  <2> QED BY <2>4, <2>5 DEF labels
<1> QED BY <1>1, Invariance, PTL

\* Two sets not moved from hash to the same exactly when they are equal, however
\* they came about and whenever they were hashed (Labels::hash, operator==).
THEOREM HashesAgree == Spec => []EqualSetsHashEqual
<1>1. IInv => EqualSetsHashEqual
  <2> SUFFICES ASSUME IInv, NEW o \in Objects \ movedFrom, NEW p \in Objects \ movedFrom
               PROVE  object[o].labels = object[p].labels <=> Hash(o) = Hash(p)
    BY DEF EqualSetsHashEqual
  <2>1. Hash(o) = object[o].labels /\ Hash(p) = object[p].labels
    BY DEF IInv, HashInv, Hash
  <2> QED BY <2>1
<1> QED BY <1>1, Invariance, PTL
=============================================================================
