----------------------------- MODULE Foundations -----------------------------
(***************************************************************************)
(* Facts about numbers, finite sets and lists that the proofs about the    *)
(* engines and the streams share.  Induction over numbers is spoken of as  *)
(* sets: the induction theorems of the library take an operator, WFMin     *)
(* takes a set.  For the same reason images are images under functions.    *)
(***************************************************************************)
EXTENDS Listings, FiniteSetTheorems, SequenceTheorems, WellFoundedInduction, TLAPS

-----------------------------------------------------------------------------
(***************************************************************************)
(* Numbers.                                                                *)
(***************************************************************************)

\* A set of numbers that has one has a least one.
LEMMA LeastOf ==
    ASSUME NEW T \in SUBSET Nat, T # {} PROVE \E n \in T : \A m \in T : n <= m
<1> DEFINE Lt == {ss \in Nat \X Nat : ss[1] < ss[2]}
<1>1. IsWellFoundedOn(Lt, Nat)
  BY NatLessThanWellFounded, Zenon DEF OpToRel
<1> HIDE DEF Lt
<1>2. PICK n \in T : \A y \in T : ~(<<y, n>> \in Lt)
  BY <1>1, WFMin
<1>3. ASSUME NEW m \in T PROVE n <= m
  <2>1. ~(<<m, n>> \in Lt) /\ m \in Nat /\ n \in Nat
    BY <1>2
  <2>2. ~(m < n)
    BY <2>1 DEF Lt
  <2> QED
    BY <2>1, <2>2
<1> QED
  BY <1>3

\* A set with 0 that has the successor of each of its members below N reaches N.
LEMMA Climb ==
    ASSUME NEW S, NEW N \in Nat, 0 \in S,
           \A k \in 0..(N - 1) : k \in S => k + 1 \in S
    PROVE  \A k \in 0..N : k \in S
<1> DEFINE T == {k \in 0..N : k \notin S}
<1> SUFFICES ASSUME T # {} PROVE FALSE
  OBVIOUS
<1>1. T \in SUBSET Nat
  OBVIOUS
<1>2. \A k \in T : k \in 0..N /\ k \notin S
  OBVIOUS
<1>3. \A k \in 0..N : k \notin T => k \in S
  OBVIOUS
<1> HIDE DEF T
<1>4. PICK n \in T : \A m \in T : n <= m
  BY <1>1, LeastOf
<1>5. n # 0 /\ n \in 1..N /\ n - 1 \in 0..(N - 1)
  BY <1>2
<1>6. n - 1 \notin T
  BY <1>4, <1>5
<1>7. n - 1 \in S
  BY <1>3, <1>5, <1>6
<1> QED
  BY <1>2, <1>4, <1>5, <1>7

-----------------------------------------------------------------------------
(***************************************************************************)
(* Images of finite sets.                                                  *)
(***************************************************************************)

LEMMA ImageFinite ==
    ASSUME NEW f, IsFiniteSet(DOMAIN f)
    PROVE  /\ IsFiniteSet({f[x] : x \in DOMAIN f})
           /\ Cardinality({f[x] : x \in DOMAIN f}) <= Cardinality(DOMAIN f)
<1> DEFINE T == {f[x] : x \in DOMAIN f}
           g == [x \in DOMAIN f |-> f[x]]
<1>1. g \in Surjection(DOMAIN f, T)
  BY DEF Surjection
<1> HIDE DEF g, T
<1>2. IsFiniteSet(T) /\ Cardinality(T) <= Cardinality(DOMAIN f)
  BY <1>1, FS_Surjection
<1> QED
  BY <1>2 DEF T

LEMMA IntervalFinite ==
    ASSUME NEW n \in Nat PROVE IsFiniteSet(1..n) /\ Cardinality(1..n) = n
<1>1. 1 \in Int /\ n \in Int
  OBVIOUS
<1>2. IsFiniteSet(1..n) /\ Cardinality(1..n) = IF 1 > n THEN 0 ELSE n - 1 + 1
  BY <1>1, FS_Interval
<1> QED
  BY <1>2

LEMMA SequenceFinite ==
    ASSUME NEW S, NEW s \in Seq(S)
    PROVE  IsFiniteSet(DOMAIN s) /\ Cardinality(DOMAIN s) = Len(s)
           /\ IsFiniteSet(ToSet(s)) /\ Cardinality(ToSet(s)) <= Len(s)
<1>1. DOMAIN s = 1..Len(s) /\ Len(s) \in Nat
  OBVIOUS
<1>2. IsFiniteSet(DOMAIN s) /\ Cardinality(DOMAIN s) = Len(s)
  BY <1>1, IntervalFinite
<1>3. IsFiniteSet({s[x] : x \in DOMAIN s}) /\ Cardinality({s[x] : x \in DOMAIN s}) <= Cardinality(DOMAIN s)
  BY <1>2, ImageFinite
<1> QED
  BY <1>2, <1>3 DEF ToSet

\* No more members, no more of them.
LEMMA Fewer ==
    ASSUME NEW S, NEW T, IsFiniteSet(T), S \subseteq T
    PROVE  IsFiniteSet(S) /\ Cardinality(S) \in Nat /\ Cardinality(T) \in Nat
           /\ Cardinality(S) <= Cardinality(T)
  BY FS_Subset, FS_CardinalityType

-----------------------------------------------------------------------------
(***************************************************************************)
(* Lists made from sets.                                                   *)
(***************************************************************************)

\* A list that names every member of a set once.
Lists(f, S) ==
    /\ f \in Seq(S) /\ ToSet(f) = S
    /\ \A i, j \in DOMAIN f : f[i] = f[j] => i = j

LEMMA ListOfAll ==
    ASSUME NEW S, IsFiniteSet(S), NEW f \in SetToSeqs(S)
    PROVE  Lists(f, S) /\ Len(f) = Cardinality(S)
<1> DEFINE n == Cardinality(S)
<1>1. n \in Nat
  BY FS_CardinalityType
<1>2. f \in [1..n -> S] /\ \A i, j \in 1..n : i # j => f[i] # f[j]
  BY DEF SetToSeqs
<1>3. f \in Injection(1..n, S)
  BY <1>2 DEF Injection, IsInjective
<1>4. IsFiniteSet(1..n) /\ Cardinality(1..n) = n
  BY <1>1, IntervalFinite
<1> HIDE DEF n
<1>5. f \in Surjection(1..n, S)
  BY <1>3, <1>4, FS_Injection DEF n
<1>6. \A x \in S : \E i \in 1..n : f[i] = x
  BY <1>5 DEF Surjection
<1>7. f \in Seq(S) /\ Len(f) = n /\ DOMAIN f = 1..n
  BY <1>1, <1>2
<1>8. ToSet(f) = S
  BY <1>2, <1>6, <1>7 DEF ToSet
<1> QED
  BY <1>2, <1>7, <1>8 DEF Lists, n

LEMMA ListExists ==
    ASSUME NEW S, IsFiniteSet(S) PROVE \E f : f \in SetToSeqs(S)
<1> DEFINE n == Cardinality(S)
<1>1. ExistsBijection(1..n, S)
  BY FS_CardinalityType
<1>2. PICK f : f \in Bijection(1..n, S)
  BY <1>1 DEF ExistsBijection
<1>3. f \in [1..n -> S] /\ \A i, j \in 1..n : i # j => f[i] # f[j]
  BY <1>2 DEF Bijection, Injection, IsInjective
<1> QED
  BY <1>3 DEF SetToSeqs

LEMMA SetToSeqIs ==
    ASSUME NEW S, IsFiniteSet(S)
    PROVE  Lists(SetToSeq(S), S) /\ Len(SetToSeq(S)) = Cardinality(S)
<1>1. PICK f : f \in SetToSeqs(S)
  BY ListExists
<1>2. f \in [1..Cardinality(S) -> S] /\ \A i, j \in 1..Cardinality(S) : i # j => f[i] # f[j]
  BY <1>1 DEF SetToSeqs
<1>3. IsInjective(f)
  BY <1>2 DEF IsInjective
<1>4. SetToSeq(S) \in [1..Cardinality(S) -> S] /\ IsInjective(SetToSeq(S))
  BY <1>2, <1>3, Zenon DEF SetToSeq
<1>5. SetToSeq(S) \in SetToSeqs(S)
  BY <1>4 DEF SetToSeqs, IsInjective
<1> QED
  BY <1>5, ListOfAll

LEMMA ArrangedIs ==
    ASSUME NEW S, IsFiniteSet(S), NEW sorted \in SUBSET SetToSeqs(S)
    PROVE  Lists(Arranged(S, sorted), S) /\ Len(Arranged(S, sorted)) = Cardinality(S)
<1>1. \E f \in SetToSeqs(S) : sorted = {} \/ f \in sorted
  BY ListExists
<1>2. Arranged(S, sorted) \in SetToSeqs(S)
  BY <1>1, Zenon DEF Arranged
<1> QED
  BY <1>2, ListOfAll

LEMMA FirstsIs ==
    ASSUME NEW T, NEW s \in Seq(T), NEW n \in Nat
    PROVE  /\ Firsts(s, n) \in Seq(T) /\ Len(Firsts(s, n)) <= n /\ Len(Firsts(s, n)) <= Len(s)
           /\ DOMAIN Firsts(s, n) \subseteq DOMAIN s
           /\ \A i \in DOMAIN Firsts(s, n) : Firsts(s, n)[i] = s[i]
<1>1. CASE Len(s) > n
  <2>1. Firsts(s, n) = SubSeq(s, 1, n)
    BY <1>1 DEF Firsts
  <2>2. /\ SubSeq(s, 1, n) \in Seq(T) /\ Len(SubSeq(s, 1, n)) = n
        /\ \A i \in 1..n : SubSeq(s, 1, n)[i] = s[i]
    BY <1>1
  <2> QED
    BY <1>1, <2>1, <2>2
<1>2. CASE ~(Len(s) > n)
  <2>1. Firsts(s, n) = s
    BY <1>2 DEF Firsts
  <2> QED
    BY <1>2, <2>1
<1> QED
  BY <1>1, <1>2

LEMMA ConcatIs ==
    ASSUME NEW T, NEW s \in Seq(T), NEW t \in Seq(T)
    PROVE  /\ s \o t \in Seq(T) /\ Len(s \o t) = Len(s) + Len(t)
           /\ DOMAIN (s \o t) = 1..(Len(s) + Len(t))
           /\ \A i \in DOMAIN s : i \in DOMAIN (s \o t) /\ (s \o t)[i] = s[i]
           /\ \A i \in DOMAIN t : Len(s) + i \in DOMAIN (s \o t) /\ (s \o t)[Len(s) + i] = t[i]
           /\ \A i \in DOMAIN (s \o t) :
                \/ i \in DOMAIN s /\ (s \o t)[i] = s[i]
                \/ i - Len(s) \in DOMAIN t /\ (s \o t)[i] = t[i - Len(s)]
           /\ ToSet(s \o t) = ToSet(s) \cup ToSet(t)
<1>1. /\ s \o t \in Seq(T) /\ Len(s \o t) = Len(s) + Len(t)
      /\ \A i \in 1..(Len(s) + Len(t)) :
            (s \o t)[i] = IF i <= Len(s) THEN s[i] ELSE t[i - Len(s)]
  BY ConcatProperties
<1>2. DOMAIN s = 1..Len(s) /\ DOMAIN t = 1..Len(t) /\ Len(s) \in Nat /\ Len(t) \in Nat
  OBVIOUS
<1>3. DOMAIN (s \o t) = 1..(Len(s) + Len(t))
  BY <1>1
<1>4. \A i \in DOMAIN s : i \in DOMAIN (s \o t) /\ (s \o t)[i] = s[i]
  BY <1>1, <1>2, <1>3
<1>5. \A i \in DOMAIN t : Len(s) + i \in DOMAIN (s \o t) /\ (s \o t)[Len(s) + i] = t[i]
  <2> SUFFICES ASSUME NEW i \in DOMAIN t
               PROVE  Len(s) + i \in DOMAIN (s \o t) /\ (s \o t)[Len(s) + i] = t[i]
    OBVIOUS
  <2>1. i \in 1..Len(t) /\ Len(s) + i \in 1..(Len(s) + Len(t)) /\ ~(Len(s) + i <= Len(s))
        /\ (Len(s) + i) - Len(s) = i
    BY <1>2
  <2>2. (s \o t)[Len(s) + i] = t[(Len(s) + i) - Len(s)]
    BY <1>1, <2>1
  <2> QED
    BY <1>3, <2>1, <2>2
<1>6. \A i \in DOMAIN (s \o t) :
         \/ i \in DOMAIN s /\ (s \o t)[i] = s[i]
         \/ i - Len(s) \in DOMAIN t /\ (s \o t)[i] = t[i - Len(s)]
  BY <1>1, <1>2, <1>3
<1>7. ToSet(s \o t) = ToSet(s) \cup ToSet(t)
  <2>1. ASSUME NEW x \in ToSet(s \o t) PROVE x \in ToSet(s) \cup ToSet(t)
    BY <1>6 DEF ToSet
  <2>2. ASSUME NEW x \in ToSet(s) \cup ToSet(t) PROVE x \in ToSet(s \o t)
    BY <1>4, <1>5 DEF ToSet
  <2> QED
    BY <2>1, <2>2
<1> QED
  BY <1>1, <1>3, <1>4, <1>5, <1>6, <1>7

LEMMA RanksAre ==
    ASSUME NEW R \in SUBSET Int, IsFiniteSet(R), NEW top \in R, \A x \in R : x <= top
    PROVE  /\ Cardinality(R) \in Nat \ {0} /\ DOMAIN InOrder(R) = 1..Cardinality(R)
           /\ InOrder(R)[Cardinality(R)] = top
           /\ InOrder(R)[1] \in R /\ \A x \in R : InOrder(R)[1] <= x
<1> DEFINE m == Cardinality(R)
           Below(x) == {y \in R : y < x}
           rank(x) == Cardinality(Below(x))
<1>0. \A x \in R : x \in Int
  OBVIOUS
<1>1. m \in Nat
  BY FS_CardinalityType
<1>2. m # 0
  BY FS_EmptySet
<1>3. DOMAIN InOrder(R) = 1..m
  BY DEF InOrder
<1>4. \A x \in R : IsFiniteSet(Below(x)) /\ rank(x) \in Nat
  <2>1. ASSUME NEW x \in R PROVE IsFiniteSet(Below(x)) /\ rank(x) \in Nat
    <3>1. Below(x) \in SUBSET R
      OBVIOUS
    <3>2. IsFiniteSet(Below(x))
      BY <3>1, FS_Subset
    <3> QED
      BY <3>2, FS_CardinalityType
  <2> QED
    BY <2>1
<1>5. \A x, y \in R : y < x => rank(y) < rank(x)
  <2>1. ASSUME NEW x \in R, NEW y \in R, y < x PROVE rank(y) < rank(x)
    <3>1. Below(y) \in SUBSET (Below(x) \ {y}) /\ y \in Below(x)
      <4>1. \A z \in R : z < y => z < x /\ z # y
        BY <1>0, <2>1
      <4> QED
        BY <2>1, <4>1
    <3>2. IsFiniteSet(Below(x)) /\ rank(x) \in Nat /\ rank(y) \in Nat
      BY <1>4
    <3> HIDE DEF Below
    <3>3. IsFiniteSet(Below(x) \ {y}) /\ Cardinality(Below(x) \ {y}) = rank(x) - 1
      BY <3>1, <3>2, FS_RemoveElement
    <3>4. rank(y) <= rank(x) - 1
      BY <3>1, <3>3, FS_Subset
    <3> QED
      BY <3>2, <3>4
  <2> QED
    BY <2>1
<1>6. rank(top) = m - 1
  <2>1. Below(top) = R \ {top}
    <3>1. \A z \in R : z < top <=> z # top
      BY <1>0
    <3> QED
      BY <3>1
  <2>2. Cardinality(R \ {top}) = m - 1
    BY FS_RemoveElement
  <2> HIDE DEF Below
  <2> QED
    BY <2>1, <2>2
<1> HIDE DEF rank, Below
<1>7. PICK b \in R : \A x \in R : rank(b) <= rank(x)
  <2> DEFINE T == {rank(x) : x \in R}
  <2>1. T \in SUBSET Nat /\ T # {}
    BY <1>4
  <2>2. PICK n \in T : \A k \in T : n <= k
    BY <2>1, LeastOf
  <2> QED
    BY <2>2
<1>8. rank(b) = 0
  <2>1. \A x \in R : ~(x < b)
    <3> SUFFICES ASSUME NEW x \in R, x < b PROVE FALSE
      OBVIOUS
    <3>1. rank(x) < rank(b) /\ rank(b) <= rank(x) /\ rank(x) \in Nat /\ rank(b) \in Nat
      BY <1>4, <1>5, <1>7
    <3> QED
      BY <3>1
  <2>2. Below(b) = {}
    BY <2>1 DEF Below
  <2> QED
    BY <2>2, FS_EmptySet DEF rank
<1>9. \A k \in 1..m : InOrder(R)[k] = CHOOSE x \in R : rank(x) = k - 1
  BY DEF InOrder, rank, Below
<1>10. InOrder(R)[1] \in R /\ \A x \in R : InOrder(R)[1] <= x
  <2> DEFINE least == InOrder(R)[1]
  <2>1. 1 \in 1..m /\ 1 - 1 = 0
    BY <1>1, <1>2
  <2>2. least = CHOOSE x \in R : rank(x) = 0
    BY <1>9, <2>1
  <2>3. least \in R /\ rank(least) = 0
    BY <1>8, <2>2
  <2> HIDE DEF least
  <2>4. ASSUME NEW x \in R PROVE least <= x
    <3>1. ~(x < least)
      <4> SUFFICES ASSUME x < least PROVE FALSE
        OBVIOUS
      <4>1. rank(x) < 0 /\ rank(x) \in Nat
        BY <1>4, <1>5, <2>3
      <4> QED
        BY <4>1
    <3> QED
      BY <1>0, <2>3, <3>1
  <2> QED
    BY <2>3, <2>4 DEF least
<1>11. InOrder(R)[m] = top
  <2>1. m \in 1..m
    BY <1>1, <1>2
  <2>2. InOrder(R)[m] = CHOOSE x \in R : rank(x) = m - 1
    BY <1>9, <2>1
  <2>3. \A x \in R : rank(x) = m - 1 => x = top
    <3> SUFFICES ASSUME NEW x \in R, rank(x) = m - 1, x # top PROVE FALSE
      OBVIOUS
    <3>1. x < top
      OBVIOUS
    <3>2. rank(x) < rank(top) /\ rank(x) \in Nat
      BY <1>4, <1>5, <3>1
    <3> QED
      BY <1>6, <3>2
  <2> QED
    BY <1>6, <2>2, <2>3
<1> QED
  BY <1>1, <1>2, <1>3, <1>10, <1>11

LEMMA InOrderIs ==
    ASSUME NEW R \in SUBSET Int, IsFiniteSet(R)
    PROVE  Lists(InOrder(R), R)
<1> DEFINE n == Cardinality(R)
           Below(x) == {y \in R : y < x}
           r == [x \in R |-> Cardinality(Below(x))]
<1>1. n \in Nat
  BY FS_CardinalityType
<1>2. \A x \in R : x \in Int /\ r[x] \in 0..(n - 1)
  <2> SUFFICES ASSUME NEW x \in R PROVE x \in Int /\ r[x] \in 0..(n - 1)
    OBVIOUS
  <2>1. IsFiniteSet(R \ {x}) /\ Cardinality(R \ {x}) = n - 1
    BY FS_RemoveElement
  <2>2. Below(x) \subseteq R \ {x}
    OBVIOUS
  <2> HIDE DEF Below, n
  <2>3. Cardinality(Below(x)) \in Nat /\ Cardinality(Below(x)) <= n - 1
    BY <2>1, <2>2, Fewer
  <2> QED
    BY <1>1, <2>3
<1>3. \A x, y \in R : y < x => r[y] < r[x]
  <2> SUFFICES ASSUME NEW x \in R, NEW y \in R, y < x PROVE r[y] < r[x]
    OBVIOUS
  <2>1. Below(y) \subseteq Below(x) \ {y} /\ y \in Below(x) /\ Below(x) \subseteq R
    <3>1. \A z \in R : z < y => z < x /\ z # y
      BY <1>2
    <3> QED
      BY <3>1
  <2> HIDE DEF Below
  <2>2. IsFiniteSet(Below(x)) /\ Cardinality(Below(x)) \in Nat
    BY <2>1, Fewer
  <2>3. IsFiniteSet(Below(x) \ {y}) /\ Cardinality(Below(x) \ {y}) = Cardinality(Below(x)) - 1
    BY <2>1, <2>2, FS_RemoveElement
  <2>4. Cardinality(Below(y)) \in Nat /\ Cardinality(Below(y)) <= Cardinality(Below(x)) - 1
    BY <2>1, <2>3, Fewer
  <2> QED
    BY <2>2, <2>4
<1>4. \A x, y \in R : r[x] = r[y] => x = y
  <2> SUFFICES ASSUME NEW x \in R, NEW y \in R, r[x] = r[y] PROVE x = y
    OBVIOUS
  <2>1. x \in Int /\ y \in Int /\ r[x] \in Int /\ r[y] \in Int
    BY <1>1, <1>2
  <2> HIDE DEF r
  <2>2. ~(x < y) /\ ~(y < x)
    BY <1>3, <2>1
  <2> QED
    BY <2>1, <2>2
<1>5. \A k \in 1..n : InOrder(R)[k] = CHOOSE x \in R : r[x] = k - 1
  BY DEF InOrder
<1>6. DOMAIN InOrder(R) = 1..n /\ InOrder(R) = [k \in 1..n |-> InOrder(R)[k]]
  <2> DEFINE Nth(k) == CHOOSE x \in R : Cardinality({y \in R : y < x}) = k - 1
  <2>1. InOrder(R) = [k \in 1..n |-> Nth(k)]
    BY Zenon DEF InOrder
  <2> HIDE DEF Nth, n
  <2>2. \A k \in 1..n : InOrder(R)[k] = Nth(k)
    BY <2>1
  <2> QED
    BY <2>1, <2>2
<1>7. DOMAIN r = R
  OBVIOUS
<1> HIDE DEF r, Below
<1>8. r \in Surjection(R, 0..(n - 1))
  <2>1. r \in Injection(R, 0..(n - 1))
    <3>1. r \in [R -> 0..(n - 1)]
      <4>1. r = [x \in R |-> r[x]]
        BY DEF r
      <4> QED
        BY <1>2, <4>1
    <3> QED
      BY <1>4, <3>1 DEF Injection, IsInjective
  <2>2. IsFiniteSet(0..(n - 1)) /\ Cardinality(0..(n - 1)) = n
    <3>1. 0 \in Int /\ n - 1 \in Int /\ (0 > n - 1 => n = 0)
      BY <1>1
    <3>2. Cardinality(0..(n - 1)) = IF 0 > n - 1 THEN 0 ELSE (n - 1) - 0 + 1
      BY <3>1, FS_Interval
    <3> QED
      BY <1>1, <3>1, <3>2, FS_Interval
  <2> QED
    BY <2>1, <2>2, FS_Injection
<1>9. \A k \in 1..n : InOrder(R)[k] \in R /\ r[InOrder(R)[k]] = k - 1
  <2> SUFFICES ASSUME NEW k \in 1..n PROVE InOrder(R)[k] \in R /\ r[InOrder(R)[k]] = k - 1
    OBVIOUS
  <2>1. k - 1 \in 0..(n - 1)
    BY <1>1
  <2>2. \E x \in R : r[x] = k - 1
    BY <1>8, <2>1 DEF Surjection
  <2> QED
    BY <1>5, <2>2, Zenon
<1> HIDE DEF n
<1>10. InOrder(R) \in Seq(R)
  BY <1>1, <1>6, <1>9
<1>11. \A i, j \in DOMAIN InOrder(R) : InOrder(R)[i] = InOrder(R)[j] => i = j
  <2> SUFFICES ASSUME NEW i \in 1..n, NEW j \in 1..n, InOrder(R)[i] = InOrder(R)[j] PROVE i = j
    BY <1>6
  <2>1. i - 1 = j - 1
    BY <1>9
  <2> QED
    BY <1>1, <2>1
<1>12. ToSet(InOrder(R)) = R
  <2>1. ASSUME NEW x \in R PROVE x \in ToSet(InOrder(R))
    <3>1. r[x] + 1 \in 1..n /\ (r[x] + 1) - 1 = r[x]
      BY <1>1, <1>2
    <3>2. InOrder(R)[r[x] + 1] \in R /\ r[InOrder(R)[r[x] + 1]] = r[x]
      BY <1>9, <3>1
    <3>3. InOrder(R)[r[x] + 1] = x
      BY <1>4, <3>2
    <3> QED
      BY <1>6, <3>1, <3>3 DEF ToSet
  <2> QED
    BY <1>6, <1>9, <2>1 DEF ToSet
<1> QED
  BY <1>10, <1>11, <1>12 DEF Lists

\* The elements of a list at some of its places: each place once.
LEMMA PickedIs ==
    ASSUME NEW T, NEW seq \in Seq(T), NEW places \in SUBSET (DOMAIN seq)
    PROVE  /\ Picked(seq, places) \in Seq(T)
           /\ ToSet(Picked(seq, places)) = {seq[i] : i \in places}
           /\ \E o : /\ Lists(o, places) /\ DOMAIN Picked(seq, places) = DOMAIN o
                     /\ \A k \in DOMAIN o : Picked(seq, places)[k] = seq[o[k]]
<1> DEFINE o == InOrder(places)
           p == Picked(seq, places)
<1>1. DOMAIN seq = 1..Len(seq) /\ IsFiniteSet(DOMAIN seq)
  BY SequenceFinite
<1>2. places \in SUBSET Int /\ IsFiniteSet(places)
  <2>1. Len(seq) \in Nat
    OBVIOUS
  <2>2. \A i \in 1..Len(seq) : i \in Int
    BY <2>1
  <2>3. IsFiniteSet(places)
    BY <1>1, Fewer
  <2> QED
    BY <1>1, <2>2, <2>3
<1>3. Lists(o, places)
  BY <1>2, InOrderIs
<1>4. DOMAIN o = 1..Cardinality(places) /\ Cardinality(places) \in Nat
  BY <1>2, FS_CardinalityType DEF InOrder
<1>5. p = [k \in 1..Cardinality(places) |-> seq[o[k]]]
  BY DEF Picked
<1> HIDE DEF o, p
<1>6. \A k \in DOMAIN o : o[k] \in places /\ p[k] = seq[o[k]] /\ p[k] \in T
  <2> SUFFICES ASSUME NEW k \in DOMAIN o PROVE o[k] \in places /\ p[k] = seq[o[k]] /\ p[k] \in T
    OBVIOUS
  <2>1. o[k] \in places
    BY <1>3 DEF Lists, ToSet
  <2>2. p[k] = seq[o[k]]
    BY <1>4, <1>5
  <2> QED
    BY <2>1, <2>2
<1>7. DOMAIN p = DOMAIN o
  BY <1>4, <1>5
<1>8. p \in Seq(T)
  BY <1>4, <1>5, <1>6
<1>9. ToSet(p) = {seq[i] : i \in places}
  <2>1. places = {o[k] : k \in DOMAIN o}
    BY <1>3 DEF Lists, ToSet
  <2> QED
    BY <1>6, <1>7, <2>1 DEF ToSet
<1> QED
  BY <1>3, <1>6, <1>7, <1>8, <1>9 DEF o, p

-----------------------------------------------------------------------------
(***************************************************************************)
(* Lists of lists.                                                         *)
(***************************************************************************)

\* The function inside FlattenSeq.
Flat(ss) ==
    CHOOSE f : f = [i \in 1..Len(ss) |-> IF i = 1 THEN ss[i] ELSE f[i - 1] \o ss[i]]

LEMMA FlatExists ==
    ASSUME NEW T, NEW ss \in Seq(Seq(T))
    PROVE  \E f : f = [i \in 1..Len(ss) |-> IF i = 1 THEN ss[i] ELSE f[i - 1] \o ss[i]]
<1> DEFINE Flats(f, n) ==
             f = [i \in 1..n |-> IF i = 1 THEN ss[i] ELSE f[i - 1] \o ss[i]]
           S == {n \in Nat : \E f : Flats(f, n)}
<1>1. 0 \in S
  <2>1. Flats([i \in 1..0 |-> 0], 0)
    OBVIOUS
  <2> QED
    BY <2>1
<1>2. ASSUME NEW n \in 0..(Len(ss) - 1), n \in S PROVE n + 1 \in S
  <2>1. PICK f : Flats(f, n)
    BY <1>2
  <2> DEFINE last == IF n + 1 = 1 THEN ss[n + 1] ELSE f[n] \o ss[n + 1]
             g == [i \in 1..(n + 1) |-> IF i = n + 1 THEN last ELSE f[i]]
  <2>2. n \in Nat
    OBVIOUS
  <2>3. \A i \in 1..n : f[i] = IF i = 1 THEN ss[i] ELSE f[i - 1] \o ss[i]
    BY <2>1
  <2>4. ASSUME NEW i \in 1..(n + 1) PROVE g[i] = IF i = 1 THEN ss[i] ELSE g[i - 1] \o ss[i]
    <3>1. CASE i = n + 1
      <4>1. g[i] = last
        BY <3>1
      <4>2. i # 1 => i - 1 \in 1..(n + 1) /\ i - 1 # n + 1 /\ i - 1 = n
        BY <2>2, <3>1
      <4>3. i # 1 => g[i - 1] = f[n]
        BY <4>2
      <4> QED
        BY <3>1, <4>1, <4>3
    <3>2. CASE i # n + 1
      <4>1. i \in 1..n /\ g[i] = f[i]
        BY <2>2, <3>2
      <4>2. i # 1 => i - 1 \in 1..(n + 1) /\ i - 1 # n + 1
        BY <2>2, <4>1
      <4>3. i # 1 => g[i - 1] = f[i - 1]
        BY <4>2
      <4> QED
        BY <2>3, <4>1, <4>3
    <3> QED
      BY <3>1, <3>2
  <2>5. g = [i \in 1..(n + 1) |-> g[i]]
    OBVIOUS
  <2> HIDE DEF g
  <2>6. Flats(g, n + 1)
    BY <2>4, <2>5
  <2> HIDE DEF Flats
  <2>7. \E h : Flats(h, n + 1)
    BY <2>6
  <2> QED
    BY <2>2, <2>7
<1>3. Len(ss) \in Nat
  OBVIOUS
<1> HIDE DEF S
<1>4. Len(ss) \in S
  <2>1. \A k \in 0..Len(ss) : k \in S
    BY <1>1, <1>2, <1>3, Climb
  <2> QED
    BY <1>3, <2>1
<1> QED
  BY <1>4 DEF S

\* An element of the flattened list is an element of a list, each at one place if each
\* was at one place of one list.
LEMMA FlattenIs ==
    ASSUME NEW T, NEW ss \in Seq(Seq(T))
    PROVE  /\ FlattenSeq(ss) \in Seq(T)
           /\ \A x : x \in ToSet(FlattenSeq(ss)) <=> \E k \in DOMAIN ss : x \in ToSet(ss[k])
           /\ (\A k, l \in DOMAIN ss : \A i \in DOMAIN ss[k], j \in DOMAIN ss[l] :
                 ss[k][i] = ss[l][j] => k = l /\ i = j)
              => \A i, j \in DOMAIN FlattenSeq(ss) :
                    FlattenSeq(ss)[i] = FlattenSeq(ss)[j] => i = j
<1> DEFINE f == Flat(ss)
           Apart == \A k, l \in DOMAIN ss : \A i \in DOMAIN ss[k], j \in DOMAIN ss[l] :
                        ss[k][i] = ss[l][j] => k = l /\ i = j
           Holds(s, n) ==
             /\ s \in Seq(T)
             /\ \A x : x \in ToSet(s) <=> \E k \in 1..n : x \in ToSet(ss[k])
             /\ Apart => \A i, j \in DOMAIN s : s[i] = s[j] => i = j
           S == {n \in Nat : n = 0 \/ Holds(f[n], n)}
<1>1. f = [i \in 1..Len(ss) |-> IF i = 1 THEN ss[i] ELSE f[i - 1] \o ss[i]]
  BY FlatExists, Zenon DEF Flat
<1>2. Len(ss) \in Nat /\ DOMAIN ss = 1..Len(ss) /\ \A k \in 1..Len(ss) : ss[k] \in Seq(T)
  OBVIOUS
<1>3. FlattenSeq(ss) = IF Len(ss) = 0 THEN ss ELSE f[Len(ss)]
  BY DEF FlattenSeq, Flat
<1> HIDE DEF f
<1>4. \A i \in 1..Len(ss) : f[i] = IF i = 1 THEN ss[i] ELSE f[i - 1] \o ss[i]
  BY <1>1
<1>5. 0 \in S
  OBVIOUS
<1>6. ASSUME NEW n \in 0..(Len(ss) - 1), n \in S PROVE n + 1 \in S
  <2>1. n \in Nat /\ n + 1 \in 1..Len(ss) /\ ss[n + 1] \in Seq(T)
    BY <1>2
  <2>2. CASE n = 0
    <3>1. f[1] = ss[1] /\ 1 \in 1..Len(ss) /\ ss[1] \in Seq(T)
      BY <1>4, <2>1, <2>2
    <3>2. \A x : x \in ToSet(f[1]) <=> \E k \in 1..1 : x \in ToSet(ss[k])
      BY <3>1
    <3>3. Apart => \A i, j \in DOMAIN f[1] : f[1][i] = f[1][j] => i = j
      BY <1>2, <3>1
    <3>4. Holds(f[1], 1)
      BY <3>1, <3>2, <3>3
    <3> QED
      BY <2>2, <3>4
  <2>3. CASE n # 0
    <3> DEFINE s == f[n]
               t == ss[n + 1]
    <3>1. Holds(s, n)
      BY <1>6, <2>3
    <3>2. f[n + 1] = s \o t
      <4>1. n + 1 # 1 /\ (n + 1) - 1 = n
        BY <2>1, <2>3
      <4> QED
        BY <1>4, <2>1, <4>1
    <3>3. s \in Seq(T) /\ t \in Seq(T)
      BY <2>1, <3>1
    <3>4. \A x : x \in ToSet(s) <=> \E k \in 1..n : x \in ToSet(ss[k])
      BY <3>1
    <3>5. Apart => \A i, j \in DOMAIN s : s[i] = s[j] => i = j
      BY <3>1
    <3>6. \A x : x \in ToSet(t) <=> x \in ToSet(ss[n + 1])
      OBVIOUS
    <3> HIDE DEF s
    <3>7. \A x : x \in ToSet(s \o t) <=> \E k \in 1..(n + 1) : x \in ToSet(ss[k])
      <4>1. ToSet(s \o t) = ToSet(s) \cup ToSet(t)
        BY <3>3, ConcatIs
      <4>2. \A k : k \in 1..(n + 1) <=> k \in 1..n \/ k = n + 1
        BY <2>1
      <4> HIDE DEF t
      <4> QED
        BY <3>4, <3>6, <4>1, <4>2
    <3>8. ASSUME Apart, NEW i \in DOMAIN (s \o t), NEW j \in DOMAIN (s \o t),
                 (s \o t)[i] = (s \o t)[j]
          PROVE  i = j
      <4>1. ASSUME NEW a \in DOMAIN s, NEW b \in DOMAIN t, s[a] = t[b] PROVE FALSE
        <5>1. s[a] \in ToSet(s)
          BY DEF ToSet
        <5>2. PICK k \in 1..n : s[a] \in ToSet(ss[k])
          BY <3>4, <5>1
        <5>3. PICK c \in DOMAIN ss[k] : ss[k][c] = s[a]
          BY <5>2 DEF ToSet
        <5>4. k \in DOMAIN ss /\ n + 1 \in DOMAIN ss /\ k # n + 1
          BY <1>2, <2>1
        <5> QED
          BY <3>8, <4>1, <5>3, <5>4
      <4>2. \A b, c \in DOMAIN t : t[b] = t[c] => b = c
        <5>1. n + 1 \in DOMAIN ss
          BY <1>2, <2>1
        <5> QED
          BY <3>8, <5>1
      <4>3. \A a, b \in DOMAIN s : s[a] = s[b] => a = b
        BY <3>5, <3>8
      <4> HIDE DEF t
      <4>4. \/ i \in DOMAIN s /\ (s \o t)[i] = s[i]
            \/ i - Len(s) \in DOMAIN t /\ (s \o t)[i] = t[i - Len(s)]
        BY <3>3, ConcatIs
      <4>5. \/ j \in DOMAIN s /\ (s \o t)[j] = s[j]
            \/ j - Len(s) \in DOMAIN t /\ (s \o t)[j] = t[j - Len(s)]
        BY <3>3, ConcatIs
      <4>6. i \in Int /\ j \in Int /\ Len(s) \in Int
        <5>1. DOMAIN (s \o t) = 1..(Len(s) + Len(t)) /\ Len(s) \in Nat /\ Len(t) \in Nat
          BY <3>3, ConcatIs
        <5> QED
          BY <5>1
      <4> QED
        BY <3>8, <4>1, <4>2, <4>3, <4>4, <4>5, <4>6
    <3>9. s \o t \in Seq(T)
      BY <3>3
    <3>10. Holds(s \o t, n + 1)
      BY <3>7, <3>8, <3>9
    <3> HIDE DEF Holds
    <3>11. Holds(f[n + 1], n + 1)
      BY <3>2, <3>10
    <3> QED
      BY <2>1, <3>11
  <2> QED
    BY <2>2, <2>3
<1> HIDE DEF S
<1>7. Len(ss) \in S
  <2>1. \A k \in 0..Len(ss) : k \in S
    BY <1>2, <1>5, <1>6, Climb
  <2> QED
    BY <1>2, <2>1
<1>8. CASE Len(ss) = 0
  <2>1. ss = <<>> /\ FlattenSeq(ss) = <<>> /\ DOMAIN ss = {}
    BY <1>2, <1>3, <1>8
  <2>2. <<>> \in Seq(T) /\ ToSet(<<>>) = {} /\ DOMAIN <<>> = {}
    BY DEF ToSet
  <2> QED
    BY <2>1, <2>2
<1>9. CASE Len(ss) # 0
  <2>1. Holds(f[Len(ss)], Len(ss)) /\ FlattenSeq(ss) = f[Len(ss)]
    BY <1>3, <1>7, <1>9 DEF S
  <2> QED
    BY <1>2, <2>1
<1> QED
  BY <1>8, <1>9

=============================================================================
