-------------------------- MODULE ContributionProofs --------------------------
(***************************************************************************)
(* The numbers of a root cause analysis, for every file, filter, window    *)
(* and limit: the contributions of a dimension add up to the whole change. *)
(***************************************************************************)
EXTENDS EngineProofs

-----------------------------------------------------------------------------
(***************************************************************************)
(* What the operations on fractions give, whatever terms a fraction is     *)
(* written in.                                                             *)
(***************************************************************************)

\* The fraction x is n / d.
Reads(x, n, d) == n \in Int /\ d \in Nat \ {0} /\ x = Lowest(n, d)

LEMMA ReadsItself ==
    ASSUME NEW x \in Fraction
    PROVE  Reads(x, x.num, x.den)
  BY DEF Fraction, Reads

LEMMA ReadsIs ==
    ASSUME NEW x, NEW n, NEW d, Reads(x, n, d)
    PROVE  /\ n \in Int /\ d \in Int /\ d > 0 /\ x \in Fraction
           /\ x.num \in Int /\ x.den \in Int /\ x.den > 0 /\ x.num * d = n * x.den
<1>1. n \in Int /\ d \in Nat \ {0} /\ x \in Fraction /\ x.num * d = n * x.den
  BY LowestIn DEF Reads
<1>2. x.num \in Int /\ x.den \in Nat \ {0}
  BY <1>1 DEF Fraction
<1> QED
  BY <1>1, <1>2

LEMMA ReadsAlso ==
    ASSUME NEW x, NEW n, NEW d, Reads(x, n, d), NEW m \in Int, NEW e \in Int, e > 0, n * e = m * d
    PROVE  Reads(x, m, e)
<1>1. n \in Int /\ d \in Nat \ {0} /\ x = Lowest(n, d) /\ e \in Nat \ {0}
  BY DEF Reads
<1>2. Lowest(n, d) = Lowest(m, e)
  BY <1>1, SameLowest
<1> QED
  BY <1>1, <1>2 DEF Reads

LEMMA ReadsOne ==
    ASSUME NEW x, NEW n, NEW d, Reads(x, n, d), NEW y, NEW m, NEW e, Reads(y, m, e)
    PROVE  x = y <=> n * e = m * d
<1>1. /\ n \in Int /\ d \in Nat \ {0} /\ x = Lowest(n, d)
      /\ m \in Int /\ e \in Nat \ {0} /\ y = Lowest(m, e)
  BY DEF Reads
<1>2. ASSUME n * e = m * d PROVE x = y
  BY <1>1, <1>2, SameLowest
<1>3. ASSUME x = y PROVE n * e = m * d
  <2>1. /\ x.num * d = n * x.den /\ x.num * e = m * x.den
        /\ x.num \in Int /\ x.den \in Int /\ x.den > 0
    BY <1>3, ReadsIs
  <2> DEFINE a == x.num
             b == x.den
  <2>2. a * d = n * b /\ a * e = m * b /\ a \in Int /\ b \in Int /\ b # 0
    BY <2>1
  <2> HIDE DEF a, b
  <2>3. (n * e) * b = (m * d) * b
    <3>1. (n * e) * b = (n * b) * e
      BY <1>1, <2>2
    <3>2. (a * d) * e = (a * e) * d
      BY <1>1, <2>2
    <3>3. (m * b) * d = (m * d) * b
      BY <1>1, <2>2
    <3> QED
      BY <2>2, <3>1, <3>2, <3>3
  <2> QED
    BY <1>1, <2>2, <2>3, Cancel
<1> QED
  BY <1>2, <1>3

LEMMA ReadsFrac ==
    ASSUME NEW n \in Int, NEW d \in Int, d # 0
    PROVE  /\ d > 0 => Reads(Frac(n, d), n, d)
           /\ d < 0 => Reads(Frac(n, d), -n, -d)
<1>1. ASSUME d > 0 PROVE Reads(Frac(n, d), n, d)
  <2>1. d \in Nat \ {0}
    BY <1>1
  <2> QED
    BY <2>1, FracIs DEF Reads
<1>2. ASSUME d < 0 PROVE Reads(Frac(n, d), -n, -d)
  <2>1. -d \in Nat \ {0} /\ -n \in Int /\ Absolute(d) = -d
    BY <1>2 DEF Absolute
  <2>2. Frac(n, d) = Lowest(-n, -d)
    BY <1>2, <2>1 DEF Frac
  <2> QED
    BY <2>1, <2>2 DEF Reads
<1> QED
  BY <1>1, <1>2

LEMMA ReadsWhole == ASSUME NEW i \in Int PROVE Reads(Whole(i), i, 1) /\ Reads(Zero, 0, 1) /\ Reads(One, 1, 1)
<1>1. \A k \in Int : Whole(k) \in Fraction /\ Whole(k).num = k /\ Whole(k).den = 1
  BY WholeIs DEF Whole
<1>2. \A k \in Int : Reads(Whole(k), k, 1)
  BY <1>1, ReadsItself
<1> QED
  BY <1>2 DEF Zero, One

LEMMA MoreThanZero == \A a, b \in Int : a > 0 /\ b > 0 => a * b > 0 /\ a * b \in Int
  OBVIOUS

\* The sum, difference and product of n / d and m / e.
LEMMA ReadsPlus ==
    ASSUME NEW x, NEW n, NEW d, Reads(x, n, d), NEW y, NEW m, NEW e, Reads(y, m, e)
    PROVE  /\ Reads(Plus(x, y), n * e + m * d, d * e)
           /\ Reads(Minus(x, y), n * e - m * d, d * e)
           /\ Reads(Times(x, y), n * m, d * e)
<1> DEFINE a == x.num
           b == x.den
           p == y.num
           q == y.den
<1>1. /\ n \in Int /\ d \in Int /\ d > 0 /\ a \in Int /\ b \in Int /\ b > 0 /\ a * d = n * b
      /\ m \in Int /\ e \in Int /\ e > 0 /\ p \in Int /\ q \in Int /\ q > 0 /\ p * e = m * q
  BY ReadsIs
<1>2. /\ Plus(x, y) = Frac(a * q + p * b, b * q)
      /\ Minus(x, y) = Frac(a * q - p * b, b * q)
      /\ Times(x, y) = Frac(a * p, b * q)
  BY DEF Plus, Minus, Times
<1> HIDE DEF a, b, p, q
<1>3. b * q > 0 /\ b * q \in Int /\ d * e > 0 /\ d * e \in Int
  BY <1>1, MoreThanZero
<1>4. /\ a * q + p * b \in Int /\ a * q - p * b \in Int /\ a * p \in Int
      /\ n * e + m * d \in Int /\ n * e - m * d \in Int /\ n * m \in Int
  BY <1>1
<1>5. (a * q) * (d * e) = (n * e) * (b * q)
  <2>1. (a * q) * (d * e) = (a * d) * (q * e)
    BY <1>1
  <2>2. (n * e) * (b * q) = (n * b) * (q * e)
    BY <1>1
  <2> QED
    BY <1>1, <2>1, <2>2
<1>6. (p * b) * (d * e) = (m * d) * (b * q)
  <2>1. (p * b) * (d * e) = (p * e) * (b * d)
    BY <1>1
  <2>2. (m * d) * (b * q) = (m * q) * (b * d)
    BY <1>1
  <2> QED
    BY <1>1, <2>1, <2>2
<1>7. (a * p) * (d * e) = (n * m) * (b * q)
  <2>1. (a * p) * (d * e) = (a * d) * (p * e)
    BY <1>1
  <2>2. (n * m) * (b * q) = (n * b) * (m * q)
    BY <1>1
  <2> QED
    BY <1>1, <2>1, <2>2
<1>8. \A u, v, w \in Int : (u + v) * w = u * w + v * w /\ (u - v) * w = u * w - v * w
  OBVIOUS
<1>9. a * q \in Int /\ p * b \in Int /\ n * e \in Int /\ m * d \in Int
  BY <1>1
<1>10. /\ (a * q + p * b) * (d * e) = (n * e + m * d) * (b * q)
       /\ (a * q - p * b) * (d * e) = (n * e - m * d) * (b * q)
  <2>1. /\ (a * q + p * b) * (d * e) = (a * q) * (d * e) + (p * b) * (d * e)
        /\ (a * q - p * b) * (d * e) = (a * q) * (d * e) - (p * b) * (d * e)
        /\ (n * e + m * d) * (b * q) = (n * e) * (b * q) + (m * d) * (b * q)
        /\ (n * e - m * d) * (b * q) = (n * e) * (b * q) - (m * d) * (b * q)
    BY <1>3, <1>8, <1>9
  <2> QED
    BY <1>5, <1>6, <2>1
<1>11. /\ Reads(Plus(x, y), a * q + p * b, b * q)
       /\ Reads(Minus(x, y), a * q - p * b, b * q)
       /\ Reads(Times(x, y), a * p, b * q)
  <2>1. b * q # 0
    BY <1>3
  <2> QED
    BY <1>2, <1>3, <1>4, <2>1, ReadsFrac
<1> QED
  BY <1>3, <1>4, <1>7, <1>10, <1>11, ReadsAlso

LEMMA ReadsHalve ==
    ASSUME NEW x, NEW n, NEW d, Reads(x, n, d)
    PROVE  Reads(Halve(x), n, 2 * d)
<1> DEFINE a == x.num
           b == x.den
<1>1. /\ n \in Int /\ d \in Int /\ d > 0 /\ a \in Int /\ b \in Int /\ b > 0 /\ a * d = n * b
  BY ReadsIs
<1>2. Halve(x) = Frac(a, 2 * b)
  BY DEF Halve
<1> HIDE DEF a, b
<1>3. 2 * b \in Int /\ 2 * b > 0 /\ 2 * b # 0 /\ 2 * d \in Int /\ 2 * d > 0
  BY <1>1
<1>4. a * (2 * d) = n * (2 * b)
  BY <1>1
<1>5. Reads(Halve(x), a, 2 * b)
  BY <1>1, <1>2, <1>3, ReadsFrac
<1> QED
  BY <1>1, <1>3, <1>4, <1>5, ReadsAlso

\* The quotient, by a positive and by a negative number.
LEMMA ReadsOver ==
    ASSUME NEW x, NEW n, NEW d, Reads(x, n, d), NEW y, NEW m, NEW e, Reads(y, m, e), m # 0
    PROVE  /\ m > 0 => Reads(Over(x, y), n * e, d * m)
           /\ m < 0 => Reads(Over(x, y), -(n * e), -(d * m))
<1> DEFINE a == x.num
           b == x.den
           p == y.num
           q == y.den
<1>1. /\ n \in Int /\ d \in Int /\ d > 0 /\ a \in Int /\ b \in Int /\ b > 0 /\ a * d = n * b
      /\ m \in Int /\ e \in Int /\ e > 0 /\ p \in Int /\ q \in Int /\ q > 0 /\ p * e = m * q
  BY ReadsIs
<1>2. Over(x, y) = Frac(a * q, b * p)
  BY DEF Over
<1> HIDE DEF a, b, p, q
<1>3. a * q \in Int /\ b * p \in Int /\ n * e \in Int /\ d * m \in Int
  BY <1>1
<1>4. (a * q) * (d * m) = (n * e) * (b * p)
  <2>1. (a * q) * (d * m) = (a * d) * (m * q)
    BY <1>1
  <2>2. (n * e) * (b * p) = (n * b) * (p * e)
    BY <1>1
  <2> QED
    BY <1>1, <2>1, <2>2
<1>5. \A u, v, w \in Int : u > 0 /\ v > 0 /\ w * u > 0 => w > 0
  OBVIOUS
<1>6. CASE m > 0
  <2>1. p > 0
    <3>1. m * q > 0
      BY <1>1, <1>6, MoreThanZero
    <3>2. p * e > 0
      BY <1>1, <3>1
    <3> QED
      BY <1>1, <3>2, <1>5
  <2>2. b * p > 0 /\ d * m > 0 /\ b * p # 0
    BY <1>1, <1>6, <2>1, MoreThanZero
  <2>3. Reads(Over(x, y), a * q, b * p)
    BY <1>2, <1>3, <2>2, ReadsFrac
  <2>4. Reads(Over(x, y), n * e, d * m)
    BY <1>3, <1>4, <2>2, <2>3, ReadsAlso
  <2> QED
    BY <1>6, <2>4, <1>1
<1>7. CASE m < 0
  <2>1. p < 0
    <3>1. (-m) * q > 0
      BY <1>1, <1>7, MoreThanZero
    <3>2. (-p) * e > 0
      <4>1. (-p) * e = -(p * e) /\ (-m) * q = -(m * q)
        BY <1>1
      <4> QED
        BY <1>1, <3>1, <4>1
    <3>3. -p > 0
      BY <1>1, <3>2, <1>5
    <3> QED
      BY <1>1, <3>3
  <2>2. b * (-p) > 0 /\ d * (-m) > 0
    BY <1>1, <1>7, <2>1, MoreThanZero
  <2>3. b * (-p) = -(b * p) /\ d * (-m) = -(d * m)
    BY <1>1
  <2>4. b * p < 0 /\ b * p # 0 /\ -(d * m) > 0 /\ -(b * p) > 0
    BY <1>3, <2>2, <2>3
  <2>5. Reads(Over(x, y), -(a * q), -(b * p))
    BY <1>2, <1>3, <2>4, ReadsFrac
  <2>6. \A u, v \in Int : (-u) * (-v) = u * v
    OBVIOUS
  <2>7. (-(a * q)) * (-(d * m)) = (-(n * e)) * (-(b * p))
    BY <1>3, <1>4, <2>6
  <2>8. -(n * e) \in Int /\ -(d * m) \in Int
    BY <1>3
  <2>9. Reads(Over(x, y), -(n * e), -(d * m))
    BY <2>4, <2>5, <2>7, <2>8, ReadsAlso
  <2> QED
    BY <1>7, <2>9, <1>1
<1> QED
  BY <1>1, <1>6, <1>7

\* Over one denominator, sums are sums of numerators.
LEMMA ReadsTogether ==
    ASSUME NEW x, NEW y, NEW n, NEW m, NEW d, Reads(x, n, d), Reads(y, m, d)
    PROVE  Reads(Plus(x, y), n + m, d) /\ Reads(Minus(x, y), n - m, d)
<1>1. n \in Int /\ d \in Int /\ d > 0 /\ m \in Int
  BY ReadsIs
<1>2. Reads(Plus(x, y), n * d + m * d, d * d) /\ Reads(Minus(x, y), n * d - m * d, d * d)
  BY ReadsPlus
<1>3. (n * d + m * d) * d = (n + m) * (d * d) /\ (n * d - m * d) * d = (n - m) * (d * d)
  BY <1>1
<1>4. n + m \in Int /\ n - m \in Int
  BY <1>1
<1> QED
  BY <1>1, <1>2, <1>3, <1>4, ReadsAlso

LEMMA Wider ==
    ASSUME NEW x, NEW n, NEW d, Reads(x, n, d), NEW k \in Int, k > 0
    PROVE  Reads(x, n * k, d * k)
<1>1. n \in Int /\ d \in Int /\ d > 0
  BY ReadsIs
<1>2. n * k \in Int /\ d * k \in Int /\ d * k > 0
  BY <1>1, MoreThanZero
<1>3. n * (d * k) = (n * k) * d
  BY <1>1
<1> QED
  BY <1>2, <1>3, ReadsAlso

\* Fractions have a common denominator.
LEMMA CommonTwo ==
    ASSUME NEW x \in Fraction, NEW y \in Fraction
    PROVE  \E d, n, m : Reads(x, n, d) /\ Reads(y, m, d)
<1>1. Reads(x, x.num, x.den) /\ Reads(y, y.num, y.den)
  BY ReadsItself
<1>2. x.den \in Int /\ x.den > 0 /\ y.den \in Int /\ y.den > 0
  BY <1>1, ReadsIs
<1>3. Reads(x, x.num * y.den, x.den * y.den) /\ Reads(y, y.num * x.den, y.den * x.den)
  BY <1>1, <1>2, Wider
<1>4. y.den * x.den = x.den * y.den
  BY <1>2
<1> QED
  BY <1>3, <1>4

LEMMA CommonFour ==
    ASSUME NEW x \in Fraction, NEW y \in Fraction, NEW u \in Fraction, NEW v \in Fraction
    PROVE  \E d, n, m, k, l : Reads(x, n, d) /\ Reads(y, m, d) /\ Reads(u, k, d) /\ Reads(v, l, d)
<1>1. PICK d, n, m : Reads(x, n, d) /\ Reads(y, m, d)
  BY CommonTwo
<1>2. PICK e, k, l : Reads(u, k, e) /\ Reads(v, l, e)
  BY CommonTwo
<1>3. d \in Int /\ d > 0 /\ e \in Int /\ e > 0
  BY <1>1, <1>2, ReadsIs
<1>4. /\ Reads(x, n * e, d * e) /\ Reads(y, m * e, d * e)
      /\ Reads(u, k * d, e * d) /\ Reads(v, l * d, e * d)
  BY <1>1, <1>2, <1>3, Wider
<1>5. e * d = d * e
  BY <1>3
<1> QED
  BY <1>4, <1>5

LEMMA ReadsFraction == ASSUME NEW x, NEW n, NEW d, Reads(x, n, d) PROVE x \in Fraction
  BY ReadsIs

LEMMA PlusMinusIn ==
    ASSUME NEW x \in Fraction, NEW y \in Fraction
    PROVE  /\ Plus(x, y) \in Fraction /\ Minus(x, y) \in Fraction /\ Times(x, y) \in Fraction
           /\ Halve(x) \in Fraction /\ Zero \in Fraction /\ One \in Fraction
<1>1. Reads(x, x.num, x.den) /\ Reads(y, y.num, y.den)
  BY ReadsItself
<1>2. Plus(x, y) \in Fraction /\ Minus(x, y) \in Fraction /\ Times(x, y) \in Fraction
  <2>1. /\ Reads(Plus(x, y), x.num * y.den + y.num * x.den, x.den * y.den)
        /\ Reads(Minus(x, y), x.num * y.den - y.num * x.den, x.den * y.den)
        /\ Reads(Times(x, y), x.num * y.num, x.den * y.den)
    BY <1>1, ReadsPlus
  <2> QED
    BY <2>1, ReadsFraction
<1>3. Halve(x) \in Fraction
  BY <1>1, ReadsHalve, ReadsFraction
<1>4. Zero \in Fraction /\ One \in Fraction
  BY WholeIs DEF Zero, One
<1> QED
  BY <1>2, <1>3, <1>4

LEMMA MinusPlus ==
    ASSUME NEW x \in Fraction, NEW y \in Fraction, NEW u \in Fraction, NEW v \in Fraction
    PROVE  Minus(Plus(x, u), Plus(y, v)) = Plus(Minus(x, y), Minus(u, v))
<1>1. PICK d, n, m, k, l : Reads(x, n, d) /\ Reads(y, m, d) /\ Reads(u, k, d) /\ Reads(v, l, d)
  BY CommonFour
<1>2. n \in Int /\ m \in Int /\ k \in Int /\ l \in Int /\ d \in Int /\ d > 0
  BY <1>1, ReadsIs
<1>3. Reads(Plus(x, u), n + k, d) /\ Reads(Plus(y, v), m + l, d)
  BY <1>1, ReadsTogether
<1>4. Reads(Minus(x, y), n - m, d) /\ Reads(Minus(u, v), k - l, d)
  BY <1>1, ReadsTogether
<1>5. Reads(Minus(Plus(x, u), Plus(y, v)), (n + k) - (m + l), d)
  BY <1>3, ReadsTogether
<1>6. Reads(Plus(Minus(x, y), Minus(u, v)), (n - m) + (k - l), d)
  BY <1>4, ReadsTogether
<1>7. (n + k) - (m + l) = (n - m) + (k - l)
  BY <1>2
<1> QED
  BY <1>5, <1>6, <1>7, ReadsOne

LEMMA MinusIs ==
    ASSUME NEW x \in Fraction, NEW y \in Fraction
    PROVE  /\ Plus(Minus(x, y), y) = x /\ Minus(x, Zero) = x /\ Minus(x, x) = Zero
           /\ Minus(Plus(x, y), y) = x /\ Plus(Zero, x) = x
<1>1. PICK d, n, m : Reads(x, n, d) /\ Reads(y, m, d)
  BY CommonTwo
<1>2. n \in Int /\ m \in Int /\ d \in Int /\ d > 0
  BY <1>1, ReadsIs
<1>3. Reads(Zero, 0, d)
  <2>1. Reads(Zero, 0, 1) /\ 0 * d = 0 * 1
    BY <1>2, ReadsWhole
  <2> QED
    BY <1>2, <2>1, ReadsAlso
<1>4. /\ Reads(Minus(x, y), n - m, d) /\ Reads(Minus(x, Zero), n - 0, d) /\ Reads(Minus(x, x), n - n, d)
      /\ Reads(Plus(x, y), n + m, d) /\ Reads(Plus(Zero, x), 0 + n, d)
  BY <1>1, <1>3, ReadsTogether
<1>5. Reads(Plus(Minus(x, y), y), (n - m) + m, d) /\ Reads(Minus(Plus(x, y), y), (n + m) - m, d)
  BY <1>1, <1>4, ReadsTogether
<1>6. (n - m) + m = n /\ n - 0 = n /\ n - n = 0 /\ (n + m) - m = n /\ 0 + n = n
  BY <1>2
<1> QED
  BY <1>1, <1>3, <1>4, <1>5, <1>6, ReadsOne

LEMMA NotZero ==
    ASSUME NEW z \in Fraction, z # Zero, NEW m, NEW e, Reads(z, m, e)
    PROVE  m # 0
<1>1. Reads(Zero, 0, 1) /\ m \in Int /\ e \in Int
  BY ReadsWhole, ReadsIs
<1>2. ASSUME m = 0 PROVE m * 1 = 0 * e
  BY <1>1, <1>2
<1> QED
  BY <1>1, <1>2, ReadsOne

LEMMA OverPlus ==
    ASSUME NEW x \in Fraction, NEW y \in Fraction, NEW z \in Fraction, z # Zero
    PROVE  /\ Over(Plus(x, y), z) = Plus(Over(x, z), Over(y, z))
           /\ Over(Minus(x, y), z) = Minus(Over(x, z), Over(y, z))
           /\ Over(x, z) \in Fraction /\ Over(z, z) = One /\ Over(Zero, z) = Zero
<1>1. PICK d, n, m : Reads(x, n, d) /\ Reads(y, m, d)
  BY CommonTwo
<1> DEFINE p == z.num
           q == z.den
<1>2. Reads(z, p, q)
  BY ReadsItself
<1> HIDE DEF p, q
<1>3. n \in Int /\ m \in Int /\ d \in Int /\ d > 0 /\ p \in Int /\ q \in Int /\ q > 0 /\ p # 0
  BY <1>1, <1>2, ReadsIs, NotZero
<1>4. Reads(Plus(x, y), n + m, d) /\ Reads(Minus(x, y), n - m, d) /\ Reads(Zero, 0, 1) /\ Reads(One, 1, 1)
  BY <1>1, ReadsTogether, ReadsWhole
<1>5. CASE p > 0
  <2>1. Reads(Over(x, z), n * q, d * p) /\ Reads(Over(y, z), m * q, d * p)
    BY <1>1, <1>2, <1>3, <1>5, ReadsOver
  <2>2. Reads(Over(Plus(x, y), z), (n + m) * q, d * p) /\ Reads(Over(Minus(x, y), z), (n - m) * q, d * p)
    BY <1>2, <1>3, <1>4, <1>5, ReadsOver
  <2>3. /\ Reads(Plus(Over(x, z), Over(y, z)), n * q + m * q, d * p)
        /\ Reads(Minus(Over(x, z), Over(y, z)), n * q - m * q, d * p)
    BY <2>1, ReadsTogether
  <2>4. (n + m) * q = n * q + m * q /\ (n - m) * q = n * q - m * q
    BY <1>3
  <2>5. Reads(Over(z, z), p * q, q * p) /\ Reads(Over(Zero, z), 0 * q, 1 * p)
    BY <1>2, <1>3, <1>4, <1>5, ReadsOver
  <2>6. (p * q) * 1 = 1 * (q * p) /\ (0 * q) * 1 = 0 * (1 * p)
    BY <1>3
  <2> QED
    BY <1>4, <2>1, <2>2, <2>3, <2>4, <2>5, <2>6, ReadsOne, ReadsFraction
<1>6. CASE p < 0
  <2>1. Reads(Over(x, z), -(n * q), -(d * p)) /\ Reads(Over(y, z), -(m * q), -(d * p))
    BY <1>1, <1>2, <1>3, <1>6, ReadsOver
  <2>2. /\ Reads(Over(Plus(x, y), z), -((n + m) * q), -(d * p))
        /\ Reads(Over(Minus(x, y), z), -((n - m) * q), -(d * p))
    BY <1>2, <1>3, <1>4, <1>6, ReadsOver
  <2>3. /\ Reads(Plus(Over(x, z), Over(y, z)), -(n * q) + (-(m * q)), -(d * p))
        /\ Reads(Minus(Over(x, z), Over(y, z)), -(n * q) - (-(m * q)), -(d * p))
    BY <2>1, ReadsTogether
  <2>4. -((n + m) * q) = -(n * q) + (-(m * q)) /\ -((n - m) * q) = -(n * q) - (-(m * q))
    BY <1>3
  <2>5. Reads(Over(z, z), -(p * q), -(q * p)) /\ Reads(Over(Zero, z), -(0 * q), -(1 * p))
    BY <1>2, <1>3, <1>4, <1>6, ReadsOver
  <2>6. (-(p * q)) * 1 = 1 * (-(q * p)) /\ (-(0 * q)) * 1 = 0 * (-(1 * p))
    BY <1>3
  <2> QED
    BY <1>4, <2>1, <2>2, <2>3, <2>4, <2>5, <2>6, ReadsOne, ReadsFraction
<1> QED
  BY <1>3, <1>5, <1>6

\* An effect on an average is what the group adds to it, less its part of the centre.
LEMMA EffectIs ==
    ASSUME NEW w \in Fraction, NEW v \in Fraction, NEW x \in Fraction, NEW y \in Fraction,
           NEW c \in Fraction
    PROVE  Plus(Times(Halve(Plus(w, v)), Minus(y, x)),
                Times(Minus(Halve(Plus(x, y)), c), Minus(v, w)))
             = Minus(Minus(Times(v, y), Times(w, x)), Times(c, Minus(v, w)))
<1>1. PICK d, a, b : Reads(w, a, d) /\ Reads(v, b, d)
  BY CommonTwo
<1>2. PICK q, p, r, s, t : Reads(x, p, q) /\ Reads(y, r, q) /\ Reads(c, s, q) /\ Reads(c, t, q)
  BY CommonFour
<1>3. /\ a \in Int /\ b \in Int /\ d \in Int /\ d > 0
      /\ p \in Int /\ r \in Int /\ s \in Int /\ q \in Int /\ q > 0
  BY <1>1, <1>2, ReadsIs
<1>4. /\ Reads(Plus(w, v), a + b, d) /\ Reads(Minus(v, w), b - a, d)
      /\ Reads(Plus(x, y), p + r, q) /\ Reads(Minus(y, x), r - p, q)
  BY <1>1, <1>2, ReadsTogether
<1>5. Reads(Halve(Plus(w, v)), a + b, 2 * d) /\ Reads(Halve(Plus(x, y)), p + r, 2 * q)
  BY <1>4, ReadsHalve
<1>6. Reads(c, s * 2, 2 * q)
  <2>1. 2 \in Int /\ 2 > 0 /\ q * 2 = 2 * q
    BY <1>3
  <2>2. Reads(c, s * 2, q * 2)
    BY <1>2, <2>1, Wider
  <2> QED
    BY <2>1, <2>2
<1>7. Reads(Minus(Halve(Plus(x, y)), c), (p + r) - s * 2, 2 * q)
  BY <1>5, <1>6, ReadsTogether
<1>8. /\ Reads(Times(Halve(Plus(w, v)), Minus(y, x)), (a + b) * (r - p), (2 * d) * q)
      /\ Reads(Times(Minus(Halve(Plus(x, y)), c), Minus(v, w)), ((p + r) - s * 2) * (b - a), (2 * q) * d)
  BY <1>4, <1>5, <1>7, ReadsPlus
<1>9. (2 * q) * d = (2 * d) * q /\ q * d = d * q
  BY <1>3
<1> DEFINE u == (a + b) * (r - p) + ((p + r) - s * 2) * (b - a)
           k == (b * r - a * p) - s * (b - a)
<1>10. Reads(Plus(Times(Halve(Plus(w, v)), Minus(y, x)),
                  Times(Minus(Halve(Plus(x, y)), c), Minus(v, w))), u, (2 * d) * q)
  BY <1>8, <1>9, ReadsTogether
<1>11. /\ Reads(Times(v, y), b * r, d * q) /\ Reads(Times(w, x), a * p, d * q)
       /\ Reads(Times(c, Minus(v, w)), s * (b - a), q * d)
  BY <1>1, <1>2, <1>4, ReadsPlus
<1>12. Reads(Minus(Times(v, y), Times(w, x)), b * r - a * p, d * q)
  BY <1>11, ReadsTogether
<1>13. Reads(Minus(Minus(Times(v, y), Times(w, x)), Times(c, Minus(v, w))), k, d * q)
  BY <1>9, <1>11, <1>12, ReadsTogether
<1>14. u = 2 * k
  BY <1>3
<1>15. u \in Int /\ k \in Int
  BY <1>3
<1>16. u * (d * q) = k * ((2 * d) * q)
  <2> HIDE DEF u, k
  <2>1. (2 * k) * (d * q) = k * ((2 * d) * q)
    BY <1>3, <1>15
  <2> QED
    BY <1>14, <2>1
<1> HIDE DEF u, k
<1> QED
  BY <1>10, <1>13, <1>16, ReadsOne

LEMMA TimesPlus ==
    ASSUME NEW c \in Fraction, NEW x \in Fraction, NEW y \in Fraction
    PROVE  /\ Times(c, Plus(x, y)) = Plus(Times(c, x), Times(c, y))
           /\ Times(c, Zero) = Zero /\ Times(Zero, c) = Zero
<1>1. PICK d, n, m : Reads(x, n, d) /\ Reads(y, m, d)
  BY CommonTwo
<1> DEFINE p == c.num
           q == c.den
<1>2. Reads(c, p, q)
  BY ReadsItself
<1> HIDE DEF p, q
<1>3. n \in Int /\ m \in Int /\ d \in Int /\ d > 0 /\ p \in Int /\ q \in Int /\ q > 0
  BY <1>1, <1>2, ReadsIs
<1>4. Reads(Plus(x, y), n + m, d) /\ Reads(Zero, 0, 1)
  BY <1>1, <1>3, ReadsTogether, ReadsWhole
<1>5. /\ Reads(Times(c, Plus(x, y)), p * (n + m), q * d)
      /\ Reads(Times(c, x), p * n, q * d) /\ Reads(Times(c, y), p * m, q * d)
      /\ Reads(Times(c, Zero), p * 0, q * 1) /\ Reads(Times(Zero, c), 0 * p, 1 * q)
  BY <1>1, <1>2, <1>4, ReadsPlus
<1>6. Reads(Plus(Times(c, x), Times(c, y)), p * n + p * m, q * d)
  BY <1>5, ReadsTogether
<1>7. p * (n + m) = p * n + p * m /\ (p * 0) * 1 = 0 * (q * 1) /\ (0 * p) * 1 = 0 * (1 * q)
  BY <1>3
<1> QED
  BY <1>4, <1>5, <1>6, <1>7, ReadsOne

\* A group's part of the rows times its average is its part of the total.
LEMMA WeightedIs ==
    ASSUME NEW t \in Fraction, NEW n \in Nat \ {0}, NEW N \in Nat \ {0}
    PROVE  Times(Frac(n, N), Over(t, Whole(n))) = Over(t, Whole(N))
<1> DEFINE a == t.num
           b == t.den
<1>1. Reads(t, a, b)
  BY ReadsItself
<1> HIDE DEF a, b
<1>2. a \in Int /\ b \in Int /\ b > 0 /\ n \in Int /\ n > 0 /\ N \in Int /\ N > 0 /\ n # 0 /\ N # 0
  BY <1>1, ReadsIs
<1>3. Reads(Frac(n, N), n, N) /\ Reads(Whole(n), n, 1) /\ Reads(Whole(N), N, 1)
  BY <1>2, ReadsFrac, ReadsWhole
<1>4. Reads(Over(t, Whole(n)), a * 1, b * n) /\ Reads(Over(t, Whole(N)), a * 1, b * N)
  BY <1>1, <1>2, <1>3, ReadsOver
<1>5. Reads(Times(Frac(n, N), Over(t, Whole(n))), n * (a * 1), N * (b * n))
  BY <1>3, <1>4, ReadsPlus
<1>6. (n * (a * 1)) * (b * N) = (a * 1) * (N * (b * n))
  BY <1>2
<1> QED
  BY <1>4, <1>5, <1>6, ReadsOne

\* Size.
LEMMA AbsIs ==
    ASSUME NEW x \in Fraction
    PROVE  Abs(x) \in Fraction /\ (x.num >= 0 => Abs(x) = x) /\ (x # Zero => Abs(x) # Zero)
<1> DEFINE a == x.num
           b == x.den
           g == IF b = 1 THEN 1 ELSE Divisor(Absolute(a), b)
           n == Absolute(a)
<1>1. /\ a \in Int /\ b \in Nat \ {0} /\ x = [num |-> a, den |-> b] /\ x = Lowest(a, b)
      /\ n \in Nat /\ Absolute(n) = n /\ (a >= 0 => n = a) /\ (n = 0 => a = 0)
  BY DEF Fraction, Absolute
<1>2. Abs(x) = [num |-> n, den |-> b]
  BY <1>1 DEF Abs
<1>3. Lowest(a, b) = [num |-> a \div g, den |-> b \div g] /\ Lowest(n, b) = [num |-> n \div g, den |-> b \div g]
  BY <1>1 DEF Lowest, Reduced
<1>4. g = 1
  <2>1. CASE b = 1
    BY <2>1
  <2>2. CASE b # 1
    <3>1. IsDivisor(g, n, b)
      BY <1>1, <2>2, DivisorIs
    <3> HIDE DEF g, n
    <3>2. g \in Nat /\ g = g * 1
      BY <3>1 DEF IsDivisor
    <3>3. Divides(g, b)
      BY <3>1, <3>2 DEF IsDivisor, Divides
    <3>4. PICK q \in Nat : b = g * q
      BY <3>3 DEF Divides
    <3>5. b \div g = b
      BY <1>1, <1>3
    <3>6. g > 0
      BY <1>1, <3>2, <3>4
    <3>7. (g * q) \div g = q
      BY <3>2, <3>6
    <3>8. g * b = 1 * b
      BY <1>1, <3>4, <3>5, <3>7
    <3>9. g \in Int /\ 1 \in Int /\ b \in Int /\ b # 0
      BY <1>1, <3>2
    <3> HIDE DEF b
    <3> QED
      BY <3>8, <3>9, Cancel
  <2> QED
    BY <2>1, <2>2
<1> HIDE DEF g, n
<1>5. Lowest(n, b) = [num |-> n, den |-> b]
  <2>1. n \div 1 = n /\ b \div 1 = b
    BY <1>1
  <2> QED
    BY <1>3, <1>4, <2>1
<1>6. Abs(x) \in Fraction
  BY <1>1, <1>2, <1>5, LowestIn
<1> QED
  BY <1>1, <1>2, <1>6 DEF Zero, Whole

-----------------------------------------------------------------------------
(***************************************************************************)
(* Sums of fractions, part by part.                                        *)
(***************************************************************************)

Numbers(of) == IsFiniteSet(DOMAIN of) /\ \A x \in DOMAIN of : of[x] \in Fraction

LEMMA PlusPlus ==
    ASSUME NEW x \in Fraction, NEW y \in Fraction, NEW u \in Fraction, NEW v \in Fraction
    PROVE  Plus(Plus(x, u), Plus(y, v)) = Plus(Plus(x, y), Plus(u, v))
<1>1. PICK d, n, m, k, l : Reads(x, n, d) /\ Reads(y, m, d) /\ Reads(u, k, d) /\ Reads(v, l, d)
  BY CommonFour
<1>2. n \in Int /\ m \in Int /\ k \in Int /\ l \in Int /\ d \in Int /\ d > 0
  BY <1>1, ReadsIs
<1>3. Reads(Plus(x, u), n + k, d) /\ Reads(Plus(y, v), m + l, d)
  BY <1>1, ReadsTogether
<1>4. Reads(Plus(x, y), n + m, d) /\ Reads(Plus(u, v), k + l, d)
  BY <1>1, ReadsTogether
<1>5. Reads(Plus(Plus(x, u), Plus(y, v)), (n + k) + (m + l), d)
  BY <1>3, ReadsTogether
<1>6. Reads(Plus(Plus(x, y), Plus(u, v)), (n + m) + (k + l), d)
  BY <1>4, ReadsTogether
<1>7. (n + k) + (m + l) = (n + m) + (k + l)
  BY <1>2
<1> QED
  BY <1>5, <1>6, <1>7, ReadsOne

LEMMA SumOfNone == ASSUME NEW of, DOMAIN of = {} PROVE Summed(of) = Zero
<1>1. IsFiniteSet(DOMAIN of) /\ \A x \in DOMAIN of : of[x] \in Fraction
  BY FS_EmptySet
<1>2. PICK sums : SumsOf(sums, of) /\ Summed(of) = sums[DOMAIN of]
  BY <1>1, SumsAre
<1> QED
  BY <1>2 DEF SumsOf

\* What may be done to every member may be done to the sum.
LEMMA SumMaps ==
    ASSUME NEW of, Numbers(of), NEW h, h[Zero] = Zero, \A x \in Fraction : h[x] \in Fraction,
           \A x, y \in Fraction : h[Plus(x, y)] = Plus(h[x], h[y])
    PROVE  Summed([x \in DOMAIN of |-> h[of[x]]]) = h[Summed(of)]
<1> DEFINE S == DOMAIN of
           as == [x \in S |-> h[of[x]]]
<1>1. PICK sums : /\ SumsOf(sums, of) /\ Summed(of) = sums[S]
                  /\ \A s \in SUBSET S : sums[s] \in Fraction
  BY SumsAre DEF Numbers
<1>2. sums[{}] = Zero /\ \A s \in SUBSET S : \A x \in s : sums[s] = Plus(of[x], sums[s \ {x}])
  BY <1>1 DEF SumsOf
<1> DEFINE m == [s \in SUBSET S |-> h[sums[s]]]
<1>3. IsFiniteSet(S) /\ \A x \in S : of[x] \in Fraction /\ as[x] = h[of[x]] /\ as[x] \in Fraction
  BY DEF Numbers
<1>4. DOMAIN as = S
  OBVIOUS
<1>5. m[{}] = Zero
  BY <1>2
<1>6. m[S] = h[sums[S]]
  OBVIOUS
<1>7. ASSUME NEW s \in SUBSET S, s # {} PROVE \E x \in s : m[s] = Plus(as[x], m[s \ {x}])
  <2>1. PICK x \in s : TRUE
    BY <1>7
  <2>2. s \ {x} \in SUBSET S /\ x \in S
    OBVIOUS
  <2>3. m[s] = h[sums[s]] /\ m[s \ {x}] = h[sums[s \ {x}]]
    BY <2>2
  <2>4. sums[s] = Plus(of[x], sums[s \ {x}])
    BY <1>2
  <2>5. of[x] \in Fraction /\ sums[s \ {x}] \in Fraction /\ as[x] = h[of[x]]
    BY <1>1, <1>3, <2>2
  <2> HIDE DEF m, as
  <2>6. m[s] = Plus(as[x], m[s \ {x}])
    BY <2>3, <2>4, <2>5
  <2> QED
    BY <2>6
<1> HIDE DEF m, as, S
<1>8. Summed(as) = m[DOMAIN as]
  BY <1>3, <1>4, <1>5, <1>7, SumIs
<1> QED
  BY <1>1, <1>4, <1>6, <1>8 DEF as, S

LEMMA SumOfPairs ==
    ASSUME NEW of, Numbers(of), NEW as, Numbers(as), DOMAIN as = DOMAIN of
    PROVE  /\ Summed([x \in DOMAIN of |-> Plus(of[x], as[x])]) = Plus(Summed(of), Summed(as))
           /\ Summed([x \in DOMAIN of |-> Minus(of[x], as[x])]) = Minus(Summed(of), Summed(as))
<1> DEFINE S == DOMAIN of
           up == [x \in S |-> Plus(of[x], as[x])]
           down == [x \in S |-> Minus(of[x], as[x])]
<1>1. PICK sums : /\ SumsOf(sums, of) /\ Summed(of) = sums[S]
                  /\ \A s \in SUBSET S : sums[s] \in Fraction
  BY SumsAre DEF Numbers
<1>2. PICK more : /\ SumsOf(more, as) /\ Summed(as) = more[S]
                  /\ \A s \in SUBSET S : more[s] \in Fraction
  BY SumsAre DEF Numbers
<1>3. /\ sums[{}] = Zero /\ \A s \in SUBSET S : \A x \in s : sums[s] = Plus(of[x], sums[s \ {x}])
      /\ more[{}] = Zero /\ \A s \in SUBSET S : \A x \in s : more[s] = Plus(as[x], more[s \ {x}])
  BY <1>1, <1>2 DEF SumsOf
<1> DEFINE m == [s \in SUBSET S |-> Plus(sums[s], more[s])]
           n == [s \in SUBSET S |-> Minus(sums[s], more[s])]
<1>4. /\ IsFiniteSet(S) /\ DOMAIN up = S /\ DOMAIN down = S
      /\ \A x \in S : /\ of[x] \in Fraction /\ as[x] \in Fraction
                      /\ up[x] = Plus(of[x], as[x]) /\ down[x] = Minus(of[x], as[x])
  BY DEF Numbers
<1>5. \A x \in S : up[x] \in Fraction /\ down[x] \in Fraction
  BY <1>4, PlusMinusIn
<1>6. m[{}] = Zero /\ n[{}] = Zero
  <2>1. {} \in SUBSET S /\ Zero \in Fraction
    BY <1>1, <1>3
  <2>2. Plus(Zero, Zero) = Zero /\ Minus(Zero, Zero) = Zero
    BY <2>1, MinusIs
  <2> QED
    BY <1>3, <2>1, <2>2
<1>7. m[S] = Plus(sums[S], more[S]) /\ n[S] = Minus(sums[S], more[S])
  OBVIOUS
<1>8. ASSUME NEW s \in SUBSET S, NEW x \in s
      PROVE  m[s] = Plus(up[x], m[s \ {x}]) /\ n[s] = Plus(down[x], n[s \ {x}])
  <2>1. s \ {x} \in SUBSET S /\ x \in S
    OBVIOUS
  <2>2. /\ m[s] = Plus(sums[s], more[s]) /\ m[s \ {x}] = Plus(sums[s \ {x}], more[s \ {x}])
        /\ n[s] = Minus(sums[s], more[s]) /\ n[s \ {x}] = Minus(sums[s \ {x}], more[s \ {x}])
    BY <2>1
  <2>3. sums[s] = Plus(of[x], sums[s \ {x}]) /\ more[s] = Plus(as[x], more[s \ {x}])
    BY <1>3
  <2>4. /\ of[x] \in Fraction /\ as[x] \in Fraction
        /\ sums[s \ {x}] \in Fraction /\ more[s \ {x}] \in Fraction
        /\ up[x] = Plus(of[x], as[x]) /\ down[x] = Minus(of[x], as[x])
    BY <1>1, <1>2, <1>4, <2>1
  <2> HIDE DEF m, n, up, down, S
  <2> DEFINE a == of[x]
             b == as[x]
             u == sums[s \ {x}]
             v == more[s \ {x}]
  <2>7. a \in Fraction /\ b \in Fraction /\ u \in Fraction /\ v \in Fraction
    BY <2>4
  <2>8. sums[s] = Plus(a, u) /\ more[s] = Plus(b, v)
    BY <2>3
  <2> HIDE DEF a, b, u, v
  <2>9. Plus(Plus(a, u), Plus(b, v)) = Plus(Plus(a, b), Plus(u, v))
    BY ONLY <2>7, PlusPlus
  <2>10. Minus(Plus(a, u), Plus(b, v)) = Plus(Minus(a, b), Minus(u, v))
    BY ONLY <2>7, MinusPlus
  <2>5. Plus(sums[s], more[s]) = Plus(Plus(of[x], as[x]), Plus(sums[s \ {x}], more[s \ {x}]))
    BY <2>8, <2>9 DEF a, b, u, v
  <2>6. Minus(sums[s], more[s]) = Plus(Minus(of[x], as[x]), Minus(sums[s \ {x}], more[s \ {x}]))
    BY <2>8, <2>10 DEF a, b, u, v
  <2> QED
    BY <2>2, <2>4, <2>5, <2>6
<1>9. /\ \A s \in SUBSET S : s # {} => \E x \in s : m[s] = Plus(up[x], m[s \ {x}])
      /\ \A s \in SUBSET S : s # {} => \E x \in s : n[s] = Plus(down[x], n[s \ {x}])
  <2> HIDE DEF m, n, up, down, S
  <2> QED
    BY <1>8
<1> HIDE DEF m, n, up, down, S
<1>10. Summed(up) = m[DOMAIN up]
  <2>1. IsFiniteSet(DOMAIN up) /\ \A x \in DOMAIN up : up[x] \in Fraction
    BY <1>4, <1>5
  <2>2. \A s \in SUBSET DOMAIN up : s # {} => \E x \in s : m[s] = Plus(up[x], m[s \ {x}])
    BY <1>4, <1>9
  <2> QED
    BY ONLY <1>6, <2>1, <2>2, SumIs
<1>11. Summed(down) = n[DOMAIN down]
  <2>1. IsFiniteSet(DOMAIN down) /\ \A x \in DOMAIN down : down[x] \in Fraction
    BY <1>4, <1>5
  <2>2. \A s \in SUBSET DOMAIN down : s # {} => \E x \in s : n[s] = Plus(down[x], n[s \ {x}])
    BY <1>4, <1>9
  <2> QED
    BY ONLY <1>6, <2>1, <2>2, SumIs
<1> QED
  BY <1>1, <1>2, <1>4, <1>7, <1>10, <1>11 DEF up, down, S

\* A sum over a part, and over two parts that are apart.
Only(of, T) == [x \in T |-> of[x]]

LEMMA SumSplit ==
    ASSUME NEW of, Numbers(of), NEW sums, SumsOf(sums, of),
           \A s \in SUBSET DOMAIN of : sums[s] \in Fraction
    PROVE  /\ \A T \in SUBSET DOMAIN of : Summed(Only(of, T)) = sums[T]
           /\ \A A, B \in SUBSET DOMAIN of :
                 A \cap B = {} => sums[A \cup B] = Plus(sums[A], sums[B])
<1> DEFINE S == DOMAIN of
<1>1. /\ IsFiniteSet(S) /\ \A x \in S : of[x] \in Fraction
      /\ sums[{}] = Zero /\ \A s \in SUBSET S : \A x \in s : sums[s] = Plus(of[x], sums[s \ {x}])
      /\ \A s \in SUBSET S : sums[s] \in Fraction
  BY DEF Numbers, SumsOf
<1> HIDE DEF S
<1>2. ASSUME NEW T \in SUBSET S
      PROVE  /\ IsFiniteSet(DOMAIN Only(of, T)) /\ DOMAIN Only(of, T) = T
             /\ \A x \in DOMAIN Only(of, T) :
                   Only(of, T)[x] \in Fraction /\ Only(of, T)[x] = of[x]
  <2>1. IsFiniteSet(T)
    BY <1>1, FS_Subset
  <2> QED
    BY <1>1, <2>1 DEF Only
<1>3. ASSUME NEW T \in SUBSET S PROVE Summed(Only(of, T)) = sums[T]
  <2> DEFINE as == Only(of, T)
  <2>1. IsFiniteSet(DOMAIN as) /\ DOMAIN as = T /\ \A x \in DOMAIN as : as[x] \in Fraction /\ as[x] = of[x]
    BY <1>2
  <2> HIDE DEF as
  <2>2. \A s \in SUBSET DOMAIN as : s # {} => \E x \in s : sums[s] = Plus(as[x], sums[s \ {x}])
    BY <1>1, <2>1
  <2>3. Summed(as) = sums[DOMAIN as]
    BY ONLY <1>1, <2>1, <2>2, SumIs
  <2> QED
    BY <2>1, <2>3 DEF as
<1>4. ASSUME NEW A \in SUBSET S, NEW B \in SUBSET S, A \cap B = {}
      PROVE  sums[A \cup B] = Plus(sums[A], sums[B])
  <2> DEFINE as == Only(of, B)
             m == [s \in SUBSET B |-> Minus(sums[A \cup s], sums[A])]
  <2>1. IsFiniteSet(DOMAIN as) /\ DOMAIN as = B /\ \A x \in DOMAIN as : as[x] \in Fraction /\ as[x] = of[x]
    BY <1>2
  <2>2. m[{}] = Zero
    <3>1. A \cup {} = A /\ {} \in SUBSET B /\ sums[A] \in Fraction
      BY <1>1
    <3>2. m[{}] = Minus(sums[A], sums[A])
      BY <3>1
    <3> HIDE DEF m
    <3> QED
      BY <3>1, <3>2, MinusIs
  <2>3. ASSUME NEW s \in SUBSET B, NEW x \in s PROVE m[s] = Plus(as[x], m[s \ {x}])
    <3>1. /\ A \cup s \in SUBSET S /\ x \in A \cup s /\ (A \cup s) \ {x} = A \cup (s \ {x})
          /\ A \cup (s \ {x}) \in SUBSET S /\ x \in S /\ x \in B /\ s \ {x} \in SUBSET B
      BY <1>4
    <3>2. m[s] = Minus(sums[A \cup s], sums[A]) /\ m[s \ {x}] = Minus(sums[A \cup (s \ {x})], sums[A])
      BY <3>1
    <3>3. sums[A \cup s] = Plus(of[x], sums[A \cup (s \ {x})])
      BY <1>1, <3>1
    <3>4. of[x] \in Fraction /\ sums[A] \in Fraction /\ sums[A \cup (s \ {x})] \in Fraction /\ as[x] = of[x]
      BY <1>1, <2>1, <3>1
    <3> DEFINE a == of[x]
               u == sums[A \cup (s \ {x})]
               v == sums[A]
    <3>5. a \in Fraction /\ u \in Fraction /\ v \in Fraction /\ Zero \in Fraction
      BY <3>4, PlusMinusIn
    <3>6. m[s] = Minus(Plus(a, u), v) /\ m[s \ {x}] = Minus(u, v) /\ as[x] = a
      BY <3>2, <3>3, <3>4
    <3> HIDE DEF a, u, v, m, as
    <3>7. Minus(Plus(a, u), Plus(Zero, v)) = Plus(Minus(a, Zero), Minus(u, v))
      BY ONLY <3>5, MinusPlus
    <3>8. Plus(Zero, v) = v /\ Minus(a, Zero) = a
      BY ONLY <3>5, MinusIs
    <3> QED
      BY <3>6, <3>7, <3>8
  <2>4. m[B] = Minus(sums[A \cup B], sums[A])
    OBVIOUS
  <2> HIDE DEF m, as
  <2>5. \A s \in SUBSET DOMAIN as : s # {} => \E x \in s : m[s] = Plus(as[x], m[s \ {x}])
    BY <2>1, <2>3
  <2>6. Summed(as) = m[DOMAIN as]
    BY ONLY <2>1, <2>2, <2>5, SumIs
  <2>7. sums[B] = Minus(sums[A \cup B], sums[A])
    BY <1>3, <2>1, <2>4, <2>6 DEF as
  <2>8. sums[A] \in Fraction /\ sums[A \cup B] \in Fraction /\ sums[B] \in Fraction
    BY <1>1
  <2>9. Plus(Minus(sums[A \cup B], sums[A]), sums[A]) = sums[A \cup B]
    BY <2>8, MinusIs
  <2> QED
    BY <2>7, <2>8, <2>9, PlusIs
<1> QED
  BY <1>3, <1>4 DEF S

\* The sums of the parts of a partition add up to the sum of the whole.
Having(lab, S, x) == {i \in S : lab[i] = x}
PartSums(of, lab, L) == [x \in L |-> Summed(Only(of, Having(lab, DOMAIN of, x)))]

LEMMA SumPartition ==
    ASSUME NEW of, Numbers(of), NEW lab, NEW L, IsFiniteSet(L), \A i \in DOMAIN of : lab[i] \in L
    PROVE  /\ Numbers(PartSums(of, lab, L))
           /\ Summed(PartSums(of, lab, L)) = Summed(of)
<1> DEFINE S == DOMAIN of
           as == PartSums(of, lab, L)
           behind(T) == {i \in S : lab[i] \in T}
<1>1. PICK sums : /\ SumsOf(sums, of) /\ Summed(of) = sums[S]
                  /\ \A s \in SUBSET S : sums[s] \in Fraction
  BY SumsAre DEF Numbers
<1>2. /\ \A T \in SUBSET S : Summed(Only(of, T)) = sums[T]
      /\ \A A, B \in SUBSET S : A \cap B = {} => sums[A \cup B] = Plus(sums[A], sums[B])
      /\ sums[{}] = Zero
  <2>1. /\ SumsOf(sums, of) /\ Numbers(of)
        /\ \A s \in SUBSET DOMAIN of : sums[s] \in Fraction
    BY <1>1
  <2>2. /\ \A T \in SUBSET DOMAIN of : Summed(Only(of, T)) = sums[T]
        /\ \A A, B \in SUBSET DOMAIN of :
              A \cap B = {} => sums[A \cup B] = Plus(sums[A], sums[B])
    BY ONLY <2>1, SumSplit
  <2>3. sums[{}] = Zero
    BY <2>1 DEF SumsOf
  <2> QED
    BY <2>2, <2>3
<1> DEFINE m == [T \in SUBSET L |-> sums[behind(T)]]
<1>3. DOMAIN as = L /\ \A x \in L : as[x] = sums[Having(lab, S, x)] /\ as[x] \in Fraction
  BY <1>1, <1>2 DEF PartSums, Having
<1>4. m[{}] = Zero
  <2>1. behind({}) = {} /\ {} \in SUBSET L
    OBVIOUS
  <2> HIDE DEF behind
  <2> QED
    BY <1>2, <2>1
<1>5. m[L] = sums[S]
  <2>1. behind(L) = S
    OBVIOUS
  <2> HIDE DEF behind
  <2> QED
    BY <2>1
<1>6. ASSUME NEW T \in SUBSET L, NEW x \in T PROVE m[T] = Plus(as[x], m[T \ {x}])
  <2>1. /\ behind(T) = Having(lab, S, x) \cup behind(T \ {x})
        /\ Having(lab, S, x) \cap behind(T \ {x}) = {}
        /\ Having(lab, S, x) \in SUBSET S /\ behind(T \ {x}) \in SUBSET S
        /\ T \ {x} \in SUBSET L /\ x \in L
    BY DEF Having
  <2> HIDE DEF behind
  <2>2. m[T] = sums[behind(T)] /\ m[T \ {x}] = sums[behind(T \ {x})]
    BY <2>1
  <2>3. sums[behind(T)] = Plus(sums[Having(lab, S, x)], sums[behind(T \ {x})])
    BY <1>2, <2>1
  <2> QED
    BY <1>3, <2>1, <2>2, <2>3
<1> HIDE DEF m, as
<1>7. IsFiniteSet(DOMAIN as) /\ \A x \in DOMAIN as : as[x] \in Fraction
  BY <1>3
<1>8. \A T \in SUBSET DOMAIN as : T # {} => \E x \in T : m[T] = Plus(as[x], m[T \ {x}])
  BY <1>3, <1>6
<1>9. Summed(as) = m[DOMAIN as]
  BY ONLY <1>4, <1>7, <1>8, SumIs
<1> QED
  BY <1>1, <1>3, <1>5, <1>7, <1>9 DEF as, Numbers

\* So do the counts.
LEMMA CountPartition ==
    ASSUME NEW S, IsFiniteSet(S), NEW lab, NEW L, IsFiniteSet(L), \A i \in S : lab[i] \in L
    PROVE  Summed([x \in L |-> Whole(Cardinality(Having(lab, S, x)))]) = Whole(Cardinality(S))
<1> DEFINE ps == [x \in L |-> [rows |-> Cardinality(Having(lab, S, x)), start |-> x]]
<1>1. CountedBy(ps, S, lab)
  BY DEF CountedBy, Having
<1>2. Summed(CountsOf(ps)) = Whole(Cardinality(S))
  BY <1>1, SumOfCounts
<1>3. CountsOf(ps) = [x \in L |-> Whole(Cardinality(Having(lab, S, x)))]
  BY DEF CountsOf
<1> QED
  BY <1>2, <1>3

-----------------------------------------------------------------------------
(***************************************************************************)
(* The groups of a breakdown part the rows of the windows.                 *)
(***************************************************************************)

TheWindows == {windows.current, windows.previous}
SegmentOf(d) == [i \in DOMAIN The.rows |-> The.rows[i].segment[d]]
InEither(S) == Within(S, windows.current) \cup Within(S, windows.previous)
SegmentsIn(d, S) == {The.rows[i].segment[d] : i \in InEither(S)}
Part(d, s, S) == {i \in S : The.rows[i].segment[d] = s}

LEMMA SegmentsAre ==
    ASSUME Given, NEW d, NEW S \in SUBSET (DOMAIN The.rows)
    PROVE  /\ IsFiniteSet(S) /\ IsFiniteSet(InEither(S)) /\ IsFiniteSet(SegmentsIn(d, S))
           /\ \A w \in TheWindows : \A i \in Within(S, w) : SegmentOf(d)[i] \in SegmentsIn(d, S)
           /\ \A s \in SegmentsIn(d, S) : \E i \in InEither(S) : The.rows[i].segment[d] = s
<1> DEFINE row == [i \in InEither(S) |-> The.rows[i].segment[d]]
<1>1. The.rows \in Seq(Row)
  BY GivenFields
<1>2. IsFiniteSet(DOMAIN The.rows)
  BY <1>1, SequenceFinite
<1>3. InEither(S) \subseteq S
  BY DEF InEither, Within
<1>4. IsFiniteSet(S) /\ IsFiniteSet(InEither(S))
  BY <1>2, <1>3, Fewer
<1>5. SegmentsIn(d, S) = {row[i] : i \in InEither(S)} /\ DOMAIN row = InEither(S)
  BY DEF SegmentsIn
<1>6. IsFiniteSet(SegmentsIn(d, S))
  <2> HIDE DEF row
  <2> QED
    BY <1>4, <1>5, ImageFinite
<1>7. ASSUME NEW w \in TheWindows, NEW i \in Within(S, w) PROVE SegmentOf(d)[i] \in SegmentsIn(d, S)
  <2>1. i \in InEither(S) /\ i \in DOMAIN The.rows
    BY <1>7 DEF TheWindows, InEither, Within
  <2> QED
    BY <2>1 DEF SegmentOf, SegmentsIn
<1> QED
  BY <1>4, <1>6, <1>7 DEF SegmentsIn

\* The groups listed: each of a segment of its own, all of them unless the list is full.
ListsGroups(groups, d, S) ==
    /\ IsFiniteSet(DOMAIN groups) /\ Len(groups) \in Nat /\ DOMAIN groups = 1..Len(groups)
    /\ \A i \in DOMAIN groups : /\ groups[i].segment \in SegmentsIn(d, S)
                                /\ groups[i] = Group(d, groups[i].segment, S)
    /\ \A i, j \in DOMAIN groups : groups[i].segment = groups[j].segment => i = j
AllGroups(groups, d, S) ==
    \A s \in SegmentsIn(d, S) : \E i \in DOMAIN groups : groups[i].segment = s

LEMMA BreakdownLists ==
    ASSUME Given, NEW d, NEW S \in SUBSET (DOMAIN The.rows)
    PROVE  /\ ListsGroups(Breakdown(d, S), d, S)
           /\ Len(Breakdown(d, S)) < The.limit => AllGroups(Breakdown(d, S), d, S)
<1> DEFINE V == SegmentsIn(d, S)
           group == [s \in V |-> Group(d, s, S)]
           G == {group[s] : s \in V}
           ranked == SortedBy(G, MovesMore)
           groups == Breakdown(d, S)
<1>1. The.limit \in Nat
  BY GivenFields
<1>2. IsFiniteSet(V)
  BY SegmentsAre
<1>3. groups = Firsts(ranked, The.limit)
  <2>1. {Group(d, s, S) : s \in {The.rows[i].segment[d] : i \in InEither(S)}} = G
    BY DEF SegmentsIn
  <2> QED
    BY <2>1 DEF Breakdown, InEither
<1> HIDE DEF V
<1>4. IsFiniteSet(G)
  <2>1. DOMAIN group = V
    OBVIOUS
  <2> HIDE DEF group
  <2> QED
    BY <1>2, <2>1, ImageFinite
<1>5. \A s \in V : group[s].segment = s /\ group[s] = Group(d, s, S)
  BY DEF Group, Labelled
<1> HIDE DEF group
<1>6. Lists(ranked, G)
  BY <1>4, ArrangedIs DEF SortedBy
<1> HIDE DEF ranked
<1>7. \A x \in G : \E s \in V : x = group[s]
  OBVIOUS
<1>8. \A s \in V : group[s] \in G
  OBVIOUS
<1> HIDE DEF G
<1>9. /\ groups \in Seq(G) /\ DOMAIN groups \subseteq DOMAIN ranked
      /\ \A i \in DOMAIN groups : groups[i] = ranked[i]
  BY <1>1, <1>3, <1>6, FirstsIs DEF Lists
<1>10. Len(groups) < The.limit => groups = ranked
  <2>1. ranked \in Seq(G)
    BY <1>6 DEF Lists
  <2>2. Len(ranked) > The.limit => Len(groups) = The.limit
    BY <1>1, <1>3, <2>1 DEF Firsts
  <2> QED
    BY <1>1, <1>3, <2>2 DEF Firsts
<1> HIDE DEF groups
<1>11. /\ Len(groups) \in Nat /\ DOMAIN groups = 1..Len(groups) /\ IsFiniteSet(DOMAIN groups)
  BY <1>9, SequenceFinite
<1>12. \A i \in DOMAIN groups : \E s \in V : groups[i] = group[s]
  BY <1>6, <1>7, <1>9 DEF Lists, ToSet
<1>13. \A i \in DOMAIN groups : groups[i].segment \in V /\ groups[i] = Group(d, groups[i].segment, S)
  BY <1>5, <1>12
<1>14. \A i, j \in DOMAIN groups : groups[i].segment = groups[j].segment => i = j
  <2> SUFFICES ASSUME NEW i \in DOMAIN groups, NEW j \in DOMAIN groups,
                      groups[i].segment = groups[j].segment
               PROVE  i = j
    OBVIOUS
  <2>1. groups[i] = groups[j]
    BY <1>13
  <2> QED
    BY <1>6, <1>9, <2>1 DEF Lists
<1>15. ASSUME Len(groups) < The.limit, NEW s \in V PROVE \E i \in DOMAIN groups : groups[i].segment = s
  <2>1. groups = ranked
    BY <1>10, <1>15
  <2>2. group[s] \in ToSet(ranked)
    BY <1>6, <1>8 DEF Lists
  <2>3. PICK i \in DOMAIN ranked : ranked[i] = group[s]
    BY <2>2 DEF ToSet
  <2> QED
    BY <1>5, <2>1, <2>3
<1> QED
  BY <1>11, <1>13, <1>14, <1>15 DEF ListsGroups, AllGroups, groups, V

\* What is summed over the list is summed over the segments.
Taken(f, groups) == [i \in DOMAIN groups |-> f[groups[i].segment]]

LEMMA ListSum ==
    ASSUME NEW d, NEW S, NEW groups, ListsGroups(groups, d, S), AllGroups(groups, d, S),
           NEW f, Numbers(f), DOMAIN f = SegmentsIn(d, S)
    PROVE  Summed(Taken(f, groups)) = Summed(f)
<1> DEFINE as == Taken(f, groups)
           o == [i \in DOMAIN groups |-> groups[i].segment]
<1>1. /\ DOMAIN as = DOMAIN groups /\ DOMAIN o = DOMAIN as
      /\ \A i \in DOMAIN as : as[i] = f[o[i]] /\ o[i] = groups[i].segment
  BY DEF Taken
<1> HIDE DEF as, o
<1>2. IsFiniteSet(DOMAIN f) /\ \A x \in DOMAIN f : f[x] \in Fraction
  BY DEF Numbers
<1>3. \A j \in DOMAIN as : o[j] \in DOMAIN f /\ as[j] = f[o[j]]
  BY <1>1 DEF ListsGroups
<1>4. \A j, k \in DOMAIN as : o[j] = o[k] => j = k
  BY <1>1 DEF ListsGroups
<1>5. ASSUME NEW x \in DOMAIN f PROVE \E j \in DOMAIN as : o[j] = x
  <2>1. x \in SegmentsIn(d, S)
    OBVIOUS
  <2>2. PICK i \in DOMAIN groups : groups[i].segment = x
    BY <2>1 DEF AllGroups
  <2> QED
    BY <1>1, <2>2
<1>6. DOMAIN o = DOMAIN as
  BY <1>1
<1>7. Summed(as) = Summed(f)
  BY ONLY <1>2, <1>3, <1>4, <1>5, <1>6, SameSum
<1> QED
  BY <1>7 DEF as

\* What one window holds of the parts, and of the whole.
LEMMA PartsAre ==
    ASSUME NEW d, NEW s, NEW S \in SUBSET (DOMAIN The.rows), NEW w
    PROVE  /\ Within(Part(d, s, S), w) = Having(SegmentOf(d), Within(S, w), s)
           /\ Measured(Within(Part(d, s, S), w)) = Having(SegmentOf(d), Measured(Within(S, w)), s)
           /\ Within(S, w) \subseteq S /\ Measured(Within(S, w)) \subseteq Within(S, w)
           /\ Part(d, s, S) \subseteq S
<1>1. /\ Within(S, w) \subseteq S /\ Measured(Within(S, w)) \subseteq Within(S, w)
      /\ Part(d, s, S) \subseteq S
  BY DEF Within, Measured, Part
<1>2. \A i \in S : SegmentOf(d)[i] = The.rows[i].segment[d]
  BY DEF SegmentOf
<1>3. Within(Part(d, s, S), w) = Having(SegmentOf(d), Within(S, w), s)
  BY <1>2 DEF Within, Having, Part
<1>4. \A T : Measured(Having(SegmentOf(d), T, s)) = Having(SegmentOf(d), Measured(T), s)
  BY DEF Measured, Having
<1> QED
  BY <1>1, <1>3, <1>4

LEMMA ValuesAre ==
    ASSUME Given, NEW S \in SUBSET (DOMAIN The.rows), NEW i \in Measured(S)
    PROVE  ValueOf(i) \in Int
<1>1. i \in DOMAIN The.rows /\ CellValue(The.rows[i].measure) # {}
  BY DEF Measured
<1>2. CellValue(The.rows[i].measure) = {The.rows[i].measure.is}
  BY <1>1 DEF CellValue
<1>3. ValueOf(i) = The.rows[i].measure.is
  BY <1>2 DEF ValueOf
<1>4. The.rows[i] \in Row
  BY <1>1, GivenFields
<1> QED
  BY <1>3, <1>4 DEF Row

ValuesOf(M) == [i \in M |-> Whole(ValueOf(i))]

LEMMA TotalIs ==
    ASSUME Given, NEW S \in SUBSET (DOMAIN The.rows), NEW M \in SUBSET Measured(S)
    PROVE  /\ Numbers(ValuesOf(M)) /\ TotalOf(M) = Summed(ValuesOf(M)) /\ TotalOf(M) \in Fraction
           /\ IsFiniteSet(M) /\ Cardinality(M) \in Nat
           /\ M = {} => TotalOf(M) = Zero
           /\ Cardinality(M) = 0 <=> M = {}
<1>1. IsFiniteSet(M) /\ Cardinality(M) \in Nat
  <2>1. The.rows \in Seq(Row)
    BY GivenFields
  <2>2. M \subseteq DOMAIN The.rows
    BY DEF Measured
  <2> QED
    BY <2>1, <2>2, SequenceFinite, Fewer
<1>2. DOMAIN ValuesOf(M) = M
  BY DEF ValuesOf
<1>3. ASSUME NEW i \in M PROVE ValuesOf(M)[i] \in Fraction
  <2>1. ValueOf(i) \in Int
    BY ValuesAre
  <2>2. ValuesOf(M)[i] = Whole(ValueOf(i))
    BY DEF ValuesOf
  <2> QED
    BY <2>1, <2>2, WholeIs
<1>4. Numbers(ValuesOf(M))
  BY <1>1, <1>2, <1>3 DEF Numbers
<1>5. TotalOf(M) = Summed(ValuesOf(M))
  BY Zenon DEF TotalOf, SumOver, ValuesOf
<1>6. Summed(ValuesOf(M)) \in Fraction
  BY <1>4, SumInFraction DEF Numbers
<1>7. M = {} => Summed(ValuesOf(M)) = Zero
  BY <1>2, SumOfNone
<1>8. Cardinality(M) = 0 <=> M = {}
  BY <1>1, FS_EmptySet
<1> QED
  BY <1>1, <1>4, <1>5, <1>6, <1>7, <1>8

TotalParts(d, S, w) == [s \in SegmentsIn(d, S) |-> TotalOf(Measured(Within(Part(d, s, S), w)))]
CountParts(d, S, w) ==
    [s \in SegmentsIn(d, S) |-> Whole(Cardinality(Measured(Within(Part(d, s, S), w))))]
RowParts(d, S, w) == [s \in SegmentsIn(d, S) |-> Whole(Cardinality(Within(Part(d, s, S), w)))]

LEMMA PartsAddUp ==
    ASSUME Given, NEW d, NEW S \in SUBSET (DOMAIN The.rows), NEW w \in TheWindows
    PROVE  /\ Numbers(TotalParts(d, S, w))
           /\ Summed(TotalParts(d, S, w)) = TotalOf(Measured(Within(S, w)))
           /\ Numbers(CountParts(d, S, w))
           /\ Summed(CountParts(d, S, w)) = Whole(Cardinality(Measured(Within(S, w))))
           /\ Numbers(RowParts(d, S, w))
           /\ Summed(RowParts(d, S, w)) = Whole(Cardinality(Within(S, w)))
<1> DEFINE L == SegmentsIn(d, S)
           lab == SegmentOf(d)
           T == Within(S, w)
           M == Measured(T)
<1>1. /\ IsFiniteSet(S) /\ IsFiniteSet(L) /\ \A i \in T : lab[i] \in L
  BY SegmentsAre
<1>2. T \subseteq S /\ M \subseteq T /\ M \in SUBSET Measured(S)
  BY DEF Within, Measured
<1>3. IsFiniteSet(T) /\ IsFiniteSet(M)
  BY <1>1, <1>2, Fewer
<1>4. \A s \in L : /\ Within(Part(d, s, S), w) = Having(lab, T, s)
                   /\ Measured(Within(Part(d, s, S), w)) = Having(lab, M, s)
  BY PartsAre
<1>5. \A s : Having(lab, T, s) \subseteq T /\ Having(lab, M, s) \subseteq M
  BY DEF Having
<1> HIDE DEF L, lab, T, M
<1>6. Numbers(TotalParts(d, S, w)) /\ Summed(TotalParts(d, S, w)) = TotalOf(M)
  <2> DEFINE of == ValuesOf(M)
  <2>1. Numbers(of) /\ DOMAIN of = M /\ TotalOf(M) = Summed(of)
    BY <1>2, TotalIs DEF ValuesOf
  <2>2. \A i \in DOMAIN of : lab[i] \in L
    BY <1>1, <1>2, <2>1
  <2> HIDE DEF of
  <2>3. Numbers(PartSums(of, lab, L)) /\ Summed(PartSums(of, lab, L)) = Summed(of)
    BY <1>1, <2>1, <2>2, SumPartition
  <2>4. ASSUME NEW s \in L
        PROVE  TotalOf(Measured(Within(Part(d, s, S), w))) = Summed(Only(of, Having(lab, M, s)))
    <3>1. Having(lab, M, s) \in SUBSET Measured(S)
      BY <1>2, <1>5
    <3>2. TotalOf(Having(lab, M, s)) = Summed(ValuesOf(Having(lab, M, s)))
      BY <3>1, TotalIs
    <3>3. ValuesOf(Having(lab, M, s)) = Only(of, Having(lab, M, s))
      BY <1>5 DEF ValuesOf, Only, of
    <3> QED
      BY <1>4, <3>2, <3>3
  <2>5. TotalParts(d, S, w) = PartSums(of, lab, L)
    BY <2>1, <2>4 DEF TotalParts, PartSums, L
  <2> QED
    BY <2>1, <2>3, <2>5
<1>7. ASSUME NEW U, U \subseteq T
      PROVE  LET counts == [s \in L |-> Whole(Cardinality(Having(lab, U, s)))]
             IN  Numbers(counts) /\ Summed(counts) = Whole(Cardinality(U))
  <2> DEFINE counts == [s \in L |-> Whole(Cardinality(Having(lab, U, s)))]
  <2>1. IsFiniteSet(U) /\ \A i \in U : lab[i] \in L
    BY <1>1, <1>3, <1>7, Fewer
  <2>2. Summed(counts) = Whole(Cardinality(U))
    BY <1>1, <2>1, CountPartition
  <2>3. ASSUME NEW s \in L PROVE counts[s] \in Fraction
    <3>1. Having(lab, U, s) \subseteq U
      BY DEF Having
    <3>2. Cardinality(Having(lab, U, s)) \in Int
      BY <2>1, <3>1, Fewer
    <3> QED
      BY <3>2, WholeIs
  <2>4. Numbers(counts)
    BY <1>1, <2>3 DEF Numbers
  <2> QED
    BY <2>2, <2>4
<1>8. CountParts(d, S, w) = [s \in L |-> Whole(Cardinality(Having(lab, M, s)))]
  BY <1>4 DEF CountParts, L
<1>9. RowParts(d, S, w) = [s \in L |-> Whole(Cardinality(Having(lab, T, s)))]
  BY <1>4 DEF RowParts, L
<1>10. Numbers(CountParts(d, S, w)) /\ Summed(CountParts(d, S, w)) = Whole(Cardinality(M))
  BY <1>2, <1>7, <1>8
<1>11. Numbers(RowParts(d, S, w)) /\ Summed(RowParts(d, S, w)) = Whole(Cardinality(T))
  BY <1>7, <1>9
<1> QED
  BY <1>6, <1>10, <1>11 DEF M, T

-----------------------------------------------------------------------------
(***************************************************************************)
(* Changes of the groups, and of the whole.                                *)
(***************************************************************************)

Summable == {"SUM", "COUNT", "AVG", "COUNT_DISTINCT"}
Held(S, w) == AggregateOf(Measured(Within(S, w)), Cardinality(Measured(Within(S, w))))
Distinct(M) == {ValueOf(i) : i \in M}

LEMMA HeldIs ==
    ASSUME Given, NEW S \in SUBSET (DOMAIN The.rows), NEW w,
           NEW M, M = Measured(Within(S, w))
    PROVE  /\ The.aggregation = "SUM" => OrZero(Held(S, w)) = TotalOf(M)
           /\ The.aggregation = "COUNT" => OrZero(Held(S, w)) = Whole(Cardinality(M))
           /\ The.aggregation = "AVG" =>
                 Held(S, w) = IF M = {} THEN {} ELSE {Over(TotalOf(M), Whole(Cardinality(M)))}
           /\ The.aggregation = "COUNT_DISTINCT" => OrZero(Held(S, w)) = Whole(Cardinality(Distinct(M)))
           /\ The.aggregation \in Summable => OrZero(Held(S, w)) \in Fraction
<1> DEFINE n == Cardinality(M)
<1>1. M \in SUBSET Measured(S)
  BY DEF Within, Measured
<1>2. /\ IsFiniteSet(M) /\ n \in Nat /\ TotalOf(M) \in Fraction
      /\ (M = {} => TotalOf(M) = Zero) /\ (n = 0 <=> M = {})
  BY <1>1, TotalIs
<1>3. Held(S, w) = AggregateOf(M, n)
  BY DEF Held
<1> HIDE DEF n
<1>4. \A v : OrZero({v}) = v
  BY DEF OrZero
<1>5. OrZero({}) = Zero
  BY DEF OrZero
<1>6. ASSUME The.aggregation = "SUM" PROVE OrZero(AggregateOf(M, n)) = TotalOf(M)
  <2>1. AggregateOf(M, n) = IF M = {} THEN {} ELSE {TotalOf(M)}
    BY <1>6 DEF AggregateOf, Counting
  <2> QED
    BY <1>2, <1>4, <1>5, <2>1
<1>7. ASSUME The.aggregation = "COUNT" PROVE OrZero(AggregateOf(M, n)) = Whole(n)
  <2>1. AggregateOf(M, n) = {Whole(n)}
    BY <1>7 DEF AggregateOf, Counting
  <2> QED
    BY <1>4, <2>1
<1>8. ASSUME The.aggregation = "AVG"
      PROVE  AggregateOf(M, n) = IF M = {} THEN {} ELSE {Over(TotalOf(M), Whole(n))}
  BY <1>8 DEF AggregateOf, Counting
<1>9. ASSUME The.aggregation = "COUNT_DISTINCT"
      PROVE  OrZero(AggregateOf(M, n)) = Whole(Cardinality(Distinct(M)))
  <2>1. AggregateOf(M, n) = {Whole(Cardinality(Distinct(M)))}
    BY <1>9 DEF AggregateOf, Counting, Distinct
  <2> QED
    BY <1>4, <2>1
<1>10. ASSUME The.aggregation = "AVG" PROVE OrZero(AggregateOf(M, n)) \in Fraction
  <2>1. CASE M = {}
    <3>1. AggregateOf(M, n) = {}
      BY <1>8, <1>10, <2>1
    <3>2. 0 \in Int
      OBVIOUS
    <3> QED
      BY <1>5, <3>1, <3>2, WholeIs DEF Zero
  <2>2. CASE M # {}
    <3>1. n \in Nat \ {0} /\ n \in Int /\ n > 0
      BY <1>2, <2>2
    <3>2. Reads(Whole(n), n, 1) /\ Reads(TotalOf(M), TotalOf(M).num, TotalOf(M).den)
      BY <1>2, <3>1, ReadsWhole, ReadsItself
    <3>3. Reads(Over(TotalOf(M), Whole(n)), TotalOf(M).num * 1, TotalOf(M).den * n)
      BY <3>1, <3>2, ReadsOver
    <3>4. Over(TotalOf(M), Whole(n)) \in Fraction
      BY <3>3, ReadsFraction
    <3> QED
      BY <1>4, <1>8, <1>10, <2>2, <3>4
  <2> QED
    BY <2>1, <2>2
<1>11. IsFiniteSet(Distinct(M)) /\ Cardinality(Distinct(M)) \in Nat
  <2> DEFINE f == [i \in M |-> ValueOf(i)]
  <2>1. Distinct(M) = {f[i] : i \in DOMAIN f} /\ DOMAIN f = M
    BY DEF Distinct
  <2> HIDE DEF f
  <2>2. IsFiniteSet(Distinct(M))
    BY <1>2, <2>1, ImageFinite
  <2> QED
    BY <2>2, FS_CardinalityType
<1>12. ASSUME The.aggregation \in Summable PROVE OrZero(AggregateOf(M, n)) \in Fraction
  <2>1. CASE The.aggregation = "SUM"
    BY <1>2, <1>6, <2>1
  <2>2. CASE The.aggregation = "COUNT"
    BY <1>2, <1>7, <2>2, WholeIs
  <2>3. CASE The.aggregation = "AVG"
    BY <1>10, <2>3
  <2>4. CASE The.aggregation = "COUNT_DISTINCT"
    BY <1>9, <1>11, <2>4, WholeIs
  <2> QED
    BY <1>12, <2>1, <2>2, <2>3, <2>4 DEF Summable
<1> QED
  BY <1>3, <1>6, <1>7, <1>8, <1>9, <1>12 DEF n

LEMMA TotalledIs ==
    ASSUME NEW S
    PROVE  /\ Totalled(S).current = Held(S, windows.current)
           /\ Totalled(S).previous = Held(S, windows.previous)
           /\ Totalled(S).currentCount = Cardinality(Measured(Within(S, windows.current)))
           /\ Totalled(S).previousCount = Cardinality(Measured(Within(S, windows.previous)))
           /\ Totalled(S).currentRows = Cardinality(Within(S, windows.current))
           /\ Totalled(S).previousRows = Cardinality(Within(S, windows.previous))
           /\ DOMAIN Totalled(S) = {"current", "previous", "currentCount", "previousCount",
                                    "currentRows", "previousRows"}
  BY DEF Totalled, Both, InWindow, Side, Held

LEMMA GroupIs ==
    ASSUME NEW d, NEW s, NEW S
    PROVE  /\ Group(d, s, S).dimension = d /\ Group(d, s, S).segment = s
           /\ Group(d, s, S).current = Held(Part(d, s, S), windows.current)
           /\ Group(d, s, S).previous = Held(Part(d, s, S), windows.previous)
           /\ Group(d, s, S).currentCount = Cardinality(Measured(Within(Part(d, s, S), windows.current)))
           /\ Group(d, s, S).previousCount = Cardinality(Measured(Within(Part(d, s, S), windows.previous)))
           /\ Group(d, s, S).currentRows = Cardinality(Within(Part(d, s, S), windows.current))
           /\ Group(d, s, S).previousRows = Cardinality(Within(Part(d, s, S), windows.previous))
<1>1. Group(d, s, S) = Labelled(d, s, Totalled(Part(d, s, S)))
  BY DEF Group, Part
<1> QED
  BY <1>1, TotalledIs DEF Labelled

Changes(d, S) == [s \in SegmentsIn(d, S) |-> ChangeOf(Group(d, s, S))]
Amounts(d, S, w) == [s \in SegmentsIn(d, S) |-> OrZero(Held(Part(d, s, S), w))]

\* If what the groups hold in each window adds up, so do their changes.
LEMMA ChangesFollow ==
    ASSUME NEW d, NEW S,
           Numbers(Amounts(d, S, windows.current)), Numbers(Amounts(d, S, windows.previous)),
           Summed(Amounts(d, S, windows.current)) = OrZero(Held(S, windows.current)),
           Summed(Amounts(d, S, windows.previous)) = OrZero(Held(S, windows.previous))
    PROVE  /\ Numbers(Changes(d, S)) /\ Summed(Changes(d, S)) = ChangeOf(Totalled(S))
<1> DEFINE of == Amounts(d, S, windows.current)
           as == Amounts(d, S, windows.previous)
           L == SegmentsIn(d, S)
<1>1. /\ DOMAIN of = L /\ DOMAIN as = L
      /\ \A s \in L : of[s] = OrZero(Held(Part(d, s, S), windows.current))
      /\ \A s \in L : as[s] = OrZero(Held(Part(d, s, S), windows.previous))
  BY DEF Amounts
<1>2. /\ Numbers(of) /\ Numbers(as)
      /\ Summed(of) = OrZero(Held(S, windows.current)) /\ Summed(as) = OrZero(Held(S, windows.previous))
  OBVIOUS
<1> HIDE DEF of, as, L
<1>3. Summed([s \in DOMAIN of |-> Minus(of[s], as[s])]) = Minus(Summed(of), Summed(as))
  BY <1>1, <1>2, SumOfPairs
<1>4. ASSUME NEW s \in L PROVE ChangeOf(Group(d, s, S)) = Minus(of[s], as[s])
  <2> DEFINE g == Group(d, s, S)
  <2>1. /\ g.current = Held(Part(d, s, S), windows.current)
        /\ g.previous = Held(Part(d, s, S), windows.previous)
    BY GroupIs
  <2>2. /\ of[s] = OrZero(Held(Part(d, s, S), windows.current))
        /\ as[s] = OrZero(Held(Part(d, s, S), windows.previous))
    BY <1>1
  <2> HIDE DEF g
  <2>3. ChangeOf(g) = Minus(of[s], as[s])
    BY <2>1, <2>2 DEF ChangeOf
  <2> QED
    BY <2>3 DEF g
<1>5. Changes(d, S) = [s \in DOMAIN of |-> Minus(of[s], as[s])]
  BY <1>1, <1>4 DEF Changes, L
<1>6. ChangeOf(Totalled(S)) = Minus(Summed(of), Summed(as))
  BY <1>2, TotalledIs DEF ChangeOf
<1>7. Numbers(Changes(d, S))
  <2>1. DOMAIN Changes(d, S) = L
    BY DEF Changes, L
  <2>2. \A s \in L : of[s] \in Fraction /\ as[s] \in Fraction
    BY <1>1, <1>2 DEF Numbers
  <2>3. \A s \in L : Minus(of[s], as[s]) \in Fraction
    BY <2>2, PlusMinusIn
  <2>4. \A s \in L : Changes(d, S)[s] \in Fraction
    BY <1>1, <1>5, <2>3
  <2> QED
    BY <1>1, <1>2, <2>1, <2>4 DEF Numbers
<1> QED
  BY <1>3, <1>5, <1>6, <1>7

LEMMA SumsAddUp ==
    ASSUME Given, The.aggregation \in {"SUM", "COUNT"}, NEW d, NEW S \in SUBSET (DOMAIN The.rows)
    PROVE  /\ Numbers(Changes(d, S)) /\ Summed(Changes(d, S)) = ChangeOf(Totalled(S))
<1>1. ASSUME NEW w \in TheWindows
      PROVE  /\ Numbers(Amounts(d, S, w)) /\ Summed(Amounts(d, S, w)) = OrZero(Held(S, w))
  <2>1. \A s : Part(d, s, S) \in SUBSET (DOMAIN The.rows)
    BY DEF Part
  <2>2. CASE The.aggregation = "SUM"
    <3>1. \A s : OrZero(Held(Part(d, s, S), w)) = TotalOf(Measured(Within(Part(d, s, S), w)))
      BY <2>1, <2>2, HeldIs
    <3>2. Amounts(d, S, w) = TotalParts(d, S, w)
      BY <3>1 DEF Amounts, TotalParts
    <3>3. OrZero(Held(S, w)) = TotalOf(Measured(Within(S, w)))
      BY <2>2, HeldIs
    <3> QED
      BY <3>2, <3>3, PartsAddUp
  <2>3. CASE The.aggregation = "COUNT"
    <3>1. \A s : OrZero(Held(Part(d, s, S), w)) = Whole(Cardinality(Measured(Within(Part(d, s, S), w))))
      BY <2>1, <2>3, HeldIs
    <3>2. Amounts(d, S, w) = CountParts(d, S, w)
      BY <3>1 DEF Amounts, CountParts
    <3>3. OrZero(Held(S, w)) = Whole(Cardinality(Measured(Within(S, w))))
      BY <2>3, HeldIs
    <3> QED
      BY <3>2, <3>3, PartsAddUp
  <2> QED
    BY <2>2, <2>3
<1>2. windows.current \in TheWindows /\ windows.previous \in TheWindows
  BY DEF TheWindows
<1> QED
  BY <1>1, <1>2, ChangesFollow

\* What holds of nothing and stays true as a member is added holds of the sum.
LEMMA SumStays ==
    ASSUME NEW of, Numbers(of), NEW P, Zero \in P,
           \A x \in DOMAIN of : \A p \in P : Plus(of[x], p) \in P
    PROVE  Summed(of) \in P
<1> DEFINE S == DOMAIN of
<1>1. PICK sums : SumsOf(sums, of) /\ Summed(of) = sums[S]
  BY SumsAre DEF Numbers
<1>2. IsFiniteSet(S) /\ \A x \in S : \A p \in P : Plus(of[x], p) \in P
  BY DEF Numbers
<1>3. sums[{}] = Zero /\ \A s \in SUBSET S : \A x \in s : sums[s] = Plus(of[x], sums[s \ {x}])
  BY <1>1 DEF SumsOf
<1> HIDE DEF S
<1>4. /\ \A s \in SUBSET S : Cardinality(s) \in Nat
      /\ \A s \in SUBSET S : \A x \in s : /\ s \ {x} \in SUBSET S
                                          /\ Cardinality(s \ {x}) = Cardinality(s) - 1
      /\ \A s \in SUBSET S : Cardinality(s) = 0 <=> s = {}
  BY <1>2, SubsetsAre
<1> DEFINE A == {n \in Nat : \A s \in SUBSET S : Cardinality(s) <= n => sums[s] \in P}
<1>5. 0 \in A
  <2>1. ASSUME NEW s \in SUBSET S, Cardinality(s) <= 0 PROVE sums[s] \in P
    <3>1. s = {}
      BY <1>4, <2>1
    <3> QED
      BY <1>3, <3>1
  <2> QED
    BY <2>1
<1>6. ASSUME NEW n \in Nat, n \in A PROVE n + 1 \in A
  <2> SUFFICES ASSUME NEW s \in SUBSET S, Cardinality(s) <= n + 1 PROVE sums[s] \in P
    OBVIOUS
  <2>1. CASE s = {}
    BY <1>3, <2>1
  <2>2. CASE s # {}
    <3>1. PICK x \in s : TRUE
      BY <2>2
    <3>2. s \ {x} \in SUBSET S /\ Cardinality(s \ {x}) <= n /\ x \in S
      BY <1>4
    <3>3. sums[s \ {x}] \in P /\ sums[s] = Plus(of[x], sums[s \ {x}])
      BY <1>3, <1>6, <3>2
    <3> QED
      BY <1>2, <3>2, <3>3
  <2> QED
    BY <2>1, <2>2
<1>7. PICK n \in Nat : \A s \in SUBSET S : Cardinality(s) <= n
  BY <1>2, SubsetsAre
<1>8. n \in A
  <2> HIDE DEF A
  <2>1. \A k \in 0..n : k \in A
    <3>1. \A k \in 0..(n - 1) : k \in Nat
      OBVIOUS
    <3> QED
      BY <1>5, <1>6, <3>1, Climb
  <2> QED
    BY <2>1
<1>9. S \in SUBSET S
  OBVIOUS
<1> QED
  BY <1>1, <1>7, <1>8, <1>9 DEF S

LEMMA SumOfWholes ==
    ASSUME NEW of, Numbers(of), \A x \in DOMAIN of : \E i \in Nat : of[x] = Whole(i)
    PROVE  \E n \in Nat : Summed(of) = Whole(n)
<1> DEFINE P == {Whole(i) : i \in Nat}
<1>1. Zero \in P
  BY DEF Zero
<1>2. ASSUME NEW x \in DOMAIN of, NEW p \in P PROVE Plus(of[x], p) \in P
  <2>1. PICK i \in Nat : of[x] = Whole(i)
    OBVIOUS
  <2>2. PICK j \in Nat : p = Whole(j)
    OBVIOUS
  <2>3. i \in Int /\ j \in Int /\ i + j \in Nat
    OBVIOUS
  <2>4. Plus(of[x], p) = Whole(i + j)
    BY <2>1, <2>2, <2>3, WholeSum
  <2> QED
    BY <2>3, <2>4
<1> HIDE DEF P
<1>3. Summed(of) \in P
  BY <1>1, <1>2, SumStays
<1> QED
  BY <1>3 DEF P

LEMMA SumOfZeros ==
    ASSUME NEW of, Numbers(of), \A x \in DOMAIN of : of[x] = Zero
    PROVE  Summed(of) = Zero
<1> DEFINE P == {Zero}
<1>1. \A x \in DOMAIN of : \A p \in P : Plus(of[x], p) \in P
  <2>1. Zero \in Fraction
    BY WholeIs DEF Zero
  <2>2. Plus(Zero, Zero) = Zero
    BY <2>1, PlusIs
  <2> QED
    BY <2>2
<1>2. Zero \in P
  OBVIOUS
<1> HIDE DEF P
<1>3. Summed(of) \in P
  BY <1>1, <1>2, SumStays
<1> QED
  BY <1>3 DEF P

\* Members that are nothing may be left out.
LEMMA SumOfSome ==
    ASSUME NEW of, Numbers(of), NEW T \in SUBSET (DOMAIN of),
           \A x \in DOMAIN of : x \in T \/ of[x] = Zero
    PROVE  Numbers(Only(of, T)) /\ Summed(of) = Summed(Only(of, T))
<1> DEFINE S == DOMAIN of
           R == S \ T
<1>1. PICK sums : /\ SumsOf(sums, of) /\ Summed(of) = sums[S]
                  /\ \A s \in SUBSET S : sums[s] \in Fraction
  BY SumsAre DEF Numbers
<1>2. /\ \A s \in SUBSET DOMAIN of : Summed(Only(of, s)) = sums[s]
      /\ \A A, B \in SUBSET DOMAIN of : A \cap B = {} => sums[A \cup B] = Plus(sums[A], sums[B])
  <2>1. /\ SumsOf(sums, of) /\ Numbers(of)
        /\ \A s \in SUBSET DOMAIN of : sums[s] \in Fraction
    BY <1>1
  <2> QED
    BY ONLY <2>1, SumSplit
<1>3. T \cup R = S /\ T \cap R = {} /\ R \in SUBSET S /\ T \in SUBSET S
  OBVIOUS
<1>4. \A U \in SUBSET S : Numbers(Only(of, U)) /\ DOMAIN Only(of, U) = U /\ \A x \in U : Only(of, U)[x] = of[x]
  BY Fewer DEF Numbers, Only
<1>5. \A x \in R : of[x] = Zero
  OBVIOUS
<1> HIDE DEF R
<1>6. Summed(Only(of, R)) = Zero
  BY <1>3, <1>4, <1>5, SumOfZeros
<1>7. sums[S] = Plus(sums[T], Zero) /\ sums[T] \in Fraction
  BY <1>1, <1>2, <1>3, <1>6
<1> QED
  BY <1>1, <1>2, <1>3, <1>4, <1>7, PlusIs

\* What is distinct in the groups of a window, if no value is in two of them.
LEMMA DistinctAddUp ==
    ASSUME Given, The.aggregation = "COUNT_DISTINCT", NEW d, NEW w \in TheWindows,
           OverlapGap(d, w) = 0
    PROVE  Numbers(Amounts(d, Base, w)) /\ Summed(Amounts(d, Base, w)) = OrZero(Held(Base, w))
<1> DEFINE S == Within(Base, w)
           L == SegmentsIn(d, Base)
           lab == SegmentOf(d)
           V == {The.rows[i].segment[d] : i \in S}
           of == Amounts(d, Base, w)
           count(T) == Cardinality(Distinct(Measured(T)))
           own == [s \in V |-> Whole(count({i \in S : The.rows[i].segment[d] = s}))]
<1>1. Base \in SUBSET (DOMAIN The.rows)
  BY DEF Base
<1>2. IsFiniteSet(L) /\ \A i \in S : lab[i] \in L
  BY <1>1, SegmentsAre
<1>3. S \subseteq DOMAIN The.rows
  BY <1>1 DEF Within
<1>4. V \subseteq L
  BY <1>2, <1>3 DEF SegmentOf
<1>5. \A s : Part(d, s, Base) \in SUBSET (DOMAIN The.rows)
  BY <1>1 DEF Part
<1>6. \A T \in SUBSET (DOMAIN The.rows) :
         OrZero(Held(T, w)) = Whole(count(Within(T, w))) /\ OrZero(Held(T, w)) \in Fraction
  BY HeldIs DEF Summable
<1>7. \A T \in SUBSET (DOMAIN The.rows) : count(T) \in Nat
  <2> SUFFICES ASSUME NEW T \in SUBSET (DOMAIN The.rows) PROVE count(T) \in Nat
    OBVIOUS
  <2> DEFINE M == Measured(T)
             f == [i \in M |-> ValueOf(i)]
  <2>1. IsFiniteSet(M)
    BY TotalIs
  <2>2. Distinct(M) = {f[i] : i \in DOMAIN f} /\ DOMAIN f = M
    BY DEF Distinct
  <2> HIDE DEF f, M
  <2>3. IsFiniteSet(Distinct(M))
    BY <2>1, <2>2, ImageFinite
  <2>4. Cardinality(Distinct(M)) \in Nat
    BY <2>3, FS_CardinalityType
  <2> QED
    BY <2>4 DEF M
<1>8. ASSUME NEW s \in L
      PROVE  /\ of[s] \in Fraction /\ of[s] = Whole(count(Within(Part(d, s, Base), w)))
             /\ Within(Part(d, s, Base), w) = {i \in S : The.rows[i].segment[d] = s}
  <2>1. of[s] = OrZero(Held(Part(d, s, Base), w))
    BY DEF Amounts
  <2>2. Within(Part(d, s, Base), w) = {i \in S : The.rows[i].segment[d] = s}
    BY DEF Within, Part
  <2> HIDE DEF count, of
  <2>3. Part(d, s, Base) \in SUBSET (DOMAIN The.rows)
    BY <1>5
  <2> QED
    BY <1>6, <2>1, <2>2, <2>3
<1>9. DOMAIN of = L
  BY DEF Amounts
<1>10. Numbers(of)
  BY <1>2, <1>8, <1>9 DEF Numbers
<1>11. \A s \in V : own[s] = of[s]
  <2> SUFFICES ASSUME NEW s \in V PROVE own[s] = of[s]
    OBVIOUS
  <2>1. s \in L
    BY <1>4
  <2>2. own[s] = Whole(count({i \in S : The.rows[i].segment[d] = s}))
    OBVIOUS
  <2> HIDE DEF own, of, count, S, V
  <2> QED
    BY <1>8, <2>1, <2>2
<1>12. ASSUME NEW s \in L, s \notin V PROVE of[s] = Zero
  <2>1. {i \in S : The.rows[i].segment[d] = s} = {}
    BY <1>12
  <2>2. Distinct(Measured({})) = {}
    BY DEF Distinct, Measured
  <2>3. count({}) = 0
    BY <2>2, FS_EmptySet
  <2>4. of[s] = Whole(count({i \in S : The.rows[i].segment[d] = s}))
    BY <1>8
  <2> HIDE DEF of, count
  <2> QED
    BY <2>1, <2>3, <2>4 DEF Zero
<1>13. OverlapGap(d, w) = Summed(own).num - count(S)
  <2>1. OverlapGap(d, w) =
           SumOver(V, LAMBDA s : Whole(count({i \in S : The.rows[i].segment[d] = s}))).num - count(S)
    BY DEF OverlapGap, Distinct
  <2>2. SumOver(V, LAMBDA s : Whole(count({i \in S : The.rows[i].segment[d] = s}))) = Summed(own)
    BY Zenon DEF SumOver
  <2> QED
    BY <2>1, <2>2
<1>14. \A s \in V : \E n \in Nat : own[s] = Whole(n)
  <2> SUFFICES ASSUME NEW s \in V PROVE \E n \in Nat : own[s] = Whole(n)
    OBVIOUS
  <2>1. {i \in S : The.rows[i].segment[d] = s} \in SUBSET (DOMAIN The.rows)
    BY <1>3
  <2>2. own[s] = Whole(count({i \in S : The.rows[i].segment[d] = s}))
    OBVIOUS
  <2> HIDE DEF own, count, S
  <2> QED
    BY <1>7, <2>1, <2>2
<1>15. DOMAIN own = V
  OBVIOUS
<1>16. count(S) \in Nat
  BY <1>3, <1>7
<1>17. OrZero(Held(Base, w)) = Whole(count(S))
  BY <1>1, <1>6
<1> HIDE DEF own, of, count, S, V, L
<1>18. own = Only(of, V)
  <2>1. \A s \in V : Only(of, V)[s] = own[s]
    BY <1>11 DEF Only
  <2>2. own = [s \in V |-> own[s]]
    BY <1>15 DEF own
  <2> QED
    BY <2>1, <2>2, <1>11 DEF Only
<1>19. Numbers(own) /\ Summed(of) = Summed(own)
  BY <1>4, <1>9, <1>10, <1>12, <1>18, SumOfSome
<1>20. PICK n \in Nat : Summed(own) = Whole(n)
  BY <1>14, <1>15, <1>19, SumOfWholes
<1>21. n = count(S)
  BY <1>13, <1>16, <1>20 DEF Whole
<1> QED
  BY <1>10, <1>17, <1>19, <1>20, <1>21 DEF of

LEMMA DistinctChanges ==
    ASSUME Given, The.aggregation = "COUNT_DISTINCT", NEW d,
           \A w \in TheWindows : OverlapGap(d, w) = 0
    PROVE  Numbers(Changes(d, Base)) /\ Summed(Changes(d, Base)) = ChangeOf(Totalled(Base))
<1>1. windows.current \in TheWindows /\ windows.previous \in TheWindows
  BY DEF TheWindows
<1> QED
  BY <1>1, DistinctAddUp, ChangesFollow

-----------------------------------------------------------------------------
(***************************************************************************)
(* Averages.                                                               *)
(***************************************************************************)

Reduction(of, as) == [x \in DOMAIN of |-> Minus(of[x], as[x])]
Scaled(c, of) == [x \in DOMAIN of |-> Times(c, of[x])]
Divided(of, z) == [x \in DOMAIN of |-> Over(of[x], z)]

LEMMA ReductionSum ==
    ASSUME NEW of, Numbers(of), NEW as, Numbers(as), DOMAIN as = DOMAIN of
    PROVE  /\ Numbers(Reduction(of, as)) /\ DOMAIN Reduction(of, as) = DOMAIN of
           /\ Summed(Reduction(of, as)) = Minus(Summed(of), Summed(as))
<1>1. Summed([x \in DOMAIN of |-> Minus(of[x], as[x])]) = Minus(Summed(of), Summed(as))
  BY SumOfPairs
<1>2. ASSUME NEW x \in DOMAIN of PROVE Minus(of[x], as[x]) \in Fraction
  BY PlusMinusIn DEF Numbers
<1>3. Numbers(Reduction(of, as)) /\ DOMAIN Reduction(of, as) = DOMAIN of
  BY <1>2 DEF Numbers, Reduction
<1> QED
  BY <1>1, <1>3 DEF Reduction

LEMMA ScaledSum ==
    ASSUME NEW of, Numbers(of), NEW c \in Fraction
    PROVE  /\ Numbers(Scaled(c, of)) /\ DOMAIN Scaled(c, of) = DOMAIN of
           /\ Summed(Scaled(c, of)) = Times(c, Summed(of))
<1> DEFINE h == [x \in Fraction |-> Times(c, x)]
<1>1. Zero \in Fraction
  BY WholeIs DEF Zero
<1>2. \A x \in Fraction : Times(c, x) \in Fraction
  BY PlusMinusIn
<1>3. h[Zero] = Zero
  <2>1. Times(c, Zero) = Zero
    BY <1>1, TimesPlus
  <2> QED
    BY <1>1, <2>1
<1>4. ASSUME NEW x \in Fraction, NEW y \in Fraction PROVE h[Plus(x, y)] = Plus(h[x], h[y])
  <2>1. Plus(x, y) \in Fraction
    BY PlusMinusIn
  <2>2. Times(c, Plus(x, y)) = Plus(Times(c, x), Times(c, y))
    BY TimesPlus
  <2> QED
    BY <2>1, <2>2
<1>5. \A x \in Fraction : h[x] \in Fraction /\ h[x] = Times(c, x)
  BY <1>2
<1> HIDE DEF h
<1>6. Summed([x \in DOMAIN of |-> h[of[x]]]) = h[Summed(of)]
  BY <1>3, <1>4, <1>5, SumMaps
<1>7. \A x \in DOMAIN of : of[x] \in Fraction
  BY DEF Numbers
<1>8. [x \in DOMAIN of |-> h[of[x]]] = Scaled(c, of)
  BY <1>5, <1>7 DEF Scaled
<1>9. Summed(of) \in Fraction
  BY SumInFraction DEF Numbers
<1>10. Numbers(Scaled(c, of)) /\ DOMAIN Scaled(c, of) = DOMAIN of
  BY <1>2, <1>7 DEF Numbers, Scaled
<1> QED
  BY <1>5, <1>6, <1>8, <1>9, <1>10

LEMMA DividedSum ==
    ASSUME NEW of, Numbers(of), NEW z \in Fraction, z # Zero
    PROVE  /\ Numbers(Divided(of, z)) /\ DOMAIN Divided(of, z) = DOMAIN of
           /\ Summed(Divided(of, z)) = Over(Summed(of), z)
<1> DEFINE h == [x \in Fraction |-> Over(x, z)]
<1>1. Zero \in Fraction
  BY WholeIs DEF Zero
<1>2. \A x \in Fraction : Over(x, z) \in Fraction
  BY OverPlus
<1>3. h[Zero] = Zero
  <2>1. Over(Zero, z) = Zero
    BY <1>1, OverPlus
  <2> QED
    BY <1>1, <2>1
<1>4. ASSUME NEW x \in Fraction, NEW y \in Fraction PROVE h[Plus(x, y)] = Plus(h[x], h[y])
  <2>1. Plus(x, y) \in Fraction
    BY PlusMinusIn
  <2>2. Over(Plus(x, y), z) = Plus(Over(x, z), Over(y, z))
    BY OverPlus
  <2> QED
    BY <2>1, <2>2
<1>5. \A x \in Fraction : h[x] \in Fraction /\ h[x] = Over(x, z)
  BY <1>2
<1> HIDE DEF h
<1>6. Summed([x \in DOMAIN of |-> h[of[x]]]) = h[Summed(of)]
  BY <1>3, <1>4, <1>5, SumMaps
<1>7. \A x \in DOMAIN of : of[x] \in Fraction
  BY DEF Numbers
<1>8. [x \in DOMAIN of |-> h[of[x]]] = Divided(of, z)
  BY <1>5, <1>7 DEF Divided
<1>9. Summed(of) \in Fraction
  BY SumInFraction DEF Numbers
<1>10. Numbers(Divided(of, z)) /\ DOMAIN Divided(of, z) = DOMAIN of
  BY <1>2, <1>7 DEF Numbers, Divided
<1> QED
  BY <1>5, <1>6, <1>8, <1>9, <1>10

LEMMA WholeNotZero == ASSUME NEW N \in Nat \ {0} PROVE Whole(N) \in Fraction /\ Whole(N) # Zero
<1>1. N \in Int /\ N # 0
  OBVIOUS
<1> QED
  BY <1>1, WholeIs DEF Whole, Zero

\* The part of a set of rows in a total of N rows, and in their average.
Weighed(S, w, N) == Over(TotalOf(Measured(Within(S, w))), Whole(N))
Numbered(S, w, N) == Over(Whole(Cardinality(Measured(Within(S, w)))), Whole(N))
Center == Halve(Plus(OrZero(totals.previous), OrZero(totals.current)))
EffectOf(S) ==
    Minus(Minus(Weighed(S, windows.current, totals.currentCount),
                Weighed(S, windows.previous, totals.previousCount)),
          Times(Center, Minus(Numbered(S, windows.current, totals.currentCount),
                              Numbered(S, windows.previous, totals.previousCount))))
\* Both windows hold a value.
Averaged ==
    /\ totals.currentCount \in Nat \ {0} /\ totals.previousCount \in Nat \ {0}
    /\ OrZero(totals.current) \in Fraction /\ OrZero(totals.previous) \in Fraction

LEMMA WeighedSum ==
    ASSUME Given, NEW d, NEW S \in SUBSET (DOMAIN The.rows), NEW w \in TheWindows, NEW N \in Nat \ {0}
    PROVE  LET of == [s \in SegmentsIn(d, S) |-> Weighed(Part(d, s, S), w, N)]
               as == [s \in SegmentsIn(d, S) |-> Numbered(Part(d, s, S), w, N)]
           IN  /\ Numbers(of) /\ Summed(of) = Weighed(S, w, N)
               /\ Numbers(as) /\ Summed(as) = Numbered(S, w, N)
<1> DEFINE of == [s \in SegmentsIn(d, S) |-> Weighed(Part(d, s, S), w, N)]
           as == [s \in SegmentsIn(d, S) |-> Numbered(Part(d, s, S), w, N)]
<1>1. Whole(N) \in Fraction /\ Whole(N) # Zero
  BY WholeNotZero
<1>2. /\ Numbers(TotalParts(d, S, w))
      /\ Summed(TotalParts(d, S, w)) = TotalOf(Measured(Within(S, w)))
      /\ Numbers(CountParts(d, S, w))
      /\ Summed(CountParts(d, S, w)) = Whole(Cardinality(Measured(Within(S, w))))
  BY PartsAddUp
<1>3. of = Divided(TotalParts(d, S, w), Whole(N)) /\ as = Divided(CountParts(d, S, w), Whole(N))
  BY DEF Divided, TotalParts, CountParts, Weighed, Numbered
<1> HIDE DEF of, as
<1>4. Numbers(of) /\ Summed(of) = Weighed(S, w, N)
  BY <1>1, <1>2, <1>3, DividedSum DEF Weighed
<1>5. Numbers(as) /\ Summed(as) = Numbered(S, w, N)
  BY <1>1, <1>2, <1>3, DividedSum DEF Numbered
<1> QED
  BY <1>4, <1>5 DEF of, as

EffectParts(d, S) == [s \in SegmentsIn(d, S) |-> EffectOf(Part(d, s, S))]

LEMMA EffectsAddUp ==
    ASSUME Given, Averaged, NEW d, NEW S \in SUBSET (DOMAIN The.rows)
    PROVE  Numbers(EffectParts(d, S)) /\ Summed(EffectParts(d, S)) = EffectOf(S)
<1> DEFINE L == SegmentsIn(d, S)
           a1 == [s \in L |-> Weighed(Part(d, s, S), windows.current, totals.currentCount)]
           a0 == [s \in L |-> Weighed(Part(d, s, S), windows.previous, totals.previousCount)]
           b1 == [s \in L |-> Numbered(Part(d, s, S), windows.current, totals.currentCount)]
           b0 == [s \in L |-> Numbered(Part(d, s, S), windows.previous, totals.previousCount)]
<1>1. windows.current \in TheWindows /\ windows.previous \in TheWindows
  BY DEF TheWindows
<1>2. Center \in Fraction
  <2>1. OrZero(totals.current) \in Fraction /\ OrZero(totals.previous) \in Fraction
    BY DEF Averaged
  <2> HIDE DEF Averaged
  <2>2. Plus(OrZero(totals.previous), OrZero(totals.current)) \in Fraction
    BY <2>1, PlusMinusIn
  <2> QED
    BY <2>2, PlusMinusIn DEF Center
<1>3. /\ Numbers(a1) /\ Summed(a1) = Weighed(S, windows.current, totals.currentCount)
      /\ Numbers(b1) /\ Summed(b1) = Numbered(S, windows.current, totals.currentCount)
  BY <1>1, WeighedSum DEF Averaged
<1>4. /\ Numbers(a0) /\ Summed(a0) = Weighed(S, windows.previous, totals.previousCount)
      /\ Numbers(b0) /\ Summed(b0) = Numbered(S, windows.previous, totals.previousCount)
  BY <1>1, WeighedSum DEF Averaged
<1>5. DOMAIN a1 = L /\ DOMAIN a0 = L /\ DOMAIN b1 = L /\ DOMAIN b0 = L
  OBVIOUS
<1>6. \A s \in L : EffectParts(d, S)[s] =
          Minus(Minus(a1[s], a0[s]), Times(Center, Minus(b1[s], b0[s])))
  BY DEF EffectParts, EffectOf
<1>7. DOMAIN EffectParts(d, S) = L /\ EffectParts(d, S) = [s \in L |-> EffectParts(d, S)[s]]
  BY DEF EffectParts
<1> HIDE DEF a1, a0, b1, b0, L
<1> DEFINE a == Reduction(a1, a0)
           b == Reduction(b1, b0)
           c == Scaled(Center, b)
           e == Reduction(a, c)
<1>8. Numbers(a) /\ DOMAIN a = L /\ Summed(a) = Minus(Summed(a1), Summed(a0))
  BY <1>3, <1>4, <1>5, ReductionSum
<1>9. Numbers(b) /\ DOMAIN b = L /\ Summed(b) = Minus(Summed(b1), Summed(b0))
  BY <1>3, <1>4, <1>5, ReductionSum
<1>10. \A s \in L : a[s] = Minus(a1[s], a0[s]) /\ b[s] = Minus(b1[s], b0[s])
  BY <1>5 DEF Reduction
<1> HIDE DEF a, b
<1>11. Numbers(c) /\ DOMAIN c = L /\ Summed(c) = Times(Center, Summed(b))
  BY <1>2, <1>9, ScaledSum
<1>12. \A s \in L : c[s] = Times(Center, b[s])
  BY <1>9 DEF Scaled
<1> HIDE DEF c
<1>13. Numbers(e) /\ DOMAIN e = L /\ Summed(e) = Minus(Summed(a), Summed(c))
  BY <1>8, <1>11, ReductionSum
<1>14. \A s \in L : e[s] = Minus(a[s], c[s])
  BY <1>8 DEF Reduction
<1>15. e = [s \in L |-> e[s]]
  BY <1>8 DEF Reduction
<1> HIDE DEF e
<1>16. \A s \in L : e[s] = EffectParts(d, S)[s]
  BY <1>6, <1>10, <1>12, <1>14
<1>17. e = EffectParts(d, S)
  BY <1>7, <1>15, <1>16
<1> QED
  BY <1>3, <1>4, <1>8, <1>9, <1>11, <1>13, <1>17 DEF EffectOf

\* A record of a group that holds the rows S.
Holds(g, S) ==
    /\ g.current = Held(S, windows.current) /\ g.previous = Held(S, windows.previous)
    /\ g.currentCount = Cardinality(Measured(Within(S, windows.current)))
    /\ g.previousCount = Cardinality(Measured(Within(S, windows.previous)))

LEMMA PartWeighs ==
    ASSUME Given, The.aggregation = "AVG", NEW S \in SUBSET (DOMAIN The.rows), NEW w,
           NEW N \in Nat \ {0}, NEW other,
           The.aggregation = "AVG" => OrZero(other) \in Fraction,
           NEW n, n = Cardinality(Measured(Within(S, w))),
           NEW m, m = IF n = 0 THEN OrZero(other) ELSE OrZero(Held(S, w))
    PROVE  /\ Times(Frac(n, N), m) = Weighed(S, w, N) /\ Frac(n, N) = Numbered(S, w, N)
           /\ Frac(n, N) \in Fraction /\ m \in Fraction
<1> DEFINE M == Measured(Within(S, w))
           t == TotalOf(M)
<1>1. M \in SUBSET Measured(S)
  BY DEF Within, Measured
<1>2. /\ n \in Nat /\ t \in Fraction /\ (M = {} => t = Zero) /\ (n = 0 <=> M = {})
  BY <1>1, TotalIs
<1>3. Held(S, w) = IF M = {} THEN {} ELSE {Over(t, Whole(n))}
  BY HeldIs
<1>4. n \in Int /\ N \in Int /\ N > 0 /\ N # 0
  BY <1>2
<1>5. Frac(n, N) = Numbered(S, w, N)
  <2>1. Over(Whole(n), Whole(N)) = Frac(n * 1, 1 * N)
    BY DEF Over, Whole
  <2>2. n * 1 = n /\ 1 * N = N
    BY <1>4
  <2> QED
    BY <2>1, <2>2 DEF Numbered
<1>6. Frac(n, N) \in Fraction
  <2>1. Reads(Frac(n, N), n, N)
    BY <1>4, ReadsFrac
  <2> QED
    BY <2>1, ReadsFraction
<1>7. Weighed(S, w, N) = Over(t, Whole(N))
  BY DEF Weighed
<1>8. Whole(N) \in Fraction /\ Whole(N) # Zero /\ Zero \in Fraction
  BY WholeNotZero, WholeIs DEF Zero
<1>9. OrZero(other) \in Fraction
  OBVIOUS
<1> HIDE DEF M, t
<1>10. CASE n = 0
  <2>1. m = OrZero(other) /\ t = Zero
    BY <1>2, <1>10
  <2>2. Frac(n, N) = Zero
    <3>1. Reads(Frac(n, N), 0, N)
      BY <1>4, <1>10, ReadsFrac
    <3>2. Reads(Zero, 0, 1)
      BY <1>4, ReadsWhole
    <3>3. 0 * 1 = 0 * N
      BY <1>4
    <3> QED
      BY <3>1, <3>2, <3>3, ReadsOne
  <2>3. Times(Zero, m) = Zero
    BY <1>8, <1>9, <2>1, TimesPlus
  <2>4. Over(Zero, Whole(N)) = Zero
    BY <1>8, OverPlus
  <2> QED
    BY <1>5, <1>6, <1>7, <1>9, <2>1, <2>2, <2>3, <2>4
<1>11. CASE n # 0
  <2>1. n \in Nat \ {0}
    BY <1>2, <1>11
  <2>2. Held(S, w) = {Over(t, Whole(n))}
    BY <1>2, <1>3, <1>11
  <2>3. OrZero(Held(S, w)) = Over(t, Whole(n))
    BY <2>2 DEF OrZero
  <2>4. m = Over(t, Whole(n))
    BY <1>11, <2>3
  <2>5. Times(Frac(n, N), Over(t, Whole(n))) = Over(t, Whole(N))
    BY <1>2, <2>1, WeightedIs
  <2>6. Whole(n) \in Fraction /\ Whole(n) # Zero
    BY <2>1, WholeNotZero
  <2>7. Over(t, Whole(n)) \in Fraction
    BY <1>2, <2>6, OverPlus
  <2> QED
    BY <1>5, <1>6, <1>7, <2>4, <2>5, <2>7
<1> QED
  BY <1>10, <1>11

LEMMA AverageEffectIs ==
    ASSUME Given, Averaged, The.aggregation = "AVG", NEW S \in SUBSET (DOMAIN The.rows),
           NEW g, Holds(g, S)
    PROVE  AverageEffect(g) = EffectOf(S) /\ EffectOf(S) \in Fraction
<1> DEFINE N0 == totals.previousCount
           N1 == totals.currentCount
           n0 == g.previousCount
           n1 == g.currentCount
           m0 == IF n0 = 0 THEN OrZero(g.current) ELSE OrZero(g.previous)
           m1 == IF n1 = 0 THEN OrZero(g.previous) ELSE OrZero(g.current)
           w0 == Frac(n0, N0)
           w1 == Frac(n1, N1)
<1>1. N0 \in Nat \ {0} /\ N1 \in Nat \ {0} /\ N0 # 0 /\ N1 # 0
  BY DEF Averaged
<1>2. Center \in Fraction
  <2>1. OrZero(totals.current) \in Fraction /\ OrZero(totals.previous) \in Fraction
    BY DEF Averaged
  <2>2. Plus(OrZero(totals.previous), OrZero(totals.current)) \in Fraction
    BY <2>1, PlusMinusIn
  <2> QED
    BY <2>2, PlusMinusIn DEF Center
<1>3. /\ g.current = Held(S, windows.current) /\ g.previous = Held(S, windows.previous)
      /\ n1 = Cardinality(Measured(Within(S, windows.current)))
      /\ n0 = Cardinality(Measured(Within(S, windows.previous)))
  BY DEF Holds
<1>4. OrZero(g.current) \in Fraction /\ OrZero(g.previous) \in Fraction
  BY <1>3, HeldIs DEF Summable
<1>5. AverageEffect(g) =
         Plus(Times(Halve(Plus(w0, w1)), Minus(m1, m0)),
              Times(Minus(Halve(Plus(m0, m1)), Center), Minus(w1, w0)))
  BY <1>1 DEF AverageEffect, Center
<1>6. /\ m0 = IF n0 = 0 THEN OrZero(g.current) ELSE OrZero(Held(S, windows.previous))
      /\ m1 = IF n1 = 0 THEN OrZero(g.previous) ELSE OrZero(Held(S, windows.current))
  BY <1>3
<1> HIDE DEF N0, N1, n0, n1, m0, m1
<1>7. /\ Times(w0, m0) = Weighed(S, windows.previous, N0) /\ w0 = Numbered(S, windows.previous, N0)
      /\ w0 \in Fraction /\ m0 \in Fraction
  BY <1>1, <1>3, <1>4, <1>6, PartWeighs
<1>8. /\ Times(w1, m1) = Weighed(S, windows.current, N1) /\ w1 = Numbered(S, windows.current, N1)
      /\ w1 \in Fraction /\ m1 \in Fraction
  BY <1>1, <1>3, <1>4, <1>6, PartWeighs
<1> HIDE DEF w0, w1
<1>9. Plus(Times(Halve(Plus(w0, w1)), Minus(m1, m0)),
           Times(Minus(Halve(Plus(m0, m1)), Center), Minus(w1, w0)))
        = Minus(Minus(Times(w1, m1), Times(w0, m0)), Times(Center, Minus(w1, w0)))
  BY <1>2, <1>7, <1>8, EffectIs
<1>10. Minus(Minus(Times(w1, m1), Times(w0, m0)), Times(Center, Minus(w1, w0))) \in Fraction
  <2>1. Times(w1, m1) \in Fraction /\ Times(w0, m0) \in Fraction /\ Minus(w1, w0) \in Fraction
    BY <1>7, <1>8, PlusMinusIn
  <2> HIDE DEF Center
  <2>2. Minus(Times(w1, m1), Times(w0, m0)) \in Fraction /\ Times(Center, Minus(w1, w0)) \in Fraction
    BY <1>2, <2>1, PlusMinusIn
  <2> QED
    BY <2>2, PlusMinusIn
<1>11. EffectOf(S) = Minus(Minus(Times(w1, m1), Times(w0, m0)), Times(Center, Minus(w1, w0)))
  BY <1>7, <1>8 DEF EffectOf, N0, N1
<1> QED
  BY <1>5, <1>9, <1>10, <1>11

\* The effect of the whole is the whole change.
LEMMA WholeEffect ==
    ASSUME Given, Averaged, The.aggregation = "AVG", totals = Totalled(Base)
    PROVE  EffectOf(Base) = GlobalChange
<1> DEFINE N0 == totals.previousCount
           N1 == totals.currentCount
           M0 == Measured(Within(Base, windows.previous))
           M1 == Measured(Within(Base, windows.current))
<1>1. Base \in SUBSET (DOMAIN The.rows)
  BY DEF Base
<1>2. /\ totals.current = Held(Base, windows.current) /\ totals.previous = Held(Base, windows.previous)
      /\ N1 = Cardinality(M1) /\ N0 = Cardinality(M0)
  BY TotalledIs
<1>3. N0 \in Nat \ {0} /\ N1 \in Nat \ {0}
  BY DEF Averaged
<1>4. M0 \in SUBSET Measured(Base) /\ M1 \in SUBSET Measured(Base)
  BY DEF Within, Measured
<1>5. M0 # {} /\ M1 # {}
  <2> HIDE DEF M0, M1, N0, N1
  <2> QED
    BY <1>1, <1>2, <1>3, <1>4, TotalIs
<1>6. Held(Base, windows.current) = {Over(TotalOf(M1), Whole(N1))}
  BY <1>1, <1>2, <1>5, HeldIs
<1>7. Held(Base, windows.previous) = {Over(TotalOf(M0), Whole(N0))}
  BY <1>1, <1>2, <1>5, HeldIs
<1>8. OrZero(totals.current) = Weighed(Base, windows.current, N1)
  BY <1>2, <1>6 DEF OrZero, Weighed
<1>9. OrZero(totals.previous) = Weighed(Base, windows.previous, N0)
  BY <1>2, <1>7 DEF OrZero, Weighed
<1>10. Numbered(Base, windows.current, N1) = One /\ Numbered(Base, windows.previous, N0) = One
  <2>1. \A N \in Nat \ {0} : Over(Whole(N), Whole(N)) = One
    BY WholeNotZero, OverPlus
  <2> QED
    BY <1>2, <1>3, <2>1 DEF Numbered
<1>11. One \in Fraction /\ Minus(One, One) = Zero
  <2>1. One \in Fraction
    BY WholeIs DEF One
  <2> QED
    BY <2>1, MinusIs
<1>12. OrZero(totals.current) \in Fraction /\ OrZero(totals.previous) \in Fraction
  BY DEF Averaged
<1>13. Center \in Fraction
  <2>1. Plus(OrZero(totals.previous), OrZero(totals.current)) \in Fraction
    BY <1>12, PlusMinusIn
  <2> QED
    BY <2>1, PlusMinusIn DEF Center
<1>14. Times(Center, Zero) = Zero
  BY <1>11, <1>13, TimesPlus
<1>15. EffectOf(Base) = Minus(Minus(OrZero(totals.current), OrZero(totals.previous)), Zero)
  BY <1>8, <1>9, <1>10, <1>11, <1>14 DEF EffectOf, N0, N1
<1>16. Minus(OrZero(totals.current), OrZero(totals.previous)) \in Fraction
  BY <1>12, PlusMinusIn
<1> QED
  BY <1>15, <1>16, MinusIs DEF GlobalChange, ChangeOf

-----------------------------------------------------------------------------
(***************************************************************************)
(* What is not listed is in the residual.                                  *)
(***************************************************************************)

RowsListed(groups, d, S, w) ==
    [i \in DOMAIN groups |-> Whole(Cardinality(Within(Part(d, groups[i].segment, S), w)))]

\* If the listed groups hold as many rows of a window as there are, the others hold none.
LEMMA NoneUnlisted ==
    ASSUME Given, NEW d, NEW S \in SUBSET (DOMAIN The.rows), NEW w \in TheWindows,
           NEW groups, ListsGroups(groups, d, S),
           Cardinality(Within(S, w)) - Summed(RowsListed(groups, d, S, w)).num <= 0,
           NEW s \in SegmentsIn(d, S), \A i \in DOMAIN groups : groups[i].segment # s
    PROVE  Within(Part(d, s, S), w) = {}
<1> DEFINE f == RowParts(d, S, w)
           L == SegmentsIn(d, S)
           o == [i \in DOMAIN groups |-> groups[i].segment]
           K == {o[i] : i \in DOMAIN groups}
           n(x) == Cardinality(Within(Part(d, x, S), w))
           N == Cardinality(Within(S, w))
<1>1. Numbers(f) /\ Summed(f) = Whole(N) /\ DOMAIN f = L
  BY PartsAddUp DEF RowParts
<1>2. \A x \in L : f[x] = Whole(n(x)) /\ n(x) \in Nat
  <2> SUFFICES ASSUME NEW x \in L PROVE f[x] = Whole(n(x)) /\ n(x) \in Nat
    OBVIOUS
  <2>1. f[x] = Whole(n(x))
    BY DEF RowParts
  <2>2. Within(Part(d, x, S), w) \subseteq S
    BY DEF Within, Part
  <2>3. IsFiniteSet(S)
    BY SegmentsAre
  <2>4. n(x) \in Nat
    BY <2>2, <2>3, Fewer
  <2> QED
    BY <2>1, <2>4
<1>3. N \in Nat
  <2>1. Within(S, w) \subseteq S
    BY DEF Within
  <2>2. IsFiniteSet(S)
    BY SegmentsAre
  <2> QED
    BY <2>1, <2>2, Fewer
<1>4. K \subseteq L /\ s \in L /\ s \notin K
  BY DEF ListsGroups
<1>5. \A i, j \in DOMAIN groups : o[i] = o[j] => i = j
  BY DEF ListsGroups
<1>6. \A x \in K : \E i \in DOMAIN groups : o[i] = x
  OBVIOUS
<1>7. \A i \in DOMAIN groups : o[i] \in K
  OBVIOUS
<1>8. \A i \in DOMAIN groups : RowsListed(groups, d, S, w)[i] = Whole(n(o[i]))
  BY DEF RowsListed
<1>9. DOMAIN RowsListed(groups, d, S, w) = DOMAIN groups /\ DOMAIN o = DOMAIN groups
  BY DEF RowsListed
<1> DEFINE as == RowsListed(groups, d, S, w)
<1>10. N - Summed(as).num <= 0
  OBVIOUS
<1> HIDE DEF f, L, o, K, n, N, as
<1>11. \A T \in SUBSET L : /\ Numbers(Only(f, T)) /\ DOMAIN Only(f, T) = T
                           /\ \A x \in T : Only(f, T)[x] = Whole(n(x)) /\ n(x) \in Nat
  <2> SUFFICES ASSUME NEW T \in SUBSET L
               PROVE  /\ Numbers(Only(f, T)) /\ DOMAIN Only(f, T) = T
                      /\ \A x \in T : Only(f, T)[x] = Whole(n(x)) /\ n(x) \in Nat
    OBVIOUS
  <2>1. DOMAIN Only(f, T) = T /\ \A x \in T : Only(f, T)[x] = f[x]
    BY DEF Only
  <2>2. IsFiniteSet(T) /\ \A x \in T : f[x] \in Fraction
    BY <1>1, Fewer DEF Numbers
  <2> QED
    BY <1>2, <2>1, <2>2 DEF Numbers
<1>12. \A T \in SUBSET L : \E k \in Nat : Summed(Only(f, T)) = Whole(k)
  BY <1>11, SumOfWholes
<1>13. PICK sums : /\ SumsOf(sums, f) /\ Summed(f) = sums[L]
                   /\ \A T \in SUBSET L : sums[T] \in Fraction
  BY <1>1, SumsAre DEF Numbers
<1>14. /\ \A T \in SUBSET L : Summed(Only(f, T)) = sums[T]
       /\ \A A, B \in SUBSET L : A \cap B = {} => sums[A \cup B] = Plus(sums[A], sums[B])
  <2>1. /\ SumsOf(sums, f) /\ Numbers(f)
        /\ \A T \in SUBSET DOMAIN f : sums[T] \in Fraction
    BY <1>1, <1>13
  <2>2. /\ \A T \in SUBSET DOMAIN f : Summed(Only(f, T)) = sums[T]
        /\ \A A, B \in SUBSET DOMAIN f : A \cap B = {} => sums[A \cup B] = Plus(sums[A], sums[B])
    BY ONLY <2>1, SumSplit
  <2> QED
    BY <1>1, <2>2
<1>15. Summed(as) = Summed(Only(f, K))
  <2> DEFINE of == Only(f, K)
  <2>1. IsFiniteSet(DOMAIN of) /\ \A x \in DOMAIN of : of[x] \in Fraction
    BY <1>4, <1>11 DEF Numbers
  <2>2. DOMAIN of = K /\ \A x \in K : of[x] = Whole(n(x))
    BY <1>4, <1>11
  <2> HIDE DEF of
  <2>3. \A j \in DOMAIN as : o[j] \in DOMAIN of /\ as[j] = of[o[j]]
    BY <1>7, <1>8, <1>9, <2>2 DEF as
  <2>4. \A j, k \in DOMAIN as : o[j] = o[k] => j = k
    BY <1>5, <1>9 DEF as
  <2>5. \A x \in DOMAIN of : \E j \in DOMAIN as : o[j] = x
    BY <1>6, <1>9, <2>2 DEF as
  <2>6. DOMAIN o = DOMAIN as
    BY <1>9 DEF as
  <2>7. Summed(as) = Summed(of)
    BY ONLY <2>1, <2>3, <2>4, <2>5, <2>6, SameSum
  <2> QED
    BY <2>7 DEF of
<1>16. sums[{s}] = Whole(n(s)) /\ n(s) \in Nat
  <2>1. sums[{}] = Zero /\ {s} \in SUBSET L /\ {s} \ {s} = {}
    BY <1>4, <1>13 DEF SumsOf
  <2>2. sums[{s}] = Plus(f[s], sums[{s} \ {s}])
    BY <1>1, <1>13, <2>1 DEF SumsOf
  <2>3. f[s] \in Fraction
    BY <1>1, <1>4 DEF Numbers
  <2> QED
    BY <1>2, <1>4, <2>1, <2>2, <2>3, PlusIs
<1> DEFINE R == L \ (K \cup {s})
<1>17. /\ R \in SUBSET L /\ K \in SUBSET L /\ {s} \in SUBSET L /\ K \cup {s} \in SUBSET L
       /\ K \cap {s} = {} /\ (K \cup {s}) \cap R = {} /\ (K \cup {s}) \cup R = L
  BY <1>4
<1> HIDE DEF R
<1>18. sums[L] = Plus(Plus(sums[K], sums[{s}]), sums[R])
  <2>1. sums[K \cup {s}] = Plus(sums[K], sums[{s}])
    BY <1>14, <1>17
  <2>2. sums[(K \cup {s}) \cup R] = Plus(sums[K \cup {s}], sums[R])
    BY <1>14, <1>17
  <2> QED
    BY <1>17, <2>1, <2>2
<1>19. PICK k \in Nat : sums[K] = Whole(k)
  BY <1>12, <1>14, <1>17
<1>20. PICK r \in Nat : sums[R] = Whole(r)
  BY <1>12, <1>14, <1>17
<1> DEFINE a == n(s)
<1>21. a \in Int /\ k \in Int /\ r \in Int /\ k + a \in Int /\ a \in Nat
  BY <1>16
<1>22. sums[L] = Whole((k + a) + r)
  <2> HIDE DEF a
  <2>1. Plus(Whole(k), Whole(a)) = Whole(k + a)
    BY <1>21, WholeSum
  <2>2. Plus(Whole(k + a), Whole(r)) = Whole((k + a) + r)
    BY <1>21, WholeSum
  <2> QED
    BY <1>16, <1>18, <1>19, <1>20, <2>1, <2>2 DEF a
<1>23. Whole(N) = Whole((k + a) + r)
  BY <1>1, <1>13, <1>22
<1>24. N = (k + a) + r
  BY <1>23 DEF Whole
<1>25. Summed(as).num = k
  BY <1>14, <1>15, <1>17, <1>19 DEF Whole
<1>26. a = 0
  <2> HIDE DEF a
  <2> QED
    BY <1>10, <1>21, <1>24, <1>25
<1>27. IsFiniteSet(Within(Part(d, s, S), w))
  <2>1. Within(Part(d, s, S), w) \subseteq S
    BY DEF Within, Part
  <2>2. IsFiniteSet(S)
    BY SegmentsAre
  <2> QED
    BY <2>1, <2>2, Fewer
<1> QED
  BY <1>26, <1>27, FS_EmptySet DEF n

\* The residual, if there is one.
ColumnOf(groups, of) == [i \in DOMAIN groups |-> OrZero(groups[i][of])]
LeftOf(groups, of) == Minus(OrZero(totals[of]), Summed(ColumnOf(groups, of)))
RowsLeft(groups, of) == totals[of] - Summed([i \in DOMAIN groups |-> Whole(groups[i][of])]).num

LEMMA ResidualHolds ==
    ASSUME NEW d, NEW kept,
           DOMAIN totals = {"current", "previous", "currentCount", "previousCount",
                            "currentRows", "previousRows"}
    PROVE  \/ /\ ResidualSegment(d, kept) = {}
              /\ RowsLeft(kept, "currentRows") <= 0 /\ RowsLeft(kept, "previousRows") <= 0
           \/ \E r : /\ ResidualSegment(d, kept) = {r}
                     /\ r.current = {LeftOf(kept, "current")}
                     /\ r.previous = {LeftOf(kept, "previous")}
<1> DEFINE Left(of) == Minus(OrZero(totals[of]), SumOver(DOMAIN kept, LAMBDA i : OrZero(kept[i][of])))
           Rest == [of \in {"currentCount", "previousCount", "currentRows", "previousRows"} |->
                       totals[of] - SumOver(DOMAIN kept, LAMBDA i : Whole(kept[i][of])).num]
           t == [of \in DOMAIN totals |->
                    IF of \notin DOMAIN Rest THEN {Left(of)}
                    ELSE IF Rest[of] < 0 THEN 0 ELSE Rest[of]]
           r == Labelled(d, OtherBucket, t)
<1>1. ResidualSegment(d, kept) =
         IF Rest["currentRows"] <= 0 /\ Rest["previousRows"] <= 0 THEN {} ELSE {r}
  BY DEF ResidualSegment
<1>2. \A of : SumOver(DOMAIN kept, LAMBDA i : OrZero(kept[i][of])) = Summed(ColumnOf(kept, of))
  BY Zenon DEF SumOver, ColumnOf
<1>3. \A of : SumOver(DOMAIN kept, LAMBDA i : Whole(kept[i][of])) = Summed([i \in DOMAIN kept |-> Whole(kept[i][of])])
  BY Zenon DEF SumOver
<1>4. /\ Rest["currentRows"] = RowsLeft(kept, "currentRows")
      /\ Rest["previousRows"] = RowsLeft(kept, "previousRows")
  BY <1>3 DEF RowsLeft
<1>5. /\ r.current = t["current"] /\ r.previous = t["previous"]
  BY DEF Labelled
<1>6. t["current"] = {Left("current")} /\ t["previous"] = {Left("previous")}
  OBVIOUS
<1>7. Left("current") = LeftOf(kept, "current") /\ Left("previous") = LeftOf(kept, "previous")
  BY <1>2 DEF LeftOf
<1> HIDE DEF Left, Rest, t, r
<1> QED
  BY <1>1, <1>4, <1>5, <1>6, <1>7

\* A sum over a list and one more.
LEMMA SumAppend ==
    ASSUME NEW n \in Nat, NEW of, Numbers(of), DOMAIN of = 1..(n + 1)
    PROVE  /\ Numbers(Only(of, 1..n)) /\ Summed(of) = Plus(Summed(Only(of, 1..n)), of[n + 1])
           /\ Summed(Only(of, 1..n)) \in Fraction
<1>1. PICK sums : /\ SumsOf(sums, of) /\ Summed(of) = sums[DOMAIN of]
                  /\ \A s \in SUBSET DOMAIN of : sums[s] \in Fraction
  BY SumsAre DEF Numbers
<1>2. \A T \in SUBSET DOMAIN of : Summed(Only(of, T)) = sums[T]
  BY <1>1, SumSplit
<1>3. /\ 1..n \in SUBSET DOMAIN of /\ n + 1 \in DOMAIN of /\ (DOMAIN of) \ {n + 1} = 1..n
      /\ DOMAIN of \in SUBSET DOMAIN of
  OBVIOUS
<1>4. sums[DOMAIN of] = Plus(of[n + 1], sums[1..n])
  BY <1>1, <1>3 DEF SumsOf
<1>5. of[n + 1] \in Fraction /\ sums[1..n] \in Fraction
  BY <1>1, <1>3 DEF Numbers
<1>6. Plus(of[n + 1], sums[1..n]) = Plus(sums[1..n], of[n + 1])
  BY <1>5, PlusIs
<1>7. Numbers(Only(of, 1..n))
  <2>1. IsFiniteSet(1..n)
    BY IntervalFinite
  <2>2. \A x \in 1..n : of[x] \in Fraction
    BY <1>3 DEF Numbers
  <2> QED
    BY <2>1, <2>2 DEF Numbers, Only
<1> QED
  BY <1>1, <1>2, <1>3, <1>4, <1>5, <1>6, <1>7

LEMMA RestMakesWhole ==
    ASSUME NEW a \in Fraction, NEW b \in Fraction, NEW x \in Fraction, NEW y \in Fraction
    PROVE  Plus(Minus(x, y), Minus(Minus(a, x), Minus(b, y))) = Minus(a, b)
<1>1. PICK d, n, m, k, l : Reads(a, n, d) /\ Reads(b, m, d) /\ Reads(x, k, d) /\ Reads(y, l, d)
  BY CommonFour
<1>2. n \in Int /\ m \in Int /\ k \in Int /\ l \in Int /\ d \in Int /\ d > 0
  BY <1>1, ReadsIs
<1>3. Reads(Minus(x, y), k - l, d) /\ Reads(Minus(a, x), n - k, d) /\ Reads(Minus(b, y), m - l, d)
      /\ Reads(Minus(a, b), n - m, d)
  BY <1>1, ReadsTogether
<1>4. Reads(Minus(Minus(a, x), Minus(b, y)), (n - k) - (m - l), d)
  BY <1>3, ReadsTogether
<1>5. Reads(Plus(Minus(x, y), Minus(Minus(a, x), Minus(b, y))), (k - l) + ((n - k) - (m - l)), d)
  BY <1>3, <1>4, ReadsTogether
<1>6. (k - l) + ((n - k) - (m - l)) = n - m
  BY <1>2
<1> QED
  BY <1>3, <1>5, <1>6, ReadsOne

ChangesOf(groups) == [i \in DOMAIN groups |-> ChangeOf(groups[i])]

LEMMA KeptAre ==
    ASSUME Given, The.aggregation \in Summable, NEW d, NEW S \in SUBSET (DOMAIN The.rows),
           NEW groups, ListsGroups(groups, d, S)
    PROVE  /\ Numbers(ColumnOf(groups, "current")) /\ Numbers(ColumnOf(groups, "previous"))
           /\ Numbers(ChangesOf(groups))
           /\ Summed(ChangesOf(groups)) =
                 Minus(Summed(ColumnOf(groups, "current")), Summed(ColumnOf(groups, "previous")))
<1> DEFINE of == ColumnOf(groups, "current")
           as == ColumnOf(groups, "previous")
<1>1. DOMAIN of = DOMAIN groups /\ DOMAIN as = DOMAIN groups /\ IsFiniteSet(DOMAIN groups)
  BY DEF ColumnOf, ListsGroups
<1>2. \A i \in DOMAIN groups : of[i] = OrZero(groups[i].current) /\ as[i] = OrZero(groups[i].previous)
  BY DEF ColumnOf
<1>3. ASSUME NEW i \in DOMAIN groups PROVE of[i] \in Fraction /\ as[i] \in Fraction
  <2> DEFINE s == groups[i].segment
             T == Part(d, s, S)
             g == groups[i]
  <2>1. g = Group(d, s, S)
    BY DEF ListsGroups
  <2>2. g.current = Held(T, windows.current) /\ g.previous = Held(T, windows.previous)
    BY <2>1, GroupIs
  <2>3. T \in SUBSET (DOMAIN The.rows)
    BY DEF Part
  <2> HIDE DEF T, g, s
  <2>4. OrZero(Held(T, windows.current)) \in Fraction /\ OrZero(Held(T, windows.previous)) \in Fraction
    BY <2>3, HeldIs
  <2> QED
    BY <1>2, <2>2, <2>4 DEF g
<1> HIDE DEF of, as
<1>4. Numbers(of) /\ Numbers(as)
  BY <1>1, <1>3 DEF Numbers
<1>5. Numbers(Reduction(of, as)) /\ Summed(Reduction(of, as)) = Minus(Summed(of), Summed(as))
  BY <1>1, <1>4, ReductionSum
<1>6. ChangesOf(groups) = Reduction(of, as)
  BY <1>1, <1>2 DEF ChangesOf, Reduction, ChangeOf
<1> QED
  BY <1>4, <1>5, <1>6 DEF of, as

\* A breakdown is all of the groups, or the list goes on with what the rest holds.
Completed(d, groups) ==
    \/ groups = Breakdown(d, Base) /\ AllGroups(groups, d, Base)
    \/ \E r : /\ groups = Breakdown(d, Base) \o <<r>>
              /\ r.current = {LeftOf(Breakdown(d, Base), "current")}
              /\ r.previous = {LeftOf(Breakdown(d, Base), "previous")}

LEMMA BreakdownSeq ==
    ASSUME Given, NEW d, NEW S \in SUBSET (DOMAIN The.rows)
    PROVE  Breakdown(d, S) \in Seq(ToSet(Breakdown(d, S)))
<1> DEFINE kept == Breakdown(d, S)
           G == {Group(d, s, S) : s \in SegmentsIn(d, S)}
           ranked == SortedBy(G, MovesMore)
           group == [s \in SegmentsIn(d, S) |-> Group(d, s, S)]
<1>1. kept = Firsts(ranked, The.limit)
  BY DEF Breakdown, SegmentsIn, InEither
<1>2. IsFiniteSet(G)
  <2>1. IsFiniteSet(SegmentsIn(d, S))
    BY SegmentsAre
  <2>2. G = {group[s] : s \in DOMAIN group} /\ DOMAIN group = SegmentsIn(d, S)
    OBVIOUS
  <2> HIDE DEF G, group
  <2> QED
    BY <2>1, <2>2, ImageFinite
<1> HIDE DEF G
<1>3. Lists(ranked, G)
  BY <1>2, ArrangedIs DEF SortedBy
<1> HIDE DEF ranked, kept
<1>4. The.limit \in Nat
  BY GivenFields
<1>5. kept \in Seq(G)
  BY <1>1, <1>3, <1>4, FirstsIs DEF Lists
<1> QED
  BY <1>5 DEF ToSet, kept

LEMMA LevelCompleted ==
    ASSUME Given, totals = Totalled(Base), NEW d
    PROVE  /\ Completed(d, WithResidual(d, Breakdown(d, Base)))
           /\ Len(Breakdown(d, Base)) < The.limit =>
                 /\ WithResidual(d, Breakdown(d, Base)) = Breakdown(d, Base)
                 /\ AllGroups(Breakdown(d, Base), d, Base)
<1> DEFINE kept == Breakdown(d, Base)
           R == ResidualSegment(d, kept)
<1>1. Base \in SUBSET (DOMAIN The.rows)
  BY DEF Base
<1>2. ListsGroups(kept, d, Base) /\ (Len(kept) < The.limit => AllGroups(kept, d, Base))
  BY <1>1, BreakdownLists
<1>3. kept \in Seq(ToSet(kept))
  BY <1>1, BreakdownSeq
<1> HIDE DEF kept
<1>4. ASSUME Len(kept) < The.limit PROVE WithResidual(d, kept) = kept /\ AllGroups(kept, d, Base)
  <2>1. WithResidual(d, kept) = kept \o <<>>
    BY <1>4 DEF WithResidual
  <2>2. kept \o <<>> = kept
    BY <1>3
  <2> QED
    BY <1>2, <1>4, <2>1, <2>2
<1>5. ASSUME ~(Len(kept) < The.limit) PROVE Completed(d, WithResidual(d, kept))
  <2>1. WithResidual(d, kept) = kept \o SetToSeq(R)
    BY <1>5 DEF WithResidual
  <2>2. DOMAIN totals = {"current", "previous", "currentCount", "previousCount",
                         "currentRows", "previousRows"}
    BY TotalledIs
  <2>3. CASE /\ R = {} /\ RowsLeft(kept, "currentRows") <= 0 /\ RowsLeft(kept, "previousRows") <= 0
    <3>1. SetToSeq(R) = <<>>
      <4>1. Lists(SetToSeq(R), R) /\ Len(SetToSeq(R)) = 0
        BY <2>3, FS_EmptySet, SetToSeqIs
      <4> QED
        BY <4>1 DEF Lists
    <3>2. WithResidual(d, kept) = kept
      BY <1>3, <2>1, <3>1
    <3>3. ASSUME NEW s \in SegmentsIn(d, Base), \A i \in DOMAIN kept : kept[i].segment # s
          PROVE  FALSE
      <4>1. windows.current \in TheWindows /\ windows.previous \in TheWindows
        BY DEF TheWindows
      <4>2. \A i \in DOMAIN kept :
               /\ kept[i].currentRows = Cardinality(Within(Part(d, kept[i].segment, Base), windows.current))
               /\ kept[i].previousRows = Cardinality(Within(Part(d, kept[i].segment, Base), windows.previous))
        BY <1>2, GroupIs DEF ListsGroups
      <4>3. /\ totals.currentRows = Cardinality(Within(Base, windows.current))
            /\ totals.previousRows = Cardinality(Within(Base, windows.previous))
        BY TotalledIs
      <4>4. /\ [i \in DOMAIN kept |-> Whole(kept[i]["currentRows"])] = RowsListed(kept, d, Base, windows.current)
            /\ [i \in DOMAIN kept |-> Whole(kept[i]["previousRows"])] = RowsListed(kept, d, Base, windows.previous)
        BY <4>2 DEF RowsListed
      <4>5. Cardinality(Within(Base, windows.current)) - Summed(RowsListed(kept, d, Base, windows.current)).num <= 0
        BY <2>3, <4>3, <4>4 DEF RowsLeft
      <4>6. Cardinality(Within(Base, windows.previous)) - Summed(RowsListed(kept, d, Base, windows.previous)).num <= 0
        BY <2>3, <4>3, <4>4 DEF RowsLeft
      <4>7. Within(Part(d, s, Base), windows.current) = {}
        BY <1>1, <1>2, <3>3, <4>1, <4>5, NoneUnlisted
      <4>8. Within(Part(d, s, Base), windows.previous) = {}
        BY <1>1, <1>2, <3>3, <4>1, <4>6, NoneUnlisted
      <4>9. PICK i \in InEither(Base) : The.rows[i].segment[d] = s
        BY <1>1, SegmentsAre
      <4>10. i \in Within(Part(d, s, Base), windows.current) \/ i \in Within(Part(d, s, Base), windows.previous)
        BY <4>9 DEF InEither, Within, Part
      <4> QED
        BY <4>7, <4>8, <4>10
    <3>4. AllGroups(kept, d, Base)
      BY <3>3 DEF AllGroups
    <3> QED
      BY <3>2, <3>4 DEF Completed, kept
  <2>4. ASSUME NEW r, R = {r}, r.current = {LeftOf(kept, "current")}, r.previous = {LeftOf(kept, "previous")}
        PROVE  Completed(d, WithResidual(d, kept))
    <3>1. SetToSeq(R) = <<r>>
      <4>1. IsFiniteSet(R) /\ Cardinality(R) = 1
        BY <2>4, FS_Singleton
      <4>2. Lists(SetToSeq(R), R) /\ Len(SetToSeq(R)) = 1
        BY <4>1, SetToSeqIs
      <4>3. SetToSeq(R)[1] = r
        BY <2>4, <4>2 DEF Lists
      <4> QED
        BY <4>2, <4>3 DEF Lists
    <3> QED
      BY <2>1, <2>4, <3>1 DEF Completed, kept
  <2> HIDE DEF R
  <2> QED
    BY <2>2, <2>3, <2>4, ResidualHolds DEF R
<1>6. Len(kept) < The.limit => Completed(d, WithResidual(d, kept))
  BY <1>4 DEF Completed, kept
<1> QED
  BY <1>4, <1>5, <1>6 DEF kept

\* The changes of the groups of a dimension, the residual among them, add up.
LEMMA LevelChanges ==
    ASSUME Given, The.aggregation \in Summable, totals = Totalled(Base), NEW d,
           Numbers(Changes(d, Base)), Summed(Changes(d, Base)) = ChangeOf(Totalled(Base)),
           NEW groups, Completed(d, groups)
    PROVE  /\ Numbers(ChangesOf(groups)) /\ Summed(ChangesOf(groups)) = GlobalChange
           /\ DOMAIN ChangesOf(groups) = DOMAIN groups
<1> DEFINE kept == Breakdown(d, Base)
           f == Changes(d, Base)
<1>1. Base \in SUBSET (DOMAIN The.rows)
  BY DEF Base
<1>2. ListsGroups(kept, d, Base)
  BY <1>1, BreakdownLists
<1>3. /\ Numbers(ColumnOf(kept, "current")) /\ Numbers(ColumnOf(kept, "previous"))
      /\ Numbers(ChangesOf(kept))
      /\ Summed(ChangesOf(kept)) =
            Minus(Summed(ColumnOf(kept, "current")), Summed(ColumnOf(kept, "previous")))
  BY <1>1, <1>2, KeptAre
<1>4. GlobalChange = ChangeOf(Totalled(Base))
  BY DEF GlobalChange
<1>5. DOMAIN ChangesOf(groups) = DOMAIN groups
  BY DEF ChangesOf
<1>6. ASSUME AllGroups(kept, d, Base), groups = kept
      PROVE  Numbers(ChangesOf(groups)) /\ Summed(ChangesOf(groups)) = GlobalChange
  <2>1. DOMAIN f = SegmentsIn(d, Base) /\ \A s \in SegmentsIn(d, Base) : f[s] = ChangeOf(Group(d, s, Base))
    BY DEF Changes
  <2>2. Numbers(f) /\ Summed(f) = GlobalChange
    BY <1>4
  <2> HIDE DEF f, kept
  <2>3. Summed(Taken(f, kept)) = Summed(f)
    BY <1>2, <1>6, <2>1, <2>2, ListSum
  <2>4. \A i \in DOMAIN kept : f[kept[i].segment] = ChangeOf(kept[i])
    BY <1>2, <2>1 DEF ListsGroups
  <2>5. Taken(f, kept) = ChangesOf(kept)
    BY <2>4 DEF Taken, ChangesOf
  <2> QED
    BY <1>3, <1>6, <2>2, <2>3, <2>5
<1>7. ASSUME NEW r, groups = kept \o <<r>>,
             r.current = {LeftOf(kept, "current")}, r.previous = {LeftOf(kept, "previous")}
      PROVE  Numbers(ChangesOf(groups)) /\ Summed(ChangesOf(groups)) = GlobalChange
  <2> DEFINE n == Len(kept)
             a == OrZero(totals.current)
             b == OrZero(totals.previous)
             x == Summed(ColumnOf(kept, "current"))
             y == Summed(ColumnOf(kept, "previous"))
             of == ChangesOf(groups)
  <2>1. n \in Nat /\ DOMAIN kept = 1..n
    BY <1>2 DEF ListsGroups
  <2>2. a \in Fraction /\ b \in Fraction
    <3>1. totals.current = Held(Base, windows.current) /\ totals.previous = Held(Base, windows.previous)
      BY TotalledIs
    <3> QED
      BY <1>1, <3>1, HeldIs
  <2>3. x \in Fraction /\ y \in Fraction
    BY <1>3, SumInFraction DEF Numbers
  <2>4. ChangeOf(r) = Minus(Minus(a, x), Minus(b, y))
    <3>1. LeftOf(kept, "current") = Minus(a, x) /\ LeftOf(kept, "previous") = Minus(b, y)
      BY DEF LeftOf
    <3>2. OrZero(r.current) = Minus(a, x) /\ OrZero(r.previous) = Minus(b, y)
      BY <1>7, <3>1 DEF OrZero
    <3> QED
      BY <3>2 DEF ChangeOf
  <2>5. GlobalChange = Minus(a, b)
    BY DEF GlobalChange, ChangeOf
  <2>6. Summed(ChangesOf(kept)) = Minus(x, y) /\ Numbers(ChangesOf(kept))
    BY <1>3
  <2>7. /\ DOMAIN groups = 1..(n + 1) /\ \A i \in 1..n : groups[i] = kept[i]
        /\ groups[n + 1] = r
    <3>1. kept \in Seq(ToSet(kept))
      BY <1>1, BreakdownSeq
    <3> HIDE DEF kept
    <3>2. groups = kept \o <<r>>
      BY <1>7
    <3> QED
      BY <2>1, <3>1, <3>2
  <2> HIDE DEF kept, a, b, x, y, n, of
  <2>8. /\ DOMAIN of = 1..(n + 1) /\ \A i \in 1..n : of[i] = ChangeOf(kept[i])
        /\ of[n + 1] = ChangeOf(r)
    BY <2>1, <2>7 DEF of, ChangesOf
  <2>9. Only(of, 1..n) = ChangesOf(kept)
    BY <2>1, <2>8 DEF Only, ChangesOf
  <2>10. ChangeOf(r) \in Fraction
    <3>1. Minus(a, x) \in Fraction /\ Minus(b, y) \in Fraction
      BY <2>2, <2>3, PlusMinusIn
    <3> QED
      BY <2>4, <3>1, PlusMinusIn
  <2>11. Numbers(of)
    <3>1. IsFiniteSet(1..(n + 1))
      BY <2>1, IntervalFinite
    <3>2. \A i \in 1..n : ChangeOf(kept[i]) \in Fraction
      BY <2>1, <2>6 DEF Numbers, ChangesOf
    <3>3. \A i \in 1..(n + 1) : i \in 1..n \/ i = n + 1
      BY <2>1
    <3> QED
      BY <2>8, <2>10, <3>1, <3>2, <3>3 DEF Numbers
  <2>12. Summed(of) = Plus(Summed(Only(of, 1..n)), of[n + 1])
    BY <2>1, <2>8, <2>11, SumAppend
  <2>13. Plus(Minus(x, y), Minus(Minus(a, x), Minus(b, y))) = Minus(a, b)
    BY <2>2, <2>3, RestMakesWhole
  <2>14. Summed(of) = GlobalChange
    BY <2>4, <2>5, <2>6, <2>8, <2>9, <2>12, <2>13
  <2> QED
    BY <2>11, <2>14 DEF of
<1>8. Numbers(ChangesOf(groups)) /\ Summed(ChangesOf(groups)) = GlobalChange
  BY <1>6, <1>7 DEF Completed
<1> QED
  BY <1>5, <1>8

\* So do the effects on an average, where nothing is cut.
EffectsIn(groups) == [i \in DOMAIN groups |-> AverageEffect(groups[i])]

LEMMA LevelEffects ==
    ASSUME Given, Averaged, The.aggregation = "AVG", NEW d, NEW S \in SUBSET (DOMAIN The.rows),
           NEW groups, ListsGroups(groups, d, S), AllGroups(groups, d, S)
    PROVE  /\ Numbers(EffectsIn(groups)) /\ Summed(EffectsIn(groups)) = EffectOf(S)
<1> DEFINE f == EffectParts(d, S)
<1>1. /\ DOMAIN f = SegmentsIn(d, S) /\ \A s \in SegmentsIn(d, S) : f[s] = EffectOf(Part(d, s, S))
  BY DEF EffectParts
<1>2. Numbers(f) /\ Summed(f) = EffectOf(S)
  BY EffectsAddUp
<1> HIDE DEF f
<1>3. Summed(Taken(f, groups)) = Summed(f)
  BY <1>1, <1>2, ListSum
<1>4. ASSUME NEW i \in DOMAIN groups
      PROVE  f[groups[i].segment] = AverageEffect(groups[i]) /\ AverageEffect(groups[i]) \in Fraction
  <2> DEFINE s == groups[i].segment
             T == Part(d, s, S)
             g == groups[i]
  <2>1. g = Group(d, s, S) /\ s \in SegmentsIn(d, S)
    BY DEF ListsGroups
  <2>2. Holds(g, T)
    BY <2>1, GroupIs DEF Holds
  <2>3. T \in SUBSET (DOMAIN The.rows)
    BY DEF Part
  <2>4. f[s] = EffectOf(T)
    BY <1>1, <2>1
  <2> HIDE DEF T, g, s
  <2>5. AverageEffect(g) = EffectOf(T) /\ EffectOf(T) \in Fraction
    BY <2>2, <2>3, AverageEffectIs
  <2> QED
    BY <2>4, <2>5 DEF g, s
<1>5. Taken(f, groups) = EffectsIn(groups)
  BY <1>4 DEF Taken, EffectsIn
<1>6. Numbers(EffectsIn(groups))
  BY <1>4 DEF Numbers, EffectsIn, ListsGroups
<1> QED
  BY <1>2, <1>3, <1>5, <1>6

-----------------------------------------------------------------------------
(***************************************************************************)
(* Shares of a whole.                                                      *)
(***************************************************************************)

LEMMA SignOfProduct ==
    \A a, b, n, d \in Int : a * d = n * b /\ b > 0 /\ d > 0 =>
        (a >= 0 <=> n >= 0) /\ Absolute(a) * d = Absolute(n) * b
<1> SUFFICES ASSUME NEW a \in Int, NEW b \in Int, NEW n \in Int, NEW d \in Int,
                    a * d = n * b, b > 0, d > 0
             PROVE  (a >= 0 <=> n >= 0) /\ Absolute(a) * d = Absolute(n) * b
  OBVIOUS
<1>1. \A x, y \in Int : y > 0 => (x >= 0 <=> x * y >= 0) /\ x * y \in Int /\ (-x) * y = -(x * y)
  OBVIOUS
<1>2. (a >= 0 <=> a * d >= 0) /\ (n >= 0 <=> n * b >= 0) /\ a * d \in Int
      /\ (-a) * d = -(a * d) /\ (-n) * b = -(n * b)
  BY <1>1
<1>3. a >= 0 <=> n >= 0
  BY <1>2
<1>4. CASE a >= 0
  <2>1. Absolute(a) = a /\ Absolute(n) = n
    BY <1>3, <1>4 DEF Absolute
  <2> QED
    BY <1>3, <2>1
<1>5. CASE ~(a >= 0)
  <2>1. Absolute(a) = -a /\ Absolute(n) = -n
    BY <1>3, <1>5 DEF Absolute
  <2> QED
    BY <1>2, <1>3, <2>1
<1> QED
  BY <1>4, <1>5

LEMMA ReadsAbs ==
    ASSUME NEW x, NEW n, NEW d, Reads(x, n, d)
    PROVE  /\ Reads(Abs(x), Absolute(n), d) /\ (x.num >= 0 <=> n >= 0)
<1> DEFINE a == x.num
           b == x.den
<1>1. /\ n \in Int /\ d \in Int /\ d > 0 /\ x \in Fraction
      /\ a \in Int /\ b \in Int /\ b > 0 /\ a * d = n * b
  BY ReadsIs
<1>2. Abs(x) \in Fraction
  BY <1>1, AbsIs
<1>3. x = [num |-> a, den |-> b]
  BY <1>1 DEF Fraction
<1>4. Abs(x).num = Absolute(a) /\ Abs(x).den = b
  BY <1>3 DEF Abs
<1> HIDE DEF a, b
<1>5. Reads(Abs(x), Absolute(a), b)
  BY <1>2, <1>4, ReadsItself
<1>6. (a >= 0 <=> n >= 0) /\ Absolute(a) * d = Absolute(n) * b
  BY <1>1, SignOfProduct
<1>7. Absolute(n) \in Int
  BY <1>1 DEF Absolute
<1>8. Reads(Abs(x), Absolute(n), d)
  BY <1>1, <1>5, <1>6, <1>7, ReadsAlso
<1> QED
  BY <1>6, <1>8 DEF a

LEMMA AbsOver ==
    ASSUME NEW x \in Fraction, NEW z \in Fraction, z # Zero, z.num >= 0
    PROVE  Abs(Over(x, z)) = Over(Abs(x), z)
<1> DEFINE a == x.num
           b == x.den
           p == z.num
           q == z.den
<1>1. Reads(x, a, b) /\ Reads(z, p, q)
  BY ReadsItself
<1>2. p >= 0
  OBVIOUS
<1> HIDE DEF a, b, p, q
<1>3. p \in Int /\ p # 0 /\ p > 0 /\ a \in Int /\ b \in Int /\ b > 0 /\ q \in Int /\ q > 0
  BY <1>1, <1>2, ReadsIs, NotZero
<1>4. Reads(Over(x, z), a * q, b * p)
  BY <1>1, <1>3, ReadsOver
<1>5. Reads(Abs(Over(x, z)), Absolute(a * q), b * p)
  BY <1>4, ReadsAbs
<1>6. Reads(Abs(x), Absolute(a), b)
  BY <1>1, ReadsAbs
<1>7. Reads(Over(Abs(x), z), Absolute(a) * q, b * p)
  BY <1>1, <1>3, <1>6, ReadsOver
<1>8. Absolute(a * q) = Absolute(a) * q
  <2> DEFINE c == a * q
  <2>1. c \in Int /\ a * q = c * 1
    BY <1>3
  <2> HIDE DEF c
  <2>2. Absolute(a) * q = Absolute(c) * 1
    BY <1>3, <2>1, SignOfProduct
  <2>3. Absolute(c) \in Int
    BY <2>1 DEF Absolute
  <2> QED
    BY <2>2, <2>3 DEF c
<1> QED
  BY <1>5, <1>7, <1>8, ReadsOne

AbsOf(of) == [x \in DOMAIN of |-> Abs(of[x])]

LEMMA AbsSum ==
    ASSUME NEW of, Numbers(of)
    PROVE  /\ Numbers(AbsOf(of)) /\ Summed(AbsOf(of)) \in Fraction /\ Summed(AbsOf(of)).num >= 0
<1> DEFINE as == AbsOf(of)
           P == {p \in Fraction : p.num >= 0}
<1>1. \A x \in DOMAIN of : of[x] \in Fraction
  BY DEF Numbers
<1>2. ASSUME NEW x \in DOMAIN of PROVE as[x] \in Fraction /\ as[x].num >= 0
  <2> DEFINE y == of[x]
             n == y.num
  <2>1. as[x] = Abs(y) /\ y \in Fraction
    BY <1>1 DEF AbsOf
  <2>2. Reads(y, n, y.den)
    BY <2>1, ReadsItself
  <2>3. n \in Int
    BY <2>2, ReadsIs
  <2> HIDE DEF y, n
  <2>4. Reads(Abs(y), Absolute(n), y.den)
    BY <2>2, ReadsAbs
  <2>5. Absolute(n) >= 0 /\ Absolute(n) \in Int
    BY <2>3 DEF Absolute
  <2>6. Absolute(Absolute(n)) = Absolute(n)
    BY <2>5 DEF Absolute
  <2>7. Abs(y).num >= 0
    BY <2>4, <2>5, ReadsAbs
  <2>8. Abs(y) \in Fraction
    BY <2>1, AbsIs
  <2> QED
    BY <2>1, <2>7, <2>8
<1>3. Numbers(as)
  <2>1. DOMAIN as = DOMAIN of
    BY DEF AbsOf
  <2> HIDE DEF as
  <2> QED
    BY <1>2, <2>1 DEF Numbers
<1>4. Zero \in P
  <2>1. Zero \in Fraction
    BY WholeIs DEF Zero
  <2>2. Zero.num = 0
    BY DEF Zero, Whole
  <2> QED
    BY <2>1, <2>2
<1>5. ASSUME NEW x \in DOMAIN as, NEW p \in P PROVE Plus(as[x], p) \in P
  <2> DEFINE y == as[x]
  <2>1. x \in DOMAIN of
    BY DEF AbsOf
  <2>2. y \in Fraction /\ y.num >= 0 /\ p \in Fraction /\ p.num >= 0
    BY <1>2, <2>1
  <2> HIDE DEF y
  <2>3. Reads(y, y.num, y.den) /\ Reads(p, p.num, p.den)
    BY <2>2, ReadsItself
  <2>4. Reads(Plus(y, p), y.num * p.den + p.num * y.den, y.den * p.den)
    BY <2>3, ReadsPlus
  <2>5. y.num \in Int /\ y.den \in Int /\ y.den > 0 /\ p.num \in Int /\ p.den \in Int /\ p.den > 0
    BY <2>3, ReadsIs
  <2>6. \A a, b \in Int : a >= 0 /\ b > 0 => a * b >= 0 /\ a * b \in Int
    OBVIOUS
  <2>7. y.num * p.den >= 0 /\ p.num * y.den >= 0 /\ y.num * p.den \in Int /\ p.num * y.den \in Int
    BY <2>2, <2>5, <2>6
  <2>8. y.num * p.den + p.num * y.den >= 0
    BY <2>7
  <2>9. Plus(y, p).num >= 0
    BY <2>4, <2>8, ReadsAbs
  <2>10. Plus(y, p) \in Fraction
    BY <2>2, PlusMinusIn
  <2> QED
    BY <2>9, <2>10 DEF y
<1> HIDE DEF as
<1>6. Summed(as) \in P
  <2> HIDE DEF P
  <2> QED
    BY <1>3, <1>4, <1>5, SumStays
<1> QED
  BY <1>3, <1>6 DEF as

\* The shares of what moved, whatever their sign, are shares of the whole movement.
LEMMA GrossShares ==
    ASSUME NEW of, Numbers(of), NEW z, z = Summed(AbsOf(of)), z # Zero
    PROVE  /\ Numbers(Divided(of, z)) /\ Summed(AbsOf(Divided(of, z))) = One
<1>1. Numbers(AbsOf(of)) /\ z \in Fraction /\ z.num >= 0
  BY AbsSum
<1>2. /\ Numbers(Divided(of, z)) /\ Summed(Divided(AbsOf(of), z)) = Over(z, z)
  BY <1>1, DividedSum
<1>3. Over(z, z) = One
  BY <1>1, OverPlus
<1>4. ASSUME NEW x \in DOMAIN of PROVE Abs(Over(of[x], z)) = Over(Abs(of[x]), z)
  <2>1. of[x] \in Fraction
    BY DEF Numbers
  <2> QED
    BY <1>1, <2>1, AbsOver
<1>5. AbsOf(Divided(of, z)) = Divided(AbsOf(of), z)
  BY <1>4 DEF AbsOf, Divided
<1> QED
  BY <1>2, <1>3, <1>5

\* What the basis rests on.
Based ==
    /\ The.aggregation \in {"SUM", "COUNT"} =>
         basis \in {"unattributable", "net_change", "gross_movement"}
    /\ The.aggregation = "AVG" => basis \in {"unattributable", "mix_rate", "gross_movement"}
    /\ The.aggregation = "COUNT_DISTINCT" =>
         \/ basis = "unattributable"
         \/ basis = "net_change" /\ \A w \in TheWindows : OverlapGap(Usable[1], w) = 0
    /\ basis # "unattributable" => The.aggregation \in Summable

\* Where the change of the whole is divided up, as Additive says of a finished level.
Divisible(d) ==
    \/ The.aggregation \in {"SUM", "COUNT"}
    \/ /\ The.aggregation = "AVG" /\ Len(Breakdown(d, Base)) < The.limit
       /\ totals.currentCount > 0 /\ totals.previousCount > 0
    \/ The.aggregation = "COUNT_DISTINCT" /\ d = Usable[1]

SharesOf(groups, gross) == [i \in DOMAIN groups |-> OrZero(Contribution(groups[i], gross))]
Weighted(shares) == IF basis = "gross_movement" THEN AbsOf(shares) ELSE shares

LEMMA GrossIs ==
    ASSUME NEW groups
    PROVE  GrossMovement(groups) = Summed(AbsOf(ChangesOf(groups)))
<1>1. GrossMovement(groups) = Summed([i \in DOMAIN groups |-> Abs(ChangeOf(groups[i]))])
  BY Zenon DEF GrossMovement, SumOver
<1>2. [i \in DOMAIN groups |-> Abs(ChangeOf(groups[i]))] = AbsOf(ChangesOf(groups))
  BY DEF AbsOf, ChangesOf
<1> QED
  BY <1>1, <1>2

LEMMA OverAll == ASSUME NEW of, Numbers(of), NEW z, z = Summed(of), z # Zero
                 PROVE  Summed(Divided(of, z)) = One
<1>1. z \in Fraction
  BY SumInFraction DEF Numbers
<1> QED
  BY <1>1, DividedSum, OverPlus

LEMMA LevelNumbers ==
    ASSUME Given, Based, totals = Totalled(Base), NEW d, Divisible(d), basis # "unattributable",
           NEW groups, groups = WithResidual(d, Breakdown(d, Base))
    PROVE  /\ Numbers(ChangesOf(groups))
           /\ basis = "net_change" => Summed(ChangesOf(groups)) = GlobalChange
           /\ basis = "mix_rate" =>
                Numbers(EffectsIn(groups)) /\ Summed(EffectsIn(groups)) = GlobalChange
<1>1. Base \in SUBSET (DOMAIN The.rows)
  BY DEF Base
<1>2. Completed(d, groups)
  BY LevelCompleted
<1>3. ASSUME The.aggregation \in Summable,
             Numbers(Changes(d, Base)), Summed(Changes(d, Base)) = ChangeOf(Totalled(Base))
      PROVE  Numbers(ChangesOf(groups)) /\ Summed(ChangesOf(groups)) = GlobalChange
  BY <1>2, <1>3, LevelChanges
<1>4. CASE The.aggregation \in {"SUM", "COUNT"}
  <2>1. Numbers(Changes(d, Base)) /\ Summed(Changes(d, Base)) = ChangeOf(Totalled(Base))
    BY <1>1, <1>4, SumsAddUp
  <2>2. basis # "mix_rate" /\ The.aggregation \in Summable
    BY <1>4 DEF Based, Summable
  <2> QED
    BY <1>3, <2>1, <2>2
<1>5. CASE The.aggregation = "COUNT_DISTINCT"
  <2>1. d = Usable[1] /\ basis = "net_change" /\ \A w \in TheWindows : OverlapGap(d, w) = 0
    BY <1>5 DEF Based, Divisible
  <2>2. Numbers(Changes(d, Base)) /\ Summed(Changes(d, Base)) = ChangeOf(Totalled(Base))
    BY <1>5, <2>1, DistinctChanges
  <2>3. basis # "mix_rate" /\ The.aggregation \in Summable
    BY <1>5, <2>1 DEF Summable
  <2> QED
    BY <1>3, <2>2, <2>3
<1>6. CASE The.aggregation = "AVG"
  <2> DEFINE kept == Breakdown(d, Base)
  <2>1. /\ Len(kept) < The.limit /\ basis # "net_change"
        /\ totals.currentCount > 0 /\ totals.previousCount > 0
    BY <1>6 DEF Based, Divisible
  <2>2. groups = kept /\ AllGroups(kept, d, Base)
    BY <2>1, LevelCompleted
  <2>3. ListsGroups(kept, d, Base)
    BY <1>1, BreakdownLists
  <2> HIDE DEF kept
  <2>4. The.aggregation \in Summable
    BY <1>6 DEF Summable
  <2>5. Numbers(ChangesOf(groups))
    BY <1>1, <2>2, <2>3, <2>4, KeptAre
  <2>6. Averaged
    <3>1. /\ totals.current = Held(Base, windows.current)
          /\ totals.previous = Held(Base, windows.previous)
          /\ totals.currentCount = Cardinality(Measured(Within(Base, windows.current)))
          /\ totals.previousCount = Cardinality(Measured(Within(Base, windows.previous)))
      BY TotalledIs
    <3>2. \A w : Measured(Within(Base, w)) \in SUBSET Measured(Base)
      BY DEF Within, Measured
    <3>3. totals.currentCount \in Nat /\ totals.previousCount \in Nat
      BY <1>1, <3>1, <3>2, TotalIs
    <3>4. OrZero(totals.current) \in Fraction /\ OrZero(totals.previous) \in Fraction
      BY <1>1, <2>4, <3>1, HeldIs
    <3> QED
      BY <2>1, <3>3, <3>4 DEF Averaged
  <2>7. Numbers(EffectsIn(groups)) /\ Summed(EffectsIn(groups)) = EffectOf(Base)
    BY <1>1, <1>6, <2>2, <2>3, <2>6, LevelEffects
  <2>8. EffectOf(Base) = GlobalChange
    BY <1>6, <2>6, WholeEffect
  <2> QED
    BY <2>1, <2>5, <2>7, <2>8
<1> QED
  BY <1>4, <1>5, <1>6 DEF Divisible

LEMMA LevelShares ==
    ASSUME Given, Based, totals = Totalled(Base), NEW d, Divisible(d),
           NEW groups, groups = WithResidual(d, Breakdown(d, Base)),
           NEW gross, gross = GrossMovement(groups),
           NEW k \in DOMAIN groups, Contribution(groups[k], gross) # {}
    PROVE  Summed(Weighted(SharesOf(groups, gross))) = One
<1> DEFINE shares == SharesOf(groups, gross)
           c == ChangesOf(groups)
           e == EffectsIn(groups)
<1>1. basis # "unattributable"
  BY DEF Contribution
<1>2. Numbers(c) /\ (basis = "net_change" => Summed(c) = GlobalChange)
      /\ (basis = "mix_rate" => Numbers(e) /\ Summed(e) = GlobalChange)
  BY <1>1, LevelNumbers
<1>3. /\ DOMAIN c = DOMAIN groups /\ \A i \in DOMAIN groups : c[i] = ChangeOf(groups[i])
      /\ DOMAIN e = DOMAIN groups /\ \A i \in DOMAIN groups : e[i] = AverageEffect(groups[i])
      /\ DOMAIN shares = DOMAIN groups
      /\ \A i \in DOMAIN groups : shares[i] = OrZero(Contribution(groups[i], gross))
      /\ shares = [i \in DOMAIN groups |-> shares[i]]
  BY DEF ChangesOf, EffectsIn, SharesOf
<1>4. \A x : OrZero({x}) = x
  BY DEF OrZero
<1>5. basis \in {"gross_movement", "net_change", "mix_rate"}
  BY <1>1 DEF Based, Divisible
<1>6. gross = Summed(AbsOf(c))
  BY GrossIs
<1> HIDE DEF shares, c, e
<1>7. CASE basis = "gross_movement"
  <2>1. gross # Zero
    BY <1>1, <1>7 DEF Contribution
  <2>2. \A i \in DOMAIN groups : Contribution(groups[i], gross) = {Over(ChangeOf(groups[i]), gross)}
    BY <1>7, <2>1 DEF Contribution
  <2>3. shares = Divided(c, gross)
    <3>1. ASSUME NEW i \in DOMAIN groups PROVE shares[i] = Over(c[i], gross)
      <4>1. shares[i] = OrZero({Over(ChangeOf(groups[i]), gross)}) /\ c[i] = ChangeOf(groups[i])
        BY <1>3, <2>2
      <4> QED
        BY <1>4, <4>1
    <3> QED
      BY ONLY <1>3, <3>1 DEF Divided
  <2>4. Summed(AbsOf(Divided(c, gross))) = One
    BY <1>2, <1>6, <2>1, GrossShares
  <2> QED
    BY <1>7, <2>3, <2>4 DEF Weighted, shares
<1>8. CASE basis = "net_change"
  <2>1. GlobalChange # Zero
    BY <1>1, <1>8 DEF Contribution
  <2>2. \A i \in DOMAIN groups : Contribution(groups[i], gross) = {Over(ChangeOf(groups[i]), GlobalChange)}
    BY <1>8, <2>1 DEF Contribution
  <2>3. shares = Divided(c, GlobalChange)
    <3>1. ASSUME NEW i \in DOMAIN groups PROVE shares[i] = Over(c[i], GlobalChange)
      <4>1. shares[i] = OrZero({Over(ChangeOf(groups[i]), GlobalChange)}) /\ c[i] = ChangeOf(groups[i])
        BY <1>3, <2>2
      <4> QED
        BY <1>4, <4>1
    <3> QED
      BY ONLY <1>3, <3>1 DEF Divided
  <2>4. Summed(Divided(c, GlobalChange)) = One
    BY <1>2, <1>8, <2>1, OverAll
  <2> QED
    BY <1>8, <2>3, <2>4 DEF Weighted, shares
<1>9. CASE basis = "mix_rate"
  <2>1. GlobalChange # Zero
    BY <1>1, <1>9 DEF Contribution
  <2>2. \A i \in DOMAIN groups : Contribution(groups[i], gross) = {Over(AverageEffect(groups[i]), GlobalChange)}
    BY <1>9, <2>1 DEF Contribution
  <2>3. shares = Divided(e, GlobalChange)
    <3>1. ASSUME NEW i \in DOMAIN groups PROVE shares[i] = Over(e[i], GlobalChange)
      <4>1. shares[i] = OrZero({Over(AverageEffect(groups[i]), GlobalChange)}) /\ e[i] = AverageEffect(groups[i])
        BY <1>3, <2>2
      <4> QED
        BY <1>4, <4>1
    <3> QED
      BY ONLY <1>3, <3>1 DEF Divided
  <2>4. Summed(Divided(e, GlobalChange)) = One
    BY <1>2, <1>9, <2>1, OverAll
  <2> QED
    BY <1>9, <2>3, <2>4 DEF Weighted, shares
<1> QED
  BY <1>5, <1>7, <1>8, <1>9

-----------------------------------------------------------------------------
(***************************************************************************)
(* What the statements found stays while the task and the windows do.      *)
(***************************************************************************)

LEMMA RowsStay ==
    ASSUME task' = task
    PROVE  /\ The' = The /\ Base' = Base
           /\ \A S : Measured(S)' = Measured(S)
           /\ \A i : ValueOf(i)' = ValueOf(i)
           /\ \A S, w : Within(S, w)' = Within(S, w)
<1>1. The' = The
  BY Stays
<1>2. \A c : CellValue(c)' = CellValue(c)
  BY <1>1 DEF CellValue
<1>3. \A S : Measured(S)' = Measured(S)
  BY <1>1, <1>2 DEF Measured
<1>4. \A i : ValueOf(i)' = ValueOf(i)
  BY <1>1, <1>2 DEF ValueOf
<1>5. \A S, w : Within(S, w)' = Within(S, w)
  BY <1>1 DEF Within
<1>6. \A row : Passes(row)' <=> Passes(row)
  BY <1>1 DEF Passes
<1>7. Base' = Base
  BY <1>1, <1>6 DEF Base
<1> QED
  BY <1>1, <1>3, <1>4, <1>5, <1>7

LEMMA AggregatesStay ==
    ASSUME task' = task
    PROVE  \A M, n : AggregateOf(M, n)' = AggregateOf(M, n)
<1>1. The' = The /\ \A i : ValueOf(i)' = ValueOf(i)
  BY RowsStay
<1>2. \A M : TotalOf(M)' = TotalOf(M)
  BY <1>1 DEF TotalOf, SumOver
<1>3. \A M, k : Ranking(M, k)' = Ranking(M, k)
  BY <1>1 DEF Ranking
<1> QED
  BY <1>1, <1>2, <1>3 DEF AggregateOf

DistinctIn(T) == Cardinality({ValueOf(i) : i \in Measured(T)})
DistinctBy(d, S) ==
    [s \in {The.rows[i].segment[d] : i \in S} |->
        Whole(DistinctIn({i \in S : The.rows[i].segment[d] = s}))]

GapRead ==
    \A d, w : OverlapGap(d, w) =
                Summed(DistinctBy(d, Within(Base, w))).num - DistinctIn(Within(Base, w))

LEMMA GapIs == GapRead
<1> SUFFICES ASSUME NEW d, NEW w
             PROVE  OverlapGap(d, w) =
                      Summed(DistinctBy(d, Within(Base, w))).num - DistinctIn(Within(Base, w))
  BY DEF GapRead
<1> DEFINE S == Within(Base, w)
           V == {The.rows[i].segment[d] : i \in S}
<1>1. OverlapGap(d, w) =
         SumOver(V, LAMBDA s : Whole(DistinctIn({i \in S : The.rows[i].segment[d] = s}))).num
           - DistinctIn(S)
  BY DEF OverlapGap, DistinctIn
<1>2. SumOver(V, LAMBDA s : Whole(DistinctIn({i \in S : The.rows[i].segment[d] = s})))
        = Summed(DistinctBy(d, S))
  BY Zenon DEF SumOver, DistinctBy
<1> QED
  BY <1>1, <1>2

LEMMA NumbersStay ==
    ASSUME UNCHANGED <<task, windows>>
    PROVE  /\ Totalled(Base)' = Totalled(Base) /\ TheWindows' = TheWindows
           /\ \A d, w : OverlapGap(d, w)' = OverlapGap(d, w)
<1>1. /\ The' = The /\ Base' = Base /\ windows' = windows
      /\ \A S : Measured(S)' = Measured(S)
      /\ \A i : ValueOf(i)' = ValueOf(i)
      /\ \A S, w : Within(S, w)' = Within(S, w)
  BY RowsStay
<1>2. \A M, n : AggregateOf(M, n)' = AggregateOf(M, n)
  BY AggregatesStay
<1>3. \A S : InWindow(S)' = InWindow(S)
  BY <1>1, <1>2 DEF InWindow, Side
<1>4. Totalled(Base)' = Totalled(Base)
  BY <1>1, <1>3 DEF Totalled
<1>5. TheWindows' = TheWindows
  BY <1>1 DEF TheWindows
<1>6. \A d, w : OverlapGap(d, w)' = OverlapGap(d, w)
  <2>1. \A T : DistinctIn(T)' = DistinctIn(T)
    BY <1>1 DEF DistinctIn
  <2>2. ASSUME NEW d, NEW S PROVE DistinctBy(d, S)' = DistinctBy(d, S)
    BY <1>1, <2>1 DEF DistinctBy
  <2>3. GapRead'
    BY GapIs, PTL
  <2>4. GapRead
    BY GapIs
  <2> QED
    BY <1>1, <2>1, <2>2, <2>3, <2>4 DEF GapRead
<1> QED
  BY <1>4, <1>5, <1>6

-----------------------------------------------------------------------------
(***************************************************************************)
(* The contributions of a dimension add up.                                *)
(***************************************************************************)

LevelWeights(d) == Weighted([i \in DOMAIN level[d] |-> Share(level[d][i])])
LevelShared(d) ==
    Additive(d) /\ (\E i \in DOMAIN level[d] : level[d][i].contribution # {}) =>
        Summed(LevelWeights(d)) = One

\* What is kept until the level is there, and then of the level.
Reckoned ==
    /\ rcaStage \in {"breakdown", "nodes"} => totals = Totalled(Base)
    /\ rcaStage = "nodes" => Based
    /\ level # <<>> => \A d \in UsableSet : LevelShared(d)

LEMMA ReckonedStays ==
    ASSUME Reckoned, UNCHANGED <<task, windows, totals, basis, level, truncated>>,
           rcaStage' \in {"breakdown", "nodes"} => rcaStage' = rcaStage
    PROVE  Reckoned'
<1>1. The' = The /\ Usable' = Usable /\ UsableSet' = UsableSet
  BY Stays
<1>2. Totalled(Base)' = Totalled(Base) /\ TheWindows' = TheWindows
      /\ \A d, w : OverlapGap(d, w)' = OverlapGap(d, w)
  BY NumbersStay
<1>3. Based => Based'
  BY <1>1, <1>2 DEF Based
<1>4. ASSUME NEW d PROVE LevelShared(d) => LevelShared(d)'
  <2>1. Additive(d)' <=> Additive(d)
    BY <1>1 DEF Additive
  <2>2. LevelWeights(d)' = LevelWeights(d)
    BY DEF LevelWeights, Weighted
  <2> QED
    BY <2>1, <2>2 DEF LevelShared
<1> QED
  BY <1>1, <1>2, <1>3, <1>4 DEF Reckoned

LEMMA TotalReckons ==
    ASSUME RcaInv, Total PROVE Reckoned'
<1>1. UNCHANGED <<task, windows, level>> /\ totals' = Totalled(Base) /\ rcaStage = "totals"
  BY DEF Total
<1>2. rcaStage' \in {"done", "breakdown"}
  BY DEF Total, Finish, Go
<1>3. level' = <<>>
  BY <1>1 DEF RcaInv, Shaped, Early
<1>4. Totalled(Base)' = Totalled(Base)
  BY <1>1, NumbersStay
<1> QED
  BY <1>1, <1>2, <1>3, <1>4 DEF Reckoned

LEMMA BasisIs ==
    ASSUME Given, NEW groups, NEW overlap, NEW b, b = BasisFor(groups, overlap)
    PROVE  /\ The.aggregation \in {"SUM", "COUNT"} =>
                b \in {"unattributable", "net_change", "gross_movement"}
           /\ The.aggregation = "AVG" => b \in {"unattributable", "mix_rate", "gross_movement"}
           /\ The.aggregation = "COUNT_DISTINCT" =>
                b = "unattributable" \/ (b = "net_change" /\ overlap = {<<0, 0>>})
           /\ b # "unattributable" => The.aggregation \in Summable
<1>1. ASSUME The.aggregation \in {"SUM", "COUNT"}
      PROVE  b \in {"unattributable", "net_change", "gross_movement"}
  BY <1>1 DEF BasisFor
<1>2. ASSUME The.aggregation = "AVG"
      PROVE  b \in {"unattributable", "mix_rate", "gross_movement"}
  BY <1>2 DEF BasisFor
<1>3. ASSUME The.aggregation = "COUNT_DISTINCT"
      PROVE  b = "unattributable" \/ (b = "net_change" /\ overlap = {<<0, 0>>})
  BY <1>3 DEF BasisFor
<1>4. The.aggregation \in Summable \/ The.aggregation \in {"MIN", "MAX", "MEDIAN"}
  BY DEF Given, Analysis, Aggregation, Summable
<1>5. ASSUME The.aggregation \in {"MIN", "MAX", "MEDIAN"} PROVE b = "unattributable"
  BY <1>5 DEF BasisFor
<1> QED
  BY <1>1, <1>2, <1>3, <1>4, <1>5

LEMMA BreakDownReckons ==
    ASSUME RcaInv, Reckoned, BreakDown PROVE Reckoned'
<1>1. /\ UNCHANGED <<task, windows, totals, level>> /\ rcaStage = "breakdown"
      /\ basis' = BasisFor(Breakdown(Usable[1], Base), gap')
      /\ gap' = IF The.aggregation # "COUNT_DISTINCT" THEN {}
                ELSE {<<OverlapGap(Usable[1], windows.previous),
                        OverlapGap(Usable[1], windows.current)>>}
  BY DEF BreakDown
<1>2. rcaStage' \in {"done", "nodes"}
  BY DEF BreakDown, Finish, Go
<1>3. level' = <<>> /\ totals = Totalled(Base)
  BY <1>1 DEF RcaInv, Shaped, Early, Reckoned
<1>4. Totalled(Base)' = Totalled(Base) /\ TheWindows' = TheWindows
      /\ \A d, w : OverlapGap(d, w)' = OverlapGap(d, w)
  BY <1>1, NumbersStay
<1>5. The' = The /\ Usable' = Usable
  BY <1>1, Stays
<1>10. Given
  <2>1. PICK a \in Analyses : task = {a}
    BY <1>1 DEF RcaInv, Shaped
  <2> QED
    BY <2>1, GivenIs
<1>6. /\ The.aggregation \in {"SUM", "COUNT"} =>
           basis' \in {"unattributable", "net_change", "gross_movement"}
      /\ The.aggregation = "AVG" => basis' \in {"unattributable", "mix_rate", "gross_movement"}
      /\ The.aggregation = "COUNT_DISTINCT" =>
           basis' = "unattributable" \/ (basis' = "net_change" /\ gap' = {<<0, 0>>})
      /\ basis' # "unattributable" => The.aggregation \in Summable
  <2> DEFINE groups == Breakdown(Usable[1], Base)
             overlap == gap'
             b == basis'
  <2>1. b = BasisFor(groups, overlap)
    BY <1>1
  <2> HIDE DEF groups, overlap, b
  <2>2. /\ The.aggregation \in {"SUM", "COUNT"} =>
             b \in {"unattributable", "net_change", "gross_movement"}
        /\ The.aggregation = "AVG" => b \in {"unattributable", "mix_rate", "gross_movement"}
        /\ The.aggregation = "COUNT_DISTINCT" =>
             b = "unattributable" \/ (b = "net_change" /\ overlap = {<<0, 0>>})
        /\ b # "unattributable" => The.aggregation \in Summable
    BY <1>10, <2>1, BasisIs
  <2> QED
    BY <2>2 DEF overlap, b
<1>7. ASSUME The.aggregation = "COUNT_DISTINCT", gap' = {<<0, 0>>}
      PROVE  \A w \in TheWindows : OverlapGap(Usable[1], w) = 0
  <2> DEFINE g == OverlapGap(Usable[1], windows.previous)
             h == OverlapGap(Usable[1], windows.current)
  <2>1. {<<g, h>>} = {<<0, 0>>}
    BY <1>1, <1>7
  <2> HIDE DEF g, h
  <2>2. g = 0 /\ h = 0
    <3>1. <<g, h>> \in {<<0, 0>>}
      BY <2>1
    <3>2. <<g, h>> = <<0, 0>>
      BY <3>1
    <3> QED
      BY <3>2
  <2> QED
    BY <2>2 DEF g, h, TheWindows
<1>8. Based'
  BY <1>4, <1>5, <1>6, <1>7 DEF Based
<1> QED
  BY <1>1, <1>2, <1>3, <1>4, <1>8 DEF Reckoned

LEMMA InLevelShares ==
    ASSUME NEW n, n \in Fields(n), NEW d, NEW found
    PROVE  InLevel(n, d, found).contribution = n.contribution
<1> DEFINE N == TheOne(found).from
           c == TheOne(found).classes
           k == ClassIn(n, c)
           r == n \in Scored(N)
           p == [n EXCEPT !.class = k, !.ranked = r]
<1>1. Placed(n, N, c) = p
  BY DEF Placed
<1> HIDE DEF N, c, k, r
<1>2. p.contribution = n.contribution
  BY DEF Fields
<1> HIDE DEF p
<1>3. InLevel(n, d, found) = n \/ InLevel(n, d, found) = p
  BY <1>1 DEF InLevel, N, c
<1> QED
  BY <1>2, <1>3

NewNodes(d) == LevelNodes(WithResidual(d, Breakdown(d, Base)))

LEMMA LevelBuilt ==
    ASSUME BuildLevel
    PROVE  /\ truncated' = {d \in UsableSet : Len(Breakdown(d, Base)) >= The.limit}
           /\ \E found : level' = [d \in UsableSet |-> [i \in DOMAIN NewNodes(d) |->
                                     InLevel(NewNodes(d)[i], d, found)]]
<1> DEFINE groups == [d \in UsableSet |-> Breakdown(d, Base)]
           nodes == [d \in UsableSet |-> NewNodes(d)]
<1>1. \E g \in {groups} :
          /\ truncated' = {d \in UsableSet : Len(g[d]) >= The.limit}
          /\ \E ns \in {[d \in UsableSet |-> LevelNodes(WithResidual(d, g[d]))]} :
             \E f \in {Expansions(IF basis = "unattributable" THEN {}
                                 ELSE Choose(ns, Usable, GlobalChange), ns, 1)} :
                /\ level' = [d \in UsableSet |-> [i \in DOMAIN ns[d] |-> InLevel(ns[d][i], d, f)]]
                /\ tree' = UNION {e.nodes : e \in f}
                /\ queue' = IF f = {} THEN <<>> ELSE TheOne(f).frontier
                /\ drivers' = IF f = {} THEN NoDrivers ELSE TheOne(f).classes
  BY DEF BuildLevel
<1> HIDE DEF groups
<1>2. PICK g \in {groups} :
          /\ truncated' = {d \in UsableSet : Len(g[d]) >= The.limit}
          /\ \E ns \in {[d \in UsableSet |-> LevelNodes(WithResidual(d, g[d]))]} :
             \E f \in {Expansions(IF basis = "unattributable" THEN {}
                                 ELSE Choose(ns, Usable, GlobalChange), ns, 1)} :
                /\ level' = [d \in UsableSet |-> [i \in DOMAIN ns[d] |-> InLevel(ns[d][i], d, f)]]
                /\ tree' = UNION {e.nodes : e \in f}
                /\ queue' = IF f = {} THEN <<>> ELSE TheOne(f).frontier
                /\ drivers' = IF f = {} THEN NoDrivers ELSE TheOne(f).classes
  BY <1>1, Zenon
<1>3. g = groups
  BY <1>2
<1>4. \A d \in UsableSet : g[d] = Breakdown(d, Base)
  BY <1>3 DEF groups
<1>5. truncated' = {d \in UsableSet : Len(Breakdown(d, Base)) >= The.limit}
  BY <1>2, <1>4
<1>6. PICK ns \in {[d \in UsableSet |-> LevelNodes(WithResidual(d, g[d]))]} :
             \E f \in {Expansions(IF basis = "unattributable" THEN {}
                                 ELSE Choose(ns, Usable, GlobalChange), ns, 1)} :
                /\ level' = [d \in UsableSet |-> [i \in DOMAIN ns[d] |-> InLevel(ns[d][i], d, f)]]
                /\ tree' = UNION {e.nodes : e \in f}
                /\ queue' = IF f = {} THEN <<>> ELSE TheOne(f).frontier
                /\ drivers' = IF f = {} THEN NoDrivers ELSE TheOne(f).classes
  BY <1>2, Zenon
<1>7. \A d \in UsableSet : ns[d] = NewNodes(d)
  <2>1. ns = [d \in UsableSet |-> LevelNodes(WithResidual(d, g[d]))]
    BY <1>6
  <2> SUFFICES ASSUME NEW d \in UsableSet PROVE ns[d] = NewNodes(d)
    OBVIOUS
  <2>2. ns[d] = LevelNodes(WithResidual(d, g[d]))
    BY <2>1
  <2> QED
    BY <1>4, <2>2 DEF NewNodes
<1>8. PICK found : level' = [d \in UsableSet |-> [i \in DOMAIN ns[d] |-> InLevel(ns[d][i], d, found)]]
  BY <1>6
<1>9. level' = [d \in UsableSet |-> [i \in DOMAIN NewNodes(d) |->
                                     InLevel(NewNodes(d)[i], d, found)]]
  BY <1>7, <1>8
<1> QED
  BY <1>5, <1>9

LEMMA NewNodesAre ==
    ASSUME Given, NEW d \in Dimension,
           NEW groups, groups = WithResidual(d, Breakdown(d, Base)),
           NEW gross, gross = GrossMovement(groups)
    PROVE  /\ DOMAIN NewNodes(d) = DOMAIN groups
           /\ \A i \in DOMAIN groups :
                /\ NewNodes(d)[i] \in Fields(NewNodes(d)[i])
                /\ NewNodes(d)[i].contribution = Contribution(groups[i], gross)
<1>1. NewNodes(d) = [i \in DOMAIN groups |-> Node(groups[i], <<>>, gross)]
  BY DEF NewNodes, LevelNodes, Nodes
<1>2. Candidates(NewNodes(d), d, <<>>)
  BY LevelIs DEF NewNodes
<1>3. \A i \in DOMAIN NewNodes(d) : NewNodes(d)[i] \in Fields(NewNodes(d)[i])
  BY <1>2 DEF Candidates, Siblings
<1>4. \A g : Node(g, <<>>, gross).contribution = Contribution(g, gross)
  BY DEF Node
<1> QED
  BY <1>1, <1>3, <1>4

LEMMA BuildLevelReckons ==
    ASSUME RcaInv, Reckoned, BuildLevel PROVE Reckoned'
<1>1. /\ UNCHANGED <<task, windows, totals, basis>> /\ rcaStage = "nodes"
      /\ totals = Totalled(Base) /\ Based
  BY DEF BuildLevel, Reckoned
<1>2. rcaStage' \in {"done", "drill"}
  BY DEF BuildLevel, Finish, Go
<1>3. Given
  <2>1. PICK a \in Analyses : task = {a}
    BY <1>1 DEF RcaInv, Shaped
  <2> QED
    BY <2>1, GivenIs
<1>4. The' = The /\ Usable' = Usable /\ UsableSet' = UsableSet /\ UsableSet \subseteq Dimension
  BY <1>1, <1>3, Stays, UsableIs
<1>5. truncated' = {d \in UsableSet : Len(Breakdown(d, Base)) >= The.limit}
  BY LevelBuilt
<1>6. PICK found : level' = [d \in UsableSet |-> [i \in DOMAIN NewNodes(d) |->
                                InLevel(NewNodes(d)[i], d, found)]]
  BY LevelBuilt
<1>7. ASSUME NEW d \in UsableSet PROVE LevelShared(d)'
  <2> DEFINE groups == WithResidual(d, Breakdown(d, Base))
             gross == GrossMovement(groups)
             nodes == level'[d]
  <2>1. d \in Dimension
    BY <1>4
  <2>2. /\ DOMAIN NewNodes(d) = DOMAIN groups
        /\ \A i \in DOMAIN groups :
             /\ NewNodes(d)[i] \in Fields(NewNodes(d)[i])
             /\ NewNodes(d)[i].contribution = Contribution(groups[i], gross)
    BY <1>3, <2>1, NewNodesAre
  <2>3. nodes = [i \in DOMAIN NewNodes(d) |-> InLevel(NewNodes(d)[i], d, found)]
    BY <1>6
  <2> HIDE DEF groups, gross, nodes
  <2>4. DOMAIN nodes = DOMAIN groups
    BY <2>2, <2>3
  <2>5. ASSUME NEW i \in DOMAIN groups PROVE nodes[i].contribution = Contribution(groups[i], gross)
    <3>1. nodes[i] = InLevel(NewNodes(d)[i], d, found)
      BY <2>2, <2>3
    <3> QED
      BY <2>2, <3>1, InLevelShares
  <2>6. ASSUME Additive(d)' PROVE Divisible(d)
    <3>1. CASE The.aggregation = "AVG"
      <4>1. d \notin truncated' /\ totals.currentCount > 0 /\ totals.previousCount > 0
        BY <1>1, <1>4, <2>6, <3>1 DEF Additive
      <4>2. ~(Len(Breakdown(d, Base)) >= The.limit)
        BY <1>5, <4>1
      <4>3. Breakdown(d, Base) \in Seq(ToSet(Breakdown(d, Base))) /\ The.limit \in Nat
        BY <1>3, BreakdownSeq, GivenFields DEF Base
      <4> DEFINE n == Len(Breakdown(d, Base))
                 l == The.limit
      <4>4. n \in Nat /\ l \in Nat /\ ~(n >= l)
        BY <4>2, <4>3
      <4> HIDE DEF n, l
      <4>5. n < l
        BY <4>4
      <4> QED
        BY <3>1, <4>1, <4>5 DEF Divisible, n, l
    <3>2. CASE The.aggregation # "AVG"
      BY <1>4, <2>6, <3>2 DEF Additive, Divisible
    <3> QED
      BY <3>1, <3>2
  <2>7. ASSUME Additive(d)', NEW k \in DOMAIN nodes, nodes[k].contribution # {}
        PROVE  Summed(LevelWeights(d)') = One
    <3>1. k \in DOMAIN groups /\ Contribution(groups[k], gross) # {}
      BY <2>4, <2>5, <2>7
    <3>2. Divisible(d)
      BY <2>6, <2>7
    <3>3. Summed(Weighted(SharesOf(groups, gross))) = One
      BY <1>1, <1>3, <3>1, <3>2, LevelShares DEF groups, gross
    <3>4. [i \in DOMAIN nodes |-> Share(nodes[i])] = SharesOf(groups, gross)
      BY <2>4, <2>5 DEF SharesOf, Share
    <3>5. LevelWeights(d)' = Weighted(SharesOf(groups, gross))
      <4>1. basis' = basis
        BY <1>1
      <4> QED
        BY <3>4, <4>1 DEF LevelWeights, Weighted, nodes
    <3> QED
      BY <3>3, <3>5
  <2> QED
    BY <2>7 DEF LevelShared, nodes
<1> QED
  BY <1>2, <1>4, <1>7 DEF Reckoned

LEMMA StepsReckon ==
    ASSUME RcaInv, Reckoned,
           Describe \/ DrillNode \/ Conclude \/ StatementFails \/ UNCHANGED rcaVars
    PROVE  Reckoned'
<1>1. UNCHANGED <<task, windows, totals, basis, level, truncated>>
  BY DEF Describe, DrillNode, Conclude, StatementFails, rcaVars, rcaResult
<1>2. rcaStage' \in {"breakdown", "nodes"} => rcaStage' = rcaStage
  BY DEF Describe, DrillNode, Conclude, StatementFails, rcaVars, rcaResult, Finish, Go
<1> QED
  BY <1>1, <1>2, ReckonedStays

LEMMA EarlyReckons ==
    ASSUME RcaInv, (\E a \in Analyses : StartAnalysis(a)) \/ Bounds PROVE Reckoned'
<1>1. rcaStage \in Early /\ level' = level /\ rcaStage' \in {"describe", "done", "totals"}
  BY DEF StartAnalysis, Bounds, Go, Finish, Early
<1>2. level' = <<>>
  BY <1>1 DEF RcaInv, Shaped
<1> QED
  BY <1>1, <1>2 DEF Reckoned

LEMMA RcaReckons == ASSUME RcaInv, Reckoned, [RcaNext]_rcaVars PROVE Reckoned'
<1>1. CASE (\E a \in Analyses : StartAnalysis(a)) \/ Bounds
  BY <1>1, EarlyReckons
<1>2. CASE Total
  BY <1>2, TotalReckons
<1>3. CASE BreakDown
  BY <1>3, BreakDownReckons
<1>4. CASE BuildLevel
  BY <1>4, BuildLevelReckons
<1>5. CASE Describe \/ DrillNode \/ Conclude \/ StatementFails \/ UNCHANGED rcaVars
  BY <1>5, StepsReckon
<1> QED
  BY <1>1, <1>2, <1>3, <1>4, <1>5 DEF RcaNext, RcaStep

LEMMA SharesAre == ASSUME Reckoned PROVE ContributionsSumToOne
<1> SUFFICES ASSUME rcaState = "ok", level # <<>>, NEW d \in UsableSet, Additive(d),
                    \E i \in DOMAIN level[d] : level[d][i].contribution # {}
             PROVE  One = SumOver(DOMAIN level[d], LAMBDA i :
                             IF basis = "gross_movement" THEN Abs(Share(level[d][i]))
                             ELSE Share(level[d][i]))
  BY DEF ContributionsSumToOne
<1>1. Summed(LevelWeights(d)) = One
  BY DEF Reckoned, LevelShared
<1>2. LevelWeights(d) = [i \in DOMAIN level[d] |->
                           IF basis = "gross_movement" THEN Abs(Share(level[d][i]))
                           ELSE Share(level[d][i])]
  BY DEF LevelWeights, Weighted, AbsOf
<1>3. SumOver(DOMAIN level[d], LAMBDA i :
          IF basis = "gross_movement" THEN Abs(Share(level[d][i])) ELSE Share(level[d][i]))
        = Summed([i \in DOMAIN level[d] |->
                    IF basis = "gross_movement" THEN Abs(Share(level[d][i]))
                    ELSE Share(level[d][i])])
  BY Zenon DEF SumOver
<1> QED
  BY <1>1, <1>2, <1>3

\* The contributions of a dimension add up to the whole change asked about, for every file,
\* filter, comparison and limit: to the net change, to the gross movement where the changes
\* cancel, to the change of an average through its effects.  The groups of build_breakdown_sql
\* and the residual of _residual_segment hold every row of both windows once.
THEOREM SharesAddUp == RcaSpec => []ContributionsSumToOne
<1>1. RcaInit => RcaInv /\ Reckoned
  <2>1. RcaInit => RcaInv
    BY InitKeeps
  <2>2. RcaInit => Reckoned
    BY DEF RcaInit, Reckoned
  <2> QED
    BY <2>1, <2>2
<1>2. RcaInv /\ Reckoned /\ [RcaNext]_rcaVars => RcaInv' /\ Reckoned'
  BY RcaKeeps, RcaReckons
<1>3. Reckoned => ContributionsSumToOne
  BY SharesAre
<1> QED
  BY <1>1, <1>2, <1>3, PTL DEF RcaSpec

-----------------------------------------------------------------------------
(***************************************************************************)
(* Shares are numbers, whatever is cut.                                    *)
(***************************************************************************)

\* A record that can be compared with the totals.
Numeric(g) ==
    /\ OrZero(g.current) \in Fraction /\ OrZero(g.previous) \in Fraction
    /\ g.currentCount \in Int /\ g.previousCount \in Int
TotalsNumeric ==
    /\ OrZero(totals.current) \in Fraction /\ OrZero(totals.previous) \in Fraction
    /\ totals.currentCount \in Nat /\ totals.previousCount \in Nat

LEMMA EffectNumber ==
    ASSUME TotalsNumeric, NEW g, Numeric(g) PROVE AverageEffect(g) \in Fraction
<1> DEFINE Weight(n, all) == IF all = 0 THEN Zero ELSE Frac(n, all)
           w0 == Weight(g.previousCount, totals.previousCount)
           w1 == Weight(g.currentCount, totals.currentCount)
           m0 == IF g.previousCount = 0 THEN OrZero(g.current) ELSE OrZero(g.previous)
           m1 == IF g.currentCount = 0 THEN OrZero(g.previous) ELSE OrZero(g.current)
<1>1. Center \in Fraction
  <2>1. OrZero(totals.current) \in Fraction /\ OrZero(totals.previous) \in Fraction
    BY DEF TotalsNumeric
  <2>2. Plus(OrZero(totals.previous), OrZero(totals.current)) \in Fraction
    BY <2>1, PlusMinusIn
  <2> QED
    BY <2>2, PlusMinusIn DEF Center
<1>2. ASSUME NEW n \in Int, NEW all \in Nat PROVE Weight(n, all) \in Fraction
  <2>1. CASE all = 0
    BY <2>1, WholeIs DEF Zero
  <2>2. CASE all # 0
    <3>1. all \in Int /\ all # 0 /\ all > 0
      BY <2>2
    <3>2. Reads(Frac(n, all), n, all)
      BY <3>1, ReadsFrac
    <3>3. Frac(n, all) \in Fraction
      BY <3>2, ReadsFraction
    <3> QED
      BY <2>2, <3>3
  <2> QED
    BY <2>1, <2>2
<1>3. w0 \in Fraction /\ w1 \in Fraction
  <2> HIDE DEF Weight
  <2> QED
    BY <1>2 DEF Numeric, TotalsNumeric
<1>4. m0 \in Fraction /\ m1 \in Fraction
  BY DEF Numeric
<1>5. AverageEffect(g) =
         Plus(Times(Halve(Plus(w0, w1)), Minus(m1, m0)),
              Times(Minus(Halve(Plus(m0, m1)), Center), Minus(w1, w0)))
  BY DEF AverageEffect, Center
<1> HIDE DEF w0, w1, m0, m1
<1>6. /\ Halve(Plus(w0, w1)) \in Fraction /\ Minus(m1, m0) \in Fraction
      /\ Halve(Plus(m0, m1)) \in Fraction /\ Minus(w1, w0) \in Fraction
  <2>1. Plus(w0, w1) \in Fraction /\ Plus(m0, m1) \in Fraction
    BY <1>3, <1>4, PlusMinusIn
  <2> QED
    BY <1>3, <1>4, <2>1, PlusMinusIn
<1> DEFINE h == Halve(Plus(w0, w1))
           c == Minus(m1, m0)
           k == Halve(Plus(m0, m1))
           l == Minus(w1, w0)
           z == Center
<1>7. h \in Fraction /\ c \in Fraction /\ k \in Fraction /\ l \in Fraction /\ z \in Fraction
  BY <1>1, <1>6
<1>8. AverageEffect(g) = Plus(Times(h, c), Times(Minus(k, z), l))
  BY <1>5
<1> HIDE DEF h, c, k, l, z
<1>9. Times(h, c) \in Fraction /\ Minus(k, z) \in Fraction
  BY <1>7, PlusMinusIn
<1>10. Times(Minus(k, z), l) \in Fraction
  BY <1>7, <1>9, PlusMinusIn
<1> QED
  BY <1>8, <1>9, <1>10, PlusMinusIn

LEMMA ShareNumber ==
    ASSUME TotalsNumeric, NEW g, Numeric(g), NEW gross \in Fraction
    PROVE  ChangeOf(g) \in Fraction /\ OrZero(Contribution(g, gross)) \in Fraction
<1>1. ChangeOf(g) \in Fraction
  BY PlusMinusIn DEF Numeric, ChangeOf
<1>2. GlobalChange \in Fraction
  BY PlusMinusIn DEF TotalsNumeric, GlobalChange, ChangeOf
<1>3. AverageEffect(g) \in Fraction
  BY EffectNumber
<1> DEFINE e == IF basis = "mix_rate" THEN AverageEffect(g) ELSE ChangeOf(g)
           z == IF basis = "gross_movement" THEN gross ELSE GlobalChange
<1>4. e \in Fraction /\ z \in Fraction
  BY <1>1, <1>2, <1>3
<1>5. Contribution(g, gross) = IF basis = "unattributable" \/ z = Zero THEN {} ELSE {Over(e, z)}
  BY DEF Contribution
<1> HIDE DEF e, z
<1>6. z # Zero => Over(e, z) \in Fraction
  BY <1>4, OverPlus
<1>7. Zero \in Fraction
  BY WholeIs DEF Zero
<1> QED
  BY <1>1, <1>5, <1>6, <1>7 DEF OrZero

LEMMA HeldNumeric ==
    ASSUME Given, The.aggregation \in Summable, NEW S \in SUBSET (DOMAIN The.rows), NEW g, Holds(g, S)
    PROVE  Numeric(g) /\ g.currentCount \in Nat /\ g.previousCount \in Nat
<1>1. OrZero(g.current) \in Fraction /\ OrZero(g.previous) \in Fraction
  BY HeldIs DEF Holds
<1>2. \A w : Measured(Within(S, w)) \in SUBSET Measured(S)
  BY DEF Within, Measured
<1>3. \A w : Cardinality(Measured(Within(S, w))) \in Nat
  BY <1>2, TotalIs
<1> QED
  BY <1>1, <1>3 DEF Numeric, Holds

LEMMA TotalsAre ==
    ASSUME Given, The.aggregation \in Summable, totals = Totalled(Base) PROVE TotalsNumeric
<1>1. Base \in SUBSET (DOMAIN The.rows)
  BY DEF Base
<1>2. Holds(totals, Base)
  BY TotalledIs DEF Holds
<1> QED
  BY <1>1, <1>2, HeldNumeric DEF TotalsNumeric, Numeric

LEMMA ListedNumeric ==
    ASSUME Given, The.aggregation \in Summable, NEW d, NEW S \in SUBSET (DOMAIN The.rows),
           NEW groups, ListsGroups(groups, d, S), NEW i \in DOMAIN groups
    PROVE  /\ Holds(groups[i], Part(d, groups[i].segment, S)) /\ Numeric(groups[i])
           /\ groups[i].currentCount \in Nat /\ groups[i].previousCount \in Nat
<1>1. groups[i] = Group(d, groups[i].segment, S)
  BY DEF ListsGroups
<1>2. Holds(groups[i], Part(d, groups[i].segment, S))
  BY <1>1, GroupIs DEF Holds
<1>3. Part(d, groups[i].segment, S) \in SUBSET (DOMAIN The.rows)
  BY DEF Part
<1> QED
  BY <1>2, <1>3, HeldNumeric

LEMMA ResidualNumeric ==
    ASSUME Given, The.aggregation \in Summable, totals = Totalled(Base), NEW d,
           NEW kept, ListsGroups(kept, d, Base), NEW r \in ResidualSegment(d, kept)
    PROVE  Numeric(r)
<1> DEFINE Left(of) == Minus(OrZero(totals[of]), SumOver(DOMAIN kept, LAMBDA i : OrZero(kept[i][of])))
           Rest == [of \in {"currentCount", "previousCount", "currentRows", "previousRows"} |->
                       totals[of] - SumOver(DOMAIN kept, LAMBDA i : Whole(kept[i][of])).num]
           t == [of \in DOMAIN totals |->
                    IF of \notin DOMAIN Rest THEN {Left(of)}
                    ELSE IF Rest[of] < 0 THEN 0 ELSE Rest[of]]
           x == Labelled(d, OtherBucket, t)
<1>1. ResidualSegment(d, kept) =
         IF Rest["currentRows"] <= 0 /\ Rest["previousRows"] <= 0 THEN {} ELSE {x}
  BY DEF ResidualSegment
<1>2. r = x
  BY <1>1
<1>3. /\ x.current = t["current"] /\ x.previous = t["previous"]
      /\ x.currentCount = t["currentCount"] /\ x.previousCount = t["previousCount"]
  BY DEF Labelled
<1>4. DOMAIN totals = {"current", "previous", "currentCount", "previousCount",
                       "currentRows", "previousRows"}
  BY TotalledIs
<1>5. t["current"] = {Left("current")} /\ t["previous"] = {Left("previous")}
  BY <1>4
<1>6. /\ t["currentCount"] = IF Rest["currentCount"] < 0 THEN 0 ELSE Rest["currentCount"]
      /\ t["previousCount"] = IF Rest["previousCount"] < 0 THEN 0 ELSE Rest["previousCount"]
  BY <1>4
<1>7. \A of : SumOver(DOMAIN kept, LAMBDA i : OrZero(kept[i][of])) = Summed(ColumnOf(kept, of))
  BY Zenon DEF SumOver, ColumnOf
<1>8. \A of : SumOver(DOMAIN kept, LAMBDA i : Whole(kept[i][of])) = Summed([i \in DOMAIN kept |-> Whole(kept[i][of])])
  BY Zenon DEF SumOver
<1>9. Base \in SUBSET (DOMAIN The.rows)
  BY DEF Base
<1>10. Left("current") \in Fraction /\ Left("previous") \in Fraction
  <2>1. TotalsNumeric
    BY TotalsAre
  <2>2. Numbers(ColumnOf(kept, "current")) /\ Numbers(ColumnOf(kept, "previous"))
    BY <1>9, KeptAre
  <2>3. Summed(ColumnOf(kept, "current")) \in Fraction /\ Summed(ColumnOf(kept, "previous")) \in Fraction
    BY <2>2, SumInFraction DEF Numbers
  <2>4. Left("current") = Minus(OrZero(totals.current), Summed(ColumnOf(kept, "current")))
    BY <1>7
  <2>5. Left("previous") = Minus(OrZero(totals.previous), Summed(ColumnOf(kept, "previous")))
    BY <1>7
  <2>6. OrZero(totals.current) \in Fraction /\ OrZero(totals.previous) \in Fraction
    BY <2>1 DEF TotalsNumeric
  <2> DEFINE a == OrZero(totals.current)
             b == OrZero(totals.previous)
             u == Summed(ColumnOf(kept, "current"))
             v == Summed(ColumnOf(kept, "previous"))
             l == Left("current")
             m == Left("previous")
  <2>7. a \in Fraction /\ b \in Fraction /\ u \in Fraction /\ v \in Fraction
    BY <2>3, <2>6
  <2>8. l = Minus(a, u) /\ m = Minus(b, v)
    BY <2>4, <2>5
  <2> HIDE DEF a, b, u, v, l, m
  <2>9. l \in Fraction /\ m \in Fraction
    BY <2>7, <2>8, PlusMinusIn
  <2> QED
    BY <2>9 DEF l, m
<1>11. Rest["currentCount"] \in Int /\ Rest["previousCount"] \in Int
  <2> DEFINE a == [i \in DOMAIN kept |-> Whole(kept[i].currentCount)]
             b == [i \in DOMAIN kept |-> Whole(kept[i].previousCount)]
  <2>1. ASSUME NEW i \in DOMAIN kept PROVE a[i] \in Fraction /\ b[i] \in Fraction
    <3>1. kept[i].currentCount \in Nat /\ kept[i].previousCount \in Nat
      BY <1>9, ListedNumeric
    <3>2. kept[i].currentCount \in Int /\ kept[i].previousCount \in Int
      BY <3>1
    <3> QED
      BY <3>2, WholeIs
  <2>2. DOMAIN a = DOMAIN kept /\ DOMAIN b = DOMAIN kept /\ IsFiniteSet(DOMAIN kept)
    BY DEF ListsGroups
  <2>3. /\ Rest["currentCount"] = totals.currentCount - Summed(a).num
        /\ Rest["previousCount"] = totals.previousCount - Summed(b).num
    BY <1>8
  <2> HIDE DEF a, b, Rest
  <2>4. Summed(a) \in Fraction /\ Summed(b) \in Fraction
    BY <2>1, <2>2, SumInFraction
  <2>5. Summed(a).num \in Int /\ Summed(b).num \in Int
    BY <2>4, ReadsItself, ReadsIs
  <2>6. totals.currentCount \in Nat /\ totals.previousCount \in Nat
    BY TotalsAre DEF TotalsNumeric
  <2> QED
    BY <2>3, <2>5, <2>6
<1> HIDE DEF Left, Rest, t, x
<1> QED
  BY <1>2, <1>3, <1>5, <1>6, <1>10, <1>11 DEF Numeric, OrZero

LEMMA LevelNumeric ==
    ASSUME Given, The.aggregation \in Summable, totals = Totalled(Base), NEW d,
           NEW groups, groups = WithResidual(d, Breakdown(d, Base))
    PROVE  /\ \A i \in DOMAIN groups : Numeric(groups[i])
           /\ IsFiniteSet(DOMAIN groups) /\ Numbers(ChangesOf(groups))
           /\ GrossMovement(groups) \in Fraction
           /\ \A i \in DOMAIN groups :
                OrZero(Contribution(groups[i], GrossMovement(groups))) \in Fraction
<1> DEFINE kept == Breakdown(d, Base)
           R == ResidualSegment(d, kept)
           gross == GrossMovement(groups)
<1>1. Base \in SUBSET (DOMAIN The.rows)
  BY DEF Base
<1>2. ListsGroups(kept, d, Base)
  BY <1>1, BreakdownLists
<1>3. kept \in Seq(ToSet(kept)) /\ \A i \in DOMAIN kept : Numeric(kept[i])
  BY <1>1, <1>2, BreakdownSeq, ListedNumeric
<1>4. \A r \in R : Numeric(r)
  BY <1>2, ResidualNumeric
<1>5. IsFiniteSet(R)
  <2>1. DOMAIN totals = {"current", "previous", "currentCount", "previousCount",
                         "currentRows", "previousRows"}
    BY TotalledIs
  <2> HIDE DEF kept
  <2>2. R = {} \/ \E r : R = {r}
    <3>1. ResidualSegment(d, kept) = {} \/ \E r : ResidualSegment(d, kept) = {r}
      BY ONLY <2>1, ResidualHolds
    <3> QED
      BY <3>1
  <2> HIDE DEF R
  <2> QED
    BY <2>2, FS_EmptySet, FS_Singleton
<1>6. groups = IF Len(kept) < The.limit THEN kept \o <<>> ELSE kept \o SetToSeq(R)
  BY DEF WithResidual
<1> HIDE DEF kept, R
<1> DEFINE N == {g \in ToSet(groups) : Numeric(g)}
<1>7. groups \in Seq(ToSet(kept) \cup R) /\ ToSet(kept) \cup R \subseteq {g \in ToSet(kept) \cup R : Numeric(g)}
  <2>1. SetToSeq(R) \in Seq(R)
    BY <1>5, SetToSeqIs DEF Lists
  <2> DEFINE U == ToSet(kept) \cup R
             more == SetToSeq(R)
  <2>2. kept \in Seq(U) /\ more \in Seq(U) /\ <<>> \in Seq(U)
    <3>1. \A i \in DOMAIN kept : kept[i] \in U
      BY DEF ToSet
    <3>2. \A i \in DOMAIN more : more[i] \in U
      BY <2>1
    <3> HIDE DEF U, more
    <3> QED
      BY <1>3, <2>1, <3>1, <3>2 DEF more
  <2>3. groups = kept \o <<>> \/ groups = kept \o more
    BY <1>6
  <2> HIDE DEF U, more
  <2>4. groups \in Seq(U)
    <3>1. \A s, t \in Seq(U) : s \o t \in Seq(U)
      OBVIOUS
    <3> QED
      BY <2>2, <2>3, <3>1, Zenon
  <2>5. \A g \in ToSet(kept) \cup R : Numeric(g)
    BY <1>3, <1>4 DEF ToSet
  <2> QED
    BY <2>4, <2>5 DEF U
<1>8. \A i \in DOMAIN groups : Numeric(groups[i])
  BY <1>7
<1>9. IsFiniteSet(DOMAIN groups)
  BY <1>7, SequenceFinite
<1>10. TotalsNumeric
  BY TotalsAre
<1>11. ASSUME NEW g, Numeric(g) PROVE ChangeOf(g) \in Fraction
  BY <1>11, PlusMinusIn DEF Numeric, ChangeOf
<1>12. Numbers(ChangesOf(groups))
  BY <1>8, <1>9, <1>11 DEF Numbers, ChangesOf
<1>13. gross \in Fraction
  BY <1>12, AbsSum, GrossIs
<1> HIDE DEF gross
<1>14. ASSUME NEW i \in DOMAIN groups PROVE OrZero(Contribution(groups[i], gross)) \in Fraction
  BY <1>8, <1>10, <1>13, ShareNumber
<1> QED
  BY <1>8, <1>9, <1>12, <1>13, <1>14 DEF gross

LEMMA LevelSharesAre ==
    ASSUME Given, The.aggregation \in Summable, totals = Totalled(Base), NEW d \in Dimension
    PROVE  \A n \in ToSet(NewNodes(d)) : Share(n) \in Fraction
<1> DEFINE groups == WithResidual(d, Breakdown(d, Base))
           gross == GrossMovement(groups)
<1>1. /\ DOMAIN NewNodes(d) = DOMAIN groups
      /\ \A i \in DOMAIN groups : NewNodes(d)[i].contribution = Contribution(groups[i], gross)
  BY NewNodesAre
<1>2. \A i \in DOMAIN groups : OrZero(Contribution(groups[i], gross)) \in Fraction
  BY LevelNumeric
<1> HIDE DEF groups, gross
<1> QED
  BY <1>1, <1>2 DEF ToSet, Share

-----------------------------------------------------------------------------
(***************************************************************************)
(* The drivers reach the target.                                           *)
(***************************************************************************)

LEMMA OnceCounts ==
    ASSUME NEW T, NEW s \in Seq(T), Once(s)
    PROVE  IsFiniteSet(ToSet(s)) /\ Cardinality(ToSet(s)) = Len(s)
<1> DEFINE n == Len(s)
           S == ToSet(s)
<1>1. n \in Nat /\ DOMAIN s = 1..n
  OBVIOUS
<1>2. s \in [1..n -> S]
  BY <1>1 DEF ToSet
<1>3. s \in Surjection(1..n, S)
  BY <1>1, <1>2 DEF Surjection, ToSet
<1>4. s \in Injection(1..n, S)
  BY <1>1, <1>2 DEF Injection, IsInjective, Once
<1>5. IsFiniteSet(1..n) /\ Cardinality(1..n) = n
  <2> HIDE DEF n
  <2> QED
    BY <1>1, IntervalFinite
<1> HIDE DEF n, S
<1>6. IsFiniteSet(S) /\ Cardinality(S) = Cardinality(1..n)
  BY <1>3, <1>4, <1>5, FS_Surjection
<1> QED
  BY <1>5, <1>6 DEF n, S

SharesIn(S) == [n \in S |-> Share(n)]

LEMMA ParetoReaches ==
    ASSUME Given, NEW S, \A n \in S : Share(n) \in Fraction, NEW seq, Lists(seq, S)
    PROVE  \/ AtMost(ParetoTarget, Summed(SharesIn(ToSet(Pareto(seq)))))
           \/ Cardinality(ToSet(Pareto(seq))) = The.maxDrivers
           \/ ToSet(Pareto(seq)) = S
<1> DEFINE Sum(k) == SumOver(1..k, LAMBDA i : Share(seq[i]))
           reach == {k \in DOMAIN seq : AtMost(ParetoTarget, Sum(k))}
           first == IF reach = {} THEN Len(seq) ELSE CHOOSE k \in reach : \A j \in reach : k <= j
           cap == The.maxDrivers
           some == Pareto(seq)
<1>1. cap \in Nat
  BY GivenFields
<1>2. seq \in Seq(S) /\ ToSet(seq) = S /\ Once(seq) /\ Len(seq) \in Nat /\ DOMAIN seq = 1..Len(seq)
  BY DEF Lists, Once
<1>3. some = Firsts(seq, IF first < cap THEN first ELSE cap)
  BY DEF Pareto
<1>4. first \in Nat /\ first <= Len(seq) /\ (reach # {} => first \in reach)
  <2>1. reach \subseteq DOMAIN seq
    OBVIOUS
  <2> HIDE DEF reach
  <2>2. reach \subseteq Nat /\ \A k \in reach : k <= Len(seq)
    BY <1>2, <2>1
  <2>3. reach # {} => \E k \in reach : \A j \in reach : k <= j
    BY <2>2, LeastOf
  <2>4. CASE reach = {}
    BY <1>2, <2>4
  <2>5. CASE reach # {}
    <3>1. first \in reach
      BY <2>3, <2>5
    <3> QED
      BY <2>2, <3>1
  <2> QED
    BY <2>4, <2>5
<1>5. reach # {} => AtMost(ParetoTarget, Sum(first))
  BY <1>4
<1>6. reach = {} => first = Len(seq)
  OBVIOUS
<1>7. \A k : Sum(k) = Summed([i \in 1..k |-> Share(seq[i])])
  BY Zenon DEF SumOver
<1> HIDE DEF Sum, reach, first, cap, some
<1>8. ASSUME NEW n \in Nat, n <= Len(seq), some = Firsts(seq, n)
      PROVE  /\ some \in Seq(S) /\ Once(some) /\ Len(some) = n /\ DOMAIN some = 1..n
             /\ \A i \in 1..n : some[i] = seq[i]
  <2>1. /\ some \in Seq(S) /\ DOMAIN some \subseteq DOMAIN seq
        /\ \A i \in DOMAIN some : some[i] = seq[i]
    BY <1>2, <1>8, FirstsIs
  <2>2. Len(some) = n
    <3>1. CASE Len(seq) > n
      <4>1. some = SubSeq(seq, 1, n)
        BY <1>8, <3>1 DEF Firsts
      <4> QED
        BY <1>2, <3>1, <4>1
    <3>2. CASE ~(Len(seq) > n)
      <4>1. some = seq
        BY <1>8, <3>2 DEF Firsts
      <4>2. Len(seq) = n
        <5> DEFINE l == Len(seq)
        <5>1. l \in Nat /\ n <= l /\ ~(l > n)
          BY <1>2, <1>8, <3>2
        <5> HIDE DEF l
        <5>2. l = n
          BY <5>1
        <5> QED
          BY <5>2 DEF l
      <4> QED
        BY <4>1, <4>2
    <3> QED
      BY <3>1, <3>2
  <2>3. DOMAIN some = 1..n
    BY <2>1, <2>2
  <2> QED
    BY <1>2, <2>1, <2>2, <2>3 DEF Once
<1>9. CASE ~(first < cap)
  <2>1. cap <= Len(seq) /\ some = Firsts(seq, cap)
    BY <1>1, <1>2, <1>3, <1>4, <1>9
  <2>2. some \in Seq(S) /\ Once(some) /\ Len(some) = cap
    BY <1>1, <1>8, <2>1
  <2>3. Cardinality(ToSet(some)) = cap
    BY <2>2, OnceCounts
  <2> QED
    BY <2>3 DEF some, cap
<1>10. CASE first < cap /\ reach = {}
  <2>1. some = Firsts(seq, Len(seq))
    BY <1>3, <1>6, <1>10
  <2>2. some = seq
    BY <1>2, <2>1 DEF Firsts
  <2> QED
    BY <1>2, <2>2 DEF some
<1>11. CASE first < cap /\ reach # {}
  <2> DEFINE of == SharesIn(ToSet(some))
             as == [i \in 1..first |-> Share(seq[i])]
  <2>1. some = Firsts(seq, first)
    BY <1>3, <1>11
  <2>2. /\ some \in Seq(S) /\ Once(some) /\ DOMAIN some = 1..first
        /\ \A i \in 1..first : some[i] = seq[i]
    BY <1>4, <1>8, <2>1
  <2>3. IsFiniteSet(ToSet(some)) /\ ToSet(some) \subseteq S
    <3>1. IsFiniteSet(ToSet(some))
      BY <2>2, OnceCounts
    <3>2. \A i \in DOMAIN some : some[i] \in S
      <4>1. some \in Seq(S)
        BY <2>2
      <4> QED
        BY ONLY <4>1
    <3> QED
      BY <3>1, <3>2 DEF ToSet
  <2>4. DOMAIN of = ToSet(some) /\ \A n \in ToSet(some) : of[n] = Share(n) /\ of[n] \in Fraction
    BY <2>3 DEF SharesIn
  <2>5. DOMAIN as = 1..first /\ \A j \in 1..first : as[j] = Share(seq[j])
    OBVIOUS
  <2> HIDE DEF of, as
  <2>6. \A j \in DOMAIN as : some[j] \in DOMAIN of /\ as[j] = of[some[j]]
    BY <2>2, <2>4, <2>5 DEF ToSet
  <2>7. \A j, k \in DOMAIN as : some[j] = some[k] => j = k
    BY <2>2, <2>5 DEF Once
  <2>8. \A x \in DOMAIN of : \E j \in DOMAIN as : some[j] = x
    BY <2>2, <2>4, <2>5 DEF ToSet
  <2>9. Summed(as) = Summed(of)
    <3>1. IsFiniteSet(DOMAIN of) /\ \A x \in DOMAIN of : of[x] \in Fraction
      BY <2>3, <2>4
    <3>2. DOMAIN some = DOMAIN as
      BY <2>2, <2>5
    <3> QED
      BY ONLY <2>6, <2>7, <2>8, <3>1, <3>2, SameSum
  <2>10. Sum(first) = Summed(as)
    BY <1>7 DEF as
  <2>11. AtMost(ParetoTarget, Summed(of))
    BY <1>5, <1>11, <2>9, <2>10
  <2> QED
    BY <2>11 DEF of, some
<1> QED
  BY <1>9, <1>10, <1>11

\* What a node carries, whatever becomes of it.
SameNode(t, n) ==
    /\ t.path = n.path /\ t.change = n.change /\ t.contribution = n.contribution
    /\ t.other = n.other /\ t.thin = n.thin /\ t.child = n.child

LEMMA ExpandedFrom ==
    ASSUME NEW order \in Seq(Dimension), NEW candidates, NEW change, NEW depth,
           NEW found, found = Expansions(Choose(candidates, order, change), candidates, depth)
    PROVE  \/ found = {}
           \/ \E c : /\ c \in Choose(candidates, order, change) /\ c.dimension \in ToSet(order)
                     /\ found = {ExpandedBy(c, ChosenNodes(c, candidates), depth)}
                     /\ TheOne(found) = ExpandedBy(c, ChosenNodes(c, candidates), depth)
<1> DEFINE choices == Choose(candidates, order, change)
<1>1. /\ \A c \in choices : c.dimension \in ToSet(order)
      /\ \A b, c \in choices : b = c
  BY ChooseIs
<1>2. found = {ExpandedBy(c, ChosenNodes(c, candidates), depth) : c \in choices}
  BY DEF Expansions
<1> HIDE DEF choices
<1>3. CASE choices = {}
  BY <1>2, <1>3
<1>4. CASE choices # {}
  <2>1. PICK c \in choices : TRUE
    BY <1>4
  <2>2. choices = {c}
    BY <1>1, <2>1
  <2> DEFINE e == ExpandedBy(c, ChosenNodes(c, candidates), depth)
  <2>3. found = {e}
    BY <1>2, <2>2
  <2> HIDE DEF e
  <2>4. TheOne(found) = e
    BY <2>3 DEF TheOne
  <2> QED
    BY <1>1, <2>1, <2>3, <2>4 DEF e, choices
<1> QED
  BY <1>3, <1>4

LEMMA SettledAs ==
    ASSUME NEW N, \A n \in N : n \in Fields(n), NEW choice, NEW depth,
           NEW e, e = ExpandedBy(choice, N, depth)
    PROVE  /\ e.classes = Classified(N) /\ e.dimension = choice.dimension /\ e.split = choice.split
           /\ \A t \in e.nodes : \E n \in N : SameNode(t, n)
           /\ \A n \in N : \E t \in e.nodes : SameNode(t, n)
<1> DEFINE c == Classified(N)
           best == Foremost(c.primary, depth)
           settled == [n \in N |-> [Placed(n, N, c) EXCEPT
               !.stop = IF n \in ToSet(c.primary) \ ToSet(best) THEN "branching_limit" ELSE "no"]]
<1>1. /\ e.classes = c /\ e.nodes = Settled(N, c, best)
      /\ e.dimension = choice.dimension /\ e.split = choice.split
  BY DEF ExpandedBy, Branched, Expansion
<1>2. e.nodes = {settled[n] : n \in DOMAIN settled} /\ DOMAIN settled = N
  BY <1>1 DEF Settled
<1>3. ASSUME NEW n \in N PROVE SameNode(settled[n], n)
  <2> DEFINE k == ClassIn(n, c)
             r == n \in Scored(N)
             s == IF n \in ToSet(c.primary) \ ToSet(best) THEN "branching_limit" ELSE "no"
             p == [n EXCEPT !.class = k, !.ranked = r]
             q == [p EXCEPT !.stop = s]
  <2>1. settled[n] = q
    BY DEF Placed
  <2>2. n \in Fields(n)
    OBVIOUS
  <2> HIDE DEF k, r, s, settled, c, best
  <2>3. SameNode(q, n)
    BY <2>2 DEF SameNode, Fields
  <2> QED
    BY <2>1, <2>3
<1> HIDE DEF settled
<1> QED
  BY <1>1, <1>2, <1>3

AllNodes == [d \in UsableSet |-> NewNodes(d)]
NewTrees ==
    Expansions(IF basis = "unattributable" THEN {} ELSE Choose(AllNodes, Usable, GlobalChange),
               AllNodes, 1)

LEMMA TreeBuilt ==
    ASSUME BuildLevel
    PROVE  /\ tree' = UNION {e.nodes : e \in NewTrees}
           /\ drivers' = IF NewTrees = {} THEN NoDrivers ELSE TheOne(NewTrees).classes
           /\ level' = [d \in UsableSet |-> [i \in DOMAIN NewNodes(d) |->
                          InLevel(NewNodes(d)[i], d, NewTrees)]]
<1> DEFINE groups == [d \in UsableSet |-> Breakdown(d, Base)]
<1>1. \E g \in {groups} :
          /\ truncated' = {d \in UsableSet : Len(g[d]) >= The.limit}
          /\ \E ns \in {[d \in UsableSet |-> LevelNodes(WithResidual(d, g[d]))]} :
             \E f \in {Expansions(IF basis = "unattributable" THEN {}
                                 ELSE Choose(ns, Usable, GlobalChange), ns, 1)} :
                /\ level' = [d \in UsableSet |-> [i \in DOMAIN ns[d] |-> InLevel(ns[d][i], d, f)]]
                /\ tree' = UNION {e.nodes : e \in f}
                /\ queue' = IF f = {} THEN <<>> ELSE TheOne(f).frontier
                /\ drivers' = IF f = {} THEN NoDrivers ELSE TheOne(f).classes
  BY DEF BuildLevel
<1> HIDE DEF groups
<1>2. PICK g \in {groups} :
          \E ns \in {[d \in UsableSet |-> LevelNodes(WithResidual(d, g[d]))]} :
             \E f \in {Expansions(IF basis = "unattributable" THEN {}
                                 ELSE Choose(ns, Usable, GlobalChange), ns, 1)} :
                /\ level' = [d \in UsableSet |-> [i \in DOMAIN ns[d] |-> InLevel(ns[d][i], d, f)]]
                /\ tree' = UNION {e.nodes : e \in f}
                /\ queue' = IF f = {} THEN <<>> ELSE TheOne(f).frontier
                /\ drivers' = IF f = {} THEN NoDrivers ELSE TheOne(f).classes
  BY <1>1, Zenon
<1>3. PICK ns \in {[d \in UsableSet |-> LevelNodes(WithResidual(d, g[d]))]} :
             \E f \in {Expansions(IF basis = "unattributable" THEN {}
                                 ELSE Choose(ns, Usable, GlobalChange), ns, 1)} :
                /\ level' = [d \in UsableSet |-> [i \in DOMAIN ns[d] |-> InLevel(ns[d][i], d, f)]]
                /\ tree' = UNION {e.nodes : e \in f}
                /\ queue' = IF f = {} THEN <<>> ELSE TheOne(f).frontier
                /\ drivers' = IF f = {} THEN NoDrivers ELSE TheOne(f).classes
  BY <1>2, Zenon
<1>4. ns = AllNodes
  <2>1. \A d \in UsableSet : g[d] = Breakdown(d, Base)
    BY <1>2 DEF groups
  <2>2. ns = [d \in UsableSet |-> LevelNodes(WithResidual(d, g[d]))]
    BY <1>3
  <2>3. ASSUME NEW d \in UsableSet PROVE ns[d] = NewNodes(d)
    <3>1. ns[d] = LevelNodes(WithResidual(d, g[d]))
      BY <2>2
    <3> QED
      BY <2>1, <3>1 DEF NewNodes
  <2> QED
    BY <2>2, <2>3 DEF AllNodes
<1>5. PICK f \in {Expansions(IF basis = "unattributable" THEN {}
                            ELSE Choose(ns, Usable, GlobalChange), ns, 1)} :
                /\ level' = [d \in UsableSet |-> [i \in DOMAIN ns[d] |-> InLevel(ns[d][i], d, f)]]
                /\ tree' = UNION {e.nodes : e \in f}
                /\ queue' = IF f = {} THEN <<>> ELSE TheOne(f).frontier
                /\ drivers' = IF f = {} THEN NoDrivers ELSE TheOne(f).classes
  BY <1>3, Zenon
<1>6. f = NewTrees
  BY <1>4, <1>5 DEF NewTrees
<1>7. level' = [d \in UsableSet |-> [i \in DOMAIN NewNodes(d) |->
                   InLevel(NewNodes(d)[i], d, NewTrees)]]
  <2>1. \A d \in UsableSet : ns[d] = NewNodes(d)
    BY <1>4 DEF AllNodes
  <2> QED
    BY <1>5, <1>6, <2>1
<1> QED
  BY <1>5, <1>6, <1>7

Named == ToSet(drivers.primary)
StillLeft ==
    {n \in tree : /\ Len(n.path) = 1 /\ ~n.other /\ AtMost(MinMaterial, Share(n))
                  /\ n.path \notin {m.path : m \in Named}}
TargetMet ==
    tree # {} =>
        \/ AtMost(ParetoTarget, Summed(SharesIn(Named)))
        \/ Cardinality(Named) = The.maxDrivers
        \/ StillLeft = {}
        \/ Named # {} /\ \A n \in StillLeft : n.thin

LEMMA MaterialScored ==
    ASSUME NEW N, NEW n \in N, ~n.other, AtMost(MinMaterial, Share(n)) PROVE n \in Scored(N)
<1>1. Reads(MinMaterial, 5, 100)
  BY ReadsFrac DEF MinMaterial
<1>2. /\ MinMaterial.num \in Int /\ MinMaterial.den \in Nat \ {0}
      /\ 5 * MinMaterial.den = MinMaterial.num * 100
  BY <1>1, ReadsIs
<1>3. ~AtMost(MinMaterial, Zero)
  <2> DEFINE a == MinMaterial.num
             b == MinMaterial.den
  <2>1. a \in Int /\ b \in Nat \ {0} /\ 5 * b = a * 100
    BY <1>2
  <2> HIDE DEF a, b
  <2>2. ~(a * 1 <= 0 * b)
    BY <2>1
  <2> QED
    BY <2>2 DEF AtMost, Zero, Whole, a, b
<1>4. n.contribution # {}
  BY <1>3 DEF Share, OrZero
<1> QED
  BY <1>4 DEF Scored

\* What classify leaves of the nodes of a level.
LEMMA NamedReach ==
    ASSUME Given, NEW N, IsFiniteSet(N), \A n \in N : Share(n) \in Fraction,
           NEW named, named = ToSet(Classified(N).primary)
    PROVE  \/ AtMost(ParetoTarget, Summed(SharesIn(named)))
           \/ Cardinality(named) = The.maxDrivers
           \/ \A n \in Scored(N) : AtMost(MinMaterial, Share(n)) => n \in named
           \/ /\ named # {}
              /\ \A n \in Scored(N) : AtMost(MinMaterial, Share(n)) => n \in named \/ n.thin
<1> DEFINE material == {n \in Scored(N) : AtMost(MinMaterial, Share(n))}
           S == Supported(material)
           seq == Ranked(S)
<1>1. named = ToSet(Pareto(seq))
  BY DEF Classified, Classes
<1>2. S = IF \A n \in material : n.thin THEN material ELSE {n \in material : ~n.thin}
  BY DEF Supported
<1>3. material \subseteq N
  BY DEF Scored
<1>4. \A n \in Scored(N) : AtMost(MinMaterial, Share(n)) => n \in material
  OBVIOUS
<1> HIDE DEF material, S
<1>5. S \subseteq N
  BY <1>2, <1>3
<1>6. IsFiniteSet(S) /\ \A n \in S : Share(n) \in Fraction
  BY <1>5, FS_Subset
<1>7. Lists(seq, S)
  BY <1>6, RankedIs
<1> HIDE DEF seq
<1>8. \/ AtMost(ParetoTarget, Summed(SharesIn(ToSet(Pareto(seq)))))
      \/ Cardinality(ToSet(Pareto(seq))) = The.maxDrivers
      \/ ToSet(Pareto(seq)) = S
  BY <1>6, <1>7, ParetoReaches
<1>9. ASSUME named = S
      PROVE  \/ \A n \in material : n \in named
             \/ named # {} /\ \A n \in material : n \in named \/ n.thin
  BY <1>2, <1>9
<1> QED
  BY <1>1, <1>4, <1>8, <1>9

LEMMA BuildLevelReaches ==
    ASSUME RcaInv, Reckoned, BuildLevel PROVE TargetMet'
<1>1. UNCHANGED <<task, windows, totals, basis>> /\ rcaStage = "nodes"
      /\ totals = Totalled(Base) /\ Based
  BY DEF BuildLevel, Reckoned
<1>2. Given
  <2>1. PICK a \in Analyses : task = {a}
    BY <1>1 DEF RcaInv, Shaped
  <2> QED
    BY <2>1, GivenIs
<1>3. The' = The /\ Usable \in Seq(Dimension) /\ UsableSet = ToSet(Usable)
      /\ UsableSet \subseteq Dimension
  BY <1>1, <1>2, Stays, UsableIs DEF UsableSet, ToSet
<1>4. /\ tree' = UNION {e.nodes : e \in NewTrees}
      /\ drivers' = IF NewTrees = {} THEN NoDrivers ELSE TheOne(NewTrees).classes
  BY TreeBuilt
<1> SUFFICES ASSUME tree' # {} PROVE TargetMet'
  BY DEF TargetMet
<1>5. basis # "unattributable"
  <2>1. ASSUME basis = "unattributable" PROVE FALSE
    <3>1. NewTrees = {}
      BY <2>1 DEF NewTrees, Expansions
    <3> QED
      BY <1>4, <3>1
  <2> QED
    BY <2>1
<1>6. The.aggregation \in Summable
  BY <1>1, <1>5 DEF Based
<1>7. NewTrees = Expansions(Choose(AllNodes, Usable, GlobalChange), AllNodes, 1)
  BY <1>5 DEF NewTrees
<1>8. NewTrees # {}
  BY <1>4
<1>9. PICK c : /\ c.dimension \in ToSet(Usable)
               /\ NewTrees = {ExpandedBy(c, ChosenNodes(c, AllNodes), 1)}
               /\ TheOne(NewTrees) = ExpandedBy(c, ChosenNodes(c, AllNodes), 1)
  BY <1>3, <1>7, <1>8, ExpandedFrom
<1> DEFINE d == c.dimension
           N == ChosenNodes(c, AllNodes)
           e == ExpandedBy(c, N, 1)
<1>10. d \in UsableSet /\ d \in Dimension /\ AllNodes[d] = NewNodes(d)
  BY <1>3, <1>9 DEF AllNodes
<1>11. N \in SUBSET ToSet(NewNodes(d))
  BY <1>10 DEF ChosenNodes, Populated
<1>12. Candidates(NewNodes(d), d, <<>>)
  BY <1>2, <1>10, LevelIs DEF NewNodes
<1> HIDE DEF N
<1>13. Offered(N, d, <<>>)
  BY <1>11, <1>12, OfferedIs
<1>14. \A n \in N : Share(n) \in Fraction
  BY <1>1, <1>2, <1>6, <1>10, <1>11, LevelSharesAre
<1>15. tree' = e.nodes /\ drivers' = e.classes
  BY <1>4, <1>8, <1>9 DEF N
<1>16. /\ e.classes = Classified(N)
       /\ \A t \in e.nodes : \E n \in N : SameNode(t, n)
  <2>1. \A n \in N : n \in Fields(n)
    BY <1>13 DEF Offered
  <2>2. e = ExpandedBy(c, N, 1)
    OBVIOUS
  <2> HIDE DEF e, d
  <2> QED
    BY ONLY <2>1, <2>2, SettledAs
<1> HIDE DEF e, d
<1> DEFINE named == ToSet(Classified(N).primary)
<1>17. Named' = named
  BY <1>15, <1>16 DEF Named
<1>18. \/ AtMost(ParetoTarget, Summed(SharesIn(named)))
       \/ Cardinality(named) = The.maxDrivers
       \/ \A n \in Scored(N) : AtMost(MinMaterial, Share(n)) => n \in named
       \/ /\ named # {}
          /\ \A n \in Scored(N) : AtMost(MinMaterial, Share(n)) => n \in named \/ n.thin
  <2>1. IsFiniteSet(N)
    BY <1>13 DEF Offered
  <2> HIDE DEF named
  <2> QED
    BY <1>2, <1>14, <2>1, NamedReach DEF named
<1> HIDE DEF named
<1>19. StillLeft' = {n \in tree' : /\ Len(n.path) = 1 /\ ~n.other /\ AtMost(MinMaterial, Share(n))
                                   /\ n.path \notin {m.path : m \in named}}
  BY <1>17 DEF StillLeft
<1>20. ASSUME NEW t \in StillLeft'
       PROVE  \E n \in Scored(N) : AtMost(MinMaterial, Share(n)) /\ n \notin named /\ n.thin = t.thin
  <2>1. /\ t \in tree' /\ ~t.other /\ AtMost(MinMaterial, Share(t))
        /\ t.path \notin {m.path : m \in named}
    BY <1>19, <1>20
  <2>2. PICK n \in N : SameNode(t, n)
    BY <1>15, <1>16, <2>1
  <2>3. ~n.other /\ AtMost(MinMaterial, Share(n)) /\ n \notin named /\ n.thin = t.thin
    BY <2>1, <2>2 DEF SameNode, Share
  <2>4. n \in Scored(N)
    BY <2>3, MaterialScored
  <2> QED
    BY <2>3, <2>4
<1>21. \/ AtMost(ParetoTarget, Summed(SharesIn(Named')))
       \/ Cardinality(Named') = The.maxDrivers
       \/ StillLeft' = {}
       \/ Named' # {} /\ \A n \in StillLeft' : n.thin
  BY <1>17, <1>18, <1>20
<1> QED
  BY <1>3, <1>21 DEF TargetMet, SharesIn

LEMMA TargetStays ==
    ASSUME TargetMet, task' = task, drivers' = drivers,
           \A t \in tree' : Len(t.path) = 1 =>
               \E n \in tree : t.path = n.path /\ t.contribution = n.contribution
                               /\ t.other = n.other /\ t.thin = n.thin,
           tree' # {} => tree # {}
    PROVE  TargetMet'
<1> SUFFICES ASSUME tree' # {} PROVE TargetMet'
  BY DEF TargetMet
<1>1. The' = The /\ Named' = Named
  BY DEF The, Named
<1>2. ASSUME NEW t \in StillLeft' PROVE \E n \in StillLeft : t.thin = n.thin
  <2>1. /\ t \in tree' /\ Len(t.path) = 1 /\ ~t.other /\ AtMost(MinMaterial, Share(t))
        /\ t.path \notin {m.path : m \in Named}
    BY <1>1, <1>2 DEF StillLeft
  <2>2. PICK n \in tree : t.path = n.path /\ t.contribution = n.contribution
                          /\ t.other = n.other /\ t.thin = n.thin
    BY <2>1
  <2>3. n \in StillLeft
    BY <2>1, <2>2 DEF StillLeft, Share
  <2> QED
    BY <2>2, <2>3
<1>3. \/ AtMost(ParetoTarget, Summed(SharesIn(Named)))
      \/ Cardinality(Named) = The.maxDrivers
      \/ StillLeft = {}
      \/ Named # {} /\ \A n \in StillLeft : n.thin
  BY DEF TargetMet
<1>4. \/ AtMost(ParetoTarget, Summed(SharesIn(Named')))
      \/ Cardinality(Named') = The.maxDrivers
      \/ StillLeft' = {}
      \/ Named' # {} /\ \A n \in StillLeft' : n.thin
  BY <1>1, <1>2, <1>3
<1> QED
  BY <1>1, <1>4 DEF TargetMet, SharesIn

\* A node that is marked or expanded stays what it is; what is found lies deeper.
LEMMA DrillNodeReaches ==
    ASSUME RcaInv, TargetMet, DrillNode PROVE TargetMet'
<1> DEFINE node == Expanding
           remaining == Remaining(queue[1])
           found == Descend(node, remaining)
           new == UNION {e.nodes : e \in found}
<1>1. /\ rcaStage = "drill" /\ queue # <<>> /\ UNCHANGED <<task, drivers>>
      /\ \/ \E stop : tree' = (tree \ {node}) \cup {[node EXCEPT !.stop = stop]}
         \/ tree' = (tree \ {node}) \cup {Expanded(node, found)} \cup new
  BY DrillOutcome
<1>2. /\ Given /\ node \in tree /\ node.path = queue[1] /\ node \in Fields(node)
      /\ queue[1] \in Path /\ queue[1] # <<>>
  BY <1>1, ExpandingIs
<1>3. remaining \in Seq(Dimension)
  BY <1>2, RemainingIs
<1> HIDE DEF node, remaining, found
<1>4. \/ found = {}
      \/ \E d \in Dimension : \E e, N :
           /\ found = {e} /\ TheOne(found) = e
           /\ Offered(N, d, node.path) /\ Growth(e, N, d, Len(node.path) + 1)
  BY <1>2, <1>3, DescendIs DEF found
<1>5. \A t \in new : \E d \in Dimension, s \in Segment : t.path = Append(node.path, <<d, s>>)
  <2> DEFINE path == node.path
  <2>1. path \in Path /\ path # <<>>
    BY <1>2
  <2>2. \/ found = {}
        \/ \E d \in Dimension : \E e, N :
             /\ found = {e} /\ TheOne(found) = e
             /\ Offered(N, d, path) /\ Growth(e, N, d, Len(path) + 1)
    BY <1>4
  <2> HIDE DEF path
  <2>3. \A t \in new : \E d \in Dimension, s \in Segment : t.path = Append(path, <<d, s>>)
    BY <2>1, <2>2, FoundIs
  <2> QED
    BY <2>3 DEF path
<1> HIDE DEF new
<1>6. ASSUME NEW t \in new PROVE Len(t.path) # 1
  <2>1. PICK d \in Dimension, s \in Segment : t.path = Append(node.path, <<d, s>>)
    BY <1>5
  <2> DEFINE p == node.path
  <2>2. p \in Path /\ p # <<>> /\ t.path = Append(p, <<d, s>>)
    BY <1>2, <2>1
  <2> HIDE DEF p
  <2>3. Len(t.path) = Len(p) + 1 /\ Len(p) \in Nat
    BY <2>2, PathStep
  <2>4. Len(p) # 0
    BY <2>2 DEF Path
  <2> QED
    BY <2>3, <2>4
<1>7. ASSUME NEW s
      PROVE  LET p == [node EXCEPT !.stop = s]
             IN  /\ p.path = node.path /\ p.contribution = node.contribution
                 /\ p.other = node.other /\ p.thin = node.thin
  BY <1>2 DEF Fields
<1>8. LET p == Expanded(node, found)
      IN  /\ p.path = node.path /\ p.contribution = node.contribution
          /\ p.other = node.other /\ p.thin = node.thin
  <2>1. CASE found = {}
    BY <1>7, <2>1 DEF Expanded
  <2>2. CASE found # {}
    <3> DEFINE c == TheOne(found).dimension
               s == TheOne(found).split
               p == [node EXCEPT !.child = c, !.split = s]
    <3>1. Expanded(node, found) = p
      BY <2>2 DEF Expanded
    <3> HIDE DEF c, s
    <3>2. /\ p.path = node.path /\ p.contribution = node.contribution
          /\ p.other = node.other /\ p.thin = node.thin
      BY <1>2 DEF Fields
    <3> HIDE DEF p
    <3> QED
      BY <3>1, <3>2
  <2> QED
    BY <2>1, <2>2
<1>9. ASSUME NEW t \in tree', Len(t.path) = 1
      PROVE  \E n \in tree : t.path = n.path /\ t.contribution = n.contribution
                             /\ t.other = n.other /\ t.thin = n.thin
  <2>1. PICK x : /\ tree' \subseteq (tree \ {node}) \cup {x} \cup new
                 /\ x.path = node.path /\ x.contribution = node.contribution
                 /\ x.other = node.other /\ x.thin = node.thin
    <3>1. CASE \E stop : tree' = (tree \ {node}) \cup {[node EXCEPT !.stop = stop]}
      <4>1. PICK stop : tree' = (tree \ {node}) \cup {[node EXCEPT !.stop = stop]}
        BY <3>1
      <4> QED
        BY <1>7, <4>1
    <3>2. CASE tree' = (tree \ {node}) \cup {Expanded(node, found)} \cup new
      BY <1>8, <3>2
    <3> QED
      BY <1>1, <3>1, <3>2
  <2>2. t \in tree \/ t = x
    BY <1>6, <1>9, <2>1
  <2> QED
    BY <1>2, <2>1, <2>2
<1>10. tree # {}
  BY <1>2
<1> QED
  BY <1>1, <1>9, <1>10, TargetStays

LEMMA StepsReach ==
    ASSUME RcaInv, TargetMet,
           \/ \E a \in Analyses : StartAnalysis(a)
           \/ Describe \/ Bounds \/ Total \/ BreakDown \/ Conclude \/ StatementFails
           \/ UNCHANGED rcaVars
    PROVE  TargetMet'
<1>1. CASE \/ \E a \in Analyses : StartAnalysis(a)
           \/ Describe \/ Bounds \/ Total \/ BreakDown
  <2>1. rcaStage \in Early /\ tree' = tree
    BY <1>1 DEF StartAnalysis, Describe, Bounds, Total, BreakDown, Early
  <2>2. tree' = {}
    BY <2>1 DEF RcaInv, Shaped
  <2> QED
    BY <2>2 DEF TargetMet
<1>2. CASE Conclude
  <2>1. task' = task /\ (tree' = {} \/ (drivers' = drivers /\ tree' = tree))
    BY <1>2 DEF Conclude
  <2>2. CASE tree' = {}
    BY <2>2 DEF TargetMet
  <2>3. CASE drivers' = drivers /\ tree' = tree
    BY <2>1, <2>3, TargetStays
  <2> QED
    BY <2>1, <2>2, <2>3
<1>3. CASE StatementFails \/ UNCHANGED rcaVars
  <2>1. task' = task /\ drivers' = drivers /\ tree' = tree
    BY <1>3 DEF StatementFails, rcaVars, rcaResult
  <2> QED
    BY <2>1, TargetStays
<1> QED
  BY <1>1, <1>2, <1>3

LEMMA RcaReaches ==
    ASSUME RcaInv, Reckoned, TargetMet, [RcaNext]_rcaVars PROVE TargetMet'
<1>1. CASE BuildLevel
  BY <1>1, BuildLevelReaches
<1>2. CASE DrillNode
  BY <1>2, DrillNodeReaches
<1>3. CASE \/ \E a \in Analyses : StartAnalysis(a)
           \/ Describe \/ Bounds \/ Total \/ BreakDown \/ Conclude \/ StatementFails
           \/ UNCHANGED rcaVars
  BY <1>3, StepsReach
<1> QED
  BY <1>1, <1>2, <1>3 DEF RcaNext, RcaStep

LEMMA TargetIs == ASSUME TargetMet PROVE PrimaryReachTarget
<1>1. SumOver(Named, Share) = Summed(SharesIn(Named))
  BY Zenon DEF SumOver, SharesIn
<1> QED
  BY <1>1 DEF TargetMet, PrimaryReachTarget, StillLeft, Named

\* The drivers named reach the Pareto target, fill the list, or leave no material segment
\* out but those with too few rows, for every file, limit and cap: classify takes the
\* strongest first, and nothing that is drilled into or marked later takes a driver away
\* or adds a segment to the first level.
THEOREM DriversReachTheTarget == RcaSpec => []PrimaryReachTarget
<1>1. RcaInit => RcaInv /\ Reckoned /\ TargetMet
  <2>1. RcaInit => RcaInv
    BY InitKeeps
  <2>2. RcaInit => Reckoned /\ TargetMet
    BY DEF RcaInit, Reckoned, TargetMet
  <2> QED
    BY <2>1, <2>2
<1>2. RcaInv /\ Reckoned /\ TargetMet /\ [RcaNext]_rcaVars => RcaInv' /\ Reckoned' /\ TargetMet'
  BY RcaKeeps, RcaReckons, RcaReaches
<1>3. TargetMet => PrimaryReachTarget
  BY TargetIs
<1> QED
  BY <1>1, <1>2, <1>3, PTL DEF RcaSpec

=============================================================================
