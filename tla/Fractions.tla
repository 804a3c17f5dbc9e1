------------------------------ MODULE Fractions ------------------------------
(***************************************************************************)
(* Exact numbers where the engines compute with floats: a fraction is a    *)
(* record in lowest terms with a positive denominator.  The guards the     *)
(* code has against float noise (ABS_EPSILON and its kin) become tests for *)
(* zero.                                                                   *)
(***************************************************************************)
EXTENDS Integers, Folds

Absolute(i) == IF i < 0 THEN -i ELSE i

\* Euclid.
Divisor(a, b) ==
    LET gcd[p \in Nat \X Nat] == IF p[2] = 0 THEN p[1] ELSE gcd[<<p[2], p[1] % p[2]>>]
    IN  gcd[<<a, b>>]

Reduced(n, d, g) == [num |-> n \div g, den |-> d \div g]
Lowest(n, d) == Reduced(n, d, IF d = 1 THEN 1 ELSE Divisor(Absolute(n), d))

\* n / d, for d # 0.
Frac(n, d) ==
    Lowest(IF d < 0 THEN -n ELSE n, Absolute(d))

Whole(i) == [num |-> i, den |-> 1]
Zero == Whole(0)
One == Whole(1)

Plus(a, b) == Frac(a.num * b.den + b.num * a.den, a.den * b.den)
Minus(a, b) == Frac(a.num * b.den - b.num * a.den, a.den * b.den)
Times(a, b) == Frac(a.num * b.num, a.den * b.den)
Over(a, b) == Frac(a.num * b.den, a.den * b.num)
Halve(a) == Frac(a.num, 2 * a.den)
Abs(a) == [a EXCEPT !.num = Absolute(a.num)]
Less(a, b) == a.num * b.den < b.num * a.den
AtMost(a, b) == a.num * b.den <= b.num * a.den

\* The sum of the values of a function, and of Of(x) over a finite set.
Summed(of) ==
    MapThenFoldSet(Plus, Zero, LAMBDA x : of[x], LAMBDA T : CHOOSE x \in T : TRUE, DOMAIN of)
SumOver(S, Of(_)) == Summed([x \in S |-> Of(x)])
=============================================================================
