------------------------------- MODULE HalfFloat -------------------------------
(***************************************************************************)
(* The scalar formats the executors share, at any width: halves (binary16  *)
(* in the code), the eight-bit codes of E4M3, and the dot product of the   *)
(* matrix instruction, which adds its terms in fixed point.                *)
(*                                                                         *)
(* A number is a sign and a code, the bits without the sign.  Magnitudes   *)
(* are integers: halves count units of 2^-HalfFrac, the smallest half, and *)
(* E4 codes units of 2^-E4Frac.  There are no NaNs: the code throws on     *)
(* them, and on infinity as soon as one is computed.                       *)
(***************************************************************************)
EXTENDS Integers, FiniteSetsExt

CONSTANTS MantBits, ExpBits, HalfFrac, \* 10, 5 and 24
          E4Mant, E4Exp, E4Frac,       \* 3, 4 and 9
          AccBits,                     \* bits kept below the leading one: 25
          D27Top, D27Range             \* 12 and 20

ASSUME FloatAssumption ==
  /\ {MantBits, ExpBits, E4Mant, E4Exp, AccBits} \subseteq Nat \ {0}
  /\ {E4Frac, HalfFrac, D27Top, D27Range} \subseteq Nat /\ 2 * E4Frac <= HalfFrac
  /\ ExpBits > 1

(* The powers of two; a function, so that what it is can be proved.        *)
Pow2[k \in Nat] == IF k = 0 THEN 1 ELSE 2 * Pow2[k - 1]

Abs(n)   == IF n < 0 THEN -n ELSE n
Number(units, codeOf(_)) == [neg |-> units < 0, code |-> codeOf(Abs(units))]
Signed(x, units) == IF x.neg THEN -units ELSE units
Log2(n)  == CHOOSE k \in 0 .. n : Pow2[k] <= n /\ n < Pow2[k + 1]
Inf      == (Pow2[ExpBits] - 1) * Pow2[MantBits]
E4Max    == Pow2[E4Exp + E4Mant] - 2

(* half_value, e4_units; the unit Inf would count is the first one out of *)
(* range. *)
Units(mant, code) == LET e == code \div Pow2[mant]
                         m == code % Pow2[mant]
                     IN  IF e = 0 THEN m ELSE (Pow2[mant] + m) * Pow2[e - 1]
HalfUnits(code) == Units(MantBits, code)
E4Units(code)   == Units(E4Mant, code)

(* half_round: the step of the binade, round half to even, and the         *)
(* carry into the next binade.                                             *)
HalfRound(a) ==
  LET sh  == Max({Log2(a) - MantBits, 0})
      n   == a \div Pow2[sh]
      rem == a % Pow2[sh]
      up  == 2 * rem > Pow2[sh] \/ (2 * rem = Pow2[sh] /\ n % 2 = 1)
      r   == (IF up THEN n + 1 ELSE n) * Pow2[sh]
  IN  IF a = 0 THEN 0 ELSE
      CASE a >= (Pow2[MantBits + 2] - 1) * Pow2[Pow2[ExpBits] - 4] -> Inf
        [] r < Pow2[MantBits] -> r
        [] OTHER -> LET e == Log2(r) - MantBits IN e * Pow2[MantBits] + r \div Pow2[e]

(* sat_e4: the search over the codes, from 0 up. *)
SatE4(a) ==
  LET far(c) == Abs(a - E4Units(c) * Pow2[HalfFrac - E4Frac])
      Best[c \in 0 .. E4Max] ==
        IF c = 0 THEN 0
        ELSE LET b == Best[c - 1]
             IN  IF far(c) < far(b) \/ (far(c) = far(b) /\ c % 2 = 0 /\ b % 2 = 1) THEN c ELSE b
  IN  IF a >= E4Units(E4Max) * Pow2[HalfFrac - E4Frac] THEN E4Max ELSE Best[E4Max]

(* h_add; the sum of two zeros keeps their sign if they agree on it. *)
HalfAdd(x, y) ==
  LET u == Signed(x, HalfUnits(x.code)) + Signed(y, HalfUnits(y.code))
  IN  [neg |-> IF u = 0 THEN x.neg /\ y.neg ELSE u < 0, code |-> HalfRound(Abs(u))]

-----------------------------------------------------------------------------
(* qmma_dot, of the sm120 build and of the older model (W27): every term   *)
(* is cut to the bits that remain of the largest one, the sum is exact, and *)
(* only the result is rounded.  The builds differ in what is called largest: *)
(* W27 looks at the terms, sm120 at the fields their exponents would have. *)
Field(u)     == Max({Log2(Abs(u)), E4Mant}) - E4Frac
Place(u, sh) == LET p == (Abs(u) \div Pow2[sh]) * Pow2[sh] IN IF u < 0 THEN -p ELSE p
Publish(a)   ==
  LET top == Log2(a)
      sh  == Max({top - MantBits, 0})
      q0  == a \div Pow2[sh]
      r   == a % Pow2[sh]
      q   == IF sh > 0 /\ (r > Pow2[sh - 1] \/ (r = Pow2[sh - 1] /\ q0 % 2 = 1)) THEN q0 + 1 ELSE q0
      over == q >= Pow2[MantBits + 1]
      e   == top + (IF over THEN 1 ELSE 0) - MantBits + 1
      m   == IF over THEN q \div 2 ELSE q
  IN  IF a = 0 THEN 0 ELSE
      CASE e < 1 -> m
        [] e >= Pow2[ExpBits] - 1 -> Inf
        [] OTHER -> e * Pow2[MantBits] + m - Pow2[MantBits]

(* The terms of a dot product: the seed and the products of the codes. *)
Factor(x)   == Signed(x, E4Units(x.code))
Terms(d)    == [k \in DOMAIN d.a |-> Factor(d.a[k]) * Factor(d.b[k]) * Pow2[HalfFrac - 2 * E4Frac]]
Seed(d)     == Signed(d.seed, HalfUnits(d.seed.code))
Exponents(d) == {Field(Factor(d.a[k])) + Field(Factor(d.b[k])) : k \in {j \in DOMAIN d.a : Terms(d)[j] # 0}}
                  \cup (IF Seed(d) = 0 THEN {} ELSE {Log2(Abs(Seed(d))) - HalfFrac})
Mags(d)     == {Abs(Terms(d)[k]) : k \in DOMAIN d.a} \ {0}
Largest(d)  == Max(Mags(d) \cup {Abs(Seed(d))})
Cut(d)      == IF Exponents(d) = {} THEN 0
               ELSE IF d.sm120 THEN Max({Max(Exponents(d)) + HalfFrac - AccBits, 0})
               ELSE Max({Log2(Largest(d)) - AccBits - 1, 0})
DotUnits(d) == SumFunction([k \in DOMAIN d.a |-> Place(Terms(d)[k], Cut(d))]) + Place(Seed(d), Cut(d))
Dot(d)      == Number(DotUnits(d), LAMBDA a : IF d.sm120 THEN Publish(a) ELSE HalfRound(a))
(* "D27 QMMA counterexample domain": large terms beside small ones, of     *)
(* which little is left.                                                   *)
D27(d) == LET exact == SumFunction(Terms(d)) + Seed(d)
              top   == Log2(Largest(d))
          IN  /\ Mags(d) # {}
              /\ top - HalfFrac >= D27Top
              /\ top - Log2(Min(Mags(d))) >= D27Range
              /\ exact = 0 \/ top - Log2(Abs(exact)) >= 2

-----------------------------------------------------------------------------
(* What the roundings should be: the nearest code, and of two equally near *)
(* ones the even one.  Infinity is as far as the number its code would     *)
(* stand for.                                                              *)
IsNearest(table, a, c) ==
  LET far(b) == Abs(a - table[b])
  IN  \A b \in DOMAIN table \ {c} : far(c) < far(b) \/ (far(c) = far(b) /\ c % 2 = 0)
NearestOf(table, a) == CHOOSE c \in DOMAIN table : IsNearest(table, a, c)
Halves       == [c \in 0 .. Inf |-> HalfUnits(c)]
E4Codes      == [c \in 0 .. E4Max |-> E4Units(c) * Pow2[HalfFrac - E4Frac]]
Nearest(a)   == NearestOf(Halves, a)
NearestE4(a) == NearestOf(E4Codes, a)
=============================================================================
