------------------------------ MODULE Arithmetic ------------------------------
(***************************************************************************)
(* Facts about natural numbers and finite sets that the other proofs cite: *)
(* multiplication and division with remainder by a variable, so that none  *)
(* of them leaves products to the provers, the smallest number of a set,   *)
(* induction in a form that takes a set where the library's takes an       *)
(* operator, and what one more element does to a cardinality.              *)
(***************************************************************************)
EXTENDS Integers, FiniteSetTheorems, WellFoundedInduction, TLAPS

(* A nonempty set of natural numbers has a smallest one. *)
LEMMA Least == ASSUME NEW T, T \subseteq Nat, T # {}
               PROVE  \E n \in T : \A m \in T : n <= m
<1> DEFINE F == {0 .. n : n \in T}
<1>1. F \subseteq FiniteSubsetsOf(Nat)
  <2> SUFFICES ASSUME NEW n \in T PROVE 0 .. n \in FiniteSubsetsOf(Nat)
    OBVIOUS
  <2>1. IsFiniteSet(0 .. n)
    BY FS_Interval
  <2> QED BY <2>1 DEF FiniteSubsetsOf
<1>2. F # {}
  OBVIOUS
<1>3. IsWellFoundedOn(StrictSubsetOrdering(Nat), FiniteSubsetsOf(Nat))
  BY FS_StrictSubsetOrderingWellFounded
<1> HIDE DEF F
<1>4. PICK X \in F : \A Y \in F : ~(<<Y, X>> \in StrictSubsetOrdering(Nat))
  BY <1>1, <1>2, <1>3, WFMin
<1>5. PICK n \in T : X = 0 .. n
  BY DEF F
<1>6. ASSUME NEW m \in T, m < n PROVE FALSE
  <2>1. 0 .. m \in F
    BY DEF F
  <2>2. 0 .. m \subseteq 0 .. n /\ n \in 0 .. n /\ n \notin 0 .. m
    BY <1>6
  <2>3. <<0 .. m, 0 .. n>> \in StrictSubsetOrdering(Nat)
    BY <2>2 DEF StrictSubsetOrdering
  <2> QED BY <1>4, <1>5, <2>1, <2>3
<1> QED BY <1>6

(* Induction over the natural numbers. *)
LEMMA Counting == ASSUME NEW T, 0 \in T, \A n \in Nat : n \in T => n + 1 \in T
                  PROVE  Nat \subseteq T
<1> DEFINE U == Nat \ T
<1> SUFFICES ASSUME U # {} PROVE FALSE
  OBVIOUS
<1>1. PICK n \in U : \A m \in U : n <= m
  <2> HIDE DEF U
  <2>1. U \subseteq Nat
    BY DEF U
  <2> QED BY <2>1, Least
<1>2. n # 0 /\ n - 1 \in Nat
  OBVIOUS
<1>3. n - 1 \in T
  BY <1>1, <1>2
<1> QED BY <1>2, <1>3

(* A finite set of natural numbers is bounded, so that a nonempty one has  *)
(* a greatest number. *)
LEMMA Greatest == ASSUME NEW S, S \subseteq Nat, IsFiniteSet(S), S # {}
                  PROVE  \E n \in S : \A m \in S : m <= n
<1> DEFINE Bounded(R) == \E b \in Nat : \A m \in R : m <= b
           T == {n \in Nat : \A R \in SUBSET Nat : IsFiniteSet(R) /\ Cardinality(R) = n => Bounded(R)}
<1>1. 0 \in T
  <2> SUFFICES ASSUME NEW R \in SUBSET Nat, IsFiniteSet(R), Cardinality(R) = 0 PROVE Bounded(R)
    OBVIOUS
  <2>1. R = {}
    BY FS_EmptySet
  <2> QED BY <2>1
<1>2. ASSUME NEW n \in Nat, n \in T PROVE n + 1 \in T
  <2> SUFFICES ASSUME NEW R \in SUBSET Nat, IsFiniteSet(R), Cardinality(R) = n + 1 PROVE Bounded(R)
    OBVIOUS
  <2>1. PICK x : x \in R
    BY FS_EmptySet
  <2>2. IsFiniteSet(R \ {x}) /\ Cardinality(R \ {x}) = n
    <3>1. IsFiniteSet(R \ {x}) /\ Cardinality(R \ {x}) = Cardinality(R) - 1
      BY <2>1, FS_RemoveElement
    <3> QED BY <3>1
  <2>3. PICK b \in Nat : \A m \in R \ {x} : m <= b
    BY <1>2, <2>2
  <2>4. \A m \in R : m <= b + x
    BY <2>1, <2>3
  <2> QED BY <2>1, <2>4
<1>3. Nat \subseteq T
  <2> HIDE DEF T
  <2> QED BY <1>1, <1>2, Counting
<1>4. Bounded(S)
  BY <1>3, FS_CardinalityType
<1> DEFINE U == {b \in Nat : \A m \in S : m <= b}
<1>5. PICK b \in U : \A c \in U : b <= c
  <2> HIDE DEF U
  <2>1. U \subseteq Nat /\ U # {}
    BY <1>4 DEF U
  <2> QED BY <2>1, Least
<1>6. b \in S
  <2> SUFFICES ASSUME b \notin S PROVE FALSE
    OBVIOUS
  <2>1. \A m \in S : m \in Nat /\ m <= b /\ m # b
    OBVIOUS
  <2>2. b # 0
    <3>1. PICK m \in S : TRUE
      OBVIOUS
    <3> QED BY <2>1, <3>1
  <2>3. b - 1 \in U
    BY <2>1, <2>2
  <2> QED BY <1>5, <2>3
<1> QED BY <1>6

-----------------------------------------------------------------------------
(* A product divides back. *)
LEMMA Multiple == ASSUME NEW a \in Nat, NEW n \in Nat, n > 0
                  PROVE  (a * n) \div n = a
  OBVIOUS

(* A quotient and its remainder make up the number. *)
LEMMA Divided == ASSUME NEW a \in Nat, NEW n \in Nat, n > 0
                 PROVE  /\ a \div n \in Nat /\ a % n \in 0 .. n - 1
                        /\ a = (a \div n) * n + (a % n)
  OBVIOUS

(* Of two multiples of n the larger one is larger by n at least. *)
LEMMA Rises == ASSUME NEW a \in Nat, NEW b \in Nat, NEW n \in Nat, a < b
               PROVE  a * n + n <= b * n
<1>1. PICK d \in Nat : b = a + 1 + d
  <2>1. b - a - 1 \in Nat /\ b = a + 1 + (b - a - 1)
    OBVIOUS
  <2> QED BY <2>1
<1>2. b * n = a * n + n + d * n
  BY <1>1
<1>3. d * n \in Nat
  BY <1>1
<1>4. a * n \in Nat
  OBVIOUS
<1> QED BY <1>2, <1>3, <1>4

(* A number has one quotient and one remainder. *)
LEMMA Apart == ASSUME NEW a \in Nat, NEW b \in Nat, NEW i \in Nat, NEW j \in Nat, NEW n \in Nat,
                      i < n, j < n, a * n + i = b * n + j
               PROVE  a = b /\ i = j
<1>1. a * n \in Nat /\ b * n \in Nat
  OBVIOUS
<1>2. ~(a < b)
  BY <1>1, Rises
<1>3. ~(b < a)
  BY <1>1, Rises
<1> QED BY <1>1, <1>2, <1>3

(* What is written as a quotient and a remainder has them. *)
LEMMA Remade == ASSUME NEW q \in Nat, NEW r \in Nat, NEW n \in Nat, r < n
                 PROVE  (q * n + r) \div n = q /\ (q * n + r) % n = r
<1>1. q * n + r \in Nat /\ n > 0
  <2>1. q * n \in Nat
    OBVIOUS
  <2> QED BY <2>1
<1>2. PICK a \in Nat : a = q * n + r
  BY <1>1
<1>3. a \div n \in Nat /\ a % n \in Nat /\ a % n < n /\ q * n + r = (a \div n) * n + (a % n)
  BY <1>1, <1>2, Divided
<1>4. q = a \div n /\ r = a % n
  BY <1>3, Apart
<1> QED BY <1>2, <1>4

(* A quotient is below b when the number is below b times the divisor. *)
LEMMA Below == ASSUME NEW a \in Nat, NEW b \in Nat, NEW n \in Nat, n > 0
               PROVE  a \div n < b <=> a < b * n
<1>1. PICK q \in Nat, r \in Nat : a \div n = q /\ r < n /\ a = q * n + r
  BY Divided
<1>2. q * n \in Nat /\ b * n \in Nat
  OBVIOUS
<1>3. q < b => a < b * n
  BY <1>1, <1>2, Rises
<1>4. b < q => b * n <= a
  BY <1>1, <1>2, Rises
<1>5. b = q => b * n <= a
  BY <1>1, <1>2
<1> QED BY <1>1, <1>2, <1>3, <1>4, <1>5
===============================================================================
