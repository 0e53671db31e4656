------------------------------ MODULE DivLemmas ------------------------------
(***************************************************************************)
(* Integer division, as the proofs use it.                                 *)
(***************************************************************************)
EXTENDS Integers, TLAPS

\* The quotient is the largest multiple that fits.
LEMMA DivFacts ==
  ASSUME NEW k \in Nat \ {0}, NEW a \in Nat
  PROVE  /\ a \div k \in Nat
         /\ k * (a \div k) <= a /\ a < k * (a \div k) + k
<1>1. a \div k \in Nat OBVIOUS
<1> DEFINE q == a \div k
<1>2. k * q <= a /\ a < k * q + k BY Z3
<1> QED BY <1>1, <1>2

\* Division is monotonic.
LEMMA DivMono ==
  ASSUME NEW k \in Nat \ {0}, NEW a \in Nat, NEW b \in Nat, a <= b
  PROVE  a \div k <= b \div k
<1> DEFINE p == a \div k
           q == b \div k
<1>1. p \in Nat /\ q \in Nat /\ k * p <= a /\ b < k * q + k
  BY DivFacts
<1> HIDE DEF p, q
<1>2. ASSUME q + 1 <= p PROVE FALSE
  <2>1. k * (q + 1) <= k * p BY <1>1, <1>2
  <2>2. k * (q + 1) = k * q + k BY <1>1
  <2>3. k * p \in Int /\ k * q \in Int BY <1>1
  <2> QED BY <1>1, <2>1, <2>2, <2>3
<1>3. p <= q BY <1>1, <1>2
<1> QED BY <1>3 DEF p, q

\* A number below a product has a quotient below the other factor.
LEMMA DivBound ==
  ASSUME NEW k \in Nat \ {0}, NEW m \in Nat, NEW a \in Nat, a < m * k
  PROVE  a \div k < m
<1> DEFINE q == a \div k
<1>1. q \in Nat /\ k * q <= a BY DivFacts
<1> HIDE DEF q
<1>2. ASSUME m <= q PROVE FALSE
  <2>1. k * m <= k * q BY <1>1, <1>2
  <2>2. k * m = m * k /\ k * m \in Int /\ k * q \in Int BY <1>1
  <2> QED BY <1>1, <2>1, <2>2
<1>3. q < m BY <1>1, <1>2
<1> QED BY <1>3 DEF q

\* The quotient of a multiple plus a remainder.
LEMMA DivExact ==
  ASSUME NEW k \in Nat \ {0}, NEW f \in Nat, NEW o \in Nat, o < k
  PROVE  (f * k + o) \div k = f
<1> DEFINE a == f * k + o
           q == a \div k
<1>1. f * k \in Nat /\ k * f = f * k /\ a \in Nat OBVIOUS
<1>2. q \in Nat /\ k * q <= a /\ a < k * q + k BY <1>1, DivFacts
<1> HIDE DEF q
<1>3. ASSUME q + 1 <= f PROVE FALSE
  <2>1. k * (q + 1) <= k * f BY <1>2, <1>3
  <2>2. k * (q + 1) = k * q + k /\ k * q \in Int BY <1>2
  <2> QED BY <1>1, <1>2, <2>1, <2>2
<1>4. ASSUME f + 1 <= q PROVE FALSE
  <2>1. k * (f + 1) <= k * q BY <1>2, <1>4
  <2>2. k * (f + 1) = k * f + k /\ k * q \in Int BY <1>2
  <2> QED BY <1>1, <1>2, <2>1, <2>2
<1>5. q = f BY <1>2, <1>3, <1>4
<1> QED BY <1>5 DEF q

\* A position in one of m blocks of k is a position of the whole.
LEMMA BlockBound ==
  ASSUME NEW k \in Nat \ {0}, NEW m \in Nat, NEW f \in Nat, f < m, NEW o \in Nat, o < k
  PROVE  f * k + o \in Nat /\ f * k + o < m * k
<1>1. (f + 1) * k <= m * k
  <2>1. f + 1 <= m OBVIOUS
  <2> QED BY <2>1
<1>2. (f + 1) * k = f * k + k /\ f * k \in Nat /\ m * k \in Nat OBVIOUS
<1> QED BY <1>1, <1>2
=============================================================================
