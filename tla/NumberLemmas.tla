---------------------------- MODULE NumberLemmas ----------------------------
(***************************************************************************)
(* Facts about numbers that the proofs of several modules need.            *)
(***************************************************************************)
EXTENDS Integers, FiniteSetTheorems, TLAPS

\* Quotient and remainder, and that nothing else is.
LEMMA DivMod ==
  ASSUME NEW a \in Nat, NEW b \in Nat \ {0}
  PROVE  /\ a \div b \in Nat
         /\ a % b \in 0 .. b - 1
         /\ a = b * (a \div b) + (a % b)
BY SMT

LEMMA DivModUnique ==
  ASSUME NEW b \in Nat \ {0}, NEW q \in Nat, NEW r \in 0 .. b - 1
  PROVE  (b * q + r) \div b = q /\ (b * q + r) % b = r
BY SMT

\* Dividing twice is dividing by the product.
LEMMA DivDiv ==
  ASSUME NEW a \in Nat, NEW b \in Nat \ {0}, NEW c \in Nat \ {0}
  PROVE  a \div (b * c) = (a \div b) \div c
BY SMT

\* A nonempty set of naturals has a least element.  The library has no induction
\* that these provers can use; the cardinality of what lies below all of the set
\* takes its place.
LEMMA LeastElement ==
  ASSUME NEW T \in SUBSET Nat, T # {}
  PROVE  \E x \in T : \A y \in T : x <= y
<1>1. PICK m \in T : TRUE
  OBVIOUS
<1> DEFINE D == {k \in 0 .. m : \A x \in T : k < x}
           c == Cardinality(D)
<1>2. \A k \in Nat : IsFiniteSet(0 .. k - 1) /\ Cardinality(0 .. k - 1) = k
  <2> SUFFICES ASSUME NEW k \in Nat
               PROVE  IsFiniteSet(0 .. k - 1) /\ Cardinality(0 .. k - 1) = k
    OBVIOUS
  <2>1. /\ IsFiniteSet(0 .. k - 1)
        /\ Cardinality(0 .. k - 1) = IF 0 > k - 1 THEN 0 ELSE k - 1 - 0 + 1
    BY FS_Interval
  <2> QED
    BY <2>1
<1>3. \A y \in T : y \in Nat /\ D \subseteq 0 .. y - 1
  OBVIOUS
<1>4. IsFiniteSet(D) /\ c \in Nat
  BY <1>1, <1>2, <1>3, FS_Subset, FS_CardinalityType
<1>5. \A y \in T : c <= y
  <2> SUFFICES ASSUME NEW y \in T
               PROVE  c <= y
    OBVIOUS
  <2>1. D \in SUBSET (0 .. y - 1) /\ y \in Nat
    BY <1>3
  <2>2. Cardinality(D) <= Cardinality(0 .. y - 1)
    BY <1>2, <2>1, FS_Subset
  <2> QED
    BY <1>2, <2>1, <2>2
<1>6. c \notin D
  <2> SUFFICES ASSUME c \in D
               PROVE  FALSE
    OBVIOUS
  <2>1. 0 .. (c + 1) - 1 \in SUBSET D
    <3> HIDE DEF c
    <3>1. c \in Nat /\ c \in 0 .. m /\ \A x \in T : c < x
      BY <1>4
    <3>2. \A k \in 0 .. (c + 1) - 1 : k \in 0 .. m /\ \A x \in T : k < x
      BY <1>1, <3>1, SMT
    <3> QED
      BY <3>2
  <2>2. Cardinality(0 .. (c + 1) - 1) <= c
    BY <1>4, <2>1, FS_Subset
  <2> HIDE DEF c
  <2>3. Cardinality(0 .. (c + 1) - 1) = c + 1
    BY <1>2, <1>4
  <2> QED
    BY <1>4, <2>2, <2>3
<1>7. c \in 0 .. m
  <2> HIDE DEF c
  <2> QED
    BY <1>1, <1>4, <1>5, SMT
<1>8. PICK x \in T : x <= c
  <2> HIDE DEF c
  <2> QED
    BY <1>4, <1>6, <1>7
<1> HIDE DEF c
<1>9. x = c
  BY <1>4, <1>5, <1>8
<1> QED
  BY <1>5, <1>9
=============================================================================
