--------------------------- MODULE NumberTheorems ---------------------------
(* Least and largest numbers, for the proofs that need the operators Min and   *)
(* Max of FiniteSetsExt, and finite sets of values and differences.            *)
EXTENDS Integers, FiniteSets, FiniteSetsExt, FiniteSetTheorems, WellFoundedInduction, TLAPS

(* The least-number principle, from the library's well-founded orders.         *)
LEMMA LeastNumber ==
  ASSUME NEW T \in SUBSET Nat, T # {}
  PROVE \E x \in T : \A y \in T : x <= y
  <1> DEFINE R == {ss \in Nat \X Nat : ss[1] < ss[2]}
  <1>1. IsWellFoundedOn(R, Nat)
    BY NatLessThanWellFounded, Zenon DEF OpToRel
  <1>2. PICK x \in T : \A y \in T : ~(<<y, x>> \in R)
    BY <1>1, WFMin, Zenon
  <1>3. ASSUME NEW y \in T PROVE x <= y
    <2>1. <<y, x>> \notin R
      BY <1>2
    <2>2. ~(y < x)
      BY <2>1
    <2> QED BY <2>2
  <1> QED BY <1>3

(* A finite set of numbers has a largest: a smallest set without one would be  *)
(* left with one when any of its elements is taken away.                       *)
LEMMA LargestNumber ==
  ASSUME NEW S \in SUBSET Int, IsFiniteSet(S), S # {}
  PROVE Max(S) \in S /\ \A y \in S : Max(S) >= y
  <1> DEFINE Without(U) == U # {} /\ IsFiniteSet(U) /\ \A x \in U : \E y \in U : ~(x >= y)
             T == {n \in Nat : \E U \in SUBSET Int : Without(U) /\ Cardinality(U) = n}
  <1>1. T = {}
    <2> SUFFICES ASSUME T # {} PROVE FALSE
      OBVIOUS
    <2>1. PICK n \in T : \A m \in T : n <= m
      BY LeastNumber
    <2>2. PICK U \in SUBSET Int : Without(U) /\ Cardinality(U) = n
      BY <2>1
    <2>3. PICK z \in U : TRUE
      BY <2>2
    <2>4. IsFiniteSet(U \ {z}) /\ Cardinality(U \ {z}) = Cardinality(U) - 1 /\ Cardinality(U \ {z}) \in Nat
      BY <2>2, <2>3, FS_RemoveElement, FS_CardinalityType
    <2>5. ~Without(U \ {z})
      <3> SUFFICES ASSUME Without(U \ {z}) PROVE FALSE
        OBVIOUS
      <3>1. Cardinality(U \ {z}) \in T
        BY <2>4
      <3>2. n \in Nat /\ n <= Cardinality(U \ {z}) /\ Cardinality(U \ {z}) = n - 1
        BY <2>1, <2>2, <2>4, <3>1
      <3> QED BY <3>2
    <2>6. CASE U \ {z} = {}
      BY <2>2, <2>3, <2>6
    <2>7. CASE U \ {z} # {}
      <3>1. PICK m \in U \ {z} : \A y \in U \ {z} : m >= y
        BY <2>4, <2>5, <2>7
      <3>2. m \in Int /\ z \in Int /\ \A y \in U : y \in Int
        BY <2>3, <3>1
      <3>3. (\A y \in U : m >= y) \/ (\A y \in U : z >= y)
        BY <3>1, <3>2
      <3> QED BY <2>2, <2>3, <3>1, <3>3
    <2> QED BY <2>6, <2>7
  <1>2. \E x \in S : \A y \in S : x >= y
    <2> SUFFICES ASSUME Without(S) PROVE FALSE
      OBVIOUS
    <2>1. Cardinality(S) \in T
      BY FS_CardinalityType
    <2> QED BY <1>1, <2>1
  <1> QED BY <1>2 DEF Max

(* The values of a function on a finite set.                                   *)
LEMMA FiniteValues ==
  ASSUME NEW S, IsFiniteSet(S), NEW f, f = [x \in S |-> f[x]]
  PROVE IsFiniteSet({f[x] : x \in S})
  <1> DEFINE T == {f[x] : x \in S}
  <1>1. f \in Surjection(S, T)
    BY DEF Surjection
  <1> HIDE DEF T
  <1>2. IsFiniteSet(T)
    BY <1>1, FS_Surjection
  <1> QED BY <1>2 DEF T

(* The larger of two numbers.                                                  *)
LEMMA LargerOfTwo ==
  ASSUME NEW a \in Int, NEW b \in Int
  PROVE Max({a, b}) \in {a, b} /\ Max({a, b}) >= a /\ Max({a, b}) >= b
  <1> DEFINE T == {a, b}
  <1>1. IsFiniteSet({a}) /\ IsFiniteSet({b}) /\ {a, b} = {a} \cup {b}
    BY FS_Singleton
  <1>2. T \in SUBSET Int /\ T # {} /\ IsFiniteSet(T) /\ a \in T /\ b \in T
    BY <1>1, FS_Union
  <1> HIDE DEF T
  <1>3. Max(T) \in T /\ Max(T) >= a /\ Max(T) >= b
    BY <1>2, LargestNumber
  <1> QED BY <1>3 DEF T

(* Two finite sets of numbers, each bounded by the other.                      *)
LEMMA SameLargest ==
  ASSUME NEW S \in SUBSET Int, NEW T \in SUBSET Int, IsFiniteSet(S), IsFiniteSet(T),
         S # {}, T # {},
         \A x \in S : \E y \in T : x <= y, \A y \in T : \E x \in S : y <= x
  PROVE Max(S) = Max(T)
  <1>1. Max(S) \in S /\ \A x \in S : Max(S) >= x
    BY LargestNumber
  <1>2. Max(T) \in T /\ \A y \in T : Max(T) >= y
    BY LargestNumber
  <1>3. PICK y \in T : Max(S) <= y
    BY <1>1
  <1>4. PICK x \in S : Max(T) <= x
    BY <1>2
  <1>5. Max(S) \in Int /\ Max(T) \in Int /\ x \in Int /\ y \in Int /\ Max(S) >= x /\ Max(T) >= y
    BY <1>1, <1>2
  <1> HIDE DEF Max
  <1> QED BY <1>3, <1>4, <1>5

(* What is left of a set is no smaller than the difference of the two.         *)
LEMMA DifferenceAtLeast ==
  ASSUME NEW X, NEW Y, IsFiniteSet(X), IsFiniteSet(Y)
  PROVE /\ Cardinality(X) - Cardinality(Y) <= Cardinality(X \ Y)
        /\ Y \subseteq X => Cardinality(X) - Cardinality(Y) = Cardinality(X \ Y)
  <1>1. IsFiniteSet(X \ Y) /\ IsFiniteSet((X \ Y) \cup Y)
    BY FS_Subset, FS_Union
  <1>2. Cardinality((X \ Y) \cup Y) = Cardinality(X \ Y) + Cardinality(Y) - Cardinality((X \ Y) \cap Y)
    BY <1>1, FS_Union
  <1>3. (X \ Y) \cap Y = {} /\ Cardinality({}) = 0
    BY FS_EmptySet
  <1>4. Cardinality(X) <= Cardinality((X \ Y) \cup Y)
    <2>1. X \in SUBSET ((X \ Y) \cup Y)
      OBVIOUS
    <2> QED BY <1>1, <2>1, FS_Subset
  <1>5. Y \subseteq X => (X \ Y) \cup Y = X
    OBVIOUS
  <1>6. Cardinality(X) \in Nat /\ Cardinality(Y) \in Nat /\ Cardinality(X \ Y) \in Nat
    BY <1>1, FS_CardinalityType
  <1> DEFINE u == Cardinality((X \ Y) \cup Y)
  <1>7. u = Cardinality(X \ Y) + Cardinality(Y)
    BY <1>2, <1>3, <1>6
  <1>8. Y \subseteq X => u = Cardinality(X)
    BY <1>5
  <1>9. Cardinality(X) <= u
    BY <1>4
  <1> HIDE DEF u
  <1> QED BY <1>6, <1>7, <1>8, <1>9
=============================================================================
