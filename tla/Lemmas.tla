------------------------------- MODULE Lemmas -------------------------------
(***************************************************************************)
(* What the proofs of the components share: the least and the greatest of  *)
(* a set of naturals, which stand in for induction, and sums as sizes of   *)
(* sets.                                                                   *)
(***************************************************************************)
EXTENDS Integers, Functions, FiniteSetTheorems, TLAPS

(* A set of naturals has a least element.                                  *)
LEMMA Least ==
  ASSUME NEW S, S \subseteq Nat, S # {}
  PROVE  \E x \in S : \A y \in S : x <= y
<1>1. PICK x \in S : \A y \in S : ~(<<y, x>> \in OpToRel(<, Nat))
  BY NatLessThanWellFounded, WFMin
<1>2. ASSUME NEW y \in S, y < x PROVE FALSE
  <2>1. <<y, x>> \in Nat \X Nat /\ <<y, x>>[1] < <<y, x>>[2]
    BY <1>2
  <2>2. <<y, x>> \in OpToRel(<, Nat)
    BY <2>1, Zenon DEF OpToRel
  <2> QED
    BY <1>1, <2>2
<1>3. \A y \in S : ~(y < x)
  BY <1>2
<1> QED
  BY <1>3

(* A finite sequence of naturals is bounded: of the lengths at which it is *)
(* not, one would be the least.                                            *)
LEMMA Bounded ==
  ASSUME NEW k \in Nat, NEW f \in [1..k -> Nat]
  PROVE  \E b \in Nat : \A i \in 1..k : f[i] <= b
<1> DEFINE Bad == {j \in 0..k : ~(\E b \in Nat : \A i \in 1..j : f[i] <= b)}
<1>1. ASSUME Bad # {} PROVE FALSE
  <2>1. PICK j \in Bad : \A y \in Bad : j <= y
    <3>1. Bad \subseteq Nat
      OBVIOUS
    <3> QED
      BY <1>1, <3>1, Least
  <2>2. j \in 1..k
    OBVIOUS
  <2>3. j - 1 \in 0..k /\ j - 1 \notin Bad
    <3>1. j - 1 \in 0..k /\ ~(j <= j - 1)
      BY <2>2
    <3> HIDE DEF Bad
    <3> QED
      BY <2>1, <3>1
  <2>4. PICK b \in Nat : \A i \in 1..(j - 1) : f[i] <= b
    BY <2>3
  <2>5. PICK c \in Nat : b <= c /\ f[j] <= c
    <3>1. f[j] \in Nat
      BY <2>2
    <3>2. b <= b + f[j] /\ f[j] <= b + f[j] /\ b + f[j] \in Nat
      BY <3>1
    <3> QED
      BY <3>2
  <2>6. \A i \in 1..j : f[i] <= c
    <3> TAKE i \in 1..j
    <3>1. CASE i = j
      BY <3>1, <2>5
    <3>2. CASE i # j
      <4>1. i \in 1..(j - 1) /\ f[i] \in Nat
        BY <2>2, <3>2
      <4> QED
        BY <4>1, <2>4, <2>5
    <3> QED
      BY <3>1, <3>2
  <2> QED
    BY <2>6
<1>2. k \in 0..k /\ k \notin Bad
  <2>1. k \in 0..k
    OBVIOUS
  <2> QED
    BY <1>1, <2>1, Zenon
<1> QED
  BY <1>2, Zenon

(* A finite set of naturals has a greatest element: the least bound.       *)
LEMMA Greatest ==
  ASSUME NEW S, S \subseteq Nat, S # {}, IsFiniteSet(S)
  PROVE  \E x \in S : \A y \in S : y <= x
<1> DEFINE Above == {b \in Nat : \A y \in S : y <= b}
<1>1. Above # {}
  <2>1. PICK k \in Nat : ExistsSurjection(1..k, S)
    BY FS_NatSurjection
  <2>2. PICK f \in Surjection(1..k, S) : TRUE
    BY <2>1 DEF ExistsSurjection
  <2>3. f \in [1..k -> S] /\ \A y \in S : \E i \in 1..k : f[i] = y
    BY <2>2 DEF Surjection
  <2>4. f \in [1..k -> Nat]
    BY <2>3
  <2>5. PICK b \in Nat : \A i \in 1..k : f[i] <= b
    BY <2>4, Bounded
  <2> QED
    BY <2>3, <2>5
<1>2. PICK x \in Above : \A b \in Above : x <= b
  BY <1>1, Least
<1>3. ASSUME x \notin S PROVE FALSE
  <2>1. PICK z \in S : TRUE
    OBVIOUS
  <2>2. \A y \in S : y \in Nat /\ y < x
    BY <1>3
  <2>3. x - 1 \in Nat
    BY <2>1, <2>2
  <2>4. x - 1 \in Above
    BY <2>2, <2>3
  <2> QED
    BY <2>4, <1>2
<1> QED
  BY <1>3

-----------------------------------------------------------------------------
(* What f counts at each element of S, as pairs of an element and a number *)
(* so that a sum is the size of a set.                                     *)
Units(S, f) == UNION {{n} \X (1..f[n]) : n \in S}

(* Its elements.                                                           *)
LEMMA UnitOf ==
  ASSUME NEW S, NEW f \in [S -> Nat], NEW x
  PROVE  x \in Units(S, f) <=> \E n \in S : \E i \in 1..f[n] : x = <<n, i>>
BY DEF Units

(* There are finitely many.                                                *)
LEMMA UnitsFinite ==
  ASSUME NEW S, IsFiniteSet(S), NEW f \in [S -> Nat]
  PROVE  IsFiniteSet(Units(S, f)) /\ Cardinality(Units(S, f)) \in Nat
<1> DEFINE F == [n \in S |-> {n} \X (1..f[n])]
           T == {{n} \X (1..f[n]) : n \in S}
<1>1. F \in Surjection(S, T)
  BY DEF Surjection
<1>2. IsFiniteSet(T)
  BY <1>1, FS_Surjection
<1>3. ASSUME NEW n \in S PROVE IsFiniteSet({n} \X (1..f[n]))
  <2>1. IsFiniteSet(1..f[n])
    BY FS_Interval
  <2> QED
    BY <2>1, FS_Singleton, FS_Product
<1>4. IsFiniteSet(Units(S, f))
  BY <1>2, <1>3, FS_UNION DEF Units
<1> QED
  BY <1>4, FS_CardinalityType

(* More of every element is more in all.                                   *)
LEMMA UnitsGrow ==
  ASSUME NEW S, IsFiniteSet(S), NEW f \in [S -> Nat], NEW g \in [S -> Nat], \A n \in S : f[n] <= g[n]
  PROVE  Cardinality(Units(S, f)) <= Cardinality(Units(S, g))
<1>1. \A n \in S : \A i \in 1..f[n] : i \in 1..g[n]
  OBVIOUS
<1>2. Units(S, f) \subseteq Units(S, g)
  BY <1>1, UnitOf
<1> QED
  BY <1>2, UnitsFinite, FS_Subset

(* Nothing at all.                                                         *)
LEMMA NoUnits ==
  ASSUME NEW S, NEW f \in [S -> Nat], \A n \in S : f[n] = 0
  PROVE  Cardinality(Units(S, f)) = 0
<1>1. Units(S, f) = {}
  BY DEF Units
<1> QED
  BY <1>1, FS_EmptySet

(* d more of one element are d more in all.                                *)
LEMMA UnitsAdd ==
  ASSUME NEW S, IsFiniteSet(S), NEW f \in [S -> Nat], NEW g \in [S -> Nat],
         NEW n \in S, NEW d \in Nat, g[n] = f[n] + d, \A m \in S : m # n => g[m] = f[m]
  PROVE  Cardinality(Units(S, g)) = Cardinality(Units(S, f)) + d
<1> DEFINE a == f[n]
           New == {n} \X ((a + 1)..(a + d))
<1>1. a \in Nat /\ g[n] = a + d
  OBVIOUS
<1>2. IsFiniteSet(New) /\ Cardinality(New) = d
  <2> HIDE DEF a
  <2>1. a + 1 \in Int /\ a + d \in Int
    BY <1>1
  <2>2. IsFiniteSet((a + 1)..(a + d)) /\ Cardinality((a + 1)..(a + d)) = d
    BY <1>1, <2>1, FS_Interval
  <2>3. IsFiniteSet(New) /\ Cardinality(New) = Cardinality({n}) * Cardinality((a + 1)..(a + d))
    BY <2>2, FS_Singleton, FS_Product
  <2>4. Cardinality(New) = 1 * d
    BY <2>2, <2>3, FS_Singleton, Zenon
  <2>5. 1 * d = d
    OBVIOUS
  <2> QED
    BY <2>3, <2>4, <2>5, Zenon
<1> HIDE DEF a
<1>3. Units(S, g) = Units(S, f) \cup New
  <2>1. \A i : i \in 1..(a + d) <=> i \in 1..a \/ i \in (a + 1)..(a + d)
    BY <1>1
  <2>2. ASSUME NEW x PROVE x \in Units(S, g) <=> x \in Units(S, f) \cup New
    <3>1. x \in Units(S, g) <=> \E m \in S : \E i \in 1..g[m] : x = <<m, i>>
      BY <1>1, UnitOf
    <3>2. x \in Units(S, f) <=> \E m \in S : \E i \in 1..f[m] : x = <<m, i>>
      BY UnitOf
    <3>3. x \in New <=> \E i \in (a + 1)..(a + d) : x = <<n, i>>
      OBVIOUS
    <3> QED
      BY <1>1, <2>1, <3>1, <3>2, <3>3 DEF a
  <2> QED
    BY <2>2
<1>4. Units(S, f) \cap New = {}
  <2>1. \A i : ~(i \in 1..a /\ i \in (a + 1)..(a + d))
    BY <1>1
  <2> QED
    BY <2>1, UnitOf DEF a
<1>5. Cardinality(Units(S, f) \cup New)
        = Cardinality(Units(S, f)) + Cardinality(New) - Cardinality(Units(S, f) \cap New)
  BY <1>2, UnitsFinite, FS_Union, Zenon
<1> HIDE DEF New
<1>6. Cardinality(Units(S, f)) \in Nat /\ Cardinality(Units(S, f) \cap New) = 0
  BY <1>4, UnitsFinite, FS_EmptySet
<1> QED
  BY <1>2, <1>3, <1>5, <1>6

(* A new element brings its own.                                           *)
LEMMA UnitsOneMore ==
  ASSUME NEW S, IsFiniteSet(S), NEW n, n \notin S, NEW f \in [S -> Nat],
         NEW g \in [S \cup {n} -> Nat], \A m \in S : g[m] = f[m]
  PROVE  Cardinality(Units(S \cup {n}, g)) = Cardinality(Units(S, f)) + g[n]
<1> DEFINE h == [m \in S \cup {n} |-> IF m = n THEN 0 ELSE f[m]]
<1>1. h \in [S \cup {n} -> Nat] /\ h[n] = 0 /\ \A m \in S : h[m] = f[m]
  OBVIOUS
<1>2. IsFiniteSet(S \cup {n})
  BY FS_AddElement
<1> HIDE DEF h
<1>3. Units(S \cup {n}, h) = Units(S, f)
  <2>1. \A i : i \notin 1..0
    OBVIOUS
  <2>2. ASSUME NEW x PROVE x \in Units(S \cup {n}, h) <=> x \in Units(S, f)
    <3>1. x \in Units(S \cup {n}, h) <=> \E m \in S \cup {n} : \E i \in 1..h[m] : x = <<m, i>>
      BY <1>1, UnitOf
    <3>2. x \in Units(S, f) <=> \E m \in S : \E i \in 1..f[m] : x = <<m, i>>
      BY UnitOf
    <3> QED
      BY <1>1, <2>1, <3>1, <3>2
  <2> QED
    BY <2>2
<1>4. g[n] = h[n] + g[n] /\ g[n] \in Nat /\ \A m \in S \cup {n} : m # n => g[m] = h[m]
  BY <1>1
<1>5. Cardinality(Units(S \cup {n}, g)) = Cardinality(Units(S \cup {n}, h)) + g[n]
  BY <1>1, <1>2, <1>4, UnitsAdd
<1> QED
  BY <1>3, <1>5

=============================================================================
