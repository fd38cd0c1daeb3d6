---------------------------- MODULE Totals_proofs ----------------------------
(***************************************************************************)
(* Facts about sums, as TotalOf defines them, and about least and largest  *)
(* numbers, which the proofs of several components cite.                   *)
(***************************************************************************)
EXTENDS Totals, FunctionTheorems, FiniteSetTheorems, WellFoundedInduction, TLAPS

-----------------------------------------------------------------------------
(* Least and largest numbers *)

\* A set of natural numbers has a least one.
LEMMA LeastNumber ==
  ASSUME NEW T \in SUBSET Nat, T # {}
  PROVE  \E x \in T : \A y \in T : x <= y
<1> DEFINE R == OpToRel(<, Nat)
<1>1. IsWellFoundedOn(R, Nat)
  BY NatLessThanWellFounded
<1>2. \A x, y \in T : <<y, x>> \in R <=> y < x
  BY DEF OpToRel
<1> HIDE DEF R
<1>3. PICK x \in T : \A y \in T : ~ (<<y, x>> \in R)
  BY <1>1, WFMin
<1>4. \A y \in T : ~ (y < x)
  BY <1>2, <1>3
<1> QED
  BY <1>3, <1>4

\* A bounded set of natural numbers has a largest one.
LEMMA LargestNumber ==
  ASSUME NEW n \in Nat, NEW T \in SUBSET (0..n), T # {}
  PROVE  \E x \in T : \A y \in T : y <= x
<1> DEFINE D == {n - y : y \in T}
<1>0. \A y \in T : y \in Nat /\ y <= n
  OBVIOUS
<1>1. D \in SUBSET Nat /\ D # {}
  <2>1. \A y \in T : n - y \in Nat
    BY <1>0
  <2> QED
    BY <2>1
<1>2. PICK d \in D : \A e \in D : d <= e
  BY <1>1, LeastNumber
<1>3. PICK x \in T : d = n - x
  BY <1>2
<1>4. \A y \in T : n - y \in D
  OBVIOUS
<1>5. \A y \in T : n - x <= n - y
  BY <1>2, <1>3, <1>4
<1> QED
  BY <1>0, <1>3, <1>5

\* From 0 on, a property that holds of each number after it held of the one before holds
\* of all numbers up to n.
LEMMA UpTo ==
  ASSUME NEW n \in Nat, NEW T, 0 \in T, \A m \in 1..n : m - 1 \in T => m \in T
  PROVE  0..n \subseteq T
<1> SUFFICES ASSUME ~(0..n \subseteq T) PROVE FALSE
  OBVIOUS
<1> DEFINE F == {m \in 0..n : m \notin T}
<1>1. F \in SUBSET Nat /\ F # {}
  OBVIOUS
<1>2. PICK x \in F : \A y \in F : x <= y
  BY <1>1, LeastNumber
<1>3. x \in 0..n /\ x \notin T /\ x # 0
  BY <1>2
<1>4. x - 1 \in 0..n /\ ~(x <= x - 1) /\ x \in 1..n
  BY <1>3
<1>5. x - 1 \in T
  BY <1>2, <1>4
<1> QED
  BY <1>3, <1>4, <1>5

-----------------------------------------------------------------------------
(* Sums *)

LEMMA UnitsOfOne ==
  ASSUME NEW c, NEW n \in Nat
  PROVE  IsFiniteSet({c} \X (1..n)) /\ Cardinality({c} \X (1..n)) = n
<1>1. IsFiniteSet({c}) /\ Cardinality({c}) = 1
  BY FS_Singleton
<1>2. IsFiniteSet(1..n) /\ Cardinality(1..n) = n
  BY FS_Interval
<1>3. /\ IsFiniteSet({c} \X (1..n))
      /\ Cardinality({c} \X (1..n)) = Cardinality({c}) * Cardinality(1..n)
  BY <1>1, <1>2, FS_Product
<1> QED
  BY <1>1, <1>2, <1>3

LEMMA TotalIsNat ==
  ASSUME NEW S, IsFiniteSet(S), NEW f, \A c \in S : f[c] \in Nat
  PROVE  IsFiniteSet(Units(S, f)) /\ TotalOf(S, f) \in Nat
<1> DEFINE Parts == {{c} \X (1..f[c]) : c \in S}
           part == [c \in S |-> {c} \X (1..f[c])]
<1>1. IsFiniteSet(Parts)
  <2>1. part \in Surjection(S, Parts)
    BY DEF Surjection
  <2> HIDE DEF Parts, part
  <2> QED
    BY <2>1, FS_Surjection
<1>2. \A T \in Parts : IsFiniteSet(T)
  <2>1. ASSUME NEW c \in S PROVE IsFiniteSet({c} \X (1..f[c]))
    <3>1. f[c] \in Nat
      OBVIOUS
    <3> QED
      BY <3>1, UnitsOfOne, Zenon
  <2> QED
    BY <2>1
<1>3. IsFiniteSet(UNION Parts)
  <2> HIDE DEF Parts
  <2> QED
    BY <1>1, <1>2, FS_UNION
<1> QED
  BY <1>3, FS_CardinalityType DEF Units, TotalOf

LEMMA TotalOfNone ==
  ASSUME NEW f
  PROVE  TotalOf({}, f) = 0
<1>1. Units({}, f) = {}
  BY DEF Units
<1> QED
  BY <1>1, FS_EmptySet DEF TotalOf

\* The sum depends on the values over the set only.
LEMMA TotalOfSame ==
  ASSUME NEW S, NEW f, NEW g, \A c \in S : f[c] = g[c]
  PROVE  TotalOf(S, f) = TotalOf(S, g)
<1>1. Units(S, f) = Units(S, g)
  BY DEF Units
<1> QED
  BY <1>1 DEF TotalOf

LEMMA TotalWith ==
  ASSUME NEW S, IsFiniteSet(S), NEW f, \A d \in S : f[d] \in Nat,
         NEW c, c \notin S, f[c] \in Nat
  PROVE  TotalOf(S \cup {c}, f) = TotalOf(S, f) + f[c]
<1> DEFINE own == {c} \X (1..f[c])
<1>1. Units(S \cup {c}, f) = Units(S, f) \cup own
  BY DEF Units
<1>2. Units(S, f) \cap own = {}
  BY DEF Units
<1>3. /\ IsFiniteSet(Units(S, f)) /\ Cardinality(Units(S, f)) \in Nat
      /\ IsFiniteSet(own) /\ Cardinality(own) = f[c]
  BY TotalIsNat, UnitsOfOne, Zenon DEF TotalOf
<1> HIDE DEF own
<1>4. Cardinality(Units(S, f) \cup own) =
        Cardinality(Units(S, f)) + Cardinality(own) - Cardinality(Units(S, f) \cap own)
  BY <1>3, FS_Union
<1>5. Cardinality(Units(S, f) \cap own) = 0
  BY <1>2, FS_EmptySet
<1>6. Cardinality(Units(S \cup {c}, f)) = Cardinality(Units(S, f) \cup own)
  BY <1>1, Zenon
<1>7. Cardinality(Units(S \cup {c}, f)) = Cardinality(Units(S, f)) + f[c]
  BY <1>3, <1>4, <1>5, <1>6
<1> QED
  BY <1>7 DEF TotalOf

LEMMA TotalWithout ==
  ASSUME NEW S, IsFiniteSet(S), NEW f, \A d \in S : f[d] \in Nat, NEW c \in S
  PROVE  /\ TotalOf(S \ {c}, f) = TotalOf(S, f) - f[c]
         /\ TotalOf(S, f) >= f[c]
<1>1. IsFiniteSet(S \ {c}) /\ \A d \in S \ {c} : f[d] \in Nat
  BY FS_RemoveElement
<1>2. TotalOf((S \ {c}) \cup {c}, f) = TotalOf(S \ {c}, f) + f[c]
  BY <1>1, TotalWith
<1>3. (S \ {c}) \cup {c} = S
  OBVIOUS
<1>4. TotalOf(S, f) = TotalOf(S \ {c}, f) + f[c]
  BY <1>2, <1>3
<1>5. TotalOf(S \ {c}, f) \in Nat /\ f[c] \in Nat
  BY <1>1, TotalIsNat
<1> QED
  BY <1>4, <1>5

\* A part of a sum is at most the sum.
LEMMA TotalOfPart ==
  ASSUME NEW S, IsFiniteSet(S), NEW T \in SUBSET S, NEW f, \A c \in S : f[c] \in Nat
  PROVE  TotalOf(T, f) <= TotalOf(S, f)
<1>1. Units(T, f) \subseteq Units(S, f)
  BY DEF Units
<1>2. IsFiniteSet(Units(S, f))
  BY TotalIsNat
<1> QED
  BY <1>1, <1>2, FS_Subset DEF TotalOf

\* The same values in another order have the same sum.
LEMMA TotalMoved ==
  ASSUME NEW S, IsFiniteSet(S), NEW T, NEW f, NEW g, NEW b \in Bijection(S, T),
         \A c \in S : f[c] = g[b[c]] /\ f[c] \in Nat
  PROVE  TotalOf(T, g) = TotalOf(S, f)
<1> DEFINE move == [p \in Units(S, f) |-> <<b[p[1]], p[2]>>]
<1>1. /\ \A c \in S : b[c] \in T
      /\ \A t \in T : \E c \in S : b[c] = t
      /\ \A c, d \in S : b[c] = b[d] => c = d
  BY DEF Bijection, Surjection, Injection, IsInjective
<1>2. \A p : p \in Units(S, f) <=> \E c \in S : p \in {c} \X (1..f[c])
  BY DEF Units
<1>3. \A p : p \in Units(T, g) <=> \E t \in T : p \in {t} \X (1..g[t])
  BY DEF Units
<1>4. \A p \in Units(S, f) : p[1] \in S /\ p[2] \in 1..f[p[1]] /\ p = <<p[1], p[2]>>
  BY <1>2
<1>5. \A p \in Units(S, f) : move[p] \in Units(T, g)
  BY <1>1, <1>3, <1>4
<1>6. \A q \in Units(T, g) : \E p \in Units(S, f) : move[p] = q
  <2> SUFFICES ASSUME NEW q \in Units(T, g) PROVE \E p \in Units(S, f) : move[p] = q
    OBVIOUS
  <2>1. PICK t \in T : q \in {t} \X (1..g[t])
    BY <1>3
  <2>2. PICK c \in S : b[c] = t
    BY <1>1
  <2>3. <<c, q[2]>> \in Units(S, f)
    BY <1>2, <2>1, <2>2
  <2>4. move[<<c, q[2]>>] = q
    BY <2>1, <2>2, <2>3
  <2> QED
    BY <2>3, <2>4
<1>7. \A p, q \in Units(S, f) : move[p] = move[q] => p = q
  BY <1>1, <1>4
<1>8. move \in [Units(S, f) -> Units(T, g)]
  BY <1>5
<1>9. move \in Bijection(Units(S, f), Units(T, g))
  <2> HIDE DEF move
  <2> QED
    BY <1>6, <1>7, <1>8 DEF Bijection, Surjection, Injection, IsInjective
<1>10. IsFiniteSet(Units(S, f))
  BY TotalIsNat
<1>11. ExistsBijection(Units(S, f), Units(T, g))
  BY <1>9 DEF ExistsBijection
<1> QED
  BY <1>10, <1>11, FS_Bijection DEF TotalOf
=============================================================================
