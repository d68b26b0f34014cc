------------------------------ MODULE SumLemmas -----------------------------
(***************************************************************************)
(* What the proofs need to know about sums: how a total changes with one   *)
(* item, when it is 0, and that it grows with its items.                   *)
(***************************************************************************)
EXTENDS Sums, FiniteSetTheorems, FunctionTheorems, TLAPS

Positive(n) == IF n > 0 THEN n ELSE 0

\* An item of n bytes has n units.
LEMMA UnitsOfCount ==
  ASSUME NEW x, NEW n \in Int
  PROVE  IsFiniteSet(UnitsOf(x, n)) /\ Cardinality(UnitsOf(x, n)) = Positive(n)
<1>1. IsFiniteSet({x}) /\ Cardinality({x}) = 1
  BY FS_Singleton
<1>2. IsFiniteSet(1 .. n) /\ Cardinality(1 .. n) = Positive(n)
  BY FS_Interval DEF Positive
<1>3. IsFiniteSet(UnitsOf(x, n)) /\ Cardinality(UnitsOf(x, n)) = Cardinality({x}) * Cardinality(1 .. n)
  BY <1>1, <1>2, FS_Product DEF UnitsOf
<1> QED
  BY <1>1, <1>2, <1>3 DEF Positive

\* There are finitely many units.
LEMMA UnitsAreFinite ==
  ASSUME NEW D, IsFiniteSet(D), NEW f \in [D -> Int]
  PROVE  IsFiniteSet(Units(f)) /\ Cardinality(Units(f)) \in Nat
<1> DEFINE U == [x \in D |-> UnitsOf(x, f[x])]
           R == {UnitsOf(x, f[x]) : x \in DOMAIN f}
<1>1. U \in Surjection(D, R)
  BY DEF Surjection
<1>2. IsFiniteSet(R)
  BY <1>1, FS_Surjection
<1>3. \A T \in R : IsFiniteSet(T)
  BY UnitsOfCount
<1>4. IsFiniteSet(Units(f))
  BY <1>2, <1>3, FS_UNION DEF Units
<1> QED
  BY <1>4, FS_CardinalityType

\* One item changes: so do its units.
LEMMA UnitsChange ==
  ASSUME NEW D, IsFiniteSet(D), NEW f \in [D -> Int], NEW g \in [D -> Int], NEW x \in D,
         \A y \in D \ {x} : g[y] = f[y]
  PROVE  Cardinality(Units(g)) = Cardinality(Units(f)) - Positive(f[x]) + Positive(g[x])
<1> DEFINE Rest == UNION {UnitsOf(y, f[y]) : y \in D \ {x}}
<1>1. Units(f) = Rest \cup UnitsOf(x, f[x])
  BY DEF Units
<1>2. Units(g) = Rest \cup UnitsOf(x, g[x])
  BY DEF Units
<1>3. Rest \cap UnitsOf(x, f[x]) = {} /\ Rest \cap UnitsOf(x, g[x]) = {}
  BY DEF UnitsOf
<1>4. IsFiniteSet(Rest)
  <2>1. IsFiniteSet(Units(f)) /\ Rest \in SUBSET Units(f)
    BY <1>1, UnitsAreFinite
  <2> QED
    BY <2>1, FS_Subset
<1> HIDE DEF Rest
<1>5. f[x] \in Int /\ g[x] \in Int /\ Cardinality(Rest) \in Nat
  BY <1>4, FS_CardinalityType
<1>6. ASSUME NEW n \in Int, Rest \cap UnitsOf(x, n) = {}
      PROVE  Cardinality(Rest \cup UnitsOf(x, n)) = Cardinality(Rest) + Positive(n)
  <2>1. IsFiniteSet(UnitsOf(x, n)) /\ Cardinality(UnitsOf(x, n)) = Positive(n)
    BY UnitsOfCount
  <2>2. Cardinality(Rest \cup UnitsOf(x, n)) =
          Cardinality(Rest) + Cardinality(UnitsOf(x, n)) - Cardinality(Rest \cap UnitsOf(x, n))
    BY <1>4, <2>1, FS_Union
  <2>3. Cardinality(Rest \cap UnitsOf(x, n)) = 0
    BY <1>6, FS_EmptySet
  <2> QED
    BY <1>5, <2>1, <2>2, <2>3 DEF Positive
<1>7. Cardinality(Units(f)) = Cardinality(Rest) + Positive(f[x])
  BY <1>1, <1>3, <1>5, <1>6
<1>8. Cardinality(Units(g)) = Cardinality(Rest) + Positive(g[x])
  BY <1>2, <1>3, <1>5, <1>6
<1> QED
  BY <1>5, <1>7, <1>8 DEF Positive

LEMMA NegatedType ==
  ASSUME NEW D, NEW f \in [D -> Int]
  PROVE  Negated(f) \in [D -> Int] /\ \A x \in D : Negated(f)[x] = -f[x]
BY DEF Negated

\* The total is a number.
LEMMA SumType ==
  ASSUME NEW D, IsFiniteSet(D), NEW f \in [D -> Int]
  PROVE  Sum(f) \in Int
BY NegatedType, UnitsAreFinite DEF Sum

\* One item changes: the total changes by the difference.
LEMMA SumChange ==
  ASSUME NEW D, IsFiniteSet(D), NEW f \in [D -> Int], NEW g \in [D -> Int], NEW x \in D,
         \A y \in D \ {x} : g[y] = f[y]
  PROVE  Sum(g) = Sum(f) - f[x] + g[x]
<1>1. /\ Negated(f) \in [D -> Int] /\ Negated(g) \in [D -> Int]
      /\ Negated(f)[x] = -f[x] /\ Negated(g)[x] = -g[x]
      /\ \A y \in D \ {x} : Negated(g)[y] = Negated(f)[y]
  BY NegatedType
<1>2. Cardinality(Units(g)) = Cardinality(Units(f)) - Positive(f[x]) + Positive(g[x])
  BY UnitsChange
<1>3. Cardinality(Units(Negated(g))) =
        Cardinality(Units(Negated(f))) - Positive(Negated(f)[x]) + Positive(Negated(g)[x])
  BY <1>1, UnitsChange
<1>4. /\ Cardinality(Units(f)) \in Nat /\ Cardinality(Units(g)) \in Nat
      /\ Cardinality(Units(Negated(f))) \in Nat /\ Cardinality(Units(Negated(g))) \in Nat
  BY <1>1, UnitsAreFinite
<1>5. f[x] \in Int /\ g[x] \in Int
  OBVIOUS
<1> QED
  BY <1>1, <1>2, <1>3, <1>4, <1>5 DEF Sum, Positive

\* More of each is more in total.
LEMMA SumMono ==
  ASSUME NEW D, IsFiniteSet(D), NEW f \in [D -> Int], NEW g \in [D -> Int],
         \A x \in D : f[x] <= g[x]
  PROVE  Sum(f) <= Sum(g)
<1>1. /\ Negated(f) \in [D -> Int] /\ Negated(g) \in [D -> Int]
      /\ \A x \in D : Negated(f)[x] = -f[x] /\ Negated(g)[x] = -g[x]
  BY NegatedType
<1>2. Units(f) \in SUBSET Units(g)
  BY DEF Units, UnitsOf
<1>3. \A x \in D : Negated(g)[x] <= Negated(f)[x]
  BY <1>1
<1>4. Units(Negated(g)) \in SUBSET Units(Negated(f))
  BY <1>1, <1>3 DEF Units, UnitsOf
<1>5. Cardinality(Units(f)) <= Cardinality(Units(g))
  BY <1>2, UnitsAreFinite, FS_Subset
<1>6. Cardinality(Units(Negated(g))) <= Cardinality(Units(Negated(f)))
  BY <1>1, <1>4, UnitsAreFinite, FS_Subset
<1>7. /\ Cardinality(Units(f)) \in Nat /\ Cardinality(Units(g)) \in Nat
      /\ Cardinality(Units(Negated(f))) \in Nat /\ Cardinality(Units(Negated(g))) \in Nat
  BY <1>1, UnitsAreFinite
<1> QED
  BY <1>5, <1>6, <1>7 DEF Sum

\* Nothing adds up to nothing.
LEMMA SumZero ==
  ASSUME NEW D, NEW f \in [D -> Int], \A x \in D : f[x] = 0
  PROVE  Sum(f) = 0
<1>1. Units(f) = {}
  BY DEF Units, UnitsOf
<1>2. Units(Negated(f)) = {}
  BY NegatedType DEF Units, UnitsOf
<1> QED
  BY <1>1, <1>2, FS_EmptySet DEF Sum

\* A total of natural numbers is one.
LEMMA SumIsNat ==
  ASSUME NEW D, IsFiniteSet(D), NEW f \in [D -> Int], \A x \in D : f[x] >= 0
  PROVE  Sum(f) \in Nat
<1> DEFINE z == [x \in D |-> 0]
<1>1. z \in [D -> Int] /\ \A x \in D : z[x] = 0
  OBVIOUS
<1> HIDE DEF z
<1>2. Sum(z) = 0
  BY <1>1, SumZero
<1>3. Sum(z) <= Sum(f)
  BY <1>1, SumMono
<1> QED
  BY <1>2, <1>3, SumType
=============================================================================
