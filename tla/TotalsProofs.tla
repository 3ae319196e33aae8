---------------------------- MODULE TotalsProofs ----------------------------
(* Facts about Total for functions from a finite set to naturals.           *)
EXTENDS Totals, Integers, FiniteSetTheorems, TLAPS

LEMMA UnitsFinite ==
  ASSUME NEW S, IsFiniteSet(S), NEW f \in [S -> Nat]
  PROVE  IsFiniteSet(Units(f))
  <1> DEFINE Of(x) == {x} \X (1..f[x])
             All == {Of(x) : x \in S}
  <1>1. IsFiniteSet(All)
    <2> DEFINE F == [x \in S |-> Of(x)]
    <2>1. F \in Surjection(S, All)
      BY DEF Surjection
    <2> QED
      BY <2>1, FS_Surjection
  <1>2. ASSUME NEW T \in All PROVE IsFiniteSet(T)
    <2>1. PICK x \in S : T = Of(x)
      BY <1>2
    <2>2. IsFiniteSet(1..f[x])
      BY FS_Interval, f[x] \in Nat
    <2>3. IsFiniteSet({x})
      BY FS_Singleton
    <2> QED
      BY <2>1, <2>2, <2>3, FS_Product
  <1>3. Units(f) = UNION All
    BY DEF Units
  <1> QED
    BY <1>1, <1>2, <1>3, FS_UNION

LEMMA TotalType ==
  ASSUME NEW S, IsFiniteSet(S), NEW f \in [S -> Nat]
  PROVE  Total(f) \in Nat
  BY UnitsFinite, FS_CardinalityType DEF Total

LEMMA TotalZero ==
  ASSUME NEW S, NEW f \in [S -> Nat], \A x \in S : f[x] = 0
  PROVE  Total(f) = 0
  <1>1. Units(f) = {}
    BY DEF Units
  <1> QED
    BY <1>1, FS_EmptySet DEF Total

(* A larger function has a larger total. *)
LEMMA TotalMonotone ==
  ASSUME NEW S, IsFiniteSet(S), NEW f \in [S -> Nat], NEW g \in [S -> Nat],
         \A x \in S : f[x] <= g[x]
  PROVE  Total(f) <= Total(g)
  <1>1. ASSUME NEW u \in Units(f) PROVE u \in Units(g)
    <2>1. PICK x \in S : u \in {x} \X (1..f[x])
      BY DEF Units
    <2>2. 1..f[x] \subseteq 1..g[x]
      BY f[x] \in Nat, g[x] \in Nat, f[x] <= g[x]
    <2>3. u \in {x} \X (1..g[x])
      BY <2>1, <2>2
    <2> QED
      BY <2>3 DEF Units
  <1> QED
    BY <1>1, UnitsFinite, FS_Subset DEF Total

(* A change at one place changes the total by as much. *)
LEMMA TotalChange ==
  ASSUME NEW S, IsFiniteSet(S), NEW f \in [S -> Nat], NEW g \in [S -> Nat],
         NEW x \in S, \A y \in S : y # x => g[y] = f[y]
  PROVE  Total(g) = Total(f) - f[x] + g[x]
  <1> DEFINE Of(h) == {x} \X (1..h[x])
             Rest == UNION {{y} \X (1..f[y]) : y \in S \ {x}}
  <1>1. ASSUME NEW h \in [S -> Nat], \A y \in S : y # x => h[y] = f[y]
        PROVE  IsFiniteSet(Rest) /\ Total(h) = Cardinality(Rest) + h[x]
    <2>1. Units(h) = Rest \union Of(h)
      <3>1. \A y \in S \ {x} : {y} \X (1..h[y]) = {y} \X (1..f[y])
        BY <1>1
      <3> QED
        BY <3>1 DEF Units
    <2>2. Rest \cap Of(h) = {}
      OBVIOUS
    <2>3. IsFiniteSet(Units(h))
      BY UnitsFinite
    <2>4. IsFiniteSet(Rest) /\ IsFiniteSet(Of(h))
      BY <2>1, <2>3, FS_Subset
    <2>5. Cardinality(Of(h)) = h[x]
      <3>1. h[x] \in Nat
        OBVIOUS
      <3>2. IsFiniteSet(1..h[x]) /\ Cardinality(1..h[x]) = h[x]
        BY <3>1, FS_Interval
      <3>3. IsFiniteSet({x}) /\ Cardinality({x}) = 1
        BY FS_Singleton
      <3>4. Cardinality(Of(h)) = 1 * h[x]
        BY <3>2, <3>3, FS_Product
      <3> QED
        BY <3>1, <3>4
    <2>6. Cardinality(Units(h)) = Cardinality(Rest) + Cardinality(Of(h))
      <3>1. Cardinality(Rest) \in Nat /\ Cardinality(Of(h)) \in Nat
        BY <2>4, FS_CardinalityType
      <3>2. Cardinality(Rest \union Of(h))
              = Cardinality(Rest) + Cardinality(Of(h)) - Cardinality({})
        BY <2>2, <2>4, FS_Union
      <3> QED
        BY <2>1, <3>1, <3>2, FS_EmptySet
    <2> QED
      BY <2>4, <2>5, <2>6 DEF Total
  <1>2. Total(f) = Cardinality(Rest) + f[x] /\ Total(g) = Cardinality(Rest) + g[x]
    BY <1>1
  <1>3. Cardinality(Rest) \in Nat
    BY <1>1, FS_CardinalityType
  <1>4. f[x] \in Nat /\ g[x] \in Nat
    OBVIOUS
  <1> DEFINE k == Cardinality(Rest)
  <1>5. k \in Nat /\ Total(f) = k + f[x] /\ Total(g) = k + g[x]
    BY <1>2, <1>3
  <1> HIDE DEF k
  <1> QED
    BY <1>4, <1>5

(* No value is larger than the total. *)
LEMMA TotalPart ==
  ASSUME NEW S, IsFiniteSet(S), NEW f \in [S -> Nat], NEW x \in S
  PROVE  f[x] <= Total(f)
  <1> DEFINE g == [f EXCEPT ![x] = 0]
  <1>1. g \in [S -> Nat] /\ g[x] = 0 /\ \A y \in S : y # x => g[y] = f[y]
    OBVIOUS
  <1> HIDE DEF g
  <1>2. Total(g) \in Nat /\ Total(f) \in Nat
    BY <1>1, TotalType
  <1>3. Total(g) = Total(f) - f[x] + g[x]
    BY <1>1, TotalChange
  <1> QED
    BY <1>1, <1>2, <1>3, f[x] \in Nat
=============================================================================
