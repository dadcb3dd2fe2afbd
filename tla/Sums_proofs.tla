------------------------------ MODULE Sums_proofs ------------------------------
(***************************************************************************)
(* Sums over finite sets, SumFunction of the community modules, which what *)
(* a search has kept and a queue has buffered are accounted with.  It is a *)
(* recursive function of a set: the proofs are by induction on cardinality,*)
(* in the form of NatSetInduction, which has a set for its hypothesis and  *)
(* follows from the well-foundedness of inclusion among finite sets.       *)
(***************************************************************************)
EXTENDS Integers, Functions, FiniteSetTheorems, WellFoundedInduction, TLAPS

(* Induction over the natural numbers, for a set of them. *)
LEMMA NatSetInduction ==
  ASSUME NEW S \in SUBSET Nat, 0 \in S, \A n \in S : n + 1 \in S
  PROVE  S = Nat
<1>. DEFINE T == {0 .. n : n \in Nat \ S}
<1>1. SUFFICES ASSUME Nat \ S # {} PROVE FALSE
  OBVIOUS
<1>2. T \subseteq FiniteSubsetsOf(Nat) /\ T # {}
  <2>1. ASSUME NEW n \in Nat PROVE IsFiniteSet(0 .. n)
    <3>1. 0 \in Int /\ n \in Int
      OBVIOUS
    <3>. QED  BY <3>1, FS_Interval
  <2>2. \A n \in Nat : 0 .. n \in SUBSET Nat
    OBVIOUS
  <2>. QED  BY <1>1, <2>1, <2>2 DEF FiniteSubsetsOf
<1>3. PICK x \in T : \A y \in T : <<y, x>> \notin StrictSubsetOrdering(Nat)
  <2>. HIDE DEF T
  <2>. QED BY <1>2, FS_StrictSubsetOrderingWellFounded, WFMin
<1>4. PICK n \in Nat \ S : x = 0 .. n
  BY <1>3
<1>5. n - 1 \in Nat \ S
  BY <1>4
<1>6. <<0 .. n - 1, 0 .. n>> \in StrictSubsetOrdering(Nat)
  BY <1>4 DEF StrictSubsetOrdering
<1>. QED
  BY <1>3, <1>4, <1>5, <1>6

(* The element that is summed first. *)
First(s) == CHOOSE x \in s : TRUE

(* The sum over s, given those over its parts. *)
Added(f, g, s) == IF s = {} THEN 0 ELSE f[First(s)] + g[s \ {First(s)}]

AllSums(f, S, g) == [s \in SUBSET S |-> Added(f, g, s)]

Partial(f, S) == CHOOSE g : g = AllSums(f, S, g)

(* The recursive function that SumFunctionOnSet is defined with. *)
LEMMA SumIsPartial ==
  ASSUME NEW f, NEW S
  PROVE SumFunctionOnSet(f, S) = Partial(f, S)[S]
BY DEF SumFunctionOnSet, FoldFunctionOnSet, MapThenFoldSet, Partial, AllSums, Added, First

(* Without its first element, a set is smaller. *)
LEMMA Smaller ==
  ASSUME NEW S, IsFiniteSet(S), NEW s \in SUBSET S, s # {}
  PROVE  /\ First(s) \in s /\ s \ {First(s)} \in SUBSET S /\ IsFiniteSet(s) /\ IsFiniteSet(s \ {First(s)})
         /\ Cardinality(s) \in Nat /\ Cardinality(s \ {First(s)}) \in Nat
         /\ Cardinality(s) = Cardinality(s \ {First(s)}) + 1
<1>1. First(s) \in s
  BY DEF First
<1>2. IsFiniteSet(s)
  BY FS_Subset
<1>3. IsFiniteSet(s \ {First(s)}) /\ Cardinality(s \ {First(s)}) = Cardinality(s) - 1
  BY <1>1, <1>2, FS_RemoveElement
<1>4. Cardinality(s) \in Nat /\ Cardinality(s \ {First(s)}) \in Nat
  BY <1>2, <1>3, FS_CardinalityType
<1>. QED  BY <1>1, <1>2, <1>3, <1>4

(* There is such a function: one for the sets of at most n elements, for  *)
(* every n.                                                                *)
LEMMA PartialExists ==
  ASSUME NEW f, NEW S, IsFiniteSet(S)
  PROVE  Partial(f, S) = AllSums(f, S, Partial(f, S))
<1>. DEFINE W(n) == {s \in SUBSET S : Cardinality(s) <= n}
            N == {n \in Nat : \E g : \A s \in W(n) : g[s] = Added(f, g, s)}
<1>1. 0 \in N
  <2>1. \A s \in W(0) : s = {}
    BY Smaller, FS_Subset, FS_EmptySet, FS_CardinalityType
  <2>. DEFINE g == [s \in SUBSET S |-> 0]
  <2>2. \A s \in W(0) : g[s] = Added(f, g, s)
    BY <2>1 DEF Added
  <2>. QED  BY <2>2
<1>2. ASSUME NEW n \in N PROVE n + 1 \in N
  <2>1. PICK g : \A s \in W(n) : g[s] = Added(f, g, s)
    OBVIOUS
  <2>. DEFINE h == [s \in SUBSET S |-> IF s \in W(n) THEN g[s] ELSE Added(f, g, s)]
  <2>2. ASSUME NEW s \in W(n + 1), s # {} PROVE s \ {First(s)} \in W(n)
    <3>1. /\ s \ {First(s)} \in SUBSET S
          /\ Cardinality(s) \in Nat /\ Cardinality(s \ {First(s)}) \in Nat
          /\ Cardinality(s) = Cardinality(s \ {First(s)}) + 1
      BY <2>2, Smaller
    <3>. QED  BY <2>2, <3>1
  <2>. DEFINE V == W(n)
              U == W(n + 1)
  <2>3a. \A s \in V : h[s] = g[s]
    OBVIOUS
  <2>3b. \A s \in U : h[s] = Added(f, g, s)
    BY <2>1
  <2>3c. \A s \in U : s # {} => s \ {First(s)} \in V
    BY <2>2
  <2>. HIDE DEF V, h
  <2>4. \A s \in W(n + 1) : h[s] = Added(f, h, s)
    <3>. SUFFICES ASSUME NEW s \in W(n + 1) PROVE h[s] = Added(f, h, s)
      OBVIOUS
    <3>1. h[s] = Added(f, g, s)
      BY <2>3b
    <3>2. CASE s = {}
      BY <3>1, <3>2 DEF Added
    <3>3. CASE s # {}
      <4>1. h[s \ {First(s)}] = g[s \ {First(s)}]
        BY <2>3a, <2>3c, <3>3
      <4>. QED  BY <3>1, <3>3, <4>1 DEF Added
    <3>. QED  BY <3>2, <3>3
  <2>5. \E q : \A s \in W(n + 1) : q[s] = Added(f, q, s)
    BY <2>4
  <2>. QED  BY <2>5
<1>3. N = Nat
  <2>. HIDE DEF N
  <2>1. N \in SUBSET Nat
    BY DEF N
  <2>. QED  BY <1>1, <1>2, <2>1, NatSetInduction
<1>4. Cardinality(S) \in N
  BY <1>3, FS_CardinalityType
<1>5. SUBSET S = W(Cardinality(S))
  BY FS_Subset
<1>6. PICK g : \A s \in SUBSET S : g[s] = Added(f, g, s)
  BY <1>4, <1>5
<1>. DEFINE h == [s \in SUBSET S |-> g[s]]
<1>7. \A s \in SUBSET S : Added(f, g, s) = Added(f, h, s)
  BY Smaller DEF Added
<1>8. h = AllSums(f, S, h)
  <2>1. h = [s \in SUBSET S |-> Added(f, g, s)]
    BY <1>6
  <2>2. [s \in SUBSET S |-> Added(f, g, s)] = [s \in SUBSET S |-> Added(f, h, s)]
    BY <1>7
  <2>. QED  BY <2>1, <2>2 DEF AllSums
<1>. HIDE DEF h
<1>. QED  BY <1>8 DEF Partial

(* It adds up. *)
LEMMA PartialAdds ==
  ASSUME NEW f, NEW S, IsFiniteSet(S), NEW s \in SUBSET S
  PROVE  Partial(f, S)[s] = Added(f, Partial(f, S), s)
<1>1. Partial(f, S) = AllSums(f, S, Partial(f, S))
  BY PartialExists
<1>. DEFINE g == Partial(f, S)
<1>. HIDE DEF g
<1>2. g = [t \in SUBSET S |-> Added(f, g, t)]
  BY <1>1 DEF AllSums, g
<1>3. g[s] = Added(f, g, s)
  BY <1>2
<1>. QED  BY <1>3 DEF g

(* A sum does not depend on the set that it is a part of, nor on what is   *)
(* not summed.                                                             *)
LEMMA SamePartial ==
  ASSUME NEW f, NEW g, NEW S, IsFiniteSet(S), NEW T \in SUBSET S, \A x \in T : f[x] = g[x]
  PROVE  \A s \in SUBSET T : Partial(f, S)[s] = Partial(g, T)[s]
<1>. DEFINE N == {n \in Nat : \A s \in SUBSET T : Cardinality(s) = n => Partial(f, S)[s] = Partial(g, T)[s]}
<1>0. IsFiniteSet(T)
  BY FS_Subset
<1>1. \A s \in SUBSET T : s \in SUBSET S /\ Cardinality(s) \in Nat
  BY FS_Subset, FS_CardinalityType
<1>2. Partial(f, S)[{}] = Partial(g, T)[{}]
  BY <1>0, PartialAdds DEF Added
<1>3. 0 \in N
  <2>1. \A s \in SUBSET T : Cardinality(s) = 0 => s = {}
    BY <1>0, FS_Subset, FS_EmptySet
  <2>. QED  BY <1>2, <2>1
<1>4. ASSUME NEW n \in N PROVE n + 1 \in N
  <2>. SUFFICES ASSUME NEW s \in SUBSET T, Cardinality(s) = n + 1
                PROVE  Partial(f, S)[s] = Partial(g, T)[s]
    OBVIOUS
  <2>1. s # {}
    <3>1. Cardinality({}) = 0 /\ n \in Nat
      BY FS_EmptySet
    <3>. QED  BY <3>1
  <2>. DEFINE r == s \ {First(s)}
  <2>2. First(s) \in T /\ r \in SUBSET T /\ Cardinality(r) = n
    <3>1. /\ First(s) \in s /\ r \in SUBSET T /\ Cardinality(r) \in Nat
          /\ Cardinality(s) = Cardinality(r) + 1
      BY <1>0, <2>1, Smaller
    <3>. QED  BY <3>1
  <2>3. Partial(f, S)[r] = Partial(g, T)[r]
    BY <2>2
  <2>4. Partial(f, S)[s] = f[First(s)] + Partial(f, S)[r]
    BY <1>1, <2>1, PartialAdds DEF Added
  <2>5. Partial(g, T)[s] = g[First(s)] + Partial(g, T)[r]
    BY <1>0, <2>1, PartialAdds DEF Added
  <2>. QED  BY <2>2, <2>3, <2>4, <2>5
<1>5. N = Nat
  <2>. HIDE DEF N
  <2>1. N \in SUBSET Nat
    BY DEF N
  <2>. QED  BY <1>3, <1>4, <2>1, NatSetInduction
<1>. QED  BY <1>1, <1>5

LEMMA PartOfSum ==
  ASSUME NEW f, NEW S, IsFiniteSet(S), NEW T \in SUBSET S
  PROVE  Partial(f, S)[T] = Partial(f, T)[T]
<1>1. \A x \in T : f[x] = f[x]
  OBVIOUS
<1>2. \A s \in SUBSET T : Partial(f, S)[s] = Partial(f, T)[s]
  BY <1>1, SamePartial
<1>. QED  BY <1>2

(* The first element and the sum of the others. *)
LEMMA SumAddsFirst ==
  ASSUME NEW f, NEW S, IsFiniteSet(S), S # {}
  PROVE  SumFunctionOnSet(f, S) = f[First(S)] + SumFunctionOnSet(f, S \ {First(S)})
<1>. DEFINE r == S \ {First(S)}
<1>1. r \in SUBSET S
  OBVIOUS
<1>2. Partial(f, S)[S] = f[First(S)] + Partial(f, S)[r]
  BY PartialAdds DEF Added
<1>3. Partial(f, S)[r] = Partial(f, r)[r]
  <2>. HIDE DEF r
  <2>. QED  BY <1>1, PartOfSum
<1>4. SumFunctionOnSet(f, S) = Partial(f, S)[S] /\ SumFunctionOnSet(f, r) = Partial(f, r)[r]
  BY SumIsPartial
<1>. HIDE DEF r
<1>5. SumFunctionOnSet(f, S) = f[First(S)] + SumFunctionOnSet(f, r)
  BY <1>2, <1>3, <1>4
<1>. QED  BY <1>5 DEF r

(* Nothing sums to 0. *)
LEMMA SumEmpty == ASSUME NEW f PROVE SumFunctionOnSet(f, {}) = 0
<1>1. IsFiniteSet({})
  BY FS_EmptySet
<1>2. Partial(f, {})[{}] = 0
  BY <1>1, PartialAdds DEF Added
<1>. QED  BY <1>2, SumIsPartial

(* A sum depends on what is summed only. *)
LEMMA SumSame ==
  ASSUME NEW f, NEW g, NEW S, IsFiniteSet(S), \A x \in S : f[x] = g[x]
  PROVE  SumFunctionOnSet(f, S) = SumFunctionOnSet(g, S)
BY SamePartial, SumIsPartial

(* A sum of numbers is a number. *)
LEMMA SumIsNat ==
  ASSUME NEW f, NEW S, IsFiniteSet(S), \A x \in S : f[x] \in Nat
  PROVE  SumFunctionOnSet(f, S) \in Nat
<1>. DEFINE N == {n \in Nat : \A s \in SUBSET S : Cardinality(s) = n => SumFunctionOnSet(f, s) \in Nat}
<1>1. 0 \in N
  BY SumEmpty, FS_Subset, FS_EmptySet
<1>2. ASSUME NEW n \in N PROVE n + 1 \in N
  <2>. SUFFICES ASSUME NEW s \in SUBSET S, Cardinality(s) = n + 1
                PROVE  SumFunctionOnSet(f, s) \in Nat
    OBVIOUS
  <2>1. s # {} /\ IsFiniteSet(s)
    BY FS_EmptySet, FS_Subset
  <2>. DEFINE r == s \ {First(s)}
  <2>2. First(s) \in S /\ r \in SUBSET S /\ Cardinality(r) = n
    BY <2>1, Smaller
  <2>3. SumFunctionOnSet(f, s) = f[First(s)] + SumFunctionOnSet(f, r)
    BY <2>1, SumAddsFirst
  <2>. QED  BY <2>2, <2>3
<1>3. N = Nat
  <2>. HIDE DEF N
  <2>1. N \in SUBSET Nat
    BY DEF N
  <2>. QED  BY <1>1, <1>2, <2>1, NatSetInduction
<1>. QED  BY <1>3, FS_CardinalityType

(* Any element may be summed first. *)
LEMMA SumRemoves ==
  ASSUME NEW f, NEW S, IsFiniteSet(S), \A x \in S : f[x] \in Nat
  PROVE  \A x \in S : SumFunctionOnSet(f, S) = f[x] + SumFunctionOnSet(f, S \ {x})
<1>. DEFINE N == {n \in Nat : \A s \in SUBSET S : Cardinality(s) = n =>
                    \A x \in s : SumFunctionOnSet(f, s) = f[x] + SumFunctionOnSet(f, s \ {x})}
<1>1. 0 \in N
  BY FS_Subset, FS_EmptySet
<1>2. ASSUME NEW n \in N PROVE n + 1 \in N
  <2>. SUFFICES ASSUME NEW s \in SUBSET S, Cardinality(s) = n + 1, NEW x \in s
                PROVE  SumFunctionOnSet(f, s) = f[x] + SumFunctionOnSet(f, s \ {x})
    OBVIOUS
  <2>. DEFINE y == First(s)
              r == s \ {y}
              q == s \ {x}
              b == r \ {x}
  <2>1. s # {} /\ IsFiniteSet(s) /\ y \in s
    BY FS_Subset DEF First
  <2>2. SumFunctionOnSet(f, s) = f[y] + SumFunctionOnSet(f, r)
    BY <2>1, SumAddsFirst
  <2>3. CASE x = y
    BY <2>2, <2>3
  <2>4. CASE x # y
    <3>1. /\ r \in SUBSET S /\ q \in SUBSET S /\ x \in r /\ y \in q /\ b = q \ {y} /\ b \in SUBSET S
          /\ Cardinality(r) = n /\ Cardinality(q) = n
      <4>1. Cardinality(r) = Cardinality(s) - 1 /\ Cardinality(q) = Cardinality(s) - 1
        BY <2>1, FS_RemoveElement
      <4>2. Cardinality(r) = n /\ Cardinality(q) = n
        BY <4>1
      <4>. QED  BY <2>1, <2>4, <4>2
    <3>2. SumFunctionOnSet(f, r) = f[x] + SumFunctionOnSet(f, b)
      BY <3>1
    <3>3. SumFunctionOnSet(f, q) = f[y] + SumFunctionOnSet(f, b)
      BY <3>1
    <3>4. f[x] \in Nat /\ f[y] \in Nat /\ SumFunctionOnSet(f, b) \in Nat
      BY <2>1, <3>1, FS_Subset, SumIsNat
    <3>. QED  BY <2>2, <3>2, <3>3, <3>4
  <2>. QED  BY <2>3, <2>4
<1>3. N = Nat
  <2>. HIDE DEF N
  <2>1. N \in SUBSET Nat
    BY DEF N
  <2>. QED  BY <1>1, <1>2, <2>1, NatSetInduction
<1>. QED  BY <1>3, FS_CardinalityType

(* What joins a sum is added to it. *)
LEMMA SumAdds ==
  ASSUME NEW f, NEW g, NEW x, IsFiniteSet(DOMAIN f), x \notin DOMAIN f, DOMAIN g = DOMAIN f \union {x},
         \A y \in DOMAIN f : g[y] = f[y], \A y \in DOMAIN g : g[y] \in Nat
  PROVE  SumFunction(g) = SumFunction(f) + g[x] /\ SumFunction(f) \in Nat
<1>. DEFINE S == DOMAIN f
            T == DOMAIN g
<1>1. IsFiniteSet(T) /\ T \ {x} = S /\ x \in T
  BY FS_AddElement
<1>2. SumFunctionOnSet(g, T) = g[x] + SumFunctionOnSet(g, S)
  BY <1>1, SumRemoves
<1>3. SumFunctionOnSet(f, S) = SumFunctionOnSet(g, S)
  BY SumSame
<1>4. SumFunctionOnSet(g, S) \in Nat
  BY SumIsNat
<1>. QED  BY <1>1, <1>2, <1>3, <1>4 DEF SumFunction

(* g extends f by the elements of T, each of weight c. *)
GrowsBy(f, g, T, c) ==
  /\ IsFiniteSet(DOMAIN f) /\ IsFiniteSet(T) /\ c \in Nat
  /\ T \intersect DOMAIN f = {} /\ DOMAIN g = DOMAIN f \union T
  /\ \A y \in DOMAIN f : g[y] = f[y] /\ f[y] \in Nat
  /\ \A y \in T : g[y] = c

(* What joins a sum is added to it. *)
LEMMA SumGrows ==
  ASSUME NEW f, NEW g, NEW T, NEW c, GrowsBy(f, g, T, c)
  PROVE  SumFunction(g) = SumFunction(f) + Cardinality(T) * c
<1>. USE DEF GrowsBy
<1>. DEFINE S == DOMAIN f
            N == {n \in Nat : \A t \in SUBSET T : Cardinality(t) = n =>
                    SumFunctionOnSet(g, S \union t) = SumFunctionOnSet(f, S) + n * c}
<1>0. SumFunctionOnSet(f, S) \in Nat
  BY SumIsNat
<1>1. 0 \in N
  <2>1. \A t \in SUBSET T : Cardinality(t) = 0 => S \union t = S
    BY FS_Subset, FS_EmptySet
  <2>2. SumFunctionOnSet(g, S) = SumFunctionOnSet(f, S)
    BY SumSame
  <2>3. 0 * c = 0
    OBVIOUS
  <2>4. SumFunctionOnSet(f, S) + 0 * c = SumFunctionOnSet(f, S)
    BY <1>0, <2>3
  <2>. QED  BY <2>1, <2>2, <2>4
<1>2. ASSUME NEW n \in N PROVE n + 1 \in N
  <2>. SUFFICES ASSUME NEW t \in SUBSET T, Cardinality(t) = n + 1
                PROVE  SumFunctionOnSet(g, S \union t) = SumFunctionOnSet(f, S) + (n + 1) * c
    OBVIOUS
  <2>. DEFINE y == First(t)
              r == t \ {y}
              u == S \union t
  <2>1. t # {} /\ n \in Nat
    <3>1. Cardinality({}) = 0 /\ n \in Nat
      BY FS_EmptySet
    <3>. QED  BY <3>1
  <2>2. y \in t /\ r \in SUBSET T /\ Cardinality(r) = n
    <3>1. /\ y \in t /\ r \in SUBSET T /\ Cardinality(r) \in Nat
          /\ Cardinality(t) = Cardinality(r) + 1
      BY <2>1, Smaller
    <3>. QED  BY <2>1, <3>1
  <2>3. IsFiniteSet(u) /\ \A z \in u : g[z] \in Nat
    BY FS_Subset, FS_Union
  <2>4. y \in u /\ u \ {y} = S \union r /\ g[y] = c
    BY <2>2
  <2>5. SumFunctionOnSet(g, u) = g[y] + SumFunctionOnSet(g, u \ {y})
    BY <2>3, <2>4, SumRemoves
  <2>6. SumFunctionOnSet(g, S \union r) = SumFunctionOnSet(f, S) + n * c
    BY <2>2
  <2>7. (n + 1) * c = n * c + c /\ n * c \in Nat
    BY <2>1
  <2>8. SumFunctionOnSet(g, u) = c + SumFunctionOnSet(g, S \union r)
    BY <2>4, <2>5
  <2>. DEFINE old == SumFunctionOnSet(f, S)
              m == n * c
  <2>9. old \in Nat /\ m \in Nat /\ SumFunctionOnSet(g, u) = c + (old + m) /\ (n + 1) * c = m + c
    BY <1>0, <2>6, <2>7, <2>8
  <2>. HIDE DEF old, m
  <2>10. SumFunctionOnSet(g, u) = old + (n + 1) * c
    BY <2>9
  <2>. QED  BY <2>10 DEF old
<1>3. N = Nat
  <2>. HIDE DEF N
  <2>1. N \in SUBSET Nat
    BY DEF N
  <2>. QED  BY <1>1, <1>2, <2>1, NatSetInduction
<1>4. Cardinality(T) \in N
  BY <1>3, FS_CardinalityType
<1>. QED  BY <1>4 DEF SumFunction


-----------------------------------------------------------------------------
(***************************************************************************)
(* Counting: a set of n numbers has a k-th smallest for each k up to n.    *)
(***************************************************************************)
UpTo(S, i) == {j \in S : j <= i}

LEMMA SubsetCounted ==
  ASSUME NEW n \in Nat, NEW S \in SUBSET (1 .. n)
  PROVE  IsFiniteSet(S) /\ Cardinality(S) \in Nat
<1>1. IsFiniteSet(1 .. n)
  <2>1. 1 \in Int /\ n \in Int
    OBVIOUS
  <2>. QED  BY <2>1, FS_Interval
<1>. QED  BY <1>1, FS_Subset, FS_CardinalityType

LEMMA KthSmallest ==
  ASSUME NEW n \in Nat, NEW S \in SUBSET (1 .. n), NEW k \in 1 .. Cardinality(S)
  PROVE  \E i \in S : Cardinality(UpTo(S, i)) = k
<1>. DEFINE Has(T, c) == \E i \in T : Cardinality(UpTo(T, i)) = c
            N == {m \in Nat : \A T \in SUBSET (1 .. m) : \A c \in 1 .. Cardinality(T) : Has(T, c)}
<1>1. 0 \in N
  <2>1. ASSUME NEW T \in SUBSET (1 .. 0) PROVE Cardinality(T) = 0
    <3>1. T = {}
      OBVIOUS
    <3>. QED  BY <3>1, FS_EmptySet
  <2>. QED  BY <2>1
<1>2. ASSUME NEW m \in N PROVE m + 1 \in N
  <2>1. m \in Nat /\ \A T \in SUBSET (1 .. m) : \A c \in 1 .. Cardinality(T) : Has(T, c)
    OBVIOUS
  <2>2. ASSUME NEW T \in SUBSET (1 .. m + 1), NEW c \in 1 .. Cardinality(T)
        PROVE  Has(T, c)
    <3>1. CASE m + 1 \notin T
      <4>1. T \in SUBSET (1 .. m)
        BY <2>1, <3>1
      <4>. HIDE DEF Has
      <4>. QED  BY <2>1, <2>2, <4>1
    <3>2. CASE m + 1 \in T
      <4>. DEFINE U == T \ {m + 1}
      <4>1. U \in SUBSET (1 .. m)
        BY <2>1
      <4>2. Cardinality(T) \in Nat /\ Cardinality(U) \in Nat /\ Cardinality(T) = Cardinality(U) + 1
        <5>1. IsFiniteSet(T) /\ IsFiniteSet(U)
          BY <2>1, <2>2, <4>1, m + 1 \in Nat, SubsetCounted
        <5>. QED  BY <3>2, <5>1, FS_RemoveElement, FS_CardinalityType
      <4>3. CASE c = Cardinality(T)
        <5>1. UpTo(T, m + 1) = T
          <6>1. \A x \in T : x <= m + 1
            BY <2>1
          <6>. QED  BY <6>1 DEF UpTo
        <5>. QED  BY <3>2, <4>3, <5>1
      <4>4. CASE c # Cardinality(T)
        <5>1. Has(U, c)
          <6>1. c \in 1 .. Cardinality(U)
            BY <2>2, <4>2, <4>4
          <6>. HIDE DEF Has, U
          <6>. QED  BY <2>1, <4>1, <6>1
        <5>2. PICK i \in U : Cardinality(UpTo(U, i)) = c
          BY <5>1
        <5>3. UpTo(T, i) = UpTo(U, i)
          BY <2>1, <4>1, <5>2 DEF UpTo
        <5>. QED  BY <5>2, <5>3
      <4>. QED  BY <4>3, <4>4
    <3>. QED  BY <3>1, <3>2
  <2>. QED  BY <2>1, <2>2
<1>3. N = Nat
  <2>1. N \in SUBSET Nat
    OBVIOUS
  <2>. HIDE DEF N
  <2>. QED  BY <1>1, <1>2, <2>1, NatSetInduction
<1>. QED  BY <1>3 DEF UpTo

================================================================================
