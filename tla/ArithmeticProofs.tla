-------------------------- MODULE ArithmeticProofs --------------------------
(***************************************************************************)
(* Facts about numbers the other proofs share.  Quotients: integer         *)
(* division rounds down and keeps the order.  Sums over finite sets,       *)
(* Functions!SumFunctionOnSet: the order in which the fold takes the       *)
(* elements does not matter, and a sum changes by what changes in it.  The *)
(* induction behind these facts takes a set of numbers, and needs no       *)
(* operator as a parameter.                                                *)
(***************************************************************************)
EXTENDS Functions, FiniteSetTheorems, WellFoundedInduction, TLAPS

-----------------------------------------------------------------------------
(* Quotients *)

\* Integer division by a positive number, as an inequality.
LEMMA QuotientBounds ==
  ASSUME NEW x \in Nat, NEW d \in Nat \ {0}
  PROVE  /\ x \div d \in Nat
         /\ d * (x \div d) <= x
         /\ x < d * (x \div d) + d
  BY SMT

\* A larger dividend does not give a smaller quotient.
LEMMA QuotientMonotone ==
  ASSUME NEW x \in Nat, NEW y \in Nat, NEW d \in Nat \ {0}, x <= y
  PROVE  x \div d <= y \div d
<1> DEFINE p == x \div d
           q == y \div d
<1>1. p \in Nat /\ q \in Nat /\ d * p <= x /\ y < d * q + d
  BY QuotientBounds
<1>2. SUFFICES ASSUME p >= q + 1 PROVE FALSE
  BY <1>1
<1> HIDE DEF p, q
<1>3. d * p >= d * (q + 1)
  BY <1>1, <1>2
<1>4. d * (q + 1) = d * q + d
  BY <1>1
<1> QED
  BY <1>1, <1>3, <1>4

\* A share of a whole is at most the whole.
LEMMA ShareAtMostWhole ==
  ASSUME NEW total \in Nat, NEW e \in Nat, NEW d \in Nat \ {0}, e <= d
  PROVE  (total * e) \div d <= total
<1>1. total * e <= total * d
  OBVIOUS
<1>2. (total * d) \div d = total
  OBVIOUS
<1>3. (total * e) \div d <= (total * d) \div d
  BY <1>1, QuotientMonotone
<1> QED
  BY <1>2, <1>3, QuotientBounds

-----------------------------------------------------------------------------
(* Sums *)

\* Induction over the naturals, for the set of numbers with a property.
LEMMA SetInduction ==
  ASSUME NEW S \in SUBSET Nat, 0 \in S, \A n \in S : n + 1 \in S
  PROVE  S = Nat
<1> DEFINE R == OpToRel(<, Nat)
           T == Nat \ S
<1>1. \A m, n \in Nat : m < n => <<m, n>> \in R
  BY DEF OpToRel
<1>2. SUFFICES ASSUME T # {} PROVE FALSE
  OBVIOUS
<1>3. IsWellFoundedOn(R, Nat)
  BY NatLessThanWellFounded
<1> HIDE DEF R
<1>4. PICK m \in T : \A n \in T : <<n, m>> \notin R
  BY <1>2, <1>3, WFMin
<1> DEFINE k == m - 1
<1>5. m \in Nat /\ k \in Nat /\ k < m /\ k + 1 = m /\ m \notin S
  OBVIOUS
<1> HIDE DEF k
<1>6. k \in T
  BY <1>5
<1> QED
  BY <1>1, <1>4, <1>5, <1>6

\* A set of numbers that is not empty has a least element.
LEMMA LeastElement ==
  ASSUME NEW S \in SUBSET Nat, S # {}
  PROVE  \E m \in S : \A n \in S : m <= n
<1> DEFINE R == OpToRel(<, Nat)
<1>1. \A m, n \in Nat : m < n => <<m, n>> \in R
  BY DEF OpToRel
<1>2. IsWellFoundedOn(R, Nat)
  BY NatLessThanWellFounded
<1> HIDE DEF R
<1>3. PICK m \in S : \A n \in S : <<n, m>> \notin R
  BY <1>2, WFMin
<1>4. \A n \in S : m \in Nat /\ n \in Nat /\ ~(n < m)
  BY <1>1, <1>3
<1>5. \A n \in S : m <= n
  BY <1>4
<1> QED
  BY <1>3, <1>5

\* The fold inside SumFunctionOnSet, as a function of the set.
Pick(s) == CHOOSE x \in s : TRUE

IsFold(g, w, D) == g = [s \in D |-> IF s = {} THEN 0 ELSE w[Pick(s)] + g[s \ {Pick(s)}]]

Fold(w, S) == CHOOSE g : IsFold(g, w, SUBSET S)

\* The community module's sum is that fold.
LEMMA SumIsFold ==
  ASSUME NEW w, NEW S
  PROVE  SumFunctionOnSet(w, S) = Fold(w, S)[S]
  BY DEF SumFunctionOnSet, FoldFunctionOnSet, MapThenFoldSet, Fold, IsFold, Pick

\* CHOOSE takes an element of the set.
LEMMA PickIn ==
  ASSUME NEW s, s # {}
  PROVE  Pick(s) \in s
  BY DEF Pick

\* A fold over a finite set exists: it extends, one element at a time, from the
\* subsets of at most n elements.
LEMMA FoldExists ==
  ASSUME NEW w, NEW S, IsFiniteSet(S)
  PROVE  IsFold(Fold(w, S), w, SUBSET S)
<1> DEFINE Upto(n) == {s \in SUBSET S : Cardinality(s) <= n}
           N == {n \in Nat : \E g : IsFold(g, w, Upto(n))}
<1>0. \A s \in SUBSET S : IsFiniteSet(s) /\ Cardinality(s) \in Nat
  BY FS_Subset, FS_CardinalityType
<1>1. 0 \in N
  <2> DEFINE g == [s \in Upto(0) |-> 0]
  <2>1. \A s \in Upto(0) : s = {}
    BY <1>0, FS_EmptySet
  <2>2. IsFold(g, w, Upto(0))
    BY <2>1 DEF IsFold
  <2> HIDE DEF g
  <2> QED
    BY <2>2
<1>2. ASSUME NEW n \in N PROVE n + 1 \in N
  <2>1. PICK g : IsFold(g, w, Upto(n))
    OBVIOUS
  <2> DEFINE h == [s \in Upto(n + 1) |-> IF s = {} THEN 0 ELSE w[Pick(s)] + g[s \ {Pick(s)}]]
  <2>2. ASSUME NEW s \in Upto(n + 1), s # {}
        PROVE  s \ {Pick(s)} \in Upto(n) /\ s \ {Pick(s)} \in Upto(n + 1)
    <3>1. Pick(s) \in s
      BY <2>2, PickIn
    <3>2. Cardinality(s \ {Pick(s)}) = Cardinality(s) - 1
      BY <1>0, <3>1, FS_RemoveElement
    <3> QED
      BY <1>0, <3>2
  <2>3. \A s \in Upto(n) : s \in Upto(n + 1)
    BY <1>0
  <2>4. \A s \in Upto(n) : h[s] = g[s]
    BY <2>1, <2>3 DEF IsFold
  <2>5. h = [s \in Upto(n + 1) |-> IF s = {} THEN 0 ELSE w[Pick(s)] + h[s \ {Pick(s)}]]
    BY <2>2, <2>4
  <2>6. IsFold(h, w, Upto(n + 1))
    BY <2>5 DEF IsFold
  <2>7. \E k : IsFold(k, w, Upto(n + 1))
    BY <2>6
  <2>8. n + 1 \in Nat
    OBVIOUS
  <2> HIDE DEF h, Upto
  <2> QED
    BY <2>7, <2>8
<1> HIDE DEF N
<1>3. N = Nat
  <2>1. N \subseteq Nat
    BY DEF N
  <2> QED
    BY <1>1, <1>2, <2>1, SetInduction
<1>4. Upto(Cardinality(S)) = SUBSET S
  BY <1>0, FS_Subset
<1>5. \E g : IsFold(g, w, SUBSET S)
  <2>1. Cardinality(S) \in N
    BY <1>0, <1>3
  <2> HIDE DEF Upto
  <2>2. \E g : IsFold(g, w, Upto(Cardinality(S)))
    BY <2>1 DEF N
  <2> QED
    BY <1>4, <2>2
<1> QED
  BY <1>5 DEF Fold

\* Folds agree where their weights do.
LEMMA FoldSame ==
  ASSUME NEW v, NEW w, NEW S, NEW T, IsFiniteSet(S), IsFiniteSet(T),
         NEW U \in SUBSET (S \cap T), \A x \in U : v[x] = w[x]
  PROVE  Fold(v, S)[U] = Fold(w, T)[U]
<1> DEFINE f == Fold(v, S)
           g == Fold(w, T)
           N == {n \in Nat : \A s \in SUBSET U : Cardinality(s) = n => f[s] = g[s]}
<1>1. IsFold(f, v, SUBSET S) /\ IsFold(g, w, SUBSET T)
  BY FoldExists
<1> HIDE DEF f, g
<1>2. ASSUME NEW s \in SUBSET U
      PROVE  /\ IsFiniteSet(s) /\ Cardinality(s) \in Nat
             /\ f[s] = IF s = {} THEN 0 ELSE v[Pick(s)] + f[s \ {Pick(s)}]
             /\ g[s] = IF s = {} THEN 0 ELSE w[Pick(s)] + g[s \ {Pick(s)}]
  <2>1. s \in SUBSET S /\ s \in SUBSET T
    OBVIOUS
  <2>2. IsFiniteSet(s) /\ Cardinality(s) \in Nat
    BY <2>1, FS_Subset, FS_CardinalityType
  <2> QED
    BY <1>1, <2>1, <2>2 DEF IsFold
<1>3. 0 \in N
  BY <1>2, FS_EmptySet
<1>4. ASSUME NEW n \in N PROVE n + 1 \in N
  <2> SUFFICES ASSUME NEW s \in SUBSET U, Cardinality(s) = n + 1 PROVE f[s] = g[s]
    OBVIOUS
  <2>0. n \in Nat /\ Cardinality(s) # 0
    OBVIOUS
  <2>1. s # {}
    BY <2>0, FS_EmptySet
  <2>2. Pick(s) \in s
    BY <2>1, PickIn
  <2>3. Cardinality(s \ {Pick(s)}) = n
    <3>1. Cardinality(s \ {Pick(s)}) = Cardinality(s) - 1
      BY <1>2, <2>2, FS_RemoveElement
    <3> QED
      BY <2>0, <3>1
  <2>4. s \ {Pick(s)} \in SUBSET U
    OBVIOUS
  <2>5. f[s \ {Pick(s)}] = g[s \ {Pick(s)}]
    BY <2>3, <2>4
  <2> QED
    BY <1>2, <2>1, <2>2, <2>5
<1> HIDE DEF N
<1>5. N = Nat
  <2>1. N \subseteq Nat
    BY DEF N
  <2> QED
    BY <1>3, <1>4, <2>1, SetInduction
<1> QED
  BY <1>2, <1>5 DEF N, f, g

-----------------------------------------------------------------------------
(* Sums *)

\* Weights that agree on the set have the same sum.
LEMMA SumSame ==
  ASSUME NEW v, NEW w, NEW S, IsFiniteSet(S), \A x \in S : v[x] = w[x]
  PROVE  SumFunctionOnSet(v, S) = SumFunctionOnSet(w, S)
<1>1. Fold(v, S)[S] = Fold(w, S)[S]
  BY FoldSame
<1>2. SumFunctionOnSet(v, S) = Fold(v, S)[S]
  BY SumIsFold
<1>3. SumFunctionOnSet(w, S) = Fold(w, S)[S]
  BY SumIsFold
<1> QED
  BY <1>1, <1>2, <1>3

\* Nothing sums to nothing.
LEMMA SumEmpty == ASSUME NEW w PROVE SumFunctionOnSet(w, {}) = 0
<1>1. IsFold(Fold(w, {}), w, SUBSET {})
  BY FoldExists, FS_EmptySet
<1> QED
  BY <1>1, SumIsFold DEF IsFold

\* The fold's own step: the element CHOOSE takes, and the rest.
LEMMA SumPick ==
  ASSUME NEW w, NEW S, IsFiniteSet(S), S # {}
  PROVE  /\ Pick(S) \in S
         /\ SumFunctionOnSet(w, S) = w[Pick(S)] + SumFunctionOnSet(w, S \ {Pick(S)})
<1> DEFINE R == S \ {Pick(S)}
<1>1. Pick(S) \in S
  BY PickIn
<1>2. Fold(w, S)[S] = w[Pick(S)] + Fold(w, S)[R]
  <2>1. IsFold(Fold(w, S), w, SUBSET S)
    BY FoldExists
  <2>2. S \in SUBSET S
    OBVIOUS
  <2> QED
    BY <2>1, <2>2 DEF IsFold
<1>3. IsFiniteSet(R) /\ R \in SUBSET (S \cap R)
  BY FS_Subset
<1> HIDE DEF R
<1>4. Fold(w, S)[R] = Fold(w, R)[R]
  BY <1>3, FoldSame
<1> QED
  BY <1>1, <1>2, <1>4, SumIsFold DEF R

\* Natural weights have a natural sum.
LEMMA SumNat ==
  ASSUME NEW w, NEW S, IsFiniteSet(S), \A x \in S : w[x] \in Nat
  PROVE  SumFunctionOnSet(w, S) \in Nat
<1> DEFINE N == {n \in Nat : \A s \in SUBSET S :
                   Cardinality(s) = n => SumFunctionOnSet(w, s) \in Nat}
<1>1. \A s \in SUBSET S : IsFiniteSet(s) /\ Cardinality(s) \in Nat
  BY FS_Subset, FS_CardinalityType
<1>2. 0 \in N
  BY <1>1, SumEmpty, FS_EmptySet
<1>3. ASSUME NEW n \in N PROVE n + 1 \in N
  <2> SUFFICES ASSUME NEW s \in SUBSET S, Cardinality(s) = n + 1
               PROVE  SumFunctionOnSet(w, s) \in Nat
    OBVIOUS
  <2>1. n \in Nat /\ Cardinality(s) # 0
    OBVIOUS
  <2>2. s # {}
    BY <2>1, FS_EmptySet
  <2>3. Pick(s) \in s /\ SumFunctionOnSet(w, s) = w[Pick(s)] + SumFunctionOnSet(w, s \ {Pick(s)})
    BY <1>1, <2>2, SumPick
  <2>4. Cardinality(s \ {Pick(s)}) = Cardinality(s) - 1
    BY <1>1, <2>3, FS_RemoveElement
  <2>5. SumFunctionOnSet(w, s \ {Pick(s)}) \in Nat
    BY <2>1, <2>4
  <2> QED
    BY <2>3, <2>5
<1> HIDE DEF N
<1>4. N = Nat
  <2>1. N \subseteq Nat
    BY DEF N
  <2> QED
    BY <1>2, <1>3, <2>1, SetInduction
<1> QED
  BY <1>1, <1>4 DEF N

\* Any element may be taken out first.
LEMMA SumRemove ==
  ASSUME NEW w, NEW S, IsFiniteSet(S), \A x \in S : w[x] \in Nat, NEW y \in S
  PROVE  SumFunctionOnSet(w, S) = w[y] + SumFunctionOnSet(w, S \ {y})
<1> DEFINE N == {n \in Nat : \A s \in SUBSET S : Cardinality(s) = n =>
                   \A z \in s : SumFunctionOnSet(w, s) = w[z] + SumFunctionOnSet(w, s \ {z})}
<1>1. \A s \in SUBSET S : IsFiniteSet(s) /\ Cardinality(s) \in Nat
  BY FS_Subset, FS_CardinalityType
<1>2. 0 \in N
  BY <1>1, FS_EmptySet
<1>3. ASSUME NEW n \in N PROVE n + 1 \in N
  <2> SUFFICES ASSUME NEW s \in SUBSET S, Cardinality(s) = n + 1, NEW z \in s
               PROVE  SumFunctionOnSet(w, s) = w[z] + SumFunctionOnSet(w, s \ {z})
    OBVIOUS
  <2> DEFINE p == Pick(s)
             t == s \ {p}
             u == s \ {z}
             r == s \ {p, z}
  <2>1. n \in Nat /\ p \in s /\ SumFunctionOnSet(w, s) = w[p] + SumFunctionOnSet(w, t)
    BY <1>1, SumPick
  <2>2. CASE p = z
    BY <2>1, <2>2
  <2>3. CASE p # z
    <3>1. /\ Cardinality(t) = n /\ z \in t /\ t \in SUBSET S /\ t \ {z} = r
          /\ Cardinality(u) = n /\ p \in u /\ u \in SUBSET S /\ u \ {p} = r
      <4>1. Cardinality(t) = Cardinality(s) - 1 /\ Cardinality(u) = Cardinality(s) - 1
        BY <1>1, <2>1, FS_RemoveElement
      <4>2. z \in t /\ p \in u /\ t \ {z} = r /\ u \ {p} = r
        BY <2>1, <2>3
      <4> QED
        BY <2>1, <4>1, <4>2
    <3>2. IsFiniteSet(r) /\ \A x \in r : w[x] \in Nat
      BY FS_Subset
    <3>3. SumFunctionOnSet(w, r) \in Nat /\ w[p] \in Nat /\ w[z] \in Nat
      BY <2>1, <3>2, SumNat
    <3> HIDE DEF p, t, u, r
    <3>4. /\ SumFunctionOnSet(w, t) = w[z] + SumFunctionOnSet(w, r)
          /\ SumFunctionOnSet(w, u) = w[p] + SumFunctionOnSet(w, r)
      BY <3>1
    <3> QED
      BY <2>1, <3>3, <3>4 DEF u
  <2> QED
    BY <2>2, <2>3
<1> HIDE DEF N
<1>4. N = Nat
  <2>1. N \subseteq Nat
    BY DEF N
  <2> QED
    BY <1>2, <1>3, <2>1, SetInduction
<1> QED
  BY <1>1, <1>4 DEF N

\* One element more.
LEMMA SumAdd ==
  ASSUME NEW w, NEW S, IsFiniteSet(S), NEW y, y \notin S,
         \A x \in S \cup {y} : w[x] \in Nat
  PROVE  SumFunctionOnSet(w, S \cup {y}) = SumFunctionOnSet(w, S) + w[y]
<1>1. IsFiniteSet(S \cup {y}) /\ (S \cup {y}) \ {y} = S
  BY FS_AddElement
<1>2. SumFunctionOnSet(w, S \cup {y}) = w[y] + SumFunctionOnSet(w, S)
  BY <1>1, SumRemove
<1>3. SumFunctionOnSet(w, S) \in Nat /\ w[y] \in Nat
  BY SumNat
<1> QED
  BY <1>2, <1>3

\* One weight changed.
LEMMA SumChange ==
  ASSUME NEW v, NEW w, NEW S, IsFiniteSet(S), NEW y \in S,
         \A x \in S : v[x] \in Nat /\ w[x] \in Nat,
         \A x \in S \ {y} : v[x] = w[x]
  PROVE  SumFunctionOnSet(v, S) + w[y] = SumFunctionOnSet(w, S) + v[y]
<1> DEFINE R == S \ {y}
<1>1. IsFiniteSet(R)
  BY FS_Subset
<1>2. /\ SumFunctionOnSet(v, S) = v[y] + SumFunctionOnSet(v, R)
      /\ SumFunctionOnSet(w, S) = w[y] + SumFunctionOnSet(w, R)
  BY SumRemove
<1> HIDE DEF R
<1>3. SumFunctionOnSet(v, R) = SumFunctionOnSet(w, R) /\ SumFunctionOnSet(w, R) \in Nat
  BY <1>1, SumSame, SumNat DEF R
<1>4. v[y] \in Nat /\ w[y] \in Nat
  OBVIOUS
<1> QED
  BY <1>2, <1>3, <1>4
=============================================================================
