-------------------------- MODULE FreshnessProofs --------------------------
(***************************************************************************)
(* That allocate finds the best frequencies, for any registrations, rates, *)
(* budget, grid and slopes that fall.                                      *)
(*                                                                         *)
(* The argument is that of Lagrange.  The bisection of frequency ends      *)
(* where the slope falls to mu, and that of allocate at two neighbours mu  *)
(* and mu + 1, of which the first spends more than the budget and the      *)
(* second does not.  A step of the grid that mu + 1 takes gains at least   *)
(* mu + 1 and one that it leaves out gains no more, so that no frequencies *)
(* of the same total gain more; and a registration gets at most one step   *)
(* more at mu than at mu + 1, so that less than one step each is left of   *)
(* the budget.                                                             *)
(*                                                                         *)
(* What the sums and bisections return is shown by induction on the size   *)
(* of a set or of an interval, with a first-order form of induction:       *)
(* SetInduction.                                                           *)
(***************************************************************************)
EXTENDS Freshness, FiniteSetTheorems, WellFoundedInduction, TLAPS

-----------------------------------------------------------------------------
(* Sums *)

\* Induction, with a set for the predicate.
LEMMA SetInduction ==
    ASSUME NEW S, 0 \in S, \A n \in Nat : n \in S => n + 1 \in S
    PROVE  Nat \subseteq S
<1>. DEFINE R == OpToRel(<, Nat)
<1>. DEFINE T == Nat \ S
<1>1. SUFFICES ASSUME T # {} PROVE FALSE
  OBVIOUS
<1>2. PICK n \in T : \A m \in T : <<m, n>> \notin R
  <2>1. IsWellFoundedOn(R, Nat)
    BY NatLessThanWellFounded
  <2>2. T \subseteq Nat
    OBVIOUS
  <2>. HIDE DEF R, T
  <2>. QED  BY <1>1, <2>1, <2>2, WFMin
<1>3. n \in Nat \ {0}
  OBVIOUS
<1>4. n - 1 \in Nat
  BY <1>3
<1>5. <<n - 1, n>> \in R
  BY <1>3, <1>4 DEF OpToRel
<1>6. n - 1 \in S
  BY <1>2, <1>4, <1>5
<1>7. n = (n - 1) + 1
  BY <1>3
<1>. QED  BY <1>4, <1>6, <1>7

\* g is the fold over the subsets of D that takes pick[s] out of s first.
Folds(g, D, T, a, pick, F) ==
    /\ g \in [SUBSET D -> T]
    /\ \A s \in SUBSET D : g[s] = IF s = {} THEN a ELSE F[pick[s]][g[s \ {pick[s]}]]

\* There is one: by induction on the size of the subsets on which it is right.
LEMMA SetRecursion ==
    ASSUME NEW D, IsFiniteSet(D), NEW T, NEW a \in T, NEW pick,
           \A s \in SUBSET D : s # {} => pick[s] \in s,
           NEW F \in [D -> [T -> T]]
    PROVE  \E g : Folds(g, D, T, a, pick, F)
<1>. DEFINE Value(g, s) == IF s = {} THEN a ELSE F[pick[s]][g[s \ {pick[s]}]]
            Upto(n, g) == \A s \in SUBSET D : Cardinality(s) <= n => g[s] = Value(g, s)
            S == {n \in Nat : \E g \in [SUBSET D -> T] : Upto(n, g)}
<1>1. ASSUME NEW s \in SUBSET D
      PROVE  Cardinality(s) \in Nat /\ IsFiniteSet(s) /\ (Cardinality(s) = 0 <=> s = {})
  BY FS_Subset, FS_CardinalityType, FS_EmptySet
<1>2. ASSUME NEW s \in SUBSET D, s # {}
      PROVE  /\ pick[s] \in D /\ s \ {pick[s]} \in SUBSET D
             /\ Cardinality(s \ {pick[s]}) = Cardinality(s) - 1
  BY <1>1, <1>2, FS_RemoveElement
<1>3. ASSUME NEW g \in [SUBSET D -> T], NEW s \in SUBSET D
      PROVE  Value(g, s) \in T
  <2>1. CASE s # {}
    <3>1. g[s \ {pick[s]}] \in T
      BY <1>2, <2>1
    <3>. QED  BY <1>2, <2>1, <3>1
  <2>. QED  BY <2>1
<1>4. 0 \in S
  <2>. DEFINE g == [s \in SUBSET D |-> a]
  <2>1. g \in [SUBSET D -> T] /\ Upto(0, g)
    BY <1>1
  <2>. QED  BY <2>1
<1>5. ASSUME NEW n \in Nat, n \in S
      PROVE  n + 1 \in S
  <2>1. PICK g \in [SUBSET D -> T] : Upto(n, g)
    BY <1>5
  <2>. DEFINE h == [s \in SUBSET D |-> IF Cardinality(s) = n + 1 THEN Value(g, s) ELSE g[s]]
  <2>2. h \in [SUBSET D -> T]
    <3>. HIDE DEF Value
    <3>. QED  BY <1>3
  <2>3. ASSUME NEW s \in SUBSET D, Cardinality(s) <= n + 1
        PROVE  h[s] = Value(h, s)
    <3>1. s # {} => h[s \ {pick[s]}] = g[s \ {pick[s]}]
      <4>. HIDE DEF Value
      <4>1. ASSUME s # {} PROVE Cardinality(s \ {pick[s]}) # n + 1
        BY <1>1, <1>2, <2>3, <4>1
      <4>. QED  BY <1>2, <4>1
    <3>2. Value(h, s) = Value(g, s)
      <4>. HIDE DEF h
      <4>. QED  BY <3>1
    <3>. HIDE DEF Value
    <3>3. CASE Cardinality(s) = n + 1
      BY <3>2, <3>3
    <3>4. CASE Cardinality(s) # n + 1
      BY <1>1, <2>1, <2>3, <3>2, <3>4
    <3>. QED  BY <3>3, <3>4
  <2>. HIDE DEF h, Value
  <2>. QED  BY <2>2, <2>3
<1>. HIDE DEF S
<1>6. Cardinality(D) \in S
  BY <1>1, <1>4, <1>5, SetInduction
<1>. USE DEF S
<1>7. PICK g \in [SUBSET D -> T] : Upto(Cardinality(D), g)
  BY <1>6
<1>8. \A s \in SUBSET D : Cardinality(s) <= Cardinality(D)
  BY FS_Subset
<1>. QED  BY <1>7, <1>8 DEF Folds

\* Induction on the subsets of a finite set, by taking out one element.
LEMMA SubsetInduction ==
    ASSUME NEW D, IsFiniteSet(D), NEW P,
           \A s \in SUBSET D : (\A x \in s : s \ {x} \in P) => s \in P
    PROVE  SUBSET D \subseteq P
<1>. DEFINE S == {n \in Nat : \A s \in SUBSET D : Cardinality(s) = n => s \in P}
<1>1. ASSUME NEW s \in SUBSET D
      PROVE  IsFiniteSet(s) /\ Cardinality(s) \in Nat /\ (Cardinality(s) = 0 <=> s = {})
  BY FS_Subset, FS_CardinalityType, FS_EmptySet
<1>2. 0 \in S
  BY <1>1
<1>3. ASSUME NEW n \in Nat, n \in S
      PROVE  n + 1 \in S
  <2>1. ASSUME NEW s \in SUBSET D, Cardinality(s) = n + 1, NEW x \in s
        PROVE  s \ {x} \in P
    <3>1. Cardinality(s \ {x}) = Cardinality(s) - 1
      BY <1>1, FS_RemoveElement
    <3>2. Cardinality(s \ {x}) = n
      BY <2>1, <3>1
    <3>. QED  BY <1>3, <3>2
  <2>. QED  BY <2>1
<1>. HIDE DEF S
<1>4. Nat \subseteq S
  BY <1>2, <1>3, SetInduction
<1>. QED  BY <1>1, <1>4 DEF S

\* The element that a fold over s takes out first.
OneOf(s) == CHOOSE x \in s : TRUE

\* g[s] is the sum of f over s.
Sums(g, f, D) ==
    /\ g \in [SUBSET D -> Nat]
    /\ g[{}] = 0
    /\ \A s \in SUBSET D : s # {} => g[s] = f[OneOf(s)] + g[s \ {OneOf(s)}]

\* The recursive function in the definition of SumFunction.
SumUpto(f) ==
    CHOOSE iter : iter = [s \in SUBSET DOMAIN f |->
        IF s = {} THEN 0 ELSE f[OneOf(s)] + iter[s \ {OneOf(s)}]]

\* SumFunction is the value of that function at the domain.
LEMMA SumIs == ASSUME NEW f PROVE SumFunction(f) = SumUpto(f)[DOMAIN f]
  BY DEF SumFunction, SumFunctionOnSet, FoldFunctionOnSet, MapThenFoldSet, SumUpto, OneOf

\* It does what its definition says: there is such a function.
LEMMA SumSteps ==
    ASSUME NEW D, IsFiniteSet(D), NEW f \in [D -> Nat]
    PROVE  Sums(SumUpto(f), f, D) /\ SumFunction(f) = SumUpto(f)[D]
<1>. DEFINE pick == [s \in SUBSET D |-> OneOf(s)]
            F == [x \in D |-> [n \in Nat |-> f[x] + n]]
<1>1. \A s \in SUBSET D : s # {} => OneOf(s) \in s
  BY DEF OneOf
<1>2. F \in [D -> [Nat -> Nat]]
  OBVIOUS
<1>3. PICK g : Folds(g, D, Nat, 0, pick, F)
  <2>. HIDE DEF F
  <2>1. \A s \in SUBSET D : s # {} => pick[s] \in s
    BY <1>1
  <2>. HIDE DEF pick
  <2>. QED  BY <1>2, <2>1, SetRecursion
<1>4. g = [s \in SUBSET DOMAIN f |-> IF s = {} THEN 0 ELSE f[OneOf(s)] + g[s \ {OneOf(s)}]]
  <2>1. g \in [SUBSET D -> Nat] /\ g[{}] = 0
    BY <1>3 DEF Folds
  <2>2. ASSUME NEW s \in SUBSET D, s # {} PROVE g[s] = f[OneOf(s)] + g[s \ {OneOf(s)}]
    <3>1. pick[s] = OneOf(s) /\ OneOf(s) \in D /\ s \ {OneOf(s)} \in SUBSET D
      BY <1>1, <2>2
    <3>2. g[s \ {OneOf(s)}] \in Nat
      BY <2>1, <3>1
    <3>3. g[s] = F[pick[s]][g[s \ {pick[s]}]]
      BY <1>3, <2>2 DEF Folds
    <3>. HIDE DEF pick
    <3>. QED  BY <3>1, <3>2, <3>3
  <2>. HIDE DEF F, pick
  <2>. QED  BY <2>1, <2>2
<1>5. SumUpto(f) = [s \in SUBSET DOMAIN f |-> IF s = {} THEN 0 ELSE f[OneOf(s)] + SumUpto(f)[s \ {OneOf(s)}]]
  BY <1>4 DEF SumUpto
<1>. DEFINE h == SumUpto(f)
<1>6. h = [s \in SUBSET D |-> IF s = {} THEN 0 ELSE f[OneOf(s)] + h[s \ {OneOf(s)}]]
  BY <1>5
<1>. HIDE DEF h, pick, F
<1>7. h[{}] = 0 /\ DOMAIN h = SUBSET D /\ \A s \in SUBSET D : s # {} => h[s] = f[OneOf(s)] + h[s \ {OneOf(s)}]
  <2>1. {} \in SUBSET D
    OBVIOUS
  <2>. QED  BY <1>6, <2>1
<1>8. ASSUME NEW s \in SUBSET D
      PROVE  h[s] \in Nat
  <2>. DEFINE P == {q \in SUBSET D : h[q] \in Nat}
  <2>1. ASSUME NEW q \in SUBSET D, \A x \in q : q \ {x} \in P
        PROVE  q \in P
    <3>1. CASE q = {}
      BY <1>7, <3>1
    <3>2. CASE q # {}
      <4>1. OneOf(q) \in q
        BY <1>1, <3>2
      <4>2. h[q \ {OneOf(q)}] \in Nat /\ f[OneOf(q)] \in Nat
        BY <2>1, <4>1
      <4>. QED  BY <1>7, <3>2, <4>2
    <3>. QED  BY <3>1, <3>2
  <2>. HIDE DEF P
  <2>2. SUBSET D \subseteq P
    BY <2>1, SubsetInduction
  <2>. QED  BY <2>2 DEF P
<1>9. h \in [SUBSET D -> Nat]
  BY <1>7, <1>8, <1>6
<1>10. Sums(h, f, D)
  BY <1>7, <1>9 DEF Sums
<1>. QED  BY <1>10, SumIs DEF h

\* A sum of naturals is one.
LEMMA SumType ==
    ASSUME NEW D, IsFiniteSet(D), NEW f \in [D -> Nat]
    PROVE  SumFunction(f) \in Nat
<1>1. Sums(SumUpto(f), f, D) /\ SumFunction(f) = SumUpto(f)[D]
  BY SumSteps
<1>. QED  BY <1>1 DEF Sums

\* A sum does not fall when none of its terms does.
LEMMA SumMonotone ==
    ASSUME NEW D, IsFiniteSet(D), NEW d \in [D -> Nat], NEW e \in [D -> Nat],
           \A x \in D : d[x] <= e[x]
    PROVE  SumFunction(d) <= SumFunction(e)
<1>. DEFINE g == SumUpto(d)
            h == SumUpto(e)
            P == {s \in SUBSET D : g[s] <= h[s]}
<1>1. /\ Sums(g, d, D) /\ SumFunction(d) = g[D]
      /\ Sums(h, e, D) /\ SumFunction(e) = h[D]
  BY SumSteps
<1>. HIDE DEF g, h
<1>2. ASSUME NEW s \in SUBSET D, \A x \in s : s \ {x} \in P
      PROVE  s \in P
  <2>1. CASE s = {}
    BY <1>1, <2>1 DEF Sums
  <2>2. CASE s # {}
    <3>. DEFINE x == OneOf(s)
                r == s \ {x}
    <3>1. x \in s /\ r \in SUBSET D /\ x \in D
      BY <2>2 DEF OneOf
    <3>2. r \in P
      BY <1>2, <3>1
    <3>3. /\ g[s] = d[x] + g[r] /\ d[x] \in Nat /\ g[r] \in Nat
          /\ h[s] = e[x] + h[r] /\ e[x] \in Nat /\ h[r] \in Nat
      BY <1>1, <2>2, <3>1 DEF Sums
    <3>. HIDE DEF x, r
    <3>. QED  BY <3>1, <3>2, <3>3
  <2>. QED  BY <2>1, <2>2
<1>3. D \in P
  <2>. HIDE DEF P
  <2>. QED  BY <1>2, SubsetInduction
<1>. QED  BY <1>1, <1>3

\* f is d plus e, term by term.
Plus(D, d, e, f) ==
    /\ IsFiniteSet(D) /\ d \in [D -> Nat] /\ e \in [D -> Nat] /\ f \in [D -> Nat]
    /\ \A x \in D : f[x] = d[x] + e[x]

\* The sum of such a function.
LEMMA SumPlus ==
    ASSUME NEW D, NEW d, NEW e, NEW f, Plus(D, d, e, f)
    PROVE  SumFunction(f) = SumFunction(d) + SumFunction(e)
<1>0. /\ IsFiniteSet(D) /\ d \in [D -> Nat] /\ e \in [D -> Nat] /\ f \in [D -> Nat]
      /\ \A x \in D : f[x] = d[x] + e[x]
  BY DEF Plus
<1>. DEFINE g == SumUpto(d)
            h == SumUpto(e)
            k == SumUpto(f)
            P == {s \in SUBSET D : k[s] = g[s] + h[s]}
<1>1. /\ Sums(g, d, D) /\ SumFunction(d) = g[D]
      /\ Sums(h, e, D) /\ SumFunction(e) = h[D]
      /\ Sums(k, f, D) /\ SumFunction(f) = k[D]
  BY <1>0, SumSteps
<1>. HIDE DEF g, h, k
<1>2. ASSUME NEW s \in SUBSET D, \A x \in s : s \ {x} \in P
      PROVE  s \in P
  <2>1. CASE s = {}
    BY <1>0, <1>1, <2>1 DEF Sums
  <2>2. CASE s # {}
    <3>. DEFINE x == OneOf(s)
                r == s \ {x}
    <3>1. x \in s /\ r \in SUBSET D /\ x \in D
      BY <2>2 DEF OneOf
    <3>2. r \in P
      BY <1>2, <3>1
    <3>3. /\ g[s] = d[x] + g[r] /\ d[x] \in Nat /\ g[r] \in Nat
          /\ h[s] = e[x] + h[r] /\ e[x] \in Nat /\ h[r] \in Nat
          /\ k[s] = f[x] + k[r] /\ f[x] \in Nat /\ k[r] \in Nat
      BY <1>0, <1>1, <2>2, <3>1 DEF Sums
    <3>. HIDE DEF x, r
    <3>. QED  BY <1>0, <3>1, <3>2, <3>3
  <2>. QED  BY <2>1, <2>2
<1>3. D \in P
  <2>. HIDE DEF P
  <2>. QED  BY <1>0, <1>2, SubsetInduction
<1>. QED  BY <1>1, <1>3

\* Products of naturals, which the provers do not multiply out by themselves.
LEMMA Product ==
    ASSUME NEW c \in Nat, NEW k \in Nat, NEW n \in Nat
    PROVE  c * (k + n) = c * k + c * n /\ c * k \in Nat /\ c * 1 = c
  OBVIOUS

\* A common factor.
LEMMA SumTimes ==
    ASSUME NEW D, IsFiniteSet(D), NEW c \in Nat, NEW d \in [D -> Nat], NEW e \in [D -> Nat],
           \A x \in D : e[x] = c * d[x]
    PROVE  SumFunction(e) = c * SumFunction(d)
<1>. DEFINE g == SumUpto(d)
            h == SumUpto(e)
            P == {s \in SUBSET D : h[s] = c * g[s]}
<1>1. /\ Sums(g, d, D) /\ SumFunction(d) = g[D]
      /\ Sums(h, e, D) /\ SumFunction(e) = h[D]
  BY SumSteps
<1>. HIDE DEF g, h
<1>2. ASSUME NEW s \in SUBSET D, \A x \in s : s \ {x} \in P
      PROVE  s \in P
  <2>1. CASE s = {}
    BY <1>1, <2>1 DEF Sums
  <2>2. CASE s # {}
    <3>. DEFINE x == OneOf(s)
                r == s \ {x}
    <3>1. x \in s /\ r \in SUBSET D /\ x \in D
      BY <2>2 DEF OneOf
    <3>2. r \in P
      BY <1>2, <3>1
    <3>3. /\ g[s] = d[x] + g[r] /\ d[x] \in Nat /\ g[r] \in Nat
          /\ h[s] = e[x] + h[r] /\ e[x] \in Nat /\ h[r] \in Nat
      BY <1>1, <2>2, <3>1 DEF Sums
    <3>. HIDE DEF x, r
    <3>4. c * (d[x] + g[r]) = c * d[x] + c * g[r]
      BY <3>3, Product
    <3>5. h[r] = c * g[r] /\ e[x] = c * d[x]
      BY <3>1, <3>2
    <3>6. h[s] = c * g[s]
      BY <3>3, <3>4, <3>5
    <3>. QED  BY <3>6
  <2>. QED  BY <2>1, <2>2
<1>3. D \in P
  <2>. HIDE DEF P
  <2>. QED  BY <1>2, SubsetInduction
<1>. QED  BY <1>1, <1>3

\* The sum of equal terms.
LEMMA SumConstant ==
    ASSUME NEW D, IsFiniteSet(D), NEW c \in Nat, NEW f \in [D -> Nat], \A x \in D : f[x] = c
    PROVE  SumFunction(f) = c * Cardinality(D)
<1>. DEFINE g == SumUpto(f)
            P == {s \in SUBSET D : g[s] = c * Cardinality(s)}
<1>1. Sums(g, f, D) /\ SumFunction(f) = g[D]
  BY SumSteps
<1>. HIDE DEF g
<1>2. ASSUME NEW s \in SUBSET D, \A x \in s : s \ {x} \in P
      PROVE  s \in P
  <2>1. CASE s = {}
    <3>1. Cardinality(s) = 0
      BY <2>1, FS_EmptySet
    <3>. QED  BY <1>1, <2>1, <3>1 DEF Sums
  <2>2. CASE s # {}
    <3>. DEFINE x == OneOf(s)
                r == s \ {x}
    <3>1. x \in s /\ r \in SUBSET D /\ x \in D
      BY <2>2 DEF OneOf
    <3>2. g[r] = c * Cardinality(r)
      BY <1>2, <3>1
    <3>3. g[s] = c + g[r]
      BY <1>1, <2>2, <3>1 DEF Sums
    <3>4. IsFiniteSet(s) /\ IsFiniteSet(r) /\ Cardinality(s) \in Nat /\ Cardinality(r) \in Nat
      BY <3>1, FS_Subset, FS_CardinalityType
    <3>. HIDE DEF x
    <3>5. Cardinality(r) = Cardinality(s) - 1
      BY <3>1, <3>4, FS_RemoveElement
    <3>. HIDE DEF r
    <3>6. Cardinality(s) = Cardinality(r) + 1
      BY <3>4, <3>5
    <3>7. c * (Cardinality(r) + 1) = c * Cardinality(r) + c * 1 /\ c * 1 = c /\ c * Cardinality(r) \in Nat
      BY <3>4, Product
    <3>8. c * Cardinality(s) = c * Cardinality(r) + c
      BY <3>6, <3>7
    <3>9. g[s] = c * Cardinality(s)
      <4>. DEFINE cr == c * Cardinality(r)
                  cs == c * Cardinality(s)
      <4>1. cs = cr + c /\ g[r] = cr /\ cr \in Nat
        BY <3>2, <3>7, <3>8
      <4>. HIDE DEF cr, cs
      <4>2. g[s] = cs
        BY <3>3, <4>1
      <4>. QED  BY <4>2 DEF cs
    <3>. QED  BY <3>9
  <2>. QED  BY <2>1, <2>2
<1>3. D \in P
  <2>. HIDE DEF P
  <2>. QED  BY <1>2, SubsetInduction
<1>. QED  BY <1>1, <1>3

\* A sum over a subset is that of the function restricted to it.
LEMMA SumAgrees ==
    ASSUME NEW D, IsFiniteSet(D), NEW E \in SUBSET D, NEW f \in [D -> Nat], NEW e \in [E -> Nat],
           \A x \in E : f[x] = e[x]
    PROVE  SumUpto(f)[E] = SumFunction(e)
<1>. DEFINE g == SumUpto(f)
            h == SumUpto(e)
            P == {s \in SUBSET E : g[s] = h[s]}
<1>0. IsFiniteSet(E)
  BY FS_Subset
<1>1. Sums(g, f, D) /\ Sums(h, e, E) /\ SumFunction(e) = h[E]
  BY <1>0, SumSteps
<1>. HIDE DEF g, h
<1>2. ASSUME NEW s \in SUBSET E, \A x \in s : s \ {x} \in P
      PROVE  s \in P
  <2>1. CASE s = {}
    BY <1>1, <2>1 DEF Sums
  <2>2. CASE s # {}
    <3>. DEFINE x == OneOf(s)
                r == s \ {x}
    <3>1. x \in s /\ x \in E /\ r \in SUBSET E
      BY <2>2 DEF OneOf
    <3>2. g[r] = h[r]
      BY <1>2, <3>1
    <3>3. g[s] = f[x] + g[r] /\ h[s] = e[x] + h[r]
      BY <1>1, <2>2, <3>1 DEF Sums
    <3>. HIDE DEF x, r
    <3>. QED  BY <3>1, <3>2, <3>3
  <2>. QED  BY <2>1, <2>2
<1>3. E \in P
  <2>. HIDE DEF P
  <2>. QED  BY <1>0, <1>2, SubsetInduction
<1>. QED  BY <1>1, <1>3 DEF g

\* Any term can be taken out of a sum.
LEMMA SumTakes ==
    ASSUME NEW D, IsFiniteSet(D), NEW f \in [D -> Nat], NEW x \in D, NEW e \in [D \ {x} -> Nat],
           \A y \in D \ {x} : f[y] = e[y]
    PROVE  SumFunction(f) = f[x] + SumFunction(e)
<1>. DEFINE g == SumUpto(f)
            P == {s \in SUBSET D : \A y \in s : g[s] = f[y] + g[s \ {y}]}
<1>1. Sums(g, f, D) /\ SumFunction(f) = g[D]
  BY SumSteps
<1>2. g[D \ {x}] = SumFunction(e)
  <2>1. D \ {x} \in SUBSET D
    OBVIOUS
  <2>. QED  BY <2>1, SumAgrees
<1>. HIDE DEF g
<1>3. ASSUME NEW s \in SUBSET D, \A y \in s : s \ {y} \in P, NEW y \in s
      PROVE  g[s] = f[y] + g[s \ {y}]
  <2>. DEFINE z == OneOf(s)
  <2>1. z \in s /\ g[s] = f[z] + g[s \ {z}]
    BY <1>1 DEF Sums, OneOf
  <2>. HIDE DEF z
  <2>2. CASE y = z
    BY <2>1, <2>2
  <2>3. CASE y # z
    <3>1. s \ {z} \in P /\ s \ {y} \in P /\ y \in s \ {z} /\ z \in s \ {y}
      BY <1>3, <2>1, <2>3
    <3>2. g[s \ {z}] = f[y] + g[(s \ {z}) \ {y}] /\ g[s \ {y}] = f[z] + g[(s \ {y}) \ {z}]
      BY <3>1
    <3>3. (s \ {z}) \ {y} = (s \ {y}) \ {z}
      OBVIOUS
    <3>4. f[y] \in Nat /\ f[z] \in Nat /\ g[(s \ {z}) \ {y}] \in Nat
      BY <1>1, <2>1 DEF Sums
    <3>. DEFINE u == g[(s \ {z}) \ {y}]
                a == f[y]
                b == f[z]
    <3>5. g[s] = b + (a + u) /\ g[s \ {y}] = b + u
      BY <2>1, <3>2, <3>3
    <3>6. a \in Nat /\ b \in Nat /\ u \in Nat
      BY <3>4
    <3>. HIDE DEF u, a, b
    <3>7. g[s] = a + g[s \ {y}]
      BY <3>5, <3>6
    <3>. QED  BY <3>7 DEF a
  <2>. QED  BY <2>2, <2>3
<1>4. D \in P
  <2>1. ASSUME NEW s \in SUBSET D, \A y \in s : s \ {y} \in P
        PROVE  s \in P
    BY <1>3, <2>1
  <2>. HIDE DEF P
  <2>. QED  BY <2>1, SubsetInduction
<1>. QED  BY <1>1, <1>2, <1>4

-----------------------------------------------------------------------------
(* Bisections *)

\* The intervals of a bisection, and the middle of one.
Pairs(lo, hi) == [lo : lo..hi, hi : lo..hi]
Pair(l, h) == [lo |-> l, hi |-> h]
Middle(b) == (b.lo + b.hi) \div 2

\* One step of the bisection of A, by what h says of its halves.
Halved(A, h, b) ==
    IF b.hi - b.lo <= 1 THEN b
    ELSE IF Middle(b) \in A THEN h[Pair(Middle(b), b.hi)] ELSE h[Pair(b.lo, Middle(b))]

\* The recursive function in the definition of Bisect, A the set where Above holds.
Halving(A, lo, hi) == CHOOSE h : h = [b \in Pairs(lo, hi) |-> Halved(A, h, b)]

\* Two neighbours, the first in A and the second not.
Boundary(A, lo, hi, b) ==
    b.lo \in lo..hi - 1 /\ b.hi = b.lo + 1 /\ b.lo \in A /\ b.hi \notin A

\* The halves of an interval that is not of neighbours are intervals.
LEMMA MiddleBetween ==
    ASSUME NEW lo \in Nat, NEW hi \in Nat, NEW b \in Pairs(lo, hi), b.hi - b.lo > 1
    PROVE  /\ Middle(b) \in lo..hi /\ b.lo < Middle(b) /\ Middle(b) < b.hi
           /\ Pair(Middle(b), b.hi) \in Pairs(lo, hi) /\ Pair(b.lo, Middle(b)) \in Pairs(lo, hi)
<1>1. b.lo \in lo..hi /\ b.hi \in lo..hi
  BY DEF Pairs
<1>2. Middle(b) \in lo..hi /\ b.lo < Middle(b) /\ Middle(b) < b.hi
  BY <1>1 DEF Middle
<1>. QED  BY <1>1, <1>2 DEF Pair, Pairs

\* Halving does what its definition says: there is such a function.
LEMMA HalvingSteps ==
    ASSUME NEW lo \in Nat, NEW hi \in Nat, NEW A
    PROVE  /\ Halving(A, lo, hi) = [b \in Pairs(lo, hi) |-> Halved(A, Halving(A, lo, hi), b)]
<1>. DEFINE D == Pairs(lo, hi)
            Upto(n, h) == \A b \in D : b.hi - b.lo <= n => h[b] = Halved(A, h, b)
            S == {n \in Nat : \E h \in [D -> D] : Upto(n, h)}
<1>0. \A b \in D : b.lo \in lo..hi /\ b.hi \in lo..hi
  BY DEF Pairs
<1>1. ASSUME NEW h \in [D -> D], NEW b \in D
      PROVE  Halved(A, h, b) \in D
  <2>1. CASE b.hi - b.lo <= 1
    BY <2>1 DEF Halved
  <2>2. CASE b.hi - b.lo > 1
    <3>1. Pair(Middle(b), b.hi) \in D /\ Pair(b.lo, Middle(b)) \in D
      BY <2>2, MiddleBetween
    <3>. HIDE DEF D
    <3>. QED  BY <2>2, <3>1 DEF Halved
  <2>. QED  BY <1>0, <2>1, <2>2
<1>2. 0 \in S
  <2>. DEFINE h == [b \in D |-> b]
  <2>1. \A b \in D : b.hi - b.lo <= 0 => h[b] = Halved(A, h, b)
    <3>. HIDE DEF D
    <3>. QED  BY <1>0 DEF Halved
  <2>. QED  BY <2>1
<1>3. ASSUME NEW n \in Nat, n \in S
      PROVE  n + 1 \in S
  <2>1. PICK h \in [D -> D] : Upto(n, h)
    BY <1>3
  <2>. DEFINE g == [b \in D |-> IF b.hi - b.lo = n + 1 THEN Halved(A, h, b) ELSE h[b]]
  <2>2. g \in [D -> D]
    <3>. HIDE DEF D
    <3>. QED  BY <1>1
  <2>3. ASSUME NEW b \in D, b.hi - b.lo <= n + 1
        PROVE  g[b] = Halved(A, g, b)
    <3>1. CASE b.hi - b.lo <= 1
      BY <1>0, <2>1, <2>3, <3>1 DEF Halved
    <3>2. CASE b.hi - b.lo > 1
      <4>. DEFINE p == Pair(Middle(b), b.hi)
                  q == Pair(b.lo, Middle(b))
      <4>1. p \in D /\ q \in D /\ b.lo < Middle(b) /\ Middle(b) < b.hi /\ Middle(b) \in lo..hi
        BY <3>2, MiddleBetween
      <4>2. p.hi - p.lo # n + 1 /\ q.hi - q.lo # n + 1
        <5>1. p.hi = b.hi /\ p.lo = Middle(b) /\ q.hi = Middle(b) /\ q.lo = b.lo
          BY DEF Pair
        <5>. HIDE DEF p, q, D
        <5>. QED  BY <1>0, <2>3, <4>1, <5>1
      <4>3. g[p] = h[p] /\ g[q] = h[q]
        BY <4>1, <4>2
      <4>4. Halved(A, g, b) = Halved(A, h, b)
        BY <4>3 DEF Halved
      <4>5. g[b] = Halved(A, h, b)
        <5>1. CASE b.hi - b.lo = n + 1
          BY <5>1
        <5>2. CASE b.hi - b.lo # n + 1
          <6>1. b.hi - b.lo <= n
            <7>. HIDE DEF D
            <7>. QED  BY <1>0, <2>3, <5>2
          <6>. QED  BY <2>1, <5>2, <6>1
        <5>. QED  BY <5>1, <5>2
      <4>. QED  BY <4>4, <4>5
    <3>. QED  BY <1>0, <3>1, <3>2
  <2>. HIDE DEF g, D
  <2>. QED  BY <2>2, <2>3
<1>. HIDE DEF S
<1>4. hi \in S
  BY <1>2, <1>3, SetInduction
<1>5. PICK h \in [D -> D] : Upto(hi, h)
  BY <1>4 DEF S
<1>6. \A b \in D : b.hi - b.lo <= hi
  BY <1>0
<1>7. h = [b \in D |-> Halved(A, h, b)]
  <2>. HIDE DEF D
  <2>. QED  BY <1>5, <1>6
<1>. QED  BY <1>7 DEF Halving

\* From an interval with its first end in A and not its second, Halving ends at a
\* boundary of A, whatever A is in between.
LEMMA HalvingFinds ==
    ASSUME NEW lo \in Nat, NEW hi \in Nat, NEW A, lo < hi, lo \in A, hi \notin A
    PROVE  Boundary(A, lo, hi, Halving(A, lo, hi)[Pair(lo, hi)])
<1>. DEFINE D == Pairs(lo, hi)
            h == Halving(A, lo, hi)
            S == {n \in Nat : \A b \in D :
                     b.lo < b.hi /\ b.hi - b.lo <= n /\ b.lo \in A /\ b.hi \notin A => Boundary(A, lo, hi, h[b])}
<1>0. \A b \in D : b.lo \in lo..hi /\ b.hi \in lo..hi
  BY DEF Pairs
<1>1. \A b \in D : h[b] = Halved(A, h, b)
  <2>1. h = [b \in D |-> Halved(A, h, b)]
    BY HalvingSteps
  <2>. HIDE DEF h, D
  <2>. QED  BY <2>1
<1>. HIDE DEF h, D
<1>2. 0 \in S
  BY <1>0
<1>3. ASSUME NEW n \in Nat, n \in S
      PROVE  n + 1 \in S
  <2>1. ASSUME NEW b \in D, b.lo < b.hi, b.hi - b.lo <= n + 1, b.lo \in A, b.hi \notin A
        PROVE  Boundary(A, lo, hi, h[b])
    <3>1. CASE b.hi - b.lo <= 1
      <4>1. h[b] = b
        BY <1>1, <3>1 DEF Halved
      <4>2. b.hi = b.lo + 1 /\ b.lo \in lo..hi - 1
        BY <1>0, <2>1, <3>1
      <4>. QED  BY <2>1, <4>1, <4>2 DEF Boundary
    <3>2. CASE b.hi - b.lo > 1
      <4>. DEFINE p == Pair(Middle(b), b.hi)
                  q == Pair(b.lo, Middle(b))
      <4>1. p \in D /\ q \in D /\ b.lo < Middle(b) /\ Middle(b) < b.hi /\ Middle(b) \in lo..hi
        BY <3>2, MiddleBetween DEF D
      <4>2. p.hi = b.hi /\ p.lo = Middle(b) /\ q.hi = Middle(b) /\ q.lo = b.lo
        BY DEF Pair
      <4>. HIDE DEF p, q
      <4>3. p.hi - p.lo <= n /\ q.hi - q.lo <= n
        BY <1>0, <2>1, <4>1, <4>2
      <4>4. CASE Middle(b) \in A
        <5>1. h[b] = h[p]
          BY <1>0, <1>1, <3>2, <4>4 DEF Halved, p
        <5>. QED  BY <1>3, <2>1, <4>1, <4>2, <4>3, <4>4, <5>1
      <4>5. CASE Middle(b) \notin A
        <5>1. h[b] = h[q]
          BY <1>0, <1>1, <3>2, <4>5 DEF Halved, q
        <5>. QED  BY <1>3, <2>1, <4>1, <4>2, <4>3, <4>5, <5>1
      <4>. QED  BY <4>4, <4>5
    <3>. QED  BY <1>0, <3>1, <3>2
  <2>. QED  BY <2>1
<1>. HIDE DEF S
<1>4. hi \in S
  BY <1>2, <1>3, SetInduction
<1>5. /\ Pair(lo, hi) \in D /\ Pair(lo, hi).lo = lo /\ Pair(lo, hi).hi = hi /\ hi - lo <= hi
  BY DEF Pair, Pairs, D
<1>. QED  BY <1>4, <1>5 DEF S, h

-----------------------------------------------------------------------------
(* frequency *)

\* What the proofs use of the constants.
LEMMA Constants ==
    /\ Steps \in Nat /\ 1 <= Steps /\ Budget \in Nat /\ IsFiniteSet(Registrations)
    /\ Cardinality(Registrations) \in Nat
    /\ \A l \in Rates, k \in 0..Steps : Slope[l][k] \in Nat
    /\ \A l \in Rates, k \in 0..Steps - 1 : Slope[l][k + 1] + 1 < Slope[l][k]
    /\ \A l, m \in Rates : l <= m => Slope[m][0] <= Slope[l][0]
<1>1. \A l \in Rates, k \in 0..Steps - 1 : Slope[l][k + 1] + 1 < Slope[l][k]
  <2>1. ASSUME NEW l \in Rates, NEW k \in 0..Steps - 1
        PROVE  Slope[l][k + 1] + 1 < Slope[l][k]
    <3>1. k + 1 \in 1..Steps /\ (k + 1) - 1 = k
      BY FreshnessAssumption
    <3>2. Slope[l][k + 1] + 1 < Slope[l][(k + 1) - 1]
      BY <3>1, FreshnessAssumption
    <3>. QED  BY <3>1, <3>2
  <2>. QED  BY <2>1
<1>2. ASSUME NEW l \in Rates, NEW m \in Rates, l <= m
      PROVE  Slope[m][0] <= Slope[l][0]
  <2>1. l \in Nat /\ m \in Nat /\ Slope[l][0] \in Nat /\ Slope[m][0] \in Nat
    BY FreshnessAssumption
  <2>2. l < m => Slope[m][0] < Slope[l][0]
    BY FreshnessAssumption
  <2>. QED  BY <1>2, <2>1, <2>2
<1>3. Cardinality(Registrations) \in Nat
  BY FreshnessAssumption, FS_CardinalityType
<1>. QED  BY <1>1, <1>2, <1>3, FreshnessAssumption

\* The slope falls over any distance.
LEMMA SlopeFalls ==
    ASSUME NEW l \in Rates, NEW i \in 0..Steps, NEW j \in 0..Steps, i <= j
    PROVE  Slope[l][j] <= Slope[l][i]
<1>. DEFINE S == {n \in Nat : i + n <= Steps => Slope[l][i + n] <= Slope[l][i]}
<1>1. 0 \in S
  BY Constants
<1>2. ASSUME NEW n \in Nat, n \in S
      PROVE  n + 1 \in S
  <2>1. CASE i + (n + 1) <= Steps
    <3>. DEFINE k == i + n
    <3>1. k \in 0..Steps - 1 /\ k \in 0..Steps /\ i + (n + 1) = k + 1 /\ k + 1 \in 0..Steps
      BY <2>1, Constants
    <3>2. Slope[l][k] <= Slope[l][i]
      BY <1>2, <3>1, Constants
    <3>. HIDE DEF k
    <3>3. Slope[l][k + 1] + 1 < Slope[l][k] /\ Slope[l][k + 1] \in Nat /\ Slope[l][k] \in Nat /\ Slope[l][i] \in Nat
      BY <3>1, Constants
    <3>4. Slope[l][k + 1] <= Slope[l][i]
      BY <3>2, <3>3
    <3>. QED  BY <3>1, <3>4
  <2>2. CASE ~(i + (n + 1) <= Steps)
    BY <2>2
  <2>. QED  BY <2>1, <2>2
<1>. HIDE DEF S
<1>3. j - i \in S
  BY <1>1, <1>2, Constants, SetInduction
<1>4. i + (j - i) = j
  BY Constants
<1>. QED  BY <1>3, <1>4, Constants DEF S

\* k is where the slope falls to mu, or the end of the grid.
Stops(l, mu, k) ==
    /\ k \in 0..Steps
    /\ k > 0 => Slope[l][k] >= mu
    /\ k < Steps => Slope[l][k + 1] <= mu

\* frequency finds where the slope falls to mu.
LEMMA FrequencyStops ==
    ASSUME NEW l \in Rates, NEW mu \in Nat
    PROVE  /\ Stops(l, mu, frequency(l, mu))
           /\ mu >= Slope[l][0] => frequency(l, mu) = 0
           /\ mu = 0 => frequency(l, mu) = Steps
<1>. DEFINE A == {f \in 0..Steps : Slope[l][f] > mu}
<1>1. \A k \in 0..Steps : Slope[l][k] \in Nat
  BY Constants
<1>2. CASE mu >= Slope[l][0]
  <2>1. frequency(l, mu) = 0
    BY <1>2 DEF frequency
  <2>2. Slope[l][1] <= mu /\ mu # 0
    <3>1. Slope[l][0 + 1] + 1 < Slope[l][0] /\ 0 \in 0..Steps /\ 1 \in 0..Steps
      BY Constants
    <3>. QED  BY <1>1, <1>2, <3>1
  <2>. QED  BY <2>1, <2>2, Constants DEF Stops
<1>3. CASE mu < Slope[l][0] /\ Slope[l][Steps] >= mu
  <2>1. frequency(l, mu) = Steps
    BY <1>1, <1>3, Constants DEF frequency
  <2>. QED  BY <1>1, <1>3, <2>1, Constants DEF Stops
<1>4. CASE mu < Slope[l][0] /\ Slope[l][Steps] < mu
  <2>. DEFINE raw(h) == [b \in Pairs(0, Steps) |->
                  IF b.hi - b.lo <= 1 THEN b
                  ELSE IF Slope[l][Middle(b)] > mu THEN h[Pair(Middle(b), b.hi)]
                  ELSE h[Pair(b.lo, Middle(b))]]
              sets(h) == [b \in Pairs(0, Steps) |-> Halved(A, h, b)]
  <2>1. frequency(l, mu) = (CHOOSE h : h = raw(h))[Pair(0, Steps)].lo
    <3>1. ~(mu >= Slope[l][0]) /\ ~(Slope[l][Steps] >= mu)
      BY <1>1, <1>4, Constants
    <3>. QED  BY <3>1 DEF frequency, Bisect, Pairs, Pair, Middle
  <2>2. ASSUME NEW h PROVE raw(h) = sets(h)
    <3>1. ASSUME NEW b \in Pairs(0, Steps), ~(b.hi - b.lo <= 1)
          PROVE  Slope[l][Middle(b)] > mu <=> Middle(b) \in A
      <4>1. b.hi - b.lo > 1
        BY <3>1, Constants DEF Pairs
      <4>2. Middle(b) \in 0..Steps
        BY <4>1, Constants, MiddleBetween
      <4>. QED  BY <4>2
    <3>. HIDE DEF A
    <3>. QED  BY <3>1 DEF Halved
  <2>3. (CHOOSE h : h = raw(h)) = Halving(A, 0, Steps)
    <3>. HIDE DEF raw, sets
    <3>1. (CHOOSE h : h = raw(h)) = (CHOOSE h : h = sets(h))
      BY <2>2
    <3>. QED  BY <3>1 DEF Halving, sets
  <2>. DEFINE r == Halving(A, 0, Steps)[Pair(0, Steps)]
  <2>4. frequency(l, mu) = r.lo
    BY <2>1, <2>3
  <2>5. Boundary(A, 0, Steps, r)
    <3>1. 0 \in A /\ Steps \notin A /\ 0 < Steps
      BY <1>1, <1>4, Constants
    <3>. HIDE DEF A
    <3>. QED  BY <3>1, Constants, HalvingFinds
  <2>. HIDE DEF r
  <2>6. /\ r.lo \in 0..Steps - 1 /\ r.hi = r.lo + 1 /\ Slope[l][r.lo] > mu /\ r.lo + 1 \in 0..Steps
        /\ ~(Slope[l][r.lo + 1] > mu)
    BY <2>5, Constants DEF Boundary
  <2>7. Slope[l][r.lo] >= mu /\ Slope[l][r.lo + 1] <= mu /\ mu # 0
    BY <1>1, <1>4, <2>6, Constants
  <2>8. ~(mu >= Slope[l][0])
    BY <1>1, <1>4, Constants
  <2>. QED  BY <2>4, <2>6, <2>7, <2>8, Constants DEF Stops
<1>. QED  BY <1>1, <1>2, <1>3, <1>4, Constants

\* Where the slope falls to mu is at most one step above where it falls to mu + 1.
LEMMA NextFrequency ==
    ASSUME NEW l \in Rates, NEW mu \in Nat, NEW k, NEW j, Stops(l, mu + 1, k), Stops(l, mu, j)
    PROVE  j <= k + 1
<1>. SUFFICES ASSUME ~(j <= k + 1) PROVE FALSE
  OBVIOUS
<1>1. k \in 0..Steps /\ j \in 0..Steps
  BY DEF Stops
<1>2. k + 2 <= j /\ k \in 0..Steps - 1 /\ k + 1 \in 0..Steps - 1 /\ k + 2 \in 0..Steps
      /\ k + 1 \in 0..Steps /\ j > 0 /\ k < Steps
  BY <1>1, Constants
<1>3. Slope[l][k + 1] <= mu + 1 /\ Slope[l][j] >= mu
  BY <1>2 DEF Stops
<1>4. Slope[l][(k + 1) + 1] + 1 < Slope[l][k + 1] /\ (k + 1) + 1 = k + 2
  BY <1>2, Constants
<1>5. Slope[l][j] <= Slope[l][k + 2]
  BY <1>1, <1>2, SlopeFalls
<1>6. Slope[l][j] \in Nat /\ Slope[l][k + 1] \in Nat /\ Slope[l][k + 2] \in Nat
  BY <1>1, <1>2, Constants
<1>7. Slope[l][k + 2] + 1 < Slope[l][k + 1]
  BY <1>4
<1>. QED  BY <1>3, <1>5, <1>6, <1>7

\* The gain is the sum of the slopes.
LEMMA GainStep ==
    ASSUME NEW l \in Rates
    PROVE  /\ \A k \in 0..Steps : Gain[l][k] \in Nat
           /\ \A k \in 0..Steps - 1 : Gain[l][k + 1] = Gain[l][k] + Slope[l][k + 1]
<1>. DEFINE f(k) == [i \in 1..k |-> Slope[l][i]]
<1>1. \A k \in 0..Steps : Gain[l][k] = SumFunction(f(k))
  BY DEF Gain
<1>2. ASSUME NEW k \in 0..Steps
      PROVE  f(k) \in [1..k -> Nat] /\ IsFiniteSet(1..k)
  <2>1. \A i \in 1..k : i \in 0..Steps
    BY Constants
  <2>2. IsFiniteSet(1..k)
    BY Constants, FS_Interval
  <2>. QED  BY <2>1, <2>2, Constants
<1>3. ASSUME NEW k \in 0..Steps
      PROVE  Gain[l][k] \in Nat
  <2>. HIDE DEF f
  <2>1. SumFunction(f(k)) \in Nat
    BY <1>2, SumType
  <2>. QED  BY <1>1, <2>1
<1>4. ASSUME NEW k \in 0..Steps - 1
      PROVE  Gain[l][k + 1] = Gain[l][k] + Slope[l][k + 1]
  <2>1. k \in 0..Steps /\ k + 1 \in 0..Steps /\ k + 1 \in 1..k + 1 /\ (1..k + 1) \ {k + 1} = 1..k
    BY Constants
  <2>2. /\ f(k + 1) \in [1..k + 1 -> Nat] /\ IsFiniteSet(1..k + 1) /\ f(k) \in [1..k -> Nat]
        /\ \A i \in 1..k : f(k + 1)[i] = f(k)[i]
        /\ f(k + 1)[k + 1] = Slope[l][k + 1]
    <3>1. f(k + 1) \in [1..k + 1 -> Nat] /\ IsFiniteSet(1..k + 1) /\ f(k) \in [1..k -> Nat]
      <4>. HIDE DEF f
      <4>. QED  BY <1>2, <2>1
    <3>2. \A i \in 1..k : i \in 1..k + 1
      BY Constants
    <3>. QED  BY <2>1, <3>1, <3>2
  <2>3. SumFunction(f(k + 1)) = f(k + 1)[k + 1] + SumFunction(f(k))
    <3>. DEFINE D == 1..k + 1
                x == k + 1
    <3>. HIDE DEF f
    <3>1. x \in D /\ IsFiniteSet(D) /\ D \ {x} = 1..k /\ f(k + 1) \in [D -> Nat]
      BY <2>1, <2>2
    <3>2. f(k) \in [D \ {x} -> Nat] /\ \A y \in D \ {x} : f(k + 1)[y] = f(k)[y]
      BY <2>2, <3>1
    <3>. HIDE DEF D, x
    <3>3. SumFunction(f(k + 1)) = f(k + 1)[x] + SumFunction(f(k))
      BY <3>1, <3>2, SumTakes
    <3>. QED  BY <3>3 DEF x
  <2>4. Gain[l][k + 1] = Slope[l][k + 1] + Gain[l][k]
    <3>. HIDE DEF f
    <3>. QED  BY <1>1, <2>1, <2>2, <2>3
  <2>5. Slope[l][k + 1] \in Nat /\ Gain[l][k] \in Nat
    BY <1>3, <2>1, Constants
  <2>. QED  BY <2>4, <2>5
<1>. QED  BY <1>3, <1>4

\* No frequency is worth more than the one where the slope falls to mu, when a step
\* costs mu.
LEMMA GainBound ==
    ASSUME NEW l \in Rates, NEW mu \in Nat, NEW k, Stops(l, mu, k), NEW o \in 0..Steps
    PROVE  Gain[l][o] + mu * k <= Gain[l][k] + mu * o
<1>0. k \in 0..Steps /\ k \in Nat /\ o \in Nat
  BY Constants DEF Stops
<1>1. CASE k <= o
  <2>. DEFINE S == {n \in Nat : k + n <= Steps => Gain[l][k + n] <= Gain[l][k] + mu * n}
  <2>1. 0 \in S
    <3>1. mu * 0 = 0 /\ k + 0 = k
      BY <1>0
    <3>. QED  BY <1>0, <3>1, GainStep
  <2>2. ASSUME NEW n \in Nat, n \in S
        PROVE  n + 1 \in S
    <3>1. CASE k + (n + 1) <= Steps
      <4>. DEFINE i == k + n
      <4>1. i \in 0..Steps - 1 /\ i \in 0..Steps /\ i + 1 \in 0..Steps /\ k + 1 \in 0..Steps /\ k + 1 <= i + 1
            /\ k < Steps /\ k + (n + 1) = i + 1
        BY <1>0, <3>1, Constants
      <4>2. Gain[l][i] <= Gain[l][k] + mu * n
        BY <2>2, <4>1, Constants
      <4>. HIDE DEF i
      <4>3. Gain[l][i + 1] = Gain[l][i] + Slope[l][i + 1]
        BY <4>1, GainStep
      <4>4. Slope[l][i + 1] <= Slope[l][k + 1] /\ Slope[l][k + 1] <= mu
        BY <4>1, SlopeFalls DEF Stops
      <4>5. /\ Gain[l][i] \in Nat /\ Gain[l][k] \in Nat /\ Gain[l][i + 1] \in Nat
            /\ Slope[l][i + 1] \in Nat /\ Slope[l][k + 1] \in Nat
        BY <1>0, <4>1, GainStep, Constants
      <4>6. mu * (n + 1) = mu * n + mu /\ mu * n \in Nat
        <5>1. mu * (n + 1) = mu * n + mu * 1 /\ mu * n \in Nat
          BY Product
        <5>. QED  BY <5>1
      <4>7. Gain[l][i + 1] <= Gain[l][k] + mu * (n + 1)
        <5>. DEFINE c == mu * n
        <5>. HIDE DEF c
        <5>1. Gain[l][i] <= Gain[l][k] + c /\ mu * (n + 1) = c + mu /\ c \in Nat
          BY <4>2, <4>6 DEF c
        <5>2. Slope[l][i + 1] <= mu
          BY <4>4, <4>5
        <5>. QED  BY <4>3, <4>5, <5>1, <5>2
      <4>. QED  BY <4>1, <4>7
    <3>2. CASE ~(k + (n + 1) <= Steps)
      BY <3>2
    <3>. QED  BY <3>1, <3>2
  <2>. HIDE DEF S
  <2>. DEFINE n == o - k
  <2>3. n \in Nat /\ k + n = o /\ o <= Steps
    BY <1>0, <1>1, Constants
  <2>. HIDE DEF n
  <2>4. n \in S
    BY <2>1, <2>2, <2>3, SetInduction
  <2>5. Gain[l][o] <= Gain[l][k] + mu * n
    BY <2>3, <2>4 DEF S
  <2>6. mu * o = mu * k + mu * n /\ mu * k \in Nat /\ mu * n \in Nat
    BY <1>0, <2>3, Product
  <2>7. Gain[l][o] \in Nat /\ Gain[l][k] \in Nat
    BY <1>0, GainStep
  <2>. DEFINE c == mu * n
              d == mu * k
  <2>8. Gain[l][o] <= Gain[l][k] + c /\ mu * o = d + c /\ c \in Nat /\ d \in Nat
    BY <2>5, <2>6
  <2>. HIDE DEF c, d
  <2>9. Gain[l][o] + d <= Gain[l][k] + mu * o
    BY <2>7, <2>8
  <2>. QED  BY <2>9 DEF d
<1>2. CASE o <= k
  <2>. DEFINE S == {n \in Nat : n <= k => Gain[l][k - n] + mu * n <= Gain[l][k]}
  <2>1. 0 \in S
    <3>1. mu * 0 = 0 /\ k - 0 = k
      BY <1>0
    <3>2. Gain[l][k] + 0 <= Gain[l][k]
      BY <1>0, GainStep
    <3>. QED  BY <3>1, <3>2
  <2>2. ASSUME NEW n \in Nat, n \in S
        PROVE  n + 1 \in S
    <3>1. CASE n + 1 <= k
      <4>. DEFINE i == k - (n + 1)
      <4>1. i \in 0..Steps - 1 /\ i \in 0..Steps /\ i + 1 \in 0..Steps /\ i + 1 <= k /\ k > 0 /\ k - n = i + 1
        BY <1>0, <3>1, Constants
      <4>2. Gain[l][i + 1] + mu * n <= Gain[l][k]
        BY <2>2, <3>1, <4>1, <1>0
      <4>. HIDE DEF i
      <4>3. Gain[l][i + 1] = Gain[l][i] + Slope[l][i + 1]
        BY <4>1, GainStep
      <4>4. Slope[l][k] <= Slope[l][i + 1] /\ mu <= Slope[l][k]
        BY <1>0, <4>1, SlopeFalls DEF Stops
      <4>5. /\ Gain[l][i] \in Nat /\ Gain[l][k] \in Nat /\ Gain[l][i + 1] \in Nat
            /\ Slope[l][i + 1] \in Nat /\ Slope[l][k] \in Nat
        BY <1>0, <4>1, GainStep, Constants
      <4>6. mu * (n + 1) = mu * n + mu /\ mu * n \in Nat
        <5>1. mu * (n + 1) = mu * n + mu * 1 /\ mu * n \in Nat
          BY Product
        <5>. QED  BY <5>1
      <4>7. Gain[l][i] + mu * (n + 1) <= Gain[l][k]
        <5>. DEFINE c == mu * n
        <5>. HIDE DEF c
        <5>1. Gain[l][i + 1] + c <= Gain[l][k] /\ mu * (n + 1) = c + mu /\ c \in Nat
          BY <4>2, <4>6 DEF c
        <5>2. mu <= Slope[l][i + 1]
          BY <4>4, <4>5
        <5>. QED  BY <4>3, <4>5, <5>1, <5>2
      <4>. QED  BY <4>7 DEF i
    <3>2. CASE ~(n + 1 <= k)
      BY <3>2
    <3>. QED  BY <3>1, <3>2
  <2>. HIDE DEF S
  <2>. DEFINE n == k - o
  <2>3. n \in Nat /\ o + n = k /\ k - n = o /\ n <= k
    BY <1>0, <1>2, Constants
  <2>. HIDE DEF n
  <2>4. n \in S
    BY <2>1, <2>2, <2>3, SetInduction
  <2>5. Gain[l][o] + mu * n <= Gain[l][k]
    BY <2>3, <2>4 DEF S
  <2>6. mu * k = mu * o + mu * n /\ mu * o \in Nat /\ mu * n \in Nat
    BY <1>0, <2>3, Product
  <2>7. Gain[l][o] \in Nat /\ Gain[l][k] \in Nat
    BY <1>0, GainStep
  <2>. DEFINE c == mu * n
              d == mu * o
  <2>8. Gain[l][o] + c <= Gain[l][k] /\ mu * k = d + c /\ c \in Nat /\ d \in Nat
    BY <2>5, <2>6
  <2>. HIDE DEF c, d
  <2>9. Gain[l][o] + mu * k <= Gain[l][k] + d
    BY <2>7, <2>8
  <2>. QED  BY <2>9 DEF d
<1>. QED  BY <1>0, <1>1, <1>2

-----------------------------------------------------------------------------
(* allocate *)

\* A set of naturals has a least element.
LEMMA LeastExists ==
    ASSUME NEW S \in SUBSET Nat, S # {}
    PROVE  \E n \in S : \A m \in S : n <= m
<1>. DEFINE R == OpToRel(<, Nat)
<1>1. PICK n \in S : \A m \in S : <<m, n>> \notin R
  <2>1. IsWellFoundedOn(R, Nat)
    BY NatLessThanWellFounded
  <2>. HIDE DEF R
  <2>. QED  BY <2>1, WFMin
<1>2. ASSUME NEW m \in S PROVE n <= m
  <2>1. m \in Nat /\ n \in Nat /\ ~(m < n)
    BY <1>1 DEF OpToRel
  <2>. QED  BY <2>1
<1>. QED  BY <1>2

\* The slope at zero is the highest for the registration that changes the least.
LEMMA SlowestLeast ==
    ASSUME NEW rates \in [Registrations -> Rates], Registrations # {}
    PROVE  Slowest(rates) \in Rates /\ \A r \in Registrations : Slope[rates[r]][0] <= Slope[Slowest(rates)][0]
<1>1. Range(rates) \in SUBSET Nat /\ Range(rates) # {} /\ Range(rates) \subseteq Rates
  <2>1. Range(rates) # {}
    <3>1. PICK r \in Registrations : TRUE
      OBVIOUS
    <3>2. rates[r] \in Range(rates)
      BY DEF Range
    <3>. QED  BY <3>2
  <2>2. Range(rates) \subseteq Rates
    BY DEF Range
  <2>. QED  BY <2>1, <2>2, FreshnessAssumption
<1>2. \E n \in Range(rates) : \A m \in Range(rates) : n <= m
  BY <1>1, LeastExists
<1>3. Slowest(rates) \in Range(rates) /\ \A m \in Range(rates) : Slowest(rates) <= m
  BY <1>2 DEF Slowest
<1>4. \A r \in Registrations : rates[r] \in Range(rates)
  BY DEF Range
<1>. QED  BY <1>1, <1>3, <1>4, Constants

\* What mu gives to each.
LEMMA FrequenciesStop ==
    ASSUME NEW rates \in [Registrations -> Rates], NEW mu \in Nat
    PROVE  /\ Frequencies(rates, mu) \in [Registrations -> 0..Steps]
           /\ \A r \in Registrations : Stops(rates[r], mu, Frequencies(rates, mu)[r])
           /\ SumFunction(Frequencies(rates, mu)) \in Nat
<1>1. ASSUME NEW r \in Registrations
      PROVE  Stops(rates[r], mu, Frequencies(rates, mu)[r])
  BY FrequencyStops DEF Frequencies
<1>2. Frequencies(rates, mu) \in [Registrations -> 0..Steps]
  BY <1>1 DEF Stops, Frequencies
<1>3. Frequencies(rates, mu) \in [Registrations -> Nat]
  BY <1>2, Constants
<1>4. SumFunction(Frequencies(rates, mu)) \in Nat
  BY <1>3, Constants, SumType
<1>. QED  BY <1>1, <1>2, <1>4

\* mu is over the budget and mu + 1, which allocate takes, is not.
Balances(rates, mu) ==
    /\ mu \in Nat
    /\ SumFunction(Frequencies(rates, mu + 1)) <= Budget * Steps
    /\ SumFunction(Frequencies(rates, mu)) > Budget * Steps
    /\ allocate(rates) = Frequencies(rates, mu + 1)

\* allocate finds such a mu, below the budget.
LEMMA AllocateBalances ==
    ASSUME NEW rates \in [Registrations -> Rates], Budget < Cardinality(Registrations)
    PROVE  \E mu : Balances(rates, mu)
<1>. DEFINE M == Slope[Slowest(rates)][0]
            Over(m) == SumFunction(Frequencies(rates, m)) > Budget * Steps
            A == {m \in 0..M : Over(m)}
            spent == Budget * Steps
<1>1. Registrations # {}
  BY Constants, FS_EmptySet
<1>2. M \in Nat /\ 0 < M /\ \A r \in Registrations : Slope[rates[r]][0] <= M
  <2>1. /\ Slope[Slowest(rates)][0 + 1] + 1 < Slope[Slowest(rates)][0] /\ 0 \in 0..Steps
        /\ Slope[Slowest(rates)][0 + 1] \in Nat /\ Slope[Slowest(rates)][0] \in Nat
    BY <1>1, SlowestLeast, Constants
  <2>. QED  BY <1>1, <2>1, SlowestLeast
<1>. HIDE DEF M
<1>3. spent \in Nat
  BY Constants, Product
<1>4. Over(0)
  <2>1. \A r \in Registrations : Frequencies(rates, 0)[r] = Steps
    BY FrequencyStops DEF Frequencies
  <2>2. Frequencies(rates, 0) \in [Registrations -> Nat]
    BY <2>1, Constants DEF Frequencies
  <2>3. SumFunction(Frequencies(rates, 0)) = Steps * Cardinality(Registrations)
    BY <2>1, <2>2, Constants, SumConstant
  <2>4. Budget * Steps < Steps * Cardinality(Registrations)
    BY Constants
  <2>. QED  BY <2>3, <2>4
<1>5. ~Over(M)
  <2>1. \A r \in Registrations : Frequencies(rates, M)[r] = 0
    BY <1>2, FrequencyStops DEF Frequencies
  <2>2. Frequencies(rates, M) \in [Registrations -> Nat]
    BY <2>1 DEF Frequencies
  <2>3. SumFunction(Frequencies(rates, M)) = 0 * Cardinality(Registrations)
    BY <2>1, <2>2, Constants, SumConstant
  <2>. QED  BY <1>3, <2>3, Constants
<1>. DEFINE raw(h) == [b \in Pairs(0, M) |->
                IF b.hi - b.lo <= 1 THEN b
                ELSE IF Over(Middle(b)) THEN h[Pair(Middle(b), b.hi)]
                ELSE h[Pair(b.lo, Middle(b))]]
            sets(h) == [b \in Pairs(0, M) |-> Halved(A, h, b)]
            r == Halving(A, 0, M)[Pair(0, M)]
<1>6. allocate(rates) = Frequencies(rates, (CHOOSE h : h = raw(h))[Pair(0, M)].hi)
  <2>1. ~(Budget >= Cardinality(Registrations))
    BY Constants
  <2>. QED  BY <2>1 DEF allocate, Bisect, Pairs, Pair, Middle, M
<1>7. ASSUME NEW h PROVE raw(h) = sets(h)
  <2>1. ASSUME NEW b \in Pairs(0, M), ~(b.hi - b.lo <= 1)
        PROVE  Over(Middle(b)) <=> Middle(b) \in A
    <3>1. b.hi - b.lo > 1
      BY <1>2, <2>1 DEF Pairs
    <3>2. Middle(b) \in 0..M
      BY <1>2, <3>1, MiddleBetween
    <3>. HIDE DEF Over
    <3>. QED  BY <3>2
  <2>. HIDE DEF A, Over
  <2>. QED  BY <2>1 DEF Halved
<1>8. (CHOOSE h : h = raw(h)) = Halving(A, 0, M)
  <2>. HIDE DEF raw, sets
  <2>1. (CHOOSE h : h = raw(h)) = (CHOOSE h : h = sets(h))
    BY <1>7
  <2>. QED  BY <2>1 DEF Halving, sets
<1>. HIDE DEF raw, sets
<1>9. allocate(rates) = Frequencies(rates, r.hi)
  BY <1>6, <1>8
<1>10. Boundary(A, 0, M, r)
  <2>1. 0 \in A /\ M \notin A /\ 0 < M
    <3>. HIDE DEF Over
    <3>. QED  BY <1>2, <1>4, <1>5
  <2>. HIDE DEF A
  <2>. QED  BY <1>2, <2>1, HalvingFinds
<1>. HIDE DEF r
<1>11. r.lo \in Nat /\ r.hi = r.lo + 1 /\ r.lo \in 0..M /\ r.lo + 1 \in 0..M /\ Over(r.lo) /\ ~Over(r.lo + 1)
  <2>. HIDE DEF Over
  <2>. QED  BY <1>2, <1>10 DEF Boundary
<1>12. SumFunction(Frequencies(rates, r.lo + 1)) <= Budget * Steps
  <2>1. SumFunction(Frequencies(rates, r.lo + 1)) \in Nat
    BY <1>11, FrequenciesStop
  <2>. QED  BY <1>3, <1>11, <2>1
<1>13. Balances(rates, r.lo)
  BY <1>9, <1>11, <1>12 DEF Balances
<1>. QED  BY <1>13

\* The parts of AllocationIsOptimal, of any frequencies f.
WithinBudget(f) == f \in [Registrations -> 0..Steps] /\ SumFunction(f) <= Budget * Steps
SpendsBudget(f) ==
    \/ Budget * Steps < SumFunction(f) + Cardinality(Registrations)
    \/ \A r \in Registrations : f[r] = Steps
Gains(rates, f) == [r \in Registrations |-> Gain[rates[r]][f[r]]]
IsBest(rates, f) ==
    \A other \in [Registrations -> 0..Steps] :
        SumFunction(other) = SumFunction(f) => SumFunction(Gains(rates, other)) <= SumFunction(Gains(rates, f))

\* What frequencies are worth is a natural.
LEMMA GainsType ==
    ASSUME NEW rates \in [Registrations -> Rates], NEW f \in [Registrations -> 0..Steps]
    PROVE  /\ f \in [Registrations -> Nat] /\ SumFunction(f) \in Nat
           /\ Gains(rates, f) \in [Registrations -> Nat] /\ SumFunction(Gains(rates, f)) \in Nat
           /\ \A r \in Registrations : Gains(rates, f)[r] = Gain[rates[r]][f[r]]
<1>1. f \in [Registrations -> Nat] /\ Gains(rates, f) \in [Registrations -> Nat]
  BY Constants, GainStep DEF Gains
<1>2. SumFunction(f) \in Nat
  BY <1>1, Constants, SumType
<1>3. SumFunction(Gains(rates, f)) \in Nat
  BY <1>1, Constants, SumType
<1>. QED  BY <1>1, <1>2, <1>3 DEF Gains

\* At the limit there is nothing more to gain.
LEMMA LimitIsOptimal ==
    ASSUME NEW rates \in [Registrations -> Rates], Budget >= Cardinality(Registrations)
    PROVE  WithinBudget(allocate(rates)) /\ SpendsBudget(allocate(rates)) /\ IsBest(rates, allocate(rates))
<1>. DEFINE f == allocate(rates)
<1>1. f = [r \in Registrations |-> Steps]
  BY DEF allocate
<1>. HIDE DEF f
<1>2. f \in [Registrations -> 0..Steps] /\ f \in [Registrations -> Nat] /\ \A r \in Registrations : f[r] = Steps
  BY <1>1, Constants
<1>3. SumFunction(f) = Steps * Cardinality(Registrations)
  BY <1>2, Constants, SumConstant
<1>4. Steps * Cardinality(Registrations) <= Budget * Steps
  BY Constants
<1>5. ASSUME NEW other \in [Registrations -> 0..Steps]
      PROVE  SumFunction(Gains(rates, other)) <= SumFunction(Gains(rates, f))
  <2>1. ASSUME NEW r \in Registrations
        PROVE  Gains(rates, other)[r] <= Gains(rates, f)[r]
    <3>1. Stops(rates[r], 0, Steps)
      BY FrequencyStops
    <3>2. Gain[rates[r]][other[r]] + 0 * Steps <= Gain[rates[r]][Steps] + 0 * other[r]
      BY <3>1, GainBound
    <3>3. 0 * Steps = 0 /\ 0 * other[r] = 0
      BY Constants
    <3>4. Gain[rates[r]][other[r]] \in Nat /\ Gain[rates[r]][Steps] \in Nat
      BY GainStep, Constants
    <3>. QED  BY <1>2, <3>2, <3>3, <3>4 DEF Gains
  <2>. QED  BY <1>2, <2>1, GainsType, Constants, SumMonotone
<1>. QED  BY <1>2, <1>3, <1>4, <1>5 DEF f, WithinBudget, SpendsBudget, IsBest

\* Below it, no frequencies of the same total gain more: every step that they take
\* gains no more than mu, and every step that they leave out no less.
LEMMA BalanceIsOptimal ==
    ASSUME NEW rates \in [Registrations -> Rates], Budget < Cardinality(Registrations)
    PROVE  WithinBudget(allocate(rates)) /\ SpendsBudget(allocate(rates)) /\ IsBest(rates, allocate(rates))
<1>. DEFINE f == allocate(rates)
            R == Registrations
<1>1. PICK mu : Balances(rates, mu)
  BY AllocateBalances
<1>2. mu \in Nat /\ mu + 1 \in Nat
  BY <1>1 DEF Balances
<1>. DEFINE below == Frequencies(rates, mu)
<1>3. /\ f \in [R -> 0..Steps] /\ \A r \in R : Stops(rates[r], mu + 1, f[r])
      /\ SumFunction(f) <= Budget * Steps
  BY <1>1, <1>2, FrequenciesStop DEF Balances
<1>4. /\ below \in [R -> 0..Steps] /\ \A r \in R : Stops(rates[r], mu, below[r])
      /\ SumFunction(below) > Budget * Steps
  BY <1>1, <1>2, FrequenciesStop DEF Balances
<1>. HIDE DEF f, below
<1>5. Budget * Steps < SumFunction(f) + Cardinality(R)
  <2>. DEFINE ones == [r \in R |-> 1]
              more == [r \in R |-> f[r] + ones[r]]
  <2>1. /\ ones \in [R -> Nat] /\ more \in [R -> Nat] /\ f \in [R -> Nat] /\ below \in [R -> Nat]
        /\ \A r \in R : ones[r] = 1 /\ more[r] = f[r] + ones[r]
    BY <1>3, <1>4, Constants
  <2>2. ASSUME NEW r \in R PROVE below[r] <= more[r]
    <3>1. below[r] <= f[r] + 1
      BY <1>2, <1>3, <1>4, NextFrequency
    <3>. QED  BY <3>1
  <2>. HIDE DEF ones, more
  <2>3. SumFunction(below) <= SumFunction(more)
    BY <2>1, <2>2, Constants, SumMonotone
  <2>4. SumFunction(more) = SumFunction(f) + SumFunction(ones)
    <3>1. Plus(R, f, ones, more)
      BY <2>1, Constants DEF Plus
    <3>. QED  BY <3>1, SumPlus
  <2>5. SumFunction(ones) = 1 * Cardinality(R)
    BY <2>1, Constants, SumConstant
  <2>6. SumFunction(f) \in Nat /\ SumFunction(below) \in Nat /\ Budget * Steps \in Nat
    BY <2>1, Constants, SumType, Product
  <2>. DEFINE spent == Budget * Steps
  <2>7. spent \in Nat /\ SumFunction(below) > spent
    BY <1>4, <2>6
  <2>. HIDE DEF spent
  <2>8. spent < SumFunction(f) + Cardinality(R)
    BY <2>3, <2>4, <2>5, <2>6, <2>7, Constants
  <2>. QED  BY <2>8 DEF spent
<1>6. ASSUME NEW other \in [R -> 0..Steps], SumFunction(other) = SumFunction(f)
      PROVE  SumFunction(Gains(rates, other)) <= SumFunction(Gains(rates, f))
  <2>. DEFINE c == mu + 1
              cost(g) == [r \in R |-> c * g[r]]
              sum(g, h) == [r \in R |-> Gains(rates, g)[r] + cost(h)[r]]
  <2>1. ASSUME NEW g \in [R -> 0..Steps], NEW h \in [R -> 0..Steps]
        PROVE  /\ sum(g, h) \in [R -> Nat]
               /\ SumFunction(sum(g, h)) = SumFunction(Gains(rates, g)) + c * SumFunction(h)
    <3>1. /\ h \in [R -> Nat] /\ Gains(rates, g) \in [R -> Nat]
      BY GainsType
    <3>2. cost(h) \in [R -> Nat] /\ \A r \in R : cost(h)[r] = c * h[r]
      <4>1. ASSUME NEW r \in R PROVE c * h[r] \in Nat
        <5>1. h[r] \in Nat
          BY <3>1
        <5>. HIDE DEF c
        <5>2. c \in Nat
          BY <1>2 DEF c
        <5>. QED  BY <5>1, <5>2, Product
      <4>. HIDE DEF c
      <4>. QED  BY <4>1
    <3>3. SumFunction(cost(h)) = c * SumFunction(h)
      <4>1. c \in Nat
        BY <1>2
      <4>. HIDE DEF c, cost
      <4>. QED  BY <3>1, <3>2, <4>1, Constants, SumTimes
    <3>. HIDE DEF cost
    <3>4. sum(g, h) \in [R -> Nat] /\ \A r \in R : sum(g, h)[r] = Gains(rates, g)[r] + cost(h)[r]
      BY <3>1, <3>2
    <3>. HIDE DEF sum
    <3>5. SumFunction(sum(g, h)) = SumFunction(Gains(rates, g)) + SumFunction(cost(h))
      <4>1. Plus(R, Gains(rates, g), cost(h), sum(g, h))
        BY <3>1, <3>2, <3>4, Constants DEF Plus
      <4>. QED  BY <4>1, SumPlus
    <3>. QED  BY <3>3, <3>4, <3>5
  <2>2. ASSUME NEW r \in R
        PROVE  sum(other, f)[r] <= sum(f, other)[r]
    <3>1. Gain[rates[r]][other[r]] + c * f[r] <= Gain[rates[r]][f[r]] + c * other[r]
      BY <1>2, <1>3, GainBound
    <3>. QED  BY <3>1 DEF Gains
  <2>3. SumFunction(sum(other, f)) <= SumFunction(sum(f, other))
    <3>. HIDE DEF sum
    <3>. QED  BY <1>3, <2>1, <2>2, Constants, SumMonotone
  <2>. DEFINE both == c * SumFunction(f)
  <2>4. SumFunction(Gains(rates, other)) + both <= SumFunction(Gains(rates, f)) + both
    <3>. HIDE DEF sum, c
    <3>. QED  BY <1>3, <1>6, <2>1, <2>3
  <2>5. SumFunction(Gains(rates, other)) \in Nat /\ SumFunction(Gains(rates, f)) \in Nat /\ SumFunction(f) \in Nat
    BY <1>3, GainsType
  <2>6. both \in Nat
    <3>1. c \in Nat
      BY <1>2
    <3>. HIDE DEF c
    <3>. QED  BY <2>5, <3>1, Product
  <2>. HIDE DEF both
  <2>. QED  BY <2>4, <2>5, <2>6
<1>. QED  BY <1>3, <1>5, <1>6 DEF f, WithinBudget, SpendsBudget, IsBest

\* The rates are those of the registrations, and the frequencies what allocate makes of them.
Allocated == rate \in [Registrations -> Rates] /\ freq = allocate(rate)

\* "allocate maximizes the freshness subject to a total equal to the budget" and the
\* limit (freshness.go:63-65): what its two bisections return is worth as much as any
\* frequencies of the same total, however many registrations there are.
THEOREM AllocationAlwaysOptimal == Spec => []AllocationIsOptimal
<1>1. Init => Allocated
  BY DEF Init, Allocated
<1>2. Allocated /\ [Next]_vars => Allocated'
  BY DEF Allocated, Next, Run, CutShort, Refreshed, Check, vars
<1>3. Allocated => AllocationIsOptimal
  <2> SUFFICES ASSUME Allocated PROVE AllocationIsOptimal
    OBVIOUS
  <2>1. rate \in [Registrations -> Rates] /\ freq = allocate(rate)
    BY DEF Allocated
  <2>2. WithinBudget(freq) /\ SpendsBudget(freq) /\ IsBest(rate, freq)
    <3>1. CASE Budget >= Cardinality(Registrations)
      BY <2>1, <3>1, LimitIsOptimal
    <3>2. CASE Budget < Cardinality(Registrations)
      BY <2>1, <3>2, BalanceIsOptimal
    <3>. QED  BY <3>1, <3>2, Constants
  <2>3. SumFunction(freq) \in 0..Budget * Steps
    <3>1. SumFunction(freq) \in Nat
      BY <2>1, <2>2, GainsType DEF WithinBudget
    <3>. QED  BY <2>2, <3>1, Constants, Product DEF WithinBudget
  <2>4. \A other \in WithTotal[SumFunction(freq)] :
           other \in [Registrations -> 0..Steps] /\ SumFunction(other) = SumFunction(freq)
    BY <2>3 DEF WithTotal
  <2>5. \A f : Worth(f) = SumFunction(Gains(rate, f))
    BY DEF Worth, Gains
  <2>. QED  BY <2>2, <2>4, <2>5 DEF AllocationIsOptimal, WithinBudget, SpendsBudget, IsBest
<1>. QED  BY <1>1, <1>2, <1>3, PTL DEF Spec
=============================================================================
