----------------------------- MODULE SumLemmas -----------------------------
(***************************************************************************)
(* Facts about SumFunctionOnSet, the sum of a function over a finite set,  *)
(* which the balance store uses for what the open holds reserve (db.ts     *)
(* adds the rows up one by one, in whatever order SQLite returns them),    *)
(* and metrics.ts's identity for its terminal counters.                    *)
(* The community modules define the sum by recursion on subsets with an    *)
(* unspecified choice of the next element, so that it is well defined,     *)
(* and does not depend on the choice, has to be proved here.  Induction is *)
(* on subsets, from the least element of a set of cardinalities.           *)
(***************************************************************************)
EXTENDS Naturals, FiniteSets, Functions, FiniteSetTheorems, WellFoundedInduction, TLAPS

(* A set of naturals that is not empty has a least element: the induction  *)
(* behind every sum over the rows of a table.                              *)
LEMMA LeastElement ==
  ASSUME NEW T \in SUBSET Nat, T # {}
  PROVE  \E n \in T : \A m \in T : n <= m
<1>1. IsWellFoundedOn(OpToRel(<, Nat), Nat)
  BY NatLessThanWellFounded
<1>2. PICK n \in T : \A m \in T : <<m, n>> \notin OpToRel(<, Nat)
  BY <1>1, WFMin
<1>3. \A m \in T : ~ (m < n)
  BY <1>2 DEF OpToRel
<1>4. n \in Nat /\ n \in T /\ \A m \in T : m \in Nat
  BY <1>2
<1>5. \A m \in T : n <= m
  BY <1>3, <1>4
<1> QED BY <1>4, <1>5

(* A family F that contains a subset of S whenever it contains all of its   *)
(* strict subsets contains every subset of S: induction on sets of rows.    *)
LEMMA SubsetInduction ==
  ASSUME NEW S, IsFiniteSet(S), NEW F,
         \A s \in SUBSET S : (\A r \in SUBSET s : r # s => r \in F) => s \in F
  PROVE  \A s \in SUBSET S : s \in F
<1> DEFINE Bad == {s \in SUBSET S : s \notin F}
           Sizes == {Cardinality(s) : s \in Bad}
<1> SUFFICES ASSUME Bad # {} PROVE FALSE
  OBVIOUS
<1>1. \A s \in SUBSET S : IsFiniteSet(s) /\ Cardinality(s) \in Nat
  BY FS_Subset, FS_CardinalityType
<1>2. Sizes \in SUBSET Nat /\ Sizes # {}
  BY <1>1
<1>3. PICK n \in Sizes : \A m \in Sizes : n <= m
  BY <1>2, LeastElement
<1>4. PICK s \in Bad : n = Cardinality(s)
  BY <1>3
<1>5. ASSUME NEW r \in SUBSET s, r # s PROVE r \in F
  <2>1. r \in SUBSET S /\ s \in SUBSET S
    BY <1>4
  <2>2. Cardinality(r) <= Cardinality(s) /\ Cardinality(r) # Cardinality(s)
    BY <1>1, <1>5, <2>1, FS_Subset
  <2>3. CASE r \in Bad
    <3>1. Cardinality(r) \in Sizes
      BY <2>3
    <3> QED BY <1>1, <1>3, <1>4, <2>1, <2>2, <3>1
  <2> QED BY <2>1, <2>3
<1>6. s \in F
  BY <1>4, <1>5
<1> QED BY <1>4, <1>6

(* A finite set of naturals that is not empty has a greatest element: the   *)
(* row that was written last.                                              *)
LEMMA GreatestElement ==
  ASSUME NEW T \in SUBSET Nat, IsFiniteSet(T), T # {}
  PROVE  \E n \in T : \A m \in T : m <= n
<1> DEFINE F == {s \in SUBSET T : s # {} => \E n \in s : \A m \in s : m <= n}
<1>1. ASSUME NEW s \in SUBSET T, \A r \in SUBSET s : r # s => r \in F
      PROVE  s \in F
  <2> SUFFICES ASSUME s # {} PROVE \E n \in s : \A m \in s : m <= n
    OBVIOUS
  <2>1. PICK x \in s : TRUE
    OBVIOUS
  <2>2. s \ {x} \in F
    BY <1>1, <2>1
  <2>3. CASE s \ {x} = {}
    BY <2>1, <2>3
  <2>4. CASE s \ {x} # {}
    <3>1. PICK y \in s \ {x} : \A m \in s \ {x} : m <= y
      BY <2>2, <2>4
    <3>2. x \in Nat /\ y \in Nat /\ \A m \in s : m \in Nat
      BY <2>1, <3>1
    <3>3. CASE x <= y
      BY <3>1, <3>2, <3>3
    <3>4. CASE y <= x
      BY <3>1, <3>2, <3>4
    <3> QED BY <3>2, <3>3, <3>4
  <2> QED BY <2>3, <2>4
<1>2. \A s \in SUBSET T : s \in F
  <2> HIDE DEF F
  <2> QED BY <1>1, SubsetInduction
<1> QED BY <1>2

\* The next element the fold takes, and the recursion it solves on a set of sets.
Chosen(s) == CHOOSE x \in s : TRUE
IsSumOn(g, f, D) ==
  g = [s \in D |-> IF s = {} THEN 0 ELSE f[Chosen(s)] + g[s \ {Chosen(s)}]]

(* The element taken next is one of those left.                            *)
LEMMA ChosenIsMember == ASSUME NEW s, s # {} PROVE Chosen(s) \in s
BY DEF Chosen

(* The library's sum is the value at S of a solution of the recursion on    *)
(* the subsets of S, if there is one.                                       *)
LEMMA SumUnfolds ==
  ASSUME NEW f, NEW S
  PROVE  SumFunctionOnSet(f, S) = (CHOOSE g : IsSumOn(g, f, SUBSET S))[S]
BY Zenon DEF SumFunctionOnSet, FoldFunctionOnSet, MapThenFoldSet, IsSumOn, Chosen

(* Two solutions of the recursion agree wherever both are defined.          *)
LEMMA SumOnIsUnique ==
  ASSUME NEW f, NEW S, IsFiniteSet(S), NEW D, NEW E, NEW g, NEW h,
         SUBSET S \subseteq D, SUBSET S \subseteq E, IsSumOn(g, f, D), IsSumOn(h, f, E)
  PROVE  g[S] = h[S]
<1> DEFINE F == {s \in SUBSET S : g[s] = h[s]}
<1>1. ASSUME NEW s \in SUBSET S, \A r \in SUBSET s : r # s => r \in F
      PROVE  s \in F
  <2>1. s \in D /\ s \in E
    OBVIOUS
  <2>2. /\ g[s] = IF s = {} THEN 0 ELSE f[Chosen(s)] + g[s \ {Chosen(s)}]
        /\ h[s] = IF s = {} THEN 0 ELSE f[Chosen(s)] + h[s \ {Chosen(s)}]
    BY <2>1 DEF IsSumOn
  <2>3. CASE s = {}
    BY <2>2, <2>3
  <2>4. CASE s # {}
    <3>1. s \ {Chosen(s)} \in SUBSET s /\ s \ {Chosen(s)} # s
      BY <2>4, ChosenIsMember
    <3>2. s \ {Chosen(s)} \in F
      BY <1>1, <3>1
    <3> QED BY <2>2, <2>4, <3>2
  <2> QED BY <2>3, <2>4
<1>2. \A s \in SUBSET S : s \in F
  <2> HIDE DEF F
  <2> QED BY <1>1, SubsetInduction
<1> QED BY <1>2

(* The sum over a finite set exists: it is 0 over the empty set and takes   *)
(* one element out otherwise.                                               *)
LEMMA SumStep ==
  ASSUME NEW f, NEW S, IsFiniteSet(S)
  PROVE  \A s \in SUBSET S :
            SumFunctionOnSet(f, s) =
              IF s = {} THEN 0 ELSE f[Chosen(s)] + SumFunctionOnSet(f, s \ {Chosen(s)})
<1> DEFINE Sum(s) == SumFunctionOnSet(f, s)
           Body(s) == IF s = {} THEN 0 ELSE f[Chosen(s)] + Sum(s \ {Chosen(s)})
           F == {s \in SUBSET S : Sum(s) = Body(s)}
<1>1. ASSUME NEW s \in SUBSET S, \A r \in SUBSET s : r # s => r \in F
      PROVE  s \in F
  <2> DEFINE G == [r \in SUBSET s |-> Body(r)]
  <2>1. \A r \in SUBSET s : r # {} => r \ {Chosen(r)} \in SUBSET s /\ r \ {Chosen(r)} # s
    BY ChosenIsMember
  <2>2. \A r \in SUBSET s : r # {} => G[r \ {Chosen(r)}] = Sum(r \ {Chosen(r)})
    BY <1>1, <2>1
  <2>3. IsSumOn(G, f, SUBSET s)
    <3> HIDE DEF Sum
    <3>1. \A r \in SUBSET s : Body(r) = IF r = {} THEN 0 ELSE f[Chosen(r)] + G[r \ {Chosen(r)}]
      BY <2>2
    <3> QED BY <3>1, Zenon DEF IsSumOn
  <2>4. IsSumOn(CHOOSE g : IsSumOn(g, f, SUBSET s), f, SUBSET s)
    BY <2>3
  <2>5. IsFiniteSet(s)
    BY FS_Subset
  <2>6. Sum(s) = G[s]
    BY <2>3, <2>4, <2>5, SumUnfolds, SumOnIsUnique
  <2> QED BY <2>6
<1>2. \A s \in SUBSET S : s \in F
  <2> HIDE DEF F
  <2> QED BY <1>1, SubsetInduction
<1> QED BY <1>2

(* No open hold reserves nothing.                                           *)
LEMMA SumEmpty == ASSUME NEW f PROVE SumFunctionOnSet(f, {}) = 0
BY SumStep, FS_EmptySet

(* A sum of naturals is a natural: a recovery never refunds a negative      *)
(* amount.                                                                  *)
LEMMA SumType ==
  ASSUME NEW f, NEW S, IsFiniteSet(S), \A x \in S : f[x] \in Nat
  PROVE  SumFunctionOnSet(f, S) \in Nat
<1> DEFINE Sum(s) == SumFunctionOnSet(f, s)
           F == {s \in SUBSET S : Sum(s) \in Nat}
<1>1. ASSUME NEW s \in SUBSET S, \A r \in SUBSET s : r # s => r \in F
      PROVE  s \in F
  <2>1. Sum(s) = IF s = {} THEN 0 ELSE f[Chosen(s)] + Sum(s \ {Chosen(s)})
    BY SumStep
  <2>2. s # {} => s \ {Chosen(s)} \in SUBSET s /\ s \ {Chosen(s)} # s /\ Chosen(s) \in S
    BY ChosenIsMember
  <2> QED BY <1>1, <2>1, <2>2
<1>2. \A s \in SUBSET S : s \in F
  <2> HIDE DEF F
  <2> QED BY <1>1, SubsetInduction
<1> QED BY <1>2

(* Any element may be taken out first: the order in which rows are added    *)
(* up does not matter.                                                      *)
LEMMA SumRemove ==
  ASSUME NEW f, NEW S, IsFiniteSet(S), \A x \in S : f[x] \in Nat, NEW x \in S
  PROVE  SumFunctionOnSet(f, S) = f[x] + SumFunctionOnSet(f, S \ {x})
<1> DEFINE Sum(s) == SumFunctionOnSet(f, s)
           F == {s \in SUBSET S : \A y \in s : Sum(s) = f[y] + Sum(s \ {y})}
<1>1. ASSUME NEW s \in SUBSET S, \A r \in SUBSET s : r # s => r \in F
      PROVE  s \in F
  <2> SUFFICES ASSUME NEW y \in s PROVE Sum(s) = f[y] + Sum(s \ {y})
    OBVIOUS
  <2> DEFINE c == Chosen(s)
  <2>1. Sum(s) = f[c] + Sum(s \ {c})
    BY SumStep
  <2>2. c \in s
    BY ChosenIsMember
  <2>3. CASE c = y
    BY <2>1, <2>3
  <2>4. CASE c # y
    <3> HIDE DEF c
    <3>1. Sum(s \ {c}) = f[y] + Sum((s \ {c}) \ {y})
      BY <1>1, <2>2, <2>4
    <3>2. Sum(s \ {y}) = f[c] + Sum((s \ {y}) \ {c})
      BY <1>1, <2>2, <2>4
    <3>3. (s \ {c}) \ {y} = (s \ {y}) \ {c}
      OBVIOUS
    <3>4. IsFiniteSet((s \ {y}) \ {c})
      BY FS_Subset
    <3>5. Sum((s \ {y}) \ {c}) \in Nat
      BY <3>4, SumType
    <3>6. f[c] \in Nat /\ f[y] \in Nat
      BY <2>2
    <3> HIDE DEF Sum
    <3> QED BY <2>1, <3>1, <3>2, <3>3, <3>5, <3>6
  <2> QED BY <2>3, <2>4
<1>2. \A s \in SUBSET S : s \in F
  <2> HIDE DEF F
  <2> QED BY <1>1, SubsetInduction
<1> QED BY <1>2

(* The sum depends only on the values of the function on the set: rows of   *)
(* other tokens do not count.                                               *)
LEMMA SumAgree ==
  ASSUME NEW f, NEW g, NEW S, IsFiniteSet(S), \A x \in S : f[x] = g[x]
  PROVE  SumFunctionOnSet(f, S) = SumFunctionOnSet(g, S)
<1> DEFINE F == {s \in SUBSET S : SumFunctionOnSet(f, s) = SumFunctionOnSet(g, s)}
<1>1. ASSUME NEW s \in SUBSET S, \A r \in SUBSET s : r # s => r \in F
      PROVE  s \in F
  <2>1. /\ SumFunctionOnSet(f, s) = IF s = {} THEN 0 ELSE f[Chosen(s)] + SumFunctionOnSet(f, s \ {Chosen(s)})
        /\ SumFunctionOnSet(g, s) = IF s = {} THEN 0 ELSE g[Chosen(s)] + SumFunctionOnSet(g, s \ {Chosen(s)})
    BY SumStep
  <2>2. s # {} => s \ {Chosen(s)} \in SUBSET s /\ s \ {Chosen(s)} # s /\ Chosen(s) \in S
    BY ChosenIsMember
  <2> QED BY <1>1, <2>1, <2>2
<1>2. \A s \in SUBSET S : s \in F
  <2> HIDE DEF F
  <2> QED BY <1>1, SubsetInduction
<1> QED BY <1>2

(* What nothing was counted in adds up to nothing.                         *)
LEMMA SumOfZeroes ==
  ASSUME NEW f, NEW S, IsFiniteSet(S), \A x \in S : f[x] = 0
  PROVE  SumFunctionOnSet(f, S) = 0
<1> DEFINE F == {s \in SUBSET S : SumFunctionOnSet(f, s) = 0}
<1>1. ASSUME NEW s \in SUBSET S, \A r \in SUBSET s : r # s => r \in F
      PROVE  s \in F
  <2>1. SumFunctionOnSet(f, s) =
          IF s = {} THEN 0 ELSE f[Chosen(s)] + SumFunctionOnSet(f, s \ {Chosen(s)})
    BY SumStep
  <2>2. s # {} => s \ {Chosen(s)} \in SUBSET s /\ s \ {Chosen(s)} # s /\ Chosen(s) \in S
    BY ChosenIsMember
  <2> QED BY <1>1, <2>1, <2>2
<1>2. \A s \in SUBSET S : s \in F
  <2> HIDE DEF F
  <2> QED BY <1>1, SubsetInduction
<1> QED BY <1>2

(* More terms, no smaller a sum of naturals.                               *)
LEMMA SumGrows ==
  ASSUME NEW f, NEW R, IsFiniteSet(R), \A x \in R : f[x] \in Nat, NEW S \in SUBSET R
  PROVE  SumFunctionOnSet(f, S) <= SumFunctionOnSet(f, R)
<1> DEFINE Sum(s) == SumFunctionOnSet(f, s)
           F == {s \in SUBSET R : \A t \in SUBSET s : Sum(t) <= Sum(s)}
<1>1. \A s \in SUBSET R : IsFiniteSet(s) /\ Sum(s) \in Nat
  BY FS_Subset, SumType
<1>2. ASSUME NEW s \in SUBSET R, \A r \in SUBSET s : r # s => r \in F
      PROVE  s \in F
  <2> SUFFICES ASSUME NEW t \in SUBSET s, t # s PROVE Sum(t) <= Sum(s)
    BY <1>1
  <2>1. PICK x \in s : x \notin t
    OBVIOUS
  <2>2. s \ {x} \in F /\ t \in SUBSET (s \ {x})
    BY <1>2, <2>1
  <2>3. Sum(t) <= Sum(s \ {x})
    BY <2>2
  <2>4. Sum(s) = f[x] + Sum(s \ {x})
    BY <1>1, SumRemove
  <2>5. Sum(t) \in Nat /\ Sum(s) \in Nat /\ Sum(s \ {x}) \in Nat /\ f[x] \in Nat
    BY <1>1
  <2> HIDE DEF Sum
  <2> QED BY <2>3, <2>4, <2>5
<1>3. \A s \in SUBSET R : s \in F
  <2> HIDE DEF F
  <2> QED BY <1>2, SubsetInduction
<1> QED BY <1>3
=============================================================================
