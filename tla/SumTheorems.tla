----------------------------- MODULE SumTheorems -----------------------------
(***************************************************************************)
(* Lemmas about SumFunctionOnSet, the sum of the values that a function    *)
(* has on a finite set.  The models sum the chunks of the upload buffer    *)
(* and the counters of the flow histograms with it.                        *)
(*                                                                         *)
(* The induction theorems of the library take a predicate as a parameter;  *)
(* these proofs use minimal counterexamples instead: a nonempty set of     *)
(* subsets of a finite set has a minimal element.                          *)
(***************************************************************************)
EXTENDS Integers, Functions, FiniteSetTheorems, TLAPS

Chosen(s) == CHOOSE x \in s : TRUE

\* g is the function that SumFunctionOnSet defines recursively on SUBSET S.
SumStep(f, g, s) == IF s = {} THEN 0 ELSE f[Chosen(s)] + g[s \ {Chosen(s)}]
IsSum(f, g, S) == g = [s \in SUBSET S |-> SumStep(f, g, s)]

-----------------------------------------------------------------------------
(* Induction over a finite set.                                            *)

\* Among subsets of a finite set there is a minimal one.
LEMMA MinimalSubset ==
  ASSUME NEW S, IsFiniteSet(S), NEW T, T \subseteq SUBSET S, T # {}
  PROVE  \E x \in T : \A y \in T : y \subseteq x => y = x
<1>1. IsWellFoundedOn(StrictSubsetOrdering(S), FiniteSubsetsOf(S))
  BY FS_StrictSubsetOrderingWellFounded
<1>2. T \subseteq FiniteSubsetsOf(S)
  BY FS_FiniteSubsetsOfFinite
<1>3. \E x \in T : \A y \in T : ~ (<<y, x>> \in StrictSubsetOrdering(S))
  BY <1>1, <1>2, WFMin
<1> QED
  BY <1>3 DEF StrictSubsetOrdering

LEMMA ChosenIn == ASSUME NEW s, s # {} PROVE Chosen(s) \in s
BY DEF Chosen

-----------------------------------------------------------------------------
(* The recursive function exists and is unique.                            *)

LEMMA SumUnique ==
  ASSUME NEW f, NEW S, IsFiniteSet(S), NEW g, NEW h, IsSum(f, g, S), IsSum(f, h, S)
  PROVE  g = h
<1> DEFINE T == {s \in SUBSET S : g[s] # h[s]}
<1>1. g = [s \in SUBSET S |-> SumStep(f, g, s)] /\ h = [s \in SUBSET S |-> SumStep(f, h, s)]
  BY DEF IsSum
<1>2. SUFFICES ASSUME T # {} PROVE FALSE
  BY <1>1
<1>3. PICK x \in T : \A y \in T : y \subseteq x => y = x
  <2>1. T \subseteq SUBSET S
    OBVIOUS
  <2> HIDE DEF T
  <2> QED
    BY <1>2, <2>1, MinimalSubset
<1>4. x # {}
  BY <1>1, <1>3 DEF SumStep
<1>5. x \ {Chosen(x)} \in SUBSET S /\ x \ {Chosen(x)} \notin T
  BY <1>3, <1>4, ChosenIn
<1>6. g[x] = SumStep(f, g, x) /\ h[x] = SumStep(f, h, x)
  BY <1>1, <1>3
<1> QED
  BY <1>3, <1>4, <1>5, <1>6 DEF SumStep

LEMMA SumRestrict ==
  ASSUME NEW f, NEW S, NEW g, IsSum(f, g, S), NEW R, R \subseteq S
  PROVE  IsSum(f, [s \in SUBSET R |-> g[s]], R)
<1> DEFINE r == [s \in SUBSET R |-> g[s]]
<1>1. ASSUME NEW s \in SUBSET R PROVE g[s] = SumStep(f, r, s)
  <2>1. g[s] = SumStep(f, g, s)
    BY DEF IsSum
  <2> QED
    BY <2>1, ChosenIn DEF SumStep
<1> QED
  BY <1>1 DEF IsSum

LEMMA SumExists ==
  ASSUME NEW f, NEW S, IsFiniteSet(S)
  PROVE  \E g : IsSum(f, g, S)
<1> DEFINE The(s) == CHOOSE h : IsSum(f, h, s)
           T == {s \in SUBSET S : ~ \E g : IsSum(f, g, s)}
<1>1. SUFFICES ASSUME T # {} PROVE FALSE
  OBVIOUS
<1>2. PICK x \in T : \A y \in T : y \subseteq x => y = x
  <2>1. T \subseteq SUBSET S
    OBVIOUS
  <2> HIDE DEF T
  <2> QED
    BY <1>1, <2>1, MinimalSubset
<1>3. ASSUME NEW s \in SUBSET x, s # x PROVE IsSum(f, The(s), s)
  <2>1. s \notin T
    BY <1>2, <1>3
  <2>2. s \in SUBSET S
    BY <1>2
  <2> QED
    BY <2>1, <2>2
<1>4. ASSUME NEW s \in SUBSET x, s # x, NEW r \in SUBSET s
      PROVE  The(s)[r] = The(r)[r]
  <2>1. IsSum(f, The(s), s) /\ IsSum(f, The(r), r)
    BY <1>3, <1>4
  <2>2. IsSum(f, [q \in SUBSET r |-> The(s)[q]], r)
    BY <2>1, SumRestrict, Zenon
  <2>3. IsFiniteSet(r)
    BY <1>2, FS_Subset
  <2>4. The(r) = [q \in SUBSET r |-> The(s)[q]]
    BY <2>1, <2>2, <2>3, SumUnique, Zenon
  <2>5. [q \in SUBSET r |-> The(s)[q]][r] = The(s)[r]
    OBVIOUS
  <2> QED
    BY <2>4, <2>5, Zenon
<1> DEFINE g == [s \in SUBSET x |-> IF s = {} THEN 0
                                     ELSE f[Chosen(s)] + The(s \ {Chosen(s)})[s \ {Chosen(s)}]]
<1>5. ASSUME NEW s \in SUBSET x, s # x PROVE g[s] = The(s)[s]
  <2>1. The(s) = [q \in SUBSET s |-> SumStep(f, The(s), q)]
    BY <1>3, <1>5 DEF IsSum
  <2>2. The(s)[s] = SumStep(f, The(s), s)
    BY <2>1
  <2>3. s # {} => The(s)[s \ {Chosen(s)}] = The(s \ {Chosen(s)})[s \ {Chosen(s)}]
    BY <1>4, <1>5
  <2> QED
    BY <2>2, <2>3 DEF SumStep
<1>6. ASSUME NEW s \in SUBSET x PROVE g[s] = SumStep(f, g, s)
  <2>1. CASE s = {}
    BY <2>1 DEF SumStep
  <2>2. CASE s # {}
    <3>1. s \ {Chosen(s)} \in SUBSET x /\ s \ {Chosen(s)} # x
      BY <2>2, ChosenIn
    <3>2. g[s \ {Chosen(s)}] = The(s \ {Chosen(s)})[s \ {Chosen(s)}]
      BY <1>5, <3>1, Zenon
    <3>3. g[s] = f[Chosen(s)] + The(s \ {Chosen(s)})[s \ {Chosen(s)}]
      BY <2>2
    <3> HIDE DEF g, The
    <3> QED
      BY <2>2, <3>2, <3>3 DEF SumStep
  <2> QED
    BY <2>1, <2>2
<1>7. IsSum(f, g, x)
  <2> HIDE DEF g
  <2>1. g = [s \in SUBSET x |-> g[s]]
    BY DEF g
  <2> QED
    BY <1>6, <2>1 DEF IsSum
<1> QED
  BY <1>2, <1>7, Zenon

-----------------------------------------------------------------------------
(* What the sum is.                                                        *)

LEMMA SumDefined ==
  ASSUME NEW f, NEW S, IsFiniteSet(S), NEW g, IsSum(f, g, S)
  PROVE  SumFunctionOnSet(f, S) = g[S]
<1> DEFINE Fold == CHOOSE h : h = [s \in SUBSET S |->
                      IF s = {} THEN 0 ELSE LET x == CHOOSE x \in s : TRUE IN f[x] + h[s \ {x}]]
<1>1. SumFunctionOnSet(f, S) = Fold[S]
  BY DEF SumFunctionOnSet, FoldFunctionOnSet, MapThenFoldSet
<1>2. IsSum(f, Fold, S)
  BY DEF IsSum, SumStep, Chosen
<1> QED
  BY <1>1, <1>2, SumUnique, Zenon

\* The empty sum.
LEMMA SumEmpty == ASSUME NEW f PROVE SumFunctionOnSet(f, {}) = 0
<1>1. IsFiniteSet({})
  BY FS_EmptySet
<1>2. PICK g : IsSum(f, g, {})
  BY <1>1, SumExists
<1> QED
  BY <1>1, <1>2, SumDefined, ZenonT(60) DEF IsSum, SumStep

LEMMA SumChosen ==
  ASSUME NEW f, NEW S, IsFiniteSet(S), S # {}
  PROVE  SumFunctionOnSet(f, S) = f[Chosen(S)] + SumFunctionOnSet(f, S \ {Chosen(S)})
<1> DEFINE R == S \ {Chosen(S)}
<1>1. PICK g : IsSum(f, g, S)
  BY SumExists
<1>2. SumFunctionOnSet(f, S) = g[S]
  BY <1>1, SumDefined
<1>3. g[S] = SumStep(f, g, S)
  BY <1>1 DEF IsSum
<1>4. IsFiniteSet(R) /\ R \subseteq S
  BY FS_Subset
<1>5. IsSum(f, [s \in SUBSET R |-> g[s]], R)
  BY <1>1, <1>4, SumRestrict
<1>6. SumFunctionOnSet(f, R) = [s \in SUBSET R |-> g[s]][R]
  BY <1>4, <1>5, SumDefined, Zenon
<1>7. SumFunctionOnSet(f, R) = g[R]
  BY <1>6
<1> QED
  BY <1>2, <1>3, <1>7 DEF SumStep

\* A sum of integers is an integer.
LEMMA SumInt ==
  ASSUME NEW f, NEW S, IsFiniteSet(S), \A x \in S : f[x] \in Int
  PROVE  SumFunctionOnSet(f, S) \in Int
<1> DEFINE T == {s \in SUBSET S : SumFunctionOnSet(f, s) \notin Int}
<1>1. SUFFICES ASSUME T # {} PROVE FALSE
  OBVIOUS
<1>2. PICK s \in T : \A y \in T : y \subseteq s => y = s
  <2>1. T \subseteq SUBSET S
    OBVIOUS
  <2> HIDE DEF T
  <2> QED
    BY <1>1, <2>1, MinimalSubset
<1>3. s # {}
  <2>1. SumFunctionOnSet(f, s) \notin Int
    BY <1>2
  <2>2. SumFunctionOnSet(f, {}) \in Int
    BY SumEmpty
  <2> QED
    BY <2>1, <2>2, Zenon
<1>4. Chosen(s) \in s
  BY <1>3, ChosenIn
<1>5. s \ {Chosen(s)} \in SUBSET S /\ s \ {Chosen(s)} \notin T
  BY <1>2, <1>4
<1>6. IsFiniteSet(s)
  BY <1>2, FS_Subset
<1>7. SumFunctionOnSet(f, s) = f[Chosen(s)] + SumFunctionOnSet(f, s \ {Chosen(s)})
  BY <1>3, <1>6, SumChosen
<1>8. f[Chosen(s)] \in Int
  BY <1>2, <1>4
<1> QED
  BY <1>2, <1>5, <1>7, <1>8

\* The order does not matter: any element may be taken out first.
LEMMA SumRemove ==
  ASSUME NEW f, NEW S, IsFiniteSet(S), \A x \in S : f[x] \in Int, NEW x \in S
  PROVE  SumFunctionOnSet(f, S) = f[x] + SumFunctionOnSet(f, S \ {x})
<1> DEFINE T == {s \in SUBSET S : \E y \in s :
                    SumFunctionOnSet(f, s) # f[y] + SumFunctionOnSet(f, s \ {y})}
<1>1. SUFFICES ASSUME T # {} PROVE FALSE
  OBVIOUS
<1>2. PICK s \in T : \A y \in T : y \subseteq s => y = s
  <2>1. T \subseteq SUBSET S
    OBVIOUS
  <2> HIDE DEF T
  <2> QED
    BY <1>1, <2>1, MinimalSubset
<1>3. PICK y \in s : SumFunctionOnSet(f, s) # f[y] + SumFunctionOnSet(f, s \ {y})
  BY <1>2
<1> DEFINE c == Chosen(s)
<1>4. c \in s
  BY <1>3, ChosenIn
<1>5. IsFiniteSet(s) /\ IsFiniteSet(s \ {y}) /\ IsFiniteSet(s \ {c}) /\ IsFiniteSet((s \ {c}) \ {y})
  BY <1>2, FS_Subset
<1>6. SumFunctionOnSet(f, s) = f[c] + SumFunctionOnSet(f, s \ {c})
  BY <1>3, <1>5, SumChosen
<1>7. y # c
  BY <1>3, <1>6
<1>8. s \ {c} \notin T /\ s \ {y} \notin T /\ s \ {c} \in SUBSET S /\ s \ {y} \in SUBSET S
  BY <1>2, <1>3, <1>4
<1>9. SumFunctionOnSet(f, s \ {c}) = f[y] + SumFunctionOnSet(f, (s \ {c}) \ {y})
  BY <1>3, <1>7, <1>8
<1>10. SumFunctionOnSet(f, s \ {y}) = f[c] + SumFunctionOnSet(f, (s \ {y}) \ {c})
  BY <1>4, <1>7, <1>8
<1>11. (s \ {y}) \ {c} = (s \ {c}) \ {y}
  OBVIOUS
<1>12. f[y] \in Int /\ f[c] \in Int
  BY <1>2, <1>3, <1>4
<1>13. SumFunctionOnSet(f, (s \ {c}) \ {y}) \in Int
  <2>1. \A z \in (s \ {c}) \ {y} : f[z] \in Int
    BY <1>2
  <2> QED
    BY <1>5, <2>1, SumInt
<1> DEFINE rest == SumFunctionOnSet(f, (s \ {c}) \ {y})
<1>14. SumFunctionOnSet(f, s) = f[c] + (f[y] + rest)
  BY <1>6, <1>9, Zenon
<1>15. f[y] + SumFunctionOnSet(f, s \ {y}) = f[y] + (f[c] + rest)
  BY <1>10, <1>11, Zenon
<1> HIDE DEF c, rest
<1>16. f[c] + (f[y] + rest) = f[y] + (f[c] + rest)
  BY <1>12, <1>13 DEF rest
<1> QED
  BY <1>3, <1>14, <1>15, <1>16, Zenon

\* The sum depends on the values in the set only.
LEMMA SumSame ==
  ASSUME NEW f, NEW g, NEW S, IsFiniteSet(S), \A x \in S : f[x] = g[x]
  PROVE  SumFunctionOnSet(f, S) = SumFunctionOnSet(g, S)
<1> DEFINE T == {s \in SUBSET S : SumFunctionOnSet(f, s) # SumFunctionOnSet(g, s)}
<1>1. SUFFICES ASSUME T # {} PROVE FALSE
  OBVIOUS
<1>2. PICK s \in T : \A y \in T : y \subseteq s => y = s
  <2>1. T \subseteq SUBSET S
    OBVIOUS
  <2> HIDE DEF T
  <2> QED
    BY <1>1, <2>1, MinimalSubset
<1>3. s # {}
  BY <1>2, SumEmpty
<1>4. Chosen(s) \in s /\ Chosen(s) \in S
  BY <1>2, <1>3, ChosenIn
<1>5. s \ {Chosen(s)} \in SUBSET S /\ s \ {Chosen(s)} \notin T
  BY <1>2, <1>4
<1>6. IsFiniteSet(s)
  BY <1>2, FS_Subset
<1>7. /\ SumFunctionOnSet(f, s) = f[Chosen(s)] + SumFunctionOnSet(f, s \ {Chosen(s)})
      /\ SumFunctionOnSet(g, s) = g[Chosen(s)] + SumFunctionOnSet(g, s \ {Chosen(s)})
  BY <1>3, <1>6, SumChosen
<1> QED
  BY <1>2, <1>4, <1>5, <1>7

\* Changing one value changes the sum by the difference.
LEMMA SumChange ==
  ASSUME NEW f, NEW g, NEW S, IsFiniteSet(S), NEW x \in S,
         \A y \in S : f[y] \in Int, g[x] \in Int, \A y \in S \ {x} : g[y] = f[y]
  PROVE  SumFunctionOnSet(g, S) = SumFunctionOnSet(f, S) - f[x] + g[x]
<1>1. \A y \in S : g[y] \in Int
  OBVIOUS
<1>2. SumFunctionOnSet(f, S) = f[x] + SumFunctionOnSet(f, S \ {x})
  BY SumRemove
<1>3. SumFunctionOnSet(g, S) = g[x] + SumFunctionOnSet(g, S \ {x})
  BY <1>1, SumRemove
<1>4. IsFiniteSet(S \ {x})
  BY FS_Subset
<1>5. SumFunctionOnSet(f, S \ {x}) = SumFunctionOnSet(g, S \ {x})
  BY <1>4, SumSame
<1>6. SumFunctionOnSet(f, S \ {x}) \in Int
  BY <1>4, SumInt
<1> QED
  BY <1>2, <1>3, <1>5, <1>6

\* A function that is 0 everywhere has the sum 0.
LEMMA SumZero ==
  ASSUME NEW f, NEW S, IsFiniteSet(S), \A x \in S : f[x] = 0
  PROVE  SumFunctionOnSet(f, S) = 0
<1> DEFINE T == {s \in SUBSET S : SumFunctionOnSet(f, s) # 0}
<1>1. SUFFICES ASSUME T # {} PROVE FALSE
  OBVIOUS
<1>2. PICK s \in T : \A y \in T : y \subseteq s => y = s
  <2>1. T \subseteq SUBSET S
    OBVIOUS
  <2> HIDE DEF T
  <2> QED
    BY <1>1, <2>1, MinimalSubset
<1>3. s # {}
  BY <1>2, SumEmpty
<1>4. Chosen(s) \in s /\ Chosen(s) \in S
  BY <1>2, <1>3, ChosenIn
<1>5. s \ {Chosen(s)} \in SUBSET S /\ s \ {Chosen(s)} \notin T
  BY <1>2, <1>4
<1>6. IsFiniteSet(s)
  BY <1>2, FS_Subset
<1>7. SumFunctionOnSet(f, s) = f[Chosen(s)] + SumFunctionOnSet(f, s \ {Chosen(s)})
  BY <1>3, <1>6, SumChosen
<1> QED
  BY <1>2, <1>4, <1>5, <1>7

\* SumFunction sums over the whole domain.
LEMMA SumOfAll == ASSUME NEW f PROVE SumFunction(f) = SumFunctionOnSet(f, DOMAIN f)
BY DEF SumFunction
=============================================================================
