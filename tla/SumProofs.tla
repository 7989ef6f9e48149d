------------------------------ MODULE SumProofs ------------------------------
(***************************************************************************)
(* Sums over finite sets, as SumFunctionOnSet of the community modules     *)
(* folds them: the laws the theorems about stock, points and ledgers cite. *)
(* A set of subsets, or of numbers, stands for the induction hypothesis,   *)
(* so that each induction is a statement about sets.                       *)
(***************************************************************************)
EXTENDS FiniteSetsExt, FiniteSetTheorems, TLAPS

-------------------------------------------------------------------------------
(* Induction over the subsets of a finite set, in first-order form.        *)

\* A property that holds of {} and of every set that holds it with one element
\* less is a property of every subset; F is the set of subsets that have it.
LEMMA SubsetInduction ==
  ASSUME NEW S, IsFiniteSet(S), NEW F,
         {} \in F,
         \A s \in SUBSET S : s # {} /\ (\A x \in s : s \ {x} \in F) => s \in F
  PROVE  SUBSET S \subseteq F
<1> DEFINE T == {s \in SUBSET S : s \notin F}
<1> SUFFICES ASSUME T # {} PROVE FALSE
  OBVIOUS
<1>1. T \subseteq FiniteSubsetsOf(S)
  BY FS_FiniteSubsetsOfFinite
<1>2. IsWellFoundedOn(StrictSubsetOrdering(S), FiniteSubsetsOf(S))
  BY FS_StrictSubsetOrderingWellFounded
<1>3. \E s \in T : \A t \in T : ~ (<<t, s>> \in StrictSubsetOrdering(S))
  <2> HIDE DEF T
  <2> QED BY <1>1, <1>2, WFMin
<1>4. PICK s \in T : \A t \in T : ~ (<<t, s>> \in StrictSubsetOrdering(S))
  BY <1>3
<1>5. ASSUME NEW x \in s PROVE s \ {x} \in F
  <2>1. <<s \ {x}, s>> \in StrictSubsetOrdering(S)
    BY DEF StrictSubsetOrdering
  <2> QED BY <1>4, <2>1
<1> QED BY <1>4, <1>5

\* A set of natural numbers that holds 0 and the successor of each of its
\* members holds every natural number.
LEMMA StepInduction ==
  ASSUME NEW N, 0 \in N, \A n \in Nat : n \in N => n + 1 \in N
  PROVE  Nat \subseteq N
<1> DEFINE R == OpToRel(<, Nat)
           T == Nat \ N
<1> SUFFICES ASSUME T # {} PROVE FALSE
  OBVIOUS
<1>1. R = {p \in Nat \X Nat : p[1] < p[2]}
  BY DEF OpToRel
<1>2. \E n \in T : \A m \in T : ~ (<<m, n>> \in R)
  <2> HIDE DEF T, R
  <2>1. IsWellFoundedOn(R, Nat)
    BY NatLessThanWellFounded DEF R
  <2>2. T \subseteq Nat
    BY DEF T
  <2> QED BY <2>1, <2>2, WFMin
<1>3. PICK n \in T : \A m \in T : ~ (<<m, n>> \in R)
  BY <1>2
<1>4. n \in Nat /\ n # 0 /\ n - 1 \in Nat /\ <<n - 1, n>> \in Nat \X Nat /\ n - 1 < n
  OBVIOUS
<1>5. <<n - 1, n>> \in R
  BY <1>1, <1>4
<1>6. n - 1 \in N
  BY <1>3, <1>4, <1>5
<1> QED BY <1>4, <1>6

-------------------------------------------------------------------------------
(* The fold behind a sum.                                                  *)

FirstOf(s) == CHOOSE x \in s : TRUE

SumFold(g, S) == CHOOSE it : it = [s \in SUBSET S |->
                IF s = {} THEN 0 ELSE g[FirstOf(s)] + it[s \ {FirstOf(s)}]]

LEMMA SumIsFold == ASSUME NEW g, NEW S PROVE SumFunctionOnSet(g, S) = SumFold(g, S)[S]
BY DEF SumFunctionOnSet, FoldFunctionOnSet, MapThenFoldSet, SumFold, FirstOf

LEMMA FirstIn == ASSUME NEW s, s # {} PROVE FirstOf(s) \in s
BY DEF FirstOf

\* The recursive definition of a sum over a finite set has a solution.
LEMMA FoldSolves ==
  ASSUME NEW g, NEW S, IsFiniteSet(S)
  PROVE  \A s \in SUBSET S : SumFold(g, S)[s] =
           IF s = {} THEN 0 ELSE g[FirstOf(s)] + SumFold(g, S)[s \ {FirstOf(s)}]
<1> DEFINE Body(it, s) == IF s = {} THEN 0 ELSE g[FirstOf(s)] + it[s \ {FirstOf(s)}]
           D(n) == {s \in SUBSET S : Cardinality(s) <= n}
           N == {n \in Nat : \E it : it = [s \in D(n) |-> Body(it, s)]}
<1>1. \A s \in SUBSET S : IsFiniteSet(s) /\ Cardinality(s) \in Nat
  BY FS_Subset, FS_CardinalityType
<1>2. 0 \in N
  <2>1. D(0) = {{}}
    BY <1>1, FS_EmptySet
  <2> DEFINE it == [s \in D(0) |-> 0]
  <2>2. it = [s \in D(0) |-> Body(it, s)]
    BY <2>1
  <2> QED BY <2>2
<1>3. ASSUME NEW n \in N PROVE n + 1 \in N
  <2>1. PICK old : old = [s \in D(n) |-> Body(old, s)]
    OBVIOUS
  <2> DEFINE it == [s \in D(n + 1) |-> Body(old, s)]
  <2>2. ASSUME NEW s \in D(n + 1), s # {}
        PROVE  it[s \ {FirstOf(s)}] = old[s \ {FirstOf(s)}]
    <3>1. FirstOf(s) \in s
      BY <2>2, FirstIn
    <3>2. Cardinality(s \ {FirstOf(s)}) <= n
      BY <1>1, <3>1, FS_RemoveElement
    <3>3. s \ {FirstOf(s)} \in D(n) /\ s \ {FirstOf(s)} \in D(n + 1)
      BY <1>1, <3>2
    <3> QED BY <2>1, <3>3
  <2>3. it = [s \in D(n + 1) |-> Body(it, s)]
    BY <2>2
  <2>4. \E f : f = [s \in D(n + 1) |-> Body(f, s)]
    <3> HIDE DEF it
    <3> QED BY <2>3
  <2>5. n + 1 \in Nat
    OBVIOUS
  <2> HIDE DEF Body, D
  <2> QED BY <2>4, <2>5
<1>4. Cardinality(S) \in N
  <2> HIDE DEF N
  <2> QED BY <1>1, <1>2, <1>3, StepInduction
<1>5. D(Cardinality(S)) = SUBSET S
  BY <1>1, FS_Subset
<1>6. \E it : it = [s \in SUBSET S |-> Body(it, s)]
  BY <1>4, <1>5
<1> DEFINE sol == SumFold(g, S)
<1>7. sol = [s \in SUBSET S |-> Body(sol, s)]
  BY <1>6 DEF SumFold
<1> HIDE DEF sol
<1>8. \A s \in SUBSET S : sol[s] = Body(sol, s)
  BY <1>7
<1> QED BY <1>8 DEF sol

LEMMA FoldEmpty == ASSUME NEW g, NEW S, IsFiniteSet(S) PROVE SumFold(g, S)[{}] = 0
BY FoldSolves

LEMMA FoldFirst ==
  ASSUME NEW g, NEW S, IsFiniteSet(S), NEW s \in SUBSET S, s # {}
  PROVE  SumFold(g, S)[s] = g[FirstOf(s)] + SumFold(g, S)[s \ {FirstOf(s)}]
BY FoldSolves

\* A fold depends on the values at the elements it folds, and on nothing else.
LEMMA FoldAgrees ==
  ASSUME NEW g, NEW h, NEW S, IsFiniteSet(S), NEW U, IsFiniteSet(U), S \subseteq U,
         \A x \in S : g[x] = h[x]
  PROVE  SumFold(g, S)[S] = SumFold(h, U)[S]
<1> DEFINE F == {s \in SUBSET S : SumFold(g, S)[s] = SumFold(h, U)[s]}
<1>1. {} \in F
  BY FoldEmpty
<1>2. ASSUME NEW s \in SUBSET S, s # {}, \A x \in s : s \ {x} \in F PROVE s \in F
  <2>1. FirstOf(s) \in s /\ s \in SUBSET U
    BY <1>2, FirstIn
  <2>2. SumFold(g, S)[s \ {FirstOf(s)}] = SumFold(h, U)[s \ {FirstOf(s)}]
    BY <1>2, <2>1
  <2>3. /\ SumFold(g, S)[s] = g[FirstOf(s)] + SumFold(g, S)[s \ {FirstOf(s)}]
        /\ SumFold(h, U)[s] = h[FirstOf(s)] + SumFold(h, U)[s \ {FirstOf(s)}]
    BY <1>2, <2>1, FoldFirst
  <2> QED BY <2>1, <2>2, <2>3
<1> HIDE DEF F
<1>3. SUBSET S \subseteq F
  BY <1>1, <1>2, SubsetInduction
<1> QED BY <1>3 DEF F

-------------------------------------------------------------------------------
(* The laws of sums.                                                       *)

\* A sum over nothing is zero.
LEMMA SumEmpty == ASSUME NEW g PROVE SumFunctionOnSet(g, {}) = 0
BY FoldEmpty, SumIsFold, FS_EmptySet

\* Two functions that agree on a set have the same sum over it.
LEMMA SumAgrees ==
  ASSUME NEW S, IsFiniteSet(S), NEW g, NEW h, \A x \in S : g[x] = h[x]
  PROVE  SumFunctionOnSet(g, S) = SumFunctionOnSet(h, S)
BY FoldAgrees, SumIsFold

\* A sum of integers is an integer.
LEMMA SumInt ==
  ASSUME NEW S, IsFiniteSet(S), NEW g, \A x \in S : g[x] \in Int
  PROVE  SumFunctionOnSet(g, S) \in Int
<1> DEFINE F == {s \in SUBSET S : SumFold(g, S)[s] \in Int}
<1>1. {} \in F
  BY FoldEmpty
<1>2. ASSUME NEW s \in SUBSET S, s # {}, \A x \in s : s \ {x} \in F PROVE s \in F
  <2>1. FirstOf(s) \in s
    BY <1>2, FirstIn
  <2>2. SumFold(g, S)[s \ {FirstOf(s)}] \in Int
    BY <1>2, <2>1
  <2>3. SumFold(g, S)[s] = g[FirstOf(s)] + SumFold(g, S)[s \ {FirstOf(s)}]
    BY <1>2, FoldSolves
  <2> QED BY <2>1, <2>2, <2>3
<1> HIDE DEF F
<1>3. SUBSET S \subseteq F
  BY <1>1, <1>2, SubsetInduction
<1> QED BY <1>3, SumIsFold DEF F

\* A sum of natural numbers is a natural number.
LEMMA SumNat ==
  ASSUME NEW S, IsFiniteSet(S), NEW g, \A x \in S : g[x] \in Nat
  PROVE  SumFunctionOnSet(g, S) \in Nat
<1> DEFINE F == {s \in SUBSET S : SumFold(g, S)[s] \in Nat}
<1>1. {} \in F
  BY FoldEmpty
<1>2. ASSUME NEW s \in SUBSET S, s # {}, \A x \in s : s \ {x} \in F PROVE s \in F
  <2>1. FirstOf(s) \in s
    BY <1>2, FirstIn
  <2>2. SumFold(g, S)[s \ {FirstOf(s)}] \in Nat
    BY <1>2, <2>1
  <2>3. SumFold(g, S)[s] = g[FirstOf(s)] + SumFold(g, S)[s \ {FirstOf(s)}]
    BY <1>2, FoldSolves
  <2> QED BY <2>1, <2>2, <2>3
<1> HIDE DEF F
<1>3. SUBSET S \subseteq F
  BY <1>1, <1>2, SubsetInduction
<1> QED BY <1>3, SumIsFold DEF F

\* Any element can be taken out of a sum, not only the one the fold starts with.
LEMMA SumRemove ==
  ASSUME NEW S, IsFiniteSet(S), NEW g, \A x \in S : g[x] \in Int, NEW y \in S
  PROVE  SumFunctionOnSet(g, S) = g[y] + SumFunctionOnSet(g, S \ {y})
<1> DEFINE I(s) == SumFold(g, S)[s]
           F == {s \in SUBSET S : \A x \in s : I(s) = g[x] + I(s \ {x})}
<1>1. \A s \in SUBSET S : I(s) \in Int
  <2> SUFFICES ASSUME NEW s \in SUBSET S PROVE I(s) \in Int
    OBVIOUS
  <2>1. IsFiniteSet(s)
    BY FS_Subset
  <2>2. I(s) = SumFunctionOnSet(g, s)
    BY <2>1, SumIsFold, FoldAgrees
  <2> QED BY <2>1, <2>2, SumInt
<1>2. {} \in F
  OBVIOUS
<1>3. ASSUME NEW s \in SUBSET S, s # {}, \A x \in s : s \ {x} \in F PROVE s \in F
  <2> SUFFICES ASSUME NEW x \in s PROVE I(s) = g[x] + I(s \ {x})
    OBVIOUS
  <2> DEFINE a == FirstOf(s)
  <2>0. s # {}
    OBVIOUS
  <2>1. a \in s /\ I(s) = g[a] + I(s \ {a})
    <3>1. a \in s
      BY <2>0, FirstIn
    <3>2. SumFold(g, S)[s] = g[FirstOf(s)] + SumFold(g, S)[s \ {FirstOf(s)}]
      BY ONLY IsFiniteSet(S), s \in SUBSET S, <2>0, FoldFirst
    <3> QED BY <3>1, <3>2
  <2> HIDE DEF a
  <2>2. CASE x = a
    BY <2>1, <2>2
  <2>3. CASE x # a
    <3>1. I(s \ {a}) = g[x] + I((s \ {a}) \ {x})
      BY <1>3, <2>1, <2>3
    <3>2. I(s \ {x}) = g[a] + I((s \ {x}) \ {a})
      BY <1>3, <2>1, <2>3
    <3>3. (s \ {a}) \ {x} = (s \ {x}) \ {a}
      OBVIOUS
    <3>4. I((s \ {x}) \ {a}) \in Int /\ g[a] \in Int /\ g[x] \in Int
      BY <1>1, <2>1
    <3>5. I(s) = g[a] + (g[x] + I((s \ {x}) \ {a}))
      BY <2>1, <3>1, <3>3
    <3> HIDE DEF I
    <3> QED BY <3>2, <3>4, <3>5
  <2> QED BY <2>2, <2>3
<1> HIDE DEF F
<1>4. SUBSET S \subseteq F
  BY <1>2, <1>3, SubsetInduction
<1>5. I(S) = g[y] + I(S \ {y})
  BY <1>4 DEF F
<1>6. IsFiniteSet(S \ {y})
  BY FS_RemoveElement
<1>7. I(S \ {y}) = SumFunctionOnSet(g, S \ {y})
  BY <1>6, SumIsFold, FoldAgrees
<1> QED BY <1>5, <1>7, SumIsFold

\* One element more.
LEMMA SumInsert ==
  ASSUME NEW S, IsFiniteSet(S), NEW y, y \notin S,
         NEW g, \A x \in S \union {y} : g[x] \in Int
  PROVE  SumFunctionOnSet(g, S \union {y}) = g[y] + SumFunctionOnSet(g, S)
<1>1. IsFiniteSet(S \union {y}) /\ (S \union {y}) \ {y} = S
  BY FS_AddElement
<1> QED BY <1>1, SumRemove

\* Two functions that differ at one element only.
LEMMA SumChange ==
  ASSUME NEW S, IsFiniteSet(S), NEW y \in S,
         NEW g, \A x \in S : g[x] \in Int,
         NEW h, \A x \in S : h[x] \in Int,
         \A x \in S : x # y => h[x] = g[x]
  PROVE  SumFunctionOnSet(h, S) = SumFunctionOnSet(g, S) + (h[y] - g[y])
<1>1. IsFiniteSet(S \ {y})
  BY FS_RemoveElement
<1>2. SumFunctionOnSet(g, S \ {y}) = SumFunctionOnSet(h, S \ {y})
  BY <1>1, SumAgrees
<1>3. SumFunctionOnSet(g, S \ {y}) \in Int
  BY <1>1, SumInt
<1>4. /\ SumFunctionOnSet(g, S) = g[y] + SumFunctionOnSet(g, S \ {y})
      /\ SumFunctionOnSet(h, S) = h[y] + SumFunctionOnSet(h, S \ {y})
  BY SumRemove
<1> QED BY <1>2, <1>3, <1>4

\* The sum of zeros.
LEMMA SumZero ==
  ASSUME NEW S, IsFiniteSet(S), NEW g, \A x \in S : g[x] = 0
  PROVE  SumFunctionOnSet(g, S) = 0
<1> DEFINE F == {s \in SUBSET S : SumFunctionOnSet(g, s) = 0}
<1>1. {} \in F
  BY SumEmpty
<1>2. ASSUME NEW s \in SUBSET S, s # {}, \A x \in s : s \ {x} \in F PROVE s \in F
  <2>1. PICK x \in s : TRUE
    BY <1>2
  <2>2. SumFunctionOnSet(g, s) = g[x] + SumFunctionOnSet(g, s \ {x})
    BY FS_Subset, SumRemove
  <2> QED BY <1>2, <2>1, <2>2
<1> HIDE DEF F
<1>3. SUBSET S \subseteq F
  BY <1>1, <1>2, SubsetInduction
<1> QED BY <1>3 DEF F

\* The sum of two functions is the sum of their sums.
LEMMA SumPlus ==
  ASSUME NEW S, IsFiniteSet(S), NEW f, NEW g, NEW h,
         \A x \in S : g[x] \in Int /\ h[x] \in Int /\ f[x] = g[x] + h[x]
  PROVE  SumFunctionOnSet(f, S) = SumFunctionOnSet(g, S) + SumFunctionOnSet(h, S)
<1> DEFINE F == {s \in SUBSET S :
             SumFunctionOnSet(f, s) = SumFunctionOnSet(g, s) + SumFunctionOnSet(h, s)}
<1>1. {} \in F
  BY SumEmpty
<1>2. ASSUME NEW s \in SUBSET S, s # {}, \A x \in s : s \ {x} \in F PROVE s \in F
  <2>1. PICK x \in s : TRUE
    BY <1>2
  <2>2. IsFiniteSet(s) /\ IsFiniteSet(s \ {x})
    BY FS_Subset
  <2>3. /\ SumFunctionOnSet(f, s) = f[x] + SumFunctionOnSet(f, s \ {x})
        /\ SumFunctionOnSet(g, s) = g[x] + SumFunctionOnSet(g, s \ {x})
        /\ SumFunctionOnSet(h, s) = h[x] + SumFunctionOnSet(h, s \ {x})
    BY <2>2, SumRemove
  <2>4. /\ SumFunctionOnSet(g, s \ {x}) \in Int
        /\ SumFunctionOnSet(h, s \ {x}) \in Int
    BY <2>2, SumInt
  <2>5. SumFunctionOnSet(f, s \ {x})
          = SumFunctionOnSet(g, s \ {x}) + SumFunctionOnSet(h, s \ {x})
    BY <1>2
  <2> QED BY <2>3, <2>4, <2>5
<1> HIDE DEF F
<1>3. SUBSET S \subseteq F
  BY <1>1, <1>2, SubsetInduction
<1> QED BY <1>3 DEF F

\* A sum over a part is the sum over the whole with zeros elsewhere.
LEMMA SumPart ==
  ASSUME NEW S, IsFiniteSet(S), NEW T \in SUBSET S,
         NEW g, \A x \in T : g[x] \in Int,
         NEW h, \A x \in S : h[x] = IF x \in T THEN g[x] ELSE 0
  PROVE  SumFunctionOnSet(g, T) = SumFunctionOnSet(h, S)
<1> DEFINE F == {s \in SUBSET S : SumFunctionOnSet(g, s \intersect T) = SumFunctionOnSet(h, s)}
<1>1. {} \in F
  BY SumEmpty
<1>2. ASSUME NEW s \in SUBSET S, s # {}, \A x \in s : s \ {x} \in F PROVE s \in F
  <2>1. PICK x \in s : TRUE
    BY <1>2
  <2>2. IsFiniteSet(s) /\ IsFiniteSet(s \ {x}) /\ IsFiniteSet(s \intersect T)
    BY FS_Subset
  <2>3. SumFunctionOnSet(h, s) = h[x] + SumFunctionOnSet(h, s \ {x})
    BY <2>2, SumRemove
  <2>4. SumFunctionOnSet(g, (s \ {x}) \intersect T) = SumFunctionOnSet(h, s \ {x})
    BY <1>2
  <2>5. CASE x \in T
    <3>1. SumFunctionOnSet(g, s \intersect T)
            = g[x] + SumFunctionOnSet(g, (s \intersect T) \ {x})
      BY <2>2, <2>5, SumRemove
    <3>2. (s \intersect T) \ {x} = (s \ {x}) \intersect T
      OBVIOUS
    <3> QED BY <2>3, <2>4, <2>5, <3>1, <3>2
  <2>6. CASE x \notin T
    <3>1. s \intersect T = (s \ {x}) \intersect T
      BY <2>6
    <3>2. SumFunctionOnSet(h, s \ {x}) \in Int
      BY <2>2, SumInt
    <3>3. SumFunctionOnSet(h, s) = SumFunctionOnSet(h, s \ {x})
      BY <2>3, <2>6, <3>2
    <3>4. SumFunctionOnSet(g, s \intersect T) = SumFunctionOnSet(h, s)
      BY <2>4, <3>1, <3>3
    <3> QED BY <3>4
  <2> QED BY <2>5, <2>6
<1> HIDE DEF F
<1>3. SUBSET S \subseteq F
  BY <1>1, <1>2, SubsetInduction
<1>4. S \intersect T = T
  OBVIOUS
<1> QED BY <1>3, <1>4 DEF F

\* A sum over a set in two parts.
LEMMA SumUnion ==
  ASSUME NEW S, IsFiniteSet(S), NEW T, IsFiniteSet(T), S \intersect T = {},
         NEW g, \A x \in S \union T : g[x] \in Int
  PROVE  SumFunctionOnSet(g, S \union T) = SumFunctionOnSet(g, S) + SumFunctionOnSet(g, T)
<1> DEFINE gS == [x \in S \union T |-> IF x \in S THEN g[x] ELSE 0]
           gT == [x \in S \union T |-> IF x \in T THEN g[x] ELSE 0]
<1>1. IsFiniteSet(S \union T)
  BY FS_Union
<1>2. SumFunctionOnSet(g, S) = SumFunctionOnSet(gS, S \union T)
  BY <1>1, SumPart
<1>3. SumFunctionOnSet(g, T) = SumFunctionOnSet(gT, S \union T)
  BY <1>1, SumPart
<1>4. \A x \in S \union T : gS[x] \in Int /\ gT[x] \in Int /\ g[x] = gS[x] + gT[x]
  OBVIOUS
<1> HIDE DEF gS, gT
<1> QED BY <1>1, <1>2, <1>3, <1>4, SumPlus

\* One term of a sum comes, goes or changes: from is what it was, to what it is,
\* and 0 stands for a term that is not there.
LEMMA SumOneTerm ==
  ASSUME NEW S, IsFiniteSet(S), NEW T, NEW y, T \ {y} = S \ {y},
         NEW g, \A x \in S : g[x] \in Int,
         NEW h, \A x \in T : h[x] \in Int,
         \A x \in S \ {y} : h[x] = g[x],
         NEW from, IF y \in S THEN from = g[y] ELSE from = 0,
         NEW to, IF y \in T THEN to = h[y] ELSE to = 0
  PROVE  /\ IsFiniteSet(T) /\ SumFunctionOnSet(g, S) \in Int
         /\ SumFunctionOnSet(h, T) = SumFunctionOnSet(g, S) + (to - from)
<1> DEFINE R == S \ {y}
<1>1. IsFiniteSet(R) /\ IsFiniteSet(R \union {y}) /\ y \notin R
  BY FS_RemoveElement, FS_AddElement
<1>2. IsFiniteSet(T)
  <2>1. T = R \/ T = R \union {y}
    OBVIOUS
  <2> QED BY <1>1, <2>1
<1>3. SumFunctionOnSet(h, R) = SumFunctionOnSet(g, R)
  BY <1>1, SumAgrees
<1>4. SumFunctionOnSet(g, R) \in Int /\ SumFunctionOnSet(g, S) \in Int
  BY <1>1, SumInt
<1>5. SumFunctionOnSet(g, S) = SumFunctionOnSet(g, R) + from /\ from \in Int
  <2>1. ASSUME y \in S PROVE SumFunctionOnSet(g, S) = g[y] + SumFunctionOnSet(g, R)
                             /\ from = g[y] /\ g[y] \in Int
    BY <2>1, SumRemove
  <2>2. ASSUME y \notin S PROVE R = S /\ from = 0
    BY <2>2
  <2> HIDE DEF R
  <2> QED BY <1>4, <2>1, <2>2
<1>6. SumFunctionOnSet(h, T) = SumFunctionOnSet(h, R) + to /\ to \in Int
  <2>1. ASSUME y \in T PROVE SumFunctionOnSet(h, T) = h[y] + SumFunctionOnSet(h, R)
                             /\ to = h[y] /\ h[y] \in Int
    BY <1>2, <2>1, SumRemove
  <2>2. ASSUME y \notin T PROVE R = T /\ to = 0
    BY <2>2
  <2> HIDE DEF R
  <2> QED BY <1>3, <1>4, <2>1, <2>2
<1> HIDE DEF R
<1> QED BY <1>2, <1>3, <1>4, <1>5, <1>6
===============================================================================
