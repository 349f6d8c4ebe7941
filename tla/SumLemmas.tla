----------------------------- MODULE SumLemmas -----------------------------
(***************************************************************************)
(* What sums over finite sets obey: the sum of the community modules,      *)
(* which the components add up their rows with.                            *)
(*                                                                         *)
(* SumFunctionOnSet is a CHOOSE of a function that satisfies a recursion.  *)
(* Such a function exists (SumExists, by the least size it would be        *)
(* missing for) and two of them agree (SumUnique), which gives the step of *)
(* the recursion (SumStep); the rest follows by looking at a smallest      *)
(* subset for which a statement would fail (SmallestSubset).  No induction *)
(* rule with an operator parameter is needed.                              *)
(***************************************************************************)
EXTENDS Functions, FiniteSets, FiniteSetTheorems, WellFoundedInduction, TLAPS

\* The element the recursion takes out of a set.
One(s) == CHOOSE x \in s : TRUE

\* What the recursion behind a sum computes for a set, given what it computed before.
AddOne(f, so, s) == IF s = {} THEN 0 ELSE f[One(s)] + so[s \ {One(s)}]

\* g holds the sums of f over the subsets of S.
Sol(f, S, g) == g = [s \in SUBSET S |-> AddOne(f, g, s)]

LEMMA SumIsChosen ==
    ASSUME NEW f, NEW S
    PROVE  SumFunctionOnSet(f, S) = (CHOOSE g : Sol(f, S, g))[S]
  BY DEF SumFunctionOnSet, FoldFunctionOnSet, MapThenFoldSet, Sol, AddOne, One

\* Among subsets of a finite set, one has none of the others below it.
LEMMA SmallestSubset ==
    ASSUME NEW S, IsFiniteSet(S), NEW Bad \in SUBSET SUBSET S, Bad # {}
    PROVE  \E T \in Bad : \A U \in SUBSET T : U # T => U \notin Bad
  <1>1. Bad \subseteq FiniteSubsetsOf(S)
    BY FS_Subset DEF FiniteSubsetsOf
  <1>2. \E T \in Bad : \A U \in Bad : <<U, T>> \notin StrictSubsetOrdering(S)
    BY <1>1, FS_StrictSubsetOrderingWellFounded, WFMin
  <1>3. PICK T \in Bad : \A U \in Bad : <<U, T>> \notin StrictSubsetOrdering(S)
    BY <1>2
  <1>4. \A U \in SUBSET T : U # T => U \notin Bad
    BY <1>3 DEF StrictSubsetOrdering
  <1> QED BY <1>4
 
LEMMA OneIn ==
    ASSUME NEW s, s # {}
    PROVE  One(s) \in s
  BY DEF One

LEMMA LeastNatural ==
    ASSUME NEW Bad \in SUBSET Nat, Bad # {}
    PROVE  \E n \in Bad : \A m \in Bad : ~ (m < n)
  <1>1. IsWellFoundedOn(OpToRel(<, Nat), Nat)
    BY NatLessThanWellFounded
  <1>2. PICK n \in Bad : \A m \in Bad : <<m, n>> \notin OpToRel(<, Nat)
    BY <1>1, WFMin
  <1> QED BY <1>2 DEF OpToRel

\* A table that is right for the subsets of at most n elements.
SolUpTo(f, S, n, g) == \A s \in SUBSET S : Cardinality(s) <= n => g[s] = AddOne(f, g, s)

LEMMA WithoutOne ==
    ASSUME NEW S, IsFiniteSet(S), NEW s \in SUBSET S, s # {}
    PROVE  /\ s \ {One(s)} \in SUBSET S
           /\ Cardinality(s) \in Nat
           /\ Cardinality(s \ {One(s)}) = Cardinality(s) - 1
           /\ Cardinality(s \ {One(s)}) \in Nat
  <1>1. IsFiniteSet(s) /\ One(s) \in s
    BY OneIn, FS_Subset
  <1>2. Cardinality(s \ {One(s)}) = Cardinality(s) - 1 /\ IsFiniteSet(s \ {One(s)})
    BY <1>1, FS_RemoveElement
  <1> QED BY <1>1, <1>2, FS_CardinalityType

LEMMA SolNext ==
    ASSUME NEW f, NEW S, IsFiniteSet(S), NEW n \in Nat, NEW g, SolUpTo(f, S, n, g)
    PROVE  SolUpTo(f, S, n + 1, [s \in SUBSET S |-> AddOne(f, g, s)])
  <1> DEFINE h == [s \in SUBSET S |-> AddOne(f, g, s)]
  <1> SUFFICES ASSUME NEW s \in SUBSET S, Cardinality(s) <= n + 1
               PROVE  h[s] = AddOne(f, h, s)
    BY DEF SolUpTo
  <1>1. CASE s = {}
    BY <1>1 DEF AddOne
  <1>2. CASE s # {}
    <2>1. /\ s \ {One(s)} \in SUBSET S
          /\ Cardinality(s \ {One(s)}) <= n
      BY <1>2, WithoutOne
    <2>2. g[s \ {One(s)}] = h[s \ {One(s)}]
      BY <2>1 DEF SolUpTo
    <2> QED BY <1>2, <2>2 DEF AddOne
  <1> QED BY <1>1, <1>2

LEMMA SumExists ==
    ASSUME NEW f, NEW S, IsFiniteSet(S)
    PROVE  \E g : Sol(f, S, g)
  <1> DEFINE Bad == {n \in Nat : ~ \E g : SolUpTo(f, S, n, g)}
  <1>1. 0 \notin Bad
    <2>1. SolUpTo(f, S, 0, [s \in SUBSET S |-> 0])
      <3> SUFFICES ASSUME NEW s \in SUBSET S, Cardinality(s) <= 0
                   PROVE  [t \in SUBSET S |-> 0][s] = AddOne(f, [t \in SUBSET S |-> 0], s)
        BY DEF SolUpTo
      <3>1. IsFiniteSet(s) /\ Cardinality(s) \in Nat
        BY FS_Subset, FS_CardinalityType
      <3>2. s = {}
        BY <3>1, FS_EmptySet
      <3> QED BY <3>2 DEF AddOne
    <2> QED BY <2>1
  <1>2. ASSUME NEW n \in Nat, n \notin Bad
        PROVE  n + 1 \notin Bad
    <2>1. PICK g : SolUpTo(f, S, n, g)
      BY <1>2
    <2>2. SolUpTo(f, S, n + 1, [s \in SUBSET S |-> AddOne(f, g, s)])
      BY <2>1, SolNext
    <2> QED BY <2>2
  <1>3. Bad = {}
    <2> SUFFICES ASSUME Bad # {}
                 PROVE  FALSE
      OBVIOUS
    <2>1. PICK n \in Bad : \A m \in Bad : ~ (m < n)
      <3> HIDE DEF Bad
      <3>1. Bad \in SUBSET Nat
        BY DEF Bad
      <3> QED BY <3>1, LeastNatural
    <2>2. n \in Nat /\ n # 0
      BY <1>1
    <2>3. n - 1 \in Nat /\ n - 1 \notin Bad
      <3> HIDE DEF Bad
      <3> QED BY <2>1, <2>2
    <2>4. n - 1 + 1 \notin Bad
      <3> HIDE DEF Bad
      <3> QED BY <1>2, <2>3
    <2>5. n - 1 + 1 = n
      BY <2>2
    <2> HIDE DEF Bad
    <2> QED BY <2>1, <2>4, <2>5
  <1>4. Cardinality(S) \in Nat
    BY FS_CardinalityType
  <1>5. PICK g : SolUpTo(f, S, Cardinality(S), g)
    BY <1>3, <1>4
  <1> DEFINE h == [s \in SUBSET S |-> g[s]]
  <1>6. \A s \in SUBSET S : g[s] = AddOne(f, g, s)
    BY <1>5, FS_Subset DEF SolUpTo
  <1>7. \A s \in SUBSET S : AddOne(f, g, s) = AddOne(f, h, s)
    BY WithoutOne DEF AddOne
  <1>8. h = [s \in SUBSET S |-> AddOne(f, h, s)]
    BY <1>6, <1>7
  <1> QED BY <1>8 DEF Sol

\* Two tables, of a finite set and of a larger one, agree on the smaller.
LEMMA SumUnique ==
    ASSUME NEW f, NEW S, IsFiniteSet(S), NEW T \in SUBSET S,
           NEW g, Sol(f, S, g), NEW h, Sol(f, T, h)
    PROVE  g[T] = h[T]
  <1> DEFINE Bad == {s \in SUBSET T : g[s] # h[s]}
  <1>1. Bad \in SUBSET SUBSET T
    OBVIOUS
  <1>2. IsFiniteSet(T)
    BY FS_Subset
  <1>3. ASSUME NEW s \in SUBSET T, \A U \in SUBSET s : U # s => U \notin Bad
        PROVE  s \notin Bad
    <2>1. g[s] = AddOne(f, g, s) /\ h[s] = AddOne(f, h, s)
      BY Zenon DEF Sol
    <2>2. CASE s = {}
      BY <2>1, <2>2 DEF AddOne
    <2>3. CASE s # {}
      <3>1. s \ {One(s)} \in SUBSET T /\ s \ {One(s)} # s
        BY <2>3, OneIn
      <3>2. g[s \ {One(s)}] = h[s \ {One(s)}]
        BY <1>3, <3>1
      <3> QED BY <2>1, <3>2 DEF AddOne
    <2> QED BY <2>2, <2>3
  <1>4. Bad = {}
    <2> HIDE DEF Bad
    <2> QED BY <1>1, <1>2, <1>3, SmallestSubset
  <1> QED BY <1>4

\* The equation a sum obeys, from which every other fact follows.
LEMMA SumStep ==
    ASSUME NEW f, NEW S, IsFiniteSet(S)
    PROVE  /\ SumFunctionOnSet(f, {}) = 0
           /\ S # {} => SumFunctionOnSet(f, S) = f[One(S)] + SumFunctionOnSet(f, S \ {One(S)})
  <1> DEFINE Table(T) == CHOOSE g : Sol(f, T, g)
  <1>1. \A T \in SUBSET S : Sol(f, T, Table(T))
    BY SumExists, FS_Subset
  <1>2. \A T \in SUBSET S : SumFunctionOnSet(f, T) = Table(T)[T]
    BY SumIsChosen
  <1> HIDE DEF Table
  <1>3. \A T \in SUBSET S : Table(S)[T] = SumFunctionOnSet(f, T)
    BY <1>1, <1>2, SumUnique
  <1>4. \A T \in SUBSET S : Table(S)[T] = AddOne(f, Table(S), T)
    BY <1>1, Zenon DEF Sol
  <1>5. SumFunctionOnSet(f, {}) = 0
    BY <1>3, <1>4 DEF AddOne
  <1>6. ASSUME S # {}
        PROVE  SumFunctionOnSet(f, S) = f[One(S)] + SumFunctionOnSet(f, S \ {One(S)})
    <2>1. S \ {One(S)} \in SUBSET S /\ S \in SUBSET S
      OBVIOUS
    <2> QED BY <1>3, <1>4, <1>6, <2>1 DEF AddOne
  <1> QED BY <1>5, <1>6

\* The terms a sum adds up are integers; two functions have the same terms; the terms
\* of one are the sums of those of two others; the terms of one are below the other's.
Whole(f, S)     == \A x \in S : f[x] \in Int
SameTerms(f, g, S)   == \A x \in S : f[x] = g[x]
Adds(f, g, h, S) == \A x \in S : h[x] = f[x] + g[x]
Below(f, g, S)  == \A x \in S : f[x] <= g[x]

\* A sum of integers is an integer.
LEMMA SumInt ==
    ASSUME NEW S, IsFiniteSet(S), NEW f, Whole(f, S)
    PROVE  SumFunctionOnSet(f, S) \in Int
  <1> DEFINE Bad == {s \in SUBSET S : SumFunctionOnSet(f, s) \notin Int}
  <1>1. ASSUME NEW s \in SUBSET S, \A U \in SUBSET s : U # s => U \notin Bad
        PROVE  s \notin Bad
    <2>1. IsFiniteSet(s)
      BY FS_Subset
    <2>2. CASE s = {}
      BY <2>1, <2>2, SumStep DEF Whole
    <2>3. CASE s # {}
      <3>1. One(s) \in s /\ s \ {One(s)} \in SUBSET S /\ s \ {One(s)} # s
        BY <2>3, OneIn
      <3>2. SumFunctionOnSet(f, s \ {One(s)}) \in Int
        BY <1>1, <3>1
      <3>3. SumFunctionOnSet(f, s) = f[One(s)] + SumFunctionOnSet(f, s \ {One(s)})
        BY <2>1, <2>3, SumStep
      <3> QED BY <3>1, <3>2, <3>3 DEF Whole
    <2> QED BY <2>2, <2>3
  <1>2. Bad = {}
    <2>1. Bad \in SUBSET SUBSET S
      OBVIOUS
    <2> HIDE DEF Bad
    <2> QED BY <1>1, <2>1, SmallestSubset
  <1> QED BY <1>2

\* A sum is any one of its terms and the sum of the others: the order does not matter.
LEMMA SumSplit ==
    ASSUME NEW S, IsFiniteSet(S), NEW f, Whole(f, S), NEW x \in S
    PROVE  SumFunctionOnSet(f, S) = f[x] + SumFunctionOnSet(f, S \ {x})
  <1> DEFINE Bad == {s \in SUBSET S : \E y \in s :
                        SumFunctionOnSet(f, s) # f[y] + SumFunctionOnSet(f, s \ {y})}
  <1>1. ASSUME NEW s \in SUBSET S, \A U \in SUBSET s : U # s => U \notin Bad
        PROVE  s \notin Bad
    <2> SUFFICES ASSUME NEW y \in s
                 PROVE  SumFunctionOnSet(f, s) = f[y] + SumFunctionOnSet(f, s \ {y})
      OBVIOUS
    <2> DEFINE c == One(s)
    <2>1. IsFiniteSet(s) /\ c \in s
      BY FS_Subset, OneIn
    <2>2. SumFunctionOnSet(f, s) = f[c] + SumFunctionOnSet(f, s \ {c})
      BY <2>1, SumStep
    <2> HIDE DEF c
    <2>3. CASE y = c
      BY <2>2, <2>3
    <2>4. CASE y # c
      <3>1. s \ {c} \notin Bad /\ s \ {y} \notin Bad /\ y \in s \ {c} /\ c \in s \ {y}
            /\ s \ {c} \in SUBSET S /\ s \ {y} \in SUBSET S
        <4>1. s \ {c} # s /\ s \ {y} # s
          BY <2>1
        <4> HIDE DEF Bad
        <4> QED BY <1>1, <2>1, <2>4, <4>1
      <3>2. SumFunctionOnSet(f, s \ {c}) = f[y] + SumFunctionOnSet(f, (s \ {c}) \ {y})
        BY <3>1
      <3>3. SumFunctionOnSet(f, s \ {y}) = f[c] + SumFunctionOnSet(f, (s \ {y}) \ {c})
        BY <3>1
      <3>4. (s \ {c}) \ {y} = (s \ {y}) \ {c}
        OBVIOUS
      <3>5. SumFunctionOnSet(f, (s \ {y}) \ {c}) \in Int
        BY <2>1, SumInt, FS_Subset DEF Whole
      <3>6. f[c] \in Int /\ f[y] \in Int
        BY <2>1 DEF Whole
      <3> DEFINE rest == SumFunctionOnSet(f, (s \ {y}) \ {c})
      <3>7. SumFunctionOnSet(f, s \ {c}) = f[y] + rest
        BY <3>2, <3>4
      <3>8. SumFunctionOnSet(f, s) = f[c] + (f[y] + rest)
        BY <2>2, <3>7
      <3>9. rest \in Int
        BY <3>5
      <3> HIDE DEF rest, Bad
      <3> QED BY <3>3, <3>6, <3>8, <3>9 DEF rest
    <2> QED BY <2>3, <2>4
  <1>2. Bad = {}
    <2>1. Bad \in SUBSET SUBSET S
      OBVIOUS
    <2> HIDE DEF Bad
    <2> QED BY <1>1, <2>1, SmallestSubset
  <1> QED BY <1>2

\* Functions that agree on a set have the same sum over it.
LEMMA SumSame ==
    ASSUME NEW S, IsFiniteSet(S), NEW f, NEW g, SameTerms(f, g, S)
    PROVE  SumFunctionOnSet(f, S) = SumFunctionOnSet(g, S)
  <1> DEFINE Bad == {s \in SUBSET S : SumFunctionOnSet(f, s) # SumFunctionOnSet(g, s)}
  <1>1. ASSUME NEW s \in SUBSET S, \A U \in SUBSET s : U # s => U \notin Bad
        PROVE  s \notin Bad
    <2>1. IsFiniteSet(s)
      BY FS_Subset
    <2>2. CASE s = {}
      BY <2>1, <2>2, SumStep
    <2>3. CASE s # {}
      <3>1. One(s) \in s /\ s \ {One(s)} \in SUBSET S /\ s \ {One(s)} # s
        BY <2>3, OneIn
      <3>2. SumFunctionOnSet(f, s \ {One(s)}) = SumFunctionOnSet(g, s \ {One(s)})
        BY <1>1, <3>1
      <3>3. SumFunctionOnSet(f, s) = f[One(s)] + SumFunctionOnSet(f, s \ {One(s)})
        BY <2>1, <2>3, SumStep
      <3>4. SumFunctionOnSet(g, s) = g[One(s)] + SumFunctionOnSet(g, s \ {One(s)})
        BY <2>1, <2>3, SumStep
      <3>5. f[One(s)] = g[One(s)]
        BY <3>1 DEF SameTerms
      <3> QED BY <3>2, <3>3, <3>4, <3>5
    <2> QED BY <2>2, <2>3
  <1>2. Bad = {}
    <2>1. Bad \in SUBSET SUBSET S
      OBVIOUS
    <2> HIDE DEF Bad
    <2> QED BY <1>1, <2>1, SmallestSubset
  <1> QED BY <1>2

\* When one term changes, the sum changes by as much.
LEMMA SumChange ==
    ASSUME NEW S, IsFiniteSet(S), NEW f, NEW g, NEW x \in S,
           Whole(f, S), Whole(g, S), SameTerms(f, g, S \ {x})
    PROVE  SumFunctionOnSet(g, S) = SumFunctionOnSet(f, S) + (g[x] - f[x])
  <1>1. IsFiniteSet(S \ {x})
    BY FS_RemoveElement
  <1>2. SumFunctionOnSet(f, S) = f[x] + SumFunctionOnSet(f, S \ {x})
    BY SumSplit
  <1>3. SumFunctionOnSet(g, S) = g[x] + SumFunctionOnSet(g, S \ {x})
    BY SumSplit
  <1>4. SumFunctionOnSet(f, S \ {x}) = SumFunctionOnSet(g, S \ {x})
    BY <1>1, SumSame
  <1>5. SumFunctionOnSet(f, S \ {x}) \in Int
    BY <1>1, SumInt DEF Whole
  <1>6. f[x] \in Int /\ g[x] \in Int
    BY DEF Whole
  <1> QED BY <1>2, <1>3, <1>4, <1>5, <1>6

\* The sum over a set and one element more.
LEMMA SumOneMore ==
    ASSUME NEW S, IsFiniteSet(S), NEW f, NEW x, x \notin S, Whole(f, S \cup {x})
    PROVE  SumFunctionOnSet(f, S \cup {x}) = SumFunctionOnSet(f, S) + f[x]
  <1>1. IsFiniteSet(S \cup {x}) /\ x \in S \cup {x}
    BY FS_AddElement
  <1>2. SumFunctionOnSet(f, S \cup {x}) = f[x] + SumFunctionOnSet(f, (S \cup {x}) \ {x})
    BY <1>1, SumSplit
  <1>3. (S \cup {x}) \ {x} = S
    OBVIOUS
  <1>4. SumFunctionOnSet(f, S \cup {x}) = f[x] + SumFunctionOnSet(f, S)
    BY <1>2, <1>3
  <1>5. SumFunctionOnSet(f, S) \in Int /\ f[x] \in Int
    BY SumInt DEF Whole
  <1> QED BY <1>4, <1>5

\* The sum of two functions is the sum of their sums.
LEMMA SumAdd ==
    ASSUME NEW S, IsFiniteSet(S), NEW f, NEW g, NEW h,
           Whole(f, S), Whole(g, S), Adds(f, g, h, S)
    PROVE  SumFunctionOnSet(h, S) = SumFunctionOnSet(f, S) + SumFunctionOnSet(g, S)
  <1> DEFINE Bad == {s \in SUBSET S : SumFunctionOnSet(h, s)
                                        # SumFunctionOnSet(f, s) + SumFunctionOnSet(g, s)}
  <1>1. ASSUME NEW s \in SUBSET S, \A U \in SUBSET s : U # s => U \notin Bad
        PROVE  s \notin Bad
    <2>1. IsFiniteSet(s)
      BY FS_Subset
    <2>2. CASE s = {}
      <3>1. SumFunctionOnSet(f, {}) = 0 /\ SumFunctionOnSet(g, {}) = 0 /\ SumFunctionOnSet(h, {}) = 0
        BY <2>1, SumStep
      <3> QED BY <2>2, <3>1
    <2>3. CASE s # {}
      <3> DEFINE c == One(s)
      <3>1. c \in s /\ s \ {c} \in SUBSET S /\ s \ {c} # s
        BY <2>3, OneIn
      <3>2. IsFiniteSet(s \ {c})
        BY <3>1, FS_Subset
      <3>3. SumFunctionOnSet(h, s \ {c})
              = SumFunctionOnSet(f, s \ {c}) + SumFunctionOnSet(g, s \ {c})
        BY <1>1, <3>1
      <3>4. /\ SumFunctionOnSet(f, s) = f[c] + SumFunctionOnSet(f, s \ {c})
            /\ SumFunctionOnSet(g, s) = g[c] + SumFunctionOnSet(g, s \ {c})
            /\ SumFunctionOnSet(h, s) = h[c] + SumFunctionOnSet(h, s \ {c})
        BY <2>1, <2>3, SumStep
      <3>5. SumFunctionOnSet(f, s \ {c}) \in Int /\ SumFunctionOnSet(g, s \ {c}) \in Int
        BY <3>1, <3>2, SumInt DEF Whole
      <3>6. f[c] \in Int /\ g[c] \in Int /\ h[c] = f[c] + g[c]
        BY <3>1 DEF Whole, Adds
      <3> HIDE DEF c
      <3>7. SumFunctionOnSet(h, s) = SumFunctionOnSet(f, s) + SumFunctionOnSet(g, s)
        BY <3>3, <3>4, <3>5, <3>6
      <3> QED BY <3>7
    <2> QED BY <2>2, <2>3
  <1>2. Bad = {}
    <2>1. Bad \in SUBSET SUBSET S
      OBVIOUS
    <2> HIDE DEF Bad
    <2> QED BY <1>1, <2>1, SmallestSubset
  <1>3. S \in SUBSET S
    OBVIOUS
  <1> QED BY <1>2, <1>3

\* A sum of nothing but zeros.
LEMMA SumZero ==
    ASSUME NEW S, IsFiniteSet(S), NEW f, SameTerms(f, [x \in S |-> 0], S)
    PROVE  SumFunctionOnSet(f, S) = 0
  <1>1. SumFunctionOnSet(f, S) \in Int
    BY SumInt DEF Whole, SameTerms
  <1>2. SumFunctionOnSet(f, S) = SumFunctionOnSet(f, S) + SumFunctionOnSet(f, S)
    BY SumAdd DEF Whole, SameTerms, Adds
  <1>3. \A n \in Int : n = n + n => n = 0
    OBVIOUS
  <1> QED BY <1>1, <1>2, <1>3

\* A sum of larger terms is larger.
LEMMA SumGrows ==
    ASSUME NEW S, IsFiniteSet(S), NEW f, NEW g,
           Whole(f, S), Whole(g, S), Below(f, g, S)
    PROVE  SumFunctionOnSet(f, S) <= SumFunctionOnSet(g, S)
  <1> DEFINE Bad == {s \in SUBSET S : ~ (SumFunctionOnSet(f, s) <= SumFunctionOnSet(g, s))}
  <1>1. ASSUME NEW s \in SUBSET S, \A U \in SUBSET s : U # s => U \notin Bad
        PROVE  s \notin Bad
    <2>1. IsFiniteSet(s)
      BY FS_Subset
    <2>2. CASE s = {}
      <3>1. SumFunctionOnSet(f, {}) = 0 /\ SumFunctionOnSet(g, {}) = 0
        BY <2>1, SumStep
      <3> QED BY <2>2, <3>1
    <2>3. CASE s # {}
      <3> DEFINE c == One(s)
      <3>1. c \in s /\ s \ {c} \in SUBSET S /\ s \ {c} # s
        BY <2>3, OneIn
      <3>2. IsFiniteSet(s \ {c})
        BY <3>1, FS_Subset
      <3>3. SumFunctionOnSet(f, s \ {c}) <= SumFunctionOnSet(g, s \ {c})
        BY <1>1, <3>1
      <3>4. /\ SumFunctionOnSet(f, s) = f[c] + SumFunctionOnSet(f, s \ {c})
            /\ SumFunctionOnSet(g, s) = g[c] + SumFunctionOnSet(g, s \ {c})
        BY <2>1, <2>3, SumStep
      <3>5. SumFunctionOnSet(f, s \ {c}) \in Int /\ SumFunctionOnSet(g, s \ {c}) \in Int
        BY <3>1, <3>2, SumInt DEF Whole
      <3>6. f[c] \in Int /\ g[c] \in Int /\ f[c] <= g[c]
        BY <3>1 DEF Whole, Below
      <3> HIDE DEF c
      <3>7. SumFunctionOnSet(f, s) <= SumFunctionOnSet(g, s)
        BY <3>3, <3>4, <3>5, <3>6
      <3> QED BY <3>7
    <2> QED BY <2>2, <2>3
  <1>2. Bad = {}
    <2>1. Bad \in SUBSET SUBSET S
      OBVIOUS
    <2> HIDE DEF Bad
    <2> QED BY <1>1, <2>1, SmallestSubset
  <1>3. S \in SUBSET S
    OBVIOUS
  <1> QED BY <1>2, <1>3

\* The terms of one are those of the other, so many times over.
Times(f, g, c, S) == \A x \in S : g[x] = c * f[x]

\* So is its sum.
LEMMA SumTimes ==
    ASSUME NEW S, IsFiniteSet(S), NEW f, NEW g, NEW k \in Int,
           Whole(f, S), Whole(g, S), Times(f, g, k, S)
    PROVE  SumFunctionOnSet(g, S) = k * SumFunctionOnSet(f, S)
  <1> DEFINE Bad == {s \in SUBSET S : SumFunctionOnSet(g, s) # k * SumFunctionOnSet(f, s)}
  <1>1. ASSUME NEW s \in SUBSET S, \A U \in SUBSET s : U # s => U \notin Bad
        PROVE  s \notin Bad
    <2>1. IsFiniteSet(s)
      BY FS_Subset
    <2>2. CASE s = {}
      <3>1. SumFunctionOnSet(f, {}) = 0 /\ SumFunctionOnSet(g, {}) = 0
        BY <2>1, SumStep
      <3> QED BY <2>2, <3>1
    <2>3. CASE s # {}
      <3> DEFINE c == One(s)
      <3>1. c \in s /\ s \ {c} \in SUBSET S /\ s \ {c} # s
        BY <2>3, OneIn
      <3>2. IsFiniteSet(s \ {c})
        BY <3>1, FS_Subset
      <3>3. SumFunctionOnSet(g, s \ {c}) = k * SumFunctionOnSet(f, s \ {c})
        BY <1>1, <3>1
      <3>4. /\ SumFunctionOnSet(f, s) = f[c] + SumFunctionOnSet(f, s \ {c})
            /\ SumFunctionOnSet(g, s) = g[c] + SumFunctionOnSet(g, s \ {c})
        BY <2>1, <2>3, SumStep
      <3>5. SumFunctionOnSet(f, s \ {c}) \in Int
        BY <3>1, <3>2, SumInt DEF Whole
      <3>6. f[c] \in Int /\ g[c] = k * f[c]
        BY <3>1 DEF Whole, Times
      <3> HIDE DEF c
      <3>7. SumFunctionOnSet(g, s) = k * SumFunctionOnSet(f, s)
        BY <3>3, <3>4, <3>5, <3>6
      <3> QED BY <3>7
    <2> QED BY <2>2, <2>3
  <1>2. Bad = {}
    <2>1. Bad \in SUBSET SUBSET S
      OBVIOUS
    <2> HIDE DEF Bad
    <2> QED BY <1>1, <2>1, SmallestSubset
  <1>3. S \in SUBSET S
    OBVIOUS
  <1> QED BY <1>2, <1>3

\* A sum of nothing but ones counts.
LEMMA SumOnes ==
    ASSUME NEW S, IsFiniteSet(S), NEW f, SameTerms(f, [x \in S |-> 1], S)
    PROVE  SumFunctionOnSet(f, S) = Cardinality(S)
  <1> DEFINE Bad == {s \in SUBSET S : SumFunctionOnSet(f, s) # Cardinality(s)}
  <1>1. ASSUME NEW s \in SUBSET S, \A U \in SUBSET s : U # s => U \notin Bad
        PROVE  s \notin Bad
    <2>1. IsFiniteSet(s)
      BY FS_Subset
    <2>2. CASE s = {}
      <3>1. SumFunctionOnSet(f, {}) = 0 /\ Cardinality({}) = 0
        BY <2>1, SumStep, FS_EmptySet
      <3> QED BY <2>2, <3>1
    <2>3. CASE s # {}
      <3> DEFINE c == One(s)
      <3>1. c \in s /\ s \ {c} \in SUBSET S /\ s \ {c} # s
        BY <2>3, OneIn
      <3>2. Cardinality(s) \in Nat /\ Cardinality(s \ {c}) = Cardinality(s) - 1
        BY <2>3, WithoutOne
      <3>3. SumFunctionOnSet(f, s \ {c}) = Cardinality(s \ {c})
        BY <1>1, <3>1
      <3>4. SumFunctionOnSet(f, s) = f[c] + SumFunctionOnSet(f, s \ {c})
        BY <2>1, <2>3, SumStep
      <3>5. f[c] = 1
        BY <3>1 DEF SameTerms
      <3> HIDE DEF c
      <3>6. SumFunctionOnSet(f, s) = Cardinality(s)
        BY <3>2, <3>3, <3>4, <3>5
      <3> QED BY <3>6
    <2> QED BY <2>2, <2>3
  <1>2. Bad = {}
    <2>1. Bad \in SUBSET SUBSET S
      OBVIOUS
    <2> HIDE DEF Bad
    <2> QED BY <1>1, <2>1, SmallestSubset
  <1>3. S \in SUBSET S
    OBVIOUS
  <1> QED BY <1>2, <1>3

\* The sum over two sets that share nothing.
LEMMA SumJoin ==
    ASSUME NEW A, IsFiniteSet(A), NEW B, IsFiniteSet(B), A \cap B = {}, NEW f, Whole(f, A \cup B)
    PROVE  SumFunctionOnSet(f, A \cup B) = SumFunctionOnSet(f, A) + SumFunctionOnSet(f, B)
  <1> DEFINE Bad == {s \in SUBSET B : SumFunctionOnSet(f, A \cup s)
                                        # SumFunctionOnSet(f, A) + SumFunctionOnSet(f, s)}
  <1>0. SumFunctionOnSet(f, A) \in Int
    BY SumInt DEF Whole
  <1>1. ASSUME NEW s \in SUBSET B, \A U \in SUBSET s : U # s => U \notin Bad
        PROVE  s \notin Bad
    <2>1. CASE s = {}
      <3>1. A \cup s = A /\ SumFunctionOnSet(f, s) = 0
        BY <2>1, SumStep, FS_EmptySet
      <3> QED BY <1>0, <3>1
    <2>2. CASE s # {}
      <3>0. PICK c \in s : TRUE
        BY <2>2
      <3> DEFINE r == s \ {c}
      <3>1. r \in SUBSET B /\ r # s /\ c \notin r /\ r \cup {c} = s /\ r \in SUBSET s
        BY <3>0
      <3>2. IsFiniteSet(r) /\ IsFiniteSet(A \cup r)
        BY <3>1, FS_Subset, FS_Union
      <3>3. c \notin A \cup r /\ (A \cup r) \cup {c} = A \cup s
        BY <3>0, <3>1
      <3>4. SumFunctionOnSet(f, A \cup r) = SumFunctionOnSet(f, A) + SumFunctionOnSet(f, r)
        BY <1>1, <3>1
      <3>w. Whole(f, r \cup {c}) /\ Whole(f, (A \cup r) \cup {c})
        BY <3>0 DEF Whole
      <3> HIDE DEF r
      <3>5. SumFunctionOnSet(f, r \cup {c}) = SumFunctionOnSet(f, r) + f[c]
        BY <3>1, <3>2, <3>w, SumOneMore
      <3>6. SumFunctionOnSet(f, (A \cup r) \cup {c}) = SumFunctionOnSet(f, A \cup r) + f[c]
        BY <3>2, <3>3, <3>w, SumOneMore
      <3>7. SumFunctionOnSet(f, r) \in Int /\ f[c] \in Int
        BY <3>2, <3>w, SumInt DEF Whole
      <3> HIDE DEF Bad
      <3>8. SumFunctionOnSet(f, A \cup s) = SumFunctionOnSet(f, A) + SumFunctionOnSet(f, s)
        <4>1. SumFunctionOnSet(f, A \cup s) = (SumFunctionOnSet(f, A) + SumFunctionOnSet(f, r)) + f[c]
          BY <3>3, <3>4, <3>6
        <4>2. SumFunctionOnSet(f, s) = SumFunctionOnSet(f, r) + f[c]
          BY <3>1, <3>5
        <4>3. \A x, y, z \in Int : (x + y) + z = x + (y + z)
          OBVIOUS
        <4> QED BY <1>0, <3>7, <4>1, <4>2, <4>3
      <3> QED BY <3>8 DEF Bad
    <2> QED BY <2>1, <2>2
  <1>2. Bad = {}
    <2>1. Bad \in SUBSET SUBSET B
      OBVIOUS
    <2> HIDE DEF Bad
    <2> QED BY <1>1, <2>1, SmallestSubset
  <1> QED BY <1>2

\* The terms filed under a key, summed key by key.
LEMMA SumByKey ==
    ASSUME NEW S, IsFiniteSet(S), NEW f, Whole(f, S), NEW N, IsFiniteSet(N), NEW key,
           \A x \in S : key[x] \in N
    PROVE  SumFunctionOnSet([n \in N |-> SumFunctionOnSet(f, {x \in S : key[x] = n})], N)
             = SumFunctionOnSet(f, S)
  <1> DEFINE H(s) == [n \in N |-> SumFunctionOnSet(f, {x \in s : key[x] = n})]
  <1> DEFINE Bad == {s \in SUBSET S : SumFunctionOnSet(H(s), N) # SumFunctionOnSet(f, s)}
  <1>0. ASSUME NEW s \in SUBSET S
        PROVE  /\ IsFiniteSet(s) /\ SumFunctionOnSet(f, s) \in Int
               /\ \A n \in N : IsFiniteSet({x \in s : key[x] = n})
               /\ Whole(H(s), N)
    <2>1. IsFiniteSet(s)
      BY FS_Subset
    <2>2. \A n \in N : IsFiniteSet({x \in s : key[x] = n})
      BY <2>1, FS_Subset
    <2>3. \A n \in N : Whole(f, {x \in s : key[x] = n})
      BY DEF Whole
    <2>4. \A n \in N : SumFunctionOnSet(f, {x \in s : key[x] = n}) \in Int
      BY <2>2, <2>3, SumInt
    <2>5. SumFunctionOnSet(f, s) \in Int
      BY <2>1, SumInt DEF Whole
    <2> QED BY <2>1, <2>2, <2>4, <2>5 DEF Whole
  <1>1. ASSUME NEW s \in SUBSET S, \A U \in SUBSET s : U # s => U \notin Bad
        PROVE  s \notin Bad
    <2>1. CASE s = {}
      <3>1. \A n \in N : {x \in s : key[x] = n} = {}
        BY <2>1
      <3>2. SumFunctionOnSet(f, {}) = 0
        BY SumStep, FS_EmptySet
      <3>3. SameTerms(H(s), [n \in N |-> 0], N)
        BY <3>1, <3>2 DEF SameTerms
      <3> HIDE DEF H
      <3>4. SumFunctionOnSet(H(s), N) = 0
        BY <3>3, SumZero
      <3> QED BY <2>1, <3>2, <3>4
    <2>2. CASE s # {}
      <3>0. PICK c \in s : TRUE
        BY <2>2
      <3> DEFINE r == s \ {c}
      <3>1. r \in SUBSET S /\ r # s /\ c \notin r /\ r \cup {c} = s /\ r \in SUBSET s /\ key[c] \in N
        BY <3>0
      <3>4. SumFunctionOnSet(H(r), N) = SumFunctionOnSet(f, r)
        BY <1>1, <3>1
      <3>5. SumFunctionOnSet(f, r \cup {c}) = SumFunctionOnSet(f, r) + f[c]
        <4>1. Whole(f, r \cup {c}) /\ IsFiniteSet(r)
          BY <1>0, <3>1 DEF Whole
        <4> HIDE DEF r
        <4> QED BY <3>1, <4>1, SumOneMore
      <3>6. \A n \in N \ {key[c]} : {x \in s : key[x] = n} = {x \in r : key[x] = n}
        BY <3>1
      <3>7. SameTerms(H(r), H(s), N \ {key[c]})
        BY <3>6 DEF SameTerms
      <3>8. H(s)[key[c]] = H(r)[key[c]] + f[c]
        <4> DEFINE q == {x \in r : key[x] = key[c]}
        <4>1. {x \in s : key[x] = key[c]} = q \cup {c} /\ c \notin q
          BY <3>1
        <4>2. IsFiniteSet(q) /\ Whole(f, q \cup {c})
          BY <1>0, <3>1 DEF Whole
        <4>3. SumFunctionOnSet(f, q \cup {c}) = SumFunctionOnSet(f, q) + f[c]
          <5> HIDE DEF q
          <5> QED BY <4>1, <4>2, SumOneMore
        <4> QED BY <3>1, <4>1, <4>3
      <3>9. Whole(H(s), N) /\ Whole(H(r), N)
        BY <1>0, <3>1
      <3> HIDE DEF H, r
      <3>10. SumFunctionOnSet(H(s), N) = SumFunctionOnSet(H(r), N) + (H(s)[key[c]] - H(r)[key[c]])
        BY <3>1, <3>7, <3>9, SumChange
      <3>11. H(r)[key[c]] \in Int /\ f[c] \in Int /\ SumFunctionOnSet(f, r) \in Int
        BY <1>0, <3>0, <3>1, <3>9 DEF Whole
      <3> HIDE DEF Bad
      <3>12. SumFunctionOnSet(H(s), N) = SumFunctionOnSet(f, s)
        <4>1. SumFunctionOnSet(f, s) = SumFunctionOnSet(f, r) + f[c]
          BY <3>1, <3>5
        <4>2. SumFunctionOnSet(H(s), N) = SumFunctionOnSet(f, r) + ((H(r)[key[c]] + f[c]) - H(r)[key[c]])
          BY <3>4, <3>8, <3>10
        <4>3. \A x, y, z \in Int : x + ((y + z) - y) = x + z
          OBVIOUS
        <4> QED BY <3>11, <4>1, <4>2, <4>3
      <3> QED BY <3>12 DEF Bad
    <2> QED BY <2>1, <2>2
  <1>2. Bad = {}
    <2>1. Bad \in SUBSET SUBSET S
      OBVIOUS
    <2> HIDE DEF Bad
    <2> QED BY <1>1, <2>1, SmallestSubset
  <1>3. SumFunctionOnSet(H(S), N) = SumFunctionOnSet(f, S)
    BY <1>2
  <1> QED BY <1>3

\* When each column of a table adds up to nothing, so do the sums of its rows.
LEMMA SumOfColumns ==
    ASSUME NEW A, IsFiniteSet(A), NEW P, IsFiniteSet(P), NEW M,
           \A a \in A, p \in P : M[a][p] \in Int,
           \A p \in P : SumFunctionOnSet([a \in A |-> M[a][p]], A) = 0
    PROVE  SumFunctionOnSet([a \in A |-> SumFunctionOnSet([p \in P |-> M[a][p]], P)], A) = 0
  <1> DEFINE G(s) == [a \in A |-> SumFunctionOnSet([p \in P |-> M[a][p]], s)]
  <1> DEFINE Bad == {s \in SUBSET P : SumFunctionOnSet(G(s), A) # 0}
  <1>0. \A a \in A, s \in SUBSET P : Whole([p \in P |-> M[a][p]], s) /\ IsFiniteSet(s)
    BY FS_Subset DEF Whole
  <1>i. \A a \in A, s \in SUBSET P : SumFunctionOnSet([p \in P |-> M[a][p]], s) \in Int
    BY <1>0, SumInt
  <1>1. ASSUME NEW s \in SUBSET P, \A U \in SUBSET s : U # s => U \notin Bad
        PROVE  s \notin Bad
    <2>1. CASE s = {}
      <3>1. \A a \in A : SumFunctionOnSet([p \in P |-> M[a][p]], {}) = 0
        BY SumStep, FS_EmptySet
      <3>3. SameTerms(G(s), [a \in A |-> 0], A)
        BY <2>1, <3>1 DEF SameTerms
      <3> HIDE DEF G
      <3>4. SumFunctionOnSet(G(s), A) = 0
        BY <3>3, SumZero
      <3> QED BY <2>1, <3>4
    <2>2. CASE s # {}
      <3>0. PICK c \in s : TRUE
        BY <2>2
      <3> DEFINE r == s \ {c}
      <3> DEFINE C == [a \in A |-> M[a][c]]
      <3>1. r \in SUBSET P /\ r # s /\ r \in SUBSET s /\ c \in P
        BY <3>0
      <3>4. SumFunctionOnSet(G(r), A) = 0
        BY <1>1, <3>1
      <3>5. ASSUME NEW a \in A
            PROVE  SumFunctionOnSet([p \in P |-> M[a][p]], s)
                     = M[a][c] + SumFunctionOnSet([p \in P |-> M[a][p]], r)
        <4> DEFINE g == [p \in P |-> M[a][p]]
        <4>1. g[c] = M[a][c] /\ Whole(g, s) /\ IsFiniteSet(s)
          BY <1>0, <3>1
        <4> HIDE DEF g
        <4>2. SumFunctionOnSet(g, s) = g[c] + SumFunctionOnSet(g, s \ {c})
          BY <3>0, <4>1, SumSplit
        <4> QED BY <4>1, <4>2 DEF g
      <3>6. Adds(C, G(r), G(s), A)
        BY <3>5 DEF Adds
      <3>7. Whole(C, A) /\ Whole(G(r), A)
        BY <1>i, <3>1 DEF Whole
      <3>8. SumFunctionOnSet(C, A) = 0
        BY <3>1
      <3> HIDE DEF G, C, r, Bad
      <3>9. SumFunctionOnSet(G(s), A) = 0 + 0
        BY <3>4, <3>6, <3>7, <3>8, SumAdd
      <3> QED BY <3>9 DEF Bad
    <2> QED BY <2>1, <2>2
  <1>2. Bad = {}
    <2>1. Bad \in SUBSET SUBSET P
      OBVIOUS
    <2> HIDE DEF Bad
    <2> QED BY <1>1, <2>1, SmallestSubset
  <1>3. SumFunctionOnSet(G(P), A) = 0
    BY <1>2
  <1> QED BY <1>3

=============================================================================
