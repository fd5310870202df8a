----------------------------- MODULE FoldLemmas -----------------------------
(***************************************************************************)
(* What the folds of the community modules compute, for the sets, sequences*)
(* and sums of this project: least elements instead of induction, the      *)
(* existence of a fold, sums, and folds along a sequence.                  *)
(***************************************************************************)
EXTENDS Integers, Sequences, FiniteSetsExt, TLAPS, WellFoundedInduction, FiniteSetTheorems

-----------------------------------------------------------------------------
(* Least elements: a set of counterexamples has one.                       *)

LessThan == {p \in Nat \X Nat : p[1] < p[2]}

LEMMA LessThanIsWellFounded == IsWellFoundedOn(LessThan, Nat)
  <1>1. OpToRel(<, Nat) = LessThan
    BY Zenon DEF OpToRel, LessThan
  <1> QED
    BY <1>1, NatLessThanWellFounded, Zenon

LEMMA LeastNat ==
  ASSUME NEW T \in SUBSET Nat, T # {}
  PROVE  \E n \in T : \A m \in T : n <= m
  <1>1. PICK n \in T : \A m \in T : ~ (<<m, n>> \in LessThan)
    BY WFMin, LessThanIsWellFounded
  <1>2. \A m \in T : ~ (m < n)
    <2> TAKE m \in T
    <2>1. <<m, n>> \in Nat \X Nat
      OBVIOUS
    <2> QED
      BY <1>1, <2>1 DEF LessThan
  <1> QED
    BY <1>2

LEMMA LeastFinite ==
  ASSUME NEW S, NEW B \in SUBSET SUBSET S, \A s \in B : IsFiniteSet(s), B # {}
  PROVE  \E s \in B : \A t \in B : t \subseteq s => t = s
  <1>1. B \subseteq FiniteSubsetsOf(S)
    BY DEF FiniteSubsetsOf
  <1>2. PICK s \in B : \A t \in B : ~ (<<t, s>> \in StrictSubsetOrdering(S))
    BY <1>1, WFMin, FS_StrictSubsetOrderingWellFounded, Zenon
  <1> QED
    BY <1>2 DEF StrictSubsetOrdering

\* Of a finite set's subsets, with a counterexample there is a smallest.
LEMMA LeastSubset ==
  ASSUME NEW S, IsFiniteSet(S), NEW B \in SUBSET SUBSET S, B # {}
  PROVE  \E s \in B : /\ IsFiniteSet(s)
                      /\ \A x \in s : s \ {x} \notin B
  <1>1. \A s \in B : IsFiniteSet(s)
    BY FS_Subset
  <1>2. PICK s \in B : \A t \in B : t \subseteq s => t = s
    BY <1>1, LeastFinite
  <1> QED
    BY <1>1, <1>2

-----------------------------------------------------------------------------
(* The existence of a fold.                                                *)

\* g is what is left of a fold over each subset of S.
Folds(g, S, base, c, F) ==
    \A s \in SUBSET S : g[s] = IF s = {} THEN base ELSE F[<<c[s], g[s \ {c[s]}]>>]

LEMMA FoldExists ==
  ASSUME NEW S, IsFiniteSet(S), NEW V, NEW base \in V,
         NEW c, \A s \in SUBSET S : s # {} => c[s] \in s,
         NEW F \in [S \X V -> V]
  PROVE  \E g \in [SUBSET S -> V] : Folds(g, S, base, c, F)
  <1> DEFINE Upto(n) == {s \in SUBSET S : Cardinality(s) <= n}
             Partial(n) == \E g \in [Upto(n) -> V] :
                              \A s \in Upto(n) :
                                 g[s] = IF s = {} THEN base ELSE F[<<c[s], g[s \ {c[s]}]>>]
             Fails == {n \in Nat : ~Partial(n)}
  <1>0. \A s \in SUBSET S : /\ IsFiniteSet(s) /\ Cardinality(s) \in Nat
                            /\ Cardinality(s) = 0 <=> s = {}
    BY FS_Subset, FS_CardinalityType, FS_EmptySet
  <1>1. Partial(0)
    <2>1. Upto(0) = {{}}
      <3>1. \A s \in SUBSET S : Cardinality(s) <= 0 <=> s = {}
        BY <1>0
      <3> QED
        BY <3>1
    <2> DEFINE g == [s \in Upto(0) |-> base]
    <2>2. g \in [Upto(0) -> V]
      OBVIOUS
    <2>3. \A s \in Upto(0) : g[s] = IF s = {} THEN base ELSE F[<<c[s], g[s \ {c[s]}]>>]
      BY <2>1
    <2> QED
      BY <2>2, <2>3
  <1>2. ASSUME NEW n \in Nat, Partial(n) PROVE Partial(n + 1)
    <2> PICK g \in [Upto(n) -> V] :
           \A s \in Upto(n) : g[s] = IF s = {} THEN base ELSE F[<<c[s], g[s \ {c[s]}]>>]
      BY <1>2
    <2> DEFINE h == [s \in Upto(n + 1) |->
                       IF s = {} THEN base ELSE F[<<c[s], g[s \ {c[s]}]>>]]
    <2>1. ASSUME NEW s \in Upto(n + 1), s # {}
          PROVE  /\ s \ {c[s]} \in Upto(n) /\ c[s] \in S
                 /\ s \ {c[s]} \in Upto(n + 1)
      <3>1. s \in SUBSET S /\ IsFiniteSet(s) /\ c[s] \in s /\ Cardinality(s) <= n + 1
        BY <1>0, <2>1
      <3>2. Cardinality(s \ {c[s]}) = Cardinality(s) - 1
        BY <3>1, FS_RemoveElement
      <3>3. Cardinality(s) \in Nat
        BY <1>0
      <3> QED
        BY <3>1, <3>2, <3>3
    <2>2. h \in [Upto(n + 1) -> V]
      BY <2>1
    <2>3. \A s \in Upto(n) : s \in Upto(n + 1) /\ h[s] = g[s]
      <3> TAKE s \in Upto(n)
      <3>1. s \in Upto(n + 1)
        BY <1>0
      <3> HIDE DEF Upto
      <3> QED
        BY <3>1
    <2>4. \A s \in Upto(n + 1) : h[s] = IF s = {} THEN base ELSE F[<<c[s], h[s \ {c[s]}]>>]
      BY <2>1, <2>3
    <2> QED
      BY <2>2, <2>4
  <1>3. Fails = {}
    <2> SUFFICES ASSUME Fails # {} PROVE FALSE
      OBVIOUS
    <2> HIDE DEF Partial
    <2>1. PICK n \in Fails : \A m \in Fails : n <= m
      BY LeastNat
    <2>2. n # 0 /\ n \in Nat /\ ~Partial(n)
      BY <1>1
    <2>3. n - 1 \in Nat /\ n - 1 \notin Fails /\ (n - 1) + 1 = n
      BY <2>1, <2>2
    <2> QED
      BY <1>2, <2>2, <2>3
  <1>4. Cardinality(S) \in Nat /\ Upto(Cardinality(S)) = SUBSET S
    <2>1. \A s \in SUBSET S : Cardinality(s) <= Cardinality(S)
      BY FS_Subset
    <2> QED
      BY <1>0, <2>1
  <1>5. Partial(Cardinality(S))
    BY <1>3, <1>4
  <1> HIDE DEF Upto
  <1> QED
    BY <1>4, <1>5 DEF Folds

-----------------------------------------------------------------------------
(* Sums.                                                                   *)

SumOf(f, S) == MapThenSumSet(LAMBDA x : f[x], S)

\* The recursion behind a sum.
SumsUp(g, f, S) ==
    g = [s \in SUBSET S |->
           IF s = {} THEN 0
           ELSE f[CHOOSE x \in s : TRUE] + g[s \ {CHOOSE x \in s : TRUE}]]

LEMMA SumIs ==
  ASSUME NEW f, NEW S
  PROVE  SumOf(f, S) = (CHOOSE g : SumsUp(g, f, S))[S]
  BY DEF SumOf, MapThenSumSet, MapThenFoldSet, SumsUp

LEMMA SumsUpExists ==
  ASSUME NEW S, IsFiniteSet(S), NEW f, \A x \in S : f[x] \in Int
  PROVE  \E g \in [SUBSET S -> Int] : SumsUp(g, f, S)
  <1> DEFINE c == [s \in SUBSET S |-> CHOOSE x \in s : TRUE]
             F == [p \in S \X Int |-> f[p[1]] + p[2]]
  <1>1. \A s \in SUBSET S : s # {} => c[s] \in s
    OBVIOUS
  <1>2. F \in [S \X Int -> Int]
    OBVIOUS
  <1>3. PICK g \in [SUBSET S -> Int] : Folds(g, S, 0, c, F)
    <2>1. 0 \in Int
      OBVIOUS
    <2> HIDE DEF c, F
    <2> QED
      BY <1>1, <1>2, <2>1, FoldExists, Zenon
  <1>4. ASSUME NEW s \in SUBSET S, s # {}
        PROVE  g[s] = f[CHOOSE x \in s : TRUE] + g[s \ {CHOOSE x \in s : TRUE}]
    <2>1. c[s] \in S /\ c[s] = CHOOSE x \in s : TRUE
      BY <1>1, <1>4
    <2> PICK y \in S : y = c[s]
      BY <2>1
    <2>2. g[s] = F[<<y, g[s \ {y}]>>]
      BY <1>3, <1>4 DEF Folds
    <2> PICK z \in Int : z = g[s \ {y}]
      OBVIOUS
    <2>3. F[<<y, z>>] = f[y] + z
      <3> HIDE DEF c
      <3>1. <<y, z>> \in S \X Int
        OBVIOUS
      <3> QED
        BY <3>1
    <2>4. g[s] = f[y] + g[s \ {y}]
      BY <2>2, <2>3
    <2> QED
      BY <2>1, <2>4
  <1>5. g[{}] = 0
    BY <1>3 DEF Folds
  <1>6. g = [s \in SUBSET S |->
               IF s = {} THEN 0
               ELSE f[CHOOSE x \in s : TRUE] + g[s \ {CHOOSE x \in s : TRUE}]]
    <2> DEFINE h == [s \in SUBSET S |->
               IF s = {} THEN 0
               ELSE f[CHOOSE x \in s : TRUE] + g[s \ {CHOOSE x \in s : TRUE}]]
    <2>1. \A s \in SUBSET S : g[s] = h[s]
      BY <1>4, <1>5
    <2>2. g = [s \in SUBSET S |-> g[s]] /\ h = [s \in SUBSET S |-> h[s]]
      OBVIOUS
    <2> HIDE DEF h
    <2>3. g = h
      BY <2>1, <2>2
    <2> QED
      BY <2>3 DEF h
  <1> QED
    BY <1>6 DEF SumsUp

\* What the recursion comes to: the sum of each subset, an element of it taken
\* out first, whichever it is.
IsSum(g, f, S) ==
    /\ g \in [SUBSET S -> Int]
    /\ g[{}] = 0
    /\ \A s \in SUBSET S : \A x \in s : g[s] = f[x] + g[s \ {x}]
    /\ \A s \in SUBSET S : SumOf(f, s) = g[s]

LEMMA SumRecursion ==
  ASSUME NEW S, IsFiniteSet(S), NEW f, \A x \in S : f[x] \in Int
  PROVE  \E g : IsSum(g, f, S)
  <1> DEFINE pick(s) == CHOOSE x \in s : TRUE
  <1>1. PICK g \in [SUBSET S -> Int] : SumsUp(g, f, S)
    BY SumsUpExists
  <1>2. g[{}] = 0 /\ \A s \in SUBSET S : s # {} => g[s] = f[pick(s)] + g[s \ {pick(s)}]
    BY <1>1 DEF SumsUp
  <1>3. \A s \in SUBSET S : s # {} => pick(s) \in s
    OBVIOUS
  <1> HIDE DEF pick
  <1>4. \A s \in SUBSET S : \A x \in s : g[s] = f[x] + g[s \ {x}]
    <2> DEFINE B == {s \in SUBSET S : \E x \in s : g[s] # f[x] + g[s \ {x}]}
    <2> SUFFICES ASSUME B # {} PROVE FALSE
      OBVIOUS
    <2>1. PICK s \in B : \A x \in s : s \ {x} \notin B
      BY LeastSubset
    <2>2. PICK x \in s : g[s] # f[x] + g[s \ {x}]
      OBVIOUS
    <2> DEFINE y == pick(s)
    <2>3. y \in s /\ g[s] = f[y] + g[s \ {y}]
      BY <1>2, <1>3
    <2> HIDE DEF y
    <2>4. x # y
      BY <2>2, <2>3
    <2>5. g[s \ {y}] = f[x] + g[(s \ {y}) \ {x}]
      BY <2>1, <2>3, <2>4
    <2>6. g[s \ {x}] = f[y] + g[(s \ {x}) \ {y}]
      BY <2>1, <2>2, <2>3, <2>4
    <2>7. (s \ {x}) \ {y} = (s \ {y}) \ {x}
      OBVIOUS
    <2>8. f[x] \in Int /\ f[y] \in Int /\ g[(s \ {y}) \ {x}] \in Int
      BY <2>2, <2>3
    <2> PICK a \in Int, b \in Int, r \in Int :
           a = f[x] /\ b = f[y] /\ r = g[(s \ {y}) \ {x}]
      BY <2>8
    <2>9. g[s] = b + (a + r)
      BY <2>3, <2>5
    <2>10. f[x] + g[s \ {x}] = a + (b + r)
      BY <2>6, <2>7
    <2> QED
      BY <2>2, <2>9, <2>10
  <1>5. ASSUME NEW t \in SUBSET S PROVE SumOf(f, t) = g[t]
    <2>1. IsFiniteSet(t)
      BY FS_Subset
    <2>2. \E h : SumsUp(h, f, t)
      BY <2>1, SumsUpExists
    <2> DEFINE h == CHOOSE h : SumsUp(h, f, t)
    <2>3. SumsUp(h, f, t)
      BY <2>2
    <2>4. SumOf(f, t) = h[t]
      BY SumIs
    <2> HIDE DEF h
    <2>5. h[{}] = 0 /\ \A s \in SUBSET t : s # {} => h[s] = f[pick(s)] + h[s \ {pick(s)}]
      BY <2>3 DEF SumsUp, pick
    <2> DEFINE B == {s \in SUBSET t : h[s] # g[s]}
    <2>6. B = {}
      <3> SUFFICES ASSUME B # {} PROVE FALSE
        OBVIOUS
      <3>1. PICK s \in B : \A x \in s : s \ {x} \notin B
        BY <2>1, LeastSubset
      <3>2. s # {} /\ s \in SUBSET t /\ s \in SUBSET S
        BY <1>2, <2>5
      <3>3. h[s \ {pick(s)}] = g[s \ {pick(s)}]
        BY <1>3, <3>1, <3>2
      <3> QED
        BY <1>2, <2>5, <3>2, <3>3
    <2> QED
      BY <2>4, <2>6
  <1> QED
    BY <1>2, <1>4, <1>5 DEF IsSum

\* A recursion of this form is the sum, whatever it is the recursion of elsewhere.
LEMMA SumsUpIsSum ==
  ASSUME NEW S, IsFiniteSet(S), NEW f, \A x \in S : f[x] \in Int, NEW h, SumsUp(h, f, S)
  PROVE  SumOf(f, S) = h[S]
  <1> DEFINE pick(s) == CHOOSE x \in s : TRUE
             h2 == CHOOSE h2 : SumsUp(h2, f, S)
  <1>1. SumsUp(h2, f, S) /\ SumOf(f, S) = h2[S]
    BY SumIs
  <1> HIDE DEF h2
  <1>2. h[{}] = 0 /\ \A s \in SUBSET S : s # {} => h[s] = f[pick(s)] + h[s \ {pick(s)}]
    BY DEF SumsUp
  <1>3. h2[{}] = 0 /\ \A s \in SUBSET S : s # {} => h2[s] = f[pick(s)] + h2[s \ {pick(s)}]
    BY <1>1 DEF SumsUp
  <1>4. \A s \in SUBSET S : s # {} => pick(s) \in s
    OBVIOUS
  <1> HIDE DEF pick
  <1>5. \A s \in SUBSET S : h[s] = h2[s]
    <2> DEFINE B == {s \in SUBSET S : h[s] # h2[s]}
    <2> SUFFICES ASSUME B # {} PROVE FALSE
      OBVIOUS
    <2>1. PICK s \in B : \A x \in s : s \ {x} \notin B
      BY LeastSubset
    <2>2. s # {} /\ s \in SUBSET S
      BY <1>2, <1>3
    <2>3. h[s \ {pick(s)}] = h2[s \ {pick(s)}]
      BY <1>4, <2>1, <2>2
    <2> QED
      BY <1>2, <1>3, <2>2, <2>3
  <1> QED
    BY <1>1, <1>5

\* Nothing sums to 0.
THEOREM SumEmpty == \A f : SumOf(f, {}) = 0
  <1> TAKE f
  <1>1. IsFiniteSet({}) /\ \A x \in {} : f[x] \in Int
    BY FS_EmptySet
  <1>2. PICK g : IsSum(g, f, {})
    BY <1>1, SumRecursion
  <1> QED
    BY <1>2 DEF IsSum

\* A sum is any one term and the sum of the rest.
THEOREM SumPick ==
  ASSUME NEW S, IsFiniteSet(S), NEW f, \A x \in S : f[x] \in Int, NEW y \in S
  PROVE  /\ SumOf(f, S) = f[y] + SumOf(f, S \ {y})
         /\ SumOf(f, S) \in Int /\ SumOf(f, S \ {y}) \in Int
  <1>1. PICK g : IsSum(g, f, S)
    BY SumRecursion
  <1>2. S \in SUBSET S /\ S \ {y} \in SUBSET S
    OBVIOUS
  <1> QED
    BY <1>1, <1>2 DEF IsSum

\* What must hold of the sums over each subset of S, it is enough to hold of
\* those over a subset less one element.
LEMMA SumLeq ==
  ASSUME NEW S, IsFiniteSet(S), NEW f, NEW g,
         \A x \in S : f[x] \in Int /\ g[x] \in Int /\ f[x] <= g[x]
  PROVE  SumOf(f, S) <= SumOf(g, S)
  <1> DEFINE B == {s \in SUBSET S : ~ (SumOf(f, s) <= SumOf(g, s))}
  <1> SUFFICES ASSUME B # {} PROVE FALSE
    OBVIOUS
  <1>1. PICK s \in B : IsFiniteSet(s) /\ \A x \in s : s \ {x} \notin B
    BY LeastSubset
  <1>2. s # {}
    BY SumEmpty
  <1>3. PICK x \in s : TRUE
    BY <1>2
  <1>4. SumOf(f, s \ {x}) <= SumOf(g, s \ {x})
    BY <1>1
  <1>5. /\ SumOf(f, s) = f[x] + SumOf(f, s \ {x}) /\ SumOf(f, s \ {x}) \in Int
        /\ SumOf(g, s) = g[x] + SumOf(g, s \ {x}) /\ SumOf(g, s \ {x}) \in Int
    BY <1>1, SumPick
  <1> HIDE DEF B
  <1> QED
    BY <1>4, <1>5, f[x] \in Int /\ g[x] \in Int /\ f[x] <= g[x],
       ~ (SumOf(f, s) <= SumOf(g, s)) DEF B

\* A sum of integers is one.
THEOREM SumInt ==
  ASSUME NEW S, IsFiniteSet(S), NEW f, \A x \in S : f[x] \in Int
  PROVE  SumOf(f, S) \in Int
  <1>1. CASE S = {}
    BY <1>1, SumEmpty
  <1>2. CASE S # {}
    BY <1>2, SumPick
  <1> QED
    BY <1>1, <1>2

THEOREM SumNat ==
  ASSUME NEW S, IsFiniteSet(S), NEW f, \A x \in S : f[x] \in Nat
  PROVE  SumOf(f, S) \in Nat
  <1> DEFINE B == {s \in SUBSET S : SumOf(f, s) \notin Nat}
  <1> SUFFICES ASSUME B # {} PROVE FALSE
    OBVIOUS
  <1>1. PICK s \in B : IsFiniteSet(s) /\ \A x \in s : s \ {x} \notin B
    BY LeastSubset
  <1>2. s # {}
    BY SumEmpty
  <1>3. PICK y \in s : TRUE
    BY <1>2
  <1>4. SumOf(f, s \ {y}) \in Nat /\ SumOf(f, s) \notin Nat /\ s \subseteq S
    BY <1>1
  <1> HIDE DEF B
  <1>5. SumOf(f, s) = f[y] + SumOf(f, s \ {y}) /\ f[y] \in Nat
    BY <1>1, <1>4, SumPick
  <1> QED
    BY <1>4, <1>5

\* The sum of a field of records, as the modules write it.
LEMMA FieldSum ==
  ASSUME NEW field, NEW S, IsFiniteSet(S), \A x \in S : x[field] \in Int
  PROVE  MapThenSumSet(LAMBDA x : x[field], S) = SumOf([x \in S |-> x[field]], S)
  <1> DEFINE f == [x \in S |-> x[field]]
             pick(s) == CHOOSE x \in s : TRUE
             Iter(it) == it = [s \in SUBSET S |->
                                 IF s = {} THEN 0
                                 ELSE LET x == CHOOSE x \in s : TRUE IN x[field] + it[s \ {x}]]
  <1>1. \A x \in S : f[x] \in Int
    OBVIOUS
  <1>2. ASSUME NEW it PROVE Iter(it) <=> SumsUp(it, f, S)
    <2> DEFINE h1 == [s \in SUBSET S |->
                        IF s = {} THEN 0
                        ELSE LET x == CHOOSE x \in s : TRUE IN x[field] + it[s \ {x}]]
               h2 == [s \in SUBSET S |->
                        IF s = {} THEN 0
                        ELSE f[CHOOSE x \in s : TRUE] + it[s \ {CHOOSE x \in s : TRUE}]]
    <2>1. \A s \in SUBSET S : h1[s] = h2[s]
      <3> TAKE s \in SUBSET S
      <3> DEFINE x == CHOOSE x \in s : TRUE
      <3>1. s # {} => x \in S
        OBVIOUS
      <3>2. s # {} => f[x] = x[field]
        BY <3>1
      <3> HIDE DEF f
      <3> QED
        BY <3>2
    <2>2. h1 = [s \in SUBSET S |-> h1[s]] /\ h2 = [s \in SUBSET S |-> h2[s]]
      OBVIOUS
    <2> HIDE DEF h1, h2
    <2>3. h1 = h2
      BY <2>1, <2>2
    <2>4. Iter(it) <=> it = h1
      BY DEF h1
    <2>5. SumsUp(it, f, S) <=> it = h2
      BY DEF h2, SumsUp
    <2> HIDE DEF Iter
    <2> QED
      BY <2>3, <2>4, <2>5
  <1> DEFINE it == CHOOSE it : Iter(it)
  <1>3. MapThenSumSet(LAMBDA x : x[field], S) = it[S]
    BY DEF MapThenSumSet, MapThenFoldSet
  <1> HIDE DEF f, Iter
  <1>4. \E i : Iter(i)
    BY <1>1, <1>2, SumsUpExists
  <1>5. SumsUp(it, f, S)
    BY <1>2, <1>4
  <1> QED
    BY <1>1, <1>3, <1>5, SumsUpIsSum DEF f

\* Only the terms matter.
THEOREM SumEqual ==
  ASSUME NEW S, IsFiniteSet(S), NEW f, NEW g, \A x \in S : f[x] \in Int /\ g[x] = f[x]
  PROVE  SumOf(f, S) = SumOf(g, S)
  <1>1. SumOf(f, S) \in Int /\ SumOf(g, S) \in Int
    BY SumInt
  <1>2. SumOf(f, S) <= SumOf(g, S)
    BY SumLeq
  <1>3. SumOf(g, S) <= SumOf(f, S)
    BY SumLeq
  <1> QED
    BY <1>1, <1>2, <1>3

LEMMA SumPlus ==
  ASSUME NEW S, IsFiniteSet(S), NEW f, NEW g, NEW h,
         \A x \in S : f[x] \in Int /\ g[x] \in Int /\ h[x] = f[x] + g[x]
  PROVE  SumOf(h, S) = SumOf(f, S) + SumOf(g, S)
  <1> DEFINE B == {s \in SUBSET S : SumOf(h, s) # SumOf(f, s) + SumOf(g, s)}
  <1> SUFFICES ASSUME B # {} PROVE FALSE
    OBVIOUS
  <1>1. PICK s \in B : IsFiniteSet(s) /\ \A x \in s : s \ {x} \notin B
    BY LeastSubset
  <1>2. s # {}
    <2>1. SumOf(f, {}) = 0 /\ SumOf(g, {}) = 0 /\ SumOf(h, {}) = 0
      BY SumEmpty
    <2>2. SumOf(h, s) # SumOf(f, s) + SumOf(g, s)
      OBVIOUS
    <2> HIDE DEF B
    <2>3. ASSUME s = {} PROVE FALSE
      <3>1. SumOf(h, s) = 0 /\ SumOf(f, s) = 0 /\ SumOf(g, s) = 0
        BY <2>1, <2>3, Zenon
      <3> QED
        BY <2>2, <3>1
    <2> QED
      BY <2>3
  <1>3. PICK x \in s : TRUE
    BY <1>2
  <1>4. SumOf(h, s \ {x}) = SumOf(f, s \ {x}) + SumOf(g, s \ {x})
    BY <1>1
  <1>5. \A y \in s : f[y] \in Int /\ g[y] \in Int /\ h[y] \in Int
    OBVIOUS
  <1>6. /\ SumOf(f, s) = f[x] + SumOf(f, s \ {x}) /\ SumOf(f, s \ {x}) \in Int
        /\ SumOf(g, s) = g[x] + SumOf(g, s \ {x}) /\ SumOf(g, s \ {x}) \in Int
        /\ SumOf(h, s) = h[x] + SumOf(h, s \ {x})
    BY <1>1, <1>5, SumPick
  <1> HIDE DEF B
  <1> QED
    BY <1>4, <1>6, f[x] \in Int /\ g[x] \in Int /\ h[x] = f[x] + g[x],
       SumOf(h, s) # SumOf(f, s) + SumOf(g, s) DEF B

LEMMA SumTimes ==
  ASSUME NEW S, IsFiniteSet(S), NEW f, NEW g, NEW m \in Int,
         \A x \in S : f[x] \in Int /\ g[x] = m * f[x]
  PROVE  SumOf(g, S) = m * SumOf(f, S)
  <1> DEFINE B == {s \in SUBSET S : SumOf(g, s) # m * SumOf(f, s)}
  <1> SUFFICES ASSUME B # {} PROVE FALSE
    OBVIOUS
  <1>1. PICK s \in B : IsFiniteSet(s) /\ \A x \in s : s \ {x} \notin B
    BY LeastSubset
  <1>2. s # {}
    <2>1. SumOf(f, {}) = 0 /\ SumOf(g, {}) = 0
      BY SumEmpty
    <2>2. m * 0 = 0
      OBVIOUS
    <2> QED
      BY <2>1, <2>2
  <1>3. PICK x \in s : TRUE
    BY <1>2
  <1>4. SumOf(g, s \ {x}) = m * SumOf(f, s \ {x})
    BY <1>1
  <1>5. \A y \in s : f[y] \in Int /\ g[y] \in Int
    OBVIOUS
  <1>6. /\ SumOf(f, s) = f[x] + SumOf(f, s \ {x}) /\ SumOf(f, s \ {x}) \in Int
        /\ SumOf(g, s) = g[x] + SumOf(g, s \ {x}) /\ SumOf(g, s \ {x}) \in Int
    BY <1>1, <1>5, SumPick
  <1> PICK a \in Int, b \in Int : a = f[x] /\ b = SumOf(f, s \ {x})
    BY <1>5, <1>6
  <1>7. SumOf(g, s) = m * a + m * b
    BY <1>4, <1>6
  <1>8. m * SumOf(f, s) = m * (a + b)
    BY <1>6
  <1>9. m * (a + b) = m * a + m * b
    OBVIOUS
  <1> QED
    BY <1>7, <1>8, <1>9

-----------------------------------------------------------------------------
(* Folds along a sequence.                                                 *)

LEMMA MaxIn ==
  ASSUME NEW N \in Nat, NEW s \in SUBSET (1..N), s # {}
  PROVE  Max(s) \in s /\ \A y \in s : y <= Max(s)
  <1> DEFINE T == {n \in Nat : N - n \in s}
  <1>1. PICK x \in s : TRUE
    OBVIOUS
  <1>2. N - x \in T
    BY <1>1
  <1>3. PICK n \in T : \A m \in T : n <= m
    BY <1>2, LeastNat
  <1>4. ASSUME NEW y \in s PROVE N - n >= y
    <2>1. N - y \in T
      OBVIOUS
    <2> QED
      BY <1>3, <2>1
  <1>5. \E z \in s : \A y \in s : z >= y
    BY <1>3, <1>4
  <1>6. Max(s) \in s /\ \A y \in s : Max(s) >= y
    BY <1>5 DEF Max
  <1> QED
    BY <1>6

LEMMA MaxOfInterval ==
  ASSUME NEW N \in Nat, NEW k \in 1..N
  PROVE  /\ 1..k \in SUBSET (1..N) /\ 1..k # {}
         /\ Max(1..k) = k /\ (1..k) \ {Max(1..k)} = 1..(k - 1)
  <1>1. 1..k \in SUBSET (1..N) /\ k \in 1..k
    OBVIOUS
  <1>2. Max(1..k) = k
    <2>1. Max(1..k) \in 1..k /\ k <= Max(1..k)
      BY <1>1, MaxIn
    <2> QED
      BY <2>1
  <1> QED
    BY <1>1, <1>2

\* A step takes a place and what the fold has come to before it.
FoldsLeft(g, N, base, F) ==
    \A s \in SUBSET (1..N) :
       g[s] = IF s = {} THEN base ELSE F[<<Max(s), g[s \ {Max(s)}]>>]

LEMMA FoldLeftExists ==
  ASSUME NEW N \in Nat, NEW V, NEW base \in V, NEW F \in [(1..N) \X V -> V]
  PROVE  \E g \in [SUBSET (1..N) -> V] : FoldsLeft(g, N, base, F)
  <1> DEFINE c == [s \in SUBSET (1..N) |-> Max(s)]
  <1>1. \A s \in SUBSET (1..N) : s # {} => c[s] \in s
    BY MaxIn
  <1>2. IsFiniteSet(1..N)
    BY FS_Interval
  <1>3. \A s \in SUBSET (1..N) : c[s] = Max(s)
    OBVIOUS
  <1> HIDE DEF c
  <1>4. PICK g \in [SUBSET (1..N) -> V] : Folds(g, 1..N, base, c, F)
    BY <1>1, <1>2, FoldExists
  <1>5. FoldsLeft(g, N, base, F)
    BY <1>3, <1>4 DEF Folds, FoldsLeft
  <1> QED
    BY <1>5

\* A fold is what its last step makes of the fold so far.
LEMMA FoldStays ==
  ASSUME NEW N \in Nat, NEW V, NEW g, g[{}] \in V,
         \A k \in 1..N : g[1..(k - 1)] \in V => g[1..k] \in V
  PROVE  \A k \in 0..N : g[1..k] \in V
  <1> DEFINE T == {k \in 0..N : g[1..k] \notin V}
  <1> SUFFICES ASSUME T # {} PROVE FALSE
    OBVIOUS
  <1>1. PICK k \in T : \A m \in T : k <= m
    BY T \in SUBSET Nat, LeastNat
  <1>2. 1..0 = {}
    OBVIOUS
  <1>3. k # 0
    BY <1>2
  <1>4. k \in 1..N /\ k - 1 \in 0..N /\ k - 1 \notin T
    BY <1>1, <1>3
  <1> QED
    BY <1>4

\* Two ways to take the same steps come to the same.
LEMMA SameSteps ==
  ASSUME NEW N \in Nat, NEW g, NEW h, g[0] = h[0],
         \A k \in 1..N : g[k - 1] = h[k - 1] => g[k] = h[k]
  PROVE  \A k \in 0..N : g[k] = h[k]
  <1> DEFINE T == {k \in 0..N : g[k] # h[k]}
  <1> SUFFICES ASSUME T # {} PROVE FALSE
    OBVIOUS
  <1>1. PICK k \in T : \A m \in T : k <= m
    BY T \in SUBSET Nat, LeastNat
  <1>2. k \in 1..N /\ k - 1 \in 0..N /\ k - 1 \notin T
    BY <1>1
  <1> QED
    BY <1>2
=============================================================================
