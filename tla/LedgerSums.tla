----------------------------- MODULE LedgerSums -----------------------------
(***************************************************************************)
(* Lemmas about the sums of LedgerData: the exact sums over entries and    *)
(* requests, and the int64 sum of Go's loop.  The library defines both as  *)
(* recursive functions picked by CHOOSE, so first come an induction over   *)
(* finite sets (from the well-foundedness of strict inclusion) and the     *)
(* existence of such functions; the rest follows from them.                *)
(***************************************************************************)
EXTENDS LedgerData, FiniteSetTheorems, TLAPS

\* A set of finite subsets has one that includes no other.
LEMMA MinimalSubset ==
    ASSUME NEW S, NEW Bad, Bad \subseteq FiniteSubsetsOf(S), Bad # {}
    PROVE  \E T \in Bad : \A U \in SUBSET T : U # T => U \notin Bad
<1>1. IsWellFoundedOn(StrictSubsetOrdering(S), FiniteSubsetsOf(S))
  BY FS_StrictSubsetOrderingWellFounded
<1>2. PICK T \in Bad : \A U \in Bad : ~ (<<U, T>> \in StrictSubsetOrdering(S))
  BY <1>1, WFMin, Zenon
<1> QED
  BY <1>2 DEF StrictSubsetOrdering, FiniteSubsetsOf

\* Induction over the subsets of a finite set: what holds of a set as soon as it holds
\* of its strict subsets holds of all.
LEMMA SubsetInduction ==
    ASSUME NEW S, IsFiniteSet(S), NEW Good,
           \A T \in SUBSET S :
              (\A U \in SUBSET T : U # T => U \in Good) => T \in Good
    PROVE  \A T \in SUBSET S : T \in Good
<1> DEFINE Bad == {T \in SUBSET S : T \notin Good}
<1> SUFFICES ASSUME Bad # {} PROVE FALSE
  OBVIOUS
<1>1. Bad \subseteq FiniteSubsetsOf(S)
  BY FS_FiniteSubsetsOfFinite
<1>2. \E T \in Bad : \A U \in SUBSET T : U # T => U \notin Bad
  <2>1. ASSUME NEW B, B \subseteq FiniteSubsetsOf(S), B # {}
        PROVE  \E T \in B : \A U \in SUBSET T : U # T => U \notin B
    BY <2>1, MinimalSubset, Zenon
  <2> HIDE DEF Bad
  <2> QED
    BY <1>1, <2>1, Zenon
<1> QED
  BY <1>2

\* Induction over the numbers, from that over the intervals 1 .. n.
LEMMA NatInduct ==
    ASSUME NEW Good, 0 \in Good, \A n \in Nat : n \in Good => n + 1 \in Good
    PROVE  \A n \in Nat : n \in Good
<1> SUFFICES ASSUME NEW k \in Nat PROVE k \in Good
  OBVIOUS
<1> DEFINE Sets == {T \in SUBSET (1 .. k) : \A n \in 0 .. k : T = 1 .. n => n \in Good}
<1>1. IsFiniteSet(1 .. k)
  BY FS_Interval
<1>2. ASSUME NEW T \in SUBSET (1 .. k), \A U \in SUBSET T : U # T => U \in Sets
      PROVE  T \in Sets
  <2> SUFFICES ASSUME NEW n \in 0 .. k, T = 1 .. n PROVE n \in Good
    OBVIOUS
  <2>1. CASE n = 0
    BY <2>1
  <2>2. CASE n # 0
    <3>1. n - 1 \in 0 .. k /\ 1 .. n - 1 \in SUBSET T /\ n \in T /\ n \notin 1 .. n - 1
      BY <2>2
    <3>2. 1 .. n - 1 \in Sets
      BY <3>1, <1>2
    <3>3. n - 1 \in Good
      BY <3>1, <3>2
    <3> QED
      BY <3>1, <3>3
  <2> QED
    BY <2>1, <2>2
<1>3. \A T \in SUBSET (1 .. k) : T \in Sets
  <2> HIDE DEF Sets
  <2>1. \A T \in SUBSET (1 .. k) : (\A U \in SUBSET T : U # T => U \in Sets) => T \in Sets
    BY <1>2
  <2> QED
    BY <1>1, <2>1, SubsetInduction, Zenon
<1>4. 1 .. k \in Sets
  BY ONLY <1>3
<1> QED
  BY <1>4

(***************************************************************************)
(* A fold over the subsets of T: step takes the element that pick takes    *)
(* out of a subset and the value for the rest of it.                       *)
(***************************************************************************)
Folds(g, T, base, pick, step) ==
    \A s \in SUBSET T :
       g[s] = IF s = {} THEN base ELSE step[pick[s]][g[s \ {pick[s]}]]

\* Two folds agree wherever both are defined.
LEMMA FoldsAgree ==
    ASSUME NEW S, IsFiniteSet(S), NEW base, NEW pick, NEW step,
           \A s \in SUBSET S : s # {} => pick[s] \in s,
           NEW T \in SUBSET S, NEW U \in SUBSET T, NEW g, NEW h,
           Folds(g, T, base, pick, step), Folds(h, U, base, pick, step)
    PROVE  \A s \in SUBSET U : g[s] = h[s]
<1> DEFINE Good == {s \in SUBSET U : g[s] = h[s]}
<1>1. IsFiniteSet(U)
  BY FS_Subset
<1>2. ASSUME NEW s \in SUBSET U, \A r \in SUBSET s : r # s => r \in Good
      PROVE  s \in Good
  <2>1. CASE s = {}
    BY <2>1 DEF Folds
  <2>2. CASE s # {}
    <3>1. pick[s] \in s
      BY <2>2
    <3>2. s \ {pick[s]} \in Good
      BY <1>2, <3>1
    <3> QED
      BY <2>2, <3>2 DEF Folds
  <2> QED
    BY <2>1, <2>2
<1>3. \A s \in SUBSET U : s \in Good
  <2> HIDE DEF Good
  <2>1. \A s \in SUBSET U : (\A r \in SUBSET s : r # s => r \in Good) => s \in Good
    BY <1>2
  <2> QED
    BY <1>1, <2>1, SubsetInduction, Zenon
<1> QED
  BY <1>3

\* There is a fold over every finite set.
LEMMA FoldExists ==
    ASSUME NEW S, IsFiniteSet(S), NEW D, NEW base \in D, NEW pick,
           NEW step \in [S -> [D -> D]],
           \A s \in SUBSET S : s # {} => pick[s] \in s
    PROVE  \E g \in [SUBSET S -> D] : Folds(g, S, base, pick, step)
<1> DEFINE Fold(g, T) == g \in [SUBSET T -> D] /\ Folds(g, T, base, pick, step)
           val == [T \in SUBSET S |-> (CHOOSE g : Fold(g, T))[T]]
           Good == {T \in SUBSET S : \E g : Fold(g, T)}
<1>1. ASSUME NEW T \in SUBSET S, \A U \in SUBSET T : U # T => U \in Good
      PROVE  T \in Good
  <2> DEFINE rest(s) == s \ {pick[s]}
             g == [s \in SUBSET T |-> IF s = {} THEN base ELSE step[pick[s]][val[rest(s)]]]
  <2>1. ASSUME NEW U \in SUBSET T, U # T
        PROVE  val[U] \in D /\ val[U] = IF U = {} THEN base ELSE step[pick[U]][val[rest(U)]]
    <3>1. PICK h : h = (CHOOSE f : Fold(f, U)) /\ Fold(h, U)
      BY <1>1, <2>1
    <3>2. val[U] = h[U] /\ h[U] \in D
      BY <3>1
    <3>3. CASE U = {}
      BY <3>1, <3>2, <3>3 DEF Folds
    <3>4. CASE U # {}
      <4>1. pick[U] \in U /\ rest(U) \in SUBSET U /\ rest(U) # T /\ rest(U) \in SUBSET T
        BY <3>4
      <4>2. PICK k : k = (CHOOSE f : Fold(f, rest(U))) /\ Fold(k, rest(U))
        BY <1>1, <4>1
      <4>3. h[rest(U)] = k[rest(U)]
        BY <3>1, <4>1, <4>2, FoldsAgree
      <4>4. val[rest(U)] = k[rest(U)]
        BY <4>1, <4>2
      <4>5. h[U] = step[pick[U]][h[rest(U)]]
        BY <3>1, <3>4 DEF Folds
      <4> QED
        BY <3>2, <3>4, <4>3, <4>4, <4>5
    <3> QED
      BY <3>3, <3>4
  <2>2. ASSUME NEW s \in SUBSET T, s # {}
        PROVE  /\ pick[s] \in S
               /\ rest(s) \in SUBSET T /\ rest(s) # T
               /\ val[rest(s)] \in D
               /\ g[rest(s)] = val[rest(s)]
    <3>1. pick[s] \in s /\ rest(s) \in SUBSET T /\ rest(s) # T
      BY <2>2
    <3>2. val[rest(s)] \in D
      BY <2>1, <3>1
    <3>3. val[rest(s)] = IF rest(s) = {} THEN base ELSE step[pick[rest(s)]][val[rest(rest(s))]]
      BY <2>1, <3>1
    <3> HIDE DEF val
    <3> QED
      BY <3>1, <3>2, <3>3
  <2>3. g \in [SUBSET T -> D]
    <3>1. ASSUME NEW s \in SUBSET T
          PROVE  (IF s = {} THEN base ELSE step[pick[s]][val[rest(s)]]) \in D
      <4> HIDE DEF val
      <4>1. CASE s # {}
        <5>1. step[pick[s]] \in [D -> D] /\ val[rest(s)] \in D
          BY <2>2, <4>1
        <5> QED
          BY <4>1, <5>1
      <4> QED
        BY <4>1
    <3> HIDE DEF val
    <3> QED
      BY <3>1
  <2>4. Folds(g, T, base, pick, step)
    <3> HIDE DEF val
    <3> QED
      BY <2>2 DEF Folds
  <2> QED
    BY <2>3, <2>4
<1>2. \A T \in SUBSET S : T \in Good
  <2> HIDE DEF Good
  <2>1. \A T \in SUBSET S : (\A U \in SUBSET T : U # T => U \in Good) => T \in Good
    BY <1>1
  <2> QED
    BY <2>1, SubsetInduction, Zenon
<1> QED
  BY <1>2

-----------------------------------------------------------------------------
\* g is the sum of f over every subset of its domain.
Sums(f, g) ==
    /\ g[{}] = 0
    /\ \A s \in SUBSET DOMAIN f : g[s] \in Int /\ \A x \in s : g[s] = f[x] + g[s \ {x}]

\* The library's order of summation, and its recursion.
Pick(s) == CHOOSE x \in s : TRUE

Unfolds(f, g) ==
    g = [s \in SUBSET DOMAIN f |-> IF s = {} THEN 0 ELSE f[Pick(s)] + g[s \ {Pick(s)}]]

\* What the library's SumFunction expands to.
LEMMA SumChoice ==
    ASSUME NEW f
    PROVE  SumFunction(f) = (CHOOSE g : Unfolds(f, g))[DOMAIN f]
BY DEF SumFunction, SumFunctionOnSet, FoldFunctionOnSet, MapThenFoldSet, Unfolds, Pick

\* The library takes an element of the set.
LEMMA PickOne == ASSUME NEW s, s # {} PROVE Pick(s) \in s
BY DEF Pick

\* The function that SumFunction chooses exists and satisfies its recursion.
LEMMA SumUnfolds ==
    ASSUME NEW S, IsFiniteSet(S), NEW f \in [S -> Int]
    PROVE  \E g : g \in [SUBSET S -> Int] /\ Unfolds(f, g) /\ SumFunction(f) = g[S]
<1> DEFINE pick == [s \in SUBSET S |-> Pick(s)]
           step == [x \in S |-> [v \in Int |-> f[x] + v]]
<1>1. \E g \in [SUBSET S -> Int] : Folds(g, S, 0, pick, step)
  <2>1. \A s \in SUBSET S : s # {} => pick[s] \in s
    BY PickOne
  <2>2. step \in [S -> [Int -> Int]] /\ 0 \in Int
    OBVIOUS
  <2> HIDE DEF pick, step
  <2> QED
    BY <2>1, <2>2, FoldExists, Zenon
<1>2. PICK g \in [SUBSET S -> Int] : Folds(g, S, 0, pick, step)
  BY <1>1
<1>3. ASSUME NEW s \in SUBSET S, s # {}
      PROVE  g[s] = f[Pick(s)] + g[s \ {Pick(s)}]
  <2>1. PICK c \in s : c = Pick(s)
    BY <1>3, PickOne
  <2>2. pick[s] = c /\ s \ {c} \in SUBSET S /\ g[s \ {c}] \in Int
    BY <1>2, <2>1
  <2>3. step[c][g[s \ {c}]] = f[c] + g[s \ {c}]
    BY <2>2
  <2> QED
    BY <1>2, <1>3, <2>1, <2>2, <2>3 DEF Folds
<1>4. g[{}] = 0
  BY <1>2 DEF Folds
<1>5. Unfolds(f, g)
  <2>1. \A s \in SUBSET S : g[s] = IF s = {} THEN 0 ELSE f[Pick(s)] + g[s \ {Pick(s)}]
    BY <1>3, <1>4
  <2> QED
    BY <2>1 DEF Unfolds
<1>6. PICK h : h = (CHOOSE k : Unfolds(f, k)) /\ Unfolds(f, h)
  BY <1>5
<1>7. SumFunction(f) = h[S]
  BY <1>6, SumChoice
<1>8. /\ h = [s \in SUBSET S |-> h[s]]
      /\ \A s \in SUBSET S : h[s] = IF s = {} THEN 0 ELSE f[Pick(s)] + h[s \ {Pick(s)}]
  BY <1>6 DEF Unfolds
<1>9. h \in [SUBSET S -> Int]
  <2>1. \A s \in SUBSET S : h[s] = g[s]
    <3> DEFINE Good == {s \in SUBSET S : h[s] = g[s]}
    <3>2. ASSUME NEW s \in SUBSET S, \A r \in SUBSET s : r # s => r \in Good
          PROVE  s \in Good
      <4>1. CASE s = {}
        BY <1>4, <1>8, <4>1
      <4>2. CASE s # {}
        <5>1. PICK c \in s : c = Pick(s)
          BY <4>2, PickOne
        <5>2. h[s \ {c}] = g[s \ {c}]
          BY <3>2, <5>1
        <5> QED
          BY <1>3, <1>8, <4>2, <5>1, <5>2
      <4> QED
        BY <4>1, <4>2
    <3>3. \A s \in SUBSET S : (\A r \in SUBSET s : r # s => r \in Good) => s \in Good
      <4> HIDE DEF Good
      <4> QED
        BY <3>2
    <3>4. \A s \in SUBSET S : s \in Good
      <4> HIDE DEF Good
      <4> QED
        BY <3>3, SubsetInduction, Zenon
    <3> QED
      BY <3>4
  <2> QED
    BY <1>8, <2>1
<1> QED
  BY <1>6, <1>7, <1>9

\* The order of summation does not matter: any element can be taken out first.
LEMMA SumsExist ==
    ASSUME NEW S, IsFiniteSet(S), NEW f \in [S -> Int]
    PROVE  \E g : Sums(f, g) /\ SumFunction(f) = g[S]
<1>1. PICK g : g \in [SUBSET S -> Int] /\ Unfolds(f, g) /\ SumFunction(f) = g[S]
  BY SumUnfolds
<1>0. \A s \in SUBSET S : g[s] = IF s = {} THEN 0 ELSE f[Pick(s)] + g[s \ {Pick(s)}]
  BY <1>1 DEF Unfolds
<1> DEFINE Good == {s \in SUBSET S : \A x \in s : g[s] = f[x] + g[s \ {x}]}
<1>2. ASSUME NEW s \in SUBSET S, \A r \in SUBSET s : r # s => r \in Good
      PROVE  s \in Good
  <2> SUFFICES ASSUME NEW x \in s PROVE g[s] = f[x] + g[s \ {x}]
    OBVIOUS
  <2>1. PICK c \in s : c = Pick(s)
    BY PickOne
  <2>2. g[s] = f[c] + g[s \ {c}]
    BY <1>0, <2>1
  <2>3. CASE x # c
    <3>1. s \ {c} \in Good /\ s \ {x} \in Good
      BY <1>2
    <3>2. g[s \ {c}] = f[x] + g[(s \ {c}) \ {x}]
      BY <2>3, <3>1
    <3>3. g[s \ {x}] = f[c] + g[(s \ {x}) \ {c}]
      BY <2>3, <3>1
    <3>4. (s \ {x}) \ {c} = (s \ {c}) \ {x}
      OBVIOUS
    <3>5. PICK n \in Int : n = g[(s \ {c}) \ {x}]
      BY <1>1
    <3>6. g[s \ {c}] = f[x] + n /\ g[s \ {x}] = f[c] + n
      BY <3>2, <3>3, <3>4, <3>5
    <3>7. f[x] \in Int /\ f[c] \in Int
      OBVIOUS
    <3> QED
      BY <2>2, <3>6, <3>7
  <2> QED
    BY <2>2, <2>3
<1>3. \A s \in SUBSET S : (\A r \in SUBSET s : r # s => r \in Good) => s \in Good
  <2> HIDE DEF Good
  <2> QED
    BY <1>2
<1>4. \A s \in SUBSET S : s \in Good
  <2> HIDE DEF Good
  <2> QED
    BY <1>3, SubsetInduction, Zenon
<1>5. \A s \in SUBSET S : g[s] \in Int /\ \A x \in s : g[s] = f[x] + g[s \ {x}]
  BY <1>1, <1>4
<1>6. g[{}] = 0
  BY <1>0
<1> QED
  BY <1>1, <1>5, <1>6 DEF Sums

\* The sum over a part of the domain.
LEMMA SumOfPart ==
    ASSUME NEW S, IsFiniteSet(S), NEW f \in [S -> Int], NEW g, Sums(f, g),
           NEW T \in SUBSET S, NEW h \in [T -> Int], \A x \in T : h[x] = f[x]
    PROVE  SumFunction(h) = g[T]
<1>1. IsFiniteSet(T)
  BY FS_Subset
<1>2. PICK k : Sums(h, k) /\ SumFunction(h) = k[T]
  BY <1>1, SumsExist
<1> DEFINE Good == {s \in SUBSET T : k[s] = g[s]}
<1>3. ASSUME NEW s \in SUBSET T, \A r \in SUBSET s : r # s => r \in Good
      PROVE  s \in Good
  <2>1. CASE s = {}
    BY <1>2, <2>1 DEF Sums
  <2>2. CASE s # {}
    <3>1. PICK x \in s : TRUE
      BY <2>2
    <3>2. k[s] = h[x] + k[s \ {x}] /\ g[s] = f[x] + g[s \ {x}]
      BY <1>2, <3>1 DEF Sums
    <3>3. k[s \ {x}] = g[s \ {x}]
      BY <1>3, <3>1
    <3> QED
      BY <3>1, <3>2, <3>3
  <2> QED
    BY <2>1, <2>2
<1>4. \A s \in SUBSET T : (\A r \in SUBSET s : r # s => r \in Good) => s \in Good
  <2> HIDE DEF Good
  <2> QED
    BY <1>3
<1>5. \A s \in SUBSET T : s \in Good
  <2> HIDE DEF Good
  <2> QED
    BY <1>1, <1>4, SubsetInduction, Zenon
<1> QED
  BY <1>2, <1>5

\* The sum of finitely many integers is an integer.
LEMMA SumType ==
    ASSUME NEW S, IsFiniteSet(S), NEW f \in [S -> Int]
    PROVE  SumFunction(f) \in Int
<1>1. PICK g : Sums(f, g) /\ SumFunction(f) = g[S]
  BY SumsExist
<1> QED
  BY <1>1 DEF Sums

\* The sum of nothing is 0.
LEMMA SumEmpty == ASSUME NEW f \in [{} -> Int] PROVE SumFunction(f) = 0
BY SumsExist, FS_EmptySet DEF Sums

\* Any one value can be taken out of a sum.
LEMMA SumRemove ==
    ASSUME NEW S, IsFiniteSet(S), NEW f \in [S -> Int], NEW x \in S,
           NEW T, T = S \ {x}, NEW h \in [T -> Int], \A y \in T : h[y] = f[y]
    PROVE  SumFunction(f) = f[x] + SumFunction(h)
<1>1. PICK g : Sums(f, g) /\ SumFunction(f) = g[S]
  BY SumsExist
<1>2. SumFunction(h) = g[S \ {x}]
  BY <1>1, SumOfPart
<1>3. g[S] = f[x] + g[S \ {x}]
  BY <1>1 DEF Sums
<1> QED
  BY <1>1, <1>2, <1>3

\* A sum changes by what one of its values changes by: Posted, when a posting commits.
LEMMA SumChange ==
    ASSUME NEW S, IsFiniteSet(S), NEW f \in [S -> Int], NEW h \in [S -> Int], NEW x \in S,
           \A y \in S \ {x} : h[y] = f[y]
    PROVE  SumFunction(h) - h[x] = SumFunction(f) - f[x]
<1> DEFINE rest == [y \in S \ {x} |-> f[y]]
<1>1. rest \in [S \ {x} -> Int] /\ IsFiniteSet(S \ {x})
  BY FS_RemoveElement
<1>2. (\A y \in S \ {x} : rest[y] = f[y]) /\ (\A y \in S \ {x} : rest[y] = h[y])
  OBVIOUS
<1> HIDE DEF rest
<1>3. SumFunction(f) = f[x] + SumFunction(rest)
  BY <1>1, <1>2, SumRemove
<1>4. SumFunction(h) = h[x] + SumFunction(rest)
  BY <1>1, <1>2, SumRemove
<1>5. SumFunction(rest) \in Int /\ f[x] \in Int /\ h[x] \in Int
  BY <1>1, SumType
<1> QED
  BY <1>3, <1>4, <1>5

\* A sum of zeros is 0.
LEMMA SumZero ==
    ASSUME NEW S, IsFiniteSet(S), NEW f \in [S -> Int], \A x \in S : f[x] = 0
    PROVE  SumFunction(f) = 0
<1>1. PICK g : Sums(f, g) /\ SumFunction(f) = g[S]
  BY SumsExist
<1> DEFINE Good == {s \in SUBSET S : g[s] = 0}
<1>2. ASSUME NEW s \in SUBSET S, \A r \in SUBSET s : r # s => r \in Good
      PROVE  s \in Good
  <2>1. CASE s = {}
    BY <1>1, <2>1 DEF Sums
  <2>2. CASE s # {}
    <3>1. PICK x \in s : g[s] = f[x] + g[s \ {x}]
      BY <1>1, <2>2 DEF Sums
    <3>2. f[x] = 0 /\ g[s \ {x}] = 0
      BY <1>2, <3>1
    <3> QED
      BY <3>1, <3>2
  <2> QED
    BY <2>1, <2>2
<1>3. \A s \in SUBSET S : (\A r \in SUBSET s : r # s => r \in Good) => s \in Good
  <2> HIDE DEF Good
  <2> QED
    BY <1>2
<1>4. \A s \in SUBSET S : s \in Good
  <2> HIDE DEF Good
  <2> QED
    BY <1>3, SubsetInduction, Zenon
<1> QED
  BY <1>1, <1>4

-----------------------------------------------------------------------------
\* The change of an entry is an integer.
LEMMA DeltaType == ASSUME NEW e \in Entry PROVE Delta(e) \in Int
<1>1. e.amount \in Int
  BY MaxIntAssumption DEF Entry, Bigint
<1>2. CASE e.type = "CREDIT"
  BY <1>1, <1>2 DEF Delta
<1>3. CASE e.type = "DEBIT"
  BY <1>1, <1>3 DEF Delta
<1>4. CASE e.type = "OTHER"
  BY <1>4 DEF Delta
<1> QED
  BY <1>2, <1>3, <1>4 DEF Entry, EntryTypes

\* The sum over a sequence of n values.
LEMMA SumLast ==
    ASSUME NEW n, n \in Nat \ {0}, NEW f, f \in [1 .. n -> Int],
           NEW h, h \in [1 .. n - 1 -> Int],
           \A i \in 1 .. n - 1 : h[i] = f[i]
    PROVE  SumFunction(f) = SumFunction(h) + f[n]
<1>1. 1 .. n - 1 = (1 .. n) \ {n} /\ n \in 1 .. n
  OBVIOUS
<1>2. IsFiniteSet(1 .. n) /\ IsFiniteSet(1 .. n - 1)
  BY FS_Interval
<1>3. SumFunction(f) = f[n] + SumFunction(h)
  <2>1. PICK S, T, x : S = 1 .. n /\ T = 1 .. n - 1 /\ x = n
    OBVIOUS
  <2>2. /\ IsFiniteSet(S) /\ x \in S /\ T = S \ {x}
        /\ f \in [S -> Int] /\ h \in [T -> Int] /\ \A y \in T : h[y] = f[y]
    BY <1>1, <1>2, <2>1
  <2>3. SumFunction(f) = f[x] + SumFunction(h)
    BY ONLY <2>2, SumRemove
  <2> QED
    BY <2>1, <2>3
<1>4. SumFunction(h) \in Int /\ f[n] \in Int
  BY <1>1, <1>2, SumType
<1> QED
  BY <1>3, <1>4

\* The first i entries of a sequence.
LEMMA PrefixProperties ==
    ASSUME NEW es \in Seq(Entry), NEW i \in 0 .. Len(es)
    PROVE  /\ SubSeq(es, 1, i) \in Seq(Entry)
           /\ DOMAIN SubSeq(es, 1, i) = 1 .. i
           /\ \A k \in 1 .. i : SubSeq(es, 1, i)[k] = es[k] /\ es[k] \in Entry
OBVIOUS

\* What entry e does to account a.
Move(e, a) == IF e.acct = a THEN Delta(e) ELSE 0

\* The net of entries is the sum of what each does.
LEMMA MovesType ==
    ASSUME NEW es \in Seq(Entry), NEW a
    PROVE  /\ IsFiniteSet(DOMAIN es)
           /\ [i \in DOMAIN es |-> Move(es[i], a)] \in [DOMAIN es -> Int]
           /\ Net(es, a) = SumFunction([i \in DOMAIN es |-> Move(es[i], a)])
<1>1. IsFiniteSet(1 .. Len(es)) /\ DOMAIN es = 1 .. Len(es)
  BY FS_Interval
<1>2. \A i \in DOMAIN es : Move(es[i], a) \in Int
  BY DeltaType DEF Move
<1> QED
  BY <1>1, <1>2 DEF Net, Move

\* What entries do to an account is an integer.
LEMMA NetType == ASSUME NEW es \in Seq(Entry), NEW a PROVE Net(es, a) \in Int
BY MovesType, SumType

\* One more entry adds what it does to the account: one UPDATE of a posting.
LEMMA NetNext ==
    ASSUME NEW es \in Seq(Entry), NEW i \in 1 .. Len(es), NEW a
    PROVE  Net(SubSeq(es, 1, i), a) = Net(SubSeq(es, 1, i - 1), a) + Move(es[i], a)
<1> DEFINE part(n) == SubSeq(es, 1, n)
           f(n) == [k \in 1 .. n |-> Move(es[k], a)]
<1>1. ASSUME NEW n \in 0 .. Len(es)
      PROVE  Net(part(n), a) = SumFunction(f(n)) /\ f(n) \in [1 .. n -> Int]
  <2>1. part(n) \in Seq(Entry) /\ DOMAIN part(n) = 1 .. n
    BY PrefixProperties
  <2>2. [k \in DOMAIN part(n) |-> Move(part(n)[k], a)] = f(n)
    BY <2>1, PrefixProperties
  <2> QED
    BY <2>1, <2>2, MovesType
<1>2. i \in Nat \ {0} /\ i \in 0 .. Len(es) /\ i - 1 \in 0 .. Len(es)
  OBVIOUS
<1>3. \A k \in 1 .. i - 1 : f(i - 1)[k] = f(i)[k]
  OBVIOUS
<1>4. f(i) \in [1 .. i -> Int] /\ f(i - 1) \in [1 .. i - 1 -> Int]
  BY <1>1, <1>2
<1>5. SumFunction(f(i)) = SumFunction(f(i - 1)) + f(i)[i]
  <2> HIDE DEF f
  <2> QED
    BY <1>2, <1>3, <1>4, SumLast
<1> QED
  BY <1>1, <1>2, <1>5

\* Entries do nothing to an account that none of them names.
LEMMA NetUnnamed ==
    ASSUME NEW es \in Seq(Entry), NEW a, \A i \in DOMAIN es : es[i].acct # a
    PROVE  Net(es, a) = 0 /\ Touches(es, a) = 0
<1>1. {i \in DOMAIN es : es[i].acct = a} = {}
  OBVIOUS
<1>2. Touches(es, a) = 0
  BY <1>1, FS_EmptySet DEF Touches
<1> DEFINE f == [i \in DOMAIN es |-> Move(es[i], a)]
<1>3. \A i \in DOMAIN es : f[i] = 0
  BY DEF Move
<1>4. IsFiniteSet(DOMAIN es) /\ f \in [DOMAIN es -> Int] /\ Net(es, a) = SumFunction(f)
  BY MovesType
<1>5. SumFunction(f) = 0
  <2> HIDE DEF f
  <2> QED
    BY <1>3, <1>4, SumZero
<1> QED
  BY <1>2, <1>4, <1>5

\* No entries do nothing.
LEMMA NetNothing == ASSUME NEW a PROVE Net(<<>>, a) = 0 /\ Touches(<<>>, a) = 0
<1>1. <<>> \in Seq(Entry) /\ \A i \in DOMAIN <<>> : <<>>[i].acct # a
  OBVIOUS
<1> QED
  BY <1>1, NetUnnamed

\* One more entry on the account is one more version of its row.
LEMMA TouchesNext ==
    ASSUME NEW es \in Seq(Entry), NEW i \in 1 .. Len(es), NEW a
    PROVE  /\ Touches(SubSeq(es, 1, i - 1), a) \in Nat
           /\ Touches(SubSeq(es, 1, i), a)
                = Touches(SubSeq(es, 1, i - 1), a) + (IF es[i].acct = a THEN 1 ELSE 0)
<1> DEFINE named(n) == {k \in 1 .. n : es[k].acct = a}
<1>1. ASSUME NEW n \in 0 .. Len(es)
      PROVE  Touches(SubSeq(es, 1, n), a) = Cardinality(named(n)) /\ IsFiniteSet(named(n))
  <2>1. {k \in DOMAIN SubSeq(es, 1, n) : SubSeq(es, 1, n)[k].acct = a} = named(n)
    BY PrefixProperties
  <2>2. IsFiniteSet(1 .. n) /\ named(n) \in SUBSET (1 .. n)
    BY FS_Interval
  <2> QED
    BY <2>1, <2>2, FS_Subset DEF Touches
<1>2. i \in 0 .. Len(es) /\ i - 1 \in 0 .. Len(es)
  OBVIOUS
<1>3. named(i) = IF es[i].acct = a THEN named(i - 1) \cup {i} ELSE named(i - 1)
  OBVIOUS
<1>4. i \notin named(i - 1)
  OBVIOUS
<1> HIDE DEF named
<1>5. IsFiniteSet(named(i - 1))
  BY <1>1, <1>2
<1>6. Cardinality(named(i - 1)) \in Nat
  BY <1>5, FS_CardinalityType
<1>7. Cardinality(named(i - 1) \cup {i}) = Cardinality(named(i - 1)) + 1
  BY <1>4, <1>5, FS_AddElement
<1>8. /\ Touches(SubSeq(es, 1, i), a) = Cardinality(named(i))
      /\ Touches(SubSeq(es, 1, i - 1), a) = Cardinality(named(i - 1))
  BY <1>1, <1>2
<1>9. CASE es[i].acct = a
  BY <1>3, <1>6, <1>7, <1>8, <1>9
<1>10. CASE es[i].acct # a
  BY <1>3, <1>6, <1>8, <1>10
<1> QED
  BY <1>9, <1>10

-----------------------------------------------------------------------------
\* A multiple of w that is smaller than w is 0.
LEMMA SmallMultiple ==
    ASSUME NEW w \in Nat, w > 0, NEW d \in Int, -w < w * d, w * d < w
    PROVE  d = 0
<1>1. ASSUME d >= 1 PROVE FALSE
  BY <1>1
<1>2. ASSUME d <= -1 PROVE FALSE
  BY <1>2
<1> QED
  BY <1>1, <1>2

\* Quotient and remainder.
LEMMA DivMod ==
    ASSUME NEW w \in Nat, w > 0, NEW n \in Int
    PROVE  n % w \in 0 .. w - 1 /\ n \div w \in Int /\ n = w * (n \div w) + (n % w)
OBVIOUS

\* A number has one remainder.
LEMMA SameRemainder ==
    ASSUME NEW w \in Nat, w > 0, NEW q \in Int, NEW r \in 0 .. w - 1,
           NEW p \in Int, NEW s \in 0 .. w - 1, w * q + r = w * p + s
    PROVE  r = s
<1>1. w * (q - p) = s - r
  OBVIOUS
<1>2. q - p = 0
  BY <1>1, SmallMultiple
<1> QED
  BY <1>1, <1>2

\* A remainder can be taken before an addition as well as after it.
LEMMA ModAdd ==
    ASSUME NEW w \in Nat, w > 0, NEW u \in Int, NEW y \in Int
    PROVE  ((u % w) + y) % w = (u + y) % w
<1>1. PICK q \in Int, r \in 0 .. w - 1 : r = u % w /\ u = w * q + r
  BY DivMod
<1>2. PICK p \in Int, s \in 0 .. w - 1 : s = (r + y) % w /\ r + y = w * p + s
  <2>1. r + y \in Int
    OBVIOUS
  <2> QED
    BY <2>1, DivMod
<1>3. PICK k \in Int, t \in 0 .. w - 1 : t = (u + y) % w /\ u + y = w * k + t
  BY DivMod
<1>4. w * (q + p) + s = w * k + t
  BY <1>1, <1>2, <1>3
<1>5. s = t
  BY <1>4, SameRemainder
<1> QED
  BY <1>1, <1>2, <1>3, <1>5

\* An int64 addition leaves an int64.
LEMMA WrapType == ASSUME NEW n \in Int PROVE Wrap(n) \in Bigint
<1>1. (n + MaxInt + 1) % (2 * (MaxInt + 1)) \in 0 .. 2 * (MaxInt + 1) - 1
  BY MaxIntAssumption, DivMod
<1> QED
  BY <1>1, MaxIntAssumption DEF Wrap, Bigint

\* A result that fits is the exact one.
LEMMA WrapExact == ASSUME NEW n \in Bigint PROVE Wrap(n) = n
<1>1. n + MaxInt + 1 \in 0 .. 2 * (MaxInt + 1) - 1
  BY MaxIntAssumption DEF Bigint
<1>2. (n + MaxInt + 1) % (2 * (MaxInt + 1)) = n + MaxInt + 1
  BY <1>1, MaxIntAssumption
<1> QED
  BY <1>1, <1>2, MaxIntAssumption DEF Wrap, Bigint

\* An addition that wrapped can be added to as if it had not.
LEMMA WrapAdd ==
    ASSUME NEW m \in Int, NEW n \in Int PROVE Wrap(Wrap(m) + n) = Wrap(m + n)
<1> DEFINE w == 2 * (MaxInt + 1)
           u == m + MaxInt + 1
<1>1. w \in Nat /\ w > 0 /\ u \in Int /\ u % w \in Int
  BY MaxIntAssumption, DivMod
<1>2. ((u % w) + n) % w = (u + n) % w
  <2> HIDE DEF w, u
  <2> QED
    BY <1>1, ModAdd
<1>3. Wrap(m) + n + MaxInt + 1 = (u % w) + n /\ m + n + MaxInt + 1 = u + n
  BY <1>1, MaxIntAssumption DEF Wrap
<1> QED
  BY <1>2, <1>3 DEF Wrap

\* The largest of some indexes.
LEMMA MaxOfIndexes ==
    ASSUME NEW n, n \in Nat, NEW s \in SUBSET (1 .. n), s # {}
    PROVE  Max(s) \in s /\ \A y \in s : Max(s) >= y
<1> DEFINE Good == {t \in SUBSET (1 .. n) : t # {} => \E x \in t : \A y \in t : x >= y}
<1>1. ASSUME NEW t \in SUBSET (1 .. n), \A u \in SUBSET t : u # t => u \in Good
      PROVE  t \in Good
  <2> SUFFICES ASSUME NEW c \in t PROVE \E x \in t : \A y \in t : x >= y
    OBVIOUS
  <2>1. CASE t = {c}
    BY <2>1
  <2>2. CASE t # {c}
    <3>1. t \ {c} \in SUBSET t /\ t \ {c} # t /\ t \ {c} # {}
      BY <2>2
    <3>2. t \ {c} \in Good
      BY <1>1, <3>1
    <3>3. PICK x \in t \ {c} : \A y \in t \ {c} : x >= y
      BY <3>1, <3>2
    <3>4. x \in Int /\ c \in Int
      OBVIOUS
    <3>5. CASE x >= c
      <4>1. \A y \in t : x >= y
        BY <3>3, <3>5
      <4> QED
        BY <4>1
    <3>6. CASE c >= x
      <4>1. \A y \in t : c >= y
        BY <3>3, <3>4, <3>6
      <4> QED
        BY <4>1
    <3> QED
      BY <3>4, <3>5, <3>6
  <2> QED
    BY <2>1, <2>2
<1>2. \A t \in SUBSET (1 .. n) : t \in Good
  <2>1. IsFiniteSet(1 .. n)
    BY FS_Interval
  <2>2. \A t \in SUBSET (1 .. n) : (\A u \in SUBSET t : u # t => u \in Good) => t \in Good
    <3> HIDE DEF Good
    <3> QED
      BY <1>1
  <2> HIDE DEF Good
  <2> QED
    BY <2>1, <2>2, SubsetInduction, Zenon
<1>3. \E x \in s : \A y \in s : x >= y
  BY <1>2
<1> QED
  BY <1>3 DEF Max

\* How Go's loop goes on from a sum with one more entry.
GoAdd(sum, e, type) == IF e.type = type THEN Wrap(sum + e.amount) ELSE sum

GoUnfolds(es, type, g) ==
    g = [s \in SUBSET DOMAIN es |->
           IF s = {} THEN 0 ELSE GoAdd(g[s \ {Max(s)}], es[Max(s)], type)]

\* What the library's FoldLeft expands to, for Go's loop.
LEMMA GoSumChoice ==
    ASSUME NEW es, NEW type
    PROVE  GoSum(es, type) = (CHOOSE g : GoUnfolds(es, type, g))[DOMAIN es]
BY DEF GoSum, FoldLeft, MapThenFoldSet, GoUnfolds, GoAdd

\* A turn of the loop leaves an integer.
LEMMA GoAddType ==
    ASSUME NEW e \in Entry, NEW type, NEW n \in Int
    PROVE  e.amount \in Int /\ GoAdd(n, e, type) \in Int
<1>1. e.amount \in Int
  BY MaxIntAssumption DEF Entry, Bigint
<1>2. Wrap(n + e.amount) \in Int
  BY <1>1, WrapType, MaxIntAssumption DEF Bigint
<1> QED
  BY <1>1, <1>2 DEF GoAdd

\* The function that the fold chooses exists and satisfies its recursion.
LEMMA GoSumUnfolds ==
    ASSUME NEW es \in Seq(Entry), NEW type
    PROVE  \E g : GoUnfolds(es, type, g) /\ GoSum(es, type) = g[DOMAIN es]
<1>1. PICK S : S = DOMAIN es /\ S = 1 .. Len(es) /\ IsFiniteSet(S)
  BY FS_Interval
<1> DEFINE pick == [s \in SUBSET S |-> Max(s)]
           step == [i \in S |-> [v \in Int |-> GoAdd(v, es[i], type)]]
<1>2. \A s \in SUBSET S : s # {} => pick[s] \in s
  <2> SUFFICES ASSUME NEW s \in SUBSET S, s # {} PROVE Max(s) \in s
    OBVIOUS
  <2>1. Len(es) \in Nat /\ s \in SUBSET (1 .. Len(es))
    BY <1>1
  <2> QED
    BY <2>1, MaxOfIndexes
<1>3. step \in [S -> [Int -> Int]] /\ 0 \in Int
  BY <1>1, GoAddType
<1>4. \E g \in [SUBSET S -> Int] : Folds(g, S, 0, pick, step)
  <2> HIDE DEF pick, step
  <2> QED
    BY <1>1, <1>2, <1>3, FoldExists, Zenon
<1>5. PICK g \in [SUBSET S -> Int] : Folds(g, S, 0, pick, step)
  BY <1>4
<1>6. ASSUME NEW s \in SUBSET S
      PROVE  g[s] = IF s = {} THEN 0 ELSE GoAdd(g[s \ {Max(s)}], es[Max(s)], type)
  <2>1. CASE s = {}
    BY <1>5, <2>1 DEF Folds
  <2>2. CASE s # {}
    <3>1. PICK m \in s : m = Max(s)
      BY <1>2, <2>2
    <3>2. pick[s] = m /\ s \ {m} \in SUBSET S /\ g[s \ {m}] \in Int
      BY <1>5, <3>1
    <3>3. step[m][g[s \ {m}]] = GoAdd(g[s \ {m}], es[m], type)
      BY <3>2
    <3>4. g[s] = step[m][g[s \ {m}]]
      BY <1>5, <2>2, <3>2 DEF Folds
    <3> QED
      BY <2>2, <3>1, <3>3, <3>4
  <2> QED
    BY <2>1, <2>2
<1>7. GoUnfolds(es, type, g)
  BY <1>1, <1>5, <1>6 DEF GoUnfolds
<1>8. PICK h : h = (CHOOSE k : GoUnfolds(es, type, k)) /\ GoUnfolds(es, type, h)
  BY <1>7
<1>9. GoSum(es, type) = h[DOMAIN es]
  BY <1>8, GoSumChoice
<1> QED
  BY <1>8, <1>9

\* What entry e adds to the sum of one type.
Part(e, type) == IF e.type = type THEN e.amount ELSE 0

\* The exact sum is the sum of these parts.
LEMMA ExactSumOfParts ==
    ASSUME NEW es, NEW type
    PROVE  ExactSum(es, type) = SumFunction([i \in DOMAIN es |-> Part(es[i], type)])
BY DEF ExactSum, Part

\* One more entry adds its amount to the exact sum of its type.
LEMMA ExactSumNext ==
    ASSUME NEW es \in Seq(Entry), NEW i \in 1 .. Len(es), NEW type
    PROVE  /\ ExactSum(SubSeq(es, 1, i - 1), type) \in Int
           /\ ExactSum(SubSeq(es, 1, i), type)
                = ExactSum(SubSeq(es, 1, i - 1), type) + Part(es[i], type)
<1> DEFINE part(n) == SubSeq(es, 1, n)
           f(n) == [k \in 1 .. n |-> Part(es[k], type)]
<1>1. \A k \in 1 .. Len(es) : Part(es[k], type) \in Int
  <2>1. \A k \in 1 .. Len(es) : es[k] \in Entry
    OBVIOUS
  <2>2. \A e \in Entry : e.amount \in Int
    BY MaxIntAssumption DEF Entry, Bigint
  <2> QED
    BY <2>1, <2>2 DEF Part
<1>2. ASSUME NEW n \in 0 .. Len(es)
      PROVE  ExactSum(part(n), type) = SumFunction(f(n)) /\ f(n) \in [1 .. n -> Int]
  <2>1. DOMAIN part(n) = 1 .. n
    BY PrefixProperties
  <2>2. [k \in DOMAIN part(n) |-> Part(part(n)[k], type)] = f(n)
    BY <2>1, PrefixProperties
  <2>3. f(n) \in [1 .. n -> Int]
    BY <1>1
  <2> QED
    BY <2>2, <2>3, ExactSumOfParts
<1>3. i \in Nat \ {0} /\ i \in 0 .. Len(es) /\ i - 1 \in 0 .. Len(es)
  OBVIOUS
<1>4. \A k \in 1 .. i - 1 : f(i - 1)[k] = f(i)[k]
  OBVIOUS
<1>5. f(i) \in [1 .. i -> Int] /\ f(i - 1) \in [1 .. i - 1 -> Int]
  BY <1>2, <1>3
<1>6. SumFunction(f(i)) = SumFunction(f(i - 1)) + f(i)[i]
  <2> HIDE DEF f
  <2> QED
    BY <1>3, <1>4, <1>5, SumLast
<1>7. SumFunction(f(i - 1)) \in Int
  <2>1. IsFiniteSet(1 .. i - 1)
    BY FS_Interval
  <2> HIDE DEF f
  <2> QED
    BY <1>5, <2>1, SumType
<1> QED
  BY <1>2, <1>3, <1>6, <1>7

\* No entries sum to nothing.
LEMMA ExactSumNothing ==
    ASSUME NEW es \in Seq(Entry), NEW type
    PROVE  ExactSum(SubSeq(es, 1, 0), type) = 0
<1>1. DOMAIN SubSeq(es, 1, 0) = {}
  BY PrefixProperties
<1> QED
  BY <1>1, SumEmpty DEF ExactSum

\* Go's int64 loop computes the exact sum modulo 2^64: overflow anywhere in the
\* loop, even one that a later entry undoes, costs no more than that.
THEOREM GoSumWraps ==
    ASSUME NEW es \in Seq(Entry), NEW type
    PROVE  GoSum(es, type) = Wrap(ExactSum(es, type))
<1>1. PICK g : GoUnfolds(es, type, g) /\ GoSum(es, type) = g[DOMAIN es]
  BY GoSumUnfolds
<1> DEFINE exact(n) == ExactSum(SubSeq(es, 1, n), type)
           Good == {n \in Nat : n <= Len(es) => g[1 .. n] = Wrap(exact(n))}
<1>2. DOMAIN es = 1 .. Len(es) /\ Len(es) \in Nat
  OBVIOUS
<1>3. \A s \in SUBSET (1 .. Len(es)) :
         g[s] = IF s = {} THEN 0 ELSE GoAdd(g[s \ {Max(s)}], es[Max(s)], type)
  BY <1>1, <1>2 DEF GoUnfolds
<1>4. 0 \in Good
  <2>1. g[1 .. 0] = 0
    BY <1>3
  <2>2. Wrap(0) = 0
    BY WrapExact, MaxIntAssumption DEF Bigint
  <2> QED
    BY <2>1, <2>2, ExactSumNothing
<1>5. ASSUME NEW n \in Nat, n \in Good PROVE n + 1 \in Good
  <2> SUFFICES ASSUME n + 1 <= Len(es) PROVE g[1 .. n + 1] = Wrap(exact(n + 1))
    OBVIOUS
  <2>1. n + 1 \in 1 .. Len(es) /\ (n + 1) - 1 = n /\ es[n + 1] \in Entry
    OBVIOUS
  <2>2. g[1 .. n] = Wrap(exact(n))
    BY <1>5
  <2>3. exact(n) \in Int /\ exact(n + 1) = exact(n) + Part(es[n + 1], type)
    BY <2>1, ExactSumNext
  <2>4. Max(1 .. n + 1) = n + 1
    <3>1. n + 1 \in Nat /\ 1 .. n + 1 \in SUBSET (1 .. n + 1) /\ n + 1 \in 1 .. n + 1
      OBVIOUS
    <3>2. /\ Max(1 .. n + 1) \in 1 .. n + 1
          /\ \A y \in 1 .. n + 1 : Max(1 .. n + 1) >= y
      BY <3>1, MaxOfIndexes
    <3> QED
      BY <3>1, <3>2
  <2>5. g[1 .. n + 1] = GoAdd(Wrap(exact(n)), es[n + 1], type)
    <3>1. PICK m \in Nat \ {0} : m = n + 1
      OBVIOUS
    <3>2. (1 .. m) \ {m} = 1 .. m - 1 /\ m \in 1 .. m
      BY ONLY <3>1
    <3>3. 1 .. m \in SUBSET (1 .. Len(es)) /\ m - 1 = n
      BY <2>1, <3>1
    <3> QED
      BY <1>3, <2>2, <2>4, <3>1, <3>2, <3>3
  <2>6. es[n + 1].amount \in Int
    BY <2>1, MaxIntAssumption DEF Entry, Bigint
  <2> HIDE DEF exact
  <2>7. GoAdd(Wrap(exact(n)), es[n + 1], type) = Wrap(exact(n) + Part(es[n + 1], type))
    <3>1. CASE es[n + 1].type = type
      BY <2>3, <2>6, <3>1, WrapAdd DEF GoAdd, Part
    <3>2. CASE es[n + 1].type # type
      BY <2>3, <3>2 DEF GoAdd, Part
    <3> QED
      BY <3>1, <3>2
  <2> QED
    BY <2>3, <2>5, <2>7
<1>6. Len(es) \in Good
  <2> HIDE DEF Good
  <2> QED
    BY <1>2, <1>4, <1>5, NatInduct
<1>7. g[1 .. Len(es)] = Wrap(exact(Len(es)))
  BY <1>2, <1>6
<1>8. SubSeq(es, 1, Len(es)) = es
  OBVIOUS
<1> QED
  BY <1>1, <1>2, <1>7, <1>8

\* So as long as the exact sum is an int64, Go computes it.
THEOREM GoSumExact ==
    ASSUME NEW es \in Seq(Entry), NEW type, ExactSum(es, type) \in Bigint
    PROVE  GoSum(es, type) = ExactSum(es, type)
BY GoSumWraps, WrapExact
=============================================================================
