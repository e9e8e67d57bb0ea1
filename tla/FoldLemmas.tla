----------------------------- MODULE FoldLemmas -----------------------------
(***************************************************************************)
(* Induction, and the folds of the community modules, in a form the proofs *)
(* of this project can cite: what would be a predicate or an operator is a *)
(* set or a function.  MapThenFoldSet is a recursive function on the       *)
(* subsets of a finite domain, which picks an element of each; the lemmas  *)
(* say when there is such a function, what type it has, and that a sum     *)
(* does not depend on the picks.  Last, the ranks of an ordered set.       *)
(***************************************************************************)
EXTENDS Integers, FiniteSetsExt, FiniteSetTheorems, WellFoundedInduction, TLAPS

-----------------------------------------------------------------------------
(* Induction.                                                              *)

\* Every set of natural numbers has a smallest element.
LEMMA Smallest ==
  ASSUME NEW T \in SUBSET Nat, T # {}
  PROVE  \E x \in T : \A y \in T : x <= y
<1> DEFINE R == {p \in Nat \X Nat : p[1] < p[2]}
<1>1. IsWellFoundedOn(R, Nat)
  BY NatLessThanWellFounded DEF OpToRel
<1> HIDE DEF R
<1>2. PICK x \in T : \A y \in T : << y, x >> \notin R
  BY <1>1, WFMin
<1>3. \A y \in T : ~(y < x)
  BY <1>2 DEF R
<1> QED BY <1>3

\* A set of numbers below a bound has a largest element.
LEMMA Largest ==
  ASSUME NEW n \in Nat, NEW T \in SUBSET (0 .. n), T # {}
  PROVE  \E x \in T : \A y \in T : x >= y
<1> DEFINE U == {i \in 0 .. n : n - i \in T}
<1>1. PICK t \in T : TRUE
  OBVIOUS
<1>2. n - t \in U
  BY <1>1
<1>0. U \in SUBSET Nat
  OBVIOUS
<1> HIDE DEF U
<1>3. PICK u \in U : \A v \in U : u <= v
  BY <1>0, <1>2, Smallest
<1> USE DEF U
<1>4. \A y \in T : n - y \in U
  OBVIOUS
<1>5. \A y \in T : u <= n - y
  BY <1>3, <1>4
<1>6. n - u \in T
  BY <1>3
<1>7. n - u \in Int /\ u \in Int
  BY <1>3
<1>8. ASSUME NEW y \in T PROVE n - u >= y
  BY <1>5, <1>7, y \in Int
<1> QED BY <1>6, <1>8

\* Induction over the natural numbers.
LEMMA Induction ==
  ASSUME NEW S, 0 \in S, \A n \in Nat : n \in S => n + 1 \in S
  PROVE  Nat \subseteq S
<1> SUFFICES ASSUME Nat \ S # {} PROVE FALSE
  OBVIOUS
<1>1. PICK x \in Nat \ S : \A y \in Nat \ S : x <= y
  BY Smallest
<1>2. x # 0 /\ x - 1 \in Nat
  BY <1>1
<1>3. x - 1 \in S
  BY <1>1, <1>2
<1>4. (x - 1) + 1 \in S
  BY <1>2, <1>3
<1> QED BY <1>1, <1>4

\* Induction over the subsets of a finite set.
LEMMA SubsetInduction ==
  ASSUME NEW D, IsFiniteSet(D), NEW G, {} \in G,
         \A q \in SUBSET D : q # {} /\ (\A x \in q : q \ {x} \in G) => q \in G
  PROVE  SUBSET D \subseteq G
<1> DEFINE S == {n \in Nat : \A q \in SUBSET D : Cardinality(q) = n => q \in G}
<1>1. \A q \in SUBSET D : /\ IsFiniteSet(q) /\ Cardinality(q) \in Nat
                          /\ Cardinality(q) = 0 => q = {}
  BY FS_Subset, FS_CardinalityType, FS_EmptySet
<1>2. 0 \in S
  BY <1>1
<1>3. ASSUME NEW n \in Nat, n \in S
      PROVE  n + 1 \in S
  <2> SUFFICES ASSUME NEW q \in SUBSET D, Cardinality(q) = n + 1
               PROVE  q \in G
    OBVIOUS
  <2>1. q # {}
    <3>1. Cardinality({}) = 0
      BY FS_EmptySet
    <3> QED BY <3>1
  <2>2. ASSUME NEW x \in q PROVE q \ {x} \in G
    <3>1. Cardinality(q \ {x}) = Cardinality(q) - 1
      BY <1>1, FS_RemoveElement
    <3>2. Cardinality(q \ {x}) = n
      BY <3>1
    <3>3. q \ {x} \in SUBSET D
      OBVIOUS
    <3> QED BY <1>3, <3>2, <3>3
  <2> QED BY <2>1, <2>2
<1> HIDE DEF S
<1>4. Nat \subseteq S
  BY <1>2, <1>3, Induction
<1> QED BY <1>1, <1>4 DEF S

-----------------------------------------------------------------------------
(* Folds.                                                                  *)

\* h folds step over the subsets of D, an element that pick chooses at a time.
IsFold(h, D, base, pick, step) ==
  \A q \in SUBSET D :
    h[q] = IF q = {} THEN base ELSE step[<< pick[q], h[q \ {pick[q]}] >>]

\* The recursion of a fold has a solution.
LEMMA FoldExists ==
  ASSUME NEW D, IsFiniteSet(D), NEW V, NEW base \in V,
         NEW pick \in [(SUBSET D) \ {{}} -> D],
         \A q \in (SUBSET D) \ {{}} : pick[q] \in q,
         NEW step \in [D \X V -> V]
  PROVE  \E h \in [SUBSET D -> V] : IsFold(h, D, base, pick, step)
<1> DEFINE Solves(h, q) ==
             h[q] = IF q = {} THEN base ELSE step[<< pick[q], h[q \ {pick[q]}] >>]
           S == {n \in Nat : \E h \in [SUBSET D -> V] :
                               \A q \in SUBSET D : Cardinality(q) <= n => Solves(h, q)}
<1>1. \A q \in SUBSET D : /\ IsFiniteSet(q) /\ Cardinality(q) \in Nat
                          /\ Cardinality(q) = 0 => q = {}
                          /\ Cardinality(q) <= Cardinality(D)
  BY FS_Subset, FS_CardinalityType, FS_EmptySet
<1>2. 0 \in S
  <2> DEFINE h == [q \in SUBSET D |-> base]
  <2>1. h \in [SUBSET D -> V]
    OBVIOUS
  <2>2. ASSUME NEW q \in SUBSET D, Cardinality(q) <= 0
        PROVE  Solves(h, q)
    <3>1. q = {}
      BY <1>1, <2>2
    <3> QED BY <3>1
  <2> HIDE DEF h, Solves
  <2> QED BY <2>1, <2>2
<1>3. ASSUME NEW n \in Nat, n \in S
      PROVE  n + 1 \in S
  <2>1. PICK h \in [SUBSET D -> V] :
          \A q \in SUBSET D : Cardinality(q) <= n => Solves(h, q)
    BY <1>3
  <2> DEFINE g == [q \in SUBSET D |->
                     IF q = {} THEN base ELSE step[<< pick[q], h[q \ {pick[q]}] >>]]
  <2>2. \A q \in SUBSET D : q # {} => << pick[q], h[q \ {pick[q]}] >> \in D \X V
    OBVIOUS
  <2>3. g \in [SUBSET D -> V]
    BY <2>2
  <2>4. \A q \in SUBSET D : Cardinality(q) <= n => g[q] = h[q]
    BY <2>1
  <2>5. ASSUME NEW q \in SUBSET D, Cardinality(q) <= n + 1
        PROVE  Solves(g, q)
    <3>1. CASE q = {}
      BY <3>1
    <3>2. CASE q # {}
      <4>0. pick[q] \in q /\ IsFiniteSet(q) /\ Cardinality(q) \in Nat
        BY <1>1, <3>2
      <4>2. ASSUME NEW x \in q PROVE Cardinality(q \ {x}) = Cardinality(q) - 1
        BY <4>0, FS_RemoveElement
      <4>3. Cardinality(q \ {pick[q]}) = Cardinality(q) - 1
        BY <4>0, <4>2
      <4>1. q \ {pick[q]} \in SUBSET D /\ Cardinality(q \ {pick[q]}) <= n
        BY <2>5, <4>0, <4>3
      <4>4. g[q \ {pick[q]}] = h[q \ {pick[q]}]
        BY <2>4, <4>1
      <4> QED BY <3>2, <4>4
    <3> QED BY <3>1, <3>2
  <2> HIDE DEF g, Solves
  <2> QED BY <2>3, <2>5
<1>4. Cardinality(D) \in S
  <2> HIDE DEF S
  <2>1. Nat \subseteq S
    BY <1>2, <1>3, Induction
  <2> QED BY <2>1, FS_CardinalityType
<1>5. PICK h \in [SUBSET D -> V] :
        \A q \in SUBSET D : Cardinality(q) <= Cardinality(D) => Solves(h, q)
  BY <1>4
<1> QED BY <1>1, <1>5 DEF IsFold

\* h sums f over the subsets of D.
IsSum(h, D, f, pick) ==
  \A q \in SUBSET D :
    h[q] = IF q = {} THEN 0 ELSE f[pick[q]] + h[q \ {pick[q]}]

LEMMA SumExists ==
  ASSUME NEW D, IsFiniteSet(D),
         NEW pick \in [(SUBSET D) \ {{}} -> D],
         \A q \in (SUBSET D) \ {{}} : pick[q] \in q,
         NEW f \in [D -> Int]
  PROVE  \E h \in [SUBSET D -> Int] : IsSum(h, D, f, pick)
<1> DEFINE V == Int
           base == 0
           step == [p \in D \X V |-> f[p[1]] + p[2]]
<1>1. step \in [D \X V -> V]
  OBVIOUS
<1>2. base \in V
  OBVIOUS
<1>3. \A x \in D : \A v \in V : step[<< x, v >>] = f[x] + v
  OBVIOUS
<1> HIDE DEF step, V, base
<1>4. PICK h \in [SUBSET D -> V] : IsFold(h, D, base, pick, step)
  BY <1>1, <1>2, FoldExists
<1>5. ASSUME NEW q \in SUBSET D
      PROVE  h[q] = IF q = {} THEN 0 ELSE f[pick[q]] + h[q \ {pick[q]}]
  <2>1. CASE q = {}
    <3>1. h[q] = base
      BY <1>4, <2>1 DEF IsFold
    <3> QED BY <2>1, <3>1 DEF base
  <2>2. CASE q # {}
    <3>1. h[q] = step[<< pick[q], h[q \ {pick[q]}] >>]
      BY <1>4, <2>2 DEF IsFold
    <3>2. pick[q] \in D /\ h[q \ {pick[q]}] \in V
      BY <2>2
    <3>3. h[q] = f[pick[q]] + h[q \ {pick[q]}]
      BY <1>3, <3>1, <3>2
    <3> QED BY <2>2, <3>3
  <2> QED BY <2>1, <2>2
<1>6. h \in [SUBSET D -> Int]
  BY DEF V
<1> QED BY <1>5, <1>6 DEF IsSum

\* A solution keeps the type that a step keeps.
LEMMA FoldType ==
  ASSUME NEW D, IsFiniteSet(D), NEW V, NEW it, it[{}] \in V,
         \A q \in SUBSET D : q # {} =>
           \E x \in q : it[q \ {x}] \in V => it[q] \in V
  PROVE  \A q \in SUBSET D : it[q] \in V
<1> DEFINE G == {q \in SUBSET D : it[q] \in V}
<1>1. {} \in G
  OBVIOUS
<1>2. ASSUME NEW q \in SUBSET D, q # {}, \A x \in q : q \ {x} \in G
      PROVE  q \in G
  BY <1>2
<1> HIDE DEF G
<1>3. SUBSET D \subseteq G
  BY <1>1, <1>2, SubsetInduction
<1> QED BY <1>3 DEF G

\* Two folds that agree at the start and in every step.
AgreeStepwise(it, other, D) ==
  /\ it[{}] = other[{}]
  /\ \A q \in SUBSET D : q # {} =>
       \E x \in q : it[q \ {x}] = other[q \ {x}] => it[q] = other[q]

\* Two solutions of one recursion agree.
LEMMA FoldUnique ==
  ASSUME NEW D, IsFiniteSet(D), NEW it, NEW other, AgreeStepwise(it, other, D)
  PROVE  \A q \in SUBSET D : it[q] = other[q]
<1> DEFINE G == {q \in SUBSET D : it[q] = other[q]}
<1>1. {} \in G
  BY DEF AgreeStepwise
<1>2. ASSUME NEW q \in SUBSET D, q # {}, \A x \in q : q \ {x} \in G
      PROVE  q \in G
  BY <1>2 DEF AgreeStepwise
<1> HIDE DEF G
<1>3. SUBSET D \subseteq G
  BY <1>1, <1>2, SubsetInduction
<1> QED BY <1>3 DEF G

\* it takes out some element of each set first.
TakesOut(it, f, D) ==
  \A q \in SUBSET D : q # {} => \E x \in q : it[q] = f[x] + it[q \ {x}]

\* it takes out any element of each set first.
TakesOutAny(it, f, D) ==
  \A q \in SUBSET D : \A y \in q : it[q] = f[y] + it[q \ {y}]

\* A sum may take out any element first.
LEMMA SumRemoves ==
  ASSUME NEW D, IsFiniteSet(D), NEW f \in [D -> Int], NEW it \in [SUBSET D -> Int],
         TakesOut(it, f, D)
  PROVE  TakesOutAny(it, f, D)
<1> DEFINE G == {q \in SUBSET D : \A y \in q : it[q] = f[y] + it[q \ {y}]}
<1>1. {} \in G
  OBVIOUS
<1>2. ASSUME NEW q \in SUBSET D, q # {}, \A x \in q : q \ {x} \in G
      PROVE  q \in G
  <2> SUFFICES ASSUME NEW y \in q PROVE it[q] = f[y] + it[q \ {y}]
    BY <1>2
  <2>1. PICK x \in q : it[q] = f[x] + it[q \ {x}]
    BY <1>2 DEF TakesOut
  <2>2. CASE x = y
    BY <2>1, <2>2
  <2>3. CASE x # y
    <3>1. q \ {x} \in G /\ q \ {y} \in G
      BY <1>2
    <3>2. it[q \ {x}] = f[y] + it[(q \ {x}) \ {y}]
      BY <2>3, <3>1
    <3>3. it[q \ {y}] = f[x] + it[(q \ {y}) \ {x}]
      BY <2>3, <3>1
    <3>4. (q \ {x}) \ {y} = (q \ {y}) \ {x}
      OBVIOUS
    <3>5. f[x] \in Int /\ f[y] \in Int /\ it[(q \ {x}) \ {y}] \in Int
      OBVIOUS
    <3>6. it[q] = f[x] + (f[y] + it[(q \ {x}) \ {y}])
      BY <2>1, <3>2
    <3>7. it[q \ {y}] = f[x] + it[(q \ {x}) \ {y}]
      BY <3>3, <3>4
    <3> HIDE DEF G
    <3> QED BY <3>5, <3>6, <3>7
  <2> QED BY <2>2, <2>3
<1> HIDE DEF G
<1>3. SUBSET D \subseteq G
  BY <1>1, <1>2, SubsetInduction
<1> QED BY <1>3 DEF G, TakesOutAny

-----------------------------------------------------------------------------
(* Folds from the left, which pick the largest index last.                 *)

\* The index a fold from the left picks.
LEMMA MaxIndex ==
  ASSUME NEW n \in Nat
  PROVE  /\ \A q \in SUBSET (1 .. n) : q # {} => Max(q) \in q
         /\ \A i \in 1 .. n : Max(1 .. i) = i
<1>1. ASSUME NEW q \in SUBSET (1 .. n), q # {} PROVE Max(q) \in q
  <2>1. q \in SUBSET (0 .. n)
    OBVIOUS
  <2>2. \E x \in q : \A y \in q : x >= y
    BY <1>1, <2>1, Largest
  <2> QED BY <2>2 DEF Max
<1>2. ASSUME NEW i \in 1 .. n PROVE Max(1 .. i) = i
  <2>1. i \in 1 .. i /\ \A y \in 1 .. i : i >= y
    OBVIOUS
  <2>2. ASSUME NEW x \in 1 .. i, \A y \in 1 .. i : x >= y PROVE x = i
    BY <2>1, <2>2
  <2> QED BY <2>1, <2>2 DEF Max
<1> QED BY <1>1, <1>2

\* h folds step over the indices 1 .. n of s, the largest of them last.
IsFoldLeft(h, n, base, s, step) ==
  \A q \in SUBSET (1 .. n) :
    h[q] = IF q = {} THEN base ELSE step[<< h[q \ {Max(q)}], s[Max(q)] >>]

\* The recursion of a fold from the left has a solution.
LEMMA FoldLeftExists ==
  ASSUME NEW n \in Nat, NEW E, NEW V, NEW s \in [1 .. n -> E], NEW base \in V,
         NEW step \in [V \X E -> V]
  PROVE  \E h \in [SUBSET (1 .. n) -> V] : IsFoldLeft(h, n, base, s, step)
<1> DEFINE D == 1 .. n
           pick == [q \in (SUBSET D) \ {{}} |-> Max(q)]
           turn == [p \in D \X V |-> step[<< p[2], s[p[1]] >>]]
<1>1. IsFiniteSet(D)
  BY FS_Interval
<1>7. \A q \in SUBSET D : q # {} => Max(q) \in q
  BY MaxIndex
<1>8. \A q \in (SUBSET D) \ {{}} : pick[q] = Max(q)
  OBVIOUS
<1>2. \A q \in (SUBSET D) \ {{}} : pick[q] \in q
  BY <1>7
<1>9. pick \in [(SUBSET D) \ {{}} -> D]
  BY <1>7
<1>3. turn \in [D \X V -> V]
  OBVIOUS
<1>4. \A i \in D : \A v \in V : turn[<< i, v >>] = step[<< v, s[i] >>]
  OBVIOUS
<1> HIDE DEF D, pick, turn
<1>5. PICK h \in [SUBSET D -> V] : IsFold(h, D, base, pick, turn)
  BY <1>1, <1>2, <1>3, <1>9, FoldExists
<1>6. ASSUME NEW q \in SUBSET D
      PROVE  h[q] = IF q = {} THEN base ELSE step[<< h[q \ {Max(q)}], s[Max(q)] >>]
  <2>1. CASE q = {}
    BY <1>5, <2>1 DEF IsFold
  <2>2. CASE q # {}
    <3>1. pick[q] = Max(q) /\ Max(q) \in D
      BY <1>7, <1>8, <2>2
    <3>2. h[q \ {Max(q)}] \in V
      BY <1>5
    <3>3. h[q] = turn[<< Max(q), h[q \ {Max(q)}] >>]
      BY <1>5, <2>2, <3>1 DEF IsFold
    <3> QED BY <1>4, <2>2, <3>1, <3>2, <3>3
  <2> QED BY <2>1, <2>2
<1> QED BY <1>5, <1>6 DEF D, IsFoldLeft

\* run steps through s, one element at a time, to the value of the fold h.
IsRun(run, n, base, s, step, h) ==
  /\ run[0] = base /\ run[n] = h[1 .. n]
  /\ \A i \in 1 .. n : run[i] = step[<< run[i - 1], s[i] >>]

\* A solution, read on the prefixes of the sequence, is such a run.
LEMMA FoldLeftRuns ==
  ASSUME NEW n \in Nat, NEW E, NEW V, NEW s \in [1 .. n -> E], NEW base \in V,
         NEW step \in [V \X E -> V], NEW it, IsFoldLeft(it, n, base, s, step)
  PROVE  \E run \in [0 .. n -> V] :
           IsRun(run, n, base, s, step, it)
<1> DEFINE run == [i \in 0 .. n |-> it[1 .. i]]
           S == {i \in Nat : i <= n => run[i] \in V}
<1>1. run[0] = base
  <2>1. 1 .. 0 = {} /\ {} \in SUBSET (1 .. n)
    OBVIOUS
  <2>2. it[{}] = base
    BY <2>1 DEF IsFoldLeft
  <2>3. run[0] = it[1 .. 0]
    OBVIOUS
  <2> QED BY <2>1, <2>2, <2>3
<1>2. ASSUME NEW i \in 1 .. n PROVE run[i] = step[<< run[i - 1], s[i] >>]
  <2>6. (1 .. i) \ {i} = 1 .. (i - 1) /\ i \in 1 .. i
    OBVIOUS
  <2>7. Max(1 .. i) = i
    BY MaxIndex
  <2>1. Max(1 .. i) = i /\ (1 .. i) \ {i} = 1 .. (i - 1) /\ 1 .. i # {}
    BY <2>6, <2>7
  <2>2. 1 .. i \in SUBSET (1 .. n)
    OBVIOUS
  <2>3. it[1 .. i] = step[<< it[(1 .. i) \ {Max(1 .. i)}], s[Max(1 .. i)] >>]
    BY <2>1, <2>2 DEF IsFoldLeft
  <2>4. it[1 .. i] = step[<< it[1 .. (i - 1)], s[i] >>]
    BY <2>1, <2>3
  <2>5. i \in 0 .. n /\ i - 1 \in 0 .. n
    OBVIOUS
  <2> QED BY <2>4, <2>5
<1> HIDE DEF run
<1>3. 0 \in S
  BY <1>1
<1>4. ASSUME NEW i \in Nat, i \in S PROVE i + 1 \in S
  <2> SUFFICES ASSUME i + 1 <= n PROVE run[i + 1] \in V
    OBVIOUS
  <2>1. run[i] \in V /\ i + 1 \in 1 .. n /\ (i + 1) - 1 = i
    BY <1>4
  <2>2. run[i + 1] = step[<< run[i], s[i + 1] >>]
    BY <1>2, <2>1
  <2>3. s[i + 1] \in E
    BY <2>1
  <2> QED BY <2>1, <2>2, <2>3
<1> HIDE DEF S
<1>5. Nat \subseteq S
  BY <1>3, <1>4, Induction
<1>8. \A i \in 0 .. n : run[i] \in V
  BY <1>5 DEF S
<1>9. run = [i \in 0 .. n |-> run[i]]
  BY DEF run
<1>6. run \in [0 .. n -> V]
  BY <1>8, <1>9
<1>7. run[n] = it[1 .. n]
  BY DEF run
<1>10. IsRun(run, n, base, s, step, it)
  BY <1>1, <1>2, <1>7 DEF IsRun
<1> QED BY <1>6, <1>10

\* run applies step again and again.
IsIteration(run, n, base, step) ==
  /\ run[0] = base
  /\ \A i \in 1 .. n : run[i] = step[run[i - 1]]

LEMMA IterationExists ==
  ASSUME NEW n \in Nat, NEW V, NEW base \in V, NEW step \in [V -> V]
  PROVE  \E run \in [0 .. n -> V] : IsIteration(run, n, base, step)
<1> DEFINE S == {k \in Nat : \E run \in [0 .. k -> V] : IsIteration(run, k, base, step)}
<1>1. 0 \in S
  <2> DEFINE run == [i \in 0 .. 0 |-> base]
  <2>1. run \in [0 .. 0 -> V] /\ run[0] = base
    OBVIOUS
  <2> HIDE DEF run
  <2>2. IsIteration(run, 0, base, step)
    BY <2>1 DEF IsIteration
  <2> QED BY <2>1, <2>2
<1>2. ASSUME NEW k \in Nat, k \in S PROVE k + 1 \in S
  <2>1. PICK run \in [0 .. k -> V] : IsIteration(run, k, base, step)
    BY <1>2
  <2> DEFINE longer == [i \in 0 .. (k + 1) |-> IF i <= k THEN run[i] ELSE step[run[k]]]
  <2>2. \A i \in 0 .. k : longer[i] = run[i] /\ run[i] \in V
    OBVIOUS
  <2>3. longer[k + 1] = step[run[k]] /\ run[k] \in V
    OBVIOUS
  <2>4. longer \in [0 .. (k + 1) -> V]
    <3>1. ASSUME NEW i \in 0 .. (k + 1)
          PROVE  (IF i <= k THEN run[i] ELSE step[run[k]]) \in V
      <4>1. CASE i <= k
        BY <2>2, <4>1
      <4>2. CASE ~(i <= k)
        BY <2>3, <4>2
      <4> QED BY <4>1, <4>2
    <3> QED BY <3>1
  <2> HIDE DEF longer
  <2>5. ASSUME NEW i \in 1 .. (k + 1) PROVE longer[i] = step[longer[i - 1]]
    <3>1. CASE i <= k
      <4>1. i \in 1 .. k /\ i \in 0 .. k /\ i - 1 \in 0 .. k
        BY <3>1
      <4> QED BY <2>1, <2>2, <4>1 DEF IsIteration
    <3>2. CASE i = k + 1
      <4>1. i - 1 = k /\ k \in 0 .. k
        BY <3>2
      <4> QED BY <2>2, <2>3, <3>2, <4>1
    <3> QED BY <3>1, <3>2
  <2>6. longer[0] = base
    BY <2>1, <2>2 DEF IsIteration
  <2>7. IsIteration(longer, k + 1, base, step)
    BY <2>5, <2>6 DEF IsIteration
  <2> QED BY <2>4, <2>7
<1> HIDE DEF S
<1>3. n \in S
  BY <1>1, <1>2, Induction
<1> QED BY <1>3 DEF S

-----------------------------------------------------------------------------
(* Ranks in a finite set.                                                  *)

IsOrder(R, S) ==
  /\ \A x, y, z \in S : << x, y >> \in R /\ << y, z >> \in R => << x, z >> \in R
  /\ \A x \in S : << x, x >> \notin R
  /\ \A x, y \in S : x # y => << x, y >> \in R \/ << y, x >> \in R

Below(R, S, x) == { y \in S : << y, x >> \in R }

\* In a finite ordered set of n elements every rank below n is somebody's,
\* and ranks are in the order of their owners.
LEMMA Ranks ==
  ASSUME NEW S, IsFiniteSet(S), NEW R, IsOrder(R, S)
  PROVE  /\ \A x \in S : Cardinality(Below(R, S, x)) \in 0 .. Cardinality(S) - 1
         /\ \A x, y \in S : Cardinality(Below(R, S, x)) < Cardinality(Below(R, S, y))
                              <=> << x, y >> \in R
         /\ \A k \in 0 .. Cardinality(S) - 1 : \E x \in S : Cardinality(Below(R, S, x)) = k
<1> DEFINE n == Cardinality(S)
           rank(x) == Cardinality(Below(R, S, x))
<1>1. n \in Nat
  BY FS_CardinalityType
<1>2. ASSUME NEW x \in S
      PROVE  /\ IsFiniteSet(Below(R, S, x)) /\ rank(x) \in Nat /\ rank(x) \in 0 .. n - 1
  <2>1. Below(R, S, x) \in SUBSET (S \ {x})
    BY DEF Below, IsOrder
  <2>2. IsFiniteSet(S \ {x}) /\ Cardinality(S \ {x}) = n - 1
    BY FS_RemoveElement
  <2>3. IsFiniteSet(Below(R, S, x)) /\ rank(x) <= n - 1
    BY <2>1, <2>2, FS_Subset
  <2>4. rank(x) \in Nat
    BY <2>3, FS_CardinalityType
  <2> QED BY <1>1, <2>3, <2>4
<1>3. ASSUME NEW x \in S, NEW y \in S, << x, y >> \in R PROVE rank(x) < rank(y)
  <2>1. Below(R, S, x) \cup {x} \in SUBSET Below(R, S, y) /\ x \notin Below(R, S, x)
    BY <1>3 DEF Below, IsOrder
  <2>2. /\ IsFiniteSet(Below(R, S, x)) /\ IsFiniteSet(Below(R, S, y))
        /\ rank(x) \in Nat /\ rank(y) \in Nat
    BY <1>2
  <2>3. Cardinality(Below(R, S, x) \cup {x}) = rank(x) + 1
    BY <2>1, <2>2, FS_AddElement
  <2>4. Cardinality(Below(R, S, x) \cup {x}) <= rank(y)
    BY <2>1, <2>2, FS_Subset
  <2> QED BY <2>2, <2>3, <2>4
<1>4. \A x \in S : rank(x) \in Nat /\ rank(x) \in 0 .. n - 1
  BY <1>2
<1>5. \A x, y \in S : << x, y >> \in R => rank(x) < rank(y)
  BY <1>3
<1> HIDE DEF rank, n
<1>6. ASSUME NEW x \in S, NEW y \in S PROVE rank(x) < rank(y) <=> << x, y >> \in R
  <2>1. CASE x = y
    BY <1>4, <2>1 DEF IsOrder
  <2>2. CASE << y, x >> \in R
    BY <1>4, <1>5, <2>2 DEF IsOrder
  <2>3. CASE << x, y >> \in R
    BY <1>5, <2>3
  <2> QED BY <2>1, <2>2, <2>3 DEF IsOrder
<1>7. \A k \in 0 .. n - 1 : \E x \in S : rank(x) = k
  <2> DEFINE T == 0 .. n - 1
             f == [x \in S |-> rank(x)]
  <2>1. \A x, y \in S : rank(x) = rank(y) => x = y
    <3> SUFFICES ASSUME NEW x \in S, NEW y \in S, rank(x) = rank(y), x # y PROVE FALSE
      OBVIOUS
    <3>1. << x, y >> \in R \/ << y, x >> \in R
      BY DEF IsOrder
    <3> QED BY <1>4, <1>5, <3>1
  <2>2. f \in [S -> T]
    BY <1>4
  <2>3. f \in Injection(S, T)
    BY <2>1, <2>2 DEF Injection, IsInjective
  <2>4. IsFiniteSet(T) /\ Cardinality(T) = n
    <3>1. 0 \in Int /\ n - 1 \in Int
      BY <1>1
    <3>2. IsFiniteSet(T) /\ Cardinality(T) = IF 0 > n - 1 THEN 0 ELSE n - 1 - 0 + 1
      BY <3>1, FS_Interval
    <3> QED BY <1>1, <3>2
  <2> HIDE DEF f, T
  <2>5. f \in Surjection(S, T)
    BY <2>3, <2>4, FS_Injection DEF n
  <2>6. \A k \in T : \E x \in S : f[x] = k
    BY <2>5 DEF Surjection
  <2> QED BY <2>6 DEF f, T
<1> QED BY <1>4, <1>6, <1>7 DEF rank, n
=============================================================================
