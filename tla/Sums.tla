-------------------------------- MODULE Sums --------------------------------
(***************************************************************************)
(* What the proofs need of MapThenSumSet over a finite set: what it is     *)
(* with and without one element, and that it depends on the values of the  *)
(* elements only.  Weights are functions: the terms a sum adds.            *)
(***************************************************************************)
EXTENDS Integers, FiniteSetsExt, FiniteSetTheorems, TLAPS

(* The sum of w over S. *)
Total(w, S) == MapThenSumSet(LAMBDA x : w[x], S)

(* The element that the definition of MapThenSumSet takes out first. *)
Pick(S) == CHOOSE x \in S : TRUE

(* g gives every subset of S its total, one element after the other. *)
Totals(g, w, S) ==
    g = [T \in SUBSET S |-> IF T = {} THEN 0 ELSE w[Pick(T)] + g[T \ {Pick(T)}]]

LEMMA PickIn == ASSUME NEW S, S # {} PROVE Pick(S) \in S
BY DEF Pick

(* Induction over the subsets of a finite set, with a set for the predicate. *)
LEMMA SubsetInduction ==
    ASSUME NEW S, IsFiniteSet(S), NEW Good,
           \A T \in SUBSET S : (\A R \in SUBSET T : R # T => R \in Good) => T \in Good
    PROVE  \A T \in SUBSET S : T \in Good
<1> DEFINE Bad == (SUBSET S) \ Good
<1>1. IsWellFoundedOn(StrictSubsetOrdering(S), SUBSET S)
  BY FS_StrictSubsetOrderingWellFounded, FS_FiniteSubsetsOfFinite
<1>2. SUFFICES ASSUME Bad # {} PROVE FALSE
  OBVIOUS
<1>3. PICK T \in Bad : \A R \in Bad : ~ (<<R, T>> \in StrictSubsetOrdering(S))
  <2> HIDE DEF Bad
  <2>1. Bad \subseteq SUBSET S
    BY DEF Bad
  <2> QED
    BY <1>1, <1>2, <2>1, WFMin
<1>4. ASSUME NEW R \in SUBSET T, R # T PROVE R \in Good
  <2>1. R \in SUBSET S /\ <<R, T>> \in StrictSubsetOrdering(S)
    BY <1>3, <1>4 DEF StrictSubsetOrdering
  <2> QED
    BY <1>3, <2>1
<1> QED
  BY <1>3, <1>4

(* Equal weights have equal totals: what one function of totals gives a set  *)
(* another one gives it too.                                                *)
LEMMA TotalsAgree ==
    ASSUME NEW S, IsFiniteSet(S), NEW w, NEW v, \A x \in S : w[x] = v[x],
           NEW A, NEW B, NEW g, NEW h, Totals(g, w, A), Totals(h, v, B),
           S \subseteq A, S \subseteq B
    PROVE  g[S] = h[S]
<1> DEFINE Good == {T \in SUBSET S : g[T] = h[T]}
<1>1. ASSUME NEW T \in SUBSET S, \A R \in SUBSET T : R # T => R \in Good PROVE T \in Good
  <2>1. CASE T = {}
    BY <2>1 DEF Totals
  <2>2. CASE T # {}
    <3>1. Pick(T) \in T
      BY <2>2, PickIn
    <3>2. T \ {Pick(T)} \in Good
      BY <1>1, <3>1
    <3>3. /\ g[T] = w[Pick(T)] + g[T \ {Pick(T)}]
          /\ h[T] = v[Pick(T)] + h[T \ {Pick(T)}]
      BY <2>2, T \in SUBSET A, T \in SUBSET B DEF Totals
    <3> QED
      BY <3>1, <3>2, <3>3
  <2> QED
    BY <2>1, <2>2
<1>2. \A T \in SUBSET S : T \in Good
  <2> HIDE DEF Good
  <2> QED
    BY <1>1, SubsetInduction
<1> QED
  BY <1>2

(* Every finite set has its totals. *)
LEMMA TotalsExist ==
    ASSUME NEW S, IsFiniteSet(S), NEW w
    PROVE  \E g : Totals(g, w, S)
<1> DEFINE Good == {T \in SUBSET S : \E g : Totals(g, w, T)}
           G(T) == CHOOSE g : Totals(g, w, T)
<1>1. ASSUME NEW T \in SUBSET S, \A R \in SUBSET T : R # T => R \in Good PROVE T \in Good
  <2> DEFINE top == IF T = {} THEN 0 ELSE w[Pick(T)] + G(T \ {Pick(T)})[T \ {Pick(T)}]
             h == [R \in SUBSET T |-> IF R = T THEN top ELSE G(R)[R]]
  <2>1. ASSUME NEW R \in SUBSET T, R # T PROVE Totals(G(R), w, R)
    <3>1. \E g : Totals(g, w, R)
      BY <1>1, <2>1
    <3> QED
      BY <3>1
  <2>2. ASSUME NEW R \in SUBSET T
        PROVE  h[R] = IF R = {} THEN 0 ELSE w[Pick(R)] + h[R \ {Pick(R)}]
    <3>1. CASE R = {}
      <4>1. CASE R = T
        BY <3>1, <4>1
      <4>2. CASE R # T
        <5>1. Totals(G(R), w, R)
          BY <2>1, <4>2
        <5>2. G(R)[R] = 0
          <6> HIDE DEF G
          <6> QED BY <3>1, <5>1 DEF Totals
        <5> QED
          BY <3>1, <4>2, <5>2
      <4> QED
        BY <4>1, <4>2
    <3>2. CASE R # {}
      <4> DEFINE Q == R \ {Pick(R)}
      <4>1. Pick(R) \in R /\ Q \in SUBSET T /\ Q # T
        BY <3>2, PickIn
      <4>2. h[Q] = G(Q)[Q]
        BY <4>1
      <4>3. CASE R = T
        BY <3>2, <4>2, <4>3
      <4>4. CASE R # T
        <5>1. Totals(G(R), w, R) /\ Totals(G(Q), w, Q)
          BY <2>1, <4>1, <4>4
        <5>2. IsFiniteSet(Q)
          BY FS_Subset
        <5>3. G(R)[Q] = G(Q)[Q]
          <6> HIDE DEF G
          <6> QED BY <5>1, <5>2, TotalsAgree
        <5>4. G(R)[R] = w[Pick(R)] + G(R)[Q]
          <6> HIDE DEF G
          <6> QED BY <3>2, <5>1 DEF Totals
        <5> QED
          BY <3>2, <4>2, <4>4, <5>3, <5>4
      <4> QED
        BY <4>3, <4>4
    <3> QED
      BY <3>1, <3>2
  <2>3. Totals(h, w, T)
    <3>1. h = [R \in SUBSET T |-> h[R]]
      OBVIOUS
    <3> HIDE DEF h
    <3> QED
      BY <2>2, <3>1 DEF Totals
  <2> QED
    BY <2>3
<1>2. \A T \in SUBSET S : T \in Good
  <2> HIDE DEF Good
  <2> QED
    BY <1>1, SubsetInduction
<1> QED
  BY <1>2

(* MapThenSumSet is such a function of totals, at the set itself. *)
LEMMA TotalUnfolds ==
    ASSUME NEW S, IsFiniteSet(S), NEW w
    PROVE  \E g : Totals(g, w, S) /\ Total(w, S) = g[S]
<1> DEFINE it == CHOOSE iter : iter = [s \in SUBSET S |->
                     IF s = {} THEN 0 ELSE w[CHOOSE x \in s : TRUE] + iter[s \ {CHOOSE x \in s : TRUE}]]
<1>1. Total(w, S) = it[S]
  BY DEF Total, MapThenSumSet, MapThenFoldSet
<1>2. \E g : Totals(g, w, S)
  BY TotalsExist
<1>3. \E iter : iter = [s \in SUBSET S |->
          IF s = {} THEN 0 ELSE w[CHOOSE x \in s : TRUE] + iter[s \ {CHOOSE x \in s : TRUE}]]
  BY <1>2 DEF Totals, Pick
<1>4. Totals(it, w, S)
  BY <1>3 DEF Totals, Pick
<1> QED
  BY <1>1, <1>4

LEMMA TotalSame ==
    ASSUME NEW S, IsFiniteSet(S), NEW w, NEW v, \A x \in S : w[x] = v[x]
    PROVE  Total(w, S) = Total(v, S)
<1>1. PICK g : Totals(g, w, S) /\ Total(w, S) = g[S]
  BY TotalUnfolds
<1>2. PICK h : Totals(h, v, S) /\ Total(v, S) = h[S]
  BY TotalUnfolds
<1> QED
  BY <1>1, <1>2, TotalsAgree

LEMMA TotalEmpty == ASSUME NEW w PROVE Total(w, {}) = 0
<1>1. PICK g : Totals(g, w, {}) /\ Total(w, {}) = g[{}]
  BY TotalUnfolds, FS_EmptySet
<1> QED
  BY <1>1 DEF Totals

LEMMA TotalOfSubset ==
    ASSUME NEW S, IsFiniteSet(S), NEW w, NEW g, Totals(g, w, S), NEW T \in SUBSET S
    PROVE  g[T] = Total(w, T)
<1>1. IsFiniteSet(T)
  BY FS_Subset
<1>2. PICK h : Totals(h, w, T) /\ Total(w, T) = h[T]
  BY <1>1, TotalUnfolds
<1>3. g[T] = h[T]
  <2>1. ASSUME NEW v, v = w PROVE g[T] = h[T]
    <3>1. \A x \in T : w[x] = v[x]
      BY <2>1
    <3>2. Totals(h, v, T) /\ Totals(g, w, S)
      BY <1>2, <2>1
    <3>3. T \subseteq S /\ T \subseteq T
      OBVIOUS
    <3> HIDE <2>1
    <3> QED
      BY <1>1, <3>1, <3>2, <3>3, TotalsAgree
  <2> QED
    BY <2>1
<1> QED
  BY <1>2, <1>3

LEMMA TotalPick ==
    ASSUME NEW S, IsFiniteSet(S), NEW w, S # {}
    PROVE  Total(w, S) = w[Pick(S)] + Total(w, S \ {Pick(S)})
<1>1. PICK g : Totals(g, w, S) /\ Total(w, S) = g[S]
  BY TotalUnfolds
<1>2. g[S] = w[Pick(S)] + g[S \ {Pick(S)}]
  BY <1>1 DEF Totals
<1>3. g[S \ {Pick(S)}] = Total(w, S \ {Pick(S)})
  BY <1>1, TotalOfSubset
<1> QED
  BY <1>1, <1>2, <1>3

LEMMA TotalType ==
    ASSUME NEW S, IsFiniteSet(S), NEW w, \A x \in S : w[x] \in Nat
    PROVE  Total(w, S) \in Nat
<1> DEFINE Good == {T \in SUBSET S : Total(w, T) \in Nat}
<1>1. ASSUME NEW T \in SUBSET S, \A R \in SUBSET T : R # T => R \in Good PROVE T \in Good
  <2>1. CASE T = {}
    BY <2>1, TotalEmpty
  <2>2. CASE T # {}
    <3>1. Pick(T) \in T /\ IsFiniteSet(T)
      BY <2>2, PickIn, FS_Subset
    <3>2. T \ {Pick(T)} \in Good
      BY <1>1, <3>1
    <3>3. Total(w, T) = w[Pick(T)] + Total(w, T \ {Pick(T)})
      BY <2>2, <3>1, TotalPick
    <3> QED
      BY <3>1, <3>2, <3>3
  <2> QED
    BY <2>1, <2>2
<1>2. \A T \in SUBSET S : T \in Good
  <2> HIDE DEF Good
  <2> QED
    BY <1>1, SubsetInduction
<1> QED
  BY <1>2

(* Any element may be the first to be taken out. *)
LEMMA TotalWithout ==
    ASSUME NEW S, IsFiniteSet(S), NEW w, \A x \in S : w[x] \in Nat, NEW e \in S
    PROVE  Total(w, S) = w[e] + Total(w, S \ {e})
<1> DEFINE Good == {T \in SUBSET S : \A x \in T : Total(w, T) = w[x] + Total(w, T \ {x})}
<1>1. ASSUME NEW T \in SUBSET S, \A R \in SUBSET T : R # T => R \in Good PROVE T \in Good
  <2> SUFFICES ASSUME NEW x \in T PROVE Total(w, T) = w[x] + Total(w, T \ {x})
    OBVIOUS
  <2> DEFINE p == Pick(T)
  <2>1. p \in T /\ IsFiniteSet(T)
    BY PickIn, FS_Subset
  <2>2. Total(w, T) = w[p] + Total(w, T \ {p})
    BY <2>1, TotalPick
  <2>3. CASE x = p
    BY <2>2, <2>3
  <2>4. CASE x # p
    <3> HIDE DEF p
    <3>1. T \ {p} \in Good /\ T \ {x} \in Good
      BY <1>1, <2>1
    <3>2. Total(w, T \ {p}) = w[x] + Total(w, (T \ {p}) \ {x})
      BY <2>4, <3>1
    <3>3. Total(w, T \ {x}) = w[p] + Total(w, (T \ {x}) \ {p})
      BY <2>1, <2>4, <3>1
    <3>4. (T \ {x}) \ {p} = (T \ {p}) \ {x}
      OBVIOUS
    <3>5. Total(w, (T \ {p}) \ {x}) \in Nat
      BY <2>1, FS_Subset, TotalType
    <3> QED
      BY <2>1, <2>2, <3>2, <3>3, <3>4, <3>5
  <2> QED
    BY <2>3, <2>4
<1>2. \A T \in SUBSET S : T \in Good
  <2> HIDE DEF Good
  <2> QED
    BY <1>1, SubsetInduction
<1> QED
  BY <1>2

(* What is added up only grows with the elements and with their weights. *)
LEMMA TotalMonotone ==
    ASSUME NEW B, IsFiniteSet(B), NEW S \in SUBSET B, NEW w, NEW v,
           \A x \in B : w[x] \in Nat /\ v[x] \in Nat,
           \A x \in S : w[x] <= v[x]
    PROVE  Total(w, S) <= Total(v, B)
<1> DEFINE Good == {T \in SUBSET B : Total(w, T \cap S) <= Total(v, T)}
<1>1. ASSUME NEW T \in SUBSET B, \A R \in SUBSET T : R # T => R \in Good PROVE T \in Good
  <2>1. CASE T = {}
    <3>1. T \cap S = {}
      BY <2>1
    <3> QED
      BY <2>1, <3>1, TotalEmpty
  <2>2. CASE T # {}
    <3> DEFINE p == Pick(T)
    <3>1. p \in T /\ IsFiniteSet(T) /\ IsFiniteSet(T \cap S) /\ IsFiniteSet(T \ {p})
          /\ IsFiniteSet((T \ {p}) \cap S)
      BY <2>2, PickIn, FS_Subset
    <3> HIDE DEF p
    <3>2. Total(v, T) = v[p] + Total(v, T \ {p})
      BY <3>1, TotalWithout
    <3>3. Total(w, (T \ {p}) \cap S) <= Total(v, T \ {p})
      BY <1>1, <3>1
    <3>4. Total(w, (T \ {p}) \cap S) \in Nat /\ Total(v, T \ {p}) \in Nat
      BY <3>1, TotalType
    <3>5. CASE p \in S
      <4>1. (T \cap S) \ {p} = (T \ {p}) \cap S
        OBVIOUS
      <4>2. Total(w, T \cap S) = w[p] + Total(w, (T \cap S) \ {p})
        BY <3>1, <3>5, TotalWithout
      <4>3. w[p] \in Nat /\ v[p] \in Nat /\ w[p] <= v[p]
        BY <3>1, <3>5
      <4>4. Total(w, T \cap S) <= Total(v, T)
        BY <3>2, <3>3, <3>4, <4>1, <4>2, <4>3
      <4> QED
        BY <4>4
    <3>6. CASE p \notin S
      <4>1. T \cap S = (T \ {p}) \cap S
        BY <3>6
      <4>2. v[p] \in Nat
        BY <3>1
      <4>3. Total(w, T \cap S) = Total(w, (T \ {p}) \cap S)
        BY <4>1, Zenon
      <4>4. Total(w, T \cap S) <= Total(v, T)
        BY <3>2, <3>3, <3>4, <4>2, <4>3
      <4> QED
        BY <4>4
    <3> QED
      BY <3>5, <3>6
  <2> QED
    BY <2>1, <2>2
<1>2. B \in Good
  <2> HIDE DEF Good
  <2> QED
    BY <1>1, SubsetInduction
<1>3. B \cap S = S
  OBVIOUS
<1> QED
  BY <1>2, <1>3
=============================================================================
