----------------------------- MODULE SumProofs -----------------------------
(***************************************************************************)
(* What SumFunctionOnSet of the community modules computes: units of a     *)
(* product over its lots and orders, costs over the lines of an order,     *)
(* rows of a worker's queue.                                               *)
(*                                                                         *)
(* The sum is a recursive function on the subsets of a finite set.  The    *)
(* induction theorems of the library take an operator as a parameter; the  *)
(* proofs below argue by a smallest subset that is a counterexample.       *)
(***************************************************************************)
EXTENDS Functions, FiniteSetTheorems, TLAPS

\* A non-empty collection of subsets of a finite set has a smallest member.
LEMMA SmallestSubset ==
    ASSUME NEW S, IsFiniteSet(S), NEW B \in SUBSET SUBSET S, B # {}
    PROVE  \E T \in B : \A U \in B : U \subseteq T => U = T
<1>1. IsWellFoundedOn(StrictSubsetOrdering(S), SUBSET S)
  BY FS_StrictSubsetOrderingWellFounded, FS_FiniteSubsetsOfFinite
<1>2. PICK T \in B : \A U \in B : <<U, T>> \notin StrictSubsetOrdering(S)
  BY <1>1, WFMin
<1>3. QED
  BY <1>2 DEF StrictSubsetOrdering

\* The element a sum takes first.
Pick(T) == CHOOSE x \in T : TRUE

\* What SumFunctionOnSet(w, S) unfolds to: partial sums over the subsets of S.
IsSum(f, w, S) ==
    f = [T \in SUBSET S |-> IF T = {} THEN 0 ELSE w[Pick(T)] + f[T \ {Pick(T)}]]

\* Partial sums over the subsets of two sets agree where both are defined.
LEMMA SumsAgree ==
    ASSUME NEW w, NEW S, IsFiniteSet(S), NEW S2,
           NEW f, IsSum(f, w, S), NEW g, IsSum(g, w, S2)
    PROVE  \A T \in SUBSET (S \cap S2) : f[T] = g[T]
<1> DEFINE B == {T \in SUBSET (S \cap S2) : f[T] # g[T]}
<1> SUFFICES ASSUME B # {} PROVE FALSE
    OBVIOUS
<1>1. B \in SUBSET SUBSET S
  OBVIOUS
<1>2. PICK T \in B : \A U \in B : U \subseteq T => U = T
  <2> HIDE DEF B
  <2>1. QED
    BY <1>1, SmallestSubset
<1>3. T # {}
  BY DEF IsSum
<1>4. Pick(T) \in T
  BY <1>3 DEF Pick
<1>5. f[T \ {Pick(T)}] = g[T \ {Pick(T)}]
  BY <1>2, <1>4
<1>6. QED
  BY <1>3, <1>4, <1>5 DEF IsSum

\* There are such partial sums: those of the smaller subsets make the next.
LEMMA SumExists ==
    ASSUME NEW w, NEW S, IsFiniteSet(S)
    PROVE  \E f : IsSum(f, w, S)
<1> DEFINE B == {T \in SUBSET S : ~ \E f : IsSum(f, w, T)}
<1> SUFFICES ASSUME B # {} PROVE FALSE
    OBVIOUS
<1>1. PICK T \in B : \A U \in B : U \subseteq T => U = T
  <2>1. B \in SUBSET SUBSET S
    OBVIOUS
  <2> HIDE DEF B
  <2>2. QED
    BY <2>1, SmallestSubset
<1>2. \A U \in SUBSET T : U # T => \E f : IsSum(f, w, U)
  BY <1>1
<1> DEFINE part(U) == CHOOSE f : IsSum(f, w, U)
<1>3. \A U \in SUBSET T : U # T => IsSum(part(U), w, U)
  BY <1>2
<1>4. ASSUME NEW U \in SUBSET T, U # T, NEW V \in SUBSET U
      PROVE  part(U)[V] = part(V)[V]
  <2>1. IsFiniteSet(U)
    BY FS_Subset
  <2>2. V # T /\ V \in SUBSET T /\ IsSum(part(V), w, V) /\ IsSum(part(U), w, U)
    BY <1>3, <1>4
  <2> HIDE DEF part
  <2>3. QED
    BY <2>1, <2>2, SumsAgree
<1> DEFINE value(V) == IF V = {} THEN 0 ELSE w[Pick(V)] + part(V \ {Pick(V)})[V \ {Pick(V)}]
<1> DEFINE whole == [V \in SUBSET T |-> value(V)]
<1>5. ASSUME NEW V \in SUBSET T, V # T
      PROVE whole[V] = part(V)[V]
  <2>0. IsSum(part(V), w, V)
    BY <1>3, <1>5
  <2> HIDE DEF part
  <2>1. CASE V = {}
    BY <2>0, <2>1 DEF IsSum
  <2>2. CASE V # {}
    <3>1. Pick(V) \in V
      BY <2>2 DEF Pick
    <3>2. part(V)[V] = w[Pick(V)] + part(V)[V \ {Pick(V)}]
      BY <2>0, <2>2 DEF IsSum
    <3>3. part(V)[V \ {Pick(V)}] = part(V \ {Pick(V)})[V \ {Pick(V)}]
      BY <1>4, <1>5
    <3>4. QED
      BY <2>2, <3>2, <3>3
  <2>3. QED
    BY <2>1, <2>2
<1>6. ASSUME NEW V \in SUBSET T
      PROVE whole[V] = IF V = {} THEN 0 ELSE w[Pick(V)] + whole[V \ {Pick(V)}]
  <2>1. CASE V = {}
    BY <2>1
  <2>2. CASE V # {}
    <3>1. Pick(V) \in V
      BY <2>2 DEF Pick
    <3>2. V \ {Pick(V)} \in SUBSET T /\ V \ {Pick(V)} # T
      BY <3>1
    <3>3. whole[V \ {Pick(V)}] = part(V \ {Pick(V)})[V \ {Pick(V)}]
      BY <1>5, <3>2
    <3> HIDE DEF part
    <3>4. QED
      BY <2>2, <3>3
  <2>3. QED
    BY <2>1, <2>2
<1>7. IsSum(whole, w, T)
  <2> HIDE DEF value
  <2>1. whole = [V \in SUBSET T |-> IF V = {} THEN 0 ELSE w[Pick(V)] + whole[V \ {Pick(V)}]]
    BY <1>6
  <2> HIDE DEF whole
  <2>2. QED
    BY <2>1 DEF IsSum
<1>8. QED
  BY <1>1, <1>7

\* SumFunctionOnSet is the last of its partial sums.
LEMMA SumIsSum ==
    ASSUME NEW w, NEW S, IsFiniteSet(S)
    PROVE  \E f : IsSum(f, w, S) /\ SumFunctionOnSet(w, S) = f[S]
<1> DEFINE sum == CHOOSE f : f = [T \in SUBSET S |-> IF T = {} THEN 0 ELSE w[CHOOSE x \in T : TRUE] + f[T \ {CHOOSE x \in T : TRUE}]]
<1>1. SumFunctionOnSet(w, S) = sum[S]
  BY DEF SumFunctionOnSet, FoldFunctionOnSet, MapThenFoldSet
<1>2. \E f : f = [T \in SUBSET S |-> IF T = {} THEN 0 ELSE w[CHOOSE x \in T : TRUE] + f[T \ {CHOOSE x \in T : TRUE}]]
  <2>1. PICK f : IsSum(f, w, S)
    BY SumExists
  <2>2. f = [T \in SUBSET S |-> IF T = {} THEN 0 ELSE w[CHOOSE x \in T : TRUE] + f[T \ {CHOOSE x \in T : TRUE}]]
    BY <2>1 DEF IsSum, Pick
  <2>3. QED
    BY <2>2
<1>3. IsSum(sum, w, S)
  BY <1>2 DEF IsSum, Pick
<1>4. QED
  BY <1>1, <1>3

\* The sum over no element.
LEMMA SumEmpty == \A w : SumFunctionOnSet(w, {}) = 0
<1> SUFFICES ASSUME NEW w PROVE SumFunctionOnSet(w, {}) = 0
  OBVIOUS
<1>1. PICK f : IsSum(f, w, {}) /\ SumFunctionOnSet(w, {}) = f[{}]
  BY SumIsSum, FS_EmptySet
<1>2. QED
  BY <1>1 DEF IsSum

\* One element is taken, and the rest is summed.
LEMMA SumFirst ==
    ASSUME NEW w, NEW S, IsFiniteSet(S), S # {}
    PROVE  Pick(S) \in S /\ SumFunctionOnSet(w, S) = w[Pick(S)] + SumFunctionOnSet(w, S \ {Pick(S)})
<1>1. Pick(S) \in S
  BY DEF Pick
<1> DEFINE U == S \ {Pick(S)}
<1>2. IsFiniteSet(U)
  BY FS_Subset
<1>3. PICK f : IsSum(f, w, S) /\ SumFunctionOnSet(w, S) = f[S]
  BY SumIsSum
<1>4. PICK g : IsSum(g, w, U) /\ SumFunctionOnSet(w, U) = g[U]
  BY <1>2, SumIsSum
<1>5. f[U] = g[U]
  BY <1>3, <1>4, SumsAgree
<1>6. f[S] = w[Pick(S)] + f[U]
  BY <1>3 DEF IsSum
<1>7. QED
  BY <1>1, <1>3, <1>4, <1>5, <1>6

\* The sum of whole numbers is one.
LEMMA SumInt ==
    ASSUME NEW S, IsFiniteSet(S), NEW w, \A x \in S : w[x] \in Int
    PROVE  SumFunctionOnSet(w, S) \in Int
<1> DEFINE B == {T \in SUBSET S : SumFunctionOnSet(w, T) \notin Int}
<1> SUFFICES ASSUME B # {} PROVE FALSE
    OBVIOUS
<1>1. PICK T \in B : \A U \in B : U \subseteq T => U = T
  <2>1. B \in SUBSET SUBSET S
    OBVIOUS
  <2> HIDE DEF B
  <2>2. QED
    BY <2>1, SmallestSubset
<1>2. IsFiniteSet(T)
  BY FS_Subset
<1>3. T # {}
  BY SumEmpty
<1>4. Pick(T) \in T
      /\ SumFunctionOnSet(w, T) = w[Pick(T)] + SumFunctionOnSet(w, T \ {Pick(T)})
  BY <1>2, <1>3, SumFirst
<1>5. SumFunctionOnSet(w, T \ {Pick(T)}) \in Int
  BY <1>1, <1>4
<1>6. QED
  BY <1>4, <1>5

\* Any element may be counted first.
LEMMA SumAnyFirst ==
    ASSUME NEW S, IsFiniteSet(S), NEW w, \A x \in S : w[x] \in Int, NEW e \in S
    PROVE  SumFunctionOnSet(w, S) = w[e] + SumFunctionOnSet(w, S \ {e})
<1> DEFINE Sum(T) == SumFunctionOnSet(w, T)
<1> DEFINE B == {T \in SUBSET S : \E x \in T : Sum(T) # w[x] + Sum(T \ {x})}
<1> SUFFICES ASSUME B # {} PROVE FALSE
    OBVIOUS
<1>1. PICK T \in B : \A U \in B : U \subseteq T => U = T
  <2>1. B \in SUBSET SUBSET S
    OBVIOUS
  <2> HIDE DEF B
  <2>2. QED
    BY <2>1, SmallestSubset
<1>2. PICK x \in T : Sum(T) # w[x] + Sum(T \ {x})
  BY <1>1
<1>3. T \in SUBSET S
  BY <1>1
<1> DEFINE y == Pick(T)
<1>4. y \in T /\ Sum(T) = w[y] + Sum(T \ {y})
  BY <1>2, <1>3, FS_Subset, SumFirst
<1>5. x # y
  BY <1>2, <1>4
<1> HIDE DEF y
<1>6. \A U \in SUBSET T : U # T => \A z \in U : Sum(U) = w[z] + Sum(U \ {z})
  BY <1>1, <1>3
<1>7. Sum(T \ {y}) = w[x] + Sum((T \ {y}) \ {x})
  BY <1>2, <1>4, <1>5, <1>6
<1>8. Sum(T \ {x}) = w[y] + Sum((T \ {x}) \ {y})
  BY <1>2, <1>4, <1>5, <1>6
<1>9. Sum((T \ {y}) \ {x}) = Sum((T \ {x}) \ {y})
  <2>1. (T \ {y}) \ {x} = (T \ {x}) \ {y}
    OBVIOUS
  <2>2. QED
    BY <2>1
<1>10. Sum((T \ {x}) \ {y}) \in Int /\ w[x] \in Int /\ w[y] \in Int
  <2>1. IsFiniteSet((T \ {x}) \ {y})
    BY <1>3, FS_Subset
  <2>2. QED
    BY <1>2, <1>3, <1>4, <2>1, SumInt
<1>11. ASSUME NEW a \in Int, NEW b \in Int, NEW r \in Int
       PROVE  a + (b + r) = b + (a + r)
  OBVIOUS
<1>12. Sum(T) = w[y] + (w[x] + Sum((T \ {x}) \ {y}))
  BY <1>4, <1>7, <1>9
<1>13. w[x] + Sum(T \ {x}) = w[x] + (w[y] + Sum((T \ {x}) \ {y}))
  BY <1>8
<1>14. QED
  BY <1>2, <1>10, <1>11, <1>12, <1>13

\* Weights that agree on a set have the same sum over it.
LEMMA SumSame ==
    ASSUME NEW S, IsFiniteSet(S), NEW w, NEW v, \A x \in S : w[x] = v[x]
    PROVE  SumFunctionOnSet(w, S) = SumFunctionOnSet(v, S)
<1> DEFINE B == {T \in SUBSET S : SumFunctionOnSet(w, T) # SumFunctionOnSet(v, T)}
<1> SUFFICES ASSUME B # {} PROVE FALSE
    OBVIOUS
<1>1. PICK T \in B : \A U \in B : U \subseteq T => U = T
  <2>1. B \in SUBSET SUBSET S
    OBVIOUS
  <2> HIDE DEF B
  <2>2. QED
    BY <2>1, SmallestSubset
<1>2. IsFiniteSet(T)
  BY FS_Subset
<1>3. T # {}
  BY SumEmpty
<1>4. Pick(T) \in T
      /\ SumFunctionOnSet(w, T) = w[Pick(T)] + SumFunctionOnSet(w, T \ {Pick(T)})
      /\ SumFunctionOnSet(v, T) = v[Pick(T)] + SumFunctionOnSet(v, T \ {Pick(T)})
  BY <1>2, <1>3, SumFirst
<1>5. SumFunctionOnSet(w, T \ {Pick(T)}) = SumFunctionOnSet(v, T \ {Pick(T)})
  BY <1>1, <1>4
<1>6. QED
  BY <1>1, <1>4, <1>5

\* The sum of amounts that are not negative is not negative.
LEMMA SumNat ==
    ASSUME NEW S, IsFiniteSet(S), NEW w, \A x \in S : w[x] \in Nat
    PROVE  SumFunctionOnSet(w, S) \in Nat
<1> DEFINE B == {T \in SUBSET S : SumFunctionOnSet(w, T) \notin Nat}
<1> SUFFICES ASSUME B # {} PROVE FALSE
    OBVIOUS
<1>1. PICK T \in B : \A U \in B : U \subseteq T => U = T
  <2>1. B \in SUBSET SUBSET S
    OBVIOUS
  <2> HIDE DEF B
  <2>2. QED
    BY <2>1, SmallestSubset
<1>2. IsFiniteSet(T)
  BY FS_Subset
<1>3. T # {}
  BY SumEmpty
<1>4. Pick(T) \in T
      /\ SumFunctionOnSet(w, T) = w[Pick(T)] + SumFunctionOnSet(w, T \ {Pick(T)})
  BY <1>2, <1>3, SumFirst
<1>5. SumFunctionOnSet(w, T \ {Pick(T)}) \in Nat
  BY <1>1, <1>4
<1>6. QED
  BY <1>4, <1>5

=============================================================================
