---------------------------- MODULE Finiteness ----------------------------
(***************************************************************************)
(* Facts that the proofs about the components share: the sizes of finite   *)
(* sets, and minimal elements, for proofs by a least counterexample (what  *)
(* a recursive function computes is proved by taking the least argument,   *)
(* or the smallest set, for which it would compute something else).        *)
(***************************************************************************)
EXTENDS Integers, TLAPS, FiniteSetTheorems, WellFoundedInduction

(* Among finite sets there is one that none of the others is part of.      *)
THEOREM MinimalSet ==
  ASSUME NEW S, NEW F, F # {}, \A A \in F : A \subseteq S /\ IsFiniteSet(A)
  PROVE  \E A \in F : \A B \in F : B \subseteq A => B = A
  <1>1. IsWellFoundedOn(StrictSubsetOrdering(S), FiniteSubsetsOf(S))
    BY FS_StrictSubsetOrderingWellFounded
  <1>2. F \subseteq FiniteSubsetsOf(S)
    BY DEF FiniteSubsetsOf
  <1>3. PICK A \in F : \A B \in F : <<B, A>> \notin StrictSubsetOrdering(S)
    BY <1>1, <1>2, WFMin
  <1> QED
    BY <1>3 DEF StrictSubsetOrdering

(* Among natural numbers there is a least one.                             *)
THEOREM MinimalNat ==
  ASSUME NEW T, T \subseteq Nat, T # {}
  PROVE  \E n \in T : \A m \in T : n <= m
  <1> DEFINE F == {0 .. n : n \in T}
  <1>1. \A A \in F : A \subseteq Nat /\ IsFiniteSet(A)
    <2> SUFFICES ASSUME NEW n \in T PROVE 0 .. n \subseteq Nat /\ IsFiniteSet(0 .. n)
      OBVIOUS
    <2>1. n \in Int /\ 0 \in Int
      OBVIOUS
    <2> QED
      BY <2>1, FS_Interval
  <1>2. F # {}
    OBVIOUS
  <1>3. \E A \in F : \A B \in F : B \subseteq A => B = A
    <2> HIDE DEF F
    <2> QED
      BY <1>1, <1>2, MinimalSet
  <1>4. PICK n \in T : \A B \in F : B \subseteq 0 .. n => B = 0 .. n
    BY <1>3
  <1>5. ASSUME NEW m \in T, m < n PROVE FALSE
    <2>1. 0 .. m \in F /\ 0 .. m \subseteq 0 .. n
      BY <1>5
    <2>2. n \notin 0 .. m /\ n \in 0 .. n
      BY <1>5
    <2> QED
      BY <2>1, <2>2, <1>4
  <1> QED
    BY <1>5

(* f is the function on 0 .. n into V with the given first value and with  *)
(* step[k] leading from f[k - 1] to f[k].                                  *)
Recursion(V, first, n, step) ==
  first \in V /\ n \in Nat /\ step \in [1 .. n -> [V -> V]]
Solves(f, V, first, n, step) ==
  /\ f \in [0 .. n -> V]
  /\ f[0] = first
  /\ \A k \in 1 .. n : f[k] = step[k][f[k - 1]]

(* A function on 0 .. n may be defined by its first value and a step from  *)
(* each value to the next: one cannot fail at a least argument.            *)
LEMMA RecursionOnInterval ==
  ASSUME NEW V, NEW first \in V, NEW n \in Nat, NEW step \in [1 .. n -> [V -> V]]
  PROVE  \E f \in [0 .. n -> V] :
           f[0] = first /\ \A k \in 1 .. n : f[k] = step[k][f[k - 1]]
  <1> DEFINE Upto(m) == \E f \in [0 .. m -> V] :
               f[0] = first /\ \A k \in 1 .. m : f[k] = step[k][f[k - 1]]
             T == {m \in 0 .. n : ~Upto(m)}
  <1>1. SUFFICES ASSUME T # {} PROVE FALSE
    <2>1. ASSUME T = {} PROVE Upto(n)
      <3>1. n \in 0 .. n
        OBVIOUS
      <3> HIDE DEF Upto
      <3> QED
        BY <2>1, <3>1
    <2>2. SUFFICES Upto(n)
      OBVIOUS
    <2> HIDE DEF T, Upto
    <2> QED
      BY <2>1, <1>1
  <1>2. PICK m \in T : \A l \in T : m <= l
    <2>1. T \subseteq Nat
      OBVIOUS
    <2> HIDE DEF T
    <2> QED
      BY <1>1, <2>1, MinimalNat
  <1>3. Upto(0)
    <2> DEFINE f == [k \in 0 .. 0 |-> first]
    <2>1. f \in [0 .. 0 -> V] /\ f[0] = first
      OBVIOUS
    <2> HIDE DEF f
    <2> QED
      BY <2>1
  <1>4. m \in 1 .. n
    <2> HIDE DEF Upto
    <2>1. m # 0
      BY <1>3
    <2> QED
      BY <2>1
  <1>5. Upto(m - 1)
    <2> HIDE DEF Upto
    <2> QED
      BY <1>2, <1>4
  <1>6. PICK f \in [0 .. m - 1 -> V] :
          f[0] = first /\ \A k \in 1 .. m - 1 : f[k] = step[k][f[k - 1]]
    BY <1>5
  <1> DEFINE g == [k \in 0 .. m |-> IF k = m THEN step[m][f[m - 1]] ELSE f[k]]
  <1>7. step[m][f[m - 1]] \in V
    BY <1>4
  <1>8. g \in [0 .. m -> V] /\ g[0] = first
    BY <1>4, <1>6, <1>7
  <1>9. ASSUME NEW k \in 1 .. m PROVE g[k] = step[k][g[k - 1]]
    BY <1>4, <1>6
  <1>10. Upto(m)
    <2> HIDE DEF g
    <2> QED
      BY <1>8, <1>9
  <1> QED
    BY <1>2, <1>10

(* The same in the form that the proofs cite.                              *)
THEOREM RecursionExists ==
  \A V, first, n, step :
    Recursion(V, first, n, step) => \E f : Solves(f, V, first, n, step)
  <1> TAKE V, first, n, step
  <1> HAVE Recursion(V, first, n, step)
  <1>1. first \in V /\ n \in Nat /\ step \in [1 .. n -> [V -> V]]
    BY DEF Recursion
  <1>2. \E f \in [0 .. n -> V] :
           f[0] = first /\ \A k \in 1 .. n : f[k] = step[k][f[k - 1]]
    BY <1>1, RecursionOnInterval, SMTT(30)
  <1> QED
    BY <1>2 DEF Solves

(* Two functions on 0 .. n that start with the same value and go on from   *)
(* equal values to equal values are the same.                              *)
THEOREM RecursionUnique ==
  ASSUME NEW n \in Nat, NEW f, NEW g,
         DOMAIN f = 0 .. n, DOMAIN g = 0 .. n,
         f = [k \in 0 .. n |-> f[k]], g = [k \in 0 .. n |-> g[k]],
         f[0] = g[0],
         \A k \in 1 .. n : f[k - 1] = g[k - 1] => f[k] = g[k]
  PROVE  f = g
  <1> DEFINE T == {k \in 0 .. n : f[k] # g[k]}
  <1>1. SUFFICES ASSUME T # {} PROVE FALSE
    <2>1. ASSUME T = {} PROVE \A k \in 0 .. n : f[k] = g[k]
      BY <2>1
    <2> HIDE DEF T
    <2> QED
      BY <1>1, <2>1
  <1>2. PICK m \in T : \A k \in T : m <= k
    <2>1. T \subseteq Nat
      OBVIOUS
    <2> HIDE DEF T
    <2> QED
      BY <1>1, <2>1, MinimalNat
  <1>3. m \in 1 .. n /\ m - 1 \in 0 .. n
    OBVIOUS
  <1>4. f[m - 1] = g[m - 1]
    BY <1>2, <1>3
  <1> QED
    BY <1>3, <1>4

(* Who follows next from an element of D leaves every part of D in the     *)
(* end, and so D.                                                          *)
Ends(next, D) == \A S \in SUBSET D : S # {} => \E k \in S : next[k] \notin S

(* f is the function into V with the given value at nil and with step[k]   *)
(* leading to f[k] from the value at the element that follows k.           *)
Walk(D, nil, next, V, first, step) ==
  /\ nil \notin D /\ next \in [D -> D \cup {nil}] /\ Ends(next, D)
  /\ first \in V /\ step \in [D -> [V -> V]]
Walks(f, D, nil, next, V, first, step) ==
  /\ f \in [D \cup {nil} -> V]
  /\ f[nil] = first
  /\ \A k \in D : f[k] = step[k][f[next[k]]]

(* A function may be defined by a walk that ends: the largest part of D    *)
(* closed under next on which there is one cannot leave an element out.    *)
LEMMA WalkOnSet ==
  ASSUME NEW D, NEW nil, nil \notin D, NEW next \in [D -> D \cup {nil}], Ends(next, D),
         NEW V, NEW first \in V, NEW step \in [D -> [V -> V]]
  PROVE  \E f : Walks(f, D, nil, next, V, first, step)
  <1> DEFINE Closed(A) == A \subseteq D /\ \A k \in A : next[k] \in A \cup {nil}
             On(f, A) == /\ f \in [A \cup {nil} -> V] /\ f[nil] = first
                         /\ \A k \in A : f[k] = step[k][f[next[k]]]
             Good == {k \in D : \E A \in SUBSET D : k \in A /\ Closed(A) /\ \E f : On(f, A)}
             Value(k, v) == \E A \in SUBSET D : /\ k \in A /\ Closed(A)
                                                /\ \E f : On(f, A) /\ v = f[k]
             F == [k \in Good \cup {nil} |->
                     IF k = nil THEN first ELSE CHOOSE v : Value(k, v)]
  <1>1. ASSUME NEW A \in SUBSET D, NEW B \in SUBSET D, Closed(A), Closed(B),
               NEW f, NEW g, On(f, A), On(g, B), NEW k \in A, k \in B
        PROVE  f[k] = g[k]
    <2> DEFINE S == {j \in A \cap B : f[j] # g[j]}
    <2>1. SUFFICES ASSUME S # {} PROVE FALSE
      BY <1>1
    <2>2. PICK j \in S : next[j] \notin S
      <3>1. S \in SUBSET D
        OBVIOUS
      <3> HIDE DEF S
      <3> QED
        BY <2>1, <3>1 DEF Ends
    <2>3. next[j] = nil \/ next[j] \in A \cap B
      BY <1>1
    <2>4. f[next[j]] = g[next[j]]
      BY <1>1, <2>2, <2>3
    <2>5. f[j] = g[j]
      BY <1>1, <2>4
    <2> QED
      BY <2>5
  <1>2. ASSUME NEW A \in SUBSET D, Closed(A), NEW f, On(f, A), NEW k \in A
        PROVE  k \in Good /\ F[k] = f[k]
    <2>1. k \in Good /\ k # nil
      <3> HIDE DEF Closed, On
      <3> QED
        BY <1>2
    <2>2. F[k] = CHOOSE v : Value(k, v)
      <3> HIDE DEF Good, Value
      <3> QED
        BY <2>1
    <2>3. Value(k, f[k])
      BY <1>2
    <2>4. Value(k, F[k])
      <3> HIDE DEF Value, F
      <3> QED
        BY <2>2, <2>3
    <2>5. PICK B \in SUBSET D : k \in B /\ Closed(B) /\ \E g : On(g, B) /\ F[k] = g[k]
      <3> HIDE DEF F, Closed, On
      <3> QED
        BY <2>4
    <2>6. PICK g : On(g, B) /\ F[k] = g[k]
      <3> HIDE DEF F, Closed, On
      <3> QED
        BY <2>5
    <2> HIDE DEF F, Closed, On, Good
    <2> QED
      BY <1>1, <1>2, <2>1, <2>5, <2>6
  <1>3. F[nil] = first /\ DOMAIN F = Good \cup {nil} /\ Good \subseteq D
    OBVIOUS
  <1>4. ASSUME NEW k \in Good
        PROVE  next[k] \in Good \cup {nil} /\ F[k] \in V /\ F[k] = step[k][F[next[k]]]
    <2>1. PICK A \in SUBSET D : k \in A /\ Closed(A) /\ \E f : On(f, A)
      BY <1>4
    <2>2. PICK f : On(f, A)
      BY <2>1
    <2>3. F[k] = f[k]
      <3> HIDE DEF F, Closed, On, Good
      <3> QED
        BY <1>2, <2>1, <2>2
    <2>4. CASE next[k] = nil
      <3> HIDE DEF F, Good
      <3> QED
        BY <1>3, <2>1, <2>2, <2>3, <2>4
    <2>5. CASE next[k] \in A
      <3>1. next[k] \in Good /\ F[next[k]] = f[next[k]]
        <4> HIDE DEF F, Closed, On, Good
        <4> QED
          BY <1>2, <2>1, <2>2, <2>5
      <3> HIDE DEF F, Good
      <3> QED
        BY <1>3, <2>1, <2>2, <2>3, <3>1
    <2> QED
      BY <2>1, <2>4, <2>5
  <1>5. On(F, Good) /\ Closed(Good)
    <2>1. F = [k \in Good \cup {nil} |-> F[k]]
      <3> HIDE DEF Good, Value
      <3> QED
        OBVIOUS
    <2> HIDE DEF F, Good
    <2> QED
      BY <1>3, <1>4, <2>1
  <1>6. D \subseteq Good
    <2>1. SUFFICES ASSUME D \ Good # {} PROVE FALSE
      BY <2>1
    <2>2. PICK k \in D \ Good : next[k] \notin D \ Good
      <3> HIDE DEF Good
      <3> QED
        BY <2>1 DEF Ends
    <2> DEFINE A == Good \cup {k}
               g == [j \in A \cup {nil} |-> IF j = k THEN step[k][F[next[k]]] ELSE F[j]]
    <2>3. next[k] \in Good \cup {nil} /\ k # nil
      <3> HIDE DEF Good, F
      <3> QED
        BY <2>2
    <2>4. F[next[k]] \in V /\ step[k][F[next[k]]] \in V
      <3> HIDE DEF Good, F
      <3> QED
        BY <1>3, <1>4, <2>3
    <2>5. On(g, A)
      <3>1. g \in [A \cup {nil} -> V] /\ g[nil] = first
        <4> HIDE DEF Good, F
        <4> QED
          BY <1>3, <1>4, <2>3, <2>4
      <3>2. ASSUME NEW j \in A PROVE g[j] = step[j][g[next[j]]]
        <4>1. CASE j = k
          <5> HIDE DEF Good, F
          <5> QED
            BY <2>2, <2>3, <4>1
        <4>2. CASE j \in Good
          <5>1. next[j] \in Good \cup {nil} /\ F[j] = step[j][F[next[j]]]
            <6> HIDE DEF Good, F
            <6> QED
              BY <1>4, <4>2
          <5> HIDE DEF Good, F
          <5> QED
            BY <2>2, <2>3, <4>2, <5>1
        <4> HIDE DEF Good, F
        <4> QED
          BY <4>1, <4>2
      <3> HIDE DEF g, A
      <3> QED
        BY <3>1, <3>2
    <2>6. Closed(A) /\ k \in A /\ A \in SUBSET D
      <3> HIDE DEF Good, F
      <3> QED
        BY <1>3, <1>4, <2>3
    <2>7. k \in Good
      <3> HIDE DEF F, g, A, On, Closed
      <3> QED
        BY <2>5, <2>6
    <2> QED
      BY <2>7
  <1>7. Good = D
    <2> HIDE DEF Good
    <2> QED
      BY <1>3, <1>6
  <1>8. On(F, D)
    <2> HIDE DEF F, Good, On
    <2> QED
      BY <1>5, <1>7
  <1> QED
    <2> HIDE DEF F, Good
    <2> QED
      BY <1>8 DEF Walks

(* The same in the form that the proofs cite.                              *)
THEOREM WalkExists ==
  \A D, nil, next, V, first, step :
    Walk(D, nil, next, V, first, step) => \E f : Walks(f, D, nil, next, V, first, step)
  <1> TAKE D, nil, next, V, first, step
  <1> HAVE Walk(D, nil, next, V, first, step)
  <1>1. /\ nil \notin D /\ next \in [D -> D \cup {nil}] /\ Ends(next, D)
        /\ first \in V /\ step \in [D -> [V -> V]]
    BY DEF Walk
  <1> QED
    BY <1>1, WalkOnSet

-----------------------------------------------------------------------------
(* Part of a finite set is finite and no larger.                           *)
LEMMA PartSize ==
  ASSUME NEW S, IsFiniteSet(S), NEW T, T \subseteq S
  PROVE  /\ IsFiniteSet(T) /\ Cardinality(T) \in Nat /\ Cardinality(S) \in Nat
         /\ Cardinality(T) <= Cardinality(S)
  <1>1. IsFiniteSet(T) /\ Cardinality(T) <= Cardinality(S)
    BY FS_Subset
  <1>2. Cardinality(T) \in Nat /\ Cardinality(S) \in Nat
    BY <1>1, FS_CardinalityType
  <1> QED
    BY <1>1, <1>2

(* A part that leaves out an element is smaller.                           *)
LEMMA SmallerPart ==
  ASSUME NEW S, IsFiniteSet(S), NEW T, T \subseteq S, NEW x \in S, x \notin T
  PROVE  /\ IsFiniteSet(T) /\ Cardinality(T) \in Nat /\ Cardinality(S) \in Nat
         /\ Cardinality(T) + 1 <= Cardinality(S)
  <1>1. /\ IsFiniteSet(T) /\ Cardinality(T) \in Nat /\ Cardinality(S) \in Nat
        /\ Cardinality(T) <= Cardinality(S)
    BY PartSize
  <1>2. Cardinality(S) # Cardinality(T)
    <2>1. T \in SUBSET S /\ S # T
      OBVIOUS
    <2> QED
      BY <2>1, FS_Subset
  <1> QED
    BY <1>1, <1>2

(* A set covered by two finite ones is no larger than both together.       *)
LEMMA CoveredSize ==
  ASSUME NEW S, IsFiniteSet(S), NEW U, IsFiniteSet(U), NEW T, T \subseteq S \cup U
  PROVE  /\ IsFiniteSet(T) /\ Cardinality(T) \in Nat /\ Cardinality(S) \in Nat
         /\ Cardinality(U) \in Nat
         /\ Cardinality(T) <= Cardinality(S) + Cardinality(U)
  <1>1. /\ IsFiniteSet(S \cup U)
        /\ Cardinality(S \cup U)
             = Cardinality(S) + Cardinality(U) - Cardinality(S \cap U)
    BY FS_Union
  <1>2. S \cap U \subseteq S
    OBVIOUS
  <1>3. Cardinality(S \cap U) \in Nat /\ Cardinality(S) \in Nat
    BY <1>2, PartSize
  <1>4. Cardinality(U) \in Nat
    BY FS_CardinalityType
  <1>5. /\ IsFiniteSet(T) /\ Cardinality(T) \in Nat
        /\ Cardinality(T) <= Cardinality(S \cup U)
    BY <1>1, PartSize
  <1> QED
    BY <1>1, <1>3, <1>4, <1>5

(* The values of a function on a finite set are no more than its arguments. *)
LEMMA ImageSize ==
  ASSUME NEW S, IsFiniteSet(S), NEW f, DOMAIN f = S, NEW T,
         \A t \in T : \E s \in S : f[s] = t
  PROVE  /\ IsFiniteSet(T) /\ Cardinality(T) \in Nat /\ Cardinality(S) \in Nat
         /\ Cardinality(T) <= Cardinality(S)
  <1> DEFINE R == {s \in S : f[s] \in T}
             g == [s \in R |-> f[s]]
  <1>1. R \subseteq S
    OBVIOUS
  <1>2. /\ IsFiniteSet(R) /\ Cardinality(R) \in Nat /\ Cardinality(S) \in Nat
        /\ Cardinality(R) <= Cardinality(S)
    BY <1>1, PartSize
  <1>3. g \in Surjection(R, T)
    BY DEF Surjection
  <1>4. IsFiniteSet(T) /\ Cardinality(T) <= Cardinality(R)
    BY <1>2, <1>3, FS_Surjection
  <1>5. Cardinality(T) \in Nat
    BY <1>4, FS_CardinalityType
  <1> QED
    BY <1>2, <1>4, <1>5

(* What is true before the first step, and after a step when before it, is *)
(* true after the last.                                                    *)
LEMMA ThroughSteps ==
  ASSUME NEW n \in Nat, NEW Good, 0 \in Good, \A k \in 1 .. n : k - 1 \in Good => k \in Good
  PROVE  n \in Good
  <1> DEFINE T == {k \in 0 .. n : k \notin Good}
  <1>1. SUFFICES ASSUME T # {} PROVE FALSE
    <2>1. n \in 0 .. n
      OBVIOUS
    <2> QED
      BY <1>1, <2>1
  <1>2. T \subseteq Nat
    OBVIOUS
  <1> HIDE DEF T
  <1>3. PICK k \in T : \A l \in T : k <= l
    BY <1>1, <1>2, MinimalNat
  <1>4. k \in 0 .. n /\ k \notin Good
    BY <1>3 DEF T
  <1>5. k \in 1 .. n /\ k - 1 \in 0 .. n /\ k - 1 < k
    BY <1>4
  <1>6. k - 1 \notin T
    BY <1>3, <1>4, <1>5
  <1>7. k - 1 \in Good
    BY <1>5, <1>6 DEF T
  <1> QED
    BY <1>4, <1>5, <1>7

(* Two functions that begin alike and go on alike from equal values.       *)
LEMMA SameSteps ==
  ASSUME NEW n \in Nat, NEW f, NEW g, f[0] = g[0],
         \A k \in 1 .. n : f[k - 1] = g[k - 1] => f[k] = g[k]
  PROVE  f[n] = g[n]
  <1> DEFINE Good == {k \in 0 .. n : f[k] = g[k]}
  <1>1. 0 \in Good /\ \A k \in 1 .. n : k - 1 \in Good => k \in Good
    OBVIOUS
  <1> HIDE DEF Good
  <1>2. n \in Good
    BY <1>1, ThroughSteps
  <1> QED
    BY <1>2 DEF Good

=============================================================================
