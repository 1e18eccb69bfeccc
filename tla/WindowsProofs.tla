---------------------------- MODULE WindowsProofs ----------------------------
(***************************************************************************)
(* Proofs about the desktop, for any screen, any places of new windows and *)
(* any sequence of input and frames:                                       *)
(*   - qsort sorts: the windows of a frame, each once, by their zindex;    *)
(*   - IInv is an inductive invariant, of which DesktopOK and ActsOnce are *)
(*     consequences;                                                       *)
(*   - DrawInv, on top of it, gives DrawnInOrder: the jumps that end puts  *)
(*     into the command list lead through the windows in that order;       *)
(*   - PressInv, on top of both, gives RestedPressHitsTop.                 *)
(***************************************************************************)
EXTENDS Windows, Finiteness, FiniteSetTheorems, FunctionTheorems, SequenceTheorems, TLAPS

-----------------------------------------------------------------------------
(* Quicksort                                                               *)

Arrays(n, D) == [1 .. n -> D]

(* b has the items of a, and the same ones at the places S.                *)
Keeps(a, b, S) ==
  /\ \A k \in (DOMAIN a) \ S : b[k] = a[k]
  /\ {b[k] : k \in S} = {a[k] : k \in S}
  /\ IsInjective(a) => IsInjective(b)

Onto(a, b, S) ==
  /\ \A k \in S : \E l \in S : b[k] = a[l]
  /\ \A k \in S : \E l \in S : a[k] = b[l]

LEMMA KeepsOnto == \A a, b, S : Keeps(a, b, S) => Onto(a, b, S)
  <1> SUFFICES ASSUME NEW a, NEW b, NEW S, Keeps(a, b, S) PROVE Onto(a, b, S)
    OBVIOUS
  <1> DEFINE A == {a[k] : k \in S}
             B == {b[k] : k \in S}
  <1>1. A = B
    BY DEF Keeps
  <1>2. \A k \in S : a[k] \in A /\ b[k] \in B
    OBVIOUS
  <1>3. (\A x \in A : \E l \in S : x = a[l]) /\ (\A x \in B : \E l \in S : x = b[l])
    OBVIOUS
  <1> HIDE DEF A, B
  <1> QED
    BY <1>1, <1>2, <1>3 DEF Onto

LEMMA KeepsMore ==
  ASSUME NEW n, NEW D, NEW a \in Arrays(n, D), NEW b, NEW S, NEW T, S \subseteq T,
         T \subseteq 1 .. n, Keeps(a, b, S)
  PROVE  Keeps(a, b, T)
  <1>1. DOMAIN a = 1 .. n
    BY DEF Arrays
  <1>2. \A k \in T \ S : b[k] = a[k]
    BY <1>1 DEF Keeps
  <1>3. /\ \A k \in T : \E l \in T : b[k] = a[l]
        /\ \A k \in T : \E l \in T : a[k] = b[l]
    <2>1. Onto(a, b, S)
      BY KeepsOnto
    <2> QED
      BY <1>2, <2>1 DEF Onto
  <1>4. {b[k] : k \in T} = {a[k] : k \in T}
    BY <1>3
  <1> QED
    BY <1>4 DEF Keeps

LEMMA KeepsTrans ==
  ASSUME NEW n, NEW D, NEW a \in Arrays(n, D), NEW b \in Arrays(n, D), NEW c, NEW S,
         S \subseteq 1 .. n, Keeps(a, b, S), Keeps(b, c, S)
  PROVE  Keeps(a, c, S)
  <1>1. DOMAIN a = DOMAIN b
    BY DEF Arrays
  <1> QED
    BY <1>1 DEF Keeps

LEMMA KeepsItself == ASSUME NEW a, NEW S PROVE Keeps(a, a, S)
  BY DEF Keeps

(* Two items change places.                                                *)
Swap(a, b, p, q, n) ==
  /\ b[p] = a[q] /\ b[q] = a[p]
  /\ \A k \in 1 .. n : k # p /\ k # q => b[k] = a[k]

LEMMA SwapKeeps ==
  ASSUME NEW n, NEW D, NEW a \in Arrays(n, D), NEW i, NEW j,
         i + 1 \in 1 .. n, j + 1 \in 1 .. n
  PROVE  /\ Swapped(a, i, j) \in Arrays(n, D)
         /\ Keeps(a, Swapped(a, i, j), {i + 1, j + 1})
         /\ Swap(a, Swapped(a, i, j), i + 1, j + 1, n)
  <1> DEFINE p == i + 1
             q == j + 1
             b == [a EXCEPT ![p] = a[q], ![q] = a[p]]
  <1>1. Swapped(a, i, j) = b /\ p \in 1 .. n /\ q \in 1 .. n
    BY DEF Swapped
  <1> HIDE DEF p, q
  <1>2. a \in [1 .. n -> D]
    BY DEF Arrays
  <1>3. /\ b \in [1 .. n -> D] /\ b[p] = a[q] /\ b[q] = a[p]
        /\ \A k \in 1 .. n : k # p /\ k # q => b[k] = a[k]
    BY <1>1, <1>2
  <1> HIDE DEF b
  <1>4. {b[k] : k \in {p, q}} = {a[k] : k \in {p, q}}
    BY <1>3
  <1>5. ASSUME IsInjective(a) PROVE IsInjective(b)
    <2>1. \A k, l \in 1 .. n : a[k] = a[l] => k = l
      BY <1>2, <1>5 DEF IsInjective
    <2>2. \A k, l \in 1 .. n : b[k] = b[l] => k = l
      BY <1>1, <1>3, <2>1
    <2> QED
      BY <1>3, <2>2 DEF IsInjective
  <1>6. Keeps(a, b, {p, q})
    BY <1>2, <1>3, <1>4, <1>5 DEF Keeps
  <1> QED
    BY <1>1, <1>3, <1>6 DEF p, q, Arrays, Swap

(* What the loop of partition has done after k of its steps.               *)
Lows(low, a, lo, hi, z) ==
  low = [k \in 0 .. hi - lo |->
          IF k = 0 THEN [a |-> a, i |-> lo - 1]
          ELSE LET r == low[k - 1] IN
               IF z[r.a[lo + k]] < z[a[hi + 1]]
               THEN [a |-> Swapped(r.a, r.i + 1, lo + k - 1), i |-> r.i + 1] ELSE r]

(* One step, with its array and index.                                     *)
LowStep(r, s, k, lo, x, z) ==
  \/ /\ z[r.a[lo + k]] < x
     /\ s.a = Swapped(r.a, r.i + 1, lo + k - 1) /\ s.i = r.i + 1
  \/ /\ ~(z[r.a[lo + k]] < x)
     /\ s.a = r.a /\ s.i = r.i

Under(r, k, a, lo, hi, z, n, D) ==
  /\ r.a \in Arrays(n, D) /\ r.i \in lo - 1 .. lo + k - 1
  /\ Keeps(a, r.a, lo + 1 .. hi)
  /\ \A m \in lo + 1 .. r.i + 1 : z[r.a[m]] < z[a[hi + 1]]
  /\ \A m \in r.i + 2 .. lo + k : ~(z[r.a[m]] < z[a[hi + 1]])

Stretch(n, lo, hi) == n \in Nat /\ lo \in Nat /\ hi \in Nat /\ lo < hi /\ hi < n

LEMMA LowFirst ==
  ASSUME NEW n, NEW D, NEW lo, NEW hi, Stretch(n, lo, hi), NEW a \in Arrays(n, D), NEW z,
         NEW r, r.a = a, r.i = lo - 1
  PROVE  Under(r, 0, a, lo, hi, z, n, D)
  BY KeepsItself DEF Under, Stretch

LEMMA LowNext ==
  ASSUME NEW n, NEW D, NEW lo, NEW hi, Stretch(n, lo, hi), NEW a \in Arrays(n, D),
         NEW z, NEW k \in 1 .. hi - lo, NEW r, Under(r, k - 1, a, lo, hi, z, n, D),
         NEW s, LowStep(r, s, k, lo, z[a[hi + 1]], z)
  PROVE  Under(s, k, a, lo, hi, z, n, D)
  <1> DEFINE x == z[a[hi + 1]]
             S == lo + 1 .. hi
  <1>0. /\ n \in Nat /\ lo \in Nat /\ hi \in Nat /\ lo < hi /\ hi < n /\ k \in Nat
        /\ k >= 1 /\ k <= hi - lo
    BY DEF Stretch
  <1>1. /\ r.a \in Arrays(n, D) /\ r.i \in lo - 1 .. lo + (k - 1) - 1 /\ Keeps(a, r.a, S)
        /\ \A m \in lo + 1 .. r.i + 1 : z[r.a[m]] < x
        /\ \A m \in r.i + 2 .. lo + (k - 1) : ~(z[r.a[m]] < x)
    BY DEF Under
  <1>1a. r.a \in Arrays(n, D) /\ r.i \in Int /\ lo - 1 <= r.i /\ r.i <= lo + (k - 1) - 1
    <2>1. r.a \in Arrays(n, D) /\ r.i \in lo - 1 .. lo + (k - 1) - 1
      BY <1>1
    <2> QED
      BY <1>0, <2>1
  <1>2. LowStep(r, s, k, lo, x, z)
    OBVIOUS
  <1>3. S \subseteq 1 .. n
    BY <1>0
  <1> HIDE DEF x
  <1>4. CASE z[r.a[lo + k]] < x
    <2> DEFINE i == r.i + 1
               j == lo + k - 1
               b == Swapped(r.a, i, j)
    <2>1. s.a = b /\ s.i = i
      BY <1>2, <1>4 DEF LowStep
    <2>2. /\ i \in lo .. lo + k - 1 /\ i + 1 \in S /\ j + 1 \in S /\ i <= j /\ i \in Int
          /\ i + 1 \in 1 .. n /\ j + 1 \in 1 .. n /\ j + 1 = lo + k /\ j \in Int
      BY <1>0, <1>1a
    <2>2a. i = r.i + 1 /\ lo <= i /\ i <= lo + k - 1 /\ i \in Int /\ r.i \in Int
      BY <1>0, <1>1a
    <2> HIDE DEF i, j
    <2>3. /\ b \in Arrays(n, D) /\ Keeps(r.a, b, {i + 1, j + 1})
          /\ b[i + 1] = r.a[j + 1] /\ b[j + 1] = r.a[i + 1]
          /\ \A m \in 1 .. n : m # i + 1 /\ m # j + 1 => b[m] = r.a[m]
      <3>1. b \in Arrays(n, D) /\ Keeps(r.a, b, {i + 1, j + 1})
            /\ Swap(r.a, b, i + 1, j + 1, n)
        BY <1>1a, <2>2, SwapKeeps
      <3> QED
        BY <3>1 DEF Swap
    <2> HIDE DEF b
    <2>4. Keeps(r.a, b, S)
      <3>1. {i + 1, j + 1} \subseteq S
        BY <2>2
      <3> HIDE DEF S
      <3> QED
        BY <1>1, <1>3, <2>3, <3>1, KeepsMore
    <2>5. Keeps(a, b, S)
      <3> HIDE DEF S
      <3> QED
        BY <1>1, <1>3, <2>4, KeepsTrans
    <2>6. ASSUME NEW m \in lo + 1 .. i + 1 PROVE z[b[m]] < x
      <3>1. CASE m = i + 1
        BY <1>4, <2>2, <2>3, <3>1
      <3>2. CASE m # i + 1
        <4>1. m \in lo + 1 .. r.i + 1 /\ m \in 1 .. n /\ m # j + 1
          BY <1>0, <2>2, <2>2a, <3>2
        <4> QED
          BY <1>1, <2>3, <3>2, <4>1
      <3> QED
        BY <3>1, <3>2
    <2>7. ASSUME NEW m \in i + 2 .. lo + k PROVE ~(z[b[m]] < x)
      <3>1. CASE m = j + 1
        <4>1. i + 1 \in r.i + 2 .. lo + (k - 1)
          BY <1>0, <2>2, <2>2a, <3>1
        <4> QED
          BY <1>1, <2>3, <3>1, <4>1
      <3>2. CASE m # j + 1
        <4>1. m \in r.i + 2 .. lo + (k - 1) /\ m \in 1 .. n /\ m # i + 1
          BY <1>0, <2>2, <2>2a, <3>2
        <4> QED
          BY <1>1, <2>3, <3>2, <4>1
      <3> QED
        BY <3>1, <3>2
    <2>8. s.i \in lo - 1 .. lo + k - 1 /\ s.i + 1 = i + 1 /\ s.i + 2 = i + 2
      BY <1>0, <2>1, <2>2
    <2> QED
      BY <2>1, <2>3, <2>5, <2>6, <2>7, <2>8 DEF Under, x
  <1>5. CASE ~(z[r.a[lo + k]] < x)
    <2>1. s.a = r.a /\ s.i = r.i
      BY <1>2, <1>5 DEF LowStep
    <2>2. ASSUME NEW m \in r.i + 2 .. lo + k PROVE ~(z[r.a[m]] < x)
      <3>1. m = lo + k \/ m \in r.i + 2 .. lo + (k - 1)
        BY <1>0, <1>1
      <3> QED
        BY <1>1, <1>5, <3>1
    <2>3. r.i \in lo - 1 .. lo + k - 1
      BY <1>0, <1>1
    <2> QED
      BY <1>1, <2>1, <2>2, <2>3 DEF Under, x
  <1> QED
    BY <1>4, <1>5

LEMMA AllUnder ==
  ASSUME NEW n, NEW D, NEW lo, NEW hi, Stretch(n, lo, hi), NEW a \in Arrays(n, D), NEW z,
         NEW g, Under(g[0], 0, a, lo, hi, z, n, D),
         \A k \in 1 .. hi - lo : Under(g[k - 1], k - 1, a, lo, hi, z, n, D)
                                   => LowStep(g[k - 1], g[k], k, lo, z[a[hi + 1]], z)
  PROVE  \A k \in 0 .. hi - lo : Under(g[k], k, a, lo, hi, z, n, D)
  <1> DEFINE Ok(k) == Under(g[k], k, a, lo, hi, z, n, D)
             T == {k \in 0 .. hi - lo : ~Ok(k)}
  <1>0. lo \in Nat /\ hi \in Nat /\ lo < hi
    BY DEF Stretch
  <1>1. Ok(0)
    OBVIOUS
  <1>2. ASSUME NEW k \in 1 .. hi - lo, Ok(k - 1) PROVE Ok(k)
    <2>1. LowStep(g[k - 1], g[k], k, lo, z[a[hi + 1]], z)
      BY <1>2
    <2> QED
      BY <1>2, <2>1, LowNext
  <1> HIDE DEF Ok
  <1>3. ASSUME T # {} PROVE FALSE
    <2>1. PICK k \in T : \A l \in T : k <= l
      <3>1. T \subseteq Nat
        BY <1>0
      <3> HIDE DEF T
      <3> QED
        BY <1>3, <3>1, MinimalNat
    <2>2. k \in 0 .. hi - lo /\ ~Ok(k)
      BY <2>1
    <2>3. k \in 1 .. hi - lo /\ k - 1 \in 0 .. hi - lo /\ ~(k <= k - 1)
      BY <1>0, <1>1, <2>2
    <2>4. k - 1 \notin T
      BY <2>1, <2>3
    <2>5. Ok(k - 1)
      BY <2>3, <2>4
    <2> QED
      BY <1>2, <2>2, <2>3, <2>5
  <1>4. \A k \in 0 .. hi - lo : Ok(k)
    BY <1>3
  <1> QED
    BY <1>4 DEF Ok

LEMMA LowsExist ==
  ASSUME NEW n, NEW D, NEW lo, NEW hi, Stretch(n, lo, hi), NEW a \in Arrays(n, D), NEW z
  PROVE  \E low : Lows(low, a, lo, hi, z)
  <1> DEFINE A == Arrays(n, D)
             V == [a : A, i : lo - 1 .. hi - 1]
             x == z[a[hi + 1]]
             m == hi - lo
             first == [a |-> a, i |-> lo - 1]
             moved(r, k) == [a |-> Swapped(r.a, r.i + 1, lo + k - 1), i |-> r.i + 1]
             go(r, k) == z[r.a[lo + k]] < x
             next(r, k) == IF go(r, k) /\ r.i + 1 <= hi - 1 THEN moved(r, k) ELSE r
             step == [k \in 1 .. m |-> [r \in V |-> next(r, k)]]
  <1>0. /\ n \in Nat /\ lo \in Nat /\ hi \in Nat /\ lo < hi /\ hi < n /\ m \in Nat
        /\ lo - 1 \in lo - 1 .. hi - 1
    BY DEF Stretch
  <1>1. first \in V
    BY <1>0
  <1>2. ASSUME NEW k \in 1 .. m, NEW r \in V PROVE next(r, k) \in V
    <2>1. CASE go(r, k) /\ r.i + 1 <= hi - 1
      <3>1. r.i \in lo - 1 .. hi - 1 /\ r.a \in A
        OBVIOUS
      <3> DEFINE i == r.i + 1
                 j == lo + k - 1
      <3>2. i \in lo - 1 .. hi - 1 /\ i + 1 \in 1 .. n /\ j + 1 \in 1 .. n
        BY <1>0, <2>1, <3>1
      <3> HIDE DEF i, j
      <3>3. Swapped(r.a, i, j) \in Arrays(n, D)
        BY <3>1, <3>2, SwapKeeps
      <3>4. moved(r, k) = [a |-> Swapped(r.a, i, j), i |-> i]
        BY DEF i, j
      <3> HIDE DEF moved, go
      <3> QED
        BY <2>1, <3>2, <3>3, <3>4
    <2>2. CASE ~(go(r, k) /\ r.i + 1 <= hi - 1)
      BY <2>2
    <2> QED
      BY <2>1, <2>2
  <1> HIDE DEF next, first
  <1>3. step \in [1 .. m -> [V -> V]] /\ \A k \in 1 .. m : \A r \in V : step[k][r] = next(r, k)
    <2> HIDE DEF V, m
    <2> QED
      BY <1>2
  <1> HIDE DEF step, V
  <1>4. Recursion(V, first, m, step)
    BY <1>0, <1>1, <1>3 DEF Recursion
  <1>5. PICK f : Solves(f, V, first, m, step)
    BY <1>4, RecursionExists
  <1>6. /\ f \in [0 .. m -> V] /\ f[0] = first
        /\ \A k \in 1 .. m : f[k] = next(f[k - 1], k)
    <2>1. /\ f \in [0 .. m -> V] /\ f[0] = first
          /\ \A k \in 1 .. m : f[k] = step[k][f[k - 1]]
      BY <1>5 DEF Solves
    <2>2. \A k \in 1 .. m : k - 1 \in 0 .. m
      BY <1>0
    <2> HIDE DEF m
    <2> QED
      BY <1>3, <2>1, <2>2
  <1>7. ASSUME NEW k \in 1 .. m, Under(f[k - 1], k - 1, a, lo, hi, z, n, D)
        PROVE  f[k] = IF go(f[k - 1], k) THEN moved(f[k - 1], k) ELSE f[k - 1]
    <2> DEFINE r == f[k - 1]
    <2>1. r.i \in lo - 1 .. lo + (k - 1) - 1
      BY <1>7 DEF Under
    <2>2. r.i + 1 <= hi - 1
      BY <1>0, <2>1
    <2>3. f[k] = next(r, k)
      BY <1>6
    <2> HIDE DEF r, go, moved
    <2>4. f[k] = IF go(r, k) THEN moved(r, k) ELSE r
      BY <2>2, <2>3 DEF next
    <2> QED
      BY <2>4 DEF r
  <1>8. \A k \in 0 .. m : Under(f[k], k, a, lo, hi, z, n, D)
    <2>1. Under(f[0], 0, a, lo, hi, z, n, D)
      BY <1>6, LowFirst DEF first
    <2>2. ASSUME NEW k \in 1 .. m, Under(f[k - 1], k - 1, a, lo, hi, z, n, D)
          PROVE  LowStep(f[k - 1], f[k], k, lo, x, z)
      <3>1. CASE go(f[k - 1], k)
        <4>1. f[k] = moved(f[k - 1], k)
          BY <1>7, <2>2, <3>1
        <4> QED
          BY <3>1, <4>1 DEF LowStep
      <3>2. CASE ~go(f[k - 1], k)
        <4>1. f[k] = f[k - 1]
          BY <1>7, <2>2, <3>2
        <4> QED
          BY <3>2, <4>1 DEF LowStep
      <3> QED
        BY <3>1, <3>2
    <2> QED
      BY <2>1, <2>2, AllUnder
  <1>9. \A k \in 1 .. m : f[k] = IF go(f[k - 1], k) THEN moved(f[k - 1], k) ELSE f[k - 1]
    <2> TAKE k \in 1 .. m
    <2>1. k - 1 \in 0 .. m
      BY <1>0
    <2> QED
      BY <1>7, <1>8, <2>1
  <1>10. f = [k \in 0 .. m |-> IF k = 0 THEN first
                              ELSE IF go(f[k - 1], k) THEN moved(f[k - 1], k) ELSE f[k - 1]]
    <2>1. \A k \in 0 .. m : k = 0 \/ k \in 1 .. m
      BY <1>0
    <2> HIDE DEF m, go, moved
    <2> QED
      BY <1>6, <1>9, <2>1
  <1> QED
    BY <1>10 DEF Lows, first

(* What partition does: the items below one of them go before it, the      *)
(* others behind.                                                          *)
Parted(a, p, lo, hi, z, n, D) ==
  /\ p.a \in Arrays(n, D) /\ p.i \in lo .. hi
  /\ Keeps(a, p.a, lo + 1 .. hi + 1)
  /\ \A m \in lo + 1 .. p.i : z[p.a[m]] < z[p.a[p.i + 1]]
  /\ \A m \in p.i + 2 .. hi + 1 : ~(z[p.a[m]] < z[p.a[p.i + 1]])

LEMMA PartitionParts ==
  ASSUME NEW n, NEW D, NEW lo, NEW hi, Stretch(n, lo, hi), NEW a \in Arrays(n, D), NEW z
  PROVE  Parted(a, partition(a, lo, hi, z), lo, hi, z, n, D)
  <1> DEFINE low == CHOOSE low : Lows(low, a, lo, hi, z)
             r == low[hi - lo]
             p == partition(a, lo, hi, z)
             S == lo + 1 .. hi + 1
  <1>0. /\ n \in Nat /\ lo \in Nat /\ hi \in Nat /\ lo < hi /\ hi < n
        /\ 0 \in 0 .. hi - lo /\ hi - lo \in 0 .. hi - lo
    BY DEF Stretch
  <1>1. p = [a |-> Swapped(r.a, r.i + 1, hi), i |-> r.i + 1]
    BY DEF partition, Lows
  <1>2. Lows(low, a, lo, hi, z)
    BY LowsExist
  <1> HIDE DEF low, p
  <1>3. low[0] = [a |-> a, i |-> lo - 1]
    BY <1>0, <1>2 DEF Lows
  <1>4. ASSUME NEW k \in 1 .. hi - lo
        PROVE  low[k] = IF z[low[k - 1].a[lo + k]] < z[a[hi + 1]]
                        THEN [a |-> Swapped(low[k - 1].a, low[k - 1].i + 1, lo + k - 1),
                              i |-> low[k - 1].i + 1]
                        ELSE low[k - 1]
    <2>1. k \in 0 .. hi - lo /\ k # 0
      BY <1>0
    <2> QED
      BY <1>2, <2>1 DEF Lows
  <1>5. ASSUME NEW k \in 1 .. hi - lo
        PROVE  LowStep(low[k - 1], low[k], k, lo, z[a[hi + 1]], z)
    <2>1. CASE z[low[k - 1].a[lo + k]] < z[a[hi + 1]]
      <3>1. low[k] = [a |-> Swapped(low[k - 1].a, low[k - 1].i + 1, lo + k - 1),
                      i |-> low[k - 1].i + 1]
        BY <1>4, <2>1
      <3> QED
        BY <2>1, <3>1 DEF LowStep
    <2>2. CASE ~(z[low[k - 1].a[lo + k]] < z[a[hi + 1]])
      <3>1. low[k] = low[k - 1]
        BY <1>4, <2>2
      <3> QED
        BY <2>2, <3>1 DEF LowStep
    <2> QED
      BY <2>1, <2>2
  <1>6. Under(r, hi - lo, a, lo, hi, z, n, D)
    <2>1. Under(low[0], 0, a, lo, hi, z, n, D)
      BY <1>3, LowFirst
    <2>2. \A k \in 0 .. hi - lo : Under(low[k], k, a, lo, hi, z, n, D)
      BY <1>5, <2>1, AllUnder
    <2> QED
      BY <1>0, <2>2
  <1> HIDE DEF r
  <1> DEFINE i == r.i + 1
             x == z[a[hi + 1]]
  <1>7. /\ r.a \in Arrays(n, D) /\ Keeps(a, r.a, lo + 1 .. hi)
        /\ \A m \in lo + 1 .. r.i + 1 : z[r.a[m]] < x
        /\ \A m \in r.i + 2 .. lo + (hi - lo) : ~(z[r.a[m]] < x)
    BY <1>6 DEF Under
  <1>8. /\ i \in lo .. hi /\ i \in Int /\ r.i + 2 = i + 1 /\ lo + (hi - lo) = hi
        /\ i + 1 \in 1 .. n /\ hi + 1 \in 1 .. n /\ i + 1 \in S /\ hi + 1 \in S
        /\ hi + 1 \notin lo + 1 .. hi
    <2>1. r.i \in lo - 1 .. lo + (hi - lo) - 1
      BY <1>6 DEF Under
    <2> QED
      BY <1>0, <2>1
  <1>9. /\ \A m \in lo + 1 .. i : z[r.a[m]] < x
        /\ \A m \in i + 1 .. hi : ~(z[r.a[m]] < x)
    BY <1>7, <1>8
  <1> DEFINE b == Swapped(r.a, i, hi)
  <1>10. p.a = b /\ p.i = i
    BY <1>1
  <1> HIDE DEF i, x
  <1>11. b \in Arrays(n, D) /\ Keeps(r.a, b, {i + 1, hi + 1}) /\ Swap(r.a, b, i + 1, hi + 1, n)
    BY <1>7, <1>8, SwapKeeps
  <1> HIDE DEF b
  <1>12. Keeps(a, b, S)
    <2>1. lo + 1 .. hi \subseteq S /\ S \subseteq 1 .. n /\ {i + 1, hi + 1} \subseteq S
      BY <1>0, <1>8
    <2> DEFINE R == lo + 1 .. hi
               Q == {i + 1, hi + 1}
    <2>2. R \subseteq S /\ S \subseteq 1 .. n /\ Q \subseteq S /\ Keeps(a, r.a, R) /\ Keeps(r.a, b, Q)
      BY <1>7, <1>11, <2>1
    <2> HIDE DEF R, Q, S
    <2>3. Keeps(a, r.a, S)
      BY <1>7, <2>2, KeepsMore
    <2>4. Keeps(r.a, b, S)
      BY <1>7, <2>2, KeepsMore
    <2> QED
      BY <1>7, <1>11, <2>2, <2>3, <2>4, KeepsTrans
  <1>13. z[b[i + 1]] = x
    <2>1. r.a[hi + 1] = a[hi + 1]
      <3>1. DOMAIN a = 1 .. n
        BY DEF Arrays
      <3> QED
        BY <1>7, <1>8, <3>1 DEF Keeps
    <2> QED
      BY <1>11, <2>1 DEF Swap, x
  <1>14. ASSUME NEW m \in lo + 1 .. i PROVE z[b[m]] < x
    <2>1. m \in 1 .. n /\ m # i + 1 /\ m # hi + 1
      BY <1>0, <1>8
    <2> QED
      BY <1>9, <1>11, <2>1 DEF Swap
  <1>15. ASSUME NEW m \in i + 2 .. hi + 1 PROVE ~(z[b[m]] < x)
    <2>1. CASE m = hi + 1
      <3>1. i + 1 \in i + 1 .. hi
        BY <1>0, <1>8, <2>1
      <3> QED
        BY <1>9, <1>11, <2>1, <3>1 DEF Swap
    <2>2. CASE m # hi + 1
      <3>1. m \in i + 1 .. hi /\ m \in 1 .. n /\ m # i + 1
        BY <1>0, <1>8, <2>2
      <3> QED
        BY <1>9, <1>11, <2>2, <3>1 DEF Swap
    <2> QED
      BY <2>1, <2>2
  <1>16. \A m \in lo + 1 .. i : z[b[m]] < z[b[i + 1]]
    BY <1>13, <1>14
  <1>17. \A m \in i + 2 .. hi + 1 : ~(z[b[m]] < z[b[i + 1]])
    BY <1>13, <1>15
  <1>18. i \in lo .. hi
    BY <1>8
  <1> HIDE DEF S
  <1> QED
    BY <1>10, <1>11, <1>12, <1>16, <1>17, <1>18 DEF Parted, S, p

(* The calls qsort makes of itself.                                        *)
Calls(n, D) == [a : [1 .. n -> D], lo : 0 .. n, hi : -1 .. n - 1]
LowCall(q, z) ==
  LET p == partition(q.a, q.lo, q.hi, z) IN [a |-> p.a, lo |-> q.lo, hi |-> p.i - 1]
HighCall(q, b, z) ==
  LET p == partition(q.a, q.lo, q.hi, z) IN [a |-> b, lo |-> p.i + 1, hi |-> q.hi]
Body(F, q, z) ==
  IF q.lo >= q.hi THEN q.a ELSE F[HighCall(q, F[LowCall(q, z)], z)]
IsSort(F, n, D, z) == F = [q \in Calls(n, D) |-> Body(F, q, z)]

LEMMA CallParts ==
  ASSUME NEW n \in Nat, NEW D, NEW z, NEW q \in Calls(n, D), ~(q.lo >= q.hi)
  PROVE  /\ q.a \in Arrays(n, D) /\ Stretch(n, q.lo, q.hi)
         /\ Parted(q.a, partition(q.a, q.lo, q.hi, z), q.lo, q.hi, z, n, D)
  <1>1. q.a \in Arrays(n, D) /\ q.lo \in 0 .. n /\ q.hi \in -1 .. n - 1
    BY DEF Calls, Arrays
  <1>2. Stretch(n, q.lo, q.hi)
    BY <1>1 DEF Stretch
  <1> QED
    BY <1>1, <1>2, PartitionParts

Smaller(r, q) == r.hi - r.lo < q.hi - q.lo

LEMMA CallsShrink ==
  ASSUME NEW n \in Nat, NEW D, NEW z, NEW q \in Calls(n, D), ~(q.lo >= q.hi)
  PROVE  /\ LowCall(q, z) \in Calls(n, D) /\ Smaller(LowCall(q, z), q)
         /\ \A b \in Arrays(n, D) : /\ HighCall(q, b, z) \in Calls(n, D)
                                    /\ Smaller(HighCall(q, b, z), q)
  <1> DEFINE p == partition(q.a, q.lo, q.hi, z)
  <1>1. /\ p.a \in Arrays(n, D) /\ p.i \in q.lo .. q.hi
        /\ q.lo \in Nat /\ q.hi \in Nat /\ q.lo < q.hi /\ q.hi < n
    BY CallParts DEF Parted, Stretch
  <1>2. LowCall(q, z) = [a |-> p.a, lo |-> q.lo, hi |-> p.i - 1]
    BY DEF LowCall
  <1>3. \A b : HighCall(q, b, z) = [a |-> b, lo |-> p.i + 1, hi |-> q.hi]
    BY DEF HighCall
  <1> HIDE DEF p
  <1>4. p.i - 1 \in -1 .. n - 1 /\ p.i + 1 \in 0 .. n /\ q.lo \in 0 .. n /\ q.hi \in -1 .. n - 1
        /\ (p.i - 1) - q.lo < q.hi - q.lo /\ q.hi - (p.i + 1) < q.hi - q.lo
    BY <1>1
  <1>5. LowCall(q, z) \in Calls(n, D) /\ Smaller(LowCall(q, z), q)
    BY <1>1, <1>2, <1>4 DEF Calls, Arrays, Smaller
  <1>6. ASSUME NEW b \in Arrays(n, D)
        PROVE  HighCall(q, b, z) \in Calls(n, D) /\ Smaller(HighCall(q, b, z), q)
    BY <1>1, <1>3, <1>4 DEF Calls, Arrays, Smaller
  <1> QED
    BY <1>5, <1>6

(* There is such a function: n + 2 rounds of the body reach it.            *)
LEMMA SortExists ==
  ASSUME NEW n \in Nat, NEW D, NEW z
  PROVE  \E F : IsSort(F, n, D, z)
  <1> DEFINE C == Calls(n, D)
             V == [C -> Arrays(n, D)]
             first == [q \in C |-> q.a]
             once(F) == [q \in C |-> Body(F, q, z)]
             m == n + 1
             step == [k \in 1 .. m |-> [F \in V |-> once(F)]]
  <1>1. first \in V
    BY DEF Calls, Arrays
  <1>2. ASSUME NEW F \in V PROVE once(F) \in V
    <2> SUFFICES ASSUME NEW q \in C PROVE Body(F, q, z) \in Arrays(n, D)
      OBVIOUS
    <2>1. CASE q.lo >= q.hi
      BY <2>1 DEF Body, Calls, Arrays
    <2>2. CASE ~(q.lo >= q.hi)
      <3>1. LowCall(q, z) \in C
        BY <2>2, CallsShrink
      <3> DEFINE b == F[LowCall(q, z)]
      <3>2. b \in Arrays(n, D)
        BY <3>1
      <3>3. HighCall(q, b, z) \in C
        BY <2>2, <3>2, CallsShrink
      <3> HIDE DEF C
      <3> QED
        BY <2>2, <3>3 DEF Body
    <2> QED
      BY <2>1, <2>2
  <1>2a. \A F : \A q \in C : once(F)[q] = Body(F, q, z)
    OBVIOUS
  <1>2b. \A F : once(F) = [q \in C |-> Body(F, q, z)]
    OBVIOUS
  <1> HIDE DEF once
  <1>3. step \in [1 .. m -> [V -> V]] /\ \A k \in 1 .. m : \A F \in V : step[k][F] = once(F)
    <2> HIDE DEF V, m
    <2> QED
      BY <1>2
  <1>3a. m \in Nat
    OBVIOUS
  <1> HIDE DEF step, V, first
  <1>4. Recursion(V, first, m, step)
    BY <1>1, <1>3, <1>3a DEF Recursion
  <1>5. PICK f : Solves(f, V, first, m, step)
    BY <1>4, RecursionExists
  <1>6. /\ f \in [0 .. m -> V] /\ f[0] = first
        /\ \A k \in 1 .. m : f[k] = once(f[k - 1])
    <2>1. /\ f \in [0 .. m -> V] /\ f[0] = first
          /\ \A k \in 1 .. m : f[k] = step[k][f[k - 1]]
      BY <1>5 DEF Solves
    <2>2. \A k \in 1 .. m : k - 1 \in 0 .. m
      BY <1>3a
    <2> HIDE DEF m
    <2> QED
      BY <1>3, <2>1, <2>2
  <1> DEFINE Stable(k) == \A q \in C : q.hi - q.lo < k => f[k][q] = f[k - 1][q]
             T == {k \in Nat : k \in 1 .. m /\ ~Stable(k)}
  <1>7. ASSUME T # {} PROVE FALSE
    <2>1. PICK k \in T : \A l \in T : k <= l
      <3>1. T \subseteq Nat
        OBVIOUS
      <3> HIDE DEF T
      <3> QED
        BY <1>7, <3>1, MinimalNat
    <2>2. k \in 1 .. m /\ ~Stable(k) /\ k \in Nat
      BY <2>1
    <2>3. k = 1 \/ (k - 1 \in 1 .. m /\ Stable(k - 1))
      <3> HIDE DEF Stable
      <3>1. k = 1 \/ (k - 1 \in 1 .. m /\ k - 1 \in Nat /\ ~(k <= k - 1))
        BY <1>3a, <2>2
      <3> QED
        BY <2>1, <3>1
    <2>4. PICK q \in C : q.hi - q.lo < k /\ f[k][q] # f[k - 1][q]
      BY <2>2
    <2>5. f[k][q] = Body(f[k - 1], q, z)
      BY <1>2a, <1>6, <2>2
    <2>6. CASE k = 1
      <3>1. q.lo >= q.hi
        <4>1. q.lo \in Int /\ q.hi \in Int /\ q.hi - q.lo < 1
          BY <2>4, <2>6 DEF Calls
        <4> QED
          BY <4>1
      <3>2. f[k][q] = q.a
        BY <2>5, <3>1 DEF Body
      <3>3. f[k - 1] = first
        BY <1>6, <2>6
      <3>4. first[q] = q.a
        BY DEF first
      <3> QED
        BY <2>4, <3>2, <3>3, <3>4
    <2>7. CASE k # 1
      <3>1. k - 1 \in 1 .. m /\ Stable(k - 1) /\ k - 2 \in 0 .. m /\ (k - 1) - 1 = k - 2
            /\ k - 1 \in 0 .. m
        BY <1>3a, <2>2, <2>3, <2>7
      <3>2. f[k - 1][q] = Body(f[k - 2], q, z)
        BY <1>2a, <1>6, <3>1
      <3>3. CASE q.lo >= q.hi
        BY <2>4, <2>5, <3>2, <3>3 DEF Body
      <3>4. CASE ~(q.lo >= q.hi)
        <4> DEFINE L == LowCall(q, z)
                   b == f[k - 1][L]
                   H == HighCall(q, b, z)
                   g == f[k - 1]
                   h == f[k - 2]
        <4>1. L \in C /\ Smaller(L, q)
          BY <3>4, CallsShrink
        <4>2. \A r \in C : Smaller(r, q) => g[r] = h[r]
          <5> SUFFICES ASSUME NEW r \in C, Smaller(r, q) PROVE g[r] = h[r]
            OBVIOUS
          <5>1. r.hi - r.lo < k - 1
            <6>1. r.hi \in Int /\ r.lo \in Int /\ q.hi \in Int /\ q.lo \in Int
              BY DEF Calls
            <6> QED
              BY <2>2, <2>4, <6>1 DEF Smaller
          <5> QED
            BY <3>1, <5>1
        <4>3. b = h[L]
          BY <4>1, <4>2
        <4>4. b \in Arrays(n, D)
          <5>1. g \in V
            BY <1>6, <3>1
          <5> QED
            BY <4>1, <5>1 DEF V
        <4>5. H \in C /\ Smaller(H, q)
          BY <3>4, <4>4, CallsShrink
        <4>6. g[H] = h[H]
          BY <4>2, <4>5
        <4>7. f[k][q] = g[H]
          BY <2>5, <3>4 DEF Body
        <4>8. f[k - 1][q] = h[HighCall(q, h[L], z)]
          BY <3>2, <3>4 DEF Body
        <4> HIDE DEF L, g, h
        <4> QED
          BY <2>4, <4>3, <4>6, <4>7, <4>8
      <3> QED
        BY <3>3, <3>4
    <2> QED
      BY <2>6, <2>7
  <1>8. m \in 1 .. m /\ m - 1 \in 0 .. m /\ m \in 0 .. m
    BY <1>3a
  <1>9. Stable(m)
    BY <1>3a, <1>7, <1>8
  <1>10. f[m] = f[m - 1]
    <2>1. \A q \in C : q.hi - q.lo < m
      BY DEF Calls
    <2>2. f[m] \in V /\ f[m - 1] \in V
      BY <1>6, <1>8
    <2> HIDE DEF m, C
    <2>3. \A q \in C : f[m][q] = f[m - 1][q]
      BY <1>9, <2>1
    <2> QED
      BY <2>2, <2>3 DEF V
  <1>11. f[m] = once(f[m])
    BY <1>6, <1>8, <1>10
  <1>12. f[m] = [q \in C |-> Body(f[m], q, z)]
    BY <1>2b, <1>11
  <1> QED
    BY <1>12 DEF IsSort

Ordered(b, lo, hi, z) ==
  \A k, l \in lo + 1 .. hi + 1 : k < l => z[b[k]] <= z[b[l]]

Sorts(b, q, z, n, D) ==
  /\ b \in Arrays(n, D)
  /\ Keeps(q.a, b, q.lo + 1 .. q.hi + 1)
  /\ Ordered(b, q.lo, q.hi, z)

(* Two sorted parts with a pivot between them are sorted.                  *)
LEMMA SortJoins ==
  ASSUME NEW n \in Nat, NEW D, NEW z \in [D -> Int], NEW q \in Calls(n, D),
         ~(q.lo >= q.hi), NEW b, NEW c,
         Sorts(b, LowCall(q, z), z, n, D), Sorts(c, HighCall(q, b, z), z, n, D)
  PROVE  Sorts(c, q, z, n, D)
  <1> DEFINE p == partition(q.a, q.lo, q.hi, z)
             i == p.i
             lo == q.lo
             hi == q.hi
             S == lo + 1 .. hi + 1
  <1>1. /\ q.a \in Arrays(n, D) /\ p.a \in Arrays(n, D) /\ i \in lo .. hi
        /\ lo \in Nat /\ hi \in Nat /\ lo < hi /\ hi < n
        /\ Keeps(q.a, p.a, S)
        /\ \A m \in lo + 1 .. i : z[p.a[m]] < z[p.a[i + 1]]
        /\ \A m \in i + 2 .. hi + 1 : ~(z[p.a[m]] < z[p.a[i + 1]])
    BY CallParts DEF Parted, Stretch
  <1>2. LowCall(q, z) = [a |-> p.a, lo |-> lo, hi |-> i - 1]
        /\ HighCall(q, b, z) = [a |-> b, lo |-> i + 1, hi |-> hi]
    BY DEF LowCall, HighCall
  <1> HIDE DEF p
  <1>3. /\ b \in Arrays(n, D) /\ Keeps(p.a, b, lo + 1 .. (i - 1) + 1)
        /\ Ordered(b, lo, i - 1, z)
    BY <1>2 DEF Sorts
  <1>4. /\ c \in Arrays(n, D) /\ Keeps(b, c, (i + 1) + 1 .. hi + 1)
        /\ Ordered(c, i + 1, hi, z)
    BY <1>2 DEF Sorts
  <1> HIDE DEF i, lo, hi
  <1> DEFINE L == lo + 1 .. i
             H == i + 2 .. hi + 1
  <1>5. (i - 1) + 1 = i /\ (i + 1) + 1 = i + 2 /\ i \in Int /\ hi + 1 \in 1 .. n
        /\ lo <= i /\ i <= hi
    BY <1>1
  <1>6. /\ S \subseteq 1 .. n /\ L \subseteq S /\ H \subseteq S /\ i + 1 \in S
        /\ i + 1 \notin L /\ i + 1 \notin H /\ L \cap H = {}
        /\ \A m \in S : m \in L \/ m = i + 1 \/ m \in H
    BY <1>1, <1>5
  <1>7. Keeps(p.a, b, L) /\ Keeps(b, c, H)
    BY <1>3, <1>4, <1>5
  <1>8. /\ \A m \in S \ L : b[m] = p.a[m]
        /\ \A m \in S \ H : c[m] = b[m]
    <2>1. DOMAIN (p.a) = 1 .. n /\ DOMAIN b = 1 .. n
      BY <1>1, <1>3 DEF Arrays
    <2> HIDE DEF L, H, S
    <2> QED
      BY <1>6, <1>7, <2>1 DEF Keeps
  <1>9. Keeps(q.a, c, S)
    <2> HIDE DEF L, H, S
    <2>1. Keeps(p.a, b, S)
      BY <1>1, <1>6, <1>7, KeepsMore
    <2>2. Keeps(b, c, S)
      BY <1>3, <1>6, <1>7, KeepsMore
    <2>3. Keeps(q.a, b, S)
      BY <1>1, <1>3, <1>6, <2>1, KeepsTrans
    <2> QED
      BY <1>1, <1>3, <1>6, <2>2, <2>3, KeepsTrans
  <1> DEFINE x == z[p.a[i + 1]]
  <1>10. \A m \in L : z[b[m]] < x
    <2>1. Onto(p.a, b, L)
      BY <1>7, KeepsOnto
    <2> HIDE DEF x
    <2>2. \A m \in L : z[p.a[m]] < x
      BY <1>1 DEF x
    <2> HIDE DEF L
    <2> QED
      BY <2>1, <2>2 DEF Onto
  <1>11. \A m \in H : ~(z[c[m]] < x)
    <2>1. Onto(b, c, H)
      BY <1>7, KeepsOnto
    <2> HIDE DEF x
    <2>2. \A m \in H : ~(z[p.a[m]] < x)
      BY <1>1 DEF x
    <2>3. \A m \in H : b[m] = p.a[m]
      BY <1>6, <1>8
    <2> HIDE DEF H
    <2> QED
      BY <2>1, <2>2, <2>3 DEF Onto
  <1>12. z[c[i + 1]] = x
    BY <1>6, <1>8
  <1>13. \A m \in L : z[c[m]] = z[b[m]]
    BY <1>6, <1>8
  <1>14. x \in Int /\ \A m \in S : z[c[m]] \in Int
    <2>1. \A m \in 1 .. n : c[m] \in D /\ p.a[m] \in D
      BY <1>1, <1>4 DEF Arrays
    <2>2. \A m \in 1 .. n : z[c[m]] \in Int /\ z[p.a[m]] \in Int
      BY <2>1
    <2> HIDE DEF S
    <2> QED
      BY <1>6, <2>2
  <1>15. \A k, l \in L : k < l => z[b[k]] <= z[b[l]]
    BY <1>3, <1>5 DEF Ordered
  <1>16. \A k, l \in H : k < l => z[c[k]] <= z[c[l]]
    BY <1>4, <1>5 DEF Ordered
  <1>17. ASSUME NEW k \in S, NEW l \in S, k < l PROVE z[c[k]] <= z[c[l]]
    <2>1. /\ l \in L => k \in L
          /\ l = i + 1 => k \in L
          /\ k \in H => l \in H
          /\ k = i + 1 => l \in H
      BY <1>1, <1>5, <1>17
    <2> HIDE DEF L, H, S, x
    <2>2. CASE l \in L
      BY <1>13, <1>15, <1>17, <2>1, <2>2
    <2>3. CASE k \in H
      BY <1>16, <1>17, <2>1, <2>3
    <2>4. CASE l \notin L /\ k \notin H
      <3>1. z[c[k]] <= x
        <4>1. CASE k \in L
          BY <1>6, <1>10, <1>13, <1>14, <4>1
        <4>2. CASE k = i + 1
          BY <1>12, <1>14, <4>2
        <4> QED
          BY <1>6, <2>4, <4>1, <4>2
      <3>2. x <= z[c[l]]
        <4>1. CASE l \in H
          BY <1>11, <1>14, <4>1
        <4>2. CASE l = i + 1
          BY <1>12, <1>14, <4>2
        <4> QED
          BY <1>6, <2>4, <4>1, <4>2
      <3> QED
        BY <1>14, <3>1, <3>2
    <2> QED
      BY <2>2, <2>3, <2>4
  <1>18. Ordered(c, lo, hi, z)
    BY <1>17 DEF Ordered
  <1> HIDE DEF S
  <1> QED
    BY <1>4, <1>9, <1>18 DEF Sorts, S, lo, hi

LEMMA SortCorrect ==
  ASSUME NEW n \in Nat, NEW D, NEW z \in [D -> Int], NEW F, IsSort(F, n, D, z)
  PROVE  \A q \in Calls(n, D) : Sorts(F[q], q, z, n, D)
  <1> DEFINE C == Calls(n, D)
             Bad(q) == ~Sorts(F[q], q, z, n, D)
             size(q) == (q.hi - q.lo) + (n + 1)
             T == {m \in Nat : \E q \in C : size(q) = m /\ Bad(q)}
  <1>1. \A q \in C : size(q) \in Nat /\ q.lo \in Int /\ q.hi \in Int
    BY DEF Calls
  <1>2. ASSUME T # {} PROVE FALSE
    <2>1. PICK m \in T : \A k \in T : m <= k
      <3>1. T \subseteq Nat
        OBVIOUS
      <3> HIDE DEF T
      <3> QED
        BY <1>2, <3>1, MinimalNat
    <2>2. PICK q \in C : size(q) = m /\ Bad(q)
      BY <2>1
    <2>3. \A r \in C : Smaller(r, q) => Sorts(F[r], r, z, n, D)
      <3> SUFFICES ASSUME NEW r \in C, Smaller(r, q), Bad(r) PROVE FALSE
        OBVIOUS
      <3>1. size(r) < size(q) /\ size(r) \in Nat /\ size(q) \in Nat
        BY <1>1 DEF Smaller
      <3> HIDE DEF size, Bad, C
      <3>2. size(r) \in T
        BY <3>1
      <3> HIDE DEF T
      <3>3. size(q) <= size(r)
        BY <2>1, <2>2, <3>2
      <3> QED
        BY <3>1, <3>3
    <2>4. F[q] = Body(F, q, z)
      BY DEF IsSort
    <2>5. CASE q.lo >= q.hi
      <3>1. F[q] = q.a
        BY <2>4, <2>5 DEF Body
      <3>2. q.a \in Arrays(n, D) /\ q.lo \in Int /\ q.hi \in Int
        BY DEF Calls, Arrays
      <3>3. Ordered(q.a, q.lo, q.hi, z)
        BY <2>5, <3>2 DEF Ordered
      <3> QED
        BY <2>2, <3>1, <3>2, <3>3, KeepsItself DEF Sorts
    <2>6. CASE ~(q.lo >= q.hi)
      <3> DEFINE L == LowCall(q, z)
                 b == F[L]
                 H == HighCall(q, b, z)
      <3>1. L \in C /\ Smaller(L, q)
        BY <2>6, CallsShrink
      <3>2. Sorts(b, L, z, n, D)
        BY <2>3, <3>1
      <3>3. b \in Arrays(n, D)
        BY <3>2 DEF Sorts
      <3>4. H \in C /\ Smaller(H, q)
        BY <2>6, <3>3, CallsShrink
      <3>5. Sorts(F[H], H, z, n, D)
        BY <2>3, <3>4
      <3>6. F[q] = F[H]
        BY <2>4, <2>6 DEF Body
      <3>7. Sorts(F[H], q, z, n, D)
        BY <2>6, <3>2, <3>5, SortJoins
      <3> QED
        BY <2>2, <3>6, <3>7
    <2> QED
      BY <2>5, <2>6
  <1>3. \A q \in C : ~Bad(q)
    <2> SUFFICES ASSUME NEW q \in C, Bad(q) PROVE FALSE
      OBVIOUS
    <2>1. size(q) \in Nat
      BY <1>1
    <2>2. size(q) \in T
      BY <2>1
    <2> QED
      BY <1>2, <2>2
  <1> QED
    BY <1>3

(* What end does to the windows of a frame: the same windows, each once if *)
(* it was there once, from the lowest zindex to the highest.               *)
LEMMA RootsSorted ==
  ASSUME NEW roots, NEW z, roots \in Seq(DOMAIN z), z \in [DOMAIN z -> Int]
  PROVE  /\ qsort(roots, z) \in Seq(DOMAIN z) /\ Len(qsort(roots, z)) = Len(roots)
         /\ Range(qsort(roots, z)) = Range(roots)
         /\ IsInjective(roots) => IsInjective(qsort(roots, z))
         /\ \A k, l \in 1 .. Len(roots) :
              k < l => z[qsort(roots, z)[k]] <= z[qsort(roots, z)[l]]
  <1> DEFINE n == Len(roots)
             D == DOMAIN z
             sort == CHOOSE F : IsSort(F, n, D, z)
             q == [a |-> roots, lo |-> 0, hi |-> n - 1]
             b == sort[q]
  <1>1. n \in Nat /\ roots \in [1 .. n -> D]
    OBVIOUS
  <1>2. qsort(roots, z) = b
    BY DEF qsort, IsSort, Body, LowCall, HighCall, Calls
  <1> HIDE DEF D, n
  <1>3. IsSort(sort, n, D, z)
    BY <1>1, SortExists
  <1>4. q \in Calls(n, D)
    BY <1>1 DEF Calls
  <1>5. Sorts(b, q, z, n, D)
    <2>1. z \in [D -> Int]
      BY DEF D
    <2> HIDE DEF sort, q
    <2> QED
      BY <1>1, <1>3, <1>4, <2>1, SortCorrect
  <1> HIDE DEF sort
  <1>6. 0 + 1 = 1 /\ (n - 1) + 1 = n
    BY <1>1
  <1>7. b \in [1 .. n -> D] /\ Keeps(roots, b, 1 .. n) /\ Ordered(b, 0, n - 1, z)
    BY <1>5, <1>6 DEF Sorts, Arrays
  <1> HIDE DEF b
  <1>8. b \in Seq(D) /\ Len(b) = n
    BY <1>1, <1>7
  <1>9. Range(b) = Range(roots)
    <2>1. DOMAIN b = 1 .. n /\ DOMAIN roots = 1 .. n
      BY <1>1, <1>7
    <2> QED
      BY <1>7, <2>1 DEF Keeps, Range
  <1>10. \A k, l \in 1 .. n : k < l => z[b[k]] <= z[b[l]]
    BY <1>6, <1>7 DEF Ordered
  <1>11. IsInjective(roots) => IsInjective(b)
    BY <1>7 DEF Keeps
  <1> QED
    BY <1>2, <1>8, <1>9, <1>10, <1>11 DEF n, D

-----------------------------------------------------------------------------
(* The tasks of a frame, and sequences without repetitions.                *)

(* The tasks of a frame are all of them, each once.                        *)
Enumerates(s, S) ==
  /\ s \in [1 .. Cardinality(S) -> S] /\ IsInjective(s)
  /\ s \in Seq(S) /\ Len(s) = Cardinality(S)

LEMMA AscendingExists ==
  ASSUME NEW S, IsFiniteSet(S), S \subseteq Nat
  PROVE  \E s \in [1 .. Cardinality(S) -> S] : \A i, j \in DOMAIN s : i < j => s[i] < s[j]
  <1> DEFINE n == Cardinality(S)
             Up(x) == {y \in S : y <= x}
             rank == [x \in S |-> Cardinality(Up(x))]
  <1>1. n \in Nat
    BY FS_CardinalityType
  <1>2. ASSUME NEW x \in S PROVE rank[x] \in 1 .. n
    <2>1. /\ IsFiniteSet(Up(x)) /\ Cardinality(Up(x)) \in Nat /\ Cardinality(Up(x)) <= n
      BY PartSize
    <2>2. x \in Up(x)
      OBVIOUS
    <2>3. Cardinality(Up(x)) # 0
      BY <2>1, <2>2, FS_EmptySet
    <2> QED
      BY <1>1, <2>1, <2>3
  <1>3. ASSUME NEW x \in S, NEW y \in S, x < y PROVE rank[x] < rank[y]
    <2>1. IsFiniteSet(Up(y)) /\ Up(x) \subseteq Up(y) /\ y \in Up(y) /\ y \notin Up(x)
      <3>1. Up(y) \subseteq S
        OBVIOUS
      <3>2. IsFiniteSet(Up(y))
        BY <3>1, PartSize
      <3>3. x \in Nat /\ y \in Nat /\ x < y
        BY <1>3
      <3>4. \A u \in S : u \in Nat
        OBVIOUS
      <3>5. ASSUME NEW u \in Up(x) PROVE u \in Up(y)
        <4>1. u \in S /\ u \in Nat /\ u <= x
          BY <3>4
        <4>2. u <= y
          BY <3>3, <4>1
        <4> QED
          BY <4>1, <4>2
      <3>6. y \in Up(y) /\ y \notin Up(x)
        BY <3>3
      <3> QED
        BY <3>2, <3>5, <3>6
    <2> HIDE DEF Up
    <2>2. Cardinality(Up(x)) \in Nat /\ Cardinality(Up(x)) + 1 <= Cardinality(Up(y))
      BY <2>1, SmallerPart
    <2>3. Cardinality(Up(y)) \in Nat
      BY <2>1, FS_CardinalityType
    <2> QED
      BY <2>2, <2>3
  <1> HIDE DEF rank
  <1>4. rank \in Injection(S, 1 .. n)
    <2>1. \A x, y \in S : rank[x] = rank[y] => x = y
      <3> SUFFICES ASSUME NEW x \in S, NEW y \in S, rank[x] = rank[y], x # y PROVE FALSE
        OBVIOUS
      <3>1. x < y \/ y < x
        OBVIOUS
      <3>2. rank[x] < rank[y] \/ rank[y] < rank[x]
        BY <1>3, <3>1
      <3> QED
        BY <1>2, <3>2
    <2>2. rank \in [S -> 1 .. n]
      BY <1>2 DEF rank
    <2> QED
      BY <2>1, <2>2 DEF Injection, IsInjective
  <1>5. IsFiniteSet(1 .. n) /\ Cardinality(1 .. n) = n
    BY <1>1, FS_Interval
  <1>6. rank \in Surjection(S, 1 .. n)
    BY <1>4, <1>5, FS_Injection
  <1>7. \A k \in 1 .. n : \E x \in S : rank[x] = k
    BY <1>6 DEF Surjection
  <1> DEFINE s == [k \in 1 .. n |-> CHOOSE x \in S : rank[x] = k]
  <1>8. \A k \in 1 .. n : s[k] \in S /\ rank[s[k]] = k
    BY <1>7
  <1>9. s \in [1 .. n -> S]
    BY <1>8
  <1> HIDE DEF s
  <1>10. ASSUME NEW i \in 1 .. n, NEW j \in 1 .. n, i < j PROVE s[i] < s[j]
    <2>1. s[i] \in S /\ s[j] \in S /\ rank[s[i]] = i /\ rank[s[j]] = j
      BY <1>8
    <2>2. s[j] < s[i] => j < i
      BY <1>3, <2>1
    <2>3. i \in Int /\ j \in Int
      BY <1>1
    <2>4. i # j /\ ~(j < i)
      BY <1>10, <2>3
    <2>5. s[j] # s[i] /\ s[i] \in Nat /\ s[j] \in Nat
      BY <2>1, <2>4
    <2> QED
      BY <2>2, <2>4, <2>5
  <1> QED
    BY <1>9, <1>10

LEMMA AscendingEnumerates ==
  ASSUME NEW S, IsFiniteSet(S), S \subseteq Nat
  PROVE  Enumerates(Ascending(S), S)
  <1> DEFINE n == Cardinality(S)
             s == Ascending(S)
  <1>1. s \in [1 .. n -> S] /\ \A i, j \in DOMAIN s : i < j => s[i] < s[j]
    BY AscendingExists DEF Ascending
  <1>2. n \in Nat
    BY FS_CardinalityType
  <1> HIDE DEF s, n
  <1>3. IsInjective(s)
    <2> SUFFICES ASSUME NEW i \in 1 .. n, NEW j \in 1 .. n, s[i] = s[j], i # j PROVE FALSE
      BY <1>1 DEF IsInjective
    <2>1. i < j \/ j < i
      BY <1>2
    <2>2. s[i] < s[j] \/ s[j] < s[i]
      BY <1>1, <2>1
    <2>3. s[i] \in Nat
      BY <1>1
    <2> QED
      BY <2>2, <2>3
  <1>4. s \in Seq(S) /\ Len(s) = n
    BY <1>1, <1>2
  <1> QED
    BY <1>1, <1>3, <1>4 DEF Enumerates, s, n

LEMMA RestOf ==
  ASSUME NEW S, NEW s \in Seq(S), s # <<>>, IsInjective(s)
  PROVE  /\ Head(s) \in Range(s) /\ Tail(s) \in Seq(S) /\ IsInjective(Tail(s))
         /\ Range(Tail(s)) \subseteq Range(s) \ {Head(s)}
  <1> DEFINE n == Len(s)
             t == Tail(s)
  <1>1. n \in Nat \ {0} /\ DOMAIN s = 1 .. n /\ Head(s) = s[1] /\ 1 \in 1 .. n
    BY EmptySeq
  <1>2. t \in Seq(S) /\ DOMAIN t = 1 .. n - 1 /\ \A k \in 1 .. n - 1 : t[k] = s[k + 1]
    BY <1>1
  <1> HIDE DEF t, n
  <1>3. \A k \in 1 .. n - 1 : k + 1 \in 1 .. n /\ k + 1 # 1
    BY <1>1
  <1>4. \A k, l \in 1 .. n : s[k] = s[l] => k = l
    BY <1>1 DEF IsInjective
  <1>5. \A k, l \in 1 .. n - 1 : t[k] = t[l] => k = l
    <2> SUFFICES ASSUME NEW k \in 1 .. n - 1, NEW l \in 1 .. n - 1, t[k] = t[l] PROVE k = l
      OBVIOUS
    <2>1. k + 1 = l + 1
      BY <1>2, <1>3, <1>4
    <2> QED
      BY <1>1, <2>1
  <1>6. \A k \in 1 .. n - 1 : t[k] \in Range(s) /\ t[k] # Head(s)
    <2> SUFFICES ASSUME NEW k \in 1 .. n - 1 PROVE t[k] \in Range(s) /\ t[k] # Head(s)
      OBVIOUS
    <2>1. t[k] = s[k + 1] /\ k + 1 \in 1 .. n /\ k + 1 # 1
      BY <1>2, <1>3
    <2> QED
      BY <1>1, <1>4, <2>1 DEF Range
  <1>7. Head(s) \in Range(s)
    BY <1>1 DEF Range
  <1> QED
    BY <1>2, <1>5, <1>6, <1>7 DEF IsInjective, Range, t

LEMMA AndOne ==
  ASSUME NEW S, NEW s \in Seq(S), IsInjective(s), NEW x \in S, x \notin Range(s)
  PROVE  /\ Append(s, x) \in Seq(S) /\ IsInjective(Append(s, x))
         /\ Range(Append(s, x)) = Range(s) \cup {x}
         /\ Len(Append(s, x)) = Len(s) + 1
  <1> DEFINE n == Len(s)
             t == Append(s, x)
  <1>1. n \in Nat /\ DOMAIN s = 1 .. n
    OBVIOUS
  <1>2. /\ t \in Seq(S) /\ DOMAIN t = 1 .. n + 1 /\ Len(t) = n + 1 /\ t[n + 1] = x
        /\ \A k \in 1 .. n : t[k] = s[k]
    OBVIOUS
  <1> HIDE DEF t, n
  <1>3. \A k \in 1 .. n + 1 : k \in 1 .. n \/ k = n + 1
    BY <1>1
  <1>4. \A k \in 1 .. n : s[k] # x /\ k \in 1 .. n + 1
    BY <1>1 DEF Range
  <1>5. \A k, l \in 1 .. n : s[k] = s[l] => k = l
    BY <1>1 DEF IsInjective
  <1>6. \A k, l \in 1 .. n + 1 : t[k] = t[l] => k = l
    BY <1>2, <1>3, <1>4, <1>5
  <1>7. n + 1 \in 1 .. n + 1
    BY <1>1
  <1>8. Range(t) = Range(s) \cup {x}
    BY <1>1, <1>2, <1>3, <1>4, <1>7 DEF Range
  <1> QED
    BY <1>2, <1>6, <1>8 DEF IsInjective, t, n

-----------------------------------------------------------------------------
(* The inductive invariant                                                 *)

Control == (Nat \X {"title", "close", "button"}) \cup {NoControl}
Task == [class : Classes \cup {"Progman"}, dead : BOOLEAN, noClose : BOOLEAN, x : Int]
Container == [x : Int, zindex : Nat, open : BOOLEAN, head : Nat, tail : Nat]
Context == [hover : Control, focus : Control, updatedFocus : BOOLEAN,
            hoverRoot : Nat, nextHoverRoot : Nat, lastZIndex : Nat]
Commands == [task : Nat, dst : Int]

TypeInv ==
  /\ tasks \in [DOMAIN tasks -> Task] /\ DOMAIN tasks \subseteq 1 .. lastTaskId
  /\ lastTaskId \in 1 .. MaxTasks
  /\ containers \in [DOMAIN containers -> Container] /\ DOMAIN containers \subseteq 1 .. lastTaskId
  /\ ctx \in Context
  /\ mouse \in [pos : 0 .. Span - 1, last : 0 .. Span - 1, down : BOOLEAN, pressed : BOOLEAN]
  /\ rootList \in Seq(DOMAIN containers) /\ todo \in Seq(Nat)
  /\ pc \in {"input", "windows", "panic"}

(* The context refers to containers there are, and no zindex is above the  *)
(* last one given out.                                                     *)
ContextInv ==
  /\ ctx.hover \in Controls /\ ctx.focus \in Controls
  /\ ctx.hoverRoot \in (DOMAIN containers) \cup {None}
  /\ ctx.nextHoverRoot \in (DOMAIN containers) \cup {None}
  /\ \A w \in DOMAIN containers : containers[w].zindex \in 1 .. ctx.lastZIndex

(* A frame's windows have been run once each, and are not run again.       *)
RootsInv ==
  /\ IsInjective(rootList) /\ Len(rootList) <= RootListSize
  /\ commandList \in Seq(Commands) /\ Len(commandList) = 3 * Len(rootList)
  /\ pc # "input" => /\ Range(rootList) \subseteq DOMAIN tasks
                     /\ Range(todo) \subseteq DOMAIN tasks
                     /\ IsInjective(todo)
                     /\ Range(rootList) \cap Range(todo) = {}
  /\ pc = "panic" => todo # <<>> /\ Len(rootList) >= RootListSize

(* A task that is not dead has its window open. The first task has no      *)
(* close button, so neither hover nor focus can be with it.                *)
OpenInv ==
  /\ \E w \in DOMAIN tasks : tasks[w].noClose
  /\ \A w \in DOMAIN tasks :
       /\ tasks[w].noClose => /\ ~tasks[w].dead
                              /\ <<w, "close">> \notin {ctx.hover, ctx.focus}
       /\ w \in DOMAIN containers /\ ~containers[w].open => tasks[w].dead
       /\ pc = "input" => ~tasks[w].dead

(* updatedFocus says that the focus is with a control of this frame.       *)
FocusInv ==
  /\ ctx.updatedFocus => ctx.focus = NoControl \/ ctx.focus[1] \in Range(rootList)
  /\ pc = "input" => ~ctx.updatedFocus /\ FocusIsShown

(* The focus is with the control that is hovered, or no control is hovered *)
(* any more.                                                               *)
Together(s) == s.focus = NoControl \/ s.hover \in {s.focus, NoControl}

(* It is not so in a frame without a press that is still running, for      *)
(* which the focus runs out.                                               *)
HoverInv ==
  /\ pc = "input" \/ (pc = "windows" /\ (mouse.down \/ mouse.pressed)) => Together(ctx)
  /\ pc = "windows" /\ ~mouse.down /\ ~mouse.pressed
       => (ctx.updatedFocus => ctx.focus = NoControl)

(* What has acted in this frame has the focus, as long as anything has.    *)
ActInv ==
  pc # "input" /\ mouse.down =>
    \A c \in acted : ctx.focus \in {c, NoControl} /\ ctx.hover \in {c, NoControl}

IInv == TypeInv /\ ContextInv /\ RootsInv /\ OpenInv /\ FocusInv /\ HoverInv /\ ActInv /\ ActsOnce

-----------------------------------------------------------------------------
(* What the controls of a window do to the context.                        *)

LEMMA FocusSet ==
  ASSUME NEW s \in Context, NEW id \in Control
  PROVE  /\ setFocus(s, id) \in Context
         /\ setFocus(s, id).focus = id /\ setFocus(s, id).updatedFocus
         /\ setFocus(s, id).hover = s.hover
         /\ setFocus(s, id).hoverRoot = s.hoverRoot
         /\ setFocus(s, id).nextHoverRoot = s.nextHoverRoot
         /\ setFocus(s, id).lastZIndex = s.lastZIndex
  BY DEF setFocus, Context

SameRoots(s, r) ==
  /\ r.hoverRoot = s.hoverRoot /\ r.nextHoverRoot = s.nextHoverRoot
  /\ r.lastZIndex = s.lastZIndex

(* What updateControl may do to the context.                               *)
Passes(s, r, id) ==
  /\ r \in Context /\ SameRoots(s, r)
  /\ r.hover \in {s.hover, id, NoControl}
  /\ r.focus \in {s.focus, NoControl} \/ (r.focus = id /\ r.hover = id)
  /\ r.updatedFocus => r.focus \in {id, NoControl} \/ (s.updatedFocus /\ r.focus = s.focus)
  /\ mouse.down => r.hover \in {s.hover, NoControl}
  /\ mouse.down \/ mouse.pressed => (Together(s) => Together(r))
  /\ ~mouse.down /\ ~mouse.pressed =>
       ((s.updatedFocus => s.focus = NoControl) => (r.updatedFocus => r.focus = NoControl))

LEMMA HoveringIs ==
  ASSUME NEW s \in Context, NEW id \in Control, NEW over \in BOOLEAN
  PROVE  LET h == hovering(s, id, over) IN
         /\ h \in Context /\ SameRoots(s, h) /\ h.focus = s.focus
         /\ h.updatedFocus <=> (s.updatedFocus \/ s.focus = id)
         /\ h.hover = IF over /\ ~mouse.down THEN id ELSE s.hover
  <1> DEFINE u == s.updatedFocus \/ s.focus = id
             v == IF over /\ ~mouse.down THEN id ELSE s.hover
             h == [s EXCEPT !.updatedFocus = u, !.hover = v]
  <1>1. hovering(s, id, over) = h
    BY DEF hovering
  <1>2. u \in BOOLEAN /\ v \in Control
    BY DEF Context
  <1>3. /\ h \in Context /\ SameRoots(s, h) /\ h.focus = s.focus
        /\ h.updatedFocus = u /\ h.hover = v
    <2> HIDE DEF u, v
    <2> QED
      BY <1>2 DEF Context, SameRoots
  <1> HIDE DEF h
  <1> QED
    BY <1>1, <1>3

LEMMA LosingIs ==
  ASSUME NEW s \in Context, NEW id \in Control, NEW over \in BOOLEAN
  PROVE  LET k == losingFocus(s, id, over) IN
         /\ k \in Context /\ SameRoots(s, k) /\ k.hover = s.hover
         /\ \/ k = s /\ ~(s.focus = id /\ ((mouse.pressed /\ ~over) \/ ~mouse.down))
            \/ k.focus = NoControl /\ s.focus = id /\ ((mouse.pressed /\ ~over) \/ ~mouse.down)
  <1>0. NoControl \in Control
    BY DEF Control
  <1> QED
    BY <1>0, FocusSet DEF losingFocus, SameRoots

LEMMA TakingIs ==
  ASSUME NEW s \in Context, NEW id \in Control, NEW over \in BOOLEAN
  PROVE  LET r == takingFocus(s, id, over) IN
         /\ r \in Context /\ SameRoots(s, r)
         /\ \/ r.focus = id /\ r.hover = id /\ s.hover = id /\ mouse.pressed
            \/ /\ ~(s.hover = id /\ mouse.pressed)
               /\ r.focus = s.focus /\ r.updatedFocus = s.updatedFocus
               /\ r.hover = IF s.hover = id /\ ~over THEN NoControl ELSE s.hover
  <1>0. NoControl \in Control
    BY DEF Control
  <1>1. CASE s.hover = id /\ mouse.pressed
    BY <1>1, FocusSet DEF takingFocus, SameRoots
  <1>2. CASE ~(s.hover = id /\ mouse.pressed) /\ s.hover = id /\ ~over
    <2> DEFINE e == [s EXCEPT !.hover = NoControl]
    <2>1. takingFocus(s, id, over) = e
      BY <1>2 DEF takingFocus
    <2>2. /\ e \in Context /\ SameRoots(s, e) /\ e.hover = NoControl
          /\ e.focus = s.focus /\ e.updatedFocus = s.updatedFocus
      BY <1>0 DEF Context, SameRoots
    <2> HIDE DEF e
    <2> QED
      BY <1>2, <2>1, <2>2
  <1>3. CASE ~(s.hover = id /\ mouse.pressed) /\ ~(s.hover = id /\ ~over)
    BY <1>3 DEF takingFocus, SameRoots
  <1> QED
    BY <1>1, <1>2, <1>3

LEMMA ControlPasses ==
  ASSUME NEW s \in Context, NEW id \in Control, id # NoControl, NEW over \in BOOLEAN,
         mouse.down \in BOOLEAN, mouse.pressed \in BOOLEAN
  PROVE  Passes(s, updateControl(s, id, over), id)
  <1> DEFINE h == hovering(s, id, over)
             k == losingFocus(h, id, over)
             r == takingFocus(k, id, over)
  <1>1. updateControl(s, id, over) = r
    BY DEF updateControl
  <1>2. /\ h \in Context /\ SameRoots(s, h) /\ h.focus = s.focus
        /\ h.updatedFocus <=> (s.updatedFocus \/ s.focus = id)
        /\ h.hover = IF over /\ ~mouse.down THEN id ELSE s.hover
    BY HoveringIs
  <1> HIDE DEF h
  <1>3. /\ k \in Context /\ SameRoots(h, k) /\ k.hover = h.hover
        /\ \/ k = h /\ ~(h.focus = id /\ ((mouse.pressed /\ ~over) \/ ~mouse.down))
           \/ k.focus = NoControl /\ h.focus = id /\ ((mouse.pressed /\ ~over) \/ ~mouse.down)
    BY <1>2, LosingIs
  <1> HIDE DEF k
  <1>4. /\ r \in Context /\ SameRoots(k, r)
        /\ \/ r.focus = id /\ r.hover = id /\ k.hover = id /\ mouse.pressed
           \/ /\ ~(k.hover = id /\ mouse.pressed)
              /\ r.focus = k.focus /\ r.updatedFocus = k.updatedFocus
              /\ r.hover = IF k.hover = id /\ ~over THEN NoControl ELSE k.hover
    BY <1>3, TakingIs
  <1> HIDE DEF r
  <1>5. SameRoots(s, r)
    BY <1>2, <1>3, <1>4 DEF SameRoots
  <1>6. /\ r.hover \in {s.hover, id, NoControl}
        /\ r.focus \in {s.focus, NoControl} \/ (r.focus = id /\ r.hover = id)
    BY <1>2, <1>3, <1>4
  <1>7. r.updatedFocus => r.focus \in {id, NoControl} \/ (s.updatedFocus /\ r.focus = s.focus)
    BY <1>2, <1>3, <1>4
  <1>8. mouse.down => r.hover \in {s.hover, NoControl}
    BY <1>2, <1>3, <1>4
  <1>9. mouse.down \/ mouse.pressed => (Together(s) => Together(r))
    BY <1>2, <1>3, <1>4 DEF Together
  <1>10. ~mouse.down /\ ~mouse.pressed =>
           ((s.updatedFocus => s.focus = NoControl) => (r.updatedFocus => r.focus = NoControl))
    BY <1>2, <1>3, <1>4
  <1> QED
    BY <1>1, <1>4, <1>5, <1>6, <1>7, <1>8, <1>9, <1>10 DEF Passes

(* A window that is begun: its container is one the invariant allows, and  *)
(* of the context only the window for the next input and the last zindex   *)
(* change.                                                                 *)
Begins(s, r, w) ==
  /\ r \in Context
  /\ r.hover = s.hover /\ r.focus = s.focus /\ r.hoverRoot = s.hoverRoot
  /\ r.updatedFocus = s.updatedFocus
  /\ r.nextHoverRoot \in {s.nextHoverRoot, w}
  /\ r.lastZIndex >= s.lastZIndex

LEMMA WindowBegins ==
  ASSUME TypeInv, ContextInv, NEW w \in DOMAIN tasks
  PROVE  /\ w \in Nat \ {0}
         /\ Shown(w) \in Container /\ Shown(w).zindex \in 1 .. begun(w).lastZIndex
         /\ Begins(ctx, begun(w), w)
  <1> DEFINE z == IF w \in DOMAIN containers THEN ctx.lastZIndex ELSE ctx.lastZIndex + 1
             s == [ctx EXCEPT !.lastZIndex = z]
             n == IF /\ Covers(Shown(w), mouse.pos)
                     /\ s.nextHoverRoot = None \/ Shown(w).zindex > containers[s.nextHoverRoot].zindex
                  THEN w ELSE s.nextHoverRoot
             r == [s EXCEPT !.nextHoverRoot = n]
  <1>1. /\ tasks \in [DOMAIN tasks -> Task] /\ w \in 1 .. lastTaskId /\ lastTaskId \in Nat
        /\ containers \in [DOMAIN containers -> Container] /\ ctx \in Context
    BY DEF TypeInv
  <1>2. w \in Nat \ {0} /\ tasks[w].x \in Int
    BY <1>1 DEF Task
  <1>3. begun(w) = r
    BY DEF begun, hoverRootOf
  <1>4. z \in Nat /\ z >= ctx.lastZIndex /\ ctx.lastZIndex \in Nat
    BY <1>1 DEF Context
  <1> HIDE DEF z
  <1>5. /\ s \in Context /\ s.hover = ctx.hover /\ s.focus = ctx.focus
        /\ s.hoverRoot = ctx.hoverRoot /\ s.updatedFocus = ctx.updatedFocus
        /\ s.nextHoverRoot = ctx.nextHoverRoot /\ s.lastZIndex = z
    BY <1>1, <1>4 DEF Context
  <1> HIDE DEF s
  <1>6. n \in {s.nextHoverRoot, w} /\ s.nextHoverRoot \in Nat
    BY <1>5 DEF Context
  <1> HIDE DEF n
  <1>7. /\ r \in Context /\ r.hover = s.hover /\ r.focus = s.focus
        /\ r.hoverRoot = s.hoverRoot /\ r.updatedFocus = s.updatedFocus
        /\ r.nextHoverRoot = n /\ r.lastZIndex = s.lastZIndex
    BY <1>2, <1>5, <1>6 DEF Context
  <1> HIDE DEF r
  <1>8. Begins(ctx, begun(w), w) /\ begun(w).lastZIndex = z
    BY <1>3, <1>4, <1>5, <1>6, <1>7 DEF Begins
  <1>9. CASE w \in DOMAIN containers
    <2>1. Shown(w) = containers[w] /\ z = ctx.lastZIndex
      BY <1>9 DEF Shown, z
    <2>2. containers[w].zindex \in 1 .. ctx.lastZIndex /\ containers[w] \in Container
      BY <1>1, <1>9 DEF ContextInv
    <2> QED
      BY <1>2, <1>8, <2>1, <2>2
  <1>10. CASE w \notin DOMAIN containers
    <2>1. z = ctx.lastZIndex + 1
      BY <1>10 DEF z
    <2>2. Shown(w) = [x |-> tasks[w].x, zindex |-> z, open |-> TRUE, head |-> 0, tail |-> 0]
      BY <1>10, <2>1 DEF Shown
    <2>3. Shown(w) \in Container /\ Shown(w).zindex = z
      BY <1>2, <1>4, <2>2 DEF Container
    <2>4. z \in 1 .. z
      BY <1>4, <2>1
    <2> QED
      BY <1>2, <1>8, <2>3, <2>4
  <1> QED
    BY <1>9, <1>10

(* Its controls are updated one after the other: the title, the close      *)
(* button if it has one, and the button unless the window has been closed. *)
LEMMA WindowPasses ==
  ASSUME TypeInv, ContextInv, NEW w \in DOMAIN tasks
  PROVE  /\ Passes(begun(w), title(w), <<w, "title">>)
         /\ IF tasks[w].noClose THEN close(w) = title(w)
            ELSE Passes(title(w), close(w), <<w, "close">>)
         /\ IF closes(w) THEN button(w) = close(w)
            ELSE Passes(close(w), button(w), <<w, "button">>)
  <1>1. w \in Nat \ {0} /\ begun(w) \in Context
    BY WindowBegins DEF Begins
  <1>2. mouse.down \in BOOLEAN /\ mouse.pressed \in BOOLEAN
    BY DEF TypeInv
  <1>3. \A part \in {"title", "close", "button"} :
          <<w, part>> \in Control /\ <<w, part>> # NoControl /\ mouseOver(w, part) \in BOOLEAN
    BY <1>1 DEF Control, NoControl, mouseOver, Covered
  <1>4. Passes(begun(w), title(w), <<w, "title">>)
    BY <1>1, <1>2, <1>3, ControlPasses DEF title
  <1>5. title(w) \in Context
    BY <1>4 DEF Passes
  <1>6. IF tasks[w].noClose THEN close(w) = title(w)
        ELSE Passes(title(w), close(w), <<w, "close">>)
    BY <1>2, <1>3, <1>5, ControlPasses DEF close
  <1>7. close(w) \in Context
    BY <1>5, <1>6 DEF Passes
  <1>8. IF closes(w) THEN button(w) = close(w)
        ELSE Passes(close(w), button(w), <<w, "button">>)
    BY <1>2, <1>3, <1>7, ControlPasses DEF button
  <1> QED
    BY <1>4, <1>6, <1>8

(* What the window's controls have done to the context, all together.      *)
Parts(w) == {<<w, "title">>, <<w, "button">>}
            \cup (IF tasks[w].noClose THEN {} ELSE {<<w, "close">>})

Runs(s, r, ids) ==
  /\ r \in Context /\ SameRoots(s, r)
  /\ r.hover \in {s.hover, NoControl} \cup ids
  /\ r.focus \in {s.focus, NoControl} \cup ids
  /\ r.updatedFocus => r.focus \in {NoControl} \cup ids \/ (s.updatedFocus /\ r.focus = s.focus)
  /\ mouse.down \/ mouse.pressed => (Together(s) => Together(r))
  /\ ~mouse.down /\ ~mouse.pressed =>
       ((s.updatedFocus => s.focus = NoControl) => (r.updatedFocus => r.focus = NoControl))
  /\ mouse.down => \A c : s.focus \in {c, NoControl} /\ s.hover \in {c, NoControl}
                            => r.focus \in {c, NoControl} /\ r.hover \in {c, NoControl}

LEMMA RunsOne ==
  ASSUME NEW s, NEW r, NEW id, id # NoControl, NEW ids, id \in ids, Passes(s, r, id)
  PROVE  Runs(s, r, ids)
  <1>1. mouse.down => \A c : s.focus \in {c, NoControl} /\ s.hover \in {c, NoControl}
                               => r.focus \in {c, NoControl} /\ r.hover \in {c, NoControl}
    BY DEF Passes
  <1> QED
    BY <1>1 DEF Passes, Runs

LEMMA RunsMore ==
  ASSUME NEW s, NEW r, NEW q, NEW ids, Runs(s, r, ids), Runs(r, q, ids)
  PROVE  Runs(s, q, ids)
  <1>1. q \in Context /\ SameRoots(s, q)
    BY DEF Runs, SameRoots
  <1>2. q.hover \in {s.hover, NoControl} \cup ids /\ q.focus \in {s.focus, NoControl} \cup ids
    BY DEF Runs
  <1>3. q.updatedFocus => q.focus \in {NoControl} \cup ids \/ (s.updatedFocus /\ q.focus = s.focus)
    BY DEF Runs
  <1>4. mouse.down \/ mouse.pressed => (Together(s) => Together(q))
    BY DEF Runs
  <1>5. ~mouse.down /\ ~mouse.pressed =>
       ((s.updatedFocus => s.focus = NoControl) => (q.updatedFocus => q.focus = NoControl))
    BY DEF Runs
  <1>6. mouse.down => \A c : s.focus \in {c, NoControl} /\ s.hover \in {c, NoControl}
                               => q.focus \in {c, NoControl} /\ q.hover \in {c, NoControl}
    BY DEF Runs
  <1> QED
    BY <1>1, <1>2, <1>3, <1>4, <1>5, <1>6 DEF Runs

LEMMA WindowRuns ==
  ASSUME TypeInv, ContextInv, NEW w \in DOMAIN tasks
  PROVE  Runs(begun(w), button(w), Parts(w))
  <1>1. /\ Passes(begun(w), title(w), <<w, "title">>)
        /\ IF tasks[w].noClose THEN close(w) = title(w)
           ELSE Passes(title(w), close(w), <<w, "close">>)
        /\ IF closes(w) THEN button(w) = close(w)
           ELSE Passes(close(w), button(w), <<w, "button">>)
    BY WindowPasses
  <1>2. \A part : <<w, part>> # NoControl
    <2>1. w \in Nat \ {0}
      BY WindowBegins
    <2> QED
      BY <2>1 DEF NoControl
  <1>3. Runs(begun(w), title(w), Parts(w))
    BY <1>1, <1>2, RunsOne DEF Parts
  <1>4. Runs(begun(w), close(w), Parts(w))
    <2>1. CASE tasks[w].noClose
      BY <1>1, <1>3, <2>1
    <2>2. CASE ~tasks[w].noClose
      <3>1. <<w, "close">> \in Parts(w) /\ Passes(title(w), close(w), <<w, "close">>)
        BY <1>1, <2>2 DEF Parts
      <3>2. Runs(title(w), close(w), Parts(w))
        BY <1>2, <3>1, RunsOne
      <3> QED
        BY <1>3, <3>2, RunsMore
    <2> QED
      BY <2>1, <2>2
  <1>5. CASE closes(w)
    BY <1>1, <1>4, <1>5
  <1>6. CASE ~closes(w)
    <2>1. Runs(close(w), button(w), Parts(w))
      BY <1>1, <1>2, <1>6, RunsOne DEF Parts
    <2> QED
      BY <1>4, <2>1, RunsMore
  <1> QED
    BY <1>5, <1>6

-----------------------------------------------------------------------------
(* What a window's task does to the tasks.                                 *)

(* What the window's task may have done to the tasks and to the loop over  *)
(* them: one task more, or one that is dead.                               *)
Continues(w) ==
  /\ lastTaskId' \in {lastTaskId, lastTaskId + 1} /\ lastTaskId' \in 1 .. MaxTasks
  /\ tasks' \in [DOMAIN tasks' -> Task] /\ DOMAIN tasks \subseteq DOMAIN tasks'
  /\ DOMAIN tasks' \subseteq 1 .. lastTaskId'
  /\ \A v \in DOMAIN tasks : /\ tasks'[v].noClose <=> tasks[v].noClose
                             /\ tasks[v].dead => tasks'[v].dead
                             /\ tasks[v].noClose => ~tasks'[v].dead
  /\ \A v \in DOMAIN tasks' : v \in DOMAIN tasks \/ (v = lastTaskId + 1 /\ ~tasks'[v].noClose)
  /\ closes(w) => tasks'[w].dead
  /\ todo' \in Seq(Nat) /\ IsInjective(todo')
  /\ Range(todo') \subseteq DOMAIN tasks'
  /\ Range(todo') \cap (Range(rootList) \cup {w}) = {}

(* Neither closing nor the task manager ends the first task: it has no     *)
(* close button that could have the focus.                                 *)
LEMMA FirstStays ==
  ASSUME TypeInv, ContextInv, OpenInv, NEW w \in DOMAIN tasks
  PROVE  /\ closes(w) => ~tasks[w].noClose
         /\ \A v \in DOMAIN tasks : tasks[v].noClose =>
              <<v, "close">> \notin {button(w).hover, button(w).focus}
  <1>1. Begins(ctx, begun(w), w)
    BY WindowBegins
  <1>2. Passes(begun(w), title(w), <<w, "title">>) /\ Runs(begun(w), button(w), Parts(w))
    BY WindowPasses, WindowRuns
  <1>3. \A v \in DOMAIN tasks : tasks[v].noClose =>
          /\ <<v, "close">> # NoControl /\ <<v, "close">> \notin {ctx.hover, ctx.focus}
          /\ <<v, "close">> \notin Parts(w) /\ <<v, "close">> # <<w, "title">>
    <2> SUFFICES ASSUME NEW v \in DOMAIN tasks, tasks[v].noClose
                 PROVE  /\ <<v, "close">> # NoControl /\ <<v, "close">> \notin {ctx.hover, ctx.focus}
                        /\ <<v, "close">> \notin Parts(w) /\ <<v, "close">> # <<w, "title">>
      OBVIOUS
    <2>1. <<v, "close">> # NoControl /\ <<v, "close">> # <<w, "title">> /\ <<v, "close">> # <<w, "button">>
      BY DEF NoControl
    <2>2. v # w => <<v, "close">> # <<w, "close">>
      OBVIOUS
    <2>3. <<v, "close">> \notin {ctx.hover, ctx.focus}
      BY DEF OpenInv
    <2> QED
      BY <2>1, <2>2, <2>3 DEF Parts
  <1>4. ASSUME closes(w), tasks[w].noClose PROVE FALSE
    <2>1. title(w).focus = <<w, "close">>
      BY <1>4, WindowPasses DEF closes
    <2>2. title(w).focus \in {begun(w).focus, NoControl, <<w, "title">>}
      BY <1>2 DEF Passes
    <2>3. begun(w).focus = ctx.focus
      BY <1>1 DEF Begins
    <2> QED
      BY <1>3, <1>4, <2>1, <2>2, <2>3
  <1>5. ASSUME NEW v \in DOMAIN tasks, tasks[v].noClose
        PROVE  <<v, "close">> \notin {button(w).hover, button(w).focus}
    <2>1. begun(w).focus = ctx.focus /\ begun(w).hover = ctx.hover
      BY <1>1 DEF Begins
    <2>2. /\ button(w).hover \in {begun(w).hover, NoControl} \cup Parts(w)
          /\ button(w).focus \in {begun(w).focus, NoControl} \cup Parts(w)
      BY <1>2 DEF Runs
    <2> QED
      BY <1>3, <1>5, <2>1, <2>2
  <1> QED
    BY <1>4, <1>5

(* The loop goes on to the next task.                                      *)
LEMMA LoopGoesOn ==
  ASSUME TypeInv, RootsInv, pc = "windows", todo # <<>>, NEW w, w = Head(todo)
  PROVE  /\ w \in DOMAIN tasks /\ w \notin Range(rootList)
         /\ Tail(todo) \in Seq(Nat) /\ IsInjective(Tail(todo))
         /\ Range(Tail(todo)) \subseteq DOMAIN tasks
         /\ Range(Tail(todo)) \cap (Range(rootList) \cup {w}) = {}
  <1>1. todo \in Seq(Nat) /\ IsInjective(todo)
    BY DEF TypeInv, RootsInv
  <1>2. /\ w \in Range(todo) /\ Tail(todo) \in Seq(Nat) /\ IsInjective(Tail(todo))
        /\ Range(Tail(todo)) \subseteq Range(todo) \ {w}
    BY <1>1, RestOf
  <1>3. Range(todo) \subseteq DOMAIN tasks /\ Range(rootList) \cap Range(todo) = {}
    BY DEF RootsInv
  <1> QED
    BY <1>2, <1>3

LEMMA CreateContinues ==
  ASSUME TypeInv, RootsInv, OpenInv, pc = "windows", todo # <<>>, NEW w, w = Head(todo),
         ~closes(w), lastTaskId < MaxTasks, NEW class \in Classes, NEW x \in Places,
         createTask(class, x)
  PROVE  Continues(w)
  <1> DEFINE id == lastTaskId + 1
             new == [class |-> class, dead |-> FALSE, noClose |-> DOMAIN tasks = {}, x |-> x]
  <1>1. /\ w \in DOMAIN tasks /\ w \notin Range(rootList)
        /\ Tail(todo) \in Seq(Nat) /\ IsInjective(Tail(todo))
        /\ Range(Tail(todo)) \subseteq DOMAIN tasks
        /\ Range(Tail(todo)) \cap (Range(rootList) \cup {w}) = {}
    BY LoopGoesOn
  <1>2. /\ tasks \in [DOMAIN tasks -> Task] /\ DOMAIN tasks \subseteq 1 .. lastTaskId
        /\ lastTaskId \in 1 .. MaxTasks /\ MaxTasks \in Nat
    BY WindowsAssumption DEF TypeInv
  <1>3. id \in Nat /\ id \in 1 .. MaxTasks /\ id \notin DOMAIN tasks /\ 1 .. lastTaskId \subseteq 1 .. id
        /\ id \in 1 .. id
    BY <1>2
  <1>4. new \in Task /\ ~new.dead /\ ~new.noClose
    <2>1. DOMAIN tasks # {} /\ x \in Int
      BY <1>1, WindowsAssumption
    <2> QED
      BY <2>1 DEF Task
  <1>5. /\ lastTaskId' = id
        /\ tasks' = [v \in (DOMAIN tasks) \cup {id} |-> IF v = id THEN new ELSE tasks[v]]
        /\ todo' \in {Tail(todo), Append(Tail(todo), id)}
    BY DEF createTask
  <1> HIDE DEF new, id
  <1>6. /\ tasks' \in [DOMAIN tasks' -> Task] /\ DOMAIN tasks' = (DOMAIN tasks) \cup {id}
        /\ tasks'[id] = new /\ \A v \in DOMAIN tasks : tasks'[v] = tasks[v]
    BY <1>2, <1>3, <1>4, <1>5
  <1>7. \A v \in DOMAIN tasks : tasks[v].noClose => ~tasks[v].dead
    BY DEF OpenInv
  <1>8. id \notin Range(rootList) /\ id # w /\ id \notin Range(Tail(todo))
    <2>1. Range(rootList) \subseteq DOMAIN tasks
      BY DEF RootsInv
    <2> QED
      BY <1>1, <1>3, <2>1
  <1>9. /\ todo' \in Seq(Nat) /\ IsInjective(todo')
        /\ Range(todo') \subseteq Range(Tail(todo)) \cup {id}
    <2>1. CASE todo' = Tail(todo)
      BY <1>1, <2>1
    <2>2. CASE todo' = Append(Tail(todo), id)
      BY <1>1, <1>3, <1>8, <2>2, AndOne
    <2> QED
      BY <1>5, <2>1, <2>2
  <1>10. /\ Range(todo') \subseteq DOMAIN tasks'
         /\ Range(todo') \cap (Range(rootList) \cup {w}) = {}
    BY <1>1, <1>6, <1>8, <1>9
  <1>11. /\ lastTaskId' \in {lastTaskId, lastTaskId + 1} /\ lastTaskId' \in 1 .. MaxTasks
         /\ DOMAIN tasks' \subseteq 1 .. lastTaskId'
         /\ \A v \in DOMAIN tasks' : v \in DOMAIN tasks \/ (v = lastTaskId + 1 /\ ~tasks'[v].noClose)
    <2>1. id = lastTaskId + 1
      BY DEF id
    <2> QED
      BY <1>2, <1>3, <1>4, <1>5, <1>6, <2>1
  <1> QED
    BY <1>6, <1>7, <1>9, <1>10, <1>11 DEF Continues

(* A task dies.                                                            *)
LEMMA DeathContinues ==
  ASSUME TypeInv, RootsInv, OpenInv, pc = "windows", todo # <<>>, NEW w, w = Head(todo),
         NEW v \in DOMAIN tasks, ~tasks[v].noClose, closes(w) => v = w,
         tasks' = [tasks EXCEPT ![v].dead = TRUE],
         todo' = Tail(todo), lastTaskId' = lastTaskId
  PROVE  Continues(w)
  <1>1. /\ w \in DOMAIN tasks /\ w \notin Range(rootList)
        /\ Tail(todo) \in Seq(Nat) /\ IsInjective(Tail(todo))
        /\ Range(Tail(todo)) \subseteq DOMAIN tasks
        /\ Range(Tail(todo)) \cap (Range(rootList) \cup {w}) = {}
    BY LoopGoesOn
  <1>2. /\ tasks \in [DOMAIN tasks -> Task] /\ DOMAIN tasks \subseteq 1 .. lastTaskId
        /\ lastTaskId \in 1 .. MaxTasks
    BY DEF TypeInv
  <1> DEFINE t == [tasks[v] EXCEPT !.dead = TRUE]
  <1>3. t \in Task /\ t.dead /\ t.noClose = tasks[v].noClose
    BY <1>2 DEF Task
  <1>4. tasks' = [tasks EXCEPT ![v] = t]
    OBVIOUS
  <1> HIDE DEF t
  <1>5. /\ tasks' \in [DOMAIN tasks -> Task] /\ DOMAIN tasks' = DOMAIN tasks /\ tasks'[v] = t
        /\ \A u \in DOMAIN tasks : u # v => tasks'[u] = tasks[u]
    BY <1>2, <1>3, <1>4
  <1>6. \A u \in DOMAIN tasks : tasks[u].noClose => ~tasks[u].dead
    BY DEF OpenInv
  <1>7. \A u \in DOMAIN tasks : /\ tasks'[u].noClose <=> tasks[u].noClose
                                /\ tasks[u].dead => tasks'[u].dead
                                /\ tasks[u].noClose => ~tasks'[u].dead
    BY <1>3, <1>5, <1>6
  <1>8. closes(w) => tasks'[w].dead
    BY <1>3, <1>5
  <1> QED
    BY <1>1, <1>2, <1>5, <1>7, <1>8 DEF Continues

LEMMA WindowContinues ==
  ASSUME TypeInv, ContextInv, RootsInv, OpenInv, Window, NEW w, w = Head(todo)
  PROVE  Continues(w)
  <1>1. /\ pc = "windows" /\ todo # <<>>
        /\ (submits(w) /\ Submit(w)) \/ Rests(w)
    BY DEF Window
  <1>2. w \in DOMAIN tasks
    BY <1>1, LoopGoesOn
  <1>3. closes(w) => ~tasks[w].noClose
    BY <1>2, FirstStays
  <1>4. CASE submits(w) /\ Submit(w)
    <2>1. ~closes(w)
      BY <1>4 DEF submits
    <2>2. CASE lastTaskId < MaxTasks /\ \E class \in Classes, x \in Places : createTask(class, x)
      BY <1>1, <2>1, <2>2, CreateContinues
    <2>3. CASE /\ \E v \in DOMAIN tasks :
                    ~tasks[v].noClose /\ tasks' = [tasks EXCEPT ![v].dead = TRUE]
               /\ todo' = Tail(todo) /\ UNCHANGED lastTaskId
      BY <1>1, <2>1, <2>3, DeathContinues
    <2> QED
      BY <1>4, <2>2, <2>3 DEF Submit
  <1>5. CASE Rests(w)
    <2>1. todo' = Tail(todo) /\ lastTaskId' = lastTaskId
      BY <1>5 DEF Rests
    <2>2. CASE closes(w)
      <3>1. tasks' = [tasks EXCEPT ![w].dead = TRUE]
        BY <1>5, <2>2 DEF Rests, Closed
      <3> QED
        BY <1>1, <1>2, <1>3, <2>1, <2>2, <3>1, DeathContinues
    <2>3. CASE ~closes(w)
      <3>1. tasks' = tasks
        BY <1>5, <2>3 DEF Rests
      <3>2. /\ tasks \in [DOMAIN tasks -> Task] /\ DOMAIN tasks \subseteq 1 .. lastTaskId
            /\ lastTaskId \in 1 .. MaxTasks
        BY DEF TypeInv
      <3>3. \A u \in DOMAIN tasks : tasks[u].noClose => ~tasks[u].dead
        BY DEF OpenInv
      <3> QED
        BY <1>1, <2>1, <2>3, <3>1, <3>2, <3>3, LoopGoesOn DEF Continues
    <2> QED
      BY <2>2, <2>3
  <1> QED
    BY <1>1, <1>4, <1>5

-----------------------------------------------------------------------------
(* The window of a task.                                                   *)

(* Facts about the step that the conjuncts share.                          *)
Shows(w) ==
  /\ pc = "windows" /\ pc' = pc /\ mouse' = mouse /\ ~Full(rootList)
  /\ w \in DOMAIN tasks /\ w \in Nat \ {0} /\ w \notin Range(rootList)
  /\ ctx' = button(w) /\ rootList' = Append(rootList, w) /\ acted' = acted \cup Acts(w)
  /\ containers' \in [DOMAIN containers' -> Container]
  /\ DOMAIN containers' = (DOMAIN containers) \cup {w}
  /\ \A v \in DOMAIN containers : v # w => containers'[v] = containers[v]
  /\ containers'[w].zindex = Shown(w).zindex
  /\ containers'[w].open <=> ~closes(w)
  /\ Len(commandList') = Len(commandList) + 3 /\ commandList' \in Seq(Commands)
  /\ Begins(ctx, begun(w), w) /\ Runs(begun(w), ctx', Parts(w))
  /\ Continues(w)

LEMMA WindowUpdated ==
  ASSUME TypeInv, ContextInv, RootsInv, NEW w \in DOMAIN tasks
  PROVE  /\ Updated(w) \in Container /\ Updated(w).zindex = Shown(w).zindex
         /\ Updated(w).open <=> ~closes(w)
  <1>1. Shown(w) \in Container
    BY WindowBegins
  <1>2. Len(commandList) \in Nat
    BY DEF RootsInv
  <1>3. mouse.pos \in Int /\ mouse.last \in Int
    BY WindowsAssumption DEF TypeInv
  <1> DEFINE dx == IF title(w).focus = <<w, "title">> /\ mouse.down
                   THEN Shown(w).x + mouse.pos - mouse.last ELSE Shown(w).x
             o == ~closes(w)
             h == Len(commandList)
             u == [Shown(w) EXCEPT !.x = dx, !.open = o, !.head = h, !.tail = h + 2]
  <1>4. Updated(w) = u
    BY DEF Updated
  <1>5. dx \in Int /\ o \in BOOLEAN /\ h \in Nat /\ h + 2 \in Nat
    <2>1. Shown(w).x \in Int
      BY <1>1 DEF Container
    <2>2. o \in BOOLEAN
      BY <1>3 DEF closes
    <2> QED
      BY <1>2, <1>3, <2>1, <2>2
  <1> HIDE DEF dx, o, h
  <1>6. u \in Container /\ u.zindex = Shown(w).zindex /\ u.open = o
    BY <1>1, <1>5 DEF Container
  <1> HIDE DEF u
  <1> QED
    BY <1>4, <1>6 DEF o

LEMMA WindowShows ==
  ASSUME IInv, Window
  PROVE  Shows(Head(todo))
  <1> DEFINE w == Head(todo)
             length == Len(commandList)
  <1>1. TypeInv /\ ContextInv /\ RootsInv /\ OpenInv
    BY DEF IInv
  <1>2. /\ pc = "windows" /\ todo # <<>> /\ ~Full(rootList)
        /\ ctx' = button(w) /\ rootList' = Append(rootList, w) /\ acted' = acted \cup Acts(w)
        /\ commandList' = commandList \o <<Jump(length + 3), Draw(w), Jump(-1)>>
        /\ containers' = [v \in (DOMAIN containers) \cup {w} |->
                            IF v = w THEN Updated(w) ELSE containers[v]]
        /\ mouse' = mouse /\ pc' = pc
    BY DEF Window
  <1>3. Continues(w)
    BY <1>1, WindowContinues
  <1>4. w \in DOMAIN tasks /\ w \notin Range(rootList)
    BY <1>1, <1>2, LoopGoesOn
  <1> HIDE DEF w
  <1>5. w \in Nat \ {0} /\ Begins(ctx, begun(w), w) /\ Runs(begun(w), ctx', Parts(w))
    BY <1>1, <1>2, <1>4, WindowBegins, WindowRuns
  <1>6. /\ Updated(w) \in Container /\ Updated(w).zindex = Shown(w).zindex
        /\ Updated(w).open <=> ~closes(w)
    BY <1>1, <1>4, WindowUpdated
  <1>7. containers \in [DOMAIN containers -> Container]
    BY <1>1 DEF TypeInv
  <1>8. /\ containers' \in [DOMAIN containers' -> Container]
        /\ DOMAIN containers' = (DOMAIN containers) \cup {w}
        /\ \A v \in DOMAIN containers : v # w => containers'[v] = containers[v]
        /\ containers'[w] = Updated(w)
    BY <1>2, <1>6, <1>7
  <1>9. Len(commandList') = Len(commandList) + 3 /\ commandList' \in Seq(Commands)
    <2>1. commandList \in Seq(Commands) /\ length \in Nat
      BY <1>1 DEF RootsInv
    <2> DEFINE a == Jump(length + 3)
               b == Draw(w)
               c == Jump(-1)
    <2>2. a \in Commands /\ b \in Commands /\ c \in Commands
      BY <1>5, <2>1 DEF Commands, Jump, Draw, None
    <2>3. commandList' = commandList \o <<a, b, c>>
      BY <1>2
    <2> HIDE DEF a, b, c
    <2>4. <<a, b, c>> \in Seq(Commands) /\ Len(<<a, b, c>>) = 3
      BY <2>2
    <2> QED
      BY <2>1, <2>3, <2>4, ConcatProperties
  <1> QED
    BY <1>2, <1>3, <1>4, <1>5, <1>6, <1>8, <1>9 DEF Shows, w

LEMMA WindowTypes ==
  ASSUME TypeInv, ContextInv, NEW w, Shows(w)
  PROVE  TypeInv'
  <1>1. /\ tasks' \in [DOMAIN tasks' -> Task] /\ DOMAIN tasks' \subseteq 1 .. lastTaskId'
        /\ lastTaskId' \in 1 .. MaxTasks /\ todo' \in Seq(Nat)
    BY DEF Shows, Continues
  <1>2. containers' \in [DOMAIN containers' -> Container]
    BY DEF Shows
  <1>3. DOMAIN containers' \subseteq 1 .. lastTaskId'
    <2>1. DOMAIN containers \subseteq 1 .. lastTaskId /\ lastTaskId \in Nat /\ w \in 1 .. lastTaskId
      BY DEF TypeInv, Shows
    <2>2. lastTaskId' \in Nat /\ lastTaskId' >= lastTaskId
      BY <2>1 DEF Shows, Continues
    <2>3. 1 .. lastTaskId \subseteq 1 .. lastTaskId'
      BY <2>1, <2>2
    <2> QED
      BY <2>1, <2>3 DEF Shows
  <1>4. ctx' \in Context
    BY DEF Shows, Runs
  <1>5. rootList' \in Seq(DOMAIN containers')
    <2>1. /\ rootList \in Seq(DOMAIN containers) /\ rootList' = Append(rootList, w)
          /\ DOMAIN containers' = (DOMAIN containers) \cup {w}
      BY DEF TypeInv, Shows
    <2> DEFINE D == (DOMAIN containers) \cup {w}
    <2>2. rootList \in Seq(D) /\ w \in D
      BY <2>1
    <2> HIDE DEF D
    <2>3. Append(rootList, w) \in Seq(D)
      BY <2>2
    <2> QED
      BY <2>1, <2>3 DEF D
  <1>6. /\ mouse' \in [pos : 0 .. Span - 1, last : 0 .. Span - 1, down : BOOLEAN, pressed : BOOLEAN]
        /\ pc' \in {"input", "windows", "panic"}
    BY DEF TypeInv, Shows
  <1> QED
    BY <1>1, <1>2, <1>3, <1>4, <1>5, <1>6 DEF TypeInv

LEMMA WindowContext ==
  ASSUME TypeInv, ContextInv, NEW w, Shows(w)
  PROVE  ContextInv'
  <1> DEFINE D == DOMAIN containers
  <1>1. /\ ctx.hover \in Controls /\ ctx.focus \in Controls
        /\ ctx.hoverRoot \in D \cup {None} /\ ctx.nextHoverRoot \in D \cup {None}
    BY DEF ContextInv
  <1>2. DOMAIN containers' = D \cup {w}
    BY DEF Shows
  <1>3. /\ begun(w).hover = ctx.hover /\ begun(w).focus = ctx.focus
        /\ begun(w).hoverRoot = ctx.hoverRoot
        /\ begun(w).nextHoverRoot \in {ctx.nextHoverRoot, w}
        /\ begun(w).lastZIndex >= ctx.lastZIndex
    BY DEF Shows, Begins
  <1>4. /\ ctx' \in Context /\ SameRoots(begun(w), ctx')
        /\ ctx'.hover \in {begun(w).hover, NoControl} \cup Parts(w)
        /\ ctx'.focus \in {begun(w).focus, NoControl} \cup Parts(w)
    BY DEF Shows, Runs
  <1>5. Controls \cup Parts(w) \cup {NoControl} \subseteq Controls'
    BY <1>2 DEF Controls, Parts
  <1>6. ctx'.hover \in Controls' /\ ctx'.focus \in Controls'
    BY <1>1, <1>3, <1>4, <1>5
  <1>7. /\ ctx'.hoverRoot \in (DOMAIN containers') \cup {None}
        /\ ctx'.nextHoverRoot \in (DOMAIN containers') \cup {None}
    BY <1>1, <1>2, <1>3, <1>4 DEF SameRoots
  <1>8. ctx'.lastZIndex \in Nat /\ ctx.lastZIndex \in Nat /\ ctx'.lastZIndex >= ctx.lastZIndex
        /\ ctx'.lastZIndex = begun(w).lastZIndex
    BY <1>3, <1>4 DEF TypeInv, Context, SameRoots
  <1>9. ASSUME NEW v \in DOMAIN containers' PROVE containers'[v].zindex \in 1 .. ctx'.lastZIndex
    <2>1. CASE v = w
      <3>1. w \in DOMAIN tasks /\ containers'[w].zindex = Shown(w).zindex
        BY DEF Shows
      <3>2. Shown(w).zindex \in 1 .. begun(w).lastZIndex
        BY <3>1, WindowBegins
      <3> QED
        BY <1>8, <2>1, <3>1, <3>2
    <2>2. CASE v # w
      <3>1. v \in D /\ containers'[v] = containers[v]
        BY <1>2, <2>2 DEF Shows
      <3>2. containers[v].zindex \in 1 .. ctx.lastZIndex
        BY <3>1 DEF ContextInv
      <3>3. containers[v].zindex \in 1 .. ctx'.lastZIndex
        BY <1>8, <3>2
      <3> QED
        BY <3>1, <3>3
    <2> QED
      BY <2>1, <2>2
  <1> QED
    BY <1>6, <1>7, <1>9 DEF ContextInv

LEMMA WindowRoots ==
  ASSUME TypeInv, RootsInv, NEW w, Shows(w)
  PROVE  RootsInv'
  <1>1. rootList' = Append(rootList, w) /\ w \notin Range(rootList)
    BY DEF Shows
  <1> DEFINE D == (DOMAIN containers) \cup {w}
  <1>2. rootList \in Seq(D) /\ w \in D /\ IsInjective(rootList)
    BY DEF TypeInv, RootsInv
  <1> HIDE DEF D
  <1>3. /\ IsInjective(rootList') /\ Range(rootList') = Range(rootList) \cup {w}
        /\ Len(rootList') = Len(rootList) + 1
    BY <1>1, <1>2, AndOne
  <1>4. Len(rootList) \in Nat /\ Len(rootList) < RootListSize /\ RootListSize \in Nat
    BY <1>2, WindowsAssumption DEF Shows, Full
  <1>5. /\ commandList' \in Seq(Commands) /\ Len(commandList') = 3 * Len(rootList')
    BY <1>3, <1>4 DEF Shows, RootsInv
  <1>6. pc' = "windows" /\ pc = "windows"
    BY DEF Shows
  <1>7. Range(rootList) \subseteq DOMAIN tasks /\ DOMAIN tasks \subseteq DOMAIN tasks' /\ w \in DOMAIN tasks
    BY <1>6 DEF RootsInv, Shows, Continues
  <1>8. Range(rootList') \subseteq DOMAIN tasks'
    BY <1>3, <1>7
  <1>9. /\ Range(todo') \subseteq DOMAIN tasks' /\ IsInjective(todo')
        /\ Range(rootList') \cap Range(todo') = {}
    BY <1>3 DEF Shows, Continues
  <1> QED
    BY <1>3, <1>4, <1>5, <1>6, <1>8, <1>9 DEF RootsInv

LEMMA WindowOpen ==
  ASSUME TypeInv, ContextInv, OpenInv, NEW w, Shows(w)
  PROVE  OpenInv'
  <1>1. /\ Continues(w) /\ w \in DOMAIN tasks /\ ctx' = button(w) /\ pc' = "windows"
        /\ DOMAIN containers' = (DOMAIN containers) \cup {w}
    BY DEF Shows
  <1>2. \E v \in DOMAIN tasks' : tasks'[v].noClose
    BY <1>1 DEF OpenInv, Continues
  <1>3. ASSUME NEW v \in DOMAIN tasks', tasks'[v].noClose
        PROVE  ~tasks'[v].dead /\ <<v, "close">> \notin {ctx'.hover, ctx'.focus}
    <2>1. v \in DOMAIN tasks /\ tasks[v].noClose
      BY <1>1, <1>3 DEF Continues
    <2> QED
      BY <1>1, <2>1, FirstStays DEF Continues
  <1>4. ASSUME NEW v \in DOMAIN tasks', v \in DOMAIN containers', ~containers'[v].open
        PROVE  tasks'[v].dead
    <2>1. CASE v = w
      BY <1>1, <1>4, <2>1 DEF Shows, Continues
    <2>2. CASE v # w
      <3>1. v \in DOMAIN containers /\ containers'[v] = containers[v]
        BY <1>1, <1>4, <2>2 DEF Shows
      <3>2. v \in DOMAIN tasks
        <4>1. v \in 1 .. lastTaskId /\ lastTaskId \in Nat
          BY <3>1 DEF TypeInv
        <4>2. v # lastTaskId + 1
          BY <4>1
        <4> QED
          BY <1>1, <4>2 DEF Continues
      <3>3. tasks[v].dead
        BY <1>4, <3>1, <3>2 DEF OpenInv
      <3> QED
        BY <1>1, <3>2, <3>3 DEF Continues
    <2> QED
      BY <2>1, <2>2
  <1> QED
    BY <1>1, <1>2, <1>3, <1>4 DEF OpenInv

LEMMA WindowFocus ==
  ASSUME TypeInv, RootsInv, FocusInv, HoverInv, ActInv, ActsOnce, NEW w, Shows(w)
  PROVE  FocusInv' /\ HoverInv' /\ ActInv' /\ ActsOnce'
  <1>1. /\ pc = "windows" /\ pc' = "windows" /\ mouse' = mouse
        /\ Begins(ctx, begun(w), w) /\ Runs(begun(w), ctx', Parts(w))
        /\ acted' = acted \cup Acts(w) /\ ctx' = button(w)
    BY DEF Shows
  <1>2. /\ begun(w).hover = ctx.hover /\ begun(w).focus = ctx.focus
        /\ begun(w).updatedFocus = ctx.updatedFocus
    BY <1>1 DEF Begins
  <1>3. FocusInv'
    <2>1. Range(rootList') = Range(rootList) \cup {w}
      <3>1. rootList \in Seq(DOMAIN containers \cup {w}) /\ IsInjective(rootList)
        BY DEF TypeInv, RootsInv
      <3> QED
        BY <3>1, AndOne DEF Shows
    <2>2. \A id \in Parts(w) : id[1] = w
      BY DEF Parts
    <2>3. ctx'.updatedFocus => \/ ctx'.focus \in {NoControl} \cup Parts(w)
                               \/ ctx.updatedFocus /\ ctx'.focus = ctx.focus
      BY <1>1, <1>2 DEF Runs
    <2>4. ctx.updatedFocus => ctx.focus = NoControl \/ ctx.focus[1] \in Range(rootList)
      BY DEF FocusInv
    <2>5. ctx'.updatedFocus => ctx'.focus = NoControl \/ ctx'.focus[1] \in Range(rootList')
      BY <2>1, <2>2, <2>3, <2>4
    <2> QED
      BY <1>1, <2>5 DEF FocusInv
  <1>4. HoverInv'
    <2>1. mouse.down \/ mouse.pressed => Together(ctx')
      BY <1>1, <1>2 DEF HoverInv, Runs, Together
    <2>2. ~mouse.down /\ ~mouse.pressed => (ctx'.updatedFocus => ctx'.focus = NoControl)
      BY <1>1, <1>2 DEF HoverInv, Runs
    <2> QED
      BY <1>1, <2>1, <2>2 DEF HoverInv
  <1>5. ASSUME mouse.down, NEW c \in acted
        PROVE  ctx'.focus \in {c, NoControl} /\ ctx'.hover \in {c, NoControl}
    <2>1. ctx.focus \in {c, NoControl} /\ ctx.hover \in {c, NoControl}
      BY <1>1, <1>5 DEF ActInv
    <2> QED
      BY <1>1, <1>2, <1>5, <2>1 DEF Runs
  <1>6. \A c \in Acts(w) : ctx'.focus = c /\ c # NoControl
    <2>1. closes(w) => button(w).focus = <<w, "close">>
      BY DEF button, closes
    <2>2. submits(w) => button(w).focus = <<w, "button">>
      BY DEF submits
    <2>3. <<w, "close">> # NoControl /\ <<w, "button">> # NoControl
      BY DEF NoControl
    <2> QED
      BY <1>1, <2>1, <2>2, <2>3 DEF Acts
  <1>7. ActInv'
    <2>1. mouse.down => Together(ctx')
      BY <1>1, <1>2 DEF HoverInv, Runs, Together
    <2>2. ASSUME mouse.down, NEW c \in Acts(w)
          PROVE  ctx'.focus \in {c, NoControl} /\ ctx'.hover \in {c, NoControl}
      BY <1>6, <2>1, <2>2 DEF Together
    <2> QED
      BY <1>1, <1>5, <2>2 DEF ActInv
  <1>8. ActsOnce'
    <2> SUFFICES ASSUME mouse.down, NEW a \in acted', NEW b \in acted' PROVE a = b
      BY <1>1 DEF ActsOnce
    <2>1. a \in acted /\ b \in acted => a = b
      BY <1>1 DEF ActsOnce
    <2>2. \A c \in acted' : ctx'.focus \in {c, NoControl}
      BY <1>1, <1>5, <1>6
    <2>3. \A c \in Acts(w) : \A d \in acted' : d = c
      BY <1>6, <2>2
    <2> QED
      BY <1>1, <2>1, <2>3
  <1> QED
    BY <1>3, <1>4, <1>7, <1>8

LEMMA WindowKeeps == ASSUME IInv, Window PROVE IInv'
  <1>1. Shows(Head(todo))
    BY WindowShows
  <1> QED
    BY <1>1, WindowTypes, WindowContext, WindowRoots, WindowOpen, WindowFocus DEF IInv

-----------------------------------------------------------------------------
(* Between the windows of a frame and those of the next.                   *)

LEMMA InputKeeps ==
  ASSUME IInv, input_mouseMove \/ input_mouseDown \/ input_mouseUp
  PROVE  IInv'
  <1>1. /\ pc = "input"
        /\ UNCHANGED <<tasks, lastTaskId, containers, ctx, rootList, commandList,
                       pc, todo, acted, aim, rest>>
    BY DEF input_mouseMove, input_mouseDown, input_mouseUp, InputOnly
  <1>2. mouse' \in [pos : 0 .. Span - 1, last : 0 .. Span - 1, down : BOOLEAN, pressed : BOOLEAN]
    <2>1. mouse \in [pos : 0 .. Span - 1, last : 0 .. Span - 1, down : BOOLEAN, pressed : BOOLEAN]
      BY DEF IInv, TypeInv
    <2> QED
      BY <2>1 DEF input_mouseMove, input_mouseDown, input_mouseUp
  <1>3. TypeInv'
    BY <1>1, <1>2 DEF IInv, TypeInv
  <1>4. ContextInv' /\ RootsInv' /\ OpenInv'
    BY <1>1 DEF IInv, ContextInv, RootsInv, OpenInv, Controls
  <1>5. FocusInv' /\ HoverInv' /\ ActInv' /\ ActsOnce'
    BY <1>1 DEF IInv, FocusInv, FocusIsShown, HoverInv, ActInv, ActsOnce, Together
  <1> QED
    BY <1>3, <1>4, <1>5 DEF IInv

LEMMA PanicKeeps == ASSUME IInv, Panic PROVE IInv'
  <1>1. /\ pc = "windows" /\ todo # <<>> /\ Full(rootList) /\ pc' = "panic"
        /\ UNCHANGED <<tasks, lastTaskId, containers, ctx, mouse, rootList, commandList,
                       todo, acted, aim, rest>>
    BY DEF Panic
  <1>2. TypeInv'
    BY <1>1 DEF IInv, TypeInv
  <1>3. ContextInv' /\ RootsInv' /\ OpenInv'
    BY <1>1 DEF IInv, ContextInv, RootsInv, OpenInv, Controls, Full
  <1>4. FocusInv' /\ HoverInv' /\ ActInv' /\ ActsOnce'
    BY <1>1 DEF IInv, FocusInv, FocusIsShown, HoverInv, ActInv, ActsOnce, Together
  <1> QED
    BY <1>2, <1>3, <1>4 DEF IInv

LEMMA BeginKeeps == ASSUME IInv, begin PROVE IInv'
  <1>1. /\ pc = "input" /\ pc' = "windows"
        /\ ctx' = [ctx EXCEPT !.hoverRoot = ctx.nextHoverRoot, !.nextHoverRoot = None]
        /\ rootList' = <<>> /\ commandList' = <<>> /\ acted' = {}
        /\ todo' = Ascending(DOMAIN tasks)
        /\ UNCHANGED <<tasks, lastTaskId, containers, mouse, rest>>
    BY DEF begin
  <1>2. /\ TypeInv /\ ContextInv /\ OpenInv /\ FocusInv /\ HoverInv
    BY DEF IInv
  <1>3. /\ todo' \in Seq(Nat) /\ IsInjective(todo') /\ Range(todo') \subseteq DOMAIN tasks
    <2> DEFINE S == DOMAIN tasks
    <2>1. S \subseteq 1 .. lastTaskId /\ lastTaskId \in Nat
      BY <1>2 DEF TypeInv
    <2>2. IsFiniteSet(S) /\ S \subseteq Nat
      <3>1. IsFiniteSet(1 .. lastTaskId)
        BY <2>1, FS_Interval
      <3>2. IsFiniteSet(S)
        BY <2>1, <3>1, FS_Subset
      <3> QED
        BY <2>1, <3>2
    <2> HIDE DEF S
    <2>3. Enumerates(Ascending(S), S)
      BY <2>2, AscendingEnumerates
    <2>4. Ascending(S) \in Seq(Nat) /\ Range(Ascending(S)) \subseteq S /\ IsInjective(Ascending(S))
      <3> DEFINE s == Ascending(S)
      <3>1. s \in [1 .. Cardinality(S) -> S] /\ IsInjective(s) /\ s \in Seq(S)
        BY <2>3 DEF Enumerates
      <3> HIDE DEF s
      <3>2. s \in Seq(Nat)
        <4> DEFINE c == Cardinality(S)
        <4>1. c \in Nat
          BY <2>2, FS_CardinalityType
        <4>2. s \in [1 .. c -> Nat]
          BY <2>2, <3>1
        <4> HIDE DEF c
        <4> QED
          BY <4>1, <4>2
      <3>3. Range(s) \subseteq S
        BY <3>1 DEF Range
      <3> QED
        BY <3>1, <3>2, <3>3 DEF s
    <2> QED
      BY <1>1, <2>4 DEF S
  <1>4. /\ ctx' \in Context /\ ctx'.hoverRoot = ctx.nextHoverRoot /\ ctx'.nextHoverRoot = None
        /\ ctx'.hover = ctx.hover /\ ctx'.focus = ctx.focus
        /\ ctx'.updatedFocus = ctx.updatedFocus /\ ctx'.lastZIndex = ctx.lastZIndex
    BY <1>1, <1>2 DEF TypeInv, Context, None
  <1>5. TypeInv'
    BY <1>1, <1>2, <1>3, <1>4 DEF TypeInv
  <1>6. ContextInv'
    BY <1>1, <1>2, <1>4 DEF ContextInv, Controls
  <1>7. RootsInv'
    <2>1. /\ rootList' = <<>> /\ Len(rootList') = 0 /\ Range(rootList') = {}
          /\ IsInjective(rootList') /\ commandList' \in Seq(Commands) /\ Len(commandList') = 0
      BY <1>1 DEF Range, IsInjective
    <2> QED
      BY <1>1, <1>3, <2>1, WindowsAssumption DEF RootsInv
  <1>8. OpenInv'
    BY <1>1, <1>2, <1>4 DEF OpenInv
  <1>9. FocusInv' /\ HoverInv' /\ ActInv' /\ ActsOnce'
    BY <1>1, <1>2, <1>4 DEF FocusInv, HoverInv, ActInv, ActsOnce, Together
  <1> QED
    BY <1>5, <1>6, <1>7, <1>8, <1>9 DEF IInv

(* The jumps that end puts into the command list.                          *)
LEMMA LinkedCommands ==
  ASSUME NEW D, containers \in [D -> Container], NEW roots \in Seq(D),
         NEW cmds \in Seq(Commands), Len(cmds) = 3 * Len(roots)
  PROVE  Linked(cmds, roots) \in Seq(Commands) /\ Len(Linked(cmds, roots)) = Len(cmds)
  <1> DEFINE n == Len(roots)
             begins(k) == containers[roots[k]].head + 1
             tails == [k \in 1 .. n |-> containers[roots[k]].tail]
             value(i) == IF i = 1 THEN Jump(begins(1))
                         ELSE IF \E k \in 1 .. n : tails[k] = i - 1
                         THEN LET k == CHOOSE k \in 1 .. n : tails[k] = i - 1
                              IN Jump(IF k = n THEN Len(cmds) ELSE begins(k + 1))
                         ELSE cmds[i]
  <1>1. n \in Nat /\ Len(cmds) \in Nat /\ DOMAIN cmds = 1 .. Len(cmds)
    OBVIOUS
  <1>2. \A k \in 1 .. n : begins(k) \in Int
    <2> SUFFICES ASSUME NEW k \in 1 .. n PROVE begins(k) \in Int
      OBVIOUS
    <2>1. roots[k] \in D
      OBVIOUS
    <2>2. containers[roots[k]] \in Container
      BY <2>1
    <2>3. containers[roots[k]].head \in Nat
      BY <2>2 DEF Container
    <2> QED
      BY <2>3
  <1>3. \A x \in Int : Jump(x) \in Commands
    BY DEF Jump, Commands, None
  <1>4. Linked(cmds, roots) = [i \in 1 .. Len(cmds) |-> value(i)]
    BY <1>1 DEF Linked
  <1>5. ASSUME NEW i \in 1 .. Len(cmds) PROVE value(i) \in Commands
    <2> HIDE DEF begins, tails
    <2>1. CASE i = 1
      <3>1. 1 \in 1 .. n
        BY <1>1
      <3> QED
        BY <1>2, <1>3, <2>1, <3>1
    <2>2. CASE i # 1 /\ \E k \in 1 .. n : tails[k] = i - 1
      <3> DEFINE k == CHOOSE k \in 1 .. n : tails[k] = i - 1
                 dst == IF k = n THEN Len(cmds) ELSE begins(k + 1)
      <3>1. k \in 1 .. n
        BY <2>2
      <3>2. value(i) = Jump(dst)
        BY <2>2
      <3> HIDE DEF k
      <3>3. k # n => k + 1 \in 1 .. n
        BY <1>1, <3>1
      <3>4. dst \in Int
        BY <1>1, <1>2, <3>3
      <3> QED
        BY <1>3, <3>2, <3>4
    <2>3. CASE i # 1 /\ ~\E k \in 1 .. n : tails[k] = i - 1
      BY <1>1, <2>3
    <2> QED
      BY <2>1, <2>2, <2>3
  <1> HIDE DEF value
  <1>6. [i \in 1 .. Len(cmds) |-> value(i)] \in [1 .. Len(cmds) -> Commands]
    BY <1>5
  <1> DEFINE m == Len(cmds)
             f == Linked(cmds, roots)
  <1>7. m \in Nat /\ f \in [1 .. m -> Commands]
    BY <1>1, <1>4, <1>6
  <1> HIDE DEF n, begins, tails, m, f
  <1>8. f \in Seq(Commands) /\ Len(f) = m
    BY <1>7
  <1> QED
    BY <1>8 DEF m, f

(* What end does, with the containers raised and the windows in order.     *)
EndsWith(raised, z, roots) ==
  /\ pc = "windows" /\ pc' = "input"
  /\ containers' = raised /\ rootList' = roots
  /\ ctx' = [ctx EXCEPT !.focus = IF ctx.updatedFocus THEN @ ELSE NoControl,
                        !.updatedFocus = FALSE, !.lastZIndex = z]
  /\ commandList' = Linked(commandList, roots)
  /\ tasks' = [w \in {v \in DOMAIN tasks : ~tasks[v].dead} |-> tasks[w]]
  /\ mouse' = [mouse EXCEPT !.pressed = FALSE, !.last = mouse.pos]
  /\ lastTaskId' = lastTaskId /\ todo' = todo /\ acted' = acted

Raised(raised, z) ==
  /\ z \in Nat /\ z >= ctx.lastZIndex
  /\ raised \in [DOMAIN containers -> Container]
  /\ \A w \in DOMAIN containers : /\ raised[w].zindex \in 1 .. z
                                  /\ raised[w].open = containers[w].open
                                  /\ raised[w].head = containers[w].head
                                  /\ raised[w].tail = containers[w].tail
  /\ \A v, w \in DOMAIN containers :
       raised[v].zindex = raised[w].zindex => v = w \/ containers[v].zindex = containers[w].zindex

Ranked(roots, raised) ==
  /\ roots \in Seq(DOMAIN containers) /\ Len(roots) = Len(rootList)
  /\ Range(roots) = Range(rootList) /\ IsInjective(roots)
  /\ \A k, l \in 1 .. Len(roots) :
       k < l => raised[roots[k]].zindex <= raised[roots[l]].zindex

LEMMA EndIs ==
  ASSUME IInv, end
  PROVE  \E raised, z, roots : EndsWith(raised, z, roots) /\ Raised(raised, z) /\ Ranked(roots, raised)
  <1> DEFINE front == /\ mouse.pressed /\ ctx.nextHoverRoot # None
                      /\ containers[ctx.nextHoverRoot].zindex < ctx.lastZIndex
             z == IF front THEN ctx.lastZIndex + 1 ELSE ctx.lastZIndex
             raised == IF front THEN [containers EXCEPT ![ctx.nextHoverRoot].zindex = z]
                       ELSE containers
             key == [w \in DOMAIN raised |-> raised[w].zindex]
             roots == qsort(rootList, key)
             D == DOMAIN containers
  <1>1. EndsWith(raised, z, roots)
    BY DEF end, EndsWith
  <1>2. /\ containers \in [D -> Container] /\ ctx \in Context
        /\ ctx.nextHoverRoot \in D \cup {None}
        /\ rootList \in Seq(D) /\ IsInjective(rootList)
        /\ \A w \in D : containers[w].zindex \in 1 .. ctx.lastZIndex
    BY DEF IInv, TypeInv, ContextInv, RootsInv
  <1>3. ctx.lastZIndex \in Nat /\ z \in Nat /\ z >= ctx.lastZIndex
    BY <1>2 DEF Context
  <1>4. Raised(raised, z)
    <2>1. CASE front
      <3> DEFINE r == ctx.nextHoverRoot
                 c == [containers[r] EXCEPT !.zindex = z]
      <3>1. r \in D /\ z = ctx.lastZIndex + 1
        BY <1>2, <2>1
      <3>2. raised = [containers EXCEPT ![r] = c]
        BY <2>1
      <3> HIDE DEF z, raised, front
      <3>3. /\ c \in Container /\ c.zindex = z /\ c.open = containers[r].open
            /\ c.head = containers[r].head /\ c.tail = containers[r].tail
        BY <1>2, <1>3, <3>1 DEF Container
      <3> HIDE DEF c, r
      <3>4. /\ raised \in [D -> Container] /\ raised[r] = c
            /\ \A w \in D : w # r => raised[w] = containers[w]
        BY <1>2, <3>1, <3>2, <3>3
      <3>5. z \in 1 .. z /\ \A x \in 1 .. ctx.lastZIndex : x \in 1 .. z
        BY <1>3, <3>1
      <3>6. \A w \in D : /\ raised[w].zindex \in 1 .. z /\ raised[w].open = containers[w].open
                          /\ raised[w].head = containers[w].head
                          /\ raised[w].tail = containers[w].tail
        BY <1>2, <3>3, <3>4, <3>5
      <3>7. \A w \in D : containers[w].zindex # z
        BY <1>2, <1>3, <3>1
      <3>8. \A v, w \in D : raised[v].zindex = raised[w].zindex
              => v = w \/ containers[v].zindex = containers[w].zindex
        BY <3>3, <3>4, <3>7
      <3> QED
        BY <1>3, <3>4, <3>6, <3>8 DEF Raised
    <2>2. CASE ~front
      BY <1>2, <1>3, <2>2 DEF Raised
    <2> QED
      BY <2>1, <2>2
  <1> HIDE DEF z, raised
  <1>5. DOMAIN raised = D /\ DOMAIN key = D /\ key \in [D -> Int]
    <2>1. raised \in [D -> Container]
      BY <1>4 DEF Raised
    <2>2. \A w \in D : raised[w].zindex \in Int
      BY <2>1 DEF Container
    <2> QED
      BY <2>1, <2>2
  <1> HIDE DEF key
  <1>6. rootList \in Seq(DOMAIN key) /\ key \in [DOMAIN key -> Int]
    BY <1>2, <1>5
  <1>7. /\ roots \in Seq(DOMAIN key) /\ Len(roots) = Len(rootList)
        /\ Range(roots) = Range(rootList) /\ IsInjective(roots)
        /\ \A k, l \in 1 .. Len(rootList) : k < l => key[roots[k]] <= key[roots[l]]
    BY <1>2, <1>6, RootsSorted
  <1>8. Ranked(roots, raised)
    <2> HIDE DEF roots
    <2>1. \A k \in 1 .. Len(roots) : roots[k] \in D
      BY <1>5, <1>7
    <2>2. \A k \in 1 .. Len(roots) : key[roots[k]] = raised[roots[k]].zindex
      BY <1>5, <2>1 DEF key
    <2> QED
      BY <1>5, <1>7, <2>2 DEF Ranked
  <1> QED
    BY <1>1, <1>4, <1>8

LEMMA EndTypes ==
  ASSUME IInv, NEW raised, NEW z, NEW roots, EndsWith(raised, z, roots), Raised(raised, z),
         Ranked(roots, raised)
  PROVE  /\ TypeInv' /\ DOMAIN containers' = DOMAIN containers
         /\ ctx'.hover = ctx.hover /\ ctx'.hoverRoot = ctx.hoverRoot
         /\ ctx'.nextHoverRoot = ctx.nextHoverRoot /\ ctx'.lastZIndex = z
         /\ ~ctx'.updatedFocus
         /\ ctx'.focus = IF ctx.updatedFocus THEN ctx.focus ELSE NoControl
  <1> DEFINE f == IF ctx.updatedFocus THEN ctx.focus ELSE NoControl
  <1>1. TypeInv
    BY DEF IInv
  <1>2. ctx' = [ctx EXCEPT !.focus = f, !.updatedFocus = FALSE, !.lastZIndex = z]
    BY DEF EndsWith
  <1>3. f \in Control /\ z \in Nat
    BY <1>1 DEF TypeInv, Context, Control, Raised
  <1> HIDE DEF f
  <1>4. /\ ctx' \in Context /\ ctx'.hover = ctx.hover /\ ctx'.hoverRoot = ctx.hoverRoot
        /\ ctx'.nextHoverRoot = ctx.nextHoverRoot /\ ctx'.lastZIndex = z
        /\ ~ctx'.updatedFocus /\ ctx'.focus = f
    BY <1>1, <1>2, <1>3 DEF TypeInv, Context
  <1>5. containers' \in [DOMAIN containers' -> Container] /\ DOMAIN containers' = DOMAIN containers
    BY DEF EndsWith, Raised
  <1>6. tasks' \in [DOMAIN tasks' -> Task] /\ DOMAIN tasks' \subseteq DOMAIN tasks
    BY <1>1 DEF TypeInv, EndsWith
  <1>7. mouse' \in [pos : 0 .. Span - 1, last : 0 .. Span - 1, down : BOOLEAN, pressed : BOOLEAN]
    BY <1>1 DEF TypeInv, EndsWith
  <1>8. TypeInv'
    <2>1. DOMAIN tasks' \subseteq 1 .. lastTaskId' /\ lastTaskId' \in 1 .. MaxTasks
      BY <1>1, <1>6 DEF TypeInv, EndsWith
    <2>2. DOMAIN containers' \subseteq 1 .. lastTaskId'
      BY <1>1, <1>5 DEF TypeInv, EndsWith
    <2>3. rootList' \in Seq(DOMAIN containers')
      BY <1>5 DEF EndsWith, Ranked
    <2>4. todo' \in Seq(Nat) /\ pc' \in {"input", "windows", "panic"}
      BY <1>1 DEF TypeInv, EndsWith
    <2> QED
      BY <1>4, <1>5, <1>6, <1>7, <2>1, <2>2, <2>3, <2>4 DEF TypeInv
  <1> QED
    BY <1>4, <1>5, <1>8 DEF f

LEMMA EndKeeps == ASSUME IInv, end PROVE IInv'
  <1> SUFFICES ASSUME NEW raised, NEW z, NEW roots, EndsWith(raised, z, roots),
                      Raised(raised, z), Ranked(roots, raised)
               PROVE  IInv'
    BY EndIs
  <1>1. /\ TypeInv' /\ DOMAIN containers' = DOMAIN containers
        /\ ctx'.hover = ctx.hover /\ ctx'.hoverRoot = ctx.hoverRoot
        /\ ctx'.nextHoverRoot = ctx.nextHoverRoot /\ ctx'.lastZIndex = z
        /\ ~ctx'.updatedFocus
        /\ ctx'.focus = IF ctx.updatedFocus THEN ctx.focus ELSE NoControl
    BY EndTypes
  <1>2. TypeInv /\ ContextInv /\ RootsInv /\ OpenInv /\ FocusInv /\ HoverInv
    BY DEF IInv
  <1>3. pc = "windows" /\ pc' = "input" /\ containers' = raised /\ rootList' = roots
    BY DEF EndsWith
  <1>4. ContextInv'
    <2>1. Controls' = Controls
      BY <1>1 DEF Controls
    <2>2. NoControl \in Controls
      BY DEF Controls
    <2>3. ctx'.hover \in Controls' /\ ctx'.focus \in Controls'
      BY <1>1, <1>2, <2>1, <2>2 DEF ContextInv
    <2>4. \A w \in DOMAIN containers' : containers'[w].zindex \in 1 .. ctx'.lastZIndex
      BY <1>1, <1>3 DEF Raised
    <2> QED
      BY <1>1, <1>2, <2>3, <2>4 DEF ContextInv
  <1>5. RootsInv'
    <2>1. containers \in [DOMAIN containers -> Container]
      BY <1>2 DEF TypeInv
    <2>2. commandList \in Seq(Commands) /\ Len(commandList) = 3 * Len(rootList)
      BY <1>2 DEF RootsInv
    <2>3. roots \in Seq(DOMAIN containers) /\ Len(roots) = Len(rootList) /\ IsInjective(roots)
      BY DEF Ranked
    <2>4. commandList' \in Seq(Commands) /\ Len(commandList') = Len(commandList)
      BY <2>1, <2>2, <2>3, LinkedCommands DEF EndsWith
    <2> QED
      BY <1>2, <1>3, <2>2, <2>3, <2>4 DEF RootsInv
  <1>6. OpenInv'
    <2>1. /\ DOMAIN tasks' = {v \in DOMAIN tasks : ~tasks[v].dead}
          /\ \A v \in DOMAIN tasks' : tasks'[v] = tasks[v]
      BY DEF EndsWith
    <2>2. \E w \in DOMAIN tasks' : tasks'[w].noClose
      BY <1>2, <2>1 DEF OpenInv
    <2>3. ASSUME NEW w \in DOMAIN tasks', tasks'[w].noClose
          PROVE  <<w, "close">> \notin {ctx'.hover, ctx'.focus}
      <3>1. <<w, "close">> \notin {ctx.hover, ctx.focus} /\ <<w, "close">> # NoControl
        BY <1>2, <2>1, <2>3 DEF OpenInv, NoControl
      <3> QED
        BY <1>1, <3>1
    <2>4. ASSUME NEW w \in DOMAIN tasks', w \in DOMAIN containers', ~containers'[w].open
          PROVE  FALSE
      <3>1. w \in DOMAIN containers /\ ~containers[w].open
        BY <1>1, <1>3, <2>4 DEF Raised
      <3>2. w \in DOMAIN tasks /\ ~tasks[w].dead
        BY <2>1
      <3> QED
        BY <1>2, <3>1, <3>2 DEF OpenInv
    <2> QED
      BY <2>1, <2>2, <2>3, <2>4 DEF OpenInv
  <1>7. FocusInv'
    <2>1. ctx'.focus # NoControl => ctx'.focus[1] \in Range(rootList')
      BY <1>1, <1>2, <1>3 DEF FocusInv, Ranked
    <2> QED
      BY <1>1, <2>1 DEF FocusInv, FocusIsShown
  <1>8. HoverInv'
    <2>1. Together(ctx')
      BY <1>1, <1>2, <1>3 DEF HoverInv, Together
    <2> QED
      BY <1>3, <2>1 DEF HoverInv
  <1>9. ActInv' /\ ActsOnce'
    BY <1>3 DEF ActInv, ActsOnce
  <1> QED
    BY <1>1, <1>4, <1>5, <1>6, <1>7, <1>8, <1>9 DEF IInv

-----------------------------------------------------------------------------
LEMMA Initially == Init => IInv
  <1> SUFFICES ASSUME Init PROVE IInv
    OBVIOUS
  <1> DEFINE first == [class |-> "Progman", dead |-> FALSE, noClose |-> TRUE, x |-> 0]
  <1>1. /\ tasks = [w \in {1} |-> first] /\ lastTaskId = 1 /\ containers = <<>>
        /\ ctx = [hover |-> NoControl, focus |-> NoControl, updatedFocus |-> FALSE,
                  hoverRoot |-> None, nextHoverRoot |-> None, lastZIndex |-> 0]
        /\ mouse = [pos |-> 0, last |-> 0, down |-> FALSE, pressed |-> FALSE]
        /\ rootList = <<>> /\ commandList = <<>> /\ pc = "input" /\ todo = <<>> /\ acted = {}
    BY DEF Init
  <1>2. first \in Task /\ ~first.dead /\ first.noClose
    BY DEF Task
  <1> HIDE DEF first
  <1>3. tasks \in [DOMAIN tasks -> Task] /\ DOMAIN tasks = {1} /\ tasks[1] = first
    BY <1>1, <1>2
  <1>4. containers \in [DOMAIN containers -> Container] /\ DOMAIN containers = {}
    BY <1>1
  <1>5. /\ ctx \in Context /\ ctx.hover = NoControl /\ ctx.focus = NoControl
        /\ ~ctx.updatedFocus /\ ctx.hoverRoot = None /\ ctx.nextHoverRoot = None
    BY <1>1 DEF Context, Control, None
  <1>6. mouse \in [pos : 0 .. Span - 1, last : 0 .. Span - 1, down : BOOLEAN, pressed : BOOLEAN]
    BY <1>1, WindowsAssumption
  <1>7. TypeInv
    <2>1. lastTaskId \in 1 .. MaxTasks /\ DOMAIN tasks \subseteq 1 .. lastTaskId
      BY <1>1, <1>3, WindowsAssumption
    <2>2. rootList \in Seq(DOMAIN containers) /\ todo \in Seq(Nat)
      BY <1>1
    <2> QED
      BY <1>1, <1>3, <1>4, <1>5, <1>6, <2>1, <2>2 DEF TypeInv
  <1>8. ContextInv
    BY <1>4, <1>5 DEF ContextInv, Controls
  <1>9. RootsInv
    <2>1. /\ Len(rootList) = 0 /\ IsInjective(rootList) /\ commandList \in Seq(Commands)
          /\ Len(commandList) = 0
      BY <1>1 DEF IsInjective
    <2> QED
      BY <1>1, <2>1, WindowsAssumption DEF RootsInv
  <1>10. OpenInv
    BY <1>2, <1>3, <1>4, <1>5 DEF OpenInv, NoControl
  <1>11. FocusInv /\ HoverInv /\ ActInv /\ ActsOnce
    BY <1>1, <1>5 DEF FocusInv, FocusIsShown, HoverInv, ActInv, ActsOnce, Together
  <1> QED
    BY <1>7, <1>8, <1>9, <1>10, <1>11 DEF IInv

(* IInv holds of every behaviour: every handler of the window manager, with *)
(* each call it makes, takes a state of the invariant to another.          *)
THEOREM Invariant == Spec => []IInv
  <1>1. IInv /\ [Next]_vars => IInv'
    <2> SUFFICES ASSUME IInv, [Next]_vars PROVE IInv'
      OBVIOUS
    <2>1. CASE input_mouseMove \/ input_mouseDown \/ input_mouseUp
      BY <2>1, InputKeeps
    <2>2. CASE begin
      BY <2>2, BeginKeeps
    <2>3. CASE Window
      BY <2>3, WindowKeeps
    <2>4. CASE Panic
      BY <2>4, PanicKeeps
    <2>5. CASE end
      BY <2>5, EndKeeps
    <2>6. CASE UNCHANGED vars
      <3>1. UNCHANGED <<tasks, lastTaskId, containers, ctx, mouse, rootList, commandList,
                        pc, todo, acted>>
        BY <2>6 DEF vars
      <3>2. TypeInv'
        BY <3>1 DEF IInv, TypeInv
      <3>3. ContextInv' /\ RootsInv'
        BY <3>1 DEF IInv, ContextInv, RootsInv, Controls
      <3>4. OpenInv' /\ FocusInv'
        BY <3>1 DEF IInv, OpenInv, FocusInv, FocusIsShown
      <3>5. HoverInv' /\ ActInv' /\ ActsOnce'
        BY <3>1 DEF IInv, HoverInv, ActInv, ActsOnce, Together
      <3> QED
        BY <3>2, <3>3, <3>4, <3>5 DEF IInv
    <2> QED
      BY <2>1, <2>2, <2>3, <2>4, <2>5, <2>6 DEF Next
  <1> QED
    BY Initially, <1>1, PTL DEF Spec

LEMMA FullMeansMany == IInv => PanicOnlyWhenFull
  <1> SUFFICES ASSUME IInv, pc = "panic" PROVE Cardinality(DOMAIN tasks) > RootListSize
    BY DEF PanicOnlyWhenFull
  <1> DEFINE n == Len(rootList)
             T == DOMAIN tasks
             h == Head(todo)
             S == T \ {h}
  <1>1. /\ rootList \in Seq(DOMAIN containers) /\ IsInjective(rootList)
        /\ todo \in Seq(Nat) /\ todo # <<>> /\ n >= RootListSize /\ IsInjective(todo)
        /\ Range(rootList) \subseteq T /\ Range(todo) \subseteq T
        /\ Range(rootList) \cap Range(todo) = {}
    BY DEF IInv, TypeInv, RootsInv
  <1>2. h \in T /\ h \notin Range(rootList)
    BY <1>1, RestOf
  <1>3. IsFiniteSet(T)
    <2>1. T \subseteq 1 .. lastTaskId /\ lastTaskId \in Int
      BY DEF IInv, TypeInv
    <2>2. IsFiniteSet(1 .. lastTaskId)
      BY <2>1, FS_Interval
    <2> QED
      BY <2>1, <2>2, FS_Subset
  <1> HIDE DEF T, h
  <1>4. IsFiniteSet(S) /\ Cardinality(S) \in Nat /\ Cardinality(T) \in Nat
        /\ Cardinality(S) + 1 <= Cardinality(T)
    BY <1>2, <1>3, SmallerPart
  <1>5. n \in Nat /\ rootList \in [1 .. n -> S]
    BY <1>1, <1>2 DEF Range
  <1>6. rootList \in Injection(1 .. n, S)
    BY <1>1, <1>5 DEF Injection
  <1> HIDE DEF n, S
  <1>7. Cardinality(1 .. n) = n
    BY <1>5, FS_Interval
  <1>8. n <= Cardinality(S)
    BY <1>4, <1>6, <1>7, FS_Injection
  <1>9. RootListSize \in Nat
    BY WindowsAssumption
  <1> QED
    BY <1>1, <1>4, <1>5, <1>8, <1>9 DEF T, n

(* DesktopOK: whatever is moved, pressed, opened, closed and killed, no    *)
(* task, window or focus refers to what is gone, the first window stays,   *)
(* and push fails only when more tasks live than the list has places.      *)
THEOREM DesktopAlways == Spec => []DesktopOK
  <1>1. IInv => DesktopOK
    <2> SUFFICES ASSUME IInv PROVE DesktopOK
      OBVIOUS
    <2>1. TypeOK
      BY DEF IInv, TypeInv, ContextInv, RootsInv, TypeOK
    <2>2. TasksAreOpen
      BY DEF IInv, OpenInv, TasksAreOpen
    <2>3. FocusIsShown
      BY DEF IInv, FocusInv, FocusIsShown
    <2> QED
      BY <2>1, <2>2, <2>3, FullMeansMany DEF DesktopOK
  <1> QED
    BY <1>1, Invariant, PTL

(* ActsOnce: in a frame for which the button is held no two buttons act.   *)
THEOREM ActsOnceAlways == Spec => []ActsOnce
  <1>1. IInv => ActsOnce
    BY DEF IInv
  <1> QED
    BY <1>1, Invariant, PTL

-----------------------------------------------------------------------------
(* The order in which the windows are drawn.                               *)

(* The places at lead through the list: from its first command to the draw *)
(* of the first window, from each window's draw to that of the next, and   *)
(* from the last to the end.                                               *)
Chain(cmds, roots, at) ==
  LET n == Len(roots) IN
  /\ cmds \in Seq(Commands) /\ roots \in Seq(Nat \ {0}) /\ Len(cmds) = 3 * n
  /\ n > 0 => cmds[1] = Jump(at[1])
  /\ \A k \in 1 .. n :
       /\ at[k] \in 0 .. 3 * n - 2
       /\ cmds[at[k] + 1] = Draw(roots[k])
       /\ cmds[at[k] + 2] = Jump(IF k = n THEN 3 * n ELSE at[k + 1])

Visit == [idx : Int, windows : Seq(Nat)]
Visits(walk, cmds) ==
  walk = [k \in 0 .. Len(cmds) |->
            IF k = 0 THEN [idx |-> 0, windows |-> <<>>] ELSE nextCommand(cmds, walk[k - 1])]

LEMMA NextVisit ==
  ASSUME NEW cmds \in Seq(Commands), NEW r \in Visit
  PROVE  nextCommand(cmds, r) \in Visit
  <1> DEFINE cmd == cmds[r.idx + 1]
  <1>1. r.idx \in Int /\ r.windows \in Seq(Nat)
    BY DEF Visit
  <1>2. CASE r.idx \notin 0 .. Len(cmds) - 1
    BY <1>2 DEF nextCommand
  <1>3. CASE r.idx \in 0 .. Len(cmds) - 1
    <2>1. r.idx + 1 \in 1 .. Len(cmds)
      BY <1>1, <1>3
    <2>2. cmd \in Commands
      BY <2>1
    <2> HIDE DEF cmd
    <2>3. cmd.task \in Nat /\ cmd.dst \in Int
      BY <2>2 DEF Commands
    <2>4. nextCommand(cmds, r) = IF cmd.task = None THEN [idx |-> cmd.dst, windows |-> r.windows]
                                 ELSE [idx |-> r.idx + 1, windows |-> Append(r.windows, cmd.task)]
      BY <1>3 DEF nextCommand, cmd
    <2>5. Append(r.windows, cmd.task) \in Seq(Nat)
      BY <1>1, <2>3
    <2> QED
      BY <1>1, <2>3, <2>4, <2>5 DEF Visit
  <1> QED
    BY <1>2, <1>3

LEMMA VisitsExist == ASSUME NEW cmds \in Seq(Commands) PROVE \E walk : Visits(walk, cmds)
  <1> DEFINE n == Len(cmds)
             first == [idx |-> 0, windows |-> <<>>]
             step == [k \in 1 .. n |-> [r \in Visit |-> nextCommand(cmds, r)]]
  <1>1. n \in Nat
    OBVIOUS
  <1>2. first \in Visit
    BY DEF Visit
  <1>3. \A k \in 1 .. n : [r \in Visit |-> nextCommand(cmds, r)] \in [Visit -> Visit]
    BY NextVisit
  <1> HIDE DEF first
  <1>4. Recursion(Visit, first, n, step)
    BY <1>1, <1>2, <1>3 DEF Recursion
  <1>5. PICK f : Solves(f, Visit, first, n, step)
    BY <1>4, RecursionExists
  <1> HIDE DEF n
  <1>6. /\ f \in [0 .. n -> Visit] /\ f[0] = first
        /\ \A k \in 1 .. n : f[k] = step[k][f[k - 1]]
    BY <1>5 DEF Solves
  <1>7. ASSUME NEW k \in 0 .. n, k # 0 PROVE f[k] = nextCommand(cmds, f[k - 1])
    <2>1. k \in 1 .. n /\ k - 1 \in 0 .. n
      BY <1>1, <1>7
    <2>2. f[k - 1] \in Visit /\ f[k] = step[k][f[k - 1]]
      BY <1>6, <2>1
    <2> QED
      BY <2>1, <2>2
  <1> HIDE DEF step
  <1>8. f = [k \in 0 .. n |-> IF k = 0 THEN first ELSE nextCommand(cmds, f[k - 1])]
    BY <1>6, <1>7
  <1> QED
    BY <1>8 DEF Visits, n, first

Steps(walk, cmds) ==
  /\ Drawn(cmds) = walk[Len(cmds)]
  /\ walk[0] = [idx |-> 0, windows |-> <<>>]
  /\ \A k \in 1 .. Len(cmds) : walk[k] = nextCommand(cmds, walk[k - 1])

LEMMA DrawnVisits == ASSUME NEW cmds \in Seq(Commands) PROVE \E walk : Steps(walk, cmds)
  <1> DEFINE n == Len(cmds)
             walk == CHOOSE walk : Visits(walk, cmds)
  <1>1. n \in Nat
    OBVIOUS
  <1>2. Drawn(cmds) = walk[n]
    BY DEF Drawn, Visits
  <1>3. Visits(walk, cmds)
    BY VisitsExist
  <1> HIDE DEF walk
  <1>4. walk = [k \in 0 .. n |-> IF k = 0 THEN [idx |-> 0, windows |-> <<>>]
                                ELSE nextCommand(cmds, walk[k - 1])]
    BY <1>3 DEF Visits
  <1> HIDE DEF n
  <1>5. walk[0] = [idx |-> 0, windows |-> <<>>]
    BY <1>1, <1>4
  <1>6. ASSUME NEW k \in 1 .. n PROVE walk[k] = nextCommand(cmds, walk[k - 1])
    <2>1. k \in 0 .. n /\ k # 0
      BY <1>1
    <2> QED
      BY <1>4, <2>1
  <1> QED
    BY <1>2, <1>5, <1>6 DEF Steps, n

(* The first windows of a sequence.                                        *)
First(s, k) == [i \in 1 .. k |-> s[i]]

LEMMA FirstGrows ==
  ASSUME NEW s \in Seq(Nat \ {0}), NEW k \in 1 .. Len(s)
  PROVE  /\ First(s, k - 1) \in Seq(Nat) /\ Append(First(s, k - 1), s[k]) = First(s, k)
         /\ First(s, Len(s)) = s /\ First(s, 0) = <<>>
  <1> DEFINE n == Len(s)
             a == First(s, k - 1)
             b == First(s, k)
             c == Append(a, s[k])
  <1>1. n \in Nat /\ s \in [1 .. n -> Nat \ {0}] /\ k \in Nat /\ k >= 1
    OBVIOUS
  <1>2. k - 1 \in Nat /\ 1 .. k - 1 \subseteq 1 .. n /\ 1 .. k \subseteq 1 .. n
    BY <1>1
  <1>3. a \in [1 .. k - 1 -> Nat] /\ \A i \in 1 .. k - 1 : a[i] = s[i]
    BY <1>1, <1>2 DEF First
  <1>4. a \in Seq(Nat) /\ Len(a) = k - 1
    <2> DEFINE m == k - 1
    <2>1. m \in Nat /\ a \in [1 .. m -> Nat]
      BY <1>2, <1>3
    <2> HIDE DEF a, m
    <2>2. a \in Seq(Nat) /\ Len(a) = m
      BY <2>1
    <2> QED
      BY <2>2 DEF m
  <1>5. b \in [1 .. k -> Nat] /\ \A i \in 1 .. k : b[i] = s[i]
    BY <1>1, <1>2 DEF First
  <1>6. b \in Seq(Nat) /\ Len(b) = k
    <2> HIDE DEF b
    <2> QED
      BY <1>1, <1>5
  <1> HIDE DEF a, b
  <1>7. s[k] \in Nat
    BY <1>1
  <1>8. c \in Seq(Nat) /\ Len(c) = k /\ c[k] = s[k] /\ \A i \in 1 .. k - 1 : c[i] = a[i]
    BY <1>1, <1>4, <1>7
  <1> HIDE DEF c
  <1>9. \A i \in 1 .. k : c[i] = b[i]
    BY <1>1, <1>3, <1>5, <1>8
  <1>10. c = b
    BY <1>6, <1>8, <1>9, SeqEqual
  <1>11. First(s, n) = s /\ First(s, 0) = <<>>
    BY <1>1 DEF First
  <1> QED
    BY <1>4, <1>10, <1>11 DEF a, b, c

LEMMA JumpFollowed ==
  ASSUME NEW cmds \in Seq(Commands), NEW r, r.idx \in 0 .. Len(cmds) - 1, NEW dst,
         cmds[r.idx + 1] = Jump(dst)
  PROVE  nextCommand(cmds, r) = [idx |-> dst, windows |-> r.windows]
  BY DEF nextCommand, Jump

LEMMA DrawYielded ==
  ASSUME NEW cmds \in Seq(Commands), NEW r, r.idx \in 0 .. Len(cmds) - 1,
         NEW w \in Nat \ {0}, cmds[r.idx + 1] = Draw(w)
  PROVE  nextCommand(cmds, r) = [idx |-> r.idx + 1, windows |-> Append(r.windows, w)]
  BY DEF nextCommand, Draw, None

(* A list with such a chain draws its windows in the order of the chain.   *)
LEMMA ChainDrawn ==
  ASSUME NEW cmds, NEW roots, NEW at, Chain(cmds, roots, at)
  PROVE  Drawn(cmds) = [idx |-> Len(cmds), windows |-> roots]
  <1> DEFINE n == Len(roots)
  <1>1. /\ cmds \in Seq(Commands) /\ roots \in Seq(Nat \ {0}) /\ n \in Nat /\ Len(cmds) = 3 * n
        /\ n > 0 => cmds[1] = Jump(at[1])
        /\ \A k \in 1 .. n :
             /\ at[k] \in 0 .. 3 * n - 2
             /\ cmds[at[k] + 1] = Draw(roots[k])
             /\ cmds[at[k] + 2] = Jump(IF k = n THEN 3 * n ELSE at[k + 1])
    BY DEF Chain
  <1>0. PICK walk : Steps(walk, cmds)
    BY <1>1, DrawnVisits
  <1>2. /\ Drawn(cmds) = walk[3 * n]
        /\ walk[0] = [idx |-> 0, windows |-> <<>>]
        /\ \A k \in 1 .. 3 * n : walk[k] = nextCommand(cmds, walk[k - 1])
    BY <1>1, <1>0 DEF Steps
  <1> HIDE DEF n
  <1>3. \A k \in 1 .. n : /\ First(roots, k - 1) \in Seq(Nat)
                          /\ Append(First(roots, k - 1), roots[k]) = First(roots, k)
                          /\ roots[k] \in Nat \ {0}
    BY <1>1, FirstGrows DEF n
  <1>4. n > 0 => First(roots, n) = roots
    <2>1. n > 0 => 1 \in 1 .. n
      BY <1>1
    <2> QED
      BY <1>1, <2>1, FirstGrows DEF n
  <1>5. CASE n = 0
    <2>1. roots = <<>> /\ 3 * n = 0
      BY <1>1, <1>5 DEF n
    <2> QED
      BY <1>1, <1>2, <2>1
  <1>6. CASE n > 0
    <2> DEFINE Ok(k) == walk[2 * k - 1] = [idx |-> at[k], windows |-> First(roots, k - 1)]
               Over(k) == walk[k] = [idx |-> 3 * n, windows |-> roots]
    <2>1. Ok(1)
      <3>1. 1 \in 1 .. 3 * n /\ walk[1 - 1] = [idx |-> 0, windows |-> <<>>]
        BY <1>1, <1>2, <1>6
      <3>2. walk[1] = nextCommand(cmds, walk[1 - 1])
        BY <1>2, <3>1
      <3>3. walk[1] = [idx |-> at[1], windows |-> <<>>]
        <4> DEFINE r == walk[1 - 1]
        <4>1. r.idx = 0 /\ r.windows = <<>>
          BY <3>1
        <4> HIDE DEF r
        <4>2. r.idx \in 0 .. Len(cmds) - 1 /\ cmds[r.idx + 1] = Jump(at[1])
          BY <1>1, <1>6, <4>1
        <4>3. nextCommand(cmds, r) = [idx |-> at[1], windows |-> r.windows]
          BY <1>1, <4>2, JumpFollowed
        <4> QED
          BY <3>2, <4>1, <4>3 DEF r
      <3>4. First(roots, 1 - 1) = <<>> /\ 2 * 1 - 1 = 1
        BY <1>1, <1>6, FirstGrows DEF n
      <3> QED
        BY <3>3, <3>4
    <2>2. ASSUME NEW k \in 1 .. n, Ok(k)
          PROVE  walk[2 * k + 1] = [idx |-> IF k = n THEN 3 * n ELSE at[k + 1],
                                    windows |-> First(roots, k)]
      <3> DEFINE r == walk[2 * k - 1]
                 s == walk[2 * k]
                 w == roots[k]
      <3>0. /\ k \in Nat /\ 2 * k \in 1 .. 3 * n /\ 2 * k + 1 \in 1 .. 3 * n
            /\ (2 * k + 1) - 1 = 2 * k
        BY <1>1
      <3>1. s = nextCommand(cmds, r) /\ walk[2 * k + 1] = nextCommand(cmds, s)
        BY <1>2, <3>0
      <3>2. r.idx = at[k] /\ r.windows = First(roots, k - 1)
        BY <2>2
      <3>3. /\ at[k] \in 0 .. Len(cmds) - 1 /\ at[k] + 1 \in 0 .. Len(cmds) - 1
            /\ (at[k] + 1) + 1 = at[k] + 2
        BY <1>1
      <3> HIDE DEF r, w
      <3>4. s = [idx |-> at[k] + 1, windows |-> First(roots, k)]
        <4>1. cmds[r.idx + 1] = Draw(w) /\ w \in Nat \ {0} /\ r.idx \in 0 .. Len(cmds) - 1
          BY <1>1, <1>3, <3>2, <3>3 DEF w
        <4>2. nextCommand(cmds, r) = [idx |-> r.idx + 1, windows |-> Append(r.windows, w)]
          BY <1>1, <4>1, DrawYielded
        <4>3. Append(First(roots, k - 1), w) = First(roots, k)
          BY <1>3 DEF w
        <4> QED
          BY <3>1, <3>2, <4>2, <4>3
      <3> HIDE DEF s
      <3>5. s.idx = at[k] + 1 /\ s.windows = First(roots, k)
        BY <3>4
      <3> DEFINE dst == IF k = n THEN 3 * n ELSE at[k + 1]
      <3>6. s.idx \in 0 .. Len(cmds) - 1 /\ cmds[s.idx + 1] = Jump(dst)
        <4>1. cmds[at[k] + 2] = Jump(dst)
          BY <1>1
        <4> HIDE DEF dst
        <4> QED
          BY <3>3, <3>5, <4>1
      <3> HIDE DEF dst
      <3>7. nextCommand(cmds, s) = [idx |-> dst, windows |-> s.windows]
        BY <1>1, <3>6, JumpFollowed
      <3> QED
        BY <3>1, <3>5, <3>7 DEF dst
    <2>3. \A k \in 1 .. n - 1 : Ok(k) => Ok(k + 1)
      <3> SUFFICES ASSUME NEW k \in 1 .. n - 1, Ok(k) PROVE Ok(k + 1)
        OBVIOUS
      <3>1. k \in 1 .. n /\ k # n /\ 2 * (k + 1) - 1 = 2 * k + 1 /\ (k + 1) - 1 = k
        BY <1>1
      <3>2. walk[2 * k + 1] = [idx |-> at[k + 1], windows |-> First(roots, k)]
        BY <2>2, <3>1
      <3> QED
        BY <3>1, <3>2
    <2> HIDE DEF Ok
    <2>4. Ok(n)
      <3> DEFINE T == {k \in 1 .. n : ~Ok(k)}
      <3>0. n \in 1 .. n
        BY <1>1, <1>6
      <3> SUFFICES ASSUME T # {} PROVE FALSE
        BY <3>0
      <3>1. PICK k \in T : \A l \in T : k <= l
        <4>1. T \subseteq Nat
          BY <1>1
        <4> HIDE DEF T
        <4> QED
          BY <4>1, MinimalNat
      <3>2. k \in 1 .. n /\ ~Ok(k) /\ k # 1
        BY <2>1, <3>1
      <3>3. k - 1 \in 1 .. n - 1 /\ ~(k <= k - 1) /\ (k - 1) + 1 = k /\ k - 1 \in 1 .. n
        BY <1>1, <3>2
      <3>4. Ok(k - 1)
        BY <3>1, <3>3
      <3>5. Ok((k - 1) + 1)
        BY <2>3, <3>3, <3>4
      <3> QED
        BY <3>2, <3>3, <3>5
    <2>5. Over(2 * n + 1)
      <3>1. n \in 1 .. n
        BY <1>1, <1>6
      <3> QED
        BY <1>4, <1>6, <2>2, <2>4, <3>1
    <2>6. ASSUME NEW k \in 2 * n + 2 .. 3 * n, Over(k - 1) PROVE Over(k)
      <3> DEFINE r == walk[k - 1]
      <3>1. k \in 1 .. 3 * n
        BY <1>1
      <3>2. walk[k] = nextCommand(cmds, r)
        BY <1>2, <3>1
      <3>3. r = [idx |-> 3 * n, windows |-> roots]
        BY <2>6
      <3>4. r.idx \notin 0 .. Len(cmds) - 1
        BY <1>1, <3>3
      <3>5. nextCommand(cmds, r) = r
        BY <3>4 DEF nextCommand
      <3> QED
        BY <3>2, <3>3, <3>5
    <2> HIDE DEF Over
    <2>7. Over(3 * n)
      <3> DEFINE T == {k \in 2 * n + 1 .. 3 * n : ~Over(k)}
      <3>0. 3 * n \in 2 * n + 1 .. 3 * n
        BY <1>1, <1>6
      <3> SUFFICES ASSUME T # {} PROVE FALSE
        BY <3>0
      <3>1. PICK k \in T : \A l \in T : k <= l
        <4>1. T \subseteq Nat
          BY <1>1
        <4> HIDE DEF T
        <4> QED
          BY <4>1, MinimalNat
      <3>2. k \in 2 * n + 1 .. 3 * n /\ ~Over(k) /\ k # 2 * n + 1
        BY <2>5, <3>1
      <3>3. k \in 2 * n + 2 .. 3 * n /\ k - 1 \in 2 * n + 1 .. 3 * n /\ ~(k <= k - 1)
        BY <1>1, <3>2
      <3>4. Over(k - 1)
        BY <3>1, <3>3
      <3> QED
        BY <2>6, <3>2, <3>3, <3>4
    <2> QED
      BY <1>1, <1>2, <2>7 DEF Over
  <1> QED
    BY <1>1, <1>5, <1>6

(* No two windows have the same zindex.                                    *)
ZIndexInv ==
  \A v, w \in DOMAIN containers : containers[v].zindex = containers[w].zindex => v = w

(* While a frame runs, the commands of its windows are in the order in     *)
(* which the windows were begun, where their containers say.               *)
CommandInv ==
  pc # "input" =>
    \A k \in 1 .. Len(rootList) :
      /\ containers[rootList[k]].head = 3 * k - 3
      /\ containers[rootList[k]].tail = 3 * k - 1
      /\ commandList[3 * k - 1] = Draw(rootList[k])

DrawInv == ZIndexInv /\ CommandInv /\ DrawnInOrder

LEMMA DrawsInput ==
  ASSUME DrawInv, UNCHANGED <<containers, rootList, commandList, pc>>
  PROVE  DrawInv'
  BY DEF DrawInv, ZIndexInv, CommandInv, DrawnInOrder

LEMMA DrawsPanic == ASSUME IInv, DrawInv, Panic PROVE DrawInv'
  BY DEF DrawInv, ZIndexInv, CommandInv, DrawnInOrder, Panic

LEMMA DrawsBegin == ASSUME IInv, DrawInv, begin PROVE DrawInv'
  <1>1. containers' = containers /\ rootList' = <<>> /\ pc' = "windows"
    BY DEF begin
  <1>2. ZIndexInv'
    BY <1>1 DEF DrawInv, ZIndexInv
  <1>3. Len(rootList') = 0
    BY <1>1
  <1>4. CommandInv' /\ DrawnInOrder'
    BY <1>1, <1>3 DEF CommandInv, DrawnInOrder
  <1> QED
    BY <1>2, <1>4 DEF DrawInv

(* A window's commands go behind the others.                               *)
Recorded(w) ==
  LET n == Len(rootList) IN
  /\ containers'[w].head = 3 * n /\ containers'[w].tail = 3 * n + 2
  /\ commandList'[3 * n + 2] = Draw(w)
  /\ \A i \in 1 .. 3 * n : commandList'[i] = commandList[i]

LEMMA WindowRecorded == ASSUME IInv, Window PROVE Recorded(Head(todo))
  <1> DEFINE w == Head(todo)
             n == Len(rootList)
             l == Len(commandList)
  <1>1. /\ commandList \in Seq(Commands) /\ l = 3 * n /\ n \in Nat
    BY DEF IInv, TypeInv, RootsInv
  <1>2. Shows(w)
    BY WindowShows
  <1>3. /\ commandList' = commandList \o <<Jump(l + 3), Draw(w), Jump(-1)>>
        /\ containers' = [v \in (DOMAIN containers) \cup {w} |->
                            IF v = w THEN Updated(w) ELSE containers[v]]
    BY DEF Window
  <1>4. w \in Nat \ {0} /\ w \in DOMAIN tasks
    BY <1>2 DEF Shows
  <1> HIDE DEF w
  <1>5. Updated(w).head = l /\ Updated(w).tail = l + 2
    <2>1. Shown(w) \in Container
      BY <1>4, WindowBegins DEF IInv
    <2> DEFINE dx == IF title(w).focus = <<w, "title">> /\ mouse.down
                     THEN Shown(w).x + mouse.pos - mouse.last ELSE Shown(w).x
               o == ~closes(w)
    <2>2. Updated(w) = [Shown(w) EXCEPT !.x = dx, !.open = o, !.head = l, !.tail = l + 2]
      BY DEF Updated
    <2> HIDE DEF dx, o
    <2> QED
      BY <2>1, <2>2 DEF Container
  <1>6. containers'[w] = Updated(w)
    BY <1>3
  <1> DEFINE a == Jump(l + 3)
             b == Draw(w)
             c == Jump(-1)
  <1>7. a \in Commands /\ b \in Commands /\ c \in Commands
    BY <1>1, <1>4 DEF Commands, Jump, Draw, None
  <1>8. commandList' = commandList \o <<a, b, c>>
    BY <1>3
  <1> HIDE DEF a, b, c
  <1>9. <<a, b, c>> \in Seq(Commands) /\ Len(<<a, b, c>>) = 3 /\ <<a, b, c>>[2] = b
    BY <1>7
  <1>10. \A i \in 1 .. l + 3 : commandList'[i] = IF i <= l THEN commandList[i] ELSE <<a, b, c>>[i - l]
    BY <1>1, <1>8, <1>9, ConcatProperties
  <1>11. commandList'[l + 2] = b /\ \A i \in 1 .. l : commandList'[i] = commandList[i]
    <2>1. l + 2 \in 1 .. l + 3 /\ ~(l + 2 <= l) /\ (l + 2) - l = 2 /\ l \in Nat
      BY <1>1
    <2>2. \A i \in 1 .. l : i \in 1 .. l + 3 /\ i <= l
      BY <2>1
    <2> HIDE DEF l
    <2>3. commandList'[l + 2] = <<a, b, c>>[2]
      BY <1>10, <2>1
    <2>4. \A i \in 1 .. l : commandList'[i] = commandList[i]
      BY <1>10, <2>2
    <2> QED
      BY <1>9, <2>3, <2>4
  <1> QED
    BY <1>1, <1>5, <1>6, <1>11 DEF Recorded, b, w

LEMMA DrawsWindow == ASSUME IInv, DrawInv, Window PROVE DrawInv'
  <1> DEFINE w == Head(todo)
             n == Len(rootList)
  <1>1. Shows(w) /\ Recorded(w)
    BY WindowShows, WindowRecorded
  <1>2. TypeInv /\ ContextInv
    BY DEF IInv
  <1> HIDE DEF w
  <1>3. /\ DOMAIN containers' = (DOMAIN containers) \cup {w}
        /\ \A v \in DOMAIN containers : v # w => containers'[v] = containers[v]
        /\ containers'[w].zindex = Shown(w).zindex
        /\ rootList' = Append(rootList, w) /\ w \notin Range(rootList)
        /\ pc = "windows" /\ pc' = "windows"
    BY <1>1 DEF Shows
  <1>4. ZIndexInv'
    <2>1. ASSUME NEW v \in DOMAIN containers, v # w PROVE containers[v].zindex # Shown(w).zindex
      <3>1. CASE w \in DOMAIN containers
        BY <2>1, <3>1 DEF Shown, DrawInv, ZIndexInv
      <3>2. CASE w \notin DOMAIN containers
        <4>1. containers[v].zindex \in 1 .. ctx.lastZIndex /\ ctx.lastZIndex \in Nat
          BY <1>2 DEF ContextInv, TypeInv, Context
        <4>2. Shown(w).zindex = ctx.lastZIndex + 1
          BY <3>2 DEF Shown
        <4> QED
          BY <4>1, <4>2
      <3> QED
        BY <3>1, <3>2
    <2>2. \A v \in DOMAIN containers : v # w => containers'[v].zindex # containers'[w].zindex
      BY <1>3, <2>1
    <2>3. \A u, v \in DOMAIN containers :
            u # w /\ v # w /\ containers'[u].zindex = containers'[v].zindex => u = v
      BY <1>3 DEF DrawInv, ZIndexInv
    <2> QED
      BY <1>3, <2>2, <2>3 DEF ZIndexInv
  <1>5. ASSUME NEW k \in 1 .. Len(rootList')
        PROVE  /\ containers'[rootList'[k]].head = 3 * k - 3
               /\ containers'[rootList'[k]].tail = 3 * k - 1
               /\ commandList'[3 * k - 1] = Draw(rootList'[k])
    <2>1. /\ rootList \in Seq(DOMAIN containers) /\ n \in Nat
      BY <1>2 DEF TypeInv
    <2>2. /\ Len(rootList') = n + 1 /\ rootList'[n + 1] = w
          /\ \A j \in 1 .. n : rootList'[j] = rootList[j]
      BY <1>3, <2>1
    <2>3. CASE k = n + 1
      <3>1. 3 * k - 3 = 3 * n /\ 3 * k - 1 = 3 * n + 2
        BY <2>1, <2>3
      <3> HIDE DEF n
      <3> QED
        BY <1>1, <2>2, <2>3, <3>1 DEF Recorded, n
    <2>4. CASE k # n + 1
      <3>1. k \in 1 .. n /\ 3 * k - 1 \in 1 .. 3 * n
        BY <2>1, <2>2, <2>4
      <3>2. rootList'[k] = rootList[k] /\ rootList[k] \in DOMAIN containers
        BY <2>1, <2>2, <3>1
      <3>3. rootList[k] # w
        BY <1>3, <2>1, <3>1 DEF Range
      <3>4. containers'[rootList[k]] = containers[rootList[k]]
        BY <1>3, <3>2, <3>3
      <3>5. commandList'[3 * k - 1] = commandList[3 * k - 1]
        BY <1>1, <3>1 DEF Recorded
      <3>6. /\ containers[rootList[k]].head = 3 * k - 3
            /\ containers[rootList[k]].tail = 3 * k - 1
            /\ commandList[3 * k - 1] = Draw(rootList[k])
        BY <1>3, <3>1 DEF DrawInv, CommandInv
      <3> QED
        BY <3>2, <3>4, <3>5, <3>6
    <2> QED
      BY <2>3, <2>4
  <1>6. CommandInv' /\ DrawnInOrder'
    BY <1>3, <1>5 DEF CommandInv, DrawnInOrder
  <1> QED
    BY <1>4, <1>6 DEF DrawInv

(* Where a window of the order was run.                                    *)
LEMMA RanAt ==
  ASSUME TypeInv, NEW raised, NEW roots, Ranked(roots, raised), NEW k \in 1 .. Len(roots)
  PROVE  \E j \in 1 .. Len(roots) : roots[k] = rootList[j]
  <1>1. roots[k] \in Range(roots) /\ Range(roots) = Range(rootList)
    <2>1. roots \in Seq(DOMAIN containers) /\ Range(roots) = Range(rootList)
      BY DEF Ranked
    <2>2. k \in DOMAIN roots
      BY <2>1
    <2> QED
      BY <2>1, <2>2 DEF Range
  <1>2. DOMAIN rootList = 1 .. Len(roots)
    <2>1. rootList \in Seq(DOMAIN containers)
      BY DEF TypeInv
    <2> QED
      BY <2>1 DEF Ranked
  <1> QED
    BY <1>1, <1>2 DEF Range

(* end makes a chain of the windows in their order.                        *)
LEMMA EndChains ==
  ASSUME IInv, CommandInv, pc = "windows", NEW raised, NEW roots, Ranked(roots, raised)
  PROVE  \E at : Chain(Linked(commandList, roots), roots, at)
  <1> DEFINE n == Len(roots)
             begins(k) == containers[roots[k]].head + 1
             tails == [k \in 1 .. n |-> containers[roots[k]].tail]
             at == [k \in 1 .. n |-> begins(k)]
             cmds == Linked(commandList, roots)
             value(i) == IF i = 1 THEN Jump(begins(1))
                         ELSE IF \E k \in 1 .. n : tails[k] = i - 1
                         THEN LET k == CHOOSE k \in 1 .. n : tails[k] = i - 1
                              IN Jump(IF k = n THEN 3 * n ELSE begins(k + 1))
                         ELSE commandList[i]
  <1>1. /\ TypeInv /\ containers \in [DOMAIN containers -> Container]
        /\ rootList \in Seq(DOMAIN containers) /\ DOMAIN containers \subseteq 1 .. lastTaskId
        /\ lastTaskId \in Nat
        /\ commandList \in Seq(Commands) /\ Len(commandList) = 3 * Len(rootList)
        /\ IsInjective(rootList)
    BY DEF IInv, TypeInv, RootsInv
  <1>2. /\ roots \in Seq(DOMAIN containers) /\ n = Len(rootList) /\ IsInjective(roots) /\ n \in Nat
        /\ Len(commandList) = 3 * n
    BY <1>1 DEF Ranked
  <1>3. cmds \in Seq(Commands) /\ Len(cmds) = 3 * n
    BY <1>1, <1>2, LinkedCommands
  <1>4. cmds = [i \in 1 .. 3 * n |-> value(i)]
    BY <1>1, <1>2 DEF Linked
  <1>5. ASSUME NEW k \in 1 .. n, NEW j \in 1 .. n, roots[k] = rootList[j]
        PROVE  /\ begins(k) = 3 * j - 2 /\ tails[k] = 3 * j - 1
               /\ commandList[3 * j - 1] = Draw(roots[k])
    <2>1. /\ containers[rootList[j]].head = 3 * j - 3
          /\ containers[rootList[j]].tail = 3 * j - 1
          /\ commandList[3 * j - 1] = Draw(rootList[j])
      BY <1>2 DEF CommandInv
    <2> QED
      BY <1>2, <1>5, <2>1
  <1>6. \A k \in 1 .. n : \E j \in 1 .. n : roots[k] = rootList[j]
    BY <1>1, RanAt
  <1> HIDE DEF begins, tails, cmds
  <1>7. ASSUME NEW k \in 1 .. n
        PROVE  /\ at[k] \in 0 .. 3 * n - 2
               /\ cmds[at[k] + 1] = Draw(roots[k])
               /\ cmds[at[k] + 2] = Jump(IF k = n THEN 3 * n ELSE at[k + 1])
    <2>1. PICK j \in 1 .. n : roots[k] = rootList[j]
      BY <1>6
    <2>2. /\ at[k] = 3 * j - 2 /\ tails[k] = 3 * j - 1
          /\ commandList[3 * j - 1] = Draw(roots[k])
      BY <1>5, <2>1
    <2>3. /\ 3 * j - 2 \in 0 .. 3 * n - 2 /\ (3 * j - 2) + 1 = 3 * j - 1 /\ (3 * j - 2) + 2 = 3 * j
          /\ 3 * j - 1 \in 1 .. 3 * n /\ 3 * j \in 1 .. 3 * n /\ 3 * j - 1 # 1 /\ 3 * j # 1
      BY <1>2
    <2>4. cmds[3 * j - 1] = Draw(roots[k])
      <3>1. ASSUME NEW m \in 1 .. n, tails[m] = (3 * j - 1) - 1 PROVE FALSE
        <4>1. PICK i \in 1 .. n : roots[m] = rootList[i]
          BY <1>6
        <4>2. tails[m] = 3 * i - 1
          BY <1>5, <4>1
        <4> QED
          BY <1>2, <3>1, <4>2
      <3>2. value(3 * j - 1) = commandList[3 * j - 1]
        BY <2>3, <3>1
      <3> QED
        BY <1>4, <2>2, <2>3, <3>2
    <2>5. cmds[3 * j] = Jump(IF k = n THEN 3 * n ELSE begins(k + 1))
      <3> DEFINE m == CHOOSE m \in 1 .. n : tails[m] = 3 * j - 1
      <3>1. m \in 1 .. n /\ tails[m] = 3 * j - 1
        BY <2>2
      <3>2. value(3 * j) = Jump(IF m = n THEN 3 * n ELSE begins(m + 1))
        BY <2>2, <2>3
      <3> HIDE DEF m
      <3>3. m = k
        <4>1. PICK i \in 1 .. n : roots[m] = rootList[i]
          BY <1>6, <3>1
        <4>2. tails[m] = 3 * i - 1
          BY <1>5, <3>1, <4>1
        <4>3. i = j
          BY <1>2, <3>1, <4>2
        <4>4. roots[m] = roots[k]
          BY <2>1, <4>1, <4>3
        <4> QED
          BY <1>2, <3>1, <4>4 DEF IsInjective
      <3> HIDE DEF value
      <3> QED
        BY <1>4, <2>3, <3>2, <3>3
    <2>6. k # n => at[k + 1] = begins(k + 1)
      BY <1>2
    <2> HIDE DEF at
    <2> QED
      BY <2>2, <2>3, <2>4, <2>5, <2>6
  <1>8. n > 0 => cmds[1] = Jump(at[1])
    <2>1. n > 0 => 1 \in 1 .. 3 * n /\ 1 \in 1 .. n
      BY <1>2
    <2> QED
      BY <1>4, <2>1
  <1>9. roots \in Seq(Nat \ {0})
    <2>1. \A v \in DOMAIN containers : v \in Nat \ {0}
      BY <1>1
    <2>2. DOMAIN containers \subseteq Nat \ {0}
      BY <2>1
    <2> QED
      BY <1>2, <2>2, SeqMonotonic
  <1> HIDE DEF at
  <1>10. Chain(cmds, roots, at)
    BY <1>3, <1>7, <1>8, <1>9 DEF Chain
  <1> QED
    BY <1>10 DEF cmds

LEMMA DrawsEnd == ASSUME IInv, DrawInv, end PROVE DrawInv'
  <1>1. PICK raised, z, roots :
          EndsWith(raised, z, roots) /\ Raised(raised, z) /\ Ranked(roots, raised)
    BY EndIs
  <1>2. /\ pc = "windows" /\ pc' = "input" /\ containers' = raised /\ rootList' = roots
        /\ commandList' = Linked(commandList, roots)
    BY <1>1 DEF EndsWith
  <1>3. \A v, w \in DOMAIN containers : raised[v].zindex = raised[w].zindex => v = w
    BY <1>1 DEF Raised, DrawInv, ZIndexInv
  <1>4. DOMAIN raised = DOMAIN containers /\ \A w \in DOMAIN containers : raised[w].zindex \in Int
    <2>1. raised \in [DOMAIN containers -> Container]
      BY <1>1 DEF Raised
    <2> QED
      BY <2>1 DEF Container
  <1>5. ZIndexInv'
    BY <1>2, <1>3, <1>4 DEF ZIndexInv
  <1>6. Drawn(commandList') = [idx |-> Len(commandList'), windows |-> rootList']
    <2>1. CommandInv
      BY DEF DrawInv
    <2>2. PICK at : Chain(Linked(commandList, roots), roots, at)
      BY <1>1, <1>2, <2>1, EndChains
    <2> QED
      BY <1>2, <2>2, ChainDrawn
  <1>7. ASSUME NEW k \in 1 .. Len(rootList') - 1
        PROVE  containers'[rootList'[k]].zindex < containers'[rootList'[k + 1]].zindex
    <2>1. /\ roots \in Seq(DOMAIN containers) /\ IsInjective(roots)
          /\ \A i, j \in 1 .. Len(roots) :
               i < j => raised[roots[i]].zindex <= raised[roots[j]].zindex
      BY <1>1 DEF Ranked
    <2>2. k \in 1 .. Len(roots) /\ k + 1 \in 1 .. Len(roots) /\ k < k + 1 /\ k # k + 1
      BY <1>2, <2>1
    <2> DEFINE v == roots[k]
               w == roots[k + 1]
    <2>3. v \in DOMAIN containers /\ w \in DOMAIN containers /\ v # w
      BY <2>1, <2>2 DEF IsInjective
    <2>4. raised[v].zindex <= raised[w].zindex
      BY <2>1, <2>2
    <2> HIDE DEF v, w
    <2>5. raised[v].zindex # raised[w].zindex
      BY <1>3, <2>3
    <2>6. raised[v].zindex \in Int /\ raised[w].zindex \in Int
      BY <1>4, <2>3
    <2>7. raised[v].zindex < raised[w].zindex
      BY <2>4, <2>5, <2>6
    <2> QED
      BY <1>2, <2>7 DEF v, w
  <1>8. DrawnInOrder'
    BY <1>6, <1>7 DEF DrawnInOrder
  <1>9. CommandInv'
    BY <1>2 DEF CommandInv
  <1> QED
    BY <1>5, <1>8, <1>9 DEF DrawInv

LEMMA DrawsInitially == Init => DrawInv
  <1> SUFFICES ASSUME Init PROVE DrawInv
    OBVIOUS
  <1>1. containers = <<>> /\ rootList = <<>> /\ commandList = <<>> /\ pc = "input"
    BY DEF Init
  <1>2. ZIndexInv /\ CommandInv
    BY <1>1 DEF ZIndexInv, CommandInv
  <1>3. Len(rootList) = 0 /\ Len(commandList) = 0
    BY <1>1
  <1>4. Drawn(commandList) = [idx |-> 0, windows |-> <<>>]
    <2>1. commandList \in Seq(Commands)
      BY <1>1
    <2>2. PICK walk : Steps(walk, commandList)
      BY <2>1, DrawnVisits
    <2> QED
      BY <1>3, <2>2 DEF Steps
  <1>5. DrawnInOrder
    BY <1>1, <1>3, <1>4 DEF DrawnInOrder
  <1> QED
    BY <1>2, <1>5 DEF DrawInv

(* What DrawnInOrder rests on holds in every state.                        *)
THEOREM DrawsRight == Spec => []DrawInv
  <1>1. IInv /\ DrawInv /\ [Next]_vars => DrawInv'
    <2> SUFFICES ASSUME IInv, DrawInv, [Next]_vars PROVE DrawInv'
      OBVIOUS
    <2>1. CASE input_mouseMove \/ input_mouseDown \/ input_mouseUp
      BY <2>1, DrawsInput DEF input_mouseMove, input_mouseDown, input_mouseUp, InputOnly
    <2>2. CASE begin
      BY <2>2, DrawsBegin
    <2>3. CASE Window
      BY <2>3, DrawsWindow
    <2>4. CASE Panic
      BY <2>4, DrawsPanic
    <2>5. CASE end
      BY <2>5, DrawsEnd
    <2>6. CASE UNCHANGED vars
      BY <2>6, DrawsInput DEF vars
    <2> QED
      BY <2>1, <2>2, <2>3, <2>4, <2>5, <2>6 DEF Next
  <1> QED
    BY Invariant, DrawsInitially, <1>1, PTL DEF Spec

(* DrawnInOrder: frame after frame the renderer's loop over nextCommand    *)
(* draws the windows that doTasks has run, each once, from the lowest      *)
(* zindex to the highest, and comes to the end of the list: qsort sorts,   *)
(* no two zindices are the same, and end's jumps lead from window to       *)
(* window.                                                                 *)
THEOREM DrawnInOrderAlways == Spec => []DrawnInOrder
  <1>1. DrawInv => DrawnInOrder
    BY DEF DrawInv
  <1> QED
    BY DrawsRight, <1>1, PTL

-----------------------------------------------------------------------------
(* A press after a rest                                                    *)

Still == ~mouse.down /\ ~mouse.pressed

(* w is the highest of the windows S at the place p, if any is there; cs   *)
(* are the containers.                                                     *)
IsTop(w, S, p, cs) ==
  IF w = None THEN \A v \in S : ~Covers(cs[v], p)
  ELSE /\ w \in S /\ Covers(cs[w], p)
       /\ \A v \in S : Covers(cs[v], p) => cs[v].zindex <= cs[w].zindex

(* The control of the window w that is at the place p.                     *)
PartAt(w, p) ==
  LET c == containers[w] IN
  CASE Covered("button", c, p) -> <<w, "button">>
    [] Covered("close", c, p) /\ ~tasks[w].noClose -> <<w, "close">>
    [] OTHER -> <<w, "title">>

(* In a frame without a press every task runs, and the window for the next *)
(* input is the highest at the pointer of those that have run.             *)
StillInv ==
  pc = "windows" /\ Still =>
    /\ DOMAIN tasks = Range(rootList) \cup Range(todo)
    /\ \A w \in DOMAIN tasks : ~tasks[w].dead
    /\ IsTop(ctx.nextHoverRoot, Range(rootList), mouse.pos, containers)

(* After one it is the highest of all.                                     *)
RestInv ==
  /\ rest \in 0 .. 2
  /\ pc = "input" /\ rest > 0 =>
       /\ DOMAIN tasks \subseteq DOMAIN containers
       /\ IsTop(ctx.nextHoverRoot, DOMAIN tasks, mouse.last, containers)

(* In a second one with the pointer at the same place this window is given *)
(* the input: the control at the pointer is hovered once the window has    *)
(* run, and no control of another that has.                                *)
LookInv ==
  pc = "windows" /\ Still /\ rest > 0 /\ mouse.pos = mouse.last =>
    /\ DOMAIN tasks \subseteq DOMAIN containers
    /\ IsTop(ctx.hoverRoot, DOMAIN tasks, mouse.pos, containers)
    /\ \A w \in Range(rootList) :
         IF w = ctx.hoverRoot THEN ctx.hover = PartAt(w, mouse.pos) ELSE ctx.hover[1] # w

(* After it, hover is where a press would be seen to go.                   *)
ReadyInv ==
  pc = "input" /\ rest = 2 =>
    /\ ctx.focus = NoControl
    /\ IF ctx.nextHoverRoot = None THEN ctx.hover[1] \notin DOMAIN tasks
       ELSE ctx.hover = PartAt(ctx.nextHoverRoot, mouse.last)

(* In the frame of the press the window at the pointer, when it runs, acts *)
(* on the control that is hovered, and no other window does anything.      *)
AimInv ==
  pc # "input" /\ aim # {} =>
    /\ mouse.pressed /\ mouse.pos = mouse.last
    /\ LET top == ctx.hoverRoot IN
       IF top = None
       THEN /\ aim = {NoControl} /\ acted = {} /\ ctx.focus = NoControl
            /\ ctx.hover[1] \notin Range(rootList) \cup Range(todo)
       ELSE /\ aim = {ctx.hover} /\ ctx.hover[1] = top
            /\ top \in Range(rootList) \cup Range(todo)
            /\ top \in Range(todo) =>
                 /\ ctx.hover = PartAt(top, mouse.pos) /\ Covers(containers[top], mouse.pos)
                 /\ ctx.focus = NoControl /\ acted = {}
            /\ top \in Range(rootList) =>
                 ctx.focus = ctx.hover /\ acted = {ctx.hover} \ {<<top, "title">>}

PressInv ==
  StillInv /\ RestInv /\ LookInv /\ ReadyInv /\ AimInv /\ RestedPressHitsTop

(* What a control does to hover and focus.                                 *)
Becomes(s, r, id, over) ==
  LET h == IF over /\ ~mouse.down THEN id ELSE s.hover
      f == IF s.focus = id /\ ((mouse.pressed /\ ~over) \/ ~mouse.down)
           THEN NoControl ELSE s.focus
  IN IF h = id /\ mouse.pressed THEN r.focus = id /\ r.hover = id
     ELSE r.focus = f /\ r.hover = IF h = id /\ ~over THEN NoControl ELSE h

LEMMA ControlBecomes ==
  ASSUME NEW s \in Context, NEW id \in Control, id # NoControl, NEW over \in BOOLEAN,
         mouse.down \in BOOLEAN, mouse.pressed \in BOOLEAN
  PROVE  Becomes(s, updateControl(s, id, over), id, over)
  <1> DEFINE h == hovering(s, id, over)
             k == losingFocus(h, id, over)
             r == takingFocus(k, id, over)
  <1>1. updateControl(s, id, over) = r
    BY DEF updateControl
  <1>2. /\ h \in Context /\ h.focus = s.focus
        /\ h.hover = IF over /\ ~mouse.down THEN id ELSE s.hover
    BY HoveringIs
  <1> HIDE DEF h
  <1>3. /\ k \in Context /\ k.hover = h.hover
        /\ \/ k = h /\ ~(h.focus = id /\ ((mouse.pressed /\ ~over) \/ ~mouse.down))
           \/ k.focus = NoControl /\ h.focus = id /\ ((mouse.pressed /\ ~over) \/ ~mouse.down)
    BY <1>2, LosingIs
  <1> HIDE DEF k
  <1>4. \/ r.focus = id /\ r.hover = id /\ k.hover = id /\ mouse.pressed
        \/ /\ ~(k.hover = id /\ mouse.pressed)
           /\ r.focus = k.focus
           /\ r.hover = IF k.hover = id /\ ~over THEN NoControl ELSE k.hover
    BY <1>3, TakingIs
  <1> HIDE DEF r
  <1> QED
    BY <1>1, <1>2, <1>3, <1>4 DEF Becomes

(* The controls of a window, one after the other.                          *)
LEMMA WindowBecomes ==
  ASSUME TypeInv, ContextInv, NEW w \in DOMAIN tasks
  PROVE  /\ Becomes(ctx, title(w), <<w, "title">>, mouseOver(w, "title"))
         /\ IF tasks[w].noClose THEN close(w) = title(w)
            ELSE Becomes(title(w), close(w), <<w, "close">>, mouseOver(w, "close"))
         /\ IF closes(w) THEN button(w) = close(w)
            ELSE Becomes(close(w), button(w), <<w, "button">>, mouseOver(w, "button"))
  <1>1. w \in Nat \ {0} /\ Begins(ctx, begun(w), w)
    BY WindowBegins
  <1>2. mouse.down \in BOOLEAN /\ mouse.pressed \in BOOLEAN
    BY DEF TypeInv
  <1>3. \A part \in {"title", "close", "button"} :
          <<w, part>> \in Control /\ <<w, part>> # NoControl /\ mouseOver(w, part) \in BOOLEAN
    BY <1>1 DEF Control, NoControl, mouseOver, Covered
  <1>4. begun(w) \in Context /\ begun(w).hover = ctx.hover /\ begun(w).focus = ctx.focus
    BY <1>1 DEF Begins
  <1>5. Becomes(begun(w), title(w), <<w, "title">>, mouseOver(w, "title"))
    BY <1>2, <1>3, <1>4, ControlBecomes DEF title
  <1>6. Becomes(ctx, title(w), <<w, "title">>, mouseOver(w, "title"))
    BY <1>4, <1>5 DEF Becomes
  <1>7. title(w) \in Context /\ close(w) \in Context
    BY WindowPasses DEF Passes
  <1>8. IF tasks[w].noClose THEN close(w) = title(w)
        ELSE Becomes(title(w), close(w), <<w, "close">>, mouseOver(w, "close"))
    BY <1>2, <1>3, <1>7, ControlBecomes DEF close
  <1>9. IF closes(w) THEN button(w) = close(w)
        ELSE Becomes(close(w), button(w), <<w, "button">>, mouseOver(w, "button"))
    BY <1>2, <1>3, <1>7, ControlBecomes DEF button
  <1> QED
    BY <1>6, <1>8, <1>9

(* Where the parts of a window are.                                        *)
LEMMA PartsAre ==
  ASSUME NEW c, c.x \in Int, NEW p \in Int
  PROVE  /\ Covers(c, p) <=> p = c.x \/ p = c.x + 1 \/ p = c.x + 2
         /\ Covered("title", c, p) <=> p = c.x \/ p = c.x + 1
         /\ Covered("close", c, p) <=> p = c.x + 1
         /\ Covered("button", c, p) <=> p = c.x + 2
  BY DEF Covers, Covered

(* A window that is not given the input leaves alone what is not its own.  *)
LEMMA ElsewhereIdle ==
  ASSUME TypeInv, ContextInv, NEW w \in DOMAIN tasks, ctx.hoverRoot # w,
         \A part : ctx.hover # <<w, part>> /\ ctx.focus # <<w, part>>
  PROVE  /\ button(w).hover = ctx.hover /\ button(w).focus = ctx.focus
         /\ ~closes(w) /\ ~submits(w) /\ Acts(w) = {}
  <1>1. \A part : mouseOver(w, part) = FALSE
    BY DEF mouseOver
  <1>2. title(w).hover = ctx.hover /\ title(w).focus = ctx.focus
    BY <1>1, WindowBecomes DEF Becomes
  <1>3. close(w).hover = ctx.hover /\ close(w).focus = ctx.focus
    BY <1>1, <1>2, WindowBecomes DEF Becomes
  <1>4. ~closes(w)
    BY <1>3 DEF closes
  <1>5. button(w).hover = ctx.hover /\ button(w).focus = ctx.focus
    BY <1>1, <1>3, <1>4, WindowBecomes DEF Becomes
  <1>6. ~submits(w)
    BY <1>5 DEF submits
  <1> QED
    BY <1>4, <1>5, <1>6 DEF Acts

(* Without a press it is not hovered any more.                             *)
LEMMA ElsewhereStill ==
  ASSUME TypeInv, ContextInv, OpenInv, Still, NEW w \in DOMAIN tasks, ctx.hoverRoot # w
  PROVE  /\ button(w).hover \in {ctx.hover, NoControl} /\ button(w).hover[1] # w
         /\ ctx.hover[1] # w => button(w).hover = ctx.hover
  <1>1. \A part : mouseOver(w, part) = FALSE
    BY DEF mouseOver
  <1>2. ~mouse.down /\ ~mouse.pressed /\ w \in Nat \ {0}
    BY WindowBegins DEF Still
  <1>3. NoControl[1] = 0
    BY DEF NoControl
  <1>4. /\ ~(ctx.hover = <<w, "title">>) => title(w).hover = ctx.hover
        /\ ctx.hover = <<w, "title">> => title(w).hover = NoControl
    BY <1>1, <1>2, WindowBecomes DEF Becomes
  <1>5. close(w).hover \in {title(w).hover, NoControl} /\ close(w).hover # <<w, "close">>
    <2>1. CASE tasks[w].noClose
      <3>1. close(w) = title(w) /\ ctx.hover # <<w, "close">>
        BY <2>1, WindowBecomes DEF OpenInv
      <3>2. NoControl # <<w, "close">>
        BY <1>2 DEF NoControl
      <3> QED
        BY <1>4, <3>1, <3>2
    <2>2. CASE ~tasks[w].noClose
      <3>1. NoControl # <<w, "close">>
        BY <1>2 DEF NoControl
      <3> QED
        BY <1>1, <1>2, <2>2, <3>1, WindowBecomes DEF Becomes
    <2> QED
      BY <2>1, <2>2
  <1>6. ~closes(w)
    BY <1>2 DEF closes
  <1>7. button(w).hover \in {close(w).hover, NoControl} /\ button(w).hover # <<w, "button">>
    <2>1. NoControl # <<w, "button">>
      BY <1>2 DEF NoControl
    <2> QED
      BY <1>1, <1>2, <1>6, <2>1, WindowBecomes DEF Becomes
  <1>8. button(w).hover \in {ctx.hover, NoControl}
    BY <1>4, <1>5, <1>7
  <1>9. button(w).hover # <<w, "title">> /\ button(w).hover # <<w, "close">>
    <2>1. NoControl # <<w, "title">> /\ NoControl # <<w, "close">>
      BY <1>2 DEF NoControl
    <2> QED
      BY <1>4, <1>5, <1>7, <2>1
  <1>10. ASSUME button(w).hover[1] = w PROVE FALSE
    <2>1. ctx.hover \in Control /\ button(w).hover = ctx.hover
      BY <1>2, <1>3, <1>8, <1>10 DEF TypeInv, Context
    <2>2. ctx.hover \in Nat \X {"title", "close", "button"}
      BY <1>2, <1>3, <1>10, <2>1 DEF Control
    <2>3. ctx.hover \in {<<w, "title">>, <<w, "close">>, <<w, "button">>}
      BY <1>10, <2>1, <2>2
    <2> QED
      BY <1>7, <1>9, <2>1, <2>3
  <1>11. ASSUME ctx.hover[1] # w PROVE button(w).hover = ctx.hover
    <2>1. \A part : ctx.hover # <<w, part>>
      BY <1>11
    <2>2. title(w).hover = ctx.hover
      BY <1>4, <2>1
    <2>3. close(w).hover = ctx.hover
      BY <1>1, <2>1, <2>2, WindowBecomes DEF Becomes
    <2> QED
      BY <1>1, <1>6, <2>1, <2>3, WindowBecomes DEF Becomes
  <1> QED
    BY <1>8, <1>10, <1>11

(* The window that is given the input: without a press its control at the  *)
(* pointer is hovered.                                                     *)
LEMMA TopStill ==
  ASSUME TypeInv, ContextInv, Still, NEW w \in DOMAIN tasks, w \in DOMAIN containers,
         ctx.hoverRoot = w, Covers(containers[w], mouse.pos)
  PROVE  button(w).hover = PartAt(w, mouse.pos)
  <1> DEFINE c == containers[w]
             p == mouse.pos
  <1>1. c.x \in Int /\ p \in Int /\ Shown(w) = c
    BY WindowsAssumption DEF TypeInv, Container, Shown
  <1>2. ~mouse.down /\ ~mouse.pressed /\ ~closes(w)
    BY DEF Still, closes
  <1> HIDE DEF c, p
  <1>3. /\ mouseOver(w, "title") <=> (p = c.x \/ p = c.x + 1)
        /\ mouseOver(w, "close") <=> p = c.x + 1
        /\ mouseOver(w, "button") <=> p = c.x + 2
    BY <1>1, PartsAre DEF mouseOver, p
  <1>4. p = c.x \/ p = c.x + 1 \/ p = c.x + 2
    BY <1>1, PartsAre DEF c, p
  <1>5. /\ Covered("button", c, p) <=> p = c.x + 2
        /\ Covered("close", c, p) <=> p = c.x + 1
    BY <1>1, PartsAre
  <1>6. PartAt(w, p) = IF p = c.x + 2 THEN <<w, "button">>
                       ELSE IF p = c.x + 1 /\ ~tasks[w].noClose THEN <<w, "close">>
                       ELSE <<w, "title">>
    <2>1. c.x + 1 # c.x + 2
      BY <1>1
    <2> QED
      BY <1>5, <2>1 DEF PartAt, c
  <1>7. <<w, "title">> # <<w, "close">> /\ <<w, "title">> # <<w, "button">>
        /\ <<w, "close">> # <<w, "button">>
    OBVIOUS
  <1>8. CASE p = c.x + 2
    <2>1. button(w).hover = <<w, "button">>
      BY <1>2, <1>3, <1>8, WindowBecomes DEF Becomes
    <2> QED
      BY <1>6, <1>8, <2>1 DEF p
  <1>9. CASE p # c.x + 2
    <2>1. mouseOver(w, "title") /\ ~mouseOver(w, "button")
      BY <1>3, <1>4, <1>9
    <2>2. title(w).hover = <<w, "title">>
      BY <1>2, <2>1, WindowBecomes DEF Becomes
    <2>3. close(w).hover = IF p = c.x + 1 /\ ~tasks[w].noClose THEN <<w, "close">>
                           ELSE <<w, "title">>
      <3>1. CASE tasks[w].noClose
        BY <2>2, <3>1, WindowBecomes
      <3>2. CASE ~tasks[w].noClose /\ p = c.x + 1
        BY <1>2, <1>3, <3>2, WindowBecomes DEF Becomes
      <3>3. CASE ~tasks[w].noClose /\ p # c.x + 1
        BY <1>2, <1>3, <1>7, <2>2, <3>3, WindowBecomes DEF Becomes
      <3> QED
        BY <3>1, <3>2, <3>3
    <2>4. button(w).hover = close(w).hover
      BY <1>2, <1>7, <2>1, <2>3, WindowBecomes DEF Becomes
    <2> QED
      BY <1>6, <1>9, <2>3, <2>4 DEF p
  <1> QED
    BY <1>8, <1>9

(* And with a press that control, if it is hovered, gets the focus and     *)
(* acts.                                                                   *)
LEMMA TopPressed ==
  ASSUME TypeInv, ContextInv, mouse.pressed, NEW w \in DOMAIN tasks, w \in DOMAIN containers,
         ctx.hoverRoot = w, Covers(containers[w], mouse.pos),
         ctx.hover = PartAt(w, mouse.pos), ctx.focus = NoControl
  PROVE  /\ button(w).hover = ctx.hover /\ button(w).focus = ctx.hover
         /\ Acts(w) = {ctx.hover} \ {<<w, "title">>}
  <1> DEFINE c == containers[w]
             p == mouse.pos
             t == <<w, "title">>
             x == <<w, "close">>
             b == <<w, "button">>
  <1>1. c.x \in Int /\ p \in Int /\ Shown(w) = c /\ w # 0
    <2>1. c.x \in Int /\ p \in Int /\ Shown(w) = c
      BY WindowsAssumption DEF TypeInv, Container, Shown
    <2>2. w # 0
      BY WindowBegins
    <2> QED
      BY <2>1, <2>2
  <1> HIDE DEF c, p
  <1>3. /\ mouseOver(w, "title") <=> (p = c.x \/ p = c.x + 1)
        /\ mouseOver(w, "close") <=> p = c.x + 1
        /\ mouseOver(w, "button") <=> p = c.x + 2
    BY <1>1, PartsAre DEF mouseOver, p
  <1>4. p = c.x \/ p = c.x + 1 \/ p = c.x + 2
    BY <1>1, PartsAre DEF c, p
  <1>5. /\ Covered("button", c, p) <=> p = c.x + 2
        /\ Covered("close", c, p) <=> p = c.x + 1
    BY <1>1, PartsAre
  <1>6. ctx.hover = IF p = c.x + 2 THEN b
                    ELSE IF p = c.x + 1 /\ ~tasks[w].noClose THEN x ELSE t
    <2>1. c.x + 1 # c.x + 2
      BY <1>1
    <2> QED
      BY <1>5, <2>1 DEF PartAt, c, p
  <1>7. t # x /\ t # b /\ x # b /\ t # NoControl /\ x # NoControl /\ b # NoControl
    BY <1>1 DEF NoControl
  <1>8. /\ Becomes(ctx, title(w), t, mouseOver(w, "title"))
        /\ IF tasks[w].noClose THEN close(w) = title(w)
           ELSE Becomes(title(w), close(w), x, mouseOver(w, "close"))
        /\ IF closes(w) THEN button(w) = close(w)
           ELSE Becomes(close(w), button(w), b, mouseOver(w, "button"))
    BY WindowBecomes
  <1>9. /\ closes(w) <=> close(w).focus = x
        /\ submits(w) <=> (~closes(w) /\ button(w).focus = b)
    BY DEF closes, submits
  <1>10. Acts(w) = (IF closes(w) THEN {x} ELSE {}) \cup (IF submits(w) THEN {b} ELSE {})
    BY DEF Acts
  <1> HIDE DEF t, x, b
  <1>11. CASE p = c.x + 2
    <2>1. /\ ~mouseOver(w, "title") /\ ~mouseOver(w, "close") /\ mouseOver(w, "button")
          /\ ctx.hover = b
      BY <1>1, <1>3, <1>6, <1>11
    <2>2. title(w).hover = b /\ title(w).focus = NoControl
      BY <1>7, <1>8, <2>1 DEF Becomes
    <2>3. close(w).hover = b /\ close(w).focus = NoControl
      BY <1>7, <1>8, <2>1, <2>2 DEF Becomes
    <2>4. ~closes(w)
      BY <1>7, <1>9, <2>3
    <2>5. button(w).hover = b /\ button(w).focus = b
      BY <1>8, <2>1, <2>3, <2>4 DEF Becomes
    <2> QED
      BY <1>7, <1>9, <1>10, <2>1, <2>4, <2>5 DEF t
  <1>12. CASE p = c.x + 1 /\ ~tasks[w].noClose
    <2>1. /\ mouseOver(w, "title") /\ mouseOver(w, "close")
          /\ ctx.hover = x
      BY <1>1, <1>3, <1>6, <1>12
    <2>2. title(w).hover \in {x, t} /\ title(w).focus \in {NoControl, t}
      BY <1>7, <1>8, <2>1 DEF Becomes
    <2>3. mouse.down => title(w).hover = x
      BY <1>7, <1>8, <2>1 DEF Becomes
    <2>4. close(w).hover = x /\ close(w).focus = x
      BY <1>7, <1>8, <1>12, <2>1, <2>2, <2>3 DEF Becomes
    <2>5. closes(w) /\ button(w) = close(w) /\ ~submits(w)
      BY <1>8, <1>9, <2>4
    <2> QED
      BY <1>7, <1>10, <2>1, <2>4, <2>5 DEF t
  <1>13. CASE p # c.x + 2 /\ ~(p = c.x + 1 /\ ~tasks[w].noClose)
    <2>1. mouseOver(w, "title") /\ ~mouseOver(w, "button") /\ ctx.hover = t
      BY <1>3, <1>4, <1>6, <1>13
    <2>2. title(w).hover = t /\ title(w).focus = t
      BY <1>7, <1>8, <2>1 DEF Becomes
    <2>3. close(w).hover = t /\ close(w).focus = t
      <3>1. CASE tasks[w].noClose
        BY <1>8, <2>2, <3>1
      <3>2. CASE ~tasks[w].noClose
        <4>1. ~mouseOver(w, "close")
          BY <1>3, <1>13, <3>2
        <4> QED
          BY <1>7, <1>8, <2>2, <3>2, <4>1 DEF Becomes
      <3> QED
        BY <3>1, <3>2
    <2>4. ~closes(w)
      BY <1>7, <1>9, <2>3
    <2>5. button(w).hover = t /\ button(w).focus = t
      BY <1>7, <1>8, <2>1, <2>3, <2>4 DEF Becomes
    <2>6. ~submits(w)
      BY <1>7, <1>9, <2>5
    <2> QED
      BY <1>10, <2>1, <2>4, <2>5, <2>6 DEF t
  <1> QED
    BY <1>11, <1>12, <1>13

(* Whether a window is the highest depends on where the windows are.       *)
LEMMA TopAgrees ==
  ASSUME NEW w, NEW S, NEW p, NEW cs, NEW ds,
         \A v \in S : ds[v].x = cs[v].x /\ ds[v].zindex = cs[v].zindex,
         IsTop(w, S, p, cs)
  PROVE  IsTop(w, S, p, ds)
  BY DEF IsTop, Covers

LEMMA TopUnique ==
  ASSUME TypeInv, ZIndexInv, NEW S, S \subseteq DOMAIN containers, NEW p,
         NEW v, IsTop(v, S, p, containers), NEW w, IsTop(w, S, p, containers)
  PROVE  v = w
  <1>1. CASE v = None \/ w = None
    BY <1>1 DEF IsTop
  <1>2. CASE v # None /\ w # None
    <2>1. v \in S /\ w \in S
      BY <1>2 DEF IsTop
    <2>2. containers[v].zindex \in Nat /\ containers[w].zindex \in Nat
      BY <2>1 DEF TypeInv, Container
    <2>3. containers[w].zindex <= containers[v].zindex /\ containers[v].zindex <= containers[w].zindex
      BY <1>2 DEF IsTop
    <2>4. containers[w].zindex = containers[v].zindex
      BY <2>2, <2>3
    <2> QED
      BY <2>1, <2>4 DEF ZIndexInv
  <1> QED
    BY <1>1, <1>2

(* The control on top belongs to the highest window.                       *)
LEMMA TopControl ==
  ASSUME TypeInv, ZIndexInv, DOMAIN tasks \subseteq DOMAIN containers, NEW p,
         NEW w, IsTop(w, DOMAIN tasks, p, containers)
  PROVE  ControlAt(p) = IF w = None THEN NoControl ELSE PartAt(w, p)
  <1> DEFINE shown == {v \in DOMAIN tasks \cap DOMAIN containers : Covers(containers[v], p)}
             top == CHOOSE v \in shown : \A u \in shown : containers[u].zindex <= containers[v].zindex
  <1>1. CASE w = None
    <2>1. shown = {}
      BY <1>1 DEF IsTop
    <2> QED
      BY <1>1, <2>1 DEF ControlAt
  <1>2. CASE w # None
    <2>1. w \in shown /\ \A u \in shown : containers[u].zindex <= containers[w].zindex
      BY <1>2 DEF IsTop
    <2>2. top \in shown /\ \A u \in shown : containers[u].zindex <= containers[top].zindex
      BY <2>1
    <2> HIDE DEF top
    <2>3. top # None
      <3>1. top \in DOMAIN tasks
        BY <2>2
      <3>2. top \in 1 .. lastTaskId
        BY <3>1 DEF TypeInv
      <3> QED
        BY <3>2 DEF None
    <2>4. IsTop(top, DOMAIN tasks, p, containers)
      BY <2>2, <2>3 DEF IsTop
    <2>5. top = w
      BY <2>4, TopUnique
    <2> HIDE DEF shown
    <2>6. shown # {}
      BY <2>1
    <2> USE DEF top, shown
    <2>7. ControlAt(p) = PartAt(top, p)
      BY <2>6 DEF ControlAt, PartAt
    <2> QED
      BY <1>2, <2>5, <2>7
  <1> QED
    BY <1>1, <1>2

LEMMA PartOf == ASSUME NEW w, NEW p PROVE PartAt(w, p) \in {<<w, "title">>, <<w, "close">>, <<w, "button">>}
  BY DEF PartAt

(* The first of the windows to run and the others.                         *)
LEMMA HeadAndTail ==
  ASSUME NEW s \in Seq(Nat), s # <<>>
  PROVE  Range(s) = {Head(s)} \cup Range(Tail(s))
  <1>1. Len(s) \in Nat /\ Len(s) >= 1 /\ DOMAIN s = 1 .. Len(s) /\ Head(s) = s[1]
    OBVIOUS
  <1>2. /\ Tail(s) \in Seq(Nat) /\ Len(Tail(s)) = Len(s) - 1 /\ DOMAIN Tail(s) = 1 .. Len(s) - 1
        /\ \A i \in 1 .. Len(s) - 1 : Tail(s)[i] = s[i + 1]
    OBVIOUS
  <1>3. ASSUME NEW x \in Range(s) PROVE x \in {Head(s)} \cup Range(Tail(s))
    <2>1. PICK i \in 1 .. Len(s) : s[i] = x
      BY <1>1 DEF Range
    <2>2. CASE i = 1
      BY <1>1, <2>1, <2>2
    <2>3. CASE i # 1
      <3>1. i - 1 \in 1 .. Len(s) - 1 /\ (i - 1) + 1 = i
        BY <1>1, <2>3
      <3>2. Tail(s)[i - 1] = x
        BY <1>2, <2>1, <3>1
      <3> QED
        BY <1>2, <3>1, <3>2 DEF Range
    <2> QED
      BY <2>2, <2>3
  <1>4. Head(s) \in Range(s)
    BY <1>1 DEF Range
  <1>5. ASSUME NEW x \in Range(Tail(s)) PROVE x \in Range(s)
    <2>1. PICK i \in 1 .. Len(s) - 1 : Tail(s)[i] = x
      BY <1>2 DEF Range
    <2>2. i + 1 \in 1 .. Len(s) /\ s[i + 1] = x
      BY <1>1, <1>2, <2>1
    <2> QED
      BY <1>1, <2>2 DEF Range
  <1> QED
    BY <1>3, <1>4, <1>5

LEMMA EnumeratesAll ==
  ASSUME NEW S, IsFiniteSet(S), NEW s, Enumerates(s, S)
  PROVE  Range(s) = S
  <1> DEFINE n == Cardinality(S)
  <1>1. n \in Nat /\ IsFiniteSet(1 .. n) /\ Cardinality(1 .. n) = n
    BY FS_CardinalityType, FS_Interval
  <1>2. s \in Injection(1 .. n, S)
    BY DEF Enumerates, Injection, IsInjective
  <1>3. s \in Surjection(1 .. n, S)
    BY <1>1, <1>2, FS_Injection
  <1> QED
    BY <1>3 DEF Surjection, Range

(* While the button is up, or the pointer has not moved, a window stays    *)
(* where it is.                                                            *)
LEMMA StaysPut ==
  ASSUME TypeInv, ContextInv, NEW w \in DOMAIN tasks,
         ~mouse.down \/ mouse.pos = mouse.last
  PROVE  Updated(w).x = Shown(w).x
  <1>1. Shown(w) \in Container
    BY WindowBegins
  <1>2. mouse.pos \in Int /\ mouse.last \in Int /\ Shown(w).x \in Int
    BY <1>1, WindowsAssumption DEF TypeInv, Container
  <1> DEFINE dx == IF title(w).focus = <<w, "title">> /\ mouse.down
                   THEN Shown(w).x + mouse.pos - mouse.last ELSE Shown(w).x
             o == ~closes(w)
             h == Len(commandList)
             u == [Shown(w) EXCEPT !.x = dx, !.open = o, !.head = h, !.tail = h + 2]
  <1>3. Updated(w) = u
    BY DEF Updated
  <1>4. dx = Shown(w).x
    BY <1>2
  <1> HIDE DEF dx, o, h
  <1>5. u.x = dx
    BY <1>1 DEF Container
  <1> QED
    BY <1>3, <1>4, <1>5

(* The window for the next input, after one has been begun.                *)
LEMMA NextRoot ==
  ASSUME TypeInv, ContextInv, NEW w \in DOMAIN tasks
  PROVE  button(w).nextHoverRoot =
           IF /\ Covers(Shown(w), mouse.pos)
              /\ \/ ctx.nextHoverRoot = None
                 \/ Shown(w).zindex > containers[ctx.nextHoverRoot].zindex
           THEN w ELSE ctx.nextHoverRoot
  <1> DEFINE z == IF w \in DOMAIN containers THEN ctx.lastZIndex ELSE ctx.lastZIndex + 1
             s == [ctx EXCEPT !.lastZIndex = z]
             n == IF /\ Covers(Shown(w), mouse.pos)
                     /\ s.nextHoverRoot = None \/ Shown(w).zindex > containers[s.nextHoverRoot].zindex
                  THEN w ELSE s.nextHoverRoot
             r == [s EXCEPT !.nextHoverRoot = n]
  <1>1. begun(w) = r
    BY DEF begun, hoverRootOf
  <1> HIDE DEF z
  <1>2. s.nextHoverRoot = ctx.nextHoverRoot /\ DOMAIN s = DOMAIN ctx /\ "nextHoverRoot" \in DOMAIN ctx
    BY DEF TypeInv, Context
  <1>3. r.nextHoverRoot = n
    <2> HIDE DEF s, n
    <2> QED
      BY <1>2
  <1>4. button(w).nextHoverRoot = begun(w).nextHoverRoot
    BY WindowRuns DEF Runs, SameRoots
  <1> QED
    BY <1>1, <1>2, <1>3, <1>4

(* What there is to run, what has run and, if nothing is pressed for, what *)
(* is left of it.                                                          *)
LEMMA WindowRan ==
  ASSUME IInv, Window, NEW w, w = Head(todo)
  PROVE  /\ Range(todo) = {w} \cup Range(Tail(todo)) /\ w \notin Range(Tail(todo))
         /\ Range(rootList') = Range(rootList) \cup {w}
         /\ containers'[w] = Updated(w)
         /\ ~submits(w) /\ ~closes(w) => tasks' = tasks /\ todo' = Tail(todo)
         /\ aim' = aim /\ rest' = rest
  <1>1. TypeInv /\ ContextInv /\ RootsInv /\ OpenInv
    BY DEF IInv
  <1>2. pc = "windows" /\ todo # <<>>
    BY DEF Window
  <1>3. Range(todo) = {w} \cup Range(Tail(todo))
    BY <1>1, <1>2, HeadAndTail DEF TypeInv
  <1>4. w \notin Range(Tail(todo))
    BY <1>1, <1>2, LoopGoesOn
  <1>5. rootList' = Append(rootList, w) /\ rootList \in Seq(DOMAIN containers)
    BY <1>1 DEF Window, TypeInv
  <1>6. Range(rootList') = Range(rootList) \cup {w}
    <2> DEFINE D == (DOMAIN containers) \cup {w}
    <2>1. rootList \in Seq(D) /\ w \in D /\ IsInjective(rootList) /\ w \notin Range(rootList)
      BY <1>1, <1>2, <1>5, LoopGoesOn DEF RootsInv
    <2> HIDE DEF D
    <2> QED
      BY <1>5, <2>1, AndOne
  <1>7. containers' = [v \in (DOMAIN containers) \cup {w} |->
                         IF v = w THEN Updated(w) ELSE containers[v]]
    BY DEF Window
  <1>8. ~submits(w) /\ ~closes(w) => tasks' = tasks /\ todo' = Tail(todo)
    BY DEF Window, Rests
  <1> QED
    BY <1>3, <1>4, <1>6, <1>7, <1>8 DEF Window

LEMMA StillWindow == ASSUME IInv, StillInv, Window PROVE StillInv'
  <1> SUFFICES ASSUME Still PROVE StillInv'
    BY DEF StillInv, Still, Window
  <1> DEFINE w == Head(todo)
             n == ctx.nextHoverRoot
             R == Range(rootList)
             p == mouse.pos
  <1>1. TypeInv /\ ContextInv /\ RootsInv /\ Shows(w)
    BY WindowShows DEF IInv
  <1>2. /\ Range(todo) = {w} \cup Range(Tail(todo)) /\ w \notin Range(Tail(todo))
        /\ Range(rootList') = R \cup {w} /\ containers'[w] = Updated(w)
        /\ ~submits(w) /\ ~closes(w) => tasks' = tasks /\ todo' = Tail(todo)
    BY WindowRan
  <1>3. w \in DOMAIN tasks /\ w \in Nat \ {0} /\ w \notin R /\ mouse' = mouse /\ pc = "windows"
    BY <1>1 DEF Shows
  <1> HIDE DEF w
  <1>4. tasks' = tasks /\ todo' = Tail(todo)
    BY <1>2 DEF Still, submits, closes
  <1>5. /\ DOMAIN tasks = R \cup Range(todo)
        /\ \A v \in DOMAIN tasks : ~tasks[v].dead
        /\ IsTop(n, R, p, containers)
    BY <1>3 DEF StillInv
  <1>6. DOMAIN tasks' = Range(rootList') \cup Range(todo')
    BY <1>2, <1>4, <1>5
  <1>7. R \subseteq DOMAIN containers
    BY <1>1 DEF TypeInv, Range
  <1>8. \A v \in R : containers'[v] = containers[v]
    BY <1>1, <1>3, <1>7 DEF Shows
  <1>9. /\ containers'[w].x = Shown(w).x /\ containers'[w].zindex = Shown(w).zindex
        /\ Covers(containers'[w], p) <=> Covers(Shown(w), p)
    <2>1. Updated(w).x = Shown(w).x
      BY <1>1, <1>3, StaysPut DEF Still
    <2>2. Updated(w).zindex = Shown(w).zindex
      BY <1>1, <1>3, WindowUpdated
    <2> QED
      BY <1>2, <2>1, <2>2 DEF Covers
  <1>10. /\ Shown(w).zindex \in Nat
         /\ \A v \in R : containers[v].zindex \in Nat
    BY <1>1, <1>3, <1>7, WindowBegins DEF TypeInv, Container
  <1>11. ctx'.nextHoverRoot =
           IF Covers(Shown(w), p) /\ (n = None \/ Shown(w).zindex > containers[n].zindex)
           THEN w ELSE n
    BY <1>1, <1>3, NextRoot DEF Shows
  <1>12. IsTop(ctx'.nextHoverRoot, R \cup {w}, p, containers')
    <2> HIDE DEF R, n, p
    <2>1. CASE Covers(Shown(w), p) /\ n = None
      <3>1. ctx'.nextHoverRoot = w /\ \A v \in R : ~Covers(containers[v], p)
        BY <1>5, <1>11, <2>1 DEF IsTop
      <3> QED
        BY <1>3, <1>8, <1>9, <1>10, <2>1, <3>1 DEF IsTop, None
    <2>2. CASE Covers(Shown(w), p) /\ n # None /\ Shown(w).zindex > containers[n].zindex
      <3>1. /\ ctx'.nextHoverRoot = w /\ n \in R
            /\ \A v \in R : Covers(containers[v], p) => containers[v].zindex <= containers[n].zindex
        BY <1>5, <1>11, <2>2 DEF IsTop
      <3>2. \A v \in R : Covers(containers[v], p) => containers[v].zindex <= Shown(w).zindex
        BY <1>10, <2>2, <3>1
      <3> QED
        BY <1>3, <1>8, <1>9, <1>10, <2>2, <3>1, <3>2 DEF IsTop, None
    <2>3. CASE ~Covers(Shown(w), p)
      <3>1. ctx'.nextHoverRoot = n
        BY <1>11, <2>3
      <3> QED
        BY <1>5, <1>8, <1>9, <2>3, <3>1 DEF IsTop
    <2>4. CASE Covers(Shown(w), p) /\ n # None /\ ~(Shown(w).zindex > containers[n].zindex)
      <3>1. ctx'.nextHoverRoot = n /\ n \in R /\ containers[n].zindex \in Nat
        BY <1>5, <1>10, <1>11, <2>4 DEF IsTop
      <3>2. Shown(w).zindex <= containers[n].zindex
        BY <1>10, <2>4, <3>1
      <3> QED
        BY <1>5, <1>8, <1>9, <2>4, <3>1, <3>2 DEF IsTop
    <2> QED
      BY <2>1, <2>2, <2>3, <2>4
  <1> QED
    BY <1>2, <1>3, <1>4, <1>5, <1>6, <1>12 DEF StillInv

LEMMA LookWindow == ASSUME IInv, LookInv, Window PROVE LookInv'
  <1> SUFFICES ASSUME Still, rest > 0, mouse.pos = mouse.last PROVE LookInv'
    BY DEF LookInv, Still, Window
  <1> DEFINE w == Head(todo)
             t == ctx.hoverRoot
             p == mouse.pos
  <1>1. TypeInv /\ ContextInv /\ RootsInv /\ OpenInv /\ Shows(w)
    BY WindowShows DEF IInv
  <1>2. /\ Range(rootList') = Range(rootList) \cup {w} /\ containers'[w] = Updated(w)
        /\ ~submits(w) /\ ~closes(w) => tasks' = tasks
    BY WindowRan
  <1>3. /\ w \in DOMAIN tasks /\ w \in Nat \ {0} /\ w \notin Range(rootList)
        /\ mouse' = mouse /\ pc = "windows" /\ ctx' = button(w)
    BY <1>1 DEF Shows
  <1> HIDE DEF w
  <1>4. tasks' = tasks
    BY <1>2 DEF Still, submits, closes
  <1>5. /\ DOMAIN tasks \subseteq DOMAIN containers
        /\ IsTop(t, DOMAIN tasks, p, containers)
        /\ \A v \in Range(rootList) :
             IF v = t THEN ctx.hover = PartAt(v, p) ELSE ctx.hover[1] # v
    BY <1>3 DEF LookInv
  <1>6. DOMAIN tasks \subseteq DOMAIN containers'
    BY <1>1, <1>5 DEF Shows
  <1>7. \A v \in DOMAIN tasks : /\ containers'[v].x = containers[v].x
                                /\ containers'[v].zindex = containers[v].zindex
    <2>1. Updated(w).x = containers[w].x
      BY <1>1, <1>3, <1>5, StaysPut DEF Shown
    <2>2. Updated(w).zindex = containers[w].zindex
      BY <1>1, <1>3, <1>5, WindowUpdated DEF Shown
    <2> QED
      BY <1>1, <1>2, <1>3, <1>5, <2>1, <2>2 DEF Shows
  <1>8. IsTop(t, DOMAIN tasks, p, containers')
    BY <1>5, <1>7, TopAgrees
  <1>9. ctx'.hoverRoot = t
    BY <1>1 DEF Shows, Begins, Runs, SameRoots
  <1>10. ASSUME NEW v \in DOMAIN tasks PROVE PartAt(v, p)' = PartAt(v, p)
    BY <1>3, <1>4, <1>7 DEF PartAt, Covered
  <1>11. Range(rootList) \subseteq DOMAIN tasks
    BY <1>1, <1>3 DEF RootsInv
  <1>12. ASSUME NEW v \in Range(rootList) \cup {w}
         PROVE  IF v = t THEN ctx'.hover = PartAt(v, p) ELSE ctx'.hover[1] # v
    <2>1. CASE w = t
      <3>1. Covers(containers[w], p)
        BY <1>3, <1>5, <2>1 DEF IsTop, None
      <3>2. ctx'.hover = PartAt(w, p)
        BY <1>1, <1>3, <1>5, <2>1, <3>1, TopStill
      <3>3. ctx'.hover[1] = w
        BY <3>2, PartOf
      <3> QED
        BY <2>1, <3>2, <3>3
    <2>2. CASE w # t
      <3>1. /\ ctx'.hover \in {ctx.hover, NoControl} /\ ctx'.hover[1] # w
            /\ ctx.hover[1] # w => ctx'.hover = ctx.hover
        BY <1>1, <1>3, <2>2, ElsewhereStill
      <3>2. CASE v = w
        BY <2>2, <3>1, <3>2
      <3>3. CASE v # w /\ v = t
        <4>1. ctx.hover = PartAt(v, p)
          BY <1>5, <3>3
        <4>2. ctx.hover[1] = v
          BY <4>1, PartOf
        <4> QED
          BY <3>1, <3>3, <4>1, <4>2
      <3>4. CASE v # w /\ v # t
        <4>1. ctx.hover[1] # v
          BY <1>5, <3>4
        <4>2. NoControl[1] # v
          BY <1>1, <1>3, <1>11 DEF NoControl, TypeInv
        <4> QED
          BY <3>1, <3>4, <4>1, <4>2
      <3> QED
        BY <3>2, <3>3, <3>4
    <2> QED
      BY <2>1, <2>2
  <1>13. \A v \in Range(rootList') :
           IF v = ctx'.hoverRoot THEN ctx'.hover = PartAt(v, p)' ELSE ctx'.hover[1] # v
    BY <1>2, <1>3, <1>9, <1>10, <1>11, <1>12
  <1> QED
    BY <1>3, <1>4, <1>6, <1>8, <1>9, <1>13 DEF LookInv

LEMMA AimWindow == ASSUME IInv, AimInv, Window PROVE AimInv'
  <1> SUFFICES ASSUME aim # {} PROVE AimInv'
    BY DEF AimInv, Window
  <1> DEFINE w == Head(todo)
             t == ctx.hoverRoot
             p == mouse.pos
  <1>1. TypeInv /\ ContextInv /\ RootsInv /\ OpenInv /\ Shows(w)
    BY WindowShows DEF IInv
  <1>2. /\ Range(todo) = {w} \cup Range(Tail(todo)) /\ w \notin Range(Tail(todo))
        /\ Range(rootList') = Range(rootList) \cup {w}
        /\ ~submits(w) /\ ~closes(w) => tasks' = tasks /\ todo' = Tail(todo)
        /\ aim' = aim
    BY WindowRan
  <1>3. /\ w \in DOMAIN tasks /\ w \in Nat \ {0} /\ w \notin Range(rootList)
        /\ mouse' = mouse /\ pc = "windows" /\ pc' = "windows" /\ ctx' = button(w)
        /\ acted' = acted \cup Acts(w)
    BY <1>1 DEF Shows
  <1>4. Range(todo') \cap (Range(rootList) \cup {w}) = {}
    BY <1>1 DEF Shows, Continues
  <1> HIDE DEF w
  <1>5. mouse.pressed /\ p = mouse.last
    BY <1>3 DEF AimInv
  <1>6. ctx'.hoverRoot = t
    BY <1>1 DEF Shows, Begins, Runs, SameRoots
  <1>7. CASE t = None
    <2>1. /\ aim = {NoControl} /\ acted = {} /\ ctx.focus = NoControl
          /\ ctx.hover[1] \notin Range(rootList) \cup Range(todo)
      BY <1>3, <1>7 DEF AimInv
    <2>2. \A part : ctx.hover # <<w, part>> /\ ctx.focus # <<w, part>>
      BY <1>2, <1>3, <2>1 DEF NoControl
    <2>3. /\ ctx'.hover = ctx.hover /\ ctx'.focus = ctx.focus
          /\ ~closes(w) /\ ~submits(w) /\ Acts(w) = {}
      BY <1>1, <1>3, <1>7, <2>2, ElsewhereIdle DEF None
    <2> QED
      BY <1>2, <1>3, <1>5, <1>6, <1>7, <2>1, <2>3 DEF AimInv
  <1>8. CASE t # None /\ t # w
    <2>1. /\ aim = {ctx.hover} /\ ctx.hover[1] = t
          /\ t \in Range(rootList) \cup Range(todo)
          /\ t \in Range(todo) => /\ ctx.hover = PartAt(t, p) /\ Covers(containers[t], p)
                                  /\ ctx.focus = NoControl /\ acted = {}
          /\ t \in Range(rootList) => ctx.focus = ctx.hover /\ acted = {ctx.hover} \ {<<t, "title">>}
      BY <1>3, <1>8 DEF AimInv
    <2>2. \A part : ctx.hover # <<w, part>> /\ ctx.focus # <<w, part>>
      BY <1>3, <1>8, <2>1 DEF NoControl
    <2>3. /\ ctx'.hover = ctx.hover /\ ctx'.focus = ctx.focus
          /\ ~closes(w) /\ ~submits(w) /\ Acts(w) = {}
      BY <1>1, <1>3, <1>8, <2>2, ElsewhereIdle
    <2>4. acted' = acted /\ tasks' = tasks /\ todo' = Tail(todo)
      BY <1>2, <1>3, <2>3
    <2>5. t \in DOMAIN containers /\ containers'[t] = containers[t]
      BY <1>1, <1>8 DEF ContextInv, Shows
    <2>6. PartAt(t, p)' = PartAt(t, p)
      BY <1>3, <1>6, <2>4, <2>5 DEF PartAt
    <2>7. /\ t \in Range(rootList') => t \in Range(rootList)
          /\ t \in Range(todo') => t \in Range(todo)
          /\ t \in Range(rootList') \cup Range(todo')
      BY <1>2, <1>8, <2>1, <2>4
    <2> QED
      BY <1>2, <1>3, <1>5, <1>6, <1>8, <2>1, <2>3, <2>4, <2>5, <2>6, <2>7 DEF AimInv
  <1>9. CASE t # None /\ t = w
    <2>1. /\ aim = {ctx.hover} /\ ctx.hover[1] = w
          /\ ctx.hover = PartAt(w, p) /\ Covers(containers[w], p)
          /\ ctx.focus = NoControl /\ acted = {}
      BY <1>2, <1>3, <1>9 DEF AimInv
    <2>2. w \in DOMAIN containers
      BY <1>1, <1>9 DEF ContextInv
    <2>3. /\ ctx'.hover = ctx.hover /\ ctx'.focus = ctx.hover
          /\ Acts(w) = {ctx.hover} \ {<<w, "title">>}
      BY <1>1, <1>3, <1>5, <1>9, <2>1, <2>2, TopPressed
    <2>4. w \in Range(rootList') /\ w \notin Range(todo')
      BY <1>2, <1>4
    <2> QED
      BY <1>2, <1>3, <1>5, <1>6, <1>9, <2>1, <2>3, <2>4 DEF AimInv
  <1> QED
    BY <1>7, <1>8, <1>9

(* While a frame runs, what has acted is what was aimed at.                *)
LEMMA AimedHit == ASSUME AimInv, pc # "input" PROVE RestedPressHitsTop
  BY DEF AimInv, RestedPressHitsTop

LEMMA PressWindow == ASSUME IInv, PressInv, Window PROVE PressInv'
  <1>1. StillInv' /\ LookInv' /\ AimInv'
    BY StillWindow, LookWindow, AimWindow DEF PressInv
  <1>2. pc' = "windows" /\ rest' = rest
    BY DEF Window
  <1>3. RestInv' /\ ReadyInv'
    BY <1>2 DEF PressInv, RestInv, ReadyInv
  <1>4. RestedPressHitsTop'
    BY <1>1, <1>2 DEF AimInv, RestedPressHitsTop
  <1> QED
    BY <1>1, <1>3, <1>4 DEF PressInv

LEMMA PressPanic == ASSUME PressInv, Panic PROVE PressInv'
  <1>1. /\ pc = "windows" /\ pc' = "panic"
        /\ UNCHANGED <<tasks, lastTaskId, containers, ctx, mouse, rootList, commandList,
                       todo, acted, aim, rest>>
    BY DEF Panic
  <1>2. AimInv'
    BY <1>1 DEF PressInv, AimInv, PartAt
  <1>3. RestedPressHitsTop'
    BY <1>1 DEF PressInv, RestedPressHitsTop
  <1> QED
    BY <1>1, <1>2, <1>3 DEF PressInv, StillInv, RestInv, LookInv, ReadyInv

LEMMA PressInput ==
  ASSUME TypeInv, PressInv, input_mouseMove \/ input_mouseDown \/ input_mouseUp
  PROVE  PressInv'
  <1>1. /\ pc = "input" /\ pc' = pc
        /\ UNCHANGED <<tasks, containers, ctx, rootList, todo, acted, aim, rest>>
    BY DEF input_mouseMove, input_mouseDown, input_mouseUp, InputOnly
  <1>2. mouse'.last = mouse.last
    BY DEF input_mouseMove, input_mouseDown, input_mouseUp, TypeInv
  <1>3. RestInv'
    BY <1>1, <1>2 DEF PressInv, RestInv
  <1>4. ReadyInv'
    BY <1>1, <1>2 DEF PressInv, ReadyInv, PartAt
  <1>5. RestedPressHitsTop'
    BY <1>1 DEF PressInv, RestedPressHitsTop
  <1> QED
    BY <1>1, <1>3, <1>4, <1>5 DEF PressInv, StillInv, LookInv, AimInv

LEMMA PressBegin == ASSUME IInv, ZIndexInv, PressInv, begin PROVE PressInv'
  <1>1. /\ pc = "input" /\ pc' = "windows" /\ rootList' = <<>> /\ acted' = {}
        /\ todo' = Ascending(DOMAIN tasks)
        /\ aim' = IF Rested THEN {ControlAt(mouse.pos)} ELSE {}
        /\ ctx' = [ctx EXCEPT !.hoverRoot = ctx.nextHoverRoot, !.nextHoverRoot = None]
        /\ UNCHANGED <<tasks, containers, mouse, rest>>
    BY DEF begin
  <1>2. TypeInv /\ ContextInv /\ OpenInv /\ RestInv /\ ReadyInv
    BY DEF IInv, PressInv
  <1>3. Range(rootList') = {}
    BY <1>1 DEF Range
  <1>4. Range(todo') = DOMAIN tasks
    <2>1. DOMAIN tasks \subseteq 1 .. lastTaskId /\ lastTaskId \in Nat
      BY <1>2 DEF TypeInv
    <2>2. IsFiniteSet(DOMAIN tasks) /\ DOMAIN tasks \subseteq Nat
      <3>1. IsFiniteSet(1 .. lastTaskId)
        BY <2>1, FS_Interval
      <3> QED
        BY <2>1, <3>1, FS_Subset
    <2> QED
      BY <1>1, <2>2, AscendingEnumerates, EnumeratesAll
  <1>5. /\ ctx'.hoverRoot = ctx.nextHoverRoot /\ ctx'.nextHoverRoot = None
        /\ ctx'.hover = ctx.hover /\ ctx'.focus = ctx.focus
    BY <1>1, <1>2 DEF TypeInv, Context
  <1>6. StillInv'
    <2>1. \A w \in DOMAIN tasks : ~tasks[w].dead
      BY <1>1, <1>2 DEF OpenInv
    <2>2. IsTop(None, {}, mouse.pos, containers)
      BY DEF IsTop
    <2> QED
      BY <1>1, <1>3, <1>4, <1>5, <2>1, <2>2 DEF StillInv
  <1>7. LookInv'
    <2> SUFFICES ASSUME rest > 0, mouse.pos = mouse.last PROVE LookInv'
      BY <1>1 DEF LookInv
    <2> QED
      BY <1>1, <1>2, <1>3, <1>5 DEF LookInv, RestInv
  <1>8. AimInv'
    <2> SUFFICES ASSUME Rested PROVE AimInv'
      BY <1>1 DEF AimInv
    <2> DEFINE t == ctx.nextHoverRoot
    <2>1. mouse.pressed /\ mouse.pos = mouse.last /\ rest = 2
      BY DEF Rested
    <2>2. /\ DOMAIN tasks \subseteq DOMAIN containers
          /\ IsTop(t, DOMAIN tasks, mouse.pos, containers)
      BY <1>1, <1>2, <2>1 DEF RestInv
    <2>3. /\ ctx.focus = NoControl
          /\ IF t = None THEN ctx.hover[1] \notin DOMAIN tasks ELSE ctx.hover = PartAt(t, mouse.pos)
      BY <1>1, <1>2, <2>1 DEF ReadyInv
    <2>4. aim' = {IF t = None THEN NoControl ELSE PartAt(t, mouse.pos)}
      BY <1>1, <1>2, <2>2, TopControl
    <2>5. CASE t = None
      BY <1>1, <1>3, <1>4, <1>5, <2>1, <2>3, <2>4, <2>5 DEF AimInv
    <2>6. CASE t # None
      <3>1. t \in DOMAIN tasks /\ Covers(containers[t], mouse.pos)
        BY <2>2, <2>6 DEF IsTop
      <3>2. ctx.hover[1] = t
        BY <2>3, <2>6, PartOf
      <3>3. PartAt(ctx.hoverRoot, mouse.pos)' = PartAt(t, mouse.pos)
        BY <1>1, <1>5 DEF PartAt
      <3> QED
        BY <1>1, <1>3, <1>4, <1>5, <2>1, <2>3, <2>4, <2>6, <3>1, <3>2, <3>3 DEF AimInv
    <2> QED
      BY <2>5, <2>6
  <1>9. RestInv' /\ ReadyInv' /\ RestedPressHitsTop'
    BY <1>1, <1>2 DEF RestInv, ReadyInv, RestedPressHitsTop
  <1> QED
    BY <1>6, <1>7, <1>8, <1>9 DEF PressInv

LEMMA PressEnd == ASSUME IInv, ZIndexInv, PressInv, end PROVE PressInv'
  <1> DEFINE t == ctx.hoverRoot
             n == ctx.nextHoverRoot
             p == mouse.pos
  <1>1. TypeInv /\ ContextInv /\ RootsInv /\ OpenInv /\ HoverInv
    BY DEF IInv
  <1>2. /\ pc = "windows" /\ pc' = "input" /\ todo = <<>> /\ acted' = acted /\ aim' = aim
        /\ tasks' = [w \in {v \in DOMAIN tasks : ~tasks[v].dead} |-> tasks[w]]
        /\ rest' = IF mouse.pressed \/ mouse.down THEN 0
                   ELSE IF p = mouse.last /\ rest > 0 THEN 2 ELSE 1
        /\ mouse' = [mouse EXCEPT !.pressed = FALSE, !.last = p]
    BY DEF end
  <1>3. Range(todo) = {}
    BY <1>2 DEF Range
  <1>4. /\ DOMAIN containers' = DOMAIN containers
        /\ ctx'.hover = ctx.hover /\ ctx'.nextHoverRoot = n
        /\ ctx'.focus = IF ctx.updatedFocus THEN ctx.focus ELSE NoControl
    BY EndIs, EndTypes
  <1>5. mouse'.last = p
    BY <1>1, <1>2 DEF TypeInv
  <1>6. ASSUME Still PROVE containers' = containers /\ tasks' = tasks
    <2>1. containers' = containers
      BY <1>6 DEF end, Still
    <2>2. \A w \in DOMAIN tasks : ~tasks[w].dead
      BY <1>2, <1>6 DEF PressInv, StillInv
    <2>3. {v \in DOMAIN tasks : ~tasks[v].dead} = DOMAIN tasks
      BY <2>2
    <2>4. tasks = [w \in DOMAIN tasks |-> tasks[w]]
      BY <1>1 DEF TypeInv
    <2> QED
      BY <1>2, <2>1, <2>3, <2>4
  <1>7. ASSUME Still
        PROVE  /\ DOMAIN tasks = Range(rootList) /\ DOMAIN tasks \subseteq DOMAIN containers
               /\ IsTop(n, DOMAIN tasks, p, containers)
    <2>1. DOMAIN tasks = Range(rootList) /\ IsTop(n, Range(rootList), p, containers)
      BY <1>2, <1>3, <1>7 DEF PressInv, StillInv
    <2>2. Range(rootList) \subseteq DOMAIN containers
      BY <1>1 DEF TypeInv, Range
    <2> QED
      BY <2>1, <2>2
  <1>8. RestInv'
    <2>1. rest' \in 0 .. 2
      BY <1>2
    <2>2. rest' > 0 => Still
      BY <1>2 DEF Still
    <2> QED
      BY <1>4, <1>5, <1>6, <1>7, <2>1, <2>2 DEF RestInv
  <1>9. ReadyInv'
    <2> SUFFICES ASSUME rest' = 2 PROVE ReadyInv'
      BY DEF ReadyInv
    <2>1. Still /\ p = mouse.last /\ rest > 0
      BY <1>2 DEF Still
    <2>2. /\ IsTop(t, DOMAIN tasks, p, containers)
          /\ \A w \in Range(rootList) :
               IF w = t THEN ctx.hover = PartAt(w, p) ELSE ctx.hover[1] # w
      BY <1>2, <2>1 DEF PressInv, LookInv
    <2>3. n = t
      BY <1>1, <1>7, <2>1, <2>2, TopUnique
    <2>4. ctx'.focus = NoControl
      BY <1>1, <1>2, <1>4, <2>1 DEF HoverInv, Still
    <2>5. CASE n = None
      <3>1. \A w \in DOMAIN tasks : w # None
        BY <1>1 DEF TypeInv, None
      <3>2. ctx.hover[1] \notin DOMAIN tasks
        BY <1>7, <2>1, <2>2, <2>3, <2>5, <3>1
      <3> QED
        BY <1>4, <1>6, <2>1, <2>4, <2>5, <3>2 DEF ReadyInv
    <2>6. CASE n # None
      <3>1. n \in DOMAIN tasks
        BY <2>2, <2>3, <2>6 DEF IsTop
      <3>2. ctx.hover = PartAt(n, p)
        BY <1>7, <2>1, <2>2, <2>3, <3>1
      <3>3. PartAt(ctx.nextHoverRoot, mouse.last)' = PartAt(n, p)
        BY <1>4, <1>5, <1>6, <2>1 DEF PartAt
      <3> QED
        BY <1>4, <2>4, <2>6, <3>2, <3>3 DEF ReadyInv
    <2> QED
      BY <2>5, <2>6
  <1>10. RestedPressHitsTop'
    <2> DEFINE D == DOMAIN containers
    <2> SUFFICES ASSUME aim # {}
                 PROVE  acted \subseteq aim /\ acted = aim \ ((D \X {"title"}) \cup {NoControl})
      BY <1>2, <1>4 DEF RestedPressHitsTop
    <2>1. AimInv
      BY DEF PressInv
    <2>2. CASE t = None
      <3>1. aim = {NoControl} /\ acted = {}
        BY <1>2, <2>1, <2>2 DEF AimInv
      <3> QED
        BY <3>1
    <2>3. CASE t # None
      <3>1. /\ aim = {ctx.hover} /\ ctx.hover[1] = t /\ acted = {ctx.hover} \ {<<t, "title">>}
        BY <1>2, <1>3, <2>1, <2>3 DEF AimInv
      <3>2. t \in D /\ t # 0
        BY <1>1, <2>3 DEF ContextInv, None
      <3>3. ctx.hover \in Control /\ ctx.hover # NoControl
        BY <1>1, <3>1, <3>2 DEF TypeInv, Context, NoControl
      <3>4. ctx.hover \in {<<t, "title">>, <<t, "close">>, <<t, "button">>}
        BY <3>1, <3>3 DEF Control
      <3>5. ctx.hover \in D \X {"title"} <=> ctx.hover = <<t, "title">>
        BY <3>2, <3>4
      <3> QED
        BY <3>1, <3>3, <3>5
    <2> QED
      BY <2>2, <2>3
  <1>11. StillInv' /\ LookInv' /\ AimInv'
    BY <1>2 DEF StillInv, LookInv, AimInv
  <1> QED
    BY <1>8, <1>9, <1>10, <1>11 DEF PressInv

LEMMA PressInitially == Init => PressInv
  BY DEF Init, PressInv, StillInv, RestInv, LookInv, ReadyInv, AimInv, RestedPressHitsTop

(* A press after the pointer has rested for two frames acts on the control *)
(* on top at the pointer, and on nothing else: whatever windows there are  *)
(* and wherever they were dragged, opened and raised before, hoverRoot and *)
(* hover, which are a frame old when the press is looked at, are what a    *)
(* user would point at.                                                    *)
THEOREM RestedPressAlways == Spec => []RestedPressHitsTop
  <1>1. IInv /\ DrawInv /\ PressInv /\ [Next]_vars => PressInv'
    <2> SUFFICES ASSUME IInv, DrawInv, PressInv, [Next]_vars PROVE PressInv'
      OBVIOUS
    <2>1. CASE input_mouseMove \/ input_mouseDown \/ input_mouseUp
      BY <2>1, PressInput DEF IInv
    <2>2. CASE begin
      BY <2>2, PressBegin DEF DrawInv
    <2>3. CASE Window
      BY <2>3, PressWindow
    <2>4. CASE Panic
      BY <2>4, PressPanic
    <2>5. CASE end
      BY <2>5, PressEnd DEF DrawInv
    <2>6. CASE UNCHANGED vars
      BY <2>6 DEF vars, PressInv, StillInv, RestInv, LookInv, ReadyInv, AimInv, PartAt, Still,
                  RestedPressHitsTop
    <2> QED
      BY <2>1, <2>2, <2>3, <2>4, <2>5, <2>6 DEF Next
  <1>2. PressInv => RestedPressHitsTop
    BY DEF PressInv
  <1> QED
    BY Invariant, DrawsRight, PressInitially, <1>1, <1>2, PTL DEF Spec

=============================================================================
