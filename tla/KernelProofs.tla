---------------------------- MODULE KernelProofs ----------------------------
(***************************************************************************)
(* Proofs about three parts of the kernel that know nothing of each other: *)
(* Allocator, for every set of request sizes, every word size they stay    *)
(* below, and any number of nodes; GfxCache, for every grid of cells,      *)
(* every room in the queue, all letters, icons, rectangles and clips, and  *)
(* any number of frames; and Fmt, for all formats, arguments, sizes and    *)
(* widths of the integer types.                                            *)
(***************************************************************************)
EXTENDS Allocator, GfxCache, Fmt, Finiteness, SequenceTheorems, TLAPS

USE MaxNodesAssumption

(* What the running call knows. While it walks, node and prev are    *)
(* neighbours on the free list and every node before them is too small;    *)
(* before it carves, every free node is. A block that realloc will copy    *)
(* from is still held by its caller.                                       *)
WalkInv ==
  pc = "walk" =>
    /\ pos \in 1 .. Len(freeSeq)
    /\ node = freeSeq[pos]
    /\ prev = IF pos = 1 THEN Null ELSE freeSeq[pos - 1]
    /\ \A i \in 1 .. pos - 1 : size[freeSeq[i]] < want
CarveInv ==
  pc = "carve" => \A i \in 1 .. Len(freeSeq) : size[freeSeq[i]] < want
CallInv ==
  /\ pc # "idle" => want \in Sizes /\ call # "none"
  /\ pc # "idle" /\ call = "realloc" =>
       old \in live /\ size[old] < want
  /\ pc = "done" => node \in Nodes /\ size[node] >= want
OpInv == WalkInv /\ CarveInv /\ CallInv

IInv == TypeOK /\ FreeListIsChain /\ NodesPartitioned /\ BlocksFit /\ OpInv

(* Rounding never returns less than was asked for.                         *)
LEMMA RoundCovers ==
  ASSUME NEW n \in Sizes PROVE Round(n) \in Nat /\ Round(n) >= n
  <1>1. n \in Nat /\ n % 16 \in 0 .. 15 /\ n + 16 < SizeMod /\ SizeMod \in Nat
    BY SizesAssumption, NoWrapAssumption
  <1>2. n + (16 - (n % 16)) \in 0 .. SizeMod - 1
    BY <1>1
  <1>3. (n + (16 - (n % 16))) % SizeMod = n + (16 - (n % 16))
    BY <1>1, <1>2
  <1> QED
    BY <1>1, <1>3 DEF Round

(* The list without its i-th element: what it holds, and that the rest     *)
(* keeps its order.                                                        *)
LEMMA RemoveAtFacts ==
  ASSUME NEW S, NEW s \in Seq(S), NEW i \in 1 .. Len(s)
  PROVE  /\ RemoveAt(s, i) \in Seq(S) /\ Len(RemoveAt(s, i)) = Len(s) - 1
         /\ \A j \in 1 .. Len(s) - 1 :
              RemoveAt(s, i)[j] = IF j < i THEN s[j] ELSE s[j + 1]
  BY DEF RemoveAt

LEMMA RemoveAtRange ==
  ASSUME NEW S, NEW s \in Seq(S), NEW i \in 1 .. Len(s),
         \A j, k \in 1 .. Len(s) : s[j] = s[k] => j = k
  PROVE  Range(RemoveAt(s, i)) = Range(s) \ {s[i]}
  <1> DEFINE r == RemoveAt(s, i)
  <1>1. /\ r \in Seq(S) /\ Len(r) = Len(s) - 1 /\ DOMAIN r = 1 .. Len(s) - 1
        /\ \A j \in 1 .. Len(s) - 1 : r[j] = IF j < i THEN s[j] ELSE s[j + 1]
    BY RemoveAtFacts
  <1>2. DOMAIN s = 1 .. Len(s)
    OBVIOUS
  <1>3. ASSUME NEW j \in 1 .. Len(s) - 1 PROVE r[j] \in Range(s) \ {s[i]}
    <2>1. PICK k \in 1 .. Len(s) : r[j] = s[k] /\ k # i
      <3>1. CASE j < i
        BY <1>1, <3>1
      <3>2. CASE j >= i
        <4>1. r[j] = s[j + 1] /\ j + 1 \in 1 .. Len(s) /\ j + 1 # i
          BY <1>1, <3>2
        <4> QED
          BY <4>1
      <3> QED
        BY <3>1, <3>2
    <2>2. s[k] # s[i]
      BY <2>1
    <2>3. s[k] \in Range(s)
      BY <1>2 DEF Range
    <2> QED
      BY <2>1, <2>2, <2>3
  <1>4. ASSUME NEW j \in 1 .. Len(s), j # i PROVE s[j] \in Range(r)
    <2>1. CASE j < i
      BY <1>1, <2>1 DEF Range
    <2>2. CASE j > i
      <3>1. j - 1 \in 1 .. Len(s) - 1 /\ r[j - 1] = s[j]
        BY <1>1, <2>2
      <3> QED
        BY <1>1, <3>1 DEF Range
    <2> QED
      BY <1>4, <2>1, <2>2
  <1>5. Range(r) \subseteq Range(s) \ {s[i]}
    BY <1>1, <1>3 DEF Range
  <1>6. Range(s) \ {s[i]} \subseteq Range(r)
    BY <1>2, <1>4 DEF Range
  <1> QED
    BY <1>5, <1>6

(* The list with a new head. *)
LEMMA PushFacts ==
  ASSUME NEW s \in Seq(Nat), NEW k \in Nat
  PROVE  /\ <<k>> \o s \in Seq(Nat) /\ Len(<<k>> \o s) = Len(s) + 1
         /\ (<<k>> \o s)[1] = k /\ <<k>> \o s # <<>>
         /\ \A i \in 2 .. Len(s) + 1 : (<<k>> \o s)[i] = s[i - 1]
         /\ Range(<<k>> \o s) = {k} \cup Range(s)
  <1> DEFINE t == <<k>> \o s
  <1>1. t \in Seq(Nat) /\ Len(t) = Len(s) + 1 /\ t[1] = k /\ t # <<>>
    OBVIOUS
  <1>2. \A i \in 2 .. Len(s) + 1 : t[i] = s[i - 1]
    OBVIOUS
  <1>3. \A i \in 1 .. Len(s) : t[i + 1] = s[i] /\ i + 1 \in 1 .. Len(s) + 1
    OBVIOUS
  <1>4. DOMAIN t = 1 .. Len(s) + 1 /\ DOMAIN s = 1 .. Len(s)
    BY <1>1
  <1>5. Range(t) \subseteq {k} \cup Range(s)
    <2> SUFFICES ASSUME NEW i \in 1 .. Len(s) + 1 PROVE t[i] \in {k} \cup Range(s)
      BY <1>4 DEF Range
    <2>1. CASE i = 1
      BY <1>1, <2>1
    <2>2. CASE i \in 2 .. Len(s) + 1
      <3>1. i - 1 \in DOMAIN s /\ t[i] = s[i - 1]
        BY <1>2, <1>4, <2>2
      <3> QED
        BY <3>1 DEF Range
    <2> QED
      BY <2>1, <2>2
  <1>6. {k} \cup Range(s) \subseteq Range(t)
    <2>1. k \in Range(t)
      BY <1>1, <1>4 DEF Range
    <2>2. ASSUME NEW i \in 1 .. Len(s) PROVE s[i] \in Range(t)
      BY <1>3, <1>4 DEF Range
    <2> QED
      BY <1>4, <2>1, <2>2 DEF Range
  <1> QED
    BY <1>1, <1>2, <1>5, <1>6

(* The pointers f chain the nodes s[1] .. s[l], of which none is above n.  *)
Chained(f, s, l, n) ==
  /\ \A i \in 1 .. l : s[i] \in 1 .. n
  /\ \A i \in 1 .. l : f[s[i]] = IF i = l THEN Null ELSE s[i + 1]
  /\ \A i, j \in 1 .. l : s[i] = s[j] => i = j

(* t is s[1] .. s[l] without s[i], g is f but for the pointer of node a.   *)
Skips(t, s, l, i) ==
  /\ \A j \in 1 .. l - 1 : j < i => t[j] = s[j]
  /\ \A j \in 1 .. l - 1 : j >= i => t[j] = s[j + 1]
Relinks(g, f, a, b, n) == \A k \in 1 .. n : g[k] = IF k = a THEN b ELSE f[k]

(* Taking the head off a chain leaves a chain. *)
LEMMA DropHead ==
  ASSUME NEW n \in Nat, NEW f, NEW s, NEW t, NEW l \in Nat, l >= 1,
         Chained(f, s, l, n), \A j \in 1 .. l - 1 : t[j] = s[j + 1]
  PROVE  Chained(f, t, l - 1, n) /\ f[s[1]] = IF l = 1 THEN Null ELSE t[1]
  <1>1. \A j \in 1 .. l - 1 : t[j] \in 1 .. n
    BY DEF Chained
  <1>2. ASSUME NEW j \in 1 .. l - 1
        PROVE  f[t[j]] = IF j = l - 1 THEN Null ELSE t[j + 1]
    <2>1. j + 1 \in 1 .. l /\ t[j] = s[j + 1]
      OBVIOUS
    <2>2. f[s[j + 1]] = IF j + 1 = l THEN Null ELSE s[(j + 1) + 1]
      BY <2>1 DEF Chained
    <2>3. j # l - 1 => t[j + 1] = s[(j + 1) + 1]
      OBVIOUS
    <2>4. j = l - 1 <=> j + 1 = l
      OBVIOUS
    <2> QED
      BY <2>1, <2>2, <2>3, <2>4
  <1>3. ASSUME NEW j \in 1 .. l - 1, NEW k \in 1 .. l - 1, t[j] = t[k]
        PROVE  j = k
    <2>1. j + 1 \in 1 .. l /\ k + 1 \in 1 .. l
      OBVIOUS
    <2>2. s[j + 1] = s[k + 1]
      BY <1>3
    <2>3. j + 1 = k + 1
      BY <2>1, <2>2 DEF Chained
    <2> QED
      BY <2>3
  <1>4. f[s[1]] = IF l = 1 THEN Null ELSE s[2]
    BY DEF Chained
  <1> QED
    BY <1>1, <1>2, <1>3, <1>4 DEF Chained

(* So does passing an inner node by, and the head stays.                   *)
LEMMA DropInner ==
  ASSUME NEW n \in Nat, NEW f, NEW g, NEW s, NEW t, NEW l \in Nat,
         NEW i \in 2 .. l, Chained(f, s, l, n),
         Skips(t, s, l, i), Relinks(g, f, s[i - 1], f[s[i]], n)
  PROVE  Chained(g, t, l - 1, n) /\ l - 1 >= 1 /\ t[1] = s[1]
  <1>0. /\ \A j \in 1 .. l - 1 : j < i => t[j] = s[j]
        /\ \A j \in 1 .. l - 1 : j >= i => t[j] = s[j + 1]
        /\ \A k \in 1 .. n : g[k] = IF k = s[i - 1] THEN f[s[i]] ELSE f[k]
    BY DEF Skips, Relinks
  <1>1. /\ i \in 1 .. l /\ i - 1 \in 1 .. l - 1 /\ i - 1 \in 1 .. l
        /\ \A j \in 1 .. l - 1 : j \in 1 .. l /\ j + 1 \in 1 .. l
    OBVIOUS
  <1>2. \A j \in 1 .. l : j # i - 1 => g[s[j]] = f[s[j]]
    <2> TAKE j \in 1 .. l
    <2> HAVE j # i - 1
    <2>1. s[j] \in 1 .. n /\ s[j] # s[i - 1]
      BY <1>1 DEF Chained
    <2> QED
      BY <1>0, <2>1
  <1>3. g[s[i - 1]] = IF i = l THEN Null ELSE s[i + 1]
    <2>1. s[i - 1] \in 1 .. n /\ f[s[i]] = IF i = l THEN Null ELSE s[i + 1]
      BY <1>1 DEF Chained
    <2> QED
      BY <1>0, <2>1
  <1>4. \A j \in 1 .. l - 1 : t[j] \in 1 .. n
    <2> TAKE j \in 1 .. l - 1
    <2>1. t[j] = s[j] \/ t[j] = s[j + 1]
      BY <1>0
    <2> QED
      BY <1>1, <2>1 DEF Chained
  <1>5. ASSUME NEW j \in 1 .. l - 1
        PROVE  g[t[j]] = IF j = l - 1 THEN Null ELSE t[j + 1]
    <2>1. CASE j < i - 1
      <3>1. /\ t[j] = s[j] /\ t[j + 1] = s[j + 1] /\ j # l - 1 /\ j # l
            /\ j # i - 1
        BY <1>0, <1>1, <2>1
      <3>2. f[s[j]] = s[j + 1]
        BY <1>1, <3>1 DEF Chained
      <3> QED
        BY <1>1, <1>2, <3>1, <3>2
    <2>2. CASE j = i - 1
      <3>1. t[j] = s[i - 1] /\ (j = l - 1 <=> i = l) /\ j + 1 = i
        BY <1>0, <1>1, <2>2
      <3>2. i # l => t[i] = s[i + 1]
        BY <1>0, <1>1
      <3> QED
        BY <1>3, <3>1, <3>2
    <2>3. CASE j >= i
      <3>1. t[j] = s[j + 1] /\ j + 1 # i - 1 /\ (j = l - 1 <=> j + 1 = l)
        BY <1>0, <1>1, <2>3
      <3>2. f[s[j + 1]] = IF j + 1 = l THEN Null ELSE s[(j + 1) + 1]
        BY <1>1 DEF Chained
      <3>3. j # l - 1 => t[j + 1] = s[(j + 1) + 1]
        BY <1>0, <2>3
      <3>4. g[s[j + 1]] = f[s[j + 1]]
        BY <1>1, <1>2, <3>1
      <3> QED
        BY <3>1, <3>2, <3>3, <3>4
    <2> QED
      BY <2>1, <2>2, <2>3
  <1>6. ASSUME NEW j \in 1 .. l - 1, NEW k \in 1 .. l - 1, t[j] = t[k]
        PROVE  j = k
    <2>1. CASE j < i /\ k < i
      BY <1>0, <1>1, <1>6, <2>1 DEF Chained
    <2>2. CASE j >= i /\ k >= i
      <3>1. s[j + 1] = s[k + 1]
        BY <1>0, <1>6, <2>2
      <3>2. j + 1 = k + 1
        BY <1>1, <3>1 DEF Chained
      <3> QED
        BY <3>2
    <2>3. CASE j < i /\ k >= i
      <3>1. s[j] = s[k + 1]
        BY <1>0, <1>6, <2>3
      <3>2. j = k + 1
        BY <1>1, <3>1 DEF Chained
      <3> QED
        BY <2>3, <3>2
    <2>4. CASE j >= i /\ k < i
      <3>1. s[j + 1] = s[k]
        BY <1>0, <1>6, <2>4
      <3>2. j + 1 = k
        BY <1>1, <3>1 DEF Chained
      <3> QED
        BY <2>4, <3>2
    <2> QED
      BY <2>1, <2>2, <2>3, <2>4
  <1> QED
    BY <1>0, <1>1, <1>4, <1>5, <1>6 DEF Chained

(* A node that is not on the chain becomes its head. *)
LEMMA PushHead ==
  ASSUME NEW n \in Nat, NEW f, NEW g, NEW s, NEW t, NEW l \in Nat,
         NEW k \in 1 .. n, Chained(f, s, l, n), \A i \in 1 .. l : s[i] # k,
         t[1] = k, \A i \in 2 .. l + 1 : t[i] = s[i - 1],
         \A j \in 1 .. n : j # k => g[j] = f[j],
         g[k] = IF l = 0 THEN Null ELSE s[1]
  PROVE  Chained(g, t, l + 1, n)
  <1>1. \A i \in 1 .. l + 1 : i # 1 => t[i] = s[i - 1] /\ i - 1 \in 1 .. l
    OBVIOUS
  <1>2. \A i \in 1 .. l + 1 : t[i] \in 1 .. n
    BY <1>1 DEF Chained
  <1>3. ASSUME NEW i \in 1 .. l + 1
        PROVE  g[t[i]] = IF i = l + 1 THEN Null ELSE t[i + 1]
    <2>1. CASE i = 1
      <3>1. l # 0 => t[2] = s[1]
        OBVIOUS
      <3> QED
        BY <2>1, <3>1
    <2>2. CASE i # 1
      <3>1. /\ t[i] = s[i - 1] /\ i - 1 \in 1 .. l /\ (i = l + 1 <=> i - 1 = l)
            /\ (i - 1) + 1 = i
        BY <1>1, <2>2
      <3>2. s[i - 1] \in 1 .. n /\ s[i - 1] # k
        BY <3>1 DEF Chained
      <3>3. f[s[i - 1]] = IF i - 1 = l THEN Null ELSE s[(i - 1) + 1]
        BY <3>1 DEF Chained
      <3>4. i # l + 1 => t[i + 1] = s[i]
        BY <1>1
      <3> QED
        BY <3>1, <3>2, <3>3, <3>4
    <2> QED
      BY <2>1, <2>2
  <1>4. ASSUME NEW i \in 1 .. l + 1, NEW j \in 1 .. l + 1, t[i] = t[j]
        PROVE  i = j
    <2>1. CASE i = 1 \/ j = 1
      BY <1>1, <1>4, <2>1
    <2>2. CASE i # 1 /\ j # 1
      <3>1. s[i - 1] = s[j - 1] /\ i - 1 \in 1 .. l /\ j - 1 \in 1 .. l
        BY <1>1, <1>4, <2>2
      <3>2. i - 1 = j - 1
        BY <3>1 DEF Chained
      <3> QED
        BY <3>2
    <2> QED
      BY <2>1, <2>2
  <1> QED
    BY <1>2, <1>3, <1>4 DEF Chained

(* FreeListIsChain in the terms of these lemmas. *)
LEMMA ChainForm ==
  ASSUME ListType
  PROVE  FreeListIsChain <=>
           /\ free = IF Len(freeSeq) = 0 THEN Null ELSE freeSeq[1]
           /\ Chained(next, freeSeq, Len(freeSeq), tail)
  <1>1. freeSeq \in Seq(Nat) /\ \A i \in 1 .. Len(freeSeq) : freeSeq[i] \in 1 .. tail
    BY DEF ListType, Nodes
  <1>2. freeSeq = <<>> <=> Len(freeSeq) = 0
    BY <1>1
  <1> QED
    BY <1>1, <1>2 DEF FreeListIsChain, Chained

-----------------------------------------------------------------------------
(* Steps that leave the list and the blocks alone.                         *)

LEMMA EnterStep ==
  ASSUME IInv, NEW n \in Sizes, pc = "idle",
         NEW c \in {"malloc", "calloc", "realloc"}, NEW p, Enter(c, n, p),
         \/ c # "realloc" /\ p = Null
         \/ p \in live /\ size[p] < n,
         UNCHANGED <<heapVars, free, next, data, live, req, freeSeq>>
  PROVE  IInv'
  <1>1. /\ TypeOK /\ FreeListIsChain /\ NodesPartitioned /\ BlocksFit
        /\ UNCHANGED <<tail, addr, size, free, next, data, live, req, freeSeq>>
    BY DEF IInv, heapVars
  <1>2. /\ freeSeq \in Seq(Nat) /\ tail \in Nat /\ live \subseteq 1 .. tail
        /\ \A i \in 1 .. Len(freeSeq) : freeSeq[i] \in 1 .. tail
        /\ free \in 0 .. tail
    BY <1>1 DEF TypeOK, HeapType, ListType, HolderType, Nodes
  <1>3. p \in 0 .. tail /\ n \in Nat
    <2>1. n \in Nat
      BY SizesAssumption
    <2>2. 0 \in 0 .. tail /\ live \subseteq 0 .. tail
      BY <1>2
    <2>3. p \in 0 .. tail
      BY <2>2 DEF Null
    <2> QED
      BY <2>1, <2>3
  <1>4. TypeOK'
    <2>1. HeapType' /\ ListType' /\ HolderType'
      BY <1>1 DEF TypeOK, HeapType, ListType, HolderType, Nodes
    <2>2. CallType'
      BY DEF CallType, Enter
    <2>3. LocalType'
      BY <1>1, <1>2, <1>3 DEF LocalType, Enter, Null
    <2> QED
      BY <2>1, <2>2, <2>3 DEF TypeOK
  <1>5. FreeListIsChain'
    BY <1>1 DEF FreeListIsChain
  <1>6. NodesPartitioned'
    BY <1>1 DEF NodesPartitioned, InHand, Nodes, Enter
  <1>7. BlocksFit'
    BY <1>1 DEF BlocksFit, Enter
  <1>8. IF free = Null THEN Len(freeSeq) = 0
        ELSE Len(freeSeq) > 0 /\ free = freeSeq[1]
    BY <1>1, <1>2 DEF FreeListIsChain, Null
  <1>9. WalkInv' /\ CarveInv'
    BY <1>1, <1>2, <1>8 DEF WalkInv, CarveInv, Enter
  <1>10. CallInv'
    BY <1>1 DEF CallInv, Enter
  <1> QED
    BY <1>4, <1>5, <1>6, <1>7, <1>9, <1>10 DEF IInv, OpInv

LEMMA WalkStep == IInv /\ WalkOn => IInv'
  <1> SUFFICES ASSUME IInv, WalkOn PROVE IInv'
    OBVIOUS
  <1>1. /\ TypeOK /\ FreeListIsChain /\ NodesPartitioned /\ BlocksFit
        /\ WalkInv /\ CallInv
        /\ UNCHANGED <<tail, addr, size, free, next, data, call, want, old,
                       live, req, freeSeq>>
        /\ pc = "walk" /\ pc' \in {"walk", "carve"} /\ prev' = node
    BY DEF IInv, OpInv, heapVars, WalkOn
  <1>0. HeapType /\ ListType /\ CallType /\ LocalType /\ HolderType
    BY <1>1 DEF TypeOK
  <1>2. /\ freeSeq \in Seq(Nat) /\ want \in Nat
        /\ \A i \in 1 .. Len(freeSeq) : /\ freeSeq[i] \in 1 .. tail
                                        /\ size[freeSeq[i]] \in Nat
        /\ size \in [0 .. MaxNodes -> Nat] /\ tail \in 0 .. MaxNodes
    <2>1. /\ freeSeq \in Seq(Nat) /\ tail \in 0 .. MaxNodes
          /\ \A i \in 1 .. Len(freeSeq) : freeSeq[i] \in 1 .. tail
          /\ size \in [0 .. MaxNodes -> Nat] /\ want \in Nat
      BY <1>0 DEF HeapType, ListType, LocalType, Nodes
    <2>2. 1 .. tail \subseteq 0 .. MaxNodes
      BY <2>1
    <2> QED
      BY <2>1, <2>2
  <1>3. /\ pos \in 1 .. Len(freeSeq) /\ node = freeSeq[pos]
        /\ \A i \in 1 .. pos - 1 : size[freeSeq[i]] < want
        /\ size[node] < want
    BY <1>1, <1>2 DEF WalkInv, WalkOn, Fits
  <1>4. next[node] = IF pos = Len(freeSeq) THEN Null ELSE freeSeq[pos + 1]
    BY <1>1, <1>3 DEF FreeListIsChain
  <1>5. \A i \in 1 .. pos : size[freeSeq[i]] < want
    BY <1>3
  <1>6. CASE pos = Len(freeSeq)
    <2>1. pc' = "carve" /\ UNCHANGED <<node, pos>>
      BY <1>4, <1>6 DEF WalkOn, AtEnd
    <2>2. HeapType' /\ ListType' /\ HolderType'
      BY <1>0, <1>1 DEF HeapType, ListType, HolderType, Nodes
    <2>3. CallType' /\ LocalType'
      BY <1>0, <1>1, <2>1 DEF CallType, LocalType
    <2>4. FreeListIsChain'
      BY <1>1 DEF FreeListIsChain
    <2>5. NodesPartitioned' /\ BlocksFit'
      BY <1>1, <2>1 DEF NodesPartitioned, BlocksFit, Nodes, InHand
    <2>6. WalkInv' /\ CarveInv'
      BY <1>1, <1>5, <1>6, <2>1 DEF WalkInv, CarveInv
    <2>7. CallInv'
      BY <1>1, <2>1 DEF CallInv
    <2> QED
      BY <2>2, <2>3, <2>4, <2>5, <2>6, <2>7 DEF IInv, TypeOK, OpInv
  <1>7. CASE pos # Len(freeSeq)
    <2>1. next[node] \in 1 .. tail
      BY <1>2, <1>3, <1>4, <1>7
    <2>2. pc' = "walk" /\ node' = freeSeq[pos + 1] /\ pos' = pos + 1
      <3>1. ~AtEnd(node)
        BY <1>2, <2>1 DEF AtEnd, Null
      <3>2. /\ node' = next[node] /\ pc' = pc
            /\ pos' = IF pos < Len(freeSeq) THEN pos + 1 ELSE pos
        BY <3>1 DEF WalkOn
      <3>3. pos < Len(freeSeq)
        BY <1>2, <1>3, <1>7
      <3> QED
        BY <1>1, <1>4, <1>7, <3>2, <3>3
    <2>3. WalkInv' /\ CarveInv' /\ CallInv'
      <3>1. /\ pos + 1 \in 1 .. Len(freeSeq) /\ pos + 1 # 1 /\ (pos + 1) - 1 = pos
        BY <1>2, <1>3, <1>7
      <3>2. WalkInv'
        BY <1>1, <1>3, <1>5, <2>2, <3>1 DEF WalkInv
      <3>3. CarveInv' /\ CallInv'
        BY <1>1, <2>2 DEF CarveInv, CallInv
      <3> QED
        BY <3>2, <3>3
    <2>4. TypeOK'
      <3>1. HeapType' /\ ListType' /\ HolderType'
        BY <1>1 DEF TypeOK, HeapType, ListType, HolderType, Nodes
      <3>2. CallType'
        BY <1>1 DEF TypeOK, CallType
      <3>3. LocalType'
        <4>1. pos + 1 \in 1 .. Len(freeSeq) /\ Len(freeSeq) \in Nat
          BY <1>2, <1>3, <1>7
        <4>2. node' \in 0 .. tail /\ prev' \in 0 .. tail /\ pos' \in Nat
          BY <1>0, <1>1, <1>2, <2>2, <4>1 DEF LocalType
        <4> QED
          BY <1>0, <1>1, <4>2 DEF LocalType
      <3> QED
        BY <3>1, <3>2, <3>3 DEF TypeOK
    <2>5. FreeListIsChain'
      BY <1>1 DEF FreeListIsChain
    <2>6. NodesPartitioned' /\ BlocksFit'
      BY <1>1, <2>2 DEF NodesPartitioned, BlocksFit, Nodes, InHand
    <2> QED
      BY <2>3, <2>4, <2>5, <2>6 DEF IInv, OpInv
  <1> QED
    BY <1>6, <1>7

LEMMA WriteStep ==
  ASSUME IInv, NEW p \in live, NEW v \in Values, ClientWrite(p, v)
  PROVE  IInv'
  <1>1. UNCHANGED <<tail, addr, size, free, next, pc, call, want, old, node,
                    prev, pos, live, req, freeSeq>>
    BY DEF ClientWrite, heapVars, opVars
  <1>2. data' \in [0 .. MaxNodes -> Contents]
    BY DEF ClientWrite, IInv, TypeOK, HeapType, Contents
  <1> QED
    BY <1>1, <1>2
    DEF IInv, TypeOK, HeapType, ListType, CallType, LocalType, HolderType,
        FreeListIsChain, NodesPartitioned, BlocksFit, OpInv, WalkInv, CarveInv,
        CallInv, Nodes, InHand

-----------------------------------------------------------------------------
(* The heap grows.                                                         *)
LEMMA CarveStep == IInv /\ Carve => IInv'
  <1> SUFFICES ASSUME IInv, Carve PROVE IInv'
    OBVIOUS
  <1> DEFINE new == tail + 1
  <1>1. /\ HeapType /\ ListType /\ CallType /\ LocalType /\ HolderType
        /\ FreeListIsChain /\ NodesPartitioned /\ BlocksFit /\ CallInv
    BY DEF IInv, TypeOK, OpInv
  <1>2. /\ pc = "carve" /\ tail \in Nat /\ tail < MaxNodes /\ tail' = new
        /\ addr' = [addr EXCEPT ![new] = Top]
        /\ size' = [size EXCEPT ![new] = Round(want)]
        /\ next' = [next EXCEPT ![new] = Null]
        /\ pc' = "done" /\ node' = new
        /\ UNCHANGED <<call, want, old, prev, pos, free, data, live, req, freeSeq>>
    BY <1>1 DEF Carve, HeapType
  <1>3. /\ want \in Sizes /\ Round(want) \in Nat /\ Round(want) >= want
        /\ want \in Nat
    BY <1>1, <1>2, RoundCovers, SizesAssumption DEF CallInv
  <1>4. /\ addr \in [0 .. MaxNodes -> Nat] /\ size \in [0 .. MaxNodes -> Nat]
        /\ new \in 0 .. MaxNodes /\ 0 .. tail \subseteq 0 .. MaxNodes
    BY <1>1, <1>2 DEF HeapType
  <1>5. /\ Top \in Nat /\ addr'[new] = Top /\ size'[new] = Round(want)
        /\ \A k \in 0 .. tail : addr'[k] = addr[k] /\ size'[k] = size[k]
    <2>1. tail \in 0 .. MaxNodes
      BY <1>2
    <2>2. Top \in Nat
      BY <1>4, <2>1 DEF Top, Header
    <2>3. addr'[new] = Top /\ size'[new] = Round(want)
      BY <1>2, <1>4
    <2>4. ASSUME NEW k \in 0 .. tail PROVE addr'[k] = addr[k] /\ size'[k] = size[k]
      <3>1. k \in 0 .. MaxNodes /\ k # new
        BY <1>2, <1>4
      <3> QED
        BY <1>2, <1>4, <3>1
    <2> QED
      BY <2>2, <2>3, <2>4
  <1>6. TypeOK'
    <2>1. HeapType'
      BY <1>1, <1>2, <1>3, <1>4, <1>5 DEF HeapType
    <2>2. ListType'
      <3>1. next' \in [0 .. MaxNodes -> 0 .. new]
        <4>1. next \in [0 .. MaxNodes -> 0 .. tail]
          BY <1>1 DEF ListType
        <4>2. 0 .. tail \subseteq 0 .. new /\ 0 \in 0 .. new
          BY <1>2
        <4> QED
          BY <1>2, <4>1, <4>2 DEF Null
      <3> QED
        <4>1. free \in 0 .. tail /\ \A i \in 1 .. Len(freeSeq) : freeSeq[i] \in 1 .. tail
          BY <1>1 DEF ListType, Nodes
        <4>2. free \in 0 .. new /\ \A i \in 1 .. Len(freeSeq) : freeSeq[i] \in 1 .. new
          BY <1>2, <4>1
        <4> QED
          BY <1>1, <1>2, <3>1, <4>2 DEF ListType, Nodes
    <2>3. CallType' /\ LocalType' /\ HolderType'
      BY <1>1, <1>2 DEF CallType, LocalType, HolderType, Nodes
    <2> QED
      BY <2>1, <2>2, <2>3 DEF TypeOK
  <1>7. \A i \in 1 .. Len(freeSeq) : freeSeq[i] \in 1 .. tail
    BY <1>1 DEF ListType, Nodes
  <1>8. FreeListIsChain'
    <2>1. \A i \in 1 .. Len(freeSeq) : next'[freeSeq[i]] = next[freeSeq[i]]
      BY <1>1, <1>2, <1>7 DEF ListType
    <2> QED
      BY <1>1, <1>2, <2>1 DEF FreeListIsChain
  <1>9. NodesPartitioned'
    <2>1. Nodes' = Nodes \cup {new} /\ InHand = {} /\ InHand' = {new}
      BY <1>2 DEF Nodes, InHand
    <2>2. new \notin Nodes
      BY <1>2 DEF Nodes
    <2> QED
      BY <1>1, <1>2, <2>1, <2>2 DEF NodesPartitioned
  <1>10. BlocksFit'
    <2>1. ASSUME NEW j \in 0 .. tail' , NEW k \in 0 .. tail', j < k
          PROVE  addr'[j] + size'[j] + Header <= addr'[k]
      <3>1. j \in 0 .. tail /\ addr'[j] = addr[j] /\ size'[j] = size[j]
            /\ addr[j] \in Nat /\ size[j] \in Nat
        BY <1>2, <1>4, <1>5, <2>1
      <3>2. CASE k \in 0 .. tail
        BY <1>1, <1>5, <2>1, <3>1, <3>2 DEF BlocksFit
      <3>3. CASE k = new /\ j = tail
        BY <1>5, <3>1, <3>3 DEF Top
      <3>4. CASE k = new /\ j < tail
        <4>1. addr[j] + size[j] + Header <= addr[tail]
          BY <1>1, <1>2, <3>1, <3>4 DEF BlocksFit
        <4>2. addr[tail] \in Nat /\ size[tail] \in Nat
          BY <1>2, <1>4
        <4> QED
          BY <1>5, <3>1, <3>4, <4>1, <4>2 DEF Top, Header
      <3> QED
        BY <1>2, <2>1, <3>2, <3>3, <3>4
    <2>2. \A p \in live : size'[p] >= req'[p]
      BY <1>1, <1>2, <1>5 DEF BlocksFit, HolderType, Nodes
    <2>3. call = "realloc" => size'[old] <= size'[new]
      <3>1. call = "realloc" => old \in 0 .. tail /\ size[old] < want
        BY <1>1, <1>2 DEF CallInv, LocalType
      <3>2. call = "realloc" => size[old] \in Nat
        BY <1>4, <3>1
      <3> QED
        BY <1>3, <1>5, <3>1, <3>2
    <2> QED
      BY <1>2, <2>1, <2>2, <2>3 DEF BlocksFit
  <1>11. OpInv'
    <2>1. WalkInv' /\ CarveInv'
      BY <1>2 DEF WalkInv, CarveInv
    <2>2. call = "realloc" => old \in live /\ size'[old] < want
      BY <1>1, <1>2, <1>5 DEF CallInv, HolderType, Nodes
    <2>3. node' \in Nodes' /\ size'[node'] >= want'
      BY <1>2, <1>3, <1>5 DEF Nodes
    <2> QED
      BY <1>1, <1>2, <2>1, <2>2, <2>3 DEF OpInv, CallInv
  <1> QED
    BY <1>6, <1>8, <1>9, <1>10, <1>11 DEF IInv

-----------------------------------------------------------------------------
(* Steps that change the free list.                                        *)

(* Taking the node at place pos off the list keeps the list in order.      *)
LEMMA TakeList ==
  ASSUME IInv, Take
  PROVE  /\ ListType' /\ FreeListIsChain'
         /\ node \in Range(freeSeq) /\ Range(freeSeq') = Range(freeSeq) \ {node}
  <1>1. /\ HeapType /\ ListType /\ FreeListIsChain /\ WalkInv
    BY DEF IInv, TypeOK, OpInv
  <1>2. /\ pc = "walk" /\ freeSeq' = RemoveAt(freeSeq, pos) /\ tail' = tail
    BY DEF Take, heapVars
  <1> DEFINE l == Len(freeSeq)
  <1>3. /\ pos \in 1 .. l /\ node = freeSeq[pos] /\ freeSeq \in Seq(Nat)
        /\ prev = IF pos = 1 THEN Null ELSE freeSeq[pos - 1]
        /\ tail \in 0 .. MaxNodes /\ tail \in Nat /\ l \in Nat
        /\ next \in [0 .. MaxNodes -> 0 .. tail] /\ free \in 0 .. tail
    <2>1. /\ pos \in 1 .. l /\ node = freeSeq[pos]
          /\ prev = IF pos = 1 THEN Null ELSE freeSeq[pos - 1]
      BY <1>1, <1>2 DEF WalkInv
    <2>2. /\ freeSeq \in Seq(Nat) /\ tail \in 0 .. MaxNodes
          /\ next \in [0 .. MaxNodes -> 0 .. tail] /\ free \in 0 .. tail
      BY <1>1 DEF ListType, HeapType
    <2>3. l \in Nat /\ tail \in Nat
      BY <2>2
    <2> QED
      BY <2>1, <2>2, <2>3
  <1>0. 1 .. tail \subseteq 0 .. MaxNodes
    <2>1. tail \in 0 .. MaxNodes
      BY <1>3
    <2> QED
      BY <2>1
  <1>4. Chained(next, freeSeq, l, tail) /\ free = freeSeq[1]
    BY <1>1, <1>3, ChainForm
  <1>5. \A i, j \in 1 .. l : freeSeq[i] = freeSeq[j] => i = j
    BY <1>4 DEF Chained
  <1>6. /\ freeSeq' \in Seq(Nat) /\ Len(freeSeq') = l - 1
        /\ \A j \in 1 .. l - 1 :
             freeSeq'[j] = IF j < pos THEN freeSeq[j] ELSE freeSeq[j + 1]
    BY <1>2, <1>3, RemoveAtFacts
  <1>7. Range(freeSeq') = Range(freeSeq) \ {node}
    BY <1>2, <1>3, <1>5, RemoveAtRange
  <1>8. node \in Range(freeSeq)
    BY <1>3 DEF Range
  <1>9. node \in 1 .. tail /\ next[node] \in 0 .. tail
    <2>1. node \in 1 .. tail
      BY <1>3, <1>4 DEF Chained
    <2>2. node \in 0 .. MaxNodes
      BY <1>0, <2>1
    <2>3. next \in [0 .. MaxNodes -> 0 .. tail]
      BY <1>3
    <2> QED
      BY <2>1, <2>2, <2>3
  <1>10. /\ free' \in 0 .. tail /\ next' \in [0 .. MaxNodes -> 0 .. tail]
         /\ free' = IF l - 1 = 0 THEN Null ELSE freeSeq'[1]
         /\ Chained(next', freeSeq', l - 1, tail)
    <2>1. CASE pos = 1
      <3>1. free' = next[node] /\ next' = next
        BY <1>3, <1>4, <2>1 DEF Take, Unlink, Null
      <3>2. \A j \in 1 .. l - 1 : freeSeq'[j] = freeSeq[j + 1]
        BY <1>6, <2>1
      <3>3. /\ Chained(next, freeSeq', l - 1, tail)
            /\ next[freeSeq[1]] = IF l = 1 THEN Null ELSE freeSeq'[1]
        <4>1. l >= 1 /\ l \in Nat /\ tail \in Nat
          BY <1>3
        <4> HIDE DEF l
        <4> QED
          BY <1>4, <3>2, <4>1, DropHead
      <3>4. l = 1 <=> l - 1 = 0
        BY <1>3
      <3> QED
        BY <1>3, <1>9, <2>1, <3>1, <3>3, <3>4
    <2>2. CASE pos # 1
      <3>1. pos \in 2 .. l /\ pos - 1 \in 1 .. l /\ 1 \in 1 .. l
        BY <1>3, <2>2
      <3>2. prev = freeSeq[pos - 1] /\ prev \in 1 .. tail /\ prev \in 0 .. MaxNodes
        <4>1. prev = freeSeq[pos - 1] /\ prev \in 1 .. tail
          BY <1>3, <1>4, <2>2, <3>1 DEF Chained
        <4> QED
          BY <1>0, <4>1
      <3>3. node # free
        <4> HIDE DEF l
        <4> QED
          BY <1>3, <1>4, <1>5, <2>2, <3>1
      <3>4. free' = free /\ next' = [next EXCEPT ![prev] = next[node]]
        BY <3>3 DEF Take, Unlink
      <3>5. next' \in [0 .. MaxNodes -> 0 .. tail]
        BY <1>3, <1>9, <3>4
      <3>6. \A k \in 1 .. tail : next'[k] = IF k = prev THEN next[node] ELSE next[k]
        BY <1>3, <3>4
      <3>7. Skips(freeSeq', freeSeq, l, pos)
        <4>1. pos \in Nat /\ l \in Nat
          BY <1>3
        <4>2. \A j \in 1 .. l - 1 :
                freeSeq'[j] = IF j < pos THEN freeSeq[j] ELSE freeSeq[j + 1]
          BY <1>6
        <4> HIDE DEF l
        <4>3. ASSUME NEW j \in 1 .. l - 1, j < pos PROVE freeSeq'[j] = freeSeq[j]
          BY <4>2, <4>3
        <4>4. ASSUME NEW j \in 1 .. l - 1, j >= pos PROVE freeSeq'[j] = freeSeq[j + 1]
          BY <4>1, <4>2, <4>4
        <4> QED
          BY <4>3, <4>4 DEF Skips
      <3>8. /\ Chained(next', freeSeq', l - 1, tail) /\ l - 1 >= 1
            /\ freeSeq'[1] = freeSeq[1]
        <4>1. Relinks(next', next, freeSeq[pos - 1], next[freeSeq[pos]], tail)
          BY <1>3, <3>2, <3>6 DEF Relinks
        <4>2. l \in Nat /\ tail \in Nat
          BY <1>3
        <4> HIDE DEF l
        <4> QED
          BY <1>4, <3>1, <3>7, <4>1, <4>2, DropInner
      <3>9. l - 1 # 0
        <4>1. l \in Nat
          BY <1>3
        <4> HIDE DEF l
        <4> QED
          BY <3>1, <4>1
      <3> QED
        BY <1>3, <1>4, <3>4, <3>5, <3>8, <3>9
    <2> QED
      BY <2>1, <2>2
  <1>11. ListType'
    <2>1. \A i \in 1 .. l - 1 : freeSeq'[i] \in 1 .. tail
      BY <1>10 DEF Chained
    <2> QED
      BY <1>2, <1>6, <1>10, <2>1 DEF ListType, Nodes
  <1>12. FreeListIsChain'
    <2>1. freeSeq' = <<>> <=> l - 1 = 0
      BY <1>6
    <2>2. /\ \A i \in 1 .. l - 1 : next'[freeSeq'[i]] = IF i = l - 1 THEN Null ELSE freeSeq'[i + 1]
          /\ \A i, j \in 1 .. l - 1 : freeSeq'[i] = freeSeq'[j] => i = j
      BY <1>10 DEF Chained
    <2> HIDE DEF l
    <2> QED
      BY <1>6, <1>10, <2>1, <2>2 DEF FreeListIsChain
  <1> QED
    BY <1>7, <1>8, <1>11, <1>12

LEMMA TakeStep == IInv /\ Take => IInv'
  <1> SUFFICES ASSUME IInv, Take PROVE IInv'
    OBVIOUS
  <1>1. /\ HeapType /\ ListType /\ CallType /\ LocalType /\ HolderType
        /\ NodesPartitioned /\ BlocksFit /\ WalkInv /\ CallInv
    BY DEF IInv, TypeOK, OpInv
  <1>2. /\ pc = "walk" /\ pc' = "done" /\ size[node] >= want
        /\ UNCHANGED <<tail, addr, size, data, live, req, call, want, old, node,
                       prev, pos>>
    BY DEF Take, Fits, heapVars
  <1>3. /\ ListType' /\ FreeListIsChain'
        /\ node \in Range(freeSeq) /\ Range(freeSeq') = Range(freeSeq) \ {node}
    BY TakeList
  <1>4. node \in 1 .. tail
    <2>1. \A i \in 1 .. Len(freeSeq) : freeSeq[i] \in 1 .. tail
      BY <1>1 DEF ListType, Nodes
    <2>2. pos \in 1 .. Len(freeSeq) /\ node = freeSeq[pos]
      BY <1>1, <1>2 DEF WalkInv
    <2> QED
      BY <2>1, <2>2
  <1>5. TypeOK'
    <2>1. HeapType'
      BY <1>1, <1>2 DEF HeapType
    <2>2. CallType'
      BY <1>1, <1>2 DEF CallType
    <2>3. LocalType' /\ HolderType'
      BY <1>1, <1>2 DEF LocalType, HolderType, Nodes
    <2> QED
      BY <1>3, <2>1, <2>2, <2>3 DEF TypeOK
  <1>6. NodesPartitioned'
    <2>1. InHand = {} /\ InHand' = {node} /\ Nodes' = Nodes /\ live' = live
      BY <1>2 DEF InHand, Nodes
    <2>2. Nodes = live \cup Range(freeSeq) /\ live \cap Range(freeSeq) = {}
      BY <1>1, <2>1 DEF NodesPartitioned
    <2> QED
      BY <1>3, <2>1, <2>2 DEF NodesPartitioned
  <1>7. BlocksFit'
    <2>1. call = "realloc" => size[old] <= size[node]
      <3>1. call = "realloc" => size[old] < want
        BY <1>1, <1>2 DEF CallInv
      <3>2. /\ want \in Nat /\ size \in [0 .. MaxNodes -> Nat]
            /\ old \in 0 .. tail /\ tail \in 0 .. MaxNodes
        BY <1>1 DEF HeapType, LocalType
      <3>3. size[old] \in Nat /\ size[node] \in Nat
        BY <1>4, <3>2
      <3> QED
        BY <1>2, <3>1, <3>2, <3>3
    <2> QED
      BY <1>1, <1>2, <2>1 DEF BlocksFit
  <1>8. OpInv'
    BY <1>1, <1>2, <1>4 DEF OpInv, WalkInv, CarveInv, CallInv, Nodes
  <1> QED
    BY <1>3, <1>5, <1>6, <1>7, <1>8 DEF IInv

(* A block that is given back becomes the head of the free list.           *)
LEMMA PushList ==
  ASSUME HeapType, ListType, FreeListIsChain, NEW k \in 1 .. tail,
         k \notin Range(freeSeq), Push(k), tail' = tail
  PROVE  /\ ListType' /\ FreeListIsChain'
         /\ Range(freeSeq') = Range(freeSeq) \cup {k}
  <1> DEFINE l == Len(freeSeq)
  <1>1. /\ freeSeq \in Seq(Nat) /\ l \in Nat /\ tail \in Nat /\ k \in Nat
        /\ next \in [0 .. MaxNodes -> 0 .. tail] /\ free \in 0 .. tail
        /\ k \in 0 .. MaxNodes /\ 1 .. tail \subseteq 0 .. MaxNodes
    <2>1. /\ freeSeq \in Seq(Nat) /\ tail \in 0 .. MaxNodes
          /\ next \in [0 .. MaxNodes -> 0 .. tail] /\ free \in 0 .. tail
      BY DEF HeapType, ListType
    <2> QED
      BY <2>1
  <1>2. /\ next' = [next EXCEPT ![k] = free] /\ free' = k
        /\ freeSeq' = <<k>> \o freeSeq
    BY DEF Push
  <1>3. /\ freeSeq' \in Seq(Nat) /\ Len(freeSeq') = l + 1 /\ freeSeq' # <<>>
        /\ freeSeq'[1] = k
        /\ \A i \in 2 .. l + 1 : freeSeq'[i] = freeSeq[i - 1]
        /\ Range(freeSeq') = {k} \cup Range(freeSeq)
    BY <1>1, <1>2, PushFacts
  <1>4. Chained(next, freeSeq, l, tail) /\ free = IF l = 0 THEN Null ELSE freeSeq[1]
    BY ChainForm
  <1>5. \A i \in 1 .. l : freeSeq[i] # k
    BY <1>1 DEF Range
  <1>6. /\ \A j \in 1 .. tail : j # k => next'[j] = next[j]
        /\ next'[k] = free
    BY <1>1, <1>2
  <1>7. Chained(next', freeSeq', l + 1, tail)
    <2>1. next'[k] = IF l = 0 THEN Null ELSE freeSeq[1]
      BY <1>4, <1>6
    <2> HIDE DEF l
    <2> QED
      BY <1>1, <1>3, <1>4, <1>5, <1>6, <2>1, PushHead
  <1>8. ListType'
    <2>1. \A i \in 1 .. l + 1 : freeSeq'[i] \in 1 .. tail
      BY <1>7 DEF Chained
    <2>2. next' \in [0 .. MaxNodes -> 0 .. tail] /\ free' \in 0 .. tail
      BY <1>1, <1>2
    <2> QED
      BY <1>3, <2>1, <2>2 DEF ListType, Nodes
  <1>9. FreeListIsChain'
    <2>1. /\ \A i \in 1 .. l + 1 : next'[freeSeq'[i]] = IF i = l + 1 THEN Null ELSE freeSeq'[i + 1]
          /\ \A i, j \in 1 .. l + 1 : freeSeq'[i] = freeSeq'[j] => i = j
      BY <1>7 DEF Chained
    <2>2. free' = IF freeSeq' = <<>> THEN Null ELSE freeSeq'[1]
      BY <1>2, <1>3
    <2>3. Len(freeSeq') = l + 1
      BY <1>3
    <2> HIDE DEF l
    <2> QED
      BY <2>1, <2>2, <2>3 DEF FreeListIsChain
  <1> QED
    BY <1>3, <1>8, <1>9

LEMMA FreeStep ==
  ASSUME IInv, NEW p \in live \cup {Null}, CallFree(p) PROVE IInv'
  <1>1. /\ HeapType /\ ListType /\ CallType /\ LocalType /\ HolderType
        /\ FreeListIsChain /\ NodesPartitioned /\ BlocksFit
        /\ pc = "idle" /\ tail \in 0 .. MaxNodes /\ live \subseteq 1 .. tail
        /\ UNCHANGED <<tail, addr, size, data, pc, call, want, old, node, prev, pos>>
    BY DEF IInv, TypeOK, HeapType, HolderType, Nodes, CallFree, heapVars, opVars
  <1>2. CASE p = Null /\ UNCHANGED <<free, next, freeSeq, live, req>>
    BY <1>1, <1>2
    DEF IInv, TypeOK, HeapType, ListType, CallType, LocalType, HolderType,
        FreeListIsChain, NodesPartitioned, BlocksFit, OpInv, WalkInv, CarveInv,
        CallInv, Nodes, InHand
  <1>3. CASE /\ p # Null /\ Push(p) /\ live' = live \ {p}
             /\ req' = [req EXCEPT ![p] = 0]
    <2>1. p \in live /\ p \in 1 .. tail /\ p \in 0 .. MaxNodes
      <3>1. p \in live /\ p \in 1 .. tail
        BY <1>1, <1>3
      <3> QED
        BY <1>1, <3>1
    <2>2. InHand = {} /\ InHand' = {} /\ Nodes' = Nodes
      BY <1>1 DEF InHand, Nodes
    <2>3. Nodes = live \cup Range(freeSeq) /\ live \cap Range(freeSeq) = {}
      BY <1>1, <2>2 DEF NodesPartitioned
    <2>4. /\ ListType' /\ FreeListIsChain'
          /\ Range(freeSeq') = Range(freeSeq) \cup {p}
      BY <1>1, <1>3, <2>1, <2>3, PushList
    <2>5. NodesPartitioned'
      BY <1>3, <2>1, <2>2, <2>3, <2>4 DEF NodesPartitioned
    <2>6. HolderType'
      BY <1>1, <1>3 DEF HolderType, Nodes
    <2>7. BlocksFit'
      <3>1. \A q \in live' : q \in live /\ req'[q] = req[q]
        BY <1>1, <1>3 DEF HolderType
      <3> QED
        BY <1>1, <3>1 DEF BlocksFit
    <2>8. HeapType' /\ CallType' /\ LocalType'
      BY <1>1 DEF HeapType, CallType, LocalType
    <2>9. OpInv'
      BY <1>1 DEF OpInv, WalkInv, CarveInv, CallInv
    <2> QED
      BY <2>4, <2>5, <2>6, <2>7, <2>8, <2>9 DEF IInv, TypeOK
  <1> QED
    BY <1>2, <1>3 DEF CallFree

(* realloc leaves a block that is large enough where it is.                *)
LEMMA ReallocStep ==
  ASSUME IInv, NEW p \in live \cup {Null}, NEW n \in Sizes, CallRealloc(p, n)
  PROVE  IInv'
  <1>1. /\ pc = "idle" /\ UNCHANGED <<heapVars, free, next, data, live, freeSeq>>
        /\ n \in Nat
    BY SizesAssumption DEF CallRealloc
  <1>2. CASE p = Null /\ Enter("malloc", n, Null) /\ UNCHANGED req
    BY <1>1, <1>2, EnterStep
  <1>3. CASE p # Null /\ ~Fits(p, n) /\ Enter("realloc", n, p) /\ UNCHANGED req
    <2>1. /\ p \in live /\ size \in [0 .. MaxNodes -> Nat] /\ live \subseteq 1 .. tail
          /\ tail \in 0 .. MaxNodes
      BY <1>3 DEF IInv, TypeOK, HeapType, HolderType, Nodes
    <2>2. size[p] \in Nat
      BY <2>1
    <2>3. size[p] < n
      BY <1>1, <1>3, <2>2 DEF Fits
    <2> QED
      BY <1>1, <1>3, <2>1, <2>3, EnterStep
  <1>4. CASE /\ p # Null /\ Fits(p, n) /\ req' = [req EXCEPT ![p] = n]
             /\ UNCHANGED opVars
    <2>1. /\ HeapType /\ ListType /\ CallType /\ LocalType /\ HolderType
          /\ FreeListIsChain /\ NodesPartitioned /\ BlocksFit
          /\ UNCHANGED <<tail, addr, size, data, free, next, live, freeSeq, pc,
                         call, want, old, node, prev, pos>>
      BY <1>1, <1>4 DEF IInv, TypeOK, heapVars, opVars
    <2>2. HolderType'
      BY <1>1, <1>4, <2>1 DEF HolderType, Nodes
    <2>3. BlocksFit'
      <3>1. \A q \in live : size[q] >= req'[q]
        BY <1>4, <2>1 DEF BlocksFit, HolderType, Fits
      <3> QED
        BY <2>1, <3>1 DEF BlocksFit
    <2>4. HeapType' /\ ListType' /\ CallType' /\ LocalType'
      BY <2>1 DEF HeapType, ListType, CallType, LocalType, Nodes
    <2>5. FreeListIsChain' /\ NodesPartitioned'
      BY <2>1 DEF FreeListIsChain, NodesPartitioned, Nodes, InHand
    <2>6. OpInv'
      BY <1>1, <2>1 DEF OpInv, WalkInv, CarveInv, CallInv
    <2> QED
      BY <2>2, <2>3, <2>4, <2>5, <2>6 DEF IInv, TypeOK
  <1> QED
    BY <1>2, <1>3, <1>4 DEF CallRealloc

(* The new block is handed over. *)
LEMMA ReturnNewStep == IInv /\ ReturnNew => IInv'
  <1> SUFFICES ASSUME IInv, ReturnNew PROVE IInv'
    OBVIOUS
  <1>1. /\ HeapType /\ ListType /\ LocalType /\ HolderType
        /\ FreeListIsChain /\ NodesPartitioned /\ BlocksFit /\ CallInv
    BY DEF IInv, TypeOK, OpInv
  <1>2. /\ pc = "done" /\ Leave /\ live' = live \cup {node}
        /\ req' = [req EXCEPT ![node] = want]
        /\ data' = IF call = "calloc" THEN [data EXCEPT ![node] = Zero] ELSE data
        /\ UNCHANGED <<tail, addr, size, free, next, freeSeq>>
    BY DEF ReturnNew, heapVars
  <1>3. /\ node \in 1 .. tail /\ size[node] >= want /\ want \in Nat
        /\ tail \in 0 .. MaxNodes
    BY <1>1, <1>2 DEF CallInv, Nodes, LocalType, HeapType
  <1>4. HeapType'
    BY <1>1, <1>2 DEF HeapType, Contents
  <1>5. ListType' /\ FreeListIsChain'
    BY <1>1, <1>2 DEF ListType, FreeListIsChain, Nodes
  <1>6. CallType' /\ LocalType'
    BY <1>2, <1>3 DEF CallType, LocalType, Leave, Null
  <1>7. HolderType'
    BY <1>1, <1>2, <1>3 DEF HolderType, Nodes
  <1>8. NodesPartitioned'
    <2>1. InHand = {node} /\ InHand' = {} /\ Nodes' = Nodes
      BY <1>2 DEF InHand, Nodes, Leave
    <2>2. /\ Nodes = live \cup Range(freeSeq) \cup {node}
          /\ live \cap Range(freeSeq) = {}
          /\ {node} \cap (live \cup Range(freeSeq)) = {}
      BY <1>1, <2>1 DEF NodesPartitioned
    <2> QED
      BY <1>2, <2>1, <2>2 DEF NodesPartitioned
  <1>9. BlocksFit'
    <2>1. \A q \in live' : size[q] >= req'[q]
      BY <1>1, <1>2, <1>3 DEF BlocksFit, HolderType
    <2>2. pc' # "done"
      BY <1>2 DEF Leave
    <2> QED
      BY <1>1, <1>2, <2>1, <2>2 DEF BlocksFit
  <1>10. OpInv'
    BY <1>2 DEF OpInv, WalkInv, CarveInv, CallInv, Leave
  <1> QED
    BY <1>4, <1>5, <1>6, <1>7, <1>8, <1>9, <1>10 DEF IInv, TypeOK

(* realloc hands over the new block and gives the old one back.            *)
LEMMA ReturnMovedStep == IInv /\ ReturnMoved => IInv'
  <1> SUFFICES ASSUME IInv, ReturnMoved PROVE IInv'
    OBVIOUS
  <1>1. /\ HeapType /\ ListType /\ LocalType /\ HolderType
        /\ FreeListIsChain /\ NodesPartitioned /\ BlocksFit /\ CallInv
    BY DEF IInv, TypeOK, OpInv
  <1>2. /\ pc = "done" /\ call = "realloc" /\ Leave /\ Push(old)
        /\ data' = [data EXCEPT ![node] = data[old]]
        /\ live' = (live \ {old}) \cup {node}
        /\ req' = [req EXCEPT ![old] = 0, ![node] = want]
        /\ UNCHANGED <<tail, addr, size>>
    BY DEF ReturnMoved, Copied, heapVars
  <1>3. /\ node \in 1 .. tail /\ size[node] >= want /\ want \in Nat
        /\ old \in live /\ old \in 1 .. tail /\ tail \in 0 .. MaxNodes
        /\ node \in 0 .. MaxNodes /\ old \in 0 .. MaxNodes
    <2>1. /\ node \in 1 .. tail /\ size[node] >= want /\ want \in Nat
          /\ old \in live /\ old \in 1 .. tail /\ tail \in 0 .. MaxNodes
      BY <1>1, <1>2 DEF CallInv, Nodes, LocalType, HeapType, HolderType
    <2> QED
      BY <2>1
  <1>4. /\ InHand = {node} /\ InHand' = {} /\ Nodes' = Nodes
        /\ Nodes = live \cup Range(freeSeq) \cup {node}
        /\ live \cap Range(freeSeq) = {}
        /\ {node} \cap (live \cup Range(freeSeq)) = {}
    <2>1. InHand = {node} /\ InHand' = {} /\ Nodes' = Nodes
      BY <1>2 DEF InHand, Nodes, Leave
    <2> QED
      BY <1>1, <2>1 DEF NodesPartitioned
  <1>5. /\ ListType' /\ FreeListIsChain'
        /\ Range(freeSeq') = Range(freeSeq) \cup {old}
    BY <1>1, <1>2, <1>3, <1>4, PushList
  <1>6. HeapType'
    <2>1. data \in [0 .. MaxNodes -> Contents] /\ data[old] \in Contents
      BY <1>1, <1>3 DEF HeapType
    <2> QED
      BY <1>1, <1>2, <2>1 DEF HeapType
  <1>7. CallType' /\ LocalType'
    BY <1>2, <1>3 DEF CallType, LocalType, Leave, Null
  <1>8. HolderType'
    BY <1>1, <1>2, <1>3 DEF HolderType, Nodes
  <1>9. NodesPartitioned'
    BY <1>2, <1>3, <1>4, <1>5 DEF NodesPartitioned
  <1>10. BlocksFit'
    <2>1. \A q \in live' : size[q] >= req'[q]
      <3>1. req \in [0 .. MaxNodes -> Nat] /\ node # old /\ live \subseteq 0 .. MaxNodes
        <4>1. req \in [0 .. MaxNodes -> Nat] /\ live \subseteq 1 .. tail
          BY <1>1 DEF HolderType, Nodes
        <4> QED
          BY <1>3, <1>4, <4>1
      <3>2. req'[node] = want
        BY <1>2, <1>3, <3>1
      <3>3. ASSUME NEW q \in live, q # old, q # node PROVE req'[q] = req[q]
        BY <1>2, <3>1, <3>3
      <3>4. \A q \in live : size[q] >= req[q]
        BY <1>1 DEF BlocksFit
      <3> QED
        BY <1>2, <1>3, <3>2, <3>3, <3>4
    <2>2. pc' # "done"
      BY <1>2 DEF Leave
    <2> QED
      BY <1>1, <1>2, <2>1, <2>2 DEF BlocksFit
  <1>11. OpInv'
    BY <1>2 DEF OpInv, WalkInv, CarveInv, CallInv, Leave
  <1> QED
    BY <1>5, <1>6, <1>7, <1>8, <1>9, <1>10, <1>11 DEF IInv, TypeOK

-----------------------------------------------------------------------------
LEMMA InitInv == Init => IInv
  <1> SUFFICES ASSUME Init PROVE IInv
    OBVIOUS
  <1>1. HeapType /\ CallType /\ LocalType
    BY DEF Init, HeapType, CallType, LocalType, Contents, Null
  <1>2. freeSeq = <<>> /\ Len(freeSeq) = 0 /\ freeSeq \in Seq(Nat)
    BY DEF Init
  <1>3. ListType /\ FreeListIsChain
    BY <1>2 DEF Init, ListType, FreeListIsChain, Null
  <1>4. HolderType
    BY DEF Init, HolderType
  <1>5. NodesPartitioned
    <2>1. Range(freeSeq) = {} /\ Nodes = {} /\ InHand = {}
      BY <1>2 DEF Init, Range, Nodes, InHand
    <2> QED
      BY <2>1 DEF Init, NodesPartitioned
  <1>6. BlocksFit /\ OpInv
    BY DEF Init, BlocksFit, OpInv, WalkInv, CarveInv, CallInv
  <1> QED
    BY <1>1, <1>3, <1>4, <1>5, <1>6 DEF IInv, TypeOK

LEMMA StepInv == IInv /\ [Next]_vars => IInv'
  <1> SUFFICES ASSUME IInv, [Next]_vars PROVE IInv'
    OBVIOUS
  <1>1. ASSUME NEW n \in Sizes, CallMalloc(n) PROVE IInv'
    BY <1>1, EnterStep DEF CallMalloc
  <1>2. ASSUME NEW n \in Sizes, CallCalloc(n) PROVE IInv'
    BY <1>2, EnterStep DEF CallCalloc
  <1>3. ASSUME NEW p \in live \cup {Null}, NEW n \in Sizes, CallRealloc(p, n)
        PROVE  IInv'
    BY <1>3, ReallocStep
  <1>4. ASSUME NEW p \in live \cup {Null}, CallFree(p) PROVE IInv'
    BY <1>4, FreeStep
  <1>5. ASSUME NEW p \in live, NEW v \in Values, ClientWrite(p, v) PROVE IInv'
    BY <1>5, WriteStep
  <1>6. CASE UNCHANGED vars
    <2>1. /\ TypeOK /\ FreeListIsChain /\ NodesPartitioned /\ BlocksFit /\ OpInv
          /\ UNCHANGED <<tail, addr, size, free, next, data, pc, call, want, old,
                         node, prev, pos, live, req, freeSeq>>
      BY <1>6 DEF IInv, vars, heapVars, opVars
    <2>2. TypeOK'
      BY <2>1 DEF TypeOK, HeapType, ListType, CallType, LocalType, HolderType, Nodes
    <2>3. FreeListIsChain' /\ NodesPartitioned' /\ BlocksFit'
      BY <2>1 DEF FreeListIsChain, NodesPartitioned, BlocksFit, Nodes, InHand
    <2>4. OpInv'
      BY <2>1 DEF OpInv, WalkInv, CarveInv, CallInv, Nodes
    <2> QED
      BY <2>2, <2>3, <2>4 DEF IInv
  <1> QED
    BY <1>1, <1>2, <1>3, <1>4, <1>5, <1>6, WalkStep, TakeStep, CarveStep,
       ReturnNewStep, ReturnMovedStep DEF Next

LEMMA Invariance == Spec => []IInv
  BY InitInv, StepInv, PTL DEF Spec

(* No pointer, header or local of the allocator refers beyond alloc.tail,  *)
(* however many nodes there are.                                           *)
THEOREM TypeCorrect == Spec => []TypeOK
  BY Invariance, PTL DEF IInv

(* The free list is a chain from alloc.free to null without repetition: no *)
(* walk of allocatorAlloc loops or leaves the list.                        *)
THEOREM ListCorrect == Spec => []FreeListIsChain
  BY Invariance, PTL DEF IInv

(* No node is handed out twice, handed out while free, or lost.            *)
THEOREM HandOutCorrect == Spec => []NodesPartitioned
  BY Invariance, PTL DEF IInv

(* Blocks do not overlap and are as large as was asked for, for every set  *)
(* of sizes whose rounding does not wrap.                                  *)
THEOREM SizesCorrect == Spec => []BlocksFit
  BY Invariance, PTL DEF IInv

-----------------------------------------------------------------------------
(* The order of reuse. *)

LEMMA FreeSizes ==
  ASSUME HeapType, ListType, NEW i \in 1 .. Len(freeSeq)
  PROVE  size[freeSeq[i]] \in Nat
  <1>1. freeSeq[i] \in 1 .. tail
    BY DEF ListType, Nodes
  <1>2. size \in [0 .. MaxNodes -> Nat] /\ tail \in 0 .. MaxNodes
    BY DEF HeapType
  <1>3. freeSeq[i] \in 0 .. MaxNodes
    BY <1>1, <1>2
  <1> QED
    BY <1>2, <1>3

LEMMA GrowOrder == IInv /\ Carve => GrowsOnlyIfNoneFits /\ TakesFirstFit
  <1> SUFFICES ASSUME IInv, Carve PROVE GrowsOnlyIfNoneFits /\ TakesFirstFit
    OBVIOUS
  <1>1. /\ pc = "carve" /\ freeSeq' = freeSeq
        /\ HeapType /\ ListType /\ LocalType /\ CarveInv
    BY DEF Carve, IInv, TypeOK, OpInv
  <1>2. want \in Nat /\ Len(freeSeq) \in Nat
    BY <1>1 DEF LocalType, ListType
  <1>3. ASSUME NEW i \in 1 .. Len(freeSeq) PROVE ~Fits(freeSeq[i], want)
    <2>1. size[freeSeq[i]] \in Nat
      BY <1>1, FreeSizes
    <2>2. size[freeSeq[i]] < want
      BY <1>1 DEF CarveInv
    <2> QED
      BY <1>2, <2>1, <2>2 DEF Fits
  <1>4. ~(Len(freeSeq') < Len(freeSeq))
    BY <1>1, <1>2
  <1> QED
    BY <1>3, <1>4 DEF GrowsOnlyIfNoneFits, TakesFirstFit

LEMMA TakeOrder == IInv /\ Take => GrowsOnlyIfNoneFits /\ TakesFirstFit
  <1> SUFFICES ASSUME IInv, Take PROVE GrowsOnlyIfNoneFits /\ TakesFirstFit
    OBVIOUS
  <1>1. /\ pc = "walk" /\ tail' = tail /\ node' = node /\ Fits(node, want)
        /\ HeapType /\ ListType /\ LocalType /\ WalkInv
    BY DEF Take, IInv, TypeOK, OpInv, heapVars
  <1>2. /\ want \in Nat /\ pos \in Nat /\ Len(freeSeq) \in Nat
        /\ pos \in 1 .. Len(freeSeq) /\ node = freeSeq[pos]
    BY <1>1 DEF LocalType, ListType, WalkInv
  <1>3. ASSUME NEW i \in 1 .. pos - 1 PROVE ~Fits(freeSeq[i], want)
    <2>1. i \in 1 .. Len(freeSeq)
      BY <1>2
    <2>2. size[freeSeq[i]] \in Nat
      BY <1>1, <2>1, FreeSizes
    <2>3. size[freeSeq[i]] < want
      BY <1>1 DEF WalkInv
    <2> QED
      BY <1>2, <2>2, <2>3 DEF Fits
  <1>4. node' = freeSeq[pos] /\ Fits(freeSeq[pos], want)
    BY <1>1, <1>2
  <1>5. TakesFirstFit
    BY <1>2, <1>3, <1>4 DEF TakesFirstFit
  <1> QED
    BY <1>1, <1>5 DEF GrowsOnlyIfNoneFits

LEMMA OtherOrder ==
  ASSUME IInv, tail' = tail,
         \/ freeSeq' = freeSeq
         \/ \E k \in Nat : freeSeq' = <<k>> \o freeSeq
  PROVE  GrowsOnlyIfNoneFits /\ TakesFirstFit
  <1>1. freeSeq \in Seq(Nat)
    BY DEF IInv, TypeOK, ListType
  <1>2. Len(freeSeq') >= Len(freeSeq) /\ Len(freeSeq) \in Nat /\ Len(freeSeq') \in Nat
    <2>1. CASE freeSeq' = freeSeq
      BY <1>1, <2>1
    <2>2. CASE \E k \in Nat : freeSeq' = <<k>> \o freeSeq
      BY <1>1, <2>2, PushFacts
    <2> QED
      BY <2>1, <2>2
  <1> QED
    BY <1>2 DEF GrowsOnlyIfNoneFits, TakesFirstFit

LEMMA StepOrder == IInv /\ Next => GrowsOnlyIfNoneFits /\ TakesFirstFit
  <1> SUFFICES ASSUME IInv, Next PROVE GrowsOnlyIfNoneFits /\ TakesFirstFit
    OBVIOUS
  <1>1. live \subseteq Nat /\ old \in Nat
    <2>1. live \subseteq 1 .. tail /\ old \in 0 .. tail /\ tail \in Nat
      BY DEF IInv, TypeOK, HeapType, HolderType, LocalType, Nodes
    <2> QED
      BY <2>1
  <1>2. ASSUME NEW n \in Sizes, CallMalloc(n) \/ CallCalloc(n)
        PROVE  tail' = tail /\ freeSeq' = freeSeq
    BY <1>2 DEF CallMalloc, CallCalloc, heapVars
  <1>3. ASSUME NEW p \in live \cup {Null}, NEW n \in Sizes, CallRealloc(p, n)
        PROVE  tail' = tail /\ freeSeq' = freeSeq
    BY <1>3 DEF CallRealloc, heapVars
  <1>4. ASSUME NEW p \in live \cup {Null}, CallFree(p)
        PROVE  /\ tail' = tail
               /\ freeSeq' = freeSeq \/ \E k \in Nat : freeSeq' = <<k>> \o freeSeq
    BY <1>1, <1>4 DEF CallFree, Push, heapVars, Null
  <1>5. WalkOn => tail' = tail /\ freeSeq' = freeSeq
    BY DEF WalkOn, heapVars
  <1>6. ReturnNew => tail' = tail /\ freeSeq' = freeSeq
    BY DEF ReturnNew, heapVars
  <1>7. ReturnMoved => tail' = tail /\ \E k \in Nat : freeSeq' = <<k>> \o freeSeq
    BY <1>1 DEF ReturnMoved, Push, heapVars
  <1>8. ASSUME NEW p \in live, NEW v \in Values, ClientWrite(p, v)
        PROVE  tail' = tail /\ freeSeq' = freeSeq
    BY <1>8 DEF ClientWrite, heapVars
  <1> QED
    BY <1>2, <1>3, <1>4, <1>5, <1>6, <1>7, <1>8, GrowOrder, TakeOrder, OtherOrder
    DEF Next

(* The heap grows only when no free block would do, and the block that is  *)
(* reused is the one freed last among those that fit.                      *)
THEOREM ReuseOrder == Spec => ReuseFirstFit
  <1>1. IInv /\ [Next]_vars => [GrowsOnlyIfNoneFits /\ TakesFirstFit]_vars
    BY StepOrder
  <1> QED
    BY <1>1, Invariance, PTL DEF Spec, ReuseFirstFit

-----------------------------------------------------------------------------
(* Every step is one of Heap's or changes nothing its callers see.         *)

LEMMA SameBlocks ==
  ASSUME UNCHANGED <<data, live, req>> PROVE Blocks' = Blocks
  BY DEF Blocks

LEMMA MallocRefines ==
  ASSUME IInv, ReturnNew PROVE HeapOfCallers!Malloc(want) /\ want \in Sizes
  <1>1. /\ pc = "done" /\ live' = live \cup {node}
        /\ req' = [req EXCEPT ![node] = want]
        /\ data' = IF call = "calloc" THEN [data EXCEPT ![node] = Zero] ELSE data
    BY DEF ReturnNew
  <1>2. /\ want \in Sizes /\ node \in 1 .. tail /\ node \notin live
        /\ tail \in 0 .. MaxNodes /\ live \subseteq 1 .. tail
        /\ data \in [0 .. MaxNodes -> Contents] /\ req \in [0 .. MaxNodes -> Nat]
    BY <1>1 DEF IInv, OpInv, CallInv, NodesPartitioned, InHand, TypeOK, HeapType,
                HolderType, Nodes
  <1>3. node \in 1 .. MaxNodes /\ node \in 0 .. MaxNodes /\ live \subseteq 0 .. MaxNodes
    BY <1>2
  <1>4. data'[node] \in Contents /\ req'[node] = want
    BY <1>1, <1>2, <1>3 DEF Contents
  <1>5. ASSUME NEW q \in live PROVE data'[q] = data[q] /\ req'[q] = req[q]
    BY <1>1, <1>2, <1>3, <1>5
  <1>6. DOMAIN Blocks = live
    BY DEF Blocks
  <1>7. Blocks' = [q \in live \cup {node} |->
                     IF q = node THEN [size |-> want, data |-> data'[node]]
                     ELSE Blocks[q]]
    BY <1>1, <1>4, <1>5 DEF Blocks
  <1> QED
    BY <1>2, <1>3, <1>4, <1>6, <1>7
    DEF HeapOfCallers!Malloc, HeapOfCallers!Contents, Contents

LEMMA MovedRefines ==
  ASSUME IInv, ReturnMoved
  PROVE  HeapOfCallers!Realloc(old, want) /\ want \in Sizes /\ old \in live
  <1>1. /\ pc = "done" /\ call = "realloc"
        /\ live' = (live \ {old}) \cup {node}
        /\ req' = [req EXCEPT ![old] = 0, ![node] = want]
        /\ data' = [data EXCEPT ![node] = data[old]]
    BY DEF ReturnMoved, Copied
  <1>2. /\ want \in Sizes /\ node \in 1 .. tail /\ node \notin live /\ old \in live
        /\ tail \in 0 .. MaxNodes /\ live \subseteq 1 .. tail
        /\ data \in [0 .. MaxNodes -> Contents] /\ req \in [0 .. MaxNodes -> Nat]
    BY <1>1 DEF IInv, OpInv, CallInv, NodesPartitioned, InHand, TypeOK, HeapType,
                HolderType, Nodes
  <1>3. node \in 1 .. MaxNodes /\ node \in 0 .. MaxNodes /\ live \subseteq 0 .. MaxNodes
    BY <1>2
  <1>4. data'[node] = data[old] /\ req'[node] = want
    BY <1>1, <1>2, <1>3
  <1>5. ASSUME NEW q \in live, q # old PROVE data'[q] = data[q] /\ req'[q] = req[q]
    BY <1>1, <1>2, <1>3, <1>5
  <1>6. DOMAIN Blocks = live /\ Blocks[old].data = data[old]
    BY <1>2 DEF Blocks
  <1>7. Blocks' = [q \in (live \ {old}) \cup {node} |->
                     IF q = node THEN [size |-> want, data |-> Blocks[old].data]
                     ELSE Blocks[q]]
    BY <1>1, <1>4, <1>5, <1>6 DEF Blocks
  <1> QED
    BY <1>2, <1>3, <1>6, <1>7 DEF HeapOfCallers!Realloc

LEMMA InPlaceRefines ==
  ASSUME IInv, NEW p \in live, NEW n \in Sizes, req' = [req EXCEPT ![p] = n],
         UNCHANGED <<data, live>>
  PROVE  HeapOfCallers!Realloc(p, n)
  <1>1. req \in [0 .. MaxNodes -> Nat] /\ live \subseteq 0 .. MaxNodes
    <2>1. /\ req \in [0 .. MaxNodes -> Nat] /\ live \subseteq 1 .. tail
          /\ tail \in 0 .. MaxNodes
      BY DEF IInv, TypeOK, HeapType, HolderType, Nodes
    <2> QED
      BY <2>1
  <1>2. req'[p] = n /\ \A q \in live : q # p => req'[q] = req[q]
    BY <1>1
  <1>3. DOMAIN Blocks = live /\ Blocks[p].data = data[p] /\ (live \ {p}) \cup {p} = live
    BY DEF Blocks
  <1>4. Blocks' = [q \in (live \ {p}) \cup {p} |->
                     IF q = p THEN [size |-> n, data |-> Blocks[p].data]
                     ELSE Blocks[q]]
    BY <1>2, <1>3 DEF Blocks
  <1> QED
    BY <1>3, <1>4 DEF HeapOfCallers!Realloc

LEMMA FreeRefines ==
  ASSUME IInv, NEW p \in live, live' = live \ {p}, req' = [req EXCEPT ![p] = 0],
         data' = data
  PROVE  HeapOfCallers!Free(p)
  <1>1. \A q \in live \ {p} : req'[q] = req[q]
    BY DEF IInv, TypeOK, HolderType
  <1>2. DOMAIN Blocks = live
    BY DEF Blocks
  <1>3. Blocks' = [q \in live \ {p} |-> Blocks[q]]
    BY <1>1 DEF Blocks
  <1> QED
    BY <1>2, <1>3 DEF HeapOfCallers!Free, HeapOfCallers!Restrict

LEMMA WriteRefines ==
  ASSUME IInv, NEW p \in live, NEW v \in Values, ClientWrite(p, v)
  PROVE  HeapOfCallers!Write(p, v)
  <1>1. /\ data' = [data EXCEPT ![p] = v] /\ UNCHANGED <<live, req>>
        /\ data \in [0 .. MaxNodes -> Contents] /\ live \subseteq 0 .. MaxNodes
    <2>1. /\ data' = [data EXCEPT ![p] = v] /\ UNCHANGED <<live, req>>
          /\ data \in [0 .. MaxNodes -> Contents] /\ live \subseteq 1 .. tail
          /\ tail \in 0 .. MaxNodes
      BY DEF ClientWrite, IInv, TypeOK, HeapType, HolderType, Nodes
    <2> QED
      BY <2>1
  <1>2. data'[p] = v /\ \A q \in live : q # p => data'[q] = data[q]
    BY <1>1
  <1>3. Blocks' = [Blocks EXCEPT ![p].data = v]
    BY <1>1, <1>2 DEF Blocks
  <1> QED
    BY <1>3 DEF HeapOfCallers!Write

LEMMA StepRefines == IInv /\ [Next]_vars => [HeapOfCallers!Next]_Blocks
  <1> SUFFICES ASSUME IInv, [Next]_vars PROVE [HeapOfCallers!Next]_Blocks
    OBVIOUS
  <1>0. DOMAIN Blocks = live
    BY DEF Blocks
  <1>1. ASSUME NEW n \in Sizes, CallMalloc(n) \/ CallCalloc(n)
        PROVE  Blocks' = Blocks
    BY <1>1, SameBlocks DEF CallMalloc, CallCalloc
  <1>2. ASSUME NEW p \in live \cup {Null}, NEW n \in Sizes, CallRealloc(p, n)
        PROVE  HeapOfCallers!Next \/ Blocks' = Blocks
    <2>1. CASE req' = req
      BY <1>2, <2>1, SameBlocks DEF CallRealloc
    <2>2. CASE p # Null /\ req' = [req EXCEPT ![p] = n]
      <3>1. HeapOfCallers!Realloc(p, n)
        BY <1>2, <2>2, InPlaceRefines DEF CallRealloc
      <3> QED
        BY <1>0, <2>2, <3>1 DEF HeapOfCallers!Next
    <2> QED
      BY <1>2, <2>1, <2>2 DEF CallRealloc
  <1>3. ASSUME NEW p \in live \cup {Null}, CallFree(p)
        PROVE  HeapOfCallers!Next \/ Blocks' = Blocks
    <2>1. CASE UNCHANGED <<live, req>>
      BY <1>3, <2>1, SameBlocks DEF CallFree
    <2>2. CASE p # Null /\ live' = live \ {p} /\ req' = [req EXCEPT ![p] = 0]
      <3>1. HeapOfCallers!Free(p)
        BY <1>3, <2>2, FreeRefines DEF CallFree
      <3> QED
        BY <1>0, <2>2, <3>1 DEF HeapOfCallers!Next
    <2> QED
      BY <1>3, <2>1, <2>2 DEF CallFree
  <1>4. CASE WalkOn \/ Take \/ Carve
    BY <1>4, SameBlocks DEF WalkOn, Take, Carve
  <1>5. CASE ReturnNew
    BY <1>5, MallocRefines DEF HeapOfCallers!Next
  <1>6. CASE ReturnMoved
    BY <1>0, <1>6, MovedRefines DEF HeapOfCallers!Next
  <1>7. ASSUME NEW p \in live, NEW v \in Values, ClientWrite(p, v)
        PROVE  HeapOfCallers!Next
    BY <1>0, <1>7, WriteRefines DEF HeapOfCallers!Next
  <1>8. CASE UNCHANGED vars
    BY <1>8, SameBlocks DEF vars
  <1> QED
    BY <1>1, <1>2, <1>3, <1>4, <1>5, <1>6, <1>7, <1>8 DEF Next

(* malloc, calloc, realloc and free are what their callers take them for.  *)
THEOREM Implements == Spec => ImplementsHeap
  <1>1. Init => HeapOfCallers!Init
    BY DEF Init, HeapOfCallers!Init, Blocks
  <1> QED
    BY <1>1, StepRefines, Invariance, PTL DEF Spec, ImplementsHeap, HeapOfCallers!Spec

-----------------------------------------------------------------------------
(* GfxCache. Below, clips are in doubt at a point when the drawing of a    *)
(* command at it depends on them (Doubtful). The argument: redrawing a     *)
(* region makes a point of it right unless clips are in doubt there        *)
(* (RedrawnIs); the runs of changed cells are, together, the changed cells *)
(* (RunChanged, RunCovers, ScanVisits), and so those are right after a     *)
(* swap (RefreshedRight) and the others untouched (RefreshedClean); what   *)
(* covers a point is hashed into its cell (CoverTouches), and frames with  *)
(* equal hashes at a cell are painted alike there (SameHash).              *)

(* What is drawn, and with which colours.                                  *)
Types == {"bckg", "rect", "icon", "char", "clip"}
Ink == Colors \cup {"blue", "image", "junk"}
Box == [x : Int, y : Int, w : Int, h : Int]
Shaped(c) ==
  /\ c.type \in {"icon", "char"} => c.data \subseteq (0 .. c.w - 1) \X (0 .. c.h - 1)
  /\ c.type # "clip" => c.color \in Ink
CommandType ==
  [type : Types, x : Int, y : Int, w : Int, h : Int, data : SUBSET (Int \X Int),
   color : Ink \cup {"none"}]
Drawables == {c \in CommandType : Shaped(c)}

Points == Int \X Int

(* The sizes of the grid.                                                  *)
LEMMA Grid ==
  /\ CellSize \in Nat \ {0} /\ CellsX \in Nat \ {0} /\ CellsY \in Nat \ {0}
  /\ MaxCommands \in Nat \ {0}
  BY ParametersAssumption DEF Parameters

LEMMA ScreenIs ==
  /\ Screen \in Box
  /\ Screen.x = 0 /\ Screen.y = 0
  /\ Screen.w = CellsX * CellSize /\ Screen.h = CellsY * CellSize
  /\ Screen.w \in Nat /\ Screen.h \in Nat
  BY Grid DEF Screen, Box

LEMMA PixelIs ==
  ASSUME NEW p \in Pixels
  PROVE  /\ p \in Points /\ p[1] \in Nat /\ p[2] \in Nat
         /\ p[1] < CellsX * CellSize /\ p[2] < CellsY * CellSize
         /\ Inside(p, Screen)
  BY ScreenIs DEF Pixels, Inside, Points

(* What a command covers lies in its rectangle.                            *)
LEMMA CoverInside ==
  ASSUME NEW c \in Drawables, NEW p \in Points, Covers(c, p)
  PROVE  Inside(p, c) /\ c.type # "clip"
  <1>1. c \in CommandType /\ Shaped(c)
    BY DEF Drawables
  <1>2. CASE c.type \in {"bckg", "rect"}
    BY <1>2 DEF Covers
  <1>3. CASE c.type \in {"icon", "char"}
    <2>1. <<p[1] - c.x, p[2] - c.y>> \in c.data
      BY <1>3 DEF Covers
    <2>2. <<p[1] - c.x, p[2] - c.y>> \in (0 .. c.w - 1) \X (0 .. c.h - 1)
      BY <1>1, <1>3, <2>1 DEF Shaped
    <2>3. p[1] - c.x \in 0 .. c.w - 1 /\ p[2] - c.y \in 0 .. c.h - 1
      BY <2>2
    <2>4. c.x \in Int /\ c.y \in Int /\ c.w \in Int /\ c.h \in Int /\ p[1] \in Int /\ p[2] \in Int
      BY <1>1 DEF CommandType, Points
    <2>5. Inside(p, c)
      BY <2>3, <2>4 DEF Inside
    <2> QED
      BY <1>3, <2>5
  <1>4. CASE c.type \notin {"bckg", "rect", "icon", "char"}
    BY <1>4 DEF Covers
  <1> QED
    BY <1>2, <1>3, <1>4

IsBox(r) == r.x \in Int /\ r.y \in Int /\ r.w \in Int /\ r.h \in Int

LEMMA BoxesAre ==
  /\ \A c \in Drawables : IsBox(c)
  /\ \A r \in Box : IsBox(r)
  BY DEF IsBox, Drawables, CommandType, Box

(* Rectangles that share a point overlap.                                  *)
LEMMA SharedOverlap ==
  ASSUME NEW r, IsBox(r), NEW s, IsBox(s), NEW p \in Points, Inside(p, r), Inside(p, s)
  PROVE  rectOverlap(r, s)
  BY DEF IsBox, Points, Inside, rectOverlap

-----------------------------------------------------------------------------
(* The drawing of a region                                                 *)

Canvas == [back : [Pixels -> Ink], clip : Box]

LEMMA DrawType ==
  ASSUME NEW at \in Canvas, NEW c \in Drawables, NEW r
  PROVE  DrawCommand(r, at, c) \in Canvas
  <1>1. c \in CommandType /\ Shaped(c)
    BY DEF Drawables
  <1>2. CASE ~rectOverlap(r, c)
    BY <1>2 DEF DrawCommand
  <1>3. CASE rectOverlap(r, c) /\ c.type = "clip"
    <2>1. DrawCommand(r, at, c) = [at EXCEPT !.clip = [x |-> c.x, y |-> c.y, w |-> c.w, h |-> c.h]]
      BY <1>3 DEF DrawCommand
    <2>2. [x |-> c.x, y |-> c.y, w |-> c.w, h |-> c.h] \in Box
      BY <1>1 DEF CommandType, Box
    <2> QED
      BY <2>1, <2>2 DEF Canvas
  <1>4. CASE rectOverlap(r, c) /\ c.type # "clip"
    <2> DEFINE hit(p) == /\ Covers(c, p)
                         /\ c.type \in {"bckg", "rect"} => Inside(p, r)
                         /\ c.type # "bckg" => Inside(p, at.clip)
               new == [p \in Pixels |-> IF hit(p) THEN c.color ELSE at.back[p]]
    <2>1. DrawCommand(r, at, c) = [at EXCEPT !.back = new]
      BY <1>4 DEF DrawCommand
    <2>2. c.color \in Ink /\ at.back \in [Pixels -> Ink]
      BY <1>1, <1>4 DEF Shaped, Canvas
    <2> HIDE DEF hit
    <2>3. new \in [Pixels -> Ink]
      BY <2>2
    <2> HIDE DEF new
    <2> QED
      BY <2>1, <2>3 DEF Canvas
  <1> QED
    BY <1>2, <1>3, <1>4

(* One command, at a point of the region.                                  *)
LEMMA DrawStep ==
  ASSUME NEW at \in Canvas, NEW c \in Drawables, NEW r, IsBox(r),
         NEW p \in Pixels, Inside(p, r)
  PROVE  /\ ~Covers(c, p) => DrawCommand(r, at, c).back[p] = at.back[p]
         /\ Covers(c, p) /\ (c.type = "bckg" \/ Inside(p, at.clip))
              => DrawCommand(r, at, c).back[p] = c.color
         /\ c.type # "clip" => DrawCommand(r, at, c).clip = at.clip
         /\ c.type = "clip" /\ Inside(p, c) => Inside(p, DrawCommand(r, at, c).clip)
  <1>0. p \in Points
    BY PixelIs
  <1>1. at = [back |-> at.back, clip |-> at.clip]
    BY DEF Canvas
  <1>2. CASE ~rectOverlap(r, c)
    <2>1. DrawCommand(r, at, c) = at
      BY <1>2 DEF DrawCommand
    <2>2. ~Inside(p, c)
      BY <1>0, <1>2, BoxesAre, SharedOverlap
    <2>3. ~Covers(c, p)
      BY <1>0, <2>2, CoverInside
    <2> QED
      BY <2>1, <2>2, <2>3
  <1>3. CASE rectOverlap(r, c) /\ c.type = "clip"
    <2> DEFINE new == [x |-> c.x, y |-> c.y, w |-> c.w, h |-> c.h]
    <2>1. DrawCommand(r, at, c) = [at EXCEPT !.clip = new]
      BY <1>3 DEF DrawCommand
    <2>2. Inside(p, c) => Inside(p, new)
      BY DEF Inside
    <2> HIDE DEF new
    <2>3. DrawCommand(r, at, c).back = at.back /\ DrawCommand(r, at, c).clip = new
      BY <1>1, <2>1
    <2>4. ~Covers(c, p)
      BY <1>0, <1>3, CoverInside
    <2> QED
      BY <1>3, <2>2, <2>3, <2>4
  <1>4. CASE rectOverlap(r, c) /\ c.type # "clip"
    <2> DEFINE hit(q) == /\ Covers(c, q)
                         /\ c.type \in {"bckg", "rect"} => Inside(q, r)
                         /\ c.type # "bckg" => Inside(q, at.clip)
               new == [q \in Pixels |-> IF hit(q) THEN c.color ELSE at.back[q]]
    <2>1. DrawCommand(r, at, c) = [at EXCEPT !.back = new]
      BY <1>4 DEF DrawCommand
    <2>2. /\ ~Covers(c, p) => ~hit(p)
          /\ Covers(c, p) /\ (c.type = "bckg" \/ Inside(p, at.clip)) => hit(p)
      OBVIOUS
    <2> HIDE DEF hit
    <2>3. new[p] = IF hit(p) THEN c.color ELSE at.back[p]
      OBVIOUS
    <2> HIDE DEF new
    <2>4. DrawCommand(r, at, c).back = new /\ DrawCommand(r, at, c).clip = at.clip
      BY <1>1, <2>1
    <2> QED
      BY <1>4, <2>2, <2>3, <2>4
  <1> QED
    BY <1>2, <1>3, <1>4

-----------------------------------------------------------------------------
(* The painting                                                            *)

LEMMA MaxIs ==
  ASSUME NEW S, S \subseteq Int, NEW n \in S, \A m \in S : m <= n
  PROVE  Max(S) = n
  <1>1. \E m \in S : \A k \in S : m >= k
    OBVIOUS
  <1>2. Max(S) \in S /\ \A k \in S : Max(S) >= k
    BY <1>1, Zenon DEF Max
  <1>3. Max(S) \in Int /\ n \in Int /\ Max(S) >= n /\ Max(S) <= n
    BY <1>2
  <1> QED
    BY <1>3

LEMMA ClipIs ==
  ASSUME NEW cmds \in Seq(Drawables), NEW k \in 1 .. Len(cmds)
  PROVE  ClipAt(cmds, k + 1) = IF cmds[k].type = "clip" THEN cmds[k] ELSE ClipAt(cmds, k)
  <1> DEFINE before(j) == {i \in 1 .. j - 1 : cmds[i].type = "clip"}
  <1>1. \A j : ClipAt(cmds, j) = IF before(j) = {} THEN Screen ELSE cmds[Max(before(j))]
    BY DEF ClipAt
  <1>2. CASE cmds[k].type = "clip"
    <2>1. k \in before(k + 1) /\ \A m \in before(k + 1) : m <= k
      BY <1>2
    <2>2. before(k + 1) \subseteq Int /\ before(k + 1) # {}
      BY <2>1
    <2> HIDE DEF before
    <2>3. Max(before(k + 1)) = k
      BY <2>1, <2>2, MaxIs
    <2> QED
      BY <1>1, <1>2, <2>2, <2>3
  <1>3. CASE cmds[k].type # "clip"
    <2>1. before(k + 1) = before(k)
      BY <1>3
    <2> HIDE DEF before
    <2> QED
      BY <1>1, <1>3, <2>1
  <1> QED
    BY <1>2, <1>3

(* The j-th command is the last of the first n that covers the point.      *)
LastOn(cmds, n, p, j) ==
  /\ j \in 1 .. n /\ Covers(cmds[j], p)
  /\ \A i \in j + 1 .. n : ~Covers(cmds[i], p)

LEMMA LastExists ==
  ASSUME NEW cmds, NEW n \in Nat, NEW p, NEW k \in 1 .. n, Covers(cmds[k], p)
  PROVE  \E j : LastOn(cmds, n, p, j)
  <1> DEFINE T == {d \in Nat : n - d \in 1 .. n /\ Covers(cmds[n - d], p)}
  <1>1. n - k \in T
    <2>1. n - (n - k) = k /\ n - k \in Nat
      OBVIOUS
    <2> QED
      BY <2>1
  <1>2. PICK d \in T : \A m \in T : d <= m
    <2>1. T \subseteq Nat /\ T # {}
      BY <1>1
    <2> HIDE DEF T
    <2> QED
      BY <2>1, MinimalNat
  <1>3. ASSUME NEW i \in n - d + 1 .. n PROVE ~Covers(cmds[i], p)
    <2>1. n - i \in Nat /\ n - (n - i) = i /\ n - i < d /\ i \in 1 .. n /\ d \in Nat
      BY <1>2
    <2>2. n - i \notin T
      <3> HIDE DEF T
      <3> QED
        BY <1>2, <2>1
    <2> QED
      BY <2>1, <2>2
  <1>4. n - d \in 1 .. n /\ Covers(cmds[n - d], p)
    BY <1>2
  <1> QED
    BY <1>3, <1>4 DEF LastOn

LEMMA PaintingIs ==
  ASSUME NEW cmds \in Seq(Drawables), NEW p \in Pixels, p \notin Doubtful(cmds),
         NEW j, LastOn(cmds, Len(cmds), p, j)
  PROVE  Painting(cmds)[p] = cmds[j].color
  <1> DEFINE S == {k \in DOMAIN cmds : Covers(cmds[k], p) /\ ~Clipped(cmds, k, p)}
  <1>0. DOMAIN cmds = 1 .. Len(cmds) /\ Len(cmds) \in Nat
    OBVIOUS
  <1>1. \A k \in DOMAIN cmds : Covers(cmds[k], p) => ~Clipped(cmds, k, p)
    BY DEF Doubtful
  <1>2. j \in DOMAIN cmds /\ Covers(cmds[j], p) /\ j \in 1 .. Len(cmds)
    BY <1>0 DEF LastOn
  <1>3. j \in S
    BY <1>1, <1>2
  <1>4. ASSUME NEW m \in S PROVE m <= j
    <2>1. m \in 1 .. Len(cmds) /\ Covers(cmds[m], p)
      BY <1>0
    <2>2. m \notin j + 1 .. Len(cmds)
      BY <2>1 DEF LastOn
    <2> QED
      BY <1>0, <1>2, <2>1, <2>2
  <1>5. S \subseteq Int
    BY <1>0
  <1>6. Painting(cmds)[p] = cmds[Max(S)].color
    BY DEF Painting
  <1> HIDE DEF S
  <1>7. Max(S) = j
    BY <1>3, <1>4, <1>5, MaxIs
  <1> QED
    BY <1>6, <1>7

-----------------------------------------------------------------------------
(* gfxRedrawRegion                                                         *)

(* The canvas after each command.                                          *)
DrawnOf(f, cmds, at, r) ==
  f = [k \in 0 .. Len(cmds) |-> IF k = 0 THEN [back |-> at.back, clip |-> Screen]
                                ELSE DrawCommand(r, f[k - 1], cmds[k])]

LEMMA DrawnExists ==
  ASSUME NEW cmds \in Seq(Drawables), NEW at, at.back \in [Pixels -> Ink], NEW r
  PROVE  \E f : f \in [0 .. Len(cmds) -> Canvas] /\ DrawnOf(f, cmds, at, r)
  <1> DEFINE n == Len(cmds)
             first == [back |-> at.back, clip |-> Screen]
             step == [k \in 1 .. n |-> [v \in Canvas |-> DrawCommand(r, v, cmds[k])]]
  <1>0. n \in Nat /\ \A k \in 1 .. n : cmds[k] \in Drawables
    OBVIOUS
  <1>1. \A k \in 1 .. n, v \in Canvas : DrawCommand(r, v, cmds[k]) \in Canvas
    BY <1>0, DrawType
  <1>2. first \in Canvas
    BY ScreenIs DEF Canvas
  <1>3. Recursion(Canvas, first, n, step)
    <2> HIDE DEF first, n
    <2> QED
      BY <1>0, <1>1, <1>2 DEF Recursion
  <1>4. PICK f : Solves(f, Canvas, first, n, step)
    <2> HIDE DEF n, first, step
    <2> QED
      BY <1>3, RecursionExists
  <1>5. f \in [0 .. n -> Canvas] /\ f[0] = first
    BY <1>4 DEF Solves
  <1>6. ASSUME NEW k \in 1 .. n PROVE f[k] = DrawCommand(r, f[k - 1], cmds[k])
    <2> HIDE DEF n, first
    <2>1. f[k] = step[k][f[k - 1]]
      BY <1>4 DEF Solves
    <2>2. f[k - 1] \in Canvas
      BY <1>0, <1>5
    <2> QED
      BY <2>1, <2>2
  <1>7. f = [k \in 0 .. n |-> IF k = 0 THEN first ELSE DrawCommand(r, f[k - 1], cmds[k])]
    <2> HIDE DEF n, first
    <2> QED
      BY <1>0, <1>5, <1>6
  <1> QED
    BY <1>5, <1>7 DEF DrawnOf

(* At a point of the region whose clips are not in doubt, the backbuffer   *)
(* holds what the last command that covers it has drawn.                   *)
LEMMA DrawnRight ==
  ASSUME NEW cmds \in Seq(Drawables), NEW at, NEW r, IsBox(r),
         NEW f \in [0 .. Len(cmds) -> Canvas], DrawnOf(f, cmds, at, r),
         NEW p \in Pixels, Inside(p, r), p \notin Doubtful(cmds),
         NEW k \in 0 .. Len(cmds)
  PROVE  /\ \A j : LastOn(cmds, k, p, j) => f[k].back[p] = cmds[j].color
         /\ Inside(p, ClipAt(cmds, k + 1)) => Inside(p, f[k].clip)
  <1> DEFINE Right(i) == /\ \A j : LastOn(cmds, i, p, j) => f[i].back[p] = cmds[j].color
                         /\ Inside(p, ClipAt(cmds, i + 1)) => Inside(p, f[i].clip)
             T == {i \in 0 .. Len(cmds) : ~Right(i)}
  <1>0. Len(cmds) \in Nat /\ DOMAIN cmds = 1 .. Len(cmds) /\ \A i \in 1 .. Len(cmds) : cmds[i] \in Drawables
    OBVIOUS
  <1>1. SUFFICES ASSUME T # {} PROVE FALSE
    <2>1. T = {} => Right(k)
      <3> HIDE DEF Right
      <3> QED
        OBVIOUS
    <2> HIDE DEF T
    <2> QED
      BY <1>1, <2>1
  <1>2. PICK m \in T : \A i \in T : m <= i
    <2>1. T \subseteq Nat
      <3> HIDE DEF Right
      <3> QED
        BY <1>0
    <2> HIDE DEF T
    <2> QED
      BY <1>1, <2>1, MinimalNat
  <1>3. m \in 0 .. Len(cmds) /\ ~Right(m)
    <2> HIDE DEF Right
    <2> QED
      BY <1>2
  <1>4. m # 0
    <2>1. f[0] = [back |-> at.back, clip |-> Screen]
      BY <1>0 DEF DrawnOf
    <2>2. ClipAt(cmds, 1) = Screen
      BY DEF ClipAt
    <2>3. \A j : ~LastOn(cmds, 0, p, j)
      BY DEF LastOn
    <2>4. Right(0)
      BY <2>1, <2>2, <2>3
    <2> HIDE DEF Right
    <2> QED
      BY <1>3, <2>4
  <1>5. m \in 1 .. Len(cmds) /\ m - 1 \in 0 .. Len(cmds) /\ m - 1 < m
    BY <1>0, <1>3, <1>4
  <1>6. Right(m - 1)
    <2> HIDE DEF Right
    <2> QED
      BY <1>2, <1>5
  <1> DEFINE c == cmds[m]
             was == f[m - 1]
  <1>7. f[m] = DrawCommand(r, was, c) /\ was \in Canvas /\ c \in Drawables
    <2>1. f[m] = DrawCommand(r, f[m - 1], cmds[m])
      <3>1. m \in 0 .. Len(cmds) /\ m # 0
        BY <1>5
      <3> QED
        BY <3>1, Zenon DEF DrawnOf
    <2>2. f[m - 1] \in Canvas /\ cmds[m] \in Drawables
      BY <1>0, <1>5
    <2> QED
      BY <2>1, <2>2
  <1>8. /\ ~Covers(c, p) => f[m].back[p] = was.back[p]
        /\ Covers(c, p) /\ (c.type = "bckg" \/ Inside(p, was.clip)) => f[m].back[p] = c.color
        /\ c.type # "clip" => f[m].clip = was.clip
        /\ c.type = "clip" /\ Inside(p, c) => Inside(p, f[m].clip)
    <2> HIDE DEF c, was
    <2> QED
      BY <1>7, DrawStep
  <1>9. ClipAt(cmds, m + 1) = IF c.type = "clip" THEN c ELSE ClipAt(cmds, m)
    BY <1>5, ClipIs
  <1>10. Inside(p, ClipAt(cmds, m)) => Inside(p, was.clip)
    <2>1. (m - 1) + 1 = m
      BY <1>5
    <2> QED
      BY <1>6, <2>1
  <1>11. Inside(p, ClipAt(cmds, m + 1)) => Inside(p, f[m].clip)
    BY <1>8, <1>9, <1>10
  <1>12. ASSUME NEW j, LastOn(cmds, m, p, j) PROVE f[m].back[p] = cmds[j].color
    <2>1. CASE j = m
      <3>1. Covers(c, p)
        BY <1>12, <2>1 DEF LastOn
      <3>2. ~Clipped(cmds, m, p)
        BY <1>0, <1>5, <3>1 DEF Doubtful
      <3>3. c.type = "bckg" \/ Inside(p, ClipAt(cmds, m))
        BY <3>2 DEF Clipped
      <3> QED
        BY <1>8, <1>10, <2>1, <3>1, <3>3
    <2>2. CASE j # m
      <3>1. m \in j + 1 .. m /\ j \in 1 .. m - 1
        BY <1>5, <1>12, <2>2 DEF LastOn
      <3>2. ~Covers(c, p)
        BY <1>12, <3>1 DEF LastOn
      <3>3. LastOn(cmds, m - 1, p, j)
        BY <1>5, <1>12, <3>1 DEF LastOn
      <3> QED
        BY <1>6, <1>8, <3>2, <3>3
    <2> QED
      BY <2>1, <2>2
  <1>13. Right(m)
    BY <1>11, <1>12
  <1> HIDE DEF Right
  <1> QED
    BY <1>3, <1>13

Picture == [back : [Pixels -> Ink], pixels : [Pixels -> Ink]]

LEMMA RedrawnIs ==
  ASSUME NEW cmds \in Seq(Drawables), NEW at \in Picture, NEW r, IsBox(r)
  PROVE  /\ Redrawn(cmds, at, r) \in Picture
         /\ \A p \in Pixels : ~Inside(p, r) => Redrawn(cmds, at, r).pixels[p] = at.pixels[p]
         /\ \A p \in Pixels : Inside(p, r) /\ p \notin Doubtful(cmds) =>
              \A j : LastOn(cmds, Len(cmds), p, j)
                       => Redrawn(cmds, at, r).pixels[p] = cmds[j].color
  <1>0. at.back \in [Pixels -> Ink] /\ at.pixels \in [Pixels -> Ink] /\ Len(cmds) \in Nat
    BY DEF Picture
  <1> DEFINE drawn == CHOOSE f : DrawnOf(f, cmds, at, r)
             done == drawn[Len(cmds)]
             px == [p \in Pixels |-> IF Inside(p, r) THEN done.back[p] ELSE at.pixels[p]]
  <1>1. Redrawn(cmds, at, r) = [back |-> done.back, pixels |-> px]
    BY DEF Redrawn, DrawnOf
  <1>2. drawn \in [0 .. Len(cmds) -> Canvas] /\ DrawnOf(drawn, cmds, at, r)
    <2>1. PICK f : f \in [0 .. Len(cmds) -> Canvas] /\ DrawnOf(f, cmds, at, r)
      BY <1>0, DrawnExists
    <2>2. DrawnOf(drawn, cmds, at, r)
      BY <2>1
    <2>3. drawn = f
      <3> HIDE DEF drawn
      <3>1. drawn = [k \in 0 .. Len(cmds) |-> drawn[k]] /\ f = [k \in 0 .. Len(cmds) |-> f[k]]
            /\ DOMAIN drawn = 0 .. Len(cmds) /\ DOMAIN f = 0 .. Len(cmds)
        BY <2>1, <2>2 DEF DrawnOf
      <3>2. drawn[0] = f[0]
        BY <1>0, <2>1, <2>2 DEF DrawnOf
      <3>3. ASSUME NEW k \in 1 .. Len(cmds), drawn[k - 1] = f[k - 1] PROVE drawn[k] = f[k]
        <4>1. k \in 0 .. Len(cmds) /\ k # 0
          BY <1>0
        <4>2. drawn[k] = DrawCommand(r, drawn[k - 1], cmds[k])
          BY <2>2, <4>1, Zenon DEF DrawnOf
        <4>3. f[k] = DrawCommand(r, f[k - 1], cmds[k])
          BY <2>1, <4>1, Zenon DEF DrawnOf
        <4> QED
          BY <3>3, <4>2, <4>3
      <3> QED
        BY <1>0, <3>1, <3>2, <3>3, RecursionUnique
    <2> HIDE DEF drawn
    <2> QED
      BY <2>1, <2>2, <2>3
  <1> HIDE DEF drawn
  <1>3. done \in Canvas
    BY <1>0, <1>2
  <1>4. done.back \in [Pixels -> Ink]
    BY <1>3 DEF Canvas
  <1>5. \A p \in Pixels : Inside(p, r) /\ p \notin Doubtful(cmds) =>
          \A j : LastOn(cmds, Len(cmds), p, j) => done.back[p] = cmds[j].color
    <2>1. Len(cmds) \in 0 .. Len(cmds)
      BY <1>0
    <2> QED
      BY <1>2, <2>1, DrawnRight
  <1> HIDE DEF done
  <1>6. px \in [Pixels -> Ink]
    BY <1>0, <1>4
  <1>7. \A p \in Pixels : px[p] = IF Inside(p, r) THEN done.back[p] ELSE at.pixels[p]
    OBVIOUS
  <1> HIDE DEF px
  <1>8. Redrawn(cmds, at, r).pixels = px
    BY <1>1
  <1>9. Redrawn(cmds, at, r) \in Picture
    BY <1>1, <1>4, <1>6 DEF Picture
  <1> QED
    BY <1>5, <1>7, <1>8, <1>9

-----------------------------------------------------------------------------
(* Hashes                                                                  *)

Slots(cmds) == {<<cmds[k], pad[k]>> : k \in 1 .. Len(cmds)}

(* Hashes over slots in X that begin with the seed.                        *)
HashType(X, seed) == {h \in Seq(X) : Len(h) >= 1 /\ h[1] = seed}

HashesOf(f, cmds, cell, seed) ==
  f = [k \in 0 .. Len(cmds) |->
         IF k = 0 THEN <<seed>>
         ELSE IF Touches(cmds[k], cell) THEN Append(f[k - 1], <<cmds[k], pad[k]>>)
         ELSE f[k - 1]]

LEMMA HashTypes ==
  ASSUME NEW X, NEW seed \in X
  PROVE  /\ <<seed>> \in HashType(X, seed)
         /\ \A h \in HashType(X, seed), e \in X : Append(h, e) \in HashType(X, seed)
  <1>1. <<seed>> \in Seq(X) /\ Len(<<seed>>) = 1 /\ <<seed>>[1] = seed
    OBVIOUS
  <1>2. ASSUME NEW h \in HashType(X, seed), NEW e \in X
        PROVE  Append(h, e) \in HashType(X, seed)
    <2>1. h \in Seq(X) /\ Len(h) \in Nat /\ Len(h) >= 1 /\ h[1] = seed
      BY DEF HashType
    <2>2. Append(h, e) \in Seq(X) /\ Len(Append(h, e)) = Len(h) + 1
          /\ \A i \in 1 .. Len(h) : Append(h, e)[i] = h[i]
      BY <2>1, AppendProperties
    <2>3. 1 \in 1 .. Len(h) /\ Len(h) + 1 >= 1
      BY <2>1
    <2> QED
      BY <2>1, <2>2, <2>3 DEF HashType
  <1>3. <<seed>> \in HashType(X, seed)
    <2>1. 1 >= 1
      OBVIOUS
    <2> QED
      BY <1>1, <2>1, Zenon DEF HashType
  <1> QED
    BY <1>2, <1>3

LEMMA HashIs ==
  ASSUME NEW cmds \in Seq(Drawables), NEW cell, NEW seed, NEW X, seed \in X, Slots(cmds) \subseteq X
  PROVE  \E f : /\ f \in [0 .. Len(cmds) -> HashType(X, seed)]
                /\ HashesOf(f, cmds, cell, seed)
                /\ HashOf(cmds, cell, <<seed>>) = f[Len(cmds)]
  <1> DEFINE n == Len(cmds)
             V == HashType(X, seed)
             first == <<seed>>
             follow(k, v) == IF Touches(cmds[k], cell) THEN Append(v, <<cmds[k], pad[k]>>) ELSE v
             step == [k \in 1 .. n |-> [v \in V |-> follow(k, v)]]
             hash == CHOOSE f : HashesOf(f, cmds, cell, seed)
  <1>0. n \in Nat /\ \A k \in 1 .. n : <<cmds[k], pad[k]>> \in X
    BY DEF Slots
  <1>1. \A k \in 1 .. n, v \in V : follow(k, v) \in V
    BY <1>0, HashTypes, Zenon
  <1>2. first \in V
    BY HashTypes, Zenon
  <1> HIDE DEF V, follow, first
  <1>3. Recursion(V, first, n, step)
    <2> HIDE DEF n
    <2> QED
      BY <1>0, <1>1, <1>2 DEF Recursion
  <1>4. PICK f : Solves(f, V, first, n, step)
    <2> HIDE DEF n, step
    <2> QED
      BY <1>3, RecursionExists
  <1>5. f \in [0 .. n -> V] /\ f[0] = first
    BY <1>4 DEF Solves
  <1>6. ASSUME NEW k \in 1 .. n PROVE f[k] = follow(k, f[k - 1])
    <2> HIDE DEF n
    <2>1. f[k] = step[k][f[k - 1]]
      BY <1>4 DEF Solves
    <2>2. f[k - 1] \in V
      BY <1>0, <1>5
    <2> QED
      BY <2>1, <2>2
  <1>7. f = [k \in 0 .. n |-> IF k = 0 THEN first ELSE follow(k, f[k - 1])]
    <2> HIDE DEF n
    <2> QED
      BY <1>0, <1>5, <1>6
  <1>8. HashesOf(f, cmds, cell, seed)
    BY <1>7 DEF HashesOf, follow, first
  <1>9. HashesOf(hash, cmds, cell, seed)
    BY <1>8
  <1>10. HashOf(cmds, cell, <<seed>>) = hash[Len(cmds)]
    BY DEF HashOf, HashesOf
  <1> HIDE DEF hash
  <1>11. hash = f
    <2>1. hash = [k \in 0 .. n |-> hash[k]] /\ f = [k \in 0 .. n |-> f[k]]
          /\ DOMAIN hash = 0 .. n /\ DOMAIN f = 0 .. n
      BY <1>8, <1>9 DEF HashesOf
    <2>2. hash[0] = f[0]
      BY <1>0, <1>8, <1>9 DEF HashesOf
    <2>3. ASSUME NEW k \in 1 .. n, hash[k - 1] = f[k - 1] PROVE hash[k] = f[k]
      <3>1. k \in 0 .. n /\ k # 0
        BY <1>0
      <3>2. hash[k] = follow(k, hash[k - 1])
        BY <1>9, <3>1, Zenon DEF HashesOf, follow
      <3> QED
        BY <1>6, <2>3, <3>2
    <2> HIDE DEF n
    <2> QED
      BY <1>0, <2>1, <2>2, <2>3, RecursionUnique
  <1> QED
    BY <1>5, <1>8, <1>10, <1>11 DEF V

(* The first thing in a hash is its seed.                                  *)
LEMMA HashBegins ==
  ASSUME NEW cmds \in Seq(Drawables), NEW cell, NEW seed
  PROVE  HashOf(cmds, cell, <<seed>>)[1] = seed
  <1> DEFINE X == {seed} \cup Slots(cmds)
  <1>1. PICK f : /\ f \in [0 .. Len(cmds) -> HashType(X, seed)]
                 /\ HashesOf(f, cmds, cell, seed)
                 /\ HashOf(cmds, cell, <<seed>>) = f[Len(cmds)]
    <2>1. seed \in X /\ Slots(cmds) \subseteq X
      OBVIOUS
    <2> HIDE DEF X
    <2> QED
      BY <2>1, HashIs
  <1>2. f[Len(cmds)] \in HashType(X, seed)
    <2>1. Len(cmds) \in 0 .. Len(cmds)
      OBVIOUS
    <2> HIDE DEF X
    <2> QED
      BY <1>1, <2>1
  <1> QED
    BY <1>1, <1>2 DEF HashType

LEMMA AppendSame ==
  \A X, s, t, x, y :
    s \in Seq(X) /\ t \in Seq(X) /\ x \in X /\ y \in X /\ Append(s, x) = Append(t, y)
      => s = t /\ x = y
  BY AppendInjective

(* Two lists of commands with the same hash at a cell paint a point of it  *)
(* alike: what is covered last is covered by the same command.             *)
LEMMA SameHash ==
  ASSUME NEW a \in Seq(Drawables), NEW b \in Seq(Drawables), NEW cell, NEW seed,
         HashOf(a, cell, <<seed>>) = HashOf(b, cell, <<seed>>),
         NEW p, \A c \in Drawables : Covers(c, p) => Touches(c, cell),
         NEW j, LastOn(a, Len(a), p, j), NEW l, LastOn(b, Len(b), p, l)
  PROVE  a[j].color = b[l].color
  <1> DEFINE X == {seed} \cup Slots(a) \cup Slots(b)
  <1>0. /\ Len(a) \in Nat /\ \A k \in 1 .. Len(a) : a[k] \in Drawables
        /\ Len(b) \in Nat /\ \A k \in 1 .. Len(b) : b[k] \in Drawables
    OBVIOUS
  <1>1. seed \in X /\ Slots(a) \subseteq X /\ Slots(b) \subseteq X
    OBVIOUS
  <1> HIDE DEF X
  <1>2. PICK f : /\ f \in [0 .. Len(a) -> HashType(X, seed)]
                 /\ HashesOf(f, a, cell, seed)
                 /\ HashOf(a, cell, <<seed>>) = f[Len(a)]
    BY <1>1, HashIs
  <1>3. PICK g : /\ g \in [0 .. Len(b) -> HashType(X, seed)]
                 /\ HashesOf(g, b, cell, seed)
                 /\ HashOf(b, cell, <<seed>>) = g[Len(b)]
    BY <1>1, HashIs
  <1> DEFINE Alike(k, m) == \A i : LastOn(a, k, p, i) =>
                              \E h : LastOn(b, m, p, h) /\ a[i].color = b[h].color
             Bad(k, m) == f[k] = g[m] /\ ~Alike(k, m)
             T == {n \in Nat : \E k \in 0 .. Len(a), m \in 0 .. Len(b) : n = k + m /\ Bad(k, m)}
  <1>4. SUFFICES ASSUME T # {} PROVE FALSE
    <2>1. Len(a) \in 0 .. Len(a) /\ Len(b) \in 0 .. Len(b) /\ Len(a) + Len(b) \in Nat
      BY <1>0
    <2>2. T = {} => ~Bad(Len(a), Len(b))
      <3> HIDE DEF Bad
      <3> QED
        BY <2>1
    <2>3. T = {} => Alike(Len(a), Len(b))
      <3> HIDE DEF T, Alike
      <3> QED
        BY <1>2, <1>3, <2>2
    <2>4. T = {} => \E h : LastOn(b, Len(b), p, h) /\ a[j].color = b[h].color
      <3> HIDE DEF T
      <3> QED
        BY <2>3
    <2>5. ASSUME NEW h, LastOn(b, Len(b), p, h) PROVE h = l
      <3>1. h \in 1 .. Len(b) /\ l \in 1 .. Len(b) /\ Covers(b[h], p) /\ Covers(b[l], p)
            /\ h \notin l + 1 .. Len(b) /\ l \notin h + 1 .. Len(b)
        BY <2>5 DEF LastOn
      <3> QED
        BY <1>0, <3>1
    <2> HIDE DEF T
    <2> QED
      BY <1>4, <2>4, <2>5
  <1>5. PICK n \in T : \A o \in T : n <= o
    <2>1. T \subseteq Nat
      <3> HIDE DEF Bad
      <3> QED
        OBVIOUS
    <2> HIDE DEF T
    <2> QED
      BY <1>4, <2>1, MinimalNat
  <1>6. PICK k \in 0 .. Len(a), m \in 0 .. Len(b) : n = k + m /\ Bad(k, m)
    <2> HIDE DEF Bad
    <2> QED
      BY <1>5
  <1>7. ASSUME NEW k2 \in 0 .. Len(a), NEW m2 \in 0 .. Len(b), k2 + m2 < k + m, f[k2] = g[m2]
        PROVE  Alike(k2, m2)
    <2>1. k2 + m2 \notin T
      <3>1. k2 + m2 \in Nat /\ n \in Nat /\ k2 + m2 < n
        BY <1>0, <1>6, <1>7
      <3> HIDE DEF T
      <3> QED
        BY <1>5, <3>1
    <2>2. ~Bad(k2, m2)
      <3>1. k2 + m2 \in Nat
        BY <1>0
      <3> HIDE DEF Bad
      <3> QED
        BY <2>1, <3>1
    <2> HIDE DEF Alike
    <2> QED
      BY <1>7, <2>2
  <1>8. f[k] = g[m] /\ ~Alike(k, m)
    <2> HIDE DEF Alike
    <2> QED
      BY <1>6
  <1> HIDE DEF T, Bad
  <1>9. PICK i : LastOn(a, k, p, i) /\ ~\E h : LastOn(b, m, p, h) /\ a[i].color = b[h].color
    BY <1>8
  <1>10. i \in 1 .. k /\ k \in 1 .. Len(a) /\ Covers(a[i], p) /\ k - 1 \in 0 .. Len(a)
         /\ a[k] \in Drawables
    BY <1>0, <1>9 DEF LastOn
  <1>11. f[k] = IF Touches(a[k], cell) THEN Append(f[k - 1], <<a[k], pad[k]>>) ELSE f[k - 1]
    <2>1. k \in 0 .. Len(a) /\ k # 0
      BY <1>10
    <2> QED
      BY <1>2, <2>1, Zenon DEF HashesOf
  <1>12. CASE ~Touches(a[k], cell)
    <2>1. ~Covers(a[k], p) /\ f[k - 1] = g[m]
      BY <1>8, <1>10, <1>11, <1>12
    <2>2. i # k
      BY <1>10, <2>1
    <2>3. LastOn(a, k - 1, p, i)
      BY <1>9, <1>10, <2>2 DEF LastOn
    <2>4. Alike(k - 1, m)
      <3>1. k - 1 + m < k + m
        BY <1>0, <1>10
      <3> HIDE DEF Alike
      <3> QED
        BY <1>7, <1>10, <2>1, <3>1
    <2> QED
      BY <1>9, <2>3, <2>4
  <1>13. CASE Touches(a[k], cell)
    <2>1. f[k] = Append(f[k - 1], <<a[k], pad[k]>>) /\ f[k - 1] \in HashType(X, seed)
      BY <1>2, <1>10, <1>11, <1>13
    <2>2. m # 0
      <3>1. f[k - 1] \in Seq(X) /\ Len(f[k - 1]) >= 1
        BY <2>1 DEF HashType
      <3>2. Len(f[k]) # 1
        <4> DEFINE x == <<a[k], pad[k]>>
        <4>1. x \in X
          <5>1. x \in Slots(a)
            BY <1>10 DEF Slots
          <5> QED
            BY <1>1, <5>1
        <4> HIDE DEF x
        <4>2. Len(Append(f[k - 1], x)) = Len(f[k - 1]) + 1
          BY <3>1, <4>1, AppendProperties
        <4>3. Len(f[k - 1]) + 1 # 1
          <5>1. Len(f[k - 1]) \in Nat
            BY <3>1
          <5> QED
            BY <3>1, <5>1
        <4>4. f[k] = Append(f[k - 1], x)
          BY <2>1 DEF x
        <4> QED
          BY <4>2, <4>3, <4>4, Zenon
      <3>3. g[0] = <<seed>>
        BY <1>0, <1>3 DEF HashesOf
      <3>4. Len(<<seed>>) = 1
        OBVIOUS
      <3>5. ASSUME m = 0 PROVE Len(f[k]) = 1
        BY <1>8, <3>3, <3>4, <3>5, Zenon
      <3> QED
        BY <3>2, <3>5, Zenon
    <2>3. m \in 1 .. Len(b) /\ m - 1 \in 0 .. Len(b) /\ b[m] \in Drawables
      BY <1>0, <2>2
    <2>4. g[m] = IF Touches(b[m], cell) THEN Append(g[m - 1], <<b[m], pad[m]>>) ELSE g[m - 1]
      <3>1. m \in 0 .. Len(b) /\ m # 0
        BY <2>3
      <3> QED
        BY <1>3, <3>1, Zenon DEF HashesOf
    <2>5. CASE ~Touches(b[m], cell)
      <3>1. ~Covers(b[m], p) /\ f[k] = g[m - 1]
        BY <1>8, <2>3, <2>4, <2>5
      <3>2. Alike(k, m - 1)
        <4>1. k + (m - 1) < k + m
          BY <1>0, <1>10, <2>3
        <4> HIDE DEF Alike
        <4> QED
          BY <1>7, <2>3, <3>1, <4>1
      <3>3. PICK h : LastOn(b, m - 1, p, h) /\ a[i].color = b[h].color
        BY <1>9, <3>2
      <3>4. LastOn(b, m, p, h)
        <4>1. h \in 1 .. m - 1 /\ Covers(b[h], p) /\ \A o \in h + 1 .. m - 1 : ~Covers(b[o], p)
          BY <3>3 DEF LastOn
        <4>2. h \in 1 .. m
          BY <2>3, <4>1
        <4>3. \A o \in h + 1 .. m : o = m \/ o \in h + 1 .. m - 1
          BY <2>3, <4>1
        <4>4. \A o \in h + 1 .. m : ~Covers(b[o], p)
          BY <3>1, <4>1, <4>3, Zenon
        <4> QED
          BY <4>1, <4>2, <4>4 DEF LastOn
      <3> QED
        BY <1>9, <3>3, <3>4
    <2>6. CASE Touches(b[m], cell)
      <3>1. Append(f[k - 1], <<a[k], pad[k]>>) = Append(g[m - 1], <<b[m], pad[m]>>)
        BY <1>8, <2>1, <2>4, <2>6
      <3>2. f[k - 1] \in Seq(X) /\ g[m - 1] \in Seq(X)
        BY <1>3, <2>1, <2>3 DEF HashType
      <3>3. <<a[k], pad[k]>> \in X /\ <<b[m], pad[m]>> \in X
        <4>1. <<a[k], pad[k]>> \in Slots(a) /\ <<b[m], pad[m]>> \in Slots(b)
          BY <1>10, <2>3 DEF Slots
        <4> QED
          BY <1>1, <4>1
      <3>4. f[k - 1] = g[m - 1] /\ <<a[k], pad[k]>> = <<b[m], pad[m]>>
        <4> DEFINE x == <<a[k], pad[k]>>
                   y == <<b[m], pad[m]>>
                   s == f[k - 1]
                   t == g[m - 1]
        <4>1. x \in X /\ y \in X /\ s \in Seq(X) /\ t \in Seq(X)
          BY <3>2, <3>3
        <4>2. Append(s, x) = Append(t, y)
          BY <3>1, Zenon
        <4> HIDE DEF x, y, s, t
        <4>3. s = t /\ x = y
          BY <4>1, <4>2, AppendSame
        <4> QED
          BY <4>3 DEF x, y, s, t
      <3>5. a[k] = b[m]
        BY <3>4
      <3>6. CASE i = k
        <4>1. LastOn(b, m, p, m)
          BY <1>10, <2>3, <3>5, <3>6 DEF LastOn
        <4> QED
          BY <1>9, <3>5, <3>6, <4>1
      <3>7. CASE i # k
        <4>1. LastOn(a, k - 1, p, i) /\ ~Covers(a[k], p)
          BY <1>9, <1>10, <3>7 DEF LastOn
        <4>2. Alike(k - 1, m - 1)
          <5>1. (k - 1) + (m - 1) < k + m
            BY <1>10, <2>3
          <5> HIDE DEF Alike
          <5> QED
            BY <1>7, <1>10, <2>3, <3>4, <5>1
        <4>3. PICK h : LastOn(b, m - 1, p, h) /\ a[i].color = b[h].color
          BY <4>1, <4>2
        <4>4. LastOn(b, m, p, h)
          <5>1. h \in 1 .. m - 1 /\ Covers(b[h], p) /\ \A o \in h + 1 .. m - 1 : ~Covers(b[o], p)
            BY <4>3 DEF LastOn
          <5>2. h \in 1 .. m
            BY <2>3, <5>1
          <5>3. \A o \in h + 1 .. m : o = m \/ o \in h + 1 .. m - 1
            BY <2>3, <5>1
          <5>4. \A o \in h + 1 .. m : ~Covers(b[o], p)
            BY <3>5, <4>1, <5>1, <5>3, Zenon
          <5> QED
            BY <5>1, <5>2, <5>4 DEF LastOn
        <4> QED
          BY <1>9, <4>3, <4>4
      <3> QED
        BY <3>6, <3>7
    <2> QED
      BY <2>5, <2>6
  <1> QED
    BY <1>12, <1>13

-----------------------------------------------------------------------------
(* Cells                                                                   *)

(* Division by a size of the grid.                                         *)
LEMMA Division ==
  ASSUME NEW a \in Nat, NEW b \in Nat \ {0}
  PROVE  a \div b \in Nat /\ (a \div b) * b <= a /\ a < (a \div b) * b + b
  OBVIOUS

LEMMA Multiples ==
  ASSUME NEW a \in Int, NEW b \in Int, NEW c \in Nat \ {0}
  PROVE  /\ a <= b => a * c <= b * c
         /\ a * c < b * c => a < b
         /\ a * c \in Int /\ (a + 1) * c = a * c + c
  <1>1. /\ a <= b => a * c <= b * c
        /\ b <= a => b * c <= a * c
        /\ a * c \in Int /\ (a + 1) * c = a * c + c
    OBVIOUS
  <1>2. a * c < b * c => a < b
    <2>1. a * c \in Int /\ b * c \in Int
      OBVIOUS
    <2> QED
      BY <1>1, <2>1
  <1> QED
    BY <1>1, <1>2

(* The multiple at or below a number, and no other, is its quotient.       *)
LEMMA QuotientIs ==
  ASSUME NEW a \in Nat, NEW b \in Nat \ {0}, NEW q \in Int, q * b <= a, a < q * b + b
  PROVE  a \div b = q
  <1> DEFINE d == a \div b
  <1>1. d \in Nat /\ d * b <= a /\ a < d * b + b
    BY Division
  <1> HIDE DEF d
  <1>2. d * b \in Int /\ q * b \in Int /\ (d + 1) * b = d * b + b /\ (q + 1) * b = q * b + b
    BY <1>1, Multiples
  <1>3. d * b < (q + 1) * b /\ q * b < (d + 1) * b
    BY <1>1, <1>2
  <1>4. d < q + 1
    <2>1. q + 1 \in Int /\ d \in Int
      BY <1>1
    <2> QED
      BY <1>3, <2>1, Multiples
  <1>5. q < d + 1
    <2>1. d + 1 \in Int
      BY <1>1
    <2> QED
      BY <1>3, <2>1, Multiples
  <1>6. d = q
    BY <1>1, <1>4, <1>5
  <1> QED
    BY <1>6 DEF d

LEMMA QuotientBelow ==
  ASSUME NEW a \in Nat, NEW b \in Nat \ {0}, NEW n \in Nat, a < n * b
  PROVE  a \div b \in 0 .. n - 1
  <1> DEFINE d == a \div b
  <1>1. d \in Nat /\ d * b <= a
    BY Division
  <1> HIDE DEF d
  <1>2. d * b \in Int /\ n * b \in Int
    BY <1>1
  <1>3. d * b < n * b
    BY <1>1, <1>2
  <1>4. d < n
    BY <1>1, <1>3, Multiples
  <1>5. d \in 0 .. n - 1
    BY <1>1, <1>4
  <1> QED
    BY <1>5 DEF d

LEMMA QuotientGrows ==
  ASSUME NEW a \in Nat, NEW c \in Nat, NEW b \in Nat \ {0}, a <= c
  PROVE  a \div b <= c \div b
  <1> DEFINE d == a \div b
             e == c \div b
  <1>1. d \in Nat /\ d * b <= a /\ e \in Nat /\ c < e * b + b
    BY Division
  <1> HIDE DEF d, e
  <1>2. d * b \in Int /\ e * b \in Int /\ (e + 1) * b = e * b + b /\ e + 1 \in Int
    BY <1>1, Multiples
  <1>3. d * b < (e + 1) * b
    BY <1>1, <1>2
  <1>4. d < e + 1
    BY <1>1, <1>2, <1>3, Multiples
  <1>5. d <= e
    BY <1>1, <1>4
  <1> QED
    BY <1>5 DEF d, e

LEMMA CellIs ==
  ASSUME NEW p \in Pixels
  PROVE  /\ CellOf(p) \in Cells
         /\ CellOf(p)[1] = p[1] \div CellSize /\ CellOf(p)[2] = p[2] \div CellSize
         /\ CellOf(p)[1] * CellSize <= p[1] /\ p[1] < CellOf(p)[1] * CellSize + CellSize
         /\ CellOf(p)[2] * CellSize <= p[2] /\ p[2] < CellOf(p)[2] * CellSize + CellSize
  <1>1. p[1] \in Nat /\ p[2] \in Nat /\ p[1] < CellsX * CellSize /\ p[2] < CellsY * CellSize
    BY PixelIs
  <1>2. p[1] \div CellSize \in 0 .. CellsX - 1 /\ p[2] \div CellSize \in 0 .. CellsY - 1
    BY <1>1, Grid, QuotientBelow
  <1>3. CellOf(p) = <<p[1] \div CellSize, p[2] \div CellSize>>
    BY DEF CellOf
  <1>4. /\ (p[1] \div CellSize) * CellSize <= p[1]
        /\ p[1] < (p[1] \div CellSize) * CellSize + CellSize
        /\ (p[2] \div CellSize) * CellSize <= p[2]
        /\ p[2] < (p[2] \div CellSize) * CellSize + CellSize
    BY <1>1, Grid, Division
  <1>5. CellOf(p)[1] = p[1] \div CellSize /\ CellOf(p)[2] = p[2] \div CellSize
    BY <1>3
  <1>6. CellOf(p) \in Cells
    BY <1>2, <1>3 DEF Cells
  <1> QED
    BY <1>4, <1>5, <1>6

(* The cells a command is hashed into are between those of its corners.    *)
LEMMA CellBetween ==
  ASSUME NEW v \in Int, NEW u \in Int, NEW x \in Nat, NEW n \in Nat \ {0},
         v <= x, x <= u, x \div CellSize \in 0 .. n - 1
  PROVE  x \div CellSize \in CellAt(v, n) .. CellAt(u, n)
  <1> DEFINE q == x \div CellSize
  <1>0. q \in Nat /\ q <= n - 1
    OBVIOUS
  <1>1. CellAt(v, n) \in Int /\ CellAt(v, n) <= q
    <2>1. CASE v < 0
      BY <1>0, <2>1 DEF CellAt
    <2>2. CASE v >= 0
      <3>1. v \in Nat /\ v \div CellSize \in Nat /\ v \div CellSize <= q
        BY <2>2, Grid, Division, QuotientGrows
      <3>2. CellAt(v, n) = Least(v \div CellSize, n - 1)
        BY <2>2 DEF CellAt
      <3> HIDE DEF q
      <3> QED
        BY <1>0, <3>1, <3>2 DEF Least
    <2> QED
      BY <2>1, <2>2
  <1>2. CellAt(u, n) \in Int /\ q <= CellAt(u, n)
    <2>1. u \in Nat /\ u \div CellSize \in Nat /\ q <= u \div CellSize
      BY Grid, Division, QuotientGrows
    <2>2. CellAt(u, n) = Least(u \div CellSize, n - 1)
      BY <2>1 DEF CellAt
    <2> HIDE DEF q
    <2> QED
      BY <1>0, <2>1, <2>2 DEF Least
  <1> HIDE DEF q
  <1>3. q \in CellAt(v, n) .. CellAt(u, n)
    BY <1>0, <1>1, <1>2
  <1> QED
    BY <1>3 DEF q

LEMMA CoverTouches ==
  ASSUME NEW c \in Drawables, NEW p \in Pixels, Covers(c, p)
  PROVE  Touches(c, CellOf(p))
  <1>1. Inside(p, c) /\ IsBox(c) /\ p[1] \in Nat /\ p[2] \in Nat
    BY PixelIs, CoverInside, BoxesAre
  <1>2. /\ c.x \in Int /\ c.x + c.w \in Int /\ c.y \in Int /\ c.y + c.h \in Int
        /\ c.x <= p[1] /\ p[1] <= c.x + c.w /\ c.y <= p[2] /\ p[2] <= c.y + c.h
    BY <1>1 DEF IsBox, Inside
  <1>3. /\ CellOf(p)[1] = p[1] \div CellSize /\ CellOf(p)[2] = p[2] \div CellSize
        /\ CellOf(p)[1] \in 0 .. CellsX - 1 /\ CellOf(p)[2] \in 0 .. CellsY - 1
    BY CellIs DEF Cells
  <1>4. CellOf(p)[1] \in CellAt(c.x, CellsX) .. CellAt(c.x + c.w, CellsX)
    <2>1. p[1] \div CellSize \in 0 .. CellsX - 1
      BY <1>3
    <2>2. p[1] \div CellSize \in CellAt(c.x, CellsX) .. CellAt(c.x + c.w, CellsX)
      BY <1>1, <1>2, <2>1, Grid, CellBetween
    <2> QED
      BY <1>3, <2>2, Zenon
  <1>5. CellOf(p)[2] \in CellAt(c.y, CellsY) .. CellAt(c.y + c.h, CellsY)
    <2>1. p[2] \div CellSize \in 0 .. CellsY - 1
      BY <1>3
    <2>2. p[2] \div CellSize \in CellAt(c.y, CellsY) .. CellAt(c.y + c.h, CellsY)
      BY <1>1, <1>2, <2>1, Grid, CellBetween
    <2> QED
      BY <1>3, <2>2, Zenon
  <1> QED
    BY <1>4, <1>5 DEF Touches

-----------------------------------------------------------------------------
(* Runs of changed cells                                                   *)

LongestFrom(dirty, s, n) ==
  /\ n \in 1 .. CellsX
  /\ \A x \in s[1] .. s[1] + n - 1 : <<x, s[2]>> \in dirty
  /\ <<s[1] + n, s[2]>> \notin dirty

LEMMA CellType ==
  /\ \A c \in Cells : c = <<c[1], c[2]>> /\ c[1] \in 0 .. CellsX - 1 /\ c[2] \in 0 .. CellsY - 1
  /\ \A x, y : <<x, y>> \in Cells <=> x \in 0 .. CellsX - 1 /\ y \in 0 .. CellsY - 1
  BY DEF Cells

LEMMA RunIs ==
  ASSUME NEW dirty, dirty \subseteq Cells, NEW s, RunStarts(dirty, s)
  PROVE  /\ IsBox(Run(dirty, s))
         /\ \E n : /\ LongestFrom(dirty, s, n)
                   /\ Run(dirty, s) = [x |-> s[1] * CellSize, y |-> s[2] * CellSize,
                                       w |-> n * CellSize, h |-> CellSize]
  <1>1. s \in dirty /\ s = <<s[1], s[2]>> /\ s[1] \in 0 .. CellsX - 1 /\ s[2] \in 0 .. CellsY - 1
    BY CellType DEF RunStarts
  <1> DEFINE T == {n \in Nat : n >= 1 /\ <<s[1] + n, s[2]>> \notin dirty}
             length == CHOOSE n \in 1 .. CellsX :
                         /\ \A x \in s[1] .. s[1] + n - 1 : <<x, s[2]>> \in dirty
                         /\ <<s[1] + n, s[2]>> \notin dirty
  <1>2. CellsX - s[1] \in T
    <2>1. s[1] + (CellsX - s[1]) = CellsX /\ CellsX - s[1] \in Nat /\ CellsX - s[1] >= 1
      BY <1>1, Grid
    <2>2. CellsX \notin 0 .. CellsX - 1
      BY Grid
    <2>3. <<CellsX, s[2]>> \notin dirty
      BY <2>2, CellType
    <2> QED
      BY <2>1, <2>3
  <1>3. PICK n \in T : \A m \in T : n <= m
    <2>1. T \subseteq Nat /\ T # {}
      BY <1>2
    <2> HIDE DEF T
    <2> QED
      BY <2>1, MinimalNat
  <1>4. n \in 1 .. CellsX
    <2>1. n \in Nat /\ n >= 1 /\ n <= CellsX - s[1]
      BY <1>2, <1>3
    <2> QED
      BY <1>1, <2>1, Grid
  <1>5. ASSUME NEW x \in s[1] .. s[1] + n - 1 PROVE <<x, s[2]>> \in dirty
    <2>1. CASE x = s[1]
      BY <1>1, <2>1, Zenon
    <2>2. CASE x # s[1]
      <3>1. x - s[1] \in Nat /\ x - s[1] >= 1 /\ x - s[1] < n /\ s[1] + (x - s[1]) = x /\ n \in Nat
        BY <1>1, <1>4, <2>2
      <3>2. x - s[1] \notin T
        <4> HIDE DEF T
        <4> QED
          BY <1>3, <3>1
      <3> QED
        BY <3>1, <3>2
    <2> QED
      BY <2>1, <2>2
  <1>6. <<s[1] + n, s[2]>> \notin dirty
    BY <1>3
  <1>7. LongestFrom(dirty, s, length)
    <2>1. \E k \in 1 .. CellsX : /\ \A x \in s[1] .. s[1] + k - 1 : <<x, s[2]>> \in dirty
                                 /\ <<s[1] + k, s[2]>> \notin dirty
      BY <1>4, <1>5, <1>6
    <2> QED
      BY <2>1, Zenon DEF LongestFrom
  <1>8. Run(dirty, s) = [x |-> s[1] * CellSize, y |-> s[2] * CellSize,
                         w |-> length * CellSize, h |-> CellSize]
    BY DEF Run
  <1> HIDE DEF length
  <1>9. length \in Int
    BY <1>7, Grid DEF LongestFrom
  <1>10. s[1] * CellSize \in Int /\ s[2] * CellSize \in Int /\ length * CellSize \in Int /\ CellSize \in Int
    BY <1>1, <1>9, Grid
  <1>11. IsBox(Run(dirty, s))
    BY <1>8, <1>10 DEF IsBox
  <1> QED
    BY <1>7, <1>8, <1>11

(* A run shows changed cells only.                                         *)
LEMMA RunChanged ==
  ASSUME NEW dirty, dirty \subseteq Cells, NEW s, RunStarts(dirty, s),
         NEW p \in Pixels, Inside(p, Run(dirty, s))
  PROVE  CellOf(p) \in dirty
  <1>1. PICK n : /\ LongestFrom(dirty, s, n)
                 /\ Run(dirty, s) = [x |-> s[1] * CellSize, y |-> s[2] * CellSize,
                                     w |-> n * CellSize, h |-> CellSize]
    BY RunIs
  <1>2. s[1] \in Nat /\ s[2] \in Nat /\ n \in Nat
    BY <1>1, Grid, CellType DEF RunStarts, LongestFrom
  <1>3. /\ s[1] * CellSize <= p[1] /\ p[1] < s[1] * CellSize + n * CellSize
        /\ s[2] * CellSize <= p[2] /\ p[2] < s[2] * CellSize + CellSize
    BY <1>1 DEF Inside
  <1>4. p[1] \in Nat /\ p[2] \in Nat
    BY PixelIs
  <1>5. p[2] \div CellSize = s[2]
    BY <1>2, <1>3, <1>4, Grid, QuotientIs
  <1>6. p[1] \div CellSize \in s[1] .. s[1] + n - 1
    <2> DEFINE d == p[1] \div CellSize
    <2>1. d \in Nat /\ d * CellSize <= p[1] /\ p[1] < d * CellSize + CellSize
      BY <1>4, Grid, Division
    <2> HIDE DEF d
    <2>2. s[1] * CellSize + n * CellSize = (s[1] + n) * CellSize
      BY <1>2, Grid
    <2>3. /\ d * CellSize \in Int /\ s[1] * CellSize \in Int /\ (s[1] + n) * CellSize \in Int
          /\ (d + 1) * CellSize = d * CellSize + CellSize
      BY <1>2, <2>1, Grid, Multiples
    <2>4. d * CellSize < (s[1] + n) * CellSize /\ s[1] * CellSize < (d + 1) * CellSize
      <3>1. d * CellSize < s[1] * CellSize + n * CellSize
        <4>1. s[1] * CellSize + n * CellSize \in Int
          BY <2>2, <2>3
        <4> QED
          BY <1>3, <1>4, <2>1, <2>3, <4>1
      <3>2. s[1] * CellSize < d * CellSize + CellSize
        BY <1>3, <1>4, <2>1, <2>3, Grid
      <3> QED
        BY <2>2, <2>3, <3>1, <3>2, Zenon
    <2>5. d < s[1] + n
      <3>1. s[1] + n \in Int /\ d \in Int
        BY <1>2, <2>1
      <3> QED
        BY <2>4, <3>1, Grid, Multiples
    <2>6. s[1] < d + 1
      <3>1. d + 1 \in Int /\ s[1] \in Int
        BY <1>2, <2>1
      <3> QED
        BY <2>4, <3>1, Grid, Multiples
    <2>7. d \in s[1] .. s[1] + n - 1
      BY <1>2, <2>1, <2>5, <2>6
    <2> QED
      BY <2>7 DEF d
  <1>7. CellOf(p) = <<p[1] \div CellSize, s[2]>>
    BY <1>5 DEF CellOf
  <1> QED
    BY <1>1, <1>6, <1>7 DEF LongestFrom

(* Every changed cell is in a run.                                         *)
LEMMA RunCovers ==
  ASSUME NEW dirty, dirty \subseteq Cells, NEW p \in Pixels, CellOf(p) \in dirty
  PROVE  \E s \in Cells : RunStarts(dirty, s) /\ Inside(p, Run(dirty, s))
  <1> DEFINE a == CellOf(p)[1]
             b == CellOf(p)[2]
             T == {d \in Nat : d <= a /\ <<a - d - 1, b>> \notin dirty}
  <1>1. CellOf(p) = <<a, b>> /\ a \in 0 .. CellsX - 1 /\ b \in 0 .. CellsY - 1
        /\ a \in Nat /\ b \in Nat
    BY CellIs, CellType
  <1>2. /\ a * CellSize <= p[1] /\ p[1] < a * CellSize + CellSize
        /\ b * CellSize <= p[2] /\ p[2] < b * CellSize + CellSize
        /\ p[1] \in Nat /\ p[2] \in Nat
    BY CellIs, PixelIs
  <1>3. <<a, b>> \in dirty
    BY <1>1
  <1> HIDE DEF a, b
  <1>4. a \in T
    <2>1. (a - a) - 1 \notin 0 .. CellsX - 1 /\ a <= a
      BY <1>1
    <2>2. <<(a - a) - 1, b>> \notin dirty
      BY <2>1, CellType
    <2> QED
      BY <1>1, <2>1, <2>2
  <1>5. PICK d \in T : \A e \in T : d <= e
    <2>1. T \subseteq Nat /\ T # {}
      BY <1>4
    <2> HIDE DEF T
    <2> QED
      BY <2>1, MinimalNat
  <1>6. d \in Nat /\ d <= a /\ <<a - d - 1, b>> \notin dirty
    BY <1>5
  <1>7. ASSUME NEW e \in Nat, e < d PROVE <<a - e - 1, b>> \in dirty
    <2>1. e \notin T
      <3> HIDE DEF T
      <3> QED
        BY <1>5, <1>6, <1>7
    <2>2. e <= a
      BY <1>1, <1>6, <1>7
    <2> QED
      BY <2>1, <2>2
  <1> DEFINE s == <<a - d, b>>
  <1>8. ASSUME NEW x \in a - d .. a PROVE <<x, b>> \in dirty
    <2>1. CASE x = a
      BY <1>3, <2>1, Zenon
    <2>2. CASE x # a
      <3>1. a - x - 1 \in Nat /\ a - x - 1 < d /\ a - (a - x - 1) - 1 = x
        BY <1>1, <1>6, <2>2
      <3>2. <<a - (a - x - 1) - 1, b>> \in dirty
        BY <1>7, <3>1
      <3> QED
        BY <3>1, <3>2, Zenon
    <2> QED
      BY <2>1, <2>2
  <1>9. RunStarts(dirty, s) /\ s \in Cells
    <2>1. a - d \in a - d .. a
      BY <1>1, <1>6
    <2>2. <<a - d, b>> \in dirty
      BY <1>8, <2>1
    <2> QED
      BY <1>6, <2>2 DEF RunStarts
  <1>10. s[1] = a - d /\ s[2] = b
    OBVIOUS
  <1> HIDE DEF s
  <1>11. PICK n : /\ LongestFrom(dirty, s, n)
                  /\ Run(dirty, s) = [x |-> s[1] * CellSize, y |-> s[2] * CellSize,
                                      w |-> n * CellSize, h |-> CellSize]
    BY <1>9, RunIs
  <1>12. n \in Nat /\ n >= 1 /\ <<(a - d) + n, b>> \notin dirty
    BY <1>10, <1>11, Grid DEF LongestFrom
  <1>13. a + 1 <= (a - d) + n
    <2>1. (a - d) + n \notin a - d .. a
      BY <1>8, <1>12
    <2> QED
      BY <1>1, <1>6, <1>12, <2>1
  <1>14. /\ (a - d) * CellSize <= a * CellSize
         /\ a * CellSize + CellSize <= (a - d) * CellSize + n * CellSize
         /\ (a - d) * CellSize \in Int /\ n * CellSize \in Int /\ a * CellSize \in Int
         /\ b * CellSize \in Int
    <2>1. a - d \in Int /\ a - d <= a /\ a + 1 \in Int /\ (a - d) + n \in Int
      BY <1>1, <1>6, <1>12
    <2>2. (a - d) * CellSize <= a * CellSize
      BY <1>1, <2>1, Grid, Multiples
    <2>3. (a + 1) * CellSize <= ((a - d) + n) * CellSize
      BY <1>13, <2>1, Grid, Multiples
    <2>4. (a + 1) * CellSize = a * CellSize + CellSize
      BY <1>1, Grid, Multiples
    <2>5. \A i \in Int : (i + n) * CellSize = i * CellSize + n * CellSize
      BY <1>12, Grid
    <2>6. (a - d) * CellSize \in Int /\ n * CellSize \in Int /\ a * CellSize \in Int /\ b * CellSize \in Int
      BY <1>1, <1>12, <2>1, Grid
    <2> QED
      BY <2>1, <2>2, <2>3, <2>4, <2>5, <2>6
  <1>15. /\ (a - d) * CellSize <= p[1] /\ p[1] < (a - d) * CellSize + n * CellSize
    BY <1>2, <1>14, Grid
  <1>16. Inside(p, Run(dirty, s))
    BY <1>2, <1>10, <1>11, <1>15 DEF Inside
  <1> QED
    BY <1>9, <1>16

(* The scan visits every cell.                                             *)
LEMMA ScanVisits ==
  ASSUME NEW c \in Cells
  PROVE  \E i \in 1 .. CellsX * CellsY : Scan(i - 1) = c
  <1>1. c = <<c[1], c[2]>> /\ c[1] \in Nat /\ c[1] < CellsX /\ c[2] \in Nat /\ c[2] <= CellsY - 1
    BY CellType, Grid
  <1> DEFINE k == c[2] * CellsX + c[1]
  <1>2. c[2] * CellsX \in Nat
    BY <1>1, Grid
  <1>3. k \in Nat
    BY <1>1, <1>2
  <1>4. k \div CellsX = c[2]
    <2>1. c[2] * CellsX <= k /\ k < c[2] * CellsX + CellsX
      BY <1>1, <1>2, Grid
    <2> HIDE DEF k
    <2> QED
      BY <1>1, <1>3, <2>1, Grid, QuotientIs
  <1>5. k % CellsX = c[1]
    <2>1. k = (k \div CellsX) * CellsX + (k % CellsX)
      <3> HIDE DEF k
      <3> QED
        BY <1>3, Grid
    <2>2. k % CellsX \in Int
      <3> HIDE DEF k
      <3> QED
        BY <1>3, Grid
    <2> QED
      BY <1>1, <1>2, <1>4, <2>1, <2>2
  <1>6. k + 1 \in 1 .. CellsX * CellsY
    <2>1. (c[2] + 1) * CellsX <= CellsY * CellsX /\ (c[2] + 1) * CellsX = c[2] * CellsX + CellsX
      <3>1. c[2] + 1 \in Int /\ CellsY \in Int /\ c[2] + 1 <= CellsY
        BY <1>1, Grid
      <3>2. (c[2] + 1) * CellsX <= CellsY * CellsX
        BY <3>1, Grid, Multiples
      <3>3. (c[2] + 1) * CellsX = c[2] * CellsX + CellsX
        BY <1>1, Grid, Multiples
      <3> QED
        BY <3>2, <3>3
    <2>2. CellsY * CellsX = CellsX * CellsY /\ CellsX * CellsY \in Int
      BY Grid
    <2> QED
      BY <1>1, <1>2, <2>1, <2>2, Grid
  <1>7. (k + 1) - 1 = k
    BY <1>3
  <1> HIDE DEF k
  <1>8. Scan((k + 1) - 1) = c
    BY <1>1, <1>4, <1>5, <1>7, Zenon DEF Scan
  <1> QED
    BY <1>6, <1>8

-----------------------------------------------------------------------------
(* The loops over rows and cells                                           *)

(* What holds at m and is kept by each step holds up to n.                 *)
LEMMA HeldUpTo ==
  ASSUME NEW n \in Nat, NEW m \in 0 .. n, NEW G, m \in G,
         \A k \in m + 1 .. n : k - 1 \in G => k \in G
  PROVE  \A k \in m .. n : k \in G
  <1> DEFINE T == {k \in Nat : k \in m .. n /\ k \notin G}
  <1>1. SUFFICES ASSUME T # {} PROVE FALSE
    <2>1. m .. n \subseteq Nat
      OBVIOUS
    <2> QED
      BY <1>1, <2>1
  <1>2. PICK k \in T : \A l \in T : k <= l
    <2>1. T \subseteq Nat
      OBVIOUS
    <2> HIDE DEF T
    <2> QED
      BY <1>1, <2>1, MinimalNat
  <1>3. k \in Nat /\ k \in m .. n /\ k \notin G
    BY <1>2
  <1>4. k # m
    BY <1>3
  <1>5. k \in m + 1 .. n /\ k - 1 \in m .. n /\ k - 1 \in Nat /\ ~(k <= k - 1)
    BY <1>3, <1>4
  <1>6. k - 1 \notin T
    <2> HIDE DEF T
    <2> QED
      BY <1>2, <1>5
  <1>7. k - 1 \in G
    BY <1>5, <1>6
  <1> QED
    BY <1>3, <1>5, <1>7

(* The backbuffer and screen after each cell of the scan.                  *)
RefreshOf(f, cmds, start, dirty) ==
  f = [i \in 0 .. CellsX * CellsY |->
         IF i = 0 THEN start
         ELSE IF RunStarts(dirty, Scan(i - 1))
         THEN Redrawn(cmds, f[i - 1], Run(dirty, Scan(i - 1)))
         ELSE f[i - 1]]

LEMMA RefreshedIs ==
  ASSUME NEW cmds \in Seq(Drawables), NEW start \in Picture, NEW dirty, dirty \subseteq Cells
  PROVE  \E f : /\ f \in [0 .. CellsX * CellsY -> Picture]
                /\ RefreshOf(f, cmds, start, dirty)
                /\ Refreshed(cmds, start, dirty) = f[CellsX * CellsY]
  <1> DEFINE n == CellsX * CellsY
             follow(i, v) == IF RunStarts(dirty, Scan(i - 1))
                           THEN Redrawn(cmds, v, Run(dirty, Scan(i - 1))) ELSE v
             step == [i \in 1 .. n |-> [v \in Picture |-> follow(i, v)]]
             at == CHOOSE f : RefreshOf(f, cmds, start, dirty)
  <1>0. n \in Nat
    BY Grid
  <1>1. ASSUME NEW i \in 1 .. n, NEW v \in Picture PROVE follow(i, v) \in Picture
    <2>1. CASE RunStarts(dirty, Scan(i - 1))
      <3>1. IsBox(Run(dirty, Scan(i - 1)))
        BY <2>1, RunIs
      <3>2. Redrawn(cmds, v, Run(dirty, Scan(i - 1))) \in Picture
        BY <3>1, RedrawnIs
      <3> QED
        BY <2>1, <3>2
    <2>2. CASE ~RunStarts(dirty, Scan(i - 1))
      BY <2>2
    <2> QED
      BY <2>1, <2>2
  <1> HIDE DEF follow
  <1>3. Recursion(Picture, start, n, step)
    <2> HIDE DEF n
    <2> QED
      BY <1>0, <1>1 DEF Recursion
  <1>4. PICK f : Solves(f, Picture, start, n, step)
    <2> HIDE DEF n, step
    <2> QED
      BY <1>3, RecursionExists
  <1>5. f \in [0 .. n -> Picture] /\ f[0] = start
    BY <1>4 DEF Solves
  <1>6. ASSUME NEW k \in 1 .. n PROVE f[k] = follow(k, f[k - 1])
    <2> HIDE DEF n
    <2>1. f[k] = step[k][f[k - 1]]
      BY <1>4 DEF Solves
    <2>2. f[k - 1] \in Picture
      BY <1>0, <1>5
    <2> QED
      BY <2>1, <2>2
  <1>7. f = [k \in 0 .. n |-> IF k = 0 THEN start ELSE follow(k, f[k - 1])]
    <2> HIDE DEF n
    <2> QED
      BY <1>0, <1>5, <1>6
  <1>8. RefreshOf(f, cmds, start, dirty)
    BY <1>7 DEF RefreshOf, follow
  <1>9. RefreshOf(at, cmds, start, dirty)
    BY <1>8
  <1>10. Refreshed(cmds, start, dirty) = at[n]
    BY DEF Refreshed, RefreshOf
  <1> HIDE DEF at
  <1>11. at = f
    <2>1. at = [k \in 0 .. n |-> at[k]] /\ f = [k \in 0 .. n |-> f[k]]
          /\ DOMAIN at = 0 .. n /\ DOMAIN f = 0 .. n
      BY <1>8, <1>9 DEF RefreshOf
    <2>2. at[0] = f[0]
      <3>1. 0 \in 0 .. n
        BY <1>0
      <3>2. at[0] = start
        BY <1>9, <3>1, Zenon DEF RefreshOf
      <3> QED
        BY <1>5, <3>2
    <2>3. ASSUME NEW k \in 1 .. n, at[k - 1] = f[k - 1] PROVE at[k] = f[k]
      <3>1. k \in 0 .. n /\ k # 0
        BY <1>0
      <3>2. at[k] = follow(k, at[k - 1])
        BY <1>9, <3>1, Zenon DEF RefreshOf, follow
      <3> QED
        BY <1>6, <2>3, <3>2
    <2> HIDE DEF n
    <2> QED
      BY <1>0, <2>1, <2>2, <2>3, RecursionUnique
  <1> QED
    BY <1>5, <1>8, <1>10, <1>11

(* One cell of the scan leaves the picture alone, or redraws a run.        *)
Keeps(f, cmds, dirty, i) ==
  /\ ~RunStarts(dirty, Scan(i - 1)) => f[i] = f[i - 1]
  /\ \A p \in Pixels : CellOf(p) \notin dirty => f[i].pixels[p] = f[i - 1].pixels[p]
  /\ \A p \in Pixels : p \notin Doubtful(cmds) =>
       \A j : LastOn(cmds, Len(cmds), p, j) =>
         /\ f[i - 1].pixels[p] = cmds[j].color => f[i].pixels[p] = cmds[j].color
         /\ RunStarts(dirty, Scan(i - 1)) /\ Inside(p, Run(dirty, Scan(i - 1)))
              => f[i].pixels[p] = cmds[j].color

LEMMA RefreshStep ==
  ASSUME NEW cmds \in Seq(Drawables), NEW start \in Picture, NEW dirty, dirty \subseteq Cells,
         NEW f \in [0 .. CellsX * CellsY -> Picture], RefreshOf(f, cmds, start, dirty),
         NEW i \in 1 .. CellsX * CellsY
  PROVE  Keeps(f, cmds, dirty, i)
  <1> DEFINE s == Scan(i - 1)
             r == Run(dirty, s)
  <1>1. i \in 0 .. CellsX * CellsY /\ i # 0 /\ i - 1 \in 0 .. CellsX * CellsY
    BY Grid
  <1>2. f[i] = IF RunStarts(dirty, s) THEN Redrawn(cmds, f[i - 1], r) ELSE f[i - 1]
    BY <1>1, Zenon DEF RefreshOf
  <1>3. f[i - 1] \in Picture
    BY <1>1
  <1> HIDE DEF s
  <1>4. CASE ~RunStarts(dirty, s)
    BY <1>2, <1>4 DEF s, Keeps
  <1>5. CASE RunStarts(dirty, s)
    <2>1. IsBox(r)
      BY <1>5, RunIs
    <2>2. \A p \in Pixels : Inside(p, r) => CellOf(p) \in dirty
      BY <1>5, RunChanged
    <2> HIDE DEF r
    <2>3. /\ \A p \in Pixels : ~Inside(p, r)
               => Redrawn(cmds, f[i - 1], r).pixels[p] = f[i - 1].pixels[p]
          /\ \A p \in Pixels : Inside(p, r) /\ p \notin Doubtful(cmds) =>
               \A j : LastOn(cmds, Len(cmds), p, j)
                        => Redrawn(cmds, f[i - 1], r).pixels[p] = cmds[j].color
      BY <1>3, <2>1, RedrawnIs
    <2>4. f[i] = Redrawn(cmds, f[i - 1], r)
      BY <1>2, <1>5
    <2>5. \A p \in Pixels : CellOf(p) \notin dirty => f[i].pixels[p] = f[i - 1].pixels[p]
      BY <2>2, <2>3, <2>4
    <2>6. ASSUME NEW p \in Pixels, p \notin Doubtful(cmds), NEW j, LastOn(cmds, Len(cmds), p, j)
          PROVE  /\ f[i - 1].pixels[p] = cmds[j].color => f[i].pixels[p] = cmds[j].color
                 /\ Inside(p, r) => f[i].pixels[p] = cmds[j].color
      BY <2>3, <2>4, <2>6
    <2> QED
      BY <1>5, <2>5, <2>6 DEF r, s, Keeps
  <1> QED
    BY <1>4, <1>5

LEMMA RefreshSteps ==
  \A cmds \in Seq(Drawables), start \in Picture, dirty \in SUBSET Cells :
    \A f \in [0 .. CellsX * CellsY -> Picture] : RefreshOf(f, cmds, start, dirty)
      => \A i \in 1 .. CellsX * CellsY : Keeps(f, cmds, dirty, i)
  BY RefreshStep

(* The pixels of cells that are not redrawn stay.                          *)
LEMMA RefreshedClean ==
  ASSUME NEW cmds \in Seq(Drawables), NEW start \in Picture, NEW dirty, dirty \subseteq Cells
  PROVE  /\ Refreshed(cmds, start, dirty) \in Picture
         /\ \A p \in Pixels : CellOf(p) \notin dirty
              => Refreshed(cmds, start, dirty).pixels[p] = start.pixels[p]
         /\ dirty = {} => Refreshed(cmds, start, dirty) = start
  <1> DEFINE n == CellsX * CellsY
  <1>1. PICK f : /\ f \in [0 .. n -> Picture]
                 /\ RefreshOf(f, cmds, start, dirty)
                 /\ Refreshed(cmds, start, dirty) = f[n]
    BY RefreshedIs
  <1>2. n \in Nat /\ 0 \in 0 .. n /\ n \in 0 .. n /\ \A k \in 0 .. n : k \in 0 + 1 .. n => k \in 1 .. n
    BY Grid
  <1>3. f[0] = start
    BY <1>1, <1>2, Zenon DEF RefreshOf
  <1>4. \A i \in 1 .. n : /\ ~RunStarts(dirty, Scan(i - 1)) => f[i] = f[i - 1]
                          /\ \A p \in Pixels : CellOf(p) \notin dirty
                               => f[i].pixels[p] = f[i - 1].pixels[p]
    <2>1. \A i \in 1 .. n : Keeps(f, cmds, dirty, i)
      BY <1>1, RefreshSteps, Zenon
    <2> QED
      BY <2>1 DEF Keeps
  <1> HIDE DEF n
  <1>5. ASSUME NEW p \in Pixels, CellOf(p) \notin dirty PROVE f[n].pixels[p] = start.pixels[p]
    <2> DEFINE G == {i \in 0 .. n : f[i].pixels[p] = start.pixels[p]}
    <2>1. 0 \in G
      BY <1>2, <1>3
    <2>2. ASSUME NEW k \in 0 + 1 .. n, k - 1 \in G PROVE k \in G
      <3>1. k \in 1 .. n /\ k \in 0 .. n
        BY <1>2
      <3>2. f[k].pixels[p] = f[k - 1].pixels[p]
        BY <1>4, <1>5, <3>1
      <3> QED
        BY <2>2, <3>1, <3>2
    <2> HIDE DEF G
    <2>3. \A k \in 0 .. n : k \in G
      BY <1>2, <2>1, <2>2, HeldUpTo
    <2> QED
      BY <1>2, <2>3 DEF G
  <1>6. ASSUME dirty = {} PROVE f[n] = start
    <2> DEFINE G == {i \in 0 .. n : f[i] = start}
    <2>1. 0 \in G
      BY <1>2, <1>3
    <2>2. ASSUME NEW k \in 0 + 1 .. n, k - 1 \in G PROVE k \in G
      <3>1. k \in 1 .. n /\ k \in 0 .. n
        BY <1>2
      <3>2. ~RunStarts(dirty, Scan(k - 1))
        BY <1>6 DEF RunStarts
      <3>3. f[k] = f[k - 1]
        BY <1>4, <3>1, <3>2
      <3> QED
        BY <2>2, <3>1, <3>3
    <2> HIDE DEF G
    <2>3. \A k \in 0 .. n : k \in G
      BY <1>2, <2>1, <2>2, HeldUpTo
    <2> QED
      BY <1>2, <2>3 DEF G
  <1>7. f[n] \in Picture
    BY <1>1, <1>2
  <1> QED
    BY <1>1, <1>5, <1>6, <1>7

(* A pixel of a cell that is redrawn shows the last command that covers it *)
(* from then on, whatever the other runs draw.                             *)
LEMMA RefreshedRight ==
  ASSUME NEW cmds \in Seq(Drawables), NEW start \in Picture, NEW dirty, dirty \subseteq Cells,
         NEW p \in Pixels, CellOf(p) \in dirty, p \notin Doubtful(cmds),
         NEW j, LastOn(cmds, Len(cmds), p, j)
  PROVE  Refreshed(cmds, start, dirty).pixels[p] = cmds[j].color
  <1> DEFINE n == CellsX * CellsY
  <1>1. PICK f : /\ f \in [0 .. n -> Picture]
                 /\ RefreshOf(f, cmds, start, dirty)
                 /\ Refreshed(cmds, start, dirty) = f[n]
    BY RefreshedIs
  <1>2. n \in Nat
    BY Grid
  <1>3. PICK s \in Cells : RunStarts(dirty, s) /\ Inside(p, Run(dirty, s))
    BY RunCovers
  <1>4. PICK m \in 1 .. n : Scan(m - 1) = s
    BY ScanVisits
  <1>5. \A i \in 1 .. n :
          /\ f[i - 1].pixels[p] = cmds[j].color => f[i].pixels[p] = cmds[j].color
          /\ RunStarts(dirty, Scan(i - 1)) /\ Inside(p, Run(dirty, Scan(i - 1)))
               => f[i].pixels[p] = cmds[j].color
    <2>1. \A i \in 1 .. n : Keeps(f, cmds, dirty, i)
      BY <1>1, RefreshSteps, Zenon
    <2> QED
      BY <2>1 DEF Keeps
  <1> HIDE DEF n
  <1> DEFINE G == {i \in 0 .. n : f[i].pixels[p] = cmds[j].color}
  <1>6. m \in 0 .. n /\ m \in G
    BY <1>2, <1>3, <1>4, <1>5
  <1>7. ASSUME NEW k \in m + 1 .. n, k - 1 \in G PROVE k \in G
    <2>1. k \in 1 .. n /\ k \in 0 .. n
      BY <1>2, <1>4
    <2> QED
      BY <1>5, <1>7, <2>1
  <1> HIDE DEF G
  <1>8. n \in m .. n
    BY <1>2, <1>4
  <1>9. \A k \in m .. n : k \in G
    BY <1>2, <1>6, <1>7, HeldUpTo
  <1> QED
    BY <1>1, <1>8, <1>9 DEF G

-----------------------------------------------------------------------------
(* The invariant                                                           *)

First == Command("rect", Screen, {}, "blue")

TypeInv ==
  /\ commands \in Seq(Drawables) /\ Len(commands) <= MaxCommands /\ Len(commands) <= issued
  /\ issued \in 0 .. FrameCommands /\ frames \in 0 .. MaxFrames
  /\ backbuffer \in [Pixels -> Ink] /\ pixels \in [Pixels -> Ink]
  /\ shown \in Seq(Drawables)

(* A frame has begun with the two calls of user.um.                        *)
FrameInv ==
  /\ issued # 0 => issued >= 2 /\ frames < MaxFrames
  /\ issued # 0 => Len(commands) >= 1 /\ commands[1] = First
  /\ frames > 0 => Len(shown) >= 1 /\ shown[1] = First

(* The seeds of the frame that is drawn, and the hashes of the one shown.  *)
HashInv ==
  /\ hashes1 = Seeds(IF frames = 0 THEN "0" ELSE "FNV")
  /\ frames = 0 => hashes2 = Seeds("1")
  /\ frames > 0 => hashes2 = Hashed(shown, Seeds(IF frames = 1 THEN "0" ELSE "FNV"))

ShownInv ==
  /\ Doubtful(shown) \subseteq tainted
  /\ frames > 0 => \A p \in Pixels \ tainted : pixels[p] = Painting(shown)[p]

GfxInv == TypeInv /\ FrameInv /\ HashInv /\ ShownInv

(* What the drawing calls queue.                                           *)
LEMMA CommandsAre ==
  /\ First \in Drawables
  /\ Command("bckg", Bckg, {}, "image") \in Drawables
  /\ \A r \in Rects, color \in Colors : Command("rect", r, {}, color) \in Drawables
  /\ \A g \in Glyphs, s \in Spots, color \in Colors :
       Command(g.type, [x |-> s.x, y |-> s.y, w |-> g.w, h |-> g.h], g.bits, color) \in Drawables
  /\ \A r \in Clips : Command("clip", rectIntersect(r, Screen), {}, "none") \in Drawables
  <1>1. ASSUME NEW t \in {"rect", "bckg"}, NEW r, IsBox(r), NEW color \in Ink
        PROVE  Command(t, r, {}, color) \in Drawables
    <2> DEFINE c == Command(t, r, {}, color)
    <2>1. c = [type |-> t, x |-> r.x, y |-> r.y, w |-> r.w, h |-> r.h, data |-> {}, color |-> color]
      BY DEF Command
    <2>2. c \in CommandType
      BY <1>1, <2>1 DEF CommandType, IsBox, Types
    <2>3. Shaped(c)
      BY <1>1, <2>1 DEF Shaped
    <2> QED
      BY <2>2, <2>3 DEF Drawables
  <1>2. First \in Drawables
    BY <1>1, ScreenIs, BoxesAre DEF First, Ink
  <1>3. Command("bckg", Bckg, {}, "image") \in Drawables
    <2>1. IsBox(Bckg)
      BY ParametersAssumption DEF Parameters, IsBox
    <2> QED
      BY <1>1, <2>1 DEF Ink
  <1>4. \A r \in Rects, color \in Colors : Command("rect", r, {}, color) \in Drawables
    <2>1. \A r \in Rects : IsBox(r)
      BY ParametersAssumption DEF Parameters, IsBox
    <2> QED
      BY <1>1, <2>1 DEF Ink
  <1>5. ASSUME NEW g \in Glyphs, NEW s \in Spots, NEW color \in Colors
        PROVE  Command(g.type, [x |-> s.x, y |-> s.y, w |-> g.w, h |-> g.h], g.bits, color) \in Drawables
    <2>1. /\ g.type \in {"icon", "char"} /\ g.w \in Nat /\ g.h \in Nat
          /\ g.bits \subseteq (0 .. g.w - 1) \X (0 .. g.h - 1)
          /\ s.x \in Int /\ s.y \in Int
      BY ParametersAssumption DEF Parameters
    <2> DEFINE c == Command(g.type, [x |-> s.x, y |-> s.y, w |-> g.w, h |-> g.h], g.bits, color)
    <2>2. c = [type |-> g.type, x |-> s.x, y |-> s.y, w |-> g.w, h |-> g.h,
               data |-> g.bits, color |-> color]
      BY DEF Command
    <2>3. g.bits \in SUBSET (Int \X Int)
      BY <2>1
    <2>4. c \in CommandType
      BY <2>1, <2>2, <2>3 DEF CommandType, Types, Ink
    <2>5. Shaped(c)
      BY <2>1, <2>2 DEF Shaped, Ink
    <2> QED
      BY <2>4, <2>5 DEF Drawables
  <1>6. ASSUME NEW r \in Clips
        PROVE  Command("clip", rectIntersect(r, Screen), {}, "none") \in Drawables
    <2> DEFINE q == rectIntersect(r, Screen)
               c == Command("clip", q, {}, "none")
    <2>1. r.x \in Int /\ r.y \in Int /\ r.w \in Int /\ r.h \in Int
      BY ParametersAssumption DEF Parameters
    <2>2. Screen.x \in Int /\ Screen.y \in Int /\ Screen.w \in Int /\ Screen.h \in Int
      BY ScreenIs DEF Box
    <2>3. IsBox(q)
      BY <2>1, <2>2 DEF IsBox, rectIntersect, Least, Greatest
    <2> HIDE DEF q
    <2>4. c = [type |-> "clip", x |-> q.x, y |-> q.y, w |-> q.w, h |-> q.h,
               data |-> {}, color |-> "none"]
      BY DEF Command
    <2>5. c \in CommandType
      BY <2>3, <2>4 DEF CommandType, IsBox, Types
    <2>6. Shaped(c)
      BY <2>4 DEF Shaped
    <2> QED
      BY <2>5, <2>6 DEF Drawables, q
  <1> QED
    BY <1>2, <1>3, <1>4, <1>5, <1>6

(* The rectangle a frame begins with covers every pixel.                   *)
LEMMA FirstCovers ==
  \A p \in Pixels : Covers(First, p)
  <1>1. First = [type |-> "rect", x |-> Screen.x, y |-> Screen.y, w |-> Screen.w, h |-> Screen.h,
                 data |-> {}, color |-> "blue"]
    BY DEF First, Command
  <1>2. \A p \in Pixels : Inside(p, First)
    BY <1>1, PixelIs DEF Inside
  <1> QED
    BY <1>1, <1>2 DEF Covers

(* A frame whose first command covers the screen has a last one anywhere.  *)
LEMMA LastThere ==
  ASSUME NEW cmds \in Seq(Drawables), Len(cmds) >= 1, cmds[1] = First, NEW p \in Pixels
  PROVE  \E j : LastOn(cmds, Len(cmds), p, j)
  <1>1. Len(cmds) \in Nat /\ 1 \in 1 .. Len(cmds) /\ Covers(cmds[1], p)
    BY FirstCovers
  <1> QED
    BY <1>1, LastExists

LEMMA QueuedIs ==
  ASSUME NEW cmds \in Seq(Drawables), Len(cmds) <= MaxCommands, NEW c \in Drawables
  PROVE  /\ Queued(cmds, c) \in Seq(Drawables)
         /\ Len(Queued(cmds, c)) <= MaxCommands /\ Len(Queued(cmds, c)) <= Len(cmds) + 1
         /\ Len(Queued(cmds, c)) >= 1
         /\ Queued(cmds, c)[1] = IF cmds = <<>> THEN c ELSE cmds[1]
  <1>0. Len(cmds) \in Nat /\ MaxCommands \in Nat \ {0} /\ (cmds = <<>> <=> Len(cmds) = 0)
    BY Grid
  <1>1. CASE Len(cmds) >= MaxCommands
    BY <1>0, <1>1 DEF Queued
  <1>2. CASE ~(Len(cmds) >= MaxCommands)
    <2>1. Queued(cmds, c) = Append(cmds, c)
      BY <1>2 DEF Queued
    <2>2. /\ Append(cmds, c) \in Seq(Drawables) /\ Len(Append(cmds, c)) = Len(cmds) + 1
          /\ \A i \in 1 .. Len(cmds) : Append(cmds, c)[i] = cmds[i]
          /\ Append(cmds, c)[Len(cmds) + 1] = c
      BY AppendProperties
    <2>3. Append(cmds, c)[1] = IF cmds = <<>> THEN c ELSE cmds[1]
      BY <1>0, <2>2
    <2> QED
      BY <1>0, <1>2, <2>1, <2>2, <2>3
  <1> QED
    BY <1>1, <1>2

(* The hashes and the screen at the end of a frame                         *)

LEMMA HashedIs ==
  \A cmds, seed, cell : cell \in Cells => Hashed(cmds, Seeds(seed))[cell] = HashOf(cmds, cell, <<seed>>)
  BY DEF Hashed, Seeds

(* The cells that are not redrawn are those of a third or later frame that *)
(* were hashed from the same seed as before.                               *)
LEMMA CleanCell ==
  ASSUME GfxInv, issued # 0, NEW cell \in Cells, Hashed(commands, hashes1)[cell] = hashes2[cell]
  PROVE  frames > 0 /\ HashOf(commands, cell, <<"FNV">>) = HashOf(shown, cell, <<"FNV">>)
  <1>1. /\ commands \in Seq(Drawables) /\ shown \in Seq(Drawables) /\ frames \in Nat
        /\ hashes1 = Seeds(IF frames = 0 THEN "0" ELSE "FNV")
        /\ frames = 0 => hashes2 = Seeds("1")
        /\ frames > 0 => hashes2 = Hashed(shown, Seeds(IF frames = 1 THEN "0" ELSE "FNV"))
    BY DEF GfxInv, TypeInv, HashInv
  <1>2. CASE frames = 0
    <2>1. Hashed(commands, hashes1)[cell] = HashOf(commands, cell, <<"0">>)
      BY <1>1, <1>2, HashedIs
    <2>2. HashOf(commands, cell, <<"0">>)[1] = "0"
      BY <1>1, HashBegins
    <2>3. hashes2[cell] = <<"1">> /\ <<"1">>[1] = "1"
      BY <1>1, <1>2 DEF Seeds
    <2>4. hashes2[cell][1] = "1"
      BY <2>3, Zenon
    <2>5. hashes2[cell][1] = "0"
      BY <2>1, <2>2, Zenon
    <2> QED
      BY <2>4, <2>5
  <1>3. CASE frames = 1
    <2>1. Hashed(commands, hashes1)[cell] = HashOf(commands, cell, <<"FNV">>)
      BY <1>1, <1>3, HashedIs
    <2>2. hashes2[cell] = HashOf(shown, cell, <<"0">>)
      BY <1>1, <1>3, HashedIs
    <2>3. HashOf(commands, cell, <<"FNV">>)[1] = "FNV" /\ HashOf(shown, cell, <<"0">>)[1] = "0"
      BY <1>1, HashBegins
    <2> QED
      BY <2>1, <2>2, <2>3
  <1>4. CASE frames > 1
    <2>1. Hashed(commands, hashes1)[cell] = HashOf(commands, cell, <<"FNV">>)
      BY <1>1, <1>4, HashedIs
    <2>2. hashes2[cell] = HashOf(shown, cell, <<"FNV">>)
      BY <1>1, <1>4, HashedIs
    <2>3. frames > 0
      BY <1>1, <1>4
    <2>4. HashOf(commands, cell, <<"FNV">>) = HashOf(shown, cell, <<"FNV">>)
      BY <2>1, <2>2, Zenon
    <2> QED
      BY <2>3, <2>4
  <1> QED
    BY <1>1, <1>2, <1>3, <1>4

LEMMA SwapShows ==
  ASSUME GfxInv, gfxSwap, NEW p \in Pixels \ tainted'
  PROVE  pixels'[p] = Painting(commands)[p]
  <1> DEFINE now == Hashed(commands, hashes1)
             dirty == {cell \in Cells : now[cell] # hashes2[cell]}
             start == [back |-> backbuffer, pixels |-> pixels]
  <1>1. /\ commands \in Seq(Drawables) /\ shown \in Seq(Drawables)
        /\ Len(commands) >= 1 /\ commands[1] = First
        /\ frames > 0 => Len(shown) >= 1 /\ shown[1] = First
        /\ issued # 0
    BY DEF GfxInv, TypeInv, FrameInv, gfxSwap
  <1>2. /\ pixels' = Refreshed(commands, start, dirty).pixels
        /\ tainted' = Doubtful(commands) \cup {q \in tainted : CellOf(q) \notin dirty}
    BY DEF gfxSwap
  <1>3. start \in Picture /\ start.pixels = pixels
    BY DEF Picture, GfxInv, TypeInv
  <1>4. p \in Pixels /\ p \notin Doubtful(commands) /\ CellOf(p) \in Cells
    BY <1>2, CellIs
  <1>5. PICK j : LastOn(commands, Len(commands), p, j)
    BY <1>1, <1>4, LastThere
  <1>6. Painting(commands)[p] = commands[j].color
    BY <1>1, <1>4, <1>5, PaintingIs
  <1>7. dirty \subseteq Cells
    OBVIOUS
  <1>8. CellOf(p) \notin dirty => Hashed(commands, hashes1)[CellOf(p)] = hashes2[CellOf(p)]
    BY <1>4
  <1>9. CellOf(p) \notin dirty => p \notin tainted
    BY <1>2
  <1> HIDE DEF dirty, start
  <1>10. CASE CellOf(p) \in dirty
    <2>1. Refreshed(commands, start, dirty).pixels[p] = commands[j].color
      BY <1>1, <1>3, <1>4, <1>5, <1>7, <1>10, RefreshedRight
    <2> QED
      BY <1>2, <1>6, <2>1
  <1>11. CASE CellOf(p) \notin dirty
    <2>1. pixels'[p] = pixels[p]
      BY <1>1, <1>2, <1>3, <1>4, <1>7, <1>11, RefreshedClean
    <2>2. /\ frames > 0
          /\ HashOf(commands, CellOf(p), <<"FNV">>) = HashOf(shown, CellOf(p), <<"FNV">>)
      BY <1>1, <1>4, <1>8, <1>11, CleanCell
    <2>3. /\ p \notin tainted /\ p \notin Doubtful(shown)
          /\ pixels[p] = Painting(shown)[p]
      BY <1>4, <1>9, <1>11, <2>2 DEF GfxInv, ShownInv
    <2>4. PICK l : LastOn(shown, Len(shown), p, l)
      BY <1>1, <1>4, <2>2, LastThere
    <2>5. Painting(shown)[p] = shown[l].color
      BY <1>1, <1>4, <2>3, <2>4, PaintingIs
    <2>6. \A c \in Drawables : Covers(c, p) => Touches(c, CellOf(p))
      BY <1>4, CoverTouches
    <2>7. commands[j].color = shown[l].color
      BY <1>1, <1>5, <2>2, <2>4, <2>6, SameHash
    <2> QED
      BY <1>6, <2>1, <2>3, <2>5, <2>7
  <1> QED
    BY <1>10, <1>11

-----------------------------------------------------------------------------
(* The steps                                                               *)

(* HashInv, of any hashes, commands, count of frames and padding.          *)
HashedWith(cmds, pads, seed) ==
  [cell \in Cells |->
     LET hash[k \in 0 .. Len(cmds)] ==
           IF k = 0 THEN [c \in Cells |-> <<seed>>][cell]
           ELSE IF Touches(cmds[k], cell) THEN Append(hash[k - 1], <<cmds[k], pads[k]>>)
           ELSE hash[k - 1]
     IN hash[Len(cmds)]]

Hashing(h1, h2, cmds, count, pads) ==
  /\ h1 = Seeds(IF count = 0 THEN "0" ELSE "FNV")
  /\ count = 0 => h2 = Seeds("1")
  /\ count > 0 => h2 = HashedWith(cmds, pads, IF count = 1 THEN "0" ELSE "FNV")

LEMMA HashInvIs ==
  /\ HashInv <=> Hashing(hashes1, hashes2, shown, frames, pad)
  /\ HashInv' <=> Hashing(hashes1', hashes2', shown', frames', pad')
  BY Zenon DEF HashInv, Hashing, HashedWith, Hashed, HashOf, Seeds

LEMMA HashedWithIs ==
  \A cmds, seed : Hashed(cmds, Seeds(seed)) = HashedWith(cmds, pad, seed)
  BY Zenon DEF HashedWith, Hashed, HashOf, Seeds

LEMMA GfxInitInv == gfxInit => GfxInv
  <1> SUFFICES ASSUME gfxInit PROVE GfxInv
    OBVIOUS
  <1>1. commands = <<>> /\ shown = <<>> /\ issued = 0 /\ frames = 0 /\ tainted = {}
    BY DEF gfxInit
  <1>2. <<>> \in Seq(Drawables) /\ Len(<<>>) = 0
    OBVIOUS
  <1>3. backbuffer \in [Pixels -> Ink] /\ pixels \in [Pixels -> Ink]
    BY DEF gfxInit, Ink
  <1>4. FrameCommands \in Nat /\ MaxFrames \in Nat /\ MaxCommands \in Nat
    BY ParametersAssumption DEF Parameters
  <1>5. TypeInv
    BY <1>1, <1>2, <1>3, <1>4 DEF TypeInv
  <1>6. FrameInv
    BY <1>1 DEF FrameInv
  <1>7. HashInv
    BY <1>1 DEF HashInv, gfxInit
  <1>8. ShownInv
    <2>1. DOMAIN <<>> = {}
      OBVIOUS
    <2> QED
      BY <1>1, <2>1 DEF ShownInv, Doubtful
  <1> QED
    BY <1>5, <1>6, <1>7, <1>8 DEF GfxInv

(* A drawing call queues one command.                                      *)
LEMMA DrawnInv ==
  ASSUME GfxInv, InFrame, NEW c \in Drawables, Drawn(Queued(commands, c), 1)
  PROVE  GfxInv'
  <1> DEFINE q == Queued(commands, c)
  <1>1. /\ commands' = q /\ issued' = issued + 1
        /\ UNCHANGED <<pad, hashes1, hashes2, backbuffer, pixels, shown, redrawn, tainted, frames>>
    BY DEF Drawn
  <1>2. /\ commands \in Seq(Drawables) /\ Len(commands) <= MaxCommands /\ Len(commands) <= issued
        /\ issued \in 0 .. FrameCommands /\ issued >= 2 /\ issued < FrameCommands
        /\ frames \in 0 .. MaxFrames /\ frames < MaxFrames
        /\ Len(commands) >= 1 /\ commands[1] = First
    BY DEF GfxInv, TypeInv, FrameInv, InFrame
  <1>3. /\ q \in Seq(Drawables) /\ Len(q) <= MaxCommands /\ Len(q) <= Len(commands) + 1
        /\ Len(q) >= 1 /\ q[1] = IF commands = <<>> THEN c ELSE commands[1]
    BY <1>2, QueuedIs
  <1>4. commands # <<>>
    BY <1>2
  <1> HIDE DEF q
  <1>5. FrameCommands \in Nat /\ Len(q) \in Nat /\ Len(commands) \in Nat
    BY <1>2, <1>3, ParametersAssumption DEF Parameters
  <1>6. TypeInv'
    BY <1>1, <1>2, <1>3, <1>5 DEF GfxInv, TypeInv
  <1>7. FrameInv'
    BY <1>1, <1>2, <1>3, <1>4 DEF GfxInv, FrameInv
  <1>8. HashInv'
    <2>1. Hashing(hashes1, hashes2, shown, frames, pad)
      BY HashInvIs DEF GfxInv
    <2>2. Hashing(hashes1', hashes2', shown', frames', pad')
      BY <1>1, <2>1
    <2> QED
      BY <2>2, HashInvIs
  <1>9. ShownInv'
    BY <1>1 DEF GfxInv, ShownInv
  <1> QED
    BY <1>6, <1>7, <1>8, <1>9 DEF GfxInv

(* The first two calls of a frame.                                         *)
LEMMA BeginInv ==
  ASSUME GfxInv, BeginFrame
  PROVE  GfxInv'
  <1> DEFINE b == Command("bckg", Bckg, {}, "image")
             q == Queued(<<>>, First)
             r == Queued(q, b)
  <1>1. /\ commands = <<>> => commands' = r
        /\ issued = 0 /\ frames < MaxFrames /\ issued' = 2
        /\ UNCHANGED <<pad, hashes1, hashes2, backbuffer, pixels, shown, redrawn, tainted, frames>>
    BY DEF BeginFrame, Drawn, First
  <1>2. /\ commands = <<>>
        /\ frames \in 0 .. MaxFrames
    <2>1. commands \in Seq(Drawables) /\ Len(commands) <= 0 /\ Len(commands) \in Nat
      BY <1>1 DEF GfxInv, TypeInv
    <2> QED
      BY <2>1 DEF GfxInv, TypeInv
  <1>3. b \in Drawables /\ First \in Drawables
    BY CommandsAre
  <1> HIDE DEF b
  <1>4. /\ q \in Seq(Drawables) /\ Len(q) <= MaxCommands /\ Len(q) <= 0 + 1
        /\ Len(q) >= 1 /\ q[1] = First
    <2> DEFINE e == <<>>
    <2>1. e \in Seq(Drawables) /\ Len(e) = 0 /\ 0 <= MaxCommands
      BY Grid
    <2>2. q = Queued(e, First) /\ (e = <<>>)
      OBVIOUS
    <2> HIDE DEF e, q
    <2>3. /\ Queued(e, First) \in Seq(Drawables)
          /\ Len(Queued(e, First)) <= MaxCommands /\ Len(Queued(e, First)) <= Len(e) + 1
          /\ Len(Queued(e, First)) >= 1
          /\ Queued(e, First)[1] = IF e = <<>> THEN First ELSE e[1]
      BY <1>3, <2>1, QueuedIs
    <2> QED
      BY <2>1, <2>2, <2>3
  <1> HIDE DEF q
  <1>5. /\ r \in Seq(Drawables) /\ Len(r) <= MaxCommands /\ Len(r) <= Len(q) + 1
        /\ Len(r) >= 1 /\ r[1] = IF q = <<>> THEN b ELSE q[1]
    BY <1>3, <1>4, QueuedIs
  <1>6. q # <<>>
    BY <1>4
  <1> HIDE DEF r
  <1>7. FrameCommands \in Nat \ {0, 1} /\ Len(q) \in Nat /\ Len(r) \in Nat
    BY <1>4, <1>5, ParametersAssumption DEF Parameters
  <1>8. commands' = r /\ r[1] = First /\ Len(r) <= 2
    BY <1>1, <1>2, <1>4, <1>5, <1>6, <1>7
  <1>9. TypeInv'
    BY <1>1, <1>2, <1>5, <1>7, <1>8 DEF GfxInv, TypeInv
  <1>10. FrameInv'
    BY <1>1, <1>5, <1>8 DEF GfxInv, FrameInv
  <1>11. HashInv'
    <2>1. Hashing(hashes1, hashes2, shown, frames, pad)
      BY HashInvIs DEF GfxInv
    <2>2. Hashing(hashes1', hashes2', shown', frames', pad')
      BY <1>1, <2>1
    <2> QED
      BY <2>2, HashInvIs
  <1>12. ShownInv'
    BY <1>1 DEF GfxInv, ShownInv
  <1> QED
    BY <1>9, <1>10, <1>11, <1>12 DEF GfxInv

LEMMA SwapInv ==
  ASSUME GfxInv, gfxSwap
  PROVE  GfxInv'
  <1> DEFINE now == Hashed(commands, hashes1)
             dirty == {cell \in Cells : now[cell] # hashes2[cell]}
             start == [back |-> backbuffer, pixels |-> pixels]
             done == Refreshed(commands, start, dirty)
  <1>1. /\ backbuffer' = done.back /\ pixels' = done.pixels
        /\ hashes2' = now /\ hashes1' = Seeds("FNV")
        /\ tainted' = Doubtful(commands) \cup {p \in tainted : CellOf(p) \notin dirty}
        /\ commands' = <<>> /\ issued' = 0 /\ shown' = commands /\ frames' = frames + 1
        /\ pad' = pad
    BY DEF gfxSwap, Reset
  <1>2. /\ commands \in Seq(Drawables) /\ frames \in 0 .. MaxFrames /\ frames < MaxFrames
        /\ Len(commands) >= 1 /\ commands[1] = First
    BY DEF GfxInv, TypeInv, FrameInv, gfxSwap
  <1>3. start \in Picture
    BY DEF Picture, GfxInv, TypeInv
  <1>4. done \in Picture
    <2>1. dirty \subseteq Cells
      OBVIOUS
    <2> HIDE DEF dirty, start
    <2> QED
      BY <1>2, <1>3, <2>1, RefreshedClean
  <1> HIDE DEF done, dirty
  <1>5. backbuffer' \in [Pixels -> Ink] /\ pixels' \in [Pixels -> Ink]
    BY <1>1, <1>4 DEF Picture
  <1>6. frames \in Nat /\ frames + 1 \in 0 .. MaxFrames /\ frames + 1 > 0
        /\ (frames + 1 = 1 <=> frames = 0) /\ frames + 1 # 0
    BY <1>2, ParametersAssumption DEF Parameters
  <1>7. TypeInv'
    <2>1. <<>> \in Seq(Drawables) /\ Len(<<>>) = 0
      OBVIOUS
    <2>2. FrameCommands \in Nat /\ MaxCommands \in Nat
      BY ParametersAssumption DEF Parameters
    <2> QED
      BY <1>1, <1>2, <1>5, <1>6, <2>1, <2>2 DEF TypeInv
  <1>8. FrameInv'
    BY <1>1, <1>2 DEF FrameInv
  <1>9. HashInv'
    <2>1. hashes1 = Seeds(IF frames = 0 THEN "0" ELSE "FNV")
      BY DEF GfxInv, HashInv
    <2>2. frames' > 0 /\ frames' # 0 /\ (frames' = 1 <=> frames = 0)
      BY <1>1, <1>6
    <2>3. hashes1 = Seeds(IF frames' = 1 THEN "0" ELSE "FNV")
      BY <2>1, <2>2
    <2>4. hashes2' = HashedWith(commands, pad, IF frames' = 1 THEN "0" ELSE "FNV")
      <3>1. hashes2' = Hashed(commands, Seeds(IF frames' = 1 THEN "0" ELSE "FNV"))
        BY <1>1, <2>3
      <3> QED
        BY <3>1, HashedWithIs
    <2>5. Hashing(hashes1', hashes2', shown', frames', pad')
      BY <1>1, <2>2, <2>4 DEF Hashing
    <2> QED
      BY <2>5, HashInvIs
  <1>10. ShownInv'
    <2>1. \A p \in Pixels \ tainted' : pixels'[p] = Painting(commands)[p]
      BY SwapShows
    <2> QED
      BY <1>1, <2>1 DEF ShownInv
  <1> QED
    BY <1>7, <1>8, <1>9, <1>10 DEF GfxInv

LEMMA GfxNextInv ==
  GfxInv /\ [gfxNext]_gfxVars => GfxInv'
  <1> SUFFICES ASSUME GfxInv, [gfxNext]_gfxVars PROVE GfxInv'
    OBVIOUS
  <1>1. CASE BeginFrame
    BY <1>1, BeginInv
  <1>2. CASE gfxDrawRect
    BY <1>2, CommandsAre, DrawnInv DEF gfxDrawRect
  <1>3. CASE gfxDrawGlyph
    BY <1>3, CommandsAre, DrawnInv DEF gfxDrawGlyph
  <1>4. CASE gfxDrawClip
    BY <1>4, CommandsAre, DrawnInv DEF gfxDrawClip
  <1>5. CASE gfxSwap
    BY <1>5, SwapInv
  <1>6. CASE UNCHANGED gfxVars
    <2>1. UNCHANGED gfxVars
      BY <1>6
    <2>2. HashInv'
      <3>1. Hashing(hashes1, hashes2, shown, frames, pad)
        BY HashInvIs DEF GfxInv
      <3>2. Hashing(hashes1', hashes2', shown', frames', pad')
        BY <2>1, <3>1 DEF gfxVars
      <3> QED
        BY <3>2, HashInvIs
    <2>3. TypeInv' /\ FrameInv' /\ ShownInv'
      BY <2>1 DEF gfxVars, GfxInv, TypeInv, FrameInv, ShownInv
    <2> QED
      BY <2>2, <2>3 DEF GfxInv
  <1> QED
    BY <1>1, <1>2, <1>3, <1>4, <1>5, <1>6 DEF gfxNext

(* The invariant holds always: the renderer keeps its queue, its hashes    *)
(* and the screen in step.                                                 *)
THEOREM GfxInvAlways == GfxSpec => []GfxInv
  BY GfxInitInv, GfxNextInv, PTL DEF GfxSpec

-----------------------------------------------------------------------------
(* What the renderer promises                                              *)

(* The queue stays in its memory, and the screen shows what the last       *)
(* frame's commands paint, for every size of the screen and of the queue,  *)
(* all letters, icons, rectangles and clips, and any number of frames.     *)
THEOREM ScreenAlways == GfxSpec => []ScreenOK
  <1>1. ASSUME GfxInv PROVE ScreenOK
    <2>1. GfxTypeOK
      BY <1>1 DEF GfxInv, TypeInv, HashInv, GfxTypeOK, Ink, Seeds, Hashed
    <2>2. PixelsRight
      BY <1>1 DEF GfxInv, ShownInv, PixelsRight
    <2> QED
      BY <2>1, <2>2 DEF ScreenOK
  <1> QED
    BY <1>1, GfxInvAlways, PTL

(* A frame like the one before it draws nothing, from the third on.        *)
THEOREM IdleAlways == GfxSpec => IdleFrameDrawsNothing
  <1>1. ASSUME GfxInv, gfxSwap, frames >= 2, commands = shown
        PROVE  redrawn' = {} /\ UNCHANGED <<backbuffer, pixels>>
    <2> DEFINE now == Hashed(commands, hashes1)
               dirty == {cell \in Cells : now[cell] # hashes2[cell]}
               start == [back |-> backbuffer, pixels |-> pixels]
    <2>1. /\ backbuffer' = Refreshed(commands, start, dirty).back
          /\ pixels' = Refreshed(commands, start, dirty).pixels
          /\ redrawn' = dirty
      BY <1>1 DEF gfxSwap
    <2>2. frames # 0 /\ frames # 1 /\ frames > 0
      BY <1>1 DEF GfxInv, TypeInv
    <2>3. hashes2 = now
      BY <1>1, <2>2 DEF GfxInv, HashInv
    <2>4. dirty = {}
      BY <2>3
    <2>5. start \in Picture /\ start.back = backbuffer /\ start.pixels = pixels
          /\ commands \in Seq(Drawables)
      BY <1>1 DEF Picture, GfxInv, TypeInv
    <2> HIDE DEF start, dirty
    <2>6. Refreshed(commands, start, dirty) = start
      BY <2>4, <2>5, RefreshedClean
    <2> QED
      BY <2>1, <2>4, <2>5, <2>6
  <1>2. ASSUME GfxInv, [gfxNext]_gfxVars
        PROVE  [gfxSwap /\ frames >= 2 /\ commands = shown
                  => redrawn' = {} /\ UNCHANGED <<backbuffer, pixels>>]_gfxVars
    BY <1>1, <1>2
  <1> QED
    BY <1>2, GfxInvAlways, PTL DEF GfxSpec, IdleFrameDrawsNothing
-----------------------------------------------------------------------------
(* Fmt                                                                     *)

-----------------------------------------------------------------------------
(* Powers of ten                                                           *)

Shifts(f, n, i) ==
  f[0] = n /\ \A k \in 1 .. i : f[k] = 10 * f[k - 1]

(* A shift is a product by ten, step by step.                              *)
LEMMA ShiftSteps ==
  ASSUME NEW n \in Nat, NEW i \in Nat
  PROVE  \E f \in [0 .. i -> Nat] : Shifts(f, n, i) /\ Shift(n, i) = f[i]
  <1> DEFINE shifted == CHOOSE f : f = [k \in 0 .. i |-> IF k = 0 THEN n ELSE 10 * f[k - 1]]
             step == [k \in 1 .. i |-> [v \in Nat |-> 10 * v]]
  <1>1. Shift(n, i) = shifted[i]
    BY DEF Shift
  <1>2. step \in [1 .. i -> [Nat -> Nat]]
    OBVIOUS
  <1>3. PICK f : Solves(f, Nat, n, i, step)
    <2> HIDE DEF step
    <2>1. Recursion(Nat, n, i, step)
      BY <1>2 DEF Recursion
    <2> QED
      BY <2>1, RecursionExists
  <1>4. f \in [0 .. i -> Nat] /\ f[0] = n /\ \A k \in 1 .. i : f[k] = 10 * f[k - 1]
    <2>1. f \in [0 .. i -> Nat] /\ f[0] = n /\ \A k \in 1 .. i : f[k] = step[k][f[k - 1]]
      BY <1>3, Zenon DEF Solves
    <2>2. \A k \in 1 .. i : f[k - 1] \in Nat
      BY <2>1
    <2>3. \A k \in 1 .. i, v \in Nat : step[k][v] = 10 * v
      OBVIOUS
    <2> HIDE DEF step
    <2> QED
      BY <2>1, <2>2, <2>3
  <1>5. f = [k \in 0 .. i |-> IF k = 0 THEN n ELSE 10 * f[k - 1]]
    <2>1. f = [k \in 0 .. i |-> f[k]]
      BY <1>4
    <2>2. \A k \in 0 .. i : f[k] = IF k = 0 THEN n ELSE 10 * f[k - 1]
      <3>1. \A k \in 0 .. i : k = 0 \/ k \in 1 .. i
        OBVIOUS
      <3> QED
        BY <1>4, <3>1
    <2> QED
      BY <2>1, <2>2, Zenon
  <1>6. shifted = [k \in 0 .. i |-> IF k = 0 THEN n ELSE 10 * shifted[k - 1]]
    BY <1>5, Zenon
  <1> HIDE DEF shifted
  <1>7. shifted[0] = f[0] /\ \A k \in 1 .. i : shifted[k - 1] = f[k - 1] => shifted[k] = f[k]
    <2>1. \A k \in 0 .. i : shifted[k] = IF k = 0 THEN n ELSE 10 * shifted[k - 1]
      BY <1>6, Zenon
    <2>2. 0 \in 0 .. i /\ \A k \in 1 .. i : k \in 0 .. i /\ k # 0
      OBVIOUS
    <2>3. shifted[0] = n /\ \A k \in 1 .. i : shifted[k] = 10 * shifted[k - 1]
      BY <2>1, <2>2, Zenon
    <2> QED
      BY <1>4, <2>3, Zenon
  <1>8. shifted[i] = f[i]
    BY <1>7, SameSteps
  <1> QED
    BY <1>1, <1>4, <1>8 DEF Shifts

(* What a shift comes to, one place after the other.                       *)
LEMMA ShiftIs ==
  \A n, i \in Nat :
    /\ Shift(n, i) \in Nat /\ Shift(n, 0) = n
    /\ Shift(n, i + 1) = 10 * Shift(n, i)
  <1>1. ASSUME NEW n \in Nat, NEW i \in Nat
        PROVE  Shift(n, i) \in Nat /\ Shift(n, i + 1) = 10 * Shift(n, i)
    <2>1. PICK f \in [0 .. i -> Nat] : Shifts(f, n, i) /\ Shift(n, i) = f[i]
      BY ShiftSteps
    <2>2. i + 1 \in Nat
      OBVIOUS
    <2>3. PICK g \in [0 .. i + 1 -> Nat] : Shifts(g, n, i + 1) /\ Shift(n, i + 1) = g[i + 1]
      BY <2>2, ShiftSteps, Zenon
    <2>4. f[0] = n /\ \A k \in 1 .. i : f[k] = 10 * f[k - 1]
      BY <2>1 DEF Shifts
    <2>5. g[0] = n /\ \A k \in 1 .. i + 1 : g[k] = 10 * g[k - 1]
      BY <2>3 DEF Shifts
    <2>6. \A k \in 1 .. i : f[k - 1] = g[k - 1] => f[k] = g[k]
      BY <2>4, <2>5
    <2>7. f[i] = g[i]
      <3>1. f[0] = g[0]
        BY <2>4, <2>5
      <3> QED
        BY <2>6, <3>1, SameSteps
    <2>8. g[i + 1] = 10 * g[i]
      <3>1. i + 1 \in 1 .. i + 1 /\ (i + 1) - 1 = i
        OBVIOUS
      <3> QED
        BY <2>5, <3>1
    <2>9. f[i] \in Nat
      BY <2>1
    <2> QED
      BY <2>1, <2>3, <2>7, <2>8, <2>9
  <1>2. ASSUME NEW n \in Nat PROVE Shift(n, 0) = n
    <2>1. PICK f \in [0 .. 0 -> Nat] : Shifts(f, n, 0) /\ Shift(n, 0) = f[0]
      BY ShiftSteps
    <2> QED
      BY <2>1 DEF Shifts
  <1> QED
    BY <1>1, <1>2

(* Shifting is linear.                                                     *)
LEMMA ShiftSum ==
  ASSUME NEW q \in Nat, NEW r \in Nat, NEW p \in Nat
  PROVE  Shift(8 * q + r, p) = 8 * Shift(q, p) + Shift(r, p)
  <1> DEFINE Good == {k \in 0 .. p : Shift(8 * q + r, k) = 8 * Shift(q, k) + Shift(r, k)}
             s == 8 * q + r
  <1>1. s \in Nat
    OBVIOUS
  <1> HIDE DEF s
  <1>2. 0 \in Good
    <2>1. Shift(s, 0) = s /\ Shift(q, 0) = q /\ Shift(r, 0) = r
      BY <1>1, ShiftIs
    <2> QED
      BY <2>1 DEF s
  <1>3. ASSUME NEW k \in 1 .. p, k - 1 \in Good PROVE k \in Good
    <2>1. k - 1 \in Nat /\ (k - 1) + 1 = k /\ k \in 0 .. p
      OBVIOUS
    <2>2. Shift(s, k - 1) = 8 * Shift(q, k - 1) + Shift(r, k - 1)
      BY <1>3 DEF s
    <2>0. \A n \in Nat : Shift(n, k - 1) \in Nat /\ Shift(n, k) = 10 * Shift(n, k - 1)
      <3> TAKE n \in Nat
      <3> DEFINE j == k - 1
      <3>1. j \in Nat /\ j + 1 = k
        BY <2>1
      <3> HIDE DEF j
      <3>2. Shift(n, j) \in Nat /\ Shift(n, j + 1) = 10 * Shift(n, j)
        BY <3>1, ShiftIs
      <3> QED
        BY <3>1, <3>2 DEF j
    <2>3. /\ Shift(s, k) = 10 * Shift(s, k - 1) /\ Shift(q, k) = 10 * Shift(q, k - 1)
          /\ Shift(r, k) = 10 * Shift(r, k - 1)
          /\ Shift(s, k - 1) \in Nat /\ Shift(q, k - 1) \in Nat /\ Shift(r, k - 1) \in Nat
      BY <1>1, <2>0
    <2>4. Shift(s, k) = 8 * Shift(q, k) + Shift(r, k)
      BY <2>2, <2>3
    <2> QED
      BY <2>1, <2>4 DEF s
  <1> HIDE DEF Good
  <1>4. p \in Good
    BY <1>2, <1>3, ThroughSteps
  <1> QED
    BY <1>4 DEF Good

(* The larger and the smaller of two numbers.                              *)
LEMMA MaxTwo ==
  \A a, b \in Int : Max({a, b}) = IF a > b THEN a ELSE b
  <1>1. ASSUME NEW a \in Int, NEW b \in Int PROVE Max({a, b}) = IF a > b THEN a ELSE b
    <2> DEFINE S == {a, b}
               n == IF a > b THEN a ELSE b
    <2>1. S \subseteq Int /\ n \in S /\ \A m \in S : m <= n
      OBVIOUS
    <2> HIDE DEF S, n
    <2>2. Max(S) = n
      BY <2>1, MaxIs
    <2> QED
      BY <2>2 DEF S, n
  <1> QED
    BY <1>1

LEMMA MinTwo ==
  \A a, b \in Int : Min({a, b}) = IF a < b THEN a ELSE b
  <1>1. ASSUME NEW a \in Int, NEW b \in Int PROVE Min({a, b}) = IF a < b THEN a ELSE b
    <2> DEFINE S == {a, b}
               n == IF a < b THEN a ELSE b
    <2>1. S \subseteq Int /\ n \in S /\ \A m \in S : n <= m
      OBVIOUS
    <2> HIDE DEF S, n
    <2>2. Min(S) \in S /\ \A m \in S : Min(S) <= m
      BY <2>1, Zenon DEF Min
    <2>3. Min(S) \in Int /\ n \in Int /\ Min(S) <= n /\ n <= Min(S)
      BY <2>1, <2>2
    <2>4. Min(S) = n
      BY <2>3
    <2> QED
      BY <2>4 DEF S, n
  <1> QED
    BY <1>1

(* The characters there are: those that are printed for a number, and    *)
(* those of the texts.                                                     *)
Printable == Seqs!ToSet(Digit) \cup {" ", "x", "+", "-", "."}
            \cup UNION {UNION {Seqs!ToSet(c.format[k].text) : k \in DOMAIN c.format} : c \in Calls}
Str == Seq(Printable)

LEMMA Joined ==
  \A s, t \in Str : s \o t \in Str /\ Len(s \o t) = Len(s) + Len(t)
                    /\ Len(s) \in Nat /\ Len(t) \in Nat
  BY ConcatProperties DEF Str

LEMMA ShortStr ==
  /\ <<>> \in Str /\ Len(<<>>) = 0
  /\ \A c \in Printable : <<c>> \in Str /\ Len(<<c>>) = 1
  /\ \A c \in Printable, d \in Printable : <<c, d>> \in Str /\ Len(<<c, d>>) = 2
  <1>1. <<>> \in Str /\ Len(<<>>) = 0
    BY DEF Str
  <1>2. ASSUME NEW c \in Printable PROVE <<c>> \in Str /\ Len(<<c>>) = 1
    BY DEF Str
  <1>3. ASSUME NEW c \in Printable, NEW d \in Printable PROVE <<c, d>> \in Str /\ Len(<<c, d>>) = 2
    BY DEF Str
  <1> QED
    BY <1>1, <1>2, <1>3, Zenon

(* A function on 1 .. n is a sequence of n values.                         *)
LEMMA SeqFrom ==
  \A X : \A n \in Nat : \A s \in [1 .. n -> X] : s \in Seq(X) /\ Len(s) = n
  <1> TAKE X
  <1> TAKE n \in Nat
  <1> TAKE s \in [1 .. n -> X]
  <1>1. s \in Seq(X)
    BY SeqDef, Zenon
  <1>2. DOMAIN s = 1 .. n
    OBVIOUS
  <1>3. Len(s) \in Nat /\ DOMAIN s = 1 .. Len(s)
    BY <1>1, LenProperties
  <1> QED
    BY <1>1, <1>2, <1>3

LEMMA StrOf ==
  ASSUME NEW n \in Nat, NEW s \in [1 .. n -> Printable]
  PROVE  s \in Str /\ Len(s) = n
  BY SeqFrom, Zenon DEF Str

LEMMA FillIs ==
  \A c \in Printable, n \in Int :
    Fill(c, n) \in Str /\ Len(Fill(c, n)) \in Nat /\ Len(Fill(c, n)) = IF n > 0 THEN n ELSE 0
  <1>1. ASSUME NEW c \in Printable, NEW n \in Int, n > 0
        PROVE  Fill(c, n) \in Str /\ Len(Fill(c, n)) = n
    <2>1. n \in Nat /\ Fill(c, n) \in [1 .. n -> Printable]
      BY <1>1 DEF Fill
    <2> QED
      BY <2>1, StrOf
  <1>2. ASSUME NEW c \in Printable, NEW n \in Int, ~(n > 0)
        PROVE  Fill(c, n) \in Str /\ Len(Fill(c, n)) = 0
    <2>1. 1 .. n = 1 .. 0
      BY <1>2
    <2>2. Fill(c, n) = [i \in 1 .. 0 |-> c]
      BY <2>1 DEF Fill
    <2>3. Fill(c, n) \in [1 .. 0 -> Printable]
      BY <2>2
    <2> QED
      BY <2>3, StrOf
  <1> QED
    BY <1>1, <1>2

LEMMA DigitIs ==
  \A i \in 1 .. 16 : Digit[i] \in Printable
  <1>1. Digit \in [1 .. 16 -> Seqs!ToSet(Digit)]
    <2>1. DOMAIN Digit = 1 .. 16
      BY DEF Digit
    <2>2. Digit = [i \in DOMAIN Digit |-> Digit[i]]
      BY DEF Digit
    <2> QED
      BY <2>1, <2>2, Zenon DEF Seqs!ToSet
  <1> QED
    BY <1>1 DEF Printable

LEMMA SymbolIs ==
  /\ "0" \in Printable /\ " " \in Printable /\ "x" \in Printable
  /\ "+" \in Printable /\ "-" \in Printable /\ "." \in Printable
  <1>1. Digit[1] = "0"
    BY DEF Digit
  <1>2. "0" \in Printable
    BY <1>1, DigitIs
  <1> QED
    BY <1>2 DEF Printable

-----------------------------------------------------------------------------
(* The digits of a number                                                  *)

DigitsOf(f, n, base) ==
  f = [m \in 0 .. n |-> IF m = 0 THEN <<>> ELSE Append(f[m \div base], Digit[(m % base) + 1])]

(* A division makes a number smaller, down to zero.                        *)
LEMMA Shrinks ==
  ASSUME NEW base \in 2 .. 16, NEW m \in Nat \ {0}
  PROVE  m \div base \in Nat /\ m \div base < m /\ (m % base) + 1 \in 1 .. 16
  <1>1. m \div base \in Nat /\ m % base \in 0 .. base - 1
    OBVIOUS
  <1>2. m = base * (m \div base) + (m % base)
    OBVIOUS
  <1>3. m \div base < m
    <2> DEFINE q == m \div base
               r == m % base
    <2>1. q \in Nat /\ r \in Nat /\ m = base * q + r
      BY <1>1, <1>2
    <2> HIDE DEF q, r
    <2>2. base * q >= 2 * q
      <3>1. (base - 2) * q >= 0
        BY <2>1
      <3>2. (base - 2) * q = base * q - 2 * q
        BY <2>1
      <3>3. base * q \in Int /\ 2 * q \in Int
        BY <2>1
      <3> QED
        BY <3>1, <3>2, <3>3
    <2>3. base * q \in Int
      BY <2>1
    <2>4. q < m
      BY <2>1, <2>2, <2>3
    <2> QED
      BY <2>4 DEF q
  <1>4. (m % base) + 1 \in 1 .. 16
    BY <1>1
  <1> QED
    BY <1>1, <1>3, <1>4

LEMMA DigitsExist ==
  ASSUME NEW n \in Nat, NEW base \in 2 .. 16
  PROVE  \E f : DigitsOf(f, n, base)
  <1> DEFINE D == 1 .. n
             over == [m \in D |-> m \div base]
             step == [m \in D |-> [v \in Str |-> Append(v, Digit[(m % base) + 1])]]
  <1>1. 0 \notin D /\ \A m \in D : m \in Nat \ {0} /\ m \div base \in D \cup {0}
    BY Shrinks
  <1>2. over \in [D -> D \cup {0}]
    <2> HIDE DEF D
    <2> QED
      BY <1>1
  <1>3. Ends(over, D)
    <2>1. ASSUME NEW S \in SUBSET D, S # {} PROVE \E k \in S : over[k] \notin S
      <3>1. S \subseteq Nat
        BY <1>1
      <3>2. PICK k \in S : \A m \in S : k <= m
        BY <2>1, <3>1, MinimalNat
      <3>3. over[k] = k \div base /\ k \in Nat \ {0}
        BY <1>1
      <3>4. k \div base \in Nat /\ k \div base < k
        BY <3>3, Shrinks
      <3>5. k \div base \notin S
        BY <3>2, <3>3, <3>4
      <3> QED
        BY <3>3, <3>5
    <2> QED
      BY <2>1 DEF Ends
  <1>4. step \in [D -> [Str -> Str]]
    <2>1. ASSUME NEW m \in D, NEW v \in Str PROVE Append(v, Digit[(m % base) + 1]) \in Str
      <3>1. Digit[(m % base) + 1] \in Printable
        BY <1>1, Shrinks, DigitIs
      <3> QED
        BY <3>1, AppendProperties DEF Str
    <2> HIDE DEF D
    <2> QED
      BY <2>1
  <1>5. Walk(D, 0, over, Str, <<>>, step)
    <2> HIDE DEF D, over, step
    <2> QED
      BY <1>1, <1>2, <1>3, <1>4, ShortStr DEF Walk
  <1>6. PICK f : Walks(f, D, 0, over, Str, <<>>, step)
    <2> HIDE DEF D, over, step
    <2> QED
      BY <1>5, WalkExists
  <1>7. f \in [D \cup {0} -> Str] /\ f[0] = <<>> /\ \A k \in D : f[k] = step[k][f[over[k]]]
    BY <1>6 DEF Walks
  <1>8. D \cup {0} = 0 .. n
    OBVIOUS
  <1>9. ASSUME NEW k \in 0 .. n
        PROVE  f[k] = IF k = 0 THEN <<>> ELSE Append(f[k \div base], Digit[(k % base) + 1])
    <2>1. CASE k = 0
      BY <1>7, <2>1
    <2>2. CASE k # 0
      <3>1. k \in D
        BY <2>2
      <3>2. f[k] = step[k][f[over[k]]] /\ over[k] = k \div base /\ over[k] \in D \cup {0}
        BY <1>2, <1>7, <3>1
      <3>3. f[k \div base] \in Str
        <4> HIDE DEF D
        <4> QED
          BY <1>7, <3>2
      <3>4. step[k][f[k \div base]] = Append(f[k \div base], Digit[(k % base) + 1])
        <4> HIDE DEF D
        <4> QED
          BY <3>1, <3>3
      <3> QED
        BY <2>2, <3>2, <3>4
    <2> QED
      BY <2>1, <2>2
  <1>10. f = [k \in 0 .. n |-> f[k]]
    BY <1>7, <1>8
  <1>11. f = [k \in 0 .. n |-> IF k = 0 THEN <<>> ELSE Append(f[k \div base], Digit[(k % base) + 1])]
    <2> HIDE DEF D, over, step
    <2> QED
      BY <1>9, <1>10
  <1> QED
    BY <1>11 DEF DigitsOf

LEMMA DigitsAre ==
  ASSUME NEW n \in Nat, NEW base \in 2 .. 16, NEW f, DigitsOf(f, n, base), NEW m \in 0 .. n
  PROVE  f[m] \in Str
  <1> DEFINE T == {k \in Nat : k <= n /\ f[k] \notin Str}
  <1>1. SUFFICES ASSUME T # {} PROVE FALSE
    <2>1. m \in Nat /\ m <= n
      OBVIOUS
    <2> QED
      BY <1>1, <2>1
  <1>2. PICK k \in T : \A l \in T : k <= l
    <2>1. T \subseteq Nat
      OBVIOUS
    <2> HIDE DEF T
    <2> QED
      BY <1>1, <2>1, MinimalNat
  <1>3. k \in Nat /\ k <= n /\ f[k] \notin Str /\ k \in 0 .. n
    BY <1>2
  <1>4. f[k] = IF k = 0 THEN <<>> ELSE Append(f[k \div base], Digit[(k % base) + 1])
    BY <1>3, Zenon DEF DigitsOf
  <1>5. k # 0
    BY <1>3, <1>4, ShortStr
  <1>6. k \div base \in Nat /\ k \div base < k /\ (k % base) + 1 \in 1 .. 16
    BY <1>3, <1>5, Shrinks
  <1>7. f[k \div base] \in Str
    <2>1. k \div base \notin T
      <3> HIDE DEF T
      <3> QED
        BY <1>2, <1>3, <1>6
    <2>2. k \div base <= n
      BY <1>3, <1>6
    <2> QED
      BY <1>6, <2>1, <2>2
  <1>8. Append(f[k \div base], Digit[(k % base) + 1]) \in Str
    <2>1. Digit[(k % base) + 1] \in Printable
      BY <1>6, DigitIs
    <2> QED
      BY <1>7, <2>1, AppendProperties DEF Str
  <1> QED
    BY <1>3, <1>4, <1>5, <1>8

LEMMA UnsignedIs ==
  ASSUME NEW n \in Nat, NEW base \in 2 .. 16
  PROVE  StringifyULL(n, base) \in Str
  <1> DEFINE digits == CHOOSE f : DigitsOf(f, n, base)
  <1>1. StringifyULL(n, base) = IF n = 0 THEN <<"0">> ELSE digits[n]
    BY DEF StringifyULL, DigitsOf
  <1>2. DigitsOf(digits, n, base)
    BY DigitsExist
  <1> HIDE DEF digits
  <1>3. digits[n] \in Str
    <2>1. n \in 0 .. n
      OBVIOUS
    <2> QED
      BY <1>2, <2>1, DigitsAre
  <1>4. <<"0">> \in Str
    BY SymbolIs, ShortStr, Zenon
  <1> QED
    BY <1>1, <1>3, <1>4

-----------------------------------------------------------------------------
(* Fields                                                                  *)

(* A power of two is positive: it counts the subsets of a set.             *)
LEMMA PowerOfTwo ==
  \A b \in Nat : 2 ^ b \in Nat /\ 2 ^ b > 0
  <1> TAKE b \in Nat
  <1> DEFINE S == 1 .. b
  <1>1. IsFiniteSet(S) /\ Cardinality(S) = b
    <2>1. 1 \in Int /\ b \in Int
      OBVIOUS
    <2> QED
      BY <2>1, FS_Interval
  <1> HIDE DEF S
  <1>2. IsFiniteSet(SUBSET S) /\ Cardinality(SUBSET S) = 2 ^ b
    BY <1>1, FS_SUBSET
  <1>3. SUBSET S # {}
    OBVIOUS
  <1>4. Cardinality(SUBSET S) \in Nat /\ Cardinality(SUBSET S) # 0
    BY <1>2, <1>3, FS_CardinalityType, FS_EmptySet
  <1> QED
    BY <1>2, <1>4

LEMMA WidthOf ==
  \A n \in Int, b \in Nat : Unsigned(n, b) \in Nat /\ TwosComplement(n, b) \in Int
  <1>1. ASSUME NEW n \in Int, NEW b \in Nat
        PROVE  Unsigned(n, b) \in Nat /\ TwosComplement(n, b) \in Int
    <2> DEFINE w == 2 ^ b
    <2>1. w \in Nat /\ w > 0
      BY PowerOfTwo
    <2>2. Unsigned(n, b) = n % w
      BY DEF Unsigned
    <2>3. TwosComplement(n, b) \in {Unsigned(n, b), Unsigned(n, b) - w}
      BY DEF TwosComplement
    <2> HIDE DEF w
    <2>4. Unsigned(n, b) \in Nat
      BY <2>1, <2>2
    <2> QED
      BY <2>1, <2>3, <2>4
  <1> QED
    BY <1>1

LEMMA FetchIs ==
  ASSUME NEW f, f.arg \in Int, f.conv \in Numeric
  PROVE  Fetch(f) \in Int /\ (f.conv \in {"u", "x", "o", "p"} => Fetch(f) \in Nat)
  <1>1. CharBits \in Nat /\ IntBits \in Nat /\ LongLongBits \in Nat
    BY WidthsAssumption
  <1>2. /\ TwosComplement(f.arg, CharBits) \in Int /\ TwosComplement(f.arg, IntBits) \in Int
        /\ TwosComplement(f.arg, LongLongBits) \in Int
        /\ Unsigned(f.arg, IntBits) \in Nat /\ Unsigned(f.arg, LongLongBits) \in Nat
    BY <1>1, WidthOf
  <1>3. Unsigned(TwosComplement(f.arg, IntBits), LongLongBits) \in Nat
    BY <1>1, <1>2, WidthOf
  <1>4. CASE f.conv \in Signed
    <2>1. ~(f.conv \in {"u", "x", "o", "p"})
      BY <1>4 DEF Signed
    <2>2. Fetch(f) \in {TwosComplement(f.arg, CharBits), TwosComplement(f.arg, IntBits),
                        TwosComplement(f.arg, LongLongBits), Unsigned(f.arg, IntBits),
                        Unsigned(f.arg, LongLongBits),
                        Unsigned(TwosComplement(f.arg, IntBits), LongLongBits)}
      BY Zenon DEF Fetch
    <2> QED
      BY <1>2, <1>3, <2>1, <2>2
  <1>5. CASE ~(f.conv \in Signed)
    <2>1. Fetch(f) \in {Unsigned(f.arg, IntBits), Unsigned(f.arg, LongLongBits),
                        Unsigned(TwosComplement(f.arg, IntBits), LongLongBits)}
      BY <1>5, Zenon DEF Fetch
    <2> QED
      BY <1>2, <1>3, <2>1
  <1> QED
    BY <1>4, <1>5

LEMMA AbsIs ==
  \A n \in Int : Abs(n) \in Nat
  BY DEF Abs

LEMMA SignIs ==
  \A n, plus, space : Sign(n, plus, space) \in Str
  <1>1. <<"-">> \in Str /\ <<"+">> \in Str /\ <<" ">> \in Str /\ <<>> \in Str
    BY SymbolIs, ShortStr, Zenon
  <1> QED
    BY <1>1, Zenon DEF Sign, Space

LEMMA SignedIs ==
  ASSUME NEW n \in Int, NEW base \in 2 .. 16, NEW plus, NEW space
  PROVE  StringifyLL(n, base, plus, space) \in Str
  <1>1. StringifyULL(Abs(n), base) \in Str
    BY AbsIs, UnsignedIs
  <1> QED
    BY <1>1, SignIs, Joined DEF StringifyLL

LEMMA DecimalIs ==
  ASSUME NEW n \in Int, NEW plus, NEW space, NEW prec \in Nat
  PROVE  StringifyD(n, plus, space, prec) \in Str
  <1> DEFINE frac == Abs(n) % Eighths
             digit(i) == Digit[((Shift(frac, i) \div Eighths) % 10) + 1]
             places == [i \in 1 .. prec |-> digit(i)]
             rest == IF prec = 0 THEN <<>> ELSE <<".">> \o places
  <1>1. Abs(n) \in Nat /\ frac \in Nat /\ Abs(n) \div Eighths \in Nat
    BY AbsIs DEF Eighths
  <1>2. ASSUME NEW i \in 1 .. prec PROVE digit(i) \in Printable
    <2> DEFINE p == Shift(frac, i)
    <2>1. p \in Nat
      <3>1. i \in Nat
        OBVIOUS
      <3> HIDE DEF frac
      <3> QED
        BY <1>1, <3>1, ShiftIs
    <2> HIDE DEF p
    <2>2. p \div Eighths \in Int
      BY <2>1 DEF Eighths
    <2>3. ((p \div Eighths) % 10) + 1 \in 1 .. 16
      BY <2>2
    <2> QED
      BY <2>3, DigitIs DEF p
  <1>3. places \in [1 .. prec -> Printable]
    <2> HIDE DEF digit
    <2> QED
      BY <1>2
  <1>4. places \in Str
    <2> HIDE DEF places
    <2> QED
      BY <1>3, StrOf
  <1>5. rest \in Str
    <2> HIDE DEF places
    <2>1. <<".">> \in Str /\ <<>> \in Str
      BY SymbolIs, ShortStr, Zenon
    <2>2. <<".">> \o places \in Str
      BY <1>4, <2>1, Joined, Zenon
    <2> QED
      BY <2>1, <2>2
  <1>6. Sign(n, plus, space) \in Str /\ StringifyULL(Abs(n) \div Eighths, 10) \in Str
    BY <1>1, SignIs, UnsignedIs
  <1>7. StringifyD(n, plus, space, prec)
          = Sign(n, plus, space) \o StringifyULL(Abs(n) \div Eighths, 10) \o rest
    BY DEF StringifyD
  <1> HIDE DEF rest
  <1> QED
    BY <1>5, <1>6, <1>7, Joined, Zenon

LEMMA FieldParts ==
  ASSUME NEW f, FieldType(f)
  PROVE  f.width \in Int /\ f.prec \in Int /\ (f.conv \in Numeric => f.arg \in Int)
  <1>1. f.width \in Ints /\ f.prec \in Ints /\ (f.conv \in Numeric => f.arg \in Int)
    BY Zenon DEF FieldType
  <1>2. \A n \in Ints : n \in Int
    BY DEF Ints
  <1> QED
    BY <1>1, <1>2

LEMMA OneLetter ==
  ASSUME NEW f, FieldType(f), f.conv \in {"lit", "c", "%"}
  PROVE  Len(f.text) = 1 /\ f.text = <<f.text[1]>> /\ f.text[1] # NUL
  <1>1. /\ f.text \in Seq(Seqs!ToSet(f.text)) /\ NUL \notin Seqs!ToSet(f.text)
        /\ f.conv \in {"lit", "c"} => Len(f.text) = 1
        /\ f.conv = "%" => f.text = <<"%">>
    BY Zenon DEF FieldType
  <1>2. Len(f.text) = 1
    <2>1. ASSUME f.conv = "%" PROVE Len(f.text) = 1
      <3>1. f.text = <<"%">>
        BY <1>1, <2>1, Zenon
      <3>2. Len(<<"%">>) = 1
        OBVIOUS
      <3> QED
        BY <3>1, <3>2, Zenon
    <2> QED
      BY <1>1, <2>1
  <1>3. f.text[1] \in Seqs!ToSet(f.text)
    BY <1>1, <1>2, ElementOfSeq
  <1>4. f.text = <<f.text[1]>>
    BY <1>1, <1>2
  <1> QED
    BY <1>1, <1>2, <1>3, <1>4

LEMMA NumberIs ==
  ASSUME NEW f, FieldType(f), f.conv \in Numeric
  PROVE  Number(f) \in Str /\ Len(Number(f)) \in Nat
  <1>1. f.arg \in Int /\ f.prec \in Int
    BY FieldParts
  <1>2. Fetch(f) \in Int /\ (f.conv \in {"u", "x", "o", "p"} => Fetch(f) \in Nat)
    BY <1>1, FetchIs
  <1>3. CASE f.conv \in Signed
    <2>1. f.conv # "f"
      BY <1>3 DEF Signed
    <2>2. Number(f) = StringifyLL(Fetch(f), 10, f.plus, f.space)
      BY <1>3, <2>1, Zenon DEF Number
    <2>3. Number(f) \in Str
      <3>1. 10 \in 2 .. 16
        OBVIOUS
      <3> QED
        BY <1>2, <2>2, <3>1, SignedIs
    <2> QED
      BY <2>3, Joined
  <1>4. CASE f.conv = "f"
    <2>1. f.conv \notin Signed
      BY <1>4 DEF Signed
    <2>2. Number(f) = StringifyD(f.arg, f.plus, f.space, Places(f))
      BY <1>4, <2>1, Zenon DEF Number
    <2>3. Places(f) \in Nat
      BY <1>1 DEF Places
    <2>4. Number(f) \in Str
      BY <1>1, <2>2, <2>3, DecimalIs
    <2> QED
      BY <2>4, Joined
  <1>5. CASE f.conv \notin Signed /\ f.conv # "f"
    <2>1. Number(f) = StringifyULL(Fetch(f), Base(f.conv))
      BY <1>5, Zenon DEF Number
    <2>2. f.conv \in {"u", "x", "o", "p"}
      BY <1>5 DEF Numeric, Signed
    <2>3. Base(f.conv) \in {8, 10, 16}
      BY Zenon DEF Base
    <2>4. Base(f.conv) \in 2 .. 16
      BY <2>3
    <2>5. Number(f) \in Str
      BY <1>2, <2>1, <2>2, <2>4, UnsignedIs
    <2> QED
      BY <2>5, Joined
  <1> QED
    BY <1>3, <1>4, <1>5

LEMMA DecorationIs ==
  \A f : Decoration(f) \in Str /\ Len(Decoration(f)) \in Nat
  <1>1. <<"0", "x">> \in Str /\ <<"0">> \in Str /\ <<>> \in Str
    BY SymbolIs, ShortStr, Zenon
  <1>2. \A f : Decoration(f) \in Str
    BY <1>1, Zenon DEF Decoration
  <1> QED
    BY <1>2, Joined

LEMMA ExcessIs ==
  ASSUME NEW f, FieldType(f), f.conv \in Numeric
  PROVE  /\ Excess(f) \in Int
         /\ Excess(f) < 0 => /\ 0 < f.prec /\ f.prec < Len(Number(f)) /\ f.conv # "f"
  <1>1. Len(Number(f)) \in Nat
    BY NumberIs
  <1>2. f.prec \in Int
    BY FieldParts
  <1> QED
    BY <1>1, <1>2 DEF Excess

(* Strings laid end to end.                                                *)
LEMMA Joined3 ==
  \A s, t, u \in Str : s \o t \o u \in Str /\ Len(s \o t \o u) = Len(s) + Len(t) + Len(u)
  <1> TAKE s, t, u \in Str
  <1> DEFINE st == s \o t
  <1>1. st \in Str /\ Len(st) = Len(s) + Len(t)
    BY Joined, Zenon
  <1> HIDE DEF st
  <1>2. st \o u \in Str /\ Len(st \o u) = Len(st) + Len(u)
    BY <1>1, Joined, Zenon
  <1> QED
    BY <1>1, <1>2, Zenon DEF st

(* What fills a field up to its width.                                     *)
LEMMA PadUp ==
  \A w \in Int : \A N, D, more \in Nat : \A n \in Int : n = w - N - D - more =>
    /\ D + (IF n > 0 THEN n ELSE 0) + (more + N) = IF w > D + N + more THEN w ELSE D + N + more
    /\ (IF n > 0 THEN n ELSE 0) + D + (more + N) = IF w > D + N + more THEN w ELSE D + N + more
  OBVIOUS

(* A field is a string, and as wide as FieldExact says.                    *)
LEMMA NumberFieldIs ==
  ASSUME NEW f, FieldType(f), f.conv \in Numeric
  PROVE  /\ NumberField(f) \in Str
         /\ ~Undercut(f) => Len(NumberField(f)) = Max({f.width, Content(f)})
  <1> DEFINE N == Len(Number(f))
             D == Len(Decoration(f))
             E == Excess(f)
             more == IF E > 0 THEN E ELSE 0
             body == Fill("0", E) \o Number(f)
             padding == f.width - N - D
             wide == IF f.width > D + N + more THEN f.width ELSE D + N + more
             Good(s) == s \in Str /\ (~Undercut(f) => Len(s) = wide)
  <1>1. /\ N \in Nat /\ D \in Nat /\ E \in Int /\ f.width \in Int /\ f.prec \in Int
        /\ Number(f) \in Str /\ Decoration(f) \in Str
        /\ E < 0 => 0 < f.prec /\ f.prec < N /\ f.conv # "f"
    <2>1. f.width \in Int /\ f.prec \in Int
      BY FieldParts
    <2> QED
      BY <2>1, NumberIs, DecorationIs, ExcessIs
  <1>2. body \in Str /\ Len(body) = more + N
    <2> DEFINE zeros == Fill("0", E)
    <2>1. zeros \in Str /\ Len(zeros) = more
      BY <1>1, FillIs, SymbolIs
    <2>2. Number(f) \in Str /\ N \in Nat
      BY <1>1
    <2> HIDE DEF zeros, more
    <2>3. zeros \o Number(f) \in Str /\ Len(zeros \o Number(f)) = Len(zeros) + N
      BY <2>1, <2>2, Joined, Zenon
    <2> QED
      BY <2>1, <2>3, Zenon DEF zeros
  <1>3. Max({0, E}) = more /\ Max({f.width, Content(f)}) = wide
    <2>1. Max({0, E}) = more
      BY <1>1, MaxTwo
    <2>2. Content(f) = D + N + more
      BY <2>1 DEF Content
    <2>3. D + N + more \in Int
      BY <1>1
    <2>4. Max({f.width, Content(f)}) = IF f.width > Content(f) THEN f.width ELSE Content(f)
      BY <1>1, <2>2, <2>3, MaxTwo
    <2> HIDE DEF more
    <2> QED
      BY <2>1, <2>2, <2>4
  <1>4. more \in Nat /\ (E >= 0 => more = E) /\ (E < 0 => more = 0) /\ padding \in Int
    BY <1>1
  <1>5. NumberField(f) = CASE N >= f.width -> Decoration(f) \o body
          [] N < f.width /\ f.left ->
               Decoration(f) \o body \o Fill(Space, padding - Max({0, E}))
          [] N < f.width /\ ~f.left /\ f.zero ->
               Decoration(f) \o Fill("0", padding - E) \o body
          [] OTHER -> Fill(Space, padding - E) \o Decoration(f) \o body
    BY Zenon DEF NumberField
  <1>6. ~Undercut(f) /\ ~f.left /\ N < f.width => E >= 0
    <2>1. ASSUME E < 0, ~f.left, N < f.width PROVE Undercut(f)
      BY <1>1, <2>1 DEF Undercut
    <2> QED
      BY <1>1, <2>1
  <1> HIDE DEF N, E, more, body
  <1>7. CASE N >= f.width
    <2>1. NumberField(f) = Decoration(f) \o body
      <3>1. ~(N < f.width)
        BY <1>1, <1>7
      <3> QED
        BY <1>5, <1>7, <3>1, Zenon
    <2>2. Decoration(f) \o body \in Str /\ Len(Decoration(f) \o body) = D + Len(body)
      BY <1>1, <1>2, Joined
    <2>3. D + Len(body) = wide
      BY <1>1, <1>2, <1>4, <1>7
    <2> QED
      BY <1>3, <2>1, <2>2, <2>3, Zenon
  <1>8. CASE N < f.width /\ f.left
    <2> DEFINE n == padding - more
               fill == Fill(Space, n)
    <2>1. ~(N >= f.width)
      BY <1>1, <1>8
    <2>2. NumberField(f) = Decoration(f) \o body \o fill
      BY <1>3, <1>5, <1>8, <2>1, Zenon
    <2>3. n \in Int
      BY <1>4
    <2> HIDE DEF n
    <2>4. fill \in Str /\ Len(fill) = IF n > 0 THEN n ELSE 0
      BY <2>3, FillIs, SymbolIs DEF Space
    <2> HIDE DEF fill
    <2>5. /\ Decoration(f) \o body \o fill \in Str
          /\ Len(Decoration(f) \o body \o fill) = D + Len(body) + Len(fill)
      BY <1>1, <1>2, <2>4, Joined3
    <2>6. Len(body) = more + N /\ Len(fill) = IF n > 0 THEN n ELSE 0
      BY <1>2, <2>4, Zenon
    <2>7. D + (more + N) + (IF n > 0 THEN n ELSE 0) = wide
      BY <1>1, <1>4 DEF n
    <2> QED
      BY <1>3, <2>2, <2>5, <2>6, <2>7, Zenon
  <1>9. CASE N < f.width /\ ~f.left
    <2> DEFINE n == padding - E
               zeros == Fill("0", n)
               blanks == Fill(Space, n)
    <2>1. ~(N >= f.width)
      BY <1>1, <1>9
    <2>2. NumberField(f) \in {Decoration(f) \o zeros \o body, blanks \o Decoration(f) \o body}
      BY <1>5, <1>9, <2>1, Zenon
    <2>3. n \in Int
      BY <1>1, <1>4
    <2> HIDE DEF n
    <2>4. /\ zeros \in Str /\ Len(zeros) = IF n > 0 THEN n ELSE 0
          /\ blanks \in Str /\ Len(blanks) = IF n > 0 THEN n ELSE 0
      BY <2>3, FillIs, SymbolIs DEF Space
    <2> HIDE DEF zeros, blanks
    <2>5. /\ Decoration(f) \o zeros \o body \in Str
          /\ Len(Decoration(f) \o zeros \o body) = D + Len(zeros) + Len(body)
          /\ blanks \o Decoration(f) \o body \in Str
          /\ Len(blanks \o Decoration(f) \o body) = Len(blanks) + D + Len(body)
      BY <1>1, <1>2, <2>4, Joined3
    <2>6. ASSUME ~Undercut(f)
          PROVE  D + Len(zeros) + Len(body) = wide /\ Len(blanks) + D + Len(body) = wide
      <3>1. E >= 0 /\ more = E
        BY <1>4, <1>6, <1>9, <2>6
      <3>2. /\ Len(body) = more + N
            /\ Len(zeros) = (IF n > 0 THEN n ELSE 0) /\ Len(blanks) = IF n > 0 THEN n ELSE 0
        BY <1>2, <2>4, Zenon
      <3>3. n \in Int /\ n = f.width - N - D - more
        BY <1>1, <1>4, <3>1 DEF n
      <3>4. /\ D + (IF n > 0 THEN n ELSE 0) + (more + N) = wide
            /\ (IF n > 0 THEN n ELSE 0) + D + (more + N) = wide
        <4>1. f.width \in Int /\ N \in Nat /\ D \in Nat /\ more \in Nat
          BY <1>1, <1>4
        <4> DEFINE w == f.width
        <4> HIDE DEF w, D
        <4>2. w \in Int /\ D \in Nat /\ n \in Int /\ n = w - N - D - more
          BY <3>3, <4>1 DEF w, D
        <4>3. /\ D + (IF n > 0 THEN n ELSE 0) + (more + N)
                   = IF w > D + N + more THEN w ELSE D + N + more
              /\ (IF n > 0 THEN n ELSE 0) + D + (more + N)
                   = IF w > D + N + more THEN w ELSE D + N + more
          BY <4>1, <4>2, PadUp
        <4> QED
          BY <4>3 DEF w
      <3> QED
        BY <3>2, <3>4, Zenon
    <2> HIDE DEF D, wide
    <2> QED
      BY <1>3, <2>2, <2>5, <2>6
  <1> QED
    BY <1>1, <1>7, <1>8, <1>9

(* A text is written to its end at most.                                   *)
LEMMA SizeIs ==
  ASSUME NEW f, FieldType(f), f.text \in Str
  PROVE  /\ Size(f) \in Int /\ Len(f.text) \in Nat /\ Size(f) <= Len(f.text)
         /\ f.conv # "s" => ~Overruns(f) /\ Text(f) = f.text
  <1>1. f.text \in Seq(Printable) /\ Len(f.text) \in Nat /\ f.prec \in Int
    BY FieldParts, Joined DEF Str
  <1>2. Size(f) \in Int /\ Size(f) <= Len(f.text) /\ (f.conv # "s" => Size(f) = Len(f.text))
    BY <1>1 DEF Size
  <1>3. SubSeq(f.text, 1, Len(f.text)) = f.text
    BY <1>1, SubSeqFull
  <1>4. ASSUME f.conv # "s" PROVE ~Overruns(f) /\ Text(f) = f.text
    <2>1. Size(f) = Len(f.text) /\ ~(Size(f) < 0)
      BY <1>1, <1>2, <1>4
    <2>2. ~Overruns(f)
      BY <2>1, Zenon DEF Overruns
    <2>3. Text(f) = SubSeq(f.text, 1, Size(f))
      BY <2>2, Zenon DEF Text
    <2> QED
      BY <1>3, <2>1, <2>2, <2>3
  <1> QED
    BY <1>1, <1>2, <1>4

LEMMA TextIs ==
  ASSUME NEW f, FieldType(f), f.text \in Str, ~Overruns(f)
  PROVE  /\ Text(f) = SubSeq(f.text, 1, Size(f)) /\ Text(f) \in Str
         /\ Len(Text(f)) \in Nat /\ Len(Text(f)) = Size(f)
  <1> DEFINE n == Size(f)
             t == f.text
  <1>1. t \in Seq(Printable) /\ Len(t) \in Nat /\ n \in Int /\ n <= Len(t)
    BY SizeIs DEF Str
  <1>2. n >= 0 /\ Text(f) = SubSeq(t, 1, n)
    BY <1>1 DEF Overruns, Text
  <1> HIDE DEF n, t
  <1>3. n \in Nat
    BY <1>1, <1>2
  <1>4. \A i \in 1 .. n : t[i] \in Printable
    BY <1>1, <1>2, ElementOfSeq
  <1>5. SubSeq(t, 1, n) \in Str /\ Len(SubSeq(t, 1, n)) = n
    BY <1>1, <1>3, <1>4, SubSeqProperties DEF Str
  <1> QED
    BY <1>2, <1>3, <1>5 DEF n, t

(* What write is given: characters and, of a text that is overrun, what    *)
(* lies behind it.                                                         *)
Bytes == Printable \cup {NUL, Unwritten}
Output == Seq(Bytes)

LEMMA OutputIs ==
  /\ \A s \in Str : s \in Output
  /\ \A s, t \in Output : s \o t \in Output /\ Len(s \o t) = Len(s) + Len(t)
                          /\ Len(s) \in Nat /\ Len(t) \in Nat
  <1>1. Printable \subseteq Bytes
    BY DEF Bytes
  <1>2. \A s \in Str : s \in Output
    BY <1>1, SeqMonotonic DEF Str, Output
  <1>3. \A s, t \in Output : s \o t \in Output /\ Len(s \o t) = Len(s) + Len(t)
                            /\ Len(s) \in Nat /\ Len(t) \in Nat
    BY ConcatProperties DEF Output
  <1> QED
    BY <1>2, <1>3

LEMMA TextIsOutput ==
  ASSUME NEW f, FieldType(f), f.text \in Str
  PROVE  Text(f) \in Output
  <1>1. CASE ~Overruns(f)
    BY <1>1, TextIs, OutputIs
  <1>2. CASE Overruns(f)
    <2> DEFINE n == Unsigned(Size(f), IntBits)
               t == f.text
               end == Len(t)
               byte(i) == IF i <= end THEN t[i] ELSE IF i = end + 1 THEN NUL ELSE Unwritten
    <2>1. Size(f) \in Int /\ end \in Nat /\ IntBits \in Nat
      BY SizeIs, WidthsAssumption
    <2>2. n \in Nat
      BY <2>1, WidthOf
    <2>3. t \in Seq(Printable)
      BY DEF Str
    <2> HIDE DEF n, t
    <2>4. \A i \in 1 .. n : byte(i) \in Bytes
      <3> TAKE i \in 1 .. n
      <3>1. i <= end => t[i] \in Printable
        <4> SUFFICES ASSUME i <= end PROVE t[i] \in Printable
          OBVIOUS
        <4>1. i \in 1 .. end
          BY <2>1, <2>2
        <4> QED
          BY <2>3, <4>1, ElementOfSeq
      <3> QED
        BY <3>1 DEF Bytes
    <2>5. [i \in 1 .. n |-> byte(i)] \in [1 .. n -> Bytes]
      BY <2>4
    <2>6. [i \in 1 .. n |-> byte(i)] \in Output
      BY <2>2, <2>5, SeqFrom, Zenon DEF Output
    <2>7. Text(f) = [i \in 1 .. n |-> byte(i)]
      BY <1>2, Zenon DEF Text, Overrun, n, t
    <2> QED
      BY <2>6, <2>7
  <1> QED
    BY <1>1, <1>2

LEMMA TextFieldIs ==
  ASSUME NEW f, FieldType(f), f.text \in Str, f.conv \notin Numeric
  PROVE  /\ TextField(f) \in Output
         /\ ~Overruns(f) => /\ TextField(f) \in Str
                            /\ Len(TextField(f)) = Max({f.width, Content(f)})
  <1> DEFINE n == f.width - Size(f)
             blanks == Fill(Space, n)
  <1>1. f.width \in Int /\ Size(f) \in Int /\ Text(f) \in Output
    BY FieldParts, SizeIs, TextIsOutput
  <1>2. n \in Int
    BY <1>1
  <1> HIDE DEF n
  <1>3. blanks \in Str /\ Len(blanks) = IF n > 0 THEN n ELSE 0
    BY <1>2, FillIs, SymbolIs DEF Space
  <1>4. TextField(f) \in {Text(f) \o blanks, blanks \o Text(f)}
    BY DEF TextField, n
  <1> HIDE DEF blanks
  <1>5. TextField(f) \in Output
    BY <1>1, <1>3, <1>4, OutputIs
  <1>6. ASSUME ~Overruns(f)
        PROVE  TextField(f) \in Str /\ Len(TextField(f)) = Max({f.width, Content(f)})
    <2>1. Text(f) \in Str /\ Len(Text(f)) \in Nat /\ Len(Text(f)) = Size(f)
      BY <1>6, TextIs
    <2>2. Content(f) = Len(Text(f))
      BY DEF Content
    <2>3. Max({f.width, Content(f)}) = IF f.width > Len(Text(f)) THEN f.width ELSE Len(Text(f))
      BY <1>1, <2>1, <2>2, MaxTwo
    <2>4. /\ Text(f) \o blanks \in Str /\ Len(Text(f) \o blanks) = Len(Text(f)) + Len(blanks)
          /\ blanks \o Text(f) \in Str /\ Len(blanks \o Text(f)) = Len(blanks) + Len(Text(f))
      BY <1>3, <2>1, Joined
    <2>5. Len(Text(f)) + Len(blanks) = Max({f.width, Content(f)})
      BY <1>1, <1>3, <2>1, <2>3 DEF n
    <2>6. Len(blanks) + Len(Text(f)) = Len(Text(f)) + Len(blanks)
      BY <1>2, <1>3, <2>1
    <2> QED
      BY <1>4, <2>4, <2>5, <2>6
  <1> QED
    BY <1>5, <1>6

LEMMA ConvertIs ==
  ASSUME NEW f, FieldType(f), f.text \in Str
  PROVE  /\ Convert(f) \in Output /\ Len(Convert(f)) \in Nat
         /\ ~Overruns(f) => Convert(f) \in Str
         /\ f.conv # "lit" /\ ~Undercut(f) /\ ~Overruns(f) =>
              Len(Convert(f)) = Max({f.width, Content(f)})
  <1>1. CASE f.conv \in Numeric
    <2>1. Convert(f) = NumberField(f)
      BY <1>1 DEF Convert
    <2> QED
      BY <1>1, <2>1, NumberFieldIs, Joined, OutputIs
  <1>2. CASE f.conv = "lit"
    <2>1. Convert(f) = f.text
      BY <1>2 DEF Convert, Numeric
    <2> QED
      BY <1>2, <2>1, Joined, OutputIs
  <1>3. CASE f.conv \notin Numeric /\ f.conv # "lit"
    <2>1. Convert(f) = TextField(f)
      BY <1>3 DEF Convert
    <2> QED
      BY <1>3, <2>1, TextFieldIs, OutputIs
  <1> QED
    BY <1>1, <1>2, <1>3

(* The formats: their conversions, and the texts of these.                 *)
LEMMA FormatIs ==
  ASSUME NEW c \in Calls
  PROVE  /\ Len(c.format) \in Nat /\ Len(c.format) > 0 /\ DOMAIN c.format = 1 .. Len(c.format)
         /\ c.size \in 0 .. MemSize
         /\ \A k \in 1 .. Len(c.format) : FieldType(c.format[k]) /\ c.format[k].text \in Str
  <1>1. c.format # <<>> /\ c.format \in Seq(Seqs!ToSet(c.format)) /\ c.size \in 0 .. MemSize
    BY CallsAssumption
  <1>2. Len(c.format) \in Nat /\ DOMAIN c.format = 1 .. Len(c.format)
    BY <1>1, LenProperties
  <1>3. Len(c.format) > 0
    BY <1>1, <1>2, EmptySeq
  <1>4. ASSUME NEW k \in 1 .. Len(c.format) PROVE FieldType(c.format[k]) /\ c.format[k].text \in Str
    <2>1. FieldType(c.format[k])
      BY <1>2, CallsAssumption
    <2>2. c.format[k].text \in Seq(Seqs!ToSet(c.format[k].text))
      BY <2>1, Zenon DEF FieldType
    <2>3. Seqs!ToSet(c.format[k].text) \subseteq Printable
      <3> DEFINE T(d) == UNION {Seqs!ToSet(d.format[i].text) : i \in DOMAIN d.format}
      <3>1. Seqs!ToSet(c.format[k].text) \subseteq T(c)
        BY <1>2
      <3> HIDE DEF T
      <3>2. T(c) \subseteq UNION {T(d) : d \in Calls}
        OBVIOUS
      <3>3. UNION {T(d) : d \in Calls} \subseteq Printable
        BY Zenon DEF Printable, T
      <3> QED
        BY <3>1, <3>2, <3>3, Zenon
    <2> QED
      BY <2>1, <2>2, <2>3, SeqMonotonic DEF Str
  <1> QED
    BY <1>1, <1>2, <1>3, <1>4

-----------------------------------------------------------------------------
(* The scanner                                                             *)

LEMMA LeastOf ==
  \A T : T \subseteq Nat /\ T # {} => Min(T) \in T /\ \A m \in T : Min(T) <= m
  <1> TAKE T
  <1> HAVE T \subseteq Nat /\ T # {}
  <1>1. \E n \in T : \A m \in T : n <= m
    BY MinimalNat
  <1> QED
    BY <1>1, Zenon DEF Min

Terminated == DOMAIN stream.mem = 0 .. MemSize /\ \E i \in 0 .. MemSize : stream.mem[i] = NUL

LEMMA SourceIs ==
  ASSUME Terminated
  PROVE  Len(Source) \in Nat
  <1> DEFINE ends == {i \in DOMAIN stream.mem : stream.mem[i] = NUL}
             end == Min(ends)
             X == {stream.mem[i - 1] : i \in 1 .. end}
             text == [i \in 1 .. end |-> stream.mem[i - 1]]
  <1>1. ends \subseteq Nat /\ ends # {}
    BY DEF Terminated
  <1> HIDE DEF ends
  <1>2. end \in Nat
    BY <1>1, LeastOf
  <1> HIDE DEF end
  <1>3. text \in [1 .. end -> X]
    OBVIOUS
  <1>4. Source = text
    BY DEF Source, end, ends
  <1> HIDE DEF X, text
  <1>5. Len(text) = end
    BY <1>2, <1>3, SeqFrom, Zenon
  <1> QED
    BY <1>2, <1>4, <1>5

LEMMA NotTheEnd ==
  /\ NUL \notin Whitespace
  /\ \A i \in 1 .. 16 : Digit[i] # NUL
  /\ NUL # "0" /\ NUL # "x" /\ NUL # "+" /\ NUL # "-" /\ NUL # "." /\ NUL # "e"
  <1>1. \A i \in 1 .. 16 : \/ i = 1 \/ i = 2 \/ i = 3 \/ i = 4 \/ i = 5 \/ i = 6 \/ i = 7 \/ i = 8
                           \/ i = 9 \/ i = 10 \/ i = 11 \/ i = 12 \/ i = 13 \/ i = 14 \/ i = 15 \/ i = 16
    OBVIOUS
  <1>2. /\ Digit[1] # NUL /\ Digit[2] # NUL /\ Digit[3] # NUL /\ Digit[4] # NUL
        /\ Digit[5] # NUL /\ Digit[6] # NUL /\ Digit[7] # NUL /\ Digit[8] # NUL
    BY DEF Digit, NUL
  <1>3. /\ Digit[9] # NUL /\ Digit[10] # NUL /\ Digit[11] # NUL /\ Digit[12] # NUL
        /\ Digit[13] # NUL /\ Digit[14] # NUL /\ Digit[15] # NUL /\ Digit[16] # NUL
    BY DEF Digit, NUL
  <1>4. NUL \notin Whitespace
    BY DEF NUL, Whitespace, Space
  <1>5. NUL # "0" /\ NUL # "x" /\ NUL # "+" /\ NUL # "-" /\ NUL # "." /\ NUL # "e"
    BY DEF NUL
  <1> QED
    BY <1>1, <1>2, <1>3, <1>4, <1>5, Zenon

(* A character that is there lies before the end.                          *)
LEMMA Before ==
  ASSUME Len(Source) \in Nat
  PROVE  \A at \in Nat : /\ CharAt(at) # NUL => at + 1 \in 0 .. Len(Source)
                         /\ at = Len(Source) => CharAt(at) = NUL
  BY DEF CharAt

LEMMA PastIs ==
  ASSUME Len(Source) \in Nat, NEW at \in 0 .. Len(Source), NEW chars, NUL \notin chars
  PROVE  Past(at, chars) \in at .. Len(Source)
  <1> DEFINE T == {j \in at .. Len(Source) : CharAt(j) \notin chars}
  <1>1. Len(Source) \in T
    BY Before
  <1>2. T \subseteq Nat
    OBVIOUS
  <1>3. Past(at, chars) = Min(T)
    BY DEF Past
  <1>4. T \subseteq at .. Len(Source)
    OBVIOUS
  <1> HIDE DEF T
  <1>5. Min(T) \in T
    BY <1>1, <1>2, LeastOf
  <1> QED
    BY <1>3, <1>4, <1>5

LEMMA DigitsEnd ==
  \A base \in 2 .. 16 : NUL \notin Digits(base)
  BY NotTheEnd DEF Digits

LEMMA ParseBaseIs ==
  ASSUME Len(Source) \in Nat, NEW at \in 0 .. Len(Source), NEW base \in {0, 8, 10, 16}
  PROVE  /\ ParseBase(at, base).base \in 2 .. 16
         /\ ParseBase(at, base).at \in at .. Len(Source)
  <1> DEFINE b == ParseBase(at, base)
  <1>1. at \in Nat /\ at + 1 \in Nat
    OBVIOUS
  <1>2. CASE base # 0
    <2>1. b = [base |-> base, at |-> at]
      BY <1>2, Zenon DEF ParseBase
    <2> HIDE DEF b
    <2> QED
      BY <1>2, <2>1 DEF b
  <1>3. CASE base = 0 /\ CharAt(at) # "0"
    <2>1. b = [base |-> 10, at |-> at]
      BY <1>3, Zenon DEF ParseBase
    <2> HIDE DEF b
    <2> QED
      BY <2>1 DEF b
  <1>4. CASE base = 0 /\ CharAt(at) = "0" /\ CharAt(at + 1) = "x"
    <2>1. b = [base |-> 16, at |-> at + 2]
      BY <1>4, Zenon DEF ParseBase
    <2>2. at + 1 + 1 \in 0 .. Len(Source)
      BY <1>1, <1>4, Before, NotTheEnd
    <2> HIDE DEF b
    <2> QED
      BY <2>1, <2>2 DEF b
  <1>5. CASE base = 0 /\ CharAt(at) = "0" /\ CharAt(at + 1) # "x"
    <2>1. b = [base |-> 8, at |-> at + 1]
      BY <1>5, Zenon DEF ParseBase
    <2>2. at + 1 \in 0 .. Len(Source)
      BY <1>1, <1>5, Before, NotTheEnd
    <2> HIDE DEF b
    <2> QED
      BY <2>1, <2>2 DEF b
  <1> QED
    BY <1>2, <1>3, <1>4, <1>5

LEMMA ParseNumIs ==
  ASSUME Len(Source) \in Nat, NEW at \in 0 .. Len(Source), NEW base \in {0, 8, 10, 16}
  PROVE  /\ ParseNum(at, base).at \in at .. Len(Source)
         /\ ParseNum(at, base)
              = [value |-> ParseNum(at, base).value, at |-> ParseNum(at, base).at]
  <1> DEFINE b == ParseBase(at, base)
  <1>1. b.base \in 2 .. 16 /\ b.at \in at .. Len(Source)
    BY ParseBaseIs
  <1>2. b.at \in 0 .. Len(Source)
    BY <1>1
  <1>3. PICK v : ParseNum(at, base) = [value |-> v, at |-> Past(b.at, Digits(b.base))]
    BY Zenon DEF ParseNum
  <1> HIDE DEF b
  <1>4. Past(b.at, Digits(b.base)) \in b.at .. Len(Source)
    BY <1>1, <1>2, DigitsEnd, PastIs
  <1> QED
    BY <1>1, <1>3, <1>4

(* What a conversion reads lies within the string.                         *)
LEMMA SignedFrom ==
  ASSUME Len(Source) \in Nat, NEW at \in 0 .. Len(Source)
  PROVE  /\ CharAt(at) \in {"+", "-"} => at + 1 \in at .. Len(Source)
         /\ CharAt(at) = "+" => at + 1 \in at .. Len(Source)
  <1>1. at \in Nat
    OBVIOUS
  <1>2. CharAt(at) \in {"+", "-"} => CharAt(at) # NUL
    BY NotTheEnd
  <1>3. CharAt(at) # NUL => at + 1 \in 0 .. Len(Source)
    BY <1>1, Before
  <1> QED
    BY <1>1, <1>2, <1>3

LEMMA ParseULLIs ==
  ASSUME Len(Source) \in Nat, NEW at \in 0 .. Len(Source), NEW base \in {0, 8, 10, 16}
  PROVE  /\ ParseULL(at, base).at \in at .. Len(Source)
         /\ ParseULL(at, base)
              = [value |-> ParseULL(at, base).value, at |-> ParseULL(at, base).at]
  <1> DEFINE from == IF CharAt(at) = "+" THEN at + 1 ELSE at
  <1>1. from \in at .. Len(Source)
    BY SignedFrom
  <1>2. ParseULL(at, base) = ParseNum(from, base)
    BY Zenon DEF ParseULL
  <1> HIDE DEF from
  <1>3. from \in 0 .. Len(Source)
    BY <1>1
  <1> QED
    BY <1>1, <1>2, <1>3, ParseNumIs

LEMMA ParseLLIs ==
  ASSUME Len(Source) \in Nat, NEW at \in 0 .. Len(Source), NEW base \in {0, 8, 10, 16}
  PROVE  /\ ParseLL(at, base).at \in at .. Len(Source)
         /\ ParseLL(at, base)
              = [value |-> ParseLL(at, base).value, at |-> ParseLL(at, base).at]
  <1> DEFINE from == IF CharAt(at) \in {"+", "-"} THEN at + 1 ELSE at
             n == ParseNum(from, base)
  <1>1. from \in at .. Len(Source)
    BY SignedFrom
  <1>2. ParseLL(at, base) = IF CharAt(at) = "-" THEN [n EXCEPT !.value = -@] ELSE n
    BY Zenon DEF ParseLL
  <1> HIDE DEF from
  <1>3. from \in 0 .. Len(Source)
    BY <1>1
  <1>4. n = [value |-> n.value, at |-> n.at] /\ n.at \in from .. Len(Source)
    BY <1>3, ParseNumIs
  <1> HIDE DEF n
  <1> QED
    BY <1>1, <1>2, <1>4

LEMMA ParseDIs ==
  ASSUME Len(Source) \in Nat, NEW at \in 0 .. Len(Source)
  PROVE  ParseD(at).at \in at .. Len(Source)
  <1> DEFINE from == IF CharAt(at) \in {"+", "-"} THEN at + 1 ELSE at
             whole == ParseNum(from, 10)
             pointed == CharAt(whole.at) = "."
             end == IF pointed THEN Past(whole.at + 1, Digits(10)) ELSE whole.at
             exp == IF CharAt(end + 1) \in {"+", "-"} THEN end + 2 ELSE end + 1
  <1>1. from \in at .. Len(Source)
    BY SignedFrom
  <1>2. /\ whole.at = from => ParseD(at) = [value |-> <<0, 0>>, at |-> from]
        /\ whole.at # from /\ CharAt(end) = "e" =>
             ParseD(at) = [value |-> "inexact", at |-> ParseNum(exp, 10).at]
    BY Zenon DEF ParseD
  <1>0. ASSUME whole.at # from, CharAt(end) # "e" PROVE \E v : ParseD(at) = [value |-> v, at |-> end]
    BY <1>0, Zenon DEF ParseD
  <1> HIDE DEF from
  <1>3. whole.at \in from .. Len(Source)
    <2>1. from \in 0 .. Len(Source)
      BY <1>1
    <2> QED
      BY <2>1, ParseNumIs
  <1> HIDE DEF whole
  <1>4. whole.at \in 0 .. Len(Source) /\ whole.at \in at .. Len(Source)
    BY <1>1, <1>3
  <1>5. end \in at .. Len(Source)
    <2>1. CASE pointed
      <3>1. CharAt(whole.at) # NUL
        BY <2>1, NotTheEnd
      <3>2. whole.at + 1 \in 0 .. Len(Source)
        BY <1>4, <3>1, Before
      <3>3. NUL \notin Digits(10)
        BY DigitsEnd
      <3>4. Past(whole.at + 1, Digits(10)) \in whole.at + 1 .. Len(Source)
        BY <3>2, <3>3, PastIs
      <3> QED
        BY <1>4, <2>1, <3>4
    <2>2. CASE ~pointed
      BY <1>4, <2>2
    <2> QED
      BY <2>1, <2>2
  <1> HIDE DEF pointed, end
  <1>6. ASSUME CharAt(end) = "e" PROVE ParseNum(exp, 10).at \in at .. Len(Source)
    <2>1. CharAt(end) # NUL
      BY <1>6, NotTheEnd
    <2>2. end + 1 \in 0 .. Len(Source)
      BY <1>5, <2>1, Before
    <2>3. CharAt(end + 1) \in {"+", "-"} => end + 1 + 1 \in 0 .. Len(Source)
      <3>1. end + 1 \in Nat
        BY <2>2
      <3> QED
        BY <3>1, NotTheEnd, Before
    <2>4. exp \in 0 .. Len(Source) /\ exp >= at
      BY <1>5, <2>2, <2>3
    <2> HIDE DEF exp
    <2>5. ParseNum(exp, 10).at \in exp .. Len(Source)
      BY <2>4, ParseNumIs
    <2> QED
      BY <2>4, <2>5
  <1>7. CASE whole.at = from
    <2>1. ParseD(at) = [value |-> <<0, 0>>, at |-> from]
      BY <1>2, <1>7, Zenon
    <2>2. ParseD(at).at = from
      BY <2>1
    <2> QED
      BY <1>1, <2>2
  <1>8. CASE whole.at # from /\ CharAt(end) = "e"
    <2>1. ParseD(at) = [value |-> "inexact", at |-> ParseNum(exp, 10).at]
      BY <1>2, <1>8, Zenon
    <2>2. ParseD(at).at = ParseNum(exp, 10).at
      BY <2>1
    <2> QED
      BY <1>6, <1>8, <2>2
  <1>9. CASE whole.at # from /\ CharAt(end) # "e"
    <2>1. PICK v : ParseD(at) = [value |-> v, at |-> end]
      BY <1>0, <1>9, Zenon
    <2>2. ParseD(at).at = end
      BY <2>1
    <2> QED
      BY <1>5, <2>2
  <1> QED
    BY <1>7, <1>8, <1>9

LEMMA ParseIs ==
  ASSUME Len(Source) \in Nat, NEW at \in 0 .. Len(Source),
         NEW conv \in Numeric \cup {"c", "s", "%"}
  PROVE  Parse(conv, at).at \in at .. Len(Source)
  <1>1. CASE conv = "d"
    <2> DEFINE n == ParseLL(at, 10)
    <2>1. n.at \in at .. Len(Source) /\ n = [value |-> n.value, at |-> n.at]
      BY ParseLLIs
    <2>2. PICK v : Parse(conv, at) = [n EXCEPT !.value = v]
      BY <1>1, Zenon DEF Parse
    <2> HIDE DEF n
    <2> QED
      BY <2>1, <2>2
  <1>2. CASE conv = "i"
    <2> DEFINE n == ParseLL(at, 0)
    <2>1. n.at \in at .. Len(Source) /\ n = [value |-> n.value, at |-> n.at]
      BY ParseLLIs
    <2>2. PICK v : Parse(conv, at) = [n EXCEPT !.value = v]
      BY <1>2, Zenon DEF Parse
    <2> HIDE DEF n
    <2> QED
      BY <2>1, <2>2
  <1>3. CASE conv \in {"u", "x", "o", "p"}
    <2> DEFINE n == ParseULL(at, Base(conv))
    <2>1. Base(conv) \in {8, 10, 16}
      BY Zenon DEF Base
    <2>2. n.at \in at .. Len(Source) /\ n = [value |-> n.value, at |-> n.at]
      BY <2>1, ParseULLIs
    <2>3. conv # "d" /\ conv # "i" /\ conv # "f" /\ conv # "s" /\ conv \notin {"c", "%"}
      BY <1>3
    <2>4. PICK v : Parse(conv, at) = [n EXCEPT !.value = v]
      BY <1>3, <2>3, Zenon DEF Parse
    <2> HIDE DEF n
    <2> QED
      BY <2>2, <2>4
  <1>4. CASE conv = "f"
    <2>1. Parse(conv, at) = ParseD(at)
      BY <1>4, Zenon DEF Parse
    <2> QED
      BY <2>1, ParseDIs
  <1>5. CASE conv \in {"c", "%"}
    <2> DEFINE next1 == Min({at + 1, Len(Source)})
    <2>1. next1 \in at .. Len(Source)
      BY MinTwo
    <2>2. conv # "d" /\ conv # "i" /\ conv # "f" /\ conv # "s"
          /\ conv \notin {"u", "x", "o", "p"}
      BY <1>5
    <2>3. PICK v : Parse(conv, at) = [value |-> v, at |-> next1]
      BY <1>5, <2>2, Zenon DEF Parse
    <2> HIDE DEF next1
    <2> QED
      BY <2>1, <2>3
  <1>6. CASE conv = "s"
    <2> DEFINE T == {j \in at .. Len(Source) : CharAt(j) \in Whitespace \cup {NUL}}
    <2>1. Len(Source) \in T /\ T \subseteq Nat /\ T \subseteq at .. Len(Source)
      BY Before
    <2>2. PICK v : Parse(conv, at) = [value |-> v, at |-> Min(T)]
      BY <1>6, Zenon DEF Parse
    <2> HIDE DEF T
    <2>3. Min(T) \in T
      BY <2>1, LeastOf
    <2>4. Parse(conv, at).at = Min(T)
      BY <2>2
    <2> QED
      BY <2>1, <2>3, <2>4
  <1> QED
    BY <1>1, <1>2, <1>3, <1>4, <1>5, <1>6 DEF Numeric

-----------------------------------------------------------------------------
(* The string stream                                                       *)

(* What the stream holds of the output, and that its fields are there.     *)
Holds(s, written) ==
  /\ s = [size |-> s.size, offs |-> s.offs, supposed |-> s.supposed, mem |-> s.mem]
  /\ s.size \in 0 .. MemSize
  /\ s.supposed = Unsigned(Len(written), IntBits)
  /\ s.offs = Min({Len(written), Max({0, s.size - 1})})
  /\ DOMAIN s.mem = 0 .. MemSize
  /\ \A i \in 0 .. s.offs - 1 : s.mem[i] = written[i + 1]
  /\ \A i \in 0 .. MemSize : i >= s.size => s.mem[i] = Unwritten

(* Counting on is counting the sum.                                        *)
LEMMA CountedOn ==
  ASSUME NEW a \in Nat, NEW b \in Nat
  PROVE  Unsigned(Unsigned(a, IntBits) + b, IntBits) = Unsigned(a + b, IntBits)
  <1> DEFINE w == 2 ^ IntBits
             q == a \div w
             r == a % w
             p == (r + b) \div w
             t == (r + b) % w
  <1>1. w \in Nat /\ w > 0
    BY WidthsAssumption, PowerOfTwo
  <1>2. \A n : Unsigned(n, IntBits) = n % w
    BY DEF Unsigned
  <1> HIDE DEF w
  <1>3. q \in Int /\ r \in 0 .. w - 1 /\ a = w * q + r
    BY <1>1
  <1> HIDE DEF q, r
  <1>4. p \in Int /\ t \in 0 .. w - 1 /\ r + b = w * p + t
    BY <1>1, <1>3
  <1> HIDE DEF p
  <1>5. a + b = w * (q + p) + t
    <2>1. w * (q + p) = w * q + w * p /\ w * q \in Int /\ w * p \in Int
      BY <1>1, <1>3, <1>4
    <2> HIDE DEF t
    <2> QED
      BY <1>1, <1>3, <1>4, <2>1
  <1>6. (a + b) % w = t
    <2> DEFINE k == q + p
               m == (a + b) \div w
               u == (a + b) % w
    <2>1. k \in Int /\ a + b \in Int
      BY <1>3, <1>4
    <2>2. m \in Int /\ u \in 0 .. w - 1 /\ a + b = w * m + u
      BY <1>1, <2>1
    <2> HIDE DEF t, k, m, u
    <2>3. a + b = w * k + t
      BY <1>5 DEF k
    <2>4. w * (m - k) = t - u
      <3>1. w * (m - k) = w * m - w * k /\ w * m \in Int /\ w * k \in Int
        BY <1>1, <2>1, <2>2
      <3> QED
        BY <1>4, <2>2, <2>3, <3>1
    <2>5. -w < w * (m - k) /\ w * (m - k) < w
      BY <1>1, <1>4, <2>2, <2>4
    <2>6. m - k = 0
      <3> DEFINE d == m - k
      <3>1. d \in Int
        BY <2>1, <2>2
      <3> HIDE DEF d
      <3>2. d >= 1 => w * d >= w
        BY <1>1, <3>1
      <3>3. d <= -1 => w * d <= -w
        BY <1>1, <3>1
      <3>4. w * d < w /\ -w < w * d /\ w * d \in Int
        BY <1>1, <2>5, <3>1 DEF d
      <3>5. d = 0
        BY <1>1, <3>1, <3>2, <3>3, <3>4
      <3> QED
        BY <3>5 DEF d
    <2>7. t = u
      BY <1>1, <1>4, <2>2, <2>4, <2>6
    <2> QED
      BY <2>7 DEF u
  <1> QED
    BY <1>2, <1>6 DEF t, r

(* How much is kept of two writes.                                         *)
KeptOf(len, cap) == IF len < cap THEN len ELSE cap
LEMMA StrWriteIs ==
  ASSUME NEW s, NEW written \in Output, NEW more \in Output, Holds(s, written), MemSize \in Nat
  PROVE  /\ Holds(StrWrite(s, more), written \o more)
         /\ StrWrite(s, more).size = s.size
         /\ s.size > 0 => StrWrite(s, more).mem[StrWrite(s, more).offs] = NUL
  <1> DEFINE w == StrWrite(s, more)
             a == Len(written)
             b == Len(more)
             both == written \o more
  <1>1. a \in Nat /\ b \in Nat /\ both \in Output /\ Len(both) = a + b
    BY OutputIs
  <1>2. /\ s.size \in 0 .. MemSize /\ s.supposed = Unsigned(a, IntBits) /\ DOMAIN s.mem = 0 .. MemSize
        /\ \A i \in 0 .. s.offs - 1 : s.mem[i] = written[i + 1]
        /\ \A i \in 0 .. MemSize : i >= s.size => s.mem[i] = Unwritten
        /\ s = [size |-> s.size, offs |-> s.offs, supposed |-> s.supposed, mem |-> s.mem]
        /\ s.offs = Min({a, Max({0, s.size - 1})})
    BY Zenon DEF Holds
  <1>3. /\ \A i \in 1 .. a : both[i] = written[i]
        /\ \A i \in a + 1 .. a + b : both[i] = more[i - a]
    <2>1. written \in Seq(Bytes) /\ more \in Seq(Bytes)
      BY DEF Output
    <2>2. \A i \in 1 .. a + b : both[i] = IF i <= a THEN written[i] ELSE more[i - a]
      BY <2>1, ConcatProperties
    <2> HIDE DEF a, b, both
    <2> QED
      BY <1>1, <2>2
  <1> DEFINE counted == Unsigned(s.supposed + b, IntBits)
  <1>0. counted = Unsigned(Len(both), IntBits)
    BY <1>1, <1>2, CountedOn
  <1> HIDE DEF a, b, both, counted
  <1>4. CASE s.size = 0
    <2>1. w = [s EXCEPT !.supposed = counted]
      BY <1>4, Zenon DEF StrWrite, b, counted
    <2> HIDE DEF w
    <2>2. /\ w = [size |-> w.size, offs |-> w.offs, supposed |-> w.supposed, mem |-> w.mem]
          /\ w.size = s.size /\ w.offs = s.offs /\ w.mem = s.mem /\ w.supposed = counted
      BY <1>2, <2>1
    <2>3. Max({0, s.size - 1}) = 0
      BY <1>4, MaxTwo
    <2>4. Min({a, 0}) = 0 /\ Min({a + b, 0}) = 0
      BY <1>1, MinTwo
    <2>5. /\ w.supposed = Unsigned(Len(both), IntBits) /\ w.offs = 0
          /\ w.offs = Min({Len(both), Max({0, w.size - 1})})
      BY <1>0, <1>1, <1>2, <2>2, <2>3, <2>4
    <2>6. \A i \in 0 .. w.offs - 1 : w.mem[i] = both[i + 1]
      BY <2>5
    <2>7. Holds(w, both)
      BY <1>2, <2>2, <2>5, <2>6, Zenon DEF Holds
    <2> QED
      BY <1>4, <2>2, <2>7 DEF w, both
  <1>5. CASE s.size # 0
    <2> DEFINE cap == s.size - 1
               n == Min({b, Max({0, cap - s.offs})})
               put == [i \in 0 .. MemSize |->
                         IF i = s.offs + n THEN NUL
                         ELSE IF i \in s.offs .. s.offs + n - 1 THEN more[i - s.offs + 1]
                         ELSE s.mem[i]]
    <2>1. w = [s EXCEPT !.supposed = counted, !.offs = @ + n, !.mem = put]
      BY <1>2, <1>5, Zenon DEF StrWrite, b, counted
    <2>2. cap \in Nat /\ cap <= MemSize /\ cap = s.size - 1 /\ cap < s.size
      BY <1>2, <1>5
    <2> HIDE DEF w, put, cap
    <2>3. s.offs = KeptOf(a, cap) /\ s.offs \in Nat
      <3>1. Max({0, cap}) = cap
        BY <2>2, MaxTwo
      <3>2. s.offs = Min({a, cap})
        BY <1>2, <2>2, <3>1, Zenon
      <3> QED
        BY <1>1, <2>2, <3>2, MinTwo DEF KeptOf
    <2>4. n = IF b < (IF 0 > cap - s.offs THEN 0 ELSE cap - s.offs) THEN b
              ELSE IF 0 > cap - s.offs THEN 0 ELSE cap - s.offs
      <3>1. Max({0, cap - s.offs}) = IF 0 > cap - s.offs THEN 0 ELSE cap - s.offs
        BY <2>2, <2>3, MaxTwo
      <3> DEFINE m == IF 0 > cap - s.offs THEN 0 ELSE cap - s.offs
      <3>2. m \in Int
        BY <2>2, <2>3
      <3> HIDE DEF m
      <3>3. n = Min({b, m})
        BY <3>1, Zenon DEF m
      <3>4. n = IF b < m THEN b ELSE m
        BY <1>1, <3>2, <3>3, MinTwo
      <3> QED
        BY <3>4 DEF m
    <2>5. n \in Int
      BY <1>1, <2>2, <2>3, <2>4
    <2> HIDE DEF n
    <2>6. /\ n \in Nat /\ n <= b /\ s.offs + n = KeptOf(a + b, cap) /\ s.offs + n <= cap
          /\ s.offs <= a /\ (n > 0 => s.offs = a)
      <3>1. a \in Nat /\ b \in Nat /\ cap \in Nat /\ s.offs \in Nat
        BY <1>1, <2>2, <2>3
      <3> DEFINE o == s.offs
      <3>2. o \in Nat /\ o = KeptOf(a, cap)
            /\ n = IF b < (IF 0 > cap - o THEN 0 ELSE cap - o) THEN b
                   ELSE IF 0 > cap - o THEN 0 ELSE cap - o
        BY <2>3, <2>4
      <3> HIDE DEF o
      <3>3. /\ n \in Nat /\ n <= b /\ o + n = KeptOf(a + b, cap) /\ o + n <= cap
            /\ o <= a /\ (n > 0 => o = a)
        BY <2>5, <3>1, <3>2 DEF KeptOf
      <3> QED
        BY <3>3 DEF o
    <2>7. /\ w = [size |-> w.size, offs |-> w.offs, supposed |-> w.supposed, mem |-> w.mem]
          /\ w.size = s.size /\ w.offs = s.offs + n /\ w.mem = put /\ w.supposed = counted
      BY <1>2, <2>1
    <2>8. DOMAIN put = 0 .. MemSize
      BY DEF put
    <2>9. w.offs = Min({Len(both), Max({0, w.size - 1})})
      <3>1. Max({0, cap}) = cap /\ Min({a + b, cap}) = KeptOf(a + b, cap)
        BY <1>1, <2>2, MaxTwo, MinTwo DEF KeptOf
      <3> QED
        BY <1>1, <2>2, <2>6, <2>7, <3>1
    <2>10. ASSUME NEW i \in 0 .. w.offs - 1 PROVE w.mem[i] = both[i + 1]
      <3>1. i \in 0 .. MemSize /\ i < s.offs + n /\ i \in Nat
        BY <2>2, <2>3, <2>6, <2>7, <2>10
      <3>2. CASE i < s.offs
        <4>1. i # s.offs + n /\ i \notin s.offs .. s.offs + n - 1 /\ i \in 0 .. s.offs - 1
          BY <2>3, <2>6, <3>1, <3>2
        <4>2. put[i] = s.mem[i]
          BY <3>1, <4>1 DEF put
        <4>3. i + 1 \in 1 .. a
          BY <1>1, <2>3, <2>6, <3>1, <3>2
        <4> QED
          BY <1>2, <1>3, <2>7, <4>1, <4>2, <4>3
      <3>3. CASE i >= s.offs
        <4>1. i # s.offs + n /\ i \in s.offs .. s.offs + n - 1
          BY <2>3, <2>6, <3>1, <3>3
        <4>2. put[i] = more[i - s.offs + 1]
          BY <3>1, <4>1 DEF put
        <4>3. s.offs = a /\ i + 1 \in a + 1 .. a + b /\ i - s.offs + 1 = (i + 1) - a
          BY <1>1, <2>3, <2>6, <3>1, <3>3
        <4> QED
          BY <1>3, <2>7, <4>2, <4>3
      <3> QED
        BY <2>3, <3>1, <3>2, <3>3
    <2>11. ASSUME NEW i \in 0 .. MemSize, i >= w.size PROVE w.mem[i] = Unwritten
      <3>1. i >= s.size /\ i \in Int
        BY <2>7, <2>11
      <3>2. s.size \in Int /\ s.offs + n \in Int /\ s.offs + n < s.size
        BY <1>2, <2>2, <2>3, <2>6
      <3>3. i # s.offs + n /\ i \notin s.offs .. s.offs + n - 1
        <4> DEFINE o == s.offs
                   sz == s.size
        <4>1. o \in Nat /\ n \in Nat /\ i \in Int /\ sz \in Int /\ i >= sz /\ o + n < sz
          BY <2>3, <2>6, <3>1, <3>2
        <4> HIDE DEF o, sz
        <4>2. i # o + n /\ i \notin o .. o + n - 1
          BY <4>1
        <4> QED
          BY <4>2 DEF o
      <3>4. put[i] = s.mem[i]
        BY <3>3 DEF put
      <3> QED
        BY <1>2, <2>7, <3>1, <3>4
    <2>12. w.mem[w.offs] = NUL
      <3>1. s.offs + n \in 0 .. MemSize
        BY <2>2, <2>3, <2>6
      <3>2. put[s.offs + n] = NUL
        BY <3>1 DEF put
      <3> QED
        BY <2>7, <3>2
    <2>13. w.supposed = Unsigned(Len(both), IntBits) /\ w.size \in 0 .. MemSize
      BY <1>0, <1>2, <2>7
    <2>14. Holds(w, both)
      BY <2>7, <2>8, <2>9, <2>10, <2>11, <2>13, Zenon DEF Holds
    <2> QED
      BY <2>7, <2>12, <2>14 DEF w, both
  <1> QED
    BY <1>4, <1>5

-----------------------------------------------------------------------------
(* The invariant                                                           *)

(* What has been printed: a format and a size of one of the calls, an      *)
(* output the stream holds and that ends with NUL, and the items in it,    *)
(* each as long as its conversion.                                         *)
PrintInv ==
  /\ [format |-> format, size |-> stream.size] \in Calls
  /\ full \in Output /\ Holds(stream, full)
  /\ items # <<>> /\ stream.size > 0 => stream.mem[stream.offs] = NUL
  /\ items \in Seq(Seqs!ToSet(items)) /\ Len(items) <= Len(format)
  /\ \A k \in 1 .. Len(items) :
       /\ items[k].from \in Nat /\ items[k].to \in Nat /\ items[k].to <= Len(full)
       /\ items[k].to - items[k].from = Len(Convert(format[k]))

(* Where the stages are: the scan begins when all of it is printed, into a *)
(* buffer, and stays inside the string.                                    *)
ScanInv ==
  /\ stage \in {"print", "scan", "done"}
  /\ scan = [at |-> scan.at, gone |-> scan.gone, num |-> scan.num, got |-> scan.got]
  /\ scan.gone \in 0 .. Len(format)
  /\ stage = "print" => scan.at = 0
  /\ stage # "print" => /\ Len(items) = Len(format) /\ stream.size > 0
                        /\ scan.at \in 0 .. Len(Source)

FmtInv == PrintInv /\ ScanInv

LEMMA FormatNow ==
  ASSUME PrintInv
  PROVE  /\ Len(format) \in Nat /\ Len(format) > 0 /\ DOMAIN format = 1 .. Len(format)
         /\ stream.size \in 0 .. MemSize /\ MemSize \in Nat
         /\ \A k \in 1 .. Len(format) : FieldType(format[k]) /\ format[k].text \in Str
  <1> DEFINE c == [format |-> format, size |-> stream.size]
  <1>1. c \in Calls /\ c.format = format /\ c.size = stream.size
    BY DEF PrintInv
  <1> HIDE DEF c
  <1>2. MemSize \in Nat
    BY CallsAssumption
  <1> QED
    BY <1>1, <1>2, FormatIs

(* The stream ends inside the buffer, so there is a string to scan.        *)
LEMMA Scannable ==
  ASSUME PrintInv, Len(items) = Len(format), stream.size > 0
  PROVE  Len(Source) \in Nat
  <1>1. Len(format) > 0 /\ Len(format) \in Nat
    BY FormatNow
  <1>2. items # <<>>
    <2>1. items = <<>> => Len(items) = 0
      BY EmptySeq
    <2> QED
      BY <1>1, <2>1
  <1>3. stream.mem[stream.offs] = NUL
    BY <1>2, Zenon DEF PrintInv
  <1>4. /\ DOMAIN stream.mem = 0 .. MemSize /\ full \in Output /\ stream.size \in 0 .. MemSize
        /\ stream.offs = Min({Len(full), Max({0, stream.size - 1})})
    BY Zenon DEF PrintInv, Holds
  <1>5. stream.offs \in 0 .. MemSize
    <2> DEFINE sz == stream.size
               len == Len(full)
    <2>1. sz \in 0 .. MemSize /\ sz > 0 /\ len \in Nat /\ MemSize \in Nat
      BY <1>4, OutputIs, FormatNow
    <2>2. stream.offs = Min({len, Max({0, sz - 1})})
      BY <1>4
    <2> HIDE DEF sz, len
    <2>3. sz - 1 \in 0 .. MemSize
      BY <2>1
    <2>4. Max({0, sz - 1}) = sz - 1
      BY <2>3, MaxTwo
    <2>5. Min({len, sz - 1}) = IF len < sz - 1 THEN len ELSE sz - 1
      BY <2>1, <2>3, MinTwo
    <2>6. (IF len < sz - 1 THEN len ELSE sz - 1) \in 0 .. MemSize
      BY <2>1, <2>3
    <2> QED
      BY <2>2, <2>4, <2>5, <2>6, Zenon
  <1>6. Terminated
    BY <1>3, <1>4, <1>5, Zenon DEF Terminated
  <1> QED
    BY <1>6, SourceIs

LEMMA FmtInitInv == FmtInit => FmtInv
  <1> SUFFICES ASSUME FmtInit PROVE FmtInv
    OBVIOUS
  <1>1. PICK c \in Calls : format = c.format /\ stream = NewStream(c.size)
    BY Zenon DEF FmtInit
  <1>2. stage = "print" /\ items = <<>> /\ full = <<>>
        /\ scan = [at |-> 0, gone |-> 0, num |-> 0, got |-> <<>>]
    BY Zenon DEF FmtInit
  <1>3. c = [format |-> c.format, size |-> c.size] /\ c.size \in 0 .. MemSize /\ MemSize \in Nat
    BY CallsAssumption
  <1>4. /\ stream = [size |-> stream.size, offs |-> stream.offs, supposed |-> stream.supposed,
                     mem |-> stream.mem]
        /\ stream.size = c.size /\ stream.offs = 0 /\ stream.supposed = 0
        /\ stream.mem = [i \in 0 .. MemSize |-> Unwritten]
    BY <1>1 DEF NewStream
  <1>5. full \in Output /\ Len(full) = 0
    BY <1>2, ShortStr, OutputIs
  <1>6. Holds(stream, full)
    <2>1. Max({0, c.size - 1}) \in Nat /\ Max({0, stream.size - 1}) = Max({0, c.size - 1})
      <3>1. c.size - 1 \in Int
        BY <1>3
      <3>2. Max({0, c.size - 1}) = IF 0 > c.size - 1 THEN 0 ELSE c.size - 1
        BY <3>1, MaxTwo
      <3> QED
        BY <1>4, <3>1, <3>2
    <2> DEFINE cap == Max({0, stream.size - 1})
    <2>2. cap \in Nat
      BY <2>1
    <2> HIDE DEF cap
    <2>3. Min({0, cap}) = 0
      BY <2>2, MinTwo
    <2>4. stream.offs = Min({Len(full), Max({0, stream.size - 1})})
      BY <1>4, <1>5, <2>3, Zenon DEF cap
    <2>5. DOMAIN stream.mem = 0 .. MemSize /\ \A i \in 0 .. MemSize : stream.mem[i] = Unwritten
      BY <1>4
    <2>6. \A i \in 0 .. stream.offs - 1 : stream.mem[i] = full[i + 1]
      BY <1>4
    <2>7. stream.size \in 0 .. MemSize /\ stream.supposed = Unsigned(Len(full), IntBits)
      <3>1. Unsigned(0, IntBits) = 0
        <4>1. 2 ^ IntBits \in Nat /\ 2 ^ IntBits > 0
          BY WidthsAssumption, PowerOfTwo
        <4> QED
          BY <4>1 DEF Unsigned
      <3> QED
        BY <1>3, <1>4, <1>5, <3>1
    <2> QED
      BY <1>4, <2>4, <2>5, <2>6, <2>7, Zenon DEF Holds
  <1>7. [format |-> format, size |-> stream.size] \in Calls
    BY <1>1, <1>3, <1>4, Zenon
  <1>8. Len(c.format) \in Nat
    BY FormatIs
  <1>9. items \in Seq(Seqs!ToSet(items)) /\ Len(items) = 0
    BY <1>2, EmptySeq
  <1>10. PrintInv
    <2>1. \A k \in 1 .. Len(items) : FALSE
      BY <1>9
    <2>2. Len(items) <= Len(format)
      BY <1>1, <1>8, <1>9
    <2> QED
      BY <1>2, <1>5, <1>6, <1>7, <1>9, <2>1, <2>2, Zenon DEF PrintInv
  <1>11. ScanInv
    <2>1. scan.gone \in 0 .. Len(format) /\ scan.at = 0
          /\ scan = [at |-> scan.at, gone |-> scan.gone, num |-> scan.num, got |-> scan.got]
      BY <1>1, <1>2, <1>8
    <2> QED
      BY <1>2, <2>1, Zenon DEF ScanInv
  <1> QED
    BY <1>10, <1>11 DEF FmtInv

(* Each action keeps FmtInv.                                               *)
LEMMA PrintItemKeeps ==
  ASSUME FmtInv, PrintItem
  PROVE  FmtInv'
  <1> DEFINE k == Len(items) + 1
             text == Convert(format[k])
             item == [from |-> Len(full), to |-> Len(full) + Len(text)]
  <1>1. /\ stage = "print" /\ Len(items) < Len(format)
        /\ stream' = StrWrite(stream, text) /\ full' = full \o text
        /\ items' = Append(items, item)
        /\ stage' = stage /\ format' = format /\ scan' = scan
    BY Zenon DEF PrintItem
  <1>2. /\ [format |-> format, size |-> stream.size] \in Calls
        /\ full \in Output /\ Holds(stream, full)
        /\ items \in Seq(Seqs!ToSet(items))
        /\ \A j \in 1 .. Len(items) :
             /\ items[j].from \in Nat /\ items[j].to \in Nat /\ items[j].to <= Len(full)
             /\ items[j].to - items[j].from = Len(Convert(format[j]))
    BY Zenon DEF FmtInv, PrintInv
  <1>3. PrintInv
    BY DEF FmtInv
  <1>4. Len(items) \in Nat /\ Len(format) \in Nat /\ MemSize \in Nat
    BY <1>2, <1>3, FormatNow, LenProperties
  <1>5. k \in 1 .. Len(format)
    BY <1>1, <1>4
  <1> HIDE DEF k
  <1>6. text \in Output /\ Len(text) \in Nat
    BY <1>3, <1>5, FormatNow, ConvertIs
  <1> HIDE DEF text
  <1>7. full' \in Output /\ Len(full') = Len(full) + Len(text) /\ Len(full) \in Nat
    BY <1>1, <1>2, <1>6, OutputIs
  <1>8. /\ Holds(stream', full') /\ stream'.size = stream.size
        /\ stream.size > 0 => stream'.mem[stream'.offs] = NUL
    BY <1>1, <1>2, <1>4, <1>6, StrWriteIs
  <1> HIDE DEF item
  <1>9. /\ items' \in Seq(Seqs!ToSet(items) \cup {item}) /\ Len(items') = k
        /\ \A j \in 1 .. Len(items) : items'[j] = items[j]
        /\ items'[k] = item
    <2>1. items \in Seq(Seqs!ToSet(items) \cup {item})
      <3>1. Seqs!ToSet(items) \subseteq Seqs!ToSet(items) \cup {item}
        OBVIOUS
      <3> QED
        BY <1>2, <3>1, SeqMonotonic
    <2>2. item \in Seqs!ToSet(items) \cup {item}
      OBVIOUS
    <2> QED
      BY <1>1, <2>1, <2>2, AppendProperties DEF k
  <1>10. items' \in Seq(Seqs!ToSet(items'))
    <2>1. items' \in [1 .. k -> Seqs!ToSet(items) \cup {item}] /\ k \in Nat
      BY <1>9, <1>4, LenProperties DEF k
    <2>2. items' \in [1 .. k -> Seqs!ToSet(items')]
      BY <2>1 DEF Seqs!ToSet
    <2> QED
      BY <2>1, <2>2, SeqFrom, Zenon
  <1>11. ASSUME NEW j \in 1 .. Len(items')
         PROVE  /\ items'[j].from \in Nat /\ items'[j].to \in Nat /\ items'[j].to <= Len(full')
                /\ items'[j].to - items'[j].from = Len(Convert(format[j]))
    <2>1. CASE j \in 1 .. Len(items)
      <3>1. items'[j] = items[j] /\ items[j].to \in Nat /\ items[j].to <= Len(full)
        BY <1>2, <1>9, <2>1
      <3>2. items[j].to <= Len(full')
        BY <1>6, <1>7, <3>1
      <3> QED
        BY <1>2, <2>1, <3>1, <3>2
    <2>2. CASE j \notin 1 .. Len(items)
      <3>1. j = k
        BY <1>4, <1>9, <2>2 DEF k
      <3>2. items'[j].from = Len(full) /\ items'[j].to = Len(full) + Len(text)
        BY <1>9, <3>1 DEF item
      <3>3. Len(full) + Len(text) - Len(full) = Len(text) /\ Len(full) + Len(text) \in Nat
        BY <1>6, <1>7
      <3>4. Len(text) = Len(Convert(format[j]))
        BY <3>1 DEF text
      <3>5. Len(full') = Len(full) + Len(text) /\ Len(full) + Len(text) <= Len(full) + Len(text)
        BY <1>7, <3>3
      <3> QED
        BY <1>7, <3>2, <3>3, <3>4, <3>5
    <2> QED
      BY <2>1, <2>2
  <1>12. PrintInv'
    <2>1. [format |-> format', size |-> stream'.size] \in Calls
      BY <1>1, <1>2, <1>8, Zenon
    <2>2. items' # <<>> /\ stream'.size > 0 => stream'.mem[stream'.offs] = NUL
      BY <1>8, Zenon
    <2>3. Len(items') <= Len(format')
      BY <1>1, <1>5, <1>9
    <2> QED
      BY <1>1, <1>7, <1>8, <1>10, <1>11, <2>1, <2>2, <2>3, Zenon DEF PrintInv
  <1>13. ScanInv'
    <2>1. /\ stage = "print" /\ scan.gone \in 0 .. Len(format) /\ scan.at = 0
          /\ scan = [at |-> scan.at, gone |-> scan.gone, num |-> scan.num, got |-> scan.got]
      BY <1>1, Zenon DEF FmtInv, ScanInv
    <2> QED
      BY <1>1, <2>1, Zenon DEF ScanInv
  <1> QED
    BY <1>12, <1>13 DEF FmtInv

LEMMA PrintInvStays ==
  ASSUME PrintInv, UNCHANGED <<format, stream, items, full>>
  PROVE  PrintInv' /\ Source' = Source
  <1>1. format' = format /\ stream' = stream /\ items' = items /\ full' = full
    OBVIOUS
  <1>2. PrintInv'
    BY <1>1, Zenon DEF PrintInv
  <1>3. Source' = Source
    BY <1>1, Zenon DEF Source
  <1> QED
    BY <1>2, <1>3

LEMMA EndPrintKeeps ==
  ASSUME FmtInv, EndPrint
  PROVE  FmtInv'
  <1>1. /\ stage = "print" /\ Len(items) = Len(format) /\ stream.size > 0 /\ stage' = "scan"
        /\ format' = format /\ stream' = stream /\ items' = items /\ full' = full /\ scan' = scan
    BY DEF EndPrint
  <1>2. PrintInv /\ PrintInv' /\ Source' = Source
    BY <1>1, PrintInvStays DEF FmtInv
  <1>3. Len(Source) \in Nat
    BY <1>1, <1>2, Scannable
  <1>4. /\ scan.gone \in 0 .. Len(format) /\ scan.at = 0
        /\ scan = [at |-> scan.at, gone |-> scan.gone, num |-> scan.num, got |-> scan.got]
    BY <1>1, Zenon DEF FmtInv, ScanInv
  <1>5. scan.at \in 0 .. Len(Source)
    BY <1>3, <1>4
  <1>6. ScanInv'
    BY <1>1, <1>2, <1>4, <1>5 DEF ScanInv
  <1> QED
    BY <1>2, <1>6 DEF FmtInv

LEMMA ScanItemKeeps ==
  ASSUME FmtInv, ScanItem
  PROVE  FmtInv'
  <1> DEFINE f == format[scan.gone + 1]
             at == Past(scan.at, Whitespace)
             Well(s) == /\ s = [at |-> s.at, gone |-> s.gone, num |-> s.num, got |-> s.got]
                        /\ s.gone \in 0 .. Len(format) /\ s.at \in 0 .. Len(Source)
  <1>1. /\ stage = "scan" /\ scan.gone < Len(format)
        /\ (f.conv = "lit" /\ ScanLiteral(f, at)) \/ (f.conv # "lit" /\ ScanConversion(f, at))
        /\ format' = format /\ stream' = stream /\ items' = items /\ full' = full
    BY DEF ScanItem
  <1>2. PrintInv /\ PrintInv' /\ Source' = Source
    BY <1>1, PrintInvStays DEF FmtInv
  <1>3. Well(scan) /\ Len(items) = Len(format) /\ stream.size > 0
    BY <1>1 DEF FmtInv, ScanInv
  <1>4. Len(Source) \in Nat
    BY <1>2, <1>3, Scannable
  <1>5. at \in 0 .. Len(Source)
    <2>1. at \in scan.at .. Len(Source)
      BY <1>3, <1>4, PastIs, NotTheEnd
    <2> QED
      BY <1>3, <2>1
  <1>6. Len(format) \in Nat /\ scan.gone + 1 \in 1 .. Len(format)
    BY <1>1, <1>2, <1>3, FormatNow
  <1>7. FieldType(f)
    BY <1>2, <1>6, FormatNow
  <1> HIDE DEF f, at
  <1>8. scan.gone + 1 \in 0 .. Len(format) /\ scan.gone \in 0 .. Len(format)
    BY <1>3, <1>6
  <1>9. Well(scan') /\ stage' \in {"scan", "done"}
    <2>1. CASE f.conv = "lit" /\ ScanLiteral(f, at)
      <3>1. CASE /\ f.text[1] \in Whitespace \/ CharAt(at) = f.text[1]
                 /\ scan' = [scan EXCEPT !.gone = @ + 1,
                               !.at = IF f.text[1] \in Whitespace THEN at ELSE at + 1]
                 /\ stage' = stage
        <4> DEFINE to == IF f.text[1] \in Whitespace THEN at ELSE at + 1
        <4>1. to \in 0 .. Len(Source)
          <5>1. f.text[1] # NUL
            BY <1>7, <2>1, OneLetter
          <5>2. at \in Nat
            BY <1>5
          <5>3. CharAt(at) # NUL => at + 1 \in 0 .. Len(Source)
            BY <1>4, <5>2, Before
          <5> QED
            BY <1>5, <3>1, <5>1, <5>3
        <4>2. scan' = [scan EXCEPT !.gone = @ + 1, !.at = to]
          BY <3>1
        <4> HIDE DEF to
        <4>3. /\ scan' = [at |-> scan'.at, gone |-> scan'.gone, num |-> scan'.num, got |-> scan'.got]
              /\ scan'.gone = scan.gone + 1 /\ scan'.at = to
          BY <1>3, <4>2
        <4> QED
          BY <1>1, <1>8, <3>1, <4>1, <4>3
      <3>2. CASE stage' = "done" /\ scan' = scan
        BY <1>3, <3>2
      <3> QED
        BY <2>1, <3>1, <3>2 DEF ScanLiteral
    <2>2. CASE f.conv # "lit" /\ ScanConversion(f, at)
      <3> DEFINE read == Parse(f.conv, at)
      <3>1. read.at \in 0 .. Len(Source)
        <4>1. f.conv \in Numeric \cup {"c", "s", "%"}
          <5>1. f.conv \in Numeric \cup {"c", "s", "lit", "%"}
            BY <1>7, Zenon DEF FieldType
          <5> QED
            BY <2>2, <5>1
        <4>2. read.at \in at .. Len(Source)
          BY <1>4, <1>5, <4>1, ParseIs
        <4> HIDE DEF read
        <4> QED
          BY <1>5, <4>2
      <3>2. \/ stage' = stage /\ \E n, g : scan' = [at |-> read.at, gone |-> scan.gone + 1,
                                                     num |-> n, got |-> g]
            \/ stage' = "done" /\ \E n : scan' = [scan EXCEPT !.at = at, !.num = n]
        BY <2>2, Zenon DEF ScanConversion
      <3> HIDE DEF read
      <3>3. CASE stage' = stage /\ \E n, g : scan' = [at |-> read.at, gone |-> scan.gone + 1,
                                                       num |-> n, got |-> g]
        <4>1. PICK n, g : scan' = [at |-> read.at, gone |-> scan.gone + 1, num |-> n, got |-> g]
          BY <3>3
        <4> QED
          BY <1>1, <1>8, <3>1, <3>3, <4>1
      <3>4. CASE stage' = "done" /\ \E n : scan' = [scan EXCEPT !.at = at, !.num = n]
        <4>1. PICK n : scan' = [scan EXCEPT !.at = at, !.num = n]
          BY <3>4
        <4>2. /\ scan' = [at |-> scan'.at, gone |-> scan'.gone, num |-> scan'.num, got |-> scan'.got]
              /\ scan'.gone = scan.gone /\ scan'.at = at
          BY <1>3, <4>1
        <4> QED
          BY <1>5, <1>8, <3>4, <4>2
      <3> QED
        BY <3>2, <3>3, <3>4
    <2> QED
      BY <1>1, <2>1, <2>2
  <1>10. ScanInv'
    BY <1>1, <1>2, <1>3, <1>9, Zenon DEF ScanInv
  <1> QED
    BY <1>2, <1>10 DEF FmtInv

LEMMA EndScanKeeps ==
  ASSUME FmtInv, EndScan
  PROVE  FmtInv'
  <1>1. /\ stage = "scan" /\ stage' = "done"
        /\ format' = format /\ stream' = stream /\ items' = items /\ full' = full /\ scan' = scan
    BY DEF EndScan
  <1>2. PrintInv' /\ Source' = Source
    BY <1>1, PrintInvStays DEF FmtInv
  <1>3. stage # "print" /\ stage' # "print" /\ stage' \in {"print", "scan", "done"}
    BY <1>1
  <1>4. ScanInv'
    BY <1>1, <1>2, <1>3, Zenon DEF FmtInv, ScanInv
  <1> QED
    BY <1>2, <1>4 DEF FmtInv

(* FmtInv holds of every behaviour.                                        *)
THEOREM FmtInvAlways == FmtSpec => []FmtInv
  <1>1. FmtInv /\ UNCHANGED fmtVars => FmtInv'
    <2> SUFFICES ASSUME FmtInv, UNCHANGED fmtVars PROVE FmtInv'
      OBVIOUS
    <2>1. stage' = stage /\ format' = format /\ stream' = stream /\ items' = items
          /\ full' = full /\ scan' = scan
      BY DEF fmtVars
    <2>2. PrintInv' /\ Source' = Source
      BY <2>1, PrintInvStays DEF FmtInv
    <2>3. ScanInv'
      BY <2>1, <2>2, Zenon DEF FmtInv, ScanInv
    <2> QED
      BY <2>2, <2>3 DEF FmtInv
  <1>2. FmtInv /\ [FmtNext]_fmtVars => FmtInv'
    BY <1>1, PrintItemKeeps, EndPrintKeeps, ScanItemKeeps, EndScanKeeps DEF FmtNext
  <1> QED
    BY <1>2, FmtInitInv, PTL DEF FmtSpec

LEMMA InvMeans ==
  ASSUME FmtInv
  PROVE  SnprintfContract /\ FieldExact
  <1>1. PrintInv /\ ScanInv
    BY DEF FmtInv
  <1>2. /\ Len(format) \in Nat /\ DOMAIN format = 1 .. Len(format)
        /\ stream.size \in 0 .. MemSize /\ MemSize \in Nat
        /\ \A k \in 1 .. Len(format) : FieldType(format[k]) /\ format[k].text \in Str
    BY <1>1, FormatNow
  <1>3. /\ [format |-> format, size |-> stream.size] \in Calls
        /\ full \in Output
        /\ items # <<>> /\ stream.size > 0 => stream.mem[stream.offs] = NUL
        /\ items \in Seq(Seqs!ToSet(items)) /\ Len(items) <= Len(format)
        /\ \A k \in 1 .. Len(items) :
             /\ items[k].from \in Nat /\ items[k].to \in Nat /\ items[k].to <= Len(full)
             /\ items[k].to - items[k].from = Len(Convert(format[k]))
    BY <1>1, Zenon DEF PrintInv
  <1>4. /\ stream.supposed = Unsigned(Len(full), IntBits)
        /\ stream.offs = Min({Len(full), Max({0, stream.size - 1})})
        /\ DOMAIN stream.mem = 0 .. MemSize
        /\ \A i \in 0 .. stream.offs - 1 : stream.mem[i] = full[i + 1]
        /\ \A i \in 0 .. MemSize : i >= stream.size => stream.mem[i] = Unwritten
    BY <1>1, Zenon DEF PrintInv, Holds
  <1>5. Len(items) \in Nat /\ DOMAIN items = 1 .. Len(items) /\ Len(full) \in Nat
    BY <1>3, LenProperties, OutputIs
  <1>6. \A k \in 1 .. Len(items) :
          /\ Len(Convert(format[k])) \in Nat
          /\ format[k].conv # "lit" /\ ~Undercut(format[k]) /\ ~Overruns(format[k]) =>
               Len(Convert(format[k])) = Max({format[k].width, Content(format[k])})
    <2> TAKE k \in 1 .. Len(items)
    <2>1. k \in 1 .. Len(format)
      BY <1>2, <1>3, <1>5
    <2>2. FieldType(format[k]) /\ format[k].text \in Str
      BY <1>2, <2>1
    <2> QED
      BY <2>2, ConvertIs
  <1>7. FieldExact
    <2> SUFFICES ASSUME NEW k \in DOMAIN items, format[k].conv # "lit", ~Undercut(format[k]),
                        ~Overruns(format[k])
                 PROVE  items[k].to - items[k].from = Max({format[k].width, Content(format[k])})
      BY Zenon DEF FieldExact
    <2> QED
      BY <1>3, <1>5, <1>6
  <1>8. stream.offs \in 0 .. Max({0, stream.size - 1})
    <2> DEFINE m == stream.size - 1
               len == Len(full)
               cap == Max({0, m})
    <2>1. m \in Int /\ len \in Nat
      BY <1>2, <1>5
    <2>2. stream.offs = Min({len, cap})
      BY <1>4
    <2> HIDE DEF m, len
    <2>3. cap \in Nat
      BY <2>1, MaxTwo
    <2> HIDE DEF cap
    <2>4. stream.offs \in 0 .. cap
      BY <2>1, <2>2, <2>3, MinTwo
    <2> QED
      BY <2>4 DEF cap, m
  <1>9. FmtTypeOK
    <2>1. \A k \in DOMAIN items : items[k].from <= items[k].to /\ items[k].to <= Len(full)
      <3> TAKE k \in DOMAIN items
      <3> DEFINE from == items[k].from
                 to == items[k].to
                 n == Len(Convert(format[k]))
      <3>1. k \in 1 .. Len(items)
        BY <1>5
      <3>2. from \in Nat /\ to \in Nat /\ n \in Nat /\ to - from = n /\ to <= Len(full)
        BY <1>3, <1>6, <3>1
      <3> HIDE DEF from, to, n
      <3>3. from <= to
        BY <3>2
      <3> QED
        BY <3>2, <3>3 DEF from, to
    <2>2. stage \in {"print", "scan", "done"} /\ scan.gone \in 0 .. Len(format)
          /\ (stage # "print" => scan.at \in 0 .. Len(Source))
      BY <1>1, Zenon DEF ScanInv
    <2>3. stream.supposed \in Nat
      <3>1. Len(full) \in Int /\ IntBits \in Nat
        BY <1>5, WidthsAssumption
      <3>2. Unsigned(Len(full), IntBits) \in Nat
        BY <3>1, WidthOf
      <3> QED
        BY <1>4, <3>2
    <2> QED
      BY <1>3, <1>8, <2>1, <2>2, <2>3, Zenon DEF FmtTypeOK
  <1>10. SnprintfContract
    <2>1. /\ items # <<>> /\ stream.size > 0 =>
               stream.mem[Min({Len(full), Max({0, stream.size - 1})})] = NUL
          /\ \A i \in 0 .. Min({Len(full), Max({0, stream.size - 1})}) - 1 :
               stream.mem[i] = full[i + 1]
      BY <1>3, <1>4, Zenon
    <2>2. \A i \in DOMAIN stream.mem : i >= stream.size => stream.mem[i] = Unwritten
      BY <1>4, Zenon
    <2> QED
      BY <1>4, <1>9, <2>1, <2>2, Zenon DEF SnprintfContract
  <1> QED
    BY <1>7, <1>10

(* SnprintfContract holds of every behaviour: whatever the format, its     *)
(* arguments and the size, snprintf leaves in the buffer as much of the    *)
(* output as fits with the terminator behind it, writes nothing outside,   *)
(* and returns the length of the whole output, modulo the width of size_t. *)
(* A negative precision of a text, which lets it read on behind the text,  *)
(* is among the arguments.                                                 *)
THEOREM SnprintfAlways == FmtSpec => []SnprintfContract
  BY InvMeans, FmtInvAlways, PTL

(* FieldExact holds of every behaviour: a field has the width asked for,   *)
(* or that of its sign, decoration, zeros and digits when these need more. *)
THEOREM FieldsAlways == FmtSpec => []FieldExact
  BY InvMeans, FmtInvAlways, PTL

-----------------------------------------------------------------------------
(* What digits spell                                                       *)

Hex == Seqs!ToSet(Digit)

(* The sixteen digits.                                                     *)
LEMMA HexIs ==
  /\ \A i \in 1 .. 16 : Digit[i] \in Hex
  /\ \A c \in Hex : \E i \in 1 .. 16 : c = Digit[i]
  /\ Hex \subseteq Printable
  <1>1. DOMAIN Digit = 1 .. 16
    BY DEF Digit
  <1>2. Hex \subseteq Printable
    BY DEF Hex, Printable
  <1> QED
    BY <1>1, <1>2, Zenon DEF Hex, Seqs!ToSet

(* No two digits look the same, so each has one value.                     *)
LEMMA DigitsDiffer ==
  \A i, j \in 1 .. 16 : Digit[i] = Digit[j] => i = j
  <1>1. \A i \in 1 .. 16 : \/ i = 1 \/ i = 2 \/ i = 3 \/ i = 4 \/ i = 5 \/ i = 6 \/ i = 7 \/ i = 8
                           \/ i = 9 \/ i = 10 \/ i = 11 \/ i = 12 \/ i = 13 \/ i = 14 \/ i = 15 \/ i = 16
    OBVIOUS
  <1>2. /\ Digit[1] = "0" /\ Digit[2] = "1" /\ Digit[3] = "2" /\ Digit[4] = "3"
        /\ Digit[5] = "4" /\ Digit[6] = "5" /\ Digit[7] = "6" /\ Digit[8] = "7"
        /\ Digit[9] = "8" /\ Digit[10] = "9" /\ Digit[11] = "a" /\ Digit[12] = "b"
        /\ Digit[13] = "c" /\ Digit[14] = "d" /\ Digit[15] = "e" /\ Digit[16] = "f"
    BY DEF Digit
  <1> QED
    BY <1>1, <1>2

LEMMA DigitValueIs ==
  \A i \in 1 .. 16 : DigitValue(Digit[i]) = i - 1
  <1> TAKE i \in 1 .. 16
  <1> DEFINE j == CHOOSE k \in 1 .. 16 : Digit[k] = Digit[i]
  <1>1. j \in 1 .. 16 /\ Digit[j] = Digit[i]
    OBVIOUS
  <1>2. DigitValue(Digit[i]) = j - 1
    BY DEF DigitValue
  <1> HIDE DEF j
  <1> QED
    BY <1>1, <1>2, DigitsDiffer

LEMMA HexValue ==
  \A c \in Hex : DigitValue(c) \in Nat
  <1> TAKE c \in Hex
  <1>1. PICK i \in 1 .. 16 : c = Digit[i]
    BY HexIs
  <1>2. DigitValue(c) = i - 1
    BY <1>1, DigitValueIs
  <1> QED
    BY <1>2

Spelling(f, t, base) ==
  f[0] = 0 /\ \A k \in 1 .. Len(t) : f[k] = f[k - 1] * base + DigitValue(t[k])

(* The value of a text is reached digit by digit.                          *)
LEMMA ValueSteps ==
  ASSUME NEW t \in Seq(Hex), NEW base \in Nat
  PROVE  \E f \in [0 .. Len(t) -> Nat] : Spelling(f, t, base) /\ ValueOf(t, base) = f[Len(t)]
  <1> DEFINE i == Len(t)
             d == [k \in 1 .. i |-> DigitValue(t[k])]
             n == CHOOSE f : f = [k \in 0 .. i |->
                                    IF k = 0 THEN 0 ELSE f[k - 1] * base + DigitValue(t[k])]
             step == [k \in 1 .. i |-> [v \in Nat |-> v * base + d[k]]]
  <1>1. ValueOf(t, base) = n[i]
    BY DEF ValueOf
  <1>2. i \in Nat /\ d \in [1 .. i -> Nat] /\ \A k \in 1 .. i : d[k] = DigitValue(t[k])
    <2>1. i \in Nat /\ \A k \in 1 .. i : t[k] \in Hex
      BY LenProperties, ElementOfSeq
    <2> HIDE DEF i
    <2> QED
      BY <2>1, HexValue
  <1> HIDE DEF i, d
  <1>3. step \in [1 .. i -> [Nat -> Nat]]
    BY <1>2
  <1>4. PICK f : Solves(f, Nat, 0, i, step)
    <2> HIDE DEF step
    <2>1. Recursion(Nat, 0, i, step)
      BY <1>2, <1>3 DEF Recursion
    <2> QED
      BY <2>1, RecursionExists
  <1>5. f \in [0 .. i -> Nat] /\ f[0] = 0 /\ \A k \in 1 .. i : f[k] = f[k - 1] * base + d[k]
    <2>1. f \in [0 .. i -> Nat] /\ f[0] = 0 /\ \A k \in 1 .. i : f[k] = step[k][f[k - 1]]
      BY <1>4, Zenon DEF Solves
    <2>2. \A k \in 1 .. i : f[k - 1] \in Nat
      BY <1>2, <2>1
    <2>3. \A k \in 1 .. i, v \in Nat : step[k][v] = v * base + d[k]
      OBVIOUS
    <2> HIDE DEF step
    <2> QED
      BY <2>1, <2>2, <2>3
  <1>6. f = [k \in 0 .. i |-> IF k = 0 THEN 0 ELSE f[k - 1] * base + DigitValue(t[k])]
    <2>1. f = [k \in 0 .. i |-> f[k]]
      BY <1>5
    <2>2. \A k \in 0 .. i : f[k] = IF k = 0 THEN 0 ELSE f[k - 1] * base + DigitValue(t[k])
      <3>1. \A k \in 0 .. i : k = 0 \/ k \in 1 .. i
        BY <1>2
      <3> QED
        BY <1>2, <1>5, <3>1
    <2> QED
      BY <2>1, <2>2, Zenon
  <1>7. n = [k \in 0 .. i |-> IF k = 0 THEN 0 ELSE n[k - 1] * base + DigitValue(t[k])]
    BY <1>6, Zenon
  <1> HIDE DEF n
  <1>8. n[0] = f[0] /\ \A k \in 1 .. i : n[k - 1] = f[k - 1] => n[k] = f[k]
    <2>1. \A k \in 0 .. i : n[k] = IF k = 0 THEN 0 ELSE n[k - 1] * base + DigitValue(t[k])
      BY <1>7, Zenon
    <2>2. 0 \in 0 .. i /\ \A k \in 1 .. i : k \in 0 .. i /\ k # 0
      BY <1>2
    <2>3. n[0] = 0 /\ \A k \in 1 .. i : n[k] = n[k - 1] * base + DigitValue(t[k])
      BY <2>1, <2>2, Zenon
    <2> QED
      BY <1>2, <1>5, <2>3, Zenon
  <1>9. n[i] = f[i]
    BY <1>2, <1>8, SameSteps
  <1>10. Spelling(f, t, base)
    BY <1>2, <1>5, Zenon DEF Spelling, i
  <1> QED
    BY <1>1, <1>5, <1>9, <1>10 DEF i

(* The value of a text with one more digit behind it, or with others in    *)
(* front.                                                                  *)
LEMMA ValueIs ==
  ASSUME NEW base \in Nat
  PROVE  /\ ValueOf(<<>>, base) = 0
         /\ \A t \in Seq(Hex) : ValueOf(t, base) \in Nat
         /\ \A t \in Seq(Hex), c \in Hex :
              ValueOf(Append(t, c), base) = ValueOf(t, base) * base + DigitValue(c)
  <1>1. ValueOf(<<>>, base) = 0
    <2>1. <<>> \in Seq(Hex) /\ Len(<<>>) = 0
      OBVIOUS
    <2>2. PICK f \in [0 .. Len(<<>>) -> Nat] :
            Spelling(f, <<>>, base) /\ ValueOf(<<>>, base) = f[Len(<<>>)]
      BY <2>1, ValueSteps, Zenon
    <2>3. f[0] = 0
      BY <2>2, Zenon DEF Spelling
    <2> QED
      BY <2>1, <2>2, <2>3, Zenon
  <1>2. ASSUME NEW t \in Seq(Hex) PROVE ValueOf(t, base) \in Nat
    <2>1. PICK f \in [0 .. Len(t) -> Nat] : ValueOf(t, base) = f[Len(t)]
      BY ValueSteps
    <2>2. Len(t) \in 0 .. Len(t)
      BY LenProperties
    <2> HIDE <2>1
    <2> QED
      BY <2>1, <2>2
  <1>3. ASSUME NEW t \in Seq(Hex), NEW c \in Hex
        PROVE  ValueOf(Append(t, c), base) = ValueOf(t, base) * base + DigitValue(c)
    <2> DEFINE u == Append(t, c)
               i == Len(t)
    <2>1. /\ u \in Seq(Hex) /\ Len(u) = i + 1 /\ i \in Nat
          /\ (\A k \in 1 .. i : u[k] = t[k]) /\ u[i + 1] = c
      BY AppendProperties, LenProperties
    <2>2. PICK f \in [0 .. i -> Nat] : Spelling(f, t, base) /\ ValueOf(t, base) = f[i]
      BY ValueSteps
    <2> HIDE DEF u
    <2>3. PICK g \in [0 .. Len(u) -> Nat] : Spelling(g, u, base) /\ ValueOf(u, base) = g[Len(u)]
      BY <2>1, ValueSteps, Zenon
    <2>4. f[0] = 0 /\ \A k \in 1 .. i : f[k] = f[k - 1] * base + DigitValue(t[k])
      BY <2>2, Zenon DEF Spelling
    <2>5. g[0] = 0 /\ \A k \in 1 .. i + 1 : g[k] = g[k - 1] * base + DigitValue(u[k])
      BY <2>1, <2>3, Zenon DEF Spelling
    <2> HIDE DEF i
    <2>6. \A k \in 1 .. i : k \in 1 .. i + 1 /\ u[k] = t[k]
      BY <2>1
    <2>7. \A k \in 1 .. i : f[k - 1] = g[k - 1] => f[k] = g[k]
      BY <2>4, <2>5, <2>6, Zenon
    <2>8. f[0] = g[0]
      BY <2>4, <2>5
    <2>9. f[i] = g[i]
      BY <2>1, <2>7, <2>8, SameSteps
    <2>10. i + 1 \in 1 .. i + 1 /\ (i + 1) - 1 = i
      BY <2>1
    <2>11. g[i + 1] = g[i] * base + DigitValue(c)
      BY <2>1, <2>5, <2>10, Zenon
    <2>12. ValueOf(u, base) = ValueOf(t, base) * base + DigitValue(c)
      BY <2>1, <2>2, <2>3, <2>9, <2>11, Zenon
    <2> QED
      BY <2>12 DEF u
  <1> QED
    BY <1>1, <1>2, <1>3

(* Digits of a base that spell a number.                                   *)
Spells(t, n, base) == t \in Seq(Digits(base)) /\ ValueOf(t, base) = n

(* The digits of a base are there, among them that of each remainder.      *)
LEMMA BaseDigits ==
  ASSUME NEW base \in 2 .. 16
  PROVE  /\ Digits(base) \subseteq Hex /\ "0" \in Digits(base) /\ Digit[1] = "0"
         /\ \A r \in 0 .. base - 1 : Digit[r + 1] \in Digits(base)
  <1>1. \A i \in 1 .. base : i \in 1 .. 16
    OBVIOUS
  <1>2. Digits(base) \subseteq Hex
    BY <1>1, HexIs DEF Digits
  <1>3. \A r \in 0 .. base - 1 : r + 1 \in 1 .. base
    OBVIOUS
  <1>4. \A r \in 0 .. base - 1 : Digit[r + 1] \in Digits(base)
    BY <1>3, Zenon DEF Digits
  <1>5. Digit[1] = "0"
    BY DEF Digit
  <1>6. 1 \in 1 .. base
    OBVIOUS
  <1>7. "0" \in Digits(base)
    BY <1>5, <1>6, Zenon DEF Digits
  <1> QED
    BY <1>2, <1>4, <1>5, <1>7

(* A digit behind the others makes base times the number, and itself.      *)
LEMMA SpellsMore ==
  ASSUME NEW base \in 2 .. 16, NEW n \in Nat, NEW t, Spells(t, n, base), NEW r \in 0 .. base - 1
  PROVE  Spells(Append(t, Digit[r + 1]), n * base + r, base)
  <1> DEFINE c == Digit[r + 1]
  <1>1. c \in Digits(base) /\ Digits(base) \subseteq Hex
    BY BaseDigits
  <1>2. t \in Seq(Digits(base)) /\ ValueOf(t, base) = n
    BY DEF Spells
  <1>3. t \in Seq(Hex) /\ c \in Hex
    BY <1>1, <1>2, SeqMonotonic
  <1>4. DigitValue(c) = r
    <2>1. r + 1 \in 1 .. 16 /\ (r + 1) - 1 = r
      OBVIOUS
    <2> QED
      BY <2>1, DigitValueIs
  <1>5. Append(t, c) \in Seq(Digits(base))
    BY <1>1, <1>2, AppendProperties
  <1>6. base \in Nat
    OBVIOUS
  <1> HIDE DEF c
  <1>7. ValueOf(Append(t, c), base) = n * base + r
    BY <1>2, <1>3, <1>4, <1>6, ValueIs
  <1> QED
    BY <1>5, <1>7 DEF Spells, c

LEMMA SpellsNothing ==
  \A base \in 2 .. 16 : Spells(<<>>, 0, base)
  <1> TAKE base \in 2 .. 16
  <1>1. base \in Nat /\ <<>> \in Seq(Digits(base))
    OBVIOUS
  <1> QED
    BY <1>1, ValueIs DEF Spells

(* A run of one character, one longer.                                     *)
LEMMA FillMore ==
  ASSUME NEW X, NEW c \in X, NEW k \in Nat
  PROVE  Fill(c, k) \in Seq(X) /\ Fill(c, k + 1) = Append(Fill(c, k), c) /\ Fill(c, 0) = <<>>
  <1> DEFINE s == Fill(c, k)
             t == Fill(c, k + 1)
             u == Append(s, c)
  <1>1. \A n \in Nat : Fill(c, n) \in Seq(X) /\ Len(Fill(c, n)) = n /\ \A i \in 1 .. n : Fill(c, n)[i] = c
    <2> TAKE n \in Nat
    <2>1. Fill(c, n) \in [1 .. n -> X] /\ \A i \in 1 .. n : Fill(c, n)[i] = c
      BY DEF Fill
    <2> QED
      BY <2>1, SeqFrom
  <1>2. /\ s \in Seq(X) /\ Len(s) = k /\ \A i \in 1 .. k : s[i] = c
        /\ t \in Seq(X) /\ Len(t) = k + 1 /\ \A i \in 1 .. k + 1 : t[i] = c
    BY <1>1
  <1> HIDE DEF s, t
  <1>3. u \in Seq(X) /\ Len(u) = k + 1 /\ (\A i \in 1 .. k : u[i] = s[i]) /\ u[k + 1] = c
    BY <1>2, AppendProperties
  <1> HIDE DEF u
  <1>4. \A i \in 1 .. k + 1 : t[i] = u[i]
    <2>1. \A i \in 1 .. k + 1 : i \in 1 .. k \/ i = k + 1
      OBVIOUS
    <2> QED
      BY <1>2, <1>3, <2>1
  <1>5. t = u
    BY <1>2, <1>3, <1>4, SeqEqual
  <1>6. Fill(c, 0) = <<>>
    BY <1>1, EmptySeq
  <1> QED
    BY <1>2, <1>5, <1>6 DEF s, t, u

LEMMA ZerosSpell ==
  ASSUME NEW base \in 2 .. 16, NEW z \in Nat
  PROVE  Spells(Fill("0", z), 0, base)
  <1> DEFINE Good == {k \in 0 .. z : Spells(Fill("0", k), 0, base)}
  <1>1. 0 \in Good
    <2>1. Fill("0", 0) = <<>>
      BY FillMore
    <2> QED
      BY <2>1, SpellsNothing
  <1>2. ASSUME NEW k \in 1 .. z, k - 1 \in Good PROVE k \in Good
    <2> DEFINE j == k - 1
    <2>1. j \in Nat /\ j + 1 = k /\ k \in 0 .. z
      OBVIOUS
    <2>2. Spells(Fill("0", j), 0, base)
      BY <1>2
    <2> HIDE DEF j
    <2>3. Fill("0", j + 1) = Append(Fill("0", j), "0")
      BY <2>1, FillMore
    <2>4. 0 \in Nat /\ 0 \in 0 .. base - 1 /\ 0 + 1 = 1 /\ 0 * base + 0 = 0
      OBVIOUS
    <2>5. Spells(Append(Fill("0", j), Digit[0 + 1]), 0 * base + 0, base)
      BY <2>2, <2>4, SpellsMore, Zenon
    <2>6. Digit[1] = "0"
      BY BaseDigits
    <2>7. Spells(Fill("0", k), 0, base)
      BY <2>1, <2>3, <2>4, <2>5, <2>6, Zenon
    <2> QED
      BY <2>1, <2>7
  <1> HIDE DEF Good
  <1>3. z \in Good
    BY <1>1, <1>2, ThroughSteps
  <1> QED
    BY <1>3 DEF Good

LEMMA ConcatAppend ==
  ASSUME NEW X, NEW s \in Seq(X), NEW t \in Seq(X), NEW c \in X
  PROVE  s \o Append(t, c) = Append(s \o t, c)
  <1> DEFINE u == <<c>>
             v == s \o t
  <1>1. u \in Seq(X)
    OBVIOUS
  <1>2. v \in Seq(X)
    BY ConcatProperties
  <1>3. Append(t, c) = t \o u
    BY AppendIsConcat
  <1> HIDE DEF v
  <1>4. Append(v, c) = v \o u
    BY <1>2, AppendIsConcat
  <1> HIDE DEF u
  <1>5. (s \o t) \o u = s \o (t \o u)
    BY <1>1, ConcatAssociative
  <1> QED
    BY <1>3, <1>4, <1>5, Zenon DEF v

(* Behind zeros, what the divisions by the base leave spells the number.   *)
LEMMA DigitsSpell ==
  ASSUME NEW n \in Nat, NEW base \in 2 .. 16, NEW f, DigitsOf(f, n, base), NEW m \in 0 .. n,
         NEW p, Spells(p, 0, base)
  PROVE  f[m] \in Seq(Digits(base)) /\ Spells(p \o f[m], m, base)
  <1> DEFINE D == Seq(Digits(base))
             Right(k) == f[k] \in D /\ Spells(p \o f[k], k, base)
             T == {k \in Nat : k <= n /\ ~Right(k)}
  <1>1. SUFFICES ASSUME T # {} PROVE FALSE
    <2>1. m \in Nat /\ m <= n
      OBVIOUS
    <2> QED
      BY <1>1, <2>1
  <1>2. PICK k \in T : \A l \in T : k <= l
    <2>1. T \subseteq Nat
      OBVIOUS
    <2> HIDE DEF T
    <2> QED
      BY <1>1, <2>1, MinimalNat
  <1> HIDE DEF Right
  <1>3. k \in Nat /\ k <= n /\ ~Right(k) /\ k \in 0 .. n
    BY <1>2
  <1>4. f[k] = IF k = 0 THEN <<>> ELSE Append(f[k \div base], Digit[(k % base) + 1])
    BY <1>3, Zenon DEF DigitsOf
  <1>5. p \in D /\ Spells(p, 0, base)
    BY DEF Spells
  <1>6. k # 0
    <2>1. ASSUME k = 0 PROVE Right(k)
      <3>1. f[k] = <<>> /\ p \o <<>> = p /\ <<>> \in D
        BY <1>4, <1>5, <2>1, ConcatEmptySeq
      <3> QED
        BY <1>5, <2>1, <3>1, Zenon DEF Right
    <2> QED
      BY <1>3, <2>1
  <1> DEFINE q == k \div base
             r == k % base
  <1>7. q \in Nat /\ q < k
    BY <1>3, <1>6, Shrinks
  <1>8. r \in 0 .. base - 1 /\ q * base + r = k
    <2>1. k % base \in 0 .. base - 1 /\ k = base * (k \div base) + (k % base)
      BY <1>3
    <2>2. q * base = base * q
      BY <1>7
    <2> QED
      BY <2>1, <2>2
  <1>9. f[k] = Append(f[q], Digit[r + 1])
    BY <1>4, <1>6
  <1> HIDE DEF q, r
  <1>10. Right(q)
    <2>1. q \notin T
      <3> HIDE DEF T
      <3> QED
        BY <1>2, <1>3, <1>7
    <2>2. q <= n
      BY <1>3, <1>7
    <2> QED
      BY <1>7, <2>1, <2>2
  <1>11. f[q] \in D /\ Spells(p \o f[q], q, base)
    BY <1>10 DEF Right
  <1>12. Digit[r + 1] \in Digits(base)
    BY <1>8, BaseDigits
  <1>13. f[k] \in D
    BY <1>9, <1>11, <1>12, AppendProperties
  <1>14. p \o f[k] = Append(p \o f[q], Digit[r + 1])
    <2> DEFINE X == Digits(base)
    <2>1. p \in Seq(X) /\ f[q] \in Seq(X) /\ Digit[r + 1] \in X
      BY <1>5, <1>11, <1>12
    <2> HIDE DEF X
    <2>2. p \o Append(f[q], Digit[r + 1]) = Append(p \o f[q], Digit[r + 1])
      BY <2>1, ConcatAppend
    <2> QED
      BY <1>9, <2>2, Zenon
  <1>15. Spells(Append(p \o f[q], Digit[r + 1]), q * base + r, base)
    BY <1>7, <1>8, <1>11, SpellsMore
  <1>16. Right(k)
    BY <1>8, <1>13, <1>14, <1>15, Zenon DEF Right
  <1> QED
    BY <1>3, <1>16

(* The first digit of a number is not zero.                                *)
LEMMA FirstDigit ==
  ASSUME NEW n \in Nat, NEW base \in 2 .. 16, NEW f, DigitsOf(f, n, base), NEW m \in 1 .. n
  PROVE  f[m] # <<>> /\ f[m][1] # "0"
  <1> DEFINE Right(k) == f[k] # <<>> /\ f[k][1] # "0"
             T == {k \in Nat : 0 < k /\ k <= n /\ ~Right(k)}
  <1>1. SUFFICES ASSUME T # {} PROVE FALSE
    <2>1. m \in Nat /\ 0 < m /\ m <= n
      OBVIOUS
    <2> QED
      BY <1>1, <2>1
  <1>2. PICK k \in T : \A l \in T : k <= l
    <2>1. T \subseteq Nat
      OBVIOUS
    <2> HIDE DEF T
    <2> QED
      BY <1>1, <2>1, MinimalNat
  <1> HIDE DEF Right
  <1>3. k \in Nat /\ 0 < k /\ k <= n /\ ~Right(k) /\ k \in 0 .. n
    BY <1>2
  <1> DEFINE q == k \div base
             r == k % base
             c == Digit[r + 1]
  <1>4. q \in Nat /\ q < k /\ q \in 0 .. n
    BY <1>3, Shrinks
  <1>5. r \in 0 .. base - 1 /\ k = base * q + r
    BY <1>3
  <1>6. f[k] = Append(f[q], c) /\ c \in Digits(base)
    <2>1. f[k] = IF k = 0 THEN <<>> ELSE Append(f[k \div base], Digit[(k % base) + 1])
      BY <1>3, Zenon DEF DigitsOf
    <2>2. k # 0
      BY <1>3
    <2>3. Digit[r + 1] \in Digits(base)
      BY <1>5, BaseDigits
    <2> QED
      BY <2>1, <2>2, <2>3, Zenon
  <1> HIDE DEF q, r
  <1>7. f[q] \in Seq(Digits(base))
    <2>1. Spells(<<>>, 0, base)
      BY SpellsNothing
    <2> QED
      BY <1>4, <2>1, DigitsSpell, Zenon
  <1>8. CASE q = 0
    <2>1. f[q] = <<>>
      <3>1. 0 \in 0 .. n
        OBVIOUS
      <3> QED
        BY <1>8, <3>1, Zenon DEF DigitsOf
    <2>2. Append(<<>>, c) = <<c>>
      OBVIOUS
    <2>3. r # 0
      BY <1>3, <1>5, <1>8
    <2>4. c # "0"
      <3>1. r + 1 \in 1 .. 16 /\ 1 \in 1 .. 16 /\ r + 1 # 1
        BY <1>5, <2>3
      <3>2. Digit[r + 1] # Digit[1]
        BY <3>1, DigitsDiffer
      <3>3. Digit[1] = "0"
        BY BaseDigits
      <3> QED
        BY <3>2, <3>3, Zenon
    <2>5. f[k] = <<c>>
      BY <1>6, <2>1, <2>2, Zenon
    <2> HIDE DEF c
    <2>6. f[k] # <<>> /\ f[k][1] = c
      BY <2>5
    <2>7. Right(k)
      BY <2>4, <2>6, Zenon DEF Right
    <2> QED
      BY <1>3, <2>7
  <1>9. CASE q # 0
    <2>1. Right(q)
      <3>1. q \notin T
        <4> HIDE DEF T
        <4> QED
          BY <1>2, <1>3, <1>4
      <3>2. 0 < q /\ q <= n
        BY <1>4, <1>9
      <3> QED
        BY <1>4, <3>1, <3>2
    <2>2. f[q] # <<>> /\ f[q][1] # "0"
      BY <2>1 DEF Right
    <2>3. 1 \in 1 .. Len(f[q])
      BY <1>7, <2>2, EmptySeq
    <2> HIDE DEF c
    <2>4. f[k] # <<>> /\ f[k][1] = f[q][1]
      BY <1>6, <1>7, <2>3, AppendProperties
    <2>5. Right(k)
      BY <2>2, <2>4, Zenon DEF Right
    <2> QED
      BY <1>3, <2>5
  <1> QED
    BY <1>8, <1>9

(* The digits of a number, behind any zeros.                               *)
LEMMA NumberSpells ==
  ASSUME NEW n \in Nat, NEW base \in 2 .. 16, NEW p, Spells(p, 0, base)
  PROVE  /\ StringifyULL(n, base) \in Seq(Digits(base))
         /\ Spells(p \o StringifyULL(n, base), n, base)
         /\ StringifyULL(n, base) # <<>>
         /\ StringifyULL(n, base)[1] = "0" => n = 0 /\ StringifyULL(n, base) = <<"0">>
  <1> DEFINE digits == CHOOSE f : DigitsOf(f, n, base)
  <1>1. StringifyULL(n, base) = IF n = 0 THEN <<"0">> ELSE digits[n]
    BY DEF StringifyULL, DigitsOf
  <1>2. DigitsOf(digits, n, base)
    BY DigitsExist
  <1> HIDE DEF digits
  <1>3. CASE n # 0
    <2>1. n \in 0 .. n /\ n \in 1 .. n
      BY <1>3
    <2>2. digits[n] \in Seq(Digits(base)) /\ Spells(p \o digits[n], n, base)
      BY <1>2, <2>1, DigitsSpell
    <2>3. digits[n] # <<>> /\ digits[n][1] # "0"
      BY <1>2, <2>1, FirstDigit
    <2> QED
      BY <1>1, <1>3, <2>2, <2>3, Zenon
  <1>4. CASE n = 0
    <2>1. "0" \in Digits(base) /\ Digit[1] = "0"
      BY BaseDigits
    <2>2. <<"0">> \in Seq(Digits(base)) /\ <<"0">> # <<>>
      BY <2>1
    <2>3. p \in Seq(Digits(base))
      BY DEF Spells
    <2>4. Append(p, "0") = p \o <<"0">>
      BY <2>1, <2>3, AppendIsConcat
    <2>5. 0 \in Nat /\ 0 \in 0 .. base - 1 /\ 0 + 1 = 1 /\ 0 * base + 0 = 0
      OBVIOUS
    <2>6. Spells(Append(p, Digit[0 + 1]), 0 * base + 0, base)
      BY <2>5, SpellsMore, Zenon
    <2> QED
      BY <1>1, <1>4, <2>1, <2>2, <2>4, <2>5, <2>6, Zenon
  <1> QED
    BY <1>3, <1>4

(* The places behind the point.                                            *)
Place(frac, i) == Digit[((Shift(frac, i) \div Eighths) % 10) + 1]
Behind(frac, k) == [i \in 1 .. k |-> Place(frac, i)]

LEMMA TenTimes ==
  \A q \in Nat, r \in 0 .. 7 :
    LET t == (10 * (8 * q + r)) \div 8
    IN t \in Nat /\ t % 10 \in 0 .. 9 /\ t = q * 10 + (t % 10)
  <1> TAKE q \in Nat, r \in 0 .. 7
  <1> DEFINE d == (10 * r) \div 8
             t == (10 * (8 * q + r)) \div 8
  <1>1. d \in 0 .. 9 /\ 8 * d <= 10 * r /\ 10 * r < 8 * d + 8
    OBVIOUS
  <1> HIDE DEF d
  <1>2. t = 10 * q + d
    <2> DEFINE s == 10 * (8 * q + r)
               e == 10 * q + d
    <2>1. s \in Nat /\ e \in Nat /\ 8 * e <= s /\ s < 8 * e + 8
      BY <1>1
    <2> HIDE DEF s, e
    <2>2. s \div 8 = e
      BY <2>1
    <2> QED
      BY <2>2 DEF s, e
  <1> HIDE DEF t
  <1>3. t % 10 = d
    BY <1>1, <1>2
  <1> QED
    BY <1>1, <1>2, <1>3 DEF t

(* The places behind the point spell the fraction shifted by as many.      *)
LEMMA BehindSpells ==
  ASSUME NEW frac \in 0 .. 7, NEW k \in Nat
  PROVE  Len(Behind(frac, k)) = k /\ Spells(Behind(frac, k), Shift(frac, k) \div 8, 10)
  <1> DEFINE X == Digits(10)
             Right(j) == Spells(Behind(frac, j), Shift(frac, j) \div 8, 10)
             Good == {j \in 0 .. k : Right(j)}
  <1>1. frac \in Nat /\ 10 \in 2 .. 16
    OBVIOUS
  <1>2. \A j \in Nat : Shift(frac, j) \in Nat
    BY <1>1, ShiftIs
  <1>3. \A i \in Nat : (Shift(frac, i) \div 8) % 10 \in 0 .. 9 /\ Place(frac, i) \in X
    <2> TAKE i \in Nat
    <2> DEFINE s == Shift(frac, i)
               r == (s \div 8) % 10
    <2>1. s \in Nat
      BY <1>2
    <2> HIDE DEF s
    <2>2. r \in 0 .. 9
      BY <2>1
    <2>3. Place(frac, i) = Digit[r + 1]
      BY DEF Place, Eighths, s
    <2> HIDE DEF r
    <2>4. r \in 0 .. 10 - 1
      BY <2>2
    <2>5. Digit[r + 1] \in X
      BY <1>1, <2>4, BaseDigits
    <2> QED
      BY <2>2, <2>3, <2>5, Zenon DEF r, s
  <1>4. \A j \in Nat : Behind(frac, j) \in Seq(X) /\ Len(Behind(frac, j)) = j
    <2> TAKE j \in Nat
    <2>1. \A i \in 1 .. j : Place(frac, i) \in X
      BY <1>3
    <2>2. Behind(frac, j) \in [1 .. j -> X]
      BY <2>1 DEF Behind
    <2> QED
      BY <2>2, SeqFrom, Zenon
  <1>5. 0 \in Good
    <2>1. Behind(frac, 0) = <<>>
      <3>1. Behind(frac, 0) \in Seq(X) /\ Len(Behind(frac, 0)) = 0
        BY <1>4
      <3> QED
        BY <3>1, EmptySeq
    <2>2. Shift(frac, 0) \div 8 = 0
      <3>1. Shift(frac, 0) = frac
        BY <1>1, ShiftIs
      <3> QED
        BY <3>1
    <2>3. Right(0)
      BY <1>1, <2>1, <2>2, SpellsNothing, Zenon
    <2> HIDE DEF Right
    <2> QED
      BY <2>3
  <1>6. ASSUME NEW i \in 1 .. k, i - 1 \in Good PROVE i \in Good
    <2> DEFINE j == i - 1
               s == Shift(frac, j)
               t == Shift(frac, i)
               q == s \div 8
               r == (t \div 8) % 10
    <2>1. j \in Nat /\ j + 1 = i /\ i \in Nat /\ i \in 0 .. k
      OBVIOUS
    <2>2. Right(j)
      BY <1>6
    <2> HIDE DEF j
    <2>3. s \in Nat /\ t = 10 * s
      BY <1>1, <2>1, ShiftIs
    <2> HIDE DEF s, t
    <2>4. q \in Nat /\ s % 8 \in 0 .. 7 /\ s = 8 * q + (s % 8)
      BY <2>3
    <2>5. t \div 8 = q * 10 + r /\ r \in 0 .. 9 /\ t \div 8 \in Nat
      <3> DEFINE u == s % 8
      <3> HIDE DEF q, u
      <3>1. t = 10 * (8 * q + u) /\ q \in Nat /\ u \in 0 .. 7
        BY <2>3, <2>4 DEF u
      <3> QED
        BY <3>1, TenTimes
    <2>6. Place(frac, i) = Digit[r + 1]
      BY DEF Place, Eighths, t
    <2>7. Behind(frac, i) = Append(Behind(frac, j), Digit[r + 1])
      <3> DEFINE a == Behind(frac, i)
                 b == Behind(frac, j)
                 c == Append(b, Place(frac, i))
      <3>1. a \in Seq(X) /\ Len(a) = i /\ b \in Seq(X) /\ Len(b) = j
        BY <1>4, <2>1
      <3>2. /\ \A l \in 1 .. i : a[l] = Place(frac, l)
            /\ \A l \in 1 .. j : b[l] = Place(frac, l)
        BY DEF Behind
      <3>3. Place(frac, i) \in X
        BY <1>3, <2>1
      <3> HIDE DEF a, b
      <3>4. /\ c \in Seq(X) /\ Len(c) = j + 1 /\ (\A l \in 1 .. j : c[l] = b[l])
            /\ c[j + 1] = Place(frac, i)
        BY <3>1, <3>3, AppendProperties
      <3> HIDE DEF c
      <3>5. \A l \in 1 .. i : l \in 1 .. j \/ l = i
        BY <2>1
      <3>6. \A l \in 1 .. i : a[l] = c[l]
        BY <2>1, <3>2, <3>4, <3>5
      <3>7. a = c
        BY <2>1, <3>1, <3>4, <3>6, SeqEqual
      <3> QED
        BY <2>6, <3>7 DEF a, b, c
    <2>8. r \in 0 .. 10 - 1
      BY <2>5
    <2> HIDE DEF r
    <2>9. Spells(Append(Behind(frac, j), Digit[r + 1]), q * 10 + r, 10)
      <3>1. Spells(Behind(frac, j), q, 10)
        BY <2>2 DEF s
      <3> HIDE DEF q
      <3> QED
        BY <1>1, <2>4, <2>8, <3>1, SpellsMore
    <2>10. Right(i)
      BY <2>5, <2>7, <2>9 DEF t
    <2> HIDE DEF Right
    <2> QED
      BY <2>1, <2>10
  <1> HIDE DEF Good
  <1>7. k \in Good
    BY <1>5, <1>6, ThroughSteps
  <1> QED
    BY <1>4, <1>7 DEF Good

-----------------------------------------------------------------------------
(* Powers of two                                                           *)

(* A power of two counts the subsets of a set, so it grows.                *)
LEMMA PowerCounts ==
  ASSUME NEW b \in Nat
  PROVE  IsFiniteSet(SUBSET (1 .. b)) /\ Cardinality(SUBSET (1 .. b)) = 2 ^ b
  <1> DEFINE S == 1 .. b
  <1>1. IsFiniteSet(S) /\ Cardinality(S) = b
    <2>1. 1 \in Int /\ b \in Int
      OBVIOUS
    <2> QED
      BY <2>1, FS_Interval
  <1> HIDE DEF S
  <1>2. IsFiniteSet(SUBSET S) /\ Cardinality(SUBSET S) = 2 ^ b
    BY <1>1, FS_SUBSET
  <1> QED
    BY <1>2 DEF S

LEMMA PowerGrows ==
  ASSUME NEW a \in Nat, NEW b \in Nat, a <= b
  PROVE  2 ^ a <= 2 ^ b
  <1> DEFINE S == SUBSET (1 .. b)
             T == SUBSET (1 .. a)
  <1>1. IsFiniteSet(S) /\ Cardinality(S) = 2 ^ b /\ Cardinality(T) = 2 ^ a
    BY PowerCounts
  <1>2. T \subseteq S
    OBVIOUS
  <1> HIDE DEF S, T
  <1>3. Cardinality(T) <= Cardinality(S)
    BY <1>1, <1>2, PartSize
  <1> QED
    BY <1>1, <1>3

LEMMA PowerDoubles ==
  ASSUME NEW b \in Nat
  PROVE  2 ^ (b + 1) = 2 * 2 ^ b
  <1> DEFINE e == b + 1
             S == SUBSET (1 .. b)
             T == SUBSET (1 .. e)
             U == T \ S
             add == [A \in S |-> A \cup {e}]
             drop == [A \in U |-> A \ {e}]
  <1>1. e \in Nat /\ S \subseteq T
    OBVIOUS
  <1>2. /\ IsFiniteSet(S) /\ Cardinality(S) = 2 ^ b
        /\ IsFiniteSet(T) /\ Cardinality(T) = 2 ^ e
    BY <1>1, PowerCounts
  <1>3. \A A \in U : e \in A /\ A \ {e} \in S
    <2> TAKE A \in U
    <2>1. A \subseteq 1 .. e /\ ~(A \subseteq 1 .. b)
      OBVIOUS
    <2>2. \A i \in A : i \in 1 .. b \/ i = e
      BY <2>1
    <2> HIDE DEF e
    <2> QED
      BY <2>1, <2>2
  <1>4. \A A \in S : e \notin A /\ A \cup {e} \in U
    <2> TAKE A \in S
    <2>1. A \subseteq 1 .. b /\ e \notin 1 .. b /\ e \in 1 .. e /\ 1 .. b \subseteq 1 .. e
      OBVIOUS
    <2> HIDE DEF e
    <2> QED
      BY <2>1
  <1> HIDE DEF S, T
  <1>5. IsFiniteSet(U) /\ Cardinality(U) \in Nat /\ Cardinality(S) \in Nat
    BY <1>2, PartSize
  <1>6. Cardinality(U) <= Cardinality(S)
    <2>1. \A A \in U : \E B \in S : add[B] = A
      <3> TAKE A \in U
      <3>1. A \ {e} \in S /\ e \in A
        BY <1>3
      <3>2. add[A \ {e}] = A
        BY <3>1
      <3> QED
        BY <3>1, <3>2
    <2>2. DOMAIN add = S
      OBVIOUS
    <2> HIDE DEF add, U
    <2> QED
      BY <1>2, <2>1, <2>2, ImageSize
  <1>7. Cardinality(S) <= Cardinality(U)
    <2>1. \A A \in S : \E B \in U : drop[B] = A
      <3> TAKE A \in S
      <3>1. A \cup {e} \in U /\ e \notin A
        BY <1>4
      <3>2. drop[A \cup {e}] = A
        BY <3>1
      <3> QED
        BY <3>1, <3>2
    <2>2. DOMAIN drop = U
      OBVIOUS
    <2> HIDE DEF drop, U
    <2> QED
      BY <1>5, <2>1, <2>2, ImageSize
  <1>8. S \cup U = T /\ S \cap U = {}
    BY <1>1
  <1> HIDE DEF U
  <1>9. Cardinality(S \cup U) = Cardinality(S) + Cardinality(U) - Cardinality(S \cap U)
    BY <1>2, <1>5, FS_Union
  <1>10. Cardinality(S \cap U) = 0
    BY <1>8, FS_EmptySet
  <1>11. Cardinality(T) = 2 * Cardinality(S)
    <2>1. Cardinality(T) = Cardinality(S) + Cardinality(U) - Cardinality(S \cap U)
      BY <1>8, <1>9, Zenon
    <2> QED
      BY <1>5, <1>6, <1>7, <1>10, <2>1
  <1> QED
    BY <1>2, <1>11 DEF e

(* Half of what a width has room for, on either side of zero.              *)
LEMMA HalfOf ==
  ASSUME NEW b \in Nat \ {0}
  PROVE  /\ 2 ^ (b - 1) \in Nat /\ 2 ^ (b - 1) > 0 /\ 2 ^ b = 2 * 2 ^ (b - 1)
         /\ \A n \in Int : TwosComplement(n, b) \in -(2 ^ (b - 1)) .. 2 ^ (b - 1) - 1
         /\ \A n \in -(2 ^ (b - 1)) .. 2 ^ (b - 1) - 1 : TwosComplement(n, b) = n
         /\ \A n \in Int : Unsigned(n, b) \in 0 .. 2 ^ b - 1
         /\ \A n \in 0 .. 2 ^ b - 1 : Unsigned(n, b) = n
  <1> DEFINE h == 2 ^ (b - 1)
             w == 2 ^ b
             a == b - 1
  <1>1. h \in Nat /\ h > 0 /\ w = 2 * h
    <2>1. a \in Nat /\ a + 1 = b
      OBVIOUS
    <2> HIDE DEF a
    <2>2. 2 ^ a \in Nat /\ 2 ^ a > 0 /\ 2 ^ (a + 1) = 2 * 2 ^ a
      BY <2>1, PowerOfTwo, PowerDoubles
    <2>3. 2 ^ (a + 1) = 2 ^ b
      BY <2>1
    <2>4. h \in Nat /\ h > 0 /\ 2 ^ b = 2 * h
      BY <2>2, <2>3 DEF a
    <2> QED
      BY <2>4
  <1>2. /\ \A n : Unsigned(n, b) = n % w
        /\ \A n : TwosComplement(n, b) = IF n % w < h THEN n % w ELSE (n % w) - w
    BY DEF Unsigned, TwosComplement
  <1> HIDE DEF h, w
  <1>3. \A n \in Int : n % w \in 0 .. w - 1
    BY <1>1
  <1>4. \A n \in 0 .. w - 1 : n % w = n
    BY <1>1
  <1>5. \A n \in -h .. -1 : n % w = n + w
    <2> TAKE n \in -h .. -1
    <2>1. n + w \in 0 .. w - 1 /\ n \in Int
      BY <1>1
    <2>2. n = w * (n \div w) + (n % w) /\ n \div w \in Int /\ n % w \in 0 .. w - 1
      BY <1>1
    <2>3. n \div w = -1
      <3> DEFINE q == n \div w
                 r == n % w
      <3>1. n = w * q + r /\ q \in Int /\ r \in 0 .. w - 1
        BY <2>2
      <3> HIDE DEF q, r
      <3>2. CASE q >= 0
        <4>1. w * q >= 0
          BY <1>1, <3>1, <3>2
        <4>2. w * q \in Int
          BY <1>1, <3>1
        <4> QED
          BY <3>1, <4>1, <4>2
      <3>3. CASE q <= -2
        <4>1. w * (-2 - q) >= 0
          BY <1>1, <3>1, <3>3
        <4>2. w * (-2 - q) = -(2 * w) - w * q /\ w * q \in Int
          BY <1>1, <3>1
        <4>3. w * q <= -(2 * w)
          BY <1>1, <4>1, <4>2
        <4> QED
          BY <1>1, <3>1, <4>2, <4>3
      <3>4. q = -1
        <4>1. q \in Int /\ (q >= 0 \/ q <= -2 \/ q = -1)
          BY <3>1
        <4> QED
          BY <3>2, <3>3, <4>1 DEF q
      <3> QED
        BY <3>4 DEF q
    <2> QED
      BY <1>1, <2>1, <2>2, <2>3
  <1>6. \A n \in Int : TwosComplement(n, b) \in -h .. h - 1
    BY <1>1, <1>2, <1>3
  <1>7. ASSUME NEW n \in -h .. h - 1 PROVE TwosComplement(n, b) = n
    <2>1. CASE n >= 0
      <3>1. n \in 0 .. w - 1 /\ n < h
        BY <1>1, <2>1
      <3> QED
        BY <1>2, <1>4, <3>1
    <2>2. CASE n < 0
      <3>1. n \in -h .. -1 /\ n \in Int
        BY <1>1, <2>2
      <3>2. n % w = n + w /\ ~(n + w < h)
        BY <1>1, <1>5, <3>1
      <3> QED
        BY <1>1, <1>2, <3>1, <3>2
    <2> QED
      BY <1>1, <2>1, <2>2
  <1>8. /\ \A n \in Int : Unsigned(n, b) \in 0 .. w - 1
        /\ \A n \in 0 .. w - 1 : Unsigned(n, b) = n
    BY <1>2, <1>3, <1>4
  <1> QED
    BY <1>1, <1>6, <1>7, <1>8 DEF h, w

(* What an integer conversion takes off the arguments fits the width it is *)
(* read back into.                                                         *)
LEMMA FetchFits ==
  ASSUME NEW f, FieldType(f), f.conv \in Numeric
  PROVE  /\ f.conv \in Signed => /\ Abs(Fetch(f)) \in 0 .. 2 ^ LongLongBits - 1
                                 /\ TwosComplement(Fetch(f), LongLongBits) = Fetch(f)
         /\ f.conv \in {"u", "x", "o"} => Fetch(f) \in 0 .. 2 ^ LongLongBits - 1
  <1> DEFINE L == LongLongBits
             H == 2 ^ (L - 1)
             W == 2 ^ L
             Near(n) == n \in -H .. H - 1
  <1>1. /\ CharBits \in Nat \ {0} /\ IntBits \in Nat \ {0} /\ L \in Nat \ {0}
        /\ CharBits < IntBits /\ IntBits < L
    BY WidthsAssumption
  <1>2. f.arg \in Int /\ f.len \in {"hh", "", "ll"}
    BY Zenon DEF FieldType
  <1>3. /\ H \in Nat /\ H > 0 /\ W = 2 * H
        /\ \A n \in Int : Near(TwosComplement(n, L))
        /\ \A n \in -H .. H - 1 : TwosComplement(n, L) = n
        /\ \A n \in Int : Unsigned(n, L) \in 0 .. W - 1
    BY <1>1, HalfOf
  <1>4. ASSUME NEW b \in Nat \ {0}, b < L, NEW n \in Int
        PROVE  TwosComplement(n, b) \in Int /\ Near(TwosComplement(n, b))
    <2> DEFINE h == 2 ^ (b - 1)
               t == TwosComplement(n, b)
    <2>1. h \in Nat /\ t \in -h .. h - 1
      BY HalfOf
    <2>2. h <= H
      <3>1. b - 1 \in Nat /\ L - 1 \in Nat /\ b - 1 <= L - 1
        BY <1>1, <1>4
      <3> QED
        BY <3>1, PowerGrows
    <2> HIDE DEF h, H, t
    <2> QED
      BY <1>3, <2>1, <2>2 DEF t
  <1> HIDE DEF H, W, L
  <1>5. CASE f.conv \in Signed
    <2>1. \/ Fetch(f) = TwosComplement(f.arg, CharBits)
          \/ Fetch(f) = TwosComplement(f.arg, IntBits)
          \/ Fetch(f) = TwosComplement(f.arg, L)
      <3>1. f.len = "hh" \/ f.len = "" \/ f.len = "ll"
        BY <1>2
      <3>0. f.conv # "p" /\ ~(f.conv \in {"u", "x", "o"})
        BY <1>5 DEF Signed
      <3>2. ASSUME f.len = "hh" PROVE Fetch(f) = TwosComplement(f.arg, CharBits)
        <4>1. f.len # "" /\ f.len # "ll"
          BY <3>2
        <4> QED
          BY <1>5, <3>0, <3>2, <4>1, Zenon DEF Fetch
      <3>3. ASSUME f.len = "" PROVE Fetch(f) = TwosComplement(f.arg, IntBits)
        <4>1. f.len # "hh" /\ f.len # "ll"
          BY <3>3
        <4> QED
          BY <1>5, <3>0, <3>3, <4>1, Zenon DEF Fetch
      <3>4. ASSUME f.len = "ll" PROVE Fetch(f) = TwosComplement(f.arg, LongLongBits)
        <4>1. f.len # "hh" /\ f.len # ""
          BY <3>4
        <4> QED
          BY <1>5, <3>0, <3>4, <4>1, Zenon DEF Fetch
      <3> QED
        BY <3>1, <3>2, <3>3, <3>4, Zenon DEF L
    <2>2. CharBits < L
      BY <1>1
    <2>3. Near(Fetch(f))
      BY <1>1, <1>2, <1>3, <1>4, <2>1, <2>2
    <2>4. Fetch(f) \in Int /\ -H <= Fetch(f) /\ Fetch(f) <= H - 1
      BY <1>3, <2>3
    <2>5. Abs(Fetch(f)) \in 0 .. W - 1
      BY <1>3, <2>4 DEF Abs
    <2>6. ~(f.conv \in {"u", "x", "o"})
      BY <1>5 DEF Signed
    <2> QED
      BY <1>3, <2>3, <2>5, <2>6 DEF W, L
  <1>6. CASE f.conv \notin Signed
    <2>1. ASSUME f.conv \in {"u", "x", "o"} PROVE Fetch(f) \in 0 .. W - 1
      <3>1. \/ Fetch(f) = Unsigned(f.arg, L)
            \/ Fetch(f) = Unsigned(TwosComplement(f.arg, IntBits), L)
        <4>1. f.conv # "p"
          BY <2>1
        <4> QED
          BY <1>6, <2>1, <4>1, Zenon DEF Fetch, L
      <3>2. TwosComplement(f.arg, IntBits) \in Int
        BY <1>1, <1>2, <1>4
      <3> QED
        BY <1>2, <1>3, <3>1, <3>2
    <2> QED
      BY <1>6, <2>1 DEF W, L
  <1> QED
    BY <1>5, <1>6

-----------------------------------------------------------------------------
(* Runs of one character                                                   *)

Blanks == Seq({Space})
Zeros == Seq({"0"})

(* Blanks and zeros are strings, and what fills a field is one of them.    *)
LEMMA RunsAre ==
  /\ Blanks \subseteq Str /\ Zeros \subseteq Str
  /\ <<>> \in Blanks /\ <<>> \in Zeros
  /\ \A s, t \in Blanks : s \o t \in Blanks
  /\ \A s, t \in Zeros : s \o t \in Zeros
  /\ \A n \in Int : Fill(Space, n) \in Blanks /\ Fill("0", n) \in Zeros
  /\ \A n \in Int : Fill(Space, n) # <<>> => n > 0
  /\ \A n \in Int : Fill("0", n) # <<>> => n > 0
  <1>1. {Space} \subseteq Printable /\ {"0"} \subseteq Printable
    BY SymbolIs DEF Space
  <1>2. Blanks \subseteq Str /\ Zeros \subseteq Str
    BY <1>1, SeqMonotonic DEF Blanks, Zeros, Str
  <1>3. <<>> \in Blanks /\ <<>> \in Zeros
    BY DEF Blanks, Zeros
  <1>4. /\ \A s, t \in Blanks : s \o t \in Blanks
        /\ \A s, t \in Zeros : s \o t \in Zeros
    BY ConcatProperties DEF Blanks, Zeros
  <1>5. ASSUME NEW n \in Int, NEW c
        PROVE  Fill(c, n) \in Seq({c}) /\ (Fill(c, n) # <<>> => n > 0)
    <2>1. CASE n > 0
      <3>1. n \in Nat /\ Fill(c, n) \in [1 .. n -> {c}]
        BY <2>1 DEF Fill
      <3> QED
        BY <2>1, <3>1, SeqFrom
    <2>2. CASE ~(n > 0)
      <3>1. 1 .. n = 1 .. 0
        BY <2>2
      <3>2. Fill(c, n) = [i \in 1 .. 0 |-> c]
        BY <3>1 DEF Fill
      <3>3. Fill(c, n) \in [1 .. 0 -> {c}]
        BY <3>2
      <3>4. Fill(c, n) \in Seq({c}) /\ Len(Fill(c, n)) = 0
        BY <3>3, SeqFrom
      <3>5. Fill(c, n) = <<>>
        BY <3>4, EmptySeq
      <3> QED
        BY <3>4, <3>5
    <2> QED
      BY <2>1, <2>2
  <1> QED
    BY <1>2, <1>3, <1>4, <1>5 DEF Blanks, Zeros

(* Zeros alone spell zero.                                                 *)
LEMMA RunOfZeros ==
  ASSUME NEW base \in 2 .. 16, NEW z \in Zeros
  PROVE  Spells(z, 0, base)
  <1> DEFINE n == Len(z)
             t == Fill("0", n)
  <1>1. n \in Nat /\ z \in Seq({"0"}) /\ \A i \in 1 .. n : z[i] = "0"
    <2>1. z \in Seq({"0"})
      BY DEF Zeros
    <2> QED
      BY <2>1, LenProperties, ElementOfSeq
  <1> HIDE DEF n
  <1>2. t \in [1 .. n -> {"0"}] /\ \A i \in 1 .. n : t[i] = "0"
    BY DEF Fill
  <1> HIDE DEF t
  <1>3. t \in Seq({"0"}) /\ Len(t) = n
    BY <1>1, <1>2, SeqFrom
  <1>4. z = t
    BY <1>1, <1>2, <1>3, SeqEqual DEF n
  <1>5. Spells(t, 0, base)
    BY <1>1, ZerosSpell DEF t
  <1> QED
    BY <1>4, <1>5

(* Blanks, the end, signs and the point are no digits: numbers end there.  *)
LEMMA NoDigit ==
  \A base \in 2 .. 16 : \A c \in {Space, NUL, "+", "-", ".", "x"} : c \notin Digits(base)
  <1>1. \A i \in 1 .. 16 : \/ i = 1 \/ i = 2 \/ i = 3 \/ i = 4 \/ i = 5 \/ i = 6 \/ i = 7 \/ i = 8
                           \/ i = 9 \/ i = 10 \/ i = 11 \/ i = 12 \/ i = 13 \/ i = 14 \/ i = 15 \/ i = 16
    OBVIOUS
  <1>2. /\ Digit[1] = "0" /\ Digit[2] = "1" /\ Digit[3] = "2" /\ Digit[4] = "3"
        /\ Digit[5] = "4" /\ Digit[6] = "5" /\ Digit[7] = "6" /\ Digit[8] = "7"
        /\ Digit[9] = "8" /\ Digit[10] = "9" /\ Digit[11] = "a" /\ Digit[12] = "b"
        /\ Digit[13] = "c" /\ Digit[14] = "d" /\ Digit[15] = "e" /\ Digit[16] = "f"
    BY DEF Digit
  <1>3. \A i \in 1 .. 16 : Digit[i] \notin {Space, NUL, "+", "-", ".", "x"}
    BY <1>1, <1>2 DEF Space, NUL
  <1>4. \A base \in 2 .. 16 : Digits(base) \subseteq Hex
    BY BaseDigits
  <1> QED
    BY <1>3, <1>4, HexIs

LEMMA CatIs ==
  /\ \A s, t, u \in Str : (s \o t) \o u = s \o (t \o u)
  /\ \A s \in Str : s \o <<>> = s /\ <<>> \o s = s
  /\ \A s, t \in Str : s \o t \in Str
  <1>1. \A s, t, u \in Str : (s \o t) \o u = s \o (t \o u)
    BY ConcatAssociative DEF Str
  <1>2. \A s \in Str : s \o <<>> = s /\ <<>> \o s = s
    BY ConcatEmptySeq DEF Str
  <1> QED
    BY <1>1, <1>2, Joined, Zenon

Groups(s, t, u) == s \o t \o u = s \o (t \o u)

LEMMA Grouped == \A s, t, u \in Str : Groups(s, t, u)
  BY CatIs, Zenon DEF Groups

LEMMA Regroup ==
  ASSUME NEW s \in Str, NEW t \in Str, NEW u \in Str
  PROVE  s \o t \o u = s \o (t \o u)
  BY CatIs, Zenon

-----------------------------------------------------------------------------
(* What a field of a number consists of                                    *)

(* A field of a number is blanks, the decoration, zeros if the field may   *)
(* lead with them, the number and blanks, in each branch of the padding.   *)
LEMMA NumberShape ==
  ASSUME NEW f, FieldType(f), f.conv \in Numeric
  PROVE  \E a, b \in Blanks, z \in Zeros :
           /\ z # <<>> => LeadingZeros(f)
           /\ NumberField(f) = a \o (Decoration(f) \o (z \o (Number(f) \o b)))
  <1> DEFINE N == Number(f)
             D == Decoration(f)
             E == Excess(f)
             y == Fill("0", E)
             padding == f.width - Len(N) - Len(D)
             left == Fill(Space, padding - E)
             right == Fill(Space, padding - Max({0, E}))
             zero == Fill("0", padding - E)
  <1>1. N \in Str /\ D \in Str /\ Len(N) \in Nat /\ Len(D) \in Nat /\ E \in Int /\ f.width \in Int
    BY NumberIs, DecorationIs, ExcessIs, FieldParts
  <1>2. padding - E \in Int /\ padding - Max({0, E}) \in Int
    <2>1. Max({0, E}) \in Int
      BY <1>1, MaxTwo
    <2> QED
      BY <1>1, <2>1
  <1>3. /\ y \in Zeros /\ zero \in Zeros /\ left \in Blanks /\ right \in Blanks
        /\ y # <<>> => E > 0
    BY <1>1, <1>2, RunsAre
  <1>4. y # <<>> => LeadingZeros(f)
    BY <1>3 DEF LeadingZeros
  <1>5. \/ NumberField(f) = D \o (y \o N)
        \/ NumberField(f) = D \o (y \o N) \o right
        \/ NumberField(f) = D \o zero \o (y \o N) /\ ~f.left /\ f.zero
        \/ NumberField(f) = left \o D \o (y \o N)
    <2>1. NumberField(f) = CASE Len(N) >= f.width -> D \o (y \o N)
            [] Len(N) < f.width /\ f.left -> D \o (y \o N) \o right
            [] Len(N) < f.width /\ ~f.left /\ f.zero -> D \o zero \o (y \o N)
            [] OTHER -> left \o D \o (y \o N)
      BY Zenon DEF NumberField
    <2> HIDE DEF N, D, y, right, zero, left
    <2>2. CASE Len(N) >= f.width
      <3>1. ~(Len(N) < f.width)
        BY <1>1, <2>2
      <3> QED
        BY <2>1, <2>2, <3>1, Zenon
    <2>3. CASE ~(Len(N) >= f.width) /\ f.left
      <3>1. Len(N) < f.width
        BY <1>1, <2>3
      <3> QED
        BY <2>1, <2>3, <3>1, Zenon
    <2>4. CASE ~(Len(N) >= f.width) /\ ~f.left
      <3>1. Len(N) < f.width
        BY <1>1, <2>4
      <3> QED
        BY <2>1, <2>4, <3>1, Zenon
    <2> QED
      BY <2>2, <2>3, <2>4
  <1> HIDE DEF N, D, y, right, zero, left
  <1>6. y \in Str /\ zero \in Str /\ left \in Str /\ right \in Str /\ <<>> \in Str
    BY <1>3, RunsAre
  <1>7. y \o N \in Str /\ N \o <<>> = N /\ N \o right \in Str /\ D \o (y \o N) \in Str
        /\ <<>> \o (D \o (y \o N)) = D \o (y \o N)
    BY <1>1, <1>6, CatIs, Zenon
  <1> DEFINE M == y \o N
  <1>14. M \in Str /\ y \in Str /\ N \in Str /\ zero \in Str /\ left \in Str /\ right \in Str /\ D \in Str
    BY <1>1, <1>6, <1>7
  <1> HIDE DEF M
  <1>15. \A s, t, u \in Str : s \o t \o u = s \o (t \o u)
    BY CatIs, Zenon
  <1>16. D \o M \o right = D \o (M \o right)
    <2>1. D \in Str /\ M \in Str /\ right \in Str
      BY <1>14
    <2> QED
      BY <1>15, <2>1
  <1>17. D \o zero \o M = D \o (zero \o M)
    <2>1. D \in Str /\ zero \in Str /\ M \in Str
      BY <1>14
    <2> QED
      BY <1>15, <2>1
  <1>18. left \o D \o M = left \o (D \o M)
    <2>1. left \in Str /\ D \in Str /\ M \in Str
      BY <1>14
    <2> QED
      BY <1>15, <2>1
  <1>19. y \o N \o right = y \o (N \o right)
    <2>1. y \in Str /\ N \in Str /\ right \in Str
      BY <1>14
    <2> QED
      BY <1>15, <2>1
  <1>20. zero \o y \o N = zero \o (y \o N)
    <2>1. zero \in Str /\ y \in Str /\ N \in Str
      BY <1>14
    <2> QED
      BY <1>15, <2>1
  <1> DEFINE Laid == \E a, b \in Blanks, z \in Zeros :
                         /\ z # <<>> => LeadingZeros(f)
                         /\ NumberField(f) = a \o (D \o (z \o (N \o b)))
  <1>8. <<>> \in Blanks
    BY RunsAre
  <1>9. ASSUME NumberField(f) = D \o (y \o N) PROVE Laid
    <2>1. NumberField(f) = <<>> \o (D \o (y \o (N \o <<>>)))
      BY <1>7, <1>9, Zenon
    <2> QED
      BY <1>3, <1>4, <1>8, <2>1, Zenon
  <1>10. ASSUME NumberField(f) = D \o (y \o N) \o right PROVE Laid
    <2>1. D \o (y \o N) \o right = D \o ((y \o N) \o right)
      BY <1>16, Zenon DEF M
    <2>2. (y \o N) \o right = y \o (N \o right)
      BY <1>19
    <2>3. D \o (y \o (N \o right)) \in Str
      BY <1>1, <1>6, CatIs, Zenon
    <2>4. NumberField(f) = <<>> \o (D \o (y \o (N \o right)))
      BY <1>10, <2>1, <2>2, <2>3, CatIs, Zenon
    <2> QED
      BY <1>3, <1>4, <1>8, <2>4, Zenon
  <1>11. ASSUME NumberField(f) = D \o zero \o (y \o N), ~f.left, f.zero PROVE Laid
    <2> DEFINE z == zero \o y
    <2>1. z \in Zeros /\ LeadingZeros(f)
      BY <1>3, <1>11, RunsAre DEF LeadingZeros
    <2>2. D \o zero \o (y \o N) = D \o (zero \o (y \o N))
      BY <1>17, Zenon DEF M
    <2>3. zero \o (y \o N) = z \o N
      BY <1>20
    <2>4. z \in Str
      BY <2>1, RunsAre
    <2>5. D \o (z \o N) \in Str
      BY <1>1, <2>4, CatIs, Zenon
    <2> HIDE DEF z
    <2>6. NumberField(f) = <<>> \o (D \o (z \o (N \o <<>>)))
      <3>1. NumberField(f) = D \o (z \o N)
        BY <1>11, <2>2, <2>3, Zenon
      <3>2. <<>> \o (D \o (z \o N)) = D \o (z \o N)
        BY <2>5, CatIs, Zenon
      <3> QED
        BY <1>7, <3>1, <3>2, Zenon
    <2> QED
      BY <1>8, <2>1, <2>6, Zenon
  <1>12. ASSUME NumberField(f) = left \o D \o (y \o N) PROVE Laid
    <2>1. left \o D \o (y \o N) = left \o (D \o (y \o N))
      BY <1>18, Zenon DEF M
    <2>2. NumberField(f) = left \o (D \o (y \o (N \o <<>>)))
      BY <1>7, <1>12, <2>1, Zenon
    <2> QED
      BY <1>3, <1>4, <1>8, <2>2, Zenon
  <1>13. Laid
    BY <1>5, <1>9, <1>10, <1>11, <1>12
  <1> QED
    BY <1>13 DEF N, D

(* A number consists of a sign, digits and what comes behind them.         *)
Consists(c, S, t, rest) == c = S \o (t \o rest)

(* A sign, as it is read: a blank is none.                                 *)
Signs(S, n) == S \in {<<>>, <<"-">>, <<"+">>} /\ (S = <<"-">> <=> n < 0)

(* Behind blanks and zeros, a number is one with the zeros among the       *)
(* digits and a blank for a sign among the blanks.                         *)
Reads(a, z, N, c, S, t, rest) == a \o (z \o N) = c \o (S \o (t \o rest))

(* A signed number behind blanks and zeros is read as blanks, a sign and   *)
(* digits that spell it: a blank written for a sign is passed over.        *)
LEMMA SignedShape ==
  ASSUME NEW n \in Int, NEW m \in Nat, NEW plus, NEW space, NEW rest \in Str,
         NEW a \in Blanks, NEW z \in Zeros, NEW N,
         Consists(N, Sign(n, plus, space), StringifyULL(m, 10), rest),
         z # <<>> => N[1] \in Digits(10)
  PROVE  \E c \in Blanks, S \in Str, t \in Str :
           /\ Reads(a, z, N, c, S, t, rest)
           /\ Signs(S, n) /\ Spells(t, m, 10) /\ t # <<>>
           /\ z = <<>> => t = StringifyULL(m, 10)
  <1> DEFINE G == Sign(n, plus, space)
             U == StringifyULL(m, 10)
  <1>1. 10 \in 2 .. 16 /\ <<>> \in Zeros /\ <<>> \in Blanks /\ <<>> \in Str /\ a \in Str /\ z \in Str
    BY RunsAre
  <1>2. U \in Str /\ U # <<>> /\ \A y \in Zeros : Spells(y \o U, m, 10)
    BY <1>1, UnsignedIs, NumberSpells, RunOfZeros
  <1>3. Spells(U, m, 10)
    <2>1. <<>> \o U = U
      BY <1>2, CatIs, Zenon
    <2> QED
      BY <1>1, <1>2, <2>1, Zenon
  <1>4. /\ <<"-">> \in Str /\ <<"+">> \in Str /\ <<Space>> \in Str
        /\ Len(<<"-">>) = 1 /\ Len(<<"+">>) = 1 /\ Len(<<Space>>) = 1
    BY SymbolIs, ShortStr, Zenon DEF Space
  <1>5. /\ G \in {<<>>, <<"-">>, <<"+">>, <<Space>>}
        /\ G = <<"-">> <=> n < 0
    <2>1. <<"+">> # <<"-">> /\ <<Space>> # <<"-">> /\ <<>> # <<"-">>
      BY DEF Space
    <2> QED
      BY <2>1, Zenon DEF Sign
  <1>6. <<Space>> \in Blanks
    BY DEF Blanks
  <1>7. N = G \o (U \o rest)
    BY Zenon DEF Consists
  <1> HIDE DEF G, U
  <1>8. G \in Str /\ U \o rest \in Str /\ z \o U \in Str
    BY <1>1, <1>2, <1>4, <1>5, CatIs, Zenon
  <1>9. CASE z # <<>>
    <2>1. G = <<>>
      <3>1. SUFFICES ASSUME G # <<>> PROVE FALSE
        OBVIOUS
      <3>2. Len(G) = 1 /\ G[1] \in {Space, "+", "-"}
        BY <1>5, <3>1
      <3>3. N[1] = G[1]
        <4> DEFINE V == U \o rest
        <4>1. V \in Seq(Printable) /\ G \in Seq(Printable)
          BY <1>8 DEF Str
        <4> HIDE DEF V
        <4>2. Len(V) \in Nat
          BY <4>1, LenProperties
        <4>3. (G \o V)[1] = G[1]
          BY <3>2, <4>1, <4>2, ConcatProperties
        <4> QED
          BY <1>7, <4>3 DEF V
      <3> QED
        BY <1>1, <1>9, <3>2, <3>3, NoDigit
    <2>2. N = U \o rest
      BY <1>7, <1>8, <2>1, CatIs, Zenon
    <2>3. z \o (U \o rest) = (z \o U) \o rest
      BY <1>1, <1>2, Regroup
    <2>4. (z \o U) \o rest \in Str
      BY <1>8, CatIs, Zenon
    <2>5. a \o (z \o N) = a \o (<<>> \o ((z \o U) \o rest))
      BY <2>2, <2>3, <2>4, CatIs, Zenon
    <2>6. z \o U # <<>>
      <3>1. Len(z \o U) = Len(z) + Len(U) /\ Len(z) \in Nat /\ Len(U) \in Nat /\ Len(U) # 0
        <4>1. U \in Seq(Printable)
          BY <1>2 DEF Str
        <4>2. Len(U) \in Nat \ {0}
          BY <1>2, <4>1, EmptySeq
        <4> QED
          BY <1>1, <1>2, <4>2, Joined
      <3> DEFINE V == z \o U
      <3> HIDE DEF V
      <3>2. Len(V) # 0
        BY <3>1 DEF V
      <3> QED
        BY <3>2, ShortStr DEF V
    <2>7. Signs(<<>>, n)
      BY <1>5, <2>1 DEF Signs
    <2> QED
      BY <1>1, <1>2, <1>8, <1>9, <2>5, <2>6, <2>7, Zenon DEF Reads
  <1>10. CASE z = <<>> /\ G = <<Space>>
    <2> DEFINE c == a \o <<Space>>
    <2>1. c \in Blanks
      BY <1>6, RunsAre
    <2>2. z \o N = N
      BY <1>7, <1>8, <1>10, CatIs, Zenon
    <2>3. a \o (<<Space>> \o (U \o rest)) = c \o (U \o rest)
      <3> DEFINE V == U \o rest
                 B == <<Space>>
      <3>1. a \in Str /\ B \in Str /\ V \in Str
        BY <1>1, <1>4, <1>8
      <3> HIDE DEF V, B
      <3>2. a \o B \o V = a \o (B \o V)
        BY <3>1, Regroup
      <3> QED
        BY <3>2 DEF V, B
    <2>4. U \o rest = <<>> \o (U \o rest)
      BY <1>8, CatIs, Zenon
    <2> HIDE DEF c
    <2>5. a \o (z \o N) = c \o (<<>> \o (U \o rest))
      BY <1>7, <1>10, <2>2, <2>3, <2>4, Zenon
    <2>6. Signs(<<>>, n)
      <3>1. <<Space>> # <<"-">> /\ <<>> # <<"-">>
        BY DEF Space
      <3> QED
        BY <1>5, <1>10, <3>1, Zenon DEF Signs
    <2> QED
      BY <1>1, <1>2, <1>3, <2>1, <2>5, <2>6, Zenon DEF U, Reads
  <1>11. CASE z = <<>> /\ G # <<Space>>
    <2>1. z \o N = N
      BY <1>7, <1>8, <1>11, CatIs, Zenon
    <2>2. a \o (z \o N) = a \o (G \o (U \o rest))
      BY <1>7, <2>1, Zenon
    <2>3. Signs(G, n)
      BY <1>5, <1>11, Zenon DEF Signs
    <2> QED
      BY <1>2, <1>3, <1>8, <2>2, <2>3, Zenon DEF U, Reads
  <1> QED
    BY <1>9, <1>10, <1>11

-----------------------------------------------------------------------------
(* Text that lies in the source                                            *)

(* The string s lies in the source from the offset at on.                  *)
Lies(at, s) ==
  at + Len(s) <= Len(Source) /\ \A i \in 1 .. Len(s) : Source[at + i] = s[i]

(* Of two texts that lie there one behind the other, each does.            *)
LEMMA LiesSplit ==
  ASSUME Len(Source) \in Nat, NEW at \in Nat, NEW s \in Str, NEW t \in Str, Lies(at, s \o t)
  PROVE  Lies(at, s) /\ Lies(at + Len(s), t)
  <1> DEFINE m == Len(s)
             n == Len(t)
             st == s \o t
  <1>1. m \in Nat /\ n \in Nat /\ Len(st) = m + n
    BY Joined
  <1>2. \A i \in 1 .. m + n : st[i] = IF i <= m THEN s[i] ELSE t[i - m]
    <2>1. s \in Seq(Printable) /\ t \in Seq(Printable)
      BY DEF Str
    <2> QED
      BY <2>1, ConcatProperties
  <1>3. at + Len(st) <= Len(Source) /\ \A i \in 1 .. Len(st) : Source[at + i] = st[i]
    BY DEF Lies
  <1> HIDE DEF m, n, st
  <1>4. \A i \in 1 .. m : Source[at + i] = s[i]
    <2>1. \A i \in 1 .. m : i \in 1 .. m + n /\ i <= m
      BY <1>1
    <2> QED
      BY <1>1, <1>2, <1>3, <2>1
  <1>5. \A i \in 1 .. n : Source[(at + m) + i] = t[i]
    <2> TAKE i \in 1 .. n
    <2>1. m + i \in 1 .. m + n /\ ~(m + i <= m) /\ (m + i) - m = i /\ (at + m) + i = at + (m + i)
      BY <1>1
    <2>2. Source[at + (m + i)] = st[m + i]
      BY <1>1, <1>3, <2>1
    <2>3. st[m + i] = t[i]
      BY <1>2, <2>1
    <2> QED
      BY <2>1, <2>2, <2>3, Zenon
  <1>6. at + m <= Len(Source) /\ (at + m) + n <= Len(Source)
    BY <1>1, <1>3
  <1> QED
    BY <1>4, <1>5, <1>6 DEF Lies, m, n

(* The source from there on is the text.                                   *)
LEMMA LiesText ==
  ASSUME Len(Source) \in Nat, NEW at \in Nat, NEW X, NEW t \in Seq(X), Lies(at, t)
  PROVE  SubSeq(Source, at + 1, at + Len(t)) = t
  <1> DEFINE n == Len(t)
             a == at + 1
             b == at + n
             s == SubSeq(Source, a, b)
  <1>1. n \in Nat /\ \A i \in 1 .. n : t[i] \in X
    BY LenProperties, ElementOfSeq
  <1>2. \A i \in 1 .. n : Source[at + i] = t[i]
    BY DEF Lies
  <1> HIDE DEF n
  <1>3. a \in Int /\ b \in Int /\ b - a + 1 = n /\ (IF a <= b THEN b - a + 1 ELSE 0) = n
    BY <1>1
  <1>4. \A i \in a .. b : Source[i] \in X
    <2> TAKE i \in a .. b
    <2>1. i - at \in 1 .. n /\ at + (i - at) = i
      BY <1>1
    <2>2. Source[at + (i - at)] = t[i - at]
      BY <1>2, <2>1
    <2> QED
      BY <1>1, <2>1, <2>2
  <1>5. \A i \in 1 .. n : a + i - 1 = at + i
    BY <1>1
  <1> HIDE DEF a, b
  <1>6. s \in Seq(X) /\ Len(s) = n /\ \A i \in 1 .. n : s[i] = Source[a + i - 1]
    BY <1>3, <1>4, SubSeqProperties
  <1> HIDE DEF s
  <1>7. \A i \in 1 .. n : s[i] = t[i]
    BY <1>2, <1>5, <1>6
  <1>8. s = t
    BY <1>6, <1>7, SeqEqual DEF n
  <1> QED
    BY <1>8 DEF s, a, b, n

(* The characters of a string that lies there.                             *)
LEMMA LiesAt ==
  ASSUME Len(Source) \in Nat, NEW at \in Nat, NEW s, Len(s) \in Nat, Lies(at, s)
  PROVE  /\ \A j \in at .. at + Len(s) - 1 : j - at + 1 \in 1 .. Len(s) /\ CharAt(j) = s[j - at + 1]
         /\ at + Len(s) \in 0 .. Len(Source) /\ at \in 0 .. Len(Source)
         /\ Len(s) > 0 => CharAt(at) = s[1]
  <1> DEFINE n == Len(s)
             end == Len(Source)
  <1>1. n \in Nat /\ end \in Nat /\ at + n <= end /\ \A i \in 1 .. n : Source[at + i] = s[i]
    BY DEF Lies
  <1> HIDE DEF n
  <1>2. \A j : CharAt(j) = IF j < end THEN Source[j + 1] ELSE NUL
    BY DEF CharAt
  <1> HIDE DEF end
  <1>3. ASSUME NEW j \in at .. at + n - 1 PROVE j - at + 1 \in 1 .. n /\ CharAt(j) = s[j - at + 1]
    <2>1. j - at + 1 \in 1 .. n /\ at + (j - at + 1) = j + 1 /\ j < end
      BY <1>1
    <2>2. Source[at + (j - at + 1)] = s[j - at + 1]
      BY <1>1, <2>1
    <2> QED
      BY <1>2, <2>1, <2>2
  <1>4. n > 0 => CharAt(at) = s[1]
    <2>1. n > 0 => at \in at .. at + n - 1 /\ at - at + 1 = 1
      BY <1>1
    <2> QED
      BY <1>3, <2>1
  <1> QED
    BY <1>1, <1>3, <1>4 DEF n, end

-----------------------------------------------------------------------------
(* Characters passed over                                                  *)

(* Characters are passed over as far as they are among those given.        *)
LEMMA PastStops ==
  ASSUME Len(Source) \in Nat, NEW at \in Nat, NEW to \in at .. Len(Source), NEW chars,
         \A j \in at .. to - 1 : CharAt(j) \in chars, CharAt(to) \notin chars
  PROVE  Past(at, chars) = to
  <1> DEFINE T == {j \in at .. Len(Source) : CharAt(j) \notin chars}
  <1>1. to \in T /\ T \subseteq Nat /\ to \in Nat
    OBVIOUS
  <1>2. \A m \in T : to <= m
    <2> TAKE m \in T
    <2>1. m \in Nat /\ at <= m /\ CharAt(m) \notin chars
      OBVIOUS
    <2>2. m \notin at .. to - 1
      BY <2>1
    <2> QED
      BY <1>1, <2>1, <2>2
  <1>3. Past(at, chars) = Min(T)
    BY DEF Past
  <1> HIDE DEF T
  <1>4. Min(T) \in T /\ Min(T) <= to
    BY <1>1, LeastOf
  <1>5. Min(T) \in Nat /\ to <= Min(T)
    BY <1>1, <1>2, <1>4
  <1> QED
    BY <1>1, <1>3, <1>4, <1>5

(* It does not matter from where among them one starts.                    *)
LEMMA PastJoins ==
  ASSUME Len(Source) \in Nat, NEW at \in Nat, NEW to \in at .. Len(Source), NEW chars,
         \A j \in at .. to - 1 : CharAt(j) \in chars
  PROVE  Past(at, chars) = Past(to, chars)
  <1>1. {j \in at .. Len(Source) : CharAt(j) \notin chars}
          = {j \in to .. Len(Source) : CharAt(j) \notin chars}
    <2>1. \A j \in at .. Len(Source) : j \in to .. Len(Source) \/ j \in at .. to - 1
      OBVIOUS
    <2>2. \A j \in to .. Len(Source) : j \in at .. Len(Source)
      OBVIOUS
    <2> QED
      BY <2>1, <2>2
  <1> QED
    BY <1>1, Zenon DEF Past

(* Blanks are passed over to where the next character stands.              *)
LEMMA PastIsThere ==
  ASSUME Len(Source) \in Nat, NEW at \in 0 .. Len(Source)
  PROVE  /\ Past(at, Whitespace) \in at .. Len(Source)
         /\ Past(Past(at, Whitespace), Whitespace) = Past(at, Whitespace)
  <1> DEFINE T == {j \in at .. Len(Source) : CharAt(j) \notin Whitespace}
             p == Past(at, Whitespace)
  <1>1. p = Min(T)
    BY DEF Past
  <1>2. p \in at .. Len(Source)
    BY PastIs, NotTheEnd
  <1>3. T \subseteq Nat
    OBVIOUS
  <1>4. Len(Source) \in T
    BY Before, NotTheEnd
  <1>5. \A j \in T : CharAt(j) \notin Whitespace
    OBVIOUS
  <1> HIDE DEF T
  <1>6. p \in T
    BY <1>1, <1>3, <1>4, LeastOf
  <1>7. CharAt(p) \notin Whitespace
    BY <1>5, <1>6
  <1> HIDE DEF p
  <1>8. p \in Nat /\ p \in p .. Len(Source) /\ \A j \in p .. p - 1 : CharAt(j) \in Whitespace
    BY <1>2
  <1>9. Past(p, Whitespace) = p
    BY <1>7, <1>8, PastStops
  <1> QED
    BY <1>2, <1>9 DEF p

-----------------------------------------------------------------------------
(* Numbers read                                                            *)

Follow == {Space, NUL}
FitsLL(n) == n \in 0 .. 2 ^ LongLongBits - 1

LEMMA FitsIs ==
  ASSUME NEW n, FitsLL(n)
  PROVE  n \in Nat /\ Unsigned(n, LongLongBits) = n
  <1>1. LongLongBits \in Nat \ {0}
    BY WidthsAssumption
  <1>2. n \in 0 .. 2 ^ LongLongBits - 1
    BY DEF FitsLL
  <1>3. Unsigned(n, LongLongBits) = n
    BY <1>1, <1>2, HalfOf
  <1>4. 2 ^ LongLongBits \in Nat
    BY <1>1, PowerOfTwo
  <1>5. n \in Nat
    BY <1>2, <1>4
  <1> QED
    BY <1>3, <1>5

LEMMA DigitsWide ==
  /\ 8 \in 2 .. 16 /\ 10 \in 2 .. 16 /\ 16 \in 2 .. 16
  /\ \A base \in 2 .. 16 : \A c \in Digits(base) :
       c # NUL /\ c \notin Whitespace /\ c \notin {"+", "-", ".", "x"}
  <1>1. 8 \in 2 .. 16 /\ 10 \in 2 .. 16 /\ 16 \in 2 .. 16
    OBVIOUS
  <1> QED
    BY <1>1, NoDigit DEF Whitespace

(* fmtParseNum finds the number that digits spell, and stops behind them.  *)
LEMMA ReadsDigits ==
  ASSUME Len(Source) \in Nat, NEW at \in Nat, NEW base \in 2 .. 16, NEW b, b.at = at, b.base = base,
         NEW from, NEW given, ParseBase(from, given) = b,
         NEW n, FitsLL(n), NEW t, Spells(t, n, base),
         Lies(at, t), CharAt(at + Len(t)) \notin Digits(base)
  PROVE  ParseNum(from, given) = [value |-> n, at |-> at + Len(t)]
  <1> DEFINE to == at + Len(t)
             X == Digits(base)
  <1>1. t \in Seq(X) /\ ValueOf(t, base) = n
    BY DEF Spells
  <1> HIDE DEF X
  <1>2. Len(t) \in Nat /\ \A i \in 1 .. Len(t) : t[i] \in X
    BY <1>1, LenProperties, ElementOfSeq
  <1>3. to \in at .. Len(Source) /\ \A j \in at .. to - 1 : CharAt(j) \in X
    <2>1. /\ \A j \in at .. at + Len(t) - 1 : j - at + 1 \in 1 .. Len(t) /\ CharAt(j) = t[j - at + 1]
          /\ at + Len(t) \in 0 .. Len(Source)
      BY <1>2, LiesAt
    <2> QED
      BY <1>2, <2>1
  <1>4. SubSeq(Source, at + 1, to) = t
    BY <1>1, LiesText
  <1>5. CharAt(to) \notin X
    BY DEF X
  <1> HIDE DEF to
  <1>6. Past(at, X) = to
    BY <1>3, <1>5, PastStops
  <1>7. ParseNum(from, given) = [value |-> Unsigned(ValueOf(SubSeq(Source, b.at + 1, Past(b.at, Digits(b.base))),
                                                       b.base), LongLongBits),
                           at |-> Past(b.at, Digits(b.base))]
    BY Zenon DEF ParseNum
  <1>8. ParseNum(from, given) = [value |-> Unsigned(n, LongLongBits), at |-> to]
    BY <1>1, <1>4, <1>6, <1>7, Zenon DEF X
  <1>9. Unsigned(n, LongLongBits) = n
    BY FitsIs
  <1> QED
    BY <1>8, <1>9, Zenon DEF to

LEMMA ReadsBase ==
  ASSUME Len(Source) \in Nat, NEW at \in Nat, NEW base \in {8, 10, 16},
         NEW n, FitsLL(n), NEW t, Spells(t, n, base),
         Lies(at, t), CharAt(at + Len(t)) \notin Digits(base)
  PROVE  ParseNum(at, base) = [value |-> n, at |-> at + Len(t)]
  <1> DEFINE b == [base |-> base, at |-> at]
  <1>1. b.at = at /\ b.base = base /\ base \in 2 .. 16 /\ base # 0
    OBVIOUS
  <1>2. ParseBase(at, base) = b
    BY <1>1, Zenon DEF ParseBase
  <1> HIDE DEF b
  <1> QED
    BY <1>1, <1>2, ReadsDigits

(* Without a base it is decimal, as there is no zero in front of it.       *)
LEMMA ReadsNoBase ==
  ASSUME Len(Source) \in Nat, NEW at \in Nat, NEW n, FitsLL(n),
         Lies(at, StringifyULL(n, 10)), CharAt(at + Len(StringifyULL(n, 10))) \in Follow
  PROVE  ParseNum(at, 0) = [value |-> n, at |-> at + Len(StringifyULL(n, 10))]
  <1> DEFINE t == StringifyULL(n, 10)
  <1>1. 10 \in 2 .. 16 /\ n \in Nat /\ Spells(<<>>, 0, 10)
    BY DigitsWide, SpellsNothing, FitsIs
  <1>2. /\ t \in Seq(Digits(10)) /\ Spells(<<>> \o t, n, 10) /\ t # <<>>
        /\ t[1] = "0" => n = 0 /\ t = <<"0">>
    BY <1>1, NumberSpells
  <1>3. Spells(t, n, 10) /\ Len(t) \in Nat /\ Len(t) > 0
    <2>1. <<>> \o t = t
      BY <1>2, ConcatEmptySeq
    <2>2. Len(t) \in Nat /\ Len(t) # 0
      BY <1>2, EmptySeq, LenProperties
    <2> HIDE DEF t
    <2> QED
      BY <1>2, <2>1, <2>2
  <1>4. CharAt(at) = t[1]
    BY <1>3, LiesAt
  <1>5. CharAt(at + Len(t)) \in Follow /\ Lies(at, t)
    OBVIOUS
  <1>6. \A base \in 2 .. 16 : CharAt(at + Len(t)) \notin Digits(base)
    BY <1>5, NoDigit DEF Follow
  <1> HIDE DEF t
  <1>7. CASE t[1] # "0"
    <2> DEFINE b == [base |-> 10, at |-> at]
    <2>1. b.at = at /\ b.base = 10
      OBVIOUS
    <2>2. ParseBase(at, 0) = b
      <3>1. CharAt(at) # "0" /\ ~(0 # 0)
        BY <1>4, <1>7
      <3> QED
        BY <3>1, Zenon DEF ParseBase
    <2>3. CharAt(at + Len(t)) \notin Digits(10)
      BY <1>1, <1>6
    <2>4. Spells(t, n, 10) /\ Lies(at, t) /\ 10 \in 2 .. 16
      BY <1>1, <1>3, <1>5
    <2> HIDE DEF b
    <2>5. ParseNum(at, 0) = [value |-> n, at |-> at + Len(t)]
      BY <2>1, <2>2, <2>3, <2>4, ReadsDigits
    <2> QED
      BY <2>5 DEF t
  <1>8. CASE t[1] = "0"
    <2>1. n = 0 /\ t = <<"0">>
      BY <1>2, <1>8
    <2>2. Len(t) = 1
      BY <2>1
    <2> DEFINE b == [base |-> 8, at |-> at + 1]
               a == at + 1
    <2>3. b.at = a /\ b.base = 8 /\ a \in Nat /\ a + Len(<<>>) = a
      OBVIOUS
    <2>4. CharAt(a) \in Follow
      BY <1>5, <2>2
    <2>5. ParseBase(at, 0) = b
      <3>1. CharAt(at) = "0" /\ ~(CharAt(at) # "0") /\ ~(0 # 0)
        BY <1>4, <1>8
      <3>2. CharAt(at + 1) # "x"
        BY <2>4 DEF Follow, Space, NUL
      <3> QED
        BY <3>1, <3>2, Zenon DEF ParseBase
    <2>6. Lies(a, <<>>)
      <3>1. at + 1 <= Len(Source)
        BY <1>5, <2>2 DEF Lies
      <3> QED
        BY <3>1 DEF Lies
    <2>7. CharAt(a) \notin Digits(8) /\ Spells(<<>>, 0, 8) /\ 8 \in 2 .. 16
      BY <1>6, <2>2, DigitsWide, SpellsNothing
    <2> HIDE DEF a, b
    <2>8. CharAt(a + Len(<<>>)) \notin Digits(8)
      BY <2>3, <2>7, Zenon
    <2>9. ParseNum(at, 0) = [value |-> n, at |-> a + Len(<<>>)]
      <3> DEFINE e == <<>>
      <3>1. Spells(e, n, 8) /\ Lies(a, e) /\ CharAt(a + Len(e)) \notin Digits(8)
        BY <2>1, <2>6, <2>7, <2>8, Zenon
      <3> HIDE DEF e
      <3>2. ParseNum(at, 0) = [value |-> n, at |-> a + Len(e)]
        BY <2>3, <2>5, <2>7, <3>1, ReadsDigits
      <3> QED
        BY <3>2 DEF e
    <2> QED
      BY <2>2, <2>3, <2>9, Zenon DEF t, a
  <1> QED
    BY <1>7, <1>8

(* A sign and the digits behind it.                                        *)
BehindSign(at) == IF CharAt(at) \in {"+", "-"} THEN at + 1 ELSE at

(* What ParseLL and ParseD see of a sign.                                  *)
LEMMA SignStands ==
  ASSUME Len(Source) \in Nat, NEW at \in Nat, NEW n \in Int, NEW S, Signs(S, n), NEW t, NEW m, Spells(t, m, 10), t # <<>>,
         NEW rest \in Str, NEW c, Consists(c, S, t, rest), Lies(at, c)
  PROVE  /\ CharAt(at) = "-" <=> n < 0
         /\ BehindSign(at) = at + Len(S) /\ BehindSign(at) \in Nat /\ Len(S) \in Nat
         /\ Lies(BehindSign(at), t) /\ Lies(BehindSign(at) + Len(t), rest)
         /\ Len(t) \in Nat /\ Len(t) > 0
         /\ BehindSign(at) + Len(t) + Len(rest) = at + Len(c)
         /\ CharAt(at) \notin Whitespace
  <1> DEFINE X == Digits(10)
             from == BehindSign(at)
             tr == t \o rest
  <1>1. S \in {<<>>, <<"-">>, <<"+">>} /\ (S = <<"-">> <=> n < 0)
    BY DEF Signs
  <1>2. S \in Str
    BY <1>1, SymbolIs, ShortStr, Zenon
  <1>3. t \in Seq(X) /\ X \subseteq Printable
    <2>1. X \subseteq Hex
      BY DigitsWide, BaseDigits
    <2> QED
      BY <2>1, HexIs DEF Spells
  <1>4. t \in Str
    BY <1>3, SeqMonotonic DEF Str
  <1>5. tr \in Str /\ Len(tr) = Len(t) + Len(rest) /\ Len(t) \in Nat /\ Len(rest) \in Nat
    BY <1>4, Joined
  <1>6. Len(t) > 0 /\ t[1] \in X
    <2>1. Len(t) # 0
      BY <1>3, EmptySeq
    <2>2. 1 \in 1 .. Len(t)
      BY <1>5, <2>1
    <2> HIDE DEF X
    <2> QED
      BY <1>3, <1>5, <2>1, <2>2, ElementOfSeq
  <1>7. t[1] # NUL /\ t[1] \notin Whitespace /\ t[1] \notin {"+", "-"}
    BY <1>6, DigitsWide
  <1>8. Lies(at, S \o tr)
    BY DEF Consists
  <1>15. c = S \o tr /\ tr = t \o rest
    BY DEF Consists
  <1> HIDE DEF X, tr
  <1>9. Lies(at, S) /\ Lies(at + Len(S), tr) /\ Len(S) \in Nat /\ Len(S \o tr) = Len(S) + Len(tr)
    BY <1>2, <1>5, <1>8, LiesSplit, Joined
  <1>10. at + Len(S) \in Nat
    BY <1>9
  <1>11. Lies(at + Len(S), t) /\ Lies(at + Len(S) + Len(t), rest)
    BY <1>4, <1>9, <1>10, <1>15, LiesSplit
  <1>12. CharAt(at + Len(S)) = t[1]
    BY <1>5, <1>6, <1>10, <1>11, LiesAt
  <1>13. /\ CharAt(at) = "-" <=> n < 0
         /\ from = at + Len(S) /\ CharAt(at) \notin Whitespace
    <2>0. from = IF CharAt(at) \in {"+", "-"} THEN at + 1 ELSE at
      BY Zenon DEF BehindSign
    <2> HIDE DEF from
    <2>1. CASE S = <<>>
      <3>1. Len(S) = 0 /\ S # <<"-">>
        BY <2>1
      <3>2. CharAt(at) = t[1]
        BY <1>12, <3>1
      <3> QED
        BY <1>1, <1>7, <2>0, <3>1, <3>2
    <2>2. CASE S # <<>>
      <3>1. Len(S) = 1 /\ S[1] \in {"+", "-"} /\ (S = <<"-">> <=> S[1] = "-")
        BY <1>1, <2>2
      <3>2. CharAt(at) = S[1]
        BY <1>9, <3>1, LiesAt
      <3>3. CharAt(at) \notin Whitespace
        BY <3>1, <3>2 DEF Whitespace, Space
      <3> QED
        BY <1>1, <2>0, <3>1, <3>2, <3>3
    <2> QED
      BY <2>1, <2>2
  <1> HIDE DEF from
  <1>14. from + Len(t) + Len(rest) = at + Len(c)
    BY <1>5, <1>9, <1>13, <1>15
  <1> QED
    BY <1>5, <1>6, <1>9, <1>10, <1>11, <1>13, <1>14, Zenon DEF from

LEMMA FollowIs ==
  /\ \A base \in 2 .. 16 : \A c \in Follow : c \notin Digits(base)
  /\ \A c \in Follow : c # "." /\ c # "e"
  <1>1. \A base \in 2 .. 16 : \A c \in Follow : c \notin Digits(base)
    BY NoDigit DEF Follow
  <1>2. \A c \in Follow : c # "." /\ c # "e"
    BY DEF Follow, Space, NUL
  <1> QED
    BY <1>1, <1>2

(* fmtParseULL reads a number without a sign.                              *)
LEMMA ReadsUnsigned ==
  ASSUME Len(Source) \in Nat, NEW at \in Nat, NEW base \in {8, 10, 16},
         NEW n, FitsLL(n), NEW t, Spells(t, n, base), t # <<>>,
         Lies(at, t), CharAt(at + Len(t)) \in Follow
  PROVE  /\ ParseULL(at, base) = [value |-> n, at |-> at + Len(t)]
         /\ CharAt(at) \notin Whitespace /\ Len(t) \in Nat /\ Len(t) > 0
  <1>1. base \in 2 .. 16
    OBVIOUS
  <1>2. CharAt(at + Len(t)) \notin Digits(base)
    BY <1>1, FollowIs
  <1>3. ParseNum(at, base) = [value |-> n, at |-> at + Len(t)]
    BY <1>2, ReadsBase
  <1> DEFINE X == Digits(base)
  <1>4. t \in Seq(X)
    BY DEF Spells
  <1> HIDE DEF X
  <1>5. Len(t) \in Nat /\ Len(t) > 0 /\ t[1] \in X
    <2>1. Len(t) \in Nat /\ Len(t) # 0
      BY <1>4, EmptySeq, LenProperties
    <2>2. 1 \in 1 .. Len(t)
      BY <2>1
    <2> QED
      BY <1>4, <2>1, <2>2, ElementOfSeq
  <1>6. CharAt(at) \in X
    BY <1>5, LiesAt
  <1>7. CharAt(at) # "+" /\ CharAt(at) \notin Whitespace
    BY <1>1, <1>6, DigitsWide DEF X
  <1>8. ParseULL(at, base) = ParseNum(at, base)
    BY <1>7, Zenon DEF ParseULL
  <1> QED
    BY <1>3, <1>5, <1>7, <1>8, Zenon

(* fmtParseLL reads a number with its sign, and without being told the base *)
(* if no zeros are in front.                                               *)
LEMMA ReadsSigned ==
  ASSUME Len(Source) \in Nat, NEW at \in Nat, NEW n \in Int, FitsLL(Abs(n)),
         NEW S, Signs(S, n), NEW t, Spells(t, Abs(n), 10), t # <<>>,
         NEW c, Consists(c, S, t, <<>>), Lies(at, c), CharAt(at + Len(c)) \in Follow
  PROVE  /\ ParseLL(at, 10) = [value |-> n, at |-> at + Len(c)]
         /\ t = StringifyULL(Abs(n), 10) => ParseLL(at, 0) = [value |-> n, at |-> at + Len(c)]
         /\ CharAt(at) \notin Whitespace /\ at + Len(c) # at
  <1> DEFINE from == IF CharAt(at) \in {"+", "-"} THEN at + 1 ELSE at
             m == Abs(n)
             to == at + Len(c)
  <1>1. /\ CharAt(at) = "-" <=> n < 0
        /\ from = at + Len(S) /\ from \in Nat /\ Len(S) \in Nat
        /\ Lies(from, t) /\ Len(t) \in Nat /\ Len(t) > 0
        /\ from + Len(t) + Len(<<>>) = to
        /\ CharAt(at) \notin Whitespace
    <2> DEFINE e == <<>>
    <2>1. Consists(c, S, t, e) /\ e \in Str /\ Spells(t, m, 10)
      BY ShortStr, Zenon
    <2>2. from = BehindSign(at)
      BY Zenon DEF BehindSign
    <2> HIDE DEF e, from, m
    <2>4. /\ CharAt(at) = "-" <=> n < 0
          /\ BehindSign(at) = at + Len(S) /\ BehindSign(at) \in Nat /\ Len(S) \in Nat
          /\ Lies(BehindSign(at), t) /\ Len(t) \in Nat /\ Len(t) > 0
          /\ BehindSign(at) + Len(t) + Len(e) = at + Len(c)
          /\ CharAt(at) \notin Whitespace
      BY <2>1, SignStands
    <2>3. /\ CharAt(at) = "-" <=> n < 0
          /\ from = at + Len(S) /\ from \in Nat /\ Len(S) \in Nat
          /\ Lies(from, t) /\ Len(t) \in Nat /\ Len(t) > 0
          /\ from + Len(t) + Len(e) = at + Len(c)
          /\ CharAt(at) \notin Whitespace
      BY <2>2, <2>4, Zenon
    <2> QED
      BY <2>1, <2>3, Zenon DEF e
  <1>2. \A base : ParseLL(at, base)
          = IF CharAt(at) = "-" THEN [ParseNum(from, base) EXCEPT !.value = -@] ELSE ParseNum(from, base)
    BY Zenon DEF ParseLL
  <1>3. CharAt(to) \in Follow /\ FitsLL(m) /\ Spells(t, m, 10)
    OBVIOUS
  <1>4. n = IF n < 0 THEN -m ELSE m
    BY DEF Abs
  <1> HIDE DEF from, m, to
  <1>5. from + Len(t) = to /\ to # at
    <2>1. Len(<<>>) = 0
      OBVIOUS
    <2> QED
      BY <1>1, <2>1
  <1>6. CharAt(from + Len(t)) \in Follow /\ CharAt(to) \notin Digits(10)
    BY <1>3, <1>5, DigitsWide, FollowIs
  <1>7. ParseNum(from, 10) = [value |-> m, at |-> to]
    <2>1. CharAt(from + Len(t)) \notin Digits(10)
      BY <1>5, <1>6
    <2> QED
      BY <1>1, <1>3, <1>5, <2>1, ReadsBase
  <1>8. ASSUME t = StringifyULL(m, 10) PROVE ParseNum(from, 0) = [value |-> m, at |-> to]
    <2> DEFINE u == StringifyULL(m, 10)
    <2>1. Lies(from, u) /\ CharAt(from + Len(u)) \in Follow /\ from + Len(u) = to
      BY <1>1, <1>5, <1>6, <1>8
    <2>2. ParseNum(from, 0) = [value |-> m, at |-> from + Len(u)]
      BY <1>1, <1>3, <2>1, ReadsNoBase
    <2> QED
      BY <2>1, <2>2
  <1>9. ASSUME NEW base, ParseNum(from, base) = [value |-> m, at |-> to]
        PROVE  ParseLL(at, base) = [value |-> n, at |-> to]
    <2>1. [[value |-> m, at |-> to] EXCEPT !.value = -@] = [value |-> -m, at |-> to]
      OBVIOUS
    <2> QED
      BY <1>1, <1>2, <1>4, <1>9, <2>1
  <1> QED
    BY <1>1, <1>5, <1>7, <1>8, <1>9 DEF to, m

(* The places behind the point belong to the number.                       *)
LEMMA Decimal ==
  ASSUME NEW a \in Nat, NEW p \in Nat
  PROVE  /\ Shift(a \div 8, p) + (Shift(a % 8, p) \div 8) = Shift(a, p) \div 8
         /\ Shift(a, 0) \div 8 = a \div 8
  <1> DEFINE q == a \div 8
             r == a % 8
             A == Shift(q, p)
             B == Shift(r, p)
             s == 8 * A + B
  <1>1. q \in Nat /\ r \in Nat /\ a = 8 * q + r
    OBVIOUS
  <1> HIDE DEF q, r
  <1>2. A \in Nat /\ B \in Nat /\ Shift(a, p) = s /\ Shift(a, 0) = a
    <2>1. A \in Nat /\ B \in Nat
      BY <1>1, ShiftIs
    <2>2. Shift(a, 0) = a
      BY ShiftIs
    <2>3. Shift(8 * q + r, p) = s
      BY <1>1, ShiftSum
    <2> HIDE DEF A, B, s
    <2> QED
      BY <1>1, <2>1, <2>2, <2>3
  <1> HIDE DEF A, B
  <1>3. s \div 8 = A + (B \div 8)
    <2> DEFINE d == B \div 8
               e == B % 8
    <2>1. d \in Nat /\ e \in 0 .. 7 /\ B = 8 * d + e
      BY <1>2
    <2> HIDE DEF d, e
    <2>2. s = 8 * (A + d) + e /\ A + d \in Nat
      BY <1>2, <2>1
    <2>3. s \div 8 = A + d
      BY <2>1, <2>2
    <2> QED
      BY <2>3 DEF d
  <1> QED
    BY <1>2, <1>3 DEF q, r, A, B

PointOf(r, p) == IF p = 0 THEN <<>> ELSE <<".">> \o Behind(r, p)

(* fmtParseD reads a number with its places behind the point.              *)
LEMMA ReadsDecimal ==
  ASSUME Len(Source) \in Nat, NEW at \in Nat, NEW n \in Int, FitsLL(Abs(n) \div 8),
         NEW p \in Nat, NEW S, Signs(S, n), NEW t, Spells(t, Abs(n) \div 8, 10), t # <<>>,
         NEW c, Consists(c, S, t, PointOf(Abs(n) % 8, p)), Lies(at, c), CharAt(at + Len(c)) \in Follow
  PROVE  /\ ParseD(at) = [value |-> <<IF n < 0 THEN -(Shift(Abs(n), p) \div 8)
                                                ELSE Shift(Abs(n), p) \div 8, p>>,
                          at |-> at + Len(c)]
         /\ CharAt(at) \notin Whitespace /\ at + Len(c) # at
  <1> DEFINE q == Abs(n) \div 8
             r == Abs(n) % 8
             rest == PointOf(r, p)
             from == IF CharAt(at) \in {"+", "-"} THEN at + 1 ELSE at
             to == at + Len(c)
             point == from + Len(t)
             behind == Behind(r, p)
  <1>1. Abs(n) \in Nat /\ q \in Nat /\ r \in 0 .. 7 /\ r \in Nat /\ FitsLL(q)
    <2>1. FitsLL(q)
      OBVIOUS
    <2>2. Abs(n) \in Nat
      BY AbsIs
    <2>3. Abs(n) \div 8 \in Nat /\ Abs(n) % 8 \in 0 .. 7
      <3>1. \A a \in Nat : a \div 8 \in Nat /\ a % 8 \in 0 .. 7
        OBVIOUS
      <3> QED
        BY <2>2, <3>1, Zenon
    <2> HIDE DEF q, r
    <2> QED
      BY <2>1, <2>2, <2>3 DEF q, r
  <1>2. Len(behind) = p /\ Spells(behind, Shift(r, p) \div 8, 10) /\ behind \in Str
    <2>1. Len(behind) = p /\ Spells(behind, Shift(r, p) \div 8, 10)
      BY <1>1, BehindSpells
    <2>2. behind \in Seq(Digits(10)) /\ Digits(10) \subseteq Printable
      BY <2>1, DigitsWide, BaseDigits, HexIs DEF Spells
    <2> HIDE DEF behind
    <2> QED
      BY <2>1, <2>2, SeqMonotonic DEF Str
  <1>3. /\ p = 0 => rest = <<>>
        /\ p # 0 => rest = <<".">> \o behind
    BY Zenon DEF PointOf
  <1> HIDE DEF behind, rest
  <1>4. rest \in Str
    <2>1. <<".">> \in Str /\ <<>> \in Str
      BY SymbolIs, ShortStr, Zenon
    <2> QED
      BY <1>2, <1>3, <2>1, CatIs, Zenon
  <1>5. /\ CharAt(at) = "-" <=> n < 0
        /\ from = at + Len(S) /\ from \in Nat /\ Len(S) \in Nat
        /\ Lies(from, t) /\ Lies(point, rest) /\ Len(t) \in Nat /\ Len(t) > 0
        /\ point + Len(rest) = to
        /\ CharAt(at) \notin Whitespace
    <2>1. Consists(c, S, t, rest) /\ Spells(t, q, 10)
      BY Zenon DEF rest
    <2>2. from = BehindSign(at)
      BY Zenon DEF BehindSign
    <2> HIDE DEF q, from
    <2>4. /\ CharAt(at) = "-" <=> n < 0
          /\ BehindSign(at) = at + Len(S) /\ BehindSign(at) \in Nat /\ Len(S) \in Nat
          /\ Lies(BehindSign(at), t) /\ Lies(BehindSign(at) + Len(t), rest) /\ Len(t) \in Nat /\ Len(t) > 0
          /\ BehindSign(at) + Len(t) + Len(rest) = at + Len(c)
          /\ CharAt(at) \notin Whitespace
      BY <1>4, <2>1, SignStands
    <2>3. /\ CharAt(at) = "-" <=> n < 0
          /\ from = at + Len(S) /\ from \in Nat /\ Len(S) \in Nat
          /\ Lies(from, t) /\ Lies(from + Len(t), rest) /\ Len(t) \in Nat /\ Len(t) > 0
          /\ from + Len(t) + Len(rest) = at + Len(c)
          /\ CharAt(at) \notin Whitespace
      BY <2>2, <2>4, Zenon
    <2> QED
      BY <2>1, <2>3, Zenon
  <1>6. CharAt(to) \in Follow /\ Spells(t, q, 10)
    OBVIOUS
  <1> DEFINE whole == ParseNum(from, 10)
             pointed == CharAt(whole.at) = "."
             end == IF pointed THEN Past(whole.at + 1, Digits(10)) ELSE whole.at
             places == IF pointed THEN end - whole.at - 1 ELSE 0
             frac == ValueOf(SubSeq(Source, whole.at + 2, end), 10)
             total == Shift(whole.value, places) + frac
             exp == IF CharAt(end + 1) \in {"+", "-"} THEN end + 2 ELSE end + 1
  <1>7. ParseD(at) = CASE whole.at = from -> [value |-> <<0, 0>>, at |-> from]
               [] whole.at # from /\ CharAt(end) = "e" ->
                    [value |-> "inexact", at |-> ParseNum(exp, 10).at]
               [] OTHER -> [value |-> <<IF CharAt(at) = "-" THEN -total ELSE total, places>>,
                            at |-> end]
    BY Zenon DEF ParseD
  <1> HIDE DEF from, q, to, exp
  <1>8. point \in Nat /\ point # from /\ Len(rest) \in Nat /\ to # at /\ to \in Nat
        /\ to \in 0 .. Len(Source)
    <2>1. Len(rest) \in Nat
      BY <1>4, Joined
    <2>2. to \in 0 .. Len(Source)
      <3>1. point \in Nat
        BY <1>5
      <3> HIDE DEF point
      <3> QED
        BY <1>5, <2>1, <3>1, LiesAt
    <2>3. /\ from = at + Len(S) /\ from \in Nat /\ Len(S) \in Nat
          /\ Len(t) \in Nat /\ Len(t) > 0 /\ from + Len(t) + Len(rest) = to
      BY <1>5
    <2>4. point \in Nat /\ point # from /\ to # at /\ to \in Nat
      BY <2>1, <2>3
    <2> QED
      BY <2>1, <2>2, <2>4
  <1>9. CharAt(point) \notin Digits(10) /\ (p # 0 => CharAt(point) = ".") /\ (p = 0 => point = to)
    <2>1. CASE p = 0
      <3>1. Len(rest) = 0
        BY <1>3, <2>1
      <3>2. point = to
        BY <1>5, <1>8, <3>1
      <3> QED
        BY <1>6, <2>1, <3>2, FollowIs, DigitsWide
    <2>2. CASE p # 0
      <3>1. rest \in Seq(Printable) /\ Len(rest) > 0 /\ rest[1] = "."
        <4> DEFINE u == <<".">>
        <4>1. u \in Seq(Printable) /\ Len(u) = 1 /\ u[1] = "." /\ behind \in Seq(Printable)
          <5>1. u \in Str /\ Len(u) = 1
            BY SymbolIs, ShortStr, Zenon
          <5> QED
            BY <1>2, <5>1 DEF Str
        <4>2. rest = u \o behind
          BY <1>3, <2>2
        <4> HIDE DEF u
        <4>3. Len(behind) \in Nat
          BY <1>2
        <4> DEFINE v == u \o behind
        <4>4. /\ v \in Seq(Printable) /\ Len(v) = Len(u) + Len(behind)
              /\ \A i \in 1 .. Len(u) + Len(behind) : v[i] = IF i <= Len(u) THEN u[i] ELSE behind[i - Len(u)]
          BY <4>1, ConcatProperties
        <4>5. rest = v
          BY <4>2
        <4> HIDE DEF v
        <4>6. 1 \in 1 .. Len(u) + Len(behind) /\ 1 <= Len(u) /\ Len(v) > 0
          BY <4>1, <4>3, <4>4
        <4> QED
          BY <4>1, <4>4, <4>5, <4>6
      <3>2. CharAt(point) = rest[1]
        <4> HIDE DEF point
        <4> QED
          BY <1>5, <1>8, <3>1, LiesAt
      <3> QED
        BY <2>2, <3>1, <3>2, NoDigit, DigitsWide
    <2> QED
      BY <2>1, <2>2
  <1>10. whole = [value |-> q, at |-> point]
    <2>1. Lies(from, t) /\ CharAt(from + Len(t)) \notin Digits(10)
      BY <1>5, <1>9
    <2>2. from \in Nat /\ FitsLL(q) /\ Spells(t, q, 10)
      BY <1>1, <1>5, <1>6
    <2>3. 10 \in {8, 10, 16}
      OBVIOUS
    <2>4. ParseNum(from, 10) = [value |-> q, at |-> from + Len(t)]
      BY <2>1, <2>2, <2>3, ReadsBase
    <2> QED
      BY <2>4
  <1>11. whole.at = point /\ whole.value = q
    BY <1>10
  <1> HIDE DEF whole, point
  <1>12. end = to /\ places = p /\ total = Shift(Abs(n), p) \div 8
    <2>0. /\ Shift(q, p) + (Shift(r, p) \div 8) = Shift(Abs(n), p) \div 8
          /\ Shift(Abs(n), 0) \div 8 = q
      BY <1>1, Decimal DEF q
    <2>1. CASE p = 0
      <3>1. ~pointed
        BY <1>6, <1>9, <1>11, <2>1, FollowIs
      <3>2. end = point /\ places = 0
        BY <1>11, <3>1
      <3>3. frac = 0
        <4>1. SubSeq(Source, point + 2, point) = <<>>
          BY <1>8, SubSeqEmpty
        <4>2. frac = ValueOf(<<>>, 10)
          BY <1>11, <3>2, <4>1, Zenon
        <4> QED
          BY <4>2, ValueIs
      <3> HIDE DEF frac, places, end
      <3>4. Shift(q, 0) = q
        BY <1>1, ShiftIs
      <3>5. total = q
        BY <1>1, <1>11, <3>2, <3>3, <3>4
      <3> HIDE DEF total
      <3> QED
        BY <1>9, <2>0, <2>1, <3>2, <3>5
    <2>2. CASE p # 0
      <3> DEFINE a == point + 1
                 X == Digits(10)
      <3>1. pointed
        BY <1>9, <1>11, <2>2
      <3>2. a \in Nat /\ Lies(a, behind) /\ to = a + p
        <4> DEFINE u == <<".">>
        <4>1. u \in Str /\ Len(u) = 1
          BY SymbolIs, ShortStr, Zenon
        <4>2. rest = u \o behind
          BY <1>3, <2>2
        <4> HIDE DEF u
        <4>3. Lies(point, u \o behind) /\ Len(rest) = 1 + p
          BY <1>2, <1>5, <4>1, <4>2, Joined
        <4>4. Lies(point + Len(u), behind)
          BY <1>2, <1>8, <4>1, <4>3, LiesSplit
        <4> QED
          BY <1>5, <1>8, <4>1, <4>3, <4>4
      <3>3. behind \in Seq(X) /\ ValueOf(behind, 10) = Shift(r, p) \div 8
        BY <1>2 DEF Spells
      <3> HIDE DEF X
      <3>4. \A i \in 1 .. Len(behind) : behind[i] \in X
        BY <3>3, ElementOfSeq
      <3>5. to \in a .. Len(Source) /\ \A j \in a .. to - 1 : CharAt(j) \in X
        <4>1. \A j \in a .. a + Len(behind) - 1 :
                j - a + 1 \in 1 .. Len(behind) /\ CharAt(j) = behind[j - a + 1]
          <5> HIDE DEF a
          <5> QED
            BY <1>2, <3>2, LiesAt
        <4> HIDE DEF a
        <4> QED
          BY <1>2, <1>8, <3>2, <3>4, <4>1
      <3>6. CharAt(to) \notin X
        BY <1>6, FollowIs, DigitsWide DEF X
      <3>7. Past(a, X) = to
        <4> HIDE DEF a
        <4> QED
          BY <3>2, <3>5, <3>6, PastStops
      <3>8. end = to
        BY <1>11, <3>1, <3>7 DEF X
      <3>9. places = p
        BY <1>8, <1>11, <3>1, <3>2, <3>8
      <3>10. frac = Shift(r, p) \div 8
        <4>1. SubSeq(Source, a + 1, a + Len(behind)) = behind
          <5> HIDE DEF a
          <5> QED
            BY <3>2, <3>3, LiesText
        <4>2. a + 1 = point + 2 /\ a + Len(behind) = to
          BY <1>2, <1>8, <3>2
        <4>3. SubSeq(Source, whole.at + 2, end) = behind
          BY <1>11, <3>8, <4>1, <4>2
        <4> QED
          BY <3>3, <4>3, Zenon
      <3>11. total = Shift(q, p) + (Shift(r, p) \div 8)
        BY <1>11, <3>9, <3>10, Zenon
      <3> HIDE DEF total, end, places
      <3> QED
        BY <2>0, <3>8, <3>9, <3>11, Zenon
    <2> QED
      BY <2>1, <2>2
  <1>13. CharAt(end) # "e" /\ whole.at # from
    BY <1>6, <1>8, <1>11, <1>12, FollowIs
  <1> HIDE DEF total, end, places
  <1>14. ParseD(at) = [value |-> <<IF CharAt(at) = "-" THEN -total ELSE total, places>>, at |-> end]
    BY <1>7, <1>13, Zenon
  <1>15. (IF CharAt(at) = "-" THEN -total ELSE total)
            = IF n < 0 THEN -(Shift(Abs(n), p) \div 8) ELSE Shift(Abs(n), p) \div 8
    BY <1>5, <1>12
  <1>16. ParseD(at) = [value |-> <<IF n < 0 THEN -(Shift(Abs(n), p) \div 8)
                                                ELSE Shift(Abs(n), p) \div 8, p>>,
                      at |-> to]
    BY <1>12, <1>14, <1>15, Zenon
  <1> QED
    BY <1>5, <1>8, <1>16 DEF to

-----------------------------------------------------------------------------
(* Fields read                                                             *)

(* A text in a field, between blanks.                                      *)
Between(field, a, c, b) == field = a \o (c \o b)

(* Blanks around a text are passed over, to the text and from it.          *)
LEMMA Spread ==
  ASSUME Len(Source) \in Nat, NEW from \in Nat, NEW a \in Blanks, NEW b \in Blanks, NEW c \in Str,
         NEW field, Between(field, a, c, b), Lies(from, field)
  PROVE  LET at == from + Len(a)
             end == at + Len(c)
             to == from + Len(field)
         IN /\ at \in Nat /\ Len(c) \in Nat /\ Lies(at, c)
            /\ from \in 0 .. Len(Source) /\ end \in 0 .. Len(Source) /\ to \in 0 .. Len(Source)
            /\ CharAt(at) \notin Whitespace => Past(from, Whitespace) = at
            /\ Past(end, Whitespace) = Past(to, Whitespace)
            /\ CharAt(to) \in Follow => CharAt(end) \in Follow
  <1> DEFINE at == from + Len(a)
             end == at + Len(c)
             to == from + Len(field)
             cb == c \o b
  <1>1. a \in Str /\ b \in Str
    BY RunsAre
  <1>2. \A s \in Blanks : Len(s) \in Nat /\ \A i \in 1 .. Len(s) : s[i] \in Whitespace
    BY LenProperties, ElementOfSeq DEF Blanks, Whitespace
  <1>3. /\ cb \in Str /\ Len(cb) = Len(c) + Len(b) /\ Len(c) \in Nat /\ Len(b) \in Nat /\ Len(a) \in Nat
    BY <1>1, Joined
  <1>4. field = a \o cb
    BY Zenon DEF Between
  <1> HIDE DEF cb
  <1>5. Len(field) = Len(a) + Len(cb) /\ Lies(from, a) /\ Lies(at, cb)
    BY <1>1, <1>3, <1>4, Joined, LiesSplit
  <1>6. at \in Nat /\ end \in Nat /\ to = end + Len(b) /\ end = at + Len(c)
    BY <1>3, <1>5
  <1> HIDE DEF at, end, to
  <1>7. Lies(at, c) /\ Lies(end, b)
    BY <1>1, <1>5, <1>6, LiesSplit DEF cb
  <1>8. /\ at \in 0 .. Len(Source) /\ end \in 0 .. Len(Source) /\ to \in 0 .. Len(Source)
        /\ from \in 0 .. Len(Source)
        /\ \A j \in from .. at - 1 : CharAt(j) \in Whitespace
        /\ \A j \in end .. to - 1 : CharAt(j) \in Whitespace
        /\ Len(b) > 0 => CharAt(end) \in Whitespace
    <2>1. /\ \A j \in from .. from + Len(a) - 1 : j - from + 1 \in 1 .. Len(a) /\ CharAt(j) = a[j - from + 1]
          /\ from \in 0 .. Len(Source) /\ from + Len(a) \in 0 .. Len(Source)
      BY <1>3, <1>5, LiesAt
    <2>2. /\ \A j \in end .. end + Len(b) - 1 : j - end + 1 \in 1 .. Len(b) /\ CharAt(j) = b[j - end + 1]
          /\ end \in 0 .. Len(Source) /\ end + Len(b) \in 0 .. Len(Source)
          /\ Len(b) > 0 => CharAt(end) = b[1]
      BY <1>3, <1>6, <1>7, LiesAt
    <2>3. from + Len(a) = at
      BY DEF at
    <2>4. Len(b) > 0 => 1 \in 1 .. Len(b)
      BY <1>3
    <2>5. ASSUME NEW j \in from .. at - 1 PROVE CharAt(j) \in Whitespace
      <3>1. j - from + 1 \in 1 .. Len(a) /\ CharAt(j) = a[j - from + 1]
        BY <2>1, <2>3
      <3> QED
        BY <1>2, <3>1, Zenon
    <2>6. ASSUME NEW j \in end .. to - 1 PROVE CharAt(j) \in Whitespace
      <3>1. j \in end .. end + Len(b) - 1
        BY <1>3, <1>6
      <3>2. j - end + 1 \in 1 .. Len(b) /\ CharAt(j) = b[j - end + 1]
        BY <2>2, <3>1
      <3> QED
        BY <1>2, <3>2, Zenon
    <2>7. Len(b) > 0 => CharAt(end) \in Whitespace
      BY <1>2, <2>2, <2>4
    <2> QED
      BY <1>6, <2>1, <2>2, <2>3, <2>5, <2>6, <2>7
  <1>9. CharAt(at) \notin Whitespace => Past(from, Whitespace) = at
    <2>1. at \in from .. Len(Source)
      BY <1>3, <1>8 DEF at
    <2> QED
      BY <1>8, <2>1, PastStops
  <1>10. Past(end, Whitespace) = Past(to, Whitespace)
    <2>1. to \in end .. Len(Source)
      BY <1>3, <1>6, <1>8
    <2> QED
      BY <1>6, <1>8, <2>1, PastJoins
  <1>11. CharAt(to) \in Follow => CharAt(end) \in Follow
    <2>1. CASE Len(b) > 0
      BY <1>8, <2>1 DEF Follow, Whitespace
    <2>2. CASE ~(Len(b) > 0)
      <3>1. to = end
        BY <1>3, <1>6, <2>2
      <3> QED
        BY <3>1
    <2> QED
      BY <2>1, <2>2
  <1> QED
    BY <1>3, <1>6, <1>7, <1>8, <1>9, <1>10, <1>11 DEF at, end, to

-----------------------------------------------------------------------------
(* Signed numbers and doubles                                              *)

Value(f) == IF f.conv = "f" THEN f.arg ELSE Fetch(f)
Whole(f) == IF f.conv = "f" THEN Abs(f.arg) \div 8 ELSE Abs(Fetch(f))
Rest(f) == IF f.conv = "f" THEN PointOf(Abs(f.arg) % 8, Places(f)) ELSE <<>>

(* A signed number or a double is a sign, the digits of its whole part, and *)
(* the rest.                                                               *)
LEMMA WholeIs ==
  ASSUME NEW f, FieldType(f), f.conv \in Signed \cup {"f"}
  PROVE  /\ Value(f) \in Int /\ Whole(f) \in Nat /\ FitsLL(Whole(f)) /\ Places(f) \in Nat
         /\ Rest(f) \in Str
         /\ Number(f) = Sign(Value(f), f.plus, f.space) \o (StringifyULL(Whole(f), 10) \o Rest(f))
  <1>1. f.arg \in Int /\ f.prec \in Int /\ f.conv \in Numeric
    <2>1. f.conv \in Numeric
      BY DEF Numeric, Signed
    <2> QED
      BY <2>1, FieldParts
  <1>2. Places(f) \in Nat
    BY <1>1 DEF Places
  <1>3. CASE f.conv = "f"
    <2> DEFINE n == f.arg
               p == Places(f)
               q == Abs(n) \div 8
               r == Abs(n) % 8
               G == Sign(n, f.plus, f.space)
               U == StringifyULL(q, 10)
               R == PointOf(r, p)
    <2>1. f.conv \notin Signed
      BY <1>3 DEF Signed
    <2>2. Number(f) = StringifyD(n, f.plus, f.space, p)
      BY <1>3, <2>1, Zenon DEF Number
    <2>3. StringifyD(n, f.plus, f.space, p) = G \o U \o R
      BY Zenon DEF StringifyD, Eighths, PointOf, Behind, Place
    <2>4. Abs(n) \in Nat /\ q \in Nat /\ r \in 0 .. 7
      <3>1. \A a \in Nat : a \div 8 \in Nat /\ a % 8 \in 0 .. 7
        OBVIOUS
      <3> QED
        BY <1>1, <3>1, AbsIs, Zenon
    <2>5. FitsLL(q)
      <3>1. Abs(f.arg) < Eighths * 2 ^ LongLongBits
        BY <1>3, Zenon DEF FieldType
      <3> DEFINE w == 2 ^ LongLongBits
                 a == Abs(n)
      <3>2. w \in Nat /\ a \in Nat /\ a < 8 * w
        BY <2>4, <3>1, PowerOfTwo, WidthsAssumption DEF Eighths
      <3> HIDE DEF w, a
      <3>3. a \div 8 \in 0 .. w - 1
        BY <3>2
      <3> QED
        BY <3>3, Zenon DEF FitsLL, a, w
    <2>6. R \in Str
      <3> DEFINE behind == Behind(r, p)
      <3>1. Spells(behind, Shift(r, p) \div 8, 10)
        BY <1>2, <2>4, BehindSpells
      <3>2. behind \in Seq(Digits(10)) /\ Digits(10) \subseteq Printable
        BY <3>1, DigitsWide, BaseDigits, HexIs DEF Spells
      <3> HIDE DEF behind
      <3>3. behind \in Str
        BY <3>2, SeqMonotonic DEF Str
      <3>4. <<".">> \in Str /\ <<>> \in Str
        BY SymbolIs, ShortStr, Zenon
      <3> QED
        BY <3>3, <3>4, CatIs, Zenon DEF PointOf, behind
    <2>7. G \in Str /\ U \in Str
      BY <2>4, SignIs, UnsignedIs, DigitsWide
    <2>8. Value(f) = n /\ Whole(f) = q /\ Rest(f) = R
      BY <1>3, Zenon DEF Value, Whole, Rest
    <2> HIDE DEF G, U, R, q, r
    <2>9. G \o U \o R = G \o (U \o R)
      BY <2>6, <2>7, Regroup
    <2> QED
      BY <1>1, <1>2, <2>2, <2>3, <2>4, <2>5, <2>6, <2>8, <2>9, Zenon DEF G, U
  <1>4. CASE f.conv \in Signed
    <2> DEFINE n == Fetch(f)
               m == Abs(n)
               G == Sign(n, f.plus, f.space)
               U == StringifyULL(m, 10)
    <2>1. f.conv # "f"
      BY <1>4 DEF Signed
    <2>2. Number(f) = G \o U
      BY <1>4, <2>1, Zenon DEF Number, StringifyLL
    <2>3. n \in Int /\ m \in Nat
      BY <1>1, FetchIs, AbsIs
    <2>4. FitsLL(m)
      BY <1>1, <1>4, FetchFits, Zenon DEF FitsLL
    <2>5. U \in Str /\ <<>> \in Str
      BY <2>3, UnsignedIs, DigitsWide, ShortStr
    <2>6. Value(f) = n /\ Whole(f) = m /\ Rest(f) = <<>>
      BY <2>1, Zenon DEF Value, Whole, Rest
    <2> HIDE DEF G, U, m, n
    <2>7. U \o <<>> = U
      BY <2>5, CatIs, Zenon
    <2> QED
      BY <1>2, <2>2, <2>3, <2>4, <2>5, <2>6, <2>7, Zenon DEF G, U
  <1> QED
    BY <1>3, <1>4

(* A readable field of a signed number or a double is blanks, a sign and   *)
(* digits that spell its whole part, the rest, and blanks.                 *)
LEMMA DecimalField ==
  ASSUME NEW f, FieldType(f), f.conv \in Signed \cup {"f"}, Readable(f)
  PROVE  \E a, b \in Blanks, S \in Str, t \in Str, c \in Str :
           /\ Between(NumberField(f), a, c, b) /\ Consists(c, S, t, Rest(f))
           /\ Signs(S, Value(f)) /\ Spells(t, Whole(f), 10) /\ t # <<>>
           /\ f.conv = "i" => t = StringifyULL(Whole(f), 10)
  <1> DEFINE N == Number(f)
             R == Rest(f)
             n == Value(f)
             m == Whole(f)
  <1>1. f.conv \in Numeric /\ f.conv \notin {"x", "o", "p"} /\ f.conv \notin {"x", "p"}
        /\ f.conv \notin {"u", "o", "%"}
    BY DEF Numeric, Signed
  <1>2. Decoration(f) = <<>>
    BY <1>1, Zenon DEF Decoration
  <1>3. /\ n \in Int /\ m \in Nat /\ R \in Str
        /\ Consists(N, Sign(n, f.plus, f.space), StringifyULL(m, 10), R)
    BY WholeIs, Zenon DEF Consists
  <1>4. N \in Str
    BY <1>1, NumberIs
  <1>5. ~LeadingZeros(f) \/ (f.conv # "i" /\ N[1] \in Digits(10))
    BY <1>1, Zenon DEF Readable
  <1>6. PICK a \in Blanks, b \in Blanks, z \in Zeros :
          /\ z # <<>> => LeadingZeros(f)
          /\ NumberField(f) = a \o (Decoration(f) \o (z \o (N \o b)))
    BY <1>1, NumberShape
  <1> HIDE DEF N, R, n, m
  <1>7. a \in Str /\ b \in Str /\ z \in Str /\ z \o N \in Str /\ z \o (N \o b) \in Str
    BY <1>4, <1>6, RunsAre, CatIs, Zenon
  <1>8. NumberField(f) = (a \o (z \o N)) \o b
    <2> DEFINE zN == z \o N
    <2>1. NumberField(f) = a \o (z \o (N \o b))
      BY <1>2, <1>6, <1>7, CatIs, Zenon
    <2>2. \A s, t, u \in Str : (s \o t) \o u = s \o (t \o u)
      BY CatIs, Zenon
    <2>3. z \o (N \o b) = zN \o b
      <3>1. z \in Str /\ N \in Str /\ b \in Str
        BY <1>4, <1>7
      <3> QED
        BY <2>2, <3>1
    <2>4. zN \in Str
      BY <1>7
    <2> HIDE DEF zN
    <2>5. a \o (zN \o b) = (a \o zN) \o b
      <3>1. a \in Str /\ zN \in Str /\ b \in Str
        BY <1>7, <2>4
      <3> QED
        BY <2>2, <3>1
    <2> QED
      BY <2>1, <2>3, <2>5, Zenon DEF zN
  <1>9. z # <<>> => N[1] \in Digits(10)
    BY <1>5, <1>6
  <1>10. PICK d \in Blanks, S \in Str, t \in Str :
           /\ Reads(a, z, N, d, S, t, R)
           /\ Signs(S, n) /\ Spells(t, m, 10) /\ t # <<>>
           /\ z = <<>> => t = StringifyULL(m, 10)
    <2>1. /\ n \in Int /\ m \in Nat /\ R \in Str /\ a \in Blanks /\ z \in Zeros
          /\ Consists(N, Sign(n, f.plus, f.space), StringifyULL(m, 10), R)
      BY <1>3, <1>6
    <2> DEFINE plus == f.plus
               space == f.space
    <2>2. Consists(N, Sign(n, plus, space), StringifyULL(m, 10), R)
      BY <2>1
    <2> HIDE DEF plus, space
    <2> QED
      BY <1>9, <2>1, <2>2, SignedShape
  <1> DEFINE c == S \o (t \o R)
  <1>11. c \in Str /\ d \in Str
    BY <1>3, <1>10, CatIs, RunsAre, Zenon
  <1>12. Consists(c, S, t, R)
    BY DEF Consists
  <1>13. a \o (z \o N) = d \o c
    BY <1>10, Zenon DEF Reads
  <1> HIDE DEF c
  <1>14. NumberField(f) = d \o (c \o b)
    <2>2. (d \o c) \o b = d \o (c \o b)
      <3>1. Groups(d, c, b)
        BY <1>7, <1>11, Grouped
      <3> QED
        BY <3>1 DEF Groups
    <2> QED
      BY <1>8, <1>13, <2>2, Zenon
  <1>15. Between(NumberField(f), d, c, b)
    BY <1>14, Zenon DEF Between
  <1>16. f.conv = "i" => t = StringifyULL(m, 10)
    BY <1>5, <1>6, <1>10, Zenon
  <1> QED
    BY <1>6, <1>10, <1>11, <1>12, <1>15, <1>16, Zenon DEF R, n, m

(* A readable field of an unsigned number is blanks, digits that spell it, *)
(* and blanks.                                                             *)
LEMMA UnsignedField ==
  ASSUME NEW f, FieldType(f), f.conv \in {"u", "x", "o", "p"}, Readable(f)
  PROVE  /\ f.conv # "p" /\ FitsLL(Fetch(f)) /\ Base(f.conv) \in {8, 10, 16}
         /\ \E a, b \in Blanks, t \in Str :
              /\ Between(NumberField(f), a, t, b)
              /\ Spells(t, Fetch(f), Base(f.conv)) /\ t # <<>>
  <1> DEFINE N == Number(f)
             D == Decoration(f)
             n == Fetch(f)
             base == Base(f.conv)
  <1>1. f.conv \in Numeric /\ f.conv \notin Signed \cup {"f"} /\ f.conv \notin Signed /\ f.conv # "f"
    BY DEF Numeric, Signed
  <1>2. f.conv \in {"x", "p"} => D = <<>>
    BY <1>1, Zenon DEF Readable
  <1>3. f.conv # "p" /\ D \in Zeros
    <2>1. <<"0", "x">> # <<>>
      OBVIOUS
    <2>2. f.conv # "p"
      BY <1>2, <2>1, Zenon DEF Decoration
    <2>3. <<"0">> \in Zeros /\ <<>> \in Zeros
      BY DEF Zeros
    <2>4. D \in {<<"0", "x">>, <<"0">>, <<>>}
      BY Zenon DEF Decoration
    <2>5. D = <<"0", "x">> => f.conv \in {"x", "p"}
      <3>1. <<"0", "x">> # <<"0">>
        <4>1. Len(<<"0", "x">>) = 2 /\ Len(<<"0">>) = 1
          OBVIOUS
        <4> QED
          BY <4>1
      <3> QED
        BY <2>1, <3>1, Zenon DEF Decoration
    <2> HIDE DEF D
    <2> QED
      BY <1>2, <2>1, <2>2, <2>3, <2>4, <2>5, Zenon
  <1>4. n \in Nat /\ FitsLL(n)
    <2>1. f.arg \in Int
      BY <1>1, FieldParts
    <2>2. f.conv \in {"u", "x", "o"}
      BY <1>3
    <2>3. Fetch(f) \in 0 .. 2 ^ LongLongBits - 1
      BY <1>1, <2>2, FetchFits
    <2> QED
      BY <1>1, <2>1, <2>3, FetchIs, Zenon DEF FitsLL
  <1>5. base \in {8, 10, 16}
    <2>1. base \in {8, 10, 16}
      BY Zenon DEF Base
    <2> QED
      BY <2>1
  <1>6. base \in 2 .. 16
    BY <1>5
  <1>7. N = StringifyULL(n, base)
    BY <1>1, Zenon DEF Number
  <1>8. N \in Str /\ D \in Str
    BY <1>1, NumberIs, DecorationIs
  <1>9. PICK a \in Blanks, b \in Blanks, z \in Zeros : NumberField(f) = a \o (D \o (z \o (N \o b)))
    BY <1>1, NumberShape
  <1> HIDE DEF N, D, n, base
  <1> DEFINE y == D \o z
             t == y \o N
  <1>10. y \in Zeros /\ y \in Str /\ a \in Str /\ b \in Str /\ z \in Str
    BY <1>3, <1>9, RunsAre
  <1>11. Spells(y, 0, base)
    BY <1>6, <1>10, RunOfZeros
  <1> HIDE DEF y
  <1>12. Spells(t, n, base) /\ N # <<>>
    BY <1>4, <1>6, <1>7, <1>11, NumberSpells
  <1>13. t \in Str /\ Len(t) = Len(y) + Len(N) /\ Len(y) \in Nat /\ Len(N) \in Nat
    BY <1>8, <1>10, Joined
  <1>14. t # <<>>
    <2>1. Len(N) # 0
      <3>1. N \in Seq(Printable)
        BY <1>8 DEF Str
      <3> QED
        BY <1>12, <3>1, EmptySeq
    <2> HIDE DEF t
    <2>2. Len(t) # 0
      BY <1>13, <2>1
    <2> QED
      BY <2>2, ShortStr
  <1>15. NumberField(f) = a \o (t \o b)
    <2>1. \A s, u, v \in Str : (s \o u) \o v = s \o (u \o v)
      BY CatIs, Zenon
    <2>2. N \o b \in Str
      BY <1>8, <1>10, CatIs, Zenon
    <2> DEFINE Nb == N \o b
    <2>3. Nb \in Str
      BY <2>2
    <2>4. t \o b = y \o Nb
      <3>1. y \in Str /\ N \in Str /\ b \in Str
        BY <1>8, <1>10
      <3> QED
        BY <2>1, <3>1
    <2> HIDE DEF Nb
    <2>5. y \o Nb = D \o (z \o Nb)
      <3>1. D \in Str /\ z \in Str /\ Nb \in Str
        BY <1>8, <1>10, <2>3
      <3> QED
        BY <2>1, <3>1 DEF y
    <2> HIDE DEF t
    <2> QED
      BY <1>9, <2>4, <2>5, Zenon DEF Nb
  <1>16. Between(NumberField(f), a, t, b)
    BY <1>15, Zenon DEF Between
  <1> HIDE DEF t
  <1> QED
    BY <1>3, <1>4, <1>5, <1>9, <1>12, <1>13, <1>14, <1>16, Zenon DEF n, base

(* A readable field of a text is the text between blanks.                  *)
(* A field that can be read back is not overrun.                           *)
LEMMA NotOverrun ==
  ASSUME NEW f, FieldType(f), f.text \in Str, f.conv # "lit" => Readable(f)
  PROVE  ~Overruns(f)
  <1>1. CASE f.conv # "s"
    BY <1>1, SizeIs
  <1>2. CASE f.conv = "s"
    <2>1. /\ f.conv # "lit" /\ f.conv \notin Signed \cup {"f"} /\ f.conv \notin {"x", "p"}
          /\ f.conv \notin {"u", "o", "%"}
      BY <1>2 DEF Signed
    <2> QED
      BY <2>1, Zenon DEF Readable
  <1> QED
    BY <1>1, <1>2

LEMMA TextFieldSpread ==
  ASSUME NEW f, FieldType(f), f.text \in Str, f.conv \in {"s", "c", "%"}, Readable(f)
  PROVE  /\ Convert(f) = TextField(f)
         /\ Text(f) \in Str /\ Len(Text(f)) \in Nat /\ Len(Text(f)) > 0
         /\ \A i \in 1 .. Len(Text(f)) : Text(f)[i] \notin Whitespace
         /\ f.conv # "s" => Len(Text(f)) = 1
         /\ \E a, b \in Blanks : Between(TextField(f), a, Text(f), b)
  <1> DEFINE c == Text(f)
             n == f.width - Size(f)
             blanks == Fill(Space, n)
  <1>1. /\ f.conv \notin Numeric /\ f.conv # "lit" /\ f.conv \notin Signed \cup {"f"}
        /\ f.conv \notin {"x", "p"} /\ f.conv \notin {"u", "o"}
    BY DEF Numeric, Signed
  <1>2. Convert(f) = TextField(f)
    BY <1>1 DEF Convert
  <1>0. ~Overruns(f)
    BY NotOverrun
  <1>3. c \in Str /\ Len(c) \in Nat /\ f.width \in Int /\ Size(f) \in Int
    BY <1>0, TextIs, SizeIs, FieldParts
  <1>4. f.conv # "s" => c = f.text /\ Len(f.text) = 1
    <2>1. f.conv # "s" => c = f.text
      BY SizeIs
    <2>2. f.conv # "s" => f.conv \in {"lit", "c", "%"}
      OBVIOUS
    <2> QED
      BY <2>1, <2>2, OneLetter
  <1>5. c \in Seq(Printable)
    BY <1>3 DEF Str
  <1>6. Len(c) > 0 /\ \A i \in 1 .. Len(c) : c[i] \notin Whitespace
    <2>1. CASE f.conv = "%"
      <3>1. f.text = <<"%">>
        BY <2>1, Zenon DEF FieldType
      <3>2. c = <<"%">>
        BY <1>4, <2>1, <3>1
      <3> DEFINE u == <<"%">>
      <3>3. Len(u) = 1 /\ u[1] = "%" /\ "%" \notin Whitespace
        BY DEF Whitespace, Space
      <3>4. c = u
        BY <3>2
      <3> HIDE DEF c, u
      <3>5. Len(c) = 1 /\ c[1] = "%"
        BY <3>3, <3>4, Zenon
      <3>6. \A i \in 1 .. Len(c) : i = 1
        BY <3>5
      <3> QED
        BY <3>3, <3>5, <3>6
    <2>2. CASE f.conv # "%"
      <3>1. c # <<>> /\ Seqs!ToSet(c) \cap Whitespace = {}
        <4>1. f.conv \notin {"u", "o", "%"}
          BY <1>1, <2>2
        <4> QED
          BY <1>1, <4>1, Zenon DEF Readable
      <3> HIDE DEF c
      <3>2. Len(c) > 0
        BY <1>3, <1>5, <3>1, EmptySeq
      <3>3. DOMAIN c = 1 .. Len(c)
        BY <1>5, LenProperties
      <3>4. \A i \in 1 .. Len(c) : c[i] \in Seqs!ToSet(c)
        BY <3>3, Zenon DEF Seqs!ToSet
      <3> QED
        BY <3>1, <3>2, <3>4
    <2> QED
      BY <2>1, <2>2
  <1>7. n \in Int
    BY <1>3
  <1>8. blanks \in Blanks
    <2> HIDE DEF n
    <2> QED
      BY <1>7, RunsAre
  <1>9. TextField(f) = IF f.left THEN c \o blanks ELSE blanks \o c
    BY Zenon DEF TextField
  <1> HIDE DEF c, blanks
  <1>10. /\ blanks \in Str /\ <<>> \in Blanks
         /\ <<>> \o (c \o blanks) = c \o blanks /\ blanks \o (c \o <<>>) = blanks \o c
    <2>1. blanks \in Str /\ <<>> \in Blanks
      BY <1>8, RunsAre
    <2>2. c \o blanks \in Str
      BY <1>3, <2>1, CatIs, Zenon
    <2> QED
      BY <1>3, <2>1, <2>2, CatIs, Zenon
  <1>11. \E a, b \in Blanks : Between(TextField(f), a, c, b)
    BY <1>8, <1>9, <1>10, Zenon DEF Between
  <1> QED
    BY <1>2, <1>3, <1>4, <1>6, <1>11, Zenon DEF c

-----------------------------------------------------------------------------
(* Fields read back                                                        *)

(* Between from and to there is text from at to end, and blanks.           *)
Stands(from, to, at, end) ==
  /\ at = Past(from, Whitespace) /\ at \in 0 .. Len(Source) /\ end \in 0 .. Len(Source)
  /\ end # at /\ Past(end, Whitespace) = Past(to, Whitespace)
  /\ CharAt(to) \in Follow => CharAt(end) \in Follow

LEMMA SpreadStands ==
  ASSUME Len(Source) \in Nat, NEW from \in Nat, NEW a \in Blanks, NEW b \in Blanks, NEW c \in Str,
         NEW field, Between(field, a, c, b), Lies(from, field),
         CharAt(from + Len(a)) \notin Whitespace, Len(c) > 0
  PROVE  Stands(from, from + Len(field), from + Len(a), from + Len(a) + Len(c))
  <1> DEFINE at == from + Len(a)
             end == at + Len(c)
             to == from + Len(field)
  <1>1. /\ at \in Nat /\ Len(c) \in Nat
        /\ end \in 0 .. Len(Source)
        /\ CharAt(at) \notin Whitespace => Past(from, Whitespace) = at
        /\ Past(end, Whitespace) = Past(to, Whitespace)
        /\ CharAt(to) \in Follow => CharAt(end) \in Follow
    BY Spread
  <1>2. CharAt(at) \notin Whitespace
    OBVIOUS
  <1> HIDE DEF to, at
  <1>3. at \in 0 .. Len(Source) /\ end # at
    BY <1>1
  <1> HIDE DEF end
  <1>4. Stands(from, to, at, end)
    BY <1>1, <1>2, <1>3, Zenon DEF Stands
  <1> QED
    BY <1>4 DEF to, at, end

(* The field of a signed number is read back where it lies.                *)
LEMMA SignedReads ==
  ASSUME Len(Source) \in Nat, NEW from \in Nat, NEW f, FieldType(f), f.conv \in Signed, Readable(f),
         Lies(from, Convert(f)), CharAt(from + Len(Convert(f))) \in Follow
  PROVE  \E at, end :
           /\ Stands(from, from + Len(Convert(f)), at, end)
           /\ ParseLL(at, 10) = [value |-> Fetch(f), at |-> end]
           /\ f.conv = "i" => ParseLL(at, 0) = [value |-> Fetch(f), at |-> end]
  <1> DEFINE field == NumberField(f)
             n == Fetch(f)
             to == from + Len(field)
  <1>1. Convert(f) = field
    BY DEF Convert, Numeric, Signed
  <1>2. f.conv # "f"
    BY DEF Signed
  <1>3. n \in Int /\ FitsLL(Abs(n)) /\ Value(f) = n /\ Whole(f) = Abs(n) /\ Rest(f) = <<>>
    <2>1. Value(f) = n /\ Whole(f) = Abs(n) /\ Rest(f) = <<>>
      BY <1>2, Zenon DEF Value, Whole, Rest
    <2>2. Value(f) \in Int /\ FitsLL(Whole(f))
      BY WholeIs
    <2> QED
      BY <2>1, <2>2, Zenon
  <1>4. PICK a \in Blanks, b \in Blanks, S \in Str, t \in Str, c \in Str :
           /\ Between(field, a, c, b) /\ Consists(c, S, t, <<>>)
           /\ Signs(S, n) /\ Spells(t, Abs(n), 10) /\ t # <<>>
           /\ f.conv = "i" => t = StringifyULL(Abs(n), 10)
    <2>1. \E a, b \in Blanks, S \in Str, t \in Str, c \in Str :
           /\ Between(NumberField(f), a, c, b) /\ Consists(c, S, t, Rest(f))
           /\ Signs(S, Value(f)) /\ Spells(t, Whole(f), 10) /\ t # <<>>
           /\ f.conv = "i" => t = StringifyULL(Whole(f), 10)
      BY DecimalField
    <2> QED
      BY <1>3, <2>1, Zenon
  <1> HIDE DEF field, n
  <1> DEFINE at == from + Len(a)
             end == at + Len(c)
  <1>5. Lies(from, field) /\ CharAt(to) \in Follow
    BY <1>1
  <1>6. at \in Nat /\ Lies(at, c) /\ CharAt(end) \in Follow
    BY <1>4, <1>5, Spread
  <1> HIDE DEF at, to
  <1>7. /\ ParseLL(at, 10) = [value |-> n, at |-> end]
        /\ f.conv = "i" => ParseLL(at, 0) = [value |-> n, at |-> end]
        /\ CharAt(at) \notin Whitespace /\ end # at
    <2>1. /\ ParseLL(at, 10) = [value |-> n, at |-> end]
          /\ t = StringifyULL(Abs(n), 10) => ParseLL(at, 0) = [value |-> n, at |-> end]
          /\ CharAt(at) \notin Whitespace /\ end # at
      BY <1>3, <1>4, <1>6, ReadsSigned
    <2> QED
      BY <1>4, <2>1, Zenon
  <1>8. Len(c) > 0
    <2>1. c \in Seq(Printable)
      BY DEF Str
    <2>2. Len(c) \in Nat
      BY <2>1, LenProperties
    <2> QED
      BY <1>6, <1>7, <2>2
  <1>9. Stands(from, to, at, end)
    BY <1>4, <1>5, <1>7, <1>8, SpreadStands DEF at, end, to
  <1> QED
    BY <1>1, <1>7, <1>9, Zenon DEF to, n

(* So is that of a double,                                                 *)
LEMMA DecimalReads ==
  ASSUME Len(Source) \in Nat, NEW from \in Nat, NEW f, FieldType(f), f.conv = "f", Readable(f),
         Lies(from, Convert(f)), CharAt(from + Len(Convert(f))) \in Follow
  PROVE  \E at, end :
           /\ Stands(from, from + Len(Convert(f)), at, end)
           /\ ParseD(at) = [value |-> Printed(f), at |-> end]
  <1> DEFINE field == NumberField(f)
             n == f.arg
             p == Places(f)
             to == from + Len(field)
             q == Abs(n) \div 8
             v == Shift(Abs(n), p) \div 8
  <1>1. Convert(f) = field
    BY DEF Convert, Numeric
  <1>2. f.conv \in Signed \cup {"f"} /\ f.conv # "i"
    OBVIOUS
  <1>3. n \in Int /\ p \in Nat /\ FitsLL(q) /\ Value(f) = n /\ Whole(f) = q /\ Rest(f) = PointOf(Abs(n) % 8, p)
    <2>1. Value(f) = n /\ Whole(f) = q /\ Rest(f) = PointOf(Abs(n) % 8, p)
      BY Zenon DEF Value, Whole, Rest
    <2>2. Value(f) \in Int /\ FitsLL(Whole(f)) /\ Places(f) \in Nat
      BY <1>2, WholeIs
    <2> QED
      BY <2>1, <2>2, Zenon
  <1>4. PICK a \in Blanks, b \in Blanks, S \in Str, t \in Str, c \in Str :
           /\ Between(field, a, c, b) /\ Consists(c, S, t, PointOf(Abs(n) % 8, p))
           /\ Signs(S, n) /\ Spells(t, q, 10) /\ t # <<>>
    <2>1. \E a, b \in Blanks, S \in Str, t \in Str, c \in Str :
           /\ Between(NumberField(f), a, c, b) /\ Consists(c, S, t, Rest(f))
           /\ Signs(S, Value(f)) /\ Spells(t, Whole(f), 10) /\ t # <<>>
           /\ f.conv = "i" => t = StringifyULL(Whole(f), 10)
      BY <1>2, DecimalField
    <2> HIDE DEF q, n, p
    <2> QED
      BY <1>3, <2>1, Zenon
  <1>5. Printed(f) = <<IF n < 0 THEN -v ELSE v, p>>
    <2>1. f.conv \notin Signed /\ f.conv \notin {"u", "x", "o", "p"}
      BY DEF Signed
    <2> QED
      BY <2>1, Zenon DEF Printed, Eighths
  <1> HIDE DEF field, n, p
  <1> DEFINE at == from + Len(a)
             end == at + Len(c)
  <1>6. Lies(from, field) /\ CharAt(to) \in Follow
    BY <1>1
  <1>7. at \in Nat /\ Lies(at, c) /\ CharAt(end) \in Follow
    BY <1>4, <1>6, Spread
  <1> HIDE DEF at, to
  <1>8. /\ ParseD(at) = [value |-> <<IF n < 0 THEN -v ELSE v, p>>, at |-> end]
        /\ CharAt(at) \notin Whitespace /\ end # at
    BY <1>3, <1>4, <1>7, ReadsDecimal
  <1>9. Len(c) > 0
    <2>1. c \in Seq(Printable)
      BY DEF Str
    <2>2. Len(c) \in Nat
      BY <2>1, LenProperties
    <2> QED
      BY <1>7, <1>8, <2>2
  <1>10. Stands(from, to, at, end)
    BY <1>4, <1>6, <1>8, <1>9, SpreadStands DEF at, end, to
  <1> QED
    BY <1>1, <1>5, <1>8, <1>10, Zenon DEF to

(* that of an unsigned number,                                             *)
LEMMA UnsignedReads ==
  ASSUME Len(Source) \in Nat, NEW from \in Nat, NEW f, FieldType(f),
         f.conv \in {"u", "x", "o", "p"}, Readable(f),
         Lies(from, Convert(f)), CharAt(from + Len(Convert(f))) \in Follow
  PROVE  \E at, end :
           /\ Stands(from, from + Len(Convert(f)), at, end)
           /\ ParseULL(at, Base(f.conv)) = [value |-> Fetch(f), at |-> end]
  <1> DEFINE field == NumberField(f)
             n == Fetch(f)
             base == Base(f.conv)
             to == from + Len(field)
  <1>1. Convert(f) = field
    BY DEF Convert, Numeric
  <1>2. FitsLL(n) /\ base \in {8, 10, 16}
    BY UnsignedField
  <1>3. PICK a \in Blanks, b \in Blanks, t \in Str :
           /\ Between(field, a, t, b) /\ Spells(t, n, base) /\ t # <<>>
    BY UnsignedField
  <1> HIDE DEF field, n, base
  <1> DEFINE at == from + Len(a)
             end == at + Len(t)
  <1>4. Lies(from, field) /\ CharAt(to) \in Follow
    BY <1>1
  <1>5. at \in Nat /\ Lies(at, t) /\ CharAt(end) \in Follow
    BY <1>3, <1>4, Spread
  <1> HIDE DEF at, to
  <1>6. /\ ParseULL(at, base) = [value |-> n, at |-> end]
        /\ CharAt(at) \notin Whitespace /\ Len(t) > 0
    BY <1>2, <1>3, <1>5, ReadsUnsigned
  <1>7. Stands(from, to, at, end)
    BY <1>3, <1>4, <1>6, SpreadStands DEF at, end, to
  <1> QED
    BY <1>1, <1>6, <1>7, Zenon DEF to, n, base

LEMMA TextLetters ==
  ASSUME NEW f, FieldType(f), f.text \in Str, ~Overruns(f), NEW i \in 1 .. Len(Text(f))
  PROVE  Text(f)[i] # NUL
  <1> DEFINE s == f.text
             p == Size(f)
  <1>1. s \in Seq(Printable) /\ Len(s) \in Nat /\ DOMAIN s = 1 .. Len(s)
    <2>1. s \in Seq(Printable)
      BY DEF Str
    <2> QED
      BY <2>1, LenProperties
  <1>2. \A j \in 1 .. Len(s) : s[j] # NUL
    <2>1. NUL \notin Seqs!ToSet(s)
      BY Zenon DEF FieldType
    <2>2. \A j \in 1 .. Len(s) : s[j] \in Seqs!ToSet(s)
      BY <1>1, Zenon DEF Seqs!ToSet
    <2> QED
      BY <2>1, <2>2
  <1>3. /\ Text(f) = SubSeq(s, 1, p) /\ Len(Text(f)) = p /\ Len(Text(f)) \in Nat
        /\ p <= Len(s) /\ p \in Nat
    <2>1. Text(f) = SubSeq(s, 1, p) /\ Len(Text(f)) = p /\ Len(Text(f)) \in Nat
      BY TextIs
    <2> QED
      BY <2>1, SizeIs
  <1> HIDE DEF s, p
  <1>4. \A j \in 1 .. p : SubSeq(s, 1, p)[j] = s[j]
    <2>1. \A j \in 1 .. p : s[j] \in Printable
      BY <1>1, <1>3, ElementOfSeq
    <2> QED
      BY <1>1, <1>3, <2>1, SubSeqProperties
  <1>5. i \in 1 .. p /\ i \in 1 .. Len(s)
    BY <1>1, <1>3
  <1> QED
    BY <1>2, <1>3, <1>4, <1>5

(* and that of a text.                                                     *)
LEMMA TextReads ==
  ASSUME Len(Source) \in Nat, NEW from \in Nat, NEW f, FieldType(f), f.text \in Str,
         f.conv \in {"s", "c", "%"}, Readable(f), Lies(from, Convert(f)),
         f.conv = "s" => CharAt(from + Len(Convert(f))) \in Follow
  PROVE  \E at, end :
           /\ Stands(from, from + Len(Convert(f)), at, end)
           /\ Parse(f.conv, at) = [value |-> Text(f), at |-> end]
  <1> DEFINE field == TextField(f)
             c == Text(f)
             to == from + Len(field)
  <1>1. /\ Convert(f) = field /\ c \in Str /\ Len(c) \in Nat /\ Len(c) > 0
        /\ \A i \in 1 .. Len(c) : c[i] \notin Whitespace
        /\ f.conv # "s" => Len(c) = 1
    BY TextFieldSpread
  <1>2. PICK a \in Blanks, b \in Blanks : Between(field, a, c, b)
    BY TextFieldSpread
  <1>3. \A i \in 1 .. Len(c) : c[i] # NUL
    BY NotOverrun, TextLetters
  <1> HIDE DEF field, c
  <1> DEFINE at == from + Len(a)
             end == at + Len(c)
  <1>4. Lies(from, field) /\ (f.conv = "s" => CharAt(to) \in Follow)
    BY <1>1
  <1>5. /\ at \in Nat /\ Lies(at, c) /\ end \in 0 .. Len(Source)
        /\ f.conv = "s" => CharAt(end) \in Follow
    <2>1. /\ at \in Nat /\ Lies(at, c) /\ end \in 0 .. Len(Source)
          /\ CharAt(to) \in Follow => CharAt(end) \in Follow
      BY <1>1, <1>2, <1>4, Spread
    <2> QED
      BY <1>4, <2>1
  <1> HIDE DEF at, to
  <1>6. /\ \A j \in at .. end - 1 : CharAt(j) \notin Follow
        /\ CharAt(at) \notin Whitespace
    <2>1. /\ \A j \in at .. end - 1 : j - at + 1 \in 1 .. Len(c) /\ CharAt(j) = c[j - at + 1]
          /\ CharAt(at) = c[1]
      BY <1>1, <1>5, LiesAt
    <2>2. 1 \in 1 .. Len(c)
      BY <1>1
    <2>3. \A i \in 1 .. Len(c) : c[i] \notin Follow
      BY <1>1, <1>3 DEF Follow, Whitespace
    <2>4. ASSUME NEW j \in at .. end - 1 PROVE CharAt(j) \notin Follow
      <3>1. j - at + 1 \in 1 .. Len(c) /\ CharAt(j) = c[j - at + 1]
        BY <2>1
      <3> QED
        BY <2>3, <3>1, Zenon
    <2> QED
      BY <1>1, <2>1, <2>2, <2>4
  <1>7. SubSeq(Source, at + 1, end) = c
    <2>1. c \in Seq(Printable)
      BY <1>1 DEF Str
    <2> QED
      BY <1>5, <2>1, LiesText
  <1>8. Parse(f.conv, at) = [value |-> c, at |-> end]
    <2>1. CASE f.conv = "s"
      <3> DEFINE ends == {j \in at .. Len(Source) : CharAt(j) \in Whitespace \cup {NUL}}
      <3>1. Whitespace \cup {NUL} = Follow
        BY DEF Whitespace, Follow
      <3>2. end \in ends /\ \A j \in ends : end <= j
        BY <1>1, <1>5, <1>6, <2>1, <3>1
      <3>3. ends \subseteq Nat
        BY <1>5
      <3> HIDE DEF ends, end
      <3>4. Min(ends) \in ends /\ \A j \in ends : Min(ends) <= j
        BY <3>2, <3>3, LeastOf
      <3>5. Min(ends) = end
        <4> DEFINE least == Min(ends)
        <4>1. least \in Nat /\ end \in Nat /\ least <= end /\ end <= least
          BY <3>2, <3>3, <3>4
        <4> HIDE DEF least
        <4>2. least = end
          BY <4>1
        <4> QED
          BY <4>2 DEF least
      <3>6. Parse("s", at) = [value |-> SubSeq(Source, at + 1, Min(ends)), at |-> Min(ends)]
        BY Zenon, NotTheEnd DEF Parse, ends
      <3> QED
        BY <1>7, <2>1, <3>5, <3>6
    <2>2. CASE f.conv \in {"c", "%"}
      <3>1. Len(c) = 1
        BY <1>1, <2>2
      <3>2. end = at + 1 /\ at + 1 <= Len(Source)
        BY <1>5, <3>1
      <3>3. Min({at + 1, Len(Source)}) = at + 1
        BY <1>5, <3>2, MinTwo
      <3>4. f.conv \notin {"d", "i", "u", "x", "o", "p", "f"} /\ f.conv \notin {"u", "x", "o", "p"}
            /\ f.conv # "d" /\ f.conv # "i" /\ f.conv # "f"
        BY <2>2
      <3> DEFINE beyond == Min({at + 1, Len(Source)})
      <3>5. Parse(f.conv, at) = [value |-> SubSeq(Source, at + 1, beyond), at |-> beyond]
        BY <2>2, <3>4, Zenon DEF Parse
      <3> QED
        BY <1>7, <3>2, <3>3, <3>5
    <2> QED
      BY <2>1, <2>2
  <1>9. Stands(from, to, at, end)
    BY <1>1, <1>2, <1>4, <1>6, SpreadStands DEF at, end, to
  <1> QED
    BY <1>1, <1>8, <1>9, Zenon DEF to, c

(* A field that lies in the source with a blank or the end behind it is    *)
(* read as it was printed, and nothing but blanks of it is left.           *)
Returns(f, from, to) ==
  LET at == Past(from, Whitespace)
      read == Parse(f.conv, at)
  IN Stands(from, to, at, read.at) /\ (f.conv # "%" => read.value = Printed(f))

LEMMA FieldReads ==
  ASSUME Len(Source) \in Nat, NEW from \in Nat, NEW f, FieldType(f), f.text \in Str,
         f.conv # "lit", Readable(f), Lies(from, Convert(f)),
         f.conv \in Numeric \cup {"s"} => CharAt(from + Len(Convert(f))) \in Follow
  PROVE  Returns(f, from, from + Len(Convert(f)))
  <1> DEFINE to == from + Len(Convert(f))
  <1>1. f.conv \in Numeric \cup {"c", "s", "lit", "%"}
    BY Zenon DEF FieldType
  <1>2. CASE f.conv \in Signed
    <2>1. PICK at, end : /\ Stands(from, to, at, end)
                         /\ ParseLL(at, 10) = [value |-> Fetch(f), at |-> end]
                         /\ f.conv = "i" => ParseLL(at, 0) = [value |-> Fetch(f), at |-> end]
      <3>1. f.conv \in Numeric
        BY <1>2 DEF Numeric, Signed
      <3> QED
        BY <1>2, <3>1, SignedReads
    <2> DEFINE read == Parse(f.conv, at)
    <2>2. \A n, v : n = [value |-> v, at |-> end]
             => [n EXCEPT !.value = TwosComplement(@, IntBits)] = [value |-> TwosComplement(v, IntBits), at |-> end]
      OBVIOUS
    <2>3. read = [value |-> TwosComplement(Fetch(f), IntBits), at |-> end]
      <3>1. CASE f.conv = "d"
        <4>1. read = [ParseLL(at, 10) EXCEPT !.value = TwosComplement(@, IntBits)]
          BY <3>1, Zenon DEF Parse
        <4> QED
          BY <2>1, <2>2, <4>1
      <3>2. CASE f.conv = "i"
        <4>1. f.conv # "d"
          BY <3>2
        <4>2. read = [ParseLL(at, 0) EXCEPT !.value = TwosComplement(@, IntBits)]
          BY <3>2, <4>1, Zenon DEF Parse
        <4> QED
          BY <2>1, <2>2, <3>2, <4>2
      <3> QED
        BY <1>2, <3>1, <3>2 DEF Signed
    <2>4. Printed(f) = TwosComplement(Fetch(f), IntBits)
      <3>1. f.conv # "f" /\ f.conv \notin {"u", "x", "o", "p"}
        BY <1>2 DEF Signed
      <3> QED
        BY <1>2, <3>1, Zenon DEF Printed
    <2>5. at = Past(from, Whitespace)
      BY <2>1, Zenon DEF Stands
    <2> HIDE DEF to
    <2>6. read.at = end /\ read.value = Printed(f)
      BY <2>3, <2>4
    <2> QED
      BY <2>1, <2>5, <2>6, Zenon DEF Returns, to
  <1>3. CASE f.conv \in {"u", "x", "o", "p"}
    <2>1. PICK at, end : /\ Stands(from, to, at, end)
                         /\ ParseULL(at, Base(f.conv)) = [value |-> Fetch(f), at |-> end]
      <3>1. f.conv \in Numeric
        BY <1>3 DEF Numeric
      <3> QED
        BY <1>3, <3>1, UnsignedReads
    <2> DEFINE read == Parse(f.conv, at)
    <2>2. f.conv # "d" /\ f.conv # "i" /\ f.conv # "f" /\ f.conv \notin Signed
      BY <1>3 DEF Signed
    <2>3. read = [ParseULL(at, Base(f.conv)) EXCEPT !.value = Unsigned(@, IntBits)]
      BY <1>3, <2>2, Zenon DEF Parse
    <2>4. read = [value |-> Unsigned(Fetch(f), IntBits), at |-> end]
      BY <2>1, <2>3
    <2>5. Printed(f) = Unsigned(Fetch(f), IntBits)
      BY <1>3, <2>2, Zenon DEF Printed
    <2>6. at = Past(from, Whitespace)
      BY <2>1, Zenon DEF Stands
    <2> HIDE DEF to
    <2>7. read.at = end /\ read.value = Printed(f)
      BY <2>4, <2>5
    <2> QED
      BY <2>1, <2>6, <2>7, Zenon DEF Returns, to
  <1>4. CASE f.conv = "f"
    <2>1. PICK at, end : /\ Stands(from, to, at, end)
                         /\ ParseD(at) = [value |-> Printed(f), at |-> end]
      <3>1. f.conv \in Numeric
        BY <1>4 DEF Numeric
      <3> QED
        BY <1>4, <3>1, DecimalReads
    <2>2. f.conv # "d" /\ f.conv # "i" /\ f.conv \notin {"u", "x", "o", "p"}
      BY <1>4
    <2>3. Parse(f.conv, at) = ParseD(at)
      BY <1>4, <2>2, Zenon DEF Parse
    <2>4. at = Past(from, Whitespace)
      BY <2>1, Zenon DEF Stands
    <2> HIDE DEF to
    <2>5. ParseD(at).at = end /\ ParseD(at).value = Printed(f)
      BY <2>1
    <2> QED
      BY <2>1, <2>3, <2>4, <2>5, Zenon DEF Returns, to
  <1>5. CASE f.conv \in {"s", "c", "%"}
    <2>1. PICK at, end : /\ Stands(from, to, at, end)
                         /\ Parse(f.conv, at) = [value |-> Text(f), at |-> end]
      BY <1>5, TextReads
    <2>2. f.conv \notin Signed /\ f.conv # "f" /\ f.conv \notin {"u", "x", "o", "p"}
      BY <1>5 DEF Signed
    <2>3. Printed(f) = Text(f)
      BY <2>2, Zenon DEF Printed
    <2>4. at = Past(from, Whitespace)
      BY <2>1, Zenon DEF Stands
    <2> HIDE DEF to
    <2> DEFINE read == Parse(f.conv, at)
    <2>5. read.at = end /\ read.value = Text(f)
      BY <2>1
    <2> HIDE DEF read
    <2> QED
      BY <2>1, <2>3, <2>4, <2>5, Zenon DEF Returns, to, read
  <1> QED
    BY <1>1, <1>2, <1>3, <1>4, <1>5 DEF Numeric, Signed

(* The strto family finds the field that comes first.                      *)
LEMMA FieldConverts ==
  ASSUME Len(Source) \in Nat, NEW f, FieldType(f), Lies(0, Convert(f)),
         f.conv # "lit" => Readable(f),
         f.conv \in Numeric \cup {"s"} => CharAt(0 + Len(Convert(f))) \in Follow
  PROVE  Converted(f)
  <1> DEFINE to == 0 + Len(Convert(f))
             start == Past(0, Whitespace)
  <1>1. Past(0, {Space}) = start /\ Follow = {Space, NUL} /\ 0 \in Nat
    BY DEF Whitespace, Follow
  <1>2. CASE f.conv \in Signed
    <2>1. f.conv \in Numeric /\ f.conv # "lit" /\ f.conv # "f" /\ f.conv \notin {"u", "x", "o", "p"}
      BY <1>2 DEF Numeric, Signed
    <2>2. PICK at, end : /\ Stands(0, to, at, end)
                         /\ ParseLL(at, 10) = [value |-> Fetch(f), at |-> end]
      BY <1>1, <1>2, <2>1, SignedReads
    <2>3. at = start /\ CharAt(end) \in Follow
      BY <2>1, <2>2, Zenon DEF Stands
    <2> DEFINE n == Fetch(f)
               ll == strtoll(10)
               l == strtol(10)
    <2>4. TwosComplement(n, LongLongBits) = n
      BY <1>2, <2>1, FetchFits
    <2>5. ll = [ParseLL(at, 10) EXCEPT !.value = TwosComplement(@, LongLongBits)]
      BY <1>1, <2>3, Zenon DEF strtoll
    <2>6. l = [ll EXCEPT !.value = TwosComplement(@, IntBits)]
      BY Zenon DEF strtol
    <2>7. Printed(f) = TwosComplement(n, IntBits)
      BY <1>2, <2>1, Zenon DEF Printed
    <2> HIDE DEF n, ll, l
    <2>8. ParseLL(at, 10) = [value |-> n, at |-> end]
      BY <2>2 DEF n
    <2>9. ll = [value |-> n, at |-> end]
      BY <2>4, <2>5, <2>8
    <2>10. ll.value = n /\ l = [ll EXCEPT !.value = Printed(f)] /\ ll.at = end
      BY <2>6, <2>7, <2>9
    <2> QED
      BY <1>1, <1>2, <2>1, <2>3, <2>10, Zenon DEF Converted, n, ll, l
  <1>3. CASE f.conv \in {"u", "x", "o", "p"}
    <2>1. f.conv \in Numeric /\ f.conv # "lit" /\ f.conv # "f" /\ f.conv \notin Signed
      BY <1>3 DEF Numeric, Signed
    <2>2. PICK at, end : /\ Stands(0, to, at, end)
                         /\ ParseULL(at, Base(f.conv)) = [value |-> Fetch(f), at |-> end]
      BY <1>1, <1>3, <2>1, UnsignedReads
    <2>3. at = start /\ CharAt(end) \in Follow
      BY <2>1, <2>2, Zenon DEF Stands
    <2> DEFINE ull == strtoull(Base(f.conv))
    <2>4. ull = [value |-> Fetch(f), at |-> end]
      BY <1>1, <2>2, <2>3, Zenon DEF strtoull
    <2> HIDE DEF ull
    <2>5. ull.value = Fetch(f) /\ ull.at = end
      BY <2>4
    <2> QED
      BY <1>1, <1>3, <2>1, <2>3, <2>5, Zenon DEF Converted, ull
  <1>4. CASE f.conv = "f"
    <2>1. f.conv \in Numeric /\ f.conv # "lit" /\ f.conv \notin Signed /\ f.conv \notin {"u", "x", "o", "p"}
      BY <1>4 DEF Numeric, Signed
    <2>2. PICK at, end : Stands(0, to, at, end) /\ ParseD(at) = [value |-> Printed(f), at |-> end]
      BY <1>1, <1>4, <2>1, DecimalReads
    <2>3. at = start /\ CharAt(end) \in Follow
      BY <2>1, <2>2, Zenon DEF Stands
    <2> DEFINE d == strtod
    <2>4. d = [value |-> Printed(f), at |-> end]
      BY <1>1, <2>2, <2>3, Zenon DEF strtod
    <2> HIDE DEF d
    <2>5. d.value = Printed(f) /\ d.at = end
      BY <2>4
    <2> QED
      BY <1>1, <1>4, <2>1, <2>3, <2>5, Zenon DEF Converted, d
  <1>5. CASE f.conv \notin Signed /\ f.conv \notin {"u", "x", "o", "p"} /\ f.conv # "f"
    BY <1>5, Zenon DEF Converted
  <1> QED
    BY <1>2, <1>3, <1>4, <1>5

-----------------------------------------------------------------------------
(* Literals                                                                *)

(* A literal is matched where it lies: a blank by the blanks passed over,  *)
(* any other character by itself.                                          *)
LEMMA LiteralReads ==
  ASSUME Len(Source) \in Nat, NEW from \in Nat, NEW f, FieldType(f), f.text \in Str,
         f.conv = "lit", Lies(from, Convert(f))
  PROVE  LET at == Past(from, Whitespace)
             to == from + Len(Convert(f))
         IN /\ from \in 0 .. Len(Source)
            /\ f.text[1] \in Whitespace => Past(at, Whitespace) = Past(to, Whitespace)
            /\ f.text[1] \notin Whitespace => CharAt(at) = f.text[1] /\ at + 1 = to
  <1> DEFINE at == Past(from, Whitespace)
             to == from + Len(Convert(f))
             c == f.text
  <1>1. Convert(f) = c /\ Len(c) = 1
    BY OneLetter DEF Convert, Numeric
  <1> HIDE DEF c
  <1>2. Len(c) \in Nat /\ Lies(from, c)
    BY <1>1
  <1>3. /\ to = from + 1 /\ to \in 0 .. Len(Source) /\ from \in 0 .. Len(Source)
        /\ CharAt(from) = c[1]
    <2>1. /\ from + Len(c) \in 0 .. Len(Source) /\ from \in 0 .. Len(Source)
          /\ Len(c) > 0 => CharAt(from) = c[1]
      BY <1>2, LiesAt
    <2>2. to = from + 1
      BY <1>1
    <2> QED
      BY <1>1, <2>1, <2>2
  <1>4. CASE c[1] \in Whitespace
    <2>1. Past(from, Whitespace) = Past(to, Whitespace)
      <3>1. \A j \in from .. to - 1 : CharAt(j) \in Whitespace
        <4>1. \A j \in from .. to - 1 : j = from
          BY <1>3
        <4> QED
          BY <1>3, <1>4, <4>1
      <3>2. to \in from .. Len(Source)
        BY <1>3
      <3> QED
        BY <3>1, <3>2, PastJoins
    <2>2. Past(at, Whitespace) = at
      BY <1>3, PastIsThere
    <2> QED
      BY <1>3, <1>4, <2>1, <2>2, Zenon DEF c
  <1>5. CASE c[1] \notin Whitespace
    <2>1. at = from
      <3>1. from \in from .. Len(Source) /\ \A j \in from .. from - 1 : CharAt(j) \in Whitespace
        BY <1>3
      <3> QED
        BY <1>3, <1>5, <3>1, PastStops
    <2> HIDE DEF at
    <2>2. CharAt(at) = c[1] /\ at + 1 = to
      BY <1>3, <2>1
    <2> QED
      BY <1>3, <1>5, <2>2, Zenon DEF c, at
  <1> QED
    BY <1>4, <1>5

-----------------------------------------------------------------------------
(* Where the items lie                                                     *)

EndOf(these, k) == IF k = 0 THEN 0 ELSE these[k].to
Segment(all, at, text) == \A i \in 1 .. Len(text) : all[at + i] = text[i]

(* The items follow one another from the beginning of the output to its    *)
(* end, and each is there as its conversion made it.                       *)
Layout ==
  /\ Len(full) = EndOf(items, Len(items))
  /\ \A k \in 1 .. Len(items) : /\ items[k].from = EndOf(items, k - 1)
                                /\ Segment(full, EndOf(items, k - 1), Convert(format[k]))

(* Nothing that is printed ends the string.                                *)
LEMMA NoNUL == NUL \notin Printable
  <1>1. NUL \notin Seqs!ToSet(Digit)
    <2>1. \A i \in DOMAIN Digit : i \in 1 .. 16
      BY DEF Digit
    <2>2. \A i \in DOMAIN Digit : Digit[i] # NUL
      BY <2>1, NotTheEnd, Zenon
    <2> QED
      BY <2>2, Zenon DEF Seqs!ToSet
  <1>2. NUL \notin {" ", "x", "+", "-", "."}
    BY DEF NUL
  <1>3. \A c \in Calls : \A k \in DOMAIN c.format : NUL \notin Seqs!ToSet(c.format[k].text)
    <2> TAKE c \in Calls
    <2> TAKE k \in DOMAIN c.format
    <2>1. FieldType(c.format[k])
      BY CallsAssumption, Zenon
    <2> QED
      BY <2>1, Zenon DEF FieldType
  <1>4. NUL \notin UNION {UNION {Seqs!ToSet(c.format[k].text) : k \in DOMAIN c.format} : c \in Calls}
    <2> DEFINE texts(c) == UNION {Seqs!ToSet(c.format[k].text) : k \in DOMAIN c.format}
    <2>1. \A c \in Calls : NUL \notin texts(c)
      <3> TAKE c \in Calls
      <3> DEFINE text(k) == Seqs!ToSet(c.format[k].text)
      <3>1. \A k \in DOMAIN c.format : NUL \notin text(k)
        BY <1>3
      <3> HIDE DEF text
      <3>2. NUL \notin UNION {text(k) : k \in DOMAIN c.format}
        BY <3>1
      <3> QED
        BY <3>2 DEF text
    <2> HIDE DEF texts
    <2>2. NUL \notin UNION {texts(c) : c \in Calls}
      BY <2>1
    <2> QED
      BY <2>2 DEF texts
  <1> QED
    BY <1>1, <1>2, <1>4, Zenon DEF Printable

(* Items end inside the output.                                            *)
LEMMA EndsIn ==
  ASSUME PrintInv, NEW k \in 0 .. Len(items)
  PROVE  EndOf(items, k) \in 0 .. Len(full) /\ Len(full) \in Nat /\ Len(items) \in Nat
  <1>1. /\ full \in Output /\ items \in Seq(Seqs!ToSet(items))
        /\ \A j \in 1 .. Len(items) : items[j].to \in Nat /\ items[j].to <= Len(full)
    BY Zenon DEF PrintInv
  <1>2. Len(full) \in Nat /\ Len(items) \in Nat
    BY <1>1, OutputIs, LenProperties
  <1>3. CASE k = 0
    <2>1. EndOf(items, k) = 0
      BY <1>3, Zenon DEF EndOf
    <2> QED
      BY <1>2, <2>1
  <1>4. CASE k # 0
    <2>1. k \in 1 .. Len(items)
      BY <1>2, <1>4
    <2>2. EndOf(items, k) = items[k].to
      BY <1>4, Zenon DEF EndOf
    <2>3. items[k].to \in Nat /\ items[k].to <= Len(full)
      BY <1>1, <2>1
    <2> QED
      BY <1>2, <2>2, <2>3
  <1> QED
    BY <1>3, <1>4

LEMMA LayoutInit == FmtInit => Layout
  <1> SUFFICES ASSUME FmtInit PROVE Layout
    OBVIOUS
  <1>1. items = <<>> /\ full = <<>>
    BY Zenon DEF FmtInit
  <1>2. Len(items) = 0 /\ Len(full) = 0
    BY <1>1
  <1>3. EndOf(items, 0) = 0
    BY Zenon DEF EndOf
  <1>4. \A k \in 1 .. 0 : FALSE
    OBVIOUS
  <1> QED
    BY <1>2, <1>3, <1>4, Zenon DEF Layout

(* One more item keeps the layout.                                         *)
LEMMA LayoutKeeps ==
  ASSUME PrintInv, Layout, PrintItem
  PROVE  Layout'
  <1> DEFINE k == Len(items) + 1
             text == Convert(format[k])
             item == [from |-> Len(full), to |-> Len(full) + Len(text)]
  <1>1. /\ Len(items) < Len(format) /\ full' = full \o text
        /\ items' = Append(items, item) /\ format' = format
    BY Zenon DEF PrintItem
  <1>2. full \in Output /\ items \in Seq(Seqs!ToSet(items))
    BY Zenon DEF PrintInv
  <1>3. Len(items) \in Nat /\ Len(format) \in Nat
    BY <1>2, FormatNow, LenProperties
  <1>4. k \in 1 .. Len(format)
    BY <1>1, <1>3
  <1> HIDE DEF k
  <1>5. text \in Output /\ Len(text) \in Nat
    BY <1>4, FormatNow, ConvertIs
  <1> HIDE DEF text
  <1>6. /\ Len(full') = Len(full) + Len(text) /\ Len(full) \in Nat
        /\ \A i \in 1 .. Len(full) : full'[i] = full[i]
        /\ \A i \in 1 .. Len(text) : full'[Len(full) + i] = text[i]
    <2>1. full \in Seq(Bytes) /\ text \in Seq(Bytes)
      BY <1>2, <1>5 DEF Output
    <2>2. /\ Len(full \o text) = Len(full) + Len(text) /\ Len(full) \in Nat
          /\ \A i \in 1 .. Len(full) + Len(text) : (full \o text)[i] = IF i <= Len(full) THEN full[i] ELSE text[i - Len(full)]
      BY <2>1, ConcatProperties, LenProperties
    <2>3. ASSUME NEW i \in 1 .. Len(text) PROVE (full \o text)[Len(full) + i] = text[i]
      <3>1. /\ Len(full) + i \in 1 .. Len(full) + Len(text)
            /\ ~(Len(full) + i <= Len(full)) /\ Len(full) + i - Len(full) = i
        BY <1>5, <2>2
      <3> QED
        BY <2>2, <3>1
    <2>4. ASSUME NEW i \in 1 .. Len(full) PROVE (full \o text)[i] = full[i]
      BY <1>5, <2>2
    <2> QED
      BY <1>1, <2>2, <2>3, <2>4
  <1> HIDE DEF item
  <1>7. /\ Len(items') = k /\ items'[k] = item
        /\ \A j \in 1 .. Len(items) : items'[j] = items[j]
    <2>1. items \in Seq(Seqs!ToSet(items) \cup {item})
      <3>1. Seqs!ToSet(items) \subseteq Seqs!ToSet(items) \cup {item}
        OBVIOUS
      <3> QED
        BY <1>2, <3>1, SeqMonotonic
    <2>2. item \in Seqs!ToSet(items) \cup {item}
      OBVIOUS
    <2> QED
      BY <1>1, <2>1, <2>2, AppendProperties DEF k
  <1>8. \A j \in 0 .. Len(items) : EndOf(items', j) = EndOf(items, j)
    <2> TAKE j \in 0 .. Len(items)
    <2>1. j # 0 => j \in 1 .. Len(items)
      BY <1>3
    <2> QED
      BY <1>7, <2>1, Zenon DEF EndOf
  <1>9. Len(full) = EndOf(items, Len(items))
    BY Zenon DEF Layout
  <1>10. Len(full') = EndOf(items', Len(items'))
    <2>1. k # 0
      BY <1>4
    <2>2. EndOf(items', k) = items'[k].to
      BY <2>1, Zenon DEF EndOf
    <2>3. item.to = Len(full) + Len(text)
      BY DEF item
    <2> QED
      BY <1>6, <1>7, <2>2, <2>3
  <1>11. ASSUME NEW j \in 1 .. Len(items')
         PROVE  /\ items'[j].from = EndOf(items', j - 1)
                /\ Segment(full', EndOf(items', j - 1), Convert(format[j]))
    <2>1. CASE j \in 1 .. Len(items)
      <3> DEFINE at == EndOf(items, j - 1)
                 c == Convert(format[j])
      <3>1. j - 1 \in 0 .. Len(items)
        BY <1>3, <2>1
      <3>2. EndOf(items', j - 1) = at /\ at \in Nat
        BY <1>8, <3>1, EndsIn
      <3>3. items[j].from = at /\ \A i \in 1 .. Len(c) : full[at + i] = c[i]
        BY <2>1, Zenon DEF Layout, Segment
      <3>4. Len(c) \in Nat /\ at + Len(c) <= Len(full)
        <4>1. j \in 1 .. Len(format)
          BY <1>1, <1>3, <2>1
        <4>2. Len(c) \in Nat
          BY <4>1, FormatNow, ConvertIs
        <4>3. items[j].to \in Nat /\ items[j].to <= Len(full) /\ items[j].to - items[j].from = Len(c)
          BY <2>1, Zenon DEF PrintInv
        <4> DEFINE to == items[j].to
        <4>4. to \in Nat /\ to <= Len(full) /\ to - at = Len(c)
          BY <3>3, <4>3
        <4> HIDE DEF to, c, at
        <4> QED
          BY <1>6, <3>2, <4>2, <4>4
      <3> HIDE DEF at, c
      <3>5. \A i \in 1 .. Len(c) : full'[at + i] = c[i]
        <4> TAKE i \in 1 .. Len(c)
        <4>1. at + i \in 1 .. Len(full)
          BY <1>6, <3>2, <3>4
        <4> QED
          BY <1>6, <3>3, <4>1
      <3> QED
        BY <1>7, <2>1, <3>2, <3>3, <3>5, Zenon DEF Segment, c
    <2>2. CASE j \notin 1 .. Len(items)
      <3>1. j = k /\ j - 1 = Len(items) /\ Len(items) \in 0 .. Len(items)
        BY <1>3, <1>7, <2>2 DEF k
      <3>2. EndOf(items', j - 1) = Len(full)
        BY <1>8, <1>9, <3>1
      <3>3. item.from = Len(full)
        BY DEF item
      <3>4. Convert(format[j]) = text
        BY <3>1 DEF text
      <3>5. Segment(full', Len(full), text)
        BY <1>6 DEF Segment
      <3> QED
        BY <1>7, <3>1, <3>2, <3>3, <3>4, <3>5, Zenon
    <2> QED
      BY <2>1, <2>2
  <1>12. \A j \in 1 .. Len(items') :
           /\ items'[j].from = EndOf(items', j - 1)
           /\ Segment(full', EndOf(items', j - 1), Convert(format'[j]))
    BY <1>1, <1>11
  <1> QED
    BY <1>10, <1>12, Zenon DEF Layout

-----------------------------------------------------------------------------
(* What of the output can be scanned                                       *)

Ready == PrintInv /\ Layout /\ Len(items) = Len(format) /\ stream.size > 0

(* What can be scanned is the beginning of the output, as much as is kept, *)
(* up to a terminator that an overrun text left in it.                     *)
LEMMA SourceFull ==
  ASSUME Ready
  PROVE  /\ Len(Source) \in Nat /\ stream.offs \in Nat
         /\ Len(Source) <= stream.offs /\ stream.offs <= Len(full)
         /\ \A i \in 1 .. Len(Source) : Source[i] = full[i]
         /\ Len(Source) < stream.offs => full[Len(Source) + 1] = NUL
  <1>1. PrintInv /\ Len(items) = Len(format) /\ stream.size > 0
    BY DEF Ready
  <1>2. Len(format) > 0 /\ Len(format) \in Nat
    BY <1>1, FormatNow
  <1>3. items # <<>>
    <2>1. items = <<>> => Len(items) = 0
      BY EmptySeq
    <2> QED
      BY <1>1, <1>2, <2>1
  <1>4. stream.mem[stream.offs] = NUL
    BY <1>1, <1>3, Zenon DEF PrintInv
  <1> DEFINE offs == stream.offs
             mem == stream.mem
  <1>5. /\ DOMAIN mem = 0 .. MemSize /\ full \in Output /\ stream.size \in 0 .. MemSize
        /\ offs = Min({Len(full), Max({0, stream.size - 1})})
        /\ \A i \in 0 .. offs - 1 : mem[i] = full[i + 1]
    BY <1>1, Zenon DEF PrintInv, Holds
  <1>6. full \in Seq(Bytes) /\ Len(full) \in Nat
    BY <1>5, OutputIs DEF Output
  <1>7. offs \in 0 .. MemSize /\ offs <= Len(full)
    <2> DEFINE sz == stream.size
               len == Len(full)
    <2>1. sz \in 0 .. MemSize /\ sz > 0 /\ len \in Nat /\ MemSize \in Nat
      BY <1>1, <1>5, <1>6, FormatNow
    <2>2. offs = Min({len, Max({0, sz - 1})})
      BY <1>5
    <2> HIDE DEF sz, len, offs
    <2>3. sz - 1 \in 0 .. MemSize
      BY <2>1
    <2>4. Max({0, sz - 1}) = sz - 1
      BY <2>3, MaxTwo
    <2>5. Min({len, sz - 1}) = IF len < sz - 1 THEN len ELSE sz - 1
      BY <2>1, <2>3, MinTwo
    <2>6. offs = IF len < sz - 1 THEN len ELSE sz - 1
      BY <2>2, <2>4, <2>5
    <2>7. offs \in 0 .. MemSize /\ offs <= len
      BY <2>1, <2>3, <2>6
    <2> QED
      BY <2>7 DEF len
  <1> HIDE DEF offs, mem
  <1> DEFINE ends == {i \in DOMAIN mem : mem[i] = NUL}
  <1> DEFINE end == Min(ends)
  <1>8. end \in ends /\ end \in Nat /\ end <= offs
    <2>1. ends \subseteq Nat /\ offs \in ends
      BY <1>4, <1>5, <1>7 DEF offs, mem
    <2> HIDE DEF ends
    <2> QED
      BY <2>1, LeastOf
  <1>9. Source = [i \in 1 .. end |-> mem[i - 1]]
    BY Zenon DEF Source, mem
  <1>10. mem[end] = NUL
    BY <1>8
  <1> HIDE DEF end
  <1>11. ASSUME NEW i \in 1 .. end
         PROVE  mem[i - 1] = full[i] /\ full[i] \in Bytes
    <2>1. i - 1 \in 0 .. offs - 1 /\ (i - 1) + 1 = i /\ i \in 1 .. Len(full)
      BY <1>6, <1>7, <1>8
    <2> QED
      BY <1>5, <1>6, <2>1, ElementOfSeq
  <1>12. Len(Source) = end
    <2>1. Source \in [1 .. end -> Bytes]
      BY <1>9, <1>11
    <2> QED
      BY <1>8, <2>1, SeqFrom
  <1>13. \A i \in 1 .. end : Source[i] = full[i]
    BY <1>9, <1>11
  <1>14. end < offs => full[end + 1] = NUL
    <2> SUFFICES ASSUME end < offs PROVE full[end + 1] = NUL
      OBVIOUS
    <2>1. end \in 0 .. offs - 1
      BY <1>7, <1>8
    <2> QED
      BY <1>5, <1>10, <2>1
  <1> QED
    BY <1>7, <1>8, <1>12, <1>13, <1>14 DEF offs

AllClear(k) == \A j \in 1 .. k : Clear(j)

(* The output has no terminator in it as far as all items are clear, so    *)
(* the source reaches as far.                                              *)
LEMMA SourceReaches ==
  ASSUME Ready, NEW k \in 1 .. Len(format), AllClear(k)
  PROVE  EndOf(items, k) <= Len(Source)
  <1> DEFINE end == Len(Source)
             bad == end + 1
  <1>1. PrintInv /\ Layout /\ Len(items) = Len(format) /\ Len(format) \in Nat
    BY FormatNow DEF Ready
  <1>2. /\ end \in Nat /\ stream.offs \in Nat /\ end <= stream.offs /\ stream.offs <= Len(full)
        /\ end < stream.offs => full[bad] = NUL
    BY SourceFull
  <1> HIDE DEF end
  <1>3. \A j \in 0 .. Len(items) : EndOf(items, j) \in 0 .. Len(full) /\ Len(full) \in Nat
    BY <1>1, EndsIn
  <1>4. k \in 0 .. Len(items) /\ k # 0
    BY <1>1
  <1>5. EndOf(items, k) <= stream.offs
    <2>1. k \in 1 .. k
      BY <1>1
    <2>2. Clear(k)
      BY <2>1 DEF AllClear
    <2>3. items[k].to <= stream.offs
      BY <2>2, Zenon DEF Clear
    <2> QED
      BY <1>4, <2>3, Zenon DEF EndOf
  <1>6. SUFFICES ASSUME ~(EndOf(items, k) <= end) PROVE FALSE
    BY DEF end
  <1>7. EndOf(items, k) \in Nat /\ EndOf(items, k) > end /\ end < stream.offs
    BY <1>2, <1>3, <1>4, <1>5, <1>6
  <1>8. full[bad] = NUL
    BY <1>2, <1>7
  <1> DEFINE T == {j \in 0 .. k : EndOf(items, j) > end}
  <1>9. k \in T /\ T \subseteq Nat
    BY <1>1, <1>4, <1>7
  <1> DEFINE j == Min(T)
  <1>10. j \in T /\ \A m \in T : j <= m
    <2> HIDE DEF T
    <2> QED
      BY <1>9, LeastOf
  <1>11. j \in 0 .. k /\ EndOf(items, j) > end
    BY <1>10
  <1>12. j # 0
    <2>1. EndOf(items, 0) = 0
      BY Zenon DEF EndOf
    <2> HIDE DEF j
    <2> QED
      BY <1>2, <1>11, <2>1
  <1>13. j \in 1 .. k /\ j - 1 \in 0 .. k /\ j - 1 \notin T
    <2>1. ~(j <= j - 1)
      <3> HIDE DEF j
      <3> QED
        BY <1>1, <1>11
    <2> HIDE DEF j, T
    <2> QED
      BY <1>1, <1>10, <1>11, <1>12, <2>1
  <1>14. ~(EndOf(items, j - 1) > end)
    BY <1>13
  <1> HIDE DEF j, T
  <1> DEFINE f == format[j]
             from == EndOf(items, j - 1)
             to == EndOf(items, j)
             i == bad - from
  <1>15. j \in 1 .. Len(format) /\ j - 1 \in 0 .. Len(items) /\ j \in 0 .. Len(items)
    BY <1>1, <1>13
  <1>16. from \in Nat /\ to \in Nat
    BY <1>3, <1>15
  <1>17. Convert(f) \in Str /\ Len(Convert(f)) \in Nat
    <2>1. Clear(j)
      BY <1>13 DEF AllClear
    <2>2. f.conv # "lit" => Readable(f)
      BY <2>1, Zenon DEF Clear
    <2>3. FieldType(f) /\ f.text \in Str
      BY <1>1, <1>15, FormatNow
    <2>4. ~Overruns(f)
      BY <2>2, <2>3, NotOverrun
    <2> QED
      BY <2>3, <2>4, ConvertIs
  <1>18. to - from = Len(Convert(f)) /\ Segment(full, from, Convert(f))
    <2>1. j \in 1 .. Len(items)
      BY <1>1, <1>15
    <2>2. items[j].to - items[j].from = Len(Convert(f))
      BY <1>1, <2>1, Zenon DEF PrintInv
    <2>3. items[j].from = from /\ Segment(full, from, Convert(f))
      BY <1>1, <2>1, Zenon DEF Layout
    <2>4. to = items[j].to
      BY <1>12, Zenon DEF EndOf
    <2> QED
      BY <2>2, <2>3, <2>4
  <1>19. i \in 1 .. Len(Convert(f)) /\ from + i = bad
    <2> HIDE DEF f, from, to
    <2>1. from <= end /\ to > end
      BY <1>2, <1>11, <1>14, <1>16 DEF from, to
    <2> QED
      BY <1>2, <1>16, <1>17, <1>18, <2>1
  <1>20. full[bad] = Convert(f)[i]
    <2> HIDE DEF f, from, to, i, bad
    <2> QED
      BY <1>18, <1>19 DEF Segment
  <1>21. Convert(f)[i] \in Printable
    <2> HIDE DEF f, from, to, i, bad
    <2> QED
      BY <1>17, <1>19, ElementOfSeq DEF Str
  <1> QED
    BY <1>8, <1>20, <1>21, NoNUL

(* An item that is kept whole lies in the source as its conversion made it. *)
LEMMA FieldLies ==
  ASSUME Ready, NEW k \in 1 .. Len(format), AllClear(k)
  PROVE  LET at == EndOf(items, k - 1)
             c == Convert(format[k])
         IN /\ at \in Nat /\ Lies(at, c) /\ at + Len(c) = EndOf(items, k)
            /\ FieldType(format[k]) /\ format[k].text \in Str
  <1> DEFINE at == EndOf(items, k - 1)
             to == items[k].to
             c == Convert(format[k])
  <1>1. PrintInv /\ Layout /\ Len(items) = Len(format)
    BY DEF Ready
  <1>2. Len(format) \in Nat /\ FieldType(format[k]) /\ format[k].text \in Str
    BY <1>1, FormatNow
  <1>3. Len(c) \in Nat
    BY <1>2, ConvertIs
  <1>4. k \in 1 .. Len(items) /\ k - 1 \in 0 .. Len(items)
    BY <1>1, <1>2
  <1>5. at \in Nat
    BY <1>1, <1>4, EndsIn
  <1>6. /\ items[k].from = at /\ \A i \in 1 .. Len(c) : full[at + i] = c[i]
    BY <1>1, <1>4, Zenon DEF Layout, Segment
  <1>7. to \in Nat /\ to - items[k].from = Len(c)
    BY <1>1, <1>4, Zenon DEF PrintInv
  <1>8. to - at = Len(c)
    BY <1>6, <1>7
  <1>9. EndOf(items, k) = to
    <2>1. k # 0
      BY <1>4
    <2> QED
      BY <2>1, Zenon DEF EndOf
  <1>10. to <= Len(Source) /\ Len(Source) \in Nat
    BY <1>9, SourceReaches, SourceFull
  <1> HIDE DEF at, to, c
  <1>11. at + Len(c) = to
    BY <1>3, <1>5, <1>7, <1>8
  <1>12. \A i \in 1 .. Len(c) : Source[at + i] = c[i]
    <2> TAKE i \in 1 .. Len(c)
    <2>1. at + i \in 1 .. Len(Source)
      BY <1>3, <1>5, <1>10, <1>11
    <2> QED
      BY <1>6, <2>1, SourceFull
  <1>13. Lies(at, c)
    BY <1>10, <1>11, <1>12, Zenon DEF Lies
  <1> QED
    BY <1>2, <1>5, <1>9, <1>11, <1>13, Zenon DEF at, c

(* A blank or the end comes after a clear field that needs one.            *)
LEMMA AfterClear ==
  ASSUME Ready, NEW k \in 1 .. Len(format), AllClear(k), format[k].conv \in Numeric \cup {"s"}
  PROVE  CharAt(EndOf(items, k)) \in Follow
  <1> DEFINE to == EndOf(items, k)
             last == Len(format)
  <1>1. PrintInv /\ Layout /\ Len(items) = last
    BY DEF Ready
  <1>2. last \in Nat /\ k \in 0 .. Len(items)
    BY <1>1, FormatNow
  <1>3. to \in 0 .. Len(full) /\ Len(full) \in Nat
    BY <1>1, <1>2, EndsIn
  <1>4. Clear(k)
    <2>1. k \in 1 .. k
      BY <1>2
    <2> QED
      BY <2>1 DEF AllClear
  <1>5. /\ Len(Source) \in Nat /\ to <= Len(Source) /\ Len(Source) <= Len(full)
        /\ \A i \in 1 .. Len(Source) : Source[i] = full[i]
    BY <1>3, SourceFull, SourceReaches
  <1>6. CASE to = Len(Source)
    <2>1. CharAt(to) = NUL
      BY <1>3, <1>5, <1>6, Before
    <2> QED
      BY <2>1 DEF Follow
  <1>7. CASE to # Len(Source)
    <2>1. to + 1 \in 1 .. Len(Source) /\ to < Len(full)
      BY <1>3, <1>5, <1>7
    <2>2. k # last
      <3>1. k = last => to = Len(full)
        BY <1>1, Zenon DEF Layout
      <3> HIDE DEF to, last
      <3> QED
        BY <1>3, <2>1, <3>1
    <2> DEFINE j == k + 1
               f == format[j]
    <2>3. j \in 1 .. last /\ k < last /\ j - 1 = k
      BY <1>2, <2>2
    <2>4. f.conv = "lit" /\ f.text[1] \in Whitespace
      BY <1>4, <2>3, Zenon DEF Clear
    <2>5. FieldType(f) /\ f.text \in Str
      BY <1>1, <2>3, FormatNow
    <2>6. Convert(f) = f.text /\ Len(f.text) = 1
      BY <2>4, <2>5, OneLetter DEF Convert, Numeric
    <2>7. \A i \in 1 .. Len(Convert(f)) : full[to + i] = Convert(f)[i]
      <3>1. j \in 1 .. Len(items)
        BY <1>1, <2>3
      <3>2. Segment(full, EndOf(items, j - 1), Convert(format[j]))
        BY <1>1, <3>1, Zenon DEF Layout
      <3> QED
        BY <2>3, <3>2 DEF Segment
    <2>8. full[to + 1] = f.text[1]
      <3>1. 1 \in 1 .. Len(Convert(f))
        BY <2>6
      <3> QED
        BY <2>6, <2>7, <3>1
    <2> HIDE DEF to, f
    <2>9. CharAt(to) = Source[to + 1]
      <3>1. to < Len(Source)
        BY <1>3, <1>5, <2>1
      <3> QED
        BY <3>1, Zenon DEF CharAt
    <2>10. CharAt(to) \in Whitespace
      BY <1>5, <2>1, <2>4, <2>8, <2>9
    <2> QED
      BY <2>10 DEF to, Whitespace, Follow
  <1> QED
    BY <1>6, <1>7

-----------------------------------------------------------------------------
(* What the scan has reached                                               *)

(* The value of the k-th conversion is among those that were stored.       *)
GotBack(got, k) ==
  /\ Len(got) >= Cardinality(Counted(k))
  /\ k \in Counted(k) => got[Cardinality(Counted(k))] = Printed(format[k])

(* After g items of which all are clear, the scan stands before the next,  *)
(* and has counted and stored the values of these. It does not end before  *)
(* an item that is not clear.                                              *)
Reached(st, at, g, n, got) ==
  /\ AllClear(g) => /\ Len(got) = Cardinality(Counted(g))
                    /\ st = "scan" => Past(at, Whitespace) = Past(EndOf(items, g), Whitespace)
                    /\ st = "scan" \/ g = Len(format) => n = Cardinality(Counted(g))
  /\ \A k \in 1 .. g : AllClear(k) => GotBack(got, k)
  /\ st = "done" => \A k \in 1 .. Len(format) : AllClear(k) => k <= g

ReadInv ==
  /\ Layout
  /\ stage = "print" => scan = [at |-> 0, gone |-> 0, num |-> 0, got |-> <<>>]
  /\ stage # "print" =>
       \E at, g, n, X : \E got \in Seq(X) :
         /\ scan = [at |-> at, gone |-> g, num |-> n, got |-> got]
         /\ Reached(stage, at, g, n, got)

(* How many conversions count, item by item.                               *)
LEMMA CountedIs ==
  /\ Cardinality(Counted(0)) = 0
  /\ \A k \in Nat : Cardinality(Counted(k)) \in Nat /\ IsFiniteSet(Counted(k))
  /\ \A k \in Nat :
       IF format[k + 1].conv \in {"lit", "%"}
       THEN k + 1 \notin Counted(k + 1) /\ Counted(k + 1) = Counted(k)
       ELSE /\ k + 1 \in Counted(k + 1)
            /\ Cardinality(Counted(k + 1)) = Cardinality(Counted(k)) + 1
  <1>1. Cardinality(Counted(0)) = 0
    <2>1. Counted(0) = {}
      BY DEF Counted
    <2> QED
      BY <2>1, FS_EmptySet
  <1>2. \A k \in Nat : Cardinality(Counted(k)) \in Nat /\ IsFiniteSet(Counted(k))
    <2> TAKE k \in Nat
    <2>1. IsFiniteSet(1 .. k)
      BY FS_Interval
    <2>2. Counted(k) \subseteq 1 .. k
      BY DEF Counted
    <2>3. IsFiniteSet(Counted(k))
      BY <2>1, <2>2, FS_Subset
    <2> QED
      BY <2>3, FS_CardinalityType
  <1>3. ASSUME NEW k \in Nat
        PROVE  IF format[k + 1].conv \in {"lit", "%"}
               THEN k + 1 \notin Counted(k + 1) /\ Counted(k + 1) = Counted(k)
               ELSE /\ k + 1 \in Counted(k + 1)
                    /\ Cardinality(Counted(k + 1)) = Cardinality(Counted(k)) + 1
    <2> DEFINE skip == {j \in Nat : format[j].conv \in {"lit", "%"}}
    <2>1. \A m \in Nat : Counted(m) = (1 .. m) \ skip
      BY DEF Counted
    <2>2. k + 1 \in skip <=> format[k + 1].conv \in {"lit", "%"}
      OBVIOUS
    <2> HIDE DEF skip
    <2>3. k + 1 \in Nat /\ k + 1 \in 1 .. (k + 1) /\ k + 1 \notin 1 .. k /\ 1 .. (k + 1) = (1 .. k) \cup {k + 1}
      OBVIOUS
    <2>4. Counted(k + 1) = (1 .. (k + 1)) \ skip /\ Counted(k) = (1 .. k) \ skip
      BY <2>1, <2>3
    <2>5. CASE k + 1 \in skip
      BY <2>2, <2>3, <2>4, <2>5
    <2>6. CASE k + 1 \notin skip
      <3>1. Counted(k + 1) = Counted(k) \cup {k + 1} /\ k + 1 \notin Counted(k)
        BY <2>3, <2>4, <2>6
      <3>2. Cardinality(Counted(k + 1)) = Cardinality(Counted(k)) + 1
        BY <1>2, <3>1, FS_AddElement
      <3> QED
        BY <2>2, <2>6, <3>1, <3>2
    <2> QED
      BY <2>5, <2>6
  <1> QED
    BY <1>1, <1>2, <1>3

(* What was stored stays when more is.                                     *)
LEMMA GotStays ==
  ASSUME NEW X, NEW got \in Seq(X), NEW k \in Nat \ {0}, GotBack(got, k), NEW v
  PROVE  GotBack(Append(got, v), k)
  <1> DEFINE card == Cardinality(Counted(k))
             more == Append(got, v)
  <1>1. card \in Nat /\ Len(got) \in Nat
    BY CountedIs, LenProperties
  <1>2. k \in Counted(k) => card > 0
    <2>1. IsFiniteSet(Counted(k))
      BY CountedIs
    <2>2. k \in Counted(k) => Counted(k) # {}
      OBVIOUS
    <2>3. card = 0 => Counted(k) = {}
      BY <2>1, FS_EmptySet
    <2> HIDE DEF card
    <2> QED
      BY <1>1, <2>2, <2>3
  <1>3. Len(more) = Len(got) + 1 /\ \A i \in 1 .. Len(got) : more[i] = got[i]
    <2>1. got \in Seq(X \cup {v}) /\ v \in X \cup {v}
      BY SeqMonotonic
    <2> QED
      BY <2>1, AppendProperties
  <1>4. Len(got) >= card /\ (k \in Counted(k) => got[card] = Printed(format[k]))
    BY DEF GotBack
  <1> HIDE DEF card, more
  <1>5. Len(more) >= card
    BY <1>1, <1>3, <1>4
  <1>6. k \in Counted(k) => more[card] = Printed(format[k])
    BY <1>1, <1>2, <1>3, <1>4
  <1> QED
    BY <1>5, <1>6, Zenon DEF GotBack, card, more

(* What the scan has reached depends on the format and the buffer alone.   *)
LEMMA ReachedStays ==
  ASSUME UNCHANGED <<format, stream, items>>
  PROVE  \A st, at, g, n, got : Reached(st, at, g, n, got) => Reached(st, at, g, n, got)'
  <1>1. format' = format /\ stream' = stream /\ items' = items
    OBVIOUS
  <1>2. Source' = Source
    BY <1>1, Zenon DEF Source
  <1>3. \A at : CharAt(at)' = CharAt(at)
    BY <1>2, Zenon DEF CharAt
  <1>4. \A at : Past(at, Whitespace)' = Past(at, Whitespace)
    BY <1>2, <1>3 DEF Past
  <1>5. \A k : Counted(k)' = Counted(k)
    BY <1>1 DEF Counted
  <1>6. \A k : Clear(k)' <=> Clear(k)
    BY <1>1 DEF Clear
  <1>7. \A k : AllClear(k)' <=> AllClear(k)
    BY <1>6, Zenon DEF AllClear
  <1>8. \A got, k : GotBack(got, k)' <=> GotBack(got, k)
    BY <1>1, <1>5 DEF GotBack
  <1>9. \A g : EndOf(items, g)' = EndOf(items, g)
    BY <1>1 DEF EndOf
  <1>10. ASSUME NEW st, NEW at, NEW g, NEW n, NEW got, Reached(st, at, g, n, got)
         PROVE Reached(st, at, g, n, got)'
    BY <1>1, <1>4, <1>5, <1>7, <1>8, <1>10 DEF Reached, EndOf
  <1> QED
    BY <1>10, Zenon

(* Whatever stands in the way of the scan, an item is gone through or the  *)
(* scan ends where it is, and what was stored stays.                       *)
LEMMA ItemMay ==
  ASSUME ScanItem, NEW at, NEW g, NEW n, NEW got,
         scan = [at |-> at, gone |-> g, num |-> n, got |-> got]
  PROVE  \E to, num : \/ /\ stage' = "scan"
                         /\ \/ scan' = [at |-> to, gone |-> g + 1, num |-> num, got |-> got]
                            \/ \E v : scan' = [at |-> to, gone |-> g + 1, num |-> num, got |-> Append(got, v)]
                      \/ stage' = "done" /\ scan' = [at |-> to, gone |-> g, num |-> num, got |-> got]
  <1> DEFINE f == format[scan.gone + 1]
             start == Past(scan.at, Whitespace)
  <1>1. /\ stage = "scan"
        /\ (f.conv = "lit" /\ ScanLiteral(f, start)) \/ (f.conv # "lit" /\ ScanConversion(f, start))
    BY DEF ScanItem
  <1> HIDE DEF f, start
  <1>2. CASE ScanLiteral(f, start)
    <2>1. CASE /\ scan' = [scan EXCEPT !.gone = @ + 1,
                             !.at = IF f.text[1] \in Whitespace THEN start ELSE start + 1]
               /\ stage' = stage
      <3> DEFINE to == IF f.text[1] \in Whitespace THEN start ELSE start + 1
      <3>1. scan' = [scan EXCEPT !.gone = @ + 1, !.at = to]
        BY <2>1
      <3> HIDE DEF to
      <3>2. scan' = [at |-> to, gone |-> g + 1, num |-> n, got |-> got]
        BY <3>1
      <3> QED
        BY <1>1, <2>1, <3>2, Zenon
    <2>2. CASE stage' = "done" /\ scan' = scan
      BY <2>2, Zenon
    <2> QED
      BY <1>2, <2>1, <2>2 DEF ScanLiteral
  <1>3. CASE ScanConversion(f, start)
    <2> DEFINE read == Parse(f.conv, start)
    <2>1. \/ stage' = stage /\ \E num : \/ scan' = [at |-> read.at, gone |-> scan.gone + 1,
                                                    num |-> num, got |-> scan.got]
                                        \/ scan' = [at |-> read.at, gone |-> scan.gone + 1,
                                                    num |-> num, got |-> Append(scan.got, read.value)]
          \/ stage' = "done" /\ \E num : scan' = [scan EXCEPT !.at = start, !.num = num]
      BY <1>3, Zenon DEF ScanConversion
    <2> HIDE DEF read
    <2>2. scan.gone = g /\ scan.got = got
      OBVIOUS
    <2>3. CASE stage' = stage /\ \E num : \/ scan' = [at |-> read.at, gone |-> scan.gone + 1,
                                                    num |-> num, got |-> scan.got]
                                        \/ scan' = [at |-> read.at, gone |-> scan.gone + 1,
                                                    num |-> num, got |-> Append(scan.got, read.value)]
      BY <1>1, <2>2, <2>3, Zenon
    <2>4. CASE stage' = "done" /\ \E num : scan' = [scan EXCEPT !.at = start, !.num = num]
      <3>1. PICK num : scan' = [scan EXCEPT !.at = start, !.num = num]
        BY <2>4
      <3>2. scan' = [at |-> start, gone |-> g, num |-> num, got |-> got]
        BY <3>1
      <3> QED
        BY <2>4, <3>2, Zenon
    <2> QED
      BY <2>1, <2>3, <2>4
  <1> QED
    BY <1>1, <1>2, <1>3

(* Behind clear items the scan goes through a clear one.                   *)
LEMMA ItemGoes ==
  ASSUME Ready, ScanItem, NEW at, NEW g \in Nat, NEW n \in Int, NEW got,
         scan = [at |-> at, gone |-> g, num |-> n, got |-> got],
         Past(at, Whitespace) = Past(EndOf(items, g), Whitespace), AllClear(g + 1)
  PROVE  \E to : /\ stage' = "scan" /\ Past(to, Whitespace) = Past(EndOf(items, g + 1), Whitespace)
                 /\ scan' = IF format[g + 1].conv \in {"lit", "%"}
                            THEN [at |-> to, gone |-> g + 1, num |-> n, got |-> got]
                            ELSE [at |-> to, gone |-> g + 1, num |-> n + 1,
                                  got |-> Append(got, Printed(format[g + 1]))]
  <1> DEFINE k == g + 1
             f == format[k]
             from == EndOf(items, g)
             start == Past(from, Whitespace)
             end == EndOf(items, k)
  <1>1. scan.gone = g /\ scan.at = at /\ scan.num = n /\ scan.got = got
    OBVIOUS
  <1>2. /\ stage = "scan" /\ g < Len(format)
        /\ (f.conv = "lit" /\ ScanLiteral(f, start)) \/ (f.conv # "lit" /\ ScanConversion(f, start))
    BY <1>1 DEF ScanItem
  <1>3. PrintInv /\ Len(Source) \in Nat
    BY SourceFull DEF Ready
  <1>4. k \in 1 .. Len(format) /\ k - 1 = g
    BY <1>2, <1>3, FormatNow
  <1>5. f.conv # "lit" => Readable(f)
    <2>1. k \in 1 .. k
      BY <1>4
    <2>2. Clear(k)
      BY <2>1 DEF AllClear
    <2> QED
      BY <2>2, Zenon DEF Clear
  <1>6. /\ from \in Nat /\ Lies(from, Convert(f)) /\ from + Len(Convert(f)) = end
        /\ FieldType(f) /\ f.text \in Str
    <2>1. LET s == EndOf(items, k - 1)
              c == Convert(format[k])
          IN /\ s \in Nat /\ Lies(s, c) /\ s + Len(c) = EndOf(items, k)
             /\ FieldType(format[k]) /\ format[k].text \in Str
      BY <1>4, FieldLies
    <2> QED
      BY <1>4, <2>1
  <1>7. f.conv \in Numeric \cup {"s"} => CharAt(end) \in Follow
    BY <1>4, AfterClear
  <1> HIDE DEF f, from, end
  <1>8. CASE f.conv = "lit"
    <2>1. LET s == Past(from, Whitespace)
              to == from + Len(Convert(f))
          IN /\ f.text[1] \in Whitespace => Past(s, Whitespace) = Past(to, Whitespace)
             /\ f.text[1] \notin Whitespace => CharAt(s) = f.text[1] /\ s + 1 = to
      BY <1>3, <1>6, <1>8, LiteralReads
    <2> DEFINE to == IF f.text[1] \in Whitespace THEN start ELSE start + 1
    <2>2. Past(to, Whitespace) = Past(end, Whitespace) /\ (f.text[1] \notin Whitespace => CharAt(start) = f.text[1])
      BY <1>6, <2>1
    <2>3. stage' = stage /\ scan' = [scan EXCEPT !.gone = @ + 1, !.at = to]
      BY <1>2, <1>8, <2>2, Zenon DEF ScanLiteral
    <2> HIDE DEF to, start
    <2>4. scan' = [at |-> to, gone |-> k, num |-> n, got |-> got]
      BY <2>3
    <2>5. f.conv \in {"lit", "%"}
      BY <1>8
    <2> QED
      BY <1>2, <2>2, <2>3, <2>4, <2>5, Zenon DEF f, end
  <1>9. CASE f.conv # "lit"
    <2> DEFINE read == Parse(f.conv, start)
    <2>1. Returns(f, from, end)
      BY <1>3, <1>5, <1>6, <1>7, <1>9, FieldReads
    <2>2. Stands(from, end, start, read.at) /\ (f.conv # "%" => read.value = Printed(f))
      BY <2>1, Zenon DEF Returns
    <2>3. read.at # start /\ Past(read.at, Whitespace) = Past(end, Whitespace)
      BY <2>2, Zenon DEF Stands
    <2>4. /\ stage' = stage
          /\ scan' = [at |-> read.at, gone |-> scan.gone + 1,
                      num |-> (IF f.conv = "%" THEN scan.num - 1 ELSE scan.num) + 1,
                      got |-> IF f.conv = "%" THEN scan.got ELSE Append(scan.got, read.value)]
      BY <1>2, <1>9, <2>3, Zenon DEF ScanConversion
    <2> HIDE DEF read
    <2>5. CASE f.conv = "%"
      <3>1. n - 1 + 1 = n
        OBVIOUS
      <3>2. scan' = [at |-> read.at, gone |-> k, num |-> n, got |-> got]
        BY <1>1, <2>4, <2>5, <3>1
      <3>3. f.conv \in {"lit", "%"}
        BY <2>5
      <3> QED
        BY <1>2, <2>3, <2>4, <3>2, <3>3, Zenon DEF f, end
    <2>6. CASE f.conv # "%"
      <3>1. scan' = [at |-> read.at, gone |-> k, num |-> n + 1, got |-> Append(got, Printed(f))]
        BY <1>1, <2>2, <2>4, <2>6, Zenon
      <3>2. f.conv \notin {"lit", "%"}
        BY <1>9, <2>6
      <3> QED
        BY <1>2, <2>3, <2>4, <3>1, <3>2, Zenon DEF f, end
    <2> QED
      BY <2>5, <2>6
  <1> QED
    BY <1>8, <1>9

LEMMA ReadInitInv == FmtInit => ReadInv
  <1> SUFFICES ASSUME FmtInit PROVE ReadInv
    OBVIOUS
  <1>1. stage = "print" /\ scan = [at |-> 0, gone |-> 0, num |-> 0, got |-> <<>>]
    BY Zenon DEF FmtInit
  <1>2. stage # "print" => FALSE
    BY <1>1
  <1> QED
    BY <1>1, <1>2, LayoutInit, Zenon DEF ReadInv

(* Each action keeps ReadInv.                                              *)
LEMMA ReadPrintItem ==
  ASSUME FmtInv, ReadInv, PrintItem
  PROVE  ReadInv'
  <1>1. /\ stage = "print" /\ stage' = "print" /\ scan' = scan
    BY Zenon DEF PrintItem
  <1>2. scan' = [at |-> 0, gone |-> 0, num |-> 0, got |-> <<>>]
    BY <1>1, Zenon DEF ReadInv
  <1>3. Layout'
    BY LayoutKeeps, Zenon DEF FmtInv, ReadInv
  <1>4. stage' # "print" => FALSE
    BY <1>1
  <1> QED
    BY <1>2, <1>3, <1>4, Zenon DEF ReadInv

LEMMA LayoutStays ==
  ASSUME Layout, UNCHANGED <<format, items, full>>
  PROVE  Layout'
  <1>1. format' = format /\ items' = items /\ full' = full
    OBVIOUS
  <1> QED
    BY <1>1, Zenon DEF Layout

LEMMA ReadEndPrint ==
  ASSUME FmtInv, ReadInv, EndPrint
  PROVE  ReadInv'
  <1>1. /\ stage = "print" /\ stage' = "scan" /\ scan' = scan
        /\ UNCHANGED <<format, stream, items, full>>
    BY DEF EndPrint
  <1>2. scan' = [at |-> 0, gone |-> 0, num |-> 0, got |-> <<>>]
    BY <1>1, Zenon DEF ReadInv
  <1>3. Layout'
    BY <1>1, LayoutStays DEF ReadInv
  <1>4. Reached("scan", 0, 0, 0, <<>>)
    <2>1. EndOf(items, 0) = 0
      BY DEF EndOf
    <2>2. Cardinality(Counted(0)) = 0 /\ Len(<<>>) = 0
      BY CountedIs
    <2>3. \A k \in 1 .. 0 : FALSE
      OBVIOUS
    <2> QED
      BY <2>1, <2>2, <2>3, Zenon DEF Reached
  <1>5. Reached("scan", 0, 0, 0, <<>>)'
    BY <1>1, <1>4, ReachedStays
  <1>6. <<>> \in Seq({})
    OBVIOUS
  <1>7. \E at, g, n, X : \E got \in Seq(X) :
          /\ scan' = [at |-> at, gone |-> g, num |-> n, got |-> got]
          /\ Reached("scan", at, g, n, got)'
    BY <1>2, <1>5, <1>6, Zenon
  <1>8. "scan" # "print"
    OBVIOUS
  <1> QED
    BY <1>1, <1>3, <1>7, <1>8, Zenon DEF ReadInv

(* The states of the scan, item by item.                                   *)
LEMMA ReachedNext ==
  ASSUME Ready, ScanItem, NEW at, NEW g \in Nat, g < Len(format), NEW n, NEW X, NEW got \in Seq(X),
         scan = [at |-> at, gone |-> g, num |-> n, got |-> got], Reached("scan", at, g, n, got)
  PROVE  \E to, h, m, Y : \E more \in Seq(Y) :
           /\ scan' = [at |-> to, gone |-> h, num |-> m, got |-> more]
           /\ Reached(stage', to, h, m, more) /\ stage' # "print"
  <1> DEFINE k == g + 1
             v == Printed(format[k])
  <1>1. Len(format) \in Nat /\ k \in 1 .. Len(format)
    BY FormatNow DEF Ready
  <1>2. \A j \in 1 .. g : AllClear(j) => GotBack(got, j)
    BY Zenon DEF Reached
  <1>3. \A j \in 1 .. k : j \in 1 .. g \/ j = k
    BY <1>1
  <1>4. AllClear(k) <=> AllClear(g) /\ Clear(k)
    <2>1. (\A j \in 1 .. g : j \in 1 .. k) /\ k \in 1 .. k
      BY <1>1
    <2> QED
      BY <1>3, <2>1, Zenon DEF AllClear
  <1>5. \A w : /\ got \in Seq(X \cup {w}) /\ Append(got, w) \in Seq(X \cup {w})
               /\ Len(Append(got, w)) = Len(got) + 1 /\ Append(got, w)[Len(got) + 1] = w
    <2> TAKE w
    <2>1. got \in Seq(X \cup {w}) /\ w \in X \cup {w}
      BY SeqMonotonic
    <2> QED
      BY <2>1, AppendProperties
  <1>6. \A w : \A j \in 1 .. g : AllClear(j) => GotBack(Append(got, w), j)
    <2> TAKE w
    <2> TAKE j \in 1 .. g
    <2>1. j \in Nat \ {0}
      OBVIOUS
    <2> QED
      BY <1>2, <2>1, GotStays
  <1>7. CASE AllClear(k)
    <2>1. /\ Len(got) = Cardinality(Counted(g)) /\ n = Cardinality(Counted(g))
          /\ Past(at, Whitespace) = Past(EndOf(items, g), Whitespace)
      BY <1>4, <1>7, Zenon DEF Reached
    <2>2. n \in Nat /\ Len(got) = n
      BY <1>4, <2>1, CountedIs
    <2>3. PICK to : /\ stage' = "scan" /\ Past(to, Whitespace) = Past(EndOf(items, k), Whitespace)
                    /\ scan' = IF format[k].conv \in {"lit", "%"}
                               THEN [at |-> to, gone |-> k, num |-> n, got |-> got]
                               ELSE [at |-> to, gone |-> k, num |-> n + 1, got |-> Append(got, v)]
      BY <1>7, <2>1, <2>2, ItemGoes
    <2> HIDE DEF v
    <2>4. "scan" # "done" /\ "scan" # "print"
      OBVIOUS
    <2>5. CASE format[k].conv \in {"lit", "%"}
      <3>1. k \notin Counted(k) /\ Counted(k) = Counted(g)
        BY <2>5, CountedIs
      <3>2. GotBack(got, k)
        <4>1. Len(got) >= Cardinality(Counted(k))
          BY <2>1, <2>2, <3>1
        <4> QED
          BY <3>1, <4>1, Zenon DEF GotBack
      <3>3. Reached("scan", to, k, n, got)
        BY <1>2, <1>3, <2>1, <2>3, <2>4, <3>1, <3>2, Zenon DEF Reached
      <3>4. scan' = [at |-> to, gone |-> k, num |-> n, got |-> got]
        BY <2>3, <2>5, Zenon
      <3> QED
        BY <2>3, <2>4, <3>3, <3>4, Zenon
    <2>6. CASE format[k].conv \notin {"lit", "%"}
      <3>1. k \in Counted(k) /\ Cardinality(Counted(k)) = n + 1
        BY <2>1, <2>6, CountedIs
      <3> DEFINE more == Append(got, v)
      <3>2. more \in Seq(X \cup {v}) /\ Len(more) = n + 1 /\ more[n + 1] = v
        BY <1>5, <2>2
      <3> HIDE DEF more
      <3>3. GotBack(more, k)
        <4>1. Len(more) >= n + 1
          BY <2>2, <3>2
        <4> QED
          BY <3>1, <3>2, <4>1, Zenon DEF GotBack, v
      <3>4. \A j \in 1 .. g : AllClear(j) => GotBack(more, j)
        BY <1>6, Zenon DEF more
      <3>5. Reached("scan", to, k, n + 1, more)
        BY <1>3, <2>3, <2>4, <3>1, <3>2, <3>3, <3>4, Zenon DEF Reached
      <3>6. scan' = [at |-> to, gone |-> k, num |-> n + 1, got |-> more]
        BY <2>3, <2>6, Zenon DEF more
      <3> QED
        BY <2>3, <2>4, <3>2, <3>5, <3>6, Zenon
    <2> QED
      BY <2>5, <2>6
  <1>8. CASE ~AllClear(k)
    <2>1. PICK to, num :
            \/ /\ stage' = "scan"
               /\ \/ scan' = [at |-> to, gone |-> k, num |-> num, got |-> got]
                  \/ \E w : scan' = [at |-> to, gone |-> k, num |-> num, got |-> Append(got, w)]
            \/ stage' = "done" /\ scan' = [at |-> to, gone |-> g, num |-> num, got |-> got]
      BY ItemMay
    <2>2. "scan" # "print" /\ "scan" # "done" /\ "done" # "print" /\ "done" # "scan"
      OBVIOUS
    <2>3. CASE stage' = "scan" /\ scan' = [at |-> to, gone |-> k, num |-> num, got |-> got]
      <3>1. Reached("scan", to, k, num, got)
        BY <1>2, <1>3, <1>8, <2>2, Zenon DEF Reached
      <3> QED
        BY <2>2, <2>3, <3>1, Zenon
    <2>4. CASE stage' = "scan" /\ \E w : scan' = [at |-> to, gone |-> k, num |-> num, got |-> Append(got, w)]
      <3>1. PICK w : scan' = [at |-> to, gone |-> k, num |-> num, got |-> Append(got, w)]
        BY <2>4
      <3>2. Append(got, w) \in Seq(X \cup {w})
        BY <1>5
      <3>3. Reached("scan", to, k, num, Append(got, w))
        BY <1>3, <1>6, <1>8, <2>2, Zenon DEF Reached
      <3> QED
        BY <2>2, <2>4, <3>1, <3>2, <3>3, Zenon
    <2>5. CASE stage' = "done" /\ scan' = [at |-> to, gone |-> g, num |-> num, got |-> got]
      <3>1. ASSUME NEW j \in 1 .. Len(format), AllClear(j) PROVE j <= g
        <4>1. ~(k \in 1 .. j)
          <5> SUFFICES ASSUME k \in 1 .. j PROVE AllClear(k)
            BY <1>8
          <5>1. \A i \in 1 .. k : i \in 1 .. j
            BY <1>1
          <5> QED
            BY <3>1, <5>1, Zenon DEF AllClear
        <4> QED
          BY <1>1, <4>1
      <3>2. AllClear(g) => Len(got) = Cardinality(Counted(g))
        BY Zenon DEF Reached
      <3>3. g # Len(format)
        BY <1>1
      <3>4. Reached("done", to, g, num, got)
        BY <1>2, <2>2, <3>1, <3>2, <3>3, Zenon DEF Reached
      <3> QED
        BY <2>2, <2>5, <3>4, Zenon
    <2> QED
      BY <2>1, <2>3, <2>4, <2>5
  <1> QED
    BY <1>7, <1>8

LEMMA ReadyNow ==
  ASSUME FmtInv, ReadInv, stage # "print"
  PROVE  Ready
  <1>1. PrintInv /\ Len(items) = Len(format) /\ stream.size > 0
    BY DEF FmtInv, ScanInv
  <1>2. Layout
    BY DEF ReadInv
  <1> QED
    BY <1>1, <1>2 DEF Ready

LEMMA ReadScanItem ==
  ASSUME FmtInv, ReadInv, ScanItem
  PROVE  ReadInv'
  <1>1. /\ stage = "scan" /\ scan.gone < Len(format)
        /\ UNCHANGED <<format, stream, items, full>>
    BY DEF ScanItem
  <1>2. stage # "print"
    BY <1>1
  <1>3. Ready
    BY <1>2, ReadyNow
  <1>4. PICK at, g, n, X : \E got \in Seq(X) :
          /\ scan = [at |-> at, gone |-> g, num |-> n, got |-> got]
          /\ Reached(stage, at, g, n, got)
    BY <1>2, Zenon DEF ReadInv
  <1>5. PICK got \in Seq(X) : /\ scan = [at |-> at, gone |-> g, num |-> n, got |-> got]
                              /\ Reached(stage, at, g, n, got)
    BY <1>4
  <1>6. g \in Nat /\ g < Len(format)
    <2>1. scan.gone = g
      BY <1>5
    <2>2. scan.gone \in 0 .. Len(format)
      BY Zenon DEF FmtInv, ScanInv
    <2> QED
      BY <1>1, <2>1, <2>2
  <1>7. PICK to, h, m, Y : \E more \in Seq(Y) :
          /\ scan' = [at |-> to, gone |-> h, num |-> m, got |-> more]
          /\ Reached(stage', to, h, m, more) /\ stage' # "print"
    BY <1>1, <1>3, <1>5, <1>6, ReachedNext
  <1>8. PICK more \in Seq(Y) :
          /\ scan' = [at |-> to, gone |-> h, num |-> m, got |-> more]
          /\ Reached(stage', to, h, m, more) /\ stage' # "print"
    BY <1>7
  <1>9. PICK st : st = stage'
    OBVIOUS
  <1>10. Reached(st, to, h, m, more)'
    BY <1>1, <1>8, <1>9, ReachedStays
  <1>11. Reached(stage, to, h, m, more)'
    BY <1>9, <1>10, Zenon DEF Reached
  <1>12. Layout'
    BY <1>1, LayoutStays DEF ReadInv
  <1> QED
    BY <1>8, <1>11, <1>12, Zenon DEF ReadInv

LEMMA ReadEndScan ==
  ASSUME FmtInv, ReadInv, EndScan
  PROVE  ReadInv'
  <1>1. /\ stage = "scan" /\ scan.gone = Len(format) /\ stage' = "done" /\ scan' = scan
        /\ UNCHANGED <<format, stream, items, full>>
    BY DEF EndScan
  <1>2. stage # "print" /\ stage' # "print" /\ "done" # "scan"
    BY <1>1
  <1>3. PICK at, g, n, X : \E got \in Seq(X) :
          /\ scan = [at |-> at, gone |-> g, num |-> n, got |-> got]
          /\ Reached(stage, at, g, n, got)
    BY <1>2, Zenon DEF ReadInv
  <1>4. PICK got \in Seq(X) : /\ scan = [at |-> at, gone |-> g, num |-> n, got |-> got]
                              /\ Reached("scan", at, g, n, got)
    BY <1>1, <1>3
  <1>5. g = Len(format) /\ Len(format) \in Nat
    <2>1. scan.gone = g
      BY <1>4
    <2> QED
      BY <1>1, <2>1, FormatNow DEF FmtInv
  <1>6. Reached("done", at, g, n, got)
    <2>1. \A k \in 1 .. Len(format) : k <= g
      BY <1>5
    <2> QED
      BY <1>2, <1>4, <2>1, Zenon DEF Reached
  <1>7. Reached("done", at, g, n, got)'
    BY <1>1, <1>6, ReachedStays
  <1>8. Layout'
    BY <1>1, LayoutStays DEF ReadInv
  <1>9. scan' = [at |-> at, gone |-> g, num |-> n, got |-> got]
    BY <1>1, <1>4
  <1> QED
    BY <1>1, <1>2, <1>4, <1>7, <1>8, <1>9, Zenon DEF ReadInv

LEMMA ReadInvStays ==
  ASSUME ReadInv, UNCHANGED fmtVars
  PROVE  ReadInv'
  <1>1. /\ stage' = stage /\ scan' = scan /\ UNCHANGED <<format, stream, items, full>>
    BY DEF fmtVars
  <1>2. Layout'
    BY <1>1, LayoutStays DEF ReadInv
  <1>3. CASE stage = "print"
    <2>1. scan' = [at |-> 0, gone |-> 0, num |-> 0, got |-> <<>>]
      BY <1>1, <1>3, Zenon DEF ReadInv
    <2> QED
      BY <1>1, <1>2, <1>3, <2>1, Zenon DEF ReadInv
  <1>4. CASE stage # "print"
    <2>1. PICK at, g, n, X : \E got \in Seq(X) :
            /\ scan = [at |-> at, gone |-> g, num |-> n, got |-> got]
            /\ Reached(stage, at, g, n, got)
      BY <1>4, Zenon DEF ReadInv
    <2>2. PICK got \in Seq(X) : /\ scan = [at |-> at, gone |-> g, num |-> n, got |-> got]
                                /\ Reached(stage, at, g, n, got)
      BY <2>1
    <2>3. PICK st : st = stage
      OBVIOUS
    <2>4. Reached(st, at, g, n, got)'
      BY <1>1, <2>2, <2>3, ReachedStays
    <2>5. Reached(stage, at, g, n, got)'
      BY <1>1, <2>3, <2>4, Zenon DEF Reached
    <2>6. scan' = [at |-> at, gone |-> g, num |-> n, got |-> got]
      BY <1>1, <2>2
    <2> QED
      BY <1>1, <1>2, <1>4, <2>2, <2>5, <2>6, Zenon DEF ReadInv
  <1> QED
    BY <1>3, <1>4

(* ReadInv holds of every behaviour.                                       *)
THEOREM ReadInvAlways == FmtSpec => []ReadInv
  <1>1. FmtInv /\ ReadInv /\ [FmtNext]_fmtVars => ReadInv'
    <2> SUFFICES ASSUME FmtInv, ReadInv, [FmtNext]_fmtVars PROVE ReadInv'
      OBVIOUS
    <2>1. CASE UNCHANGED fmtVars
      BY <2>1, ReadInvStays
    <2> QED
      BY <2>1, ReadPrintItem, ReadEndPrint, ReadScanItem, ReadEndScan DEF FmtNext
  <1> QED
    BY <1>1, ReadInitInv, FmtInvAlways, PTL DEF FmtSpec

(* The invariant implies the property.                                     *)
LEMMA ReadMeans ==
  ASSUME FmtInv, ReadInv
  PROVE  ReadsBack
  <1> SUFFICES ASSUME stage = "done" PROVE
        /\ items # <<>> /\ Clear(1) => Converted(format[1])
        /\ \A k \in DOMAIN items :
          (\A j \in 1 .. k : Clear(j)) =>
            /\ Len(scan.got) >= Cardinality(Counted(k))
            /\ k \in Counted(k) => scan.got[Cardinality(Counted(k))] = Printed(format[k])
            /\ k = Len(format) => scan.num = Cardinality(Counted(k))
    BY Zenon DEF ReadsBack
  <1>1. stage # "print"
    OBVIOUS
  <1>2. Ready /\ PrintInv
    BY <1>1, ReadyNow DEF Ready
  <1>3. Len(format) \in Nat /\ Len(format) > 0
    BY <1>2, FormatNow
  <1>4. Clear(1) => Converted(format[1])
    <2> SUFFICES ASSUME Clear(1) PROVE Converted(format[1])
      OBVIOUS
    <2> DEFINE f == format[1]
    <2>1. 1 \in 1 .. Len(format) /\ 1 - 1 = 0
      BY <1>3
    <2>2. AllClear(1) /\ (f.conv # "lit" => Readable(f))
      <3>1. \A j \in 1 .. 1 : j = 1
        OBVIOUS
      <3>2. AllClear(1)
        BY <3>1, Zenon DEF AllClear
      <3> QED
        BY <3>2, Zenon DEF Clear
    <2>3. EndOf(items, 0) = 0
      BY Zenon DEF EndOf
    <2>4. Lies(0, Convert(f)) /\ 0 + Len(Convert(f)) = EndOf(items, 1) /\ FieldType(f)
      <3>1. LET s == EndOf(items, 1 - 1)
                c == Convert(format[1])
            IN Lies(s, c) /\ s + Len(c) = EndOf(items, 1) /\ FieldType(format[1])
        BY <1>2, <2>1, <2>2, FieldLies
      <3> QED
        BY <2>1, <2>3, <3>1
    <2>5. f.conv \in Numeric \cup {"s"} => CharAt(EndOf(items, 1)) \in Follow
      BY <1>2, <2>1, <2>2, AfterClear
    <2>6. Len(Source) \in Nat
      BY <1>2, SourceFull
    <2> HIDE DEF f
    <2>7. f.conv \in Numeric \cup {"s"} => CharAt(0 + Len(Convert(f))) \in Follow
      BY <2>4, <2>5
    <2>8. Converted(f)
      BY <2>2, <2>4, <2>6, <2>7, FieldConverts
    <2> QED
      BY <2>8 DEF f
  <1>5. ASSUME NEW k \in DOMAIN items, \A j \in 1 .. k : Clear(j)
        PROVE  /\ Len(scan.got) >= Cardinality(Counted(k))
               /\ k \in Counted(k) => scan.got[Cardinality(Counted(k))] = Printed(format[k])
               /\ k = Len(format) => scan.num = Cardinality(Counted(k))
    <2>1. PICK at, g, n, X : \E got \in Seq(X) :
            /\ scan = [at |-> at, gone |-> g, num |-> n, got |-> got]
            /\ Reached(stage, at, g, n, got)
      BY <1>1, Zenon DEF ReadInv
    <2>2. PICK got \in Seq(X) : /\ scan = [at |-> at, gone |-> g, num |-> n, got |-> got]
                                /\ Reached("done", at, g, n, got)
      BY <2>1
    <2>3. scan.got = got /\ scan.num = n /\ scan.gone = g
      BY <2>2
    <2>4. g \in 0 .. Len(format)
      BY <2>3, Zenon DEF FmtInv, ScanInv
    <2>5. k \in 1 .. Len(format)
      <3>1. items \in Seq(Seqs!ToSet(items)) /\ Len(items) = Len(format)
        BY <1>2, Zenon DEF PrintInv, Ready
      <3> QED
        BY <3>1, LenProperties
    <2>6. AllClear(k)
      BY <1>5, Zenon DEF AllClear
    <2>7. k <= g
      BY <2>2, <2>5, <2>6, Zenon DEF Reached
    <2>8. k \in 1 .. g
      BY <2>4, <2>5, <2>7
    <2>9. GotBack(got, k)
      BY <2>2, <2>6, <2>8, Zenon DEF Reached
    <2>10. k = Len(format) => n = Cardinality(Counted(k))
      <3>1. k = Len(format) => g = k
        BY <1>3, <2>4, <2>8
      <3> QED
        BY <2>2, <2>6, <3>1, Zenon DEF Reached
    <2> QED
      BY <2>3, <2>9, <2>10, Zenon DEF GotBack
  <1> QED
    BY <1>4, <1>5

(* ReadsBack holds of every behaviour: whatever the formats, arguments and *)
(* widths, what fits the buffer and is followed by a blank or the end is   *)
(* scanned as it was printed, stored in its place and counted right, and   *)
(* the strto family makes the same of the first field.                     *)
THEOREM ReadsBackAlways == FmtSpec => []ReadsBack
  BY ReadMeans, FmtInvAlways, ReadInvAlways, PTL
=============================================================================
