------------------------------ MODULE Allocator ------------------------------
(***************************************************************************)
(* The allocator of src/mock_libc/alloc.c behind malloc, calloc, realloc   *)
(* and free. Nodes are numbered in the order they are carved from the top  *)
(* of the heap; 0 is the null pointer, and also the empty node that        *)
(* allocatorInit puts at the start, which is never handed out. A pointer   *)
(* stands for the node whose data it points to.                            *)
(*                                                                         *)
(* The walk over the free list is one action per turn of its loop. What a  *)
(* block holds is one abstract value.                                      *)
(***************************************************************************)
EXTENDS Naturals, Sequences, Functions

CONSTANTS
  Sizes,           \* the sizes callers ask for
  SizeMod,         \* 2^32: size_t wraps here
  MaxNodes,        \* bound: nodes carved from the heap
  Values, Zero, Junk   \* contents: written by a caller, zeroed, unknown

Header == 16       \* sizeof(MemNode)
Null == 0
Contents == Values \cup {Zero, Junk}

Round(n) == (n + (16 - (n % 16))) % SizeMod

ASSUME SizesAssumption == Sizes \subseteq Nat
(* No caller asks for all but the last bytes of the address space.         *)
ASSUME NoWrapAssumption ==
  SizeMod \in Nat /\ \A n \in Sizes : n + 16 < SizeMod
ASSUME MaxNodesAssumption == MaxNodes \in Nat

VARIABLES
  tail,            \* alloc.tail
  free,            \* alloc.free
  addr, size, next,    \* of each node: its address and header fields
  data,            \* of each node: what its block holds
  pc, call, want, old,   \* the call in progress: where, which, size, pointer
  node, prev,      \* locals of allocatorAlloc
  pos,             \* ghost: the place of node in freeSeq
  live, req,       \* ghosts: nodes the callers hold, sizes they asked for
  freeSeq          \* ghost: the free nodes, most recently freed first

heapVars == <<tail, addr, size>>
opVars == <<pc, call, want, old, node, prev, pos>>
vars == <<heapVars, free, next, data, opVars, live, req, freeSeq>>

Nodes == 1 .. tail

Init ==
  /\ tail = 0 /\ free = Null
  /\ addr = [k \in 0 .. MaxNodes |-> 0]
  /\ size = [k \in 0 .. MaxNodes |-> 0]
  /\ next = [k \in 0 .. MaxNodes |-> Null]
  /\ data = [k \in 0 .. MaxNodes |-> Junk]
  /\ pc = "idle" /\ call = "none" /\ want = 0 /\ old = Null
  /\ node = Null /\ prev = Null /\ pos = 1
  /\ live = {} /\ req = [k \in 0 .. MaxNodes |-> 0] /\ freeSeq = <<>>

-----------------------------------------------------------------------------
(* allocatorAlloc                                                          *)

(* Entry: look at the free list when there is one.                         *)
Enter(c, n, p) ==
  /\ pc' = IF free = Null THEN "carve" ELSE "walk"
  /\ call' = c /\ want' = n /\ old' = p
  /\ node' = free /\ prev' = Null /\ pos' = 1

(* The call returns; its locals are gone.                                  *)
Leave ==
  /\ pc' = "idle" /\ call' = "none" /\ want' = 0 /\ old' = Null
  /\ node' = Null /\ prev' = Null /\ pos' = 1

(* Mutation: the comparison takes a block that is one byte short.          *)
FitsShort(k, n) == size[k] + 16 >= n

Fits(k, n) == size[k] >= n

AtEnd(k) == next[k] = Null

(* The node is too small: go on, or give up at the end of the list.        *)
WalkOn ==
  /\ pc = "walk" /\ ~Fits(node, want)
  /\ prev' = node
  /\ \/ /\ AtEnd(node)
        /\ pc' = "carve" /\ UNCHANGED <<node, pos>>
     \/ /\ ~AtEnd(node)
        /\ node' = next[node] /\ pos' = IF pos < Len(freeSeq) THEN pos + 1 ELSE pos
        /\ UNCHANGED pc
  /\ UNCHANGED <<heapVars, free, next, data, call, want, old, live, req, freeSeq>>

RemoveAt(s, i) == [j \in 1 .. Len(s) - 1 |-> IF j < i THEN s[j] ELSE s[j + 1]]

(* Mutation: the head of the list is moved although the node is further on.*)
UnlinkAsHead ==
  free' = next[node] /\ UNCHANGED next

Unlink ==
  \/ /\ node = free
     /\ free' = next[node] /\ UNCHANGED next
  \/ /\ node # free /\ prev # Null
     /\ next' = [next EXCEPT ![prev] = next[node]] /\ UNCHANGED free

(* The node fits: it leaves the free list. The code's assert(prev) is the  *)
(* second conjunct of Unlink's second case.                                *)
Take ==
  /\ pc = "walk" /\ Fits(node, want)
  /\ Unlink
  /\ freeSeq' = RemoveAt(freeSeq, pos)
  /\ pc' = "done" /\ UNCHANGED <<call, want, old, node, prev, pos>>
  /\ UNCHANGED <<heapVars, data, live, req>>

Top == addr[tail] + size[tail] + Header

(* Mutation: alloc.tail is not moved to the new node.                      *)
CarveKeepsTail ==
  /\ pc = "carve" /\ tail < MaxNodes
  /\ addr' = [addr EXCEPT ![tail + 1] = Top]
  /\ size' = [size EXCEPT ![tail + 1] = Round(want)]
  /\ next' = [next EXCEPT ![tail + 1] = Null]
  /\ pc' = "done" /\ node' = tail + 1 /\ UNCHANGED <<call, want, old, prev, pos>>
  /\ UNCHANGED <<tail, free, data, live, req, freeSeq>>

(* normal: a new node behind the last one.                                 *)
Carve ==
  /\ pc = "carve" /\ tail < MaxNodes
  /\ tail' = tail + 1
  /\ addr' = [addr EXCEPT ![tail + 1] = Top]
  /\ size' = [size EXCEPT ![tail + 1] = Round(want)]
  /\ next' = [next EXCEPT ![tail + 1] = Null]
  /\ pc' = "done" /\ node' = tail + 1 /\ UNCHANGED <<call, want, old, prev, pos>>
  /\ UNCHANGED <<free, data, live, req, freeSeq>>

(* Mutation: the rest of the list is forgotten.                            *)
PushCutsList(k) ==
  /\ next' = [next EXCEPT ![k] = Null]
  /\ free' = k
  /\ freeSeq' = <<k>> \o freeSeq

(* Mutation: the head is moved first, so the node points to itself.        *)
PushSwapped(k) ==
  /\ next' = [next EXCEPT ![k] = k]
  /\ free' = k
  /\ freeSeq' = <<k>> \o freeSeq

(* allocatorFree: the node becomes the head of the free list.              *)
Push(k) ==
  /\ next' = [next EXCEPT ![k] = free]
  /\ free' = k
  /\ freeSeq' = <<k>> \o freeSeq

-----------------------------------------------------------------------------
(* malloc, calloc, realloc and free as their callers use them: a pointer   *)
(* that is freed or resized is null or one they hold.                      *)

CallMalloc(n) ==
  /\ pc = "idle" /\ Enter("malloc", n, Null)
  /\ UNCHANGED <<heapVars, free, next, data, live, req, freeSeq>>

CallCalloc(n) ==
  /\ pc = "idle" /\ Enter("calloc", n, Null)
  /\ UNCHANGED <<heapVars, free, next, data, live, req, freeSeq>>

(* A null pointer makes realloc an allocation, a block that is large       *)
(* enough already is returned as it is.                                    *)
CallRealloc(p, n) ==
  /\ pc = "idle"
  /\ \/ /\ p = Null /\ Enter("malloc", n, Null)
        /\ UNCHANGED req
     \/ /\ p # Null /\ Fits(p, n)
        /\ req' = [req EXCEPT ![p] = n]
        /\ UNCHANGED opVars
     \/ /\ p # Null /\ ~Fits(p, n) /\ Enter("realloc", n, p)
        /\ UNCHANGED req
  /\ UNCHANGED <<heapVars, free, next, data, live, freeSeq>>

CallFree(p) ==
  /\ pc = "idle"
  /\ \/ p = Null /\ UNCHANGED <<free, next, freeSeq, live, req>>
     \/ /\ p # Null /\ Push(p)
        /\ live' = live \ {p} /\ req' = [req EXCEPT ![p] = 0]
  /\ UNCHANGED <<heapVars, data, opVars>>

(* allocatorAlloc returns to malloc or calloc, which zeroes the block.     *)
ReturnNew ==
  /\ pc = "done" /\ call \in {"malloc", "calloc"}
  /\ data' = IF call = "calloc" THEN [data EXCEPT ![node] = Zero] ELSE data
  /\ live' = live \cup {node}
  /\ req' = [req EXCEPT ![node] = want]
  /\ Leave
  /\ UNCHANGED <<heapVars, free, next, freeSeq>>

(* Mutation: the old contents are not copied.                              *)
CopiedNever == data

Copied == [data EXCEPT ![node] = data[old]]

(* ... or to realloc, which copies the old block and frees it.             *)
ReturnMoved ==
  /\ pc = "done" /\ call = "realloc"
  /\ data' = Copied
  /\ Push(old)
  /\ live' = (live \ {old}) \cup {node}
  /\ req' = [req EXCEPT ![old] = 0, ![node] = want]
  /\ Leave
  /\ UNCHANGED heapVars

(* A caller writes to a block it holds. *)
ClientWrite(p, v) ==
  /\ pc = "idle"
  /\ data' = [data EXCEPT ![p] = v]
  /\ UNCHANGED <<heapVars, free, next, opVars, live, req, freeSeq>>

Next ==
  \/ \E n \in Sizes : CallMalloc(n) \/ CallCalloc(n)
  \/ \E p \in live \cup {Null}, n \in Sizes : CallRealloc(p, n)
  \/ \E p \in live \cup {Null} : CallFree(p)
  \/ WalkOn \/ Take \/ Carve \/ ReturnNew \/ ReturnMoved
  \/ \E p \in live, v \in Values : ClientWrite(p, v)

Spec == Init /\ [][Next]_vars

(* A call that was made is finished. *)
FairSpec == Spec /\ WF_vars(WalkOn \/ Take \/ Carve \/ ReturnNew \/ ReturnMoved)

-----------------------------------------------------------------------------
HeapType == /\ tail \in 0 .. MaxNodes
            /\ addr \in [0 .. MaxNodes -> Nat] /\ size \in [0 .. MaxNodes -> Nat]
            /\ data \in [0 .. MaxNodes -> Contents]
ListType == /\ free \in 0 .. tail /\ next \in [0 .. MaxNodes -> 0 .. tail]
            /\ freeSeq \in Seq(Nat)
            /\ \A i \in 1 .. Len(freeSeq) : freeSeq[i] \in Nodes
CallType == /\ pc \in {"idle", "walk", "carve", "done"}
            /\ call \in {"none", "malloc", "calloc", "realloc"}
LocalType == /\ want \in Nat /\ pos \in Nat
             /\ old \in 0 .. tail /\ node \in 0 .. tail /\ prev \in 0 .. tail
HolderType == live \subseteq Nodes /\ req \in [0 .. MaxNodes -> Nat]

(* Every variable has its type: no pointer, header or local refers to a    *)
(* node beyond alloc.tail.                                                 *)
TypeOK == HeapType /\ ListType /\ CallType /\ LocalType /\ HolderType

(* The node a call has taken and not yet handed over. *)
InHand == IF pc = "done" THEN {node} ELSE {}

(* The pointers free and next are the list freeSeq: they start at its      *)
(* head, run through it in order and end in null. No node is on it twice,  *)
(* so no walk can loop.                                                    *)
FreeListIsChain ==
  /\ free = IF freeSeq = <<>> THEN Null ELSE freeSeq[1]
  /\ \A i \in 1 .. Len(freeSeq) :
       next[freeSeq[i]] = IF i = Len(freeSeq) THEN Null ELSE freeSeq[i + 1]
  /\ \A i, j \in 1 .. Len(freeSeq) : freeSeq[i] = freeSeq[j] => i = j

(* A node is held by a caller, on the free list, or in the hands of the    *)
(* running call, and never two of these: no block is handed out twice and  *)
(* none leaks inside the allocator.                                        *)
NodesPartitioned ==
  /\ Nodes = live \cup Range(freeSeq) \cup InHand
  /\ live \cap Range(freeSeq) = {}
  /\ InHand \cap (live \cup Range(freeSeq)) = {}

(* The blocks lie one behind the other, header and data, without overlap,  *)
(* a block is at least as large as the request it was handed out for, and  *)
(* what realloc copies fits into the new block.                            *)
BlocksFit ==
  /\ \A j, k \in 0 .. tail : j < k => addr[j] + size[j] + Header <= addr[k]
  /\ \A p \in live : size[p] >= req[p]
  /\ pc = "done" /\ call = "realloc" => size[old] <= size[node]

GrowsOnlyIfNoneFits ==
  tail' # tail => \A i \in 1 .. Len(freeSeq) : ~Fits(freeSeq[i], want)

TakesFirstFit ==
  Len(freeSeq') < Len(freeSeq) =>
    \E i \in 1 .. Len(freeSeq) :
      /\ node' = freeSeq[i] /\ Fits(freeSeq[i], want)
      /\ \A j \in 1 .. i - 1 : ~Fits(freeSeq[j], want)

(* Old memory is used before new memory: when the heap grows, no free      *)
(* block would have served the request; a block is reused in the order in  *)
(* which the list is searched, most recently freed first (what             *)
(* test/testalloc.c expects of the pointers it gets).                      *)
ReuseFirstFit == [][GrowsOnlyIfNoneFits /\ TakesFirstFit]_vars

(* Every call returns: the walk over the free list ends. (Carving can stop *)
(* only at the model's bound.)                                             *)
CallsReturn ==
  pc # "idle" ~> pc = "idle" \/ (pc = "carve" /\ tail = MaxNodes)

-----------------------------------------------------------------------------
(* What the callers see of the heap. *)
Blocks == [p \in live |-> [size |-> req[p], data |-> data[p]]]

HeapOfCallers == INSTANCE Heap WITH block <- Blocks, Pointers <- 1 .. MaxNodes

(* The allocator keeps the promise its callers rely on: free lists, walks  *)
(* and headers never show, realloc keeps the contents, and a block changes *)
(* only when its holder writes it.                                         *)
ImplementsHeap == HeapOfCallers!Spec
=============================================================================
