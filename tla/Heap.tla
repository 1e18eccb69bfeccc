-------------------------------- MODULE Heap --------------------------------
(***************************************************************************)
(* What malloc, calloc, realloc and free promise their callers: a set of   *)
(* blocks, each of the size that was asked for, whose contents change only *)
(* when the caller writes them.                                            *)
(***************************************************************************)
EXTENDS Naturals, Functions

CONSTANTS Pointers, Sizes, Values, Zero, Junk

VARIABLE block     \* from the pointers in use to [size, data]

Contents == Values \cup {Zero, Junk}

Init == block = [p \in {} |-> 0]

(* malloc returns a block with any contents, calloc one that is zero.      *)
Malloc(n) ==
  \E p \in Pointers \ DOMAIN block, d \in Contents :
    block' = [q \in DOMAIN block \cup {p} |->
                IF q = p THEN [size |-> n, data |-> d] ELSE block[q]]

(* realloc moves the contents to the block it returns, the same or another *)
(* one.                                                                    *)
Realloc(p, n) ==
  \E r \in (Pointers \ DOMAIN block) \cup {p} :
    block' = [q \in (DOMAIN block \ {p}) \cup {r} |->
                IF q = r THEN [size |-> n, data |-> block[p].data] ELSE block[q]]

Free(p) == block' = Restrict(block, DOMAIN block \ {p})

Write(p, v) == block' = [block EXCEPT ![p].data = v]

Next == \/ \E n \in Sizes : Malloc(n)
        \/ \E p \in DOMAIN block, n \in Sizes : Realloc(p, n)
        \/ \E p \in DOMAIN block : Free(p)
        \/ \E p \in DOMAIN block, v \in Values : Write(p, v)

Spec == Init /\ [][Next]_block
=============================================================================
