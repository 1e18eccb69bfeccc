------------------------------ MODULE VfsProofs ------------------------------
(***************************************************************************)
(* The virtual file system: its links are a tree whose nodes their paths   *)
(* lead to, a listing shows the children in their order, a hook hears      *)
(* every byte of its file, a stream reads what is in the file, and the     *)
(* tree implements the map from paths to contents that FileStore           *)
(* describes, for all paths, sizes and numbers of nodes and streams.       *)
(*                                                                         *)
(* The invariant says of the links only what can be said node by node, and *)
(* that following parents or siblings ends; that they are a tree is proved *)
(* from it at the end. What the walks over the tree compute is proved by   *)
(* the recursion theorems of Finiteness. A stream is proved about by       *)
(* itself first, as a record that fits the bytes of its file.              *)
(*                                                                         *)
(* Last come the functions of the same library that work on memory,        *)
(* strings and numbers.                                                    *)
(***************************************************************************)
EXTENDS Library, Finiteness, SequenceTheorems


(* Following next backwards comes to an end, too.                          *)
Begins(next, D) == \A S \in SUBSET D : S # {} => \E k \in S : \A m \in S : next[m] # k

Links ==
  /\ nodes \subseteq Ids /\ Root \in nodes
  /\ parent \in [Ids -> nodes \cup {Null}]
  /\ child \in [Ids -> nodes \cup {Null}]
  /\ sibling \in [Ids -> nodes \cup {Null}]
  /\ DOMAIN name = Ids

(* Only the root is without a parent, it has no siblings, and free nodes   *)
(* have no links.                                                          *)
Blank ==
  /\ parent[Root] = Null /\ sibling[Root] = Null
  /\ \A n \in nodes \ {Root} : parent[n] # Null
  /\ \A n \in Ids \ nodes : parent[n] = Null /\ child[n] = Null /\ sibling[n] = Null

(* A first child and a next sibling are where their parent says.           *)
Family ==
  /\ \A n \in nodes : child[n] # Null => parent[child[n]] = n
  /\ \A n \in nodes : sibling[n] # Null => parent[sibling[n]] = parent[n]

(* Every node but the root is a first child, or follows one sibling.       *)
Lists ==
  /\ \A k \in nodes \ {Root} : child[parent[k]] = k \/ \E m \in nodes : sibling[m] = k
  /\ \A m, n \in nodes : child[n] # Null => sibling[m] # child[n]
  /\ \A m, n \in nodes : sibling[m] = sibling[n] /\ sibling[m] # Null => m = n

Acyclic == Ends(parent, Ids) /\ Ends(sibling, Ids) /\ Begins(sibling, Ids)

LinksInv == Links /\ Blank /\ Family /\ Lists /\ Acyclic

(* Siblings that a path can tell apart have different names, and what no   *)
(* path leads to is empty.                                                 *)
NamesInv ==
  /\ \A k, m \in nodes \ {Root} :
       k # m /\ parent[k] = parent[m] /\ ~Odd(k) => name[k] # name[m]
  /\ \A n \in nodes : Odd(n) => child[n] = Null

(* Files are sequences of bytes, free nodes have none.                     *)
DataInv ==
  /\ DOMAIN data = Ids
  /\ \A n \in Ids : data[n] \in Seq(Bytes) /\ Len(data[n]) <= MaxData
  /\ \A n \in Ids \ nodes : data[n] = <<>>

Fields == {"file", "i", "hooked", "flushindex", "heard", "from", "got", "placed", "sole"}

Position == 0 .. MaxData

(* A record that may stand for a stream, whatever file it is on.           *)
Shape(st) ==
  /\ DOMAIN st = Fields
  /\ st.i \in Position /\ st.flushindex \in Position /\ st.from \in Position
  /\ st.hooked \in BOOLEAN /\ st.placed \in BOOLEAN /\ st.sole \in BOOLEAN
  /\ ~st.placed => st.got = <<>>
  /\ ~(st.sole /\ st.hooked) => st.heard = <<>>

(* HookHearsFile and ReadsFile of a stream on a file with these bytes.     *)
Hears(st, bytes) ==
  st.sole => /\ st.i = Len(bytes)
             /\ st.hooked => /\ st.heard = Slice(bytes, 0, st.flushindex)
                             /\ st.flushindex \in {0, st.i}
Reads(st, bytes) ==
  st.placed => /\ st.from <= st.i /\ st.i <= Len(bytes)
               /\ st.got = SubSeq(bytes, st.from + 1, st.i)

Fits(st, bytes) == Shape(st) /\ Hears(st, bytes) /\ Reads(st, bytes)

StreamsInv ==
  /\ Open \subseteq StreamIds
  /\ \A s \in Open : /\ streams[s].file \in nodes
                       /\ Fits(streams[s], data[streams[s].file])

IInv == LinksInv /\ NamesInv /\ DataInv /\ StreamsInv
-----------------------------------------------------------------------------
(* Walks along the links                                                   *)

(* The siblings behind a node, and the nodes above it, come to an end.     *)
LEMMA Walkable ==
  ASSUME LinksInv
  PROVE  /\ Null \notin Ids /\ Ids \cup {Null} = 0 .. MaxNodes /\ Root \in Ids
         /\ nodes \subseteq Ids /\ Root \in nodes
         /\ sibling \in [Ids -> Ids \cup {Null}] /\ Ends(sibling, Ids)
         /\ parent \in [Ids -> Ids \cup {Null}] /\ Ends(parent, Ids)
  <1>1. Null \notin Ids /\ Ids \cup {Null} = 0 .. MaxNodes /\ Root \in Ids
    <2> USE BoundsAssumption
    <2>1. 1 \in Ids /\ 0 \notin Ids
      BY DEF Ids
    <2>2. \A j : j \in Ids \cup {0} <=> j \in 0 .. MaxNodes
      BY DEF Ids
    <2> QED
      BY <2>1, <2>2 DEF Null, Root
  <1>2. nodes \subseteq Ids /\ Root \in nodes
    BY DEF LinksInv, Links
  <1>3. sibling \in [Ids -> Ids \cup {Null}] /\ parent \in [Ids -> Ids \cup {Null}]
    BY <1>2 DEF LinksInv, Links
  <1> QED
    BY <1>1, <1>2, <1>3 DEF LinksInv, Acyclic

(* The function that FindChild looks children up with.                     *)
Finds(find, c) ==
  find = [j \in 0 .. MaxNodes |->
            IF j = Null THEN Null ELSE IF name[j] = c THEN j ELSE find[sibling[j]]]

(* There is such a function: every list of siblings ends.                  *)
LEMMA FindExists ==
  ASSUME LinksInv, NEW c
  PROVE  \E find \in [0 .. MaxNodes -> 0 .. MaxNodes] : Finds(find, c)
  <1> DEFINE V == 0 .. MaxNodes
             step == [j \in Ids |-> [v \in V |-> IF name[j] = c THEN j ELSE v]]
  <1>1. step \in [Ids -> [V -> V]] /\ Null \in V
    BY Walkable
  <1>2. \A j \in Ids : \A v \in V : step[j][v] = IF name[j] = c THEN j ELSE v
    OBVIOUS
  <1> HIDE DEF step
  <1>3. Walk(Ids, Null, sibling, V, Null, step)
    BY <1>1, Walkable DEF Walk
  <1>4. PICK f : Walks(f, Ids, Null, sibling, V, Null, step)
    BY <1>3, WalkExists
  <1>5. f \in [V -> V] /\ f[Null] = Null
    BY <1>4, Walkable DEF Walks
  <1>6. ASSUME NEW j \in Ids PROVE f[j] = IF name[j] = c THEN j ELSE f[sibling[j]]
    <2>1. f[j] = step[j][f[sibling[j]]]
      BY <1>4 DEF Walks
    <2>2. sibling[j] \in V
      BY Walkable
    <2> QED
      BY <1>2, <1>5, <2>1, <2>2
  <1>7. \A j \in V : f[j] = IF j = Null THEN Null ELSE IF name[j] = c THEN j ELSE f[sibling[j]]
    <2>1. \A j \in V : j = Null \/ j \in Ids
      BY Walkable
    <2>2. \A j \in Ids : j # Null
      BY Walkable
    <2> QED
      BY <1>5, <1>6, <2>1, <2>2
  <1>8. Finds(f, c)
    BY <1>5, <1>7 DEF Finds
  <1> QED
    BY <1>5, <1>8

(* What FindChild comes to, by a function of the child to start from.      *)
Looks(find, n, c) ==
  /\ FindChild(n, c) = find[child[n]] /\ find[Null] = Null
  /\ \A j \in Ids : find[j] = IF name[j] = c THEN j ELSE find[sibling[j]]

(* FindChild is one of these functions at the first child.                 *)
LEMMA FindDef ==
  ASSUME LinksInv
  PROVE  \A n, c : \E find : Looks(find, n, c)
  <1> TAKE n, c
  <1> DEFINE find == CHOOSE f : Finds(f, c)
  <1>1. Finds(find, c)
    BY FindExists
  <1>2. FindChild(n, c) = find[child[n]]
    BY DEF FindChild, Finds
  <1> HIDE DEF find
  <1>3. \A j \in 0 .. MaxNodes :
          find[j] = IF j = Null THEN Null ELSE IF name[j] = c THEN j ELSE find[sibling[j]]
    BY <1>1 DEF Finds
  <1>4. find[Null] = Null
    BY <1>3, Walkable
  <1>5. \A j \in Ids : find[j] = IF name[j] = c THEN j ELSE find[sibling[j]]
    BY <1>3, Walkable
  <1> QED
    BY <1>2, <1>4, <1>5 DEF Looks

(* FindChild finds a child with the name, if there is one.                 *)
LEMMA FindsChild ==
  ASSUME LinksInv, NEW n \in nodes, NEW c
  PROVE  /\ FindChild(n, c) # Null =>
              /\ FindChild(n, c) \in nodes \ {Root}
              /\ parent[FindChild(n, c)] = n /\ name[FindChild(n, c)] = c
         /\ FindChild(n, c) = Null =>
              \A k \in nodes \ {Root} : parent[k] = n => name[k] # c
  <1>p. PICK find : Looks(find, n, c)
    BY FindDef
  <1>1. /\ FindChild(n, c) = find[child[n]] /\ find[Null] = Null
        /\ \A j \in Ids : find[j] = IF name[j] = c THEN j ELSE find[sibling[j]]
    BY <1>p DEF Looks
  <1>l. /\ child[n] \in nodes \cup {Null} /\ nodes \subseteq Ids /\ Null \notin Ids
        /\ \A j \in nodes : sibling[j] \in nodes \cup {Null}
        /\ \A j \in nodes : sibling[j] # Null => parent[sibling[j]] = parent[j]
        /\ child[n] # Null => parent[child[n]] = n
        /\ parent[Root] = Null /\ sibling[Root] = Null
    BY Walkable DEF LinksInv, Links, Family, Blank
  <1> DEFINE Right(j) == find[j] # Null => /\ find[j] \in nodes /\ name[find[j]] = c
                                           /\ parent[find[j]] = parent[j]
  <1>2. \A j \in nodes : Right(j)
    <2> DEFINE S == {j \in nodes : ~Right(j)}
    <2>1. SUFFICES ASSUME S # {} PROVE FALSE
      BY <2>1
    <2>2. PICK j \in S : sibling[j] \notin S
      <3>1. S \in SUBSET Ids
        BY <1>l
      <3> HIDE DEF S
      <3> QED
        BY <2>1, <3>1, Walkable DEF Ends
    <2>3. j \in nodes /\ find[j] = IF name[j] = c THEN j ELSE find[sibling[j]]
      BY <1>1, <1>l
    <2>4. CASE name[j] = c
      BY <2>2, <2>3, <2>4
    <2>5. CASE name[j] # c /\ sibling[j] = Null
      BY <1>1, <2>2, <2>3, <2>5
    <2>6. CASE name[j] # c /\ sibling[j] # Null
      <3>1. sibling[j] \in nodes /\ parent[sibling[j]] = parent[j]
        BY <1>l, <2>3, <2>6
      <3>2. Right(sibling[j])
        BY <2>2, <3>1
      <3>3. Right(j)
        BY <2>3, <2>6, <3>1, <3>2
      <3> QED
        BY <2>2, <3>3
    <2> QED
      BY <2>4, <2>5, <2>6
  <1>3. ASSUME FindChild(n, c) # Null
        PROVE  /\ FindChild(n, c) \in nodes \ {Root}
               /\ parent[FindChild(n, c)] = n /\ name[FindChild(n, c)] = c
    <2>1. child[n] \in nodes /\ Right(child[n]) /\ parent[child[n]] = n
      BY <1>1, <1>2, <1>3, <1>l
    <2>2. n # Null
      BY <1>l
    <2> QED
      BY <1>1, <1>3, <1>l, <2>1, <2>2
  <1>4. ASSUME FindChild(n, c) = Null, NEW k \in nodes \ {Root}, parent[k] = n, name[k] = c
        PROVE  FALSE
    <2> DEFINE S == {j \in nodes \ {Root} : parent[j] = n /\ find[j] # Null}
    <2>1. k \in S
      BY <1>1, <1>4, <1>l
    <2>2. PICK j \in S : \A m \in S : sibling[m] # j
      <3>1. S \in SUBSET Ids
        BY <1>l
      <3> HIDE DEF S
      <3> QED
        BY <2>1, <3>1 DEF LinksInv, Acyclic, Begins
    <2>3. j # child[n]
      BY <1>1, <1>4
    <2>4. PICK m \in nodes : sibling[m] = j
      BY <2>3 DEF LinksInv, Lists
    <2>5. m # Root /\ parent[m] = n /\ m # Null
      BY <1>l, <2>4
    <2>6. find[m] # Null
      BY <1>1, <1>l, <2>4, <2>5
    <2> QED
      BY <2>2, <2>4, <2>5, <2>6
  <1> QED
    BY <1>3, <1>4

(* LastSibling, by a function of the child to start from.                  *)
Lasts(last, k) ==
  /\ LastSibling(k) = last[k]
  /\ \A j \in Ids : last[j] = IF sibling[j] = Null THEN j ELSE last[sibling[j]]

(* LastSibling is a function that walks the siblings.                      *)
LEMMA LastDef ==
  ASSUME LinksInv
  PROVE  \A k : \E last : Lasts(last, k)
  <1> TAKE k
  <1> DEFINE V == 0 .. MaxNodes
             step == [j \in Ids |-> [v \in V |-> IF sibling[j] = Null THEN j ELSE v]]
             Is(f) == f = [j \in 0 .. MaxNodes |->
                             IF j = Null THEN Null
                             ELSE IF sibling[j] = Null THEN j ELSE f[sibling[j]]]
             last == CHOOSE f : Is(f)
  <1>1. step \in [Ids -> [V -> V]] /\ Null \in V
    BY Walkable
  <1>2. \A j \in Ids : \A v \in V : step[j][v] = IF sibling[j] = Null THEN j ELSE v
    OBVIOUS
  <1> HIDE DEF step
  <1>3. Walk(Ids, Null, sibling, V, Null, step)
    BY <1>1, Walkable DEF Walk
  <1>4. PICK f : Walks(f, Ids, Null, sibling, V, Null, step)
    BY <1>3, WalkExists
  <1>5. f \in [V -> V] /\ f[Null] = Null
    BY <1>4, Walkable DEF Walks
  <1>6. ASSUME NEW j \in Ids PROVE f[j] = IF sibling[j] = Null THEN j ELSE f[sibling[j]]
    <2>1. f[j] = step[j][f[sibling[j]]]
      BY <1>4 DEF Walks
    <2>2. sibling[j] \in V
      BY Walkable
    <2> QED
      BY <1>2, <1>5, <2>1, <2>2
  <1>7. \A j \in V : f[j] = IF j = Null THEN Null
                            ELSE IF sibling[j] = Null THEN j ELSE f[sibling[j]]
    <2>1. \A j \in V : j = Null \/ j \in Ids
      BY Walkable
    <2>2. \A j \in Ids : j # Null
      BY Walkable
    <2> QED
      BY <1>5, <1>6, <2>1, <2>2
  <1>8. Is(f)
    BY <1>5, <1>7
  <1>9. Is(last)
    <2> HIDE DEF Is
    <2> QED
      BY <1>8
  <1>10. LastSibling(k) = last[k]
    BY DEF LastSibling
  <1> HIDE DEF last
  <1>11. \A j \in Ids : last[j] = IF sibling[j] = Null THEN j ELSE last[sibling[j]]
    <2>1. \A j \in 0 .. MaxNodes : last[j] = IF j = Null THEN Null
                            ELSE IF sibling[j] = Null THEN j ELSE last[sibling[j]]
      BY <1>9
    <2> QED
      BY <2>1, Walkable
  <1> QED
    BY <1>10, <1>11 DEF Lasts

(* LastSibling finds the sibling that has none behind it.                  *)
LEMMA FindsLast ==
  ASSUME LinksInv, NEW k \in nodes
  PROVE  /\ LastSibling(k) \in nodes /\ sibling[LastSibling(k)] = Null
         /\ parent[LastSibling(k)] = parent[k]
  <1>p. PICK last : Lasts(last, k)
    BY LastDef
  <1>1. /\ LastSibling(k) = last[k]
        /\ \A j \in Ids : last[j] = IF sibling[j] = Null THEN j ELSE last[sibling[j]]
    BY <1>p DEF Lasts
  <1>l. /\ nodes \subseteq Ids
        /\ \A j \in nodes : sibling[j] \in nodes \cup {Null}
        /\ \A j \in nodes : sibling[j] # Null => parent[sibling[j]] = parent[j]
    BY Walkable DEF LinksInv, Links, Family
  <1> DEFINE Right(j) == last[j] \in nodes /\ sibling[last[j]] = Null /\ parent[last[j]] = parent[j]
             S == {j \in nodes : ~Right(j)}
  <1>2. SUFFICES ASSUME S # {} PROVE FALSE
    BY <1>1
  <1>3. PICK j \in S : sibling[j] \notin S
    <2>1. S \in SUBSET Ids
      BY <1>l
    <2> HIDE DEF S
    <2> QED
      BY <1>2, <2>1, Walkable DEF Ends
  <1>4. j \in nodes /\ last[j] = IF sibling[j] = Null THEN j ELSE last[sibling[j]]
    BY <1>1, <1>l
  <1>5. CASE sibling[j] = Null
    BY <1>3, <1>4, <1>5
  <1>6. CASE sibling[j] # Null
    <2>1. sibling[j] \in nodes /\ parent[sibling[j]] = parent[j]
      BY <1>l, <1>4, <1>6
    <2>2. Right(sibling[j])
      BY <1>3, <2>1
    <2>3. Right(j)
      BY <1>4, <1>6, <2>1, <2>2
    <2> QED
      BY <1>3, <2>3
  <1> QED
    BY <1>5, <1>6

(* Whether a node is n or below it, by a function of the node.             *)
Climbs(up, n) ==
  /\ Subtree(n) = {k \in nodes : up[k]}
  /\ up \in [0 .. MaxNodes -> BOOLEAN]
  /\ \A k \in nodes : up[k] <=> (k = n \/ (k # Root /\ up[parent[k]]))

(* Subtree is given by a function that walks up to the root.               *)
LEMMA SubtreeDef ==
  ASSUME LinksInv
  PROVE  \A n \in nodes : \E up : Climbs(up, n)
  <1> TAKE n \in nodes
  <1> DEFINE step == [j \in Ids |-> [v \in BOOLEAN |-> j = n \/ (j \notin {Null, Root} /\ v)]]
             Is(f) == f = [k \in 0 .. MaxNodes |->
                             k = n \/ (k \notin {Null, Root} /\ f[parent[k]])]
             up == CHOOSE f : Is(f)
  <1>1. step \in [Ids -> [BOOLEAN -> BOOLEAN]]
    OBVIOUS
  <1>2. \A j \in Ids : \A v \in BOOLEAN : step[j][v] = (j = n \/ (j \notin {Null, Root} /\ v))
    OBVIOUS
  <1> HIDE DEF step
  <1>3. Walk(Ids, Null, parent, BOOLEAN, FALSE, step)
    BY <1>1, Walkable DEF Walk
  <1>4. PICK f : Walks(f, Ids, Null, parent, BOOLEAN, FALSE, step)
    BY <1>3, WalkExists
  <1>5. f \in [0 .. MaxNodes -> BOOLEAN] /\ f[Null] = FALSE
    BY <1>4, Walkable DEF Walks
  <1>6. ASSUME NEW j \in Ids PROVE f[j] = (j = n \/ (j \notin {Null, Root} /\ f[parent[j]]))
    <2>1. f[j] = step[j][f[parent[j]]]
      BY <1>4 DEF Walks
    <2>2. parent[j] \in 0 .. MaxNodes
      BY Walkable
    <2>3. f[parent[j]] \in BOOLEAN
      BY <1>5, <2>2
    <2> QED
      BY <1>2, <2>1, <2>3
  <1>7. \A j \in 0 .. MaxNodes : f[j] = (j = n \/ (j \notin {Null, Root} /\ f[parent[j]]))
    <2>1. \A j \in 0 .. MaxNodes : j = Null \/ j \in Ids
      BY Walkable
    <2>2. n # Null
      BY Walkable
    <2> QED
      BY <1>5, <1>6, <2>1, <2>2
  <1>8. Is(f)
    BY <1>5, <1>7
  <1>9. Is(up)
    <2> HIDE DEF Is
    <2> QED
      BY <1>8
  <1>10. Subtree(n) = {k \in nodes : up[k]}
    BY DEF Subtree
  <1> HIDE DEF up
  <1>11. DOMAIN up = 0 .. MaxNodes
         /\ \A k \in 0 .. MaxNodes : up[k] = (k = n \/ (k \notin {Null, Root} /\ up[parent[k]]))
    BY <1>9
  <1>12. \A k \in 0 .. MaxNodes : up[k] \in BOOLEAN
    <2> SUFFICES ASSUME NEW k \in 0 .. MaxNodes PROVE up[k] \in BOOLEAN
      OBVIOUS
    <2>1. up[k] = (k = n \/ (k \notin {Null, Root} /\ up[parent[k]]))
      BY <1>11
    <2> QED
      BY <2>1
  <1>13. up = [k \in 0 .. MaxNodes |-> up[k]]
    BY <1>9
  <1>14. up \in [0 .. MaxNodes -> BOOLEAN]
    BY <1>12, <1>13
  <1>15. \A k \in nodes : up[k] <=> (k = n \/ (k # Root /\ up[parent[k]]))
    <2> TAKE k \in nodes
    <2>1. k \in 0 .. MaxNodes /\ k # Null
      BY Walkable
    <2>2. up[k] = (k = n \/ (k \notin {Null, Root} /\ up[parent[k]]))
      BY <1>11, <2>1
    <2> QED
      BY <2>1, <2>2
  <1> QED
    BY <1>10, <1>14, <1>15 DEF Climbs

(* A subtree holds its node, with every node those below it, and nothing   *)
(* above.                                                                  *)
LEMMA Subtrees ==
  ASSUME LinksInv, NEW n \in nodes
  PROVE  /\ n \in Subtree(n) /\ Subtree(n) \subseteq nodes
         /\ \A k \in nodes \ {n, Root} : k \in Subtree(n) <=> parent[k] \in Subtree(n)
         /\ n # Root => Root \notin Subtree(n) /\ parent[n] \notin Subtree(n)
  <1>p. PICK up : Climbs(up, n)
    BY SubtreeDef
  <1>1. /\ Subtree(n) = {k \in nodes : up[k]}
        /\ \A k \in nodes : up[k] <=> (k = n \/ (k # Root /\ up[parent[k]]))
    BY <1>p DEF Climbs
  <1>l. /\ nodes \subseteq Ids /\ Root \in nodes
        /\ \A j \in nodes \ {Root} : parent[j] \in nodes
    BY Walkable DEF LinksInv, Links, Blank
  <1>2. n \in Subtree(n) /\ Subtree(n) \subseteq nodes
    BY <1>1
  <1>3. \A k \in nodes \ {n, Root} : k \in Subtree(n) <=> parent[k] \in Subtree(n)
    BY <1>1, <1>l
  <1>4. ASSUME n # Root PROVE Root \notin Subtree(n)
    BY <1>1, <1>4
  <1>5. ASSUME n # Root, parent[n] \in Subtree(n) PROVE FALSE
    <2> DEFINE S == Subtree(n)
    <2>1. S # {} /\ S \in SUBSET Ids
      BY <1>2, <1>l
    <2>2. PICK k \in S : parent[k] \notin S
      <3> HIDE DEF S
      <3> QED
        BY <2>1, Walkable DEF Ends
    <2> QED
      BY <1>2, <1>3, <1>4, <1>5, <2>2
  <1> QED
    BY <1>2, <1>3, <1>4, <1>5

-----------------------------------------------------------------------------
(* The links                                                               *)

(* The memory for a new node is not that of another.                       *)
LEMMA FreshNode ==
  ASSUME nodes \subseteq Ids, nodes # Ids
  PROVE  Fresh \in Ids \ nodes
  <1>1. Ids \ nodes # {} /\ Ids \ nodes \subseteq Nat
    <2>1. Ids \subseteq Nat
      BY DEF Ids
    <2> QED
      BY <2>1
  <1>2. \E k \in Ids \ nodes : \A m \in Ids \ nodes : k <= m
    BY <1>1, MinimalNat
  <1> QED
    BY <1>2 DEF Fresh, Min

(* What vfsAlloc does to the links, node by node.                          *)
Allocated(n, k, last) ==
  /\ k \in Ids \ nodes /\ nodes' = nodes \cup {k}
  /\ child[n] # Null => last \in nodes /\ sibling[last] = Null /\ parent[last] = n
  /\ parent' \in [Ids -> nodes' \cup {Null}] /\ child' \in [Ids -> nodes' \cup {Null}]
  /\ sibling' \in [Ids -> nodes' \cup {Null}]
  /\ \A j \in Ids : parent'[j] = IF j = k THEN n ELSE parent[j]
  /\ \A j \in Ids : child'[j] = IF child[n] = Null /\ j = n THEN k ELSE child[j]
  /\ \A j \in Ids : sibling'[j] = IF child[n] # Null /\ j = last THEN k ELSE sibling[j]

(* vfsAlloc below a node does this, to the new node and the last child.    *)
LEMMA AllocDef ==
  ASSUME LinksInv, NEW n \in nodes, NEW f, Alloc(n, f)
  PROVE  /\ Allocated(n, Fresh, LastSibling(child[n]))
         /\ DOMAIN name' = Ids
         /\ \A j \in Ids : name'[j] = IF j = Fresh THEN f ELSE name[j]
  <1> DEFINE k == Fresh
             last == LastSibling(child[n])
  <1>1. k \in Ids \ nodes /\ nodes' = nodes \cup {k}
    BY FreshNode, Walkable DEF Alloc
  <1>l. /\ parent \in [Ids -> nodes \cup {Null}] /\ child \in [Ids -> nodes \cup {Null}]
        /\ sibling \in [Ids -> nodes \cup {Null}] /\ n \in Ids /\ DOMAIN name = Ids
        /\ \A m \in nodes : child[m] # Null => parent[child[m]] = m
    BY Walkable DEF LinksInv, Links, Family
  <1>2. child[n] # Null => last \in nodes /\ last \in Ids /\ sibling[last] = Null
                           /\ parent[last] = n
    <2> SUFFICES ASSUME child[n] # Null
                 PROVE  last \in nodes /\ last \in Ids /\ sibling[last] = Null
                        /\ parent[last] = n
      OBVIOUS
    <2>1. child[n] \in nodes /\ parent[child[n]] = n
      BY <1>l
    <2> QED
      BY <2>1, FindsLast, Walkable
  <1>3. parent' = [parent EXCEPT ![k] = n] /\ name' = [name EXCEPT ![k] = f]
    BY DEF Alloc
  <1>4. \/ child[n] = Null /\ child' = [child EXCEPT ![n] = k] /\ sibling' = sibling
        \/ child[n] # Null /\ child' = child /\ sibling' = [sibling EXCEPT ![last] = k]
    BY DEF Alloc, LinkLast
  <1> HIDE DEF k, last
  <1>5. /\ parent' \in [Ids -> nodes' \cup {Null}]
        /\ \A j \in Ids : parent'[j] = IF j = k THEN n ELSE parent[j]
    BY <1>1, <1>3, <1>l
  <1>6. /\ DOMAIN name' = Ids
        /\ \A j \in Ids : name'[j] = IF j = k THEN f ELSE name[j]
    BY <1>3, <1>l
  <1>7. CASE child[n] = Null
    <2>1. /\ child' \in [Ids -> nodes' \cup {Null}]
          /\ \A j \in Ids : child'[j] = IF j = n THEN k ELSE child[j]
      BY <1>1, <1>4, <1>7, <1>l
    <2>2. sibling' \in [Ids -> nodes' \cup {Null}] /\ sibling' = sibling
      BY <1>1, <1>4, <1>7, <1>l
    <2> QED
      BY <1>1, <1>2, <1>5, <1>6, <1>7, <2>1, <2>2 DEF Allocated, k, last
  <1>8. CASE child[n] # Null
    <2>1. /\ sibling' \in [Ids -> nodes' \cup {Null}]
          /\ \A j \in Ids : sibling'[j] = IF j = last THEN k ELSE sibling[j]
      BY <1>1, <1>4, <1>8, <1>l
    <2>2. child' \in [Ids -> nodes' \cup {Null}] /\ child' = child
      BY <1>1, <1>4, <1>8, <1>l
    <2> QED
      BY <1>1, <1>2, <1>5, <1>6, <1>8, <2>1, <2>2 DEF Allocated, k, last
  <1> QED
    BY <1>7, <1>8

(* The facts of the invariant, in a form that the steps below can cite.    *)
LEMMA LinkFacts ==
  ASSUME LinksInv
  PROVE  /\ nodes \subseteq Ids /\ Root \in nodes /\ Null \notin Ids
         /\ \A j \in Ids : /\ parent[j] \in nodes \cup {Null}
                           /\ child[j] \in nodes \cup {Null}
                           /\ sibling[j] \in nodes \cup {Null}
         /\ parent[Root] = Null /\ sibling[Root] = Null
         /\ \A j \in nodes \ {Root} : parent[j] \in nodes /\ parent[j] # Null
         /\ \A j \in Ids \ nodes : parent[j] = Null /\ child[j] = Null /\ sibling[j] = Null
         /\ \A j \in nodes : child[j] # Null => parent[child[j]] = j
         /\ \A j \in nodes : sibling[j] # Null => parent[sibling[j]] = parent[j]
  BY Walkable DEF LinksInv, Links, Blank, Family

(* vfsAlloc keeps the links a tree.                                        *)
LEMMA AllocLinks ==
  ASSUME LinksInv, NEW n \in nodes, NEW f, Alloc(n, f)
  PROVE  LinksInv'
  <1> DEFINE k == Fresh
             last == LastSibling(child[n])
  <1>1. Allocated(n, k, last) /\ DOMAIN name' = Ids
    BY AllocDef
  <1> HIDE DEF k, last
  <1>2. /\ k \in Ids /\ k \notin nodes /\ nodes' = nodes \cup {k}
        /\ child[n] # Null => last \in nodes /\ sibling[last] = Null /\ parent[last] = n
        /\ \A j \in Ids : parent'[j] = IF j = k THEN n ELSE parent[j]
        /\ \A j \in Ids : child'[j] = IF child[n] = Null /\ j = n THEN k ELSE child[j]
        /\ \A j \in Ids : sibling'[j] = IF child[n] # Null /\ j = last THEN k ELSE sibling[j]
    BY <1>1 DEF Allocated
  <1>3. Links'
    <2>1. nodes' \subseteq Ids /\ Root \in nodes'
      BY <1>2, LinkFacts
    <2> QED
      BY <1>1, <2>1 DEF Links, Allocated
  <1>4. Blank'
    <2>1. Root # k /\ (child[n] # Null => last # Root)
      BY <1>2, LinkFacts
    <2>2. parent'[Root] = Null /\ sibling'[Root] = Null
      BY <1>2, <2>1, LinkFacts
    <2>3. ASSUME NEW j \in nodes' \ {Root} PROVE parent'[j] # Null
      BY <1>2, <2>3, LinkFacts
    <2>4. ASSUME NEW j \in Ids \ nodes'
          PROVE  parent'[j] = Null /\ child'[j] = Null /\ sibling'[j] = Null
      BY <1>2, <2>4, LinkFacts
    <2> QED
      BY <2>2, <2>3, <2>4 DEF Blank
  <1>k. child[k] = Null /\ sibling[k] = Null /\ k # n /\ k # Null /\ n # Null
    BY <1>2, LinkFacts
  <1>5. Family'
    <2>1. ASSUME NEW j \in nodes', child'[j] # Null PROVE parent'[child'[j]] = j
      <3>1. CASE child[n] = Null /\ j = n
        BY <1>2, <2>1, <3>1, LinkFacts
      <3>2. CASE ~(child[n] = Null /\ j = n)
        BY <1>2, <1>k, <2>1, <3>2, LinkFacts
      <3> QED
        BY <3>1, <3>2
    <2>2. ASSUME NEW j \in nodes', sibling'[j] # Null PROVE parent'[sibling'[j]] = parent'[j]
      <3>1. CASE child[n] # Null /\ j = last
        BY <1>2, <2>2, <3>1, LinkFacts
      <3>2. CASE ~(child[n] # Null /\ j = last)
        BY <1>2, <1>k, <2>2, <3>2, LinkFacts
      <3> QED
        BY <3>1, <3>2
    <2> QED
      BY <2>1, <2>2 DEF Family
  <1>l. /\ \A j \in nodes \ {Root} : child[parent[j]] = j \/ \E m \in nodes : sibling[m] = j
        /\ \A m, j \in nodes : child[j] # Null => sibling[m] # child[j]
        /\ \A m, j \in nodes : sibling[m] = sibling[j] /\ sibling[m] # Null => m = j
    BY DEF LinksInv, Lists
  <1>6. Lists'
    <2>1. ASSUME NEW j \in nodes' \ {Root}
          PROVE  child'[parent'[j]] = j \/ \E m \in nodes' : sibling'[m] = j
      <3>1. CASE j = k
        BY <1>2, <3>1, LinkFacts
      <3>2. CASE j # k
        <4>1. j \in nodes \ {Root} /\ parent'[j] = parent[j] /\ parent[j] \in nodes
          BY <1>2, <3>2, LinkFacts
        <4>2. CASE child[parent[j]] = j
          BY <1>2, <4>1, <4>2, LinkFacts
        <4>3. CASE \E m \in nodes : sibling[m] = j
          BY <1>2, <4>1, <4>3, LinkFacts
        <4> QED
          BY <1>l, <4>1, <4>2, <4>3
      <3> QED
        BY <3>1, <3>2
    <2>2. ASSUME NEW m \in nodes', NEW j \in nodes', child'[j] # Null
          PROVE  sibling'[m] # child'[j]
      <3>1. /\ m = k \/ m \in nodes
            /\ j = k \/ j \in nodes
            /\ m \in Ids /\ j \in Ids
        BY <1>2, LinkFacts
      <3>2. sibling[m] # k /\ child[j] # k
        BY <1>2, <1>k, <3>1, LinkFacts
      <3> QED
        BY <1>2, <1>k, <1>l, <2>2, <3>1, <3>2
    <2>3. ASSUME NEW m \in nodes', NEW j \in nodes', sibling'[m] = sibling'[j], sibling'[m] # Null
          PROVE  m = j
      <3>1. /\ m = k \/ m \in nodes
            /\ j = k \/ j \in nodes
            /\ m \in Ids /\ j \in Ids
        BY <1>2, LinkFacts
      <3>2. sibling[m] # k /\ sibling[j] # k
        BY <1>2, <1>k, <3>1, LinkFacts
      <3> QED
        BY <1>2, <1>k, <1>l, <2>3, <3>1, <3>2
    <2> QED
      BY <2>1, <2>2, <2>3 DEF Lists
  <1>a. Ends(parent, Ids) /\ Ends(sibling, Ids) /\ Begins(sibling, Ids)
    BY DEF LinksInv, Acyclic
  <1>7. Ends(parent', Ids)
    <2> SUFFICES ASSUME NEW S \in SUBSET Ids, S # {} PROVE \E j \in S : parent'[j] \notin S
      BY DEF Ends
    <2>1. PICK j \in S : parent[j] \notin S
      BY <1>a DEF Ends
    <2>2. CASE j # k
      BY <1>2, <2>1, <2>2
    <2>3. CASE j = k /\ S = {k}
      BY <1>2, <1>k, <2>3
    <2>4. CASE S \ {k} # {}
      <3>1. PICK m \in S \ {k} : parent[m] \notin S \ {k}
        <4>1. S \ {k} \in SUBSET Ids
          OBVIOUS
        <4> QED
          BY <1>a, <2>4, <4>1 DEF Ends
      <3>2. parent[m] # k
        BY <1>2, <1>k, LinkFacts
      <3> QED
        BY <1>2, <3>1, <3>2
    <2> QED
      BY <2>2, <2>3, <2>4
  <1>8. Ends(sibling', Ids)
    <2> SUFFICES ASSUME NEW S \in SUBSET Ids, S # {} PROVE \E j \in S : sibling'[j] \notin S
      BY DEF Ends
    <2>1. CASE k \in S
      <3>1. sibling'[k] = Null
        BY <1>2, <1>k
      <3> QED
        BY <2>1, <3>1, LinkFacts
    <2>2. CASE k \notin S
      <3>1. PICK j \in S : sibling[j] \notin S
        BY <1>a DEF Ends
      <3> QED
        BY <1>2, <2>2, <3>1
    <2> QED
      BY <2>1, <2>2
  <1>9. Begins(sibling', Ids)
    <2> SUFFICES ASSUME NEW S \in SUBSET Ids, S # {}
                 PROVE  \E j \in S : \A m \in S : sibling'[m] # j
      BY DEF Begins
    <2>1. CASE S = {k}
      BY <1>2, <1>k, <2>1
    <2>2. CASE S # {k}
      <3>1. PICK j \in S \ {k} : \A m \in S \ {k} : sibling[m] # j
        <4>1. S \ {k} \in SUBSET Ids /\ S \ {k} # {}
          BY <2>2
        <4> QED
          BY <1>a, <4>1 DEF Begins
      <3>2. j # Null /\ j # k
        BY LinkFacts
      <3>3. \A m \in S : sibling'[m] # j
        BY <1>2, <1>k, <3>1, <3>2
      <3> QED
        BY <3>3
    <2> QED
      BY <2>1, <2>2
  <1> QED
    BY <1>3, <1>4, <1>5, <1>6, <1>7, <1>8, <1>9 DEF LinksInv, Acyclic

(* What vfsFree does to the links, node by node.                           *)
Freed(n, gone) ==
  /\ n \in gone /\ gone \subseteq nodes /\ Root \notin gone /\ parent[n] \notin gone
  /\ \A k \in nodes \ {n, Root} : k \in gone <=> parent[k] \in gone
  /\ nodes' = nodes \ gone
  /\ parent' = [k \in Ids |-> IF k \in gone THEN Null ELSE parent[k]]
  /\ child' = [k \in Ids |-> IF k \in gone THEN Null
                             ELSE IF child[k] = n THEN sibling[n] ELSE child[k]]
  /\ sibling' = [k \in Ids |-> IF k \in gone THEN Null
                               ELSE IF sibling[k] = n THEN sibling[n] ELSE sibling[k]]

(* vfsFree of a node other than the root does this.                        *)
LEMMA FreeDef ==
  ASSUME LinksInv, NEW n \in nodes \ {Root}, Free(n)
  PROVE  /\ Freed(n, Subtree(n)) /\ DOMAIN name' = Ids
         /\ \A k \in nodes' : name'[k] = name[k]
  <1>1. /\ nodes' = nodes \ Subtree(n)
        /\ parent' = [k \in Ids |-> IF k \in Subtree(n) THEN Null ELSE parent[k]]
        /\ child' = [k \in Ids |-> IF k \in Subtree(n) THEN Null
                                   ELSE IF child[k] = n THEN sibling[n] ELSE child[k]]
        /\ sibling' = [k \in Ids |-> IF k \in Subtree(n) THEN Null
                                     ELSE IF sibling[k] = n THEN sibling[n] ELSE sibling[k]]
        /\ name' = [k \in Ids |-> IF k \in Subtree(n) THEN "" ELSE name[k]]
    BY DEF Free
  <1>2. Freed(n, Subtree(n))
    BY <1>1, Subtrees DEF Freed
  <1> QED
    BY <1>1, <1>2, LinkFacts

(* vfsFree keeps the links a tree, for a first, middle and last child.     *)
LEMMA FreeLinks ==
  ASSUME LinksInv, NEW n \in nodes \ {Root}, Free(n)
  PROVE  LinksInv'
  <1> DEFINE gone == Subtree(n)
  <1>1. Freed(n, gone) /\ DOMAIN name' = Ids
    BY FreeDef
  <1> HIDE DEF gone
  <1>2. /\ n \in gone /\ gone \subseteq nodes /\ Root \notin gone /\ parent[n] \notin gone
        /\ \A k \in nodes \ {n, Root} : k \in gone <=> parent[k] \in gone
        /\ nodes' = nodes \ gone
        /\ \A k \in Ids : parent'[k] = IF k \in gone THEN Null ELSE parent[k]
        /\ \A k \in Ids : child'[k] = IF k \in gone THEN Null
                                      ELSE IF child[k] = n THEN sibling[n] ELSE child[k]
        /\ \A k \in Ids : sibling'[k] = IF k \in gone THEN Null
                                        ELSE IF sibling[k] = n THEN sibling[n] ELSE sibling[k]
    BY <1>1 DEF Freed
  <1>l. /\ \A j \in nodes \ {Root} : child[parent[j]] = j \/ \E m \in nodes : sibling[m] = j
        /\ \A m, j \in nodes : child[j] # Null => sibling[m] # child[j]
        /\ \A m, j \in nodes : sibling[m] = sibling[j] /\ sibling[m] # Null => m = j
    BY DEF LinksInv, Lists
  <1>a. Ends(parent, Ids) /\ Ends(sibling, Ids) /\ Begins(sibling, Ids)
    BY DEF LinksInv, Acyclic
  <1>s. sibling[n] # n
    <2>1. {n} \in SUBSET Ids /\ {n} # {}
      BY LinkFacts
    <2>2. \E k \in {n} : sibling[k] \notin {n}
      BY <1>a, <2>1 DEF Ends
    <2> QED
      BY <2>2
  (* What is behind n stays, and no other link leads from what stays to what goes. *)
  <1>g. /\ sibling[n] \notin gone
        /\ \A k \in nodes \ gone : sibling[k] \notin gone \ {n} /\ child[k] \notin gone \ {n}
    <2>1. ASSUME sibling[n] \in gone PROVE FALSE
      <3>1. sibling[n] \in nodes /\ sibling[n] # Null /\ parent[sibling[n]] = parent[n]
        BY <1>2, <2>1, LinkFacts
      <3>2. sibling[n] \in nodes \ {n, Root}
        BY <1>2, <1>s, <2>1, <3>1
      <3> QED
        BY <1>2, <2>1, <3>1, <3>2
    <2>2. ASSUME NEW k \in nodes \ gone, sibling[k] \in gone \ {n} PROVE FALSE
      <3>1. sibling[k] \in nodes \ {n, Root} /\ parent[sibling[k]] = parent[k] /\ k # n
        BY <1>2, <2>2, LinkFacts
      <3>2. parent[k] \in gone
        BY <1>2, <2>2, <3>1
      <3>3. k # Root
        BY <1>2, <3>2, LinkFacts
      <3> QED
        BY <1>2, <2>2, <3>1, <3>2, <3>3
    <2>3. ASSUME NEW k \in nodes \ gone, child[k] \in gone \ {n} PROVE FALSE
      <3>1. child[k] \in nodes \ {n, Root} /\ parent[child[k]] = k
        BY <1>2, <2>3, LinkFacts
      <3> QED
        BY <1>2, <2>3, <3>1
    <2> QED
      BY <2>1, <2>2, <2>3
  <1>f. \A k \in nodes' : k \in nodes /\ k \notin gone /\ k \in Ids /\ k # n
    BY <1>2, LinkFacts
  <1>3. Links'
    <2>1. nodes' \subseteq Ids /\ Root \in nodes'
      BY <1>2, LinkFacts
    <2>2. ASSUME NEW k \in Ids
          PROVE  /\ parent'[k] \in nodes' \cup {Null} /\ child'[k] \in nodes' \cup {Null}
                 /\ sibling'[k] \in nodes' \cup {Null}
      <3>1. CASE k \in gone
        BY <1>2, <3>1
      <3>2. CASE k \notin nodes
        <4>1. child[k] # n /\ sibling[k] # n
          BY <3>2, LinkFacts
        <4> QED
          BY <1>2, <3>2, <4>1, LinkFacts
      <3>3. CASE k \in nodes \ gone
        <4>1. parent'[k] \in nodes' \cup {Null}
          <5>1. k = Root \/ k \in nodes \ {n, Root}
            BY <1>2, <3>3
          <5> QED
            BY <1>2, <3>3, <5>1, LinkFacts
        <4>2. child'[k] \in nodes' \cup {Null}
          BY <1>2, <1>g, <3>3, LinkFacts
        <4>3. sibling'[k] \in nodes' \cup {Null}
          BY <1>2, <1>g, <3>3, LinkFacts
        <4> QED
          BY <4>1, <4>2, <4>3
      <3> QED
        BY <3>1, <3>2, <3>3
    <2>3. /\ parent' = [k \in Ids |-> parent'[k]] /\ child' = [k \in Ids |-> child'[k]]
          /\ sibling' = [k \in Ids |-> sibling'[k]]
      BY <1>1 DEF Freed
    <2>4. /\ parent' \in [Ids -> nodes' \cup {Null}] /\ child' \in [Ids -> nodes' \cup {Null}]
          /\ sibling' \in [Ids -> nodes' \cup {Null}]
      BY <2>2, <2>3
    <2> QED
      BY <1>1, <2>1, <2>4 DEF Links
  <1>4. Blank'
    <2>1. parent'[Root] = Null /\ sibling'[Root] = Null
      BY <1>2, LinkFacts
    <2>2. ASSUME NEW j \in nodes' \ {Root} PROVE parent'[j] # Null
      BY <1>2, <1>f, LinkFacts
    <2>3. ASSUME NEW j \in Ids \ nodes'
          PROVE  parent'[j] = Null /\ child'[j] = Null /\ sibling'[j] = Null
      <3>1. CASE j \in gone
        BY <1>2, <3>1
      <3>2. CASE j \notin gone
        <4>1. j \in Ids \ nodes
          BY <1>2, <3>2
        <4> QED
          BY <1>2, <3>2, <4>1, LinkFacts
      <3> QED
        BY <3>1, <3>2
    <2> QED
      BY <2>1, <2>2, <2>3 DEF Blank
  <1>p. \A k \in nodes' : /\ parent'[k] = parent[k]
                          /\ child'[k] = IF child[k] = n THEN sibling[n] ELSE child[k]
                          /\ sibling'[k] = IF sibling[k] = n THEN sibling[n] ELSE sibling[k]
    BY <1>2, <1>f
  <1>n. /\ n \in nodes /\ n # Null
        /\ sibling[n] # Null => sibling[n] \in nodes' /\ parent[sibling[n]] = parent[n]
    BY <1>2, <1>g, LinkFacts
  <1>5. Family'
    <2>1. ASSUME NEW j \in nodes', child'[j] # Null PROVE parent'[child'[j]] = j
      <3>1. j \in nodes /\ child'[j] \in nodes'
        BY <1>3, <1>f, <2>1 DEF Links
      <3>2. CASE child[j] = n
        BY <1>n, <1>p, <2>1, <3>1, <3>2, LinkFacts
      <3>3. CASE child[j] # n
        BY <1>p, <2>1, <3>1, <3>3, LinkFacts
      <3> QED
        BY <3>2, <3>3
    <2>2. ASSUME NEW j \in nodes', sibling'[j] # Null PROVE parent'[sibling'[j]] = parent'[j]
      <3>1. j \in nodes /\ sibling'[j] \in nodes'
        BY <1>3, <1>f, <2>2 DEF Links
      <3>2. CASE sibling[j] = n
        BY <1>n, <1>p, <2>2, <3>1, <3>2, LinkFacts
      <3>3. CASE sibling[j] # n
        BY <1>p, <2>2, <3>1, <3>3, LinkFacts
      <3> QED
        BY <3>2, <3>3
    <2> QED
      BY <2>1, <2>2 DEF Family
  <1>6. Lists'
    <2>1. ASSUME NEW j \in nodes' \ {Root}
          PROVE  child'[parent'[j]] = j \/ \E m \in nodes' : sibling'[m] = j
      <3>1. j \in nodes \ {Root} /\ j # n /\ parent'[j] = parent[j] /\ parent[j] \in nodes'
        BY <1>2, <1>f, <1>p, LinkFacts
      <3>2. CASE child[parent[j]] = j
        BY <1>p, <3>1, <3>2
      <3>3. ASSUME NEW m \in nodes, sibling[m] = j, m # n
            PROVE  \E x \in nodes' : sibling'[x] = j
        <4>1. m \notin gone
          <5>1. ASSUME m \in gone PROVE FALSE
            <6>1. parent[m] = parent[j] /\ m \in nodes \ {n, Root}
              BY <1>2, <3>1, <3>3, <5>1, LinkFacts
            <6> QED
              BY <1>2, <3>1, <5>1, <6>1
          <5> QED
            BY <5>1
        <4> QED
          BY <1>2, <1>p, <3>1, <3>3, <4>1
      <3>4. CASE sibling[n] = j
        <4>1. parent[j] = parent[n]
          BY <3>1, <3>4, LinkFacts
        <4>2. CASE child[parent[n]] = n
          BY <1>p, <3>1, <3>4, <4>1, <4>2
        <4>3. CASE \E m \in nodes : sibling[m] = n
          <5>1. PICK m \in nodes : sibling[m] = n
            BY <4>3
          <5>2. m # n
            BY <1>s, <5>1
          <5>3. m \notin gone
            <6>1. ASSUME m \in gone PROVE FALSE
              <7>1. parent[m] = parent[n] /\ m \in nodes \ {n, Root}
                BY <1>2, <5>1, <5>2, <6>1, LinkFacts
              <7> QED
                BY <1>2, <6>1, <7>1
            <6> QED
              BY <6>1
          <5> QED
            BY <1>2, <1>p, <3>4, <5>1, <5>3
        <4> QED
          BY <1>l, <4>2, <4>3
      <3> QED
        BY <1>l, <3>1, <3>2, <3>3, <3>4
    <2>2. ASSUME NEW m \in nodes', NEW j \in nodes', child'[j] # Null
          PROVE  sibling'[m] # child'[j]
      <3>1. m \in nodes /\ m # n /\ j \in nodes /\ j # n
        BY <1>f
      <3>2. sibling[m] # child[j] \/ child[j] = Null
        BY <1>l, <3>1
      <3>3. CASE child[j] = n
        <4>1. sibling[m] # n
          BY <1>n, <3>2, <3>3
        <4>2. child'[j] = sibling[n] /\ sibling'[m] = sibling[m]
          BY <1>p, <3>3, <4>1
        <4> QED
          BY <1>l, <1>n, <2>2, <3>1, <4>2
      <3>4. CASE child[j] # n
        <4>1. child'[j] = child[j]
          BY <1>p, <3>4
        <4> QED
          BY <1>l, <1>n, <1>p, <2>2, <3>1, <3>2, <4>1
      <3> QED
        BY <3>3, <3>4
    <2>3. ASSUME NEW m \in nodes', NEW j \in nodes', sibling'[m] = sibling'[j], sibling'[m] # Null
          PROVE  m = j
      <3>1. m \in nodes /\ m # n /\ j \in nodes /\ j # n
        BY <1>f
      <3> QED
        BY <1>l, <1>n, <1>p, <2>3, <3>1
    <2> QED
      BY <2>1, <2>2, <2>3 DEF Lists
  <1>7. Ends(parent', Ids)
    <2> SUFFICES ASSUME NEW S \in SUBSET Ids, S # {} PROVE \E j \in S : parent'[j] \notin S
      BY DEF Ends
    <2>1. PICK j \in S : parent[j] \notin S
      BY <1>a DEF Ends
    <2>2. parent'[j] = parent[j] \/ parent'[j] = Null
      BY <1>2
    <2> QED
      BY <2>1, <2>2, LinkFacts
  <1>8. Ends(sibling', Ids)
    <2> SUFFICES ASSUME NEW S \in SUBSET Ids, S # {} PROVE \E j \in S : sibling'[j] \notin S
      BY DEF Ends
    <2>1. \A j \in S : \/ sibling'[j] = Null
                       \/ sibling[j] = n /\ sibling'[j] = sibling[n]
                       \/ sibling[j] # n /\ sibling'[j] = sibling[j]
      BY <1>2
    <2>2. PICK j \in S : sibling[j] \notin S
      BY <1>a DEF Ends
    <2>3. PICK m \in S \cup {n} : sibling[m] \notin S \cup {n}
      <3>1. S \cup {n} \in SUBSET Ids /\ S \cup {n} # {}
        BY LinkFacts
      <3> QED
        BY <1>a, <3>1 DEF Ends
    <2>4. CASE m \in S
      BY <2>1, <2>3, <2>4, LinkFacts
    <2>5. CASE m = n
      BY <2>1, <2>2, <2>3, <2>5, LinkFacts
    <2> QED
      BY <2>4, <2>5
  <1>9. Begins(sibling', Ids)
    <2> SUFFICES ASSUME NEW S \in SUBSET Ids, S # {}
                 PROVE  \E j \in S : \A m \in S : sibling'[m] # j
      BY DEF Begins
    <2>1. \A j \in S : \/ sibling'[j] = Null
                       \/ sibling[j] = n /\ sibling'[j] = sibling[n]
                       \/ sibling[j] # n /\ sibling'[j] = sibling[j]
      BY <1>2
    <2>2. PICK k \in S \cup {n} : \A m \in S \cup {n} : sibling[m] # k
      <3>1. S \cup {n} \in SUBSET Ids /\ S \cup {n} # {}
        BY LinkFacts
      <3> QED
        BY <1>a, <3>1 DEF Begins
    <2>3. CASE k # n
      <3>1. k \in S /\ k # Null
        BY <2>3, LinkFacts
      <3>2. sibling[n] # k
        BY <2>2
      <3> QED
        BY <2>1, <2>2, <3>1, <3>2
    <2>4. CASE k = n
      <3>1. PICK j \in S : \A m \in S : sibling[m] # j
        BY <1>a DEF Begins
      <3>2. j # Null
        BY LinkFacts
      <3> QED
        BY <2>1, <2>2, <2>4, <3>1, <3>2
    <2> QED
      BY <2>3, <2>4
  <1> QED
    BY <1>3, <1>4, <1>5, <1>6, <1>7, <1>8, <1>9 DEF LinksInv, Acyclic

-----------------------------------------------------------------------------
(* Paths                                                                   *)

(* A path leads from the root to a node or nowhere, one component after    *)
(* the other.                                                              *)
Leads(at, comps) ==
  /\ GetPath(comps) = at[Len(comps)] /\ Len(comps) \in Nat
  /\ at \in [0 .. Len(comps) -> nodes \cup {Null}]
  /\ at[0] = Root
  /\ \A k \in 1 .. Len(comps) : at[k] = StepInto(at[k - 1], comps[k])

(* A component of a path leads to a node or nowhere.                       *)
LEMMA StepType ==
  ASSUME LinksInv, NEW n \in nodes \cup {Null}, NEW c
  PROVE  StepInto(n, c) \in nodes \cup {Null}
  <1>1. CASE n = Null
    BY <1>1 DEF StepInto
  <1>2. CASE n # Null /\ c = ".."
    BY <1>2, LinkFacts DEF StepInto
  <1>3. CASE n # Null /\ c = "."
    BY <1>3 DEF StepInto
  <1>4. CASE n # Null /\ c # ".." /\ c # "."
    <2>1. StepInto(n, c) = FindChild(n, c)
      BY <1>4 DEF StepInto
    <2> QED
      BY <1>4, <2>1, FindsChild
  <1> QED
    BY <1>1, <1>2, <1>3, <1>4

(* vfsGetPath goes through the components one by one.                      *)
LEMMA PathDef ==
  ASSUME LinksInv
  PROVE  \A X : \A comps \in Seq(X) : \E at : Leads(at, comps)
  <1> TAKE X
  <1> TAKE comps \in Seq(X)
  <1> DEFINE V == nodes \cup {Null}
             n == Len(comps)
             step == [k \in 1 .. n |-> [v \in V |-> StepInto(v, comps[k])]]
             Is(f) == f = [k \in 0 .. n |-> IF k = 0 THEN Root ELSE StepInto(f[k - 1], comps[k])]
             at == CHOOSE f : Is(f)
  <1>0. n \in Nat
    OBVIOUS
  <1>1. step \in [1 .. n -> [V -> V]] /\ Root \in V
    <2>1. ASSUME NEW k \in 1 .. n, NEW v \in V PROVE StepInto(v, comps[k]) \in V
      BY StepType
    <2>2. Root \in V
      BY LinkFacts
    <2> HIDE DEF V, n
    <2> QED
      BY <2>1, <2>2
  <1>2. \A k \in 1 .. n : \A v \in V : step[k][v] = StepInto(v, comps[k])
    OBVIOUS
  <1>3. GetPath(comps) = at[n]
    BY DEF GetPath
  <1> HIDE DEF V, n, step
  <1>4. Recursion(V, Root, n, step)
    BY <1>0, <1>1 DEF Recursion
  <1>5. PICK f : Solves(f, V, Root, n, step)
    BY <1>4, RecursionExists
  <1>6. /\ f \in [0 .. n -> V] /\ f[0] = Root
        /\ \A k \in 1 .. n : f[k] = step[k][f[k - 1]]
    BY <1>5 DEF Solves
  <1>7. \A k \in 1 .. n : f[k] = StepInto(f[k - 1], comps[k])
    <2> TAKE k \in 1 .. n
    <2>1. k - 1 \in 0 .. n
      BY <1>0
    <2>2. f[k - 1] \in V
      BY <1>6, <2>1
    <2> QED
      BY <1>2, <1>6, <2>2
  <1>8. \A k \in 0 .. n : f[k] = IF k = 0 THEN Root ELSE StepInto(f[k - 1], comps[k])
    <2>1. \A k \in 0 .. n : k = 0 \/ k \in 1 .. n
      BY <1>0
    <2> QED
      BY <1>6, <1>7, <2>1
  <1>9. Is(f)
    BY <1>6, <1>8
  <1>10. Is(at)
    <2> HIDE DEF Is
    <2> QED
      BY <1>9
  <1> HIDE DEF at
  <1>11. /\ at = [k \in 0 .. n |-> at[k]] /\ at[0] = Root
         /\ \A k \in 1 .. n : at[k] = StepInto(at[k - 1], comps[k])
    <2>1. \A k \in 0 .. n : at[k] = IF k = 0 THEN Root ELSE StepInto(at[k - 1], comps[k])
      BY <1>10
    <2>2. at = [k \in 0 .. n |-> at[k]]
      BY <1>10
    <2>3. 0 \in 0 .. n /\ \A k \in 1 .. n : k \in 0 .. n /\ k # 0
      BY <1>0
    <2> QED
      BY <2>1, <2>2, <2>3
  <1>12. at = f
    <2>1. DOMAIN at = 0 .. n /\ DOMAIN f = 0 .. n /\ f = [k \in 0 .. n |-> f[k]]
      BY <1>6, <1>11
    <2>2. \A k \in 1 .. n : at[k - 1] = f[k - 1] => at[k] = f[k]
      BY <1>7, <1>11
    <2> QED
      BY <1>0, <1>6, <1>11, <2>1, <2>2, RecursionUnique
  <1> QED
    BY <1>0, <1>3, <1>6, <1>7, <1>12 DEF Leads, n, V

(* A path leads to a node or nowhere.                                      *)
LEMMA PathType ==
  ASSUME LinksInv
  PROVE  \A X : \A comps \in Seq(X) : GetPath(comps) \in nodes \cup {Null}
  <1> TAKE X
  <1> TAKE comps \in Seq(X)
  <1>1. PICK at : Leads(at, comps)
    BY PathDef
  <1> QED
    BY <1>1 DEF Leads

(* Every component leads on from where those before it lead.               *)
Longer(t, s) == Len(t) = Len(s) + 1 /\ \A k \in 1 .. Len(s) : t[k] = s[k]

(* A path with one component more leads one step further.                  *)
LEMMA PathStep ==
  ASSUME LinksInv
  PROVE  \A X : \A s, t \in Seq(X) :
           Longer(t, s) => GetPath(t) = StepInto(GetPath(s), t[Len(t)])
  <1> TAKE X
  <1> TAKE s, t \in Seq(X)
  <1> HAVE Longer(t, s)
  <1> DEFINE n == Len(s)
  <1>0. n \in Nat /\ Len(t) = n + 1 /\ \A k \in 1 .. n : t[k] = s[k]
    BY DEF Longer
  <1>1. PICK f : Leads(f, s)
    BY PathDef
  <1>2. PICK h : Leads(h, t)
    BY PathDef
  <1> DEFINE g == [k \in 0 .. n |-> h[k]]
  <1> HIDE DEF n
  <1>3. /\ DOMAIN g = 0 .. n /\ g = [k \in 0 .. n |-> g[k]]
        /\ \A k \in 0 .. n : g[k] = h[k]
    OBVIOUS
  <1> HIDE DEF g
  <1>4. /\ DOMAIN f = 0 .. n /\ f = [k \in 0 .. n |-> f[k]] /\ f[0] = Root /\ g[0] = Root
    BY <1>0, <1>1, <1>2, <1>3 DEF Leads, n
  <1>5. ASSUME NEW k \in 1 .. n, f[k - 1] = g[k - 1] PROVE f[k] = g[k]
    <2>1. k \in 1 .. n + 1 /\ k \in 0 .. n /\ k - 1 \in 0 .. n
      BY <1>0
    <2>2. f[k] = StepInto(f[k - 1], s[k])
      BY <1>1 DEF Leads, n
    <2>3. h[k] = StepInto(h[k - 1], t[k])
      BY <1>0, <1>2, <2>1 DEF Leads
    <2>4. g[k] = h[k] /\ g[k - 1] = h[k - 1] /\ t[k] = s[k]
      BY <1>0, <1>3, <2>1
    <2> QED
      BY <1>5, <2>2, <2>3, <2>4
  <1>6. f = g
    BY <1>0, <1>3, <1>4, <1>5, RecursionUnique
  <1>7. h[n] = f[n]
    BY <1>0, <1>3, <1>6
  <1>8. GetPath(s) = f[n]
    BY <1>1 DEF Leads, n
  <1>9. GetPath(t) = h[n + 1]
    BY <1>0, <1>2 DEF Leads
  <1>10. h[n + 1] = StepInto(h[n], t[n + 1])
    <2>1. n + 1 \in 1 .. Len(t) /\ (n + 1) - 1 = n
      BY <1>0
    <2> QED
      BY <1>2, <2>1 DEF Leads
  <1> QED
    BY <1>0, <1>7, <1>8, <1>9, <1>10

(* All components but the last.                                            *)
LEMMA FrontFacts ==
  \A X : \A s \in Seq(X) : s # <<>> =>
    /\ Front(s) \in Seq(X) /\ Len(s) \in Nat \ {0}
    /\ Len(Front(s)) = Len(s) - 1
    /\ \A k \in 1 .. Len(s) - 1 : Front(s)[k] = s[k]
  <1> TAKE X
  <1> TAKE s \in Seq(X)
  <1> HAVE s # <<>>
  <1>1. Front(s) = SubSeq(s, 1, Len(s) - 1)
    BY DEF Front
  <1>2. Len(s) \in Nat /\ Len(s) # 0
    OBVIOUS
  <1>3. 1 \in 1 .. Len(s) + 1 /\ Len(s) - 1 \in 0 .. Len(s)
    BY <1>2
  <1> DEFINE n == Len(s) - 1
  <1>4. n \in 1-1 .. Len(s) /\ n \in Nat
    BY <1>2
  <1> HIDE DEF n
  <1>5. /\ SubSeq(s, 1, n) \in Seq(X)
        /\ Len(SubSeq(s, 1, n)) = IF 1 <= n THEN n - 1 + 1 ELSE 0
        /\ \A i \in 1 .. n - 1 + 1 : SubSeq(s, 1, n)[i] = s[1 + i - 1]
    BY <1>3, <1>4, SubSeqProperties
  <1>6. Len(SubSeq(s, 1, n)) = n
    BY <1>4, <1>5
  <1>7. \A i \in 1 .. n : SubSeq(s, 1, n)[i] = s[i]
    BY <1>4, <1>5
  <1> QED
    BY <1>1, <1>2, <1>5, <1>6, <1>7 DEF n

(* Where the paths of the callers lead, and their directories.             *)
LEMMA PathFacts ==
  ASSUME LinksInv, NEW p \in Paths
  PROVE  /\ GetPath(p.comps) \in nodes \cup {Null} /\ GetBase(p.comps) \in nodes \cup {Null}
         /\ p.comps = <<>> => GetPath(p.comps) = Root
         /\ p.comps # <<>> => GetPath(p.comps) = StepInto(GetBase(p.comps), Last(p.comps))
  <1> DEFINE X == Range(p.comps)
             comps == p.comps
  <1>1. comps \in Seq(X)
    BY NamesAssumption
  <1> HIDE DEF X, comps
  <1>2. GetPath(comps) \in nodes \cup {Null}
    BY <1>1, PathType
  <1>3. CASE comps = <<>>
    <2>1. GetBase(comps) = GetPath(comps)
      BY <1>3 DEF GetBase
    <2>2. GetPath(comps) = Root
      <3>1. PICK at : Leads(at, comps)
        BY <1>1, PathDef
      <3> QED
        BY <1>3, <3>1 DEF Leads
    <2> QED
      BY <1>2, <1>3, <2>1, <2>2 DEF comps
  <1>4. CASE comps # <<>>
    <2>1. /\ Front(comps) \in Seq(X) /\ Longer(comps, Front(comps))
          /\ Last(comps) = comps[Len(comps)] /\ GetBase(comps) = GetPath(Front(comps))
      <3> DEFINE f == Front(comps)
      <3>1. /\ f \in Seq(X) /\ Len(comps) \in Nat \ {0} /\ Len(f) = Len(comps) - 1
            /\ \A k \in 1 .. Len(comps) - 1 : f[k] = comps[k]
        BY <1>1, <1>4, FrontFacts
      <3>2. Last(comps) = comps[Len(comps)]
        BY DEF Last
      <3>3. GetBase(comps) = GetPath(f)
        BY <1>4 DEF GetBase
      <3> HIDE DEF f
      <3>4. Len(comps) = Len(f) + 1 /\ \A k \in 1 .. Len(f) : comps[k] = f[k]
        BY <3>1
      <3> QED
        BY <3>1, <3>2, <3>3, <3>4 DEF Longer, f
    <2>2. GetPath(comps) = StepInto(GetPath(Front(comps)), comps[Len(comps)])
      BY <1>1, <2>1, PathStep
    <2>3. GetPath(Front(comps)) \in nodes \cup {Null}
      BY <2>1, PathType
    <2> QED
      BY <1>2, <1>4, <2>1, <2>2, <2>3 DEF comps
  <1> QED
    BY <1>3, <1>4

-----------------------------------------------------------------------------
(* Names                                                                   *)

(* A node with children has a first one.                                   *)
LEMMA HasChild ==
  ASSUME LinksInv, NEW k \in nodes \ {Root}
  PROVE  child[parent[k]] # Null
  <1> DEFINE S == {j \in nodes \ {Root} : parent[j] = parent[k]}
  <1>1. SUFFICES ASSUME child[parent[k]] = Null PROVE FALSE
    OBVIOUS
  <1>2. PICK j \in S : \A m \in S : sibling[m] # j
    <2>1. S \in SUBSET Ids /\ S # {}
      BY LinkFacts
    <2> HIDE DEF S
    <2> QED
      BY <2>1 DEF LinksInv, Acyclic, Begins
  <1>3. j # Null
    BY LinkFacts
  <1>4. PICK m \in nodes : sibling[m] = j
    BY <1>1, <1>2, <1>3 DEF LinksInv, Lists
  <1>5. m # Root /\ parent[m] = parent[k]
    BY <1>2, <1>3, <1>4, LinkFacts
  <1> QED
    BY <1>2, <1>4, <1>5

(* No path leads to an odd node.                                           *)
Proper(X) == "" \notin X

(* No path leads to an odd node: the names of these are no components, and *)
(* what is below a node is not below an odd one.                           *)
LEMMA NoOdd ==
  ASSUME LinksInv, NamesInv
  PROVE  \A X : \A comps \in Seq(X) :
           Proper(X) /\ GetPath(comps) # Null => ~Odd(GetPath(comps))
  <1> TAKE X
  <1> TAKE comps \in Seq(X)
  <1> SUFFICES ASSUME Proper(X)
               PROVE  GetPath(comps) # Null => ~Odd(GetPath(comps))
    OBVIOUS
  <1>1. PICK at : Leads(at, comps)
    BY PathDef
  <1> DEFINE n == Len(comps)
             Bad(k) == at[k] # Null /\ Odd(at[k])
             T == {k \in 0 .. n : Bad(k)}
  <1>2. n \in Nat /\ \A k \in 1 .. n : comps[k] \in X
    OBVIOUS
  <1>a. T \subseteq 0 .. n /\ (\A k \in 0 .. n : k \notin T => ~Bad(k))
        /\ (\A k \in T : Bad(k))
    <2> HIDE DEF Bad
    <2> QED
      OBVIOUS
  <1> HIDE DEF n, T
  <1>3. SUFFICES ASSUME T # {} PROVE FALSE
    <2>1. n \in 0 .. n
      BY <1>2
    <2>2. GetPath(comps) = at[n]
      BY <1>1 DEF Leads, n
    <2>3. T = {} => ~Bad(n)
      <3> HIDE DEF Bad
      <3> QED
        BY <1>a, <2>1
    <2> QED
      BY <1>3, <2>2, <2>3
  <1> HIDE DEF Bad
  <1>4. PICK k \in T : \A m \in T : k <= m
    <2>1. T \subseteq Nat
      BY <1>2, <1>a
    <2> QED
      BY <1>3, <2>1, MinimalNat
  <1>5. k \in 1 .. n /\ k - 1 \in 0 .. n /\ k - 1 < k /\ k \in Int
    <2>1. ~Bad(0)
      <3>1. at[0] = Root
        BY <1>1 DEF Leads
      <3> QED
        BY <3>1 DEF Bad, Odd
    <2>2. k \in 0 .. n
      BY <1>4, <1>a
    <2>3. k # 0
      BY <1>4, <1>a, <2>1
    <2> QED
      BY <1>2, <2>2, <2>3
  <1>6. k - 1 \notin T
    <2>1. SUFFICES ASSUME k - 1 \in T PROVE FALSE
      OBVIOUS
    <2>2. k <= k - 1
      BY <1>4, <2>1
    <2> QED
      BY <1>5, <2>2
  <1> DEFINE v == at[k - 1]
             c == comps[k]
  <1>7. /\ v \in nodes \cup {Null} /\ (v # Null => ~Odd(v))
        /\ StepInto(v, c) # Null /\ Odd(StepInto(v, c)) /\ c # ""
    <2>1. at[k] = StepInto(at[k - 1], comps[k])
      BY <1>1, <1>5 DEF Leads, n
    <2>2. at[k - 1] \in nodes \cup {Null}
      BY <1>1, <1>5 DEF Leads, n
    <2>3. Bad(k)
      BY <1>4, <1>a
    <2>4. ~Bad(k - 1)
      BY <1>5, <1>6, <1>a
    <2>5. comps[k] # ""
      BY <1>2, <1>5 DEF Proper
    <2>6. /\ at[k] # Null /\ Odd(at[k])
      BY <2>3 DEF Bad
    <2>7. at[k - 1] # Null => ~Odd(at[k - 1])
      BY <2>4 DEF Bad
    <2> QED
      BY <2>1, <2>2, <2>5, <2>6, <2>7
  <1> HIDE DEF v, c
  <1>8. v # Null
    BY <1>7 DEF StepInto
  <1>9. CASE c = ".."
    <2>1. StepInto(v, c) = parent[v] /\ v # Root
      BY <1>7, <1>8, <1>9, LinkFacts DEF StepInto
    <2>2. v \in nodes \ {Root} /\ parent[v] \in nodes
      BY <1>7, <1>8, <2>1, LinkFacts
    <2>3. child[parent[v]] # Null
      BY <2>2, HasChild
    <2> QED
      BY <1>7, <2>1, <2>2, <2>3 DEF NamesInv
  <1>10. CASE c = "."
    BY <1>7, <1>8, <1>10 DEF StepInto
  <1>11. CASE c # ".." /\ c # "."
    <2>1. StepInto(v, c) = FindChild(v, c)
      BY <1>8, <1>11 DEF StepInto
    <2>2. name[FindChild(v, c)] = c
      BY <1>7, <1>8, <2>1, FindsChild
    <2> QED
      BY <1>7, <1>11, <2>1, <2>2 DEF Odd
  <1> QED
    BY <1>9, <1>10, <1>11

(* Nor is the directory of a path odd.                                     *)
LEMMA BaseNotOdd ==
  ASSUME LinksInv, NamesInv, NEW p \in Paths, GetBase(p.comps) # Null
  PROVE  ~Odd(GetBase(p.comps))
  <1> DEFINE X == Range(p.comps)
             comps == p.comps
             base == IF comps = <<>> THEN <<>> ELSE Front(comps)
  <1>1. comps \in Seq(X) /\ Proper(X)
    BY NamesAssumption DEF Proper
  <1>2. GetBase(comps) = GetPath(base)
    BY DEF GetBase
  <1> HIDE DEF X, comps
  <1>3. base \in Seq(X)
    <2>1. CASE comps = <<>>
      BY <2>1
    <2>2. CASE comps # <<>>
      <3>1. Front(comps) \in Seq(X)
        BY <1>1, <2>2, FrontFacts
      <3> QED
        BY <2>2, <3>1
    <2> QED
      BY <2>1, <2>2
  <1> HIDE DEF base
  <1>4. GetPath(base) # Null => ~Odd(GetPath(base))
    BY <1>1, <1>3, NoOdd
  <1> QED
    BY <1>2, <1>4 DEF comps

(* vfsCreate_ gives a name that is new in the directory, or an odd one.    *)
LEMMA AllocNames ==
  ASSUME LinksInv, NamesInv, NEW p \in Paths, Missing(p),
         Alloc(GetBase(p.comps), Basename(p))
  PROVE  NamesInv'
  <1> DEFINE b == GetBase(p.comps)
             c == Last(p.comps)
             f == Basename(p)
             k == Fresh
             last == LastSibling(child[b])
  <1>1. b \in nodes /\ b # Null /\ ~Odd(b)
    BY PathFacts, BaseNotOdd DEF Missing
  <1>2. /\ Allocated(b, k, last)
        /\ \A j \in Ids : name'[j] = IF j = k THEN f ELSE name[j]
    BY <1>1, AllocDef
  <1>3. f = IF p.slash THEN "" ELSE c
    BY DEF Basename
  <1>4. StepInto(b, c) = Null
    <2>1. p.comps # <<>>
      BY PathFacts, LinkFacts DEF Missing
    <2> QED
      BY <2>1, PathFacts DEF Missing
  <1> HIDE DEF b, c, f, k, last
  <1>5. ASSUME f \notin {"", ".", ".."}
        PROVE  \A m \in nodes \ {Root} : parent[m] = b => name[m] # f
    <2>1. f = c
      BY <1>3, <1>5
    <2>2. FindChild(b, c) = Null
      BY <1>1, <1>4, <1>5, <2>1 DEF StepInto
    <2> QED
      BY <1>1, <2>1, <2>2, FindsChild
  <1>6. /\ k \in Ids /\ k \notin nodes /\ nodes' = nodes \cup {k} /\ Root # k
        /\ \A j \in Ids : parent'[j] = IF j = k THEN b ELSE parent[j]
        /\ \A j \in Ids : child'[j] = IF child[b] = Null /\ j = b THEN k ELSE child[j]
    BY <1>2, LinkFacts DEF Allocated
  <1>7. ASSUME NEW j \in nodes' \ {Root}, NEW m \in nodes' \ {Root}, j # m,
               parent'[j] = parent'[m], name'[j] \notin {"", ".", ".."}, name'[j] = name'[m]
        PROVE  FALSE
    <2>1. j \in Ids /\ m \in Ids
      BY <1>6, LinkFacts
    <2>2. CASE j = k
      <3>1. m \in nodes \ {Root} /\ parent[m] = b /\ name[m] = f
        BY <1>2, <1>6, <1>7, <2>1, <2>2
      <3> QED
        BY <1>2, <1>5, <1>7, <2>1, <2>2, <3>1
    <2>3. CASE m = k
      <3>1. j \in nodes \ {Root} /\ parent[j] = b /\ name[j] = f
        BY <1>2, <1>6, <1>7, <2>1, <2>3
      <3> QED
        BY <1>2, <1>5, <1>7, <2>1, <2>3, <3>1
    <2>4. CASE j # k /\ m # k
      <3>1. /\ j \in nodes \ {Root} /\ m \in nodes \ {Root} /\ parent[j] = parent[m]
            /\ name[j] = name'[j] /\ name[m] = name'[m]
        BY <1>2, <1>6, <1>7, <2>1, <2>4
      <3>2. ~Odd(j)
        BY <1>7, <3>1 DEF Odd
      <3> QED
        BY <1>7, <3>1, <3>2 DEF NamesInv
    <2> QED
      BY <2>2, <2>3, <2>4
  <1>8. ASSUME NEW j \in nodes', j # Root, name'[j] \in {"", ".", ".."} PROVE child'[j] = Null
    <2>1. CASE j = k
      BY <1>1, <1>6, <2>1, LinkFacts
    <2>2. CASE j # k
      <3>1. j \in nodes /\ j \in Ids /\ name[j] = name'[j]
        BY <1>2, <1>6, <2>2, LinkFacts
      <3>2. Odd(j)
        BY <1>8, <3>1 DEF Odd
      <3>3. child[j] = Null /\ j # b
        BY <1>1, <3>1, <3>2 DEF NamesInv
      <3> QED
        BY <1>6, <3>1, <3>3
    <2> QED
      BY <2>1, <2>2
  <1> QED
    BY <1>7, <1>8 DEF NamesInv, Odd

(* vfsFree keeps the other names.                                          *)
LEMMA FreeNames ==
  ASSUME LinksInv, NamesInv, NEW n \in nodes \ {Root}, Free(n)
  PROVE  NamesInv'
  <1>1. /\ Freed(n, Subtree(n))
        /\ \A k \in nodes' : name'[k] = name[k]
    BY FreeDef
  <1>2. \A k \in nodes' : /\ k \in nodes /\ parent'[k] = parent[k]
                          /\ child[k] = Null => child'[k] = Null
    BY <1>1, LinkFacts DEF Freed
  <1>3. ASSUME NEW j \in nodes' \ {Root}, NEW m \in nodes' \ {Root}, j # m,
               parent'[j] = parent'[m], name'[j] \notin {"", ".", ".."}
        PROVE  name'[j] # name'[m]
    <2>1. ~Odd(j) /\ name'[j] = name[j] /\ name'[m] = name[m]
      BY <1>1, <1>3 DEF Odd
    <2>2. j \in nodes \ {Root} /\ m \in nodes \ {Root} /\ parent[j] = parent[m]
      BY <1>2, <1>3
    <2> QED
      BY <1>3, <2>1, <2>2 DEF NamesInv
  <1>4. ASSUME NEW j \in nodes', j # Root, name'[j] \in {"", ".", ".."} PROVE child'[j] = Null
    <2>1. Odd(j) /\ j \in nodes
      BY <1>1, <1>2, <1>4 DEF Odd
    <2> QED
      BY <1>2, <2>1 DEF NamesInv
  <1> QED
    BY <1>3, <1>4 DEF NamesInv, Odd

-----------------------------------------------------------------------------
(* Streams, one by one                                                     *)

(* What lies in the file is a part of it.                                  *)
LEMMA SliceIs ==
  \A S : \A bytes \in Seq(S) : \A j \in 0 .. Len(bytes) : \A i \in 0 .. j :
    Slice(bytes, i, j) = SubSeq(bytes, i + 1, j)
  <1> TAKE S
  <1> TAKE bytes \in Seq(S)
  <1> TAKE j \in 0 .. Len(bytes)
  <1> TAKE i \in 0 .. j
  <1> DEFINE l == Slice(bytes, i, j)
             r == SubSeq(bytes, i + 1, j)
             n == j - i
  <1>0. Len(bytes) \in Nat /\ j \in Int /\ i \in Int /\ 0 <= i /\ i <= j /\ j <= Len(bytes)
    OBVIOUS
  <1>1. n \in Nat /\ n = j - (i + 1) + 1
    BY <1>0
  <1>2. l = [k \in 1 .. n |-> IF i + k <= Len(bytes) THEN bytes[i + k] ELSE "junk"]
    BY DEF Slice
  <1>3. \A k \in 1 .. n : i + k \in 1 .. Len(bytes) /\ (i + 1) + k - 1 = i + k
    BY <1>0
  <1>4. \A k \in i + 1 .. j : bytes[k] \in S
    BY <1>0
  <1>5. /\ r \in Seq(S)
        /\ Len(r) = IF i + 1 <= j THEN j - (i + 1) + 1 ELSE 0
        /\ \A k \in 1 .. j - (i + 1) + 1 : r[k] = bytes[(i + 1) + k - 1]
    BY <1>0, <1>4, SubSeqProperties
  <1>6. Len(r) = n
    BY <1>0, <1>5
  <1> HIDE DEF l, r, n
  <1>7. l = [k \in 1 .. n |-> bytes[i + k]]
    BY <1>2, <1>3
  <1>8. l \in [1 .. n -> S]
    BY <1>3, <1>7
  <1>9. l \in Seq(S) /\ Len(l) = n
    BY <1>1, <1>8
  <1>10. \A k \in 1 .. Len(l) : l[k] = r[k]
    BY <1>1, <1>3, <1>5, <1>7, <1>9
  <1>11. l = r
    BY <1>5, <1>6, <1>9, <1>10, SeqEqual
  <1> QED
    BY <1>11 DEF l, r

(* What was in the file is where it was after bytes are appended.          *)
LEMMA PrefixKept ==
  \A S : \A bytes, chunk \in Seq(S) : \A j \in 0 .. Len(bytes) : \A i \in 0 .. j :
    SubSeq(bytes \o chunk, i + 1, j) = SubSeq(bytes, i + 1, j)
  <1> TAKE S
  <1> TAKE bytes, chunk \in Seq(S)
  <1> TAKE j \in 0 .. Len(bytes)
  <1> TAKE i \in 0 .. j
  <1>0. Len(bytes) \in Nat /\ j \in Int /\ i \in Int /\ 0 <= i /\ i <= j /\ j <= Len(bytes)
    OBVIOUS
  <1>1. CASE i = j
    <2>1. i + 1 \in Int /\ j < i + 1
      BY <1>0, <1>1
    <2> QED
      BY <1>0, <2>1, SubSeqEmpty
  <1>2. CASE i # j
    <2>1. i + 1 \in 1 .. Len(bytes) /\ j \in 1 .. Len(bytes)
      BY <1>0, <1>2
    <2> QED
      BY <2>1, SubSeqOfConcat1
  <1> QED
    BY <1>1, <1>2

(* A stream that is just opened; only on an empty file is it the sole one. *)
LEMMA NewFits ==
  ASSUME NEW n, NEW empty \in BOOLEAN, NEW bytes \in Seq(Bytes), empty => bytes = <<>>
  PROVE  Fits(NewStream(n, empty), bytes) /\ NewStream(n, empty).file = n
  <1> DEFINE st == NewStream(n, empty)
  <1>1. /\ DOMAIN st = Fields /\ st.file = n /\ st.i = 0 /\ st.hooked = FALSE
        /\ st.flushindex = 0 /\ st.heard = <<>> /\ st.from = 0 /\ st.got = <<>>
        /\ st.placed = TRUE /\ st.sole = empty
    BY DEF NewStream, Fields
  <1> HIDE DEF st
  <1>2. 0 \in Position
    BY BoundsAssumption DEF Position
  <1>3. Shape(st)
    BY <1>1, <1>2 DEF Shape
  <1>4. Len(bytes) \in Nat /\ (empty => Len(bytes) = 0)
    OBVIOUS
  <1>5. Hears(st, bytes)
    BY <1>1, <1>4 DEF Hears
  <1>6. SubSeq(bytes, 0 + 1, 0) = <<>>
    BY SubSeqEmpty
  <1>7. Reads(st, bytes)
    BY <1>1, <1>4, <1>6 DEF Reads
  <1> QED
    BY <1>1, <1>3, <1>5, <1>7 DEF Fits, st

(* Another stream appended chunk.                                          *)
LEMMA SharedFits ==
  ASSUME NEW st, NEW bytes \in Seq(Bytes), NEW chunk \in Seq(Bytes), Fits(st, bytes)
  PROVE  Fits(Shared(st), bytes \o chunk) /\ Shared(st).file = st.file
  <1> DEFINE r == Shared(st)
  <1>0. Shape(st) /\ Hears(st, bytes) /\ Reads(st, bytes)
    BY DEF Fits
  <1>1. /\ DOMAIN r = Fields /\ r.file = st.file /\ r.i = st.i /\ r.hooked = st.hooked
        /\ r.flushindex = st.flushindex /\ r.heard = <<>> /\ r.from = st.from
        /\ r.got = st.got /\ r.placed = st.placed /\ r.sole = FALSE
    BY <1>0 DEF Shared, Shape, Fields
  <1> HIDE DEF r
  <1>2. Shape(r) /\ Hears(r, bytes \o chunk)
    BY <1>0, <1>1 DEF Shape, Hears
  <1>3. ASSUME st.placed
        PROVE  /\ st.from <= st.i /\ st.i <= Len(bytes \o chunk)
               /\ st.got = SubSeq(bytes \o chunk, st.from + 1, st.i)
    <2>1. /\ st.from <= st.i /\ st.i <= Len(bytes)
          /\ st.got = SubSeq(bytes, st.from + 1, st.i)
      BY <1>0, <1>3 DEF Reads
    <2>2. /\ Len(bytes) \in Nat /\ Len(chunk) \in Nat
          /\ Len(bytes \o chunk) = Len(bytes) + Len(chunk)
      OBVIOUS
    <2>3. st.i \in Int /\ st.from \in Int /\ 0 <= st.from
      BY <1>0 DEF Shape, Position
    <2>4. st.i \in 0 .. Len(bytes) /\ st.from \in 0 .. st.i
      BY <2>1, <2>2, <2>3
    <2>5. SubSeq(bytes \o chunk, st.from + 1, st.i) = SubSeq(bytes, st.from + 1, st.i)
      BY <2>4, PrefixKept
    <2>6. st.i <= Len(bytes \o chunk)
      BY <2>1, <2>2, <2>3
    <2> QED
      BY <2>1, <2>5, <2>6
  <1>4. Reads(r, bytes \o chunk)
    BY <1>1, <1>3 DEF Reads
  <1> QED
    BY <1>1, <1>2, <1>4 DEF Fits, r

(* The file was emptied, or the stream was set to behind its end.          *)
LEMMA UnplacedFits ==
  ASSUME NEW st, Shape(st), ~st.sole, NEW bytes
  PROVE  Fits(Unplaced(st), bytes) /\ Unplaced(st).file = st.file
  <1> DEFINE r == Unplaced(st)
  <1>1. /\ DOMAIN r = Fields /\ r.file = st.file /\ r.i = st.i /\ r.hooked = st.hooked
        /\ r.flushindex = st.flushindex /\ r.heard = st.heard /\ r.from = 0
        /\ r.got = <<>> /\ r.placed = FALSE /\ r.sole = st.sole
    BY DEF Unplaced, Shape, Fields
  <1>2. 0 \in Position
    BY BoundsAssumption DEF Position
  <1> HIDE DEF r
  <1>3. Shape(r)
    BY <1>1, <1>2 DEF Shape
  <1>4. Hears(r, bytes) /\ Reads(r, bytes)
    BY <1>1 DEF Hears, Reads
  <1> QED
    BY <1>1, <1>3, <1>4 DEF Fits, r

(* Flushed gives the hook what was written since the last time.            *)
LEMMA FlushedFits ==
  ASSUME NEW st, NEW bytes \in Seq(Bytes), Shape(st), Reads(st, bytes),
         st.sole => /\ st.i = Len(bytes)
                    /\ st.hooked => /\ st.heard = Slice(bytes, 0, st.flushindex)
                                    /\ st.flushindex <= st.i
  PROVE  Fits(Flushed(st, bytes), bytes) /\ Flushed(st, bytes).file = st.file
  <1>t. /\ st.i \in Int /\ st.flushindex \in Int /\ 0 <= st.flushindex
        /\ Len(bytes) \in Nat
    BY DEF Shape, Position
  <1>1. CASE st.hooked /\ st.flushindex < st.i
    <2> DEFINE new == IF st.sole THEN st.heard \o Slice(bytes, st.flushindex, st.i) ELSE <<>>
               r == [st EXCEPT !.heard = new, !.flushindex = st.i]
    <2>1. Flushed(st, bytes) = r
      BY <1>1 DEF Flushed
    <2> HIDE DEF new
    <2>2. /\ DOMAIN r = Fields /\ r.file = st.file /\ r.i = st.i /\ r.hooked = st.hooked
          /\ r.flushindex = st.i /\ r.heard = new /\ r.from = st.from
          /\ r.got = st.got /\ r.placed = st.placed /\ r.sole = st.sole
      BY DEF Shape, Fields
    <2> HIDE DEF r
    <2>3. ~st.sole => new = <<>>
      BY DEF new
    <2>4. Shape(r) /\ Reads(r, bytes)
      BY <1>1, <2>2, <2>3 DEF Shape, Reads
    <2>5. ASSUME st.sole PROVE new = Slice(bytes, 0, st.i)
      <3>1. /\ st.i = Len(bytes) /\ st.heard = Slice(bytes, 0, st.flushindex)
            /\ new = st.heard \o Slice(bytes, st.flushindex, st.i)
        BY <1>1, <2>5 DEF new
      <3>2. /\ st.i \in 0 .. Len(bytes) /\ st.flushindex \in 0 .. st.i
            /\ st.flushindex \in 0 .. Len(bytes) /\ 0 \in 0 .. st.flushindex /\ 0 \in 0 .. st.i
        BY <1>t, <1>1, <3>1
      <3>3. /\ Slice(bytes, 0, st.flushindex) = SubSeq(bytes, 0 + 1, st.flushindex)
            /\ Slice(bytes, st.flushindex, st.i) = SubSeq(bytes, st.flushindex + 1, st.i)
            /\ Slice(bytes, 0, st.i) = SubSeq(bytes, 0 + 1, st.i)
        BY <3>2, SliceIs
      <3>4. /\ 1 \in 1 .. Len(bytes) + 1 /\ st.flushindex \in 1 - 1 .. Len(bytes)
            /\ st.i \in st.flushindex .. Len(bytes) /\ 0 + 1 = 1
        BY <1>t, <1>1, <3>1
      <3>5. SubSeq(bytes, 1, st.flushindex) \o SubSeq(bytes, st.flushindex + 1, st.i)
              = SubSeq(bytes, 1, st.i)
        BY <3>4, ConcatAdjacentSubSeq
      <3> QED
        BY <3>1, <3>3, <3>4, <3>5
    <2>6. Hears(r, bytes)
      BY <2>2, <2>5 DEF Hears
    <2> QED
      BY <2>1, <2>2, <2>4, <2>6 DEF Fits
  <1>2. CASE ~(st.hooked /\ st.flushindex < st.i)
    <2>1. Flushed(st, bytes) = st
      BY <1>2 DEF Flushed
    <2>2. st.sole /\ st.hooked => st.flushindex = st.i
      BY <1>t, <1>2
    <2>3. Hears(st, bytes)
      BY <2>2 DEF Hears
    <2> QED
      BY <2>1, <2>3 DEF Fits
  <1> QED
    BY <1>1, <1>2

(* vfsFlush by itself.                                                     *)
LEMMA FlushFits ==
  ASSUME NEW st, NEW bytes \in Seq(Bytes), Fits(st, bytes)
  PROVE  Fits(Flushed(st, bytes), bytes) /\ Flushed(st, bytes).file = st.file
  <1>1. Shape(st) /\ Hears(st, bytes) /\ Reads(st, bytes)
    BY DEF Fits
  <1>2. st.i \in Int /\ 0 <= st.i
    BY <1>1 DEF Shape, Position
  <1>3. st.sole => /\ st.i = Len(bytes)
                   /\ st.hooked => /\ st.heard = Slice(bytes, 0, st.flushindex)
                                   /\ st.flushindex <= st.i
    BY <1>1, <1>2 DEF Hears
  <1> QED
    BY <1>1, <1>3, FlushedFits

(* The stream that writes moves on by as much, and is flushed.             *)
Moved(st, i) == [st EXCEPT !.i = i, !.from = IF st.placed THEN i ELSE @, !.got = <<>>]

(* vfsWrite: the bytes go to the end of the file, the stream moves on.     *)
LEMMA WriteFits ==
  ASSUME NEW st, NEW bytes \in Seq(Bytes), NEW chunk \in Seq(Bytes), Fits(st, bytes),
         st.i + Len(chunk) <= MaxData
  PROVE  LET after == Flushed(Moved(st, st.i + Len(chunk)), bytes \o chunk)
         IN  Fits(after, bytes \o chunk) /\ after.file = st.file
  <1> DEFINE i == st.i + Len(chunk)
             r == Moved(st, i)
             whole == bytes \o chunk
  <1>0. Shape(st) /\ Hears(st, bytes) /\ Reads(st, bytes)
    BY DEF Fits
  <1>1. /\ DOMAIN r = Fields /\ r.file = st.file /\ r.i = i /\ r.hooked = st.hooked
        /\ r.flushindex = st.flushindex /\ r.heard = st.heard
        /\ r.from = (IF st.placed THEN i ELSE st.from)
        /\ r.got = <<>> /\ r.placed = st.placed /\ r.sole = st.sole
    BY <1>0 DEF Moved, Shape, Fields
  <1>2. /\ Len(bytes) \in Nat /\ Len(chunk) \in Nat /\ whole \in Seq(Bytes)
        /\ Len(whole) = Len(bytes) + Len(chunk)
    OBVIOUS
  <1>3. /\ st.i \in Int /\ 0 <= st.i /\ st.flushindex \in Int /\ 0 <= st.flushindex
        /\ MaxData \in Int
    BY <1>0, BoundsAssumption DEF Shape, Position
  <1>4. i \in Position /\ i \in Int
    BY <1>2, <1>3 DEF Position
  <1>p. st.placed => st.i <= Len(bytes)
    BY <1>0 DEF Reads
  <1> HIDE DEF r, whole
  <1>5. Shape(r)
    BY <1>0, <1>1, <1>4 DEF Shape
  <1>6. Reads(r, whole)
    <2>1. SubSeq(whole, i + 1, i) = <<>>
      <3>1. i + 1 \in Int /\ i < i + 1
        BY <1>4
      <3> QED
        BY <1>4, <3>1, SubSeqEmpty
    <2>2. st.placed => i <= Len(whole) /\ i <= i
      BY <1>2, <1>3, <1>p, <1>4
    <2> HIDE DEF i
    <2> QED
      BY <1>1, <2>1, <2>2 DEF Reads
  <1>7. ASSUME r.sole
        PROVE  /\ r.i = Len(whole)
               /\ r.hooked => /\ r.heard = Slice(whole, 0, r.flushindex)
                              /\ r.flushindex <= r.i
    <2>1. /\ st.i = Len(bytes)
          /\ st.hooked => /\ st.heard = Slice(bytes, 0, st.flushindex)
                          /\ st.flushindex \in {0, st.i}
      BY <1>0, <1>1, <1>7 DEF Hears
    <2>2. i = Len(whole)
      BY <1>2, <2>1
    <2>3. ASSUME st.hooked PROVE st.flushindex <= i /\ st.flushindex <= Len(bytes)
      BY <1>2, <1>3, <2>1, <2>3
    <2>4. ASSUME st.hooked PROVE st.heard = Slice(whole, 0, st.flushindex)
      <3>1. /\ st.flushindex \in 0 .. Len(bytes) /\ st.flushindex \in 0 .. Len(whole)
            /\ 0 \in 0 .. st.flushindex
        BY <1>2, <1>3, <2>3, <2>4
      <3>2. /\ Slice(bytes, 0, st.flushindex) = SubSeq(bytes, 0 + 1, st.flushindex)
            /\ Slice(whole, 0, st.flushindex) = SubSeq(whole, 0 + 1, st.flushindex)
        BY <1>2, <3>1, SliceIs
      <3>3. SubSeq(whole, 0 + 1, st.flushindex) = SubSeq(bytes, 0 + 1, st.flushindex)
        BY <3>1, PrefixKept DEF whole
      <3> QED
        BY <2>1, <2>4, <3>2, <3>3
    <2> HIDE DEF i
    <2> QED
      BY <1>1, <2>2, <2>3, <2>4
  <1>8. Fits(Flushed(r, whole), whole) /\ Flushed(r, whole).file = r.file
    BY <1>2, <1>5, <1>6, <1>7, FlushedFits
  <1> QED
    BY <1>1, <1>8 DEF r, whole

(* A stream reads no more than there is.                                   *)
LEMMA ReadFits ==
  ASSUME NEW st, NEW bytes \in Seq(Bytes), Fits(st, bytes), NEW k \in Nat,
         st.i + ReadSize(Len(bytes), st.i, k) <= MaxData
  PROVE  LET n == ReadSize(Len(bytes), st.i, k)
             after == [st EXCEPT !.i = @ + n,
                                 !.got = IF st.placed THEN @ \o Slice(bytes, st.i, st.i + n)
                                                      ELSE @]
         IN  Fits(after, bytes) /\ after.file = st.file
  <1> DEFINE n == ReadSize(Len(bytes), st.i, k)
             got == IF st.placed THEN st.got \o Slice(bytes, st.i, st.i + n) ELSE st.got
             r == [st EXCEPT !.i = @ + n, !.got = IF st.placed THEN @ \o Slice(bytes, st.i, st.i + n)
                                                      ELSE @]
  <1>0. Shape(st) /\ Hears(st, bytes) /\ Reads(st, bytes)
    BY DEF Fits
  <1>1. /\ DOMAIN r = Fields /\ r.file = st.file /\ r.i = st.i + n /\ r.hooked = st.hooked
        /\ r.flushindex = st.flushindex /\ r.heard = st.heard
        /\ r.from = st.from
        /\ r.got = got /\ r.placed = st.placed /\ r.sole = st.sole
    BY <1>0 DEF Shape, Fields
  <1>3. /\ st.i \in Int /\ 0 <= st.i /\ st.from \in Int /\ 0 <= st.from
        /\ MaxData \in Int /\ Len(bytes) \in Nat
    BY <1>0, BoundsAssumption DEF Shape, Position
  <1>4. n \in Nat /\ (st.i <= Len(bytes) => st.i + n <= Len(bytes))
    BY <1>3 DEF ReadSize
  <1>5. st.i + n \in Position
    BY <1>3, <1>4 DEF Position
  <1>6. ~st.placed => got = <<>>
    BY <1>0 DEF Shape
  <1>7. st.sole => st.i = Len(bytes) /\ st.i + n = st.i
    <2>1. st.sole => st.i = Len(bytes)
      BY <1>0 DEF Hears
    <2> QED
      BY <1>3, <1>4, <2>1
  <1>8. ASSUME st.placed
        PROVE  /\ st.from <= st.i + n /\ st.i + n <= Len(bytes)
               /\ got = SubSeq(bytes, st.from + 1, st.i + n)
    <2>1. st.from <= st.i /\ st.i <= Len(bytes) /\ st.got = SubSeq(bytes, st.from + 1, st.i)
      BY <1>0, <1>8 DEF Reads
    <2>2. /\ st.from <= st.i + n /\ st.i + n <= Len(bytes)
      BY <1>3, <1>4, <2>1
    <2>3. got = st.got \o Slice(bytes, st.i, st.i + n)
      BY <1>8
    <2> HIDE DEF n, got, r
    <2>4. st.i + n \in 0 .. Len(bytes) /\ st.i \in 0 .. st.i + n
      BY <1>3, <1>4, <2>1, <2>2
    <2>5. Slice(bytes, st.i, st.i + n) = SubSeq(bytes, st.i + 1, st.i + n)
      BY <2>4, SliceIs
    <2>6. /\ st.from + 1 \in 1 .. Len(bytes) + 1 /\ st.i \in (st.from + 1) - 1 .. Len(bytes)
          /\ st.i + n \in st.i .. Len(bytes)
      BY <1>3, <1>4, <2>1, <2>2
    <2>7. SubSeq(bytes, st.from + 1, st.i) \o SubSeq(bytes, st.i + 1, st.i + n)
            = SubSeq(bytes, st.from + 1, st.i + n)
      BY <2>6, ConcatAdjacentSubSeq
    <2> QED
      BY <2>1, <2>2, <2>3, <2>5, <2>7
  <1> HIDE DEF n, got, r
  <1>9. Shape(r)
    BY <1>0, <1>1, <1>5, <1>6 DEF Shape
  <1>10. Hears(r, bytes)
    <2>1. r.sole => r.i = st.i /\ st.sole
      BY <1>1, <1>7
    <2> QED
      BY <1>0, <1>1, <2>1 DEF Hears
  <1>11. Reads(r, bytes)
    BY <1>1, <1>8 DEF Reads
  <1>12. Fits(r, bytes) /\ r.file = st.file
    BY <1>1, <1>9, <1>10, <1>11 DEF Fits
  <1> QED
    BY <1>12 DEF r, n

(* vfsSeek: a stream behind the end of its file is not placed.             *)
LEMMA SeekFits ==
  ASSUME NEW st, NEW bytes \in Seq(Bytes), Fits(st, bytes), NEW at \in 0 .. MaxData
  PROVE  LET r == Shared([st EXCEPT !.i = at, !.from = at, !.got = <<>>])
             after == IF at <= Len(bytes) THEN [r EXCEPT !.placed = TRUE] ELSE Unplaced(r)
         IN  Fits(after, bytes) /\ after.file = st.file /\ r.file = st.file
  <1> DEFINE r == Shared([st EXCEPT !.i = at, !.from = at, !.got = <<>>])
             p == [r EXCEPT !.placed = TRUE]
  <1>0. Shape(st)
    BY DEF Fits
  <1>1. /\ DOMAIN r = Fields /\ r.file = st.file /\ r.i = at /\ r.hooked = st.hooked
        /\ r.flushindex = st.flushindex /\ r.heard = <<>> /\ r.from = at
        /\ r.got = <<>> /\ r.placed = st.placed /\ r.sole = FALSE
    BY <1>0 DEF Shared, Shape, Fields
  <1> HIDE DEF r
  <1>2. Shape(r)
    BY <1>0, <1>1 DEF Shape, Position
  <1>3. CASE at <= Len(bytes)
    <2>1. /\ DOMAIN p = Fields /\ p.file = st.file /\ p.i = at /\ p.hooked = st.hooked
          /\ p.flushindex = st.flushindex /\ p.heard = <<>> /\ p.from = at
          /\ p.got = <<>> /\ p.placed = TRUE /\ p.sole = FALSE
      BY <1>1 DEF Fields
    <2> HIDE DEF p
    <2>2. Shape(p) /\ Hears(p, bytes)
      BY <1>1, <1>2, <2>1 DEF Shape, Hears
    <2>3. SubSeq(bytes, at + 1, at) = <<>> /\ at <= at
      <3>1. at \in Int /\ at + 1 \in Int /\ at < at + 1
        OBVIOUS
      <3> QED
        BY <3>1, SubSeqEmpty
    <2>4. Reads(p, bytes)
      BY <1>3, <2>1, <2>3 DEF Reads
    <2>5. Fits(p, bytes) /\ p.file = st.file
      BY <2>1, <2>2, <2>4 DEF Fits
    <2> QED
      BY <1>1, <1>3, <2>5 DEF r, p
  <1>4. CASE ~(at <= Len(bytes))
    <2>1. Fits(Unplaced(r), bytes) /\ Unplaced(r).file = r.file
      BY <1>1, <1>2, UnplacedFits
    <2> QED
      BY <1>1, <1>4, <2>1 DEF r
  <1> QED
    BY <1>3, <1>4

(* vfsHookFlush: the hook begins with the file.                            *)
LEMMA HookFits ==
  ASSUME NEW st, NEW bytes \in Seq(Bytes), Fits(st, bytes)
  PROVE  LET after == [st EXCEPT !.hooked = TRUE, !.flushindex = 0, !.heard = <<>>]
         IN  Fits(after, bytes) /\ after.file = st.file
  <1> DEFINE r == [st EXCEPT !.hooked = TRUE, !.flushindex = 0, !.heard = <<>>]
  <1>0. Shape(st) /\ Hears(st, bytes) /\ Reads(st, bytes)
    BY DEF Fits
  <1>1. /\ DOMAIN r = Fields /\ r.file = st.file /\ r.i = st.i /\ r.hooked = TRUE
        /\ r.flushindex = 0 /\ r.heard = <<>> /\ r.from = st.from
        /\ r.got = st.got /\ r.placed = st.placed /\ r.sole = st.sole
    BY <1>0 DEF Shape, Fields
  <1> HIDE DEF r
  <1>2. 0 \in Position
    BY BoundsAssumption DEF Position
  <1>3. Shape(r) /\ Reads(r, bytes)
    BY <1>0, <1>1, <1>2 DEF Shape, Reads
  <1>4. Slice(bytes, 0, 0) = <<>>
    <2>1. 0 \in 0 .. Len(bytes) /\ 0 \in 0 .. 0
      <3>1. Len(bytes) \in Nat
        OBVIOUS
      <3> QED
        BY <3>1
    <2>2. Slice(bytes, 0, 0) = SubSeq(bytes, 0 + 1, 0)
      BY <2>1, SliceIs
    <2>3. SubSeq(bytes, 0 + 1, 0) = <<>>
      BY SubSeqEmpty
    <2> QED
      BY <2>2, <2>3
  <1>5. Hears(r, bytes)
    BY <1>0, <1>1, <1>4 DEF Hears
  <1> QED
    BY <1>1, <1>3, <1>5 DEF Fits, r

-----------------------------------------------------------------------------
(* The calls on streams                                                    *)

(* One stream goes on to another state, its file does not change.          *)
LEMMA StreamMoves ==
  ASSUME DataInv, StreamsInv, NEW s \in Open, NEW r,
         Fits(r, data[streams[s].file]), r.file = streams[s].file,
         streams' = [streams EXCEPT ![s] = r], UNCHANGED <<treeVars, data>>
  PROVE  DataInv' /\ StreamsInv'
  <1>1. nodes' = nodes /\ data' = data
    BY DEF treeVars
  <1>2. DataInv'
    BY <1>1 DEF DataInv
  <1>3. DOMAIN streams' = Open /\ \A t \in Open : streams'[t] = IF t = s THEN r ELSE streams[t]
    BY DEF Open
  <1>4. StreamsInv'
    BY <1>1, <1>3 DEF StreamsInv, Open
  <1> QED
    BY <1>2, <1>4

(* Another stream is opened on a node; others are those there were.        *)
LEMMA OpenStep ==
  ASSUME NEW n, NEW empty \in BOOLEAN, NEW others, Opened(n, empty, others),
         n \in nodes', nodes' \subseteq Ids, DataInv', empty => data'[n] = <<>>,
         Open \subseteq StreamIds,
         \A t \in Open : /\ others[t].file \in nodes'
                         /\ Fits(others[t], data'[others[t].file])
  PROVE  StreamsInv'
  <1> DEFINE s == Min(StreamIds \ Open)
  <1>1. s \in StreamIds \ Open
    <2>1. StreamIds \ Open # {} /\ StreamIds \ Open \subseteq Nat
      <3>1. StreamIds \subseteq Nat
        BY DEF StreamIds
      <3>2. Open # StreamIds
        BY DEF Opened
      <3> QED
        BY <3>1, <3>2
    <2>2. \E k \in StreamIds \ Open : \A m \in StreamIds \ Open : k <= m
      BY <2>1, MinimalNat
    <2> QED
      BY <2>2 DEF Min
  <1>2. streams' = [t \in Open \cup {s} |-> IF t = s THEN NewStream(n, empty) ELSE others[t]]
    BY DEF Opened
  <1> HIDE DEF s
  <1>3. Open' = Open \cup {s}
    BY <1>2 DEF Open
  <1>4. data'[n] \in Seq(Bytes)
    BY DEF DataInv
  <1>5. Fits(NewStream(n, empty), data'[n]) /\ NewStream(n, empty).file = n
    BY <1>4, NewFits
  <1>6. \A t \in Open' : streams'[t] = IF t = s THEN NewStream(n, empty) ELSE others[t]
    BY <1>2, <1>3
  <1>7. ASSUME NEW t \in Open'
        PROVE  streams'[t].file \in nodes' /\ Fits(streams'[t], data'[streams'[t].file])
    <2>1. CASE t = s
      BY <1>5, <1>6, <2>1
    <2>2. CASE t # s
      <3>1. t \in Open /\ streams'[t] = others[t]
        BY <1>3, <1>6, <2>2
      <3> QED
        BY <3>1
    <2> QED
      BY <2>1, <2>2
  <1> QED
    BY <1>1, <1>3, <1>7 DEF StreamsInv

(* A file of size zero is empty.                                           *)
LEMMA NoBytes ==
  \A S : \A bytes \in Seq(S) : Len(bytes) = 0 => bytes = <<>>
  OBVIOUS

(* vfsOpen for reading and vfsFSOOpen open a stream on a node.             *)
LEMMA OpensNode ==
  ASSUME LinksInv, DataInv, StreamsInv, NEW n \in nodes, Opened(n, Size(n) = 0, streams),
         UNCHANGED <<treeVars, data>>
  PROVE  DataInv' /\ StreamsInv'
  <1>1. nodes' = nodes /\ data' = data
    BY DEF treeVars
  <1>2. DataInv'
    BY <1>1 DEF DataInv
  <1>3. nodes' \subseteq Ids /\ n \in nodes'
    BY <1>1, LinkFacts
  <1>4. data'[n] \in Seq(Bytes)
    BY <1>2, <1>3 DEF DataInv
  <1>5. Size(n) = 0 => data'[n] = <<>>
    BY <1>1, <1>4, NoBytes DEF Size
  <1>6. (Size(n) = 0) \in BOOLEAN
    OBVIOUS
  <1>7. Open \subseteq StreamIds /\ \A t \in Open : /\ streams[t].file \in nodes'
                                                 /\ Fits(streams[t], data'[streams[t].file])
    BY <1>1 DEF StreamsInv
  <1> QED
    BY <1>2, <1>3, <1>5, <1>6, <1>7, OpenStep

(* vfsOpen for writing empties a file under the streams that are open on   *)
(* it.                                                                     *)
LEMMA Empties ==
  ASSUME LinksInv, DataInv, StreamsInv, NEW n \in nodes, Opened(n, TRUE, Emptied(n)),
         data' = [data EXCEPT ![n] = <<>>], UNCHANGED treeVars
  PROVE  DataInv' /\ StreamsInv'
  <1>1. nodes' = nodes /\ nodes \subseteq Ids
    BY LinkFacts DEF treeVars
  <1>2. DOMAIN data' = Ids /\ \A k \in Ids : data'[k] = IF k = n THEN <<>> ELSE data[k]
    BY DEF DataInv
  <1>3. DataInv'
    <2>1. <<>> \in Seq(Bytes) /\ Len(<<>>) = 0 /\ 0 <= MaxData
      BY BoundsAssumption
    <2> QED
      BY <1>1, <1>2, <2>1 DEF DataInv
  <1>4. ASSUME NEW t \in Open
        PROVE  /\ Emptied(n)[t].file \in nodes'
               /\ Fits(Emptied(n)[t], data'[Emptied(n)[t].file])
    <2>1. streams[t].file \in nodes /\ Fits(streams[t], data[streams[t].file])
      BY DEF StreamsInv
    <2>2. CASE streams[t].file = n
      <3>1. Emptied(n)[t] = Unplaced(Shared(streams[t]))
        BY <2>2 DEF Emptied
      <3>2. /\ Fits(Shared(streams[t]), data[n] \o <<>>)
            /\ Shared(streams[t]).file = n
        <4>1. data[n] \in Seq(Bytes) /\ <<>> \in Seq(Bytes)
          BY <1>1 DEF DataInv
        <4> QED
          BY <2>1, <2>2, <4>1, SharedFits
      <3>3. Shape(Shared(streams[t])) /\ ~Shared(streams[t]).sole
        <4>1. Shape(Shared(streams[t])) /\ DOMAIN streams[t] = Fields
          BY <2>1, <3>2 DEF Fits, Shape
        <4> QED
          BY <4>1 DEF Shared, Fields
      <3>4. /\ Fits(Unplaced(Shared(streams[t])), data'[n])
            /\ Unplaced(Shared(streams[t])).file = n
        BY <3>2, <3>3, UnplacedFits
      <3> QED
        BY <1>1, <3>1, <3>4
    <2>3. CASE streams[t].file # n
      <3>1. Emptied(n)[t] = streams[t]
        BY <2>3 DEF Emptied
      <3>2. data'[streams[t].file] = data[streams[t].file]
        BY <1>1, <1>2, <2>1, <2>3
      <3> QED
        BY <1>1, <2>1, <3>1, <3>2
    <2> QED
      BY <2>2, <2>3
  <1>5. data'[n] = <<>> /\ Open \subseteq StreamIds
    BY <1>1, <1>2 DEF StreamsInv
  <1>6. StreamsInv'
    BY <1>1, <1>3, <1>4, <1>5, OpenStep
  <1> QED
    BY <1>3, <1>6

(* A stream less.                                                          *)
LEMMA Closes ==
  ASSUME DataInv, StreamsInv, NEW s \in Open, Close(s)
  PROVE  DataInv' /\ StreamsInv'
  <1>1. nodes' = nodes /\ data' = data /\ streams' = [t \in Open \ {s} |-> streams[t]]
    BY DEF treeVars, Close
  <1>2. DataInv'
    BY <1>1 DEF DataInv
  <1>3. Open' = Open \ {s} /\ \A t \in Open' : streams'[t] = streams[t]
    BY <1>1 DEF Open
  <1>4. StreamsInv'
    BY <1>1, <1>3 DEF StreamsInv
  <1> QED
    BY <1>2, <1>4

(* HookFlush keeps the streams in order.                                   *)
LEMMA Hooks ==
  ASSUME LinksInv, DataInv, StreamsInv, NEW s \in Open, HookFlush(s)
  PROVE  DataInv' /\ StreamsInv'
  <1> DEFINE st == streams[s]
             r == [st EXCEPT !.hooked = TRUE, !.flushindex = 0, !.heard = <<>>]
  <1>1. st.file \in nodes /\ Fits(st, data[st.file]) /\ data[st.file] \in Seq(Bytes)
    BY LinkFacts DEF StreamsInv, DataInv
  <1>2. Fits(r, data[st.file]) /\ r.file = st.file
    BY <1>1, HookFits
  <1>3. streams' = [streams EXCEPT ![s] = r] /\ UNCHANGED <<treeVars, data>>
    BY DEF HookFlush
  <1> HIDE DEF r
  <1> QED
    BY <1>2, <1>3, StreamMoves

(* Flush keeps the streams in order.                                       *)
LEMMA Flushes ==
  ASSUME LinksInv, DataInv, StreamsInv, NEW s \in Open, Flush(s)
  PROVE  DataInv' /\ StreamsInv'
  <1> DEFINE st == streams[s]
             r == Flushed(st, data[st.file])
  <1>1. st.file \in nodes /\ Fits(st, data[st.file]) /\ data[st.file] \in Seq(Bytes)
    BY LinkFacts DEF StreamsInv, DataInv
  <1>2. Fits(r, data[st.file]) /\ r.file = st.file
    BY <1>1, FlushFits
  <1>3. streams' = [streams EXCEPT ![s] = r] /\ UNCHANGED <<treeVars, data>>
    BY DEF Flush
  <1> HIDE DEF r
  <1> QED
    BY <1>2, <1>3, StreamMoves

(* Read keeps the streams in order.                                        *)
LEMMA Reading ==
  ASSUME LinksInv, DataInv, StreamsInv, NEW s \in Open, NEW k \in ReadSizes, Read(s, k)
  PROVE  DataInv' /\ StreamsInv'
  <1> DEFINE st == streams[s]
             bytes == data[st.file]
             n == ReadSize(Len(bytes), st.i, k)
             r == [st EXCEPT !.i = @ + n,
                             !.got = IF st.placed THEN @ \o Slice(bytes, st.i, st.i + n) ELSE @]
  <1>1. st.file \in nodes /\ Fits(st, bytes) /\ bytes \in Seq(Bytes)
    BY LinkFacts DEF StreamsInv, DataInv
  <1>2. k \in Nat
    BY BoundsAssumption
  <1>3. st.i + n <= MaxData
    BY DEF Read, Size
  <1>4. Fits(r, bytes) /\ r.file = st.file
    BY <1>1, <1>2, <1>3, ReadFits
  <1>5. streams' = [streams EXCEPT ![s] = r] /\ UNCHANGED <<treeVars, data>>
    BY DEF Read, Size
  <1> HIDE DEF r
  <1> QED
    BY <1>4, <1>5, StreamMoves

(* Seek keeps the streams in order.                                        *)
LEMMA Seeks ==
  ASSUME LinksInv, DataInv, StreamsInv, NEW s \in Open, NEW at, Seek(s, at)
  PROVE  DataInv' /\ StreamsInv'
  <1> DEFINE st == streams[s]
             bytes == data[st.file]
             q == Shared([st EXCEPT !.i = at, !.from = at, !.got = <<>>])
             r == IF at <= Len(bytes) THEN [q EXCEPT !.placed = TRUE] ELSE Unplaced(q)
  <1>1. st.file \in nodes /\ Fits(st, bytes) /\ bytes \in Seq(Bytes)
    BY LinkFacts DEF StreamsInv, DataInv
  <1>2. at \in 0 .. MaxData
    BY DEF Seek
  <1>3. Fits(r, bytes) /\ r.file = st.file /\ q.file = st.file
    BY <1>1, <1>2, SeekFits
  <1>4. streams' = [streams EXCEPT ![s] = r] /\ UNCHANGED <<treeVars, data>>
    <2> HIDE DEF r
    <2>1. /\ streams' = [streams EXCEPT ![s] = IF at <= Len(data[q.file])
                                               THEN [q EXCEPT !.placed = TRUE]
                                               ELSE Unplaced(q)]
          /\ UNCHANGED <<treeVars, data>>
      BY DEF Seek, Size
    <2> QED
      BY <1>3, <2>1 DEF r
  <1> HIDE DEF r, q
  <1> QED
    BY <1>3, <1>4, StreamMoves

(* Write keeps them all in order, also those of others on the same file.   *)
LEMMA Writing ==
  ASSUME LinksInv, DataInv, StreamsInv, NEW s \in Open, NEW chunk \in Chunks, Write(s, chunk)
  PROVE  DataInv' /\ StreamsInv'
  <1> DEFINE st == streams[s]
             n == st.file
             bytes == data[n]
             i == st.i + Len(chunk)
             r == Flushed(Moved(st, i), bytes \o chunk)
  <1>1. n \in nodes /\ Fits(st, bytes) /\ bytes \in Seq(Bytes) /\ nodes \subseteq Ids
    BY LinkFacts DEF StreamsInv, DataInv
  <1>2. chunk \in Seq(Bytes)
    <2>1. chunk \in Seq(Range(chunk)) /\ Range(chunk) \subseteq Bytes
      BY ChunksAssumption DEF Bytes
    <2> QED
      BY <2>1, SeqMonotonic
  <1>3. /\ i <= MaxData /\ Len(bytes \o chunk) <= MaxData
        /\ data' = [data EXCEPT ![n] = bytes \o chunk]
        /\ streams' = [Written(n, s) EXCEPT ![s] = r]
        /\ nodes' = nodes
    BY DEF Write, Put, Moved, treeVars
  <1>4. Fits(r, bytes \o chunk) /\ r.file = n
    BY <1>1, <1>2, <1>3, WriteFits
  <1>5. bytes \o chunk \in Seq(Bytes)
    BY <1>1, <1>2
  <1> HIDE DEF r, i, st
  <1>6. /\ DOMAIN data' = Ids
        /\ \A k \in Ids : data'[k] = IF k = n THEN bytes \o chunk ELSE data[k]
    BY <1>3 DEF DataInv
  <1>7. DataInv'
    BY <1>1, <1>3, <1>5, <1>6 DEF DataInv
  <1>8. /\ DOMAIN streams' = Open
        /\ \A t \in Open : streams'[t] = IF t = s THEN r ELSE Written(n, s)[t]
    BY <1>3 DEF Written
  <1>9. ASSUME NEW t \in Open
        PROVE  streams'[t].file \in nodes' /\ Fits(streams'[t], data'[streams'[t].file])
    <2>1. streams[t].file \in nodes /\ Fits(streams[t], data[streams[t].file])
      BY DEF StreamsInv
    <2>2. CASE t = s
      <3>1. streams'[t] = r /\ data'[n] = bytes \o chunk
        BY <1>1, <1>6, <1>8, <2>2
      <3>2. streams'[t].file = n /\ n \in nodes'
        BY <1>1, <1>3, <1>4, <3>1
      <3>3. Fits(streams'[t], bytes \o chunk)
        BY <1>4, <3>1
      <3> HIDE DEF bytes, n
      <3> QED
        BY <3>1, <3>2, <3>3
    <2>3. CASE t # s /\ streams[t].file = n
      <3>1. streams'[t] = Shared(streams[t]) /\ data'[n] = bytes \o chunk
        BY <1>1, <1>6, <1>8, <2>3 DEF Written
      <3>2. Fits(Shared(streams[t]), bytes \o chunk) /\ Shared(streams[t]).file = n
        BY <1>1, <1>2, <2>1, <2>3, SharedFits
      <3>3. streams'[t].file = n /\ n \in nodes'
        BY <1>1, <1>3, <3>1, <3>2
      <3>4. Fits(streams'[t], bytes \o chunk)
        BY <3>1, <3>2
      <3> HIDE DEF bytes, n
      <3> QED
        BY <3>1, <3>3, <3>4
    <2>4. CASE t # s /\ streams[t].file # n
      <3>1. streams'[t] = streams[t]
        BY <1>8, <2>4 DEF Written
      <3>2. data'[streams[t].file] = data[streams[t].file]
        BY <1>1, <1>6, <2>1, <2>4
      <3> QED
        BY <1>3, <2>1, <3>1, <3>2
    <2> QED
      BY <2>2, <2>3, <2>4
  <1>10. StreamsInv'
    BY <1>8, <1>9 DEF StreamsInv, Open
  <1> QED
    BY <1>7, <1>10

-----------------------------------------------------------------------------
(* The calls that make and remove nodes                                    *)

(* Calls that leave the links alone.                                       *)
LEMMA SameTree ==
  ASSUME LinksInv, NamesInv, UNCHANGED treeVars
  PROVE  LinksInv' /\ NamesInv'
  <1>1. /\ nodes' = nodes /\ parent' = parent /\ child' = child
        /\ sibling' = sibling /\ name' = name
    BY DEF treeVars
  <1>2. Links' /\ Blank' /\ Family' /\ Lists'
    BY <1>1 DEF LinksInv, Links, Blank, Family, Lists
  <1>3. Acyclic'
    BY <1>1 DEF LinksInv, Acyclic
  <1>4. NamesInv'
    BY <1>1 DEF NamesInv, Odd
  <1> QED
    BY <1>2, <1>3, <1>4 DEF LinksInv

(* A node more, of which no data and no stream is there yet.               *)
LEMMA Grown ==
  ASSUME LinksInv, NamesInv, DataInv, StreamsInv, NEW p \in Paths, Missing(p),
         Alloc(GetBase(p.comps), Basename(p)), UNCHANGED data
  PROVE  /\ LinksInv' /\ NamesInv' /\ DataInv' /\ nodes \subseteq nodes' /\ nodes' \subseteq Ids
         /\ Fresh \in nodes' /\ data'[Fresh] = <<>>
  <1> DEFINE b == GetBase(p.comps)
             k == Fresh
  <1>1. b \in nodes
    BY PathFacts DEF Missing
  <1>2. LinksInv'
    BY <1>1, AllocLinks
  <1>3. NamesInv'
    BY AllocNames
  <1>4. Allocated(b, k, LastSibling(child[b]))
    BY <1>1, AllocDef
  <1>5. k \in Ids \ nodes /\ nodes' = nodes \cup {k} /\ nodes \subseteq Ids
    BY <1>4, LinkFacts DEF Allocated
  <1> HIDE DEF k
  <1>6. DataInv' /\ data'[k] = <<>>
    BY <1>5 DEF DataInv
  <1> QED
    BY <1>2, <1>3, <1>5, <1>6 DEF k

(* Create keeps the invariant.                                             *)
LEMMA Creates ==
  ASSUME IInv, NEW p \in Paths, Create(p)
  PROVE  IInv'
  <1>0. LinksInv /\ NamesInv /\ DataInv /\ StreamsInv
    BY DEF IInv
  <1>1. /\ Missing(p) /\ Alloc(GetBase(p.comps), Basename(p))
        /\ data' = data /\ streams' = streams
    BY DEF Create
  <1>2. LinksInv' /\ NamesInv' /\ DataInv' /\ nodes \subseteq nodes'
    BY <1>0, <1>1, Grown
  <1>3. StreamsInv'
    BY <1>0, <1>1, <1>2 DEF StreamsInv, Open
  <1> QED
    BY <1>2, <1>3 DEF IInv

(* OpenRead keeps the invariant.                                           *)
LEMMA OpensForRead ==
  ASSUME IInv, NEW p \in Paths, OpenRead(p)
  PROVE  IInv'
  <1> DEFINE n == GetPath(p.comps)
  <1>0. LinksInv /\ NamesInv /\ DataInv /\ StreamsInv
    BY DEF IInv
  <1>1. n \in nodes
    BY <1>0, PathFacts DEF OpenRead
  <1>2. Opened(n, Size(n) = 0, streams) /\ UNCHANGED <<treeVars, data>>
    BY DEF OpenRead
  <1> HIDE DEF n
  <1>3. DataInv' /\ StreamsInv'
    BY <1>0, <1>1, <1>2, OpensNode
  <1>4. LinksInv' /\ NamesInv'
    BY <1>0, <1>2, SameTree
  <1> QED
    BY <1>3, <1>4 DEF IInv

(* FSOOpen keeps the invariant.                                            *)
LEMMA OpensListed ==
  ASSUME IInv, NEW n \in nodes, FSOOpen(n)
  PROVE  IInv'
  <1>0. LinksInv /\ NamesInv /\ DataInv /\ StreamsInv
    BY DEF IInv
  <1>1. Opened(n, Size(n) = 0, streams) /\ UNCHANGED <<treeVars, data>>
    BY DEF FSOOpen
  <1>2. DataInv' /\ StreamsInv'
    BY <1>0, <1>1, OpensNode
  <1>3. LinksInv' /\ NamesInv'
    BY <1>0, <1>1, SameTree
  <1> QED
    BY <1>2, <1>3 DEF IInv

(* OpenWrite keeps the invariant.                                          *)
LEMMA OpensForWrite ==
  ASSUME IInv, NEW p \in Paths, OpenWrite(p)
  PROVE  IInv'
  <1> DEFINE n == GetPath(p.comps)
  <1>0. LinksInv /\ NamesInv /\ DataInv /\ StreamsInv
    BY DEF IInv
  <1>1. CASE /\ n # Null /\ data' = [data EXCEPT ![n] = <<>>]
             /\ Opened(n, TRUE, Emptied(n)) /\ UNCHANGED treeVars
    <2>1. n \in nodes
      BY <1>0, <1>1, PathFacts
    <2> HIDE DEF n
    <2>2. DataInv' /\ StreamsInv'
      BY <1>0, <1>1, <2>1, Empties
    <2>3. LinksInv' /\ NamesInv'
      BY <1>0, <1>1, SameTree
    <2> QED
      BY <2>2, <2>3 DEF IInv
  <1>2. CASE /\ Missing(p) /\ Alloc(GetBase(p.comps), Basename(p))
             /\ Opened(Fresh, TRUE, streams) /\ UNCHANGED data
    <2>1. /\ LinksInv' /\ NamesInv' /\ DataInv' /\ nodes \subseteq nodes' /\ nodes' \subseteq Ids
          /\ Fresh \in nodes' /\ data'[Fresh] = <<>>
      BY <1>0, <1>2, Grown
    <2>2. Open \subseteq StreamIds /\ \A t \in Open : /\ streams[t].file \in nodes'
                                                   /\ Fits(streams[t], data'[streams[t].file])
      BY <1>0, <1>2, <2>1 DEF StreamsInv
    <2>3. StreamsInv'
      BY <1>2, <2>1, <2>2, OpenStep
    <2> QED
      BY <2>1, <2>3 DEF IInv
  <1> QED
    BY <1>1, <1>2 DEF OpenWrite

(* RemovePath keeps the invariant: no stream is on what is freed.          *)
LEMMA Removes ==
  ASSUME IInv, NEW p \in Paths, RemovePath(p)
  PROVE  IInv'
  <1> DEFINE n == GetPath(p.comps)
             gone == Subtree(n)
  <1>0. LinksInv /\ NamesInv /\ DataInv /\ StreamsInv
    BY DEF IInv
  <1>1. n \in nodes \ {Root}
    BY <1>0, PathFacts DEF RemovePath
  <1>2. /\ \A s \in Open : streams[s].file \notin gone
        /\ data' = [k \in Ids |-> IF k \in gone THEN <<>> ELSE data[k]]
        /\ Free(n) /\ streams' = streams
    BY DEF RemovePath
  <1> HIDE DEF n
  <1>3. LinksInv' /\ NamesInv'
    BY <1>0, <1>1, <1>2, FreeLinks, FreeNames
  <1>4. nodes' = nodes \ gone /\ nodes \subseteq Ids
    BY <1>0, <1>1, <1>2, FreeDef, LinkFacts DEF Freed
  <1> HIDE DEF gone
  <1>5. DOMAIN data' = Ids /\ \A k \in Ids : data'[k] = IF k \in gone THEN <<>> ELSE data[k]
    BY <1>2
  <1>6. DataInv'
    <2>1. <<>> \in Seq(Bytes) /\ Len(<<>>) = 0 /\ 0 <= MaxData
      BY BoundsAssumption
    <2> QED
      BY <1>0, <1>4, <1>5, <2>1 DEF DataInv
  <1>7. ASSUME NEW s \in Open
        PROVE  streams[s].file \in nodes' /\ Fits(streams[s], data'[streams[s].file])
    <2>1. streams[s].file \in nodes' /\ data'[streams[s].file] = data[streams[s].file]
      BY <1>0, <1>2, <1>4, <1>5 DEF StreamsInv
    <2> QED
      BY <1>0, <2>1 DEF StreamsInv
  <1>8. StreamsInv'
    BY <1>0, <1>2, <1>7 DEF StreamsInv, Open
  <1> QED
    BY <1>3, <1>6, <1>8 DEF IInv

(* Every step keeps the invariant.                                         *)
LEMMA NextStep ==
  ASSUME IInv, [Next]_vars
  PROVE  IInv'
  <1>0. LinksInv /\ NamesInv /\ DataInv /\ StreamsInv
    BY DEF IInv
  <1>1. ASSUME NEW p \in Paths, Create(p) \/ OpenRead(p) \/ OpenWrite(p) \/ RemovePath(p)
        PROVE  IInv'
    BY <1>1, Creates, OpensForRead, OpensForWrite, Removes
  <1>2. ASSUME NEW n \in nodes, FSOOpen(n) PROVE IInv'
    BY <1>2, OpensListed
  <1>3. ASSUME StreamNext PROVE IInv'
    <2>1. PICK s \in Open :
            \/ Close(s)
            \/ HookFlush(s)
            \/ Flush(s)
            \/ \E k \in ReadSizes : Read(s, k)
            \/ \E chunk \in Chunks : Write(s, chunk)
            \/ \E at \in SeekFrom(s), by \in SeekBy : Seek(s, at + by)
      BY <1>3 DEF StreamNext
    <2>2. DataInv' /\ StreamsInv'
      <3>1. CASE Close(s)
        BY <1>0, <3>1, Closes
      <3>2. CASE HookFlush(s)
        BY <1>0, <3>2, Hooks
      <3>3. CASE Flush(s)
        BY <1>0, <3>3, Flushes
      <3>4. CASE \E k \in ReadSizes : Read(s, k)
        BY <1>0, <3>4, Reading
      <3>5. CASE \E chunk \in Chunks : Write(s, chunk)
        BY <1>0, <3>5, Writing
      <3>6. CASE \E at \in SeekFrom(s), by \in SeekBy : Seek(s, at + by)
        BY <1>0, <3>6, Seeks
      <3> QED
        BY <2>1, <3>1, <3>2, <3>3, <3>4, <3>5, <3>6
    <2>3. UNCHANGED treeVars
      BY <2>1 DEF Close, HookFlush, Flush, Read, Write, Seek
    <2>4. LinksInv' /\ NamesInv'
      BY <1>0, <2>3, SameTree
    <2> QED
      BY <2>2, <2>4 DEF IInv
  <1>4. ASSUME UNCHANGED vars PROVE IInv'
    <2>1. UNCHANGED treeVars /\ data' = data /\ streams' = streams /\ nodes' = nodes
      BY <1>4 DEF vars, treeVars
    <2>2. LinksInv' /\ NamesInv'
      BY <1>0, <2>1, SameTree
    <2>3. DataInv' /\ StreamsInv'
      BY <1>0, <2>1 DEF DataInv, StreamsInv, Open
    <2> QED
      BY <2>2, <2>3 DEF IInv
  <1> QED
    BY <1>1, <1>2, <1>3, <1>4 DEF Next

-----------------------------------------------------------------------------
(* The first state: the standard files below the root, each with a stream  *)

(* There is room for the standard files and their streams.                 *)
LEMMA StdNumbers ==
  /\ Len(StdNames) \in Nat /\ Std = 1 .. Len(StdNames)
  /\ Len(StdNames) + 1 \in Ids /\ Std \subseteq StreamIds
  <1>1. Len(StdNames) \in Nat /\ Std = 1 .. Len(StdNames)
    <2>1. StdNames \in Seq(Range(StdNames))
      BY NamesAssumption
    <2> QED
      BY <2>1, LenProperties DEF Std
  <1>2. /\ MaxNodes \in Nat /\ MaxStreams \in Nat
        /\ Len(StdNames) < MaxNodes /\ Len(StdNames) <= MaxStreams
    BY BoundsAssumption
  <1> QED
    BY <1>1, <1>2 DEF Ids, StreamIds

(* The root is the first node, the standard files the next ones.           *)
First(m) ==
  /\ m \in Nat /\ m + 1 \in Ids /\ nodes = 1 .. m + 1 /\ nodes \subseteq Ids
  /\ parent \in [Ids -> nodes \cup {Null}] /\ child \in [Ids -> nodes \cup {Null}]
  /\ sibling \in [Ids -> nodes \cup {Null}] /\ DOMAIN name = Ids
  /\ \A n \in Ids : parent[n] = IF n \in 2 .. m + 1 THEN 1 ELSE 0
  /\ \A n \in Ids : child[n] = IF n = 1 /\ m > 0 THEN 2 ELSE 0
  /\ \A n \in Ids : sibling[n] = IF n \in 2 .. m THEN n + 1 ELSE 0

(* Init makes such a first state.                                          *)
LEMMA InitFirst ==
  ASSUME Init
  PROVE  /\ First(Len(StdNames))
         /\ \A n \in nodes \ {Root} : n - 1 \in Std /\ name[n] = StdNames[n - 1]
  <1> DEFINE m == Len(StdNames)
  <1>1. /\ m \in Nat /\ Std = 1 .. m /\ m + 1 \in Ids
    BY StdNumbers
  <1> HIDE DEF m
  <1>2. nodes = 1 .. m + 1
    <2>1. nodes = {1} \cup {s + 1 : s \in 1 .. m}
      BY <1>1 DEF Init, Root
    <2>2. \A n : n \in nodes <=> n \in 1 .. m + 1
      <3> TAKE n
      <3>1. ASSUME n \in nodes PROVE n \in 1 .. m + 1
        BY <1>1, <2>1, <3>1
      <3>2. ASSUME n \in 1 .. m + 1, n # 1 PROVE n - 1 \in 1 .. m /\ n = (n - 1) + 1
        BY <1>1, <3>2
      <3>3. ASSUME n \in 1 .. m + 1 PROVE n \in nodes
        BY <2>1, <3>2, <3>3
      <3> QED
        BY <3>1, <3>3
    <2> QED
      BY <2>2
  <1>3. nodes \subseteq Ids
    <2>1. m + 1 <= MaxNodes /\ MaxNodes \in Int
      BY <1>1, BoundsAssumption DEF Ids
    <2>2. \A n \in 1 .. m + 1 : n \in 1 .. MaxNodes
      BY <1>1, <2>1
    <2> QED
      BY <1>2, <2>2 DEF Ids
  <1>4. \A n : n \in nodes \ {Root} <=> n \in 2 .. m + 1
    BY <1>1, <1>2 DEF Root
  <1>5. Std # {} <=> m > 0
    <2>1. m > 0 => 1 \in 1 .. m
      BY <1>1
    <2>2. \A s \in 1 .. m : m > 0
      BY <1>1
    <2> QED
      BY <1>1, <2>1, <2>2
  <1>6. /\ parent = [n \in Ids |-> IF n \in nodes \ {Root} THEN Root ELSE Null]
        /\ child = [n \in Ids |-> IF n = Root /\ Std # {} THEN Root + 1 ELSE Null]
        /\ sibling = [n \in Ids |-> IF n \in nodes \ {Root} /\ n + 1 \in nodes
                              THEN n + 1 ELSE Null]
        /\ name = [n \in Ids |-> IF n \in nodes \ {Root} THEN StdNames[n - 1] ELSE ""]
    BY DEF Init
  <1>7. \A n \in Ids : parent[n] = IF n \in 2 .. m + 1 THEN 1 ELSE 0
    BY <1>4, <1>6 DEF Root, Null
  <1>8. \A n \in Ids : child[n] = IF n = 1 /\ m > 0 THEN 2 ELSE 0
    <2>1. CASE m > 0
      <3>1. child = [n \in Ids |-> IF n = Root THEN Root + 1 ELSE Null]
        BY <1>5, <1>6, <2>1
      <3>2. Root = 1 /\ Root + 1 = 2 /\ Null = 0
        BY DEF Root, Null
      <3> QED
        BY <2>1, <3>1, <3>2
    <2>2. CASE ~(m > 0)
      <3>1. child = [n \in Ids |-> Null]
        BY <1>5, <1>6, <2>2
      <3> QED
        BY <2>2, <3>1 DEF Null
    <2> QED
      BY <2>1, <2>2
  <1>9. \A n \in Ids : sibling[n] = IF n \in 2 .. m THEN n + 1 ELSE 0
    <2>1. \A n \in Ids : n \in nodes \ {Root} /\ n + 1 \in nodes <=> n \in 2 .. m
      BY <1>1, <1>2, <1>4 DEF Ids
    <2> QED
      BY <1>6, <2>1 DEF Null
  <1>10. DOMAIN name = Ids /\ DOMAIN parent = Ids /\ DOMAIN child = Ids /\ DOMAIN sibling = Ids
    BY <1>6
  <1>11. /\ parent = [n \in Ids |-> parent[n]] /\ child = [n \in Ids |-> child[n]]
         /\ sibling = [n \in Ids |-> sibling[n]]
    BY <1>6
  <1>12. ASSUME NEW n \in Ids
         PROVE  /\ parent[n] \in nodes \cup {Null} /\ child[n] \in nodes \cup {Null}
                /\ sibling[n] \in nodes \cup {Null}
    <2>1. parent[n] \in nodes \cup {Null}
      BY <1>1, <1>2, <1>7 DEF Null
    <2>2. child[n] \in nodes \cup {Null}
      BY <1>1, <1>2, <1>8 DEF Null
    <2>3. sibling[n] \in nodes \cup {Null}
      <3>1. CASE n \in 2 .. m
        <4>1. n + 1 \in 1 .. m + 1
          BY <1>1, <3>1
        <4> QED
          BY <1>2, <1>9, <3>1, <4>1
      <3>2. CASE n \notin 2 .. m
        BY <1>9, <3>2 DEF Null
      <3> QED
        BY <3>1, <3>2
    <2> QED
      BY <2>1, <2>2, <2>3
  <1>13. ASSUME NEW n \in nodes \ {Root} PROVE n - 1 \in Std /\ name[n] = StdNames[n - 1]
    <2>1. n \in 2 .. m + 1
      BY <1>4
    <2>2. n - 1 \in Std
      BY <1>1, <2>1
    <2> QED
      BY <1>3, <1>6, <2>2
  <1>14. First(m)
    BY <1>1, <1>2, <1>3, <1>7, <1>8, <1>9, <1>10, <1>11, <1>12 DEF First
  <1> QED
    BY <1>13, <1>14 DEF m

(* In the first state the links end.                                       *)
LEMMA FirstEnds ==
  ASSUME NEW m, First(m)
  PROVE  Acyclic
  <1>0. /\ m \in Nat /\ MaxNodes \in Nat /\ m + 1 <= MaxNodes
        /\ \A n \in Ids : n \in Nat /\ 1 <= n /\ n <= MaxNodes
    BY BoundsAssumption DEF First, Ids
  <1>1. ASSUME NEW S \in SUBSET Ids, S # {} PROVE \E k \in S : parent[k] \notin S
    <2>1. SUFFICES ASSUME \A k \in S : parent[k] \in S PROVE FALSE
      OBVIOUS
    <2>2. PICK k \in S : TRUE
      BY <1>1
    <2>3. \A n \in Ids : parent[n] \in Ids => parent[n] = 1 /\ parent[1] = 0
      <3>1. 1 \notin 2 .. m + 1 /\ 1 \in Ids /\ 0 \notin Ids
        BY <1>0 DEF Ids
      <3> QED
        BY <3>1 DEF First
    <2>4. 0 \notin S
      BY <1>0
    <2> QED
      BY <2>1, <2>2, <2>3, <2>4
  <1>2. ASSUME NEW S \in SUBSET Ids, S # {} PROVE \E k \in S : sibling[k] \notin S
    <2> DEFINE T == {MaxNodes - k : k \in S}
    <2>1. T \subseteq Nat /\ T # {}
      BY <1>0, <1>2
    <2>2. PICK t \in T : \A u \in T : t <= u
      <3> HIDE DEF T
      <3> QED
        BY <2>1, MinimalNat
    <2>3. PICK k \in S : t = MaxNodes - k
      OBVIOUS
    <2>4. ASSUME sibling[k] \in S PROVE FALSE
      <3>1. k \in Ids /\ sibling[k] \in Ids
        BY <2>4
      <3>2. sibling[k] = k + 1
        BY <1>0, <3>1 DEF First
      <3>3. MaxNodes - (k + 1) \in T
        BY <2>4, <3>2
      <3>4. t <= MaxNodes - (k + 1)
        BY <2>2, <3>3
      <3> HIDE DEF T
      <3> QED
        BY <1>0, <2>3, <3>1, <3>4
    <2> QED
      BY <2>4
  <1>3. ASSUME NEW S \in SUBSET Ids, S # {}
        PROVE  \E k \in S : \A l \in S : sibling[l] # k
    <2>1. PICK k \in S : \A l \in S : k <= l
      <3>1. S \subseteq Nat
        BY <1>0
      <3> QED
        BY <1>3, <3>1, MinimalNat
    <2>2. ASSUME NEW l \in S, sibling[l] = k PROVE FALSE
      <3>1. k \in Ids /\ l \in Ids /\ k # 0
        BY <1>0
      <3>2. k = l + 1
        BY <2>2, <3>1 DEF First
      <3>3. k <= l
        BY <2>1
      <3> QED
        BY <1>0, <3>1, <3>2, <3>3
    <2> QED
      BY <2>2
  <1> QED
    BY <1>1, <1>2, <1>3 DEF Acyclic, Ends, Begins

(* The first state is a tree.                                              *)
LEMMA FirstLinks ==
  ASSUME NEW m, First(m)
  PROVE  LinksInv
  <1>0. /\ m \in Nat /\ \A n \in Ids : n \in Nat /\ 1 <= n
        /\ nodes = 1 .. m + 1 /\ nodes \subseteq Ids /\ Root = 1 /\ Null = 0
    BY DEF First, Ids, Root, Null
  <1>f. /\ \A n \in Ids : parent[n] = IF n \in 2 .. m + 1 THEN 1 ELSE 0
        /\ \A n \in Ids : child[n] = IF n = 1 /\ m > 0 THEN 2 ELSE 0
        /\ \A n \in Ids : sibling[n] = IF n \in 2 .. m THEN n + 1 ELSE 0
    BY DEF First
  <1>1. Links
    <2>1. 1 \in nodes
      BY <1>0
    <2> QED
      BY <1>0, <2>1 DEF Links, First
  <1>2. Blank
    <2>1. \A n \in nodes \ {1} : n \in 2 .. m + 1
      BY <1>0
    <2>2. \A n \in Ids \ nodes : n \notin 2 .. m + 1 /\ n # 1 /\ n \notin 2 .. m
      BY <1>0
    <2>3. 1 \in Ids /\ 1 \notin 2 .. m + 1 /\ 1 \notin 2 .. m
      BY <1>0
    <2>4. parent[1] = 0 /\ sibling[1] = 0
      BY <1>f, <2>3
    <2>5. \A n \in nodes \ {1} : parent[n] # 0
      BY <1>0, <1>f, <2>1
    <2>6. \A n \in Ids \ nodes : parent[n] = 0 /\ child[n] = 0 /\ sibling[n] = 0
      BY <1>f, <2>2
    <2> QED
      BY <1>0, <2>4, <2>5, <2>6 DEF Blank
  <1>3. Family
    <2>1. ASSUME NEW n \in nodes, child[n] # 0 PROVE parent[child[n]] = n
      <3>1. n \in Ids /\ child[n] = 2 /\ n = 1 /\ m > 0
        BY <1>0, <1>f, <2>1
      <3>2. 2 \in nodes /\ 2 \in 2 .. m + 1
        BY <1>0, <3>1
      <3> QED
        BY <1>0, <1>f, <3>1, <3>2
    <2>2. ASSUME NEW n \in nodes, sibling[n] # 0 PROVE parent[sibling[n]] = parent[n]
      <3>1. n \in Ids /\ sibling[n] = n + 1 /\ n \in 2 .. m
        BY <1>0, <1>f, <2>2
      <3>2. n + 1 \in nodes /\ n + 1 \in 2 .. m + 1 /\ n \in 2 .. m + 1
        BY <1>0, <3>1
      <3> QED
        BY <1>0, <1>f, <3>1, <3>2
    <2> QED
      BY <1>0, <2>1, <2>2 DEF Family
  <1>4. Lists
    <2>1. ASSUME NEW k \in nodes \ {Root}
          PROVE  child[parent[k]] = k \/ \E l \in nodes : sibling[l] = k
      <3>1. k \in Int /\ 2 <= k /\ k <= m + 1 /\ k \in Ids /\ k \in 2 .. m + 1
        BY <1>0
      <3>2. parent[k] = 1
        BY <1>f, <3>1
      <3>3. CASE k = 2
        <4>1. m > 0 /\ 1 \in Ids
          BY <1>0, <3>1, <3>3
        <4> QED
          BY <1>f, <3>2, <3>3, <4>1
      <3>4. CASE k # 2
        <4>1. k - 1 \in 2 .. m /\ k - 1 \in nodes /\ (k - 1) + 1 = k
          BY <1>0, <3>1, <3>4
        <4>2. sibling[k - 1] = k
          BY <1>0, <1>f, <4>1
        <4> QED
          BY <4>1, <4>2
      <3> QED
        BY <3>3, <3>4
    <2>2. ASSUME NEW l \in nodes, NEW n \in nodes, child[n] # 0 PROVE sibling[l] # child[n]
      <3>1. n \in Ids /\ l \in Ids /\ child[n] = 2
        BY <1>0, <1>f, <2>2
      <3>2. sibling[l] # 2
        <4>1. CASE l \in 2 .. m
          BY <1>f, <3>1, <4>1
        <4>2. CASE l \notin 2 .. m
          BY <1>f, <3>1, <4>2
        <4> QED
          BY <4>1, <4>2
      <3> QED
        BY <3>1, <3>2
    <2>3. ASSUME NEW l \in nodes, NEW n \in nodes, sibling[l] = sibling[n], sibling[l] # 0
          PROVE  l = n
      <3>1. n \in Ids /\ l \in Ids
        BY <1>0
      <3>2. sibling[l] = l + 1 /\ sibling[n] = n + 1
        BY <1>f, <2>3, <3>1
      <3>3. l \in Int /\ n \in Int
        BY <1>0, <3>1
      <3>4. l + 1 = n + 1
        BY <2>3, <3>2
      <3> QED
        BY <3>3, <3>4
    <2> QED
      BY <1>0, <2>1, <2>2, <2>3 DEF Lists
  <1> QED
    BY <1>1, <1>2, <1>3, <1>4, FirstEnds DEF LinksInv

(* The invariant holds at first.                                           *)
LEMMA InitInv ==
  ASSUME Init
  PROVE  IInv
  <1>1. /\ First(Len(StdNames)) /\ LinksInv
        /\ \A n \in nodes \ {Root} : n - 1 \in Std /\ name[n] = StdNames[n - 1]
    BY InitFirst, FirstLinks
  <1>2. \A n \in nodes \ {Root} : n \in Int
    BY <1>1 DEF First
  <1>3. NamesInv
    <2>1. ASSUME NEW n \in nodes PROVE ~Odd(n)
      <3>1. n # Root => StdNames[n - 1] \in Range(StdNames)
        BY <1>1, NamesAssumption DEF Range, Std
      <3> QED
        BY <1>1, <3>1, NamesAssumption DEF Odd
    <2>2. ASSUME NEW k \in nodes \ {Root}, NEW m \in nodes \ {Root}, k # m
          PROVE  name[k] # name[m]
      <3>1. /\ k - 1 \in Std /\ m - 1 \in Std /\ k - 1 # m - 1
        BY <1>1, <1>2, <2>2
      <3>2. StdNames[k - 1] # StdNames[m - 1]
        BY <3>1, NamesAssumption DEF Std, IsInjective
      <3> QED
        BY <1>1, <3>2
    <2> QED
      BY <2>1, <2>2 DEF NamesInv
  <1>4. <<>> \in Seq(Bytes) /\ Len(<<>>) = 0 /\ 0 <= MaxData
    BY BoundsAssumption
  <1>5. data = [n \in Ids |-> <<>>] /\ streams = [s \in Std |-> NewStream(s + 1, TRUE)]
    BY DEF Init
  <1>6. DOMAIN data = Ids /\ \A n \in Ids : data[n] = <<>>
    BY <1>5
  <1>7. DataInv
    BY <1>4, <1>6 DEF DataInv
  <1>8. Open = Std /\ \A s \in Std : streams[s] = NewStream(s + 1, TRUE)
    BY <1>5 DEF Open
  <1>9. ASSUME NEW s \in Std
        PROVE  streams[s].file \in nodes /\ Fits(streams[s], data[streams[s].file])
    <2>1. s + 1 \in nodes /\ s + 1 \in Ids
      BY <1>1, StdNumbers DEF First
    <2>2. data[s + 1] = <<>>
      BY <1>6, <2>1
    <2> HIDE DEF First
    <2>3. Fits(NewStream(s + 1, TRUE), <<>>) /\ NewStream(s + 1, TRUE).file = s + 1
      <3> DEFINE n == s + 1
      <3>1. Fits(NewStream(n, TRUE), <<>>) /\ NewStream(n, TRUE).file = n
        <4> HIDE DEF n
        <4> QED
          BY <1>4, NewFits
      <3> QED
        BY <3>1
    <2> QED
      BY <1>8, <2>1, <2>2, <2>3
  <1>10. StreamsInv
    BY <1>8, <1>9, StdNumbers DEF StreamsInv
  <1> QED
    BY <1>1, <1>3, <1>7, <1>10 DEF IInv

-----------------------------------------------------------------------------
(* What the links come to: a tree whose nodes their paths lead to          *)

(* Everything is below the root.                                           *)
LEMMA AllBelowRoot ==
  ASSUME LinksInv
  PROVE  Subtree(Root) = nodes
  <1> DEFINE S == nodes \ Subtree(Root)
  <1>1. /\ Root \in Subtree(Root) /\ Subtree(Root) \subseteq nodes
        /\ \A k \in nodes \ {Root} : k \in Subtree(Root) <=> parent[k] \in Subtree(Root)
    BY LinkFacts, Subtrees
  <1>2. SUFFICES ASSUME S # {} PROVE FALSE
    BY <1>1
  <1>3. PICK k \in S : parent[k] \notin S
    <2>1. S \in SUBSET Ids
      BY LinkFacts
    <2> HIDE DEF S
    <2> QED
      BY <1>2, <2>1, Walkable DEF Ends
  <1>4. k \in nodes \ {Root} /\ parent[k] \in nodes
    BY <1>1, LinkFacts
  <1> QED
    BY <1>1, <1>3, <1>4

(* A sequence with one element in front.                                   *)
LEMMA Behind ==
  \A X : \A s \in Seq(X) : \A j \in X :
    /\ <<j>> \o s \in Seq(X) /\ Range(<<j>> \o s) = {j} \cup Range(s)
    /\ IsInjective(s) /\ j \notin Range(s) => IsInjective(<<j>> \o s)
  <1> TAKE X
  <1> TAKE s \in Seq(X)
  <1> TAKE j \in X
  <1> DEFINE t == <<j>> \o s
             n == Len(s)
  <1>1. /\ <<j>> \in Seq(X) /\ Len(<<j>>) = 1 /\ <<j>>[1] = j /\ n \in Nat
        /\ DOMAIN s = 1 .. n
    BY LenProperties
  <1>2. /\ t \in Seq(X) /\ Len(t) = 1 + n
        /\ \A i \in 1 .. 1 + n : t[i] = IF i <= 1 THEN <<j>>[i] ELSE s[i - 1]
    BY <1>1, ConcatProperties
  <1>3. DOMAIN t = 1 .. 1 + n
    BY <1>2, LenProperties
  <1> HIDE DEF t, n
  <1>4. t[1] = j
    BY <1>1, <1>2
  <1>5. \A i \in 2 .. 1 + n : t[i] = s[i - 1] /\ i - 1 \in 1 .. n
    BY <1>1, <1>2
  <1>6. \A i \in 1 .. n : t[i + 1] = s[i] /\ i + 1 \in 1 .. 1 + n
    <2> TAKE i \in 1 .. n
    <2>1. i + 1 \in 2 .. 1 + n /\ (i + 1) - 1 = i /\ i + 1 \in 1 .. 1 + n
      BY <1>1
    <2> QED
      BY <1>5, <2>1
  <1>7. \A i \in 1 .. 1 + n : i = 1 \/ i \in 2 .. 1 + n
    BY <1>1
  <1>8. 1 \in 1 .. 1 + n
    BY <1>1
  <1>9. Range(t) = {j} \cup Range(s)
    <2>1. ASSUME NEW x \in Range(t) PROVE x = j \/ x \in Range(s)
      <3>1. PICK i \in 1 .. 1 + n : x = t[i]
        BY <1>3, <2>1 DEF Range
      <3> QED
        BY <1>1, <1>4, <1>5, <1>7, <3>1 DEF Range
    <2>2. j \in Range(t)
      BY <1>3, <1>4, <1>8 DEF Range
    <2>3. ASSUME NEW x \in Range(s) PROVE x \in Range(t)
      <3>1. PICK i \in 1 .. n : x = s[i]
        BY <1>1, <2>3 DEF Range
      <3> QED
        BY <1>3, <1>6, <3>1 DEF Range
    <2> QED
      BY <2>1, <2>2, <2>3
  <1>10. ASSUME IsInjective(s), j \notin Range(s),
                NEW a \in 1 .. 1 + n, NEW b \in 1 .. 1 + n, t[a] = t[b]
         PROVE  a = b
    <2>1. \A i \in 2 .. 1 + n : t[i] # j
      BY <1>1, <1>5, <1>10 DEF Range
    <2>2. CASE a \in 2 .. 1 + n /\ b \in 2 .. 1 + n
      <3>1. s[a - 1] = s[b - 1] /\ a - 1 \in DOMAIN s /\ b - 1 \in DOMAIN s
        BY <1>1, <1>5, <1>10, <2>2
      <3>2. a - 1 = b - 1
        BY <1>10, <3>1 DEF IsInjective
      <3> QED
        BY <2>2, <3>2
    <2>3. CASE a = 1 \/ b = 1
      BY <1>4, <1>7, <1>10, <2>1, <2>3
    <2> QED
      BY <1>7, <2>2, <2>3
  <1>11. IsInjective(s) /\ j \notin Range(s) => IsInjective(t)
    BY <1>3, <1>10 DEF IsInjective
  <1> QED
    BY <1>2, <1>9, <1>11 DEF t

(* What Chain comes to, by a function of the node to start from.           *)
Chains(from, k) ==
  /\ Chain(sibling, k) = from[k]
  /\ from \in [Ids \cup {Null} -> Seq(Ids)]
  /\ from[Null] = <<>>
  /\ \A j \in Ids : from[j] = <<j>> \o from[sibling[j]]

(* Chain is one of these functions.                                        *)
LEMMA ChainDef ==
  ASSUME LinksInv
  PROVE  \A k : \E from : Chains(from, k)
  <1> TAKE k
  <1> DEFINE V == Seq(Ids)
             step == [j \in Ids |-> [v \in V |-> <<j>> \o v]]
             Is(f) == f = [j \in 0 .. MaxNodes |-> IF j = Null THEN <<>> ELSE <<j>> \o f[sibling[j]]]
             from == CHOOSE f : Is(f)
  <1>1. step \in [Ids -> [V -> V]] /\ <<>> \in V
    BY Behind
  <1>2. \A j \in Ids : \A v \in V : step[j][v] = <<j>> \o v
    OBVIOUS
  <1>3. Chain(sibling, k) = from[k]
    BY DEF Chain
  <1> HIDE DEF V, step
  <1>4. Walk(Ids, Null, sibling, V, <<>>, step)
    BY <1>1, Walkable DEF Walk
  <1>5. PICK f : Walks(f, Ids, Null, sibling, V, <<>>, step)
    BY <1>4, WalkExists
  <1>6. f \in [Ids \cup {Null} -> V] /\ f[Null] = <<>>
    BY <1>5 DEF Walks
  <1>7. ASSUME NEW j \in Ids PROVE f[j] = <<j>> \o f[sibling[j]]
    <2>1. f[j] = step[j][f[sibling[j]]]
      BY <1>5 DEF Walks
    <2>2. sibling[j] \in Ids \cup {Null}
      BY Walkable
    <2>3. f[sibling[j]] \in V
      BY <1>6, <2>2
    <2> QED
      BY <1>2, <2>1, <2>3
  <1>8. \A j \in Ids \cup {Null} : f[j] = IF j = Null THEN <<>> ELSE <<j>> \o f[sibling[j]]
    BY <1>6, <1>7, Walkable
  <1>9. Is(f)
    <2>1. f = [j \in 0 .. MaxNodes |-> f[j]]
      BY <1>6, Walkable
    <2> QED
      BY <1>8, <2>1, Walkable
  <1>10. Is(from)
    <2> HIDE DEF Is
    <2> QED
      BY <1>9
  <1> HIDE DEF from
  <1>11. /\ DOMAIN from = Ids \cup {Null} /\ from = [j \in Ids \cup {Null} |-> from[j]]
         /\ \A j \in Ids \cup {Null} : from[j] = IF j = Null THEN <<>> ELSE <<j>> \o from[sibling[j]]
    BY <1>10, Walkable
  <1>12. from[Null] = <<>> /\ \A j \in Ids : from[j] = <<j>> \o from[sibling[j]]
    BY <1>11, Walkable
  <1>13. \A j \in Ids : from[j] \in Seq(Ids)
    <2> DEFINE S == {j \in Ids : from[j] \notin Seq(Ids)}
    <2>1. SUFFICES ASSUME S # {} PROVE FALSE
      BY <2>1
    <2>2. PICK j \in S : sibling[j] \notin S
      <3>1. S \in SUBSET Ids
        OBVIOUS
      <3> HIDE DEF S
      <3> QED
        BY <2>1, <3>1, Walkable DEF Ends
    <2>3. sibling[j] \in Ids \cup {Null}
      BY Walkable
    <2>4. from[sibling[j]] \in Seq(Ids)
      <3>1. CASE sibling[j] = Null
        <4>1. <<>> \in Seq(Ids)
          OBVIOUS
        <4> QED
          BY <1>12, <3>1, <4>1
      <3>2. CASE sibling[j] # Null
        BY <2>2, <2>3, <3>2
      <3> QED
        BY <3>1, <3>2
    <2>5. from[j] \in Seq(Ids)
      BY <1>12, <2>4, Behind
    <2> QED
      BY <2>5
  <1>14. from \in [Ids \cup {Null} -> Seq(Ids)]
    <2>1. <<>> \in Seq(Ids)
      OBVIOUS
    <2>2. \A j \in Ids \cup {Null} : from[j] \in Seq(Ids)
      BY <1>12, <1>13, <2>1
    <2> QED
      BY <1>11, <2>2
  <1> QED
    BY <1>3, <1>12, <1>14 DEF Chains

(* A node's list of children has each of them once, and nobody else.       *)
LEMMA KidsFacts ==
  ASSUME LinksInv, NEW n \in nodes
  PROVE  /\ IsInjective(Kids(n))
         /\ Range(Kids(n)) = {k \in nodes : k # Root /\ parent[k] = n}
  <1>p. PICK from : Chains(from, child[n])
    BY ChainDef
  <1> DEFINE R(j) == Range(from[j])
  <1>c. \A j \in Ids : /\ Range(from[j]) = {j} \cup Range(from[sibling[j]])
                      /\ from[sibling[j]] \in Seq(Ids)
                      /\ from[j] = <<j>> \o from[sibling[j]]
    <2> TAKE j \in Ids
    <2>1. from[sibling[j]] \in Seq(Ids) /\ from[j] = <<j>> \o from[sibling[j]]
      BY <1>p, Walkable DEF Chains
    <2> QED
      BY <2>1, Behind
  <1>d. \A j \in Ids : j \in Range(from[j]) /\ sibling[j] \in Ids \cup {Null}
    BY <1>c, Walkable
  <1>1. Kids(n) = from[child[n]]
    BY <1>p DEF Chains, Kids
  <1>2. Range(from[Null]) = {} /\ IsInjective(from[Null])
    BY <1>p DEF Chains, Range, IsInjective
  <1>3. ASSUME NEW j \in Ids PROVE j \notin Range(from[sibling[j]])
    <2> DEFINE S == {k \in Ids : j \in Range(from[k])}
    <2>1. SUFFICES ASSUME j \in Range(from[sibling[j]]) PROVE FALSE
      OBVIOUS
    <2>2. j \in S /\ sibling[j] \in S
      BY <1>2, <1>d, <2>1
    <2>3. PICK k \in S : sibling[k] \notin S
      <3>1. S \in SUBSET Ids
        OBVIOUS
      <3> HIDE DEF S
      <3> QED
        BY <2>2, <3>1, Walkable DEF Ends
    <2>4. k # j
      BY <2>2, <2>3
    <2>5. j \in Range(from[sibling[k]])
      BY <1>c, <2>3, <2>4
    <2> QED
      BY <1>2, <1>d, <2>3, <2>5
  <1> DEFINE Right(j) == /\ IsInjective(from[j])
                         /\ \A k \in R(j) : /\ k \in nodes /\ parent[k] = parent[j]
                                            /\ sibling[k] # Null => sibling[k] \in R(j)
  <1>4. \A j \in nodes : Right(j)
    <2> DEFINE S == {j \in nodes : ~Right(j)}
    <2>1. SUFFICES ASSUME S # {} PROVE FALSE
      BY <2>1
    <2>2. PICK j \in S : sibling[j] \notin S
      <3>1. S \in SUBSET Ids
        BY LinkFacts
      <3> HIDE DEF S
      <3> QED
        BY <2>1, <3>1, Walkable DEF Ends
    <2>3. j \in nodes /\ j \in Ids /\ ~Right(j)
      BY <2>2, LinkFacts
    <2>4. /\ R(j) = {j} \cup R(sibling[j]) /\ from[sibling[j]] \in Seq(Ids)
          /\ from[j] = <<j>> \o from[sibling[j]]
      BY <1>c, <2>3
    <2>5. IsInjective(from[sibling[j]]) => IsInjective(from[j])
      BY <1>3, <2>3, <2>4, Behind
    <2>6. CASE sibling[j] = Null
      <3>1. R(j) = {j}
        BY <1>2, <2>4, <2>6
      <3> QED
        BY <1>2, <2>3, <2>5, <2>6, <3>1
    <2>7. CASE sibling[j] # Null
      <3>1. sibling[j] \in nodes /\ parent[sibling[j]] = parent[j]
        BY <2>3, <2>7, LinkFacts
      <3>2. Right(sibling[j])
        <4> HIDE DEF Right
        <4> QED
          BY <2>2, <3>1
      <3>3. sibling[j] \in R(sibling[j])
        <4>1. sibling[j] \in Ids
          BY <3>1, LinkFacts
        <4> QED
          BY <1>d, <4>1
      <3>4. Right(j)
        BY <2>3, <2>4, <2>5, <3>1, <3>2, <3>3
      <3> QED
        BY <2>3, <3>4
    <2> QED
      BY <2>6, <2>7
  <1>5. CASE child[n] = Null
    <2>1. \A k \in nodes : ~(k # Root /\ parent[k] = n)
      BY <1>5, HasChild
    <2> QED
      BY <1>1, <1>2, <1>5, <2>1
  <1>6. CASE child[n] # Null
    <2>1. child[n] \in nodes /\ parent[child[n]] = n /\ n # Null
      BY <1>6, LinkFacts
    <2>2. Right(child[n])
      <3> HIDE DEF Right
      <3> QED
        BY <1>4, <2>1
    <2>3. ASSUME NEW k \in R(child[n]) PROVE k \in nodes /\ k # Root /\ parent[k] = n
      BY <2>1, <2>2, LinkFacts
    <2>4. ASSUME NEW k \in nodes, k # Root, parent[k] = n PROVE k \in R(child[n])
      <3> DEFINE S == {l \in nodes \ {Root} : parent[l] = n /\ l \notin R(child[n])}
      <3>1. SUFFICES ASSUME S # {} PROVE FALSE
        BY <2>4, <3>1
      <3>2. PICK l \in S : \A m \in S : sibling[m] # l
        <4>1. S \in SUBSET Ids
          BY LinkFacts
        <4> HIDE DEF S
        <4> QED
          BY <3>1, <4>1 DEF LinksInv, Acyclic, Begins
      <3>3. child[n] \in R(child[n])
        <4>1. child[n] \in Ids
          BY <2>1, LinkFacts
        <4> QED
          BY <1>d, <4>1
      <3>4. l \in nodes \ {Root} /\ parent[l] = n /\ child[n] # l /\ l # Null
        BY <3>2, <3>3, LinkFacts
      <3>5. PICK m \in nodes : sibling[m] = l
        BY <3>4 DEF LinksInv, Lists
      <3>6. m # Root /\ parent[m] = n
        BY <3>4, <3>5, LinkFacts
      <3>7. m \in R(child[n])
        BY <3>2, <3>5, <3>6
      <3>8. l \in R(child[n])
        BY <2>2, <3>4, <3>5, <3>7
      <3> QED
        BY <3>2, <3>8
    <2>5. \A k : k \in R(child[n]) <=> k \in nodes /\ k # Root /\ parent[k] = n
      BY <2>3, <2>4
    <2>6. IsInjective(from[child[n]])
      BY <2>2
    <2> QED
      BY <1>1, <2>5, <2>6
  <1> QED
    BY <1>5, <1>6

(* What vfsNext and vfsChild come to, by a function of the node to try     *)
(* first.                                                                  *)
Skips(next) ==
  /\ next \in [Ids \cup {Null} -> Ids \cup {Null}]
  /\ next[Null] = Null
  /\ \A j \in Ids : next[j] = IF Hidden(name[j]) THEN next[sibling[j]] ELSE j
  /\ \A j \in Ids : NextShown(j) = next[sibling[j]]
  /\ \A n \in nodes : ChildShown(n) = next[child[n]]

(* There is such a function: every list of siblings ends.                  *)
LEMMA NextDef ==
  ASSUME LinksInv
  PROVE  \E next : Skips(next)
  <1> DEFINE V == Ids \cup {Null}
             step == [j \in Ids |-> [v \in V |-> IF Hidden(name[j]) THEN v ELSE j]]
             Is(f) == f = [k \in 0 .. MaxNodes |->
                             IF k = Null \/ ~Hidden(name[k]) THEN k ELSE f[sibling[k]]]
             next == CHOOSE f : Is(f)
  <1>1. step \in [Ids -> [V -> V]] /\ Null \in V
    OBVIOUS
  <1>2. \A j \in Ids : \A v \in V : step[j][v] = IF Hidden(name[j]) THEN v ELSE j
    OBVIOUS
  <1>3. \A j : NextShown(j) = next[sibling[j]]
    BY DEF NextShown
  <1> HIDE DEF step
  <1>4. Walk(Ids, Null, sibling, V, Null, step)
    BY <1>1, Walkable DEF Walk
  <1>5. PICK f : Walks(f, Ids, Null, sibling, V, Null, step)
    BY <1>4, WalkExists
  <1>6. f \in [V -> V] /\ f[Null] = Null
    BY <1>5 DEF Walks
  <1>7. ASSUME NEW j \in Ids PROVE f[j] = IF Hidden(name[j]) THEN f[sibling[j]] ELSE j
    <2>1. f[j] = step[j][f[sibling[j]]]
      BY <1>5 DEF Walks
    <2>2. f[sibling[j]] \in V
      BY <1>6, Walkable
    <2> QED
      BY <1>2, <2>1, <2>2
  <1>8. \A k \in V : f[k] = IF k = Null \/ ~Hidden(name[k]) THEN k ELSE f[sibling[k]]
    BY <1>6, <1>7, Walkable
  <1>9. Is(f)
    <2>1. f = [k \in 0 .. MaxNodes |-> f[k]]
      BY <1>6, Walkable
    <2> QED
      BY <1>8, <2>1, Walkable
  <1>10. Is(next)
    <2> HIDE DEF Is
    <2> QED
      BY <1>9
  <1> HIDE DEF next
  <1>11. /\ next = [k \in V |-> next[k]]
         /\ \A k \in V : next[k] = IF k = Null \/ ~Hidden(name[k]) THEN k ELSE next[sibling[k]]
    BY <1>10, Walkable
  <1>12. /\ next[Null] = Null
         /\ \A j \in Ids : next[j] = IF Hidden(name[j]) THEN next[sibling[j]] ELSE j
    BY <1>11, Walkable
  <1>13. \A j \in Ids : next[j] \in V
    <2> DEFINE S == {j \in Ids : next[j] \notin V}
    <2>1. SUFFICES ASSUME S # {} PROVE FALSE
      BY <2>1
    <2>2. PICK j \in S : sibling[j] \notin S
      <3>1. S \in SUBSET Ids
        OBVIOUS
      <3> HIDE DEF S
      <3> QED
        BY <2>1, <3>1, Walkable DEF Ends
    <2> QED
      BY <1>12, <2>2, Walkable
  <1>14. next \in [V -> V]
    BY <1>11, <1>12, <1>13
  <1>15. ASSUME NEW n \in nodes PROVE ChildShown(n) = next[child[n]]
    <2>1. child[n] = Null \/ child[n] \in Ids
      BY LinkFacts
    <2> QED
      BY <1>3, <1>12, <2>1, Walkable DEF ChildShown
  <1> QED
    BY <1>3, <1>12, <1>14, <1>15 DEF Skips

(* What a listing comes to, by a function of the node to start from.       *)
Shows(list) ==
  /\ list \in [Ids \cup {Null} -> Seq(Ids)]
  /\ list[Null] = <<>>
  /\ \A j \in Ids : list[j] = <<j>> \o list[NextShown(j)]
  /\ \A n : Listing(n) = list[ChildShown(n)]

(* There is such a function: from shown node to shown node, too, a list of *)
(* siblings ends.                                                          *)
LEMMA ListDef ==
  ASSUME LinksInv
  PROVE  \E list : Shows(list)
  <1>p. PICK next : Skips(next)
    BY NextDef
  <1> DEFINE V == Seq(Ids)
             hop == [j \in Ids |-> NextShown(j)]
             step == [j \in Ids |-> [v \in V |-> <<j>> \o v]]
             Is(f) == f = [j \in 0 .. MaxNodes |-> IF j = Null THEN <<>> ELSE <<j>> \o f[NextShown(j)]]
             list == CHOOSE f : Is(f)
  <1>1. step \in [Ids -> [V -> V]] /\ <<>> \in V
    BY Behind
  <1>2. \A j \in Ids : \A v \in V : step[j][v] = <<j>> \o v
    OBVIOUS
  <1>3. \A n : Listing(n) = list[ChildShown(n)]
    BY DEF Listing
  <1>4. \A j \in Ids : hop[j] = next[sibling[j]] /\ hop[j] \in Ids \cup {Null}
    BY <1>p, Walkable DEF Skips
  <1>5. hop \in [Ids -> Ids \cup {Null}] /\ \A j \in Ids : NextShown(j) = hop[j]
    BY <1>4
  <1> HIDE DEF V, step, hop
  <1>6. Ends(hop, Ids)
    <2> SUFFICES ASSUME NEW S \in SUBSET Ids, S # {}, \A k \in S : hop[k] \in S PROVE FALSE
      BY DEF Ends
    <2> DEFINE T == {j \in Ids : next[j] \in S}
    <2>1. next[Null] \notin S
      BY <1>p, Walkable DEF Skips
    <2>2. \A k \in S : sibling[k] \in T
      BY <1>4, <2>1, Walkable
    <2>3. \A j \in T : sibling[j] \in T
      <3> TAKE j \in T
      <3>1. CASE Hidden(name[j])
        <4>1. next[sibling[j]] \in S
          BY <1>p, <3>1 DEF Skips
        <4> QED
          BY <2>1, <4>1, Walkable
      <3>2. CASE ~Hidden(name[j])
        BY <1>p, <2>2, <3>2 DEF Skips
      <3> QED
        BY <3>1, <3>2
    <2>4. T \in SUBSET Ids /\ T # {}
      BY <2>2
    <2> HIDE DEF T
    <2> QED
      BY <2>3, <2>4, Walkable DEF Ends
  <1>7. Walk(Ids, Null, hop, V, <<>>, step)
    BY <1>1, <1>5, <1>6, Walkable DEF Walk
  <1>8. PICK f : Walks(f, Ids, Null, hop, V, <<>>, step)
    BY <1>7, WalkExists
  <1>9. f \in [Ids \cup {Null} -> V] /\ f[Null] = <<>>
    BY <1>8 DEF Walks
  <1>10. ASSUME NEW j \in Ids PROVE f[j] = <<j>> \o f[NextShown(j)]
    <2>1. f[j] = step[j][f[hop[j]]]
      BY <1>8 DEF Walks
    <2>2. f[hop[j]] \in V
      BY <1>4, <1>9
    <2> QED
      BY <1>2, <1>5, <2>1, <2>2
  <1>11. \A j \in Ids \cup {Null} : f[j] = IF j = Null THEN <<>> ELSE <<j>> \o f[NextShown(j)]
    BY <1>9, <1>10, Walkable
  <1>12. Is(f)
    <2>1. f = [j \in 0 .. MaxNodes |-> f[j]]
      BY <1>9, Walkable
    <2> QED
      BY <1>11, <2>1, Walkable
  <1>13. Is(list)
    <2> HIDE DEF Is
    <2> QED
      BY <1>12
  <1> HIDE DEF list
  <1>14. /\ list = [j \in Ids \cup {Null} |-> list[j]]
         /\ \A j \in Ids \cup {Null} : list[j] = IF j = Null THEN <<>> ELSE <<j>> \o list[NextShown(j)]
    BY <1>13, Walkable
  <1>15. list[Null] = <<>> /\ \A j \in Ids : list[j] = <<j>> \o list[NextShown(j)]
    BY <1>14, Walkable
  <1>16. \A j \in Ids : list[j] \in Seq(Ids)
    <2> DEFINE S == {j \in Ids : list[j] \notin Seq(Ids)}
    <2>1. SUFFICES ASSUME S # {} PROVE FALSE
      BY <2>1
    <2>2. PICK j \in S : hop[j] \notin S
      <3>1. S \in SUBSET Ids
        OBVIOUS
      <3> HIDE DEF S
      <3> QED
        BY <1>6, <2>1, <3>1 DEF Ends
    <2>3. <<>> \in Seq(Ids)
      OBVIOUS
    <2>4. list[hop[j]] \in Seq(Ids)
      BY <1>4, <1>15, <2>2, <2>3
    <2>5. list[j] \in Seq(Ids)
      <3>1. j \in Ids /\ list[j] = <<j>> \o list[hop[j]]
        BY <1>5, <1>15, <2>2
      <3> QED
        BY <2>4, <3>1, Behind
    <2> QED
      BY <2>2, <2>5
  <1>17. list \in [Ids \cup {Null} -> Seq(Ids)]
    <2>1. <<>> \in Seq(Ids)
      OBVIOUS
    <2>2. \A j \in Ids \cup {Null} : list[j] \in Seq(Ids)
      BY <1>15, <1>16, <2>1
    <2> QED
      BY <1>14, <2>2
  <1> QED
    BY <1>3, <1>15, <1>17 DEF Shows

(* With an element in front of the longer sequence, or in front of both,   *)
(* one still shows what the other shows in the same order.                 *)
LEMMA InFront ==
  \A X : \A s \in Seq(X) : \A t \in Seq(X) : \A x \in X :
    /\ InOrderOf(s, t) => InOrderOf(s, <<x>> \o t)
    /\ InOrderOf(s, t) /\ Range(s) \subseteq Range(t) => InOrderOf(<<x>> \o s, <<x>> \o t)
  <1> DEFINE Fronted(u, x, s) ==
               /\ DOMAIN u = 1 .. Len(s) + 1 /\ Len(s) \in Nat /\ DOMAIN s = 1 .. Len(s)
               /\ u[1] = x
               /\ \A i \in 1 .. Len(s) : u[i + 1] = s[i]
  <1>1. \A X : \A s \in Seq(X) : \A x \in X : Fronted(<<x>> \o s, x, s)
    <2> TAKE X
    <2> TAKE s \in Seq(X)
    <2> TAKE x \in X
    <2>1. /\ <<x>> \in Seq(X) /\ Len(<<x>>) = 1 /\ <<x>>[1] = x /\ Len(s) \in Nat
          /\ DOMAIN s = 1 .. Len(s)
      BY LenProperties
    <2> DEFINE u == <<x>> \o s
               n == Len(s)
    <2>2. /\ u \in Seq(X) /\ Len(u) = 1 + n
          /\ \A i \in 1 .. 1 + n : u[i] = IF i <= 1 THEN <<x>>[i] ELSE s[i - 1]
      BY <2>1, ConcatProperties
    <2>3. DOMAIN u = 1 .. 1 + n
      BY <2>2, LenProperties
    <2> HIDE DEF u, n
    <2>4. n \in Nat /\ 1 + n = n + 1
      BY <2>1 DEF n
    <2>5. u[1] = x
      BY <2>1, <2>2, <2>4
    <2>6. \A i \in 1 .. n : u[i + 1] = s[i]
      <3> TAKE i \in 1 .. n
      <3>1. i + 1 \in 1 .. 1 + n /\ ~(i + 1 <= 1) /\ (i + 1) - 1 = i
        BY <2>4
      <3> QED
        BY <2>2, <3>1
    <2>7. DOMAIN u = 1 .. n + 1 /\ n \in Nat /\ DOMAIN s = 1 .. n
      BY <2>1, <2>3, <2>4 DEF n
    <2> QED
      BY <2>5, <2>6, <2>7 DEF u, n
  <1>2. ASSUME NEW s, NEW t, NEW x, NEW u, Fronted(u, x, t), InOrderOf(s, t)
        PROVE  InOrderOf(s, u)
    <2> SUFFICES ASSUME NEW i \in DOMAIN s, NEW j \in DOMAIN s, i < j
                 PROVE  \E a, b \in DOMAIN u : a < b /\ u[a] = s[i] /\ u[b] = s[j]
      BY DEF InOrderOf
    <2>1. PICK a \in DOMAIN t, b \in DOMAIN t : a < b /\ t[a] = s[i] /\ t[b] = s[j]
      BY <1>2 DEF InOrderOf
    <2>2. a + 1 \in DOMAIN u /\ b + 1 \in DOMAIN u /\ a + 1 < b + 1
      BY <1>2, <2>1
    <2>3. u[a + 1] = s[i] /\ u[b + 1] = s[j]
      BY <1>2, <2>1
    <2> QED
      BY <2>2, <2>3
  <1>3. ASSUME NEW s, NEW t, NEW x, NEW u, NEW v, Fronted(u, x, t), Fronted(v, x, s),
               InOrderOf(s, t), Range(s) \subseteq Range(t)
        PROVE  InOrderOf(v, u)
    <2> SUFFICES ASSUME NEW i \in DOMAIN v, NEW j \in DOMAIN v, i < j
                 PROVE  \E a, b \in DOMAIN u : a < b /\ u[a] = v[i] /\ u[b] = v[j]
      BY DEF InOrderOf
    <2>1. j - 1 \in DOMAIN s /\ (j - 1) + 1 = j
      BY <1>3
    <2>2. v[j] = s[j - 1]
      BY <1>3, <2>1
    <2>3. CASE i = 1
      <3>1. v[j] \in Range(t)
        BY <1>3, <2>1, <2>2 DEF Range
      <3>2. PICK b \in DOMAIN t : t[b] = v[j]
        BY <3>1 DEF Range
      <3>3. 1 \in DOMAIN u /\ b + 1 \in DOMAIN u /\ 1 < b + 1
        BY <1>3, <3>2
      <3>4. u[1] = v[i] /\ u[b + 1] = v[j]
        BY <1>3, <2>3, <3>2
      <3> QED
        BY <3>3, <3>4
    <2>4. CASE i # 1
      <3>1. i - 1 \in DOMAIN s /\ (i - 1) + 1 = i /\ i - 1 < j - 1
        BY <1>3, <2>4
      <3>2. v[i] = s[i - 1]
        BY <1>3, <3>1
      <3>3. PICK a \in DOMAIN t, b \in DOMAIN t : a < b /\ t[a] = s[i - 1] /\ t[b] = s[j - 1]
        BY <1>3, <2>1, <3>1 DEF InOrderOf
      <3>4. a + 1 \in DOMAIN u /\ b + 1 \in DOMAIN u /\ a + 1 < b + 1
        BY <1>3, <3>3
      <3>5. u[a + 1] = v[i] /\ u[b + 1] = v[j]
        BY <1>3, <2>2, <3>2, <3>3
      <3> QED
        BY <3>4, <3>5
    <2> QED
      BY <2>3, <2>4
  <1> HIDE DEF Fronted
  <1> QED
    BY <1>1, <1>2, <1>3

(* A listing has the children that are not hidden, in their order.         *)
LEMMA ListingFacts ==
  ASSUME LinksInv, NEW n \in nodes
  PROVE  /\ Range(Listing(n)) = {k \in Range(Kids(n)) : ~Hidden(name[k])}
         /\ InOrderOf(Listing(n), Kids(n))
  <1>1. PICK next : Skips(next)
    BY NextDef
  <1>2. PICK list : Shows(list)
    BY ListDef
  <1>3. PICK from : Chains(from, child[n])
    BY ChainDef
  <1> DEFINE Good(j) == /\ Range(list[next[j]]) = {k \in Range(from[j]) : ~Hidden(name[k])}
                        /\ InOrderOf(list[next[j]], from[j])
  <1>4. Good(Null)
    <2>1. list[next[Null]] = <<>> /\ from[Null] = <<>>
      BY <1>1, <1>2, <1>3 DEF Skips, Shows, Chains
    <2> QED
      BY <2>1 DEF Range, InOrderOf
  <1>5. ASSUME NEW j \in Ids, Good(sibling[j]) PROVE Good(j)
    <2> DEFINE rest == from[sibling[j]]
               shown == list[next[sibling[j]]]
    <2>1. /\ sibling[j] \in Ids \cup {Null} /\ rest \in Seq(Ids) /\ from[j] = <<j>> \o rest
          /\ next[sibling[j]] \in Ids \cup {Null} /\ shown \in Seq(Ids)
      BY <1>1, <1>2, <1>3, Walkable DEF Skips, Shows, Chains
    <2>2. Range(shown) = {k \in Range(rest) : ~Hidden(name[k])} /\ InOrderOf(shown, rest)
      BY <1>5
    <2>3. CASE Hidden(name[j])
      <3>1. list[next[j]] = shown
        BY <1>1, <2>3 DEF Skips
      <3> HIDE DEF rest, shown
      <3>2. Range(from[j]) = {j} \cup Range(rest)
        BY <2>1, Behind
      <3>3. InOrderOf(shown, <<j>> \o rest)
        BY <2>1, <2>2, InFront
      <3> QED
        BY <2>1, <2>2, <2>3, <3>1, <3>2, <3>3
    <2>4. CASE ~Hidden(name[j])
      <3>1. list[next[j]] = <<j>> \o shown
        BY <1>1, <1>2, <2>4 DEF Skips, Shows
      <3> HIDE DEF rest, shown
      <3>2. Range(from[j]) = {j} \cup Range(rest) /\ Range(list[next[j]]) = {j} \cup Range(shown)
        BY <2>1, <3>1, Behind
      <3>3. InOrderOf(<<j>> \o shown, <<j>> \o rest)
        BY <2>1, <2>2, InFront
      <3> QED
        BY <2>1, <2>2, <2>4, <3>1, <3>2, <3>3
    <2> QED
      BY <2>3, <2>4
  <1>6. \A j \in Ids : Good(j)
    <2> HIDE DEF Good
    <2> DEFINE S == {j \in Ids : ~Good(j)}
    <2>1. SUFFICES ASSUME S # {} PROVE FALSE
      BY <2>1
    <2>2. PICK j \in S : sibling[j] \notin S
      <3>1. S \in SUBSET Ids
        OBVIOUS
      <3> HIDE DEF S
      <3> QED
        BY <2>1, <3>1, Walkable DEF Ends
    <2>3. Good(sibling[j])
      BY <1>4, <2>2, Walkable
    <2> QED
      BY <1>5, <2>2, <2>3
  <1>7. child[n] \in Ids \cup {Null}
    BY LinkFacts
  <1>8. Good(child[n])
    <2> HIDE DEF Good
    <2> QED
      BY <1>4, <1>6, <1>7
  <1>9. Listing(n) = list[next[child[n]]] /\ Kids(n) = from[child[n]]
    BY <1>1, <1>2, <1>3 DEF Skips, Shows, Chains, Kids
  <1> QED
    BY <1>8, <1>9

(* What PathOf comes to, by a function of the node to lead to.             *)
Ways(path) ==
  /\ \A n : PathOf(n) = path[n]
  /\ path \in [Ids \cup {Null} -> Seq({name[j] : j \in Ids})]
  /\ path[Root] = <<>>
  /\ \A j \in Ids \ {Root} : path[j] = Append(path[parent[j]], name[j])

(* A sequence with one element behind.                                     *)
LEMMA Appends ==
  \A X : \A s \in Seq(X) : \A x \in X :
    /\ Append(s, x) \in Seq(X) /\ Longer(Append(s, x), s)
    /\ Append(s, x)[Len(Append(s, x))] = x
  BY DEF Longer

(* PathOf is one of these functions.                                       *)
LEMMA WaysDef ==
  ASSUME LinksInv
  PROVE  \E path : Ways(path)
  <1> DEFINE X == {name[j] : j \in Ids}
             V == Seq(X)
             step == [j \in Ids |-> [v \in V |-> IF j = Root THEN <<>> ELSE Append(v, name[j])]]
             Is(f) == f = [k \in 0 .. MaxNodes |-> IF k \in {Null, Root} THEN <<>>
                                                   ELSE Append(f[parent[k]], name[k])]
             path == CHOOSE f : Is(f)
  <1>a. <<>> \in V /\ \A j \in Ids : \A v \in V : Append(v, name[j]) \in V
    <2>1. \A j \in Ids : name[j] \in X
      OBVIOUS
    <2>2. <<>> \in V
      OBVIOUS
    <2> HIDE DEF X
    <2> QED
      BY <2>1, <2>2, Appends
  <1>3. \A n : PathOf(n) = path[n]
    BY DEF PathOf
  <1> HIDE DEF V, X
  <1>1. step \in [Ids -> [V -> V]]
    BY <1>a
  <1>2. \A j \in Ids : \A v \in V : step[j][v] = IF j = Root THEN <<>> ELSE Append(v, name[j])
    OBVIOUS
  <1> HIDE DEF step
  <1>4. Walk(Ids, Null, parent, V, <<>>, step)
    BY <1>a, <1>1, Walkable DEF Walk
  <1>5. PICK f : Walks(f, Ids, Null, parent, V, <<>>, step)
    BY <1>4, WalkExists
  <1>6. f \in [Ids \cup {Null} -> V] /\ f[Null] = <<>>
    BY <1>5 DEF Walks
  <1>7. ASSUME NEW j \in Ids
        PROVE  f[j] = IF j = Root THEN <<>> ELSE Append(f[parent[j]], name[j])
    <2>1. f[j] = step[j][f[parent[j]]]
      BY <1>5 DEF Walks
    <2>2. parent[j] \in Ids \cup {Null}
      BY Walkable
    <2>3. f[parent[j]] \in V
      BY <1>6, <2>2
    <2> QED
      BY <1>2, <2>1, <2>3
  <1>8. \A j \in Ids \cup {Null} : f[j] = IF j \in {Null, Root} THEN <<>>
                                          ELSE Append(f[parent[j]], name[j])
    BY <1>6, <1>7, Walkable
  <1>9. Is(f)
    <2>1. f = [j \in 0 .. MaxNodes |-> f[j]]
      BY <1>6, Walkable
    <2> QED
      BY <1>8, <2>1, Walkable
  <1>10. Is(path)
    <2> HIDE DEF Is
    <2> QED
      BY <1>9
  <1> HIDE DEF path
  <1>11. /\ DOMAIN path = Ids \cup {Null} /\ path = [j \in Ids \cup {Null} |-> path[j]]
         /\ \A j \in Ids \cup {Null} : path[j] = IF j \in {Null, Root} THEN <<>>
                                                 ELSE Append(path[parent[j]], name[j])
    BY <1>10, Walkable
  <1>12. /\ path[Root] = <<>> /\ path[Null] = <<>>
         /\ \A j \in Ids \ {Root} : path[j] = Append(path[parent[j]], name[j])
    BY <1>11, Walkable
  <1>13. \A j \in Ids : path[j] \in V
    <2> DEFINE S == {j \in Ids : path[j] \notin V}
    <2>1. SUFFICES ASSUME S # {} PROVE FALSE
      BY <2>1
    <2>2. PICK j \in S : parent[j] \notin S
      <3>1. S \in SUBSET Ids
        OBVIOUS
      <3> HIDE DEF S
      <3> QED
        BY <2>1, <3>1, Walkable DEF Ends
    <2>3. parent[j] \in Ids \cup {Null}
      BY Walkable
    <2>4. path[parent[j]] \in V
      <3>1. CASE parent[j] = Null
        BY <1>a, <1>12, <3>1
      <3>2. CASE parent[j] # Null
        BY <2>2, <2>3, <3>2
      <3> QED
        BY <3>1, <3>2
    <2>5. path[j] \in V
      BY <1>a, <1>12, <2>4
    <2> QED
      BY <2>5
  <1>14. path \in [Ids \cup {Null} -> V]
    <2>1. \A j \in Ids \cup {Null} : path[j] \in V
      BY <1>a, <1>12, <1>13
    <2> QED
      BY <1>11, <2>1
  <1> QED
    BY <1>3, <1>12, <1>14 DEF Ways, V, X

(* Every node that a path can select is what its own path leads to.        *)
LEMMA WayBack ==
  ASSUME LinksInv, NamesInv, NEW n \in nodes, ~Odd(n)
  PROVE  GetPath(PathOf(n)) = n
  <1> DEFINE X == {name[j] : j \in Ids}
  <1>p. PICK path : Ways(path)
    BY WaysDef
  <1>1. /\ PathOf(n) = path[n] /\ path[Root] = <<>>
        /\ \A j \in Ids : path[j] \in Seq(X)
        /\ \A j \in Ids \ {Root} : path[j] = Append(path[parent[j]], name[j])
    BY <1>p DEF Ways
  <1>2. \A j \in Ids : name[j] \in X
    OBVIOUS
  <1> HIDE DEF X
  <1> DEFINE S == {j \in nodes : ~Odd(j) /\ GetPath(path[j]) # j}
  <1>3. SUFFICES ASSUME S # {} PROVE FALSE
    BY <1>1, <1>3
  <1>4. PICK k \in S : parent[k] \notin S
    <2>1. S \in SUBSET Ids
      BY LinkFacts
    <2> HIDE DEF S
    <2> QED
      BY <1>3, <2>1, Walkable DEF Ends
  <1>5. k \in nodes /\ k \in Ids /\ ~Odd(k) /\ GetPath(path[k]) # k
    BY <1>4, LinkFacts
  <1>6. CASE k = Root
    <2>1. path[k] = <<>> /\ path[k] \in Seq(X)
      BY <1>1, <1>5, <1>6
    <2>2. PICK at : Leads(at, path[k])
      BY <2>1, PathDef
    <2>3. GetPath(path[k]) = at[0] /\ at[0] = Root
      <3>1. Len(path[k]) = 0
        BY <2>1
      <3> QED
        BY <2>2, <3>1 DEF Leads
    <2> QED
      BY <1>5, <1>6, <2>3
  <1>7. CASE k # Root
    <2> DEFINE q == parent[k]
               c == name[k]
    <2>1. q \in nodes /\ q \in Ids /\ q # Null /\ child[q] # Null
      BY <1>5, <1>7, LinkFacts, HasChild
    <2>2. ~Odd(q)
      BY <2>1 DEF NamesInv
    <2>3. GetPath(path[q]) = q
      BY <1>4, <2>1, <2>2
    <2>4. /\ path[q] \in Seq(X) /\ c \in X /\ path[k] = Append(path[q], c)
      BY <1>1, <1>2, <1>5, <1>7, <2>1
    <2> HIDE DEF c, q
    <2>5. GetPath(path[k]) = StepInto(q, c)
      <3>1. /\ path[k] \in Seq(X) /\ Longer(path[k], path[q])
            /\ path[k][Len(path[k])] = c
        BY <2>4, Appends
      <3>2. GetPath(path[k]) = StepInto(GetPath(path[q]), path[k][Len(path[k])])
        BY <2>4, <3>1, PathStep
      <3> QED
        BY <2>3, <3>1, <3>2
    <2>6. c \notin {".", ".."}
      BY <1>5, <1>7 DEF Odd, c
    <2>7. StepInto(q, c) = FindChild(q, c)
      BY <2>1, <2>6 DEF StepInto
    <2>8. FindChild(q, c) # Null
      BY <1>5, <1>7, <2>1, FindsChild DEF c, q
    <2>9. /\ FindChild(q, c) \in nodes \ {Root}
          /\ parent[FindChild(q, c)] = q /\ name[FindChild(q, c)] = c
      BY <2>1, <2>8, FindsChild
    <2>10. FindChild(q, c) = k
      BY <1>5, <1>7, <2>9 DEF NamesInv, q, c
    <2> QED
      BY <1>5, <2>5, <2>7, <2>10
  <1> QED
    BY <1>6, <1>7

(* The bytes of a stream are a text.                                       *)
LEMMA SomeText ==
  \A bytes \in Seq(Bytes) :
    Len(bytes) <= MaxData => bytes \in Texts /\ Range(bytes) \subseteq Bytes
  <1> TAKE bytes \in Seq(Bytes)
  <1> HAVE Len(bytes) <= MaxData
  <1>1. /\ Len(bytes) \in Nat /\ bytes \in [1 .. Len(bytes) -> Bytes]
    BY LenProperties
  <1>2. Len(bytes) \in 0 .. MaxData
    BY <1>1, BoundsAssumption
  <1>3. bytes \in UNION {[1 .. m -> Bytes] : m \in 0 .. MaxData}
    BY <1>1, <1>2
  <1> QED
    BY <1>1, <1>3 DEF Texts, BoundedSeq, SeqOf, Range

(* So is a part of a file.                                                 *)
LEMMA PartText ==
  \A bytes \in Seq(Bytes) : \A i \in Nat : \A j \in 0 .. Len(bytes) :
    /\ Len(bytes) <= MaxData
    => SubSeq(bytes, i + 1, j) \in Texts
  <1> TAKE bytes \in Seq(Bytes)
  <1> TAKE i \in Nat
  <1> TAKE j \in 0 .. Len(bytes)
  <1> HAVE Len(bytes) <= MaxData
  <1> DEFINE r == SubSeq(bytes, i + 1, j)
  <1>0. Len(bytes) \in Nat /\ j \in Int /\ 0 <= j /\ j <= Len(bytes) /\ i + 1 \in Int
    OBVIOUS
  <1>1. \A k \in i + 1 .. j : bytes[k] \in Bytes
    <2> TAKE k \in i + 1 .. j
    <2>1. k \in 1 .. Len(bytes)
      BY <1>0
    <2> QED
      BY <2>1, ElementOfSeq
  <1>2. r \in Seq(Bytes) /\ Len(r) = IF i + 1 <= j THEN j - (i + 1) + 1 ELSE 0
    BY <1>0, <1>1, SubSeqProperties
  <1> HIDE DEF r
  <1>3. Len(r) <= MaxData
    BY <1>0, <1>2, BoundsAssumption
  <1> QED
    BY <1>2, <1>3, SomeText DEF r

(* What a stream has read and what its hook has heard are texts.           *)
LEMMA StreamType ==
  ASSUME NEW st, NEW bytes \in Seq(Bytes), Len(bytes) <= MaxData, Fits(st, bytes)
  PROVE  st.heard \in Texts /\ st.got \in Texts
  <1>0. /\ Shape(st) /\ Hears(st, bytes) /\ Reads(st, bytes)
        /\ st.i \in Int /\ 0 <= st.i /\ st.from \in Nat
        /\ st.flushindex \in Int /\ 0 <= st.flushindex /\ Len(bytes) \in Nat
    BY DEF Fits, Shape, Position
  <1>1. <<>> \in Texts
    <2>1. <<>> \in Seq(Bytes) /\ Len(<<>>) <= MaxData
      BY BoundsAssumption
    <2> QED
      BY <2>1, SomeText
  <1>2. st.got \in Texts
    <2>1. CASE st.placed
      <3>1. st.i <= Len(bytes) /\ st.got = SubSeq(bytes, st.from + 1, st.i)
        BY <1>0, <2>1 DEF Reads
      <3>2. st.i \in 0 .. Len(bytes)
        BY <1>0, <3>1
      <3> QED
        BY <1>0, <3>1, <3>2, PartText
    <2>2. CASE ~st.placed
      BY <1>0, <1>1, <2>2 DEF Shape
    <2> QED
      BY <2>1, <2>2
  <1>3. st.heard \in Texts
    <2>1. CASE st.sole /\ st.hooked
      <3>1. /\ st.i = Len(bytes) /\ st.heard = Slice(bytes, 0, st.flushindex)
            /\ st.flushindex \in {0, st.i}
        BY <1>0, <2>1 DEF Hears
      <3>2. st.flushindex \in 0 .. Len(bytes) /\ 0 \in 0 .. st.flushindex
        BY <1>0, <3>1
      <3>3. st.heard = SubSeq(bytes, 0 + 1, st.flushindex)
        BY <3>1, <3>2, SliceIs
      <3> QED
        BY <3>2, <3>3, PartText
    <2>2. CASE ~(st.sole /\ st.hooked)
      BY <1>0, <1>1, <2>2 DEF Shape
    <2> QED
      BY <2>1, <2>2
  <1> QED
    BY <1>2, <1>3

(* The invariant gives the types.                                          *)
LEMMA Typed ==
  ASSUME IInv
  PROVE  TypeOK
  <1>0. LinksInv /\ NamesInv /\ DataInv /\ StreamsInv
    BY DEF IInv
  <1>1. /\ nodes \subseteq Ids /\ Root \in nodes /\ parent[Root] = Null
        /\ parent \in [Ids -> nodes \cup {Null}]
        /\ child \in [Ids -> nodes \cup {Null}]
        /\ sibling \in [Ids -> nodes \cup {Null}]
        /\ \A n \in Ids \ nodes : parent[n] = Null
    BY <1>0 DEF LinksInv, Links, Blank
  <1>2. \A n \in Ids : Len(data[n]) <= MaxData /\ Range(data[n]) \subseteq Bytes
    BY <1>0, SomeText DEF DataInv
  <1>3. \A n \in Ids \ nodes : data[n] = <<>>
    BY <1>0 DEF DataInv
  <1>4. ASSUME NEW s \in Open PROVE IsStream(streams[s])
    <2> DEFINE st == streams[s]
               bytes == data[st.file]
    <2>1. /\ st.file \in nodes /\ Fits(st, bytes) /\ bytes \in Seq(Bytes)
          /\ Len(bytes) <= MaxData
      BY <1>0, <1>1 DEF StreamsInv, DataInv
    <2>2. st.heard \in Texts /\ st.got \in Texts
      BY <2>1, StreamType
    <2>3. /\ st.i \in 0 .. MaxData /\ st.flushindex \in 0 .. MaxData /\ st.from \in 0 .. MaxData
          /\ st.hooked \in BOOLEAN /\ st.placed \in BOOLEAN /\ st.sole \in BOOLEAN
      BY <2>1 DEF Fits, Shape, Position
    <2> QED
      BY <2>1, <2>2, <2>3 DEF IsStream
  <1>5. Open \subseteq StreamIds
    BY <1>0 DEF StreamsInv
  <1> QED
    BY <1>1, <1>2, <1>3, <1>4, <1>5 DEF TypeOK

-----------------------------------------------------------------------------
(* The theorems                                                            *)

(* IInv holds in every state.                                              *)
THEOREM InvAlways == Spec => []IInv
  <1>1. Init => IInv
    BY InitInv
  <1>2. IInv /\ [Next]_vars => IInv'
    BY NextStep
  <1> QED
    BY <1>1, <1>2, PTL DEF Spec

(* TreeOK: the links that vfsAlloc and vfsFree make are one tree over the  *)
(* nodes, and vfsGetPath finds every node by its own path, whatever calls  *)
(* were made.                                                              *)
THEOREM TreeAlways == Spec => []TreeOK
  <1>1. ASSUME IInv PROVE TreeOK
    <2>1. LinksInv /\ NamesInv
      BY <1>1 DEF IInv
    <2>2. IsTree
      BY <2>1, AllBelowRoot, KidsFacts DEF IsTree
    <2>3. PathsResolve
      BY <2>1, WayBack DEF PathsResolve, NamesInv
    <2> QED
      BY <1>1, <2>2, <2>3, Typed DEF TreeOK
  <1> QED
    BY <1>1, InvAlways, PTL

(* ListingIsChildren: a listing shows the children of a directory, oldest  *)
(* first, each once, but for the standard files, wherever these are in the *)
(* list.                                                                   *)
THEOREM ListingAlways == Spec => []ListingIsChildren
  <1>1. IInv => ListingIsChildren
    BY ListingFacts DEF IInv, ListingIsChildren
  <1> QED
    BY <1>1, InvAlways, PTL

(* HookHearsFile: the hook of a stream that alone writes its file is given *)
(* every byte once and in order.                                           *)
THEOREM HooksAlways == Spec => []HookHearsFile
  <1>1. IInv => HookHearsFile
    BY DEF IInv, StreamsInv, Fits, Hears, HookHearsFile, Size
  <1> QED
    BY <1>1, InvAlways, PTL

(* ReadsFile: what a stream has read since it was set to a position is the *)
(* file from there.                                                        *)
THEOREM ReadsAlways == Spec => []ReadsFile
  <1>1. IInv => ReadsFile
    BY DEF IInv, StreamsInv, Fits, Reads, ReadsFile, Size
  <1> QED
    BY <1>1, InvAlways, PTL

-----------------------------------------------------------------------------
(* The tree implements FileStore                                           *)

Shown == {n \in nodes : ~Odd(n)}

(* The nodes' paths, step by step.                                         *)
WayTo == [n \in Ids |-> PathOf(n)]

WaysAre ==
  /\ WayTo[Root] = <<>>
  /\ \A j \in nodes \ {Root} : WayTo[j] = Append(WayTo[parent[j]], name[j])
  /\ \A j \in nodes : WayTo[j] \in Seq({name[k] : k \in Ids})

(* The store has the shown nodes' data at their paths, which differ.       *)
StoreIs ==
  /\ Store = [p \in {WayTo[n] : n \in Shown} |-> Store[p]]
  /\ \A n \in Shown : Store[WayTo[n]] = data[n]
  /\ \A m, n \in Shown : WayTo[m] = WayTo[n] => m = n

(* The parents of nodes are shown.                                         *)
ParentsShown ==
  Root \in Shown /\ \A j \in nodes \ {Root} : parent[j] \in Shown

(* What the invariant says of a state, as far as it matters for the store. *)
LEMMA StoreFacts ==
  IInv => LinksInv /\ WaysAre /\ StoreIs /\ ParentsShown
  <1> HAVE IInv
  <1>1. LinksInv /\ NamesInv /\ nodes \subseteq Ids /\ Root \in nodes
    BY LinkFacts DEF IInv
  <1>2. WaysAre
    <2>1. PICK path : Ways(path)
      BY <1>1, WaysDef
    <2>2. \A n \in Ids : WayTo[n] = path[n]
      BY <2>1 DEF Ways, WayTo
    <2>3. \A j \in nodes \ {Root} : parent[j] \in Ids
      BY <1>1, LinkFacts
    <2> QED
      BY <1>1, <2>1, <2>2, <2>3 DEF Ways, WaysAre
  <1>3. \A n \in Shown : /\ n \in nodes /\ WayTo[n] = PathOf(n)
                         /\ GetPath(WayTo[n]) = n /\ n # Null
    BY <1>1, WayBack, LinkFacts DEF Shown, WayTo
  <1>4. Store = [p \in {WayTo[n] : n \in Shown} |-> data[GetPath(p)]]
    <2>1. {PathOf(n) : n \in Shown} = {WayTo[n] : n \in Shown}
      BY <1>3
    <2>2. {p \in {PathOf(n) : n \in Shown} : GetPath(p) # Null} = {WayTo[n] : n \in Shown}
      BY <1>3, <2>1
    <2> QED
      BY <2>2 DEF Store, Shown
  <1>5. StoreIs
    <2>1. \A n \in Shown : Store[WayTo[n]] = data[n]
      BY <1>3, <1>4
    <2>2. \A m, n \in Shown : WayTo[m] = WayTo[n] => m = n
      BY <1>3
    <2>3. Store = [p \in {WayTo[n] : n \in Shown} |-> Store[p]]
      BY <1>4
    <2> QED
      BY <2>1, <2>2, <2>3 DEF StoreIs
  <1>6. ParentsShown
    <2>1. Root \in Shown
      BY <1>1, LinkFacts DEF Shown, Odd
    <2>2. ASSUME NEW j \in nodes \ {Root} PROVE parent[j] \in Shown
      BY <1>1, LinkFacts, HasChild DEF NamesInv, Shown
    <2> QED
      BY <2>1, <2>2 DEF ParentsShown
  <1> QED
    BY <1>1, <1>2, <1>5, <1>6

(* The nodes in K were and are there, with these names and parents, in K.  *)
Kept(K) ==
  /\ Root \in K /\ K \subseteq nodes /\ K \subseteq nodes'
  /\ \A j \in K \ {Root} : parent[j] \in K /\ parent'[j] = parent[j]
  /\ \A j \in K : name'[j] = name[j]

(* The paths of such nodes are as they were.                               *)
LEMMA PathsKept ==
  ASSUME LinksInv, WaysAre, WaysAre', NEW K, Kept(K)
  PROVE  \A j \in K : WayTo'[j] = WayTo[j] /\ (j \in Shown' <=> j \in Shown)
  <1> DEFINE S == {j \in K : WayTo'[j] # WayTo[j]}
  <1>1. \A j \in K : j \in Shown' <=> j \in Shown
    BY DEF Kept, Shown, Odd
  <1>2. ASSUME S # {} PROVE FALSE
    <2>1. PICK j \in S : parent[j] \notin S
      <3>1. S \in SUBSET Ids
        BY LinkFacts DEF Kept
      <3> HIDE DEF S
      <3> QED
        BY <1>2, <3>1, Walkable DEF Ends
    <2>2. j # Root
      BY <2>1 DEF WaysAre
    <2>3. /\ j \in nodes \ {Root} /\ j \in nodes' \ {Root} /\ parent[j] \in K
          /\ parent'[j] = parent[j] /\ name'[j] = name[j]
      BY <2>1, <2>2 DEF Kept
    <2>4. WayTo'[parent[j]] = WayTo[parent[j]]
      BY <2>1, <2>3
    <2>5. WayTo[j] = Append(WayTo[parent[j]], name[j])
      BY <2>3 DEF WaysAre
    <2>6. WayTo'[j] = Append(WayTo'[parent'[j]], name'[j])
      BY <2>3 DEF WaysAre
    <2> QED
      BY <2>1, <2>3, <2>4, <2>5, <2>6
  <1> QED
    BY <1>1, <1>2

(* What a step must be in terms of FileStore.                              *)
StoreStep == [File!Next]_Store

(* No node comes or goes, and the data of shown ones does not change.      *)
LEMMA NothingShown ==
  ASSUME IInv, IInv', Shown' = Shown, Kept(nodes), \A n \in Shown : data'[n] = data[n]
  PROVE  StoreStep
  <1>1. LinksInv /\ WaysAre /\ StoreIs
    BY StoreFacts
  <1>2. WaysAre' /\ StoreIs'
    BY StoreFacts, PTL
  <1>3. \A n \in Shown : WayTo'[n] = WayTo[n]
    BY <1>1, <1>2, PathsKept DEF Shown
  <1> DEFINE D == {WayTo[n] : n \in Shown}
  <1>4. D = {WayTo'[n] : n \in Shown'}
    BY <1>3
  <1>5. \A n \in Shown : Store'[WayTo[n]] = Store[WayTo[n]]
    BY <1>1, <1>2, <1>3 DEF StoreIs
  <1>6. \A p \in D : Store'[p] = Store[p]
    BY <1>5
  <1>7. Store = [p \in D |-> Store[p]]
    BY <1>1 DEF StoreIs
  <1>8. Store' = [p \in D |-> Store'[p]]
    BY <1>2, <1>4 DEF StoreIs
  <1> HIDE DEF D
  <1>9. Store' = Store
    BY <1>6, <1>7, <1>8
  <1> QED
    BY <1>9 DEF StoreStep

(* The names that paths lead to.                                           *)
FileNames == (UNION {Range(p.comps) : p \in Paths}) \ {".", ".."}

(* FileStore takes these from the same library.                            *)
LEMMA SameOperators ==
  \A s, t : File!Front(s) = Front(s) /\ (File!IsPrefix(s, t) <=> IsPrefix(s, t))
  BY DEF File!Front, Front, File!IsPrefix, IsPrefix

(* Creating, deleting, emptying and growing are steps of FileStore.        *)
LEMMA StoreSteps ==
  /\ \A q \in DOMAIN Store, f \in FileNames :
       File!Create(Store, Store', Append(q, f)) => StoreStep
  /\ \A w \in DOMAIN Store :
       \/ File!Delete(Store, Store', w) \/ File!Truncate(Store, Store', w)
       \/ File!Grow(Store, Store', w)
       => StoreStep
  <1>1. ASSUME File!Step(Store, Store') PROVE StoreStep
    BY <1>1 DEF StoreStep, File!Next
  <1>2. ASSUME NEW q \in DOMAIN Store, NEW f \in FileNames,
               File!Create(Store, Store', Append(q, f))
        PROVE  StoreStep
    BY <1>1, <1>2 DEF File!Step, FileNames
  <1>3. ASSUME NEW w \in DOMAIN Store,
               \/ File!Delete(Store, Store', w) \/ File!Truncate(Store, Store', w)
               \/ File!Grow(Store, Store', w)
        PROVE  StoreStep
    BY <1>1, <1>3 DEF File!Step
  <1> QED
    BY <1>2, <1>3

(* What begins another sequence, element by element.                       *)
LEMMA PrefixIs ==
  \A X : \A w, s \in Seq(X) :
    IsPrefix(w, s) <=> Len(w) <= Len(s) /\ \A k \in 1 .. Len(w) : w[k] = s[k]
  <1> SUFFICES ASSUME NEW X, NEW w \in Seq(X), NEW s \in Seq(X)
               PROVE  IsPrefix(w, s) <=> Len(w) <= Len(s) /\ \A k \in 1 .. Len(w) : w[k] = s[k]
    OBVIOUS
  <1>1. Len(w) \in Nat /\ Len(s) \in Nat
    BY LenProperties
  <1>2. CASE ~(Len(w) <= Len(s))
    BY <1>2 DEF IsPrefix
  <1>3. CASE Len(w) <= Len(s)
    <2>1. /\ SubSeq(w, 1, Len(w)) \in Seq(X) /\ Len(SubSeq(w, 1, Len(w))) = Len(w)
          /\ \A k \in 1 .. Len(w) : SubSeq(w, 1, Len(w))[k] = w[k]
      BY <1>1
    <2>2. /\ SubSeq(s, 1, Len(w)) \in Seq(X) /\ Len(SubSeq(s, 1, Len(w))) = Len(w)
          /\ \A k \in 1 .. Len(w) : SubSeq(s, 1, Len(w))[k] = s[k]
      BY <1>1, <1>3
    <2> DEFINE a == SubSeq(w, 1, Len(w))
               c == SubSeq(s, 1, Len(w))
    <2>3. a = c <=> \A k \in 1 .. Len(w) : w[k] = s[k]
      <3> HIDE DEF a, c
      <3>1. /\ a \in Seq(X) /\ Len(a) = Len(w) /\ \A k \in 1 .. Len(w) : a[k] = w[k]
            /\ c \in Seq(X) /\ Len(c) = Len(w) /\ \A k \in 1 .. Len(w) : c[k] = s[k]
        BY <2>1, <2>2 DEF a, c
      <3>2. ASSUME \A k \in 1 .. Len(w) : w[k] = s[k] PROVE a = c
        BY <3>1, <3>2, SeqEqual
      <3>3. ASSUME a = c PROVE \A k \in 1 .. Len(w) : w[k] = s[k]
        BY <3>1, <3>3
      <3> QED
        BY <3>2, <3>3
    <2> QED
      BY <1>3, <2>3 DEF IsPrefix
  <1> QED
    BY <1>2, <1>3

(* A sequence begins itself and what follows it; what begins an appended   *)
(* sequence is all of it, or begins what was appended to.                  *)
LEMMA PrefixFacts ==
  \A X : \A w, s \in Seq(X) :
    /\ IsPrefix(s, s)
    /\ IsPrefix(w, <<>>) => w = <<>>
    /\ \A x \in X : IsPrefix(w, s) => IsPrefix(w, Append(s, x))
    /\ \A x \in X : IsPrefix(w, Append(s, x)) => w = Append(s, x) \/ IsPrefix(w, s)
  <1> SUFFICES ASSUME NEW X, NEW w \in Seq(X), NEW s \in Seq(X)
               PROVE  /\ IsPrefix(s, s)
                      /\ IsPrefix(w, <<>>) => w = <<>>
                      /\ \A x \in X : IsPrefix(w, s) => IsPrefix(w, Append(s, x))
                      /\ \A x \in X : IsPrefix(w, Append(s, x))
                                      => w = Append(s, x) \/ IsPrefix(w, s)
    OBVIOUS
  <1>1. Len(w) \in Nat /\ Len(s) \in Nat
    BY LenProperties
  <1>2. IsPrefix(s, s)
    BY <1>1, PrefixIs
  <1>3. ASSUME IsPrefix(w, <<>>) PROVE w = <<>>
    <2>1. <<>> \in Seq(X) /\ Len(<<>>) = 0
      OBVIOUS
    <2>2. Len(w) <= 0
      BY <1>3, <2>1, PrefixIs
    <2>3. Len(w) = 0
      BY <1>1, <2>2
    <2> QED
      BY <2>3
  <1>4. ASSUME NEW x \in X PROVE /\ IsPrefix(w, s) => IsPrefix(w, Append(s, x))
                                 /\ IsPrefix(w, Append(s, x))
                                    => w = Append(s, x) \/ IsPrefix(w, s)
    <2> DEFINE t == Append(s, x)
    <2>1. t \in Seq(X) /\ Len(t) = Len(s) + 1 /\ \A k \in 1 .. Len(s) : t[k] = s[k]
      BY Appends DEF Longer
    <2> HIDE DEF t
    <2>2. ASSUME IsPrefix(w, s) PROVE IsPrefix(w, t)
      <3>1. Len(w) <= Len(s) /\ \A k \in 1 .. Len(w) : w[k] = s[k]
        BY <2>2, PrefixIs
      <3>2. Len(w) <= Len(t) /\ \A k \in 1 .. Len(w) : w[k] = t[k]
        BY <1>1, <2>1, <3>1
      <3> QED
        BY <2>1, <3>2, PrefixIs
    <2>3. ASSUME IsPrefix(w, t) PROVE w = t \/ IsPrefix(w, s)
      <3>1. Len(w) <= Len(t) /\ \A k \in 1 .. Len(w) : w[k] = t[k]
        BY <2>1, <2>3, PrefixIs
      <3>2. CASE Len(w) = Len(t)
        BY <2>1, <3>1, <3>2, SeqEqual
      <3>3. CASE Len(w) # Len(t)
        <4>1. Len(w) <= Len(s)
          BY <1>1, <2>1, <3>1, <3>3
        <4>2. \A k \in 1 .. Len(w) : w[k] = s[k]
          BY <1>1, <2>1, <3>1, <4>1
        <4> QED
          BY <4>1, <4>2, PrefixIs
      <3> QED
        BY <3>2, <3>3
    <2> QED
      BY <2>2, <2>3 DEF t
  <1> QED
    BY <1>2, <1>3, <1>4

(* The path without the component just added.                              *)
LEMMA FrontOfAppend ==
  \A X : \A s \in Seq(X) : \A x \in X : Front(Append(s, x)) = s
  <1> SUFFICES ASSUME NEW X, NEW s \in Seq(X), NEW x \in X
               PROVE  Front(Append(s, x)) = s
    OBVIOUS
  <1> DEFINE t == Append(s, x)
  <1>1. t \in Seq(X) /\ Len(t) = Len(s) + 1 /\ \A k \in 1 .. Len(s) : t[k] = s[k]
    BY Appends DEF Longer
  <1> HIDE DEF t
  <1>2. Len(s) \in Nat
    BY LenProperties
  <1>3. t # <<>>
    BY <1>1, <1>2
  <1>4. /\ Front(t) \in Seq(X) /\ Len(Front(t)) = Len(t) - 1
        /\ \A k \in 1 .. Len(t) - 1 : Front(t)[k] = t[k]
    BY <1>1, <1>3, FrontFacts
  <1>5. Len(Front(t)) = Len(s) /\ \A k \in 1 .. Len(s) : Front(t)[k] = s[k]
    BY <1>1, <1>2, <1>4
  <1>6. Front(t) = s
    BY <1>4, <1>5, SeqEqual
  <1> QED
    BY <1>6 DEF t

(* A new node that no path leads to leaves the store as it is; any other   *)
(* is one path more.                                                       *)
LEMMA StoreCreates ==
  ASSUME IInv, IInv', NEW p \in Paths, Missing(p),
         Alloc(GetBase(p.comps), Basename(p)), data' = data
  PROVE  StoreStep
  <1> DEFINE b == GetBase(p.comps)
             f == Basename(p)
             k == Fresh
             w == Append(WayTo[b], f)
  <1>1. LinksInv /\ NamesInv /\ DataInv /\ WaysAre /\ StoreIs
    BY StoreFacts DEF IInv
  <1>2. WaysAre' /\ StoreIs' /\ LinksInv'
    BY StoreFacts, PTL
  <1>3. b \in nodes /\ b \in Shown
    BY <1>1, PathFacts, BaseNotOdd DEF Missing, Shown
  <1>4. /\ k \in Ids \ nodes /\ nodes' = nodes \cup {k}
        /\ \A j \in Ids : parent'[j] = IF j = k THEN b ELSE parent[j]
        /\ \A j \in Ids : name'[j] = IF j = k THEN f ELSE name[j]
    BY <1>1, <1>3, AllocDef DEF Allocated
  <1>5. Kept(nodes)
    BY <1>1, <1>4, LinkFacts DEF Kept
  <1>6. \A j \in nodes : WayTo'[j] = WayTo[j] /\ (j \in Shown' <=> j \in Shown)
    BY <1>1, <1>2, <1>5, PathsKept
  <1>7. Shown \subseteq nodes /\ Shown' \subseteq nodes'
    BY DEF Shown
  <1>8. k # Root /\ (k \in Shown' <=> name'[k] \notin {"", ".", ".."})
    BY <1>1, <1>4, LinkFacts DEF Shown, Odd
  <1>9. k \in Shown' <=> f \notin {"", ".", ".."}
    BY <1>4, <1>8
  <1>10. CASE k \notin Shown'
    <2>1. Shown' = Shown
      BY <1>4, <1>6, <1>7, <1>10
    <2> QED
      BY <1>5, <2>1, NothingShown
  <1>11. CASE k \in Shown'
    <2>1. Shown' = Shown \cup {k}
      BY <1>4, <1>6, <1>7, <1>11
    <2>2. parent'[k] = b /\ name'[k] = f /\ k \in nodes' \ {Root}
      BY <1>4, <1>8
    <2>3. WayTo'[k] = w
      BY <1>2, <1>3, <1>6, <2>2 DEF WaysAre
    <2>4. WayTo[b] \in Seq({name[j] : j \in Ids}) /\ WayTo'[b] = WayTo[b]
          /\ WayTo'[b] \in Seq({name'[j] : j \in Ids}) /\ f \in {name'[j] : j \in Ids}
      BY <1>1, <1>2, <1>3, <1>4, <1>6, <2>2 DEF WaysAre
    <2>5. f \in FileNames
      <3>1. f # "" /\ f # "." /\ f # ".."
        BY <1>9, <1>11
      <3>2. ~p.slash /\ f = Last(p.comps)
        BY <3>1, NamesAssumption DEF Basename
      <3>3. p.comps # <<>>
        BY <1>1, PathFacts, LinkFacts DEF Missing
      <3>4. f \in Range(p.comps)
        <4> DEFINE comps == p.comps
        <4>1. comps \in Seq(Range(comps)) /\ comps # <<>>
          BY <3>3, NamesAssumption
        <4>2. Len(comps) \in Nat \ {0}
          BY <4>1, FrontFacts
        <4>3. Len(comps) \in DOMAIN comps
          BY <4>1, <4>2, LenProperties
        <4>4. comps[Len(comps)] \in Range(comps)
          BY <4>3 DEF Range
        <4> QED
          BY <3>2, <4>4 DEF Last
      <3> QED
        BY <3>1, <3>4 DEF FileNames
    <2>6. Front(w) = WayTo[b]
      BY <2>4, FrontOfAppend
    <2>7. DOMAIN Store = {WayTo[n] : n \in Shown}
      BY <1>1 DEF StoreIs
    <2>8. WayTo[b] \in DOMAIN Store
      BY <1>3, <2>7
    <2>9. ASSUME NEW n \in Shown PROVE WayTo[n] # w
      <3>1. n \in nodes /\ n \in Shown' /\ n # k
        BY <1>4, <1>7, <2>1
      <3>2. WayTo'[n] # WayTo'[k]
        BY <1>2, <1>11, <3>1 DEF StoreIs
      <3> QED
        BY <1>6, <2>3, <3>1, <3>2
    <2>10. w \notin DOMAIN Store
      BY <2>7, <2>9
    <2> DEFINE T == [r \in DOMAIN Store \cup {w} |-> IF r = w THEN <<>> ELSE Store[r]]
    <2>11. Store' = T
      <3>1. {WayTo'[n] : n \in Shown'} = DOMAIN Store \cup {w}
        BY <1>6, <1>7, <2>1, <2>3, <2>7
      <3>2. Store' = [r \in DOMAIN Store \cup {w} |-> Store'[r]]
        BY <1>2, <3>1 DEF StoreIs
      <3>3. Store'[w] = <<>>
        <4>1. Store'[WayTo'[k]] = data'[k] /\ data[k] = <<>>
          BY <1>1, <1>2, <1>4, <1>11 DEF StoreIs, DataInv
        <4> QED
          BY <2>3, <4>1
      <3>4. ASSUME NEW n \in Shown PROVE Store'[WayTo[n]] = Store[WayTo[n]]
        <4>1. n \in nodes /\ n \in Shown'
          BY <1>7, <2>1
        <4>2. Store'[WayTo'[n]] = data'[n] /\ Store[WayTo[n]] = data[n]
          BY <1>1, <1>2, <4>1 DEF StoreIs
        <4> QED
          BY <1>6, <4>1, <4>2
      <3>5. \A r \in DOMAIN Store : Store'[r] = Store[r]
        BY <2>7, <3>4
      <3> HIDE DEF w
      <3> QED
        BY <3>2, <3>3, <3>5
    <2>12. File!Create(Store, Store', w)
      <3> HIDE DEF w
      <3> QED
        BY <2>6, <2>8, <2>10, <2>11, SameOperators DEF File!Create
    <2> QED
      BY <2>5, <2>8, <2>12, StoreSteps
  <1> QED
    BY <1>10, <1>11

(* The tree stays and one file's data changes.                             *)
LEMMA OneFile ==
  ASSUME IInv, IInv', UNCHANGED treeVars, NEW n \in nodes,
         \A j \in nodes \ {n} : data'[j] = data[j]
  PROVE  /\ n \notin Shown => StoreStep
         /\ n \in Shown =>
              /\ WayTo[n] \in DOMAIN Store /\ DOMAIN Store' = DOMAIN Store
              /\ Store[WayTo[n]] = data[n] /\ Store'[WayTo[n]] = data'[n]
              /\ \A q \in DOMAIN Store \ {WayTo[n]} : Store'[q] = Store[q]
              /\ Store' = [q \in DOMAIN Store |-> Store'[q]]
              /\ Store = [q \in DOMAIN Store |-> Store[q]]
  <1>1. LinksInv /\ WaysAre /\ StoreIs
    BY StoreFacts
  <1>2. WaysAre' /\ StoreIs'
    BY StoreFacts, PTL
  <1>3. nodes' = nodes /\ parent' = parent /\ name' = name /\ Shown' = Shown
    BY DEF treeVars, Shown, Odd
  <1>4. Kept(nodes)
    BY <1>1, <1>3, LinkFacts DEF Kept
  <1>5. \A j \in Shown : j \in nodes /\ WayTo'[j] = WayTo[j]
    BY <1>1, <1>2, <1>4, PathsKept DEF Shown
  <1>6. ASSUME n \notin Shown PROVE StoreStep
    <2>1. \A j \in Shown : data'[j] = data[j]
      BY <1>5, <1>6
    <2> QED
      BY <1>3, <1>4, <2>1, NothingShown
  <1>7. ASSUME n \in Shown
        PROVE  /\ WayTo[n] \in DOMAIN Store /\ DOMAIN Store' = DOMAIN Store
               /\ Store[WayTo[n]] = data[n] /\ Store'[WayTo[n]] = data'[n]
               /\ \A q \in DOMAIN Store \ {WayTo[n]} : Store'[q] = Store[q]
               /\ Store' = [q \in DOMAIN Store |-> Store'[q]]
               /\ Store = [q \in DOMAIN Store |-> Store[q]]
    <2>1. DOMAIN Store = {WayTo[j] : j \in Shown}
      BY <1>1 DEF StoreIs
    <2>2. DOMAIN Store' = {WayTo'[j] : j \in Shown'}
      BY <1>2 DEF StoreIs
    <2>3. DOMAIN Store' = DOMAIN Store
      BY <1>3, <1>5, <2>1, <2>2
    <2>4. \A j \in Shown : Store[WayTo[j]] = data[j] /\ Store'[WayTo[j]] = data'[j]
      BY <1>1, <1>2, <1>3, <1>5 DEF StoreIs
    <2>5. ASSUME NEW j \in Shown, WayTo[j] # WayTo[n] PROVE Store'[WayTo[j]] = Store[WayTo[j]]
      BY <1>5, <2>4, <2>5
    <2>6. \A q \in DOMAIN Store \ {WayTo[n]} : Store'[q] = Store[q]
      BY <2>1, <2>5
    <2>7. Store' = [q \in DOMAIN Store' |-> Store'[q]] /\ Store = [q \in DOMAIN Store |-> Store[q]]
      BY <1>1, <1>2 DEF StoreIs
    <2> QED
      BY <1>7, <2>1, <2>3, <2>4, <2>6, <2>7
  <1> QED
    BY <1>6, <1>7

(* Emptying a file.                                                        *)
LEMMA StoreEmpties ==
  ASSUME IInv, IInv', UNCHANGED treeVars, NEW n \in nodes, data' = [data EXCEPT ![n] = <<>>]
  PROVE  StoreStep
  <1>1. DataInv /\ n \in Ids
    BY LinkFacts DEF IInv
  <1>2. data'[n] = <<>> /\ \A j \in nodes \ {n} : data'[j] = data[j]
    BY <1>1, LinkFacts DEF DataInv, IInv
  <1> DEFINE w == WayTo[n]
  <1>3. CASE n \notin Shown
    BY <1>2, <1>3, OneFile
  <1>4. CASE n \in Shown
    <2>1. /\ w \in DOMAIN Store /\ Store'[w] = <<>>
          /\ \A q \in DOMAIN Store \ {w} : Store'[q] = Store[q]
          /\ Store' = [q \in DOMAIN Store |-> Store'[q]]
      BY <1>2, <1>4, OneFile
    <2> HIDE DEF w
    <2>2. Store' = [Store EXCEPT ![w] = <<>>]
      BY <2>1
    <2>3. File!Truncate(Store, Store', w)
      BY <2>2 DEF File!Truncate
    <2> QED
      BY <2>1, <2>3, StoreSteps
  <1> QED
    BY <1>3, <1>4

(* Writing at the end of a file.                                           *)
LEMMA StoreGrows ==
  ASSUME IInv, IInv', UNCHANGED treeVars, NEW n \in nodes, NEW chunk \in Seq(Bytes),
         data' = [data EXCEPT ![n] = data[n] \o chunk]
  PROVE  StoreStep
  <1>1. DataInv /\ n \in Ids
    BY LinkFacts DEF IInv
  <1>2. data'[n] = data[n] \o chunk /\ \A j \in nodes \ {n} : data'[j] = data[j]
    BY <1>1, LinkFacts DEF DataInv, IInv
  <1> DEFINE w == WayTo[n]
  <1>3. CASE n \notin Shown
    BY <1>2, <1>3, OneFile
  <1>4. CASE n \in Shown
    <2>1. /\ w \in DOMAIN Store /\ Store[w] = data[n] /\ Store'[w] = data[n] \o chunk
          /\ \A q \in DOMAIN Store \ {w} : Store'[q] = Store[q]
          /\ DOMAIN Store' = DOMAIN Store
      BY <1>2, <1>4, OneFile
    <2>2. IsPrefix(data[n], data[n] \o chunk)
      <3> DEFINE bytes == data[n]
                 whole == bytes \o chunk
      <3>1. bytes \in Seq(Bytes)
        BY <1>1 DEF DataInv
      <3> HIDE DEF bytes
      <3>2. /\ whole \in Seq(Bytes) /\ Len(whole) = Len(bytes) + Len(chunk)
            /\ \A k \in 1 .. Len(bytes) : whole[k] = bytes[k]
            /\ Len(bytes) \in Nat /\ Len(chunk) \in Nat
        BY <3>1
      <3>3. Len(bytes) <= Len(whole)
        BY <3>2
      <3>4. IsPrefix(bytes, whole)
        <4> HIDE DEF whole
        <4> QED
          BY <3>1, <3>2, <3>3, PrefixIs
      <3> QED
        BY <3>4 DEF bytes
    <2>3. File!Grow(Store, Store', w)
      <3> HIDE DEF w
      <3> QED
        BY <2>1, <2>2, SameOperators DEF File!Grow
    <2> QED
      BY <2>1, <2>3, StoreSteps
  <1> QED
    BY <1>3, <1>4

(* What is removed with a shown node is what its path begins.              *)
LEMMA BelowPath ==
  ASSUME IInv, NEW n \in Shown \ {Root}
  PROVE  \A j \in Shown : j \in Subtree(n) <=> IsPrefix(WayTo[n], WayTo[j])
  <1> DEFINE gone == Subtree(n)
             X == {name[k] : k \in Ids}
             Begun(j) == IsPrefix(WayTo[n], WayTo[j])
  <1>1. LinksInv /\ WaysAre /\ StoreIs /\ ParentsShown
    BY StoreFacts
  <1>2. Shown \subseteq nodes /\ nodes \subseteq Ids /\ Root \in nodes
    BY <1>1, LinkFacts DEF Shown
  <1>3. /\ n \in gone /\ gone \subseteq nodes
        /\ \A k \in nodes \ {n, Root} : k \in gone <=> parent[k] \in gone
        /\ Root \notin gone
    BY <1>1, <1>2, Subtrees
  <1> HIDE DEF gone
  <1>4. \A k \in nodes \ {Root} :
          /\ parent[k] \in Shown /\ name[k] \in X
          /\ WayTo[parent[k]] \in Seq(X) /\ WayTo[k] = Append(WayTo[parent[k]], name[k])
    BY <1>1, <1>2 DEF WaysAre, ParentsShown
  <1>5. \A k \in nodes : WayTo[k] \in Seq(X)
    BY <1>1 DEF WaysAre
  <1>6. WayTo[Root] = <<>> /\ \A k \in Shown : WayTo[k] = WayTo[n] => k = n
    BY <1>1 DEF WaysAre, StoreIs
  <1> HIDE DEF X
  <1>7. \A k \in nodes \ {Root} : /\ Begun(parent[k]) => Begun(k)
                                  /\ Begun(k) => WayTo[n] = WayTo[k] \/ Begun(parent[k])
    <2> SUFFICES ASSUME NEW k \in nodes \ {Root}
                 PROVE  /\ Begun(parent[k]) => Begun(k)
                        /\ Begun(k) => WayTo[n] = WayTo[k] \/ Begun(parent[k])
      OBVIOUS
    <2> DEFINE s == WayTo[parent[k]]
               x == name[k]
               w == WayTo[n]
    <2>1. w \in Seq(X) /\ s \in Seq(X) /\ x \in X /\ WayTo[k] = Append(s, x)
      BY <1>2, <1>4, <1>5
    <2> HIDE DEF s, x, w
    <2>2. /\ IsPrefix(w, s) => IsPrefix(w, Append(s, x))
          /\ IsPrefix(w, Append(s, x)) => w = Append(s, x) \/ IsPrefix(w, s)
      BY <2>1, PrefixFacts
    <2>3. /\ IsPrefix(w, s) => IsPrefix(w, WayTo[k])
          /\ IsPrefix(w, WayTo[k]) => w = WayTo[k] \/ IsPrefix(w, s)
      BY <2>1, <2>2
    <2> QED
      BY <2>3 DEF s, w
  <1>8. Begun(n) /\ ~Begun(Root)
    <2>1. IsPrefix(WayTo[n], WayTo[n])
      BY <1>2, <1>5, PrefixFacts
    <2>2. ASSUME IsPrefix(WayTo[n], <<>>) PROVE FALSE
      <3>1. WayTo[n] = <<>>
        BY <1>2, <1>5, <2>2, PrefixFacts
      <3> QED
        BY <1>1, <1>6, <3>1 DEF ParentsShown
    <2> QED
      BY <1>6, <2>1, <2>2
  <1> HIDE DEF Begun
  <1>9. \A j \in nodes : j \in gone => Begun(j)
    <2> DEFINE S == {j \in gone : ~Begun(j)}
    <2>1. S \in SUBSET Ids
      BY <1>2, <1>3
    <2>2. ASSUME S # {} PROVE FALSE
      <3>1. PICK j \in S : parent[j] \notin S
        <4> HIDE DEF S
        <4> QED
          BY <1>1, <2>1, <2>2, Walkable DEF Ends
      <3>2. j \in nodes \ {n, Root} /\ j \in gone /\ ~Begun(j)
        BY <1>3, <1>8, <3>1
      <3>3. Begun(parent[j])
        BY <1>3, <3>1, <3>2
      <3> QED
        BY <1>7, <3>2, <3>3
    <2> QED
      BY <2>2
  <1>10. \A j \in Shown : Begun(j) => j \in gone
    <2> DEFINE S == {j \in Shown : Begun(j) /\ j \notin gone}
    <2>1. S \in SUBSET Ids
      BY <1>2
    <2>2. ASSUME S # {} PROVE FALSE
      <3>1. PICK j \in S : parent[j] \notin S
        <4> HIDE DEF S
        <4> QED
          BY <1>1, <2>1, <2>2, Walkable DEF Ends
      <3>2. j \in Shown /\ Begun(j) /\ j \notin gone /\ j \in nodes
        BY <1>2, <3>1
      <3>3. j # Root /\ j # n
        BY <1>3, <1>8, <3>2
      <3>4. Begun(parent[j])
        BY <1>6, <1>7, <3>2, <3>3
      <3>5. parent[j] \in Shown /\ parent[j] \notin gone
        BY <1>3, <1>4, <3>2, <3>3
      <3> QED
        BY <3>1, <3>4, <3>5
    <2> QED
      BY <2>2
  <1> QED
    BY <1>2, <1>9, <1>10 DEF Begun, gone

(* vfsRemovePath deletes the path and all that it begins.                  *)
LEMMA StoreRemoves ==
  ASSUME IInv, IInv', NEW p \in Paths, RemovePath(p)
  PROVE  StoreStep
  <1> DEFINE n == GetPath(p.comps)
             gone == Subtree(n)
             w == WayTo[n]
  <1>1. LinksInv /\ NamesInv /\ WaysAre /\ StoreIs /\ ParentsShown
    BY StoreFacts DEF IInv
  <1>2. WaysAre' /\ StoreIs'
    BY StoreFacts, PTL
  <1>3. n \in Shown \ {Root}
    <2>1. n \in nodes \ {Root}
      BY <1>1, PathFacts DEF RemovePath
    <2>2. p.comps \in Seq(Range(p.comps)) /\ Proper(Range(p.comps)) /\ n # Null
      BY NamesAssumption DEF Proper, RemovePath
    <2>3. ~Odd(n)
      BY <1>1, <2>2, NoOdd
    <2> QED
      BY <2>1, <2>3 DEF Shown
  <1>4. /\ data' = [k \in Ids |-> IF k \in gone THEN <<>> ELSE data[k]]
        /\ Free(n)
    BY DEF RemovePath
  <1> HIDE DEF n
  <1>5. n \in nodes \ {Root} /\ Shown \subseteq nodes /\ nodes \subseteq Ids
    BY <1>1, <1>3, LinkFacts DEF Shown
  <1>6. Freed(n, gone) /\ \A k \in nodes' : name'[k] = name[k]
    BY <1>1, <1>4, <1>5, FreeDef
  <1>7. \A j \in Shown : j \in gone <=> IsPrefix(w, WayTo[j])
    BY <1>3, BelowPath
  <1> HIDE DEF gone
  <1>8. Kept(nodes')
    BY <1>1, <1>5, <1>6, LinkFacts DEF Kept, Freed
  <1>9. \A j \in nodes' : WayTo'[j] = WayTo[j] /\ (j \in Shown' <=> j \in Shown)
    BY <1>1, <1>2, <1>8, PathsKept
  <1>10. nodes' = nodes \ gone
    BY <1>6 DEF Freed
  <1>11. Shown' = Shown \ gone
    <2>1. Shown' \subseteq nodes'
      BY DEF Shown
    <2> QED
      BY <1>5, <1>9, <1>10, <2>1
  <1>12. DOMAIN Store = {WayTo[j] : j \in Shown} /\ w \in DOMAIN Store
    BY <1>1, <1>3 DEF StoreIs
  <1>13. w # <<>>
    BY <1>1, <1>3 DEF WaysAre, StoreIs, ParentsShown
  <1> DEFINE D == {r \in DOMAIN Store : ~IsPrefix(w, r)}
  <1>14. {WayTo'[j] : j \in Shown'} = D
    <2>1. \A j \in Shown' : j \in nodes' /\ WayTo'[j] = WayTo[j]
      BY <1>5, <1>9, <1>10, <1>11
    <2>2. {WayTo'[j] : j \in Shown'} = {WayTo[j] : j \in Shown \ gone}
      BY <1>11, <2>1
    <2> HIDE DEF w
    <2>3. {WayTo[j] : j \in Shown \ gone} = D
      BY <1>7, <1>12
    <2> QED
      BY <2>2, <2>3
  <1>15. Store' = [r \in D |-> Store'[r]]
    <2> HIDE DEF D
    <2> QED
      BY <1>2, <1>14 DEF StoreIs
  <1>16. ASSUME NEW j \in Shown' PROVE Store'[WayTo[j]] = Store[WayTo[j]]
    <2>1. j \in Shown /\ j \notin gone /\ j \in nodes' /\ j \in Ids
      BY <1>5, <1>10, <1>11
    <2>2. Store'[WayTo'[j]] = data'[j] /\ Store[WayTo[j]] = data[j]
      BY <1>1, <1>2, <2>1 DEF StoreIs
    <2>3. data'[j] = data[j]
      BY <1>4, <2>1
    <2> QED
      BY <1>9, <2>1, <2>2, <2>3
  <1>17. \A r \in D : Store'[r] = Store[r]
    <2>1. \A r \in {WayTo'[j] : j \in Shown'} : \E j \in Shown' : r = WayTo[j]
      BY <1>5, <1>9, <1>10, <1>11
    <2> HIDE DEF D
    <2> QED
      BY <1>14, <1>16, <2>1
  <1>18. Store' = [r \in D |-> Store[r]]
    <2> HIDE DEF D
    <2> QED
      BY <1>15, <1>17
  <1>19. File!Delete(Store, Store', w)
    <2>1. D = {r \in DOMAIN Store : ~File!IsPrefix(w, r)}
      BY SameOperators
    <2> HIDE DEF D, w
    <2> QED
      BY <1>13, <1>18, <2>1 DEF File!Delete
  <1> QED
    BY <1>12, <1>19, StoreSteps

(* Calls that change neither the tree nor the data.                        *)
LEMMA StoreStays ==
  ASSUME IInv, IInv', UNCHANGED treeVars, data' = data
  PROVE  StoreStep
  <1>1. nodes' = nodes /\ parent' = parent /\ name' = name /\ Shown' = Shown
    BY DEF treeVars, Shown, Odd
  <1>2. Kept(nodes)
    BY <1>1, LinkFacts DEF Kept, IInv
  <1> QED
    BY <1>1, <1>2, NothingShown

(* Every call is a step of FileStore or changes nothing there.             *)
LEMMA StoreNext ==
  ASSUME IInv, IInv', [Next]_vars
  PROVE  StoreStep
  <1>0. LinksInv /\ NamesInv /\ DataInv /\ StreamsInv
    BY DEF IInv
  <1>1. ASSUME NEW p \in Paths, Create(p) PROVE StoreStep
    BY <1>1, StoreCreates DEF Create
  <1>2. ASSUME NEW p \in Paths, OpenRead(p) PROVE StoreStep
    BY <1>2, StoreStays DEF OpenRead
  <1>3. ASSUME NEW p \in Paths, OpenWrite(p) PROVE StoreStep
    <2> DEFINE n == GetPath(p.comps)
    <2>1. CASE n # Null /\ data' = [data EXCEPT ![n] = <<>>] /\ UNCHANGED treeVars
      <3>1. n \in nodes
        BY <1>0, <2>1, PathFacts
      <3> HIDE DEF n
      <3> QED
        BY <2>1, <3>1, StoreEmpties
    <2>2. CASE Missing(p) /\ Alloc(GetBase(p.comps), Basename(p)) /\ data' = data
      BY <2>2, StoreCreates
    <2> QED
      BY <1>3, <2>1, <2>2 DEF OpenWrite
  <1>4. ASSUME NEW p \in Paths, RemovePath(p) PROVE StoreStep
    BY <1>4, StoreRemoves
  <1>5. ASSUME NEW n \in nodes, FSOOpen(n) PROVE StoreStep
    BY <1>5, StoreStays DEF FSOOpen
  <1>6. ASSUME NEW s \in Open, NEW chunk \in Chunks, Write(s, chunk) PROVE StoreStep
    <2> DEFINE n == streams[s].file
    <2>1. n \in nodes
      BY <1>0 DEF StreamsInv
    <2>2. data' = [data EXCEPT ![n] = data[n] \o chunk] /\ UNCHANGED treeVars
      BY <1>6 DEF Write, Put
    <2>3. chunk \in Seq(Bytes)
      BY ChunksAssumption DEF Bytes
    <2> HIDE DEF n
    <2> QED
      BY <2>1, <2>2, <2>3, StoreGrows
  <1>7. ASSUME NEW s \in Open,
               \/ Close(s) \/ HookFlush(s) \/ Flush(s)
               \/ \E k \in ReadSizes : Read(s, k)
               \/ \E at \in SeekFrom(s), by \in SeekBy : Seek(s, at + by)
        PROVE  StoreStep
    <2>1. UNCHANGED treeVars /\ data' = data
      BY <1>7 DEF Close, HookFlush, Flush, Read, Seek
    <2> QED
      BY <2>1, StoreStays
  <1>8. ASSUME UNCHANGED vars PROVE StoreStep
    BY <1>8, StoreStays DEF vars
  <1> QED
    BY <1>1, <1>2, <1>3, <1>4, <1>5, <1>6, <1>7, <1>8 DEF Next, StreamNext

(* The standard files are the first paths.                                 *)
LEMMA StoreInit ==
  ASSUME Init
  PROVE  File!Init
  <1>1. IInv
    BY InitInv
  <1>2. LinksInv /\ WaysAre /\ StoreIs /\ ParentsShown
    BY <1>1, StoreFacts
  <1>3. /\ nodes \subseteq Ids /\ Root \in nodes
        /\ \A n \in nodes \ {Root} : n - 1 \in Std /\ name[n] = StdNames[n - 1]
    BY <1>2, InitFirst, LinkFacts
  <1>4. \A n \in nodes \ {Root} : parent[n] = Root /\ name[n] \in Range(StdNames)
    BY <1>3 DEF Init, Std, Range
  <1>5. Shown = nodes
    BY <1>4, NamesAssumption DEF Shown, Odd
  <1>6. WayTo[Root] = <<>> /\ \A n \in nodes \ {Root} : WayTo[n] = <<name[n]>>
    BY <1>2, <1>4 DEF WaysAre
  <1>7. \A f \in Range(StdNames) : \E n \in nodes \ {Root} : name[n] = f
    <2> SUFFICES ASSUME NEW f \in Range(StdNames) PROVE \E n \in nodes \ {Root} : name[n] = f
      OBVIOUS
    <2>1. PICK s \in Std : f = StdNames[s]
      BY DEF Range, Std
    <2>2. s + 1 \in nodes /\ s \in Nat /\ s >= 1
      <3>1. s \in Nat /\ s >= 1
        BY StdNumbers
      <3>2. s + 1 \in {t + 1 : t \in Std}
        OBVIOUS
      <3> QED
        BY <3>1, <3>2 DEF Init
    <2>3. s + 1 \in nodes \ {Root} /\ (s + 1) - 1 = s
      BY <2>2 DEF Root
    <2> QED
      BY <1>3, <2>1, <2>3
  <1> DEFINE D == {<<>>} \cup {<<f>> : f \in Range(StdNames)}
  <1>8. {WayTo[n] : n \in Shown} = D
    <2>1. \A n \in Shown : WayTo[n] \in D
      BY <1>4, <1>5, <1>6
    <2>2. <<>> \in {WayTo[n] : n \in Shown}
      BY <1>3, <1>5, <1>6
    <2>3. ASSUME NEW f \in Range(StdNames) PROVE <<f>> \in {WayTo[n] : n \in Shown}
      <3>1. PICK n \in nodes \ {Root} : name[n] = f
        BY <1>7
      <3> QED
        BY <1>5, <1>6, <3>1
    <2> QED
      BY <2>1, <2>2, <2>3
  <1>9. \A n \in Shown : Store[WayTo[n]] = <<>>
    BY <1>2, <1>3, <1>5 DEF Init, StoreIs
  <1>10. Store = [q \in D |-> Store[q]]
    <2> HIDE DEF D
    <2> QED
      BY <1>2, <1>8 DEF StoreIs
  <1>11. \A q \in D : Store[q] = <<>>
    BY <1>8, <1>9
  <1>12. Store = [q \in D |-> <<>>]
    <2> HIDE DEF D
    <2> QED
      BY <1>10, <1>11
  <1> QED
    BY <1>12 DEF File!Init

(* The tree of nodes implements the map from paths to contents: every call *)
(* of the library creates a path, empties or lengthens one file, removes a *)
(* path with all below it, or leaves what can be reached as it was.        *)
THEOREM StoreAlways == Spec => ImplementsFileStore
  <1>1. Init => File!Init
    BY StoreInit
  <1>2. IInv /\ IInv' /\ [Next]_vars => [File!Next]_Store
    BY StoreNext DEF StoreStep
  <1> QED
    BY <1>1, <1>2, InvAlways, PTL DEF Spec, ImplementsFileStore, File!Spec

-----------------------------------------------------------------------------
(* The library: numbers                                                    *)

(* The quotient is the number whose multiples enclose the dividend.        *)
LEMMA QuotientIs ==
  \A q, x \in Int : \A y \in Nat \ {0} :
    q * y <= x /\ x < q * y + y => x \div y = q /\ x % y = x - q * y
  <1>1. ASSUME NEW q \in Int, NEW x \in Int, NEW y \in Nat \ {0}, q * y <= x, x < q * y + y
        PROVE  x \div y = q /\ x % y = x - q * y
    <2> DEFINE p == x \div y
               r == x % y
               qy == q * y
               py == p * y
    <2>1. p \in Int /\ r \in 0 .. y - 1 /\ x = py + r
      <3>1. x = y * (x \div y) + (x % y) /\ x \div y \in Int /\ x % y \in 0 .. y - 1
        OBVIOUS
      <3>2. y * (x \div y) = (x \div y) * y
        BY <3>1
      <3> QED
        BY <3>1, <3>2
    <2> HIDE DEF p, r
    <2>2. qy \in Int /\ py \in Int
      BY <2>1
    <2>3. ASSUME q > p PROVE FALSE
      <3>1. (q - p - 1) * y >= 0
        BY <2>1, <2>3
      <3>2. (q - p - 1) * y = qy - py - y
        BY <2>1
      <3> QED
        BY <1>1, <2>1, <2>2, <3>1, <3>2
    <2>4. ASSUME p > q PROVE FALSE
      <3>1. (p - q - 1) * y >= 0
        BY <2>1, <2>4
      <3>2. (p - q - 1) * y = py - qy - y
        BY <2>1
      <3> QED
        BY <1>1, <2>1, <2>2, <3>1, <3>2
    <2>5. p = q
      BY <2>1, <2>3, <2>4
    <2> QED
      BY <2>1, <2>2, <2>5 DEF p, r
  <1> QED
    BY <1>1

(* What a division leaves.                                                 *)
LEMMA Division ==
  \A x \in Int, y \in Nat \ {0} :
    /\ x \div y \in Int /\ x % y \in 0 .. y - 1
    /\ (x \div y) * y \in Int /\ x = (x \div y) * y + (x % y)
  <1> TAKE x \in Int, y \in Nat \ {0}
  <1>1. x = y * (x \div y) + (x % y) /\ x \div y \in Int /\ x % y \in 0 .. y - 1
    OBVIOUS
  <1> DEFINE q == x \div y
             r == x % y
  <1>2. q \in Int /\ r \in 0 .. y - 1 /\ x = y * q + r
    BY <1>1
  <1> HIDE DEF q, r
  <1>3. y * q = q * y /\ q * y \in Int
    BY <1>2
  <1>4. x = q * y + r
    BY <1>2, <1>3
  <1>5. q \in Int /\ r \in 0 .. y - 1 /\ q * y \in Int /\ x = q * y + r
    BY <1>2, <1>3, <1>4, Zenon
  <1> QED
    BY <1>5, Zenon DEF q, r

LEMMA QuotientNat ==
  ASSUME NEW x \in Nat, NEW y \in Nat \ {0}
  PROVE  x \div y \in Nat
  <1> DEFINE q == x \div y
  <1>1. q \in Int /\ q * y \in Int /\ x < q * y + y
    BY Division
  <1> HIDE DEF q
  <1>2. ASSUME q + 1 <= 0 PROVE FALSE
    <2>1. (0 - (q + 1)) * y >= 0
      BY <1>1, <1>2
    <2>2. (0 - (q + 1)) * y = 0 - (q * y + y)
      BY <1>1
    <2> QED
      BY <1>1, <2>1, <2>2
  <1>3. q \in Nat
    BY <1>1, <1>2
  <1> QED
    BY <1>3 DEF q

LEMMA FloorIs ==
  ASSUME NEW x \in Int, StringsAssumption
  PROVE  /\ Below(x) \in Ints => Whole(x) = ToZero(x) /\ floor(x) = Below(x)
         /\ Above(x) \in Ints => Whole(x) = ToZero(x) /\ ceil(x) = Above(x)
         /\ ToZero(x) \in Ints => Whole(x) = ToZero(x)
  <1> DEFINE F == Fraction
             q == x \div F
             p == (-x) \div F
             w == Whole(x)
             z == ToZero(x)
  <1>1. F \in Nat \ {0} /\ MaxInt \in Nat
    BY DEF StringsAssumption
  <1> HIDE DEF F
  <1>2. /\ q \in Int /\ q * F \in Int /\ q * F <= x /\ x < q * F + F
        /\ p \in Int /\ p * F \in Int /\ p * F <= -x /\ -x < p * F + F
    BY <1>1, Division
  <1>3. z = (IF x < 0 THEN -p ELSE q) /\ Below(x) = q /\ Above(x) = -p
    BY DEF ToZero, Below, Above, F
  <1>4. /\ floor(x) = (IF w * F > x THEN IntBefore(w) ELSE w)
        /\ ceil(x) = IF w * F < x THEN IntAfter(w) ELSE w
        /\ w = IF z \in Ints THEN z ELSE MinInt
    BY DEF floor, ceil, Whole, ToZero, Below, Above, F
  <1> HIDE DEF p, q, w, z
  <1>5. (-p) * F = -(p * F) /\ (-p - 1) * F = -(p * F) - F /\ (q + 1) * F = q * F + F
    BY <1>1, <1>2
  <1>6. CASE ~(x < 0)
    <2>1. z = q
      BY <1>3, <1>6
    <2>2. q >= 0
      BY <1>1, <1>6, QuotientNat DEF q
    <2>3. CASE q * F = x
      <3>1. (-q) * F = -x
        BY <1>1, <1>2, <2>3
      <3>2. p = -q
        BY <1>1, <1>2, <2>3, <3>1, QuotientIs DEF p
      <3> QED
        BY <1>1, <1>2, <1>3, <1>4, <2>1, <2>3, <3>2 DEF Ints, MinInt, w, z
    <2>4. CASE q * F < x
      <3>1. (-q - 1) * F = -(q * F) - F
        BY <1>1, <1>2
      <3>2. p = -q - 1
        BY <1>1, <1>2, <2>4, <3>1, QuotientIs DEF p
      <3> QED
        BY <1>1, <1>2, <1>3, <1>4, <2>1, <2>2, <2>4, <3>2 DEF Ints, MinInt, w, z, IntAfter
    <2> QED
      BY <1>2, <2>3, <2>4
  <1>7. CASE x < 0
    <2>1. z = -p
      BY <1>3, <1>7
    <2>2. p >= 0
      BY <1>1, <1>7, QuotientNat DEF p
    <2>3. CASE p * F = -x
      <3>1. q = -p
        BY <1>1, <1>2, <1>5, <2>3, QuotientIs DEF q
      <3> QED
        BY <1>1, <1>2, <1>3, <1>4, <1>5, <2>1, <2>3, <3>1 DEF Ints, MinInt, w, z
    <2>4. CASE p * F < -x
      <3>1. q = -p - 1
        BY <1>1, <1>2, <1>5, <2>4, QuotientIs DEF q
      <3> QED
        BY <1>1, <1>2, <1>3, <1>4, <1>5, <2>1, <2>2, <2>4, <3>1 DEF Ints, MinInt, w, z, IntBefore
    <2> QED
      BY <1>2, <2>3, <2>4
  <1> QED
    BY <1>6, <1>7 DEF w, z

LEMMA RoundIs ==
  ASSUME NEW x \in Int, StringsAssumption, Nearest(x) \in Ints
  PROVE  round(x) = Nearest(x)
  <1> DEFINE F == Fraction
             w == Whole(x)
             q == x \div F
             p == (-x) \div F
  <1>1. F \in Nat \ {0} /\ MaxInt \in Nat
    BY DEF StringsAssumption
  <1>2. round(x) = IF 2 * (x - w * F) >= F THEN IntAfter(w) ELSE w
    BY DEF round
  <1>3. /\ ToZero(x) = (IF x < 0 THEN -p ELSE q)
        /\ Nearest(x) = (IF x < 0 THEN -p ELSE (2 * x + F) \div (2 * F))
        /\ ToZero(x) \in Ints => w = ToZero(x)
    BY FloorIs DEF Above, Below, ToZero, Nearest
  <1>4. ~(x < 0) => q \in Nat
    BY <1>1, QuotientNat
  <1> HIDE DEF F
  <1>5. /\ q \in Int /\ q * F \in Int /\ q * F <= x /\ x < q * F + F
        /\ p \in Int /\ p * F \in Int /\ p * F <= -x /\ -x < p * F + F
    BY <1>1, Division
  <1> HIDE DEF w, p, q
  <1>6. (-p) * F = -(p * F)
    BY <1>1, <1>5
  <1>7. CASE x < 0
    <2>1. w = -p
      BY <1>3, <1>7
    <2> QED
      BY <1>1, <1>2, <1>3, <1>5, <1>6, <1>7, <2>1
  <1>8. CASE ~(x < 0)
    <2>1. 2 * F \in Nat \ {0} /\ 2 * x + F \in Int
      BY <1>1
    <2>2. q * (2 * F) = 2 * (q * F) /\ (q + 1) * (2 * F) = 2 * (q * F) + 2 * F
      BY <1>1, <1>5
    <2>3. CASE 2 * (x - q * F) >= F
      <3>1. (2 * x + F) \div (2 * F) = q + 1
        <4>1. (q + 1) * (2 * F) <= 2 * x + F /\ 2 * x + F < (q + 1) * (2 * F) + 2 * F
          BY <1>1, <1>5, <2>2, <2>3
        <4> QED
          BY <1>5, <2>1, <4>1, QuotientIs
      <3>2. w = q /\ IntAfter(q) = q + 1
        BY <1>1, <1>3, <1>4, <1>8, <3>1 DEF Ints, MinInt, IntAfter
      <3> QED
        BY <1>2, <1>3, <1>8, <2>3, <3>1, <3>2
    <2>4. CASE ~(2 * (x - q * F) >= F)
      <3>1. (2 * x + F) \div (2 * F) = q
        <4>1. q * (2 * F) <= 2 * x + F /\ 2 * x + F < q * (2 * F) + 2 * F
          BY <1>1, <1>5, <2>2, <2>4
        <4> QED
          BY <1>5, <2>1, <4>1, QuotientIs
      <3> QED
        BY <1>2, <1>3, <1>8, <2>4, <3>1
    <2> QED
      BY <2>3, <2>4
  <1> QED
    BY <1>7, <1>8

LEMMA ModIs ==
  ASSUME NEW x \in Int, NEW y \in Nat \ {0}, StringsAssumption, x \div y \in Ints
  PROVE  fmod(x, y) = x % y
  <1> DEFINE F == Fraction
             q == (x * F) \div y
             p == q \div F
  <1>1. F \in Nat \ {0} /\ x * F \in Int
    BY DEF StringsAssumption
  <1>2. q \in Int
    BY <1>1, Division
  <1>3. /\ fmod(x, y) = x - y * floor(q)
        /\ p \in Ints => floor(q) = p
    BY <1>2, FloorIs DEF fmod, Below
  <1> HIDE DEF F
  <1>4. q * y \in Int /\ q * y <= x * F /\ x * F < q * y + y
    BY <1>1, Division
  <1> HIDE DEF q
  <1>5. p \in Int /\ p * F \in Int /\ p * F <= q /\ q <= p * F + F - 1
    BY <1>1, <1>2, Division
  <1> HIDE DEF p
  <1>6. p * y \in Int /\ p * y * F \in Int
    BY <1>1, <1>5
  <1>7. p * y * F <= x * F
    <2>1. (q - p * F) * y >= 0
      BY <1>2, <1>5
    <2>2. (q - p * F) * y = q * y - p * y * F
      BY <1>1, <1>2, <1>5
    <2> QED
      BY <1>1, <1>4, <1>6, <2>1, <2>2
  <1>8. x * F < (p * y + y) * F
    <2>1. (p * F + F - 1 - q) * y >= 0
      BY <1>1, <1>2, <1>5
    <2>2. (p * F + F - 1 - q) * y = (p * y + y) * F - q * y - y
      BY <1>1, <1>2, <1>5
    <2>3. (p * y + y) * F \in Int
      BY <1>1, <1>6
    <2> QED
      BY <1>1, <1>4, <2>1, <2>2, <2>3
  <1>9. p * y <= x
    <2>1. ASSUME x < p * y PROVE FALSE
      <3>1. (p * y - x) * F > 0
        BY <1>1, <1>6, <2>1
      <3>2. (p * y - x) * F = p * y * F - x * F
        BY <1>1, <1>6
      <3> QED
        BY <1>1, <1>6, <1>7, <3>1, <3>2
    <2> QED
      BY <1>6, <2>1
  <1>10. x < p * y + y
    <2>1. ASSUME p * y + y <= x PROVE FALSE
      <3>1. (x - (p * y + y)) * F >= 0
        BY <1>1, <1>6, <2>1
      <3>2. (x - (p * y + y)) * F = x * F - (p * y + y) * F /\ (p * y + y) * F \in Int
        BY <1>1, <1>6
      <3> QED
        BY <1>1, <1>8, <3>1, <3>2
    <2> QED
      BY <1>6, <2>1
  <1>11. x \div y = p /\ x % y = x - p * y
    BY <1>5, <1>9, <1>10, QuotientIs
  <1>12. y * p = p * y
    BY <1>5
  <1> QED
    BY <1>3, <1>11, <1>12

LEMMA Rounds == RoundsRight
  <1>1. StringsAssumption
    BY StringsAssumption
  <1>2. ASSUME NEW x \in Numbers
        PROVE  /\ Below(x) \in Ints => floor(x) = Below(x)
               /\ Above(x) \in Ints => ceil(x) = Above(x)
               /\ ToZero(x) \in Ints => trunc(x) = ToZero(x)
               /\ Nearest(x) \in Ints => round(x) = Nearest(x)
               /\ \A y \in {z \in Numbers : z > 0} : x \div y \in Ints => fmod(x, y) = x % y
    <2>1. x \in Int /\ \A y \in {z \in Numbers : z > 0} : y \in Nat \ {0}
      BY <1>1 DEF StringsAssumption
    <2>2. ToZero(x) \in Ints => trunc(x) = ToZero(x)
      BY <1>1, <2>1, FloorIs DEF trunc, ToZero
    <2> QED
      BY <1>1, <2>1, <2>2, FloorIs, RoundIs, ModIs
  <1> QED
    BY <1>2, Zenon DEF RoundsRight

-----------------------------------------------------------------------------
(* The library: memory                                                     *)

(* mem is the memory after each byte moved, as MoveEach computes it.       *)
MovedSoFar(mem, m, d, s, n, order) ==
  mem = [k \in 0 .. n |->
           IF k = 0 THEN m ELSE [mem[k - 1] EXCEPT ![d + order[k]] = mem[k - 1][s + order[k]]]]

Inside(d, s, n) == d + n <= MemSize /\ s + n <= MemSize

LEMMA MovesExist ==
  ASSUME NEW m \in Memories, NEW d \in Addresses, NEW s \in Addresses, NEW n \in Nat,
         Inside(d, s, n), NEW order \in [1 .. n -> 0 .. n - 1]
  PROVE  \E mem \in [0 .. n -> Memories] : MovedSoFar(mem, m, d, s, n, order)
  <1> DEFINE step == [k \in 1 .. n |-> [v \in Memories |->
                        [v EXCEPT ![d + order[k]] = v[s + order[k]]]]]
  <1>1. MemSize \in Nat
    BY StringsAssumption
  <1>2. \A k \in 1 .. n : s + order[k] \in Addresses
    <2> TAKE k \in 1 .. n
    <2>1. order[k] \in 0 .. n - 1 /\ s \in Int /\ n \in Int
      BY DEF Addresses
    <2> QED
      BY <1>1, <2>1 DEF Addresses, Inside
  <1>3. \A k \in 1 .. n, v \in Memories : [v EXCEPT ![d + order[k]] = v[s + order[k]]] \in Memories
    BY <1>2 DEF Memories
  <1>4. step \in [1 .. n -> [Memories -> Memories]]
    BY <1>3
  <1>5. Recursion(Memories, m, n, step)
    BY <1>4 DEF Recursion
  <1> HIDE DEF step
  <1>6. PICK mem : Solves(mem, Memories, m, n, step)
    BY <1>5, RecursionExists
  <1>7. mem \in [0 .. n -> Memories] /\ mem[0] = m /\ \A k \in 1 .. n : mem[k] = step[k][mem[k - 1]]
    BY <1>6 DEF Solves
  <1>8. ASSUME NEW k \in 0 .. n
        PROVE  mem[k] = IF k = 0 THEN m
                        ELSE [mem[k - 1] EXCEPT ![d + order[k]] = mem[k - 1][s + order[k]]]
    <2>1. CASE k = 0
      BY <1>7, <2>1
    <2>2. CASE k # 0
      <3>1. k \in 1 .. n /\ k - 1 \in 0 .. n
        BY <2>2
      <3>2. mem[k - 1] \in Memories
        BY <1>7, <3>1
      <3>3. step[k][mem[k - 1]] = [mem[k - 1] EXCEPT ![d + order[k]] = mem[k - 1][s + order[k]]]
        BY <3>1, <3>2 DEF step
      <3> QED
        BY <1>7, <2>2, <3>1, <3>3
    <2> QED
      BY <2>1, <2>2
  <1>9. mem = [k \in 0 .. n |-> mem[k]]
    BY <1>7
  <1>10. MovedSoFar(mem, m, d, s, n, order)
    BY <1>8, <1>9, Zenon DEF MovedSoFar
  <1> QED
    BY <1>7, <1>10

(* Two such functions are equal, so MoveEach is the last value of any.     *)
MovesThrough(mem, m, d, s, n, order) ==
  /\ mem[0] = m /\ MoveEach(m, d, s, n, order) = mem[n]
  /\ \A k \in 1 .. n :
       mem[k] = [mem[k - 1] EXCEPT ![d + order[k]] = mem[k - 1][s + order[k]]]

LEMMA MovesAre ==
  ASSUME NEW m \in Memories, NEW d \in Addresses, NEW s \in Addresses, NEW n \in Nat,
         Inside(d, s, n), NEW order \in [1 .. n -> 0 .. n - 1]
  PROVE  \E mem \in [0 .. n -> Memories] : MovesThrough(mem, m, d, s, n, order)
  <1> DEFINE mem == CHOOSE f : MovedSoFar(f, m, d, s, n, order)
  <1>1. MoveEach(m, d, s, n, order) = mem[n]
    BY Zenon DEF MoveEach, MovedSoFar
  <1>2. PICK f \in [0 .. n -> Memories] : MovedSoFar(f, m, d, s, n, order)
    BY MovesExist
  <1>3. MovedSoFar(mem, m, d, s, n, order)
    BY <1>2
  <1> HIDE DEF mem
  <1>4. /\ DOMAIN mem = 0 .. n /\ DOMAIN f = 0 .. n
        /\ mem = [k \in 0 .. n |-> mem[k]] /\ f = [k \in 0 .. n |-> f[k]]
    <2>1. DOMAIN mem = 0 .. n
      BY <1>3, Zenon DEF MovedSoFar
    <2>2. mem = [k \in DOMAIN mem |-> mem[k]]
      BY <1>3, Zenon DEF MovedSoFar
    <2> QED
      BY <1>2, <2>1, <2>2
  <1>5. \A k \in 0 .. n :
          /\ mem[k] = IF k = 0 THEN m
                      ELSE [mem[k - 1] EXCEPT ![d + order[k]] = mem[k - 1][s + order[k]]]
          /\ f[k] = IF k = 0 THEN m
                    ELSE [f[k - 1] EXCEPT ![d + order[k]] = f[k - 1][s + order[k]]]
    BY <1>2, <1>3, Zenon DEF MovedSoFar
  <1>6. 0 \in 0 .. n /\ \A k \in 1 .. n : k \in 0 .. n /\ k # 0
    OBVIOUS
  <1>7. mem[0] = m /\ f[0] = m
    BY <1>5, <1>6
  <1>8. \A k \in 1 .. n :
          /\ mem[k] = [mem[k - 1] EXCEPT ![d + order[k]] = mem[k - 1][s + order[k]]]
          /\ f[k] = [f[k - 1] EXCEPT ![d + order[k]] = f[k - 1][s + order[k]]]
    BY <1>5, <1>6, Zenon
  <1>9. \A k \in 1 .. n : mem[k - 1] = f[k - 1] => mem[k] = f[k]
    BY <1>8, Zenon
  <1>10. mem = f
    BY <1>4, <1>7, <1>9, RecursionUnique
  <1>11. MovesThrough(mem, m, d, s, n, order)
    BY <1>1, <1>7, <1>8, Zenon DEF MovesThrough
  <1> QED
    BY <1>2, <1>10, <1>11

(* From the first byte on the n bytes arrive, unless the target begins     *)
(* inside what is still to be read.                                        *)
LEMMA UpIs ==
  ASSUME NEW m \in Memories, NEW d \in Addresses, NEW s \in Addresses, NEW n \in Nat,
         Inside(d, s, n), d \notin s + 1 .. s + n - 1
  PROVE  MoveEach(m, d, s, n, Up(n)) = Arrived(m, d, s, n)
  <1> DEFINE order == Up(n)
  <1>1. order \in [1 .. n -> 0 .. n - 1] /\ \A k \in 1 .. n : order[k] = k - 1
    BY DEF Up
  <1> HIDE DEF order
  <1>0. PICK mem \in [0 .. n -> Memories] : MovesThrough(mem, m, d, s, n, order)
    BY <1>1, MovesAre
  <1>2. /\ mem \in [0 .. n -> Memories]
        /\ mem[0] = m /\ MoveEach(m, d, s, n, order) = mem[n]
        /\ \A k \in 1 .. n :
             mem[k] = [mem[k - 1] EXCEPT ![d + order[k]] = mem[k - 1][s + order[k]]]
    BY <1>0, Zenon DEF MovesThrough
  <1> DEFINE Good == {k \in 0 .. n : \A a \in Addresses :
                        mem[k][a] = IF a \in d .. d + k - 1 THEN m[s + a - d] ELSE m[a]}
  <1>3. MemSize \in Nat /\ d \in Nat /\ s \in Nat /\ d < MemSize /\ s < MemSize
    BY StringsAssumption DEF Addresses
  <1>4. 0 \in Good
    <2>1. \A a \in Addresses : a \notin d .. d + 0 - 1
      BY <1>3
    <2> QED
      BY <1>2, <2>1
  <1>5. ASSUME NEW k \in 1 .. n, k - 1 \in Good PROVE k \in Good
    <2> DEFINE j == k - 1
    <2>1. j \in 0 .. n - 1 /\ j \in Nat /\ order[k] = j /\ k \in 0 .. n
      BY <1>1
    <2>2. mem[j] \in Memories /\ mem[k] = [mem[j] EXCEPT ![d + j] = mem[j][s + j]]
      <3>1. j \in 0 .. n
        BY <2>1
      <3>2. mem[j] \in Memories
        BY <1>2, <3>1, Zenon
      <3>3. mem[k] = [mem[k - 1] EXCEPT ![d + order[k]] = mem[k - 1][s + order[k]]]
        BY <1>2, Zenon
      <3> QED
        BY <2>1, <3>2, <3>3, Zenon
    <2>3. \A a \in Addresses :
            mem[j][a] = IF a \in d .. d + j - 1 THEN m[s + a - d] ELSE m[a]
      BY <1>5
    <2>4. d + j \in Addresses /\ s + j \in Addresses
      BY <1>3, <2>1 DEF Addresses, Inside
    <2>5. s + j \notin d .. d + j - 1
      BY <1>3, <2>1
    <2>6. mem[j][s + j] = m[s + j]
      BY <2>3, <2>4, <2>5
    <2>7. ASSUME NEW a \in Addresses
          PROVE  mem[k][a] = IF a \in d .. d + k - 1 THEN m[s + a - d] ELSE m[a]
      <3>1. a \in Int
        BY DEF Addresses
      <3>2. CASE a = d + j
        <4>1. mem[k][a] = m[s + j]
          BY <2>2, <2>4, <2>6, <3>2 DEF Memories
        <4>2. a \in d .. d + k - 1 /\ s + a - d = s + j
          BY <1>3, <2>1, <3>2
        <4> QED
          BY <4>1, <4>2
      <3>3. CASE a # d + j
        <4>1. mem[k][a] = mem[j][a]
          BY <2>2, <3>3 DEF Memories
        <4>2. a \in d .. d + k - 1 <=> a \in d .. d + j - 1
          BY <1>3, <2>1, <3>1, <3>3
        <4> QED
          BY <2>3, <4>1, <4>2
      <3> QED
        BY <3>2, <3>3
    <2> HIDE DEF j
    <2> QED
      BY <2>1, <2>7
  <1>6. n \in Good
    <2> HIDE DEF Good
    <2> QED
      BY <1>4, <1>5, ThroughSteps
  <1>7. mem[n] = [a \in Addresses |-> mem[n][a]]
    BY <1>2 DEF Memories
  <1>8. mem[n] = Arrived(m, d, s, n)
    BY <1>6, <1>7, Zenon DEF Arrived
  <1> QED
    BY <1>2, <1>8, Zenon DEF order

(* From the last byte on they do, unless it begins in front of it.         *)
LEMMA DownIs ==
  ASSUME NEW m \in Memories, NEW d \in Addresses, NEW s \in Addresses, NEW n \in Nat,
         Inside(d, s, n), ~(d < s)
  PROVE  MoveEach(m, d, s, n, Down(n)) = Arrived(m, d, s, n)
  <1> DEFINE order == Down(n)
  <1>1. order \in [1 .. n -> 0 .. n - 1] /\ \A k \in 1 .. n : order[k] = n - k
    BY DEF Down
  <1> HIDE DEF order
  <1>0. PICK mem \in [0 .. n -> Memories] : MovesThrough(mem, m, d, s, n, order)
    BY <1>1, MovesAre
  <1>2. /\ mem \in [0 .. n -> Memories]
        /\ mem[0] = m /\ MoveEach(m, d, s, n, order) = mem[n]
        /\ \A k \in 1 .. n :
             mem[k] = [mem[k - 1] EXCEPT ![d + order[k]] = mem[k - 1][s + order[k]]]
    BY <1>0, Zenon DEF MovesThrough
  <1> DEFINE Good == {k \in 0 .. n : \A a \in Addresses :
                        mem[k][a] = IF a \in d + n - k .. d + n - 1 THEN m[s + a - d] ELSE m[a]}
  <1>3. MemSize \in Nat /\ d \in Nat /\ s \in Nat /\ d < MemSize /\ s < MemSize
    BY StringsAssumption DEF Addresses
  <1>4. 0 \in Good
    <2>1. \A a \in Addresses : a \notin d + n - 0 .. d + n - 1
      BY <1>3
    <2> QED
      BY <1>2, <2>1
  <1>5. ASSUME NEW k \in 1 .. n, k - 1 \in Good PROVE k \in Good
    <2> DEFINE j == k - 1
               o == n - k
    <2>1. j \in 0 .. n - 1 /\ o \in 0 .. n - 1 /\ o \in Nat /\ order[k] = o /\ k \in 0 .. n
          /\ n - j = o + 1
      BY <1>1
    <2>2. mem[j] \in Memories /\ mem[k] = [mem[j] EXCEPT ![d + o] = mem[j][s + o]]
      <3>1. j \in 0 .. n
        BY <2>1
      <3>2. mem[j] \in Memories
        BY <1>2, <3>1, Zenon
      <3>3. mem[k] = [mem[k - 1] EXCEPT ![d + order[k]] = mem[k - 1][s + order[k]]]
        BY <1>2, Zenon
      <3> QED
        BY <2>1, <3>2, <3>3, Zenon
    <2>3. \A a \in Addresses :
            mem[j][a] = IF a \in d + n - j .. d + n - 1 THEN m[s + a - d] ELSE m[a]
      BY <1>5
    <2>4. d + o \in Addresses /\ s + o \in Addresses
      BY <1>3, <2>1 DEF Addresses, Inside
    <2>5. s + o \notin d + n - j .. d + n - 1
      BY <1>3, <2>1
    <2>6. mem[j][s + o] = m[s + o]
      BY <2>3, <2>4, <2>5
    <2>7. ASSUME NEW a \in Addresses
          PROVE  mem[k][a] = IF a \in d + n - k .. d + n - 1 THEN m[s + a - d] ELSE m[a]
      <3>1. a \in Int
        BY DEF Addresses
      <3>2. CASE a = d + o
        <4>1. mem[k][a] = m[s + o]
          BY <2>2, <2>4, <2>6, <3>2 DEF Memories
        <4>2. a \in d + n - k .. d + n - 1 /\ s + a - d = s + o
          BY <1>3, <2>1, <3>2
        <4> QED
          BY <4>1, <4>2
      <3>3. CASE a # d + o
        <4>1. mem[k][a] = mem[j][a]
          BY <2>2, <3>3 DEF Memories
        <4>2. a \in d + n - k .. d + n - 1 <=> a \in d + n - j .. d + n - 1
          BY <1>3, <2>1, <3>1, <3>3
        <4> QED
          BY <2>3, <4>1, <4>2
      <3> QED
        BY <3>2, <3>3
    <2> HIDE DEF j, o
    <2> QED
      BY <2>1, <2>7
  <1>6. n \in Good
    <2> HIDE DEF Good
    <2> QED
      BY <1>4, <1>5, ThroughSteps
  <1>7. mem[n] = [a \in Addresses |-> mem[n][a]]
    BY <1>2 DEF Memories
  <1>8. \A a \in Addresses : a \in d + n - n .. d + n - 1 <=> a \in d .. d + n - 1
    BY <1>3
  <1>9. mem[n] = Arrived(m, d, s, n)
    BY <1>6, <1>7, <1>8, Zenon DEF Arrived
  <1> QED
    BY <1>2, <1>9, Zenon DEF order

SetSoFar(mem, m, s, c, n) ==
  mem = [k \in 0 .. n |-> IF k = 0 THEN m ELSE [mem[k - 1] EXCEPT ![s + k - 1] = c]]

LEMMA SetExist ==
  ASSUME NEW m \in Memories, NEW s \in Addresses, NEW c \in Chars, NEW n \in Nat, s + n <= MemSize
  PROVE  \E mem \in [0 .. n -> Memories] : SetSoFar(mem, m, s, c, n)
  <1> DEFINE step == [k \in 1 .. n |-> [v \in Memories |-> [v EXCEPT ![s + k - 1] = c]]]
  <1>1. \A k \in 1 .. n, v \in Memories : [v EXCEPT ![s + k - 1] = c] \in Memories
    BY DEF Memories
  <1>2. step \in [1 .. n -> [Memories -> Memories]]
    BY <1>1
  <1>3. Recursion(Memories, m, n, step)
    BY <1>2 DEF Recursion
  <1> HIDE DEF step
  <1>4. PICK mem : Solves(mem, Memories, m, n, step)
    BY <1>3, RecursionExists
  <1>5. mem \in [0 .. n -> Memories] /\ mem[0] = m /\ \A k \in 1 .. n : mem[k] = step[k][mem[k - 1]]
    BY <1>4 DEF Solves
  <1>6. ASSUME NEW k \in 0 .. n
        PROVE  mem[k] = IF k = 0 THEN m ELSE [mem[k - 1] EXCEPT ![s + k - 1] = c]
    <2>1. CASE k = 0
      BY <1>5, <2>1
    <2>2. CASE k # 0
      <3>1. k \in 1 .. n /\ k - 1 \in 0 .. n
        BY <2>2
      <3>2. mem[k - 1] \in Memories
        BY <1>5, <3>1
      <3>3. step[k][mem[k - 1]] = [mem[k - 1] EXCEPT ![s + k - 1] = c]
        BY <3>1, <3>2 DEF step
      <3> QED
        BY <1>5, <2>2, <3>1, <3>3
    <2> QED
      BY <2>1, <2>2
  <1>7. mem = [k \in 0 .. n |-> mem[k]]
    BY <1>5
  <1>8. SetSoFar(mem, m, s, c, n)
    BY <1>6, <1>7, Zenon DEF SetSoFar
  <1> QED
    BY <1>5, <1>8

LEMMA SetIs ==
  ASSUME NEW m \in Memories, NEW s \in Addresses, NEW c \in Chars, NEW n \in Nat, s + n <= MemSize
  PROVE  \A a \in Addresses : memset(m, s, c, n)[a] = IF a \in s .. s + n - 1 THEN c ELSE m[a]
  <1> DEFINE mem == CHOOSE f : SetSoFar(f, m, s, c, n)
  <1>1. memset(m, s, c, n) = mem[n]
    BY Zenon DEF memset, SetSoFar
  <1>2. PICK f \in [0 .. n -> Memories] : SetSoFar(f, m, s, c, n)
    BY SetExist
  <1>3. SetSoFar(mem, m, s, c, n)
    BY <1>2
  <1> HIDE DEF mem
  <1>4. /\ DOMAIN mem = 0 .. n
        /\ \A k \in 0 .. n : mem[k] = IF k = 0 THEN m ELSE [mem[k - 1] EXCEPT ![s + k - 1] = c]
    BY <1>3, Zenon DEF SetSoFar
  <1>5. 0 \in 0 .. n /\ \A k \in 1 .. n : k \in 0 .. n /\ k # 0 /\ k - 1 \in Nat
    OBVIOUS
  <1>6. mem[0] = m /\ \A k \in 1 .. n : mem[k] = [mem[k - 1] EXCEPT ![s + k - 1] = c]
    BY <1>4, <1>5, Zenon
  <1>7. MemSize \in Nat /\ s \in Nat
    BY StringsAssumption DEF Addresses
  <1> DEFINE Good == {k \in 0 .. n : /\ mem[k] \in Memories
                                     /\ \A a \in Addresses :
                                          mem[k][a] = IF a \in s .. s + k - 1 THEN c ELSE m[a]}
  <1>8. 0 \in Good
    <2>1. \A a \in Addresses : a \notin s .. s + 0 - 1
      BY <1>7
    <2> QED
      BY <1>6, <2>1
  <1>9. ASSUME NEW k \in 1 .. n, k - 1 \in Good PROVE k \in Good
    <2> DEFINE j == k - 1
    <2>1. j \in Nat /\ k = j + 1 /\ k \in 0 .. n /\ s + k - 1 = s + j
      BY <1>7
    <2>2. /\ mem[j] \in Memories
          /\ \A a \in Addresses : mem[j][a] = IF a \in s .. s + j - 1 THEN c ELSE m[a]
      BY <1>9
    <2>3. mem[k] = [mem[j] EXCEPT ![s + j] = c]
      <3>1. mem[k] = [mem[k - 1] EXCEPT ![s + k - 1] = c]
        BY <1>6, Zenon
      <3> QED
        BY <2>1, <3>1, Zenon
    <2>4. mem[k] \in Memories
      BY <2>2, <2>3 DEF Memories
    <2>5. ASSUME NEW a \in Addresses PROVE mem[k][a] = IF a \in s .. s + k - 1 THEN c ELSE m[a]
      <3>1. a \in Int
        BY DEF Addresses
      <3>2. CASE a = s + j
        <4>1. mem[k][a] = c
          BY <2>2, <2>3, <3>2 DEF Memories
        <4>2. a \in s .. s + k - 1
          BY <1>7, <2>1, <3>2
        <4> QED
          BY <4>1, <4>2
      <3>3. CASE a # s + j
        <4>1. mem[k][a] = mem[j][a]
          BY <2>2, <2>3, <3>3 DEF Memories
        <4>2. a \in s .. s + k - 1 <=> a \in s .. s + j - 1
          BY <1>7, <2>1, <3>1, <3>3
        <4> QED
          BY <2>2, <4>1, <4>2
      <3> QED
        BY <3>2, <3>3
    <2> HIDE DEF j
    <2> QED
      BY <2>1, <2>4, <2>5
  <1>10. n \in Good
    <2> HIDE DEF Good
    <2> QED
      BY <1>8, <1>9, ThroughSteps
  <1> QED
    BY <1>1, <1>10, Zenon

(* The first k below n that stops a loop, or n.                            *)
LEMMA FirstStop ==
  \A n \in Nat : \A S : \E k \in 0 .. n : (k = n \/ k \in S) /\ \A j \in 0 .. k - 1 : j \notin S
  <1> TAKE n \in Nat
  <1> TAKE S
  <1> DEFINE T == {k \in 0 .. n : k = n \/ k \in S}
  <1>1. T \subseteq Nat /\ n \in T
    OBVIOUS
  <1> HIDE DEF T
  <1>2. PICK k \in T : \A l \in T : k <= l
    BY <1>1, MinimalNat
  <1>3. k \in 0 .. n /\ (k = n \/ k \in S)
    BY <1>2 DEF T
  <1>4. ASSUME NEW j \in 0 .. k - 1, j \in S PROVE FALSE
    <2>1. j \in 0 .. n /\ j < k
      BY <1>3
    <2>2. j \in T
      BY <1>4, <2>1 DEF T
    <2> QED
      BY <1>2, <1>3, <2>1, <2>2
  <1> QED
    BY <1>3, <1>4

LEMMA CompareIs ==
  ASSUME NEW m \in Memories, NEW a \in Addresses, NEW b \in Addresses, NEW n \in Nat, Inside(a, b, n)
  PROVE  memcmp(m, a, b, n) = 0 <=> \A k \in 0 .. n - 1 : m[a + k] = m[b + k]
  <1> DEFINE S == {j \in 0 .. n : m[a + j] # m[b + j]}
             At(k) == (k = n \/ m[a + k] # m[b + k]) /\ \A j \in 0 .. k - 1 : ~(m[a + j] # m[b + j])
             k == CHOOSE i \in 0 .. n : At(i)
  <1>1. \E i \in 0 .. n : At(i)
    <2>1. PICK i \in 0 .. n : (i = n \/ i \in S) /\ \A j \in 0 .. i - 1 : j \notin S
      BY FirstStop
    <2>2. \A j \in 0 .. i - 1 : j \in 0 .. n
      OBVIOUS
    <2> QED
      BY <2>1, <2>2
  <1>2. k \in 0 .. n /\ At(k)
    <2> HIDE DEF At
    <2> QED
      BY <1>1
  <1>3. memcmp(m, a, b, n) = IF k = n THEN 0 ELSE Unsigned(m[a + k]) - Unsigned(m[b + k])
    BY Zenon DEF memcmp, FirstOf
  <1> HIDE DEF k
  <1>4. \A j \in 0 .. k - 1 : m[a + j] = m[b + j]
    BY <1>2
  <1>5. CASE k = n
    BY <1>3, <1>4, <1>5
  <1>6. CASE k # n
    <2>1. k \in 0 .. n - 1 /\ m[a + k] # m[b + k]
      BY <1>2, <1>6
    <2>2. a + k \in Addresses /\ b + k \in Addresses
      <3>1. MemSize \in Nat /\ a \in Nat /\ b \in Nat /\ a + n <= MemSize /\ b + n <= MemSize
        BY StringsAssumption DEF Addresses, Inside
      <3> QED
        BY <2>1, <3>1 DEF Addresses
    <2>3. m[a + k] \in -128 .. 127 /\ m[b + k] \in -128 .. 127
      BY <2>2, StringsAssumption DEF Memories
    <2>4. \A v, w \in -128 .. 127 : Unsigned(v) - Unsigned(w) = 0 => v = w
      BY DEF Unsigned
    <2>5. Unsigned(m[a + k]) - Unsigned(m[b + k]) # 0
      BY <2>1, <2>3, <2>4
    <2> QED
      BY <1>3, <1>6, <2>1, <2>5
  <1> QED
    BY <1>5, <1>6

LEMMA Moves == MovesExactly
  <1>1. ASSUME NEW m \in Memories, NEW d \in Addresses, NEW s \in Addresses,
               NEW n \in 0 .. MemSize - (IF d < s THEN s ELSE d)
        PROVE  /\ memmove(m, d, s, n) = Arrived(m, d, s, n)
               /\ d \notin s + 1 .. s + n - 1 => memcpy(m, d, s, n) = Arrived(m, d, s, n)
               /\ \A a \in Addresses : memset(m, d, 0, n)[a] = IF a \in d .. d + n - 1 THEN 0 ELSE m[a]
               /\ memcmp(m, d, s, n) = 0 <=> \A k \in 0 .. n - 1 : m[d + k] = m[s + k]
    <2>1. n \in Nat /\ d \in Nat /\ s \in Nat /\ MemSize \in Nat /\ 0 \in Chars
      BY StringsAssumption DEF Addresses
    <2>2. d + n <= MemSize /\ s + n <= MemSize
      BY <2>1
    <2>3. Inside(d, s, n)
      BY <2>2 DEF Inside
    <2>4. d < s => d \notin s + 1 .. s + n - 1
      BY <2>1
    <2>5. memmove(m, d, s, n) = Arrived(m, d, s, n)
      BY <2>1, <2>3, <2>4, UpIs, DownIs DEF memmove
    <2>6. d \notin s + 1 .. s + n - 1 => memcpy(m, d, s, n) = Arrived(m, d, s, n)
      BY <2>1, <2>3, UpIs DEF memcpy
    <2>7. \A a \in Addresses : memset(m, d, 0, n)[a] = IF a \in d .. d + n - 1 THEN 0 ELSE m[a]
      BY <2>1, <2>2, SetIs
    <2> QED
      BY <2>1, <2>3, <2>5, <2>6, <2>7, CompareIs
  <1> QED
    BY <1>1, Zenon DEF MovesExactly


-----------------------------------------------------------------------------
(* The library: strings                                                    *)

(* The first k below n that is in S, or n: there is one, and no other.     *)
StopsFirst(n, S, k) == k \in 0 .. n /\ (k = n \/ k \in S) /\ \A j \in 0 .. k - 1 : j \notin S

LEMMA StopsOnce ==
  \A n \in Nat : \A S : \A j, k : StopsFirst(n, S, j) /\ StopsFirst(n, S, k) => j = k
  <1>1. ASSUME NEW n \in Nat, NEW S, NEW j, NEW k, StopsFirst(n, S, j), StopsFirst(n, S, k), j < k
        PROVE  FALSE
    <2>1. j \in 0 .. n /\ k \in 0 .. n /\ (j = n \/ j \in S) /\ \A i \in 0 .. k - 1 : i \notin S
      BY <1>1 DEF StopsFirst
    <2>2. j \in 0 .. k - 1 /\ j # n
      BY <1>1, <2>1
    <2> QED
      BY <2>1, <2>2
  <1>2. \A n \in Nat : \A S : \A j, k :
          StopsFirst(n, S, j) /\ StopsFirst(n, S, k) => j \in Int /\ k \in Int
    BY DEF StopsFirst
  <1>3. \A j, k \in Int : ~(j < k) /\ ~(k < j) => j = k
    OBVIOUS
  <1> QED
    BY <1>1, <1>2, <1>3, Zenon

LEMMA LengthIs ==
  ASSUME NEW m \in Memories, NEW s \in Addresses
  PROVE  StopsFirst(MemSize - s, {j \in 0 .. MemSize - s : m[s + j] = 0}, strlen(m, s))
  <1> DEFINE n == MemSize - s
             S == {j \in 0 .. n : m[s + j] = 0}
             At(k) == (k = n \/ m[s + k] = 0) /\ \A j \in 0 .. k - 1 : ~(m[s + j] = 0)
             l == CHOOSE i \in 0 .. n : At(i)
  <1>1. n \in Nat
    BY StringsAssumption DEF Addresses
  <1>2. strlen(m, s) = l
    BY Zenon DEF strlen, FirstOf
  <1> HIDE DEF n
  <1>3. \A i \in 0 .. n : At(i) <=> StopsFirst(n, S, i)
    <2> TAKE i \in 0 .. n
    <2>1. \A j \in 0 .. i - 1 : j \in 0 .. n
      BY <1>1
    <2> QED
      BY <1>1, <2>1 DEF StopsFirst
  <1>4. \E i \in 0 .. n : (i = n \/ i \in S) /\ \A j \in 0 .. i - 1 : j \notin S
    <2> HIDE DEF S
    <2> QED
      BY <1>1, FirstStop
  <1>5. \E i \in 0 .. n : StopsFirst(n, S, i)
    <2> HIDE DEF S
    <2> QED
      BY <1>4 DEF StopsFirst
  <1>6. l \in 0 .. n /\ At(l)
    <2> HIDE DEF At, S
    <2> QED
      BY <1>3, <1>5
  <1> HIDE DEF At, l, S
  <1>7. StopsFirst(n, S, l)
    BY <1>3, <1>6
  <1> QED
    BY <1>2, <1>7 DEF n, S

(* A string is followed by an end, and there is none in it.                *)
LEMMA StringIs ==
  \A m \in Memories : \A s \in Addresses : IsString(m, s) =>
    /\ strlen(m, s) \in Nat /\ s + strlen(m, s) \in Addresses /\ m[s + strlen(m, s)] = 0
    /\ \A j \in 0 .. strlen(m, s) - 1 : s + j \in Addresses /\ m[s + j] # 0
  <1> SUFFICES ASSUME NEW m \in Memories, NEW s \in Addresses, IsString(m, s)
      PROVE  /\ strlen(m, s) \in Nat /\ s + strlen(m, s) \in Addresses
             /\ m[s + strlen(m, s)] = 0
             /\ \A j \in 0 .. strlen(m, s) - 1 : s + j \in Addresses /\ m[s + j] # 0
    BY Zenon
  <1> DEFINE n == MemSize - s
             l == strlen(m, s)
  <1>1. MemSize \in Nat /\ s \in Nat /\ s < MemSize /\ n \in Nat /\ s + n = MemSize
    BY StringsAssumption DEF Addresses
  <1>2. /\ l \in 0 .. n /\ (l = n \/ m[s + l] = 0)
        /\ \A j \in 0 .. l - 1 : j \in 0 .. n => m[s + j] # 0
    BY LengthIs DEF StopsFirst
  <1>3. PICK e \in s .. MemSize - 1 : m[e] = 0
    BY DEF IsString
  <1> HIDE DEF n, l
  <1>4. \A j \in 0 .. l - 1 : j \in 0 .. n
    BY <1>1, <1>2
  <1>5. l # n
    <2>1. SUFFICES ASSUME l = n PROVE FALSE
      OBVIOUS
    <2>2. e - s \in 0 .. l - 1 /\ s + (e - s) = e
      BY <1>1, <1>3, <2>1
    <2>3. m[s + (e - s)] # 0
      BY <1>2, <1>4, <2>2
    <2> QED
      BY <1>3, <2>2, <2>3
  <1>6. l \in Nat /\ l < n
    BY <1>1, <1>2, <1>5
  <1>7. s + l \in Addresses /\ \A j \in 0 .. l - 1 : s + j \in Addresses
    BY <1>1, <1>6 DEF Addresses
  <1> QED
    BY <1>2, <1>4, <1>5, <1>6, <1>7 DEF l

(* Its length is the only number of which that is true.                    *)
LEMMA LengthOnly ==
  ASSUME NEW m \in Memories, NEW s \in Addresses, NEW l \in Nat,
         s + l \in Addresses, m[s + l] = 0, \A j \in 0 .. l - 1 : m[s + j] # 0
  PROVE  IsString(m, s) /\ strlen(m, s) = l
  <1> DEFINE n == MemSize - s
             S == {j \in 0 .. n : m[s + j] = 0}
  <1>1. MemSize \in Nat /\ s \in Nat /\ s < MemSize /\ n \in Nat /\ s + l < MemSize /\ l \in 0 .. n
    BY StringsAssumption DEF Addresses
  <1>2. IsString(m, s)
    <2>1. s + l \in s .. MemSize - 1
      BY <1>1
    <2> QED
      BY <2>1 DEF IsString
  <1>3. l \in S /\ \A j \in 0 .. l - 1 : j \notin S
    BY <1>1
  <1>4. StopsFirst(n, S, l)
    <2> HIDE DEF n, S
    <2> QED
      BY <1>1, <1>3 DEF StopsFirst
  <1>5. StopsFirst(n, S, strlen(m, s))
    BY LengthIs
  <1> HIDE DEF n, S
  <1> QED
    BY <1>1, <1>2, <1>4, <1>5, StopsOnce

Letters == Chars \ {0}

LEMMA TextIs ==
  \A m \in Memories : \A s \in Addresses : IsString(m, s) =>
    /\ TextAt(m, s) \in Seq(Letters) /\ Len(TextAt(m, s)) = strlen(m, s)
    /\ \A i \in 1 .. strlen(m, s) : TextAt(m, s)[i] = m[s + i - 1]
  <1> SUFFICES ASSUME NEW m \in Memories, NEW s \in Addresses, IsString(m, s)
      PROVE  /\ TextAt(m, s) \in Seq(Letters) /\ Len(TextAt(m, s)) = strlen(m, s)
             /\ \A i \in 1 .. strlen(m, s) : TextAt(m, s)[i] = m[s + i - 1]
    BY Zenon
  <1> DEFINE l == strlen(m, s)
  <1>1. TextAt(m, s) = [k \in 1 .. l |-> m[s + k - 1]]
    BY DEF TextAt
  <1>2. l \in Nat /\ \A j \in 0 .. l - 1 : s + j \in Addresses /\ m[s + j] # 0
    BY StringIs
  <1> HIDE DEF l
  <1>3. s \in Int
    BY DEF Addresses
  <1>4. \A k \in 1 .. l : m[s + k - 1] \in Letters
    <2> TAKE k \in 1 .. l
    <2>1. k - 1 \in 0 .. l - 1 /\ s + (k - 1) = s + k - 1
      BY <1>2, <1>3
    <2>2. s + k - 1 \in Addresses /\ m[s + k - 1] # 0
      BY <1>2, <2>1
    <2> QED
      BY <2>2 DEF Memories, Letters
  <1>5. [k \in 1 .. l |-> m[s + k - 1]] \in [1 .. l -> Letters]
    BY <1>4
  <1> QED
    BY <1>1, <1>2, <1>5 DEF l

(* Characters and an end behind them are a text.                           *)
LEMMA TextOnly ==
  ASSUME NEW m \in Memories, NEW s \in Addresses, NEW text \in Seq(Letters),
         s + Len(text) \in Addresses, m[s + Len(text)] = 0,
         \A i \in 1 .. Len(text) : m[s + i - 1] = text[i]
  PROVE  IsString(m, s) /\ TextAt(m, s) = text
  <1> DEFINE l == Len(text)
  <1>1. l \in Nat /\ s \in Int /\ text = [i \in 1 .. l |-> text[i]]
        /\ \A i \in 1 .. l : text[i] # 0
    BY DEF Addresses, Letters
  <1>2. \A j \in 0 .. l - 1 : m[s + j] # 0
    <2> TAKE j \in 0 .. l - 1
    <2>1. j + 1 \in 1 .. l /\ s + (j + 1) - 1 = s + j
      BY <1>1
    <2>2. m[s + (j + 1) - 1] = text[j + 1]
      BY <2>1
    <2> QED
      BY <1>1, <2>1, <2>2
  <1>3. IsString(m, s) /\ strlen(m, s) = l
    BY <1>1, <1>2, LengthOnly
  <1>4. TextAt(m, s) = [k \in 1 .. l |-> m[s + k - 1]]
    BY <1>3 DEF TextAt
  <1> QED
    BY <1>1, <1>3, <1>4

(* k characters of a string and an end, put behind old, make one text.     *)
LEMMA PutIs ==
  ASSUME NEW m \in Memories, NEW s \in Addresses, IsString(m, s), NEW d \in Addresses,
         NEW old \in Seq(Letters), \A i \in 1 .. Len(old) : m[d + i - 1] = old[i],
         NEW k \in 0 .. strlen(m, s), NEW all \in Seq(Letters), Len(all) = Len(old) + k,
         \A i \in 1 .. Len(old) : all[i] = old[i],
         \A i \in 1 .. k : all[Len(old) + i] = m[s + i - 1],
         Room(m, d, s, all)
  PROVE  Changes(m, PutText(m, d + Len(old), s, k), d, all)
  <1> DEFINE l == strlen(m, s)
             o == Len(old)
             e == d + o
             c == memcpy(m, e, s, k)
             p == PutText(m, e, s, k)
  <1>1. /\ MemSize \in Nat /\ d \in Nat /\ s \in Nat /\ d < MemSize /\ s < MemSize
        /\ l \in Nat /\ s + l < MemSize /\ o \in Nat /\ k \in Nat /\ k <= l /\ e = d + o
        /\ e \in Nat /\ 0 \in Chars
    BY StringsAssumption, StringIs DEF Addresses
  <1>2. e + k < MemSize /\ (e + k < s \/ s + l < d)
    BY <1>1 DEF Room
  <1> HIDE DEF l, o, e
  <1>3. c = Arrived(m, e, s, k)
    <2>1. e + k <= MemSize /\ s + k <= MemSize /\ e \in 0 .. MemSize - 1
      BY <1>1, <1>2
    <2>2. CASE e + k < s
      <3>1. e \notin s + 1 .. s + k - 1
        BY <1>1, <2>2
      <3> QED
        BY <1>1, <2>1, <3>1, UpIs DEF memcpy, Inside, Addresses, c
    <2>3. CASE s + l < d
      <3>1. e \notin s + 1 .. s + k - 1
        BY <1>1, <2>3
      <3> QED
        BY <1>1, <2>1, <3>1, UpIs DEF memcpy, Inside, Addresses, c
    <2> QED
      BY <1>2, <2>2, <2>3
  <1>4. p = [c EXCEPT ![e + k] = 0]
    BY DEF PutText
  <1>5. Len(all) = o + k /\ \A i \in 1 .. k : all[o + i] = m[s + i - 1]
    BY DEF o
  <1> HIDE DEF c, p
  <1>6. \A a \in Addresses : c[a] = IF a \in e .. e + k - 1 THEN m[s + a - e] ELSE m[a]
    BY <1>3, Zenon DEF Arrived
  <1>7. DOMAIN c = Addresses
    BY <1>3, Zenon DEF Arrived
  <1>8. c \in Memories
    <2>1. \A a \in Addresses : a \in e .. e + k - 1 => s + a - e \in Addresses
      BY <1>1, <1>2 DEF Addresses
    <2>2. Arrived(m, e, s, k) \in Memories
      BY <2>1 DEF Arrived, Memories
    <2> QED
      BY <1>3, <2>2
  <1>9. p \in Memories
    BY <1>1, <1>4, <1>8 DEF Memories
  <1>10. e + k \in Addresses /\ p[e + k] = 0 /\ \A a \in Addresses : a # e + k => p[a] = c[a]
    <2>1. e + k \in Addresses
      BY <1>1, <1>2 DEF Addresses
    <2> QED
      BY <1>4, <1>8, <2>1 DEF Memories
  <1>11. ASSUME NEW i \in 1 .. Len(all) PROVE p[d + i - 1] = all[i]
    <2>1. i \in Nat /\ d + i - 1 \in Addresses /\ d + i - 1 < e + k
      BY <1>1, <1>2, <1>5 DEF Addresses
    <2>2. p[d + i - 1] = c[d + i - 1]
      BY <1>10, <2>1, <1>1
    <2>3. CASE i <= o
      <3>1. d + i - 1 \notin e .. e + k - 1 /\ i \in 1 .. o
        BY <1>1, <2>1, <2>3
      <3> QED
        BY <1>6, <2>1, <2>2, <3>1 DEF o
    <2>4. CASE i > o
      <3> DEFINE j == i - o
      <3>1. j \in 1 .. k /\ o + j = i /\ d + i - 1 \in e .. e + k - 1 /\ s + (d + i - 1) - e = s + j - 1
        BY <1>1, <1>5, <2>1, <2>4
      <3> HIDE DEF j
      <3>2. all[i] = m[s + j - 1]
        BY <1>5, <3>1
      <3>3. c[d + i - 1] = m[s + (d + i - 1) - e]
        BY <1>6, <2>1, <3>1
      <3> QED
        BY <2>2, <3>1, <3>2, <3>3
    <2> QED
      BY <1>1, <2>1, <2>3, <2>4
  <1>12. d + Len(all) = e + k
    <2>1. d + (o + k) = e + k
      BY <1>1
    <2> QED
      BY <1>5, <2>1, Zenon
  <1>13. TextAt(p, d) = all
    BY <1>9, <1>10, <1>11, <1>12, TextOnly
  <1>14. ASSUME NEW a \in Addresses, a \notin d .. d + Len(all) PROVE p[a] = m[a]
    <2>1. a \in Int /\ a # e + k /\ a \notin e .. e + k - 1
      BY <1>1, <1>12, <1>14 DEF Addresses
    <2> QED
      BY <1>6, <1>10, <2>1
  <1>15. Changes(m, p, d, all)
    BY <1>13, <1>14 DEF Changes
  <1> QED
    BY <1>15 DEF p, e, o

(* The first k characters of a text, and those behind an older one.        *)
LEMMA CutIs ==
  ASSUME NEW m \in Memories, NEW s \in Addresses, IsString(m, s), NEW k \in 0 .. strlen(m, s)
  PROVE  LET cut == SubSeq(TextAt(m, s), 1, k) IN
         /\ cut \in Seq(Letters) /\ Len(cut) = k /\ \A i \in 1 .. k : cut[i] = m[s + i - 1]
         /\ k = strlen(m, s) => cut = TextAt(m, s)
  <1> DEFINE text == TextAt(m, s)
             l == strlen(m, s)
             cut == SubSeq(text, 1, k)
  <1>1. l \in Nat /\ text \in Seq(Letters) /\ Len(text) = l /\ \A i \in 1 .. l : text[i] = m[s + i - 1]
    BY StringIs, TextIs
  <1> HIDE DEF text
  <1>2. k \in Nat /\ k <= l
    BY <1>1
  <1> HIDE DEF l
  <1>3. cut \in Seq(Letters) /\ Len(cut) = k /\ \A i \in 1 .. k : cut[i] = text[i]
    BY <1>1, <1>2
  <1>4. \A i \in 1 .. k : i \in 1 .. l
    BY <1>1, <1>2
  <1>5. k = l => cut = text
    BY <1>1, <1>2
  <1> QED
    BY <1>1, <1>3, <1>4, <1>5 DEF text, l

LEMMA Copies ==
  ASSUME NEW m \in Memories, NEW s \in Addresses, IsString(m, s), NEW d \in Addresses,
         NEW k \in 0 .. strlen(m, s), Room(m, d, s, SubSeq(TextAt(m, s), 1, k))
  PROVE  Changes(m, PutText(m, d, s, k), d, SubSeq(TextAt(m, s), 1, k))
  <1> DEFINE all == SubSeq(TextAt(m, s), 1, k)
             old == << >>
  <1>1. all \in Seq(Letters) /\ Len(all) = k /\ \A i \in 1 .. k : all[i] = m[s + i - 1]
    BY CutIs
  <1>2. k \in Nat /\ d + 0 = d /\ 0 + k = k /\ \A i \in 1 .. k : 0 + i = i
    BY StringIs DEF Addresses
  <1>3. Room(m, d, s, all)
    OBVIOUS
  <1>4. old \in Seq(Letters) /\ Len(old) = 0 /\ \A i : i \notin 1 .. 0
    OBVIOUS
  <1> HIDE DEF all, old
  <1>5. Changes(m, PutText(m, d + Len(old), s, k), d, all)
    BY <1>1, <1>2, <1>3, <1>4, PutIs
  <1> QED
    BY <1>2, <1>4, <1>5 DEF all

LEMMA Joins ==
  ASSUME NEW m \in Memories, NEW s \in Addresses, IsString(m, s), NEW d \in Addresses, IsString(m, d),
         NEW k \in 0 .. strlen(m, s),
         Room(m, d, s, TextAt(m, d) \o SubSeq(TextAt(m, s), 1, k))
  PROVE  Changes(m, PutText(m, d + strlen(m, d), s, k), d,
                 TextAt(m, d) \o SubSeq(TextAt(m, s), 1, k))
  <1> DEFINE cut == SubSeq(TextAt(m, s), 1, k)
             old == TextAt(m, d)
             all == old \o cut
  <1>1. cut \in Seq(Letters) /\ Len(cut) = k /\ \A i \in 1 .. k : cut[i] = m[s + i - 1]
    BY CutIs
  <1>2. /\ old \in Seq(Letters) /\ Len(old) = strlen(m, d) /\ strlen(m, d) \in Nat
        /\ \A i \in 1 .. Len(old) : m[d + i - 1] = old[i]
    BY StringIs, TextIs
  <1>3. Room(m, d, s, all)
    OBVIOUS
  <1> HIDE DEF cut, old
  <1>4. k \in Nat
    BY StringIs
  <1>5. /\ all \in Seq(Letters) /\ Len(all) = Len(old) + k
        /\ \A i \in 1 .. Len(old) : all[i] = old[i]
        /\ \A i \in 1 .. k : all[Len(old) + i] = cut[i]
    <2>1. all \in Seq(Letters)
      BY <1>1, <1>2
    <2>2. Len(all) = Len(old) + Len(cut)
      BY <1>1, <1>2, ConcatProperties
    <2>3. \A i \in 1 .. Len(old) : all[i] = old[i]
      BY <1>1, <1>2, <1>4
    <2>4. \A i \in 1 .. k : all[Len(old) + i] = cut[i]
      <3> TAKE i \in 1 .. k
      <3>1. Len(old) + i \in Len(old) + 1 .. Len(old) + Len(cut) /\ (Len(old) + i) - Len(old) = i
        BY <1>1, <1>2, <1>4
      <3>2. \A x \in Len(old) + 1 .. Len(old) + Len(cut) : all[x] = cut[x - Len(old)]
        BY <1>1, <1>2, ConcatProperties
      <3> QED
        BY <3>1, <3>2
    <2> QED
      BY <1>1, <2>1, <2>2, <2>3, <2>4
  <1> HIDE DEF all
  <1>6. \A i \in 1 .. k : all[Len(old) + i] = m[s + i - 1]
    BY <1>1, <1>5
  <1>7. Changes(m, PutText(m, d + Len(old), s, k), d, all)
    BY <1>2, <1>3, <1>5, <1>6, PutIs
  <1> QED
    BY <1>2, <1>7 DEF all, old, cut

(* The greatest of finitely many numbers.                                  *)
LEMMA LargestIs ==
  ASSUME NEW S, NEW e \in Int, S \subseteq -1 .. e, S # {}
  PROVE  Max(S) \in S /\ \A x \in S : x <= Max(S)
  <1> DEFINE T == {j \in 0 .. e + 1 : e - j \in S}
  <1>1. PICK x \in S : TRUE
    OBVIOUS
  <1>2. e - x \in T /\ T \subseteq Nat
    <2>1. x \in -1 .. e
      BY <1>1
    <2>2. e - x \in 0 .. e + 1 /\ e - (e - x) = x
      BY <2>1
    <2> QED
      BY <1>1, <2>2
  <1> HIDE DEF T
  <1>3. PICK j \in T : \A i \in T : j <= i
    BY <1>2, MinimalNat
  <1>4. e - j \in S /\ j \in 0 .. e + 1
    BY <1>3 DEF T
  <1>5. \A y \in S : e - j >= y
    <2> TAKE y \in S
    <2>1. y \in -1 .. e
      OBVIOUS
    <2>2. e - y \in 0 .. e + 1 /\ e - (e - y) = y
      BY <2>1
    <2>3. e - y \in T
      BY <2>2 DEF T
    <2>4. j <= e - y
      BY <1>3, <2>3
    <2> QED
      BY <1>4, <2>1, <2>4
  <1>6. Max(S) \in S /\ \A y \in S : Max(S) >= y
    BY <1>4, <1>5, Zenon DEF Max
  <1>7. \A y, z \in S : y >= z => z <= y
    OBVIOUS
  <1> QED
    BY <1>6, <1>7

LEMMA LastIs ==
  ASSUME NEW m \in Memories, NEW s \in Addresses, IsString(m, s), NEW c \in Letters
  PROVE  LET at == strrchr(m, s, c) IN
         IF at = NULL THEN c \notin Range(TextAt(m, s))
         ELSE m[at] = c /\ c \notin Range(TextAt(m, at + 1))
  <1> DEFINE l == strlen(m, s)
             S == {k \in s .. s + l - 1 : m[k] = c}
             at == Max(S \cup {NULL})
             text == TextAt(m, s)
  <1>1. /\ l \in Nat /\ s \in Nat /\ s + l \in Addresses /\ m[s + l] = 0 /\ MemSize \in Nat
        /\ \A j \in 0 .. l - 1 : s + j \in Addresses /\ m[s + j] # 0
    BY StringIs, StringsAssumption DEF Addresses
  <1>2. strrchr(m, s, c) = at
    BY DEF strrchr
  <1>3. text \in Seq(Letters) /\ Len(text) = l /\ \A i \in 1 .. l : text[i] = m[s + i - 1]
    BY TextIs
  <1> HIDE DEF l, text
  <1>4. at \in S \cup {NULL} /\ \A x \in S \cup {NULL} : x <= at
    <2>1. S \cup {NULL} \subseteq -1 .. s + l /\ s + l \in Int /\ S \cup {NULL} # {}
      BY <1>1 DEF NULL
    <2> HIDE DEF S
    <2> QED
      BY <2>1, LargestIs
  <1> HIDE DEF at
  <1>5. CASE at = NULL
    <2>1. S = {}
      BY <1>1, <1>4, <1>5 DEF NULL
    <2>2. ASSUME NEW i \in 1 .. l, text[i] = c PROVE FALSE
      <3>1. s + i - 1 \in s .. s + l - 1
        BY <1>1
      <3>2. s + i - 1 \in S
        BY <1>3, <2>2, <3>1
      <3> QED
        BY <2>1, <3>2
    <2>3. c \notin Range(text)
      <3>1. DOMAIN text = 1 .. l
        BY <1>1, <1>3
      <3> QED
        BY <2>2, <3>1 DEF Range
    <2> QED
      BY <1>2, <1>5, <2>3 DEF text
  <1>6. CASE at # NULL
    <2> DEFINE b == at + 1
               r == s + l - b
    <2>1. at \in s .. s + l - 1 /\ m[at] = c
      BY <1>4, <1>6
    <2>2. b \in Addresses /\ r \in Nat /\ b + r = s + l
      BY <1>1, <2>1 DEF Addresses
    <2>3. \A j \in 0 .. r - 1 : b + j \in s .. s + l - 1 /\ b + j > at
      BY <1>1, <2>1
    <2> HIDE DEF b, r
    <2>4. \A j \in 0 .. r - 1 : m[b + j] # 0
      <3> TAKE j \in 0 .. r - 1
      <3>1. b + j \in s .. s + l - 1
        BY <2>3
      <3>2. b + j - s \in 0 .. l - 1 /\ s + (b + j - s) = b + j
        BY <1>1, <3>1, <2>2
      <3> QED
        BY <1>1, <3>2
    <2>5. IsString(m, b) /\ strlen(m, b) = r
      BY <1>1, <2>2, <2>4, LengthOnly
    <2> DEFINE rest == TextAt(m, b)
    <2>6. rest \in Seq(Letters) /\ Len(rest) = r /\ \A i \in 1 .. r : rest[i] = m[b + i - 1]
      BY <2>2, <2>5, TextIs
    <2> HIDE DEF rest
    <2>7. ASSUME NEW i \in 1 .. r, rest[i] = c PROVE FALSE
      <3> DEFINE j == i - 1
      <3>1. j \in 0 .. r - 1 /\ b + j = b + i - 1
        BY <2>2 DEF Addresses
      <3> HIDE DEF j
      <3>2. b + j \in S
        BY <2>3, <2>6, <2>7, <3>1
      <3>3. b + j <= at /\ b + j > at
        BY <1>4, <2>3, <3>1, <3>2
      <3> QED
        BY <2>1, <2>3, <3>1, <3>3
    <2>8. c \notin Range(rest)
      <3>1. DOMAIN rest = 1 .. r
        BY <2>2, <2>6
      <3> QED
        BY <2>7, <3>1 DEF Range
    <2> QED
      BY <1>2, <1>6, <2>1, <2>8 DEF rest, b
  <1> QED
    BY <1>5, <1>6

(* Two texts part once, behind the last characters they share.             *)
LEMMA PartOnce ==
  \A v, w \in Seq(Letters) : \A j, k \in Nat : Part(v, w, j) /\ Part(v, w, k) => j = k
  <1>1. ASSUME NEW v \in Seq(Letters), NEW w \in Seq(Letters), NEW j \in Nat, NEW k \in Nat,
               Part(v, w, j), Part(v, w, k), j < k
        PROVE  FALSE
    <2> DEFINE lv == Len(v)
               lw == Len(w)
    <2>1. lv \in Nat /\ lw \in Nat
      OBVIOUS
    <2>2. (j = lv \/ j = lw \/ v[j + 1] # w[j + 1]) /\ k <= lv /\ k <= lw /\ \A i \in 1 .. k : v[i] = w[i]
      BY <1>1, Zenon DEF Part
    <2> HIDE DEF lv, lw
    <2>3. j + 1 \in 1 .. k /\ j # lv /\ j # lw
      BY <1>1, <2>1, <2>2
    <2> QED
      BY <2>2, <2>3
  <1>2. \A j, k \in Nat : ~(j < k) /\ ~(k < j) => j = k
    OBVIOUS
  <1> QED
    BY <1>1, <1>2, Zenon

(* A loop over two strings that stops where they part, or with one of them *)
(* at its end, stops behind the characters that their texts share.         *)
LEMMA PartIs ==
  ASSUME NEW m \in Memories, NEW a \in Addresses, NEW b \in Addresses, IsString(m, a), IsString(m, b),
         NEW n \in Nat, NEW k \in Nat, Part(TextAt(m, a), TextAt(m, b), k)
  PROVE  FirstOf(n, LAMBDA j : Parts(m, a, b, j)) = IF k < n THEN k ELSE n
  <1> DEFINE v == TextAt(m, a)
             w == TextAt(m, b)
             la == strlen(m, a)
             lb == strlen(m, b)
             S == {j \in 0 .. n : Parts(m, a, b, j)}
             At(i) == (i = n \/ Parts(m, a, b, i)) /\ \A j \in 0 .. i - 1 : ~Parts(m, a, b, j)
             f == CHOOSE i \in 0 .. n : At(i)
             g == IF k < n THEN k ELSE n
  <1>1. /\ la \in Nat /\ m[a + la] = 0 /\ \A j \in 0 .. la - 1 : m[a + j] # 0
        /\ lb \in Nat /\ m[b + lb] = 0 /\ \A j \in 0 .. lb - 1 : m[b + j] # 0
        /\ a \in Nat /\ b \in Nat
    BY StringIs DEF Addresses
  <1>2. /\ Len(v) = la /\ \A i \in 1 .. la : v[i] = m[a + i - 1]
        /\ Len(w) = lb /\ \A i \in 1 .. lb : w[i] = m[b + i - 1]
    BY TextIs
  <1>3. /\ k <= la /\ k <= lb /\ \A i \in 1 .. k : v[i] = w[i]
        /\ k = la \/ k = lb \/ v[k + 1] # w[k + 1]
    BY <1>2 DEF Part
  <1> HIDE DEF v, w, la, lb
  <1>4. ASSUME NEW j \in 0 .. k - 1 PROVE ~Parts(m, a, b, j)
    <2>1. j + 1 \in 1 .. k /\ j + 1 \in 1 .. la /\ j + 1 \in 1 .. lb /\ j \in 0 .. la - 1 /\ j \in 0 .. lb - 1
          /\ a + (j + 1) - 1 = a + j /\ b + (j + 1) - 1 = b + j
      BY <1>1, <1>3
    <2>2. v[j + 1] = m[a + j] /\ w[j + 1] = m[b + j] /\ v[j + 1] = w[j + 1]
      BY <1>2, <1>3, <2>1
    <2> QED
      BY <1>1, <2>1, <2>2 DEF Parts
  <1>5. Parts(m, a, b, k)
    <2>1. CASE k = la \/ k = lb
      BY <1>1, <2>1 DEF Parts
    <2>2. CASE ~(k = la \/ k = lb)
      <3>1. k + 1 \in 1 .. la /\ k + 1 \in 1 .. lb /\ a + (k + 1) - 1 = a + k /\ b + (k + 1) - 1 = b + k
        BY <1>1, <1>3, <2>2
      <3>2. v[k + 1] = m[a + k] /\ w[k + 1] = m[b + k]
        BY <1>2, <3>1
      <3> QED
        BY <1>3, <2>2, <3>2 DEF Parts
    <2> QED
      BY <2>1, <2>2
  <1>6. g \in 0 .. n /\ At(g) /\ StopsFirst(n, S, g)
    <2>1. CASE k < n
      <3>1. g = k /\ k \in 0 .. n
        BY <2>1
      <3>2. k \in S /\ \A j \in 0 .. k - 1 : j \notin S
        BY <1>4, <1>5, <3>1
      <3> HIDE DEF S, g
      <3> QED
        BY <1>4, <1>5, <3>1, <3>2 DEF StopsFirst
    <2>2. CASE ~(k < n)
      <3>1. g = n /\ \A j \in 0 .. n - 1 : j \in 0 .. k - 1
        BY <2>2
      <3>2. \A j \in 0 .. n - 1 : j \notin S
        BY <1>4, <3>1
      <3> HIDE DEF S, g
      <3> QED
        BY <1>4, <3>1, <3>2 DEF StopsFirst
    <2> QED
      BY <2>1, <2>2
  <1>7. f \in 0 .. n /\ At(f)
    <2> HIDE DEF At, g
    <2> QED
      BY <1>6
  <1>8. FirstOf(n, LAMBDA j : Parts(m, a, b, j)) = f
    BY Zenon DEF FirstOf
  <1> HIDE DEF f, g
  <1>9. StopsFirst(n, S, f)
    <2>1. \A j \in 0 .. f - 1 : j \in 0 .. n
      BY <1>7
    <2> QED
      BY <1>7, <2>1 DEF StopsFirst
  <1> HIDE DEF S
  <1>10. f = g
    BY <1>6, <1>9, StopsOnce
  <1> QED
    BY <1>8, <1>10 DEF g

LEMMA PartExists ==
  ASSUME NEW v \in Seq(Letters), NEW w \in Seq(Letters)
  PROVE  \E k \in Nat : Part(v, w, k)
  <1> DEFINE n == IF Len(v) < Len(w) THEN Len(v) ELSE Len(w)
             S == {j \in 0 .. n : v[j + 1] # w[j + 1]}
  <1>1. n \in Nat /\ Len(v) \in Nat /\ Len(w) \in Nat /\ n <= Len(v) /\ n <= Len(w)
        /\ (n = Len(v) \/ n = Len(w))
    OBVIOUS
  <1> HIDE DEF n
  <1>2. PICK k \in 0 .. n : (k = n \/ k \in S) /\ \A j \in 0 .. k - 1 : j \notin S
    <2> HIDE DEF S
    <2> QED
      BY <1>1, FirstStop
  <1>3. ASSUME NEW i \in 1 .. k PROVE v[i] = w[i]
    <2>1. i - 1 \in 0 .. k - 1 /\ i - 1 \in 0 .. n /\ (i - 1) + 1 = i
      BY <1>1, <1>2
    <2> QED
      BY <1>2, <2>1
  <1>4. k = Len(v) \/ k = Len(w) \/ v[k + 1] # w[k + 1]
    BY <1>1, <1>2
  <1>5. k \in Nat /\ k <= Len(v) /\ k <= Len(w)
    BY <1>1, <1>2
  <1>6. Part(v, w, k)
    BY <1>3, <1>4, <1>5, Zenon DEF Part
  <1> QED
    BY <1>5, <1>6

LEMMA OrdersIs ==
  ASSUME NEW m \in Memories, NEW a \in Addresses, NEW b \in Addresses, IsString(m, a), IsString(m, b)
  PROVE  Ordered(m, a, b)
  <1> DEFINE v == TextAt(m, a)
             w == TextAt(m, b)
             la == strlen(m, a)
             lb == strlen(m, b)
             cmp == strcmp(m, a, b)
  <1>1. /\ la \in Nat /\ m[a + la] = 0 /\ \A j \in 0 .. la - 1 : m[a + j] # 0
        /\ lb \in Nat /\ m[b + lb] = 0 /\ \A j \in 0 .. lb - 1 : m[b + j] # 0
        /\ a \in Nat /\ b \in Nat /\ a + la < MemSize /\ b + lb < MemSize /\ MemSize \in Nat
    BY StringIs, StringsAssumption DEF Addresses
  <1>2. /\ v \in Seq(Letters) /\ Len(v) = la /\ \A i \in 1 .. la : v[i] = m[a + i - 1]
        /\ w \in Seq(Letters) /\ Len(w) = lb /\ \A i \in 1 .. lb : w[i] = m[b + i - 1]
    BY TextIs
  <1>3. PICK k \in Nat : Part(v, w, k)
    <2> HIDE DEF v, w
    <2> QED
      BY <1>2, PartExists
  <1>4. k <= la /\ k <= lb /\ k < MemSize
    <2>1. k <= Len(v) /\ k <= Len(w)
      BY <1>3, Zenon DEF Part
    <2> QED
      BY <1>1, <1>2, <2>1
  <1>5. \A n \in Nat : FirstOf(n, LAMBDA j : Parts(m, a, b, j)) = IF k < n THEN k ELSE n
    BY <1>3, PartIs
  <1>6. cmp = m[a + k] - m[b + k]
    <2>1. FirstOf(MemSize, LAMBDA j : Parts(m, a, b, j)) = k
      BY <1>1, <1>4, <1>5
    <2> QED
      BY <2>1, Zenon DEF strcmp
  <1>7. m[a + k] \in Int /\ m[b + k] \in Int
    <2>1. a + k \in Addresses /\ b + k \in Addresses
      BY <1>1, <1>4 DEF Addresses
    <2>2. m[a + k] \in Chars /\ m[b + k] \in Chars
      BY <2>1 DEF Memories
    <2>3. \A c \in Chars : c \in Int
      BY StringsAssumption
    <2> QED
      BY <2>2, <2>3
  <1>8. \A j \in Nat : Part(v, w, j) => j = k
    <2> HIDE DEF v, w
    <2> QED
      BY <1>2, <1>3, PartOnce
  <1>9. Append(v, 0)[k + 1] = m[a + k]
    <2>1. CASE k = la
      BY <1>1, <1>2, <2>1
    <2>2. CASE k # la
      <3>1. k + 1 \in 1 .. la /\ a + (k + 1) - 1 = a + k
        BY <1>1, <1>4, <2>2
      <3>2. v[k + 1] = m[a + k]
        BY <1>2, <3>1
      <3> HIDE DEF v, la
      <3>3. Append(v, 0)[k + 1] = v[k + 1]
        BY <1>1, <1>2, <3>1
      <3> QED
        BY <3>2, <3>3
    <2> QED
      BY <2>1, <2>2
  <1>10. Append(w, 0)[k + 1] = m[b + k]
    <2>1. CASE k = lb
      BY <1>1, <1>2, <2>1
    <2>2. CASE k # lb
      <3>1. k + 1 \in 1 .. lb /\ b + (k + 1) - 1 = b + k
        BY <1>1, <1>4, <2>2
      <3>2. w[k + 1] = m[b + k]
        BY <1>2, <3>1
      <3> HIDE DEF w, lb
      <3>3. Append(w, 0)[k + 1] = w[k + 1]
        BY <1>1, <1>2, <3>1
      <3> QED
        BY <3>2, <3>3
    <2> QED
      BY <2>1, <2>2
  <1>11. Before(v, w) <=> m[a + k] < m[b + k]
    <2>1. k \in 0 .. Len(v) /\ \A j \in 0 .. Len(v) : j \in Nat
      BY <1>1, <1>2, <1>4
    <2> HIDE DEF v, w
    <2> QED
      BY <1>3, <1>8, <1>9, <1>10, <2>1, Zenon DEF Before
  <1>12. cmp < 0 <=> Before(v, w)
    <2> HIDE DEF v, w, cmp
    <2> QED
      BY <1>6, <1>7, <1>11
  <1>13. cmp = 0 <=> v = w
    <2>1. ASSUME m[a + k] = m[b + k] PROVE v = w
      <3>1. k = la
        <4>1. ASSUME k # la PROVE FALSE
          <5>1. k \in 0 .. la - 1
            BY <1>1, <1>4, <4>1
          <5>2. m[b + k] # 0
            BY <1>1, <2>1, <5>1
          <5>3. k # lb
            BY <1>1, <5>2
          <5>4. v[k + 1] # w[k + 1]
            <6> HIDE DEF v, w
            <6>1. k = Len(v) \/ k = Len(w) \/ v[k + 1] # w[k + 1]
              BY <1>3, Zenon DEF Part
            <6> QED
              BY <1>2, <4>1, <5>3, <6>1
          <5>5. k + 1 \in 1 .. la /\ k + 1 \in 1 .. lb /\ a + (k + 1) - 1 = a + k /\ b + (k + 1) - 1 = b + k
            BY <1>1, <1>4, <4>1, <5>3
          <5>6. v[k + 1] = m[a + k] /\ w[k + 1] = m[b + k]
            <6> HIDE DEF v, w
            <6> QED
              BY <1>2, <5>5
          <5> QED
            BY <2>1, <5>4, <5>6
        <4> QED
          BY <4>1
      <3>2. k = lb
        <4>1. m[b + k] = 0
          BY <1>1, <2>1, <3>1
        <4>2. k \notin 0 .. lb - 1
          BY <1>1, <4>1
        <4> QED
          BY <1>1, <1>4, <4>2
      <3> HIDE DEF v, w, la, lb
      <3>3. \A i \in 1 .. k : v[i] = w[i]
        BY <1>3, Zenon DEF Part
      <3> QED
        BY <1>2, <3>1, <3>2, <3>3
    <2>2. ASSUME v = w PROVE m[a + k] = m[b + k]
      <3>1. k + 1 \in Nat
        BY <1>3
      <3> HIDE DEF v, w
      <3> QED
        BY <1>9, <1>10, <2>2
    <2> HIDE DEF v, w, cmp
    <2> QED
      BY <1>6, <1>7, <2>1, <2>2
  <1>14. ASSUME NEW n \in 0 .. MemSize, NEW j \in 0 .. Len(v), Part(v, w, j)
         PROVE  strncmp(m, a, b, n) = IF j = n - 1 THEN 0
                                      ELSE IF j < n THEN cmp
                                      ELSE m[a + n] - m[b + n]
    <2>1. n \in Nat /\ j \in Nat
      BY <1>1, <1>2
    <2>2. j = k
      BY <1>8, <1>14, <2>1
    <2> DEFINE r == IF k < n THEN k ELSE n
    <2>3. FirstOf(n, LAMBDA i : Parts(m, a, b, i)) = r
      BY <1>5, <2>1
    <2>4. strncmp(m, a, b, n) = IF r = n - 1 THEN 0 ELSE m[a + r] - m[b + r]
      <3> HIDE DEF r
      <3> QED
        BY <2>3, Zenon DEF strncmp
    <2> HIDE DEF cmp
    <2>5. CASE k < n
      BY <1>6, <2>2, <2>4, <2>5
    <2>6. CASE ~(k < n)
      <3>1. r = n /\ n # n - 1 /\ k # n - 1
        BY <2>1, <2>6
      <3> QED
        BY <2>2, <2>4, <2>6, <3>1
    <2> QED
      BY <2>5, <2>6
  <1> HIDE DEF v, w, cmp
  <1>15. /\ cmp < 0 <=> Before(v, w)
         /\ cmp = 0 <=> v = w
         /\ \A n \in 0 .. MemSize, j \in 0 .. Len(v) :
              Part(v, w, j) =>
                strncmp(m, a, b, n) = IF j = n - 1 THEN 0
                                      ELSE IF j < n THEN cmp
                                      ELSE m[a + n] - m[b + n]
    BY <1>12, <1>13, <1>14, Zenon
  <1> QED
    BY <1>15, Zenon DEF Ordered, v, w, cmp

LEMMA Agree == StringsAgree
  <1> SUFFICES ASSUME NEW m \in Memories, NEW s \in {a \in Addresses : IsString(m, a)}
      PROVE  LET text == TextAt(m, s) IN
        /\ \A d \in Addresses, n \in 0 .. MemSize :
             LET cut == SubSeq(text, 1, AtMost(n, Len(text))) IN
             /\ Room(m, d, s, text) => Changes(m, strcpy(m, d, s), d, text)
             /\ Room(m, d, s, cut) => Changes(m, strncpy(m, d, s, n), d, cut)
             /\ IsString(m, d) =>
                  LET old == TextAt(m, d) IN
                  /\ Room(m, d, s, old \o text) => Changes(m, strcat(m, d, s), d, old \o text)
                  /\ Room(m, d, s, old \o cut) => Changes(m, strncat(m, d, s, n), d, old \o cut)
        /\ \A c \in Chars \ {0} :
             LET at == strrchr(m, s, c) IN
             IF at = NULL THEN c \notin Range(text)
             ELSE m[at] = c /\ c \notin Range(TextAt(m, at + 1))
        /\ \A b \in {a \in Addresses : IsString(m, a)} : Ordered(m, s, b)
    BY Zenon DEF StringsAgree
  <1>0. s \in Addresses /\ IsString(m, s)
    OBVIOUS
  <1> DEFINE text == TextAt(m, s)
             l == strlen(m, s)
  <1>1. l \in Nat /\ Len(text) = l
    BY <1>0, StringIs, TextIs
  <1>2. ASSUME NEW d \in Addresses, NEW n \in 0 .. MemSize
        PROVE  LET cut == SubSeq(text, 1, AtMost(n, Len(text))) IN
               /\ Room(m, d, s, text) => Changes(m, strcpy(m, d, s), d, text)
               /\ Room(m, d, s, cut) => Changes(m, strncpy(m, d, s, n), d, cut)
               /\ IsString(m, d) =>
                    LET old == TextAt(m, d) IN
                    /\ Room(m, d, s, old \o text) => Changes(m, strcat(m, d, s), d, old \o text)
                    /\ Room(m, d, s, old \o cut) => Changes(m, strncat(m, d, s, n), d, old \o cut)
    <2> DEFINE k == AtMost(n, l)
               cut == SubSeq(text, 1, k)
               old == TextAt(m, d)
               long == old \o text
               short == old \o cut
    <2>1. k \in 0 .. l /\ l \in 0 .. l
      BY <1>1, StringsAssumption DEF AtMost
    <2>2. SubSeq(text, 1, l) = text
      BY <1>0, <2>1, CutIs
    <2>3. strcpy(m, d, s) = PutText(m, d, s, l) /\ strncpy(m, d, s, n) = PutText(m, d, s, k)
      BY Zenon DEF strcpy, strncpy
    <2>4. /\ strcat(m, d, s) = PutText(m, d + strlen(m, d), s, l)
          /\ strncat(m, d, s, n) = PutText(m, d + strlen(m, d), s, k)
      BY Zenon DEF strcat, strncat
    <2> HIDE DEF k, l
    <2>5. Room(m, d, s, text) => Changes(m, strcpy(m, d, s), d, text)
      BY <2>1, <2>2, <2>3, Copies, <1>0 DEF l
    <2>6. Room(m, d, s, cut) => Changes(m, strncpy(m, d, s, n), d, cut)
      BY <2>1, <2>3, Copies, <1>0 DEF l
    <2>7. IsString(m, d) /\ Room(m, d, s, long) => Changes(m, strcat(m, d, s), d, long)
      BY <2>1, <2>2, <2>4, Joins, <1>0 DEF l
    <2>8. IsString(m, d) /\ Room(m, d, s, short) => Changes(m, strncat(m, d, s, n), d, short)
      BY <2>1, <2>4, Joins, <1>0 DEF l
    <2>9. SubSeq(text, 1, AtMost(n, Len(text))) = cut
      BY <1>1, Zenon DEF k
    <2> HIDE DEF text, cut
    <2> QED
      BY <2>5, <2>6, <2>7, <2>8, <2>9, Zenon
  <1>3. ASSUME NEW c \in Chars \ {0}
        PROVE  LET at == strrchr(m, s, c) IN
               IF at = NULL THEN c \notin Range(text)
               ELSE m[at] = c /\ c \notin Range(TextAt(m, at + 1))
    <2>1. c \in Letters
      BY DEF Letters
    <2> QED
      BY <1>0, <2>1, LastIs, Zenon
  <1>4. ASSUME NEW b \in {a \in Addresses : IsString(m, a)} PROVE Ordered(m, s, b)
    <2>1. b \in Addresses /\ IsString(m, b)
      OBVIOUS
    <2> QED
      BY <1>0, <2>1, OrdersIs
  <1> HIDE DEF text
  <1>5. /\ \A d \in Addresses, n \in 0 .. MemSize :
             LET cut == SubSeq(text, 1, AtMost(n, Len(text))) IN
             /\ Room(m, d, s, text) => Changes(m, strcpy(m, d, s), d, text)
             /\ Room(m, d, s, cut) => Changes(m, strncpy(m, d, s, n), d, cut)
             /\ IsString(m, d) =>
                  LET old == TextAt(m, d) IN
                  /\ Room(m, d, s, old \o text) => Changes(m, strcat(m, d, s), d, old \o text)
                  /\ Room(m, d, s, old \o cut) => Changes(m, strncat(m, d, s, n), d, old \o cut)
    BY <1>2, Zenon
  <1> QED
    BY <1>3, <1>4, <1>5, Zenon DEF text

(* The library functions that the interpreter, the renderer and the kernel *)
(* rest on do what they promise, in any memory and for any number: bytes   *)
(* arrive however two ranges overlap, texts are copied, joined, searched   *)
(* and ordered within their buffers, and numbers are rounded as documented.*)
THEOREM CallsAlways == CallsAgree
  BY Moves, Agree, Rounds DEF CallsAgree

(* The same as the invariant a run checks; it asks nothing of the state.   *)
THEOREM LibraryAlways == Spec => []LibraryAgrees
  <1>1. LibraryAgrees
    BY CallsAlways DEF LibraryAgrees
  <1> QED
    BY <1>1, PTL
=============================================================================
