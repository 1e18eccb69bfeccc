-------------------------------- MODULE Vfs --------------------------------
(***************************************************************************)
(* The virtual file system of src/mock_libc/vfs.c: a tree of nodes linked  *)
(* by parent, first child and next sibling, and streams over their data.   *)
(* All of it runs in the kernel's main context, one call after the other.  *)
(*                                                                         *)
(* A path is the sequence of its components, which vfsGetPath splits off,  *)
(* and whether it ends in a slash, which only vfsBasename sees. A node is  *)
(* a number; the smallest free one stands for the memory malloc returns.   *)
(* Callers remove neither the root nor a file that a stream is open on.    *)
(***************************************************************************)
EXTENDS Integers, SequencesExt, FiniteSetsExt

CONSTANTS
  Paths,        \* paths the callers use: [comps, slash]
  StdNames,     \* $stdin, $stdout, $stderr, in this order
  DollarNames,  \* names that begin with a dollar sign
  MaxNodes,     \* bound: nodes that exist at one time
  MaxStreams,   \* bound: streams open at one time
  Chunks,       \* what the callers write: sequences of bytes
  MaxData,      \* bound: length of a file
  ReadSizes, SeekBy   \* sizes and offsets the callers ask for

ASSUME BoundsAssumption ==
  /\ MaxNodes \in Nat \ {0} /\ MaxStreams \in Nat /\ MaxData \in Nat
  /\ Len(StdNames) < MaxNodes /\ Len(StdNames) <= MaxStreams
  /\ ReadSizes \subseteq Nat /\ SeekBy \subseteq Int

ASSUME ChunksAssumption ==
  \A chunk \in Chunks : chunk \in Seq(Range(chunk))

(* Between two slashes there is always something, and the standard files   *)
(* are three with proper names. A caller may use other names with a dollar *)
(* sign.                                                                   *)
ASSUME NamesAssumption ==
  /\ \A p \in Paths : /\ p.comps \in Seq(Range(p.comps)) /\ p.slash \in BOOLEAN
                     /\ "" \notin Range(p.comps)
  /\ StdNames \in Seq(Range(StdNames)) /\ IsInjective(StdNames)
  /\ Range(StdNames) \subseteq DollarNames /\ DollarNames \cap {"", ".", ".."} = {}

Null == 0
Root == 1
Ids == 1 .. MaxNodes
Hidden(n) == n \in DollarNames   \* filename[0] == '$'

VARIABLES
  nodes,                        \* nodes that are allocated
  parent, child, sibling, name, \* their links and filename
  data,                         \* the first datasize bytes of their data
  streams                       \* the open streams

treeVars == <<nodes, parent, child, sibling, name>>
vars == <<treeVars, data, streams>>

-----------------------------------------------------------------------------
(* Walking the tree                                                        *)

(* The node k and the siblings behind it. *)
Chain(next, k) ==
  LET from[j \in 0 .. MaxNodes] ==
        IF j = Null THEN <<>> ELSE <<j>> \o from[next[j]]
  IN from[k]

Kids(n) == Chain(sibling, child[n])

(* The first child of n called c.                                          *)
FindChild(n, c) ==
  LET find[j \in 0 .. MaxNodes] ==
        IF j = Null THEN Null ELSE IF name[j] = c THEN j ELSE find[sibling[j]]
  IN find[child[n]]

StepInto(n, c) ==
  CASE n = Null -> Null
    [] n # Null /\ c = ".." -> parent[n]
    [] n # Null /\ c = "."  -> n
    [] OTHER -> FindChild(n, c)

(* vfsGetPath, with base: the last component is left off.                  *)
GetPath(comps) ==
  LET at[k \in 0 .. Len(comps)] ==
        IF k = 0 THEN Root ELSE StepInto(at[k - 1], comps[k])
  IN at[Len(comps)]
GetBase(comps) == GetPath(IF comps = <<>> THEN <<>> ELSE Front(comps))

Basename(p) == IF p.slash THEN "" ELSE Last(p.comps)

-----------------------------------------------------------------------------
(* vfsAlloc and vfsFree                                                    *)

Fresh == Min(Ids \ nodes)

(* Mutation: the new node takes the place of the directory's children.     *)
LinkLastReplaces(n, k) ==
  child' = [child EXCEPT ![n] = k] /\ sibling' = sibling

(* The last of k and the siblings behind it.                               *)
LastSibling(k) ==
  LET last[j \in 0 .. MaxNodes] ==
        IF j = Null THEN Null ELSE IF sibling[j] = Null THEN j ELSE last[sibling[j]]
  IN last[k]

(* The new node k becomes the last child of n.                             *)
LinkLast(n, k) ==
  \/ /\ child[n] = Null
     /\ child' = [child EXCEPT ![n] = k] /\ UNCHANGED sibling
  \/ /\ child[n] # Null
     /\ sibling' = [sibling EXCEPT ![LastSibling(child[n])] = k] /\ UNCHANGED child

Alloc(n, f) ==
  /\ nodes # Ids
  /\ nodes' = nodes \cup {Fresh}
  /\ parent' = [parent EXCEPT ![Fresh] = n]
  /\ name' = [name EXCEPT ![Fresh] = f]
  /\ LinkLast(n, Fresh)

(* n and everything below it. *)
Subtree(n) ==
  LET up[k \in 0 .. MaxNodes] == k = n \/ (k \notin {Null, Root} /\ up[parent[k]])
  IN {k \in nodes : up[k]}

(* Mutation: the directory's first child is replaced wherever the node is. *)
FreeAsFirst(n) ==
  LET gone == Subtree(n) IN
  /\ nodes' = nodes \ gone
  /\ child' = [k \in Ids |-> IF k \in gone THEN Null
                             ELSE IF k = parent[n] THEN sibling[n] ELSE child[k]]
  /\ sibling' = [k \in Ids |-> IF k \in gone THEN Null ELSE sibling[k]]
  /\ parent' = [k \in Ids |-> IF k \in gone THEN Null ELSE parent[k]]
  /\ name' = [k \in Ids |-> IF k \in gone THEN "" ELSE name[k]]

(* The node is taken out of its parent's list of children, and it and all  *)
(* below it are freed.                                                     *)
Free(n) ==
  LET gone == Subtree(n)
      skip(k) == IF k = n THEN sibling[n] ELSE k
  IN
  /\ nodes' = nodes \ gone
  /\ child' = [k \in Ids |-> IF k \in gone THEN Null ELSE skip(child[k])]
  /\ sibling' = [k \in Ids |-> IF k \in gone THEN Null ELSE skip(sibling[k])]
  /\ parent' = [k \in Ids |-> IF k \in gone THEN Null ELSE parent[k]]
  /\ name' = [k \in Ids |-> IF k \in gone THEN "" ELSE name[k]]

-----------------------------------------------------------------------------
(* Streams. Ghosts: heard is what the hook was given; got is what was read *)
(* since from, the last position the stream was set to; placed says that   *)
(* the position lay in the file and the file was not emptied since; sole   *)
(* says that only this stream has put bytes into the file, and it has not  *)
(* been set to another position. What no property looks at is kept empty.  *)

StreamIds == 1 .. MaxStreams
Open == DOMAIN streams
Size(n) == Len(data[n])

NewStream(n, empty) ==
  [file |-> n, i |-> 0, hooked |-> FALSE, flushindex |-> 0,
   heard |-> <<>>, from |-> 0, got |-> <<>>, placed |-> TRUE, sole |-> empty]

Unplaced(st) == [st EXCEPT !.placed = FALSE, !.got = <<>>, !.from = 0]
Shared(st) == [st EXCEPT !.sole = FALSE, !.heard = <<>>]

(* The streams after stream s, or one that is just opened, wrote n.        *)
Written(n, s) ==
  [t \in Open |-> IF t # s /\ streams[t].file = n THEN Shared(streams[t])
                                                  ELSE streams[t]]
Emptied(n) ==
  [t \in Open |-> IF streams[t].file = n THEN Unplaced(Shared(streams[t]))
                                         ELSE streams[t]]

Opened(n, empty, others) ==
  LET s == Min(StreamIds \ Open)
  IN /\ Open # StreamIds
     /\ streams' = [t \in Open \cup {s} |->
                      IF t = s THEN NewStream(n, empty) ELSE others[t]]

(* The bytes from position i, counted from 0, up to j. What lies beyond    *)
(* the end of the file is whatever the memory holds.                       *)
Slice(bytes, i, j) ==
  [k \in 1 .. j - i |-> IF i + k <= Len(bytes) THEN bytes[i + k] ELSE "junk"]

(* Mutation: flushindex stays.                                             *)
FlushedAgain(st, bytes) ==
  IF st.hooked /\ st.flushindex < st.i
  THEN [st EXCEPT !.heard = IF st.sole THEN @ \o Slice(bytes, st.flushindex, st.i)
                                       ELSE <<>>]
  ELSE st

(* vfsFlush: the hook gets the bytes between flushindex and i.             *)
Flushed(st, bytes) ==
  IF st.hooked /\ st.flushindex < st.i
  THEN [st EXCEPT !.heard = IF st.sole THEN @ \o Slice(bytes, st.flushindex, st.i)
                                       ELSE <<>>,
                  !.flushindex = st.i]
  ELSE st

-----------------------------------------------------------------------------
(* vfsInit makes the standard files, and rtlInit opens a stream on each.   *)

Std == DOMAIN StdNames

Init ==
  /\ nodes = {Root} \cup {s + 1 : s \in Std}
  /\ parent = [n \in Ids |-> IF n \in nodes \ {Root} THEN Root ELSE Null]
  /\ child = [n \in Ids |-> IF n = Root /\ Std # {} THEN Root + 1 ELSE Null]
  /\ sibling = [n \in Ids |-> IF n \in nodes \ {Root} /\ n + 1 \in nodes
                              THEN n + 1 ELSE Null]
  /\ name = [n \in Ids |-> IF n \in nodes \ {Root} THEN StdNames[n - 1] ELSE ""]
  /\ data = [n \in Ids |-> <<>>]
  /\ streams = [s \in Std |-> NewStream(s + 1, TRUE)]

(* vfsCreate_ makes a node: the path leads nowhere, its directory exists.  *)
Missing(p) == GetPath(p.comps) = Null /\ GetBase(p.comps) # Null

Create(p) ==
  /\ Missing(p)
  /\ Alloc(GetBase(p.comps), Basename(p))
  /\ UNCHANGED <<data, streams>>

OpenRead(p) ==
  LET n == GetPath(p.comps) IN
  /\ n # Null
  /\ Opened(n, Size(n) = 0, streams)
  /\ UNCHANGED <<treeVars, data>>

OpenWrite(p) ==
  \/ LET n == GetPath(p.comps) IN
     /\ n # Null
     /\ data' = [data EXCEPT ![n] = <<>>]
     /\ Opened(n, TRUE, Emptied(n))
     /\ UNCHANGED treeVars
  \/ /\ Missing(p)
     /\ Alloc(GetBase(p.comps), Basename(p))
     /\ Opened(Fresh, TRUE, streams)
     /\ UNCHANGED data

(* vfsFSOOpen opens a node found by listing; 'w' empties nothing.          *)
FSOOpen(n) ==
  /\ n \in nodes
  /\ Opened(n, Size(n) = 0, streams)
  /\ UNCHANGED <<treeVars, data>>

Close(s) ==
  /\ streams' = [t \in Open \ {s} |-> streams[t]]
  /\ UNCHANGED <<treeVars, data>>

(* Mutation: the position moves on by what was asked for.                  *)
ReadSizeAsked(size, i, k) == k

(* How many of the k bytes are read: datasize - i wraps round below zero.  *)
ReadSize(size, i, k) == IF i <= size /\ size - i < k THEN size - i ELSE k

Read(s, k) ==
  LET st == streams[s]
      n == ReadSize(Size(st.file), st.i, k)
  IN
  /\ st.i + n <= MaxData
  /\ streams' = [streams EXCEPT ![s].i = @ + n,
                                ![s].got = IF st.placed
                                           THEN @ \o Slice(data[st.file], st.i, st.i + n)
                                           ELSE @]
  /\ UNCHANGED <<treeVars, data>>

(* vfsAppendData: the bytes go to the end, wherever the stream is.         *)
Put(bytes, i, chunk) == bytes \o chunk

Write(s, chunk) ==
  LET st == streams[s]
      bytes == Put(data[st.file], st.i, chunk)
      i == st.i + Len(chunk)
      moved == [st EXCEPT !.i = i, !.from = IF st.placed THEN i ELSE @, !.got = <<>>]
  IN
  /\ Len(bytes) <= MaxData /\ i <= MaxData
  /\ data' = [data EXCEPT ![st.file] = bytes]
  /\ streams' = [Written(st.file, s) EXCEPT ![s] = Flushed(moved, bytes)]
  /\ UNCHANGED treeVars

(* SEEK_SET, SEEK_CUR and SEEK_END add the offset to these positions.      *)
SeekFrom(s) == {0, streams[s].i, Size(streams[s].file)}

Seek(s, at) ==
  LET st == Shared([streams[s] EXCEPT !.i = at, !.from = at, !.got = <<>>])
  IN
  /\ at \in 0 .. MaxData
  /\ streams' = [streams EXCEPT
       ![s] = IF at <= Size(st.file) THEN [st EXCEPT !.placed = TRUE]
                                     ELSE Unplaced(st)]
  /\ UNCHANGED <<treeVars, data>>

(* vfsHookFlush starts a hook from the beginning of the file.              *)
HookFlush(s) ==
  /\ streams' = [streams EXCEPT ![s].hooked = TRUE, ![s].flushindex = 0,
                                ![s].heard = <<>>]
  /\ UNCHANGED <<treeVars, data>>

Flush(s) ==
  /\ streams' = [streams EXCEPT ![s] = Flushed(@, data[@.file])]
  /\ UNCHANGED <<treeVars, data>>

RemovePath(p) ==
  LET n == GetPath(p.comps) IN
  /\ n \notin {Null, Root}
  /\ \A s \in Open : streams[s].file \notin Subtree(n)
  /\ data' = [k \in Ids |-> IF k \in Subtree(n) THEN <<>> ELSE data[k]]
  /\ Free(n)
  /\ UNCHANGED streams

StreamNext ==
  \E s \in Open :
    \/ Close(s)
    \/ HookFlush(s)
    \/ Flush(s)
    \/ \E k \in ReadSizes : Read(s, k)
    \/ \E chunk \in Chunks : Write(s, chunk)
    \/ \E at \in SeekFrom(s), by \in SeekBy : Seek(s, at + by)

Next ==
  \/ \E p \in Paths : Create(p) \/ OpenRead(p) \/ OpenWrite(p) \/ RemovePath(p)
  \/ \E n \in nodes : FSOOpen(n)
  \/ StreamNext

Spec == Init /\ [][Next]_vars

-----------------------------------------------------------------------------
(* Listing                                                                 *)

(* Mutation: the next node is shown whatever its name.                     *)
NextSibling(n) == sibling[n]

(* vfsNext: the next sibling whose name does not begin with a dollar sign. *)
NextShown(n) ==
  LET next[k \in 0 .. MaxNodes] ==
        IF k = Null \/ ~Hidden(name[k]) THEN k ELSE next[sibling[k]]
  IN next[sibling[n]]

ChildShown(n) ==
  IF child[n] # Null /\ Hidden(name[child[n]]) THEN NextShown(child[n])
                                               ELSE child[n]

(* What the loop of fs/user/filesystem.um sees of a directory.             *)
Listing(n) ==
  LET from[j \in 0 .. MaxNodes] ==
        IF j = Null THEN <<>> ELSE <<j>> \o from[NextShown(j)]
  IN from[ChildShown(n)]

-----------------------------------------------------------------------------
(* Properties                                                              *)

Bytes == UNION {Range(c) : c \in Chunks} \cup {"junk"}
Texts == BoundedSeq(Bytes, MaxData)

IsStream(st) ==
  /\ st.file \in nodes
  /\ {st.i, st.flushindex, st.from} \subseteq 0 .. MaxData
  /\ {st.heard, st.got} \subseteq Texts
  /\ {st.hooked, st.placed, st.sole} \subseteq BOOLEAN

(* Links lead to allocated nodes, only the root is without a parent, free  *)
(* nodes are blank, and every stream is on an allocated node.              *)
TypeOK ==
  /\ nodes \subseteq Ids /\ Root \in nodes /\ parent[Root] = Null
  /\ parent \in [Ids -> nodes \cup {Null}]
  /\ child \in [Ids -> nodes \cup {Null}]
  /\ sibling \in [Ids -> nodes \cup {Null}]
  /\ \A n \in Ids : Len(data[n]) <= MaxData /\ Range(data[n]) \subseteq Bytes
  /\ \A n \in Ids \ nodes : data[n] = <<>> /\ parent[n] = Null
  /\ Open \subseteq StreamIds /\ \A s \in Open : IsStream(streams[s])

(* The links are one tree over the allocated nodes: every node but the     *)
(* root is in its parent's list of children once and in no other list, and *)
(* every node is below the root. vfsAlloc, and vfsFree for a first, middle *)
(* or last child, must relink all three.                                   *)
IsTree ==
  /\ Subtree(Root) = nodes
  /\ \A n \in nodes :
       /\ IsInjective(Kids(n))
       /\ Range(Kids(n)) = {k \in nodes : k # Root /\ parent[k] = n}

(* A name no path component can select. vfsCreate makes such nodes of      *)
(* paths that end in a slash, and of ".." above the root.                  *)
Odd(n) == n # Root /\ name[n] \in {"", ".", ".."}

(* From the root down to n, as the components of a path.                   *)
PathOf(n) ==
  LET path[k \in 0 .. MaxNodes] ==
        IF k \in {Null, Root} THEN <<>> ELSE Append(path[parent[k]], name[k])
  IN path[n]

(* Every node but the odd ones is what its own path leads to, so no two    *)
(* files share a path; the odd ones have nothing below them.               *)
PathsResolve ==
  \A n \in nodes : IF Odd(n) THEN child[n] = Null ELSE GetPath(PathOf(n)) = n

(* The links, the paths and the streams fit together after any sequence of *)
(* calls: vfsAlloc and vfsFree relink, vfsGetPath finds every node again.  *)
TreeOK == TypeOK /\ IsTree /\ PathsResolve

(* What s shows, t shows in the same order.                                *)
InOrderOf(s, t) ==
  \A i, j \in DOMAIN s :
    i < j => \E a, b \in DOMAIN t : a < b /\ t[a] = s[i] /\ t[b] = s[j]

(* A listing of a directory shows its children, oldest first, each once,   *)
(* and nothing else but that the names with a dollar sign are left out, of *)
(* the standard files as of a caller's: vfsChild and vfsNext skip them     *)
(* wherever they are in the list.                                          *)
ListingIsChildren ==
  \A n \in nodes :
    /\ Range(Listing(n)) = {k \in Range(Kids(n)) : ~Hidden(name[k])}
    /\ InOrderOf(Listing(n), Kids(n))

(* The hook of a stream that alone writes its file is given every byte     *)
(* once and in order: what it has heard is the file up to flushindex, and  *)
(* nothing is left out between flushindex and what was written before the  *)
(* hook. The kernel's console hangs on this.                               *)
HookHearsFile ==
  \A s \in Open :
    LET st == streams[s] IN
    st.sole => /\ st.i = Size(st.file)
               /\ st.hooked => /\ st.heard = Slice(data[st.file], 0, st.flushindex)
                               /\ st.flushindex \in {0, st.i}

(* A stream set to a position in its file reads the file from there, and   *)
(* nothing beyond its end, while other streams write to it.                *)
ReadsFile ==
  \A s \in Open :
    LET st == streams[s] IN
    st.placed => /\ st.from <= st.i /\ st.i <= Size(st.file)
                 /\ st.got = SubSeq(data[st.file], st.from + 1, st.i)

-----------------------------------------------------------------------------
(* What the tree amounts to                                                *)

(* The paths that can be reached, and what is there.                       *)
Store ==
  LET shown == {n \in nodes : ~Odd(n)}
      reached == {p \in {PathOf(n) : n \in shown} : GetPath(p) # Null}
  IN [p \in reached |-> data[GetPath(p)]]

File == INSTANCE FileStore
          WITH Names <- (UNION {Range(p.comps) : p \in Paths}) \ {".", ".."},
               StdNames <- Range(StdNames), store <- Store

(* The tree of nodes implements a map from paths to contents.              *)
ImplementsFileStore == File!Spec
=============================================================================
