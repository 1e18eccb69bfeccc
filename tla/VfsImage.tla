------------------------------ MODULE VfsImage ------------------------------
(***************************************************************************)
(* The image of the file system: mkfs.py writes the directory src/fs out   *)
(* as one string of bytes when the system is built, and loadVfsImage of    *)
(* src/sys/main.c makes files of it when the kernel starts. What the file  *)
(* system does with a call is here what FileStore says of it. Boot puts    *)
(* the two on the way of the machine to its first interrupt.               *)
(*                                                                         *)
(* A path is the sequence of its names, a name a sequence of bytes. The    *)
(* three standard files that vfsInit makes before are left out. The packer *)
(* takes names of any length; the kernel copies them into buffers that it  *)
(* does not check. What runs after one is overrun is undefined: that is    *)
(* the end, "overrun".                                                     *)
(***************************************************************************)
EXTENDS Integers, SequencesExt, FiniteSetsExt

CONSTANTS
  Trees,     \* directories to pack: [dirs, files], sets of paths below the
             \* top and the contents of the files
  NameMax,   \* bytes of a name in filename[32]: 31
  PathMax,   \* bytes of the text of a path in temp[512]: 511
  DepthMax   \* names of a path in sub[32]: 32

VARIABLES
  pc,      \* "pack", "load", "done" or "overrun"
  tree,    \* the directory
  image,   \* what is packed so far
  dirs,    \* stack of mkfs.py: the paths being scanned and their entries left
  p,       \* offset in the image up to which it is loaded
  calls,   \* stack of loadVfsImage: the argument path of each call
  store    \* the file system: contents by path

vars == <<pc, tree, image, dirs, p, calls, store>>

Top == <<>>
NUL == 0
D == 100
F == 102
P == 112
Dot == 46
Slash == 47

Paths(t) == t.dirs \cup DOMAIN t.files

MaxSize == 2147483647

(* A directory as a file system has it: everything but what is at the top  *)
(* is in a directory, nothing is a directory and a file, names end where a *)
(* string does and are no way to somewhere else, and sizes fit the integer *)
(* they are packed as.                                                     *)
Names == Seq(1 .. 255 \ {Slash}) \ {<<>>, <<Dot>>, <<Dot, Dot>>}
Packable(t) ==
  /\ Paths(t) \subseteq Seq(Names) \ {Top}
  /\ t.dirs \cap DOMAIN t.files = {}
  /\ \A q \in Paths(t) : Len(q) = 1 \/ Front(q) \in t.dirs
  /\ \A q \in DOMAIN t.files : t.files[q] \in Seq(0 .. 255) /\ Len(t.files[q]) <= MaxSize

Entries(t, path) ==
  {q \in Paths(t) : Len(q) = Len(path) + 1 /\ IsPrefix(path, q)}

-----------------------------------------------------------------------------
(* Packing                                                                 *)

(* A 32-bit integer in the order of an x86.                                *)
SizeBytes(n) ==
  <<n % 256, (n \div 256) % 256, (n \div 65536) % 256, (n \div 16777216) % 256>>

Scan(t, path) == [path |-> path, left |-> Entries(t, path)]

(* The scanner returns the entries of a directory in any order.            *)
PackEntry(q) ==
  /\ pc = "pack" /\ q \in Last(dirs).left
  /\ LET rest == [Last(dirs) EXCEPT !.left = @ \ {q}]
         header(kind) == <<kind>> \o Last(q) \o <<NUL>>
     IN \/ /\ q \in tree.dirs
           /\ image' = image \o header(D)
           /\ dirs' = Front(dirs) \o <<rest, Scan(tree, q)>>
        \/ /\ q \notin tree.dirs
           /\ image' = image \o header(F) \o SizeBytes(Len(tree.files[q]))
                             \o tree.files[q]
           /\ dirs' = Append(Front(dirs), rest)
  /\ UNCHANGED <<pc, tree, p, calls, store>>

(* All entries of a directory are written; the top has no end mark.        *)
EndDir ==
  /\ pc = "pack" /\ Last(dirs).left = {}
  /\ dirs' = Front(dirs)
  /\ \/ Len(dirs) > 1 /\ image' = Append(image, P) /\ UNCHANGED pc
     \/ Len(dirs) = 1 /\ pc' = "load" /\ UNCHANGED image
  /\ UNCHANGED <<tree, p, calls, store>>

-----------------------------------------------------------------------------
(* Loading                                                                 *)

Byte(i) == image[i + 1]

(* The string that starts at i, and the size that stands at i.             *)
NameAt(i) ==
  LET end == Min({j \in i .. Len(image) - 1 : Byte(j) = NUL})
  IN SubSeq(image, i + 1, end)
SizeAt(i) ==
  Byte(i) + 256 * Byte(i + 1) + 65536 * Byte(i + 2) + 16777216 * Byte(i + 3)

(* The buffers hold the path: in its text is a slash before every name.    *)
Short(q) ==
  /\ Len(Last(q)) <= NameMax /\ Len(q) <= DepthMax
  /\ Len(q) + Len(FlattenSeq(q)) <= PathMax

(* vfsCreate: nothing when the path exists or the directory above it does  *)
(* not. vfsOpen for writing empties what is there.                         *)
Created(q) ==
  IF q \in DOMAIN store \/ Front(q) \notin DOMAIN store THEN store
  ELSE [r \in DOMAIN store \cup {q} |-> IF r = q THEN <<>> ELSE store[r]]
Filled(q, bytes) == [Created(q) EXCEPT ![q] = bytes]

(* Mutation: the mark at the end of a directory is not skipped.            *)
LoadReturnStays ==
  /\ pc = "load" /\ (p < Len(image) => Byte(p) = P)
  /\ calls' = Front(calls)
  /\ pc' = IF Len(calls) = 1 THEN "done" ELSE pc
  /\ UNCHANGED <<tree, image, dirs, p, store>>

(* The end of the image, or of a directory: back to the caller.            *)
LoadReturn ==
  /\ pc = "load" /\ (p < Len(image) => Byte(p) = P)
  /\ calls' = Front(calls)
  /\ p' = IF p >= Len(image) THEN p ELSE p + 1
  /\ pc' = IF Len(calls) = 1 THEN "done" ELSE pc
  /\ UNCHANGED <<tree, image, dirs, store>>

LoadDir ==
  /\ pc = "load" /\ p < Len(image) /\ Byte(p) = D
  /\ LET name == NameAt(p + 1)
         q == Append(Last(calls), name)
     IN /\ Short(q)
        /\ store' = Created(q)
        /\ calls' = Append(calls, q)
        /\ p' = p + 1 + Len(name) + 1
  /\ UNCHANGED <<pc, tree, image, dirs>>

LoadFile ==
  /\ pc = "load" /\ p < Len(image) /\ Byte(p) = F
  /\ LET name == NameAt(p + 1)
         q == Append(Last(calls), name)
         at == p + 1 + Len(name) + 1
         size == SizeAt(at)
     IN /\ Short(q)
        /\ store' = Filled(q, SubSeq(image, at + 5, at + 4 + size))
        /\ p' = at + 4 + size
  /\ UNCHANGED <<pc, tree, image, dirs, calls>>

LoadTooLong ==
  /\ pc = "load" /\ p < Len(image) /\ Byte(p) \in {D, F}
  /\ ~Short(Append(Last(calls), NameAt(p + 1)))
  /\ pc' = "overrun"
  /\ UNCHANGED <<tree, image, dirs, p, calls, store>>

-----------------------------------------------------------------------------
Init ==
  /\ pc = "pack" /\ tree \in Trees
  /\ image = <<>> /\ dirs = <<Scan(tree, Top)>>
  /\ p = 0 /\ calls = <<Top>>
  /\ store = [q \in {Top} |-> <<>>]

Pack == (\E q \in Paths(tree) : PackEntry(q)) \/ EndDir

(* Any other byte stops the machine: there is no step.                     *)
Load == LoadReturn \/ LoadDir \/ LoadFile \/ LoadTooLong

(* What the kernel is to find.                                             *)
Contents(t) ==
  [q \in Paths(t) \cup {Top} |->
     IF q \in DOMAIN t.files THEN t.files[q] ELSE <<>>]

-----------------------------------------------------------------------------
(* Properties                                                              *)

(* The loader stands at a mark, whatever bytes names and files consist of  *)
(* and in whatever order the scanner came upon them. In the end there is   *)
(* every file and directory of the tree, with what it holds, and no other, *)
(* and only a path of the tree that is too long can be the end before: not *)
(* what the loader takes for one elsewhere in the image.                   *)
TooLong(t) == \E q \in Paths(t) : ~Short(q)
ImageUnpacked ==
  /\ pc = "load" /\ p < Len(image) => Byte(p) \in {D, F, P}
  /\ pc = "done" => store = Contents(tree)
  /\ pc = "overrun" => TooLong(tree)
=============================================================================
