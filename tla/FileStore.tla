----------------------------- MODULE FileStore -----------------------------
(***************************************************************************)
(* What the virtual file system promises: a map from paths to contents.    *)
(* Every path is reached through paths that exist, a file grows at its end *)
(* or is emptied, and removing a path removes everything below it.         *)
(***************************************************************************)
EXTENDS SequencesExt

CONSTANTS Names,      \* names of files and directories
          StdNames    \* files that exist from the start

VARIABLE store        \* from the paths that exist to their contents

Init == store = [p \in {<<>>} \cup {<<n>> : n \in StdNames} |-> <<>>]

(* Steps from a store s to a store t.                                      *)

Create(s, t, p) ==
  /\ p \notin DOMAIN s /\ Front(p) \in DOMAIN s
  /\ t = [q \in DOMAIN s \cup {p} |-> IF q = p THEN <<>> ELSE s[q]]

Delete(s, t, p) ==
  /\ p # <<>>
  /\ t = [q \in {r \in DOMAIN s : ~IsPrefix(p, r)} |-> s[q]]

Truncate(s, t, p) == t = [s EXCEPT ![p] = <<>>]

(* The bytes that were there stay; others follow. *)
Grow(s, t, p) ==
  /\ DOMAIN t = DOMAIN s
  /\ \A q \in DOMAIN s \ {p} : t[q] = s[q]
  /\ IsPrefix(s[p], t[p])

Step(s, t) ==
  \/ \E q \in DOMAIN s, n \in Names : Create(s, t, Append(q, n))
  \/ \E p \in DOMAIN s : Delete(s, t, p) \/ Truncate(s, t, p) \/ Grow(s, t, p)

Next == \E s \in {store}, t \in {store'} : Step(s, t)

Spec == Init /\ [][Next]_store
=============================================================================
