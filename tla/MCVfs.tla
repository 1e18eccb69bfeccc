------------------------------- MODULE MCVfs -------------------------------
(***************************************************************************)
(* Vfs for TLC; and with the streams, once, the loops of the library over  *)
(* short memories.                                                         *)
(***************************************************************************)
EXTENDS Library

P(c) == [comps |-> c, slash |-> FALSE]
Slashed(c) == [comps |-> c, slash |-> TRUE]

NoStd == <<>>
OneStd == <<"$stdout">>

(* For the tree: a name in two directories, a sibling, a detour, a path    *)
(* that leaves the tree, one that ends in a slash, a standard file and a   *)
(* hidden one that is none.                                                *)
TreePaths == {P(<<"a">>), P(<<"a", "a">>), P(<<"a", "$a">>), P(<<"a", "$a", "..">>),
              P(<<"..", "a">>), Slashed(<<"a">>), P(<<"$stdout">>)}
Dollars == {"$stdout", "$a"}
OneChunk == {<<"x">>}

(* For the streams: one file, shared.                                      *)
StreamPaths == {P(<<"a">>)}
TwoChunks == {<<"x">>, <<"y", "x">>}
Offsets == -1 .. 1

(* A char is signed.                                                       *)
SomeChars == {-1, 0, 1}
OnlyNul == {0}
QuartersTo5 == -20 .. 20
=============================================================================
