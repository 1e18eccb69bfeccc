------------------------------- MODULE MCBoot -------------------------------
(***************************************************************************)
(* Boot for TLC: directories whose names and contents consist of the bytes *)
(* the image uses as marks, an empty directory, an empty file, a file      *)
(* whose size is the byte of a mark, one that fits into the last sector    *)
(* and one that does not, and one thing too long in each way: a name, the  *)
(* text of a path, and the number of its names, behind ones at the limit.  *)
(***************************************************************************)
EXTENDS Boot, TLC

NUL == 0
D == 100
F == 102
P == 112

Mark == <<P>>
Dir == <<D>>
Deep == <<Dir, <<F, D>>>>
Long == [i \in 1 .. P |-> IF i % 2 = 0 THEN F ELSE NUL]
Filled(n) == [i \in 1 .. n |-> D]

Files2 == (<<Dir, Mark>> :> <<P, D, NUL>>) @@ (Append(Deep, Dir) :> Long)
SomeFiles ==
  {(<<Mark>> :> Filled(256 + P)) @@ (<<Dir, Mark>> :> <<>>),
   Files2,
   (<<Mark>> :> <<F>>) @@ (Append(Deep, Dir) :> <<>>)
     @@ (Append(Deep, Mark) :> <<P>>) @@ (<<Dir, Mark>> :> <<NUL>>)}

Two == <<F, D>>
Nest(name, n) == [k \in 1 .. n |-> name]
OverLong ==
  {[dirs |-> {}, files |-> (<<Mark>> :> <<F>>) @@ (<<Append(Two, P)>> :> <<D>>)],
   [dirs |-> {Nest(Two, n) : n \in 1 .. 3}, files |-> (<<Two, Two, Dir>> :> <<F>>)],
   [dirs |-> {Nest(Dir, n) : n \in 1 .. 3}, files |-> (Nest(Dir, 4) :> <<F>>)]}

MCMain == <<Mark>>
MCTrees == {[dirs |-> d, files |-> f] :
              d \in {{<<Dir>>, Deep}, {<<Dir>>, Deep, Append(Deep, <<F>>), <<<<F>>>>}},
              f \in SomeFiles}
           \cup {[dirs |-> {}, files |-> MCMain :> Filled(n)] : n \in {433, 434}}
           \cup OverLong
MCKeyCodes == {{}, {"irq1", "irq12", "keyboard", "mouse"}}
=============================================================================
