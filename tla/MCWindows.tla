------------------------------ MODULE MCWindows ------------------------------
(***************************************************************************)
(* A desktop of four places. Windows are three places wide, open at place  *)
(* 1 or, the first, at 0, and are dragged between these, so that any two   *)
(* overlap and each can cover controls of the other.                       *)
(***************************************************************************)
EXTENDS Windows
NewPlaces == {1}
OnScreen == 0 .. 1
=============================================================================
