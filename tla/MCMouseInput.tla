---------------------------- MODULE MCMouseInput ----------------------------
(***************************************************************************)
(* MouseInput for TLC: a head with the left button and the y sign bit, one *)
(* with the x sign bit only; motion bytes without bit 3, and with it and   *)
(* an overflow bit; a scancode that passes for a head.                     *)
(***************************************************************************)
EXTENDS MouseInput

MCHeads == {41, 24}
MCMoves == {3, 139}
MCScancodes == {28}
=============================================================================
