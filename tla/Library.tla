------------------------------ MODULE Library ------------------------------
(***************************************************************************)
(* The virtual file system and, beside it, the functions of the C library  *)
(* that everything else calls.                                             *)
(***************************************************************************)
EXTENDS Vfs, Strings

(* memmove, the str functions and the roundings do what the C library      *)
(* promises of them, as far as Strings says that the code keeps it. They   *)
(* depend on no state: one in which nothing is open yet is enough.         *)
LibraryAgrees == nodes = {Root} /\ Open = {} => CallsAgree
=============================================================================
