---------------------------- MODULE MCAllocator ----------------------------
(* Allocator for TLC. *)
EXTENDS Allocator
=============================================================================
