------------------------------- MODULE Absent -------------------------------
(***************************************************************************)
(* What a pointer, a field or a place of a table holds when it holds       *)
(* nothing: one value for the modules that are composed with each other.   *)
(***************************************************************************)
CONSTANT None
=============================================================================
