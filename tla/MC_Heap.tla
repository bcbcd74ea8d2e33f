------------------------------- MODULE MC_Heap -------------------------------
(* Model-checking instance of Heap: a page of 4 units, an arena of 4 pages. *)
EXTENDS Heap
=============================================================================
