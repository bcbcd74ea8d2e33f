------------------------------ MODULE MC_KernelCore ------------------------------
(* Model-checking instance of KernelCore: the memory instance of MC_Memory *)
(* (8 frames, 2 reserved, one slot per page table, a 64-unit heap), pids   *)
(* 0..3 with a time slice of 2, and a 3-cell key buffer with two keys.     *)
EXTENDS KernelCore

CONSTANTS s1, s2, s3, k1, k2

MCSlots == {s1, s2, s3}
MCTables == {0, 1, 2}

(* One slot per page table: every slot lies on a page of its own.         *)
OwnPageTableOf == [s \in MCSlots |-> CASE s = s1 -> 0 [] s = s2 -> 1 [] s = s3 -> 2]

MCKeys == {k1, k2}
=============================================================================
