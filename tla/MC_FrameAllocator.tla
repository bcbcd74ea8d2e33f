------------------------- MODULE MC_FrameAllocator -------------------------
(* Instances of FrameAllocator for TLC: 8 frames in two 4-bit words, the  *)
(* first 2 reserved, and three page_frame_t slots.                         *)
EXTENDS FrameAllocator

CONSTANTS s1, s2, s3

MCSlots == {s1, s2, s3}
MCTables == {0, 1, 2}

(* One slot per page table: every slot lies on a page of its own.         *)
OwnPageTableOf == [s \in MCSlots |-> CASE s = s1 -> 0 [] s = s2 -> 1 [] s = s3 -> 2]

(* As in init_paging: several entries of the same table are allocated.    *)
SharedPageTableOf == [s \in MCSlots |-> IF s = s3 THEN 1 ELSE 0]
=============================================================================
