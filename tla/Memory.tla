------------------------------- MODULE Memory -------------------------------
(***************************************************************************)
(* The memory manager of src/kernel/mm/memory.c as one component: the     *)
(* frame allocator (module FrameAllocator) and the bump heap (module Heap) *)
(* joined where the code joins them.  get_page creates a missing page     *)
(* table with kmalloc_aligned_physical(sizeof(uint32_t) * 1024, &phys), so *)
(* every page table is a heap block, and the rest of the kernel allocates *)
(* from the same cursor between those calls.                               *)
(*                                                                         *)
(* The behaviour starts inside init_paging, after init_memory has set     *)
(* heap_end and reserved the low frames: the first kmalloc_aligned is the *)
(* page directory, and every table, the first one included, comes from a  *)
(* later get_page.                                                         *)
(***************************************************************************)
EXTENDS Naturals

CONSTANTS
  NFrames, WordBits, NReserved, Slots, Tables, TableOf, InitTables, NoFrame,
  Page, HeapSize, Sizes, MaxAllocs,
  DirSize,    \* sizeof(page_directory_t): two pages and a word in the code
  TableSize   \* sizeof(uint32_t) * 1024: one page

VARIABLES frames, used, owned, pte, tables, heap_end, base, blocks

vars == <<frames, used, owned, pte, tables, heap_end, base, blocks>>
faVars == <<frames, used, owned, pte, tables>>
heapVars == <<heap_end, base, blocks>>

FA == INSTANCE FrameAllocator
(* The heap also hands out the directory and the tables.                   *)
H  == INSTANCE Heap WITH Sizes <- Sizes \cup {DirSize, TableSize}

-----------------------------------------------------------------------------
(* init_paging: kernel_directory = kmalloc_aligned(sizeof(page_directory_t)) *)
(* on a fresh cursor; no page table exists yet.                            *)
InitPaging ==
  /\ FA!Init
  /\ base \in 0 .. Page - 1
  /\ LET dir == H!AlignUp(base) IN
       /\ heap_end = dir + DirSize
       /\ blocks = {<<dir, DirSize, TRUE>>}

(* get_page(address, 1, dir) with the table absent: the table is a new    *)
(* kmalloc_aligned_physical block of one page.                             *)
GetPage(t) ==
  /\ FA!GetPage(t)
  /\ H!KmallocInternal(TableSize, TRUE)

AllocFrame(s) == FA!AllocFrame(s) /\ UNCHANGED heapVars

FreeFrame(s) == FA!FreeFrame(s) /\ UNCHANGED heapVars

(* Any other kernel caller of kmalloc, kmalloc_aligned or their _physical *)
(* variants (process_create, fs_create_node, acl_add_entry, ...).          *)
Kmalloc(size, align) == H!KmallocInternal(size, align) /\ UNCHANGED faVars

Krealloc(size) == H!Krealloc(size) /\ UNCHANGED faVars

Next ==
  \/ \E t \in Tables : GetPage(t)
  \/ \E s \in Slots : AllocFrame(s)
  \/ \E s \in Slots : FreeFrame(s)
  \/ \E size \in Sizes, align \in BOOLEAN : Kmalloc(size, align)
  \/ \E size \in Sizes : Krealloc(size)

Spec == InitPaging /\ [][Next]_vars

-----------------------------------------------------------------------------
TypeOK == FA!TypeOK /\ H!TypeOK

(* No two live alloc_frame slots hold the same frame (spec section 8),    *)
(* with page tables created by heap allocations between the calls.        *)
NoDoubleAllocation == FA!NoDoubleAllocation

(* The bitmap is exactly the reserved frames and those of live slots (spec *)
(* section 3): free_frame releases what alloc_frame set.                   *)
BitmapExact == FA!BitmapExact

(* alloc_frame always takes the lowest clear bit (spec 4.1, first fit).   *)
FirstFit == FA!FirstFit

(* No two heap blocks overlap, the page directory and every page table   *)
(* included (spec 4.3: a monotonic bump allocator).                        *)
BlocksDisjoint == H!BlocksDisjoint

(* Every aligned block, the directory and the tables whose address the MMU *)
(* takes without its low 12 bits, starts on a page, however the unaligned  *)
(* kmalloc calls between them left the cursor.                             *)
AlignedBlocksAligned == H!AlignedBlocksAligned
=============================================================================
