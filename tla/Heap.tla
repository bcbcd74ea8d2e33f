-------------------------------- MODULE Heap --------------------------------
(***************************************************************************)
(* The kernel heap of src/kernel/mm/memory.c: a bump cursor heap_end over  *)
(* the static array kernel_heap[HEAP_SIZE], moved by kmalloc_internal for  *)
(* kmalloc, kmalloc_aligned and their _physical variants; kfree does not   *)
(* reclaim and krealloc allocates a new block.                             *)
(*                                                                         *)
(* Addresses are in units: a page is Page units and the arena HeapSize     *)
(* units.  The array's address is fixed by the linker and need not be page *)
(* aligned, so the model starts from every base in 0 .. Page - 1.  The     *)
(* _physical variants also store get_physaddr of the block; the cursor    *)
(* moves the same way, and that translation is not modelled here.          *)
(* `blocks` records every block handed out: a history variable.           *)
(***************************************************************************)
EXTENDS Naturals, FiniteSets

CONSTANTS
  Page,       \* PAGE_SIZE, 0x1000 in the code
  HeapSize,   \* HEAP_SIZE, 0x100000 in the code
  Sizes,      \* sizes callers request
  MaxAllocs   \* bound on the number of allocations explored

VARIABLES
  heap_end,   \* the cursor
  base,       \* (uint32_t)&kernel_heap[0]
  blocks      \* history: <<address, size, aligned>> of every block returned

vars == <<heap_end, base, blocks>>

-----------------------------------------------------------------------------
(* init_memory: heap_end = &kernel_heap[0].                               *)
Init ==
  /\ base \in 0 .. Page - 1
  /\ heap_end = base
  /\ blocks = {}

(* Mutant of AlignUp: `heap_end + 0x1000` without the mask.               *)
AlignUpNoMask(a) == IF a % Page # 0 THEN a + Page ELSE a

(* Mutant of AlignUp: rounding down, `heap_end & 0xFFFFF000`.             *)
AlignUpDown(a) == a - (a % Page)

(* if (align && (heap_end & 0xFFF)) heap_end = (heap_end + 0x1000) &      *)
(* 0xFFFFF000;                                                             *)
AlignUp(a) == IF a % Page # 0 THEN (a + Page) - ((a + Page) % Page) ELSE a

(* kmalloc_internal(size, align, phys): align the cursor if asked, return *)
(* it and advance it by size.  Nothing compares it with the arena's end.  *)
KmallocInternal(size, align) ==
  /\ Cardinality(blocks) < MaxAllocs
  /\ LET addr == IF align THEN AlignUp(heap_end) ELSE heap_end IN
       /\ heap_end' = addr + size
       /\ blocks' = blocks \cup {<<addr, size, align>>}
  /\ UNCHANGED base

(* krealloc(ptr, size) with ptr and size non-zero: kmalloc(size), copy at *)
(* most 256 bytes from ptr, kfree(ptr), a stub.  Only the kmalloc moves    *)
(* heap state.                                                             *)
Krealloc(size) ==
  /\ blocks # {}
  /\ size # 0
  /\ KmallocInternal(size, FALSE)

Next ==
  \/ \E size \in Sizes, align \in BOOLEAN : KmallocInternal(size, align)
  \/ \E size \in Sizes : Krealloc(size)

Spec == Init /\ [][Next]_vars

-----------------------------------------------------------------------------
TypeOK ==
  /\ base \in 0 .. Page - 1
  /\ heap_end \in Nat /\ heap_end >= base
  /\ blocks \subseteq (Nat \X Sizes \X BOOLEAN)

Overlap(b, c) == b[1] < c[1] + c[2] /\ c[1] < b[1] + b[2]

(* No two blocks the heap has handed out overlap, including across the    *)
(* cursor jumps kmalloc_aligned makes (spec 4.3: a monotonic bump         *)
(* allocator).                                                             *)
BlocksDisjoint ==
  \A b, c \in blocks : b # c => ~Overlap(b, c)

(* Every block kmalloc_aligned returns starts on a page boundary, wherever *)
(* the linker put kernel_heap: page tables and the page directory are     *)
(* allocated this way and the MMU takes their address without its low     *)
(* 12 bits.                                                                *)
AlignedBlocksAligned ==
  \A b \in blocks : b[3] => b[1] % Page = 0

(* Every block lies inside kernel_heap (spec 4.3: a bump allocator over a *)
(* fixed static arena of 1 MiB).                                           *)
WithinArena ==
  \A b \in blocks : b[1] + b[2] <= base + HeapSize
=============================================================================
