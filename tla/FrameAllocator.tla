--------------------------- MODULE FrameAllocator ---------------------------
(***************************************************************************)
(* The physical frame allocator of src/kernel/mm/memory.c: the bitmap      *)
(* `frames`, first_free_frame, alloc_frame and free_frame, together with   *)
(* the part of the paging code they call (get_page creating a page table,  *)
(* map_page and get_physaddr of memory_ext.c).                             *)
(*                                                                         *)
(* A slot is a page_frame_t returned by get_page: an entry of a page table *)
(* of kernel_directory.  alloc_frame maps the frame it picks at the        *)
(* virtual address of the slot itself (the slot pointer), and free_frame   *)
(* finds the frame to release by translating that same address.  A page  *)
(* table is one kmalloc_aligned 4 KiB block, so all slots of one table    *)
(* lie on one virtual page: the model keys the translation by table.      *)
(*                                                                         *)
(* `page_directory`, the array get_physaddr and map_page walk, is declared *)
(* extern and defined nowhere; it is read as the active directory's        *)
(* tables_physical array.  The heap holding every page table lies in the   *)
(* first 4 MiB, whose directory entry get_page creates on the first call   *)
(* of init_paging, so the directory walk of map_page and get_physaddr      *)
(* always finds a table for a slot's page.                                 *)
(***************************************************************************)
EXTENDS Naturals, FiniteSets, FiniteSetsExt

CONSTANTS
  NFrames,     \* nframes: frames tracked by the bitmap (32768 in the code)
  WordBits,    \* bits per word of `frames` (32 in the code)
  NReserved,   \* frames init_memory pre-marks used (256 in the code)
  Slots,       \* page_frame_t entries passed to alloc_frame / free_frame
  Tables,      \* page tables of kernel_directory
  TableOf,     \* Slots -> Tables: the table a slot is an entry of
  InitTables,  \* tables that exist when the modelled calls start
  NoFrame      \* model value: no frame (non-present entry, NULL address)

ASSUME NFrames % WordBits = 0 /\ NReserved < NFrames
ASSUME TableOf \in [Slots -> Tables] /\ InitTables \subseteq Tables

VARIABLES
  frames,  \* the bitmap, as the set of frame indices whose bit is set
  used,    \* page_frame_t.used of each slot
  owned,   \* history: the frame alloc_frame picked for a slot, while used
  pte,     \* page_directory translation of the page each table lies on
  tables   \* kernel_directory->tables[i] != NULL

vars == <<frames, used, owned, pte, tables>>

FrameIdx == 0 .. NFrames - 1
Reserved == 0 .. NReserved - 1
NWords   == NFrames \div WordBits
Bits     == 0 .. WordBits - 1

(* frames[i] & (1 << j) *)
BitSet(i, j) == i * WordBits + j \in frames

(* Mutant of WordFull: the word compared against 0x7FFFFFFF.               *)
WordFullTopBitIgnored(i) == \A j \in 0 .. WordBits - 2 : BitSet(i, j)

(* frames[i] == 0xFFFFFFFF *)
WordFull(i) == \A j \in Bits : BitSet(i, j)

(* first_free_frame: scan words i < nframes/32 that are not full, then     *)
(* the lowest clear bit of that word; 0 when every word is full.           *)
RECURSIVE ScanWords(_)
ScanWords(i) ==
  IF i >= NWords THEN 0
  ELSE IF WordFull(i) THEN ScanWords(i + 1)
  ELSE i * WordBits + Min({j \in Bits : ~BitSet(i, j)})

FirstFreeFrame == ScanWords(0)

(* get_physaddr of the page table t lies on: NULL when not present.        *)
GetPhysaddr(t) == pte[t]

(* clear_frame(NULL) addresses frame 0.                                    *)
FrameOfAddr(pa) == IF pa = NoFrame THEN 0 ELSE pa

-----------------------------------------------------------------------------
Init ==
  /\ frames = Reserved
  /\ used   = [s \in Slots |-> FALSE]
  /\ owned  = [s \in Slots |-> NoFrame]
  /\ pte    = [t \in Tables |-> NoFrame]
  /\ tables = InitTables

(* Mutant of GetPage: the table index off by one.                         *)
GetPageNextTable(t) ==
  /\ t \notin tables
  /\ tables' = tables \cup {t + 1}
  /\ UNCHANGED <<frames, used, owned, pte>>

(* get_page(address, 1, dir) for an address whose table is absent: a      *)
(* zeroed table is allocated and entered in the directory.  With the table *)
(* present get_page only returns a pointer.                                *)
GetPage(t) ==
  /\ t \notin tables
  /\ tables' = tables \cup {t}
  /\ UNCHANGED <<frames, used, owned, pte>>

(* Mutant of AllocFrame: set_frame(idx * PAGE_SIZE) left out.             *)
AllocFrameNoSetFrame(s) ==
  /\ TableOf[s] \in tables
  /\ ~used[s]
  /\ LET idx == FirstFreeFrame IN
       /\ used'  = [used EXCEPT ![s] = TRUE]
       /\ owned' = [owned EXCEPT ![s] = idx]
       /\ pte'   = [pte EXCEPT ![TableOf[s]] = idx]
  /\ UNCHANGED <<frames, tables>>

(* Mutant of AllocFrame: the `if (frame->used) return;` guard dropped.    *)
AllocFrameNoUsedCheck(s) ==
  /\ TableOf[s] \in tables
  /\ LET idx == FirstFreeFrame IN
       /\ frames' = frames \cup {idx}
       /\ used'   = [used EXCEPT ![s] = TRUE]
       /\ owned'  = [owned EXCEPT ![s] = idx]
       /\ pte'    = [pte EXCEPT ![TableOf[s]] = idx]
  /\ UNCHANGED tables

(* alloc_frame(frame, ...): return if used; take first_free_frame; the     *)
(* out-of-memory test compares with 0xFFFFFFFF, which first_free_frame     *)
(* never returns, so it is never taken; set the bit, mark the slot, and    *)
(* map_page(idx * PAGE_SIZE, frame, flags) at the slot's own address.      *)
AllocFrame(s) ==
  /\ TableOf[s] \in tables
  /\ ~used[s]
  /\ LET idx == FirstFreeFrame IN
       /\ frames' = frames \cup {idx}
       /\ used'   = [used EXCEPT ![s] = TRUE]
       /\ owned'  = [owned EXCEPT ![s] = idx]
       /\ pte'    = [pte EXCEPT ![TableOf[s]] = idx]
  /\ UNCHANGED tables

(* free_frame(frame): return if not used; clear the bit of                 *)
(* get_physaddr(frame); mark the slot unused.  The mapping is left as is.  *)
FreeFrame(s) ==
  /\ TableOf[s] \in tables
  /\ used[s]
  /\ frames' = frames \ {FrameOfAddr(GetPhysaddr(TableOf[s]))}
  /\ used'   = [used EXCEPT ![s] = FALSE]
  /\ owned'  = [owned EXCEPT ![s] = NoFrame]
  /\ UNCHANGED <<pte, tables>>

Next ==
  \/ \E t \in Tables : GetPage(t)
  \/ \E s \in Slots : AllocFrame(s)
  \/ \E s \in Slots : FreeFrame(s)

Spec == Init /\ [][Next]_vars

-----------------------------------------------------------------------------
TypeOK ==
  /\ frames \subseteq FrameIdx
  /\ used   \in [Slots -> BOOLEAN]
  /\ owned  \in [Slots -> FrameIdx \cup {NoFrame}]
  /\ pte    \in [Tables -> FrameIdx \cup {NoFrame}]
  /\ tables \subseteq Tables

Live == {s \in Slots : used[s]}

(* No two live allocations hold the same frame (spec section 8): a frame   *)
(* alloc_frame hands out stays set in the bitmap until its own slot is     *)
(* freed, so no later alloc_frame can pick it again.                       *)
NoDoubleAllocation ==
  \A s, t \in Live : s # t => owned[s] # owned[t]

(* The bitmap is exact (spec section 3): a bit is set iff the frame is     *)
(* reserved or held by a live slot, so free_frame releases exactly the    *)
(* frame its slot was given and nothing leaks.                             *)
BitmapExact ==
  frames = Reserved \cup {owned[s] : s \in Live}

(* Reserved frames (below 1 MiB, firmware) are never handed to a slot,    *)
(* including when memory runs out (spec 4.1: exhaustion is fatal).         *)
ReservedNeverAllocated ==
  \A s \in Live : owned[s] \notin Reserved

(* First fit (spec 4.1, 8): alloc_frame picks the lowest clear bit of the *)
(* bitmap, so frames freed earlier are reused lowest first.               *)
FirstFit ==
  [][\A s \in Slots :
       (~used[s] /\ used'[s] /\ FrameIdx \ frames # {}) =>
          owned'[s] = Min(FrameIdx \ frames)]_vars
=============================================================================
