----------------------------- MODULE KernelCore -----------------------------
(***************************************************************************)
(* The core components of the kernel: the memory manager (module Memory), *)
(* the process list with scheduler_tick (module Scheduler) and the         *)
(* keyboard ring buffer with keyboard_handler (module KeyboardBuffer).     *)
(*                                                                         *)
(* They share no variable: the heap cursor and the frame bitmap are not   *)
(* touched by scheduler_tick or keyboard_handler, and kfree, the only      *)
(* memory call process_terminate makes, is a stub.  As in KernelServices, *)
(* a behaviour picks the `part` it exercises and the others stutter in    *)
(* their initial states, where each property of theirs holds.  The        *)
(* scheduler and the keyboard buffer each model the one main flow with a   *)
(* `pc`, renamed here; a product would let two main flows run at once.    *)
(***************************************************************************)
EXTENDS Naturals

CONSTANTS
  NFrames, WordBits, NReserved, Slots, Tables, TableOf, InitTables, NoFrame,
  Page, HeapSize, Sizes, MaxAllocs, DirSize, TableSize,
  MaxPid, TimeSlice, NULL,
  Size, Keys, NoKey, AtomicDec

VARIABLES
  frames, used, owned, pte, tables, heap_end, base, blocks,
  head, nxt, current, pstate, nextPid, slice, sched_pc, victim,
  keyboard_buffer, buffer_start, buffer_end, buffer_count, kbd_pc,
  regCount, regChar, got,
  part          \* the component this behaviour exercises

Mem == INSTANCE Memory
Sch == INSTANCE Scheduler WITH pc <- sched_pc
Kbd == INSTANCE KeyboardBuffer WITH pc <- kbd_pc

memVars == <<frames, used, owned, pte, tables, heap_end, base, blocks>>
schedVars == <<head, nxt, current, pstate, nextPid, slice, sched_pc, victim>>
kbdVars == <<keyboard_buffer, buffer_start, buffer_end, buffer_count, kbd_pc,
             regCount, regChar, got>>
vars == <<part, memVars, schedVars, kbdVars>>

Parts == {"memory", "scheduler", "keyboard"}

Init ==
  /\ part \in Parts
  /\ Mem!InitPaging
  /\ Sch!Init
  /\ Kbd!Init

MemStep(A) == part = "memory" /\ A /\ UNCHANGED <<part, schedVars, kbdVars>>
SchedStep(A) == part = "scheduler" /\ A /\ UNCHANGED <<part, memVars, kbdVars>>
KbdStep(A) == part = "keyboard" /\ A /\ UNCHANGED <<part, memVars, schedVars>>

Next == MemStep(Mem!Next) \/ SchedStep(Sch!Next) \/ KbdStep(Kbd!Next)

Spec == Init /\ [][Next]_vars

-----------------------------------------------------------------------------
TypeOK == part \in Parts /\ Mem!TypeOK /\ Sch!TypeOK /\ Kbd!TypeOK

(* No two live alloc_frame slots hold the same frame (Memory).            *)
NoDoubleAllocation == Mem!NoDoubleAllocation

(* The frame bitmap is exactly the reserved frames and those of live      *)
(* slots (Memory).                                                          *)
BitmapExact == Mem!BitmapExact

(* alloc_frame always takes the lowest clear bit (Memory).                *)
FirstFit == Mem!FirstFit

(* No two heap blocks overlap, directory and page tables included (Memory). *)
BlocksDisjoint == Mem!BlocksDisjoint

(* Every aligned heap block starts on a page (Memory).                    *)
AlignedBlocksAligned == Mem!AlignedBlocksAligned

(* The PCB list stays exact while the timer interrupts process_terminate  *)
(* between any two of its statements (Scheduler!ListExact).                *)
ListExact == Sch!ListExact

(* current_process never points at a TERMINATED PCB, also through          *)
(* syscall_exit and a tick between process_terminate's test of            *)
(* current_process and its store (Scheduler!CurrentNeverTerminated).       *)
CurrentNeverTerminated == Sch!CurrentNeverTerminated

(* The key buffer implements a bounded FIFO whatever point of buffer_pop   *)
(* IRQ1 interrupts (KeyboardBuffer!FifoSpec).                              *)
FifoSpec == Kbd!FifoSpec
=============================================================================
