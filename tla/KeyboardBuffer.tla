--------------------------- MODULE KeyboardBuffer ---------------------------
(***************************************************************************)
(* The keyboard ring buffer of src/drivers/keyboard.c.                     *)
(*                                                                         *)
(* keyboard_handler runs on IRQ1 and pushes the decoded character with     *)
(* buffer_push; the main flow takes characters with keyboard_read or       *)
(* keyboard_getchar through buffer_pop.  Nothing disables interrupts       *)
(* around buffer_pop, so IRQ1 can run between any two of its statements.   *)
(* The handler runs with interrupts off (interrupt gate) and is one step.  *)
(*                                                                         *)
(* `buffer_count--` in buffer_pop is one `decl mem` instruction in some    *)
(* builds and a load, a decrement and a store in others (an unoptimised    *)
(* build); the C code allows both.  The constant AtomicDec picks the build. *)
(* A push between that load and that store is overwritten by the store.    *)
(*                                                                         *)
(* Characters are model values; scancodes that keycode_to_ascii turns into *)
(* 0 (releases, modifier keys) leave the buffer alone and are not steps.   *)
(* keyboard_getchar checks keyboard_data_available and then executes hlt, *)
(* which returns at the next interrupt: a key or a timer tick.             *)
(***************************************************************************)
EXTENDS Naturals, Sequences

CONSTANTS
  Size,        \* KEYBOARD_BUFFER_SIZE (256 in the code)
  Keys,        \* characters keycode_to_ascii can return, other than 0
  NoKey,       \* model value: the zeroed buffer cell, no character read yet
  AtomicDec    \* TRUE when buffer_count-- compiles to one instruction

ASSUME Size \in Nat \ {0} /\ AtomicDec \in BOOLEAN

VARIABLES
  keyboard_buffer,  \* char keyboard_buffer[KEYBOARD_BUFFER_SIZE]
  buffer_start,
  buffer_end,
  buffer_count,
  pc,               \* where the main flow is
  regCount,         \* buffer_count as loaded by a split decrement
  regChar,          \* c, the character buffer_pop read
  got               \* the character the last buffer_pop returned

vars == <<keyboard_buffer, buffer_start, buffer_end, buffer_count,
          pc, regCount, regChar, got>>

Idx == 0 .. Size - 1

-----------------------------------------------------------------------------
(* keyboard_init: empty buffer; the array is static, so zeroed.           *)
Init ==
  /\ keyboard_buffer = [i \in Idx |-> NoKey]
  /\ buffer_start = 0
  /\ buffer_end = 0
  /\ buffer_count = 0
  /\ pc = "idle"
  /\ regCount = 0
  /\ regChar = NoKey
  /\ got = NoKey

(* Mutant of BufferPush: buffer_push without its `count < SIZE` test.    *)
BufferPushNoFullCheck(c) ==
  /\ keyboard_buffer' = [keyboard_buffer EXCEPT ![buffer_end] = c]
  /\ buffer_end' = (buffer_end + 1) % Size
  /\ buffer_count' = buffer_count + 1

(* buffer_push(c): store c at buffer_end unless the buffer is full.       *)
BufferPush(c) ==
  IF buffer_count < Size
    THEN /\ keyboard_buffer' = [keyboard_buffer EXCEPT ![buffer_end] = c]
         /\ buffer_end' = (buffer_end + 1) % Size
         /\ buffer_count' = buffer_count + 1
    ELSE UNCHANGED <<keyboard_buffer, buffer_end, buffer_count>>

(* IRQ1: keyboard_handler acknowledges the PIC, reads the scancode,        *)
(* decodes it with keycode_to_ascii to c and calls buffer_push(c).  A      *)
(* halted main flow wakes up.                                              *)
KeyIRQ(c) ==
  /\ BufferPush(c)
  /\ pc' = IF pc = "halted" THEN "idle" ELSE pc
  /\ UNCHANGED <<buffer_start, regCount, regChar, got>>

(* IRQ0: the timer interrupt ends a hlt; it leaves the buffer alone.       *)
TimerIRQ ==
  /\ pc = "halted"
  /\ pc' = "idle"
  /\ UNCHANGED <<keyboard_buffer, buffer_start, buffer_end, buffer_count,
                 regCount, regChar, got>>

(* Mutant of PopLoad: the empty test of buffer_pop off by one.            *)
PopLoadOffByOne ==
  /\ pc = "idle"
  /\ buffer_count > 1
  /\ regChar' = keyboard_buffer[buffer_start]
  /\ buffer_start' = (buffer_start + 1) % Size
  /\ regCount' = buffer_count
  /\ pc' = "dec"
  /\ UNCHANGED <<keyboard_buffer, buffer_end, buffer_count, got>>

(* buffer_pop, called by keyboard_read, or by keyboard_getchar once data  *)
(* is available: c = the oldest cell and buffer_start advanced; a split    *)
(* decrement also loads buffer_count here.                                 *)
PopLoad ==
  /\ pc = "idle"
  /\ buffer_count > 0
  /\ regChar' = keyboard_buffer[buffer_start]
  /\ buffer_start' = (buffer_start + 1) % Size
  /\ regCount' = buffer_count
  /\ pc' = "dec"
  /\ UNCHANGED <<keyboard_buffer, buffer_end, buffer_count, got>>

(* buffer_count--, and the return of c.  One `decl` decrements the count  *)
(* as it is now; a split one stores the value loaded by PopLoad, minus 1.  *)
PopStore ==
  /\ pc = "dec"
  /\ buffer_count' = (IF AtomicDec THEN buffer_count ELSE regCount) - 1
  /\ got' = regChar
  /\ pc' = "idle"
  /\ UNCHANGED <<keyboard_buffer, buffer_start, buffer_end, regCount, regChar>>

(* keyboard_getchar: keyboard_data_available() is false, so go to hlt.    *)
GetcharCheck ==
  /\ pc = "idle"
  /\ buffer_count = 0
  /\ pc' = "hlt"
  /\ UNCHANGED <<keyboard_buffer, buffer_start, buffer_end, buffer_count,
                 regCount, regChar, got>>

(* The hlt instruction: the CPU sleeps until the next interrupt.           *)
GetcharHlt ==
  /\ pc = "hlt"
  /\ pc' = "halted"
  /\ UNCHANGED <<keyboard_buffer, buffer_start, buffer_end, buffer_count,
                 regCount, regChar, got>>

Next ==
  \/ \E c \in Keys : KeyIRQ(c)
  \/ TimerIRQ
  \/ PopLoad
  \/ PopStore
  \/ GetcharCheck
  \/ GetcharHlt

Spec == Init /\ [][Next]_vars

-----------------------------------------------------------------------------
TypeOK ==
  /\ keyboard_buffer \in [Idx -> Keys \cup {NoKey}]
  /\ buffer_start \in Idx
  /\ buffer_end \in Idx
  /\ buffer_count \in 0 .. Size
  /\ pc \in {"idle", "dec", "hlt", "halted"}
  /\ regCount \in 0 .. Size
  /\ regChar \in Keys \cup {NoKey}
  /\ got \in Keys \cup {NoKey}

(* The unread characters, oldest first: buffer_count cells from           *)
(* buffer_start, counted from before the pop under way, if one is.         *)
QueueStart ==
  IF pc = "dec" THEN (buffer_start + Size - 1) % Size ELSE buffer_start

Queue ==
  [i \in 1 .. buffer_count |-> keyboard_buffer[(QueueStart + i - 1) % Size]]

Fifo == INSTANCE BoundedFIFO WITH q <- Queue

(* The buffer implements a bounded FIFO: every push appends or is dropped *)
(* when full, every pop returns the oldest character and removes just it,  *)
(* whatever point of buffer_pop the IRQ1 handler interrupts.               *)
FifoSpec == Fifo!Spec
=============================================================================
