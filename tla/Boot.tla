-------------------------------- MODULE Boot --------------------------------
(***************************************************************************)
(* kernel_main (src/kernel/init/main.c) bringing up interrupts, and the    *)
(* path of a hardware interrupt from the 8259 PIC through the IDT handler  *)
(* registry (src/kernel/interrupt/idt.c, pic.c) to its handler.  The PIT   *)
(* side is module Timer, instantiated on this module's variables.          *)
(*                                                                         *)
(* The PIT and the keyboard raise their request lines whenever they like:  *)
(* the PIT was already running under the BIOS, and keys come from a user.  *)
(* The CPU takes a request that is pending, unmasked in the PIC's IMR,    *)
(* with interrupts enabled; irq_handler calls the registered handler, if  *)
(* any, and then sends EOI.  No handler enables interrupts, so handlers do *)
(* not nest and one delivery is one step.                                  *)
(***************************************************************************)
EXTENDS Naturals

CONSTANTS W, MaxTicks, MaxEarly

IRQs == {0, 1}          \* the lines with a driver: PIT and keyboard

VARIABLES
  ticks, frequency, ms_per_tick, uptime_ms, callback, seconds, last_tick,
  total, spc, sleepEnd, slept, sleepNeed,
  bpc,        \* the statement of kernel_main reached
  imr,        \* IRQ lines masked in the PIC's interrupt mask registers
  irr,        \* IRQ lines with a request pending
  iflag,      \* EFLAGS.IF
  handlers    \* interrupt_handlers[32 + irq]: a handler name or "none"

timerVars == <<ticks, frequency, ms_per_tick, uptime_ms, callback, seconds,
               last_tick, total, spc, sleepEnd, slept, sleepNeed>>
bootVars == <<bpc, imr, irr, iflag, handlers>>
vars == <<timerVars, bootVars>>

T == INSTANCE Timer WITH FreqInputs <- {100}, MsInputs <- {}

-----------------------------------------------------------------------------
Init ==
  /\ T!Init
  /\ bpc = "init_memory"
  /\ imr = {}
  /\ irr = {}
  /\ iflag = FALSE
  /\ handlers = [i \in IRQs |-> "none"]

(* init_memory: frames, heap and paging; nothing here changes.             *)
InitMemory ==
  /\ bpc = "init_memory"
  /\ bpc' = "idt_init"
  /\ UNCHANGED <<timerVars, imr, irr, iflag, handlers>>

(* pic_init: ICW1-ICW4 remap the lines to vectors 32-47; the masks read  *)
(* before are overwritten by the final 0xFF writes to both data ports.     *)
PicInitMask == IRQs

(* idt_init: gates 0-47, pic_init remapping IRQ 0-15 to vectors 32-47 and  *)
(* writing 0xFF to both data ports, which masks every line, then lidt and  *)
(* sti.  pic_init's saved masks are overwritten and never restored.        *)
IdtInit ==
  /\ bpc = "idt_init"
  /\ imr' = PicInitMask
  /\ iflag' = TRUE
  /\ bpc' = "pit_init"
  /\ UNCHANGED <<timerVars, irr, handlers>>

(* pit_init(100): Timer's PitInit, which registers pit_handler at IRQ0.    *)
PitInit ==
  /\ bpc = "pit_init"
  /\ T!PitInit(100)
  /\ handlers' = [handlers EXCEPT ![0] = "pit_handler"]
  /\ bpc' = "register_callback"
  /\ UNCHANGED <<imr, irr, iflag>>

(* register_timer_callback(timer_callback).                                *)
RegisterCallback ==
  /\ bpc = "register_callback"
  /\ T!RegisterTimerCallback
  /\ bpc' = "keyboard_init"
  /\ UNCHANGED <<imr, irr, iflag, handlers>>

(* keyboard_init: keyboard_handler at IRQ1; kernel_main then prints, sets  *)
(* init_complete and waits for a key press.                                *)
KeyboardInit ==
  /\ bpc = "keyboard_init"
  /\ handlers' = [handlers EXCEPT ![1] = "keyboard_handler"]
  /\ bpc' = "wait_key"
  /\ UNCHANGED <<timerVars, imr, irr, iflag>>

(* The PIT or the keyboard raises its line.                                *)
Raise(i) ==
  /\ i \notin irr
  /\ irr' = irr \cup {i}
  /\ UNCHANGED <<timerVars, bpc, imr, iflag, handlers>>

(* The CPU takes an unmasked pending request: irq_handler(i) runs the     *)
(* handler registered at 32 + i and sends EOI.  A key ends the wait.       *)
Deliver(i) ==
  /\ iflag
  /\ i \in irr \ imr
  /\ irr' = irr \ {i}
  /\ IF handlers[i] = "pit_handler" THEN T!PitHandler ELSE UNCHANGED timerVars
  /\ bpc' = IF i = 1 /\ handlers[1] # "none" /\ bpc = "wait_key"
              THEN "shell" ELSE bpc
  /\ UNCHANGED <<imr, iflag, handlers>>

Next ==
  \/ InitMemory \/ IdtInit \/ PitInit \/ RegisterCallback \/ KeyboardInit
  \/ \E i \in IRQs : Raise(i) \/ Deliver(i)

(* kernel_main runs to its wait, the PIT keeps requesting IRQ0, and the    *)
(* CPU takes a request that stays deliverable.                             *)
Fairness ==
  /\ WF_vars(InitMemory \/ IdtInit \/ PitInit \/ RegisterCallback
               \/ KeyboardInit)
  /\ WF_vars(Raise(0))
  /\ \A i \in IRQs : WF_vars(Deliver(i))

Spec == Init /\ [][Next]_vars /\ Fairness

-----------------------------------------------------------------------------
(* Once booted, the timer ticks (spec 2: the PIT fires IRQ0, the PIC       *)
(* forwards it as vector 32 and the registered handler counts the tick).   *)
TimerTicks ==
  <>(ticks > 0)
=============================================================================
