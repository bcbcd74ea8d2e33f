----------------------------- MODULE Scheduler -----------------------------
(***************************************************************************)
(* Process list and round-robin scheduler of src/kernel/process.c.         *)
(*                                                                         *)
(* Two execution contexts share the PCB list and current_process: the      *)
(* normal kernel flow, which calls process_create and process_terminate,   *)
(* and the timer interrupt, which runs scheduler_tick.  cli() and sti() of *)
(* process.c are empty, so nothing keeps the interrupt out of the normal   *)
(* flow; the IRQ0 gate is an interrupt gate (flags 0x8E), so the handler   *)
(* itself runs to completion.  process_terminate is split at the points an *)
(* interrupt can fall between its statements; process_create publishes the *)
(* new PCB with its single store to process_list and is one step.          *)
(*                                                                         *)
(* save_context and load_context are empty as well: a switch changes the   *)
(* bookkeeping only, and the normal flow goes on where it was.  kfree is a *)
(* stub, so a PCB is never reused; pids are never reused either.           *)
(*                                                                         *)
(* Init is the state process_init leaves: the kernel PCB, pid 0, alone in  *)
(* the list, current and RUNNING.                                          *)
(***************************************************************************)
EXTENDS Naturals

CONSTANTS
  MaxPid,      \* largest pid process_create may hand out (bounds next_pid)
  TimeSlice,   \* time_slice: ticks between scheduler runs (10 in the code)
  NULL         \* model value: the NULL pointer

ASSUME MaxPid \in Nat /\ TimeSlice \in Nat \ {0}

Pids == 0 .. MaxPid

READY == "READY"
RUNNING == "RUNNING"
BLOCKED == "BLOCKED"
TERMINATED == "TERMINATED"
UNUSED == "UNUSED"       \* no PCB with this pid has been allocated yet

VARIABLES
  head,       \* process_list
  nxt,        \* process_t.next of every PCB
  current,    \* current_process
  pstate,     \* process_t.state of every PCB
  nextPid,    \* next_pid
  slice,      \* tick_count % time_slice
  pc,         \* where the normal flow is inside process_terminate
  victim      \* its argument

vars == <<head, nxt, current, pstate, nextPid, slice, pc, victim>>

(* The successor the scheduler follows: next, wrapping to the list head.  *)
Succ(p) == IF nxt[p] = NULL THEN head ELSE nxt[p]

(* The PCBs reachable from process_list.                                   *)
RECURSIVE ReachFrom(_, _)
ReachFrom(p, fuel) ==
  IF p = NULL \/ fuel = 0 THEN {} ELSE {p} \cup ReachFrom(nxt[p], fuel - 1)

Linked == ReachFrom(head, MaxPid + 1)

(* The loop of process_schedule from `next`: stop at current or at the     *)
(* first READY PCB.  A walk that has visited every pid without stopping    *)
(* never stops: the loop then spins forever in interrupt context.          *)
RECURSIVE Walk(_, _)
Walk(n, fuel) ==
  IF n = current \/ pstate[n] = READY THEN n
  ELSE IF fuel = 0 THEN NULL
  ELSE Walk(Succ(n), fuel - 1)

(* Mutant of Switch: the switched-out PCB is left RUNNING.               *)
SwitchOldStaysRunning(n) ==
  /\ pstate' = [pstate EXCEPT ![n] = RUNNING]
  /\ current' = n

(* process_switch(next): old current READY, next current and RUNNING.      *)
Switch(n) ==
  /\ pstate' = [pstate EXCEPT ![current] = READY, ![n] = RUNNING]
  /\ current' = n

-----------------------------------------------------------------------------
Init ==
  /\ head = 0
  /\ nxt = [p \in Pids |-> NULL]
  /\ current = 0
  /\ pstate = [p \in Pids |-> IF p = 0 THEN RUNNING ELSE UNUSED]
  /\ nextPid = 1
  /\ slice = 0
  /\ pc = "idle"
  /\ victim = NULL

(* Mutant of Create: next_pid not bounded.                                *)
CreateNoPidBound ==
  /\ pc = "idle"
  /\ pstate' = [pstate EXCEPT ![nextPid] = READY]
  /\ nxt' = [nxt EXCEPT ![nextPid] = head]
  /\ head' = nextPid
  /\ nextPid' = nextPid + 1
  /\ UNCHANGED <<current, slice, pc, victim>>

(* process_create: new PCB READY with the next pid, pushed at the head.    *)
Create ==
  /\ pc = "idle"
  /\ nextPid <= MaxPid
  /\ pstate' = [pstate EXCEPT ![nextPid] = READY]
  /\ nxt' = [nxt EXCEPT ![nextPid] = head]
  /\ head' = nextPid
  /\ nextPid' = nextPid + 1
  /\ UNCHANGED <<current, slice, pc, victim>>

(* Mutant of TerminateUnlink: only the head case unlinks.                *)
TerminateUnlinkHeadOnly(p) ==
  /\ pc = "idle"
  /\ p \in Linked \ {0}
  /\ head' = IF p = head THEN nxt[p] ELSE head
  /\ UNCHANGED nxt
  /\ pc' = "test_current"
  /\ victim' = p
  /\ UNCHANGED <<current, pstate, nextPid, slice>>

(* process_terminate(p), first part: unlink p from the list, either by     *)
(* moving process_list or by the predecessor's next.  The caller passes a  *)
(* live PCB other than the kernel's pid 0 (spec 3: never terminated).      *)
TerminateUnlink(p) ==
  /\ pc = "idle"
  /\ p \in Linked \ {0}
  /\ IF p = head
       THEN /\ head' = nxt[p]
            /\ UNCHANGED nxt
       ELSE /\ nxt' = [q \in Pids |-> IF q \in Linked /\ nxt[q] = p
                                        THEN nxt[p] ELSE nxt[q]]
            /\ UNCHANGED head
  /\ pc' = "test_current"
  /\ victim' = p
  /\ UNCHANGED <<current, pstate, nextPid, slice>>

(* syscall_exit (src/kernel/syscall.c), the handler of SYS_EXIT:          *)
(* process_terminate(process_get_current()) when there is a current PCB.   *)
(* The exiting process is a user process: the kernel flow makes no         *)
(* system call.                                                            *)
SyscallExit ==
  /\ current # NULL
  /\ TerminateUnlink(current)

(* Mutant of TerminateTestCurrent: current_process not moved off p.       *)
TerminateTestCurrentKept ==
  /\ pc = "test_current"
  /\ pc' = "mark"
  /\ UNCHANGED <<head, nxt, current, pstate, nextPid, slice, victim>>

(* if (process == current_process): the test reads current_process; an    *)
(* interrupt may fall between it and the store below, since cli() is      *)
(* empty and process_terminate takes no lock.                              *)
TerminateTestCurrent ==
  /\ pc = "test_current"
  /\ pc' = IF victim = current THEN "store_current" ELSE "mark"
  /\ UNCHANGED <<head, nxt, current, pstate, nextPid, slice, victim>>

(* current_process = process_list, with process_list read at the store.   *)
TerminateStoreCurrent ==
  /\ pc = "store_current"
  /\ current' = head
  /\ pc' = "mark"
  /\ UNCHANGED <<head, nxt, pstate, nextPid, slice, victim>>

(* state = PROCESS_TERMINATED; kfree of the stack and the PCB (stubs).     *)
TerminateMark ==
  /\ pc = "mark"
  /\ pstate' = [pstate EXCEPT ![victim] = TERMINATED]
  /\ pc' = "idle"
  /\ victim' = NULL
  /\ UNCHANGED <<head, nxt, current, nextPid, slice>>

(* Mutant of ProcessSchedule: the walk starts at process_list.          *)
ProcessScheduleFromHead ==
  LET n == Walk(head, MaxPid + 1) IN
    /\ n # NULL
    /\ IF n # current /\ pstate[n] = READY
         THEN Switch(n)
         ELSE UNCHANGED <<pstate, current>>

(* process_schedule: walk from current->next (or the head when it is      *)
(* NULL) and switch to the READY PCB found, if it is not current.  A walk *)
(* that never ends leaves no step.                                         *)
ProcessSchedule ==
  LET n == Walk(Succ(current), MaxPid + 1) IN
    /\ n # NULL
    /\ IF n # current /\ pstate[n] = READY
         THEN Switch(n)
         ELSE UNCHANGED <<pstate, current>>

(* scheduler_tick: EOI (port_out is a stub), tick_count++, and every      *)
(* time_slice ticks, with at least two PCBs in the list, process_schedule. *)
Tick ==
  /\ slice' = (slice + 1) % TimeSlice
  /\ IF slice' = 0 /\ head # NULL /\ nxt[head] # NULL
       THEN ProcessSchedule
       ELSE UNCHANGED <<pstate, current>>
  /\ UNCHANGED <<head, nxt, nextPid, pc, victim>>

Next ==
  \/ Create
  \/ \E p \in Pids : TerminateUnlink(p)
  \/ SyscallExit
  \/ TerminateTestCurrent
  \/ TerminateStoreCurrent
  \/ TerminateMark
  \/ Tick

Spec == Init /\ [][Next]_vars

-----------------------------------------------------------------------------
TypeOK ==
  /\ head \in Pids \cup {NULL}
  /\ nxt \in [Pids -> Pids \cup {NULL}]
  /\ current \in Pids \cup {NULL}
  /\ pstate \in [Pids -> {READY, RUNNING, BLOCKED, TERMINATED, UNUSED}]
  /\ nextPid \in 1 .. MaxPid + 1
  /\ slice \in 0 .. TimeSlice - 1
  /\ pc \in {"idle", "test_current", "store_current", "mark"}
  /\ victim \in Pids \cup {NULL}

(* The list from process_list ends in NULL.                                *)
RECURSIVE ListEnds(_, _)
ListEnds(p, fuel) == p = NULL \/ (fuel > 0 /\ ListEnds(nxt[p], fuel - 1))

(* The PCB list is exact: it ends, and it holds every PCB that is READY *)
(* or RUNNING except the one process_terminate is finishing.  A PCB left  *)
(* linked after it was terminated, or a live one cut off, breaks it.      *)
ListExact ==
  /\ ListEnds(head, MaxPid + 1)
  /\ Linked = {p \in Pids : pstate[p] \in {READY, RUNNING}} \ {victim}

(* current_process never points at a TERMINATED PCB, whatever the timer   *)
(* interrupt does between the statements of process_terminate (spec 8:    *)
(* the scheduler never lands on a terminated process).                    *)
CurrentNeverTerminated ==
  current # NULL => pstate[current] # TERMINATED

(* Whenever scheduler_tick would call process_schedule, its walk ends: it *)
(* meets a READY PCB or comes back to current.  A walk that does neither  *)
(* spins forever with interrupts off.                                     *)
ScheduleWalkEnds ==
  (head # NULL /\ nxt[head] # NULL) => Walk(Succ(current), MaxPid + 1) # NULL

(* Exactly one PCB is RUNNING, and it is current_process (spec 3: exactly  *)
(* one PCB is current; spec 4.6: Ready -> Running on switch-in, Running -> *)
(* Ready on switch-out).  It fails when process_terminate makes the head   *)
(* current without marking it RUNNING, and when a tick between its test    *)
(* and its store switches to a PCB the store then leaves RUNNING behind.   *)
OnlyCurrentRunning ==
  {p \in Pids : pstate[p] = RUNNING} = IF current = NULL THEN {} ELSE {current}
=============================================================================
