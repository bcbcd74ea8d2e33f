------------------------------- MODULE Timer -------------------------------
(***************************************************************************)
(* The PIT driver of src/kernel/timer/pit.c and the uptime callback of    *)
(* src/kernel/init/main.c.                                                 *)
(*                                                                         *)
(* pit_init programs the frequency and registers pit_handler for IRQ0;    *)
(* kernel_main then registers timer_callback, which pit_handler calls on  *)
(* every tick.  sleep_ms busy-waits with hlt until get_ticks() reaches an *)
(* end tick computed in uint32.  The tick counter and the arithmetic of   *)
(* sleep_ms and timer_callback are kept modulo 2^W; W is 32 in the code    *)
(* and smaller here, so that the counter wraps within the bound.          *)
(* uptime_ms is a uint64 and does not wrap within any bound TLC reaches.  *)
(*                                                                         *)
(* The module assumes IRQ0 reaches pit_handler; module Boot checks whether *)
(* it does.  `total` counts ticks without wrapping: a history variable.    *)
(***************************************************************************)
EXTENDS Naturals

CONSTANTS
  W,           \* width of uint32 tick arithmetic (32 in the code)
  FreqInputs,  \* frequencies kernel_main may pass to pit_init (100 in main)
  MsInputs,    \* arguments of sleep_ms
  MaxTicks,    \* bound on the number of ticks explored
  MaxEarly     \* bound on ticks between pit_init and register_timer_callback

Mod == 2^W

VARIABLES
  ticks,        \* timer.ticks
  frequency,    \* timer.frequency (0 until pit_init)
  ms_per_tick,  \* timer.ms_per_tick
  uptime_ms,    \* timer.uptime_ms
  callback,     \* timer_callback != NULL
  seconds,      \* timer_callback's static seconds
  last_tick,    \* timer_callback's static last_tick
  total,        \* history: ticks since boot, unwrapped
  spc,          \* where a sleep_ms caller is: idle, check, halted
  sleepEnd,     \* its local end
  slept,        \* history: ticks since it started
  sleepNeed     \* history: ceil(ms / ms_per_tick) in unbounded arithmetic

vars == <<ticks, frequency, ms_per_tick, uptime_ms, callback, seconds,
          last_tick, total, spc, sleepEnd, slept, sleepNeed>>

(* Mutant of Clamp: the upper clamp dropped.                               *)
ClampNoUpper(f) == IF f < 18 THEN 18 ELSE f

(* The frequency clamp of pit_init.                                        *)
Clamp(f) == IF f < 18 THEN 18 ELSE IF f > 1000 THEN 1000 ELSE f

-----------------------------------------------------------------------------
Init ==
  /\ ticks = 0
  /\ frequency = 0
  /\ ms_per_tick = 0
  /\ uptime_ms = 0
  /\ callback = FALSE
  /\ seconds = 0
  /\ last_tick = 0
  /\ total = 0
  /\ spc = "idle"
  /\ sleepEnd = 0
  /\ slept = 0
  /\ sleepNeed = 0

(* Mutant of PitInit: ms_per_tick rounded up instead of down.             *)
PitInitRoundUp(f) ==
  /\ frequency = 0
  /\ frequency' = Clamp(f)
  /\ ms_per_tick' = (1000 + Clamp(f) - 1) \div Clamp(f)
  /\ UNCHANGED <<ticks, uptime_ms, callback, seconds, last_tick, total,
                 spc, sleepEnd, slept, sleepNeed>>

(* pit_init(f): clamp, ms_per_tick = 1000 / f, program the PIT and        *)
(* register pit_handler for IRQ0.  kernel_main calls it once.              *)
PitInit(f) ==
  /\ frequency = 0
  /\ frequency' = Clamp(f)
  /\ ms_per_tick' = 1000 \div Clamp(f)
  /\ UNCHANGED <<ticks, uptime_ms, callback, seconds, last_tick, total,
                 spc, sleepEnd, slept, sleepNeed>>

(* register_timer_callback(timer_callback), right after pit_init.          *)
RegisterTimerCallback ==
  /\ frequency # 0
  /\ ~callback
  /\ callback' = TRUE
  /\ UNCHANGED <<ticks, frequency, ms_per_tick, uptime_ms, seconds,
                 last_tick, total, spc, sleepEnd, slept, sleepNeed>>

(* Mutant of TimerCallback: `current_tick >= last_tick + frequency`.      *)
TimerCallbackNoWrap(now) ==
  IF now >= (last_tick + frequency) % Mod
    THEN seconds' = seconds + 1 /\ last_tick' = now
    ELSE UNCHANGED <<seconds, last_tick>>

(* timer_callback: a second has passed when current_tick - last_tick, in  *)
(* uint32, reaches the frequency.  The screen update is left out.          *)
TimerCallback(now) ==
  IF (now - last_tick + Mod) % Mod >= frequency
    THEN seconds' = seconds + 1 /\ last_tick' = now
    ELSE UNCHANGED <<seconds, last_tick>>

(* Mutant of PitHandler: uptime derived from the uint32 tick counter.    *)
PitHandlerUptimeFromTicks ==
  /\ frequency # 0
  /\ total < MaxTicks
  /\ callback \/ total < MaxEarly
  /\ ticks' = (ticks + 1) % Mod
  /\ uptime_ms' = ticks' * ms_per_tick
  /\ total' = total + 1
  /\ IF callback THEN TimerCallback(ticks')
                 ELSE UNCHANGED <<seconds, last_tick>>
  /\ spc' = IF spc = "halted" THEN "check" ELSE spc
  /\ slept' = IF spc = "idle" THEN slept ELSE slept + 1
  /\ UNCHANGED <<frequency, ms_per_tick, callback, sleepEnd, sleepNeed>>

(* IRQ0 runs pit_handler: ticks++, uptime_ms += ms_per_tick, then the     *)
(* callback if one is registered.  The interrupt ends a hlt.              *)
PitHandler ==
  /\ frequency # 0
  /\ total < MaxTicks
  /\ callback \/ total < MaxEarly
  /\ ticks' = (ticks + 1) % Mod
  /\ uptime_ms' = uptime_ms + ms_per_tick
  /\ total' = total + 1
  /\ IF callback THEN TimerCallback(ticks')
                 ELSE UNCHANGED <<seconds, last_tick>>
  /\ spc' = IF spc = "halted" THEN "check" ELSE spc
  /\ slept' = IF spc = "idle" THEN slept ELSE slept + 1
  /\ UNCHANGED <<frequency, ms_per_tick, callback, sleepEnd, sleepNeed>>

(* sleep_ms(ms): start = get_ticks(); ticks_to_wait = (ms + ms_per_tick  *)
(* - 1) / ms_per_tick; end = start + ticks_to_wait, all in uint32.  It is *)
(* called after pit_init: ms_per_tick is 0 before, and the division traps. *)
SleepMs(ms) ==
  /\ spc = "idle"
  /\ ms_per_tick # 0
  /\ LET wait == ((ms + ms_per_tick - 1) % Mod) \div ms_per_tick IN
       sleepEnd' = (ticks + wait) % Mod
  /\ slept' = 0
  /\ sleepNeed' = (ms + ms_per_tick - 1) \div ms_per_tick
  /\ spc' = "check"
  /\ UNCHANGED <<ticks, frequency, ms_per_tick, uptime_ms, callback, seconds,
                 last_tick, total>>

(* while (get_ticks() < end) hlt;  either halt, or return, which ends the *)
(* lifetime of the locals.                                                 *)
SleepCheck ==
  /\ spc = "check"
  /\ IF ticks < sleepEnd
       THEN /\ spc' = "halted"
            /\ UNCHANGED <<sleepEnd, slept, sleepNeed>>
       ELSE /\ spc' = "idle"
            /\ sleepEnd' = 0 /\ slept' = 0 /\ sleepNeed' = 0
  /\ UNCHANGED <<ticks, frequency, ms_per_tick, uptime_ms, callback, seconds,
                 last_tick, total>>

Next ==
  \/ \E f \in FreqInputs : PitInit(f)
  \/ RegisterTimerCallback
  \/ PitHandler
  \/ \E ms \in MsInputs : SleepMs(ms)
  \/ SleepCheck

Spec == Init /\ [][Next]_vars

-----------------------------------------------------------------------------
TypeOK ==
  /\ ticks \in 0 .. Mod - 1
  /\ frequency \in {0} \cup 18 .. 1000
  /\ ms_per_tick \in Nat
  /\ uptime_ms \in Nat
  /\ callback \in BOOLEAN
  /\ seconds \in Nat
  /\ last_tick \in 0 .. Mod - 1
  /\ total \in 0 .. MaxTicks
  /\ spc \in {"idle", "check", "halted"}
  /\ sleepEnd \in 0 .. Mod - 1

(* The uptime shown by timer_callback never runs ahead of real time: after *)
(* `total` ticks at `frequency` Hz at most total / frequency seconds have   *)
(* been counted, also once the tick counter has wrapped.                   *)
SecondsNeverAhead ==
  seconds * frequency <= total

(* get_uptime_ms() after K ticks at F Hz is K * (1000 / F) within the     *)
(* integer-division rounding (spec section 8): pit_handler adds the        *)
(* truncated ms_per_tick, so uptime never runs ahead of the K * 1000 / F ms *)
(* that have passed and falls behind by less than one ms per tick.  At 18 Hz *)
(* (a request below the clamp) that is 55 ms a tick for 55.6 real ones.    *)
UptimeWithinRounding ==
  /\ uptime_ms * frequency <= total * 1000
  /\ total > 0 => total * 1000 < (uptime_ms + total) * frequency

(* sleep_ms divides by ms_per_tick = 1000 / frequency: once pit_init has *)
(* run, whatever frequency it was asked for, the divisor is not 0, so no   *)
(* caller of sleep_ms takes a divide error.                                *)
SleepDivisorNonZero ==
  frequency # 0 => ms_per_tick > 0

(* sleep_ms(ms) returns only after at least ceil(ms / ms_per_tick) ticks, *)
(* the count its target is computed from, wherever the counter stands.    *)
SleepLongEnough ==
  [][spc = "check" /\ spc' = "idle" => slept >= sleepNeed]_vars
=============================================================================
