--------------------------- MODULE KernelServices ---------------------------
(***************************************************************************)
(* The kernel components that share no state with each other or with the *)
(* core: the file system tree (fs.c, syscall_open), the ACLs (acl.c), the  *)
(* audit log (audit.c), the packet filter (firewall.c) and the VGA text    *)
(* terminal (terminal.c).  kernel_main starts none of the first four (it   *)
(* calls none of fs_init, init_syscalls, security_init, audit_init or      *)
(* network_init), so each is a set of operations any caller may invoke,   *)
(* one at a time on the single core; the terminal is initialised first    *)
(* and written by everyone.                                                *)
(*                                                                         *)
(* acl_protect_file's resource is never stored and the screen output of   *)
(* the others is not modelled.  security.c drives the audit log, the      *)
(* packet filter, the key store and AES (module Security), and the shell   *)
(* reads the file system tree (module Shell): each such group is one      *)
(* service, whose behaviours interleave its members' actions, and the     *)
(* services share no variable.  Their interleaving is therefore the       *)
(* product of their own behaviours, and each property below reads the     *)
(* variables of one service only, so it holds of the interleaving exactly *)
(* when it holds of that service alone.  The specification checks them    *)
(* that way: a behaviour picks the `service` it exercises, and the others *)
(* stutter.  That is the same check with the sum, not the product, of the *)
(* states.                                                                 *)
(*                                                                         *)
(* The PIT driver (module Timer) joins them the same way: the screen      *)
(* update of timer_callback is left out of Timer, so it too shares no      *)
(* variable with the others.                                               *)
(***************************************************************************)
EXTENDS Vfs, Acl, Terminal, Security, Shell

CONSTANTS W, FreqInputs, MsInputs, MaxTicks, MaxEarly

VARIABLES ticks, frequency, ms_per_tick, uptime_ms, callback, seconds,
          last_tick, total, spc, sleepEnd, slept, sleepNeed

Tmr == INSTANCE Timer

VARIABLE service

termAll == <<termVars, ghostVars>>

timerVars == <<ticks, frequency, ms_per_tick, uptime_ms, callback, seconds,
               last_tick, total, spc, sleepEnd, slept, sleepNeed>>

(* The variables only security.c's handlers and their own callers change. *)
cipherVars == <<aesVars, cryptoVars, secVars>>

vars == <<service, vfsVars, aclVars, auditVars, fwVars, termAll, timerVars,
          cipherVars, shellVars>>

Services == {"fs", "acl", "audit", "firewall", "terminal", "timer", "aes",
             "crypto", "security", "shell"}

Init ==
  /\ service \in Services
  /\ VfsInit /\ AclInit /\ AuditInitState /\ FwInitState /\ TermInit /\ Tmr!Init
  /\ AesInitState /\ CryptoInitState /\ SecInitState /\ ShellInitState

Next ==
  \/ service = "fs" /\ VfsNext
     /\ UNCHANGED <<service, aclVars, auditVars, fwVars, termAll,
                    timerVars, cipherVars, shellVars>>
  \/ service = "acl" /\ AclNext
     /\ UNCHANGED <<service, vfsVars, auditVars, fwVars, termAll,
                    timerVars, cipherVars, shellVars>>
  \/ service = "audit" /\ AuditNext
     /\ UNCHANGED <<service, vfsVars, aclVars, fwVars, termAll,
                    timerVars, cipherVars, shellVars>>
  \/ service = "firewall" /\ FwNext
     /\ UNCHANGED <<service, vfsVars, aclVars, auditVars, termAll,
                    timerVars, cipherVars, shellVars>>
  \/ service = "terminal" /\ TermNext
     /\ UNCHANGED <<service, vfsVars, aclVars, auditVars, fwVars,
                    timerVars, cipherVars, shellVars>>
  \/ service = "timer" /\ Tmr!Next
     /\ UNCHANGED <<service, vfsVars, aclVars, auditVars, fwVars, termAll,
                    cipherVars, shellVars>>
  \/ service = "aes" /\ AesNext
     /\ UNCHANGED <<service, vfsVars, aclVars, auditVars, fwVars, termAll,
                    timerVars, cryptoVars, secVars, shellVars>>
  \/ service = "crypto" /\ CryptoNext
     /\ UNCHANGED <<service, vfsVars, aclVars, auditVars, fwVars, termAll,
                    timerVars, aesVars, secVars, shellVars>>
  \/ service = "security" /\ SecNext
     /\ UNCHANGED <<service, vfsVars, aclVars, termAll, timerVars, shellVars>>
  \/ service = "shell" /\ (ShellNext \/ (FsInit /\ UNCHANGED shellVars))
     /\ UNCHANGED <<service, aclVars, auditVars, fwVars, termAll, timerVars,
                    cipherVars>>

Spec == Init /\ [][Next]_vars

TypeOK ==
  /\ service \in Services
  /\ VfsTypeOK /\ AclTypeOK /\ AuditTypeOK /\ FwTypeOK /\ TermTypeOK
  /\ Tmr!TypeOK
  /\ AesTypeOK /\ CryptoTypeOK /\ SecTypeOK /\ ShellTypeOK

(* timer_callback never counts more seconds than total / frequency, also  *)
(* after the uint32 tick counter has wrapped (Timer!SecondsNeverAhead).   *)
SecondsNeverAhead == Tmr!SecondsNeverAhead

(* get_uptime_ms() stays within the integer-division rounding of the real *)
(* time the ticks stand for (Timer!UptimeWithinRounding).                  *)
UptimeWithinRounding == Tmr!UptimeWithinRounding

(* Once pit_init has clamped any requested frequency, sleep_ms's divisor  *)
(* ms_per_tick is not 0 (Timer!SleepDivisorNonZero).                      *)
SleepDivisorNonZero == Tmr!SleepDivisorNonZero
=============================================================================
