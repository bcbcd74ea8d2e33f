------------------------------- MODULE Audit -------------------------------
(***************************************************************************)
(* The audit log of src/security/audit.c: an array of MAX_AUDIT_LOGS      *)
(* events from kmalloc, filled in order; when it is full, audit_log        *)
(* shifts every event down one place and writes the new one at the end.    *)
(* An event is kept as its event_id; its type, level, user, timestamp and  *)
(* message are copied through unchanged and are left out.                  *)
(* The levels are audit_level_t of include/security/audit.h: NONE = 0,    *)
(* ERROR = 1, WARNING = 2, INFO = 3, VERBOSE = 4.                           *)
(***************************************************************************)
EXTENDS Naturals, Sequences, SequencesExt

CONSTANTS
  MaxLogs,     \* MAX_AUDIT_LOGS (1024 in the code)
  MaxEvents    \* bound on next_event_id, so that the state space is finite

VARIABLES
  logs,           \* audit_logs[0 .. audit_count-1]
  allocated,      \* audit_logs # NULL
  next_event_id,  \* next_event_id
  current_level   \* current_level

auditVars == <<logs, allocated, next_event_id, current_level>>

None == 0
Info == 3
Verbose == 4
Levels == None .. Verbose

-----------------------------------------------------------------------------
(* Mutant of Stored: the full test written `audit_count > MAX_AUDIT_LOGS`, *)
(* so the event after the array fills is written one past its end.         *)
StoredLate(s, ev) ==
  IF Len(s) > MaxLogs THEN Append(Tail(s), ev) ELSE Append(s, ev)

(* The array after the store of audit_log: a full array loses its oldest  *)
(* event (audit_logs[i-1] = audit_logs[i], audit_count = MAX - 1), then    *)
(* the event goes at audit_count and the count grows by one.               *)
Stored(s, ev) ==
  IF Len(s) >= MaxLogs THEN Append(Tail(s), ev) ELSE Append(s, ev)

(* The state change of audit_log(type, level, user, msg) under the level *)
(* `cur` in force: nothing when the level is filtered out or the array is *)
(* missing (return 0 and -1), else the event stored with next_event_id++.  *)
Log(cur, level) ==
  IF level > cur \/ cur = None \/ ~allocated
    THEN UNCHANGED <<logs, next_event_id>>
    ELSE /\ next_event_id < MaxEvents
         /\ logs' = Stored(logs, next_event_id)
         /\ next_event_id' = next_event_id + 1

-----------------------------------------------------------------------------
AuditInitState ==
  /\ logs = <<>>
  /\ allocated = FALSE
  /\ next_event_id = 1
  /\ current_level = Info

(* audit_init: allocate the array (kmalloc does not return NULL here),    *)
(* set audit_count = 0 and next_event_id = 1, then log AUDIT_SYSTEM_BOOT   *)
(* at INFO.  A second call drops the old array.                            *)
AuditInit ==
  /\ allocated' = TRUE
  /\ IF Info > current_level \/ current_level = None
       THEN logs' = <<>> /\ next_event_id' = 1
       ELSE logs' = <<1>> /\ next_event_id' = 2
  /\ UNCHANGED current_level

(* audit_log(type, level, user, msg) from any caller.                     *)
AuditLog(level) == Log(current_level, level) /\ UNCHANGED <<allocated, current_level>>

(* Mutant of AuditSetLevel: the change logged under the old level, before *)
(* the assignment.                                                          *)
AuditSetLevelLogFirst(level) ==
  /\ level \in Levels
  /\ current_level' = level
  /\ Log(current_level, Info)
  /\ UNCHANGED allocated

(* Mutant of AuditSetLevel: the range test left out.                     *)
AuditSetLevelNoRange(level) ==
  /\ current_level' = level
  /\ Log(level, Info)
  /\ UNCHANGED allocated

(* audit_set_level(level): for a level in range, set it, then log        *)
(* AUDIT_SECURITY_CHANGE at INFO under the new level.                      *)
AuditSetLevel(level) ==
  /\ level \in Levels
  /\ current_level' = level
  /\ Log(level, Info)
  /\ UNCHANGED allocated

(* Callers pass any level to audit_log, and to audit_set_level also one   *)
(* past AUDIT_LEVEL_VERBOSE, which its range test refuses.                 *)
AuditNext ==
  \/ AuditInit
  \/ \E level \in Levels \ {None} : AuditLog(level)
  \/ \E level \in Levels \cup {Verbose + 1} : AuditSetLevel(level)

AuditSpec == AuditInitState /\ [][AuditNext]_auditVars

-----------------------------------------------------------------------------
AuditTypeOK ==
  /\ logs \in Seq(1 .. MaxEvents)
  /\ allocated \in BOOLEAN
  /\ next_event_id \in 1 .. MaxEvents
  /\ current_level \in Levels

(* However many events were logged, the shift of a full array keeps at    *)
(* most MAX_AUDIT_LOGS of them, and they are the newest ones, oldest       *)
(* first, with consecutive event_ids ending at next_event_id - 1: no event *)
(* is duplicated or lost from the window by the shift at the limit.        *)
AuditKeepsNewest ==
  /\ Len(logs) <= MaxLogs
  /\ \A i \in 1 .. Len(logs) : logs[i] = next_event_id - Len(logs) + i - 1

(* audit_set_level logs AUDIT_SECURITY_CHANGE only after it has set the   *)
(* new level: a change of level is recorded exactly when the log exists    *)
(* and the new level admits INFO events; the change to ERROR, WARNING or   *)
(* NONE that silences auditing is the one change that leaves no event.     *)
AuditLevelChangeRecorded ==
  [][current_level' # current_level =>
       (next_event_id' = next_event_id + 1 <=> allocated /\ Info <= current_level')
    ]_auditVars
=============================================================================
