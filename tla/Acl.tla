-------------------------------- MODULE Acl --------------------------------
(***************************************************************************)
(* The access control lists of src/security/acl.c.  An acl_resource_t     *)
(* keeps its entries in a kmalloc'd array `acl` of `acl_count` entries;   *)
(* acl_add_entry and acl_remove_entry replace the array by a copy one     *)
(* longer or one shorter.  The array is modelled as the sequence of its   *)
(* entries, empty exactly when the pointer is NULL and the count 0.       *)
(* Permissions are the sets of the ACL_PERM_* bits they hold, so the      *)
(* test `(permissions & perm) == perm` is set inclusion.                   *)
(***************************************************************************)
EXTENDS Naturals, Sequences, SequencesExt

CONSTANTS
  Resources,   \* the acl_resource_t structures callers hold
  Uids, Gids,  \* user and group ids callers pass
  Perms,       \* acl_permission_t values callers pass, as sets of bits
  MaxEntries   \* bound on acl_count, so that the state space is finite

VARIABLES acl  \* acl[r]: resource r's acl[0 .. acl_count-1]

aclVars == <<acl>>

Entry(u, g, p) == [user_id |-> u, group_id |-> g, permissions |-> p]

Entries == {Entry(u, g, p) : u \in Uids, g \in Gids, p \in Perms}

-----------------------------------------------------------------------------
(* new_acl of acl_add_entry: the old entries copied in order, the new one *)
(* at index acl_count.                                                     *)
AddCopy(s, e) == [i \in 1 .. Len(s) + 1 |-> IF i <= Len(s) THEN s[i] ELSE e]

(* Mutant of FoundIdx: the search loop without its `break` keeps the last *)
(* match.                                                                  *)
FoundIdxLast(s, u, g) ==
  SelectLastInSeq(s, LAMBDA e : e.user_id = u /\ e.group_id = g)

(* found_idx: the first index whose user and group both match, 0 for -1. *)
FoundIdx(s, u, g) ==
  SelectInSeq(s, LAMBDA e : e.user_id = u /\ e.group_id = g)

(* The copy loop of acl_remove_entry from index i: every entry but the one *)
(* at found_idx, in order (new_acl[new_idx++] = acl[i]).                   *)
RECURSIVE CopyExcept(_, _, _)
CopyExcept(s, skip, i) ==
  IF i > Len(s) THEN <<>>
  ELSE (IF i # skip THEN <<s[i]>> ELSE <<>>) \o CopyExcept(s, skip, i + 1)

(* ACL_USER_ROOT of include/security/acl.h.                                *)
ACL_USER_ROOT == 0

(* Mutant of CheckLoop: the loop returns at the first entry whose user or *)
(* group matches, granted or not.                                          *)
RECURSIVE CheckLoopFirstMatch(_, _, _, _, _)
CheckLoopFirstMatch(s, u, g, p, i) ==
  IF i > Len(s) THEN 0
  ELSE IF s[i].user_id = u \/ s[i].group_id = g
         THEN IF p \subseteq s[i].permissions THEN 1 ELSE 0
         ELSE CheckLoopFirstMatch(s, u, g, p, i + 1)

(* The loop of acl_check_permission from index i: 1 at the first entry    *)
(* whose user or group matches and whose permissions hold every bit of    *)
(* perm, 0 past the end.                                                   *)
RECURSIVE CheckLoop(_, _, _, _, _)
CheckLoop(s, u, g, p, i) ==
  IF i > Len(s) THEN 0
  ELSE IF (s[i].user_id = u \/ s[i].group_id = g) /\ p \subseteq s[i].permissions
         THEN 1
         ELSE CheckLoop(s, u, g, p, i + 1)

(* acl_check_permission(resource, user_id, group_id, perm): 0 for a NULL  *)
(* array, tested before root is; 1 for root; else the loop.               *)
AclCheckPermission(s, u, g, p) ==
  IF s = <<>> THEN 0
  ELSE IF u = ACL_USER_ROOT THEN 1
  ELSE CheckLoop(s, u, g, p, 1)

-----------------------------------------------------------------------------
(* A caller declares a resource with acl = NULL and acl_count = 0.        *)
AclInit == acl = [r \in Resources |-> <<>>]

(* acl_add_entry(resource, user_id, group_id, perms); kmalloc does not    *)
(* return NULL in this kernel (module Heap), so the call always succeeds.  *)
AclAddEntry(r, u, g, p) ==
  /\ Len(acl[r]) < MaxEntries
  /\ acl' = [acl EXCEPT ![r] = AddCopy(@, Entry(u, g, p))]

(* acl_remove_entry(resource, user_id, group_id): -1 on an empty list or  *)
(* no match; the last entry frees the array; otherwise the copy without    *)
(* found_idx.                                                               *)
AclRemoveEntry(r, u, g) ==
  /\ acl[r] # <<>>
  /\ FoundIdx(acl[r], u, g) # 0
  /\ acl' = [acl EXCEPT ![r] =
               IF Len(@) = 1 THEN <<>> ELSE CopyExcept(@, FoundIdx(@, u, g), 1)]

AclNext ==
  \/ \E r \in Resources, u \in Uids, g \in Gids, p \in Perms : AclAddEntry(r, u, g, p)
  \/ \E r \in Resources, u \in Uids, g \in Gids : AclRemoveEntry(r, u, g)

-----------------------------------------------------------------------------
AclTypeOK == acl \in [Resources -> Seq(Entries)]

(* Every step leaves each ACL as it was, appends exactly one entry, or    *)
(* removes the first entry of some (user, group) pair, the reference       *)
(* definitions Append and RemoveFirstMatch of SequencesExt: the two copy    *)
(* loops of acl_add_entry and acl_remove_entry lose, reorder or invent no   *)
(* entry.                                                                   *)
AclEditsExact ==
  [][\A r \in Resources :
       \/ acl'[r] = acl[r]
       \/ \E e \in Entries : acl'[r] = Append(acl[r], e)
       \/ \E u \in Uids, g \in Gids :
            acl'[r] = RemoveFirstMatch(acl[r], LAMBDA e : e.user_id = u /\ e.group_id = g)
    ]_aclVars

(* Reference decision: a resource with entries lets root do anything and  *)
(* anyone else what some entry of their user or of their group grants in  *)
(* full; a resource whose last entry was removed lets no one, root        *)
(* included, do anything.                                                   *)
AclGrants(s, u, g, p) ==
  /\ s # <<>>
  /\ \/ u = ACL_USER_ROOT
     \/ \E e \in Range(s) : (e.user_id = u \/ e.group_id = g) /\ p \subseteq e.permissions

(* After any sequence of acl_add_entry and acl_remove_entry calls,          *)
(* acl_check_permission answers every user, group and permission as the     *)
(* reference decision does: the early-return loop never stops at a matching *)
(* entry that grants too little while a later one grants enough.            *)
AclCheckAgrees ==
  \A r \in Resources, u \in Uids \cup {ACL_USER_ROOT}, g \in Gids, p \in Perms :
    (AclCheckPermission(acl[r], u, g, p) = 1) <=> AclGrants(acl[r], u, g, p)
=============================================================================
