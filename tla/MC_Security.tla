----------------------------- MODULE MC_Security -----------------------------
EXTENDS Security, TLC
(* aes_init is called by the handlers with the fixed key only.           *)
MCKeys == [n \in {AES_128} |-> SecurityKey]
(* The FIPS-197 test block and the zero block.                           *)
MCPlains == {FipsPlain, Bytes16(LAMBDA i : 0)}
MCMessages == {<<FipsPlain>>}
(* The rules read at addresses 0, 22, 80 and 443: one allows every      *)
(* packet, one denies every packet.                                      *)
MCGarbageRules ==
  {[match |-> [f \in Fields |-> 0], action |-> a] : a \in {RULE_ALLOW, RULE_DENY}}
MCMsgs == {<<1, 2>>}
=============================================================================
