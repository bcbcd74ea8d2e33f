------------------------------ MODULE Security ------------------------------
(***************************************************************************)
(* The security settings of src/security/security.c and the calls its     *)
(* handlers make into the audit log, the packet filter, the crypto key    *)
(* store and AES.                                                          *)
(*                                                                         *)
(* security_init and security_set_level call other components one after   *)
(* another.  A handler's state change to security_config is one step and  *)
(* the calls it then makes are queued in sec_pending and performed one per *)
(* step with the other modules' own actions; no other security call runs   *)
(* until the queue is empty, as on the single core nothing else calls in.  *)
(*                                                                         *)
(* security.c declares firewall_add_rule(int port, int action) and         *)
(* audit_log(msg, severity, user), but firewall.c defines                  *)
(* firewall_add_rule(struct firewall_rule *rule) and audit.c               *)
(* audit_log(type, level, user, msg).  The level argument lines up; the    *)
(* rule is read from the address `port`, whose content the code does not   *)
(* determine: each such call adds some rule of GarbageRules.              *)
(***************************************************************************)
EXTENDS Aes, Audit, Firewall, Crypto

CONSTANTS
  GarbageRules,  \* rules firewall_add_rule may read at addresses 0, 22, 80, 443
  SecLevels      \* levels passed to security_set_level

VARIABLES
  security_config,  \* the static security_config
  sec_pending,      \* calls the running handler has still to make
  sec_last          \* history: the last encrypt or decrypt, input and output

secVars == <<security_config, sec_pending, sec_last>>

(* The settings security_set_level stores for each accepted level.        *)
Settings(level, audit, fw, acl, enc) ==
  [security_level |-> level, enable_audit |-> audit, enable_firewall |-> fw,
   enable_access_control |-> acl, enable_encryption |-> enc]

LevelSettings(level) ==
  CASE level = 0 -> Settings(0, FALSE, FALSE, FALSE, FALSE)
    [] level = 1 -> Settings(1, TRUE, FALSE, FALSE, TRUE)
    [] OTHER -> Settings(level, TRUE, TRUE, TRUE, TRUE)

(* The key every handler passes to aes_init: 00 01 .. 0f, as AES_128.     *)
SecurityKey == [k \in 1 .. AES_128 |-> k - 1]
SecurityCtx ==
  [rounds |-> Rounds[AES_128], w |-> ExpandKey(SecurityKey, AES_128, Rounds[AES_128])]

(* The blocks the handlers are given: the plaintexts, and what            *)
(* security_encrypt_data makes of them.  Both tables are computed once.   *)
SecCipher == [p \in Plains |-> AesEncryptBlock(SecurityCtx, p)]
SecInputs == Plains \cup {SecCipher[p] : p \in Plains}
SecPlain == [c \in SecInputs |-> AesDecryptBlock(SecurityCtx, c)]

(* Calls the handlers make, in the order they make them.                  *)
CallTo(fn) == [fn |-> fn, level |-> 0]
FwAdd == CallTo("firewall_add_rule")
LogAt(level) == [fn |-> "audit_log", level |-> level]

(* The calls security_set_level makes after storing the settings.         *)
SetLevelCalls(level) ==
  (CASE level = 3 -> <<FwAdd>>
     [] level = 4 -> <<FwAdd, FwAdd>>
     [] OTHER -> <<>>)
  \o (IF LevelSettings(level).enable_audit THEN <<LogAt(2)>> ELSE <<>>)

(* The calls security_init makes under the settings s.                    *)
InitCalls(s) ==
  (IF s.enable_audit THEN <<CallTo("audit_init"), LogAt(1)>> ELSE <<>>)
  \o <<CallTo("crypto_init")>>
  \o (IF s.enable_firewall
        THEN <<CallTo("firewall_init"), FwAdd, FwAdd, FwAdd>> ELSE <<>>)

Idle == sec_pending = <<>>

OtherVars == <<aesVars, auditVars, fwVars, cryptoVars>>

NoData == [op |-> "none", in |-> <<>>, out |-> <<>>]
-----------------------------------------------------------------------------
SecInitState ==
  /\ security_config = Settings(2, TRUE, TRUE, TRUE, TRUE)
  /\ sec_pending = <<>>
  /\ sec_last = NoData

(* firewall_add_rule as security.c calls it: firewall.c copies a rule     *)
(* from the address it is given into the table, or returns -1 when full.  *)
AddGarbageRule ==
  IF Len(rules) < MaxRules
    THEN \E r \in GarbageRules : FirewallAddRule(r)
    ELSE UNCHANGED fwVars

(* The next call of the running handler, made with the callee's own       *)
(* action.                                                                 *)
SecCall ==
  /\ ~Idle
  /\ LET call == Head(sec_pending) IN
       CASE call.fn = "audit_init" ->
              AuditInit /\ UNCHANGED <<fwVars, cryptoVars>>
         [] call.fn = "audit_log" ->
              AuditLog(call.level) /\ UNCHANGED <<fwVars, cryptoVars>>
         [] call.fn = "crypto_init" ->
              CryptoInit /\ UNCHANGED <<auditVars, fwVars>>
         [] call.fn = "firewall_init" ->
              FirewallInit /\ UNCHANGED <<auditVars, cryptoVars>>
         [] call.fn = "firewall_add_rule" ->
              AddGarbageRule /\ UNCHANGED <<auditVars, cryptoVars>>
  /\ sec_pending' = Tail(sec_pending)
  /\ UNCHANGED <<security_config, sec_last, aesVars>>

(* security_init: aes_init on a local context, which succeeds for AES_128 *)
(* (else enable_encryption = 0), then the audit, crypto and firewall      *)
(* calls the settings ask for.                                              *)
SecurityInit ==
  /\ Idle
  /\ LET s == IF AES_128 \in DOMAIN Rounds THEN security_config
              ELSE [security_config EXCEPT !.enable_encryption = FALSE]
     IN /\ security_config' = s
        /\ sec_pending' = InitCalls(s)
  /\ UNCHANGED <<sec_last, OtherVars>>

(* security_set_level(level): a level above 4 returns -1 and changes      *)
(* nothing; otherwise the level's settings, its firewall rules and, when  *)
(* auditing is then on, an audit_log at level 2.                           *)
SecuritySetLevel(level) ==
  /\ Idle
  /\ level <= 4
  /\ security_config' = LevelSettings(level)
  /\ sec_pending' = SetLevelCalls(level)
  /\ UNCHANGED <<sec_last, OtherVars>>

(* security_add_firewall_rule: -1 when the firewall is off, else the call. *)
SecurityAddFirewallRule ==
  /\ Idle
  /\ security_config.enable_firewall
  /\ sec_pending' = <<FwAdd>>
  /\ UNCHANGED <<security_config, sec_last, OtherVars>>

(* security_encrypt_data(data, length, output): -1 when encryption is    *)
(* off; else aes_init with the fixed key and one aes_encrypt_block of the *)
(* first 16 bytes, whatever length is.                                      *)
SecurityEncryptData(p) ==
  /\ Idle
  /\ security_config.enable_encryption
  /\ sec_last' = [op |-> "encrypt", in |-> p, out |-> SecCipher[p]]
  /\ UNCHANGED <<security_config, sec_pending, OtherVars>>

(* security_decrypt_data: the same, with aes_decrypt_block called twice   *)
(* on the same input and output; the second call writes what the first   *)
(* did.                                                                     *)
SecurityDecryptData(c) ==
  /\ Idle
  /\ security_config.enable_encryption
  /\ sec_last' = [op |-> "decrypt", in |-> c, out |-> SecPlain[c]]
  /\ UNCHANGED <<security_config, sec_pending, OtherVars>>

SecNext ==
  \/ SecCall
  \/ SecurityInit
  \/ \E level \in SecLevels : SecuritySetLevel(level)
  \/ SecurityAddFirewallRule
  \/ \E p \in Plains : SecurityEncryptData(p)
  \/ \E c \in SecInputs : SecurityDecryptData(c)

secAllVars == <<secVars, OtherVars>>

SecSpec ==
  /\ SecInitState /\ AesInitState /\ AuditInitState /\ FwInitState
  /\ CryptoInitState
  /\ [][SecNext]_secAllVars
-----------------------------------------------------------------------------
SecTypeOK ==
  /\ security_config \in [security_level : 0 .. 4, enable_audit : BOOLEAN,
                          enable_firewall : BOOLEAN,
                          enable_access_control : BOOLEAN,
                          enable_encryption : BOOLEAN]
  /\ \A i \in 1 .. Len(sec_pending) :
       sec_pending[i] \in [fn : {"audit_init", "audit_log", "crypto_init",
                                 "firewall_init", "firewall_add_rule"},
                           level : 0 .. 2]
  /\ sec_last \in {NoData}
                   \cup [op : {"encrypt", "decrypt"}, in : SecInputs,
                         out : Seq(0 .. 255)]

(* security_decrypt_data undoes security_encrypt_data: both use the same  *)
(* key, so decrypting the block encryption produced from p gives p back.  *)
SecurityRoundTrip ==
  sec_last.op = "decrypt" =>
    \A p \in Plains : sec_last.in = SecCipher[p] => sec_last.out = p
=============================================================================
