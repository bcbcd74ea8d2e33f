------------------------------ MODULE Firewall ------------------------------
(***************************************************************************)
(* The packet filter of src/security/firewall.c: a static array of        *)
(* MAX_RULES rules filled in order, and the first-match lookup of          *)
(* firewall_check_packet.  A rule gives each header field (src_ip, dst_ip, *)
(* src_port, dst_port, protocol) a value, 0 meaning any, and an action.     *)
(* The fields are the set Fields and their values a small set, 0 included; *)
(* a packet gives every field a non-zero value.                            *)
(***************************************************************************)
EXTENDS Naturals, Sequences, SequencesExt

CONSTANTS
  Fields,       \* the header fields a rule tests
  Values,       \* the field values callers use; 0 is the wildcard
  MaxRules      \* MAX_RULES (256 in the code)

VARIABLES
  rules,             \* rules[0 .. rule_count-1]
  firewall_enabled   \* firewall_enabled

fwVars == <<rules, firewall_enabled>>

RULE_ALLOW == 1
RULE_DENY == 0

Rules == [match : [Fields -> Values], action : {RULE_ALLOW, RULE_DENY}]
Packets == [Fields -> Values \ {0}]

(* The condition of firewall_check_packet's loop: every field equal or 0. *)
Matches(r, pkt) == \A f \in Fields : r.match[f] = pkt[f] \/ r.match[f] = 0

(* Mutant of CheckPacket: the loop keeps going and the last match wins.   *)
CheckPacketLast(pkt) ==
  IF ~firewall_enabled THEN RULE_ALLOW
  ELSE LET i == SelectLastInSeq(rules, LAMBDA r : Matches(r, pkt)) IN
       IF i = 0 THEN RULE_DENY ELSE rules[i].action

(* firewall_check_packet: RULE_ALLOW when disabled; otherwise the action  *)
(* of the first matching rule, RULE_DENY when none matches.               *)
CheckPacket(pkt) ==
  IF ~firewall_enabled THEN RULE_ALLOW
  ELSE LET i == SelectInSeq(rules, LAMBDA r : Matches(r, pkt)) IN
       IF i = 0 THEN RULE_DENY ELSE rules[i].action

-----------------------------------------------------------------------------
(* The static initialisers: no rules, filtering on.                       *)
FwInitState == rules = <<>> /\ firewall_enabled = TRUE

(* firewall_init (called by network_init): rule_count = 0, enabled = 1.   *)
FirewallInit == rules' = <<>> /\ firewall_enabled' = TRUE

(* firewall_add_rule(rule): -1 when the table is full, else copy the rule *)
(* into rules[rule_count++].                                                *)
FirewallAddRule(r) ==
  /\ Len(rules) < MaxRules
  /\ rules' = Append(rules, r)
  /\ UNCHANGED firewall_enabled

FirewallEnable == firewall_enabled' = TRUE /\ UNCHANGED rules

FirewallDisable == firewall_enabled' = FALSE /\ UNCHANGED rules

FwNext ==
  \/ FirewallInit
  \/ \E r \in Rules : FirewallAddRule(r)
  \/ FirewallEnable
  \/ FirewallDisable

-----------------------------------------------------------------------------
FwTypeOK ==
  /\ rules \in Seq(Rules)
  /\ Len(rules) <= MaxRules
  /\ firewall_enabled \in BOOLEAN

(* Rules are appended and looked up first match first, so adding a rule  *)
(* never changes the verdict on a packet an earlier rule already matches:  *)
(* a later "deny" cannot override an earlier "allow", nor the reverse.     *)
EarlierRuleWins ==
  [][\A pkt \in Packets :
       (/\ \E i \in DOMAIN rules : Matches(rules[i], pkt)
        /\ firewall_enabled' = firewall_enabled
        /\ Len(rules') > Len(rules))
       => CheckPacket(pkt)' = CheckPacket(pkt)]_fwVars
=============================================================================
