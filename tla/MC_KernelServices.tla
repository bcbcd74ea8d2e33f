-------------------------- MODULE MC_KernelServices --------------------------
EXTENDS KernelServices, TLC
CONSTANTS n1, n2, n3, n4, n5, res, k1, k2, k3, x1
MCNodes == {n1, n2, n3, n4, n5}
(* "/", "/..", "/./..", "/name", "/../name"                               *)
MCPaths == {<<>>, <<"..">>, <<".", "..">>, <<"name">>, <<"..", "name">>}
(* ACL_PERM_READ and ACL_PERM_READ | ACL_PERM_WRITE as the bits they set. *)
MCPerms == {{"read"}, {"read", "write"}}
(* A 6-bit tick counter, explored a little past its first wrap.          *)
MCMaxTicks == 2^W + 24
(* aes_init is called with the FIPS-197 keys of 16, 24 and 32 bytes and  *)
(* with a 20-byte key the switch rejects; blocks are the FIPS-197         *)
(* plaintext and the zero block.                                         *)
MCKeys == [n \in {16, 24, 32, 20} |-> FipsKey(n)]
MCZero == Bytes16(LAMBDA i : 0)
MCPlains == {FipsPlain, MCZero}
MCIvs == {FipsKey(16)}
MCMessages == {<<FipsPlain, MCZero>>}
(* Five bytes, wrapping under both the XOR and the Caesar key bytes.      *)
MCMsgs == {<<250, 1, 2, 3, 255>>}
(* What firewall_add_rule may read where security.c passes a port: a rule *)
(* that allows or denies every packet.                                    *)
MCGarbageRules ==
  {[match |-> [f \in Fields |-> 0], action |-> a] : a \in {RULE_ALLOW, RULE_DENY}}
MCKeyHandles == {k1, k2, k3}
(* Command lines: every line of up to four characters over a letter, a   *)
(* blank and a quote, a line of three words, a line quoted with both      *)
(* quotes, and lines calling the commands, each named by one letter       *)
(* (MCCommandNames); "b" names none.                                       *)
MCCommandNames ==
  [help |-> <<"h">>, clear |-> <<"r">>, echo |-> <<"a">>, exit |-> <<"x">>,
   version |-> <<"v">>, ls |-> <<"l">>, cd |-> <<"c">>, cat |-> <<"k">>,
   ps |-> <<"p">>, uptime |-> <<"u">>, meminfo |-> <<"m">>]
MCLines ==
  UNION {[1 .. n -> {"a", " ", "\""}] : n \in 0 .. 4}
  \cup {<<"a", " ", "a", " ", "a">>, <<"'", "a", "\"", "'">>}
  \cup {<<c>> : c \in {"h", "r", "x", "v", "l", "c", "k", "p", "u", "m", "b"}}
  \cup {<<c, " ", "b">> : c \in {"h", "l", "c", "k"}}
  \cup {<<"l", " ", "/">>, <<"c", " ", "/">>, <<"c", " ", ".", ".">>}
NodeSymmetry == Permutations(MCNodes)
=============================================================================
