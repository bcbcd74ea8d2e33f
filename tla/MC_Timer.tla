------------------------------ MODULE MC_Timer ------------------------------
(* Model-checking instance of Timer: an 8-bit tick counter, explored a     *)
(* little past its first wrap.                                             *)
EXTENDS Timer

MCMaxTicks == 2^W + 24
=============================================================================
