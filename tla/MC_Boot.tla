------------------------------- MODULE MC_Boot -------------------------------
(* Model-checking instance of Boot.                                         *)
EXTENDS Boot
=============================================================================
