------------------------- MODULE MC_KeyboardBuffer -------------------------
(* Model-checking instance of KeyboardBuffer: two characters.             *)
EXTENDS KeyboardBuffer

CONSTANTS k1, k2

MCKeys == {k1, k2}
=============================================================================
