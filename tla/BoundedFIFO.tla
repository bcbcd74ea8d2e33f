---------------------------- MODULE BoundedFIFO ----------------------------
(***************************************************************************)
(* What the keyboard buffer promises its readers: a FIFO queue of at most  *)
(* Size characters.  A key that arrives when the queue is full is dropped; *)
(* a read takes the oldest character and reports it in `got`.              *)
(***************************************************************************)
EXTENDS Naturals, Sequences

CONSTANTS Size, Keys, NoKey

VARIABLES q, got

Put(c) ==
  /\ q' = IF Len(q) < Size THEN Append(q, c) ELSE q
  /\ UNCHANGED got

Get ==
  /\ q # <<>>
  /\ got' = Head(q)
  /\ q' = Tail(q)

Init == q = <<>> /\ got = NoKey

Next == (\E c \in Keys : Put(c)) \/ Get

Spec == Init /\ [][Next]_<<q, got>>
=============================================================================
