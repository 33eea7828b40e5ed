------------------------- MODULE MCInterruptedWrites -------------------------
(* Blocks of three bytes in a socket that holds four: a write can wait     *)
(* with some of its bytes sent, and the values wrap round.                 *)
EXTENDS InterruptedWrites
=============================================================================
