--------------------------- MODULE MCLockfreeStack ---------------------------
(***************************************************************************)
(* Six of the ten nodes of the Promela model.                              *)
(***************************************************************************)
EXTENDS LockfreeStack

=============================================================================
