--------------------------- MODULE MCLockfreeQueue ---------------------------
(***************************************************************************)
(* The queue with twice the four nodes of the Promela model, so that it    *)
(* can run dry and be refilled several times.                              *)
(***************************************************************************)
EXTENDS LockfreeQueue

=============================================================================
