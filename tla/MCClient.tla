------------------------------- MODULE MCClient -------------------------------
(***************************************************************************)
(* Two threads share a client configured for two sends, in a process that  *)
(* may have three descriptors open: enough for a leak, a descriptor of the *)
(* application and a session at the same time, and for both threads to be  *)
(* inside connectServer.                                                   *)
(***************************************************************************)
EXTENDS AsyncCommClient

=============================================================================
