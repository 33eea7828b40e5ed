---------------------------- MODULE MCRequestPool ----------------------------
(***************************************************************************)
(* Three threads share a client configured for three concurrent sends, the *)
(* fewest of both for which the list has a head, a tail and a request      *)
(* between them while every thread is inside a call.                       *)
(***************************************************************************)
EXTENDS ACCRequestPool

=============================================================================
