----------------------------- MODULE MCTraceroute -----------------------------
(* The destination is the fourth of five hops at most; its replies come    *)
(* with the one time to live that is accepted, once, or with the usual 60. *)
EXTENDS Traceroute

MCReplyTTLs == {3, 60}
=============================================================================
