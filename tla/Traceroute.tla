------------------------------ MODULE Traceroute ------------------------------
(***************************************************************************)
(* golang/icmp2/main.go: one echo after another, each with a longer time   *)
(* to live, and a second to wait for what it provokes.  The raw socket     *)
(* gets every ICMP message for the host, in the order of their arrival.    *)
(*                                                                         *)
(* An answer is known by the hop it comes from and the echo it is for; a   *)
(* message that no echo of this search has provoked, by its number.        *)
(***************************************************************************)
EXTENDS Integers, Sequences, FiniteSets

CONSTANTS
  MaxHop,        \* ps.maxHop, 32
  Distance,      \* the hop of the destination
  ReplyTTLs,     \* what the time to live of a reply may be when it gets here
  MaxForeign,    \* bound: messages that have to do with other programs
  Stranger       \* a router that is not on the route

ASSUME ThereAreHops == MaxHop \in Nat \ {0} /\ Distance \in Nat \ {0} /\ MaxForeign \in Nat

VARIABLES
  searching, hop,  \* Search: at an echo to send, a message to wait for, or ended
  paths,         \* the DstIP of each path, 0 for "*"
  network,       \* answers on their way
  socket,        \* answers that have arrived, unread
  replyTTL,      \* of this route
  foreign        \* how many foreign messages have come

searchVars == <<searching, hop, paths, network, socket, replyTTL, foreign>>

Nameless == 0
Exceeded(from, seq) == [type |-> "time exceeded", from |-> from, seq |-> seq]
Reply(seq) == [type |-> "echo reply", from |-> Distance, seq |-> seq]
Other == [type |-> "other", from |-> Stranger, seq |-> 0]

\* What answers an echo: a router on the way, or the destination.
AnswerTo(ttl) == IF ttl < Distance THEN Exceeded(ttl, ttl) ELSE Reply(ttl)

SearchInit ==
  /\ searching = "send" /\ hop = 1
  /\ paths = << >>
  /\ network = {} /\ socket = << >>
  /\ replyTTL \in ReplyTTLs
  /\ foreign = 0

\* An error of any call makes Search return nothing.
Fail == searching' = "failed" /\ paths' = << >> /\ UNCHANGED hop

\* sendICMPEcho, up to the write.
SendEcho ==
  /\ searching = "send"
  /\ searching' = "wait" /\ network' = network \union {AnswerTo(hop)}
  /\ UNCHANGED <<hop, paths, socket, replyTTL, foreign>>

\* The echo, or its answer, is never heard of.
SendUnanswered ==
  /\ searching = "send"
  /\ searching' = "wait"
  /\ UNCHANGED <<hop, paths, network, socket, replyTTL, foreign>>

CallFails ==
  /\ searching \in {"send", "wait"} /\ Fail
  /\ UNCHANGED <<network, socket, replyTTL, foreign>>

\* Answers arrive in any order, however late.
Arrive ==
  /\ searching \in {"send", "wait"}
  /\ \E a \in network : network' = network \ {a} /\ socket' = Append(socket, a)
  /\ UNCHANGED <<searching, hop, paths, replyTTL, foreign>>

\* What was sent to another program of the host, to an earlier run of this one, or
\* twice: a message that no test accepts, or one that they do, from any router, those
\* of the route too.  (A reply with the same id and a fitting time to live is one more.)
ArriveForeign ==
  /\ searching \in {"send", "wait"} /\ foreign < MaxForeign
  /\ foreign' = foreign + 1
  /\ \E a \in {Other} \union {Exceeded(r, -foreign') : r \in (1 .. Distance) \union {Stranger}} :
       socket' = Append(socket, a)
  /\ UNCHANGED <<searching, hop, paths, network, replyTTL>>

\* A slip: a hop without an answer gets no path.
FoundNamed(from) ==
  /\ paths' = IF from = Nameless THEN paths ELSE Append(paths, from)
  /\ IF from = Distance \/ hop = MaxHop
       THEN searching' = "returned" /\ UNCHANGED hop
       ELSE searching' = "send" /\ hop' = hop + 1

\* The path of this hop is known: the destination and the last hop end the loop.
Found(from) ==
  /\ paths' = Append(paths, from)
  /\ IF from = Distance \/ hop = MaxHop
       THEN searching' = "returned" /\ UNCHANGED hop
       ELSE searching' = "send" /\ hop' = hop + 1

\* validateICMPEchoReply looks at nothing of a message about an exceeded time;
\* of a reply it wants its own time to live to be the hop's number less one.
Valid(a) ==
  \/ a.type = "time exceeded"
  \/ a.type = "echo reply" /\ replyTTL = a.seq - 1

ReadAnswer ==
  /\ searching = "wait" /\ socket # << >>
  /\ socket' = Tail(socket)
  /\ IF Valid(Head(socket)) THEN Found(Head(socket).from) ELSE Fail
  /\ UNCHANGED <<network, replyTTL, foreign>>

Timeout ==
  /\ searching = "wait" /\ socket = << >>
  /\ Found(Nameless)
  /\ UNCHANGED <<network, socket, replyTTL, foreign>>

SearchNext ==
  \/ SendEcho \/ SendUnanswered \/ CallFails
  \/ Arrive \/ ArriveForeign
  \/ ReadAnswer \/ Timeout

SearchSpec == SearchInit /\ [][SearchNext]_searchVars

-----------------------------------------------------------------------------
SearchTypeOK ==
  /\ searching \in {"send", "wait", "returned", "failed"} /\ hop \in 1 .. MaxHop
  /\ paths \in Seq((0 .. Distance) \union {Stranger})
  /\ network \subseteq {AnswerTo(ttl) : ttl \in 1 .. MaxHop}
  /\ replyTTL \in ReplyTTLs /\ foreign \in 0 .. MaxForeign

(* A late answer is taken for the answer of a later hop (line 109), and a  *)
(* message for another program for the answer of any hop (line 71): its    *)
(* path may name any router, one farther away or one named already.  But   *)
(* each such message spoils one path at most.  Of the other paths, none    *)
(* names a router farther away than its hop, no two name the same one, and *)
(* each names the router of its own hop until a path was spoilt or a hop   *)
(* timed out.  Only the last path names the destination.                   *)
PathsNameRoutersInReach ==
  /\ \A k \in DOMAIN paths : paths[k] = Distance => k = Len(paths)
  /\ \E spoilt \in SUBSET DOMAIN paths :
       /\ Cardinality(spoilt) <= foreign
       /\ \A k \in DOMAIN paths \ spoilt :
            /\ paths[k] \in 0 .. k
            /\ paths[k] \in {k, Distance} \/ \E i \in 1 .. k : i \in spoilt \/ paths[i] = Nameless
            /\ \A i \in DOMAIN paths \ spoilt : paths[i] = paths[k] => i = k \/ paths[i] = Nameless
=============================================================================
