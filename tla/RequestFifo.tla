----------------------------- MODULE RequestFifo -----------------------------
(***************************************************************************)
(* What the request pool of AsyncCommLib promises to the threads of a      *)
(* client, with its mutex, its linked list and its steps left out: a FIFO  *)
(* of free requests and, for each thread, the requests it has leased.      *)
(*                                                                         *)
(* The promise is conditional, as the code's is: a thread that asks an     *)
(* empty pool kills the process (phase "crashed"), and finalizing discards *)
(* the free requests one by one and then does the same.                    *)
(***************************************************************************)
EXTENDS Naturals, Sequences

CONSTANTS
  NumofConcurrentSend,   \* AsyncCommClientConfig.numofConcurrentSend
  Threads                \* the threads that share one client

VARIABLES phase, free, leased

fifoVars == <<phase, free, leased>>

Requests == 1 .. NumofConcurrentSend

Init ==
  /\ phase = "raw"
  /\ free = << >>
  /\ leased = [t \in Threads |-> {}]

\* The pool comes up full, in the order of the array, or not at all.
Open ==
  /\ phase = "raw"
  /\ \/ phase' = "ready" /\ free' = [i \in Requests |-> i]
     \/ phase' = "failed" /\ UNCHANGED free
  /\ UNCHANGED leased

\* The oldest free request is leased to the caller.
Get(t) ==
  /\ phase = "ready"
  /\ free # << >>
  /\ free' = Tail(free)
  /\ leased' = [leased EXCEPT ![t] = @ \union {Head(free)}]
  /\ UNCHANGED phase

\* A leased request goes back to the end of the queue.
Return(t, r) ==
  /\ phase = "ready"
  /\ r \in leased[t]
  /\ free' = Append(free, r)
  /\ leased' = [leased EXCEPT ![t] = @ \ {r}]
  /\ UNCHANGED phase

StartFinalize ==
  /\ phase = "ready"
  /\ phase' = "finalizing"
  /\ UNCHANGED <<free, leased>>

\* The finalizer takes the oldest free request, and later drops it.
Drain(t) ==
  /\ phase = "finalizing"
  /\ free # << >>
  /\ free' = Tail(free)
  /\ leased' = [leased EXCEPT ![t] = @ \union {Head(free)}]
  /\ UNCHANGED phase

Drop(t, r) ==
  /\ phase = "finalizing"
  /\ r \in leased[t]
  /\ leased' = [leased EXCEPT ![t] = @ \ {r}]
  /\ UNCHANGED <<phase, free>>

\* The only way to lose the process: asking a pool that has nothing to give.
Exhaust ==
  /\ phase \in {"ready", "finalizing"}
  /\ free = << >>
  /\ phase' = "crashed"
  /\ UNCHANGED <<free, leased>>

Next ==
  \/ Open
  \/ StartFinalize
  \/ Exhaust
  \/ \E t \in Threads :
       \/ Get(t)
       \/ Drain(t)
       \/ \E r \in Requests : Return(t, r) \/ Drop(t, r)

FifoSpec == Init /\ [][Next]_fifoVars

=============================================================================
