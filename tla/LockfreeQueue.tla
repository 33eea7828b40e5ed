---------------------------- MODULE LockfreeQueue ----------------------------
(***************************************************************************)
(* spin/lockfree-queue/lockfree-queue.prom: one process enqueues every     *)
(* node of gNodes, one dequeues for ever, and a monitor asserts an         *)
(* invariant of the queue in every state.                                  *)
(*                                                                         *)
(* head and tail belong to the enqueuer, which sweeps what the dequeuer    *)
(* took when it next runs; actualHead is the only word both write.  The    *)
(* init process offers `fire' for ever, so that receiving it is a step     *)
(* either process may take at any time.                                    *)
(*                                                                         *)
(* An action is one Promela statement that another process can observe,    *)
(* with the tests of the process's own data that follow it.  delivered is  *)
(* a history variable: the nodes the dequeuer took, in order.              *)
(***************************************************************************)
EXTENDS Integers, Sequences

CONSTANT MAX_OF_NODES

\* The array gNodes has a node.
ASSUME MaxOfNodesIsPositive == MAX_OF_NODES \in Nat \ {0}

VARIABLES
  head, tail, actualHead,    \* gQueue
  next,                      \* next[n] is gNodes[n].next
  enqPc, enqueuedIndex,      \* proctype enqueue
  deqPc, dequeuedIndex,      \* proctype dequeue
  delivered

enqVars == <<enqPc, enqueuedIndex>>
deqVars == <<deqPc, dequeuedIndex, delivered>>
vars == <<head, tail, actualHead, next, enqVars, deqVars>>

NULL == -1
Nodes == 0 .. MAX_OF_NODES - 1
Pointers == Nodes \union {NULL}

Init ==
  /\ head = NULL /\ tail = NULL /\ actualHead = NULL
  /\ next = [n \in Nodes |-> NULL]
  /\ enqPc = "wait" /\ enqueuedIndex = 0
  /\ deqPc = "wait" /\ dequeuedIndex = 0
  /\ delivered = << >>

-----------------------------------------------------------------------------
(* proctype enqueue *)

EnqueueFire ==
  /\ enqPc = "wait"
  /\ enqPc' = IF head # NULL THEN "sweep" ELSE "clear"
  /\ UNCHANGED <<head, tail, actualHead, next, enqueuedIndex, deqVars>>

\* gQueue.head = gQueue.actualHead, and the test of what it read
Sweep ==
  /\ enqPc = "sweep"
  /\ head' = actualHead
  /\ enqPc' = IF head' = NULL THEN "sweepTail" ELSE "clear"
  /\ UNCHANGED <<tail, actualHead, next, enqueuedIndex, deqVars>>

SweepTail ==
  /\ enqPc = "sweepTail"
  /\ tail' = NULL
  /\ enqPc' = "clear"
  /\ UNCHANGED <<head, actualHead, next, enqueuedIndex, deqVars>>

ClearNext ==
  /\ enqPc = "clear"
  /\ next' = [next EXCEPT ![enqueuedIndex] = NULL]
  /\ enqPc' = IF head = NULL THEN "first" ELSE "link"
  /\ UNCHANGED <<head, tail, actualHead, enqueuedIndex, deqVars>>

\* A slip: the first node becomes the head and not the tail.
FirstNodeHeadOnly ==
  /\ enqPc = "first"
  /\ head' = enqueuedIndex
  /\ enqPc' = "cas"
  /\ UNCHANGED <<tail, actualHead, next, enqueuedIndex, deqVars>>

FirstNode ==
  /\ enqPc = "first"
  /\ head' = enqueuedIndex
  /\ enqPc' = "setTail"
  /\ UNCHANGED <<tail, actualHead, next, enqueuedIndex, deqVars>>

\* A slip: the tail moves on and its link is forgotten.
LinkNodeForgotten ==
  /\ enqPc = "link"
  /\ tail # NULL
  /\ enqPc' = "setTail"
  /\ UNCHANGED <<head, tail, actualHead, next, enqueuedIndex, deqVars>>

\* gNodes[gQueue.tail].next = enqueuedIndex
LinkNode ==
  /\ enqPc = "link"
  /\ tail # NULL
  /\ next' = [next EXCEPT ![tail] = enqueuedIndex]
  /\ enqPc' = "setTail"
  /\ UNCHANGED <<head, tail, actualHead, enqueuedIndex, deqVars>>

SetTail ==
  /\ enqPc = "setTail"
  /\ tail' = enqueuedIndex
  /\ enqPc' = "cas"
  /\ UNCHANGED <<head, actualHead, next, enqueuedIndex, deqVars>>

\* A slip: a swap that does not compare.
EnqueueCasBlind ==
  /\ enqPc = "cas"
  /\ actualHead' = enqueuedIndex
  /\ enqueuedIndex' = enqueuedIndex + 1
  /\ enqPc' = IF enqueuedIndex' = MAX_OF_NODES THEN "done" ELSE "wait"
  /\ UNCHANGED <<head, tail, next, deqVars>>

\* The compare-and-swap that publishes the node to a dequeuer that had run
\* dry, and the loop's end.
EnqueueCas ==
  /\ enqPc = "cas"
  /\ actualHead' = IF actualHead = NULL THEN enqueuedIndex ELSE actualHead
  /\ enqueuedIndex' = enqueuedIndex + 1
  /\ enqPc' = IF enqueuedIndex' = MAX_OF_NODES THEN "done" ELSE "wait"
  /\ UNCHANGED <<head, tail, next, deqVars>>

-----------------------------------------------------------------------------
(* proctype dequeue *)

\* A slip: the dequeuer does not test for the empty queue.
DequeueFireUntested ==
  /\ deqPc = "wait"
  /\ deqPc' = "read"
  /\ UNCHANGED <<head, tail, actualHead, next, enqVars, dequeuedIndex, delivered>>

DequeueFire ==
  /\ deqPc = "wait"
  /\ actualHead # NULL
  /\ deqPc' = "read"
  /\ UNCHANGED <<head, tail, actualHead, next, enqVars, dequeuedIndex, delivered>>

ReadHead ==
  /\ deqPc = "read"
  /\ dequeuedIndex' = actualHead
  /\ deqPc' = "take"
  /\ UNCHANGED <<head, tail, actualHead, next, enqVars, delivered>>

\* A slip: the last node stays until another is linked behind it.
TakeHeadKept ==
  /\ deqPc = "take"
  /\ actualHead' = IF next[dequeuedIndex] = NULL THEN actualHead ELSE next[dequeuedIndex]
  /\ delivered' = Append(delivered, dequeuedIndex)
  /\ deqPc' = "wait"
  /\ UNCHANGED <<head, tail, next, enqVars, dequeuedIndex>>

\* gQueue.actualHead = gNodes[dequeuedIndex].next
TakeHead ==
  /\ deqPc = "take"
  /\ actualHead' = next[dequeuedIndex]
  /\ delivered' = Append(delivered, dequeuedIndex)
  /\ deqPc' = "wait"
  /\ UNCHANGED <<head, tail, next, enqVars, dequeuedIndex>>

-----------------------------------------------------------------------------
Enqueue ==
  \/ EnqueueFire \/ Sweep \/ SweepTail \/ ClearNext
  \/ FirstNode \/ LinkNode \/ SetTail \/ EnqueueCas
Dequeue == DequeueFire \/ ReadHead \/ TakeHead

Next == Enqueue \/ Dequeue

Spec == Init /\ [][Next]_vars

\* init fires for ever, so each process that can take a step does in the end.
FairSpec == Spec /\ WF_vars(Enqueue) /\ WF_vars(Dequeue)

-----------------------------------------------------------------------------
(***************************************************************************)
(* Properties.                                                             *)
(***************************************************************************)

\* The variables have their types.
TypeOK ==
  /\ head \in Pointers /\ tail \in Pointers /\ actualHead \in Pointers
  /\ next \in [Nodes -> Pointers]
  /\ enqPc \in {"wait", "sweep", "sweepTail", "clear", "first", "link", "setTail",
                "cas", "done"}
  /\ enqueuedIndex \in 0 .. MAX_OF_NODES
  /\ enqPc # "done" => enqueuedIndex \in Nodes
  /\ deqPc \in {"wait", "read", "take"}
  /\ dequeuedIndex \in Pointers
  /\ delivered \in Seq(Nodes)

\* The four assertions of proctype monitor_invariant.
MonitorInvariant ==
  actualHead # NULL =>
    /\ head <= actualHead
    /\ actualHead <= tail + 1
    /\ head # NULL
    /\ tail # NULL

\* gNodes is never indexed with NULL: the enqueuer links behind a real tail
\* and the dequeuer takes a real node, whatever the other has swept or taken.
NodesAreIndexed ==
  /\ enqPc = "link" => tail # NULL
  /\ deqPc = "read" => actualHead # NULL
  /\ deqPc = "take" => dequeuedIndex # NULL

\* The dequeuer starts with the first node and skips and overtakes none.
DeliveredInOrder ==
  /\ delivered # << >> => delivered[1] = 0
  /\ \A i \in 1 .. Len(delivered) - 1 :
       delivered[i + 1] \in {delivered[i], delivered[i] + 1}

\* A node may come twice (the dequeuer takes it through the link before the
\* enqueuer's compare-and-swap finds the queue empty and installs it), but
\* never a third time.
DeliveredAtMostTwice ==
  \A i \in 1 .. Len(delivered) - 2 : delivered[i] # delivered[i + 2]

\* No node is lost: each is delivered in the end.
EveryNodeDelivered ==
  <>(\A n \in Nodes : \E i \in 1 .. Len(delivered) : delivered[i] = n)

=============================================================================
