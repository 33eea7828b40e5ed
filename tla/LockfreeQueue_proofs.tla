------------------------- MODULE LockfreeQueue_proofs -------------------------
(***************************************************************************)
(* For any number of nodes: the monitor's assertions hold, no NULL is used *)
(* as an index, and nodes are delivered in order, none skipped and none a  *)
(* third time.                                                             *)
(***************************************************************************)
EXTENDS LockfreeQueue, SequenceTheorems, TLAPS

\* The node just linked is not yet counted in enqueuedIndex.
Linking == enqPc \in {"setTail", "cas"}

\* The last node the dequeuer can reach, once it is not dry.
LastLinked == IF Linking THEN enqueuedIndex ELSE enqueuedIndex - 1

LastDelivered == IF delivered = << >> THEN NULL ELSE delivered[Len(delivered)]

(***************************************************************************)
(* The inductive invariant, in named parts.                                *)
(***************************************************************************)

\* Between a sweep and the next link an empty queue has neither head nor tail;
\* otherwise the tail is the last node that was enqueued.
EnqueuerInv ==
  /\ head # NULL => head <= LastLinked
  /\ enqPc \in {"sweepTail", "first"} => head = NULL
  /\ enqPc \in {"sweep", "link", "setTail", "cas", "done"} => head # NULL
  /\ enqPc \in {"wait", "sweep", "link", "done"} /\ head # NULL
       => tail = enqueuedIndex - 1
  /\ enqPc = "clear" => tail = IF head = NULL THEN NULL ELSE enqueuedIndex - 1
  /\ enqPc = "setTail" /\ head # enqueuedIndex => tail = enqueuedIndex - 1
  /\ enqPc = "cas" => tail = enqueuedIndex
  /\ enqPc = "wait" /\ head = NULL => enqueuedIndex = 0 /\ tail = NULL

\* From actualHead the links run through consecutive nodes to the last one.
ReachableInv ==
  /\ actualHead # NULL =>
       /\ head # NULL /\ head <= actualHead /\ actualHead <= LastLinked
       /\ \A n \in Nodes : actualHead <= n /\ n < LastLinked => next[n] = n + 1
       /\ next[LastLinked] = NULL
  /\ Linking => next[enqueuedIndex] = NULL
  /\ enqPc \in {"first", "link"} => next[enqueuedIndex] = NULL
  /\ Linking /\ head = enqueuedIndex => actualHead = NULL

\* Only the dequeuer moves actualHead once it is a node.
DequeuerInv ==
  /\ deqPc = "read" => actualHead # NULL
  /\ deqPc = "take" => actualHead # NULL /\ dequeuedIndex = actualHead

\* What is delivered next is the successor of what was delivered last, or, once,
\* the same node again.
DeliveryInv ==
  /\ actualHead # NULL =>
       \/ actualHead = LastDelivered + 1
       \/ /\ actualHead = LastDelivered /\ actualHead < enqueuedIndex
          /\ Len(delivered) > 1 => delivered[Len(delivered) - 1] # LastDelivered
  /\ actualHead = NULL =>
       LastDelivered \in IF Linking THEN {enqueuedIndex - 1, enqueuedIndex}
                                    ELSE {enqueuedIndex - 1}
  /\ Linking /\ LastDelivered = enqueuedIndex /\ Len(delivered) > 1
       => delivered[Len(delivered) - 1] # LastDelivered

IInv ==
  /\ TypeOK
  /\ EnqueuerInv
  /\ ReachableInv
  /\ DequeuerInv
  /\ DeliveryInv
  /\ DeliveredInOrder
  /\ DeliveredAtMostTwice

-----------------------------------------------------------------------------
(***************************************************************************)
(* Every action preserves the invariant.                                   *)
(***************************************************************************)

LEMMA EnqueueFireStep == IInv /\ EnqueueFire => IInv'
  <1> SUFFICES ASSUME IInv, EnqueueFire
               PROVE  IInv'
    OBVIOUS
  <1> USE MaxOfNodesIsPositive DEF IInv, EnqueueFire, TypeOK, Nodes, Pointers, NULL, enqVars, deqVars
  <1>1. TypeOK'
    BY DEF DequeuerInv
  <1>2. EnqueuerInv'
    BY DEF EnqueuerInv, ReachableInv, LastLinked, Linking
  <1>3. ReachableInv'
    BY DEF EnqueuerInv, ReachableInv, DequeuerInv, LastLinked, Linking
  <1>4. DequeuerInv'
    BY DEF DequeuerInv
  <1>5. DeliveryInv'
    BY DEF DeliveryInv, EnqueuerInv, ReachableInv, DequeuerInv, LastDelivered, LastLinked, Linking
  <1>6. DeliveredInOrder'
    BY DEF DeliveredInOrder
  <1>7. DeliveredAtMostTwice'
    BY DEF DeliveredAtMostTwice
  <1>8. QED
    BY <1>1, <1>2, <1>3, <1>4, <1>5, <1>6, <1>7

LEMMA SweepStep == IInv /\ Sweep => IInv'
  <1> SUFFICES ASSUME IInv, Sweep
               PROVE  IInv'
    OBVIOUS
  <1> USE MaxOfNodesIsPositive DEF IInv, Sweep, TypeOK, Nodes, Pointers, NULL, enqVars, deqVars
  <1>1. TypeOK'
    BY DEF DequeuerInv
  <1>2. EnqueuerInv'
    BY DEF EnqueuerInv, ReachableInv, LastLinked, Linking
  <1>3. ReachableInv'
    BY DEF EnqueuerInv, ReachableInv, DequeuerInv, LastLinked, Linking
  <1>4. DequeuerInv'
    BY DEF DequeuerInv
  <1>5. DeliveryInv'
    BY DEF DeliveryInv, EnqueuerInv, ReachableInv, DequeuerInv, LastDelivered, LastLinked, Linking
  <1>6. DeliveredInOrder'
    BY DEF DeliveredInOrder
  <1>7. DeliveredAtMostTwice'
    BY DEF DeliveredAtMostTwice
  <1>8. QED
    BY <1>1, <1>2, <1>3, <1>4, <1>5, <1>6, <1>7

LEMMA SweepTailStep == IInv /\ SweepTail => IInv'
  <1> SUFFICES ASSUME IInv, SweepTail
               PROVE  IInv'
    OBVIOUS
  <1> USE MaxOfNodesIsPositive DEF IInv, SweepTail, TypeOK, Nodes, Pointers, NULL, enqVars, deqVars
  <1>1. TypeOK'
    BY DEF DequeuerInv
  <1>2. EnqueuerInv'
    BY DEF EnqueuerInv, ReachableInv, LastLinked, Linking
  <1>3. ReachableInv'
    BY DEF EnqueuerInv, ReachableInv, DequeuerInv, LastLinked, Linking
  <1>4. DequeuerInv'
    BY DEF DequeuerInv
  <1>5. DeliveryInv'
    BY DEF DeliveryInv, EnqueuerInv, ReachableInv, DequeuerInv, LastDelivered, LastLinked, Linking
  <1>6. DeliveredInOrder'
    BY DEF DeliveredInOrder
  <1>7. DeliveredAtMostTwice'
    BY DEF DeliveredAtMostTwice
  <1>8. QED
    BY <1>1, <1>2, <1>3, <1>4, <1>5, <1>6, <1>7

LEMMA ClearNextStep == IInv /\ ClearNext => IInv'
  <1> SUFFICES ASSUME IInv, ClearNext
               PROVE  IInv'
    OBVIOUS
  <1> USE MaxOfNodesIsPositive DEF IInv, ClearNext, TypeOK, Nodes, Pointers, NULL, enqVars, deqVars
  <1>1. TypeOK'
    BY DEF DequeuerInv
  <1>2. EnqueuerInv'
    BY DEF EnqueuerInv, ReachableInv, LastLinked, Linking
  <1>3. ReachableInv'
    BY DEF EnqueuerInv, ReachableInv, DequeuerInv, LastLinked, Linking
  <1>4. DequeuerInv'
    BY DEF DequeuerInv
  <1>5. DeliveryInv'
    BY DEF DeliveryInv, EnqueuerInv, ReachableInv, DequeuerInv, LastDelivered, LastLinked, Linking
  <1>6. DeliveredInOrder'
    BY DEF DeliveredInOrder
  <1>7. DeliveredAtMostTwice'
    BY DEF DeliveredAtMostTwice
  <1>8. QED
    BY <1>1, <1>2, <1>3, <1>4, <1>5, <1>6, <1>7

LEMMA FirstNodeStep == IInv /\ FirstNode => IInv'
  <1> SUFFICES ASSUME IInv, FirstNode
               PROVE  IInv'
    OBVIOUS
  <1> USE MaxOfNodesIsPositive DEF IInv, FirstNode, TypeOK, Nodes, Pointers, NULL, enqVars, deqVars
  <1>1. TypeOK'
    BY DEF DequeuerInv
  <1>2. EnqueuerInv'
    BY DEF EnqueuerInv, ReachableInv, LastLinked, Linking
  <1>3. ReachableInv'
    BY DEF EnqueuerInv, ReachableInv, DequeuerInv, LastLinked, Linking
  <1>4. DequeuerInv'
    BY DEF DequeuerInv
  <1>5. DeliveryInv'
    BY DEF DeliveryInv, EnqueuerInv, ReachableInv, DequeuerInv, LastDelivered, LastLinked, Linking
  <1>6. DeliveredInOrder'
    BY DEF DeliveredInOrder
  <1>7. DeliveredAtMostTwice'
    BY DEF DeliveredAtMostTwice
  <1>8. QED
    BY <1>1, <1>2, <1>3, <1>4, <1>5, <1>6, <1>7

LEMMA LinkNodeStep == IInv /\ LinkNode => IInv'
  <1> SUFFICES ASSUME IInv, LinkNode
               PROVE  IInv'
    OBVIOUS
  <1> USE MaxOfNodesIsPositive DEF IInv, LinkNode, TypeOK, Nodes, Pointers, NULL, enqVars, deqVars
  <1>1. TypeOK'
    BY DEF DequeuerInv
  <1>2. EnqueuerInv'
    BY DEF EnqueuerInv, ReachableInv, LastLinked, Linking
  <1>3. ReachableInv'
    BY DEF EnqueuerInv, ReachableInv, DequeuerInv, LastLinked, Linking
  <1>4. DequeuerInv'
    BY DEF DequeuerInv
  <1>5. DeliveryInv'
    BY DEF DeliveryInv, EnqueuerInv, ReachableInv, DequeuerInv, LastDelivered, LastLinked, Linking
  <1>6. DeliveredInOrder'
    BY DEF DeliveredInOrder
  <1>7. DeliveredAtMostTwice'
    BY DEF DeliveredAtMostTwice
  <1>8. QED
    BY <1>1, <1>2, <1>3, <1>4, <1>5, <1>6, <1>7

LEMMA SetTailStep == IInv /\ SetTail => IInv'
  <1> SUFFICES ASSUME IInv, SetTail
               PROVE  IInv'
    OBVIOUS
  <1> USE MaxOfNodesIsPositive DEF IInv, SetTail, TypeOK, Nodes, Pointers, NULL, enqVars, deqVars
  <1>1. TypeOK'
    BY DEF DequeuerInv
  <1>2. EnqueuerInv'
    BY DEF EnqueuerInv, ReachableInv, LastLinked, Linking
  <1>3. ReachableInv'
    BY DEF EnqueuerInv, ReachableInv, DequeuerInv, LastLinked, Linking
  <1>4. DequeuerInv'
    BY DEF DequeuerInv
  <1>5. DeliveryInv'
    BY DEF DeliveryInv, EnqueuerInv, ReachableInv, DequeuerInv, LastDelivered, LastLinked, Linking
  <1>6. DeliveredInOrder'
    BY DEF DeliveredInOrder
  <1>7. DeliveredAtMostTwice'
    BY DEF DeliveredAtMostTwice
  <1>8. QED
    BY <1>1, <1>2, <1>3, <1>4, <1>5, <1>6, <1>7

LEMMA EnqueueCasStep == IInv /\ EnqueueCas => IInv'
  <1> SUFFICES ASSUME IInv, EnqueueCas
               PROVE  IInv'
    OBVIOUS
  <1> USE MaxOfNodesIsPositive DEF IInv, EnqueueCas, TypeOK, Nodes, Pointers, NULL, enqVars, deqVars
  <1>1. TypeOK'
    BY DEF DequeuerInv
  <1>2. EnqueuerInv'
    BY DEF EnqueuerInv, ReachableInv, LastLinked, Linking
  <1>3. ReachableInv'
    BY DEF EnqueuerInv, ReachableInv, DequeuerInv, LastLinked, Linking
  <1>4. DequeuerInv'
    BY DEF DequeuerInv
  <1>5. DeliveryInv'
    BY DEF DeliveryInv, EnqueuerInv, ReachableInv, DequeuerInv, LastDelivered, LastLinked, Linking
  <1>6. DeliveredInOrder'
    BY DEF DeliveredInOrder
  <1>7. DeliveredAtMostTwice'
    BY DEF DeliveredAtMostTwice
  <1>8. QED
    BY <1>1, <1>2, <1>3, <1>4, <1>5, <1>6, <1>7

LEMMA DequeueFireStep == IInv /\ DequeueFire => IInv'
  <1> SUFFICES ASSUME IInv, DequeueFire
               PROVE  IInv'
    OBVIOUS
  <1> USE MaxOfNodesIsPositive DEF IInv, DequeueFire, TypeOK, Nodes, Pointers, NULL, enqVars, deqVars
  <1>1. TypeOK'
    BY DEF DequeuerInv
  <1>2. EnqueuerInv'
    BY DEF EnqueuerInv, ReachableInv, LastLinked, Linking
  <1>3. ReachableInv'
    BY DEF EnqueuerInv, ReachableInv, DequeuerInv, LastLinked, Linking
  <1>4. DequeuerInv'
    BY DEF DequeuerInv
  <1>5. DeliveryInv'
    BY DEF DeliveryInv, EnqueuerInv, ReachableInv, DequeuerInv, LastDelivered, LastLinked, Linking
  <1>6. DeliveredInOrder'
    BY DEF DeliveredInOrder
  <1>7. DeliveredAtMostTwice'
    BY DEF DeliveredAtMostTwice
  <1>8. QED
    BY <1>1, <1>2, <1>3, <1>4, <1>5, <1>6, <1>7

LEMMA ReadHeadStep == IInv /\ ReadHead => IInv'
  <1> SUFFICES ASSUME IInv, ReadHead
               PROVE  IInv'
    OBVIOUS
  <1> USE MaxOfNodesIsPositive DEF IInv, ReadHead, TypeOK, Nodes, Pointers, NULL, enqVars, deqVars
  <1>1. TypeOK'
    BY DEF DequeuerInv
  <1>2. EnqueuerInv'
    BY DEF EnqueuerInv, ReachableInv, LastLinked, Linking
  <1>3. ReachableInv'
    BY DEF EnqueuerInv, ReachableInv, DequeuerInv, LastLinked, Linking
  <1>4. DequeuerInv'
    BY DEF DequeuerInv
  <1>5. DeliveryInv'
    BY DEF DeliveryInv, EnqueuerInv, ReachableInv, DequeuerInv, LastDelivered, LastLinked, Linking
  <1>6. DeliveredInOrder'
    BY DEF DeliveredInOrder
  <1>7. DeliveredAtMostTwice'
    BY DEF DeliveredAtMostTwice
  <1>8. QED
    BY <1>1, <1>2, <1>3, <1>4, <1>5, <1>6, <1>7

LEMMA TakeHeadStep == IInv /\ TakeHead => IInv'
  <1> SUFFICES ASSUME IInv, TakeHead
               PROVE  IInv'
    OBVIOUS
  <1> USE MaxOfNodesIsPositive DEF IInv, TakeHead, TypeOK, Nodes, Pointers, NULL, enqVars, deqVars
  <1>1. TypeOK'
    BY DEF DequeuerInv
  <1>2. EnqueuerInv'
    BY DEF EnqueuerInv, ReachableInv, LastLinked, Linking
  <1>3. /\ dequeuedIndex = actualHead /\ actualHead \in Nodes
        /\ head # NULL /\ head <= actualHead /\ actualHead <= LastLinked
        /\ LastLinked \in Nodes /\ LastLinked' = LastLinked /\ Linking' = Linking
    BY DEF DequeuerInv, ReachableInv, LastLinked, Linking
  <1>4. \/ actualHead = LastLinked /\ actualHead' = NULL
        \/ actualHead < LastLinked /\ actualHead' = actualHead + 1
    BY <1>3 DEF ReachableInv
  <1>5. /\ delivered' \in Seq(Nodes)
        /\ Len(delivered') = Len(delivered) + 1
        /\ delivered'[Len(delivered')] = actualHead
        /\ \A i \in 1 .. Len(delivered) : delivered'[i] = delivered[i]
        /\ delivered' # << >>
    BY <1>3
  <1>6. LastDelivered' = actualHead
    BY <1>5 DEF LastDelivered
  <1>7. ReachableInv'
    <2>1. Linking /\ head = enqueuedIndex => FALSE
      BY <1>3 DEF ReachableInv
    <2>2. QED
      BY <1>3, <1>4, <2>1 DEF ReachableInv
  <1>8. DequeuerInv'
    BY DEF DequeuerInv
  <1>9. /\ Len(delivered) \in Nat
        /\ delivered = << >> => Len(delivered) = 0 /\ LastDelivered = NULL
        /\ delivered # << >> => Len(delivered) > 0 /\ LastDelivered = delivered[Len(delivered)]
                                /\ LastDelivered \in Nodes
    BY EmptySeq DEF LastDelivered
  <1>10. actualHead \in {LastDelivered, LastDelivered + 1}
    BY <1>3, <1>9 DEF DeliveryInv
  <1>11. DeliveredInOrder'
    <2>1. delivered'[1] = 0
      BY <1>3, <1>5, <1>9, <1>10 DEF DeliveredInOrder
    <2>2. ASSUME NEW i \in 1 .. Len(delivered') - 1
          PROVE  delivered'[i + 1] \in {delivered'[i], delivered'[i] + 1}
      <3>1. CASE i = Len(delivered)
        BY <1>5, <1>9, <1>10, <3>1
      <3>2. CASE i # Len(delivered)
        <4>1. i \in 1 .. Len(delivered) - 1 /\ i + 1 \in 1 .. Len(delivered)
          BY <1>5, <1>9, <3>2
        <4>2. delivered[i + 1] \in {delivered[i], delivered[i] + 1}
          BY <4>1 DEF DeliveredInOrder
        <4>3. QED
          BY <1>5, <4>1, <4>2
      <3>3. QED
        BY <3>1, <3>2
    <2>3. QED
      BY <2>1, <2>2 DEF DeliveredInOrder
  <1>12. Len(delivered) > 1 => delivered[Len(delivered) - 1] # actualHead
    <2>1. SUFFICES ASSUME Len(delivered) > 1
                   PROVE  delivered[Len(delivered) - 1] # actualHead
      OBVIOUS
    <2>2. /\ delivered[Len(delivered) - 1] \in Nodes
          /\ LastDelivered \in {delivered[Len(delivered) - 1], delivered[Len(delivered) - 1] + 1}
      BY <1>9, <2>1 DEF DeliveredInOrder
    <2>3. QED
      BY <1>3, <1>9, <2>1, <2>2 DEF DeliveryInv
  <1>13. DeliveredAtMostTwice'
    <2>1. ASSUME NEW i \in 1 .. Len(delivered') - 2
          PROVE  delivered'[i] # delivered'[i + 2]
      BY <1>5, <1>9, <1>12 DEF DeliveredAtMostTwice
    <2>2. QED
      BY <2>1 DEF DeliveredAtMostTwice
  <1>14. DeliveryInv'
    <2>1. Linking /\ actualHead = enqueuedIndex /\ Len(delivered) > 0
            => delivered[Len(delivered)] # actualHead
      BY <1>3, <1>9 DEF DeliveryInv
    <2>2. /\ Len(delivered') > 1 => Len(delivered) > 0
          /\ Len(delivered') > 1 => delivered'[Len(delivered') - 1] = delivered[Len(delivered)]
      BY <1>5, <1>9
    <2>3. actualHead' # NULL => actualHead' = LastDelivered' + 1
      BY <1>3, <1>4, <1>6
    <2>4. actualHead' = NULL =>
            LastDelivered' \in IF Linking' THEN {enqueuedIndex' - 1, enqueuedIndex'}
                                           ELSE {enqueuedIndex' - 1}
      BY <1>3, <1>4, <1>6 DEF LastLinked
    <2>5. Linking' /\ LastDelivered' = enqueuedIndex' /\ Len(delivered') > 1
            => delivered'[Len(delivered') - 1] # LastDelivered'
      BY <1>3, <1>6, <2>1, <2>2
    <2>6. QED
      BY <2>3, <2>4, <2>5 DEF DeliveryInv
  <1>15. QED
    BY <1>1, <1>2, <1>7, <1>8, <1>11, <1>13, <1>14

-----------------------------------------------------------------------------
(***************************************************************************)
(* The theorems.                                                           *)
(***************************************************************************)

LEMMA InitIInv == Init => IInv
  BY MaxOfNodesIsPositive DEF Init, IInv, TypeOK, EnqueuerInv, ReachableInv, DequeuerInv,
     DeliveryInv, DeliveredInOrder, DeliveredAtMostTwice, LastLinked, Linking, LastDelivered,
     Nodes, Pointers, NULL

LEMMA StepIInv == IInv /\ [Next]_vars => IInv'
  <1>1. IInv /\ UNCHANGED vars => IInv'
    BY DEF vars, enqVars, deqVars, IInv, TypeOK, EnqueuerInv, ReachableInv, DequeuerInv,
       DeliveryInv, DeliveredInOrder, DeliveredAtMostTwice, LastLinked, Linking, LastDelivered
  <1>2. QED
    BY <1>1, EnqueueFireStep, SweepStep, SweepTailStep, ClearNextStep, FirstNodeStep,
       LinkNodeStep, SetTailStep, EnqueueCasStep, DequeueFireStep, ReadHeadStep, TakeHeadStep
    DEF Next, Enqueue, Dequeue

\* The inductive invariant, with the types of the variables, holds throughout.
THEOREM QueueIInv == Spec => []IInv
  BY InitIInv, StepIInv, PTL DEF Spec

\* Every variable of the two queue processes keeps its type: each pointer is
\* a node of the shared array or NULL.
THEOREM QueueTypeOK == Spec => []TypeOK
  <1>1. IInv => TypeOK
    BY DEF IInv
  <1>2. QED
    BY <1>1, QueueIInv, PTL

\* The assertions of proctype monitor_invariant never fail.
THEOREM QueueMonitor == Spec => []MonitorInvariant
  <1>1. IInv => MonitorInvariant
    BY MaxOfNodesIsPositive DEF IInv, TypeOK, MonitorInvariant, EnqueuerInv, ReachableInv,
       LastLinked, Linking, Pointers, Nodes, NULL
  <1>2. QED
    BY <1>1, QueueIInv, PTL

\* Neither process indexes gNodes with NULL.
THEOREM QueueNodesAreIndexed == Spec => []NodesAreIndexed
  <1>1. IInv => NodesAreIndexed
    BY DEF IInv, TypeOK, NodesAreIndexed, EnqueuerInv, DequeuerInv, LastLinked, Linking,
       ReachableInv, Pointers, Nodes, NULL
  <1>2. QED
    BY <1>1, QueueIInv, PTL

\* Nodes come out in the order they went in, none skipped.
THEOREM QueueDeliversInOrder == Spec => []DeliveredInOrder
  <1>1. IInv => DeliveredInOrder
    BY DEF IInv
  <1>2. QED
    BY <1>1, QueueIInv, PTL

\* The race of the enqueuer's compare-and-swap repeats a node once at most.
THEOREM QueueDeliversAtMostTwice == Spec => []DeliveredAtMostTwice
  <1>1. IInv => DeliveredAtMostTwice
    BY DEF IInv
  <1>2. QED
    BY <1>1, QueueIInv, PTL

=============================================================================
