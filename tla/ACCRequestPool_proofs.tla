------------------------ MODULE ACCRequestPool_proofs ------------------------
(***************************************************************************)
(* For any number of threads and of requests: the pool conserves its       *)
(* requests, its list is the FIFO of free requests whenever the mutex is   *)
(* free, it faults only when it is empty, and it implements RequestFifo.   *)
(***************************************************************************)
EXTENDS ACCRequestPool, SequenceTheorems, TLAPS

(***************************************************************************)
(* The inductive invariant, in named parts.                                *)
(***************************************************************************)

\* A thread is inside the critical section exactly when it owns the mutex.
LockInv == \A t \in Threads : pc[t] \in LockedLabels <=> mutex = t

\* Past the NULL check that a dereference amounts to, `request' is a request.
NonNullInv ==
  \A t \in Threads :
    pc[t] \in {"unlockAfterDequeue", "lockForEnqueue", "link", "setTail",
               "unlockAfterEnqueue"} => request[t] \in Requests

\* What a thread knows of its `request' where the list is in between.
LocalInv ==
  \A t \in Threads :
    /\ pc[t] \in {"advance", "empty"} => request[t] \in Requests
    /\ pc[t] \in {"lockForEnqueue", "link"} =>
         next[request[t]] = NULL /\ request[t] \notin held[t]
    /\ pc[t] = "clear" /\ request[t] = NULL => free = << >>
    /\ pc[t] \in {"lockForEnqueue", "link"} => phase \in {"ready", "crashed"}

\* The count and the links are those of the FIFO at every step.
LinksInv ==
  /\ numofRequests = Len(free)
  /\ \A i \in 1 .. Len(free) - 1 : next[free[i]] = free[i + 1]
  /\ free # << >> => next[free[Len(free)]] = NULL

\* head lags behind between the unlink and the write of head.
HeadInv ==
  /\ (\A t \in Threads : pc[t] \notin {"advance", "empty"})
       => head = IF free = << >> THEN NULL ELSE free[1]
  /\ \A t \in Threads : pc[t] = "advance" => free # << >> /\ next[request[t]] = free[1]
  /\ \A t \in Threads : pc[t] = "empty" => free = << >>

\* tail lags behind between the link and the write of tail.
TailInv ==
  /\ (\A t \in Threads : pc[t] \notin {"setTail", "empty"})
       => tail = IF free = << >> THEN NULL ELSE free[Len(free)]
  /\ \A t \in Threads :
       pc[t] = "setTail" => free # << >> /\ free[Len(free)] = request[t]

\* Before the pool comes up nothing has happened; it dies empty, and the
\* loop of its finalization is never left.
PhaseInv ==
  /\ phase \in {"raw", "failed"} =>
       free = << >> /\ \A t \in Threads : pc[t] = "idle" /\ held[t] = {}
  /\ phase = "crashed" => free = << >>
  /\ phase # "finalized"

IInv ==
  /\ TypeOK
  /\ NonNullInv
  /\ LockInv
  /\ LocalInv
  /\ LinksInv
  /\ HeadInv
  /\ TailInv
  /\ PhaseInv
  /\ RequestsConserved

-----------------------------------------------------------------------------
(***************************************************************************)
(* Type correctness.                                                       *)
(***************************************************************************)

LEMMA InitTypeOK == Init => TypeOK /\ NonNullInv
  BY ConfigIsValid DEF Init, TypeOK, NonNullInv, Pointers, Requests, NULL, Labels

\* The FIFO of the array order is a sequence of requests.
LEMMA FullFree ==
  LET full == [i \in Requests |-> i]
  IN  /\ full \in Seq(Requests)
      /\ Len(full) = NumofConcurrentSend
      /\ \A i \in Requests : full[i] = i
  BY ConfigIsValid DEF Requests

LEMMA StepTypeOK == TypeOK /\ NonNullInv /\ [Next]_vars => TypeOK' /\ NonNullInv'
  <1> SUFFICES ASSUME TypeOK, NonNullInv, [Next]_vars
               PROVE  TypeOK' /\ NonNullInv'
    OBVIOUS
  <1> USE DEF TypeOK, NonNullInv, Pointers, Labels, LockedLabels, At, Goto
  <1>1. CASE Initialize
    <2>1. head' \in Pointers /\ tail' \in Pointers /\ numofRequests' \in Nat
      BY <1>1, ConfigIsValid DEF Initialize, Requests, NULL
    <2>2. next' \in [Requests -> Pointers]
      BY <1>1, ConfigIsValid DEF Initialize, Requests, NULL
    <2>3. free' \in Seq(Requests)
      BY <1>1, FullFree DEF Initialize
    <2>4. QED
      BY <1>1, <2>1, <2>2, <2>3 DEF Initialize
  <1>2. ASSUME NEW t \in Threads, BeginGet(t)
        PROVE  TypeOK' /\ NonNullInv'
    BY <1>2 DEF BeginGet
  <1>3. ASSUME NEW t \in Threads, NEW r \in Requests, BeginReturn(t, r)
        PROVE  TypeOK' /\ NonNullInv'
    BY <1>3 DEF BeginReturn, NULL
  <1>4. ASSUME NEW t \in Threads, BeginFinalize(t)
        PROVE  TypeOK' /\ NonNullInv'
    BY <1>4 DEF BeginFinalize
  <1>5. ASSUME NEW t \in Threads, LockForDequeue(t)
        PROVE  TypeOK' /\ NonNullInv'
    BY <1>5 DEF LockForDequeue
  <1>6. ASSUME NEW t \in Threads, DequeueCount(t)
        PROVE  TypeOK' /\ NonNullInv'
    <2>1. free' \in Seq(Requests)
      BY <1>6, HeadTailProperties DEF DequeueCount
    <2>2. QED
      BY <1>6, <2>1 DEF DequeueCount, NULL
  <1>7. ASSUME NEW t \in Threads, DequeueAdvance(t)
        PROVE  TypeOK' /\ NonNullInv'
    BY <1>7 DEF DequeueAdvance, NULL
  <1>8. ASSUME NEW t \in Threads, DequeueEmpty(t)
        PROVE  TypeOK' /\ NonNullInv'
    BY <1>8 DEF DequeueEmpty, NULL
  <1>9. ASSUME NEW t \in Threads, DequeueClear(t)
        PROVE  TypeOK' /\ NonNullInv'
    BY <1>9 DEF DequeueClear, NULL
  <1>10. ASSUME NEW t \in Threads, UnlockAfterDequeue(t)
         PROVE  TypeOK' /\ NonNullInv'
    BY <1>10 DEF UnlockAfterDequeue, NULL
  <1>11. ASSUME NEW t \in Threads, LockForEnqueue(t)
         PROVE  TypeOK' /\ NonNullInv'
    BY <1>11 DEF LockForEnqueue
  <1>12. ASSUME NEW t \in Threads, EnqueueLink(t)
         PROVE  TypeOK' /\ NonNullInv'
    <2>1. free' \in Seq(Requests) /\ request[t] \in Requests
      BY <1>12, AppendProperties DEF EnqueueLink
    <2>2. QED
      BY <1>12, <2>1 DEF EnqueueLink, NULL
  <1>13. ASSUME NEW t \in Threads, EnqueueTail(t)
         PROVE  TypeOK' /\ NonNullInv'
    BY <1>13 DEF EnqueueTail
  <1>14. ASSUME NEW t \in Threads, UnlockAfterEnqueue(t)
         PROVE  TypeOK' /\ NonNullInv'
    BY <1>14 DEF UnlockAfterEnqueue, NULL
  <1>15. CASE UNCHANGED vars
    BY <1>15 DEF vars
  <1>16. QED
    BY <1>1, <1>2, <1>3, <1>4, <1>5, <1>6, <1>7, <1>8, <1>9, <1>10, <1>11,
       <1>12, <1>13, <1>14, <1>15 DEF Next, Continue

THEOREM PoolTypeOK == Spec => []TypeOK
  BY InitTypeOK, StepTypeOK, PTL DEF Spec

-----------------------------------------------------------------------------
(***************************************************************************)
(* The inductive invariant, one lemma per action.                          *)
(***************************************************************************)

IPrime == LockInv' /\ LocalInv' /\ LinksInv' /\ HeadInv' /\ TailInv' /\ PhaseInv'
Conserved == FreeDistinct' /\ FreeNotLeased' /\ LeasesDisjoint' /\ NoneLost'

LEMMA BeginGetStep ==
  ASSUME IInv, TypeOK', NonNullInv', NEW t \in Threads, BeginGet(t)
  PROVE  IPrime /\ Conserved
  <1> USE DEF IInv, BeginGet, At, Goto, TypeOK, NonNullInv, LockedLabels
  <1>1. LockInv'
    BY NoThreadIsNoThread DEF LockInv
  <1>2. LocalInv'
    BY DEF LockInv, LocalInv, LinksInv, HeadInv, NULL, Pointers
  <1>3. LinksInv'
    BY DEF LockInv, LocalInv, LinksInv, TailInv, RequestsConserved, FreeDistinct, FreeNotLeased, LeasedBy, InFlight, InFlightLabels, NULL, Pointers
  <1>4. HeadInv'
    BY DEF LockInv, LocalInv, LinksInv, HeadInv, RequestsConserved, FreeNotLeased, LeasedBy, InFlight, InFlightLabels, NULL, Pointers
  <1>5. TailInv'
    BY DEF LockInv, LinksInv, TailInv, NULL, Pointers
  <1>6. PhaseInv'
    BY DEF PhaseInv, LocalInv, LinksInv, HeadInv, TailInv, LockInv, NULL, Pointers
  <1>7. FreeDistinct'
    BY DEF RequestsConserved, FreeDistinct, FreeNotLeased, LeasedBy, InFlight, InFlightLabels, NULL
  <1>8. FreeNotLeased'
    BY DEF RequestsConserved, FreeDistinct, FreeNotLeased, LeasesDisjoint, LeasedBy, InFlight, InFlightLabels, NULL, LocalInv, LinksInv, HeadInv, LockInv
  <1>9. LeasesDisjoint'
    BY DEF RequestsConserved, FreeNotLeased, LeasesDisjoint, LeasedBy, InFlight, InFlightLabels, NULL, LocalInv, LinksInv, HeadInv, LockInv
  <1>10. NoneLost'
    BY DEF RequestsConserved, NoneLost, LeasedBy, InFlight, InFlightLabels, NULL, LinksInv, HeadInv, LockInv, LocalInv
  <1>11. QED
    BY <1>1, <1>2, <1>3, <1>4, <1>5, <1>6, <1>7, <1>8, <1>9, <1>10 DEF IPrime, Conserved

LEMMA LockForDequeueStep ==
  ASSUME IInv, TypeOK', NonNullInv', NEW t \in Threads, LockForDequeue(t)
  PROVE  IPrime /\ Conserved
  <1> USE DEF IInv, LockForDequeue, At, Goto, TypeOK, NonNullInv, LockedLabels
  <1>1. LockInv'
    BY NoThreadIsNoThread DEF LockInv
  <1>2. LocalInv'
    BY DEF LockInv, LocalInv, LinksInv, HeadInv, NULL, Pointers
  <1>3. LinksInv'
    BY DEF LockInv, LocalInv, LinksInv, TailInv, RequestsConserved, FreeDistinct, FreeNotLeased, LeasedBy, InFlight, InFlightLabels, NULL, Pointers
  <1>4. HeadInv'
    BY DEF LockInv, LocalInv, LinksInv, HeadInv, RequestsConserved, FreeNotLeased, LeasedBy, InFlight, InFlightLabels, NULL, Pointers
  <1>5. TailInv'
    BY DEF LockInv, LinksInv, TailInv, NULL, Pointers
  <1>6. PhaseInv'
    BY DEF PhaseInv, LocalInv, LinksInv, HeadInv, TailInv, LockInv, NULL, Pointers
  <1>7. FreeDistinct'
    BY DEF RequestsConserved, FreeDistinct, FreeNotLeased, LeasedBy, InFlight, InFlightLabels, NULL
  <1>8. FreeNotLeased'
    BY DEF RequestsConserved, FreeDistinct, FreeNotLeased, LeasesDisjoint, LeasedBy, InFlight, InFlightLabels, NULL, LocalInv, LinksInv, HeadInv, LockInv
  <1>9. LeasesDisjoint'
    BY DEF RequestsConserved, FreeNotLeased, LeasesDisjoint, LeasedBy, InFlight, InFlightLabels, NULL, LocalInv, LinksInv, HeadInv, LockInv
  <1>10. NoneLost'
    BY DEF RequestsConserved, NoneLost, LeasedBy, InFlight, InFlightLabels, NULL, LinksInv, HeadInv, LockInv, LocalInv
  <1>11. QED
    BY <1>1, <1>2, <1>3, <1>4, <1>5, <1>6, <1>7, <1>8, <1>9, <1>10 DEF IPrime, Conserved

\* A sequence of one element is not the empty one.
LEMMA LenOneNotEmpty == \A s : Len(s) = 1 => s # << >>
  <1>1. Len(<< >>) # 1
    OBVIOUS
  <1>2. QED
    BY <1>1, Zenon

LEMMA DequeueCountStep ==
  ASSUME IInv, TypeOK', NonNullInv', NEW t \in Threads, DequeueCount(t)
  PROVE  IPrime /\ Conserved
  <1> USE DEF IInv, DequeueCount, At, Goto, TypeOK, NonNullInv, LockedLabels
  <1>1. LockInv'
    BY NoThreadIsNoThread DEF LockInv
  <1>2. LocalInv'
    BY DEF LockInv, LocalInv, LinksInv, HeadInv, NULL, Pointers
  <1>3. LinksInv'
    BY DEF LockInv, LocalInv, LinksInv, TailInv, RequestsConserved, FreeDistinct, FreeNotLeased, LeasedBy, InFlight, InFlightLabels, NULL, Pointers
  <1>4. HeadInv'
    <2>1. \A u \in Threads \ {t} : pc'[u] = pc[u] /\ pc[u] \notin {"advance", "empty"}
      BY DEF LockInv
    <2>2. head = IF free = << >> THEN NULL ELSE free[1]
      BY <2>1 DEF HeadInv
    <2>3. CASE numofRequests >= 2
      <3>1. free' # << >> /\ free'[1] = free[2] /\ next[free[1]] = free[2] /\ head = free[1]
        BY <2>2, <2>3 DEF LinksInv
      <3>2. QED
        <4>1. pc'[t] = "advance" /\ request'[t] = head /\ next' = next
          BY <2>3
        <4>2. QED
          BY <2>1, <3>1, <4>1 DEF HeadInv
    <2>4. CASE numofRequests = 1
      <3>1. pc'[t] = "empty"
        BY <2>4
      <3>2. free' \in Seq(Requests) /\ Len(free') = 0
        <4>1. Len(free) = 1
          BY <2>4 DEF LinksInv
        <4>2. free # << >>
          BY <4>1, LenOneNotEmpty
        <4>3. free' = Tail(free)
          BY <4>2
        <4>4. QED
          BY <4>1, <4>2, <4>3, HeadTailProperties
      <3>3. free' = << >>
        BY <3>2, EmptySeq
      <3>4. QED
        BY <2>1, <3>1, <3>3 DEF HeadInv
    <2>5. CASE numofRequests = 0
      <3>1. pc'[t] = "clear" /\ head' = head
        BY <2>5
      <3>2. free = << >> /\ free' = << >>
        BY <2>5, EmptySeq DEF LinksInv
      <3>3. QED
        BY <2>1, <2>2, <3>1, <3>2 DEF HeadInv
    <2>6. QED
      BY <2>3, <2>4, <2>5
  <1>5. TailInv'
    <2>1. \A u \in Threads : pc[u] \notin {"setTail", "empty"}
      BY DEF LockInv
    <2>2. tail = IF free = << >> THEN NULL ELSE free[Len(free)]
      BY <2>1 DEF TailInv
    <2>3. \A u \in Threads : pc'[u] # "setTail"
      BY <2>1
    <2>4. CASE numofRequests >= 2
      <3>1. free' # << >> /\ free'[Len(free')] = free[Len(free)]
        BY <2>4 DEF LinksInv
      <3>2. QED
        BY <2>2, <2>3, <2>4, <3>1 DEF TailInv, LinksInv
    <2>5. CASE numofRequests = 1
      BY <2>3, <2>5 DEF TailInv
    <2>6. CASE numofRequests = 0
      <3>1. free = << >> /\ free' = << >> /\ UNCHANGED tail
        BY <2>6, EmptySeq DEF LinksInv
      <3>2. QED
        BY <2>2, <2>3, <3>1 DEF TailInv
    <2>7. QED
      BY <2>4, <2>5, <2>6
  <1>6. PhaseInv'
    BY DEF PhaseInv, LocalInv, LinksInv, HeadInv, TailInv, LockInv, NULL, Pointers
  <1>7. FreeDistinct'
    BY DEF RequestsConserved, FreeDistinct, FreeNotLeased, LeasedBy, InFlight, InFlightLabels, NULL
  <1>8. FreeNotLeased'
    BY DEF RequestsConserved, FreeDistinct, FreeNotLeased, LeasesDisjoint, LeasedBy, InFlight, InFlightLabels, NULL, LocalInv, LinksInv, HeadInv, LockInv
  <1>9. LeasesDisjoint'
    BY DEF RequestsConserved, FreeNotLeased, LeasesDisjoint, LeasedBy, InFlight, InFlightLabels, NULL, LocalInv, LinksInv, HeadInv, LockInv
  <1>10. NoneLost'
    <2> SUFFICES ASSUME phase' = "ready", NEW r \in Requests
                 PROVE  \/ \E i \in 1 .. Len(free') : free'[i] = r
                        \/ \E u \in Threads : r \in LeasedBy(u)'
      BY DEF NoneLost
    <2>1. CASE \E u \in Threads : r \in LeasedBy(u)
      BY <2>1 DEF LeasedBy, InFlight, InFlightLabels
    <2>2. ASSUME NEW i \in 1 .. Len(free), free[i] = r
          PROVE  \/ \E j \in 1 .. Len(free') : free'[j] = r
                 \/ \E u \in Threads : r \in LeasedBy(u)'
      <3>1. CASE i = 1
        <4>1. head = r /\ free # << >>
          BY <2>2, <3>1 DEF HeadInv, LockInv
        <4>2. r \in InFlight(t)'
          BY <4>1 DEF LinksInv, InFlight, InFlightLabels, Requests, NULL
        <4>3. QED
          BY <4>2 DEF LeasedBy
      <3>2. CASE i # 1
        <4>1. i - 1 \in 1 .. Len(free') /\ free'[i - 1] = r
          BY <2>2, <3>2
        <4>2. QED
          BY <4>1
      <3>3. QED
        BY <3>1, <3>2
    <2>3. QED
      BY <2>1, <2>2 DEF RequestsConserved, NoneLost
  <1>11. QED
    BY <1>1, <1>2, <1>3, <1>4, <1>5, <1>6, <1>7, <1>8, <1>9, <1>10 DEF IPrime, Conserved

LEMMA DequeueAdvanceStep ==
  ASSUME IInv, TypeOK', NonNullInv', NEW t \in Threads, DequeueAdvance(t)
  PROVE  IPrime /\ Conserved
  <1> USE DEF IInv, DequeueAdvance, At, Goto, TypeOK, NonNullInv, LockedLabels
  <1>1. LockInv'
    BY NoThreadIsNoThread DEF LockInv
  <1>2. LocalInv'
    BY DEF LockInv, LocalInv, LinksInv, HeadInv, NULL, Pointers
  <1>3. LinksInv'
    BY DEF LockInv, LocalInv, LinksInv, TailInv, RequestsConserved, FreeDistinct, FreeNotLeased, LeasedBy, InFlight, InFlightLabels, NULL, Pointers
  <1>4. HeadInv'
    BY DEF LockInv, LocalInv, LinksInv, HeadInv, RequestsConserved, FreeNotLeased, LeasedBy, InFlight, InFlightLabels, NULL, Pointers
  <1>5. TailInv'
    BY DEF LockInv, LinksInv, TailInv, NULL, Pointers
  <1>6. PhaseInv'
    BY DEF PhaseInv, LocalInv, Requests, NULL
  <1>7. FreeDistinct'
    BY DEF RequestsConserved, FreeDistinct, FreeNotLeased, LeasedBy, InFlight, InFlightLabels, NULL
  <1>8. FreeNotLeased'
    BY DEF RequestsConserved, FreeDistinct, FreeNotLeased, LeasesDisjoint, LeasedBy, InFlight, InFlightLabels, NULL, LocalInv, LinksInv, HeadInv, LockInv
  <1>9. LeasesDisjoint'
    BY DEF RequestsConserved, FreeNotLeased, LeasesDisjoint, LeasedBy, InFlight, InFlightLabels, NULL, LocalInv, LinksInv, HeadInv, LockInv
  <1>10. NoneLost'
    BY DEF RequestsConserved, NoneLost, LeasedBy, InFlight, InFlightLabels, NULL, LinksInv, HeadInv, LockInv, LocalInv
  <1>11. QED
    BY <1>1, <1>2, <1>3, <1>4, <1>5, <1>6, <1>7, <1>8, <1>9, <1>10 DEF IPrime, Conserved

LEMMA DequeueEmptyStep ==
  ASSUME IInv, TypeOK', NonNullInv', NEW t \in Threads, DequeueEmpty(t)
  PROVE  IPrime /\ Conserved
  <1> USE DEF IInv, DequeueEmpty, At, Goto, TypeOK, NonNullInv, LockedLabels
  <1>1. LockInv'
    BY NoThreadIsNoThread DEF LockInv
  <1>2. LocalInv'
    BY DEF LockInv, LocalInv, LinksInv, HeadInv, NULL, Pointers
  <1>3. LinksInv'
    BY DEF LockInv, LocalInv, LinksInv, TailInv, RequestsConserved, FreeDistinct, FreeNotLeased, LeasedBy, InFlight, InFlightLabels, NULL, Pointers
  <1>4. HeadInv'
    BY DEF LockInv, LocalInv, LinksInv, HeadInv, RequestsConserved, FreeNotLeased, LeasedBy, InFlight, InFlightLabels, NULL, Pointers
  <1>5. TailInv'
    BY DEF LockInv, HeadInv, TailInv, NULL
  <1>6. PhaseInv'
    BY DEF PhaseInv, LocalInv, LinksInv, HeadInv, TailInv, LockInv, NULL, Pointers
  <1>7. FreeDistinct'
    BY DEF RequestsConserved, FreeDistinct, FreeNotLeased, LeasedBy, InFlight, InFlightLabels, NULL
  <1>8. FreeNotLeased'
    BY DEF RequestsConserved, FreeDistinct, FreeNotLeased, LeasesDisjoint, LeasedBy, InFlight, InFlightLabels, NULL, LocalInv, LinksInv, HeadInv, LockInv
  <1>9. LeasesDisjoint'
    BY DEF RequestsConserved, FreeNotLeased, LeasesDisjoint, LeasedBy, InFlight, InFlightLabels, NULL, LocalInv, LinksInv, HeadInv, LockInv
  <1>10. NoneLost'
    BY DEF RequestsConserved, NoneLost, LeasedBy, InFlight, InFlightLabels, NULL, LinksInv, HeadInv, LockInv, LocalInv
  <1>11. QED
    BY <1>1, <1>2, <1>3, <1>4, <1>5, <1>6, <1>7, <1>8, <1>9, <1>10 DEF IPrime, Conserved

LEMMA DequeueClearStep ==
  ASSUME IInv, TypeOK', NonNullInv', NEW t \in Threads, DequeueClear(t)
  PROVE  IPrime /\ Conserved
  <1> USE DEF IInv, DequeueClear, At, Goto, TypeOK, NonNullInv, LockedLabels
  <1>1. LockInv'
    BY NoThreadIsNoThread DEF LockInv
  <1>2. LocalInv'
    BY DEF LockInv, LocalInv, LinksInv, HeadInv, NULL, Pointers
  <1>3. LinksInv'
    BY DEF LockInv, LocalInv, LinksInv, TailInv, RequestsConserved, FreeDistinct, FreeNotLeased, LeasedBy, InFlight, InFlightLabels, NULL, Pointers
  <1>4. HeadInv'
    BY DEF LockInv, LocalInv, LinksInv, HeadInv, RequestsConserved, FreeNotLeased, LeasedBy, InFlight, InFlightLabels, NULL, Pointers
  <1>5. TailInv'
    BY DEF LockInv, LinksInv, TailInv, NULL, Pointers
  <1>6. PhaseInv'
    BY DEF PhaseInv, LocalInv, LinksInv, HeadInv, TailInv, LockInv, NULL, Pointers
  <1>7. FreeDistinct'
    BY DEF RequestsConserved, FreeDistinct, FreeNotLeased, LeasedBy, InFlight, InFlightLabels, NULL
  <1>8. FreeNotLeased'
    BY DEF RequestsConserved, FreeDistinct, FreeNotLeased, LeasesDisjoint, LeasedBy, InFlight, InFlightLabels, NULL, LocalInv, LinksInv, HeadInv, LockInv
  <1>9. LeasesDisjoint'
    BY DEF RequestsConserved, FreeNotLeased, LeasesDisjoint, LeasedBy, InFlight, InFlightLabels, NULL, LocalInv, LinksInv, HeadInv, LockInv
  <1>10. NoneLost'
    BY DEF RequestsConserved, NoneLost, LeasedBy, InFlight, InFlightLabels, NULL, LinksInv, HeadInv, LockInv, LocalInv
  <1>11. QED
    BY <1>1, <1>2, <1>3, <1>4, <1>5, <1>6, <1>7, <1>8, <1>9, <1>10 DEF IPrime, Conserved

LEMMA UnlockAfterDequeueStep ==
  ASSUME IInv, TypeOK', NonNullInv', NEW t \in Threads, UnlockAfterDequeue(t)
  PROVE  IPrime /\ Conserved
  <1> USE DEF IInv, UnlockAfterDequeue, At, Goto, TypeOK, NonNullInv, LockedLabels
  <1>1. LockInv'
    BY NoThreadIsNoThread DEF LockInv
  <1>2. LocalInv'
    BY DEF LockInv, LocalInv, LinksInv, HeadInv, NULL, Pointers
  <1>3. LinksInv'
    BY DEF LockInv, LocalInv, LinksInv, TailInv, RequestsConserved, FreeDistinct, FreeNotLeased, LeasedBy, InFlight, InFlightLabels, NULL, Pointers
  <1>4. HeadInv'
    BY DEF LockInv, LocalInv, LinksInv, HeadInv, RequestsConserved, FreeNotLeased, LeasedBy, InFlight, InFlightLabels, NULL, Pointers
  <1>5. TailInv'
    BY DEF LockInv, LinksInv, TailInv, NULL, Pointers
  <1>6. PhaseInv'
    <2>1. request[t] \in Requests
      OBVIOUS
    <2>2. phase' = phase
      BY <2>1 DEF Requests, NULL
    <2>3. phase \notin {"raw", "failed"}
      BY DEF PhaseInv
    <2>4. QED
      BY <2>2, <2>3 DEF PhaseInv
  <1>7. FreeDistinct'
    BY DEF RequestsConserved, FreeDistinct, FreeNotLeased, LeasedBy, InFlight, InFlightLabels, NULL
  <1>8. FreeNotLeased'
    <2>1. \A u \in Threads : LeasedBy(u)' \subseteq LeasedBy(u)
      BY DEF LeasedBy, InFlight, InFlightLabels, Requests, NULL
    <2>2. QED
      BY <2>1 DEF RequestsConserved, FreeNotLeased
  <1>9. LeasesDisjoint'
    <2>1. \A u \in Threads : LeasedBy(u)' \subseteq LeasedBy(u)
      BY DEF LeasedBy, InFlight, InFlightLabels, Requests, NULL
    <2>2. QED
      BY <2>1 DEF RequestsConserved, LeasesDisjoint
  <1>10. NoneLost'
    BY DEF RequestsConserved, NoneLost, LeasedBy, InFlight, InFlightLabels, NULL, LinksInv, HeadInv, LockInv, LocalInv
  <1>11. QED
    BY <1>1, <1>2, <1>3, <1>4, <1>5, <1>6, <1>7, <1>8, <1>9, <1>10 DEF IPrime, Conserved

LEMMA BeginFinalizeStep ==
  ASSUME IInv, TypeOK', NonNullInv', NEW t \in Threads, BeginFinalize(t)
  PROVE  IPrime /\ Conserved
  <1> USE DEF IInv, BeginFinalize, At, Goto, TypeOK, NonNullInv, LockedLabels
  <1>1. LockInv'
    BY NoThreadIsNoThread DEF LockInv
  <1>2. LocalInv'
    BY DEF LockInv, LocalInv, LinksInv, HeadInv, NULL, Pointers
  <1>3. LinksInv'
    BY DEF LockInv, LocalInv, LinksInv, TailInv, RequestsConserved, FreeDistinct, FreeNotLeased, LeasedBy, InFlight, InFlightLabels, NULL, Pointers
  <1>4. HeadInv'
    BY DEF LockInv, LocalInv, LinksInv, HeadInv, RequestsConserved, FreeNotLeased, LeasedBy, InFlight, InFlightLabels, NULL, Pointers
  <1>5. TailInv'
    BY DEF LockInv, LinksInv, TailInv, NULL, Pointers
  <1>6. PhaseInv'
    BY DEF PhaseInv, LocalInv, LinksInv, HeadInv, TailInv, LockInv, NULL, Pointers
  <1>7. FreeDistinct'
    BY DEF RequestsConserved, FreeDistinct, FreeNotLeased, LeasedBy, InFlight, InFlightLabels, NULL
  <1>8. FreeNotLeased'
    BY DEF RequestsConserved, FreeDistinct, FreeNotLeased, LeasesDisjoint, LeasedBy, InFlight, InFlightLabels, NULL, LocalInv, LinksInv, HeadInv, LockInv
  <1>9. LeasesDisjoint'
    BY DEF RequestsConserved, FreeNotLeased, LeasesDisjoint, LeasedBy, InFlight, InFlightLabels, NULL, LocalInv, LinksInv, HeadInv, LockInv
  <1>10. NoneLost'
    BY DEF RequestsConserved, NoneLost, LeasedBy, InFlight, InFlightLabels, NULL, LinksInv, HeadInv, LockInv, LocalInv
  <1>11. QED
    BY <1>1, <1>2, <1>3, <1>4, <1>5, <1>6, <1>7, <1>8, <1>9, <1>10 DEF IPrime, Conserved

LEMMA LockForEnqueueStep ==
  ASSUME IInv, TypeOK', NonNullInv', NEW t \in Threads, LockForEnqueue(t)
  PROVE  IPrime /\ Conserved
  <1> USE DEF IInv, LockForEnqueue, At, Goto, TypeOK, NonNullInv, LockedLabels
  <1>1. LockInv'
    BY NoThreadIsNoThread DEF LockInv
  <1>2. LocalInv'
    BY DEF LockInv, LocalInv, LinksInv, HeadInv, NULL, Pointers
  <1>3. LinksInv'
    BY DEF LockInv, LocalInv, LinksInv, TailInv, RequestsConserved, FreeDistinct, FreeNotLeased, LeasedBy, InFlight, InFlightLabels, NULL, Pointers
  <1>4. HeadInv'
    BY DEF LockInv, LocalInv, LinksInv, HeadInv, RequestsConserved, FreeNotLeased, LeasedBy, InFlight, InFlightLabels, NULL, Pointers
  <1>5. TailInv'
    BY DEF LockInv, LinksInv, TailInv, NULL, Pointers
  <1>6. PhaseInv'
    BY DEF PhaseInv, LocalInv, LinksInv, HeadInv, TailInv, LockInv, NULL, Pointers
  <1>7. FreeDistinct'
    BY DEF RequestsConserved, FreeDistinct, FreeNotLeased, LeasedBy, InFlight, InFlightLabels, NULL
  <1>8. FreeNotLeased'
    BY DEF RequestsConserved, FreeDistinct, FreeNotLeased, LeasesDisjoint, LeasedBy, InFlight, InFlightLabels, NULL, LocalInv, LinksInv, HeadInv, LockInv
  <1>9. LeasesDisjoint'
    <2>1. \A u \in Threads : LeasedBy(u)' = LeasedBy(u)
      BY DEF LeasedBy, InFlight, InFlightLabels
    <2>2. QED
      BY <2>1 DEF RequestsConserved, LeasesDisjoint
  <1>10. NoneLost'
    BY DEF RequestsConserved, NoneLost, LeasedBy, InFlight, InFlightLabels, NULL, LinksInv, HeadInv, LockInv, LocalInv
  <1>11. QED
    BY <1>1, <1>2, <1>3, <1>4, <1>5, <1>6, <1>7, <1>8, <1>9, <1>10 DEF IPrime, Conserved

\* The NULL check that tail->next amounts to never fails.
LEMMA LinkTail ==
  ASSUME IInv, NEW t \in Threads, pc[t] = "link", numofRequests # 0
  PROVE  /\ tail = free[Len(free)] /\ Len(free) \in 1 .. Len(free)
         /\ tail # NULL /\ tail \in Requests
  <1>1. \A u \in Threads : pc[u] \notin {"setTail", "empty"}
    BY DEF IInv, LockInv, LockedLabels
  <1>2. tail = IF free = << >> THEN NULL ELSE free[Len(free)]
    BY <1>1 DEF IInv, TailInv
  <1>3. free # << >> /\ Len(free) \in 1 .. Len(free)
    BY EmptySeq DEF IInv, LinksInv, TypeOK
  <1>4. free[Len(free)] \in Requests
    BY <1>3, ElementOfSeq DEF IInv, TypeOK
  <1>5. QED
    BY <1>2, <1>3, <1>4 DEF Requests, NULL

LEMMA EnqueueLinkStep ==
  ASSUME IInv, TypeOK', NonNullInv', NEW t \in Threads, EnqueueLink(t)
  PROVE  IPrime /\ Conserved
  <1> USE DEF IInv, EnqueueLink, At, Goto, TypeOK, NonNullInv, LockedLabels
  <1>1. LockInv'
    BY NoThreadIsNoThread DEF LockInv
  <1>2. LocalInv'
    <2>1. \A u \in Threads \ {t} : pc'[u] \notin LockedLabels /\ pc'[u] = pc[u]
      BY DEF LockInv
    <2>2. numofRequests # 0 => tail = free[Len(free)] /\ Len(free) \in 1 .. Len(free)
      BY LinkTail DEF IInv
    <2>3. ASSUME NEW u \in Threads \ {t}, pc'[u] = "lockForEnqueue"
          PROVE  next'[request'[u]] = NULL
      <3>1. request[u] \in LeasedBy(u)
        BY <2>1, <2>3 DEF LeasedBy, InFlight, InFlightLabels, Requests, NULL
      <3>2. numofRequests # 0 => request[u] # tail
        BY <2>2, <3>1 DEF RequestsConserved, FreeNotLeased
      <3>3. QED
        BY <2>1, <2>3, <3>2 DEF LocalInv
    <2>4. QED
      BY <2>1, <2>3 DEF LocalInv
  <1>3. LinksInv'
    <2>1. numofRequests # 0 =>
            /\ tail = free[Len(free)] /\ Len(free) \in 1 .. Len(free)
            /\ tail # NULL /\ tail \in Requests
      BY LinkTail DEF IInv
    <2>2. request[t] \in LeasedBy(t) /\ next[request[t]] = NULL
      BY DEF LeasedBy, InFlight, InFlightLabels, LocalInv, Requests, NULL
    <2>3. \A i \in 1 .. Len(free) : free[i] # request[t]
      BY <2>2 DEF RequestsConserved, FreeNotLeased
    <2>4. /\ Len(free') = Len(free) + 1
          /\ free'[Len(free) + 1] = request[t]
          /\ \A i \in 1 .. Len(free) : free'[i] = free[i]
      BY AppendProperties
    <2>5. next'[request[t]] = NULL
      BY <2>1, <2>2, <2>3
    <2>6. ASSUME NEW i \in 1 .. Len(free') - 1
          PROVE  next'[free'[i]] = free'[i + 1]
      <3>1. i \in 1 .. Len(free) /\ free'[i] = free[i] /\ free[i] \in Requests
            /\ numofRequests # 0
        BY <2>4 DEF LinksInv
      <3>2. CASE i = Len(free)
        BY <2>1, <2>4, <3>1, <3>2
      <3>3. CASE i # Len(free)
        <4>1. free[i] # tail
          BY <2>1, <3>1, <3>3 DEF RequestsConserved, FreeDistinct
        <4>2. next'[free[i]] = next[free[i]]
          BY <2>1, <3>1, <4>1
        <4>3. i \in 1 .. Len(free) - 1 /\ i + 1 \in 1 .. Len(free)
          BY <3>1, <3>3
        <4>4. next[free[i]] = free[i + 1] /\ free'[i + 1] = free[i + 1]
          BY <2>4, <4>3 DEF LinksInv
        <4>5. QED
          BY <3>1, <4>2, <4>4
      <3>4. QED
        BY <3>2, <3>3
    <2>7. numofRequests' = Len(free')
      BY <2>4 DEF LinksInv
    <2>8. free' # << >> => next'[free'[Len(free')]] = NULL
      BY <2>4, <2>5
    <2>9. QED
      BY <2>6, <2>7, <2>8 DEF LinksInv
  <1>4. HeadInv'
    BY DEF LockInv, LocalInv, LinksInv, HeadInv, RequestsConserved, FreeNotLeased, LeasedBy, InFlight, InFlightLabels, NULL, Pointers
  <1>5. TailInv'
    BY DEF LockInv, LinksInv, TailInv, NULL, Pointers
  <1>6. PhaseInv'
    <2>1. numofRequests # 0 => tail # NULL
      BY LinkTail DEF IInv
    <2>2. phase' = phase /\ phase \notin {"raw", "crashed"}
      BY <2>1 DEF PhaseInv
    <2>3. phase # "failed"
      BY DEF PhaseInv
    <2>4. QED
      BY <2>2, <2>3 DEF PhaseInv
  <1>7. FreeDistinct'
    <2>1. request[t] \in LeasedBy(t)
      BY DEF LeasedBy, InFlight, InFlightLabels, Requests, NULL
    <2>2. \A i \in 1 .. Len(free) : free[i] # request[t]
      BY <2>1 DEF RequestsConserved, FreeNotLeased
    <2>3. QED
      BY <2>2 DEF RequestsConserved, FreeDistinct
  <1>8. FreeNotLeased'
    <2>1. request[t] \in LeasedBy(t)
      BY DEF LeasedBy, InFlight, InFlightLabels, Requests, NULL
    <2>2. \A u \in Threads : LeasedBy(u)' \subseteq LeasedBy(u)
      BY DEF LeasedBy, InFlight, InFlightLabels
    <2>3. LeasedBy(t)' = held[t] /\ request[t] \notin held[t]
      BY DEF LeasedBy, InFlight, InFlightLabels, LocalInv
    <2>4. ASSUME NEW u \in Threads
          PROVE  request[t] \notin LeasedBy(u)'
      BY <2>1, <2>2, <2>3 DEF RequestsConserved, LeasesDisjoint
    <2>5. QED
      BY <2>2, <2>4 DEF RequestsConserved, FreeNotLeased
  <1>9. LeasesDisjoint'
    BY DEF RequestsConserved, FreeNotLeased, LeasesDisjoint, LeasedBy, InFlight, InFlightLabels, NULL, LocalInv, LinksInv, HeadInv, LockInv
  <1>10. NoneLost'
    BY DEF RequestsConserved, NoneLost, LeasedBy, InFlight, InFlightLabels, NULL, LinksInv, HeadInv, LockInv, LocalInv
  <1>11. QED
    BY <1>1, <1>2, <1>3, <1>4, <1>5, <1>6, <1>7, <1>8, <1>9, <1>10 DEF IPrime, Conserved

LEMMA EnqueueTailStep ==
  ASSUME IInv, TypeOK', NonNullInv', NEW t \in Threads, EnqueueTail(t)
  PROVE  IPrime /\ Conserved
  <1> USE DEF IInv, EnqueueTail, At, Goto, TypeOK, NonNullInv, LockedLabels
  <1>1. LockInv'
    BY NoThreadIsNoThread DEF LockInv
  <1>2. LocalInv'
    BY DEF LockInv, LocalInv, LinksInv, HeadInv, NULL, Pointers
  <1>3. LinksInv'
    BY DEF LockInv, LocalInv, LinksInv, TailInv, RequestsConserved, FreeDistinct, FreeNotLeased, LeasedBy, InFlight, InFlightLabels, NULL, Pointers
  <1>4. HeadInv'
    BY DEF LockInv, LocalInv, LinksInv, HeadInv, RequestsConserved, FreeNotLeased, LeasedBy, InFlight, InFlightLabels, NULL, Pointers
  <1>5. TailInv'
    BY DEF LockInv, LinksInv, TailInv, NULL, Pointers
  <1>6. PhaseInv'
    BY DEF PhaseInv, LocalInv, LinksInv, HeadInv, TailInv, LockInv, NULL, Pointers
  <1>7. FreeDistinct'
    BY DEF RequestsConserved, FreeDistinct, FreeNotLeased, LeasedBy, InFlight, InFlightLabels, NULL
  <1>8. FreeNotLeased'
    BY DEF RequestsConserved, FreeDistinct, FreeNotLeased, LeasesDisjoint, LeasedBy, InFlight, InFlightLabels, NULL, LocalInv, LinksInv, HeadInv, LockInv
  <1>9. LeasesDisjoint'
    BY DEF RequestsConserved, FreeNotLeased, LeasesDisjoint, LeasedBy, InFlight, InFlightLabels, NULL, LocalInv, LinksInv, HeadInv, LockInv
  <1>10. NoneLost'
    BY DEF RequestsConserved, NoneLost, LeasedBy, InFlight, InFlightLabels, NULL, LinksInv, HeadInv, LockInv, LocalInv
  <1>11. QED
    BY <1>1, <1>2, <1>3, <1>4, <1>5, <1>6, <1>7, <1>8, <1>9, <1>10 DEF IPrime, Conserved

LEMMA UnlockAfterEnqueueStep ==
  ASSUME IInv, TypeOK', NonNullInv', NEW t \in Threads, UnlockAfterEnqueue(t)
  PROVE  IPrime /\ Conserved
  <1> USE DEF IInv, UnlockAfterEnqueue, At, Goto, TypeOK, NonNullInv, LockedLabels
  <1>1. LockInv'
    BY NoThreadIsNoThread DEF LockInv
  <1>2. LocalInv'
    BY DEF LockInv, LocalInv, LinksInv, HeadInv, NULL, Pointers
  <1>3. LinksInv'
    BY DEF LockInv, LocalInv, LinksInv, TailInv, RequestsConserved, FreeDistinct, FreeNotLeased, LeasedBy, InFlight, InFlightLabels, NULL, Pointers
  <1>4. HeadInv'
    BY DEF LockInv, LocalInv, LinksInv, HeadInv, RequestsConserved, FreeNotLeased, LeasedBy, InFlight, InFlightLabels, NULL, Pointers
  <1>5. TailInv'
    BY DEF LockInv, LinksInv, TailInv, NULL, Pointers
  <1>6. PhaseInv'
    BY DEF PhaseInv, LocalInv, LinksInv, HeadInv, TailInv, LockInv, NULL, Pointers
  <1>7. FreeDistinct'
    BY DEF RequestsConserved, FreeDistinct, FreeNotLeased, LeasedBy, InFlight, InFlightLabels, NULL
  <1>8. FreeNotLeased'
    BY DEF RequestsConserved, FreeDistinct, FreeNotLeased, LeasesDisjoint, LeasedBy, InFlight, InFlightLabels, NULL, LocalInv, LinksInv, HeadInv, LockInv
  <1>9. LeasesDisjoint'
    BY DEF RequestsConserved, FreeNotLeased, LeasesDisjoint, LeasedBy, InFlight, InFlightLabels, NULL, LocalInv, LinksInv, HeadInv, LockInv
  <1>10. NoneLost'
    BY DEF RequestsConserved, NoneLost, LeasedBy, InFlight, InFlightLabels, NULL, LinksInv, HeadInv, LockInv, LocalInv
  <1>11. QED
    BY <1>1, <1>2, <1>3, <1>4, <1>5, <1>6, <1>7, <1>8, <1>9, <1>10 DEF IPrime, Conserved

LEMMA BeginReturnStep ==
  ASSUME IInv, TypeOK', NonNullInv', NEW t \in Threads, NEW r \in Requests, BeginReturn(t, r)
  PROVE  IPrime /\ Conserved
  <1> USE DEF IInv, BeginReturn, At, Goto, TypeOK, NonNullInv, LockedLabels
  <1>1. LockInv'
    BY NoThreadIsNoThread DEF LockInv
  <1>2. LocalInv'
    BY DEF LockInv, LocalInv, LinksInv, HeadInv, NULL, Pointers
  <1>3. LinksInv'
    BY DEF LockInv, LocalInv, LinksInv, TailInv, RequestsConserved, FreeDistinct, FreeNotLeased, LeasedBy, InFlight, InFlightLabels, NULL, Pointers
  <1>4. HeadInv'
    <2>1. ASSUME NEW u \in Threads, pc'[u] = "advance"
          PROVE  next'[request'[u]] = free'[1]
      <3>1. u # t /\ pc[u] = "advance"
        BY <2>1
      <3>2. request[u] \in LeasedBy(u) /\ r \in LeasedBy(t)
        BY <3>1 DEF LocalInv, LeasedBy, InFlight, InFlightLabels, Requests, NULL
      <3>3. request[u] # r
        BY <3>1, <3>2 DEF RequestsConserved, LeasesDisjoint
      <3>4. QED
        BY <3>1, <3>3 DEF HeadInv
    <2>2. QED
      BY <2>1 DEF HeadInv
  <1>5. TailInv'
    BY DEF LockInv, LinksInv, TailInv, NULL, Pointers
  <1>6. PhaseInv'
    BY DEF PhaseInv, LocalInv, LinksInv, HeadInv, TailInv, LockInv, NULL, Pointers
  <1>7. FreeDistinct'
    BY DEF RequestsConserved, FreeDistinct, FreeNotLeased, LeasedBy, InFlight, InFlightLabels, NULL
  <1>8. FreeNotLeased'
    BY DEF RequestsConserved, FreeDistinct, FreeNotLeased, LeasesDisjoint, LeasedBy, InFlight, InFlightLabels, NULL, LocalInv, LinksInv, HeadInv, LockInv
  <1>9. LeasesDisjoint'
    BY DEF RequestsConserved, FreeNotLeased, LeasesDisjoint, LeasedBy, InFlight, InFlightLabels, NULL, LocalInv, LinksInv, HeadInv, LockInv
  <1>10. NoneLost'
    <2>1. \A u \in Threads : LeasedBy(u) \subseteq LeasedBy(u)'
      BY DEF LeasedBy, InFlight, InFlightLabels, Requests, NULL
    <2>2. QED
      BY <2>1 DEF RequestsConserved, NoneLost
  <1>11. QED
    BY <1>1, <1>2, <1>3, <1>4, <1>5, <1>6, <1>7, <1>8, <1>9, <1>10 DEF IPrime, Conserved

LEMMA InitializeStep ==
  ASSUME IInv, TypeOK', NonNullInv', Initialize
  PROVE  IPrime /\ Conserved
  <1> USE DEF IInv, Initialize, TypeOK
  <1>1. /\ \A t \in Threads : pc[t] = "idle" /\ held[t] = {} 
        /\ \A t \in Threads : LeasedBy(t)' = {}
        /\ free = << >>
    BY DEF PhaseInv, LeasedBy, InFlight, InFlightLabels
  <1>2. LockInv' /\ LocalInv' /\ PhaseInv'
    BY <1>1 DEF LockInv, LockedLabels, LocalInv, PhaseInv
  <1>3. CASE phase' = "failed"
    BY <1>1, <1>2, <1>3 DEF LinksInv, HeadInv, TailInv, RequestsConserved,
       FreeDistinct, FreeNotLeased, LeasesDisjoint, NoneLost, IPrime, Conserved
  <1>4. CASE phase' = "ready"
    <2>1. /\ Len(free') = NumofConcurrentSend
          /\ \A i \in 1 .. NumofConcurrentSend : free'[i] = i
          /\ free' # << >>
      BY <1>4, FullFree, ConfigIsValid DEF Requests
    <2>2. LinksInv'
      BY <1>4, <2>1, ConfigIsValid DEF LinksInv, Requests, NULL
    <2>3. HeadInv' /\ TailInv'
      BY <1>1, <1>4, <2>1, ConfigIsValid DEF HeadInv, TailInv
    <2>4. FreeDistinct' /\ FreeNotLeased' /\ LeasesDisjoint'
      BY <1>1, <2>1 DEF FreeDistinct, FreeNotLeased, LeasesDisjoint
    <2>5. NoneLost'
      BY <2>1 DEF NoneLost, Requests
    <2>6. QED
      BY <1>2, <2>2, <2>3, <2>4, <2>5 DEF IPrime, Conserved
  <1>5. QED
    BY <1>3, <1>4

-----------------------------------------------------------------------------
(***************************************************************************)
(* The theorems.                                                           *)
(***************************************************************************)

LEMMA InitIInv == Init => IInv
  <1> SUFFICES ASSUME Init
               PROVE  IInv
    OBVIOUS
  <1>1. TypeOK /\ NonNullInv
    BY InitTypeOK
  <1>2. free = << >> /\ Len(free) = 0 /\ \A t \in Threads : LeasedBy(t) = {}
    BY DEF Init, LeasedBy, InFlight, InFlightLabels
  <1>3. LockInv /\ LocalInv /\ PhaseInv
    BY NoThreadIsNoThread DEF Init, LockInv, LockedLabels, LocalInv, PhaseInv
  <1>4. LinksInv /\ HeadInv /\ TailInv
    BY <1>2 DEF Init, LinksInv, HeadInv, TailInv
  <1>5. RequestsConserved
    BY <1>2 DEF Init, RequestsConserved, FreeDistinct, FreeNotLeased, LeasesDisjoint, NoneLost
  <1>6. QED
    BY <1>1, <1>3, <1>4, <1>5 DEF IInv

LEMMA StepIInv == IInv /\ [Next]_vars => IInv'
  <1> SUFFICES ASSUME IInv, [Next]_vars
               PROVE  IInv'
    OBVIOUS
  <1>1. TypeOK' /\ NonNullInv'
    BY StepTypeOK DEF IInv
  <1>2. CASE UNCHANGED vars
    BY <1>2 DEF vars, IInv, TypeOK, NonNullInv, LockInv, LocalInv, LinksInv, HeadInv,
       TailInv, PhaseInv, RequestsConserved, FreeDistinct, FreeNotLeased,
       LeasesDisjoint, NoneLost, LeasedBy, InFlight
  <1>3. CASE Next
    <2>1. IPrime /\ Conserved
      BY <1>1, <1>3, InitializeStep, BeginGetStep, LockForDequeueStep,
         DequeueCountStep, DequeueAdvanceStep, DequeueEmptyStep, DequeueClearStep,
         UnlockAfterDequeueStep, BeginFinalizeStep, LockForEnqueueStep,
         EnqueueLinkStep, EnqueueTailStep, UnlockAfterEnqueueStep, BeginReturnStep
      DEF Next, Continue
    <2>2. QED
      BY <1>1, <2>1 DEF IPrime, Conserved, IInv, RequestsConserved
  <1>4. QED
    BY <1>2, <1>3

\* The inductive invariant holds in every reachable state.
THEOREM PoolIInv == Spec => []IInv
  BY InitIInv, StepIInv, PTL DEF Spec

\* Whatever the threads interleave, no request is in two hands and none is
\* lost before the pool is finalized.
THEOREM PoolConservesRequests == Spec => []RequestsConserved
  <1>1. IInv => RequestsConserved
    BY DEF IInv
  <1>2. QED
    BY <1>1, PoolIInv, PTL

\* Between critical sections the linked list is exactly the FIFO.
THEOREM PoolListIsFree == Spec => []ListIsFree
  <1>1. IInv => ListIsFree
    <2> SUFFICES ASSUME IInv, mutex = NoThread
                 PROVE  /\ numofRequests = Len(free)
                        /\ head = IF free = << >> THEN NULL ELSE free[1]
                        /\ tail = IF free = << >> THEN NULL ELSE free[Len(free)]
                        /\ \A i \in 1 .. Len(free) :
                             next[free[i]] = IF i = Len(free) THEN NULL ELSE free[i + 1]
      BY DEF ListIsFree
    <2>1. \A t \in Threads : pc[t] \notin LockedLabels
      BY NoThreadIsNoThread DEF IInv, LockInv
    <2>2. /\ head = IF free = << >> THEN NULL ELSE free[1]
          /\ tail = IF free = << >> THEN NULL ELSE free[Len(free)]
      BY <2>1 DEF IInv, HeadInv, TailInv, LockedLabels
    <2>3. \A i \in 1 .. Len(free) :
            next[free[i]] = IF i = Len(free) THEN NULL ELSE free[i + 1]
      BY DEF IInv, LinksInv, TypeOK
    <2>4. QED
      BY <2>2, <2>3 DEF IInv, LinksInv
  <1>2. QED
    BY <1>1, PoolIInv, PTL

\* No interleaving makes a thread follow a NULL head, tail or link: only a
\* dequeue of an empty pool does.
THEOREM PoolCrashOnlyWhenEmpty == Spec => []CrashOnlyWhenEmpty
  <1>1. IInv => CrashOnlyWhenEmpty
    BY DEF IInv, CrashOnlyWhenEmpty, PhaseInv, LinksInv
  <1>2. QED
    BY <1>1, PoolIInv, PTL

-----------------------------------------------------------------------------
(***************************************************************************)
(* Refinement of RequestFifo.                                              *)
(***************************************************************************)

leased == [t \in Threads |-> LeasedBy(t)]

LEMMA InitFifo == Init => Fifo!Init
  BY DEF Init, Fifo!Init, LeasedBy, InFlight, InFlightLabels

\* The unlink of the oldest request is the abstract Get or Drain, and the
\* NULL dereference the abstract Exhaust.
LEMMA CountIsGet ==
  ASSUME IInv, NEW t \in Threads, DequeueCount(t)
  PROVE  Fifo!Next \/ UNCHANGED <<phase, free, leased>>
  <1> USE DEF IInv, DequeueCount, At, Goto, TypeOK
  <1>1. \A u \in Threads \ {t} : LeasedBy(u)' = LeasedBy(u)
    BY DEF LeasedBy, InFlight
  <1>2. CASE numofRequests = 0
    <2>1. free = << >> /\ free' = << >>
      BY <1>2, EmptySeq DEF LinksInv
    <2>2. LeasedBy(t)' = LeasedBy(t)
      BY <1>2 DEF LeasedBy, InFlight, InFlightLabels
    <2>3. QED
      BY <1>1, <2>1, <2>2 DEF leased
  <1>3. CASE numofRequests # 0
    <2>1. free # << >> /\ Head(free) \in Requests /\ head = Head(free)
      BY <1>3, EmptySeq DEF LinksInv, HeadInv, LockInv, LockedLabels
    <2>2. LeasedBy(t)' = LeasedBy(t) \union {Head(free)}
      BY <1>3, <2>1 DEF LeasedBy, InFlight, InFlightLabels, Requests, NULL
    <2>3. leased' = [leased EXCEPT ![t] = @ \union {Head(free)}]
      BY <1>1, <2>2 DEF leased
    <2>4. phase \in {"ready", "finalizing"} /\ phase' = phase /\ free' = Tail(free)
      BY <2>1 DEF PhaseInv
    <2>5. Fifo!Get(t) \/ Fifo!Drain(t)
      BY <2>1, <2>3, <2>4 DEF Fifo!Get, Fifo!Drain, leased
    <2>6. QED
      BY <2>5 DEF Fifo!Next
  <1>4. QED
    BY <1>2, <1>3

LEMMA LinkIsReturn ==
  ASSUME IInv, TypeOK', NEW t \in Threads, EnqueueLink(t), phase = "ready"
  PROVE  Fifo!Next
  <1> USE DEF IInv, EnqueueLink, At, Goto, TypeOK
  <1>1. \A u \in Threads \ {t} : LeasedBy(u)' = LeasedBy(u)
    BY DEF LeasedBy, InFlight
  <1>2. request[t] \in LeasedBy(t) /\ request[t] \in Requests
    BY DEF NonNullInv, LeasedBy, InFlight, InFlightLabels, Requests, NULL
  <1>3. LeasedBy(t)' = LeasedBy(t) \ {request[t]}
    BY DEF LeasedBy, InFlight, InFlightLabels, LocalInv
  <1>4. leased' = [leased EXCEPT ![t] = @ \ {request[t]}]
    BY <1>1, <1>3 DEF leased
  <1>5. phase' = phase
    BY LinkTail
  <1>6. Fifo!Return(t, request[t])
    BY <1>2, <1>4, <1>5 DEF Fifo!Return, leased
  <1>7. QED
    BY <1>2, <1>6 DEF Fifo!Next, Fifo!Requests, Requests

LEMMA UnlockIsDrop ==
  ASSUME IInv, NEW t \in Threads, UnlockAfterDequeue(t)
  PROVE  Fifo!Next \/ UNCHANGED <<phase, free, leased>>
  <1> USE DEF IInv, UnlockAfterDequeue, At, Goto, TypeOK
  <1>1. \A u \in Threads \ {t} : LeasedBy(u)' = LeasedBy(u)
    BY DEF LeasedBy, InFlight
  <1>2. request[t] \in LeasedBy(t) /\ request[t] \in Requests
    BY DEF NonNullInv, LeasedBy, InFlight, InFlightLabels, Requests, NULL
  <1>3. phase' = phase
    BY <1>2 DEF Requests, NULL
  <1>4. CASE phase = "finalizing"
    <2>1. CASE request[t] \in held[t]
      <3>1. LeasedBy(t)' = LeasedBy(t)
        BY <1>4, <2>1 DEF LeasedBy, InFlight, InFlightLabels
      <3>2. QED
        BY <1>1, <1>3, <3>1 DEF leased
    <2>2. CASE request[t] \notin held[t]
      <3>1. LeasedBy(t)' = LeasedBy(t) \ {request[t]}
        BY <1>2, <1>4, <2>2 DEF LeasedBy, InFlight, InFlightLabels
      <3>2. leased' = [leased EXCEPT ![t] = @ \ {request[t]}]
        BY <1>1, <1>3, <3>1 DEF leased
      <3>3. Fifo!Drop(t, request[t])
        BY <1>2, <1>3, <1>4, <3>2 DEF Fifo!Drop, leased
      <3>4. QED
        BY <1>2, <3>3 DEF Fifo!Next, Fifo!Requests, Requests
    <2>3. QED
      BY <2>1, <2>2
  <1>5. CASE phase # "finalizing"
    <2>1. LeasedBy(t)' = LeasedBy(t)
      BY <1>2, <1>5 DEF LeasedBy, InFlight, InFlightLabels, NULL, Requests
    <2>2. QED
      BY <1>1, <1>3, <2>1 DEF leased
  <1>6. QED
    BY <1>4, <1>5

LEMMA StepFifo ==
  ASSUME IInv, TypeOK', [Next]_vars
  PROVE  [Fifo!Next]_<<phase, free, leased>>
  <1> USE DEF IInv, TypeOK, At, Goto
  <1>1. CASE Initialize
    <2>1. \A t \in Threads : LeasedBy(t)' = LeasedBy(t)
      BY <1>1 DEF Initialize, LeasedBy, InFlight
    <2>2. Fifo!Open
      BY <1>1, <2>1 DEF Initialize, Fifo!Open, Fifo!Requests, Requests
    <2>3. QED
      BY <2>2 DEF Fifo!Next
  <1>2. ASSUME NEW t \in Threads, BeginGet(t) \/ LockForDequeue(t) \/ LockForEnqueue(t)
                                  \/ EnqueueTail(t) \/ UnlockAfterEnqueue(t)
        PROVE  UNCHANGED <<phase, free, leased>>
    <2>1. \A u \in Threads : LeasedBy(u)' = LeasedBy(u)
      BY <1>2 DEF BeginGet, LockForDequeue, LockForEnqueue, EnqueueTail,
         UnlockAfterEnqueue, LeasedBy, InFlight, InFlightLabels
    <2>2. QED
      BY <1>2, <2>1 DEF BeginGet, LockForDequeue, LockForEnqueue, EnqueueTail,
         UnlockAfterEnqueue, leased
  <1>3. ASSUME NEW t \in Threads, NEW r \in Requests, BeginReturn(t, r)
        PROVE  UNCHANGED <<phase, free, leased>>
    <2>1. \A u \in Threads : LeasedBy(u)' = LeasedBy(u)
      BY <1>3 DEF BeginReturn, LeasedBy, InFlight, InFlightLabels, Requests, NULL
    <2>2. QED
      BY <1>3, <2>1 DEF BeginReturn, leased
  <1>4. ASSUME NEW t \in Threads, BeginFinalize(t)
        PROVE  Fifo!Next
    <2>1. \A u \in Threads : LeasedBy(u)' = LeasedBy(u)
      BY <1>4 DEF BeginFinalize, LeasedBy, InFlight, InFlightLabels
    <2>2. Fifo!StartFinalize
      BY <1>4, <2>1 DEF BeginFinalize, Fifo!StartFinalize
    <2>3. QED
      BY <2>2 DEF Fifo!Next
  <1>5. ASSUME NEW t \in Threads, DequeueAdvance(t) \/ DequeueEmpty(t)
        PROVE  UNCHANGED <<phase, free, leased>>
    <2>1. request[t] # NULL
      BY <1>5 DEF LocalInv, DequeueAdvance, DequeueEmpty, Requests, NULL
    <2>2. \A u \in Threads : LeasedBy(u)' = LeasedBy(u)
      BY <1>5, <2>1 DEF DequeueAdvance, DequeueEmpty, LeasedBy, InFlight, InFlightLabels
    <2>3. QED
      BY <1>5, <2>1, <2>2 DEF DequeueAdvance, DequeueEmpty, leased
  <1>6. ASSUME NEW t \in Threads, DequeueClear(t)
        PROVE  Fifo!Next \/ UNCHANGED <<phase, free, leased>>
    <2>1. \A u \in Threads : LeasedBy(u)' = LeasedBy(u)
      BY <1>6 DEF DequeueClear, LeasedBy, InFlight, InFlightLabels
    <2>2. CASE request[t] = NULL
      <3>1. phase \in {"ready", "finalizing"} /\ free = << >>
        BY <1>6, <2>2 DEF DequeueClear, LocalInv, PhaseInv
      <3>2. Fifo!Exhaust
        BY <1>6, <2>1, <2>2, <3>1 DEF DequeueClear, Fifo!Exhaust
      <3>3. QED
        BY <3>2 DEF Fifo!Next
    <2>3. CASE request[t] # NULL
      BY <1>6, <2>1, <2>3 DEF DequeueClear, leased
    <2>4. QED
      BY <2>2, <2>3
  <1>7. ASSUME NEW t \in Threads, EnqueueLink(t)
        PROVE  Fifo!Next
    <2>1. phase = "ready"
      BY <1>7 DEF EnqueueLink, LocalInv
    <2>2. QED
      BY <1>7, <2>1, LinkIsReturn
  <1>8. CASE UNCHANGED vars
    <2>1. \A u \in Threads : LeasedBy(u)' = LeasedBy(u)
      BY <1>8 DEF vars, LeasedBy, InFlight
    <2>2. QED
      BY <1>8, <2>1 DEF vars, leased
  <1>9. QED
    BY <1>1, <1>2, <1>3, <1>4, <1>5, <1>6, <1>7, <1>8, CountIsGet, UnlockIsDrop
    DEF Next, Continue

\* Every behaviour of the pool is one of the abstract FIFO.
THEOREM PoolImplementsFifo == Spec => ImplementsFifo
  <1>1. IInv /\ IInv' /\ [Next]_vars => [Fifo!Next]_<<phase, free, leased>>
    BY StepFifo DEF IInv
  <1>2. QED
    BY <1>1, InitFifo, PoolIInv, PTL DEF Spec, ImplementsFifo, Fifo!FifoSpec, Fifo!fifoVars, leased

=============================================================================
