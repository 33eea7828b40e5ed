------------------------ MODULE AsyncCommClient_proofs ------------------------
(***************************************************************************)
(* For any number of threads, of requests and of descriptors: what the     *)
(* sends of a client cost its pool, what its connects cost the descriptor  *)
(* table, and what can end the process.                                    *)
(***************************************************************************)
EXTENDS AsyncCommClient, SequenceTheorems, FiniteSetTheorems, WellFoundedInduction, TLAPS

(***************************************************************************)
(* The inductive invariant, in named parts.                                *)
(***************************************************************************)

\* Before there is a client nothing has been sent and no call is under way.
RawInv ==
  /\ phase = "raw" => accepted = 0 /\ ~client
  /\ ~client => session = "closed" /\ \A t \in Threads : pc[t] = "idle"

\* The threads of a disciplined application connect one at a time, and only
\* while there is no session.
ConnectInv ==
  disciplined =>
    /\ \A t \in Threads : pc[t] = "connect" => session = "connecting"
    /\ \A t, u \in Threads : pc[t] = "connect" /\ pc[u] = "connect" => t = u

IInv ==
  /\ TypeOK
  /\ RawInv
  /\ SendBudget
  /\ DeathIsExplained
  /\ ConnectInv
  /\ SessionOwnsSocket
  /\ LeaksAreFailedConnects

-----------------------------------------------------------------------------
\* There is a lowest closed descriptor, and it is closed.
LEMMA LowestIsClosed == ASSUME Closed # {} PROVE Lowest(Closed) \in Closed
  <1>1. Closed \subseteq Nat /\ Closed # {}
    BY DescriptorsAreNumbers DEF Closed
  <1>2. PICK d \in Closed : \A e \in Closed : ~(<<e, d>> \in OpToRel(<, Nat))
    BY <1>1, NatLessThanWellFounded, WFMin
  <1>3. \A e \in Closed : d <= e
    <2>1. ASSUME NEW e \in Closed PROVE d <= e
      <3>1. <<e, d>> \notin OpToRel(<, Nat)
        BY <1>2
      <3>2. ~(e < d)
        BY <1>1, <3>1 DEF OpToRel
      <3>3. QED
        BY <1>1, <3>2
    <2>2. QED
      BY <2>1
  <1>4. QED
    BY <1>3 DEF Lowest

\* The pool comes up with every request free.
LEMMA FullFree ==
  LET full == [i \in Pool!Requests |-> i]
  IN  full \in Seq(Pool!Requests) /\ Len(full) = NumofConcurrentSend
  BY SendsArePositive DEF Pool!Requests

\* The client's descriptors, of which giving or closing one changes the number by one.
Owned == {d \in Descriptors : owner[d] = "client"}

LEMMA OneMoreOwned ==
  ASSUME TypeOK, NEW d \in Descriptors, owner[d] # "client",
         owner' = [owner EXCEPT ![d] = "client"]
  PROVE  Cardinality(Owned') = Cardinality(Owned) + 1
  <1>1. Owned' = Owned \union {d} /\ d \notin Owned
    BY DEF Owned, TypeOK
  <1>2. IsFiniteSet(Owned)
    BY DescriptorsAreNumbers, FS_Subset DEF Owned
  <1>3. QED
    BY <1>1, <1>2, FS_AddElement

LEMMA OneFewerOwned ==
  ASSUME TypeOK, NEW d \in Descriptors, owner[d] = "client",
         owner' = [e \in Descriptors |-> IF e = d THEN "closed" ELSE owner[e]]
  PROVE  Cardinality(Owned') = Cardinality(Owned) - 1
  <1>1. Owned' = Owned \ {d} /\ d \in Owned
    BY DEF Owned, TypeOK
  <1>2. IsFiniteSet(Owned)
    BY DescriptorsAreNumbers, FS_Subset DEF Owned
  <1>3. QED
    BY <1>1, <1>2, FS_RemoveElement

-----------------------------------------------------------------------------
LEMMA InitIInv == Init => IInv
  <1> SUFFICES ASSUME Init PROVE IInv
    OBVIOUS
  <1>1. TypeOK
    <2>1. << >> \in Seq(Pool!Requests) /\ {} \subseteq Pool!Requests
      BY EmptySeq
    <2>2. free \in Seq(Pool!Requests) /\ leased \in [Threads -> SUBSET Pool!Requests]
      BY <2>1 DEF Init, Pool!Init
    <2>3. accepted \in 0 .. NumofConcurrentSend /\ failed \in Nat
      BY SendsArePositive DEF Init
    <2>4. lastSend \in [args : SendArgs \union {"none"}, ret : BOOLEAN]
      BY DEF Init
    <2>5. QED
      BY <2>2, <2>3, <2>4 DEF Init, Pool!Init, TypeOK
  <1>2. LeaksAreFailedConnects
    <2>1. Owned = {}
      BY DEF Init, Owned
    <2>2. Cardinality(Owned) = 0
      BY <2>1, FS_EmptySet
    <2>3. failed = 0 /\ session = "closed" /\ socket = NoDescriptor
      BY DEF Init
    <2>4. QED
      BY <2>2, <2>3 DEF LeaksAreFailedConnects, Owned
  <1> USE DEF Init, Pool!Init
  <1>3. QED
    BY <1>1, <1>2 DEF IInv, RawInv, SendBudget, DeathIsExplained, ConnectInv, SessionOwnsSocket

(***************************************************************************)
(* The actions that leave the sessions and the descriptors alone.          *)
(***************************************************************************)

LEMMA SessionUntouched ==
  ASSUME IInv, UNCHANGED <<socket, pc, owner, client, sessionVars>>
  PROVE  ConnectInv' /\ SessionOwnsSocket' /\ LeaksAreFailedConnects'
  BY DEF IInv, sessionVars, ConnectInv, SessionOwnsSocket, LeaksAreFailedConnects

LEMMA ConfigureStep == IInv /\ Configure => IInv'
  <1> SUFFICES ASSUME IInv, NEW value \in {NoConfig, 0, NumofConcurrentSend}, ConfigIs(value)
               PROVE  IInv'
    BY DEF Configure, ConfigCreate, ConfigDelete, ConfigSetNumofConcurrentSend
  <1> USE DEF IInv, ConfigIs, poolVars, sendVars, sessionVars
  <1>1. ConnectInv' /\ SessionOwnsSocket' /\ LeaksAreFailedConnects'
    BY SessionUntouched
  <1>2. TypeOK'
    BY DEF TypeOK
  <1>3. RawInv' /\ SendBudget' /\ DeathIsExplained'
    BY DEF RawInv, SendBudget, DeathIsExplained
  <1>4. QED
    BY <1>1, <1>2, <1>3

LEMMA SendRefusedStep ==
  ASSUME IInv, NEW t \in Threads, NEW args \in SendArgs, SendRefused(t, args)
  PROVE  IInv'
  <1> USE DEF IInv, SendRefused, Callable, poolVars
  <1>1. ConnectInv' /\ SessionOwnsSocket' /\ LeaksAreFailedConnects'
    BY SessionUntouched
  <1>2. TypeOK'
    BY DEF TypeOK, sessionVars
  <1>3. RawInv' /\ SendBudget' /\ DeathIsExplained'
    BY DEF RawInv, SendBudget, DeathIsExplained, sessionVars
  <1>4. QED
    BY <1>1, <1>2, <1>3

\* What Pool!Get and Pool!Drain do to the types and to the length of the FIFO.
LEMMA TakeOne ==
  ASSUME TypeOK, NEW t \in Threads, Pool!Get(t) \/ Pool!Drain(t)
  PROVE  /\ free' \in Seq(Pool!Requests)
         /\ leased' \in [Threads -> SUBSET Pool!Requests]
         /\ Len(free') = Len(free) - 1
         /\ Len(free) \in Nat /\ Len(free) > 0
         /\ Head(free) \in Pool!Requests
  <1>1. free \in Seq(Pool!Requests) /\ free # << >> /\ free' = Tail(free)
    BY DEF TypeOK, Pool!Get, Pool!Drain
  <1>2. Head(free) \in Pool!Requests /\ free' \in Seq(Pool!Requests) /\ Len(free') = Len(free) - 1
    BY <1>1, HeadTailProperties
  <1>3. Len(free) \in Nat /\ Len(free) > 0
    BY <1>1, EmptySeq
  <1>4. leased' \in [Threads -> SUBSET Pool!Requests]
    BY <1>2 DEF TypeOK, Pool!Get, Pool!Drain
  <1>5. QED
    BY <1>2, <1>3, <1>4

LEMMA SendAcceptedStep ==
  ASSUME IInv, NEW t \in Threads, NEW args \in SendArgs, SendAccepted(t, args)
  PROVE  IInv'
  <1> USE DEF IInv, SendAccepted, Callable
  <1>1. ConnectInv' /\ SessionOwnsSocket' /\ LeaksAreFailedConnects'
    BY SessionUntouched
  <1>2. /\ Len(free') = Len(free) - 1 /\ Len(free) \in Nat /\ Len(free) > 0
        /\ free' \in Seq(Pool!Requests) /\ leased' \in [Threads -> SUBSET Pool!Requests]
        /\ phase' = "ready"
    BY TakeOne DEF Pool!Get
  <1>3. accepted + Len(free) = NumofConcurrentSend /\ accepted \in Nat
    BY DEF SendBudget, TypeOK
  <1>4. accepted' \in 0 .. NumofConcurrentSend /\ accepted' + Len(free') = NumofConcurrentSend
    BY <1>2, <1>3, SendsArePositive
  <1>5. TypeOK'
    BY <1>2, <1>4 DEF TypeOK, sessionVars
  <1>6. RawInv' /\ SendBudget' /\ DeathIsExplained'
    BY <1>2, <1>4 DEF RawInv, SendBudget, DeathIsExplained, sessionVars
  <1>7. QED
    BY <1>1, <1>5, <1>6

LEMMA SendFaultsStep ==
  ASSUME IInv, NEW t \in Threads, NEW args \in SendArgs, SendFaults(t, args)
  PROVE  IInv'
  <1> USE DEF IInv, SendFaults, Callable
  <1>1. ConnectInv' /\ SessionOwnsSocket' /\ LeaksAreFailedConnects'
    BY SessionUntouched
  <1>2. /\ free' \in Seq(Pool!Requests) /\ leased' \in [Threads -> SUBSET Pool!Requests]
        /\ phase' = "ready"
    BY TakeOne DEF Pool!Get, poolVars, TypeOK
  <1>3. TypeOK'
    BY <1>2 DEF TypeOK, sessionVars
  <1>4. RawInv' /\ SendBudget' /\ DeathIsExplained'
    BY <1>2 DEF RawInv, SendBudget, DeathIsExplained, sessionVars
  <1>5. QED
    BY <1>1, <1>3, <1>4

LEMMA SendExhaustsStep ==
  ASSUME IInv, NEW t \in Threads, NEW args \in SendArgs, SendExhausts(t, args)
  PROVE  IInv'
  <1> USE DEF IInv, SendExhausts, Callable, Pool!Exhaust
  <1>1. ConnectInv' /\ SessionOwnsSocket' /\ LeaksAreFailedConnects'
    BY SessionUntouched
  <1>2. TypeOK'
    BY DEF TypeOK, sessionVars
  <1>3. free = << >> /\ accepted = NumofConcurrentSend
    BY EmptySeq, SendsArePositive DEF SendBudget, TypeOK
  <1>4. RawInv' /\ SendBudget' /\ DeathIsExplained'
    BY <1>3 DEF RawInv, SendBudget, DeathIsExplained, sessionVars
  <1>5. QED
    BY <1>1, <1>2, <1>4

LEMMA DeleteDequeueStep == ASSUME IInv, NEW t \in Threads, DeleteDequeue(t) PROVE IInv'
  <1> USE DEF IInv, DeleteDequeue
  <1>1. ConnectInv' /\ SessionOwnsSocket' /\ LeaksAreFailedConnects'
    BY SessionUntouched
  <1>2. /\ free' \in Seq(Pool!Requests) /\ leased' \in [Threads -> SUBSET Pool!Requests]
        /\ Head(free) \in Pool!Requests /\ phase' = "finalizing"
    BY TakeOne DEF Pool!Drain
  <1>3. TypeOK'
    BY <1>2 DEF TypeOK, sendVars, sessionVars
  <1>4. RawInv' /\ SendBudget' /\ DeathIsExplained'
    BY <1>2 DEF RawInv, SendBudget, DeathIsExplained, sendVars, sessionVars
  <1>5. QED
    BY <1>1, <1>3, <1>4

LEMMA DeleteDropStep == ASSUME IInv, NEW t \in Threads, DeleteDrop(t) PROVE IInv'
  <1> USE DEF IInv, DeleteDrop, Pool!Drop
  <1>1. ConnectInv' /\ SessionOwnsSocket' /\ LeaksAreFailedConnects'
    BY SessionUntouched
  <1>2. TypeOK'
    BY DEF TypeOK, sendVars, sessionVars
  <1>3. RawInv' /\ SendBudget' /\ DeathIsExplained'
    BY DEF RawInv, SendBudget, DeathIsExplained, sendVars, sessionVars
  <1>4. QED
    BY <1>1, <1>2, <1>3

LEMMA DeleteFaultsStep == ASSUME IInv, NEW t \in Threads, DeleteFaults(t) PROVE IInv'
  <1> USE DEF IInv, DeleteFaults, Pool!Exhaust
  <1>1. ConnectInv' /\ SessionOwnsSocket' /\ LeaksAreFailedConnects'
    BY SessionUntouched
  <1>2. TypeOK'
    BY DEF TypeOK, sendVars, sessionVars
  <1>3. RawInv' /\ SendBudget' /\ DeathIsExplained'
    BY DEF RawInv, SendBudget, DeathIsExplained, sendVars, sessionVars
  <1>4. QED
    BY <1>1, <1>2, <1>3

(***************************************************************************)
(* The actions that leave the pool and the sends alone.                    *)
(***************************************************************************)

LEMMA SendsUntouched ==
  ASSUME IInv, process = "running", UNCHANGED <<process, poolVars, sendVars>>
  PROVE  SendBudget' /\ DeathIsExplained'
  BY DEF IInv, SendBudget, DeathIsExplained, poolVars, sendVars

LEMMA CreateStep == IInv /\ Create => IInv'
  <1> SUFFICES ASSUME IInv, Create PROVE IInv'
    OBVIOUS
  <1> USE DEF IInv, Create, Pool!Open
  <1>1. free' \in Seq(Pool!Requests) /\ Len(free') = NumofConcurrentSend
    BY FullFree
  <1>2. TypeOK'
    BY <1>1 DEF TypeOK, sendVars, sessionVars
  <1>3. accepted = 0 /\ session = "closed"
    BY DEF RawInv
  <1>4. RawInv' /\ SendBudget' /\ DeathIsExplained'
    BY <1>1, <1>3, SendsArePositive DEF RawInv, SendBudget, DeathIsExplained, sendVars, sessionVars
  <1>5. ConnectInv' /\ SessionOwnsSocket' /\ LeaksAreFailedConnects'
    BY <1>3 DEF ConnectInv, SessionOwnsSocket, LeaksAreFailedConnects, sessionVars
  <1>6. QED
    BY <1>2, <1>4, <1>5

LEMMA DeleteStartStep == ASSUME IInv, NEW t \in Threads, DeleteStart(t) PROVE IInv'
  <1> USE DEF IInv, DeleteStart, Callable, Pool!StartFinalize
  <1>1. TypeOK'
    BY DEF TypeOK, sendVars, sessionVars
  <1>2. RawInv' /\ SendBudget' /\ DeathIsExplained'
    BY DEF RawInv, SendBudget, DeathIsExplained, sendVars, sessionVars
  <1>3. ConnectInv'
    BY DEF ConnectInv, sessionVars, TypeOK
  <1>4. SessionOwnsSocket' /\ LeaksAreFailedConnects'
    BY DEF SessionOwnsSocket, LeaksAreFailedConnects, sessionVars
  <1>5. QED
    BY <1>1, <1>2, <1>3, <1>4

LEMMA AppOpenStep == IInv /\ AppOpen => IInv'
  <1> SUFFICES ASSUME IInv, AppOpen PROVE IInv'
    OBVIOUS
  <1> USE DEF IInv, AppOpen
  <1>1. PICK d \in Descriptors : owner[d] = "closed" /\ owner' = [owner EXCEPT ![d] = "app"]
    BY LowestIsClosed DEF Closed
  <1>2. TypeOK'
    BY <1>1 DEF TypeOK, poolVars, sendVars, sessionVars
  <1>3. RawInv' /\ SendBudget' /\ DeathIsExplained'
    BY SendsUntouched DEF RawInv, poolVars, sendVars, sessionVars
  <1>4. ConnectInv'
    BY DEF ConnectInv, sessionVars
  <1>5. \A e \in Descriptors : owner'[e] = "client" <=> owner[e] = "client"
    BY <1>1 DEF TypeOK
  <1>6. SessionOwnsSocket'
    BY <1>5 DEF SessionOwnsSocket, sessionVars
  <1>7. LeaksAreFailedConnects'
    <2>1. {e \in Descriptors : owner'[e] = "client"} = {e \in Descriptors : owner[e] = "client"}
      BY <1>5
    <2>2. QED
      BY <2>1 DEF LeaksAreFailedConnects, sessionVars
  <1>8. QED
    BY <1>2, <1>3, <1>4, <1>6, <1>7

LEMMA AppCloseStep == ASSUME IInv, NEW d \in Descriptors, AppClose(d) PROVE IInv'
  <1> USE DEF IInv, AppClose
  <1>1. TypeOK'
    BY DEF TypeOK, poolVars, sendVars, sessionVars
  <1>2. RawInv' /\ SendBudget' /\ DeathIsExplained'
    BY SendsUntouched DEF RawInv, poolVars, sendVars, sessionVars
  <1>3. ConnectInv'
    BY DEF ConnectInv, sessionVars
  <1>4. \A e \in Descriptors : owner'[e] = "client" <=> owner[e] = "client"
    BY DEF TypeOK
  <1>5. SessionOwnsSocket'
    BY <1>4 DEF SessionOwnsSocket, sessionVars
  <1>6. LeaksAreFailedConnects'
    <2>1. {e \in Descriptors : owner'[e] = "client"} = {e \in Descriptors : owner[e] = "client"}
      BY <1>4
    <2>2. QED
      BY <2>1 DEF LeaksAreFailedConnects, sessionVars
  <1>7. QED
    BY <1>1, <1>2, <1>3, <1>5, <1>6

LEMMA ConnectOpenStep == ASSUME IInv, NEW t \in Threads, ConnectOpen(t) PROVE IInv'
  <1> USE DEF IInv, Callable
  <1>1. RawInv' /\ SendBudget' /\ DeathIsExplained'
    BY SendsUntouched DEF ConnectOpen, RawInv, poolVars, sendVars
  <1>2. CASE Closed # {}
    <2>1. PICK d \in Descriptors :
            owner[d] = "closed" /\ socket' = d /\ owner' = [owner EXCEPT ![d] = "client"]
      BY <1>2, LowestIsClosed DEF ConnectOpen, Closed
    <2>2. pc' = [pc EXCEPT ![t] = "connect"] /\ session' = "connecting"
      BY <1>2 DEF ConnectOpen
    <2>3. TypeOK'
      BY <2>1, <2>2 DEF ConnectOpen, TypeOK, poolVars, sendVars
    <2>4. disciplined' => disciplined /\ session = "closed" /\ failed' = failed
      BY DEF ConnectOpen
    <2>5. ConnectInv'
      BY <2>2, <2>4 DEF ConnectInv, TypeOK
    <2>6. SessionOwnsSocket'
      BY <2>1 DEF SessionOwnsSocket, TypeOK
    <2>7. LeaksAreFailedConnects'
      <3>1. Cardinality(Owned') = Cardinality(Owned) + 1
        BY <2>1, OneMoreOwned
      <3>2. disciplined' => Cardinality(Owned) = failed + 0
        BY <2>4 DEF LeaksAreFailedConnects, Owned
      <3>3. QED
        BY <2>2, <2>4, <3>1, <3>2 DEF LeaksAreFailedConnects, Owned, TypeOK
    <2>8. QED
      BY <1>1, <2>3, <2>5, <2>6, <2>7
  <1>3. CASE Closed = {}
    <2>1. socket' = NoDescriptor /\ UNCHANGED <<owner, pc, session>>
      BY <1>3 DEF ConnectOpen
    <2>2. disciplined' => disciplined /\ session = "closed" /\ failed' = failed
      BY DEF ConnectOpen
    <2>3. TypeOK'
      BY <2>1 DEF ConnectOpen, TypeOK, poolVars, sendVars
    <2>4. ConnectInv' /\ SessionOwnsSocket' /\ LeaksAreFailedConnects'
      BY <2>1, <2>2 DEF ConnectInv, SessionOwnsSocket, LeaksAreFailedConnects
    <2>5. QED
      BY <1>1, <2>3, <2>4
  <1>4. QED
    BY <1>2, <1>3

LEMMA ConnectSucceedStep == ASSUME IInv, NEW t \in Threads, ConnectSucceed(t) PROVE IInv'
  <1> USE DEF IInv, ConnectSucceed
  <1>1. TypeOK'
    BY DEF TypeOK, poolVars, sendVars
  <1>2. RawInv' /\ SendBudget' /\ DeathIsExplained'
    BY SendsUntouched DEF RawInv, TypeOK, poolVars, sendVars
  <1>3. disciplined => session = "connecting"
    BY DEF ConnectInv
  <1>4. ConnectInv'
    BY DEF ConnectInv, TypeOK
  <1>5. SessionOwnsSocket' /\ LeaksAreFailedConnects'
    BY <1>3 DEF SessionOwnsSocket, LeaksAreFailedConnects
  <1>6. QED
    BY <1>1, <1>2, <1>4, <1>5

LEMMA ConnectFailStep == ASSUME IInv, NEW t \in Threads, ConnectFail(t) PROVE IInv'
  <1> USE DEF IInv, ConnectFail
  <1>1. TypeOK'
    BY DEF TypeOK, poolVars, sendVars
  <1>2. RawInv' /\ SendBudget' /\ DeathIsExplained'
    BY SendsUntouched DEF RawInv, TypeOK, poolVars, sendVars
  <1>3. disciplined => session = "connecting"
    BY DEF ConnectInv
  <1>4. ConnectInv'
    BY DEF ConnectInv, TypeOK
  <1>5. SessionOwnsSocket'
    BY DEF SessionOwnsSocket
  <1>6. LeaksAreFailedConnects'
    BY <1>3 DEF LeaksAreFailedConnects, TypeOK
  <1>7. QED
    BY <1>1, <1>2, <1>4, <1>5, <1>6

LEMMA DisconnectStep == ASSUME IInv, NEW t \in Threads, Disconnect(t) PROVE IInv'
  <1> USE DEF IInv, Disconnect, Callable
  <1>1. TypeOK'
    BY DEF TypeOK, poolVars, sendVars
  <1>2. RawInv' /\ SendBudget' /\ DeathIsExplained'
    BY SendsUntouched DEF RawInv, poolVars, sendVars
  <1>3. disciplined' => disciplined /\ session = "open" /\ failed' = failed
    OBVIOUS
  <1>4. ConnectInv' /\ SessionOwnsSocket'
    BY <1>3 DEF ConnectInv, SessionOwnsSocket
  <1>5. LeaksAreFailedConnects'
    <2>1. CASE disciplined'
      <3>1. socket \in Descriptors /\ owner[socket] = "client"
        BY <1>3, <2>1 DEF SessionOwnsSocket
      <3>2. Cardinality(Owned') = Cardinality(Owned) - 1
        BY <3>1, OneFewerOwned
      <3>3. Cardinality(Owned) = failed + 1
        BY <1>3, <2>1 DEF LeaksAreFailedConnects, Owned
      <3>4. QED
        BY <1>3, <2>1, <3>2, <3>3 DEF LeaksAreFailedConnects, Owned, TypeOK
    <2>2. CASE ~disciplined'
      BY <2>2 DEF LeaksAreFailedConnects
    <2>3. QED
      BY <2>1, <2>2
  <1>6. QED
    BY <1>1, <1>2, <1>4, <1>5

-----------------------------------------------------------------------------
LEMMA StepIInv == IInv /\ [Next]_vars => IInv'
  <1>1. IInv /\ UNCHANGED vars => IInv'
    BY DEF vars, poolVars, sendVars, sessionVars, IInv, TypeOK, RawInv, SendBudget,
       DeathIsExplained, ConnectInv, SessionOwnsSocket, LeaksAreFailedConnects
  <1>2. QED
    BY <1>1, ConfigureStep, CreateStep, AppOpenStep, AppCloseStep, ConnectOpenStep,
       ConnectSucceedStep, ConnectFailStep, DisconnectStep, SendRefusedStep,
       SendAcceptedStep, SendFaultsStep, SendExhaustsStep, DeleteStartStep,
       DeleteDequeueStep, DeleteDropStep, DeleteFaultsStep
    DEF Next

\* The inductive invariant, with the types of the variables, holds throughout.
THEOREM ClientIInv == Spec => []IInv
  BY InitIInv, StepIInv, PTL DEF Spec

\* Every variable of the client keeps its type: what a thread leases is from
\* the pool, and the socket is a descriptor of the process or none.
THEOREM ClientTypeOK == Spec => []TypeOK
  <1>1. IInv => TypeOK
    BY DEF IInv
  <1>2. QED
    BY <1>1, ClientIInv, PTL

\* A client accepts as many sends in its life as it may have at once.
THEOREM ClientSendBudget == Spec => []SendBudget
  <1>1. IInv => SendBudget
    BY DEF IInv
  <1>2. QED
    BY <1>1, ClientIInv, PTL

\* Only a NULL argument, an exhausted pool or a delete ends the process.
THEOREM ClientDeathIsExplained == Spec => []DeathIsExplained
  <1>1. IInv => DeathIsExplained
    BY DEF IInv
  <1>2. QED
    BY <1>1, ClientIInv, PTL

\* The socket of a disciplined application's session is the client's own.
THEOREM ClientSessionOwnsSocket == Spec => []SessionOwnsSocket
  <1>1. IInv => SessionOwnsSocket
    BY DEF IInv
  <1>2. QED
    BY <1>1, ClientIInv, PTL

\* The descriptors lost are the connects that failed.
THEOREM ClientLeaksAreFailedConnects == Spec => []LeaksAreFailedConnects
  <1>1. IInv => LeaksAreFailedConnects
    BY DEF IInv
  <1>2. QED
    BY <1>1, ClientIInv, PTL

\* No call of a disciplined application's client closes or takes over a
\* descriptor of another part of the program.
THEOREM ClientAppKeepsDescriptors == Spec => AppKeepsDescriptors
  <1> DEFINE Kept == \A d \in Descriptors :
               owner[d] = "app" /\ owner'[d] # "app" => ~disciplined' \/ AppClose(d)
  <1>1. ASSUME IInv, Next PROVE Kept
    <2>1. ASSUME NEW d \in Descriptors, owner[d] = "app", owner'[d] # "app", disciplined',
                 ~AppClose(d)
          PROVE  FALSE
      <3>1. owner' # owner
        BY <2>1
      <3>2. CASE AppOpen
        BY <2>1, <1>1, <3>2, LowestIsClosed DEF AppOpen, IInv, TypeOK, Closed
      <3>3. ASSUME NEW e \in Descriptors, AppClose(e) PROVE FALSE
        BY <2>1, <1>1, <3>3 DEF AppClose, IInv, TypeOK
      <3>4. ASSUME NEW t \in Threads, ConnectOpen(t) PROVE FALSE
        BY <2>1, <1>1, <3>1, <3>4, LowestIsClosed DEF ConnectOpen, IInv, TypeOK, Closed
      <3>5. ASSUME NEW t \in Threads, Disconnect(t) PROVE FALSE
        BY <2>1, <1>1, <3>5 DEF Disconnect, IInv, SessionOwnsSocket
      <3>6. QED
        BY <1>1, <3>1, <3>2, <3>3, <3>4, <3>5
        DEF Next, Configure, ConfigCreate, ConfigDelete, ConfigSetNumofConcurrentSend,
            ConfigIs, Create, ConnectSucceed, ConnectFail, SendRefused, SendAccepted,
            SendFaults, SendExhausts, DeleteStart, DeleteDequeue, DeleteDrop, DeleteFaults
    <2>2. QED
      BY <2>1
  <1>2. IInv /\ [Next]_vars => [Kept]_vars
    BY <1>1
  <1>3. QED
    BY <1>2, ClientIInv, PTL DEF Spec, AppKeepsDescriptors

=============================================================================
