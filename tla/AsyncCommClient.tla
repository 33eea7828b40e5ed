--------------------------- MODULE AsyncCommClient ---------------------------
(***************************************************************************)
(* The calls of lib/AsyncCommLib/AsyncCommClient.c that an application     *)
(* makes: the configuration, and create, connectServer, disconnectServer,  *)
(* send and delete of one client that several threads share.               *)
(*                                                                         *)
(* The request pool appears as the FIFO it implements (RequestFifo, by     *)
(* ACCRequestPool!ImplementsFifo).  The socket field has no lock: a connect*)
(* is two steps, the store of the new descriptor and the later read of it. *)
(* Calls that change nothing (a create that fails, cancel, a call that     *)
(* returns for self == NULL) are stuttering steps.                         *)
(*                                                                         *)
(* owner is the descriptor table of the kernel.  accepted, lastSend,       *)
(* session, failed and disciplined are history variables.                  *)
(***************************************************************************)
EXTENDS Integers, Sequences, FiniteSets

CONSTANTS
  NumofConcurrentSend,   \* the non-zero value the configuration is given
  Threads,
  Descriptors            \* the descriptors the process may have open

ASSUME SendsArePositive == NumofConcurrentSend \in Nat \ {0}
ASSUME DescriptorsAreNumbers == IsFiniteSet(Descriptors) /\ Descriptors \subseteq Nat

VARIABLES
  process,               \* "running", or "dead" after a NULL dereference
  config,                \* numofConcurrentSend of the configuration, if there is one
  client,                \* whether the application has a client
  phase, free, leased,   \* its pool
  dequeued,              \* the request the loop of delete has just taken
  socket,                \* self->socket
  pc,                    \* the call each thread is in
  owner,
  accepted, lastSend, session, failed, disciplined

poolVars == <<phase, free, leased>>
sendVars == <<accepted, lastSend>>
sessionVars == <<session, failed, disciplined>>
vars == <<process, config, client, poolVars, dequeued, socket, pc, owner,
          sendVars, sessionVars>>

NoConfig == -1
NoDescriptor == -1
NoRequest == 0
SendArgs == {"valid", "noSelf", "noCallbacks", "noData", "noSendId"}

Pool == INSTANCE RequestFifo

Init ==
  /\ process = "running"
  /\ config = NoConfig
  /\ client = FALSE
  /\ Pool!Init
  /\ dequeued = NoRequest
  /\ socket = NoDescriptor
  /\ pc = [t \in Threads |-> "idle"]
  /\ owner = [d \in Descriptors |-> "closed"]
  /\ accepted = 0 /\ lastSend = [args |-> "none", ret |-> FALSE]
  /\ session = "closed" /\ failed = 0 /\ disciplined = TRUE

-----------------------------------------------------------------------------
(* AsyncCommClientConfig *)

ConfigIs(value) ==
  /\ process = "running"
  /\ config' = value
  /\ UNCHANGED <<process, client, poolVars, dequeued, socket, pc, owner,
                 sendVars, sessionVars>>

ConfigCreate == config = NoConfig /\ ConfigIs(NumofConcurrentSend)

ConfigDelete == config # NoConfig /\ ConfigIs(NoConfig)

ConfigSetNumofConcurrentSend(n) == config # NoConfig /\ ConfigIs(n)

\* AsyncCommClientConfig_isValid
ValidConfig == config # NoConfig /\ config # 0

-----------------------------------------------------------------------------
\* A slip: the result of __AsyncCommClient_initialize is not looked at.
CreateUnchecked ==
  /\ process = "running" /\ ~client
  /\ ValidConfig
  /\ Pool!Open
  /\ client' = TRUE
  /\ socket' \in Descriptors \union {NoDescriptor}
  /\ UNCHANGED <<process, config, dequeued, pc, owner, sendVars, sessionVars>>

\* AsyncCommClient_create.  Nothing writes the socket field: what it holds is
\* what malloc left there.
Create ==
  /\ process = "running" /\ ~client
  /\ ValidConfig
  /\ Pool!Open /\ phase' = "ready"
  /\ client' = TRUE
  /\ socket' \in Descriptors \union {NoDescriptor}
  /\ UNCHANGED <<process, config, dequeued, pc, owner, sendVars, sessionVars>>

Callable(t) == process = "running" /\ client /\ phase = "ready" /\ pc[t] = "idle"

-----------------------------------------------------------------------------
(* AsyncCommClient_connectServer and AsyncCommClient_disconnectServer.  The  *)
(* session is what the application knows from the results of its calls: it   *)
(* is disciplined while it connects when it has no session and disconnects   *)
(* when it has one.                                                          *)

Lowest(S) == CHOOSE d \in S : \A e \in S : d <= e

Closed == {d \in Descriptors : owner[d] = "closed"}

\* A slip: the new descriptor is not stored in the client.
ConnectOpenUnstored(t) ==
  /\ Callable(t)
  /\ \/ /\ Closed # {}
        /\ owner' = [owner EXCEPT ![Lowest(Closed)] = "client"]
        /\ pc' = [pc EXCEPT ![t] = "connect"]
        /\ session' = "connecting"
     \/ /\ Closed = {}
        /\ UNCHANGED <<owner, pc, session>>
  /\ disciplined' = (disciplined /\ session = "closed")
  /\ UNCHANGED <<process, config, client, poolVars, dequeued, socket, sendVars, failed>>

\* A slip: the descriptor of the last session is closed before a new one is
\* opened, although that session has closed it already.
ConnectOpenClosingOld(t) ==
  /\ Callable(t)
  /\ Closed # {}
  /\ socket' = Lowest(Closed)
  /\ owner' = [d \in Descriptors |->
                 IF d = socket' THEN "client"
                 ELSE IF d = socket THEN "closed" ELSE owner[d]]
  /\ pc' = [pc EXCEPT ![t] = "connect"]
  /\ session' = "connecting"
  /\ disciplined' = (disciplined /\ session = "closed")
  /\ UNCHANGED <<process, config, client, poolVars, dequeued, sendVars, failed>>

\* self->socket = socket(...), which gives the lowest closed descriptor.
ConnectOpen(t) ==
  /\ Callable(t)
  /\ \/ /\ Closed # {}
        /\ socket' = Lowest(Closed)
        /\ owner' = [owner EXCEPT ![socket'] = "client"]
        /\ pc' = [pc EXCEPT ![t] = "connect"]
        /\ session' = "connecting"
     \/ /\ Closed = {}
        /\ socket' = NoDescriptor
        /\ UNCHANGED <<owner, pc, session>>
  /\ disciplined' = (disciplined /\ session = "closed")
  /\ UNCHANGED <<process, config, client, poolVars, dequeued, sendVars, failed>>

\* connect(self->socket, ...) reads the field again and may succeed if it now
\* holds an open socket of the client; otherwise the kernel refuses it.
ConnectSucceed(t) ==
  /\ process = "running" /\ pc[t] = "connect"
  /\ socket \in Descriptors /\ owner[socket] = "client"
  /\ pc' = [pc EXCEPT ![t] = "idle"]
  /\ session' = "open"
  /\ UNCHANGED <<process, config, client, poolVars, dequeued, socket, owner,
                 sendVars, failed, disciplined>>

\* It fails, and the new descriptor stays open.
ConnectFail(t) ==
  /\ process = "running" /\ pc[t] = "connect"
  /\ pc' = [pc EXCEPT ![t] = "idle"]
  /\ session' = "closed"
  /\ failed' = IF disciplined THEN failed + 1 ELSE failed
  /\ UNCHANGED <<process, config, client, poolVars, dequeued, socket, owner,
                 sendVars, disciplined>>

\* A slip: the session ends and its descriptor stays open.
DisconnectUnclosed(t) ==
  /\ Callable(t)
  /\ disciplined' = (disciplined /\ session = "open")
  /\ session' = "closed"
  /\ UNCHANGED <<process, config, client, poolVars, dequeued, socket, pc, owner,
                 sendVars, failed>>

\* close(self->socket), whatever that field holds.
Disconnect(t) ==
  /\ Callable(t)
  /\ owner' = [d \in Descriptors |-> IF d = socket THEN "closed" ELSE owner[d]]
  /\ disciplined' = (disciplined /\ session = "open")
  /\ session' = "closed"
  /\ UNCHANGED <<process, config, client, poolVars, dequeued, socket, pc,
                 sendVars, failed>>

\* The rest of the program opens and closes descriptors of its own.
AppOpen ==
  /\ process = "running" /\ Closed # {}
  /\ owner' = [owner EXCEPT ![Lowest(Closed)] = "app"]
  /\ UNCHANGED <<process, config, client, poolVars, dequeued, socket, pc,
                 sendVars, sessionVars>>

AppClose(d) ==
  /\ process = "running" /\ owner[d] = "app"
  /\ owner' = [owner EXCEPT ![d] = "closed"]
  /\ UNCHANGED <<process, config, client, poolVars, dequeued, socket, pc,
                 sendVars, sessionVars>>

-----------------------------------------------------------------------------
(* AsyncCommClient_send *)

\* __AsyncCommClient_isInvalidArgsForSend: true of the valid arguments.
IsInvalidArgsForSend(args) == args = "valid"

\* A slip: the request is taken before the arguments are looked at.
SendRefusedLate(t, args) ==
  /\ Callable(t)
  /\ IsInvalidArgsForSend(args)
  /\ Pool!Get(t)
  /\ lastSend' = [args |-> args, ret |-> FALSE]
  /\ UNCHANGED <<process, config, client, dequeued, socket, pc, owner,
                 accepted, sessionVars>>

SendRefused(t, args) ==
  /\ Callable(t)
  /\ IsInvalidArgsForSend(args)
  /\ lastSend' = [args |-> args, ret |-> FALSE]
  /\ UNCHANGED <<process, config, client, poolVars, dequeued, socket, pc, owner,
                 accepted, sessionVars>>

\* A slip: the send is accepted and no request taken for it.
SendAcceptedWithoutRequest(t, args) ==
  /\ Callable(t)
  /\ ~IsInvalidArgsForSend(args) /\ args \notin {"noSelf", "noCallbacks", "noSendId"}
  /\ lastSend' = [args |-> args, ret |-> TRUE]
  /\ accepted' = accepted + 1
  /\ UNCHANGED <<process, config, client, poolVars, dequeued, socket, pc, owner, sessionVars>>

\* The request is taken and the caller told so; no code gives it back.
SendAccepted(t, args) ==
  /\ Callable(t)
  /\ ~IsInvalidArgsForSend(args) /\ args \notin {"noSelf", "noCallbacks", "noSendId"}
  /\ Pool!Get(t)
  /\ lastSend' = [args |-> args, ret |-> TRUE]
  /\ accepted' = accepted + 1
  /\ UNCHANGED <<process, config, client, dequeued, socket, pc, owner, sessionVars>>

\* A NULL argument is dereferenced: self in the lock of the pool, callbacks
\* and sendId once the request is taken.
SendFaults(t, args) ==
  /\ Callable(t)
  /\ ~IsInvalidArgsForSend(args) /\ args \in {"noSelf", "noCallbacks", "noSendId"}
  /\ IF args = "noSelf" THEN UNCHANGED poolVars ELSE Pool!Get(t)
  /\ process' = "dead"
  /\ lastSend' = [args |-> args, ret |-> FALSE]
  /\ UNCHANGED <<config, client, dequeued, socket, pc, owner, accepted, sessionVars>>

\* The pool has nothing left and its dequeue faults.
SendExhausts(t, args) ==
  /\ Callable(t)
  /\ ~IsInvalidArgsForSend(args) /\ args # "noSelf"
  /\ Pool!Exhaust
  /\ process' = "dead"
  /\ lastSend' = [args |-> args, ret |-> FALSE]
  /\ UNCHANGED <<config, client, dequeued, socket, pc, owner, accepted, sessionVars>>

-----------------------------------------------------------------------------
(* AsyncCommClient_delete, by one thread when no other is inside a call:     *)
(* ACCRequestPool_finalize dequeues and drops until the dequeue faults.      *)

DeleteStart(t) ==
  /\ Callable(t) /\ \A u \in Threads : pc[u] = "idle"
  /\ Pool!StartFinalize
  /\ pc' = [pc EXCEPT ![t] = "delete"]
  /\ UNCHANGED <<process, config, client, dequeued, socket, owner, sendVars, sessionVars>>

DeleteDequeue(t) ==
  /\ process = "running" /\ pc[t] = "delete" /\ dequeued = NoRequest
  /\ Pool!Drain(t)
  /\ dequeued' = Head(free)
  /\ UNCHANGED <<process, config, client, socket, pc, owner, sendVars, sessionVars>>

DeleteDrop(t) ==
  /\ process = "running" /\ pc[t] = "delete"
  /\ Pool!Drop(t, dequeued)
  /\ dequeued' = NoRequest
  /\ UNCHANGED <<process, config, client, socket, pc, owner, sendVars, sessionVars>>

DeleteFaults(t) ==
  /\ process = "running" /\ pc[t] = "delete" /\ dequeued = NoRequest
  /\ Pool!Exhaust
  /\ process' = "dead"
  /\ UNCHANGED <<config, client, dequeued, socket, pc, owner, sendVars, sessionVars>>

-----------------------------------------------------------------------------
Configure ==
  \/ ConfigCreate
  \/ ConfigDelete
  \/ \E n \in {0, NumofConcurrentSend} : ConfigSetNumofConcurrentSend(n)

Next ==
  \/ Configure
  \/ Create
  \/ AppOpen
  \/ \E d \in Descriptors : AppClose(d)
  \/ \E t \in Threads :
       \/ ConnectOpen(t) \/ ConnectSucceed(t) \/ ConnectFail(t) \/ Disconnect(t)
       \/ \E args \in SendArgs :
            \/ SendRefused(t, args) \/ SendAccepted(t, args)
            \/ SendFaults(t, args) \/ SendExhausts(t, args)
       \/ DeleteStart(t) \/ DeleteDequeue(t) \/ DeleteDrop(t) \/ DeleteFaults(t)

Spec == Init /\ [][Next]_vars

-----------------------------------------------------------------------------
(***************************************************************************)
(* Properties.                                                             *)
(***************************************************************************)

\* The variables have their types.
TypeOK ==
  /\ process \in {"running", "dead"}
  /\ config \in {NoConfig, 0, NumofConcurrentSend}
  /\ client \in BOOLEAN
  /\ phase \in {"raw", "ready", "finalizing", "crashed"}
  /\ free \in Seq(Pool!Requests)
  /\ leased \in [Threads -> SUBSET Pool!Requests]
  /\ dequeued \in Pool!Requests \union {NoRequest}
  /\ socket \in Descriptors \union {NoDescriptor}
  /\ pc \in [Threads -> {"idle", "connect", "delete"}]
  /\ owner \in [Descriptors -> {"closed", "client", "app"}]
  /\ accepted \in 0 .. NumofConcurrentSend
  /\ lastSend \in [args : SendArgs \union {"none"}, ret : BOOLEAN]
  /\ session \in {"closed", "connecting", "open"}
  /\ failed \in Nat
  /\ disciplined \in BOOLEAN

\* A client's sends are a budget that is never paid back: over its whole life,
\* whichever threads send, it accepts as many as its configuration says it
\* may have in progress at once, and the pool holds exactly the rest.
SendBudget ==
  /\ phase = "ready" /\ process = "running" => accepted + Len(free) = NumofConcurrentSend
  /\ phase = "raw" => accepted = 0

\* The process dies only where the code dereferences NULL: a send with a NULL
\* argument, or a dequeue of a pool that has accepted all it can or is being
\* deleted.  A valid send, a connect or a disconnect never kills it.
DeathIsExplained ==
  process = "dead" =>
    \/ lastSend.args \in {"noSelf", "noCallbacks", "noSendId"}
    \/ free = << >> /\ (accepted = NumofConcurrentSend \/ \E t \in Threads : pc[t] = "delete")

\* While a disciplined application has a session, self->socket is an open
\* socket of the client, whatever else the process opens and closes.
SessionOwnsSocket ==
  disciplined /\ session # "closed" =>
    socket \in Descriptors /\ owner[socket] = "client"

\* A disciplined application loses one descriptor for each connect that fails
\* and none otherwise.
LeaksAreFailedConnects ==
  disciplined =>
    Cardinality({d \in Descriptors : owner[d] = "client"})
      = failed + (IF session = "closed" THEN 0 ELSE 1)

\* While the application is disciplined no call of the client closes or takes
\* over a descriptor of another part of the program.
AppKeepsDescriptors ==
  [][\A d \in Descriptors :
       owner[d] = "app" /\ owner'[d] # "app" => ~disciplined' \/ AppClose(d)]_vars

\* What Test_AsyncCommClient_send expects: a send with valid arguments, while
\* the client has a request left, returns true.
ValidSendAccepted ==
  lastSend.args = "valid" /\ accepted < NumofConcurrentSend => lastSend.ret

=============================================================================
