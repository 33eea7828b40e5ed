---------------------------- MODULE ACCRequestPool ----------------------------
(***************************************************************************)
(* The request pool of lib/AsyncCommLib/AsyncCommClient.c and the linked   *)
(* ACCRequestList it is built on, shared by the threads of one client.     *)
(*                                                                         *)
(* A request is its index in the array `requests'; NULL is 0.  A step of a *)
(* thread is the stretch of code between two accesses another thread could *)
(* see if the mutex did not keep it out, so that the mutex, and not the    *)
(* granularity of the model, is what makes the list operations atomic.     *)
(*                                                                         *)
(* A NULL dereference ends the process: phase becomes "crashed", the mutex *)
(* stays as it is and no thread takes another step.                        *)
(*                                                                         *)
(* free is a history variable: the requests in the list, oldest first.  No *)
(* guard reads it.                                                         *)
(***************************************************************************)
EXTENDS Naturals, Sequences

CONSTANTS
  NumofConcurrentSend,   \* AsyncCommClientConfig.numofConcurrentSend
  Threads,               \* the threads that share one client
  NoThread               \* the owner of an unlocked mutex

\* AsyncCommClientConfig_isValid refuses zero before a pool is made.
ASSUME ConfigIsValid == NumofConcurrentSend \in Nat \ {0}
ASSUME NoThreadIsNoThread == NoThread \notin Threads

VARIABLES
  phase,          \* the life of the pool
  mutex,          \* owner of requestList.mutex
  head, tail, numofRequests,
  next,           \* next[r] is requests[r].next
  pc,             \* where each thread is
  request,        \* the local `request' of each thread's current call
  held,           \* requests each thread got and has not returned
  free

vars == <<phase, mutex, head, tail, numofRequests, next, pc, request, held, free>>

NULL == 0
Requests == 1 .. NumofConcurrentSend
Pointers == Requests \union {NULL}

Init ==
  /\ phase = "raw"
  /\ mutex = NoThread
  /\ head = NULL /\ tail = NULL /\ numofRequests = 0
  /\ next = [r \in Requests |-> NULL]
  /\ pc = [t \in Threads |-> "idle"]
  /\ request = [t \in Threads |-> NULL]
  /\ held = [t \in Threads |-> {}]
  /\ free = << >>

At(t, label) == phase # "crashed" /\ pc[t] = label
Goto(t, label) == pc' = [pc EXCEPT ![t] = label]

(***************************************************************************)
(* ACCRequestPool_initialize runs before any thread can see the pool.  It  *)
(* enqueues the requests in the order of the array; when the mutex or the  *)
(* array cannot be had it undoes what it did and the pool never comes up.  *)
(***************************************************************************)
Initialize ==
  /\ phase = "raw"
  /\ \/ /\ phase' = "ready"
        /\ head' = 1
        /\ tail' = NumofConcurrentSend
        /\ numofRequests' = NumofConcurrentSend
        /\ next' = [r \in Requests |-> IF r = NumofConcurrentSend THEN NULL ELSE r + 1]
        /\ free' = [i \in Requests |-> i]
     \/ /\ phase' = "failed"
        /\ UNCHANGED <<head, tail, numofRequests, next, free>>
  /\ UNCHANGED <<mutex, pc, request, held>>

(***************************************************************************)
(* ACCRequestPool_getNewRequest: lock, __ACCRequestList_dequeue, unlock.   *)
(***************************************************************************)
BeginGet(t) ==
  /\ phase = "ready" /\ At(t, "idle")
  /\ Goto(t, "lockForDequeue")
  /\ UNCHANGED <<phase, mutex, head, tail, numofRequests, next, request, held, free>>

\* A slip: the dequeue goes ahead without waiting for the mutex.
LockForDequeueUnguarded(t) ==
  /\ At(t, "lockForDequeue")
  /\ mutex' = t
  /\ Goto(t, "count")
  /\ UNCHANGED <<phase, head, tail, numofRequests, next, request, held, free>>

LockForDequeue(t) ==
  /\ At(t, "lockForDequeue")
  /\ mutex = NoThread
  /\ mutex' = t
  /\ Goto(t, "count")
  /\ UNCHANGED <<phase, head, tail, numofRequests, next, request, held, free>>

\* The three branches of __ACCRequestList_dequeue, up to the first write of head.
DequeueCount(t) ==
  /\ At(t, "count")
  /\ \/ /\ numofRequests >= 2
        /\ numofRequests' = numofRequests - 1
        /\ request' = [request EXCEPT ![t] = head]
        /\ Goto(t, "advance")
     \/ /\ numofRequests = 1
        /\ numofRequests' = 0
        /\ request' = [request EXCEPT ![t] = head]
        /\ Goto(t, "empty")
     \/ /\ numofRequests = 0
        /\ request' = [request EXCEPT ![t] = NULL]
        /\ Goto(t, "clear")
        /\ UNCHANGED numofRequests
  /\ free' = IF free = << >> THEN free ELSE Tail(free)
  /\ UNCHANGED <<phase, mutex, head, tail, next, held>>

\* A slip: the link of the request is cleared before the head is moved along it.
DequeueAdvanceCleared(t) ==
  /\ At(t, "advance")
  /\ head' = NULL
  /\ Goto(t, "clear")
  /\ UNCHANGED <<phase, mutex, tail, numofRequests, next, request, held, free>>

\* self->head = request->next
DequeueAdvance(t) ==
  /\ At(t, "advance")
  /\ IF request[t] = NULL
       THEN phase' = "crashed" /\ UNCHANGED <<head, pc>>
       ELSE /\ head' = next[request[t]]
            /\ Goto(t, "clear")
            /\ UNCHANGED phase
  /\ UNCHANGED <<mutex, tail, numofRequests, next, request, held, free>>

\* A slip: the tail of a list that becomes empty is left as it was.
DequeueEmptyHeadOnly(t) ==
  /\ At(t, "empty")
  /\ head' = NULL
  /\ Goto(t, "clear")
  /\ UNCHANGED <<phase, mutex, tail, numofRequests, next, request, held, free>>

\* self->head = NULL; self->tail = NULL
DequeueEmpty(t) ==
  /\ At(t, "empty")
  /\ head' = NULL /\ tail' = NULL
  /\ Goto(t, "clear")
  /\ UNCHANGED <<phase, mutex, numofRequests, next, request, held, free>>

\* The repair of the empty list: a NULL request has no link to clear.
DequeueClearTested(t) ==
  /\ At(t, "clear")
  /\ next' = IF request[t] = NULL THEN next ELSE [next EXCEPT ![request[t]] = NULL]
  /\ Goto(t, "unlockAfterDequeue")
  /\ UNCHANGED <<phase, mutex, head, tail, numofRequests, request, held, free>>

\* request->next = NULL, which the empty list reaches with request == NULL.
DequeueClear(t) ==
  /\ At(t, "clear")
  /\ IF request[t] = NULL
       THEN phase' = "crashed" /\ UNCHANGED <<next, pc>>
       ELSE /\ next' = [next EXCEPT ![request[t]] = NULL]
            /\ Goto(t, "unlockAfterDequeue")
            /\ UNCHANGED phase
  /\ UNCHANGED <<mutex, head, tail, numofRequests, request, held, free>>

\* A slip: the local is reset before it is handed to the caller.
UnlockAfterDequeueReset(t) ==
  /\ At(t, "unlockAfterDequeue")
  /\ mutex' = NoThread
  /\ request' = [request EXCEPT ![t] = NULL]
  /\ IF phase = "finalizing"
       THEN Goto(t, "lockForDequeue") /\ UNCHANGED held
       ELSE Goto(t, "idle") /\ held' = [held EXCEPT ![t] = @ \union {request'[t]}]
  /\ UNCHANGED <<phase, head, tail, numofRequests, next, free>>

\* Unlock and return: to the getter, which now holds the request, or to the
\* loop of ACCRequestPool_finalize, which drops it and dequeues again, or
\* frees the pool when it got NULL.
UnlockAfterDequeue(t) ==
  /\ At(t, "unlockAfterDequeue")
  /\ mutex' = NoThread
  /\ request' = [request EXCEPT ![t] = NULL]
  /\ phase' = IF phase = "finalizing" /\ request[t] = NULL THEN "finalized" ELSE phase
  /\ Goto(t, IF phase' = "finalizing" THEN "lockForDequeue" ELSE "idle")
  /\ held' = IF phase = "finalizing" \/ request[t] = NULL
               THEN held
               ELSE [held EXCEPT ![t] = @ \union {request[t]}]
  /\ UNCHANGED <<head, tail, numofRequests, next, free>>

(***************************************************************************)
(* ACCRequestPool_returnRequest: ACCRequestList_enqueue clears the link    *)
(* before it takes the lock.  The caller returns a request it holds.       *)
(***************************************************************************)
BeginReturn(t, r) ==
  /\ phase = "ready" /\ At(t, "idle")
  /\ r \in held[t]
  /\ held' = [held EXCEPT ![t] = @ \ {r}]
  /\ request' = [request EXCEPT ![t] = r]
  /\ next' = [next EXCEPT ![r] = NULL]
  /\ Goto(t, "lockForEnqueue")
  /\ UNCHANGED <<phase, mutex, head, tail, numofRequests, free>>

\* A slip: the enqueue goes ahead without waiting for the mutex.
LockForEnqueueUnguarded(t) ==
  /\ At(t, "lockForEnqueue")
  /\ mutex' = t
  /\ Goto(t, "link")
  /\ UNCHANGED <<phase, head, tail, numofRequests, next, request, held, free>>

LockForEnqueue(t) ==
  /\ At(t, "lockForEnqueue")
  /\ mutex = NoThread
  /\ mutex' = t
  /\ Goto(t, "link")
  /\ UNCHANGED <<phase, head, tail, numofRequests, next, request, held, free>>

\* The count, and the head of an empty list or the link of its last request.
EnqueueLink(t) ==
  /\ At(t, "link")
  /\ IF numofRequests = 0
       THEN head' = request[t] /\ UNCHANGED <<phase, next>>
       ELSE IF tail = NULL
              THEN phase' = "crashed" /\ UNCHANGED <<head, next>>
              ELSE next' = [next EXCEPT ![tail] = request[t]] /\ UNCHANGED <<phase, head>>
  /\ numofRequests' = numofRequests + 1
  /\ free' = Append(free, request[t])
  /\ Goto(t, "setTail")
  /\ UNCHANGED <<mutex, tail, request, held>>

EnqueueTail(t) ==
  /\ At(t, "setTail")
  /\ tail' = request[t]
  /\ Goto(t, "unlockAfterEnqueue")
  /\ UNCHANGED <<phase, mutex, head, numofRequests, next, request, held, free>>

\* A slip: the enqueue returns with the mutex locked.
UnlockAfterEnqueueKept(t) ==
  /\ At(t, "unlockAfterEnqueue")
  /\ request' = [request EXCEPT ![t] = NULL]
  /\ Goto(t, "idle")
  /\ UNCHANGED <<phase, mutex, head, tail, numofRequests, next, held, free>>

UnlockAfterEnqueue(t) ==
  /\ At(t, "unlockAfterEnqueue")
  /\ mutex' = NoThread
  /\ request' = [request EXCEPT ![t] = NULL]
  /\ Goto(t, "idle")
  /\ UNCHANGED <<phase, head, tail, numofRequests, next, held, free>>

(***************************************************************************)
(* ACCRequestPool_finalize, called by the thread that deletes the client   *)
(* once no other thread is inside a call.  Its loop dequeues until it gets *)
(* NULL, and then frees the pool.                                          *)
(***************************************************************************)
BeginFinalize(t) ==
  /\ phase = "ready"
  /\ \A u \in Threads : pc[u] = "idle"
  /\ phase' = "finalizing"
  /\ Goto(t, "lockForDequeue")
  /\ UNCHANGED <<mutex, head, tail, numofRequests, next, request, held, free>>

\* The steps a thread takes once it is inside a call of the pool.
Continue(t) ==
  \/ LockForDequeue(t)
  \/ DequeueCount(t)
  \/ DequeueAdvance(t)
  \/ DequeueEmpty(t)
  \/ DequeueClear(t)
  \/ UnlockAfterDequeue(t)
  \/ LockForEnqueue(t)
  \/ EnqueueLink(t)
  \/ EnqueueTail(t)
  \/ UnlockAfterEnqueue(t)

Next ==
  \/ Initialize
  \/ \E t \in Threads :
       \/ BeginGet(t)
       \/ \E r \in Requests : BeginReturn(t, r)
       \/ BeginFinalize(t)
       \/ Continue(t)

Spec == Init /\ [][Next]_vars

\* A thread inside a call is scheduled; nobody is obliged to make one.
FairSpec == Spec /\ \A t \in Threads : WF_vars(Continue(t))

-----------------------------------------------------------------------------
(***************************************************************************)
(* Properties.                                                             *)
(***************************************************************************)

\* The steps of a call during which `request' is on its way between the list
\* and the caller: unlinked and not yet handed over, or given back and not
\* yet linked.
InFlightLabels ==
  {"advance", "empty", "clear", "unlockAfterDequeue", "lockForEnqueue", "link"}

LockedLabels ==
  {"count", "advance", "empty", "clear", "unlockAfterDequeue",
   "link", "setTail", "unlockAfterEnqueue"}

Labels == LockedLabels \union {"idle", "lockForDequeue", "lockForEnqueue"}

InFlight(t) ==
  IF pc[t] \in InFlightLabels /\ request[t] # NULL THEN {request[t]} ELSE {}

LeasedBy(t) == held[t] \union InFlight(t)

\* The variables have their types.
TypeOK ==
  /\ phase \in {"raw", "ready", "finalizing", "finalized", "failed", "crashed"}
  /\ mutex \in Threads \union {NoThread}
  /\ head \in Pointers /\ tail \in Pointers
  /\ numofRequests \in Nat
  /\ next \in [Requests -> Pointers]
  /\ pc \in [Threads -> Labels]
  /\ request \in [Threads -> Pointers]
  /\ held \in [Threads -> SUBSET Requests]
  /\ free \in Seq(Requests)

FreeDistinct == \A i, j \in 1 .. Len(free) : free[i] = free[j] => i = j

FreeNotLeased == \A i \in 1 .. Len(free), t \in Threads : free[i] \notin LeasedBy(t)

LeasesDisjoint ==
  \A t, u \in Threads : t # u => LeasedBy(t) \intersect LeasedBy(u) = {}

NoneLost ==
  phase = "ready" =>
    \A r \in Requests :
      \/ \E i \in 1 .. Len(free) : free[i] = r
      \/ \E t \in Threads : r \in LeasedBy(t)

\* No request is ever in two hands: none is twice in the list, none is in the
\* list and with a thread, none is with two threads; and until the pool is
\* finalized none is lost.  This is what callers of getNewRequest and
\* returnRequest rely on while other threads are inside the list.
RequestsConserved == FreeDistinct /\ FreeNotLeased /\ LeasesDisjoint /\ NoneLost

\* Whenever the mutex is free, head, tail, the count and the links describe
\* exactly the FIFO of free requests, with a NULL-terminated last link: what
\* the next thread to lock the list assumes of it.
ListIsFree ==
  mutex = NoThread =>
    /\ numofRequests = Len(free)
    /\ head = IF free = << >> THEN NULL ELSE free[1]
    /\ tail = IF free = << >> THEN NULL ELSE free[Len(free)]
    /\ \A i \in 1 .. Len(free) :
         next[free[i]] = IF i = Len(free) THEN NULL ELSE free[i + 1]

\* A NULL pointer is dereferenced only by a dequeue of a list that is really
\* empty, never because another thread left head or tail behind.
CrashOnlyWhenEmpty == phase = "crashed" => free = << >> /\ numofRequests = 0

\* Every thread that locks the list lets it go again, unless the process dies.
LockReleased == \A t \in Threads : mutex = t ~> (mutex # t \/ phase = "crashed")

\* A finalize that starts always ends in the NULL dereference of the dequeue
\* that finds the list empty: AsyncCommClient_delete never returns.
FinalizeNeverReturns == phase = "finalizing" ~> phase = "crashed"

Fifo == INSTANCE RequestFifo WITH leased <- [t \in Threads |-> LeasedBy(t)]

\* The pool is a FIFO of requests: each get takes the oldest free request in
\* one step, each return appends one, whatever the threads interleave.
ImplementsFifo == Fifo!FifoSpec

=============================================================================
