# A verification project for `junk`

The repository collects small programs that have little to do with each
other. This project models, one by one, the programs whose correctness depends
on an order of events that a test does not control, checks the models with TLC
and proves what matters most with TLAPS.

## 1. Inventory

| Part | Source | State | Operations | What is hard |
|---|---|---|---|---|
| Request pool of AsyncCommLib | `lib/AsyncCommLib/AsyncCommClient.c` 404-597 | a mutex, a linked list (`head`, `tail`, `numofRequests`, the `next` of each request), an array | `initialize`, `getNewRequest`, `returnRequest`, `finalize` | several threads on one list; the pool at its limit |
| AsyncCommLib client, C | the same file, 157-303 and 709-890 | a configuration, a pool, one socket number | configure, `create`, `connectServer`, `disconnectServer`, `send`, `cancel`, `delete` | requests and descriptors that nobody gives back; a socket number that is stale |
| AsyncCommLib client, C++ | `AsyncCommClient.cpp` 11-40 | none between calls | `connect` | one socket, several endpoints, exceptions |
| Lock-free stack | `spin/lockfree-stack/lockfree-stack.prom` | `gStack.top`, `gNodes[].next`, counters | push, pop, final check | two compare-and-swap loops |
| Lock-free queue | `spin/lockfree-queue/lockfree-queue.prom` | `head`, `tail`, `actualHead`, `gNodes[].next` | enqueue with a deferred sweep, dequeue, monitor | one word that two processes write, a sweep in two steps |
| Worker scheduler | `ex/atcoder/hokudai-hitachi2022_a/main_A.cpp` | a graph with a table of routes and a kept search per vertex; jobs; one schedule of time slots per worker | ask for a route, reserve, plan, fill blank slots, print | a search stopped and taken up again; slots must tile the time line; a job is reserved once |
| Rectangle search | `ex/atcoder/ahc014/main.cpp` | a ranking of nodes, each with its points, edges and candidates; the sets of edges explored | process one node, erase, print | candidates found early and used late; nodes dropped and erased |
| Address book | `qt/address_book/addressbook.cpp` | a map of contacts, two fields, buttons | add, submit, cancel, next, previous | long sequences of legal clicks |
| Interrupted writes | `c/eintr/eintr.c` | a socket pair, a write position | writer, reader, signals, close | short counts, EINTR, a close under both threads |
| FIFO, queue, pipe | `c/clangprogramming/*.c` | a name in the file system | make, write, read, unlink | an exit half way |
| Traceroute | `golang/icmp2/main.go` | the current hop, the paths found | send, wait, validate | an answer that comes after its deadline |
| Pong | `bin/pong/pong.cpp` | `nsent`, the send buffer | SIGALRM sends, a loop receives | a handler between any two instructions |
| Wiki | `golang/go_tutorial/codelab/gowiki/httpHandle3.go` | one file per page | view, edit, save | concurrent handlers, errors dropped |
| Commander | `golang/console/commander/commander.go` | a list of commands | add, execute, help | little |
| PLC interpreter | `bin/plcst` | the program last parsed | parse | the grammar is in library templates |
| The rest | see `components` in `PROJECT.json` | | | pure functions, drawings, scripts |

How they interact: a program here seldom calls another. The exception is
AsyncCommLib, where the client calls the pool, the pool calls the list, and
the list is shared by the threads of the application; the models follow that
structure. The processes of each Promela model interact through shared
variables only.

What makes each part correct:

* **pool** - a request is never with two threads, nor with a thread and in the
  list; the list that the next thread to lock it finds is whole; nobody keeps
  the mutex; a NULL pointer is not followed except where the pool is empty;
* **client** - a send with valid arguments is accepted while a request is
  left; each call leaves the descriptors of the rest of the program alone; what
  the client opens it closes;
* **stack** - each successful compare-and-swap is a push or a pop; no
  interleaving cuts the list; the run ends and its final assertions hold;
* **queue** - the monitor's assertions; no index is NULL; nodes come in order;
  none is lost;
* **routes** - a search never dequeues from an empty queue and answers every
  question; a route is a drive along roads, as long as the table says; an answer
  given stays as it is;
* **scheduler** - the slots of a schedule tile the time line, a job has one
  worker, a worker is where its next action starts, there is one string to
  print for each turn, and the turns are those the contest allows;
* **rectangle search** - an answer can be drawn in its order, the best answer is
  never lost, and a search that ends has missed nothing but what it takes to be
  explored;
* **address book** - what the fields show is a contact of the map, outside the
  adding mode, and browsing finds all of them;
* **writes** - the reader gets the writer's bytes in order, once, and the
  program ends; **wiki** - a page holds what its last save wrote, and a view
  shows what was saved; **traceroute** - a path names a router that its hop
  can have reached, unless a message for another program was taken for its answer.

The hazards of the code, each at its line and with the properties that cover
it, are in `hazards` of `PROJECT.json`.

## 2. Modules

| Module | Models | Role |
|---|---|---|
| `RequestFifo` | what the pool promises | abstract specification |
| `ACCRequestPool` | pool and list, at the granularity of single writes | implements `RequestFifo` |
| `ACCRequestPool_proofs` | | theorems |
| `AsyncCommClient` | the C interface | composed with `RequestFifo` and a descriptor table |
| `AsyncCommClient_proofs` | | theorems |
| `AbstractStack` | a last-in first-out stack | abstract specification |
| `LockfreeStack` | the three processes of the stack | implements `AbstractStack` |
| `LockfreeStack_proofs` | | theorems |
| `LockfreeQueue` | enqueuer, dequeuer, monitor | |
| `LockfreeQueue_proofs` | | theorems |
| `RouteGraph` | `Graph::getTrajectory` and its kept searches | |
| `WorkerScheduler` | the planner, on the table `RouteGraph` answers from | |
| `ContestDay` | what workers may do in a day of the contest | abstract specification |
| `WorkerOutput` | the strings written for the schedules, and the turns that follow them | extends `WorkerScheduler`, implements `ContestDay` |
| `WorkerScheduler_proofs` | | theorems, of both |
| `RectangleSearch` | the geometry and the tree of the search | |
| `ContestSearches_proofs` | | theorems of `RouteGraph` and `RectangleSearch` |
| `AddressBook` | the slots of the form | |
| `AddressBook_proofs` | | theorems |
| `InterruptedWrites` | the three threads and their socket pair | |
| `WikiPages` | the handlers over the files | |
| `Traceroute` | the search, the network and the raw socket | |
| `IOPrograms_proofs` | | theorems of `InterruptedWrites`, `Traceroute` and `WikiPages` |
| `MC...`, one for each component | | instances for TLC |

An operator introduced by the words "A slip" is not the code's. It is the
definition that follows it with a mistake a maintainer could make, and shows,
put in its place, that the properties notice.

### ACCRequestPool

A request is its index in the array `requests`, NULL is 0. `head`, `tail`,
`numofRequests` and `next` are the fields of the code; `pc[t]` and `request[t]`
are the place and the local variable of thread `t`. An action is the code
between two accesses that another thread could see if the mutex did not keep
it out, so a thread that entered the list without the lock would really
interleave there. `LockForDequeue` to `UnlockAfterDequeue` are
`ACCRequestList_dequeue`, `BeginReturn` to `UnlockAfterEnqueue` are
`ACCRequestList_enqueue` (whose write of `next`, line 453, comes before the
lock). `numofRequests` and the first of the two pointer writes of a branch share
an action; no other thread reads either without the lock.

A NULL dereference (the dequeue of an empty list at line 496) is undefined in
C; on the hosted systems the library is written for it ends the process, which
is `phase = "crashed"`: no thread takes another step and the mutex stays
locked. `ACCRequestPool_finalize` is in the model with its whole loop,
including the exit that frees the pool (`phase = "finalized"`);
`FinalizeNeverReturns` says that the exit is never taken. A caller returns only
requests it holds, and deletes the client when no other thread is in a call.
The counter is a 32-bit word that never exceeds `numofConcurrentSend`, itself a
32-bit word, so it cannot wrap. `free`, the requests in the list, oldest first,
is a history variable.

### AsyncCommClient

One client, several threads. The pool appears as `Pool == INSTANCE RequestFifo`:
a send performs `Pool!Get` or, with nothing left, `Pool!Exhaust`; a delete
performs `Pool!StartFinalize`, then `Pool!Drain` and `Pool!Drop` by turns. That
the linked list implements these steps is what `PoolImplementsFifo` proves.
`owner` is the descriptor table of the process: `socket(2)` gives the lowest
closed number, and the rest of the program opens and closes numbers of its own.
`create` does not set `socket`, so its first value is any number. A connect is two steps, the store
of the new number at line 802 and the read of the field at line 809, because
the field has no lock.

Arguments of a send are one of five classes: all valid, or one that is not
(`noSelf`, `noCallbacks`, `noData` - which stands for a NULL buffer and for a
size of zero - and `noSendId`). `disciplined` remembers whether the application
has so far connected only without a session and disconnected only with one, one
thread at a time; properties about descriptors are about such an application,
since the interface promises nothing to others. `disconnectServer` and `send`
with other misuse (after `delete`) are not modelled.

### LockfreeStack and LockfreeQueue

Actions are Promela statements, or `atomic` blocks, together with tests of
data that only the process itself writes. `NULL` is -1 as in the source.
`chain` and `popped`, and `delivered` in the queue, are history variables. The
queue's monitor is not a process: its assertions are an invariant, checked in
every state, which is what an `atomic` block in a loop of its own amounts to. The
`init` process of the queue offers `fire` for ever, so that the reception is always
enabled. A `fire` that finds the queue empty changes nothing and is a
stuttering step.

### RouteGraph

A graph is the length of the road between two vertices, 0 for none; `edges` is
one of `Roads`, all connected. `trajectory[s]`, `queue[s]` and `memo[s]` are the
entries of `_trajectory`, `_priorityQueues` and `_priorityQueuesMemo` for the
start `s`; a queue holds ends, since a trajectory in the queue is the one in the
table. `AnswerFromTable` and `StartSearch` are the two outcomes of the test at line
247 and `Search` is one turn of the loop; which of the shortest the heap gives
is open. A dequeue from an empty `std::priority_queue` is undefined and is the value
`Undefined` of `query`: it is an outcome of `Search`, and `NeverDequeuesEmpty` says
that it does not occur.

The search is not Dijkstra's, and its routes need not be the shortest: a vertex
gets its route from the first neighbour to leave the queue. `LastRoadFromNearest`
says what it does give.

### WorkerScheduler and WorkerOutput

`Route` is the table, a constant: the planner asks and never changes an answer.
`BeginSchedule` is a turn of `makeOutput1ForA`, `TakeJob` and `NoJobLeft` are a turn
and the end of the greedy loop, `FillMoves` and `FillStays` the two passes over
the blank slots. The rating that chooses among the jobs that fit is left open, so
that what is checked holds for any rating. The reward function is reduced to
where it is positive, which is all the planner's tests ask. An assertion that
fails sets `aborted` and stops the program.

`WorkerOutput` adds the rest of the program. Before the planner goes on (`Plan`) all
the schedules there are have been written: `WriteStay`, `WriteExecution`, `WriteRoad` and
`EndMove` are `makeActionStrings` of the next slot in the order of start times, a
move road by road (`leg` is the loop's index). `Turn` is a turn of `runForA`,
which reads a string of every worker. What a string means to a worker (`After`,
`CanFollow`) is not in the source but in the rules of the contest; it is the reference
the strings are held against, and external in the map. `RouteAssumption` is what the planner
takes for granted of the table: a road of a route is itself a route, and
distances add up along the stops. `RoutesSuitThePlanner` proves
of `RouteGraph` that this is so for every route its table holds.

`ContestDay` is the day as the contest sees it, without slots and strings: in each turn
every worker stays, sets out on a road, drives on or executes a part of a job. Besides the
rules it says what the planner promises by reserving each job for one worker: nobody
else begins it, and it is not left half done. The mapping is the identity
on the jobs, the turn, the places and what has been executed; a `Turn` is a turn of the
day, and planning and writing are stuttering steps.

What only problem B uses, the plan by dynamic programming and the weather are not
called by `main` and not modelled.

### RectangleSearch

A rectangle is its corner `p2`, the two corners beside it and the new point `p4`; an
edge is the set of its pieces of one step, which is what `EdgeSet` stores. A node
of the tree is its answer, its score, its candidates and its mark; the points and the
edges that the code stores in a node are functions of the answer. `DrawingInit`
is the constructor of `Tree` up to the children of the root. `ProcessOneNode` begins a turn of
the loop of `main`: the erasures on the way to the node, the sanitising of its
candidates and those found for its newest point. Its children are then made one by
one, in any order, since the order of a hash table is nobody's choice: `RankChild` or,
if its edges have been explored, `DropChild`; `MarkAsDone` ends the turn. `parent` and
`untried` are the node and the candidates left. `RankChild` is open to a child whose
edges have been explored as well: the hash of a set of edges (line 259) is made from
the first edge in the order of its own table, which need not be the same in two equal
sets, so that the table of explored sets may miss one that it holds. `exploredSpace`
keeps the nodes that are done, of which the code keeps the sets of edges; a guard
compares nothing but the edges. `DoneAllNodes` and `TimeIsUp` are the two
ends of the loop; the clock is read between two nodes only. The score of the root,
which nothing initialises and every node inherits, is taken as the zero of all scores.

### AddressBook

An action is a slot of the form or an edit of a field by the user, and is
enabled when its button is shown and enabled. Texts are numbers in the order in which
the map sorts them, 0 the empty one. `editing` stands for the read-only flags and the
buttons that change together. `QMap` is modelled from its use: `First`, `Last`
and `Successor` are its iterators.

### InterruptedWrites

`main`, `writer` and `reader` are the places of the three threads; `open` holds the
descriptors that are open, and a call keeps its end of the pair alive (`InUse`)
after its descriptor is closed. A write sends byte by byte, waits for room, and is
cut short by a signal or by the death of the other end; with nothing sent it fails, by
SIGPIPE, whose default is to end the process, or by an error that ends the
thread. A byte carries its index in the writer's buffer, so that one from
past its end would show. `raise` directs its signal at the calling thread.

### WikiPages

A request is served by a goroutine of its own. `SaveOpen`, `SaveWrite` and
`SaveAnswer` are `ioutil.WriteFile` in its pieces and the redirect, which is sent
after any of them, because the error of `save` is dropped: a save that
answers before its last write is one that failed. `LoadOpen`, `LoadRead`,
`LoadFails` and `Render` are the same for a view or an edit. `lone` and `still`
remember which saves and reads nothing has been in the way of, and no guard
reads them.

### Traceroute

Each echo is answered by the router of its hop, or not at all. Answers are in
`network` until they arrive, in any order and at any time, and then in `socket`
in the order of their arrival, with messages between them that no echo of this search
has provoked (`ArriveForeign`, at most `MaxForeign`, the one bound that stands in a guard).
Those are about the echoes of another program or of an earlier run, or are answers delivered
twice; they may come from any router, the routers of the route and the destination included,
and each has a number, so that the message a path was named by can be told from the others.
The route is the same for all echoes of a search. A timeout is possible
whenever the socket is empty. `Valid` is the test of an answer: a time-exceeded
message is compared with nothing, an echo reply is accepted if its own time to
live is its sequence number less one.

## 3. Runs

| Run | Instance | Shows |
|---|---|---|
| `request_pool` | 3 threads, 3 requests | `RequestsConserved`, `ListIsFree`, `CrashOnlyWhenEmpty`; that the list implements `RequestFifo`; that the mutex is always released and that a finalize never returns |
| `client` | 2 threads, 2 requests, 3 descriptors | `SendBudget`, `DeathIsExplained`, `SessionOwnsSocket`, `LeaksAreFailedConnects`, `AppKeepsDescriptors` |
| `client_send` | the same module | `ValidSendAccepted` fails: finding 1 |
| `lockfree_stack` | 6 nodes | `ChainIsReachable`, `PostConditionHolds`, `Terminates`; that the processes implement `AbstractStack` |
| `lockfree_queue` | 8 nodes | `MonitorInvariant`, `NodesAreIndexed`, `DeliveredInOrder`, `DeliveredAtMostTwice`, `EveryNodeDelivered` |
| `route_graph` | every connected graph within a ring of 4 vertices and a way out to a fifth, with roads of length 1 and 3 | `NeverDequeuesEmpty`, `LastRoadFromNearest`, `AnswersAreFinal`, `QueriesAnswered` |
| `worker_scheduler` | 2 workers, every list of 3 jobs of 7 kinds, a day of 8 | `NoAssertFails`, `ScriptsCanBeFollowed`, `EveryDayEnds`; that the program implements `ContestDay` |
| `address_book` | 3 texts and the empty one | `ShownIsAContact`, `BrowsingGoesRound` |
| `interrupted_writes` | blocks of 3 bytes of 3 values, reads of 2, a socket of 4, 2 signals | `StreamIsBlocks`, `Terminates` |
| `wiki_pages` | 3 requests, bodies of 0 to 2 blocks | `LoneSaveIsKept`, `PagesAreShownWhole` |
| `rectangle_search` | a 7 by 7 grid, every set of 4 points of a 4 by 4 corner of it, and the 8 points of `Twins` | `AnswersCanBeDrawn`, `BestIsNeverLost`, `MissesNothing` |
| `traceroute` | 5 hops, the destination at 4, 2 foreign messages | `PathsNameRoutersInReach` |

**Bounds.** Three requests are the fewest for which the list has a first, a
last and one between, so that each of the three branches of a dequeue and both
of an enqueue run in every order; three threads are enough for one to hold the
lock, one to wait and one to be about to. With two requests a client can
accept, be at its limit and exceed it; three descriptors hold a leaked socket,
a session and a descriptor of the application at once. The Promela models have
ten and four nodes; the stack is checked with six, enough for each process to
interrupt several rounds of the other, and the queue with eight, twice the
original, so that it can run dry and be refilled several times. Five vertices are
the fewest for which a search can be stopped at a goal that two roads lead to and
taken up for another beyond it, and roads of two lengths the fewest for which the
nearest and the first discoverer differ. The jobs cover every branch of a plan: rounds with a remainder,
a wait for the opening, a way through another vertex, a type only one worker has,
a prior job, one that never fits. Three contacts have a first, a last and
one between. Blocks of three bytes in a socket of four leave a write waiting with
some of its bytes sent, and three values wrap round. Three requests are two saves
and a read, or two reads and a save; bodies of two blocks, one block and none
show a truncation. Over the sets of four points all shapes of a rectangle, both slopes,
chains of rectangles and two orders of the same edges occur; from `Twins` the same edges
can be drawn as different rectangles, with different points. With the destination at
hop four an answer can be late by one, two or three hops, and a router that is not the next
can be named early and named again at its own hop; with two foreign messages one path
may be spoilt or two. The only bound in a
guard is `MaxForeign`. The theorems hold for every value of these constants.

**Deadlock** is checked in `route_graph`, `worker_scheduler` and
`address_book`. The other programs stop, and their runs do not check it:
the pool and the client in a NULL dereference, the stack when `init` is done,
the queue when the enqueuer is done and nothing is left to dequeue, the writes
when `main` returns or is killed, the rectangle search and the traceroute when their
result is returned, the wiki when its requests are answered. In `worker_scheduler` the
end of the day is a stuttering step (`Finished`), so that stopping anywhere else,
for want of a string or of a slot to write, is a deadlock.

**Fairness.** `request_pool` assumes weak fairness of the steps a thread takes
inside a call, which is what a scheduler gives a runnable thread; nobody is
obliged to begin a call, and the lock itself is only weakly fair.
`LockReleased` and `FinalizeNeverReturns` need no more. `lockfree_stack` and
`lockfree_queue` assume weak fairness of each process, the option `-f` under
which SPIN checks liveness; for the queue this includes that `init` fires.
`route_graph` and `worker_scheduler` assume that one thread runs its loop to the
end (weak fairness of `Search`, and of `OutputNext`). `interrupted_writes` assumes weak
fairness of each of the three threads, a call under way included: the kernel
returns from a call when it can. `client`, `address_book`, `wiki_pages`,
`rectangle_search` and `traceroute` check safety only and assume none.

### Findings

1. `__AsyncCommClient_isInvalidArgsForSend` has its results the wrong way
   round (lines 841 and 843): a send with valid arguments is refused and one with
   invalid arguments goes ahead. The test of a send expects `true`
   (`AsyncCommClient_test.cpp:722`, commented out).

Passing properties that describe what a caller would not expect:

* `FinalizeNeverReturns` - `AsyncCommClient_delete` always faults, because its
  loop waits for a NULL that the dequeue cannot return;
* `SendBudget` - no request ever returns to the pool, so `numofConcurrentSend` limits
  the sends of a client's whole life; `DeathIsExplained` - the next one faults;
* `LeaksAreFailedConnects` - each connect that fails leaves a descriptor open;
* `DeliveredAtMostTwice` - the queue may deliver a node twice;
* `MissesNothing` - a search that ends need not have found the best. The edges of a
  drawing do not determine its points, so a child is dropped for the edges of another
  drawing, after which less may be possible. From (0,1) (0,3) (1,0) (1,3) (2,4) (3,0)
  (3,1) (4,0) (4,3) on a 5 by 5 grid the program, left to run to its end, prints a
  drawing of score 36 where there is one of 40. The property says what does hold:
  whatever could be drawn after a drawing that was explored was explored, or another
  drawing of the same edges was;
* `LastRoadFromNearest` - a route's last road comes from the nearest neighbour
  discovered, so that the route as a whole need not be the shortest;
* `PathsNameRoutersInReach` - a time-exceeded message for another program of the host is taken for
  the answer of the hop in progress (line 71), so that a path may name a router farther away
  than its hop, and the same router be named again at its own hop: the property counts these;
* `ShownIsAContact` - after a cancel the address field holds the contact's name
  (line 118 puts `oldName` there);
* `StreamIsBlocks` - a short count moves the write position by what was *not* sent
  (line 90), but none occurs while anyone reads: the signals go to the thread
  that raises them. The slip `AnyThread` shows that the stream breaks
  as soon as they do not;
* `Terminates` (writes) - one way for the program to end is by SIGPIPE, which it
  does not handle;
* `LoneSaveIsKept` - a save that fails leaves a part of its body and tells
  the client nothing;
* `PathsNameRoutersInReach` - a late answer is taken for a nearer router on a
  farther hop, and a message for another program for an answer.

## 4. Proofs

Each `_proofs` module proves, for every value of the constants, the safety
invariants of its components from an inductive invariant that TLC checked
first, on the instance of the component's run. It is called `IInv`, and where a module
has several components `TracingInv`, `WikiInv` and `DrawingInv`. Every invariant and every
action property of the runs is stated by a theorem, and so are all three refinements.

* **Pool** (`NumofConcurrentSend` at least 1, which `AsyncCommClientConfig_isValid`
  ensures, and any set of threads). `ListIsFree` speaks of states in which the
  mutex is free. `IInv` says what the list looks like in between: `LinksInv`
  (the links of the free requests are right at every step), `HeadInv` and `TailInv`
  (`head` and `tail` lag behind only while some thread is between its writes),
  `LocalInv` (what that thread knows of its local request), `LockInv` (a thread is in
  the critical section exactly when it owns the mutex) and `PhaseInv`. There is
  one lemma per action. `PoolConservesRequests`, `PoolListIsFree` and
  `PoolCrashOnlyWhenEmpty` follow, and so does `PoolImplementsFifo`: the abstract get is
  the step that decrements the count, the abstract return the one that
  increments it, and every other step but a crash leaves the FIFO alone.
* **Client** (any number of threads, requests and descriptors). Four of the five
  properties proved are inductive once two facts are added: before there is
  a client nothing was sent and no call is under way (`RawInv`), and the threads of
  a disciplined application connect one at a time (`ConnectInv`). Without the
  second a connect that fails could end the session of another one.
  `AppKeepsDescriptors` follows from `SessionOwnsSocket` and from the kernel giving
  only closed descriptors (`LowestIsClosed`); the leak is counted with the
  library's theorems about cardinality.
* **Stack** (any positive number of nodes). `IInv` adds to `ChainIsReachable` that
  the nodes of the chain are distinct and already pushed, that the node being linked
  is in no chain, and that the counters agree with the lengths of `chain` and
  `popped`. The two facts about linked lists that carry the proof, what a push
  and a pop do to one, are lemmas apart from the processes
  (`PushRepresents`, `PushFresh`, `PopRepresents`). The assertions of `init`
  follow because the walk of its loop is a walk along the chain
  (`StackPostCondition`). `StackImplementsStack` maps both successful
  compare-and-swaps to the abstract push and pop.
* **Queue** (any positive number of nodes). `IInv` says how far `head`, `actualHead`,
  `tail` and the dequeuer's index may lie apart at each place of the two
  processes, from which the monitor's assertions, the order of delivery
  and the bound of two follow by arithmetic.

* **Routes** (any vertices and any set of connected graphs). The table and the marks
  agree, the neighbours of a vertex that left the queue are all marked
  (`SettledAreClosed`), and none that left it is farther than one still in it
  (`SettledAreNearest`). A queue that is empty has then marked a set closed under
  roads, which is every vertex of a connected graph, so a goal not marked keeps
  it from being empty; `RoutesNeverDequeueEmpty`, `RoutesLastRoad` and
  `RoutesAreRoutes` follow. The last says that a trajectory is its predecessor's with one
  road added; no run checks it, because the other two fail with it.
  `RoutesSuitThePlanner` looks at a whole trajectory instead of its last road, which
  needs an invariant of its own (`PartsInv`): every road of a trajectory leads between two
  vertices the table knows and lengthens the one's trajectory to the other's
  (`RoutesHaveParts`), and the single roads the constructor put in are never replaced
  (`RoadsAreKnown`). A trajectory made by a search is an older one with such a road
  added (`PartsGrow`), and old ones stay. `RoutesAreFinal` says so of all: the planner
  asks for a distance when it places a job and again for the route when it lays the move, many
  searches later, which is why `WorkerScheduler` may take routes for constants.
  `RoutesEachTurnSettlesOne` and `RoutesTurnsAreBounded` are the part of `QueriesAnswered`
  that needs no fairness: a turn of a search takes a vertex out of the queue for good, which
  is not the goal, and in a finite graph that cannot go on.
* **Planner** (any workers, jobs, distances and any `Tmax` of at least 1, with a distance
  of zero only from a vertex to itself). `IInv` says that schedules are well
  formed, that in the greedy loop the last slot ends where and when the worker is
  (`GreedyIsLast`), and that until the moves are filled in there is time to drive
  from each part of a schedule to the next (`TimeToDrive`).
  `PlannerNoAssertFails` follows. The moves then join each part to the next
  (`Joined`) and the stays close what is left, so that every slot, and the home at
  the start of the day, is followed by one that begins when and where it ends, up to
  `Tmax + 1` (`Tiled`, `WithinTheDay`): `PlannerTilesTheDay`. Its argument is that of
  the nearest later slot, which exists because a set of naturals has a least one
  (`LeastExists`, from the well-foundedness of the subsets of a finite set).
* **Planner's strings** (the same, and routes as in `RouteAssumption`). The program with its
  output makes the planner's steps and others that leave its variables alone
  (`OutputMakesPlans`), so `IInv` carries over. Three layers are added to it. `PlanInv`: what
  a slot stands for is true (a job's slot is at its vertex, within its time and as
  long as the worker takes; a move's is as long as the way), and a reserved job has
  exactly one slot in all the schedules. `WritingInv`: the strings of a worker are
  written up to the end of a slot, or to a stop of the move that follows it,
  so that string number *t* is what the slot around time *t* says (`IsSaid`).
  `FollowInv`: the worker is where the slot around the current turn says, a move by the road
  it is on (`OnRoad`), and has executed of each job what its slot comes to by now.
  `PlannerScriptsCanBeFollowed` then reads the tiling once more: there are exactly
  `Tmax` strings, each can be followed where it is read, and at the end of the day each
  reserved job is executed whole, by one worker. That the rounds of a job add up to its tasks
  is the division of `ExecutionTime`, rounded up, against `getTaskListToExecute`, which never
  divides. `OutputImplementsContestDay` needs the same invariant, and says more than the
  strings at the end of the day: at every turn what has been executed of a job is within
  its tasks (`ExecutionIsWithin`) and all of one worker, as the job has one slot. Which action
  of `ContestDay` a worker takes is told by its string (`WorkerDoesAsItMay`).
* **Rectangle search** (any grid, any initial points). The candidates of a node in the
  ranking may be forbidden by points and edges that came after they were found, so `DrawingInv`
  asks of them only that they are rectangles on the node's points (`RankingIsSound`), and of the
  node being processed that its candidates can be drawn now (`ParentIsSound`): what
  the sanitising removes and the search of the newest point adds is just what lies between
  the two. `DrawingsCanBeDrawn` follows. `DrawingKeepsTheBest`, an action property, needs the ranking to be
  sorted (`DrawingKeepsOrder`): erasing done nodes but the first and inserting behind
  equals both keep the best in front. `DrawingHasOnePlace` shows that a child always has exactly
  one place, so that the model of the insertion neither blocks nor chooses.

  `DrawingMissesNothing` is about the end of a search, so its invariant (`MissInv`) says what
  is still to come. A drawing is `Covered` when one of the same edges has been explored or
  when it waits in the ranking itself. Of every node explored, all that can be drawn next
  leads to covered drawings (`ExploredAreClosed`), and of the node being processed all
  but what is left in `untried` (`ParentIsClosed`). For that, the candidates of a node in
  the ranking must be complete but for those that use its newest point
  (`RankedAreComplete`), as only these are searched for when its turn comes: a rectangle that
  can be drawn now and does not use the newest point could be drawn before
  (`DrawableBefore`), because what is drawn adds one point and its own edges
  (`OneMoreDrawn`). Erasing spares what waits (`ErasingSpares`), and none explored is better
  than the first of the ranking, where it has been itself (`NoneIsBetter`).

  `DrawingNodesAreDistinct` and `DrawingIsProcessedOnce` rest on `OnceInv`: a drawing that is
  ranked or explored has a parent that was processed (`ParentsAreKnown`), and one that was not
  processed yet has no children (`UndoneAreNew`, `ParentIsNew`). The first theorem
  justifies the model, which finds the node that is done by its answer where the code
  has a pointer. Neither needs the table of explored edges, which saves no work on one
  drawing, only on other drawings of its edges.
* **Address book** (any set of texts, any number of contacts). `ShownIsAContact` is
  inductive once `OldIsAContact` is added: the name that cancel goes back to is a
  contact all the while one is edited. `AddressBookGoesRound`, that next goes round
  all the contacts, needs no induction over them: a closed set has a last contact,
  which must be the last of all, so it has the first one too, and the first contact
  left out would follow one that is in it.
* **Writes** (any sizes). `IInv` adds that no call is ever interrupted, and that, while
  anyone can read, the write position is at the start of the buffer and the
  writer's next byte follows the newest in the stream (`WriterFollows`).
* **Traceroute** (any number of hops, any distance, any number of foreign messages of any
  router). The paths do not say which message named them, so `TracingInv` says that there is
  an account of it: a sequence `told` of the messages' numbers, no two the same, those of
  echoes no later than their hop (`Accounted`). While the search is under way, only answers
  to echoes already sent and foreign messages that have come are in flight or unread, each in
  one place, and none of them is in the account (`Unread`). A step that names a path
  extends the account. The paths with a foreign number are as many as foreign messages at most
  (`FewAreSpoilt`, by the pigeonhole principle), and the others were named by answers that
  can be late but not early, hence `TracingNamesRoutersInReach`. Nothing is assumed of the
  constant `Stranger`.
* **Wiki** (any requests, bodies of any length). `LoneInv` is what a save that nothing was
  in the way of is owed: its page is the prefix of its body as far as it has got, and
  no other save of the page is under way; `StillInv` is the same for a read.
  `FilesInv` says that every block of a page is in the place it has in some save's body,
  whatever saves ran together. `WikiKeepsLoneSaves` and `WikiShowsPagesWhole` follow, the latter
  an action property of the moment the page is rendered.

The type invariant of each of these modules is a conjunct of its inductive invariant, and
has a theorem of its own (`DrawingInductive` for the rectangle search).

Only model-checked:

* the liveness properties (`LockReleased`, `FinalizeNeverReturns`, both `Terminates`,
  `EveryNodeDelivered`, `QueriesAnswered`, `EveryDayEnds`) and the absence of deadlock:
  they rest on fairness and `ENABLED`, which the provers do not handle;
* that the table of `RouteGraph` has a route for every two vertices when the planner
  asks for it, which is the liveness of the search. `RoutesSuitThePlanner` is about
  the routes it holds.

The assumptions on constants are those the code or the rules of its input give:
`NumofConcurrentSend` at least 1, at least one node, `MaxHop` and the block sizes at
least 1, graphs that are connected, routes as the table gives them. TLC
evaluates each of them in the run of its component.

## 5. Plan

Modelled, as planned: the scheduler with its output, the interrupted writes, the address book,
the traceroute, the wiki and the rectangle search. Proved, as planned: from the tiling of the day
to the strings and to a day of the contest, the traceroute, the wiki and the search. What is left:

1. `AsioConnect`: the loop over endpoints of the C++ client; `Pong`, whose handler
   shares only the socket with its loop.
2. How much a search can lose by a drawing dropped for its edges: `MissesNothing` says when
   one is dropped, not what it would have been worth.

## 6. Not modelled

Programs of straight-line I/O, drawings, library samples,
provisioning and search heuristics, for the reasons given with each component
in `PROJECT.json`, and the commented-out services of AsyncCommLib. Of the programs that are
modelled, two paths are left out: in the address book, `QTextEdit::setText` guesses whether an
address is rich text, and the model shows it as it is; in the wiki, `renderTemplate` answers with
`http.Error` when a template fails, and the templates are not in the model. Most
of the lines under `src/` are vendored: the sources and fused headers of `gmock-1.7.0`,
with its copy of `gtest`, are a test framework the programs link with and no part
of them.
