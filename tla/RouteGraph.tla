------------------------------- MODULE RouteGraph -------------------------------
(***************************************************************************)
(* Graph of src/ex/atcoder/hokudai-hitachi2022_a/main_A.cpp: the roads the *)
(* workers drive on, and getTrajectory, which answers from a table and     *)
(* extends the table by a search that it keeps, one per start vertex, and  *)
(* takes up again at the next question.                                    *)
(*                                                                         *)
(* The search is not Dijkstra's: a vertex is given its trajectory, and     *)
(* marked, when the first neighbour of it leaves the queue, and is never   *)
(* improved afterwards.                                                    *)
(***************************************************************************)
EXTENDS Integers, Sequences

CONSTANTS Vertices, Roads, Undefined

(* A graph is the length of the road between two vertices, 0 for no road:  *)
(* _edges holds every road of the input in both directions.                *)
Neighbours(d, u) == {v \in Vertices : d[u][v] > 0}

(* The inputs: two vertices or more, and every vertex reachable.           *)
ASSUME RoadsAssumption ==
    /\ Undefined \notin (Vertices \X Vertices) \cup {<<>>}
    /\ Roads \subseteq [Vertices -> [Vertices -> Nat]]
    /\ \A d \in Roads :
          /\ \A u, v \in Vertices : d[u][v] = d[v][u] /\ d[u][u] = 0
          /\ \A u \in Vertices : Neighbours(d, u) # {}
          /\ \A S \in SUBSET Vertices :
                S # {} /\ (\A u \in S : Neighbours(d, u) \subseteq S) => S = Vertices

VARIABLES edges,       \* _edges
          trajectory,  \* _trajectory: what the table holds, per start and end
          queue,       \* _priorityQueues: the ends of the trajectories queued
          memo,        \* _priorityQueuesMemo
          query        \* the start and goal searched for; <<>> between two questions

vars == <<edges, trajectory, queue, memo, query>>

Idle == <<>>

(* The trajectory that stays, and the one made from another and a road.    *)
AtStart(s) == [vertices |-> <<s>>, distance |-> 0]
Extended(d, t, u, v) == [vertices |-> Append(t.vertices, v), distance |-> t.distance + d[u][v]]

(* The table knows every vertex itself and every single road.              *)
Init ==
    /\ edges \in Roads
    /\ trajectory = [s \in Vertices |-> [v \in {s} \cup Neighbours(edges, s) |->
                        IF v = s THEN AtStart(s) ELSE Extended(edges, AtStart(s), s, v)]]
    /\ queue = [s \in Vertices |-> Neighbours(edges, s)]
    /\ memo = [s \in Vertices |-> {s} \cup Neighbours(edges, s)]
    /\ query = Idle

(* getTrajectory finds the answer in the table.                            *)
AnswerFromTable(s, g) ==
    /\ query = Idle
    /\ g \in DOMAIN trajectory[s]
    /\ UNCHANGED vars

(* ... or goes to search for it.                                           *)
StartSearch(s, g) ==
    /\ query = Idle
    /\ g \notin DOMAIN trajectory[s]
    /\ query' = <<s, g>>
    /\ UNCHANGED <<edges, trajectory, queue, memo>>

(* A slip: the loop over the edges is left when it meets the goal.         *)
DiscoveredUpToGoal(s, u) ==
    LET new == Neighbours(edges, u) \ memo[s]
    IN  IF query[2] \in new THEN {query[2]} ELSE new

Discovered(s, u) == Neighbours(edges, u) \ memo[s]

(* A slip: any trajectory queued.                                          *)
TopAny(s) == queue[s]

(* The priority queue's top is one of the shortest of those queued.        *)
Top(s) == {u \in queue[s] : \A v \in queue[s] :
                               trajectory[s][u].distance <= trajectory[s][v].distance}

(* A slip: top without pop.                                                *)
AfterPopForgotten(s, u) == queue[s]

AfterPop(s, u) == queue[s] \ {u}

(* A slip: a trajectory in the table is replaced by a shorter one.         *)
ExpandImproving(s, g) ==
    /\ query = <<s, g>>
    /\ \E u \in Top(s) :
          LET new == Discovered(s, u)
              Via(v) == Extended(edges, trajectory[s][u], u, v)
              better == {v \in Neighbours(edges, u) \ new :
                            Via(v).distance < trajectory[s][v].distance}
          IN  /\ memo' = [memo EXCEPT ![s] = @ \cup new]
              /\ trajectory' = [trajectory EXCEPT ![s] = [v \in DOMAIN @ \cup new |->
                    IF v \in new \cup better THEN Via(v) ELSE @[v]]]
              /\ queue' = [queue EXCEPT ![s] = AfterPop(s, u) \cup new]
              /\ query' = IF g \in new THEN Idle ELSE query
    /\ UNCHANGED edges

(* What is dequeued, and the vertices it discovers.                        *)
Expand(s, g) ==
    /\ query = <<s, g>>
    /\ \E u \in Top(s) :
          LET new == Discovered(s, u)
          IN  /\ memo' = [memo EXCEPT ![s] = @ \cup new]
              /\ trajectory' = [trajectory EXCEPT ![s] = [v \in DOMAIN @ \cup new |->
                    IF v \in DOMAIN @ THEN @[v] ELSE Extended(edges, @[u], u, v)]]
              /\ queue' = [queue EXCEPT ![s] = AfterPop(s, u) \cup new]
              /\ query' = IF g \in new THEN Idle ELSE query
    /\ UNCHANGED edges

(* One turn of the loop. top() and pop() of an empty std::priority_queue   *)
(* are undefined.                                                          *)
Search(s, g) ==
    /\ query = <<s, g>>
    /\ IF queue[s] = {}
       THEN query' = Undefined /\ UNCHANGED <<edges, trajectory, queue, memo>>
       ELSE Expand(s, g)

Next == \E s, g \in Vertices :
           AnswerFromTable(s, g) \/ StartSearch(s, g) \/ Search(s, g)

(* The loop of getTrajectory runs until it returns.                        *)
Spec == Init /\ [][Next]_vars /\ WF_vars(\E s, g \in Vertices : Search(s, g))

---------------------------------------------------------------------------
Trajectories == [vertices : Seq(Vertices), distance : Nat]

TypeOK ==
    /\ edges \in Roads
    /\ memo \in [Vertices -> SUBSET Vertices]
    /\ queue \in [Vertices -> SUBSET Vertices]
    /\ query \in (Vertices \X Vertices) \cup {Idle, Undefined}
    /\ DOMAIN trajectory = Vertices
    /\ \A s \in Vertices : /\ DOMAIN trajectory[s] \subseteq Vertices
                           /\ \A v \in DOMAIN trajectory[s] : trajectory[s][v] \in Trajectories

(* The trajectory to v is the one to u with the road from u to v added.    *)
Continues(s, u, v) ==
    /\ edges[u][v] > 0
    /\ trajectory[s][v] = [vertices |-> Append(trajectory[s][u].vertices, v),
                           distance |-> trajectory[s][u].distance + edges[u][v]]

(* A trajectory drives from start to end along roads and is as long as     *)
(* they are together: take its last road off, and what is left is the      *)
(* table's trajectory to the vertex before. MoveAction (line 772) writes   *)
(* one "move" per unit of every single road and relies on the sum.         *)
TrajectoriesAreRoutes ==
    \A s \in Vertices : \A v \in DOMAIN trajectory[s] :
        IF v = s THEN trajectory[s][v] = AtStart(s)
        ELSE \E u \in DOMAIN trajectory[s] : Continues(s, u, v)

(* The loop (line 256) has no test for an empty queue: on a connected      *)
(* graph it never meets one, however many questions the search has been    *)
(* stopped by and taken up again for.                                      *)
NeverDequeuesEmpty == query # Undefined

(* How good an answer is: of the vertices that have left the queue, the    *)
(* one an answer's last road comes from is nearest to the start. (It is    *)
(* the distance before the last road that is least, not the whole.)        *)
Settled(s) == memo[s] \ queue[s]
LastRoadFromNearest ==
    \A s \in Vertices : \A v \in DOMAIN trajectory[s] \ {s} :
        \E u \in Settled(s) :
            /\ Continues(s, u, v)
            /\ \A w \in Settled(s) : edges[w][v] > 0 =>
                  trajectory[s][u].distance <= trajectory[s][w].distance

(* The planner asks for a distance when it places a job (main_A.cpp:1175)  *)
(* and for the route when it lays the move (line 990), and between the two *)
(* resumes searches from the same vertices: no answer is ever changed or   *)
(* withdrawn.                                                              *)
AnswersAreFinal ==
    [][\A s \in Vertices : \A v \in DOMAIN trajectory[s] :
          v \in DOMAIN trajectory'[s] /\ trajectory'[s][v] = trajectory[s][v]]_vars

(* Every question is answered.                                             *)
QueriesAnswered == query # Idle ~> query = Idle
=============================================================================
