------------------------ MODULE ContestSearches_proofs ------------------------
(***************************************************************************)
(* Two searches of contest programs: getTrajectory of the worker           *)
(* scheduler, on every connected graph, and the rectangle search, over     *)
(* every set of points of every grid.                                      *)
(***************************************************************************)
EXTENDS RouteGraph, RectangleSearch,
        FiniteSetTheorems, WellFoundedInduction, SequenceTheorems, TLAPS

-----------------------------------------------------------------------------
(***************************************************************************)
(* The routes. The search from s has settled the vertices that left its    *)
(* queue: all their neighbours are marked, and none of them is farther     *)
(* than a vertex still queued. A search is on only while its goal is not   *)
(* marked.                                                                 *)
(***************************************************************************)
TablesAgree ==
    \A s \in Vertices : /\ DOMAIN trajectory[s] = memo[s]
                        /\ s \in memo[s]
                        /\ queue[s] \subseteq memo[s] \ {s}

SettledAreClosed ==
    \A s \in Vertices : \A u \in Settled(s) : Neighbours(edges, u) \subseteq memo[s]

SettledAreNearest ==
    \A s \in Vertices : \A u \in Settled(s), v \in queue[s] :
        trajectory[s][u].distance <= trajectory[s][v].distance

GoalIsOpen == query \in Vertices \X Vertices => query[2] \notin memo[query[1]]

IInv ==
    /\ TypeOK
    /\ NeverDequeuesEmpty
    /\ TablesAgree
    /\ SettledAreClosed
    /\ SettledAreNearest
    /\ GoalIsOpen
    /\ TrajectoriesAreRoutes
    /\ LastRoadFromNearest

(* The facts about a graph that the steps below use.                       *)
LEMMA RoadFacts ==
    ASSUME NEW d \in Roads
    PROVE  /\ d \in [Vertices -> [Vertices -> Nat]]
           /\ \A u, v \in Vertices : d[u][v] \in Nat /\ d[u][v] = d[v][u] /\ d[u][u] = 0
           /\ \A u \in Vertices : Neighbours(d, u) \subseteq Vertices /\ u \notin Neighbours(d, u)
           /\ \A u \in Vertices : \A v \in Neighbours(d, u) : d[u][v] > 0 /\ d[v][u] > 0
BY RoadsAssumption DEF Neighbours

(* The graph is connected: a search that has settled all it marked has     *)
(* marked every vertex.                                                    *)
LEMMA EmptyQueueMeansAllMarked ==
    ASSUME IInv, NEW s \in Vertices, queue[s] = {}
    PROVE  memo[s] = Vertices
<1>1. edges \in Roads /\ memo[s] \in SUBSET Vertices /\ memo[s] # {}
  BY DEF IInv, TypeOK, TablesAgree
<1>2. \A u \in memo[s] : Neighbours(edges, u) \subseteq memo[s]
  BY DEF IInv, SettledAreClosed, Settled
<1> QED  BY <1>1, <1>2, RoadsAssumption

(* Every road added to a trajectory gives a trajectory, and a longer one.  *)
LEMMA RoutesGrow ==
    ASSUME NEW d \in Roads, NEW t \in Trajectories, NEW u \in Vertices, NEW v \in Vertices
    PROVE  /\ Extended(d, t, u, v) \in Trajectories
           /\ t.distance <= Extended(d, t, u, v).distance
<1>1. d[u][v] \in Nat
  BY RoadFacts
<1>2. t.vertices \in Seq(Vertices) /\ t.distance \in Nat
  BY DEF Trajectories
<1>3. Append(t.vertices, v) \in Seq(Vertices) /\ t.distance + d[u][v] \in Nat
  BY <1>1, <1>2, AppendProperties
<1> QED  BY <1>1, <1>2, <1>3 DEF Extended, Trajectories

LEMMA StayingIsARoute ==
    ASSUME NEW s \in Vertices
    PROVE  AtStart(s) \in Trajectories /\ AtStart(s).distance = 0
<1>1. <<s>> \in Seq(Vertices)
  OBVIOUS
<1> QED  BY <1>1 DEF AtStart, Trajectories

LEMMA InitIInv == Init => IInv
<1> SUFFICES ASSUME Init PROVE IInv
  OBVIOUS
<1>1. edges \in Roads
  BY DEF Init
<1>2. /\ \A u \in Vertices : Neighbours(edges, u) \subseteq Vertices /\ u \notin Neighbours(edges, u)
      /\ \A u \in Vertices : \A v \in Neighbours(edges, u) : edges[u][v] > 0
  BY <1>1, RoadFacts
<1>3. \A s \in Vertices : /\ memo[s] = {s} \cup Neighbours(edges, s)
                          /\ queue[s] = Neighbours(edges, s)
                          /\ DOMAIN trajectory[s] = memo[s]
                          /\ Settled(s) = {s}
  BY <1>2 DEF Init, Settled
<1>4. \A s \in Vertices : trajectory[s][s] = AtStart(s)
  BY <1>2 DEF Init
<1>5. \A s \in Vertices : \A v \in queue[s] :
         /\ v \in Vertices
         /\ edges[s][v] > 0
         /\ trajectory[s][v] = Extended(edges, trajectory[s][s], s, v)
  BY <1>2, <1>3, <1>4 DEF Init
<1>6. \A s \in Vertices : \A v \in memo[s] : trajectory[s][v] \in Trajectories
  <2> SUFFICES ASSUME NEW s \in Vertices, NEW v \in memo[s]
               PROVE  trajectory[s][v] \in Trajectories
    OBVIOUS
  <2>1. trajectory[s][s] \in Trajectories
    BY <1>4, StayingIsARoute
  <2>2. CASE v = s
    BY <2>1, <2>2
  <2>3. CASE v \in queue[s]
    BY <1>1, <1>5, <2>1, <2>3, RoutesGrow
  <2> QED  BY <1>3, <2>2, <2>3
<1>7. TypeOK
  <2>1. memo \in [Vertices -> SUBSET Vertices] /\ queue \in [Vertices -> SUBSET Vertices]
    BY <1>2 DEF Init
  <2>2. DOMAIN trajectory = Vertices /\ query = Idle
    BY DEF Init
  <2>3. \A s \in Vertices : DOMAIN trajectory[s] \subseteq Vertices
    BY <1>2, <1>3
  <2> QED  BY <1>1, <1>3, <1>6, <2>1, <2>2, <2>3 DEF TypeOK
<1>8. NeverDequeuesEmpty /\ GoalIsOpen
  BY RoadsAssumption DEF Init, Idle, NeverDequeuesEmpty, GoalIsOpen
<1>9. TablesAgree /\ SettledAreClosed
  BY <1>2, <1>3 DEF TablesAgree, SettledAreClosed
<1>10. SettledAreNearest
  <2> SUFFICES ASSUME NEW s \in Vertices, NEW v \in queue[s]
               PROVE  trajectory[s][s].distance <= trajectory[s][v].distance
    BY <1>3 DEF SettledAreNearest
  <2>1. trajectory[s][s] \in Trajectories
    BY <1>3, <1>6
  <2> QED  BY <1>1, <1>5, <2>1, RoutesGrow
<1>11. TrajectoriesAreRoutes
  BY <1>3, <1>4, <1>5 DEF TrajectoriesAreRoutes, Continues, Extended
<1>11a. \A r, w, x : Continues(r, w, x) <=>
           edges[w][x] > 0 /\ trajectory[r][x] = Extended(edges, trajectory[r][w], w, x)
  BY DEF Continues, Extended
<1>12. LastRoadFromNearest
  <2> SUFFICES ASSUME NEW s \in Vertices, NEW v \in queue[s]
               PROVE  /\ edges[s][v] > 0
                      /\ trajectory[s][v] = Extended(edges, trajectory[s][s], s, v)
                      /\ trajectory[s][s].distance <= trajectory[s][s].distance
    BY <1>3, <1>11a DEF LastRoadFromNearest
  <2>1. trajectory[s][s].distance \in Nat
    BY <1>3, <1>6 DEF Trajectories
  <2> QED  BY <1>5, <2>1
<1> QED  BY <1>7, <1>8, <1>9, <1>10, <1>11, <1>12 DEF IInv

(***************************************************************************)
(* What a turn of the loop does to the tables of its start vertex; those   *)
(* of the others stay.                                                     *)
(***************************************************************************)
LEMMA ExpandEffect ==
    ASSUME IInv, NEW s \in Vertices, NEW g \in Vertices, Expand(s, g)
    PROVE  \E u \in queue[s] :
             LET new == Neighbours(edges, u) \ memo[s]
             IN  /\ u \in memo[s] /\ u \in Vertices /\ new \subseteq Vertices
                 /\ \A v \in queue[s] : trajectory[s][u].distance <= trajectory[s][v].distance
                 /\ memo'[s] = memo[s] \cup new
                 /\ queue'[s] = (queue[s] \ {u}) \cup new
                 /\ Settled(s)' = Settled(s) \cup {u}
                 /\ DOMAIN trajectory'[s] = memo[s] \cup new
                 /\ \A v \in memo[s] : trajectory'[s][v] = trajectory[s][v]
                 /\ \A v \in new : trajectory'[s][v] = Extended(edges, trajectory[s][u], u, v)
                 /\ query' = IF g \in new THEN Idle ELSE query
<1>1. PICK u \in Top(s) :
          LET new == Discovered(s, u)
          IN  /\ memo' = [memo EXCEPT ![s] = @ \cup new]
              /\ trajectory' = [trajectory EXCEPT ![s] = [v \in DOMAIN @ \cup new |->
                    IF v \in DOMAIN @ THEN @[v] ELSE Extended(edges, @[u], u, v)]]
              /\ queue' = [queue EXCEPT ![s] = AfterPop(s, u) \cup new]
              /\ query' = IF g \in new THEN Idle ELSE query
  BY DEF Expand
<1> DEFINE new == Neighbours(edges, u) \ memo[s]
<1>2. /\ edges \in Roads /\ DOMAIN trajectory = Vertices
      /\ memo \in [Vertices -> SUBSET Vertices] /\ queue \in [Vertices -> SUBSET Vertices]
      /\ DOMAIN trajectory[s] = memo[s] /\ queue[s] \subseteq memo[s]
  BY DEF IInv, TypeOK, TablesAgree
<1>3. /\ u \in queue[s] /\ u \in memo[s] /\ u \in Vertices /\ new \subseteq Vertices
      /\ \A v \in queue[s] : trajectory[s][u].distance <= trajectory[s][v].distance
  BY <1>2 DEF Top, Neighbours
<1>4. memo'[s] = memo[s] \cup new /\ queue'[s] = (queue[s] \ {u}) \cup new
  BY <1>1, <1>2 DEF Discovered, AfterPop
<1>5. Settled(s)' = Settled(s) \cup {u}
  BY <1>2, <1>3, <1>4 DEF Settled
<1>6. trajectory'[s] = [v \in memo[s] \cup new |-> IF v \in memo[s] THEN trajectory[s][v]
                                                  ELSE Extended(edges, trajectory[s][u], u, v)]
  BY <1>1, <1>2 DEF Discovered
<1>8. /\ DOMAIN trajectory'[s] = memo[s] \cup new
      /\ \A v \in memo[s] : trajectory'[s][v] = trajectory[s][v]
      /\ \A v \in new : trajectory'[s][v] = Extended(edges, trajectory[s][u], u, v)
  BY <1>6
<1>9. query' = IF g \in new THEN Idle ELSE query
  BY <1>1 DEF Discovered
<1> QED  BY <1>3, <1>4, <1>5, <1>8, <1>9

LEMMA ExpandFrame ==
    ASSUME IInv, NEW s \in Vertices, NEW g \in Vertices, Expand(s, g)
    PROVE  /\ query = <<s, g>> /\ edges' = edges
           /\ DOMAIN trajectory' = Vertices
           /\ memo' \in [Vertices -> SUBSET Vertices] /\ queue' \in [Vertices -> SUBSET Vertices]
           /\ \A r \in Vertices \ {s} :
                 /\ memo'[r] = memo[r] /\ queue'[r] = queue[r]
                 /\ trajectory'[r] = trajectory[r] /\ Settled(r)' = Settled(r)
<1>1. PICK u \in Top(s) :
          LET new == Discovered(s, u)
          IN  /\ memo' = [memo EXCEPT ![s] = @ \cup new]
              /\ trajectory' = [trajectory EXCEPT ![s] = [v \in DOMAIN @ \cup new |->
                    IF v \in DOMAIN @ THEN @[v] ELSE Extended(edges, @[u], u, v)]]
              /\ queue' = [queue EXCEPT ![s] = AfterPop(s, u) \cup new]
  BY DEF Expand
<1>2. /\ DOMAIN trajectory = Vertices
      /\ memo \in [Vertices -> SUBSET Vertices] /\ queue \in [Vertices -> SUBSET Vertices]
  BY DEF IInv, TypeOK
<1>3. query = <<s, g>> /\ edges' = edges
  BY DEF Expand
<1>4. Discovered(s, u) \subseteq Vertices /\ AfterPop(s, u) \subseteq Vertices
  BY <1>2 DEF Discovered, AfterPop, Neighbours
<1>5. memo' \in [Vertices -> SUBSET Vertices] /\ queue' \in [Vertices -> SUBSET Vertices]
  BY <1>1, <1>2, <1>4
<1>6. DOMAIN trajectory' = Vertices /\ \A r \in Vertices \ {s} : trajectory'[r] = trajectory[r]
  BY <1>1, <1>2
<1>7. \A r \in Vertices \ {s} : memo'[r] = memo[r] /\ queue'[r] = queue[r]
  BY <1>1, <1>2
<1> QED  BY <1>3, <1>5, <1>6, <1>7 DEF Settled

LEMMA ExpandIInv ==
    ASSUME IInv, NEW s \in Vertices, NEW g \in Vertices, Expand(s, g)
    PROVE  IInv'
<1>1. PICK u \in queue[s] :
         LET new == Neighbours(edges, u) \ memo[s]
         IN  /\ u \in memo[s] /\ u \in Vertices /\ new \subseteq Vertices
             /\ \A v \in queue[s] : trajectory[s][u].distance <= trajectory[s][v].distance
             /\ memo'[s] = memo[s] \cup new
             /\ queue'[s] = (queue[s] \ {u}) \cup new
             /\ Settled(s)' = Settled(s) \cup {u}
             /\ DOMAIN trajectory'[s] = memo[s] \cup new
             /\ \A v \in memo[s] : trajectory'[s][v] = trajectory[s][v]
             /\ \A v \in new : trajectory'[s][v] = Extended(edges, trajectory[s][u], u, v)
             /\ query' = IF g \in new THEN Idle ELSE query
  BY ExpandEffect
<1> DEFINE new == Neighbours(edges, u) \ memo[s]
<1>2. /\ query = <<s, g>> /\ edges' = edges
      /\ DOMAIN trajectory' = Vertices
      /\ memo' \in [Vertices -> SUBSET Vertices] /\ queue' \in [Vertices -> SUBSET Vertices]
      /\ \A r \in Vertices \ {s} :
            /\ memo'[r] = memo[r] /\ queue'[r] = queue[r]
            /\ trajectory'[r] = trajectory[r] /\ Settled(r)' = Settled(r)
  BY ExpandFrame
<1>3. /\ u \in memo[s] /\ u \in Vertices /\ new \subseteq Vertices
      /\ \A v \in queue[s] : trajectory[s][u].distance <= trajectory[s][v].distance
      /\ memo'[s] = memo[s] \cup new /\ queue'[s] = (queue[s] \ {u}) \cup new
      /\ Settled(s)' = Settled(s) \cup {u}
      /\ DOMAIN trajectory'[s] = memo[s] \cup new
      /\ \A v \in memo[s] : trajectory'[s][v] = trajectory[s][v]
      /\ \A v \in new : trajectory'[s][v] = Extended(edges, trajectory[s][u], u, v)
      /\ query' = IF g \in new THEN Idle ELSE query
  BY <1>1
<1>4. /\ edges \in Roads /\ memo \in [Vertices -> SUBSET Vertices]
      /\ \A r \in Vertices : /\ DOMAIN trajectory[r] = memo[r] /\ r \in memo[r]
                             /\ queue[r] \subseteq memo[r] \ {r}
      /\ \A r \in Vertices : \A v \in memo[r] : trajectory[r][v] \in Trajectories
      /\ query \in Vertices \X Vertices /\ query # Undefined /\ g \notin memo[s]
  BY <1>2, RoadsAssumption DEF IInv, TypeOK, TablesAgree, GoalIsOpen, NeverDequeuesEmpty
<1>5. \A v \in new : /\ v \in Vertices /\ v # s /\ edges[u][v] > 0
                     /\ trajectory'[s][v] \in Trajectories
                     /\ trajectory[s][u].distance <= trajectory'[s][v].distance
  <2> SUFFICES ASSUME NEW v \in new
               PROVE  /\ v \in Vertices /\ v # s /\ edges[u][v] > 0
                      /\ trajectory'[s][v] \in Trajectories
                      /\ trajectory[s][u].distance <= trajectory'[s][v].distance
    OBVIOUS
  <2>1. v \in Vertices /\ v # s /\ edges[u][v] > 0
    BY <1>3, <1>4, RoadFacts
  <2>2. trajectory'[s][v] = Extended(edges, trajectory[s][u], u, v)
    BY <1>3
  <2>3. trajectory[s][u] \in Trajectories
    BY <1>3, <1>4
  <2> HIDE DEF new
  <2>4. /\ Extended(edges, trajectory[s][u], u, v) \in Trajectories
        /\ trajectory[s][u].distance <= Extended(edges, trajectory[s][u], u, v).distance
    BY <1>3, <1>4, <2>1, <2>3, RoutesGrow
  <2> QED  BY <2>1, <2>2, <2>4
<1> HIDE DEF new
<1>6. TypeOK'
  <2>1. \A r \in Vertices : /\ DOMAIN trajectory'[r] \subseteq Vertices
                            /\ \A v \in DOMAIN trajectory'[r] : trajectory'[r][v] \in Trajectories
    <3> SUFFICES ASSUME NEW r \in Vertices
                 PROVE  /\ DOMAIN trajectory'[r] \subseteq Vertices
                        /\ \A v \in DOMAIN trajectory'[r] : trajectory'[r][v] \in Trajectories
      OBVIOUS
    <3>1. CASE r = s
      BY <3>1, <1>3, <1>4, <1>5
    <3>2. CASE r # s
      BY <3>2, <1>2, <1>4
    <3> QED  BY <3>1, <3>2
  <2>2. query' \in (Vertices \X Vertices) \cup {Idle, Undefined}
    BY <1>3, <1>4
  <2> QED  BY <1>2, <1>4, <2>1, <2>2 DEF TypeOK
<1>7. NeverDequeuesEmpty'
  BY <1>3, <1>4, RoadsAssumption DEF NeverDequeuesEmpty, Idle
<1>8. TablesAgree'
  <2> SUFFICES ASSUME NEW r \in Vertices
               PROVE  /\ DOMAIN trajectory'[r] = memo'[r] /\ r \in memo'[r]
                      /\ queue'[r] \subseteq memo'[r] \ {r}
    BY DEF TablesAgree
  <2>1. CASE r = s
    BY <2>1, <1>3, <1>4, <1>5
  <2>2. CASE r # s
    BY <2>2, <1>2, <1>4
  <2> QED  BY <2>1, <2>2
<1>9. SettledAreClosed'
  <2> SUFFICES ASSUME NEW r \in Vertices, NEW w \in Settled(r)'
               PROVE  Neighbours(edges, w) \subseteq memo'[r]
    BY <1>2 DEF SettledAreClosed
  <2>1. \A v \in Settled(r) : Neighbours(edges, v) \subseteq memo[r]
    BY DEF IInv, SettledAreClosed
  <2>2. CASE r = s /\ w = u
    BY <2>2, <1>3 DEF new
  <2>3. CASE r = s /\ w \in Settled(s)
    BY <2>1, <2>3, <1>3
  <2>4. CASE r # s
    BY <2>1, <2>4, <1>2
  <2> QED  BY <2>2, <2>3, <2>4, <1>3
<1>10. SettledAreNearest'
  <2> SUFFICES ASSUME NEW r \in Vertices, NEW w \in Settled(r)', NEW v \in queue'[r]
               PROVE  trajectory'[r][w].distance <= trajectory'[r][v].distance
    BY DEF SettledAreNearest
  <2>1. \A x \in Settled(r), y \in queue[r] : trajectory[r][x].distance <= trajectory[r][y].distance
    BY DEF IInv, SettledAreNearest
  <2>2. CASE r # s
    BY <2>1, <2>2, <1>2
  <2>3. CASE r = s
    <3>1. w \in memo[s] /\ trajectory'[s][w] = trajectory[s][w]
      BY <2>3, <1>3 DEF Settled
    <3>2. trajectory[s][w].distance <= trajectory[s][u].distance
      BY <2>1, <2>3, <1>3, <1>4 DEF Settled, Trajectories
    <3>3. CASE v \in queue[s]
      <4>1. v \in memo[s] /\ trajectory'[s][v] = trajectory[s][v]
        BY <3>3, <1>3, <1>4
      <4>2. trajectory[s][u].distance <= trajectory[s][v].distance
        BY <3>3, <1>3
      <4>3. /\ trajectory[s][w].distance \in Nat /\ trajectory[s][u].distance \in Nat
            /\ trajectory[s][v].distance \in Nat
        BY <1>3, <1>4, <3>1, <4>1 DEF Trajectories
      <4> QED  BY <2>3, <3>1, <3>2, <4>1, <4>2, <4>3
    <3>4. CASE v \in new
      <4>1. trajectory[s][u].distance <= trajectory'[s][v].distance
        BY <3>4, <1>5
      <4>2. /\ trajectory[s][w].distance \in Nat /\ trajectory[s][u].distance \in Nat
            /\ trajectory'[s][v].distance \in Nat
        BY <1>3, <1>4, <1>5, <3>1, <3>4 DEF Trajectories
      <4> QED  BY <2>3, <3>1, <3>2, <4>1, <4>2
    <3> QED  BY <2>3, <3>3, <3>4, <1>3
  <2> QED  BY <2>2, <2>3
<1>11. GoalIsOpen'
  <2>1. CASE g \in new
    BY <2>1, <1>3, RoadsAssumption DEF GoalIsOpen, Idle
  <2>2. CASE g \notin new
    BY <2>2, <1>2, <1>3, <1>4 DEF GoalIsOpen
  <2> QED  BY <2>1, <2>2
<1>11a. \A r, w, x : Continues(r, w, x)' <=>
           edges'[w][x] > 0 /\ trajectory'[r][x] = Extended(edges', trajectory'[r][w], w, x)
  BY DEF Continues, Extended
<1>12. TrajectoriesAreRoutes'
  <2> SUFFICES ASSUME NEW r \in Vertices, NEW v \in memo'[r]
               PROVE  IF v = r THEN trajectory'[r][v] = AtStart(r)
                      ELSE \E w \in memo'[r] :
                              /\ edges[w][v] > 0
                              /\ trajectory'[r][v] = Extended(edges, trajectory'[r][w], w, v)
    BY <1>2, <1>8, <1>11a DEF TrajectoriesAreRoutes, TablesAgree
  <2>1. \A x \in memo[r] :
           IF x = r THEN trajectory[r][x] = AtStart(r)
           ELSE \E w \in memo[r] :
                   /\ edges[w][x] > 0
                   /\ trajectory[r][x] = Extended(edges, trajectory[r][w], w, x)
    <3>1. DOMAIN trajectory[r] = memo[r]
      BY <1>4 DEF IInv, TablesAgree
    <3>2. \A x \in memo[r] :
             IF x = r THEN trajectory[r][x] = AtStart(r)
             ELSE \E w \in memo[r] : Continues(r, w, x)
      BY <1>4, <3>1 DEF IInv, TrajectoriesAreRoutes
    <3> QED  BY <3>2 DEF Continues, Extended
  <2>2. CASE r # s
    BY <2>1, <2>2, <1>2
  <2>3. CASE r = s /\ v \in memo[s]
    BY <2>1, <2>3, <1>3
  <2>4. CASE r = s /\ v \in new
    BY <2>4, <1>3, <1>5
  <2> QED  BY <2>2, <2>3, <2>4, <1>3
<1>13. LastRoadFromNearest'
  <2> SUFFICES ASSUME NEW r \in Vertices, NEW v \in memo'[r] \ {r}
               PROVE  \E x \in Settled(r)' :
                         /\ edges[x][v] > 0
                         /\ trajectory'[r][v] = Extended(edges, trajectory'[r][x], x, v)
                         /\ \A w \in Settled(r)' : edges[w][v] > 0 =>
                               trajectory'[r][x].distance <= trajectory'[r][w].distance
    BY <1>2, <1>8, <1>11a DEF LastRoadFromNearest, TablesAgree
  <2>1. \A y \in memo[r] \ {r} : \E x \in Settled(r) :
           /\ edges[x][y] > 0
           /\ trajectory[r][y] = Extended(edges, trajectory[r][x], x, y)
           /\ \A w \in Settled(r) : edges[w][y] > 0 =>
                 trajectory[r][x].distance <= trajectory[r][w].distance
    BY <1>4 DEF IInv, LastRoadFromNearest, Continues, Extended
  <2>2. CASE r # s
    BY <2>1, <2>2, <1>2
  <2>3. CASE r = s /\ v \in memo[s]
    <3>1. PICK x \in Settled(s) :
             /\ edges[x][v] > 0
             /\ trajectory[s][v] = Extended(edges, trajectory[s][x], x, v)
             /\ \A w \in Settled(s) : edges[w][v] > 0 =>
                   trajectory[s][x].distance <= trajectory[s][w].distance
      BY <2>1, <2>3
    <3>2. trajectory[s][x].distance <= trajectory[s][u].distance
      BY DEF IInv, SettledAreNearest
    <3>3. \A w \in Settled(s)' : w \in memo[s] /\ trajectory'[s][w] = trajectory[s][w]
      BY <1>3 DEF Settled
    <3>4. trajectory'[s][v] = trajectory[s][v]
      BY <2>3, <1>3
    <3> QED  BY <2>3, <3>1, <3>2, <3>3, <3>4, <1>3
  <2>4. CASE r = s /\ v \in new
    <3>1. \A w \in Settled(s) : ~(edges[w][v] > 0)
      <4> SUFFICES ASSUME NEW w \in Settled(s), edges[w][v] > 0 PROVE FALSE
        OBVIOUS
      <4>1. Neighbours(edges, w) \subseteq memo[s]
        BY DEF IInv, SettledAreClosed
      <4> QED  BY <2>4, <4>1, <1>5 DEF Neighbours, new
    <3>2. trajectory'[s][u] = trajectory[s][u] /\ trajectory[s][u].distance \in Nat
      BY <1>3, <1>4 DEF Trajectories
    <3> QED  BY <2>4, <3>1, <3>2, <1>3, <1>5
  <2> QED  BY <2>2, <2>3, <2>4, <1>3
<1> QED  BY <1>6, <1>7, <1>8, <1>9, <1>10, <1>11, <1>12, <1>13 DEF IInv

LEMMA NextIInv == IInv /\ [Next]_vars => IInv'
<1> SUFFICES ASSUME IInv, [Next]_vars PROVE IInv'
  OBVIOUS
<1>1. CASE UNCHANGED vars
  <2>1. TypeOK' /\ NeverDequeuesEmpty' /\ TablesAgree' /\ SettledAreClosed'
    BY <1>1 DEF vars, IInv, TypeOK, NeverDequeuesEmpty, TablesAgree, SettledAreClosed, Settled
  <2>2. SettledAreNearest' /\ GoalIsOpen'
    BY <1>1 DEF vars, IInv, SettledAreNearest, Settled, GoalIsOpen
  <2>3. TrajectoriesAreRoutes' /\ LastRoadFromNearest'
    BY <1>1 DEF vars, IInv, TrajectoriesAreRoutes, LastRoadFromNearest, Settled, Continues
  <2> QED  BY <2>1, <2>2, <2>3 DEF IInv
<1>2. ASSUME NEW s \in Vertices, NEW g \in Vertices, AnswerFromTable(s, g) PROVE IInv'
  BY <1>1, <1>2 DEF AnswerFromTable
<1>3. ASSUME NEW s \in Vertices, NEW g \in Vertices, StartSearch(s, g) PROVE IInv'
  <2>1. /\ query' = <<s, g>> /\ g \notin memo[s]
        /\ UNCHANGED <<edges, trajectory, queue, memo>>
    BY <1>3 DEF StartSearch, IInv, TablesAgree
  <2>2. TypeOK' /\ NeverDequeuesEmpty' /\ GoalIsOpen'
    BY <2>1, RoadsAssumption DEF IInv, TypeOK, NeverDequeuesEmpty, GoalIsOpen
  <2>3. TablesAgree' /\ SettledAreClosed' /\ SettledAreNearest'
    BY <2>1 DEF IInv, TablesAgree, SettledAreClosed, SettledAreNearest, Settled
  <2>4. TrajectoriesAreRoutes' /\ LastRoadFromNearest'
    BY <2>1 DEF IInv, TrajectoriesAreRoutes, LastRoadFromNearest, Settled, Continues, Extended
  <2> QED  BY <2>2, <2>3, <2>4 DEF IInv
<1>4. ASSUME NEW s \in Vertices, NEW g \in Vertices, Search(s, g) PROVE IInv'
  <2>1. CASE queue[s] = {}
    <3>1. query = <<s, g>> /\ memo[s] = Vertices
      BY <1>4, <2>1, EmptyQueueMeansAllMarked DEF Search
    <3> QED  BY <3>1 DEF IInv, GoalIsOpen
  <2>2. CASE queue[s] # {}
    BY <1>4, <2>2, ExpandIInv DEF Search
  <2> QED  BY <2>1, <2>2
<1> QED  BY <1>1, <1>2, <1>3, <1>4 DEF Next

THEOREM RoutesInductive == Spec => []IInv
BY InitIInv, NextIInv, PTL DEF Spec

(* The tables of the graph keep their types, for every set of graphs.      *)
THEOREM RoutesTypeOK == Spec => []TypeOK
BY RoutesInductive, PTL DEF IInv

(* Every trajectory in the table is a drive along roads of its length.     *)
THEOREM RoutesAreRoutes == Spec => []TrajectoriesAreRoutes
BY RoutesInductive, PTL DEF IInv

(* On a connected graph the search never pops an empty priority queue.     *)
THEOREM RoutesNeverDequeueEmpty == Spec => []NeverDequeuesEmpty
BY RoutesInductive, PTL DEF IInv

(* An answer's last road comes from the nearest vertex settled.            *)
THEOREM RoutesLastRoad == Spec => []LastRoadFromNearest
BY RoutesInductive, PTL DEF IInv

(***************************************************************************)
(* The search gets on: a turn of the loop settles a vertex that was not    *)
(* settled, never the goal, so that a question takes fewer turns than      *)
(* there are vertices. That is the argument for QueriesAnswered but for    *)
(* the fairness of the loop.                                               *)
(***************************************************************************)
Unsettled(s) == Vertices \ Settled(s)

EachTurnSettlesOne ==
    [][\A s, g \in Vertices : query = <<s, g>> =>
          /\ g \in Unsettled(s)'
          /\ \E u \in Unsettled(s) : Unsettled(s)' = Unsettled(s) \ {u}
          /\ \A r \in Vertices \ {s} : Unsettled(r)' = Unsettled(r)]_vars

LEMMA StepsWhileSearching ==
    ASSUME IInv, Next, NEW s \in Vertices, NEW g \in Vertices, query = <<s, g>>
    PROVE  Expand(s, g) \/ UNCHANGED vars
<1>1. PICK r, h \in Vertices : AnswerFromTable(r, h) \/ StartSearch(r, h) \/ Search(r, h)
  BY DEF Next
<1>2. query # Idle
  BY RoadsAssumption DEF Idle
<1>3. Search(r, h) /\ r = s /\ h = g
  BY <1>1, <1>2 DEF AnswerFromTable, StartSearch, Search
<1>4. g \notin memo[s]
  BY DEF IInv, GoalIsOpen
<1>5. queue[s] # {}
  BY <1>4, EmptyQueueMeansAllMarked
<1> QED  BY <1>3, <1>5 DEF Search

(* No answer of the table is ever changed or withdrawn.                    *)
THEOREM RoutesAreFinal == Spec => AnswersAreFinal
<1>1. ASSUME IInv, [Next]_vars
      PROVE  [\A s \in Vertices : \A v \in DOMAIN trajectory[s] :
                v \in DOMAIN trajectory'[s] /\ trajectory'[s][v] = trajectory[s][v]]_vars
  <2> SUFFICES ASSUME Next, NEW s \in Vertices, NEW v \in DOMAIN trajectory[s]
               PROVE  v \in DOMAIN trajectory'[s] /\ trajectory'[s][v] = trajectory[s][v]
    BY <1>1
  <2>1. PICK r, h \in Vertices : AnswerFromTable(r, h) \/ StartSearch(r, h) \/ Search(r, h)
    BY DEF Next
  <2>2. CASE trajectory' = trajectory
    BY <2>2
  <2>3. CASE Expand(r, h)
    <3>1. DOMAIN trajectory[s] = memo[s]
      BY <1>1 DEF IInv, TablesAgree
    <3>2. CASE s = r
      BY <3>1, <3>2, <1>1, <2>3, ExpandEffect
    <3>3. CASE s # r
      BY <3>3, <1>1, <2>3, ExpandFrame
    <3> QED  BY <3>2, <3>3
  <2> QED  BY <2>1, <2>2, <2>3 DEF AnswerFromTable, StartSearch, Search, vars
<1> QED  BY <1>1, RoutesInductive, PTL DEF Spec, AnswersAreFinal

(* A turn of a search settles one more vertex, which is not its goal.      *)
THEOREM RoutesEachTurnSettlesOne == Spec => EachTurnSettlesOne
<1>1. ASSUME IInv, [Next]_vars
      PROVE  [\A s, g \in Vertices : query = <<s, g>> =>
                /\ g \in Unsettled(s)'
                /\ \E u \in Unsettled(s) : Unsettled(s)' = Unsettled(s) \ {u}
                /\ \A r \in Vertices \ {s} : Unsettled(r)' = Unsettled(r)]_vars
  <2> SUFFICES ASSUME Next, ~UNCHANGED vars,
                      NEW s \in Vertices, NEW g \in Vertices, query = <<s, g>>
               PROVE  /\ g \in Unsettled(s)'
                      /\ \E u \in Unsettled(s) : Unsettled(s)' = Unsettled(s) \ {u}
                      /\ \A r \in Vertices \ {s} : Unsettled(r)' = Unsettled(r)
    BY <1>1
  <2>1. Expand(s, g)
    BY <1>1, StepsWhileSearching
  <2>2. PICK u \in queue[s] : u \in memo[s] /\ u \in Vertices /\ Settled(s)' = Settled(s) \cup {u}
    BY <1>1, <2>1, ExpandEffect
  <2>3. \A r \in Vertices \ {s} : Settled(r)' = Settled(r)
    BY <1>1, <2>1, ExpandFrame
  <2>4. g \notin memo[s]
    BY <1>1 DEF IInv, GoalIsOpen
  <2>5. u \notin Settled(s) /\ g \notin Settled(s) /\ g # u
    BY <2>2, <2>4 DEF Settled
  <2>6. Unsettled(s) = Vertices \ Settled(s) /\ Unsettled(s)' = Vertices \ Settled(s)'
    BY DEF Unsettled
  <2>7. u \in Unsettled(s) /\ g \in Unsettled(s)' /\ Unsettled(s)' = Unsettled(s) \ {u}
    BY <2>2, <2>5, <2>6
  <2>8. \A r \in Vertices \ {s} : Unsettled(r)' = Unsettled(r)
    BY <2>3 DEF Unsettled
  <2> QED  BY <2>7, <2>8
<1> QED  BY <1>1, RoutesInductive, PTL DEF Spec, EachTurnSettlesOne

(* Counted: a question to a graph of finitely many vertices has a bound on *)
(* its turns, which each turn lowers and which is never used up.           *)
THEOREM RoutesTurnsAreBounded ==
    ASSUME IsFiniteSet(Vertices)
    PROVE  Spec => [][\A s, g \in Vertices : query = <<s, g>> =>
                         /\ Cardinality(Unsettled(s)') = Cardinality(Unsettled(s)) - 1
                         /\ Cardinality(Unsettled(s)') \in Nat \ {0}]_vars
<1>1. ASSUME \A s, g \in Vertices : query = <<s, g>> =>
                /\ g \in Unsettled(s)'
                /\ \E u \in Unsettled(s) : Unsettled(s)' = Unsettled(s) \ {u}
                /\ \A r \in Vertices \ {s} : Unsettled(r)' = Unsettled(r)
      PROVE  \A s, g \in Vertices : query = <<s, g>> =>
                /\ Cardinality(Unsettled(s)') = Cardinality(Unsettled(s)) - 1
                /\ Cardinality(Unsettled(s)') \in Nat \ {0}
  <2> SUFFICES ASSUME NEW s \in Vertices, NEW g \in Vertices, query = <<s, g>>
               PROVE  /\ Cardinality(Unsettled(s)') = Cardinality(Unsettled(s)) - 1
                      /\ Cardinality(Unsettled(s)') \in Nat \ {0}
    OBVIOUS
  <2>1. PICK u \in Unsettled(s) : Unsettled(s)' = Unsettled(s) \ {u}
    BY <1>1
  <2>2. g \in Unsettled(s)'
    BY <1>1
  <2>3. Unsettled(s) \in SUBSET Vertices
    BY DEF Unsettled
  <2>4. IsFiniteSet(Unsettled(s))
    BY <2>3, FS_Subset
  <2>5. /\ IsFiniteSet(Unsettled(s) \ {u})
        /\ Cardinality(Unsettled(s) \ {u}) = Cardinality(Unsettled(s)) - 1
    BY <2>4, FS_RemoveElement
  <2>6. Cardinality(Unsettled(s)') \in Nat /\ Cardinality(Unsettled(s)') # 0
    BY <2>1, <2>2, <2>5, FS_CardinalityType, FS_EmptySet
  <2> QED  BY <2>1, <2>5, <2>6
<1> QED  BY <1>1, RoutesEachTurnSettlesOne, PTL DEF EachTurnSettlesOne

(* The trajectories the table holds hang together: every road of one leads *)
(* from a vertex the table knows to another, and is the table's trajectory *)
(* between the two.                                                        *)
RoadsAreKnown ==
    \A u \in Vertices : \A v \in Neighbours(edges, u) :
        v \in DOMAIN trajectory[u] /\ trajectory[u][v] = Extended(edges, AtStart(u), u, v)

IsPart(table, d, from, to) ==
    /\ from \in DOMAIN table /\ to \in DOMAIN table /\ d[from][to] > 0
    /\ table[to].distance = table[from].distance + d[from][to]

GoesBy(table, d, s, v, stops) ==
    /\ Len(stops) > 0 /\ stops[1] = s /\ stops[Len(stops)] = v
    /\ \A i \in 1 .. Len(stops) - 1 : IsPart(table, d, stops[i], stops[i + 1])

RoutesHaveParts ==
    \A s \in Vertices : \A v \in DOMAIN trajectory[s] :
        GoesBy(trajectory[s], edges, s, v, trajectory[s][v].vertices)

(* The trajectory that stays has no parts.                                 *)
LEMMA StartHasParts ==
    ASSUME NEW s, NEW table, NEW d PROVE GoesBy(table, d, s, s, AtStart(s).vertices)
BY DEF GoesBy, AtStart

(* A road that is a part makes a trajectory longer by a part.              *)
LEMMA PartsGrow ==
    ASSUME NEW s \in Vertices, NEW u \in Vertices, NEW v \in Vertices, NEW t \in Trajectories,
           NEW table, NEW d, GoesBy(table, d, s, u, t.vertices), IsPart(table, d, u, v)
    PROVE  GoesBy(table, d, s, v, Extended(d, t, u, v).vertices)
<1> DEFINE old == t.vertices
           new == Append(old, v)
           n == Len(old)
<1>1. old \in Seq(Vertices)
  BY DEF Trajectories
<1>2. n \in Nat /\ n > 0 /\ old[1] = s /\ old[n] = u
      /\ \A i \in 1 .. n - 1 : IsPart(table, d, old[i], old[i + 1])
  BY <1>1 DEF GoesBy
<1>3. /\ Len(new) = n + 1 /\ new[n + 1] = v
      /\ \A i \in 1 .. n : new[i] = old[i]
  BY <1>1, AppendProperties
<1>4. Extended(d, t, u, v).vertices = new
  BY DEF Extended
<1> HIDE DEF old, new, n
<1>5. ASSUME NEW i \in 1 .. n PROVE IsPart(table, d, new[i], new[i + 1])
  <2>1. CASE i = n
    BY <1>2, <1>3, <2>1
  <2>2. CASE i # n
    <3>1. i \in 1 .. n - 1 /\ i + 1 \in 1 .. n
      BY <1>2, <2>2
    <3> QED  BY <1>2, <1>3, <3>1
  <2> QED  BY <2>1, <2>2
<1>6. Len(new) > 0 /\ new[1] = s /\ new[Len(new)] = v /\ Len(new) - 1 = n
  BY <1>2, <1>3
<1> QED  BY <1>4, <1>5, <1>6 DEF GoesBy

PartsInv == IInv /\ RoadsAreKnown /\ RoutesHaveParts

LEMMA PartsBegin == Init => PartsInv
<1> SUFFICES ASSUME Init PROVE PartsInv
  OBVIOUS
<1>1. IInv /\ edges \in Roads
  BY InitIInv DEF Init
<1>2. /\ \A u \in Vertices : Neighbours(edges, u) \subseteq Vertices /\ u \notin Neighbours(edges, u)
      /\ \A u \in Vertices : \A v \in Neighbours(edges, u) : edges[u][v] > 0
  BY <1>1, RoadFacts
<1>3. \A s \in Vertices : /\ DOMAIN trajectory[s] = {s} \cup Neighbours(edges, s)
                          /\ trajectory[s][s] = AtStart(s)
                          /\ \A v \in Neighbours(edges, s) :
                                trajectory[s][v] = Extended(edges, AtStart(s), s, v)
  BY <1>2 DEF Init
<1>4. RoadsAreKnown
  BY <1>3 DEF RoadsAreKnown
<1>5. RoutesHaveParts
  <2> SUFFICES ASSUME NEW s \in Vertices, NEW v \in DOMAIN trajectory[s]
               PROVE  GoesBy(trajectory[s], edges, s, v, trajectory[s][v].vertices)
    BY DEF RoutesHaveParts
  <2>1. CASE v = s
    BY <1>3, <2>1, StartHasParts
  <2>2. CASE v \in Neighbours(edges, s)
    <3>1. trajectory[s][v].distance = trajectory[s][s].distance + edges[s][v]
      <4>1. trajectory[s][v] = Extended(edges, AtStart(s), s, v) /\ trajectory[s][s] = AtStart(s)
        BY <1>3, <2>2
      <4>2. Extended(edges, AtStart(s), s, v).distance = AtStart(s).distance + edges[s][v]
        BY DEF Extended
      <4> QED  BY <4>1, <4>2
    <3>2. v \in Vertices /\ edges[s][v] > 0 /\ AtStart(s) \in Trajectories
      BY <1>2, <2>2, StayingIsARoute
    <3>3. IsPart(trajectory[s], edges, s, v)
      BY <1>3, <2>2, <3>1, <3>2 DEF IsPart
    <3>4. GoesBy(trajectory[s], edges, s, v, Extended(edges, AtStart(s), s, v).vertices)
      BY <3>2, <3>3, StartHasParts, PartsGrow
    <3> QED  BY <1>3, <2>2, <3>4
  <2> QED  BY <1>3, <2>1, <2>2
<1> QED  BY <1>1, <1>4, <1>5 DEF PartsInv

LEMMA PartsStep == PartsInv /\ [Next]_vars => PartsInv'
<1> SUFFICES ASSUME PartsInv, [Next]_vars PROVE PartsInv'
  OBVIOUS
<1>1. IInv /\ IInv'
  BY NextIInv DEF PartsInv
<1>2. CASE edges' = edges /\ trajectory' = trajectory
  BY <1>1, <1>2 DEF PartsInv, RoadsAreKnown, RoutesHaveParts, GoesBy, IsPart
<1>3. ASSUME NEW s \in Vertices, NEW g \in Vertices, Expand(s, g) PROVE PartsInv'
  <2>1. PICK u \in queue[s] :
          LET new == Neighbours(edges, u) \ memo[s]
          IN  /\ u \in memo[s] /\ u \in Vertices /\ new \subseteq Vertices
              /\ DOMAIN trajectory'[s] = memo[s] \cup new
              /\ \A v \in memo[s] : trajectory'[s][v] = trajectory[s][v]
              /\ \A v \in new : trajectory'[s][v] = Extended(edges, trajectory[s][u], u, v)
    BY <1>1, <1>3, ExpandEffect
  <2>2. PICK new : new = Neighbours(edges, u) \ memo[s]
    OBVIOUS
  <2>3. /\ u \in memo[s] /\ u \in Vertices /\ new \subseteq Vertices
        /\ DOMAIN trajectory'[s] = memo[s] \cup new
        /\ \A v \in memo[s] : trajectory'[s][v] = trajectory[s][v]
        /\ \A v \in new : trajectory'[s][v] = Extended(edges, trajectory[s][u], u, v)
    BY <2>1, <2>2
  <2>4. /\ edges' = edges /\ edges \in Roads /\ DOMAIN trajectory[s] = memo[s]
        /\ \A r \in Vertices \ {s} : trajectory'[r] = trajectory[r]
    BY <1>1, <1>3, ExpandFrame DEF IInv, TablesAgree, TypeOK
  <2>5. \A r \in Vertices : \A v \in DOMAIN trajectory[r] :
           v \in DOMAIN trajectory'[r] /\ trajectory'[r][v] = trajectory[r][v]
    BY <2>3, <2>4
  <2>6. RoadsAreKnown'
    BY <2>4, <2>5 DEF PartsInv, RoadsAreKnown, Neighbours
  <2>7. \A r \in Vertices : \A a, b :
           IsPart(trajectory[r], edges, a, b) => IsPart(trajectory'[r], edges', a, b)
    BY <2>4, <2>5 DEF IsPart
  <2>8. \A r \in Vertices : \A v, stops :
           GoesBy(trajectory[r], edges, r, v, stops) => GoesBy(trajectory'[r], edges', r, v, stops)
    BY <2>7 DEF GoesBy
  <2>9. ASSUME NEW r \in Vertices, NEW v \in DOMAIN trajectory[r]
        PROVE  GoesBy(trajectory'[r], edges', r, v, trajectory'[r][v].vertices)
    <3>1. GoesBy(trajectory[r], edges, r, v, trajectory[r][v].vertices)
      BY DEF PartsInv, RoutesHaveParts
    <3>2. trajectory'[r][v].vertices = trajectory[r][v].vertices
      BY <2>5
    <3> QED  BY <2>8, <3>1, <3>2
  <2>10. ASSUME NEW v \in new
         PROVE  GoesBy(trajectory'[s], edges', s, v, trajectory'[s][v].vertices)
    <3>1. PICK t : t = trajectory[s][u]
      OBVIOUS
    <3>2. t \in Trajectories /\ t.distance \in Nat /\ v \in Vertices
      BY <1>1, <2>3, <2>4, <3>1 DEF IInv, TypeOK, Trajectories
    <3>3. GoesBy(trajectory[s], edges, s, u, t.vertices)
      BY <2>3, <2>4, <3>1 DEF PartsInv, RoutesHaveParts
    <3>4. trajectory'[s][u] = t /\ trajectory'[s][v] = Extended(edges', t, u, v)
      BY <2>3, <2>4, <3>1
    <3>5. edges[u][v] > 0
      BY <2>2 DEF Neighbours
    <3>6. IsPart(trajectory'[s], edges', u, v)
      BY <2>3, <2>4, <3>4, <3>5 DEF IsPart, Extended
    <3>7. GoesBy(trajectory'[s], edges', s, u, t.vertices)
      BY <2>8, <3>3
    <3> QED  BY <2>3, <3>2, <3>4, <3>6, <3>7, PartsGrow
  <2> QED  BY <1>1, <2>3, <2>4, <2>6, <2>9, <2>10 DEF PartsInv, RoutesHaveParts
<1>4. ASSUME NEW s \in Vertices, NEW g \in Vertices,
             AnswerFromTable(s, g) \/ StartSearch(s, g) \/ Search(s, g)
      PROVE  PartsInv'
  BY <1>2, <1>3, <1>4 DEF AnswerFromTable, StartSearch, Search, vars
<1> QED  BY <1>2, <1>4 DEF Next, vars

(* What WorkerOutput assumes of the routes, of those the table holds.      *)
AsAssumed(u, v, stops) ==
    /\ trajectory[u][v].distance \in Nat
    /\ trajectory[u][v].distance = 0 <=> u = v
    /\ stops \in Seq(Vertices) \ {<<>>}
    /\ stops[1] = u /\ stops[Len(stops)] = v
    /\ \A i \in 1 .. Len(stops) - 1 :
          LET from == stops[i]
              to == stops[i + 1]
          IN  /\ to \in DOMAIN trajectory[from] /\ {from, to} \subseteq DOMAIN trajectory[u]
              /\ trajectory[from][to].vertices = <<from, to>> /\ from # to
              /\ trajectory[u][to].distance
                 = trajectory[u][from].distance + trajectory[from][to].distance

RoutesAreAsAssumed ==
    \A u \in Vertices : \A v \in DOMAIN trajectory[u] :
        AsAssumed(u, v, trajectory[u][v].vertices)

(* Two stops, appended or listed.                                          *)
LEMMA TwoStops ==
    ASSUME NEW a \in Vertices, NEW b \in Vertices PROVE Append(<<a>>, b) = <<a, b>>
<1>1. PICK one : one = <<a>>
  OBVIOUS
<1>2. PICK x : x = Append(one, b)
  OBVIOUS
<1>3. PICK y : y = <<a, b>>
  OBVIOUS
<1>4. one \in Seq(Vertices) /\ Len(one) = 1 /\ one[1] = a
  BY <1>1
<1>5. y \in Seq(Vertices) /\ Len(y) = 2 /\ y[1] = a /\ y[2] = b
  BY <1>3
<1>6. x \in Seq(Vertices)
  BY <1>2, <1>4, AppendProperties
<1>7. Len(x) = 2
  <2>1. Len(x) = Len(one) + 1
    BY ONLY <1>2, <1>4, b \in Vertices, AppendProperties
  <2> QED  BY <1>4, <2>1
<1>8. x[1] = a
  BY <1>2, <1>4, AppendProperties
<1>9. x[2] = b
  <2>1. x[Len(one) + 1] = b
    BY <1>2, <1>4, AppendProperties
  <2> QED  BY <1>4, <2>1
<1>10. \A i \in 1 .. Len(x) : x[i] = y[i]
  BY <1>5, <1>7, <1>8, <1>9
<1>11. x = y
  BY <1>5, <1>6, <1>7, <1>10, SeqEqual
<1> QED  BY <1>1, <1>2, <1>3, <1>11

LEMMA PartsAreAsAssumed == PartsInv => RoutesAreAsAssumed
<1> SUFFICES ASSUME PartsInv, NEW u \in Vertices, NEW v \in DOMAIN trajectory[u],
                    NEW stops, stops = trajectory[u][v].vertices
             PROVE  AsAssumed(u, v, stops)
  BY DEF RoutesAreAsAssumed
<1>1. /\ edges \in Roads /\ TrajectoriesAreRoutes
      /\ \A s \in Vertices : /\ DOMAIN trajectory[s] \subseteq Vertices
                             /\ \A w \in DOMAIN trajectory[s] : trajectory[s][w] \in Trajectories
  BY DEF PartsInv, IInv, TypeOK
<1>2. GoesBy(trajectory[u], edges, u, v, stops)
  BY DEF PartsInv, RoutesHaveParts
<1>3. stops \in Seq(Vertices) /\ stops # <<>> /\ trajectory[u][v].distance \in Nat
  BY <1>1, <1>2 DEF Trajectories, GoesBy
<1>4. trajectory[u][v].distance = 0 <=> u = v
  <2>1. CASE u = v
    <3>1. trajectory[u][u] = AtStart(u)
      BY <1>1, <2>1 DEF TrajectoriesAreRoutes
    <3>2. AtStart(u).distance = 0
      BY DEF AtStart
    <3> QED  BY <2>1, <3>1, <3>2
  <2>2. CASE u # v
    <3>1. PICK w \in DOMAIN trajectory[u] : Continues(u, w, v)
      BY <1>1, <2>2 DEF TrajectoriesAreRoutes
    <3>2. edges[w][v] \in Nat /\ trajectory[u][w].distance \in Nat
      BY <1>1, RoadFacts DEF Trajectories
    <3>3. edges[w][v] > 0 /\ trajectory[u][v].distance = trajectory[u][w].distance + edges[w][v]
      BY <3>1 DEF Continues
    <3> QED  BY <2>2, <3>2, <3>3
  <2> QED  BY <2>1, <2>2
<1>5. ASSUME NEW i \in 1 .. Len(stops) - 1, NEW from, NEW to, from = stops[i], to = stops[i + 1]
      PROVE  /\ to \in DOMAIN trajectory[from] /\ {from, to} \subseteq DOMAIN trajectory[u]
             /\ trajectory[from][to].vertices = <<from, to>> /\ from # to
             /\ trajectory[u][to].distance
                = trajectory[u][from].distance + trajectory[from][to].distance
  <2>1. IsPart(trajectory[u], edges, from, to)
    BY <1>2, <1>5 DEF GoesBy
  <2>2. /\ from \in DOMAIN trajectory[u] /\ to \in DOMAIN trajectory[u] /\ edges[from][to] > 0
        /\ trajectory[u][to].distance = trajectory[u][from].distance + edges[from][to]
    BY <2>1 DEF IsPart
  <2>3. from \in Vertices /\ to \in Vertices /\ to \in Neighbours(edges, from)
    BY <1>1, <2>2 DEF Neighbours
  <2>4. to \in DOMAIN trajectory[from] /\ trajectory[from][to] = Extended(edges, AtStart(from), from, to)
    BY <2>3 DEF PartsInv, RoadsAreKnown
  <2>5. edges[from][to] \in Nat /\ from # to
    BY <1>1, <2>3, RoadFacts
  <2>6. /\ Extended(edges, AtStart(from), from, to).vertices = <<from, to>>
        /\ Extended(edges, AtStart(from), from, to).distance = edges[from][to]
    <3>1. PICK n \in Nat : n = edges[from][to]
      BY <2>5
    <3>2. 0 + n = n
      OBVIOUS
    <3>3. Append(<<from>>, to) = <<from, to>>
      BY <2>3, TwoStops
    <3> QED  BY <3>1, <3>2, <3>3 DEF Extended, AtStart
  <2> QED  BY <2>2, <2>4, <2>5, <2>6
<1>6. stops[1] = u /\ stops[Len(stops)] = v
  BY <1>2 DEF GoesBy
<1> QED  BY <1>3, <1>4, <1>5, <1>6 DEF AsAssumed

(* The routes are as WorkerOutput assumes them: every stop on the way has  *)
(* its own route in the table, as far as the part that leads to it, and    *)
(* the road from stop to stop is the route between the two.                *)
THEOREM RoutesSuitThePlanner == Spec => []RoutesAreAsAssumed
BY PartsBegin, PartsStep, PartsAreAsAssumed, PTL DEF Spec

-----------------------------------------------------------------------------
(***************************************************************************)
(* The rectangle search, for grids of any size and any initial points.     *)
(* Candidates are kept while points and edges come that forbid them, so    *)
(* that a node of the ranking is known to have rectangles on its points,   *)
(* no more; only those of the node being processed can be drawn.           *)
(***************************************************************************)
Rectangles == [p2 : Grid, sides : SUBSET Grid, p4 : Grid]
Nodes == [answer : Seq(Rectangles), score : Nat, candidates : SUBSET Rectangles, done : BOOLEAN]

IsRectangleOn(r, points) ==
  /\ r.p2 \in points /\ r.p4 \in Grid
  /\ \E p1, p3 \in points : IsRightAngle(p1, r.p2, p3) /\ r = Rectangle(p1, r.p2, p3)

DrawingTypeOK ==
  /\ initialPoints \in SUBSET Grid
  /\ scoreRanking \in Seq(Nodes) /\ parent \in Nodes /\ untried \subseteq parent.candidates
  /\ printed.answer \in Seq(Rectangles)

RankingIsSound ==
  \A k \in DOMAIN scoreRanking :
    /\ CanBeDrawn(scoreRanking[k].answer)
    /\ \A r \in scoreRanking[k].candidates : IsRectangleOn(r, Points(scoreRanking[k].answer))

ParentIsSound ==
  /\ CanBeDrawn(parent.answer)
  /\ \A r \in parent.candidates : MayBeDrawn(r, parent.answer)

RankingIsSorted ==
  \A i, j \in DOMAIN scoreRanking : i <= j => scoreRanking[i].score >= scoreRanking[j].score

DrawingInv ==
  DrawingTypeOK /\ RankingIsSound /\ ParentIsSound /\ RankingIsSorted /\ CanBeDrawn(printed.answer)

\* What a rectangle of three corners is.
LEMMA RectangleIsOne ==
  ASSUME NEW p1 \in Grid, NEW p2 \in Grid, NEW p3 \in Grid, Rectangle(p1, p2, p3).p4 \in Grid
  PROVE  Rectangle(p1, p2, p3) \in Rectangles /\ Rectangle(p1, p2, p3).p2 = p2
  BY DEF Rectangle, Rectangles

\* What is found among the points is a rectangle on them, and touches no other.
LEMMA CandidatesAreRectangles ==
  ASSUME NEW points \in SUBSET Grid, NEW r \in CandidatesForAllPoints(points)
  PROVE  r \in Rectangles /\ IsRectangleOn(r, points) /\ HasOnlyItsCorners(r, points)
<1>1. PICK t \in points \X points \X points :
        /\ IsRightAngle(t[1], t[2], t[3]) /\ r = Rectangle(t[1], t[2], t[3])
        /\ r.p4 \in Grid /\ HasOnlyItsCorners(r, points)
  BY DEF CandidatesForAllPoints
<1>2. t[1] \in points /\ t[2] \in points /\ t[3] \in points
  OBVIOUS
<1>3. r \in Rectangles /\ r.p2 = t[2]
  BY <1>1, <1>2, RectangleIsOne
<1> QED
  BY <1>1, <1>2, <1>3 DEF IsRectangleOn

LEMMA RectangleStays ==
  ASSUME NEW r, NEW points, NEW more, points \subseteq more, IsRectangleOn(r, points)
  PROVE  IsRectangleOn(r, more)
  BY DEF IsRectangleOn

\* calcScore: a rectangle scores something.
LEMMA WeightIsNat == ASSUME NEW p \in Grid PROVE Weight(p) \in Nat
<1>1. \A i \in Int : i * i \in Nat
  <2>1. ASSUME NEW i \in Int PROVE i * i >= 0
    <3>1. CASE i >= 0
      BY <3>1
    <3>2. CASE i < 0
      BY <3>2
    <3> QED
      BY <3>1, <3>2
  <2> QED
    BY <2>1
<1>2. p[1] \in Int /\ p[2] \in Int /\ (N - 1) \div 2 \in Int
  BY InstancesAreOnTheGrid DEF Grid
<1>3. p[1] - (N - 1) \div 2 \in Int /\ p[2] - (N - 1) \div 2 \in Int
  BY <1>2
<1> QED
  BY <1>1, <1>3 DEF Weight

LEMMA PointsGrow ==
  ASSUME initialPoints \in SUBSET Grid, NEW a \in Seq(Rectangles), NEW r \in Rectangles
  PROVE  /\ Append(a, r) \in Seq(Rectangles)
         /\ Points(a) \in SUBSET Grid /\ Points(a) \subseteq Points(Append(a, r))
<1>1. \A i \in DOMAIN a : a[i] \in Rectangles
  OBVIOUS
<1>2. \A i \in DOMAIN a : a[i].p4 \in Grid
  BY <1>1 DEF Rectangles
<1>3. /\ Append(a, r) \in Seq(Rectangles)
      /\ \A i \in DOMAIN a : i \in DOMAIN Append(a, r) /\ Append(a, r)[i] = a[i]
  <2> HIDE DEF Rectangles
  <2> QED
    BY AppendProperties
<1> QED
  BY <1>2, <1>3 DEF Points

\* An answer and what may be drawn next make an answer.
LEMMA DrawingGoesOn ==
  ASSUME NEW a \in Seq(Rectangles), NEW r \in Rectangles, CanBeDrawn(a), MayBeDrawn(r, a)
  PROVE  CanBeDrawn(Append(a, r))
<1> DEFINE b == Append(a, r)
<1>1. /\ DOMAIN b = 1 .. Len(a) + 1 /\ b[Len(a) + 1] = r /\ Len(a) \in Nat /\ DOMAIN a = 1 .. Len(a)
      /\ \A i \in DOMAIN a : b[i] = a[i]
  OBVIOUS
<1>2. SubSeq(b, 1, Len(a)) = a
  OBVIOUS
<1>3. \A i \in DOMAIN a : SubSeq(b, 1, i - 1) = SubSeq(a, 1, i - 1)
  OBVIOUS
<1> HIDE DEF b
<1>4. ASSUME NEW i \in DOMAIN b PROVE MayBeDrawn(b[i], SubSeq(b, 1, i - 1))
  <2>1. CASE i = Len(a) + 1
    <3>1. i - 1 = Len(a)
      BY <1>1, <2>1
    <3> QED
      BY <1>1, <1>2, <2>1, <3>1
  <2>2. CASE i \in DOMAIN a
    BY <1>1, <1>3, <2>2 DEF CanBeDrawn
  <2> QED
    BY <1>1, <2>1, <2>2
<1> QED
  BY <1>4 DEF CanBeDrawn, b

\* The initial points never change, nor does what they allow.
LEMMA DrawingPrimes ==
  ASSUME initialPoints' = initialPoints
  PROVE  /\ (\A k \in DOMAIN scoreRanking' :
               /\ CanBeDrawn(scoreRanking'[k].answer)
               /\ \A r \in scoreRanking'[k].candidates :
                     IsRectangleOn(r, Points(scoreRanking'[k].answer))) => RankingIsSound'
         /\ (/\ CanBeDrawn(parent'.answer)
             /\ \A r \in parent'.candidates : MayBeDrawn(r, parent'.answer)) => ParentIsSound'
         /\ CanBeDrawn(printed'.answer) => CanBeDrawn(printed.answer)'
<1>1. \A a : CanBeDrawn(a)' <=> CanBeDrawn(a)
  BY DEF CanBeDrawn, MayBeDrawn, Points, ExistingEdges
<1> QED
  BY DEF RankingIsSound, ParentIsSound, CanBeDrawn, MayBeDrawn, Points, ExistingEdges

LEMMA DrawingBegins == ASSUME DrawingInit PROVE DrawingInv
<1>1. /\ initialPoints \in SUBSET Grid /\ scoreRanking = << >> /\ parent = Root
      /\ untried = Root.candidates /\ printed = NotYet
  BY InstancesAreOnTheGrid DEF DrawingInit
<1>2. /\ Root.answer = << >> /\ Root.score = 0 /\ Root.done = FALSE
      /\ Root.candidates = CandidatesForAllPoints(initialPoints)
  BY DEF Root
<1>3. << >> \in Seq(Rectangles) /\ << >> \in Seq(Nodes) /\ DOMAIN << >> = {} /\ NotYet.answer = << >>
  BY EmptySeq DEF NotYet
<1>4. Points(<< >>) = initialPoints /\ ExistingEdges(<< >>) = {}
  BY DEF Points, ExistingEdges
<1>5. \A r \in Root.candidates : r \in Rectangles /\ MayBeDrawn(r, << >>)
  <2>1. SUFFICES ASSUME NEW r \in CandidatesForAllPoints(initialPoints)
                 PROVE  r \in Rectangles /\ MayBeDrawn(r, << >>)
    BY <1>2
  <2>2. r \in Rectangles /\ IsRectangleOn(r, initialPoints) /\ HasOnlyItsCorners(r, initialPoints)
    BY <1>1, CandidatesAreRectangles
  <2>3. ~IsOverlapped(r, {})
    BY DEF IsOverlapped
  <2> QED
    BY <1>4, <2>2, <2>3 DEF MayBeDrawn, IsRectangleOn
<1>6. Root \in Nodes
  BY <1>3, <1>5 DEF Root, Nodes
<1>7. CanBeDrawn(<< >>)
  BY <1>3 DEF CanBeDrawn
<1>8. DrawingTypeOK
  BY <1>1, <1>2, <1>3, <1>6 DEF DrawingTypeOK
<1>9. RankingIsSound /\ RankingIsSorted
  BY <1>1, <1>3 DEF RankingIsSound, RankingIsSorted
<1>10. ParentIsSound
  BY <1>1, <1>2, <1>5, <1>7 DEF ParentIsSound
<1> QED
  BY <1>1, <1>3, <1>7, <1>8, <1>9, <1>10 DEF DrawingInv

\* A child that is dropped leaves everything as it is, and so does the end.
LEMMA SameRankingKeeps ==
  ASSUME DrawingInv, initialPoints' = initialPoints, scoreRanking' = scoreRanking,
         parent' = parent, untried' \subseteq untried, printed' = printed
  PROVE  DrawingInv'
<1>1. DrawingTypeOK /\ RankingIsSound /\ ParentIsSound /\ RankingIsSorted /\ CanBeDrawn(printed.answer)
  BY DEF DrawingInv
<1>2. DrawingTypeOK'
  BY <1>1 DEF DrawingTypeOK
<1>3. RankingIsSound'
  BY <1>1, DrawingPrimes DEF RankingIsSound
<1>4. ParentIsSound'
  BY <1>1, DrawingPrimes DEF ParentIsSound
<1>5. RankingIsSorted'
  BY <1>1 DEF RankingIsSorted
<1>6. CanBeDrawn(printed.answer)'
  BY <1>1, DrawingPrimes
<1> QED
  BY <1>2, <1>3, <1>4, <1>5, <1>6 DEF DrawingInv

\* A node in its place among the others.
LEMMA InsertedNodes ==
  ASSUME scoreRanking \in Seq(Nodes), NEW node \in Nodes, NEW k \in 1 .. Len(scoreRanking) + 1
  PROVE  /\ Inserted(node, k) \in Seq(Nodes) /\ Len(Inserted(node, k)) = Len(scoreRanking) + 1
         /\ \A i \in 1 .. Len(scoreRanking) + 1 :
              /\ i < k => i \in DOMAIN scoreRanking /\ Inserted(node, k)[i] = scoreRanking[i]
              /\ i = k => Inserted(node, k)[i] = node
              /\ i > k => i - 1 \in DOMAIN scoreRanking /\ Inserted(node, k)[i] = scoreRanking[i - 1]
<1> DEFINE s == scoreRanking
           n == Len(scoreRanking)
           b == SubSeq(s, 1, k - 1)
           a == SubSeq(s, k, n)
<1>1. n \in Nat /\ k \in Int /\ 1 <= k /\ k <= n + 1 /\ s \in Seq(Nodes) /\ DOMAIN s = 1 .. n
  OBVIOUS
<1>2. b \in Seq(Nodes) /\ Len(b) = k - 1 /\ \A i \in 1 .. k - 1 : b[i] = s[i]
  BY <1>1
<1>3. a \in Seq(Nodes) /\ Len(a) = n - k + 1 /\ \A i \in 1 .. n - k + 1 : a[i] = s[k + i - 1]
  BY <1>1
<1>4. <<node>> \in Seq(Nodes) /\ Len(<<node>>) = 1 /\ <<node>>[1] = node
  OBVIOUS
<1> HIDE DEF a, b, s, n
<1>5. /\ b \o <<node>> \in Seq(Nodes) /\ Len(b \o <<node>>) = k
      /\ \A i \in 1 .. k - 1 : (b \o <<node>>)[i] = s[i]
      /\ (b \o <<node>>)[k] = node
  BY <1>1, <1>2, <1>4
<1> DEFINE c == b \o <<node>>
<1> HIDE DEF c
<1>6. /\ c \in Seq(Nodes) /\ Len(c) = k /\ \A i \in 1 .. k - 1 : c[i] = s[i]
      /\ c[k] = node
  BY <1>5 DEF c
<1>7. /\ c \o a \in Seq(Nodes) /\ Len(c \o a) = n + 1
      /\ \A i \in 1 .. k : (c \o a)[i] = c[i]
      /\ \A i \in k + 1 .. n + 1 : (c \o a)[i] = a[i - k]
  BY <1>1, <1>3, <1>6
<1>8. \A i \in k + 1 .. n + 1 : i - k \in 1 .. n - k + 1 /\ k + (i - k) - 1 = i - 1 /\ i - 1 \in 1 .. n
  BY <1>1
<1>9. \A i \in k + 1 .. n + 1 : (c \o a)[i] = s[i - 1]
  BY <1>3, <1>7, <1>8
<1>10. Inserted(node, k) = c \o a
  BY DEF Inserted, a, b, c, s, n
<1>11. \A i \in 1 .. n + 1 :
         /\ i < k => i \in 1 .. n /\ (c \o a)[i] = s[i]
         /\ i = k => (c \o a)[i] = node
         /\ i > k => i - 1 \in 1 .. n /\ (c \o a)[i] = s[i - 1]
  BY <1>1, <1>6, <1>7, <1>8, <1>9
<1> QED
  BY <1>1, <1>7, <1>10, <1>11 DEF s, n

\* What a child is: a drawing one rectangle longer than its parent's.
LEMMA ChildIsSound ==
  ASSUME DrawingInv, NEW r \in untried
  PROVE  /\ Child(r) \in Nodes /\ CanBeDrawn(Child(r).answer)
         /\ \A q \in Child(r).candidates : IsRectangleOn(q, Points(Child(r).answer))
<1>1. /\ DrawingTypeOK /\ CanBeDrawn(parent.answer)
      /\ \A q \in parent.candidates : MayBeDrawn(q, parent.answer)
  BY DEF DrawingInv, ParentIsSound
<1>2. /\ parent.answer \in Seq(Rectangles) /\ parent.score \in Nat /\ parent.candidates \subseteq Rectangles
      /\ r \in parent.candidates /\ initialPoints \in SUBSET Grid
  BY <1>1 DEF DrawingTypeOK, Nodes
<1>3. r \in Rectangles /\ r.p4 \in Grid
  BY <1>2 DEF Rectangles
<1>4. /\ Child(r).answer = Append(parent.answer, r) /\ Child(r).candidates = parent.candidates \ {r}
      /\ Child(r).score = parent.score + Weight(r.p4)
  BY DEF Child
<1>5. Weight(r.p4) \in Nat
  BY <1>3, WeightIsNat
<1>6. Append(parent.answer, r) \in Seq(Rectangles) /\ Points(parent.answer) \subseteq Points(Append(parent.answer, r))
  BY <1>2, <1>3, PointsGrow
<1>7. Child(r) \in Nodes
  <2>1. parent.score + Weight(r.p4) \in Nat /\ parent.candidates \ {r} \in SUBSET Rectangles
    BY <1>2, <1>5
  <2> QED
    BY <1>6, <2>1 DEF Child, Nodes
<1>8. CanBeDrawn(Append(parent.answer, r))
  BY <1>1, <1>2, <1>3, DrawingGoesOn
<1>9. \A q \in parent.candidates : IsRectangleOn(q, Points(parent.answer))
  BY <1>1 DEF MayBeDrawn, IsRectangleOn
<1> QED
  BY <1>4, <1>6, <1>7, <1>8, <1>9, RectangleStays

LEMMA RankChildKeeps ==
  ASSUME DrawingInv, NEW r \in untried, RankChild(r)
  PROVE  DrawingInv'
<1>1. DrawingTypeOK /\ RankingIsSound /\ ParentIsSound /\ RankingIsSorted /\ CanBeDrawn(printed.answer)
  BY DEF DrawingInv
<1> DEFINE child == Child(r)
           n == Len(scoreRanking)
<1>2. PICK k \in 1 .. n + 1 : IsPlaceOf(child, k) /\ scoreRanking' = Inserted(child, k)
  BY DEF RankChild
<1>3. /\ initialPoints' = initialPoints /\ parent' = parent /\ printed' = printed /\ untried' \subseteq untried
  BY DEF RankChild
<1>4. /\ child \in Nodes /\ CanBeDrawn(child.answer)
      /\ \A q \in child.candidates : IsRectangleOn(q, Points(child.answer))
  BY ChildIsSound
<1>5. scoreRanking \in Seq(Nodes) /\ n \in Nat /\ DOMAIN scoreRanking = 1 .. n
  BY <1>1 DEF DrawingTypeOK
<1> HIDE DEF child, n
<1>6. /\ scoreRanking' \in Seq(Nodes) /\ DOMAIN scoreRanking' = 1 .. n + 1
      /\ \A i \in 1 .. n + 1 :
           /\ i < k => i \in DOMAIN scoreRanking /\ scoreRanking'[i] = scoreRanking[i]
           /\ i = k => scoreRanking'[i] = child
           /\ i > k => i - 1 \in DOMAIN scoreRanking /\ scoreRanking'[i] = scoreRanking[i - 1]
  <2>1. /\ Inserted(child, k) \in Seq(Nodes) /\ Len(Inserted(child, k)) = n + 1
        /\ \A i \in 1 .. n + 1 :
           /\ i < k => i \in DOMAIN scoreRanking /\ Inserted(child, k)[i] = scoreRanking[i]
           /\ i = k => Inserted(child, k)[i] = child
           /\ i > k => i - 1 \in DOMAIN scoreRanking /\ Inserted(child, k)[i] = scoreRanking[i - 1]
    BY <1>4, <1>5, InsertedNodes DEF n
  <2>2. DOMAIN Inserted(child, k) = 1 .. n + 1
    BY <2>1
  <2> QED
    BY <1>2, <2>1, <2>2
<1>7. DrawingTypeOK'
  BY <1>1, <1>3, <1>6 DEF DrawingTypeOK
<1>8. RankingIsSound'
  <2>1. \A i \in DOMAIN scoreRanking' : scoreRanking'[i] = child \/ \E j \in DOMAIN scoreRanking : scoreRanking'[i] = scoreRanking[j]
    <3>1. SUFFICES ASSUME NEW i \in 1 .. n + 1
                   PROVE  scoreRanking'[i] = child \/ \E j \in DOMAIN scoreRanking : scoreRanking'[i] = scoreRanking[j]
      BY <1>6
    <3>2. CASE i < k
      BY <1>6, <3>2
    <3>3. CASE i = k
      BY <1>6, <3>3
    <3>4. CASE i > k
      BY <1>6, <3>4
    <3>5. i \in Int /\ k \in Int
      BY <1>5
    <3> QED
      BY <3>2, <3>3, <3>4, <3>5
  <2> QED
    BY <1>1, <1>3, <1>4, <2>1, DrawingPrimes DEF RankingIsSound
<1>9. RankingIsSorted'
  <2>1. /\ \A i \in 1 .. k - 1 : scoreRanking[i].score >= child.score
        /\ \A i \in k .. n : scoreRanking[i].score < child.score
    BY <1>2 DEF IsPlaceOf, n
  <2>2. child.score \in Nat /\ \A i \in 1 .. n : scoreRanking[i].score \in Nat
    <3>1. \A i \in 1 .. n : scoreRanking[i] \in Nodes
      BY <1>5
    <3>2. child.score \in Nat
      BY <1>4 DEF Nodes
    <3>3. \A i \in 1 .. n : scoreRanking[i].score \in Nat
      BY <3>1 DEF Nodes
    <3> QED
      BY <3>2, <3>3
  <2>3. SUFFICES ASSUME NEW i \in 1 .. n + 1, NEW j \in 1 .. n + 1, i < j
                 PROVE  scoreRanking'[i].score >= scoreRanking'[j].score
    <3>1. \A i \in 1 .. n + 1 : scoreRanking'[i].score \in Nat
      <4>1. \A i \in 1 .. n + 1 : scoreRanking'[i] \in Nodes
        <5>1. scoreRanking' \in Seq(Nodes)
          BY <1>6
        <5>2. \A i \in DOMAIN scoreRanking' : scoreRanking'[i] \in Nodes
          BY <5>1
        <5> QED
          BY <1>6, <5>2
      <4> QED
        BY <4>1 DEF Nodes
    <3> QED
      BY <1>5, <1>6, <2>3, <3>1 DEF RankingIsSorted
  <2>4. CASE j < k
    BY <1>1, <1>5, <1>6, <2>3, <2>4 DEF RankingIsSorted
  <2>5. CASE j = k
    <3>1. i \in 1 .. k - 1
      BY <1>5, <2>3, <2>5
    <3> QED
      BY <1>6, <2>1, <2>3, <2>5, <3>1
  <2>6. CASE j > k
    <3>1. j - 1 \in k .. n /\ j - 1 \in 1 .. n /\ scoreRanking'[j] = scoreRanking[j - 1]
      BY <1>5, <1>6, <2>6
    <3>2. CASE i < k
      <4>1. i \in 1 .. n /\ scoreRanking'[i] = scoreRanking[i] /\ i <= j - 1
        BY <1>5, <1>6, <2>6, <3>2
      <4> QED
        BY <1>1, <1>5, <3>1, <4>1 DEF RankingIsSorted
    <3>3. CASE i = k
      BY <1>6, <2>1, <2>2, <3>1, <3>3
    <3>4. CASE i > k
      <4>1. i - 1 \in 1 .. n /\ scoreRanking'[i] = scoreRanking[i - 1] /\ i - 1 <= j - 1
        BY <1>5, <1>6, <2>3, <3>4
      <4> QED
        BY <1>1, <1>5, <3>1, <4>1 DEF RankingIsSorted
    <3> QED
      BY <1>5, <3>2, <3>3, <3>4
  <2> QED
    BY <1>5, <2>4, <2>5, <2>6
<1>10. ParentIsSound' /\ CanBeDrawn(printed.answer)'
  BY <1>1, <1>3, DrawingPrimes DEF ParentIsSound
<1> QED
  BY <1>7, <1>8, <1>9, <1>10 DEF DrawingInv

\* What a node of the ranking is.
LEMMA RankedNode ==
  ASSUME NEW ranking \in Seq(Nodes), NEW i \in DOMAIN ranking
  PROVE  ranking[i] \in Nodes /\ ranking[i].score \in Nat
<1>1. ranking[i] \in Nodes
  OBVIOUS
<1> QED
  BY <1>1 DEF Nodes

\* markAsDone: the answer and the score of a node stay.
LEMMA DoneStays ==
  ASSUME NEW node \in Nodes
  PROVE  /\ Done(node) \in Nodes /\ Done(node).answer = node.answer /\ Done(node).score = node.score
         /\ Done(node).candidates = {}
  BY DEF Done, Nodes

LEMMA MarkAsDoneKeeps == ASSUME DrawingInv, MarkAsDone PROVE DrawingInv'
<1>1. DrawingTypeOK /\ RankingIsSound /\ ParentIsSound /\ RankingIsSorted /\ CanBeDrawn(printed.answer)
  BY DEF DrawingInv
<1> DEFINE n == Len(scoreRanking)
           marked == [k \in DOMAIN scoreRanking |->
                        IF scoreRanking[k].answer = parent.answer THEN Done(scoreRanking[k])
                        ELSE scoreRanking[k]]
<1>2. /\ initialPoints' = initialPoints /\ printed' = printed /\ untried = {} /\ untried' = {}
      /\ scoreRanking' = marked /\ parent' = Done(parent)
  BY DEF MarkAsDone
<1>3. scoreRanking \in Seq(Nodes) /\ n \in Nat /\ DOMAIN scoreRanking = 1 .. n /\ parent \in Nodes
  BY <1>1 DEF DrawingTypeOK
<1>4. ASSUME NEW i \in DOMAIN scoreRanking
      PROVE  /\ marked[i] \in Nodes /\ marked[i].score = scoreRanking[i].score
             /\ marked[i].answer = scoreRanking[i].answer
             /\ marked[i].candidates \subseteq scoreRanking[i].candidates
  <2>1. scoreRanking[i] \in Nodes
    BY <1>3, RankedNode
  <2> QED
    BY <2>1, DoneStays
<1>5. marked \in Seq(Nodes) /\ DOMAIN marked = DOMAIN scoreRanking
  <2>1. marked \in [1 .. n -> Nodes]
    BY <1>3, <1>4
  <2> QED
    BY <1>3, <2>1, SeqDef
<1> HIDE DEF marked, n
<1>6. DrawingTypeOK'
  BY <1>1, <1>2, <1>3, <1>5, DoneStays DEF DrawingTypeOK
<1>7. RankingIsSound'
  <2>1. ASSUME NEW i \in DOMAIN marked
        PROVE  /\ CanBeDrawn(marked[i].answer)
               /\ \A r \in marked[i].candidates : IsRectangleOn(r, Points(marked[i].answer))
    BY <1>1, <1>4, <1>5 DEF RankingIsSound
  <2> QED
    BY <1>2, <2>1, DrawingPrimes
<1>8. ParentIsSound'
  BY <1>1, <1>2, <1>3, DoneStays, DrawingPrimes DEF ParentIsSound
<1>9. RankingIsSorted'
  BY <1>1, <1>2, <1>4, <1>5 DEF RankingIsSorted
<1>10. CanBeDrawn(printed.answer)'
  BY <1>1, <1>2, DrawingPrimes
<1> QED
  BY <1>6, <1>7, <1>8, <1>9, <1>10 DEF DrawingInv

\* What erasing leaves: nodes of the ranking, in their order.
LEMMA ErasedNodes ==
  ASSUME scoreRanking \in Seq(Nodes), NEW k \in DOMAIN scoreRanking
  PROVE  /\ Erased(k) \in Seq(Nodes) /\ Len(Erased(k)) >= 1 /\ Erased(k)[1] = scoreRanking[1]
         /\ \E place \in [DOMAIN Erased(k) -> DOMAIN scoreRanking] :
              /\ \A i \in DOMAIN Erased(k) : Erased(k)[i] = scoreRanking[place[i]]
              /\ \A i, j \in DOMAIN Erased(k) : i <= j => place[i] <= place[j]
              /\ \A i, j \in DOMAIN Erased(k) : place[i] = place[j] => i = j
<1> DEFINE n == Len(scoreRanking)
           s == scoreRanking
           e == Erased(k)
<1>1. n \in Nat /\ k \in Int /\ 1 <= k /\ k <= n /\ s \in Seq(Nodes) /\ DOMAIN s = 1 .. n
  OBVIOUS
<1>2. CASE k > 1
  <2> DEFINE a == SubSeq(s, k, n)
             place == [i \in 1 .. n - k + 2 |-> IF i = 1 THEN 1 ELSE i + k - 2]
  <2>1. a \in Seq(Nodes) /\ Len(a) = n - k + 1 /\ \A i \in 1 .. n - k + 1 : a[i] = s[k + i - 1]
    BY <1>1
  <2>2. e = <<s[1]>> \o a
    BY <1>2 DEF Erased
  <2>3. <<s[1]>> \in Seq(Nodes) /\ Len(<<s[1]>>) = 1 /\ <<s[1]>>[1] = s[1]
    BY <1>1
  <2> HIDE DEF a, e, s, n
  <2>4. /\ e \in Seq(Nodes) /\ Len(e) = n - k + 2 /\ e[1] = s[1]
        /\ \A i \in 2 .. n - k + 2 : e[i] = a[i - 1]
    BY <1>1, <2>1, <2>2, <2>3
  <2>5. DOMAIN e = 1 .. n - k + 2
    BY <2>4
  <2>6. \A i \in 2 .. n - k + 2 : i - 1 \in 1 .. n - k + 1 /\ k + (i - 1) - 1 = i + k - 2
    BY <1>1
  <2>7. \A i \in 1 .. n - k + 2 : place[i] \in 1 .. n /\ e[i] = s[place[i]]
    <3>1. SUFFICES ASSUME NEW i \in 1 .. n - k + 2 PROVE place[i] \in 1 .. n /\ e[i] = s[place[i]]
      OBVIOUS
    <3>2. CASE i = 1
      BY <1>1, <2>4, <3>2
    <3>3. CASE i \in 2 .. n - k + 2
      <4>1. place[i] = i + k - 2 /\ i + k - 2 \in 1 .. n
        BY <1>1, <3>3
      <4>2. e[i] = s[i + k - 2]
        BY <2>1, <2>4, <2>6, <3>3
      <4> QED
        BY <4>1, <4>2
    <3> QED
      BY <1>1, <3>2, <3>3
  <2>8. \A i, j \in 1 .. n - k + 2 :
          (i <= j => place[i] <= place[j]) /\ (place[i] = place[j] => i = j)
    BY <1>1, <1>2
  <2>9. place \in [DOMAIN e -> 1 .. n]
    <3> HIDE DEF place
    <3>1. DOMAIN place = 1 .. n - k + 2 /\ place = [i \in 1 .. n - k + 2 |-> place[i]]
      BY DEF place
    <3> QED
      BY <2>5, <2>7, <3>1
  <2>10. Len(e) >= 1
    BY <1>1, <2>4
  <2> HIDE DEF place
  <2>11. /\ \A i \in DOMAIN e : e[i] = s[place[i]]
         /\ \A i, j \in DOMAIN e : i <= j => place[i] <= place[j]
         /\ \A i, j \in DOMAIN e : place[i] = place[j] => i = j
    BY <2>5, <2>7, <2>8
  <2> QED
    BY <1>1, <2>4, <2>9, <2>10, <2>11 DEF e, s
<1>3. CASE ~(k > 1)
  <2>1. e = s
    BY <1>3 DEF Erased
  <2> DEFINE place == [i \in 1 .. n |-> i]
  <2>2. place \in [DOMAIN s -> DOMAIN s] /\ \A i \in 1 .. n : place[i] = i
    BY <1>1
  <2>3. Len(s) >= 1
    BY <1>1
  <2> HIDE DEF place, e, s, n
  <2> QED
    BY <1>1, <2>1, <2>2, <2>3 DEF e, s
<1> QED
  BY <1>2, <1>3

LEMMA PointsOnGrid ==
  ASSUME initialPoints \in SUBSET Grid, NEW a \in Seq(Rectangles)
  PROVE  Points(a) \in SUBSET Grid
<1>1. \A i \in DOMAIN a : a[i] \in Rectangles
  OBVIOUS
<1>2. \A i \in DOMAIN a : a[i].p4 \in Grid
  BY <1>1 DEF Rectangles
<1> QED
  BY <1>2 DEF Points

\* What a node is to be processed with can be drawn after its answer: its own
\* candidates are examined anew, and what is found is free of the edges.
LEMMA NewCandidatesMayBeDrawn ==
  ASSUME initialPoints \in SUBSET Grid, NEW node \in Nodes,
         \A r \in node.candidates : IsRectangleOn(r, Points(node.answer)),
         NEW r \in Sanitized(node) \union Additional(node)
  PROVE  r \in Rectangles /\ MayBeDrawn(r, node.answer)
<1>1. node.answer \in Seq(Rectangles) /\ node.candidates \subseteq Rectangles
  BY DEF Nodes
<1>2. CASE r \in Sanitized(node)
  <2>1. /\ r \in node.candidates /\ ~IsOverlapped(r, ExistingEdges(node.answer))
        /\ HasOnlyItsCorners(r, Points(node.answer))
    BY <1>2 DEF Sanitized
  <2>2. IsRectangleOn(r, Points(node.answer))
    BY <2>1
  <2> QED
    BY <1>1, <2>1, <2>2 DEF MayBeDrawn, IsRectangleOn
<1>3. CASE r \in Additional(node)
  <2>1. /\ r \in CandidatesForAllPoints(Points(node.answer))
        /\ ~IsOverlapped(r, ExistingEdges(node.answer))
    BY <1>3 DEF Additional
  <2>2. /\ r \in Rectangles /\ IsRectangleOn(r, Points(node.answer))
        /\ HasOnlyItsCorners(r, Points(node.answer))
    BY <1>1, <2>1, PointsOnGrid, CandidatesAreRectangles
  <2> QED
    BY <2>1, <2>2 DEF MayBeDrawn, IsRectangleOn
<1> QED
  BY <1>2, <1>3

\* A ranking of some of the nodes, in their order, is as sound as the ranking.
LEMMA SomeNodesKeep ==
  ASSUME DrawingTypeOK, RankingIsSound, RankingIsSorted, initialPoints' = initialPoints,
         scoreRanking' \in Seq(Nodes),
         NEW place \in [DOMAIN scoreRanking' -> DOMAIN scoreRanking],
         \A i \in DOMAIN scoreRanking' : scoreRanking'[i] = scoreRanking[place[i]],
         \A i, j \in DOMAIN scoreRanking' : i <= j => place[i] <= place[j]
  PROVE  RankingIsSound' /\ RankingIsSorted'
<1>1. RankingIsSound'
  <2>1. ASSUME NEW i \in DOMAIN scoreRanking'
        PROVE  /\ CanBeDrawn(scoreRanking'[i].answer)
               /\ \A r \in scoreRanking'[i].candidates :
                     IsRectangleOn(r, Points(scoreRanking'[i].answer))
    BY DEF RankingIsSound
  <2> QED
    BY <2>1, DrawingPrimes
<1>2. RankingIsSorted'
  BY DEF RankingIsSorted
<1> QED
  BY <1>1, <1>2

LEMMA ProcessOneNodeKeeps == ASSUME DrawingInv, ProcessOneNode PROVE DrawingInv'
<1>1. DrawingTypeOK /\ RankingIsSound /\ ParentIsSound /\ RankingIsSorted /\ CanBeDrawn(printed.answer)
  BY DEF DrawingInv
<1>2. PICK k \in DOMAIN scoreRanking :
        /\ scoreRanking' = Erased(k)
        /\ untried' = Sanitized(scoreRanking[k]) \union Additional(scoreRanking[k])
        /\ parent' = [scoreRanking[k] EXCEPT !.candidates = untried']
  BY DEF ProcessOneNode
<1>3. initialPoints' = initialPoints /\ printed' = printed
  BY DEF ProcessOneNode
<1> DEFINE node == scoreRanking[k]
<1>4. scoreRanking \in Seq(Nodes) /\ initialPoints \in SUBSET Grid
  BY <1>1 DEF DrawingTypeOK
<1>5. node \in Nodes
  BY <1>4, RankedNode
<1>6. CanBeDrawn(node.answer) /\ \A r \in node.candidates : IsRectangleOn(r, Points(node.answer))
  BY <1>1 DEF RankingIsSound
<1> HIDE DEF node
<1>7. \A r \in untried' : r \in Rectangles /\ MayBeDrawn(r, node.answer)
  BY <1>2, <1>4, <1>5, <1>6, NewCandidatesMayBeDrawn DEF node
<1>8. parent' \in Nodes /\ parent'.answer = node.answer /\ parent'.candidates = untried'
  <2>1. parent' = [node EXCEPT !.candidates = untried'] /\ untried' \in SUBSET Rectangles
    BY <1>2, <1>7 DEF node
  <2> QED
    BY <1>5, <2>1 DEF Nodes
<1>9. ParentIsSound'
  BY <1>3, <1>6, <1>7, <1>8, DrawingPrimes
<1>10. scoreRanking' \in Seq(Nodes)
  BY <1>2, <1>4, ErasedNodes
<1>11. DrawingTypeOK'
  BY <1>1, <1>3, <1>8, <1>10 DEF DrawingTypeOK
<1>12. PICK place \in [DOMAIN scoreRanking' -> DOMAIN scoreRanking] :
         /\ \A i \in DOMAIN scoreRanking' : scoreRanking'[i] = scoreRanking[place[i]]
         /\ \A i, j \in DOMAIN scoreRanking' : i <= j => place[i] <= place[j]
  BY <1>2, <1>4, ErasedNodes
<1>13. RankingIsSound' /\ RankingIsSorted'
  BY <1>1, <1>3, <1>10, <1>12, SomeNodesKeep
<1>14. CanBeDrawn(printed.answer)'
  BY <1>1, <1>3, DrawingPrimes
<1> QED
  BY <1>9, <1>11, <1>13, <1>14 DEF DrawingInv

\* What is printed is the answer of a node of the ranking, or no rectangle.
LEMMA PrintedIsRanked ==
  ASSUME DrawingInv, PrintBestAnswer
  PROVE  /\ printed'.answer \in Seq(Rectangles) /\ CanBeDrawn(printed'.answer)
         /\ initialPoints' = initialPoints /\ parent' = parent /\ untried' = untried
<1>1. scoreRanking \in Seq(Nodes) /\ RankingIsSound
  BY DEF DrawingInv, DrawingTypeOK
<1>2. /\ printed'.answer = IF scoreRanking = << >> THEN << >> ELSE scoreRanking[1].answer
      /\ initialPoints' = initialPoints /\ parent' = parent /\ untried' = untried
  BY DEF PrintBestAnswer
<1>3. CASE scoreRanking = << >>
  <2>1. << >> \in Seq(Rectangles) /\ DOMAIN << >> = {}
    BY EmptySeq
  <2>2. CanBeDrawn(<< >>)
    BY <2>1 DEF CanBeDrawn
  <2> QED
    BY <1>2, <1>3, <2>1, <2>2
<1>4. CASE scoreRanking # << >>
  <2>1. 1 \in DOMAIN scoreRanking
    BY <1>1, <1>4
  <2>2. scoreRanking[1] \in Nodes /\ CanBeDrawn(scoreRanking[1].answer)
    BY <1>1, <2>1, RankedNode DEF RankingIsSound
  <2> QED
    BY <1>2, <1>4, <2>2 DEF Nodes
<1> QED
  BY <1>2, <1>3, <1>4

LEMMA DoneAllNodesKeeps == ASSUME DrawingInv, DoneAllNodes PROVE DrawingInv'
<1>1. DrawingTypeOK /\ RankingIsSound /\ ParentIsSound /\ RankingIsSorted
  BY DEF DrawingInv
<1>2. /\ printed'.answer \in Seq(Rectangles) /\ CanBeDrawn(printed'.answer)
      /\ initialPoints' = initialPoints /\ parent' = parent /\ untried' = untried
  BY PrintedIsRanked DEF DoneAllNodes
<1>3. scoreRanking' = IF scoreRanking = << >> THEN << >> ELSE <<scoreRanking[1]>>
  BY DEF DoneAllNodes
<1>4. scoreRanking \in Seq(Nodes)
  BY <1>1 DEF DrawingTypeOK
<1>5. \E place \in [DOMAIN scoreRanking' -> DOMAIN scoreRanking] :
        /\ scoreRanking' \in Seq(Nodes)
        /\ \A i \in DOMAIN scoreRanking' : scoreRanking'[i] = scoreRanking[place[i]]
        /\ \A i, j \in DOMAIN scoreRanking' : i <= j => place[i] <= place[j]
  <2>1. CASE scoreRanking = << >>
    <3>1. scoreRanking' = << >> /\ DOMAIN << >> = {}
      BY <1>3, <2>1, EmptySeq
    <3>2. [i \in {} |-> i] \in [{} -> DOMAIN scoreRanking]
      OBVIOUS
    <3> QED
      BY <1>4, <2>1, <3>1, <3>2
  <2>2. CASE scoreRanking # << >>
    <3>1. 1 \in DOMAIN scoreRanking /\ scoreRanking[1] \in Nodes
      BY <1>4, <2>2
    <3>2. scoreRanking' = <<scoreRanking[1]>>
      BY <1>3, <2>2
    <3>3. /\ <<scoreRanking[1]>> \in Seq(Nodes) /\ DOMAIN <<scoreRanking[1]>> = {1}
          /\ <<scoreRanking[1]>>[1] = scoreRanking[1]
      BY <3>1
    <3>4. [i \in {1} |-> i] \in [{1} -> DOMAIN scoreRanking] /\ [i \in {1} |-> i][1] = 1
      BY <3>1
    <3> QED
      BY <3>2, <3>3, <3>4
  <2> QED
    BY <2>1, <2>2
<1>6. RankingIsSound' /\ RankingIsSorted'
  BY <1>1, <1>2, <1>5, SomeNodesKeep
<1>7. DrawingTypeOK'
  BY <1>1, <1>2, <1>5 DEF DrawingTypeOK
<1>8. ParentIsSound' /\ CanBeDrawn(printed.answer)'
  BY <1>1, <1>2, DrawingPrimes DEF ParentIsSound
<1> QED
  BY <1>6, <1>7, <1>8 DEF DrawingInv

LEMMA TimeIsUpKeeps == ASSUME DrawingInv, TimeIsUp PROVE DrawingInv'
<1>1. DrawingTypeOK /\ RankingIsSound /\ ParentIsSound /\ RankingIsSorted
  BY DEF DrawingInv
<1>2. /\ printed'.answer \in Seq(Rectangles) /\ CanBeDrawn(printed'.answer)
      /\ initialPoints' = initialPoints /\ parent' = parent /\ untried' = untried
  BY PrintedIsRanked DEF TimeIsUp
<1>3. scoreRanking' = scoreRanking
  BY DEF TimeIsUp
<1>4. DrawingTypeOK'
  BY <1>1, <1>2, <1>3 DEF DrawingTypeOK
<1>5. RankingIsSound' /\ ParentIsSound' /\ CanBeDrawn(printed.answer)'
  BY <1>1, <1>2, <1>3, DrawingPrimes DEF RankingIsSound, ParentIsSound
<1>6. RankingIsSorted'
  BY <1>1, <1>3 DEF RankingIsSorted
<1> QED
  BY <1>4, <1>5, <1>6 DEF DrawingInv

LEMMA DrawingStep == ASSUME DrawingInv, [DrawingNext]_drawingVars PROVE DrawingInv'
<1>1. ASSUME NEW r \in untried, DropChild(r) PROVE DrawingInv'
  BY <1>1, SameRankingKeeps DEF DropChild
<1>2. ASSUME NEW r \in untried, RankChild(r) PROVE DrawingInv'
  BY <1>2, RankChildKeeps
<1>3. CASE MarkAsDone
  BY <1>3, MarkAsDoneKeeps
<1>4. CASE ProcessOneNode
  BY <1>4, ProcessOneNodeKeeps
<1>5. CASE DoneAllNodes
  BY <1>5, DoneAllNodesKeeps
<1>6. CASE TimeIsUp
  BY <1>6, TimeIsUpKeeps
<1>7. CASE UNCHANGED drawingVars
  BY <1>7, SameRankingKeeps DEF drawingVars
<1> QED
  BY <1>1, <1>2, <1>3, <1>4, <1>5, <1>6, <1>7 DEF DrawingNext

THEOREM DrawingInductive == DrawingSpec => []DrawingInv
<1>1. DrawingInit => DrawingInv
  BY DrawingBegins
<1>2. DrawingInv /\ [DrawingNext]_drawingVars => DrawingInv'
  BY DrawingStep
<1> QED
  BY <1>1, <1>2, PTL DEF DrawingSpec

(* Whatever the grid and the points, every answer of the ranking, and the  *)
(* one printed, is a drawing: its rectangles can be drawn in their order.  *)
THEOREM DrawingsCanBeDrawn == DrawingSpec => []AnswersCanBeDrawn
<1>1. DrawingInv => AnswersCanBeDrawn
  BY DEF DrawingInv, RankingIsSound, AnswersCanBeDrawn
<1> QED
  BY <1>1, DrawingInductive, PTL

(* The ranking is in the order of its scores, which is why its first node  *)
(* is the best and a place can be found for every child.                   *)
THEOREM DrawingKeepsOrder == DrawingSpec => []RankingIsSorted
<1>1. DrawingInv => RankingIsSorted
  BY DEF DrawingInv
<1> QED
  BY <1>1, DrawingInductive, PTL

-----------------------------------------------------------------------------
(* The score of the first node never goes down: a child is put first only  *)
(* when its score is higher, and erasing spares the first.                 *)
LEMMA BestNeverGoesDown ==
  ASSUME DrawingInv, [DrawingNext]_drawingVars
  PROVE  BestScore' >= BestScore
<1>1. scoreRanking \in Seq(Nodes)
  BY DEF DrawingInv, DrawingTypeOK
<1>2. BestScore \in Nat
  <2>1. CASE scoreRanking = << >>
    BY <2>1 DEF BestScore
  <2>2. CASE scoreRanking # << >>
    <3>1. 1 \in DOMAIN scoreRanking
      BY <1>1, <2>2
    <3> QED
      BY <1>1, <2>2, <3>1, RankedNode DEF BestScore
  <2> QED
    BY <2>1, <2>2
<1>3. ASSUME NEW r \in untried, RankChild(r) PROVE BestScore' >= BestScore
  <2>1. PICK k \in 1 .. Len(scoreRanking) + 1 :
          IsPlaceOf(Child(r), k) /\ scoreRanking' = Inserted(Child(r), k)
    BY <1>3 DEF RankChild
  <2>2. Child(r) \in Nodes /\ Child(r).score \in Nat
    BY ChildIsSound DEF Nodes
  <2>3. 1 \in 1 .. Len(scoreRanking) + 1 /\ k \in Int /\ Len(scoreRanking) \in Nat
    BY <1>1
  <2>4. /\ scoreRanking' \in Seq(Nodes) /\ Len(scoreRanking') = Len(scoreRanking) + 1
        /\ 1 < k => 1 \in DOMAIN scoreRanking /\ scoreRanking'[1] = scoreRanking[1]
        /\ 1 = k => scoreRanking'[1] = Child(r)
    BY <1>1, <2>1, <2>2, <2>3, InsertedNodes
  <2>5. scoreRanking' # << >>
    BY <2>3, <2>4
  <2>6. BestScore' = scoreRanking'[1].score
    BY <2>5 DEF BestScore
  <2>7. CASE 1 < k
    <3>1. scoreRanking # << >>
      BY <2>4, <2>7
    <3>2. BestScore' = BestScore
      BY <2>4, <2>6, <2>7, <3>1 DEF BestScore
    <3> QED
      BY <1>2, <3>2
  <2>8. CASE 1 = k
    <3>1. BestScore' = Child(r).score
      BY <2>4, <2>6, <2>8
    <3>2. CASE scoreRanking = << >>
      <4>1. BestScore = 0
        BY <3>2 DEF BestScore
      <4> QED
        BY <2>2, <3>1, <4>1
    <3>3. CASE scoreRanking # << >>
      <4>1. 1 \in k .. Len(scoreRanking)
        BY <1>1, <2>8, <3>3
      <4>2. BestScore < Child(r).score
        BY <2>1, <3>3, <4>1 DEF IsPlaceOf, BestScore
      <4> QED
        BY <1>2, <2>2, <3>1, <4>2
    <3> QED
      BY <3>2, <3>3
  <2> QED
    BY <2>3, <2>7, <2>8
<1>4. CASE MarkAsDone
  <2>1. scoreRanking' = [k \in DOMAIN scoreRanking |->
                           IF scoreRanking[k].answer = parent.answer THEN Done(scoreRanking[k])
                           ELSE scoreRanking[k]]
    BY <1>4 DEF MarkAsDone
  <2>2. CASE scoreRanking = << >>
    <3>1. DOMAIN << >> = {}
      BY EmptySeq
    <3>2. BestScore = 0
      BY <2>2 DEF BestScore
    <3>3. BestScore' \in Nat
      <4>1. scoreRanking' \in Seq(Nodes)
        BY <1>4, MarkAsDoneKeeps DEF DrawingInv, DrawingTypeOK
      <4>2. CASE scoreRanking' = << >>
        BY <4>2 DEF BestScore
      <4>3. CASE scoreRanking' # << >>
        <5>1. 1 \in DOMAIN scoreRanking'
          BY <4>1, <4>3
        <5> QED
          BY <4>1, <4>3, <5>1, RankedNode DEF BestScore
      <4> QED
        BY <4>2, <4>3
    <3> QED
      BY <3>2, <3>3
  <2>3. CASE scoreRanking # << >>
    <3>1. 1 \in DOMAIN scoreRanking
      BY <1>1, <2>3
    <3>2. scoreRanking[1] \in Nodes
      BY <1>1, <3>1, RankedNode
    <3>3. scoreRanking'[1].score = scoreRanking[1].score
      BY <2>1, <3>1, <3>2, DoneStays
    <3>4. DOMAIN scoreRanking' = DOMAIN scoreRanking
      BY <2>1
    <3>5. scoreRanking' # << >>
      BY <3>1, <3>4, EmptySeq
    <3>6. BestScore' = BestScore
      BY <2>3, <3>3, <3>5 DEF BestScore
    <3> QED
      BY <1>2, <3>6
  <2> QED
    BY <2>2, <2>3
<1>5. CASE ProcessOneNode
  <2>1. PICK k \in DOMAIN scoreRanking : scoreRanking' = Erased(k)
    BY <1>5 DEF ProcessOneNode
  <2>2. scoreRanking' \in Seq(Nodes) /\ Len(scoreRanking') >= 1 /\ scoreRanking'[1] = scoreRanking[1]
    BY <1>1, <2>1, ErasedNodes
  <2>3. scoreRanking' # << >>
    BY <2>2
  <2>4. scoreRanking # << >>
    BY <1>1, <2>1
  <2>5. BestScore' = BestScore
    BY <2>2, <2>3, <2>4 DEF BestScore
  <2> QED
    BY <1>2, <2>5
<1>6. CASE DoneAllNodes
  <2>1. scoreRanking' = IF scoreRanking = << >> THEN << >> ELSE <<scoreRanking[1]>>
    BY <1>6 DEF DoneAllNodes
  <2>2. <<scoreRanking[1]>> # << >> /\ <<scoreRanking[1]>>[1] = scoreRanking[1]
    OBVIOUS
  <2>3. BestScore' = BestScore
    BY <2>1, <2>2 DEF BestScore
  <2> QED
    BY <1>2, <2>3
<1>7. ASSUME scoreRanking' = scoreRanking PROVE BestScore' >= BestScore
  <2>1. BestScore' = BestScore
    BY <1>7 DEF BestScore
  <2> QED
    BY <1>2, <2>1
<1>8. ASSUME NEW r \in untried, DropChild(r) PROVE scoreRanking' = scoreRanking
  BY <1>8 DEF DropChild
<1>9. TimeIsUp \/ UNCHANGED drawingVars => scoreRanking' = scoreRanking
  BY DEF TimeIsUp, drawingVars
<1> QED
  BY <1>3, <1>4, <1>5, <1>6, <1>7, <1>8, <1>9 DEF DrawingNext

(* The best score never gets lost, whatever is erased or dropped.          *)
THEOREM DrawingKeepsTheBest == DrawingSpec => BestIsNeverLost
<1>1. DrawingInv /\ [DrawingNext]_drawingVars => [BestScore' >= BestScore]_drawingVars
  BY BestNeverGoesDown
<1> QED
  BY <1>1, DrawingInductive, PTL DEF DrawingSpec, BestIsNeverLost

-----------------------------------------------------------------------------
\* Of places on a line, one is before all others: of the intervals from 0 to
\* one of them, some interval holds no other.
LEMMA FirstPlace ==
  ASSUME NEW T, T \subseteq Nat, T # {}
  PROVE  \E x \in T : \A y \in T : x <= y
<1> DEFINE UpTo == {0 .. x : x \in T}
<1>1. UpTo \subseteq FiniteSubsetsOf(Nat) /\ UpTo # {}
  <2>1. ASSUME NEW x \in T PROVE 0 .. x \in FiniteSubsetsOf(Nat)
    <3>1. IsFiniteSet(0 .. x) /\ 0 .. x \in SUBSET Nat
      BY FS_Interval
    <3> QED
      BY <3>1 DEF FiniteSubsetsOf
  <2> QED
    BY <2>1
<1> HIDE DEF UpTo
<1>2. PICK X \in UpTo : \A Y \in UpTo : ~(<<Y, X>> \in StrictSubsetOrdering(Nat))
  BY <1>1, FS_StrictSubsetOrderingWellFounded, WFMin
<1>3. PICK x \in T : X = 0 .. x
  BY DEF UpTo
<1>4. ASSUME NEW y \in T, y < x PROVE FALSE
  <2>1. 0 .. y \in UpTo
    BY DEF UpTo
  <2>2. x \in X /\ x \notin 0 .. y /\ 0 .. y \subseteq X
    BY <1>3, <1>4
  <2>3. <<0 .. y, X>> \in StrictSubsetOrdering(Nat)
    <3>1. 0 .. y \in SUBSET Nat /\ X \in SUBSET Nat
      BY <1>3
    <3> QED
      BY <2>2, <3>1 DEF StrictSubsetOrdering
  <2> QED
    BY <1>2, <2>1, <2>3
<1> QED
  BY <1>4

(* A child always has its place in the ranking, and only one, so that the  *)
(* multiset's insertion is what RankChild does.                            *)
HasOnePlace(node) ==
  \E k \in 1 .. Len(scoreRanking) + 1 :
    IsPlaceOf(node, k) /\ \A m \in 1 .. Len(scoreRanking) + 1 : IsPlaceOf(node, m) => m = k

LEMMA NodeHasOnePlace ==
  ASSUME DrawingTypeOK, RankingIsSorted, NEW node \in Nodes
  PROVE  HasOnePlace(node)
<1> DEFINE n == Len(scoreRanking)
           Lower == {i \in 1 .. n : scoreRanking[i].score < node.score} \union {n + 1}
<1>1. scoreRanking \in Seq(Nodes) /\ n \in Nat /\ DOMAIN scoreRanking = 1 .. n
  BY DEF DrawingTypeOK
<1>2. node.score \in Nat /\ \A i \in 1 .. n : scoreRanking[i].score \in Nat
  <2>1. node.score \in Nat
    BY DEF Nodes
  <2> QED
    BY <1>1, <2>1, RankedNode
<1>3. Lower \subseteq Nat /\ Lower # {}
  BY <1>1
<1>4. PICK k \in Lower : \A i \in Lower : k <= i
  <2> HIDE DEF Lower
  <2> QED
    BY <1>3, FirstPlace
<1>5. k \in 1 .. n + 1
  BY <1>1
<1>6. ASSUME NEW i \in 1 .. k - 1 PROVE scoreRanking[i].score >= node.score
  <2>1. i \in 1 .. n /\ i \notin Lower
    BY <1>1, <1>4, <1>5
  <2> QED
    BY <1>2, <2>1
<1>7. ASSUME NEW i \in k .. n PROVE scoreRanking[i].score < node.score
  <2>1. k \in 1 .. n /\ i \in 1 .. n /\ k <= i /\ scoreRanking[k].score < node.score
    BY <1>1, <1>5
  <2>2. scoreRanking[k].score >= scoreRanking[i].score
    BY <1>1, <2>1 DEF RankingIsSorted
  <2> QED
    BY <1>2, <2>1, <2>2
<1> HIDE DEF Lower
<1>8. IsPlaceOf(node, k)
  BY <1>6, <1>7 DEF IsPlaceOf
<1>9. ASSUME NEW m \in 1 .. n + 1, IsPlaceOf(node, m) PROVE m = k
  <2>1. CASE m < k
    <3>1. m \in 1 .. k - 1 /\ m \in m .. n /\ m \in 1 .. n
      BY <1>1, <1>5, <2>1
    <3> QED
      BY <1>2, <1>6, <1>9, <3>1 DEF IsPlaceOf
  <2>2. CASE k < m
    <3>1. k \in 1 .. m - 1 /\ k \in k .. n /\ k \in 1 .. n
      BY <1>1, <1>5, <2>2
    <3> QED
      BY <1>2, <1>7, <1>9, <3>1 DEF IsPlaceOf
  <2> QED
    BY <1>1, <1>5, <2>1, <2>2
<1> QED
  BY <1>5, <1>8, <1>9 DEF HasOnePlace

THEOREM DrawingHasOnePlace == DrawingSpec => [](\A r \in untried : HasOnePlace(Child(r)))
<1>1. DrawingInv => \A r \in untried : HasOnePlace(Child(r))
  BY ChildIsSound, NodeHasOnePlace DEF DrawingInv
<1> QED
  BY <1>1, DrawingInductive, PTL

-----------------------------------------------------------------------------
(***************************************************************************)
(* What the search misses. An answer is covered when it is explored, or    *)
(* waits in the ranking to be processed. Everything that can be drawn      *)
(* after a drawing explored is covered, and remains so: only done nodes    *)
(* are erased, and a child is dropped for being explored. That processing  *)
(* a node meets all that can be drawn after it is due to its candidates:   *)
(* they hold all but those at its newest point, which are searched for.    *)
(***************************************************************************)
Covered(a) ==
  \/ IsExplored(a)
  \/ \E k \in DOMAIN scoreRanking : ~scoreRanking[k].done /\ scoreRanking[k].answer = a

RootIsCovered == IsExplored(<< >>) \/ (~parent.done /\ parent.answer = << >>)

NoneIsBetter ==
  /\ parent.score <= BestScore
  /\ \A node \in exploredSpace : node.score \in Nat /\ node.score <= BestScore

ExploredAreClosed ==
  \A node \in exploredSpace : \A r \in Drawable(node.answer) : Covered(Append(node.answer, r))

ParentIsClosed ==
  \/ parent.done /\ untried = {}
  \/ /\ ~parent.done /\ Drawable(parent.answer) \subseteq parent.candidates
     /\ \A r \in Drawable(parent.answer) \ untried : Covered(Append(parent.answer, r))

AllButTheNewest(node) ==
  \A r \in Drawable(node.answer) :
    r \in node.candidates \/ NewestPoint(node.answer) \in {r.p2} \union r.sides

RankedAreComplete ==
  \A k \in DOMAIN scoreRanking : scoreRanking[k].done \/ AllButTheNewest(scoreRanking[k])

MissInv ==
  /\ DrawingInv
  /\ RootIsCovered /\ NoneIsBetter /\ ExploredAreClosed /\ ParentIsClosed /\ RankedAreComplete

\* A rectangle has edges: two of its corners are a step or more apart.
LEMMA SizeOfASide ==
  ASSUME NEW p \in Grid, NEW q \in Grid, p # q
  PROVE  Size(p, q) \in Int /\ Size(p, q) >= 1
<1>1. /\ p[1] \in Int /\ p[2] \in Int /\ q[1] \in Int /\ q[2] \in Int
      /\ p[1] # q[1] \/ p[2] # q[2]
  BY InstancesAreOnTheGrid DEF Grid
<1>2. \A i \in Int : Abs(i) \in Int /\ Abs(i) >= 0 /\ (i # 0 => Abs(i) >= 1)
  BY DEF Abs, Sign
<1>3. PICK a \in Int, b \in Int :
        /\ a = Abs(q[1] - p[1]) /\ b = Abs(q[2] - p[2]) /\ (a >= 1 \/ b >= 1)
  <2>1. /\ q[1] - p[1] \in Int /\ q[2] - p[2] \in Int
        /\ q[1] - p[1] # 0 \/ q[2] - p[2] # 0
    BY <1>1
  <2> QED
    BY <1>2, <2>1
<1>4. Size(p, q) = Max({a, b})
  BY <1>3 DEF Size
<1>5. \E m \in {a, b} : \A y \in {a, b} : m >= y
  BY <1>3
<1>6. Max({a, b}) \in {a, b} /\ \A y \in {a, b} : Max({a, b}) >= y
  BY <1>5 DEF Max
<1> QED
  BY <1>3, <1>4, <1>6

LEMMA RectanglesHaveEdges ==
  ASSUME NEW points \in SUBSET Grid, NEW r, IsRectangleOn(r, points)
  PROVE  Edges(r) # {}
<1>1. PICK p1 \in points, p3 \in points : IsRightAngle(p1, r.p2, p3) /\ r = Rectangle(p1, r.p2, p3)
  BY DEF IsRectangleOn
<1>2. r.p2 \in Grid /\ p1 \in Grid /\ p1 # r.p2 /\ p1 \in r.sides
  BY <1>1 DEF IsRectangleOn, IsRightAngle, Rectangle
<1>3. 0 \in 0 .. Size(r.p2, p1) - 1
  BY <1>2, SizeOfASide
<1>4. {Towards(r.p2, p1, 0), Towards(r.p2, p1, 1)} \in Pieces(r.p2, p1)
  BY <1>3 DEF Pieces
<1> QED
  BY <1>2, <1>4 DEF Edges

\* What is drawn adds one point, and its own edges.
LEMMA OneMoreDrawn ==
  ASSUME NEW a \in Seq(Rectangles), NEW r \in Rectangles
  PROVE  /\ Points(Append(a, r)) = Points(a) \union {r.p4}
         /\ ExistingEdges(Append(a, r)) = ExistingEdges(a) \union Edges(r)
         /\ NewestPoint(Append(a, r)) = r.p4 /\ Append(a, r) # << >>
<1> DEFINE b == Append(a, r)
           n == Len(a)
<1>1. n \in Nat /\ DOMAIN a = 1 .. n
  OBVIOUS
<1>2. Len(b) = n + 1 /\ DOMAIN b = 1 .. n + 1
  OBVIOUS
<1>3. b[n + 1] = r /\ \A i \in 1 .. n : b[i] = a[i]
  OBVIOUS
<1> HIDE DEF b, n
<1>4. DOMAIN b = DOMAIN a \union {n + 1}
  BY <1>1, <1>2
<1>5. {b[i].p4 : i \in DOMAIN b} = {a[i].p4 : i \in DOMAIN a} \union {r.p4}
  BY <1>1, <1>3, <1>4
<1>6. {Edges(b[i]) : i \in DOMAIN b} = {Edges(a[i]) : i \in DOMAIN a} \union {Edges(r)}
  BY <1>1, <1>3, <1>4
<1>7. Points(b) = Points(a) \union {r.p4}
  BY <1>5 DEF Points
<1>8. ExistingEdges(b) = ExistingEdges(a) \union Edges(r)
  BY <1>6 DEF ExistingEdges
<1>9. NewestPoint(b) = r.p4
  BY <1>2, <1>3 DEF NewestPoint
<1>10. b # << >>
  BY <1>1, <1>2
<1> QED
  BY <1>7, <1>8, <1>9, <1>10 DEF b

\* What can be drawn after one more rectangle, and not at its newest point,
\* could be drawn before it, and is another rectangle.
LEMMA DrawableBefore ==
  ASSUME initialPoints \in SUBSET Grid, NEW a \in Seq(Rectangles), NEW new \in Rectangles,
         NEW r \in Drawable(Append(a, new)), new.p4 \notin {r.p2} \union r.sides
  PROVE  r \in Drawable(a) /\ r # new
<1> DEFINE b == Append(a, new)
<1>1. /\ Points(b) = Points(a) \union {new.p4}
      /\ ExistingEdges(b) = ExistingEdges(a) \union Edges(new)
  BY OneMoreDrawn
<1>2. Points(b) \in SUBSET Grid
  BY PointsGrow, PointsOnGrid
<1> HIDE DEF b
<1>3. r \in CandidatesForAllPoints(Points(b)) /\ ~IsOverlapped(r, ExistingEdges(b))
  BY DEF Drawable, b
<1>4. PICK t \in Points(b) \X Points(b) \X Points(b) :
        /\ IsRightAngle(t[1], t[2], t[3]) /\ r = Rectangle(t[1], t[2], t[3])
        /\ r.p4 \in Grid /\ HasOnlyItsCorners(r, Points(b))
  BY <1>3 DEF CandidatesForAllPoints
<1>5. r.p2 = t[2] /\ r.sides = {t[1], t[3]}
  BY <1>4 DEF Rectangle
<1>6. t[1] \in Points(a) /\ t[2] \in Points(a) /\ t[3] \in Points(a)
  BY <1>1, <1>5
<1>7. t \in Points(a) \X Points(a) \X Points(a)
  BY <1>4, <1>6
<1>8. HasOnlyItsCorners(r, Points(a))
  BY <1>1, <1>4, <1>5, <1>6 DEF HasOnlyItsCorners
<1>9. ~IsOverlapped(r, ExistingEdges(a))
  BY <1>1, <1>3 DEF IsOverlapped
<1>10. r \in Drawable(a)
  BY <1>4, <1>7, <1>8, <1>9 DEF Drawable, CandidatesForAllPoints
<1>11. Edges(r) # {}
  BY <1>2, <1>3, CandidatesAreRectangles, RectanglesHaveEdges
<1>12. r # new
  BY <1>1, <1>3, <1>11 DEF IsOverlapped
<1> QED
  BY <1>10, <1>12

\* Erasing spares the nodes from the one to process on.
LEMMA ErasingSpares ==
  ASSUME scoreRanking \in Seq(Nodes), NEW k \in DOMAIN scoreRanking,
         NEW j \in k .. Len(scoreRanking)
  PROVE  \E i \in DOMAIN Erased(k) : Erased(k)[i] = scoreRanking[j]
<1> DEFINE n == Len(scoreRanking)
           s == scoreRanking
           e == Erased(k)
<1>1. n \in Nat /\ k \in Int /\ 1 <= k /\ k <= n /\ s \in Seq(Nodes) /\ DOMAIN s = 1 .. n
  OBVIOUS
<1>2. j \in Int /\ k <= j /\ j <= n
  BY <1>1
<1>3. CASE k > 1
  <2> DEFINE a == SubSeq(s, k, n)
  <2>1. a \in Seq(Nodes) /\ Len(a) = n - k + 1 /\ \A i \in 1 .. n - k + 1 : a[i] = s[k + i - 1]
    BY <1>1
  <2>2. e = <<s[1]>> \o a
    BY <1>3 DEF Erased
  <2>3. <<s[1]>> \in Seq(Nodes) /\ Len(<<s[1]>>) = 1
    BY <1>1
  <2> HIDE DEF a, e, s, n
  <2>4. /\ e \in Seq(Nodes) /\ Len(e) = n - k + 2
        /\ \A i \in 2 .. n - k + 2 : e[i] = a[i - 1]
    BY <1>1, <2>1, <2>2, <2>3
  <2>5. j - k + 2 \in 2 .. n - k + 2 /\ (j - k + 2) - 1 \in 1 .. n - k + 1 /\ k + ((j - k + 2) - 1) - 1 = j
    BY <1>2, <1>1
  <2>6. e[j - k + 2] = s[j]
    BY <2>1, <2>4, <2>5
  <2>7. DOMAIN e = 1 .. n - k + 2 /\ j - k + 2 \in 1 .. n - k + 2
    BY <1>2, <1>1, <2>4, <2>5
  <2> QED
    BY <2>6, <2>7 DEF e, s
<1>4. CASE ~(k > 1)
  BY <1>2, <1>1, <1>4 DEF Erased
<1> QED
  BY <1>3, <1>4

\* A node put into the ranking leaves the others there.
LEMMA InsertingSpares ==
  ASSUME scoreRanking \in Seq(Nodes), NEW c \in Nodes, NEW k \in 1 .. Len(scoreRanking) + 1,
         NEW j \in DOMAIN scoreRanking
  PROVE  \E i \in DOMAIN Inserted(c, k) : Inserted(c, k)[i] = scoreRanking[j]
<1> DEFINE n == Len(scoreRanking)
           s == Inserted(c, k)
<1>1. /\ s \in Seq(Nodes) /\ Len(s) = n + 1
      /\ \A i \in 1 .. n + 1 :
           /\ i < k => s[i] = scoreRanking[i]
           /\ i > k => s[i] = scoreRanking[i - 1]
  BY InsertedNodes
<1>2. n \in Nat /\ k \in 1 .. n + 1 /\ j \in 1 .. n
  OBVIOUS
<1>3. DOMAIN s = 1 .. n + 1
  BY <1>1
<1> HIDE DEF n, s
<1>4. \E i \in DOMAIN s : s[i] = scoreRanking[j]
  <2>1. CASE j < k
    BY <1>1, <1>2, <1>3, <2>1
  <2>2. CASE ~(j < k)
    <3>1. j + 1 \in 1 .. n + 1 /\ j + 1 > k /\ (j + 1) - 1 = j
      BY <1>2, <2>2
    <3> QED
      BY <1>1, <1>3, <3>1
  <2> QED
    BY <2>1, <2>2
<1> QED
  BY <1>4 DEF s

\* The initial points never change, and what is explored remains so.
LEMMA WhatStays ==
  ASSUME [DrawingNext]_drawingVars
  PROVE  /\ exploredSpace \subseteq exploredSpace'
         /\ \A a : IsExplored(a) => IsExplored(a)'
         /\ \A a : Drawable(a)' = Drawable(a)
         /\ \A node : AllButTheNewest(node) => AllButTheNewest(node)'
<1>1. initialPoints' = initialPoints /\ exploredSpace \subseteq exploredSpace'
  BY DEF DrawingNext, drawingVars, DropChild, RankChild, MarkAsDone, ProcessOneNode, DoneAllNodes,
         TimeIsUp, PrintBestAnswer
<1>2. \A a : IsExplored(a) => IsExplored(a)'
  BY <1>1 DEF IsExplored, ExistingEdges
<1>3. \A a : Drawable(a)' = Drawable(a)
  BY <1>1 DEF Drawable, CandidatesForAllPoints, Points, ExistingEdges
<1>4. \A node : AllButTheNewest(node) => AllButTheNewest(node)'
  BY <1>3 DEF AllButTheNewest, NewestPoint
<1> QED
  BY <1>1, <1>2, <1>3, <1>4

\* The places of the ranking that a step adds, and those it leaves.
LEMMA RankedNodesGoOn ==
  ASSUME DrawingInv, [DrawingNext]_drawingVars, NEW j \in DOMAIN scoreRanking,
         ~scoreRanking[j].done, ~MarkAsDone
  PROVE  \E i \in DOMAIN scoreRanking' : scoreRanking'[i] = scoreRanking[j]
<1>1. scoreRanking \in Seq(Nodes) /\ Len(scoreRanking) \in Nat /\ DOMAIN scoreRanking = 1 .. Len(scoreRanking)
  BY DEF DrawingInv, DrawingTypeOK
<1>2. CASE scoreRanking' = scoreRanking
  BY <1>2
<1>3. ASSUME NEW r \in untried, RankChild(r)
      PROVE  \E i \in DOMAIN scoreRanking' : scoreRanking'[i] = scoreRanking[j]
  <2>1. PICK k \in 1 .. Len(scoreRanking) + 1 : scoreRanking' = Inserted(Child(r), k)
    BY <1>3 DEF RankChild
  <2>2. PICK c \in Nodes : c = Child(r)
    BY ChildIsSound
  <2>3. \E i \in DOMAIN Inserted(c, k) : Inserted(c, k)[i] = scoreRanking[j]
    BY <1>1, InsertingSpares
  <2> QED
    BY <2>1, <2>2, <2>3
<1>4. CASE ProcessOneNode
  <2>1. PICK k \in DOMAIN scoreRanking : IsToProcess(k) /\ scoreRanking' = Erased(k)
    BY <1>4 DEF ProcessOneNode
  <2>2. j \in k .. Len(scoreRanking)
    BY <1>1, <2>1 DEF IsToProcess
  <2> QED
    BY <1>1, <2>1, <2>2, ErasingSpares
<1>5. CASE DoneAllNodes
  BY <1>5 DEF DoneAllNodes, AllDone
<1>6. ASSUME NEW r \in untried, DropChild(r) PROVE scoreRanking' = scoreRanking
  BY <1>6 DEF DropChild
<1>7. TimeIsUp \/ UNCHANGED drawingVars => scoreRanking' = scoreRanking
  BY DEF TimeIsUp, drawingVars
<1> QED
  BY <1>2, <1>3, <1>4, <1>5, <1>6, <1>7 DEF DrawingNext

\* What is covered remains covered: a node that is done is explored.
LEMMA CoveredStays ==
  ASSUME DrawingInv, [DrawingNext]_drawingVars, NEW a, Covered(a)
  PROVE  Covered(a)'
<1>1. CASE IsExplored(a)
  BY <1>1, WhatStays DEF Covered
<1>2. ASSUME NEW k \in DOMAIN scoreRanking, ~scoreRanking[k].done, scoreRanking[k].answer = a
      PROVE  Covered(a)'
  <2>1. CASE MarkAsDone
    <3>1. /\ scoreRanking' = [j \in DOMAIN scoreRanking |->
                                IF scoreRanking[j].answer = parent.answer THEN Done(scoreRanking[j])
                                ELSE scoreRanking[j]]
          /\ [answer |-> parent.answer, score |-> parent.score] \in exploredSpace'
      BY <2>1 DEF MarkAsDone
    <3>2. CASE a = parent.answer
      <4>1. PICK node \in exploredSpace' : node.answer = a
        BY <3>1, <3>2
      <4>2. IsExplored(a)'
        BY <4>1 DEF IsExplored, ExistingEdges
      <4> QED
        BY <4>2 DEF Covered
    <3>3. CASE a # parent.answer
      <4>1. k \in DOMAIN scoreRanking' /\ scoreRanking'[k] = scoreRanking[k]
        BY <1>2, <3>1, <3>3
      <4> QED
        BY <1>2, <4>1 DEF Covered
    <3> QED
      BY <3>2, <3>3
  <2>2. CASE ~MarkAsDone
    <3>1. \E i \in DOMAIN scoreRanking' : scoreRanking'[i] = scoreRanking[k]
      BY <1>2, <2>2, RankedNodesGoOn
    <3> QED
      BY <1>2, <3>1 DEF Covered
  <2> QED
    BY <2>1, <2>2
<1> QED
  BY <1>1, <1>2 DEF Covered

LEMMA MissPrimes ==
  ASSUME [DrawingNext]_drawingVars
  PROVE  /\ (\A k \in DOMAIN scoreRanking' : scoreRanking'[k].done \/ AllButTheNewest(scoreRanking'[k]))
              => RankedAreComplete'
         /\ \A a, c : (/\ ~parent'.done /\ parent'.answer = a /\ parent'.candidates = c
                       /\ Drawable(a) \subseteq c
                       /\ \A r \in Drawable(a) \ untried' : Covered(Append(a, r))') => ParentIsClosed'
<1>1. initialPoints' = initialPoints
  BY DEF DrawingNext, drawingVars, DropChild, RankChild, MarkAsDone, ProcessOneNode, DoneAllNodes,
         TimeIsUp, PrintBestAnswer
<1>2. ASSUME \A k \in DOMAIN scoreRanking' : scoreRanking'[k].done \/ AllButTheNewest(scoreRanking'[k])
      PROVE  RankedAreComplete'
  BY <1>1, <1>2 DEF RankedAreComplete, AllButTheNewest, Drawable, CandidatesForAllPoints, Points
<1>3. ASSUME NEW a, NEW c, ~parent'.done, parent'.answer = a, parent'.candidates = c,
             Drawable(a) \subseteq c, \A r \in Drawable(a) \ untried' : Covered(Append(a, r))'
      PROVE  ParentIsClosed'
  BY <1>1, <1>3 DEF ParentIsClosed, Drawable, CandidatesForAllPoints, Points, Covered, IsExplored
<1> QED
  BY <1>2, <1>3

LEMMA MissBegins == ASSUME DrawingInit PROVE MissInv
<1>1. /\ scoreRanking = << >> /\ exploredSpace = {} /\ parent = Root /\ untried = Root.candidates
  BY DEF DrawingInit
<1>2. /\ Root.answer = << >> /\ Root.score = 0 /\ Root.done = FALSE
      /\ Root.candidates = CandidatesForAllPoints(initialPoints)
  BY DEF Root
<1>3. DOMAIN << >> = {} /\ Points(<< >>) = initialPoints
  BY EmptySeq DEF Points
<1>4. RootIsCovered
  BY <1>1, <1>2 DEF RootIsCovered
<1>5. NoneIsBetter
  BY <1>1, <1>2 DEF NoneIsBetter, BestScore
<1>6. ExploredAreClosed
  BY <1>1 DEF ExploredAreClosed
<1>7. ParentIsClosed
  <2>1. Drawable(<< >>) \subseteq Root.candidates
    BY <1>2, <1>3 DEF Drawable
  <2> QED
    BY <1>1, <1>2, <2>1 DEF ParentIsClosed
<1>8. RankedAreComplete
  BY <1>1, <1>3 DEF RankedAreComplete
<1> QED
  BY <1>4, <1>5, <1>6, <1>7, <1>8, DrawingBegins DEF MissInv

LEMMA RootStaysCovered ==
  ASSUME RootIsCovered, [DrawingNext]_drawingVars
  PROVE  RootIsCovered'
<1>1. CASE IsExplored(<< >>)
  BY <1>1, WhatStays DEF RootIsCovered
<1>2. CASE ~parent.done /\ parent.answer = << >>
  <2>1. CASE MarkAsDone
    <3>1. [answer |-> parent.answer, score |-> parent.score] \in exploredSpace'
      BY <2>1 DEF MarkAsDone
    <3>2. \E node \in exploredSpace' : node.answer = << >>
      BY <1>2, <3>1
    <3>3. IsExplored(<< >>)'
      BY <3>2 DEF IsExplored, ExistingEdges
    <3> QED
      BY <3>3 DEF RootIsCovered
  <2>2. CASE ~MarkAsDone
    <3>1. parent' = parent
      BY <1>2, <2>2 DEF DrawingNext, drawingVars, DropChild, RankChild, ProcessOneNode, DoneAllNodes,
                        TimeIsUp, PrintBestAnswer
    <3> QED
      BY <1>2, <3>1 DEF RootIsCovered
  <2> QED
    BY <2>1, <2>2
<1> QED
  BY <1>1, <1>2 DEF RootIsCovered

\* The first of the ranking has the best score of all of it.
LEMMA FirstIsBest ==
  ASSUME DrawingInv
  PROVE  BestScore \in Nat /\ \A k \in DOMAIN scoreRanking : scoreRanking[k].score <= BestScore
<1>1. scoreRanking \in Seq(Nodes) /\ RankingIsSorted
  BY DEF DrawingInv, DrawingTypeOK
<1>2. CASE scoreRanking = << >>
  <2>1. DOMAIN << >> = {}
    BY EmptySeq
  <2> QED
    BY <1>2, <2>1 DEF BestScore
<1>3. CASE scoreRanking # << >>
  <2>1. 1 \in DOMAIN scoreRanking /\ \A k \in DOMAIN scoreRanking : 1 <= k
    BY <1>1, <1>3
  <2>2. BestScore = scoreRanking[1].score
    BY <1>3 DEF BestScore
  <2>3. \A k \in DOMAIN scoreRanking : scoreRanking[k].score \in Nat
    BY <1>1, RankedNode
  <2>4. \A k \in DOMAIN scoreRanking : scoreRanking[1].score >= scoreRanking[k].score
    BY <1>1, <2>1 DEF RankingIsSorted
  <2> QED
    BY <2>1, <2>2, <2>3, <2>4
<1> QED
  BY <1>2, <1>3

LEMMA NoneGetsBetter ==
  ASSUME DrawingInv, NoneIsBetter, [DrawingNext]_drawingVars
  PROVE  NoneIsBetter'
<1>1. /\ scoreRanking \in Seq(Nodes) /\ scoreRanking' \in Seq(Nodes) /\ parent \in Nodes
      /\ parent.score \in Nat
  <2>1. DrawingTypeOK /\ DrawingTypeOK'
    BY DrawingStep DEF DrawingInv
  <2>2. scoreRanking \in Seq(Nodes) /\ scoreRanking' \in Seq(Nodes) /\ parent \in Nodes
    BY <2>1 DEF DrawingTypeOK
  <2> QED
    BY <2>2 DEF Nodes
<1>2. BestScore \in Nat /\ BestScore' \in Nat /\ BestScore' >= BestScore
  <2>1. BestScore' \in Nat
    <3>1. CASE scoreRanking' = << >>
      BY <3>1 DEF BestScore
    <3>2. CASE scoreRanking' # << >>
      <4>1. 1 \in DOMAIN scoreRanking'
        BY <1>1, <3>2
      <4> QED
        BY <1>1, <3>2, <4>1, RankedNode DEF BestScore
    <3> QED
      BY <3>1, <3>2
  <2> QED
    BY <2>1, FirstIsBest, BestNeverGoesDown
<1>3. PICK best \in Nat, next \in Nat : best = BestScore /\ next = BestScore' /\ best <= next
  BY <1>2
<1>4. parent.score <= best /\ \A node \in exploredSpace : node.score \in Nat /\ node.score <= best
  BY <1>3 DEF NoneIsBetter
<1>5. parent'.score <= next
  <2>1. CASE ProcessOneNode
    <3>1. PICK k \in DOMAIN scoreRanking :
            parent' = [scoreRanking[k] EXCEPT !.candidates =
                         Sanitized(scoreRanking[k]) \union Additional(scoreRanking[k])]
      BY <2>1 DEF ProcessOneNode
    <3>2. scoreRanking[k] \in Nodes /\ scoreRanking[k].score \in Nat /\ scoreRanking[k].score <= best
      BY <1>1, <1>3, FirstIsBest, RankedNode
    <3>3. parent'.score = scoreRanking[k].score
      BY <3>1, <3>2 DEF Nodes
    <3> QED
      BY <1>3, <3>2, <3>3
  <2>2. CASE MarkAsDone
    <3>1. parent'.score = parent.score
      BY <1>1, <2>2, DoneStays DEF MarkAsDone
    <3> QED
      BY <1>1, <1>3, <1>4, <3>1
  <2>3. CASE ~ProcessOneNode /\ ~MarkAsDone
    <3>1. parent' = parent
      BY <2>3 DEF DrawingNext, drawingVars, DropChild, RankChild, DoneAllNodes, TimeIsUp, PrintBestAnswer
    <3> QED
      BY <1>1, <1>3, <1>4, <3>1
  <2> QED
    BY <2>1, <2>2, <2>3
<1>6. \A node \in exploredSpace' : node \in exploredSpace \/ node.score = parent.score
  BY DEF DrawingNext, drawingVars, DropChild, RankChild, MarkAsDone, ProcessOneNode, DoneAllNodes,
         TimeIsUp, PrintBestAnswer
<1>7. ASSUME NEW node \in exploredSpace' PROVE node.score \in Nat /\ node.score <= next
  <2>1. node.score \in Nat /\ node.score <= best
    BY <1>1, <1>4, <1>6
  <2> QED
    BY <1>3, <2>1
<1> QED
  BY <1>3, <1>5, <1>7 DEF NoneIsBetter

LEMMA ExploredStayClosed ==
  ASSUME MissInv, [DrawingNext]_drawingVars
  PROVE  ExploredAreClosed'
<1>1. SUFFICES ASSUME NEW node \in exploredSpace', NEW r \in Drawable(node.answer)
               PROVE  Covered(Append(node.answer, r))'
  BY WhatStays DEF ExploredAreClosed
<1>2. Covered(Append(node.answer, r))
  <2>1. CASE node \in exploredSpace
    BY <2>1 DEF MissInv, ExploredAreClosed
  <2>2. CASE node \notin exploredSpace
    <3>1. ~parent.done /\ untried = {} /\ node.answer = parent.answer
      BY <2>2 DEF DrawingNext, drawingVars, DropChild, RankChild, MarkAsDone, ProcessOneNode,
                  DoneAllNodes, TimeIsUp, PrintBestAnswer
    <3>2. \A q \in Drawable(parent.answer) : Covered(Append(parent.answer, q))
      BY <3>1 DEF MissInv, ParentIsClosed
    <3> QED
      BY <3>1, <3>2
  <2> QED
    BY <2>1, <2>2
<1> QED
  BY <1>2, CoveredStays DEF MissInv

\* A child is not done yet, and it is somewhere in the ranking.
LEMMA RankedIsCovered ==
  ASSUME DrawingInv, NEW r \in untried, RankChild(r), NEW a, a = Append(parent.answer, r)
  PROVE  Covered(a)'
<1>1. PICK k \in 1 .. Len(scoreRanking) + 1 : scoreRanking' = Inserted(Child(r), k)
  BY DEF RankChild
<1>2. scoreRanking \in Seq(Nodes) /\ Child(r) \in Nodes
  BY ChildIsSound DEF DrawingInv, DrawingTypeOK
<1>3. /\ scoreRanking' \in Seq(Nodes) /\ Len(scoreRanking') = Len(scoreRanking) + 1
      /\ scoreRanking'[k] = Child(r)
  BY <1>1, <1>2, InsertedNodes
<1>4. k \in DOMAIN scoreRanking'
  BY <1>2, <1>3
<1>5. ~scoreRanking'[k].done /\ scoreRanking'[k].answer = a
  BY <1>3 DEF Child
<1> QED
  BY <1>4, <1>5 DEF Covered

\* Everything that can be drawn is met when a node is processed.
LEMMA ProcessingMeetsAll ==
  ASSUME NEW node, AllButTheNewest(node)
  PROVE  Drawable(node.answer) \subseteq Sanitized(node) \union Additional(node)
<1>1. SUFFICES ASSUME NEW r \in Drawable(node.answer)
               PROVE  r \in Sanitized(node) \union Additional(node)
  OBVIOUS
<1>2. /\ r \in CandidatesForAllPoints(Points(node.answer))
      /\ ~IsOverlapped(r, ExistingEdges(node.answer)) /\ HasOnlyItsCorners(r, Points(node.answer))
  BY <1>1 DEF Drawable, CandidatesForAllPoints
<1>3. CASE r \in node.candidates
  BY <1>2, <1>3 DEF Sanitized
<1>4. CASE NewestPoint(node.answer) \in {r.p2} \union r.sides
  BY <1>2, <1>4 DEF Additional
<1> QED
  BY <1>1, <1>3, <1>4 DEF AllButTheNewest

LEMMA ParentStaysClosed ==
  ASSUME MissInv, [DrawingNext]_drawingVars
  PROVE  ParentIsClosed'
<1>1. DrawingInv /\ ParentIsClosed /\ RankedAreComplete /\ parent \in Nodes /\ scoreRanking \in Seq(Nodes)
  BY DEF MissInv, DrawingInv, DrawingTypeOK
<1>2. PICK a, c : a = parent.answer /\ c = parent.candidates
  OBVIOUS
<1>3. ~parent.done => /\ Drawable(a) \subseteq c
                      /\ \A r \in Drawable(a) \ untried : Covered(Append(a, r))
  BY <1>1, <1>2 DEF ParentIsClosed
<1>4. \A r : Covered(Append(a, r)) => Covered(Append(a, r))'
  BY <1>1, CoveredStays
<1>5. ASSUME NEW r \in untried, DropChild(r) \/ RankChild(r) PROVE ParentIsClosed'
  <2>1. ~parent.done /\ parent' = parent /\ untried' = untried \ {r}
    BY <1>1, <1>5 DEF ParentIsClosed, DropChild, RankChild
  <2>2. Covered(Append(a, r))'
    <3>1. CASE DropChild(r)
      <4>1. Covered(Append(a, r))
        BY <1>2, <3>1 DEF DropChild, Child, Covered
      <4> QED
        BY <1>4, <4>1
    <3>2. CASE RankChild(r)
      BY <1>1, <1>2, <3>2, RankedIsCovered
    <3> QED
      BY <1>5, <3>1, <3>2
  <2>3. \A q \in Drawable(a) \ untried' : Covered(Append(a, q))'
    BY <1>3, <1>4, <2>1, <2>2
  <2> QED
    BY <1>2, <1>3, <2>1, <2>3, MissPrimes
<1>6. CASE MarkAsDone
  <2>1. parent'.done /\ untried' = {}
    BY <1>1, <1>6 DEF MarkAsDone, Done, Nodes
  <2> QED
    BY <2>1 DEF ParentIsClosed
<1>7. CASE ProcessOneNode
  <2>1. PICK k \in DOMAIN scoreRanking :
          /\ IsToProcess(k)
          /\ untried' = Sanitized(scoreRanking[k]) \union Additional(scoreRanking[k])
          /\ parent' = [scoreRanking[k] EXCEPT !.candidates = untried']
    BY <1>7 DEF ProcessOneNode
  <2>2. PICK node \in Nodes : node = scoreRanking[k]
    BY <1>1, RankedNode
  <2>3. ~node.done /\ AllButTheNewest(node)
    BY <1>1, <2>1, <2>2 DEF IsToProcess, RankedAreComplete
  <2>4. ~parent'.done /\ parent'.answer = node.answer /\ parent'.candidates = untried'
    BY <2>1, <2>2, <2>3 DEF Nodes
  <2>5. Drawable(node.answer) \subseteq untried'
    BY <2>1, <2>2, <2>3, ProcessingMeetsAll
  <2>6. PICK cs : cs = untried'
    OBVIOUS
  <2> QED
    BY <2>4, <2>5, <2>6, MissPrimes
<1>8. CASE parent' = parent /\ untried' = untried
  <2>1. CASE parent.done
    BY <1>1, <1>8, <2>1 DEF ParentIsClosed
  <2>2. CASE ~parent.done
    BY <1>2, <1>3, <1>4, <1>8, <2>2, MissPrimes
  <2> QED
    BY <2>1, <2>2
<1>9. DoneAllNodes \/ TimeIsUp \/ UNCHANGED drawingVars => parent' = parent /\ untried' = untried
  BY DEF DoneAllNodes, TimeIsUp, PrintBestAnswer, drawingVars
<1> QED
  BY <1>5, <1>6, <1>7, <1>8, <1>9 DEF DrawingNext

\* A child inherits all that can be drawn and is not at its newest point.
LEMMA ChildIsComplete ==
  ASSUME MissInv, NEW r \in untried
  PROVE  AllButTheNewest(Child(r))
<1>1. /\ ~parent.done /\ Drawable(parent.answer) \subseteq parent.candidates
      /\ initialPoints \in SUBSET Grid /\ parent \in Nodes /\ r \in parent.candidates
  BY DEF MissInv, ParentIsClosed, DrawingInv, DrawingTypeOK
<1>2. parent.answer \in Seq(Rectangles) /\ r \in Rectangles
  BY <1>1 DEF Nodes
<1>3. /\ Child(r).answer = Append(parent.answer, r) /\ Child(r).candidates = parent.candidates \ {r}
      /\ NewestPoint(Append(parent.answer, r)) = r.p4
  BY <1>2, OneMoreDrawn DEF Child
<1>4. ASSUME NEW q \in Drawable(Append(parent.answer, r)), r.p4 \notin {q.p2} \union q.sides
      PROVE  q \in parent.candidates \ {r}
  BY <1>1, <1>2, <1>4, DrawableBefore
<1> QED
  BY <1>3, <1>4 DEF AllButTheNewest

LEMMA RankedStayComplete ==
  ASSUME MissInv, [DrawingNext]_drawingVars
  PROVE  RankedAreComplete'
<1>1. DrawingInv /\ RankedAreComplete /\ scoreRanking \in Seq(Nodes)
  BY DEF MissInv, DrawingInv, DrawingTypeOK
<1>2. SUFFICES ASSUME NEW i \in DOMAIN scoreRanking', ~scoreRanking'[i].done
               PROVE  AllButTheNewest(scoreRanking'[i])
  BY MissPrimes
<1>3. CASE \E j \in DOMAIN scoreRanking : scoreRanking'[i] = scoreRanking[j]
  BY <1>1, <1>2, <1>3 DEF RankedAreComplete
<1>4. ASSUME NEW r \in untried, RankChild(r) PROVE AllButTheNewest(scoreRanking'[i])
  <2>1. PICK k \in 1 .. Len(scoreRanking) + 1 : scoreRanking' = Inserted(Child(r), k)
    BY <1>4 DEF RankChild
  <2>2. Child(r) \in Nodes
    BY <1>1, ChildIsSound
  <2>3. /\ Inserted(Child(r), k) \in Seq(Nodes) /\ Len(Inserted(Child(r), k)) = Len(scoreRanking) + 1
        /\ \A m \in 1 .. Len(scoreRanking) + 1 :
             /\ m < k => m \in DOMAIN scoreRanking /\ Inserted(Child(r), k)[m] = scoreRanking[m]
             /\ m = k => Inserted(Child(r), k)[m] = Child(r)
             /\ m > k => m - 1 \in DOMAIN scoreRanking /\ Inserted(Child(r), k)[m] = scoreRanking[m - 1]
    BY <1>1, <2>2, InsertedNodes
  <2>4. i \in 1 .. Len(scoreRanking) + 1 /\ i \in Int /\ k \in Int
    BY <1>1, <1>2, <2>1, <2>3
  <2>5. CASE i = k
    <3>1. scoreRanking'[i] = Child(r)
      BY <2>1, <2>3, <2>4, <2>5
    <3> QED
      BY <3>1, ChildIsComplete
  <2>6. CASE i < k
    BY <1>3, <2>1, <2>3, <2>4, <2>6
  <2>7. CASE i > k
    BY <1>3, <2>1, <2>3, <2>4, <2>7
  <2> QED
    BY <2>4, <2>5, <2>6, <2>7
<1>5. CASE MarkAsDone
  <2>1. scoreRanking' = [j \in DOMAIN scoreRanking |->
                           IF scoreRanking[j].answer = parent.answer THEN Done(scoreRanking[j])
                           ELSE scoreRanking[j]]
    BY <1>5 DEF MarkAsDone
  <2>2. i \in DOMAIN scoreRanking /\ scoreRanking[i] \in Nodes
    BY <1>1, <1>2, <2>1, RankedNode
  <2>3. Done(scoreRanking[i]).done
    BY <2>2 DEF Done, Nodes
  <2> QED
    BY <1>2, <1>3, <2>1, <2>2, <2>3
<1>6. CASE ProcessOneNode
  <2>1. PICK k \in DOMAIN scoreRanking : scoreRanking' = Erased(k)
    BY <1>6 DEF ProcessOneNode
  <2> QED
    BY <1>1, <1>2, <1>3, <2>1, ErasedNodes
<1>7. CASE DoneAllNodes
  <2>1. scoreRanking' = IF scoreRanking = << >> THEN << >> ELSE <<scoreRanking[1]>>
    BY <1>7 DEF DoneAllNodes
  <2>2. CASE scoreRanking = << >>
    BY <1>2, <2>1, <2>2, EmptySeq
  <2>3. CASE scoreRanking # << >>
    <3>1. 1 \in DOMAIN scoreRanking
      BY <1>1, <2>3
    <3>2. DOMAIN <<scoreRanking[1]>> = {1} /\ <<scoreRanking[1]>>[1] = scoreRanking[1]
      OBVIOUS
    <3> QED
      BY <1>2, <1>3, <2>1, <2>3, <3>1, <3>2
  <2> QED
    BY <2>2, <2>3
<1>8. ASSUME NEW r \in untried, DropChild(r) PROVE scoreRanking' = scoreRanking
  BY <1>8 DEF DropChild
<1>9. TimeIsUp \/ UNCHANGED drawingVars => scoreRanking' = scoreRanking
  BY DEF TimeIsUp, drawingVars
<1> QED
  BY <1>2, <1>3, <1>4, <1>5, <1>6, <1>7, <1>8, <1>9 DEF DrawingNext

LEMMA MissStep == MissInv /\ [DrawingNext]_drawingVars => MissInv'
<1>1. SUFFICES ASSUME MissInv, [DrawingNext]_drawingVars PROVE MissInv'
  OBVIOUS
<1>2. DrawingInv /\ RootIsCovered /\ NoneIsBetter
  BY <1>1 DEF MissInv
<1> QED
  BY <1>1, <1>2, DrawingStep, RootStaysCovered, NoneGetsBetter, ExploredStayClosed,
     ParentStaysClosed, RankedStayComplete DEF MissInv

(* Whatever the grid and the points: when every node is done, whatever can *)
(* be drawn after what was explored has been explored, and nothing that    *)
(* was explored is better than what is printed.                            *)
THEOREM DrawingMissesNothing == DrawingSpec => []MissesNothing
<1>1. DrawingInit => MissInv
  BY MissBegins
<1>2. MissInv => MissesNothing
  <2>1. SUFFICES ASSUME MissInv, AllDone PROVE
                   /\ IsExplored(<< >>)
                   /\ \A node \in exploredSpace : \A r \in Drawable(node.answer) :
                        IsExplored(Append(node.answer, r))
                   /\ \A node \in exploredSpace : node.score <= BestScore
    BY DEF MissesNothing
  <2>2. \A a : Covered(a) => IsExplored(a)
    BY <2>1 DEF Covered, AllDone
  <2> QED
    BY <2>1, <2>2 DEF MissInv, RootIsCovered, NoneIsBetter, ExploredAreClosed, AllDone
<1> QED
  BY <1>1, <1>2, MissStep, PTL DEF DrawingSpec

-----------------------------------------------------------------------------
(***************************************************************************)
(* No drawing is processed twice. The model finds the node that is done by *)
(* its answer, which is the node the code has a pointer to, as no two      *)
(* nodes have the same answer: a node's children are made once, when no    *)
(* node begins with its answer yet.                                        *)
(***************************************************************************)
WasProcessed(a) == \E node \in exploredSpace : node.answer = a
IsRanked(a) == \E k \in DOMAIN scoreRanking : scoreRanking[k].answer = a
IsMade(a) == WasProcessed(a) \/ IsRanked(a)

AnswersAreDistinct ==
  \A i, j \in DOMAIN scoreRanking : scoreRanking[i].answer = scoreRanking[j].answer => i = j

ParentsAreKnown ==
  \A a \in Seq(Rectangles) : \A r \in Rectangles :
    IsMade(Append(a, r)) => WasProcessed(a) \/ (~parent.done /\ a = parent.answer)

HasNoChildren(a) == ~WasProcessed(a) /\ \A r \in Rectangles : ~IsMade(Append(a, r))

UndoneAreNew ==
  \A k \in DOMAIN scoreRanking :
    \/ scoreRanking[k].done
    \/ ~parent.done /\ scoreRanking[k].answer = parent.answer
    \/ HasNoChildren(scoreRanking[k].answer)

ParentIsNew ==
  \/ parent.done
  \/ /\ ~WasProcessed(parent.answer)
     /\ \A r \in untried : ~IsMade(Append(parent.answer, r))
     /\ \/ parent.answer = << >>
        \/ \E k \in DOMAIN scoreRanking : ~scoreRanking[k].done /\ scoreRanking[k].answer = parent.answer

OnceInv == MissInv /\ AnswersAreDistinct /\ ParentsAreKnown /\ UndoneAreNew /\ ParentIsNew

\* A child is longer than its parent, and it has one parent and one rectangle.
LEMMA ChildrenDiffer ==
  ASSUME NEW a \in Seq(Rectangles), NEW r \in Rectangles
  PROVE  /\ Append(a, r) \in Seq(Rectangles) /\ Append(a, r) # << >> /\ Append(a, r) # a
         /\ \A b \in Seq(Rectangles) : \A q \in Rectangles :
              Append(a, r) = Append(b, q) => a = b /\ r = q
<1> HIDE DEF Rectangles
<1>1. Append(a, r) \in Seq(Rectangles) /\ Append(a, r) # << >>
  BY AppendProperties
<1>2. Append(a, r) # a
  <2>1. Len(Append(a, r)) = Len(a) + 1 /\ Len(a) \in Nat
    BY AppendProperties
  <2>2. Len(a) + 1 # Len(a)
    BY <2>1
  <2> QED
    BY <2>1, <2>2
<1>3. \A b \in Seq(Rectangles) : \A q \in Rectangles : Append(a, r) = Append(b, q) => a = b /\ r = q
  BY AppendInjective
<1> QED
  BY <1>1, <1>2, <1>3

\* What the parent and its candidates are.
LEMMA ParentFacts ==
  ASSUME MissInv
  PROVE  /\ parent.answer \in Seq(Rectangles) /\ untried \subseteq Rectangles
         /\ scoreRanking \in Seq(Nodes) /\ parent \in Nodes
         /\ \A r \in untried : ~parent.done
<1>1. parent \in Nodes /\ untried \subseteq parent.candidates /\ scoreRanking \in Seq(Nodes)
  BY DEF MissInv, DrawingInv, DrawingTypeOK
<1>2. \A r \in untried : ~parent.done
  BY DEF MissInv, ParentIsClosed
<1> QED
  BY <1>1, <1>2 DEF Nodes

\* What a step adds to the drawings processed and to those ranked.
LEMMA ProcessedByStep ==
  ASSUME [DrawingNext]_drawingVars, NEW b
  PROVE  WasProcessed(b)' <=> WasProcessed(b) \/ (MarkAsDone /\ b = parent.answer)
<1>1. CASE MarkAsDone
  <2>1. exploredSpace' = exploredSpace \union {[answer |-> parent.answer, score |-> parent.score]}
    BY <1>1 DEF MarkAsDone
  <2>2. PICK new \in exploredSpace' : new.answer = parent.answer /\ exploredSpace' = exploredSpace \union {new}
    BY <2>1
  <2> QED
    BY <1>1, <2>2 DEF WasProcessed
<1>2. CASE ~MarkAsDone
  <2>1. exploredSpace' = exploredSpace
    BY <1>2 DEF DrawingNext, drawingVars, DropChild, RankChild, ProcessOneNode, DoneAllNodes,
                TimeIsUp, PrintBestAnswer
  <2> QED
    BY <1>2, <2>1 DEF WasProcessed
<1> QED
  BY <1>1, <1>2

LEMMA RankedByStep ==
  ASSUME MissInv, [DrawingNext]_drawingVars, NEW i \in DOMAIN scoreRanking'
  PROVE  \/ \E j \in DOMAIN scoreRanking :
              /\ scoreRanking'[i].answer = scoreRanking[j].answer
              /\ ~scoreRanking'[i].done =>
                    ~scoreRanking[j].done /\ (MarkAsDone => scoreRanking[j].answer # parent.answer)
         \/ \E r \in untried : RankChild(r) /\ scoreRanking'[i] = Child(r)
<1>1. scoreRanking \in Seq(Nodes) /\ DrawingInv
  BY ParentFacts DEF MissInv
<1>2. ASSUME ~MarkAsDone, \E j \in DOMAIN scoreRanking : scoreRanking'[i] = scoreRanking[j]
      PROVE  \E j \in DOMAIN scoreRanking :
               /\ scoreRanking'[i].answer = scoreRanking[j].answer
               /\ ~scoreRanking'[i].done =>
                     ~scoreRanking[j].done /\ (MarkAsDone => scoreRanking[j].answer # parent.answer)
  BY <1>2
<1>3. CASE MarkAsDone
  <2>1. scoreRanking' = [j \in DOMAIN scoreRanking |->
                           IF scoreRanking[j].answer = parent.answer THEN Done(scoreRanking[j])
                           ELSE scoreRanking[j]]
    BY <1>3 DEF MarkAsDone
  <2>2. i \in DOMAIN scoreRanking /\ scoreRanking[i] \in Nodes
    BY <1>1, <2>1, RankedNode
  <2>3. Done(scoreRanking[i]).done /\ Done(scoreRanking[i]).answer = scoreRanking[i].answer
    BY <2>2 DEF Done, Nodes
  <2> QED
    BY <2>1, <2>2, <2>3
<1>4. ASSUME NEW r \in untried, RankChild(r)
      PROVE  scoreRanking'[i] = Child(r) \/ \E j \in DOMAIN scoreRanking : scoreRanking'[i] = scoreRanking[j]
  <2>1. PICK k \in 1 .. Len(scoreRanking) + 1 : scoreRanking' = Inserted(Child(r), k)
    BY <1>4 DEF RankChild
  <2>2. Child(r) \in Nodes
    BY <1>1, ChildIsSound
  <2>3. /\ Inserted(Child(r), k) \in Seq(Nodes) /\ Len(Inserted(Child(r), k)) = Len(scoreRanking) + 1
        /\ \A m \in 1 .. Len(scoreRanking) + 1 :
             /\ m < k => m \in DOMAIN scoreRanking /\ Inserted(Child(r), k)[m] = scoreRanking[m]
             /\ m = k => Inserted(Child(r), k)[m] = Child(r)
             /\ m > k => m - 1 \in DOMAIN scoreRanking /\ Inserted(Child(r), k)[m] = scoreRanking[m - 1]
    BY <1>1, <2>2, InsertedNodes
  <2>4. i \in 1 .. Len(scoreRanking) + 1 /\ i \in Int /\ k \in Int
    BY <1>1, <2>1, <2>3
  <2>5. i = k \/ i < k \/ i > k
    BY <2>4
  <2> QED
    BY <2>1, <2>3, <2>4, <2>5
<1>5. CASE ProcessOneNode
  <2>1. PICK k \in DOMAIN scoreRanking : scoreRanking' = Erased(k)
    BY <1>5 DEF ProcessOneNode
  <2>2. \E j \in DOMAIN scoreRanking : scoreRanking'[i] = scoreRanking[j]
    BY <1>1, <2>1, ErasedNodes
  <2>3. ~MarkAsDone
    BY <1>5 DEF MarkAsDone, ProcessOneNode
  <2> QED
    BY <1>2, <2>2, <2>3
<1>6. CASE DoneAllNodes
  <2>1. scoreRanking' = IF scoreRanking = << >> THEN << >> ELSE <<scoreRanking[1]>>
    BY <1>6 DEF DoneAllNodes
  <2>2. scoreRanking # << >>
    BY <2>1, EmptySeq
  <2>3. 1 \in DOMAIN scoreRanking /\ i = 1 /\ scoreRanking'[1] = scoreRanking[1]
    BY <1>1, <2>1, <2>2
  <2>4. ~MarkAsDone
    BY <1>6 DEF MarkAsDone, DoneAllNodes, PrintBestAnswer
  <2> QED
    BY <1>2, <2>3, <2>4
<1>7. ASSUME NEW r \in untried, DropChild(r) PROVE scoreRanking' = scoreRanking
  BY <1>7 DEF DropChild
<1>8. TimeIsUp \/ UNCHANGED drawingVars => scoreRanking' = scoreRanking
  BY DEF TimeIsUp, drawingVars
<1> QED
  BY <1>2, <1>3, <1>4, <1>5, <1>6, <1>7, <1>8 DEF DrawingNext

LEMMA MadeByStep ==
  ASSUME MissInv, ParentIsNew, [DrawingNext]_drawingVars, NEW b, IsMade(b)'
  PROVE  IsMade(b) \/ b = << >> \/ \E r \in untried : RankChild(r) /\ b = Append(parent.answer, r)
<1>1. CASE WasProcessed(b)'
  BY <1>1, ProcessedByStep DEF ParentIsNew, IsMade, IsRanked, MarkAsDone
<1>2. CASE IsRanked(b)'
  <2>1. PICK i \in DOMAIN scoreRanking' : scoreRanking'[i].answer = b
    BY <1>2 DEF IsRanked
  <2>2. CASE \E j \in DOMAIN scoreRanking : scoreRanking'[i].answer = scoreRanking[j].answer
    BY <2>1, <2>2 DEF IsMade, IsRanked
  <2>3. ASSUME NEW r \in untried, RankChild(r), scoreRanking'[i] = Child(r)
        PROVE  b = Append(parent.answer, r)
    BY <2>1, <2>3 DEF Child
  <2> QED
    BY <2>2, <2>3, RankedByStep
<1> QED
  BY <1>1, <1>2 DEF IsMade

\* What ParentIsNew and ParentsAreKnown say of a child of the parent.
LEMMA ChildIsNew ==
  ASSUME OnceInv, [DrawingNext]_drawingVars, NEW r \in untried, RankChild(r),
         NEW b \in Seq(Rectangles), b = Append(parent.answer, r)
  PROVE  ~IsMade(b) /\ ~WasProcessed(b)' /\ \A q \in Rectangles : ~IsMade(Append(b, q))'
<1>1. MissInv /\ ParentIsNew /\ ParentsAreKnown
  BY DEF OnceInv
<1>2. PICK a \in Seq(Rectangles) : a = parent.answer
  BY <1>1, ParentFacts
<1>3. ~parent.done /\ r \in Rectangles /\ untried \subseteq Rectangles
  BY <1>1, ParentFacts
<1>4. ~IsMade(b) /\ ~MarkAsDone
  BY <1>1, <1>3 DEF ParentIsNew, MarkAsDone
<1>5. ~WasProcessed(b)'
  BY <1>4, ProcessedByStep DEF IsMade
<1>6. ASSUME NEW q \in Rectangles, IsMade(Append(b, q))' PROVE FALSE
  <2>1. CASE IsMade(Append(b, q))
    <3>1. b = a
      BY <1>1, <1>2, <1>4, <2>1 DEF ParentsAreKnown, IsMade
    <3> QED
      BY <1>2, <1>3, <3>1, ChildrenDiffer
  <2>2. CASE Append(b, q) = << >>
    BY <2>2, ChildrenDiffer
  <2>3. ASSUME NEW p \in untried, Append(b, q) = Append(parent.answer, p) PROVE FALSE
    <3>1. p \in Rectangles /\ Append(b, q) = Append(a, p)
      BY <1>2, <1>3, <2>3
    <3>2. b = a
      BY <3>1, ChildrenDiffer
    <3> QED
      BY <1>2, <1>3, <3>2, ChildrenDiffer
  <2>4. PICK c : c = Append(b, q)
    OBVIOUS
  <2>5. IsMade(c) \/ c = << >> \/ \E p \in untried : RankChild(p) /\ c = Append(parent.answer, p)
    BY <1>1, <1>6, <2>4, MadeByStep
  <2> QED
    BY <2>1, <2>2, <2>3, <2>4, <2>5
<1> QED
  BY <1>4, <1>5, <1>6

LEMMA AnswersStayDistinct ==
  ASSUME OnceInv, [DrawingNext]_drawingVars
  PROVE  AnswersAreDistinct'
<1>1. MissInv /\ AnswersAreDistinct /\ scoreRanking \in Seq(Nodes) /\ DrawingInv
  BY ParentFacts DEF OnceInv, MissInv
<1>2. CASE scoreRanking' = scoreRanking
  BY <1>1, <1>2 DEF AnswersAreDistinct
<1>3. ASSUME NEW r \in untried, RankChild(r) PROVE AnswersAreDistinct'
  <2>1. PICK k \in 1 .. Len(scoreRanking) + 1 : scoreRanking' = Inserted(Child(r), k)
    BY <1>3 DEF RankChild
  <2>2. Child(r) \in Nodes
    BY <1>1, ChildIsSound
  <2>3. PICK b \in Seq(Rectangles) : b = Child(r).answer /\ b = Append(parent.answer, r)
    BY <2>2 DEF Child, Nodes
  <2>4. \A j \in DOMAIN scoreRanking : scoreRanking[j].answer # b
    <3>1. ~IsMade(b)
      BY <1>3, <2>3, ChildIsNew
    <3> QED
      BY <3>1 DEF IsMade, IsRanked
  <2>5. /\ Inserted(Child(r), k) \in Seq(Nodes) /\ Len(Inserted(Child(r), k)) = Len(scoreRanking) + 1
        /\ \A m \in 1 .. Len(scoreRanking) + 1 :
             /\ m < k => m \in DOMAIN scoreRanking /\ Inserted(Child(r), k)[m] = scoreRanking[m]
             /\ m = k => Inserted(Child(r), k)[m] = Child(r)
             /\ m > k => m - 1 \in DOMAIN scoreRanking /\ Inserted(Child(r), k)[m] = scoreRanking[m - 1]
    BY <1>1, <2>2, InsertedNodes
  <2>6. DOMAIN scoreRanking' = 1 .. Len(scoreRanking) + 1 /\ Len(scoreRanking) \in Nat /\ k \in Int
    BY <1>1, <2>1, <2>5
  <2> DEFINE From(m) == IF m < k THEN m ELSE m - 1
  <2>7. ASSUME NEW m \in DOMAIN scoreRanking'
        PROVE  \/ m = k /\ scoreRanking'[m].answer = b
               \/ /\ m # k /\ From(m) \in DOMAIN scoreRanking
                  /\ scoreRanking'[m].answer = scoreRanking[From(m)].answer
    <3>1. m \in 1 .. Len(scoreRanking) + 1 /\ m \in Int
      BY <2>6
    <3>2. m = k \/ m < k \/ (m > k /\ ~(m < k))
      BY <2>6, <3>1
    <3> QED
      BY <2>1, <2>3, <2>5, <3>1, <3>2
  <2>8. ASSUME NEW i \in DOMAIN scoreRanking', NEW j \in DOMAIN scoreRanking',
               i # k, j # k, From(i) = From(j)
        PROVE  i = j
    <3>1. i \in Int /\ j \in Int /\ k \in Int
      BY <2>6
    <3> QED
      BY <2>8, <3>1
  <2> HIDE DEF From
  <2>9. ASSUME NEW i \in DOMAIN scoreRanking', NEW j \in DOMAIN scoreRanking',
               scoreRanking'[i].answer = scoreRanking'[j].answer
        PROVE  i = j
    <3>1. (i = k) <=> (j = k)
      BY <2>4, <2>7, <2>9
    <3>2. CASE i # k
      <4>1. From(i) = From(j)
        BY <1>1, <2>7, <2>9, <3>1, <3>2 DEF AnswersAreDistinct
      <4> QED
        BY <2>8, <3>1, <3>2, <4>1
    <3> QED
      BY <3>1, <3>2
  <2> QED
    BY <2>9 DEF AnswersAreDistinct
<1>4. CASE MarkAsDone
  <2>1. scoreRanking' = [j \in DOMAIN scoreRanking |->
                           IF scoreRanking[j].answer = parent.answer THEN Done(scoreRanking[j])
                           ELSE scoreRanking[j]]
    BY <1>4 DEF MarkAsDone
  <2>2. ASSUME NEW i \in DOMAIN scoreRanking PROVE scoreRanking'[i].answer = scoreRanking[i].answer
    <3>1. scoreRanking[i] \in Nodes
      BY <1>1, RankedNode
    <3> QED
      BY <2>1, <3>1, DoneStays
  <2>3. DOMAIN scoreRanking' = DOMAIN scoreRanking
    BY <2>1
  <2> QED
    BY <1>1, <2>2, <2>3 DEF AnswersAreDistinct
<1>5. CASE ProcessOneNode
  <2>1. PICK k \in DOMAIN scoreRanking : scoreRanking' = Erased(k)
    BY <1>5 DEF ProcessOneNode
  <2>2. PICK place \in [DOMAIN scoreRanking' -> DOMAIN scoreRanking] :
          /\ \A i \in DOMAIN scoreRanking' : scoreRanking'[i] = scoreRanking[place[i]]
          /\ \A i, j \in DOMAIN scoreRanking' : place[i] = place[j] => i = j
    BY <1>1, <2>1, ErasedNodes
  <2> QED
    BY <1>1, <2>2 DEF AnswersAreDistinct
<1>6. CASE DoneAllNodes
  <2>1. scoreRanking' = IF scoreRanking = << >> THEN << >> ELSE <<scoreRanking[1]>>
    BY <1>6 DEF DoneAllNodes
  <2>2. \A i, j \in DOMAIN scoreRanking' : i = j
    BY <2>1, EmptySeq
  <2> QED
    BY <2>2 DEF AnswersAreDistinct
<1>7. ASSUME NEW r \in untried, DropChild(r) PROVE scoreRanking' = scoreRanking
  BY <1>7 DEF DropChild
<1>8. TimeIsUp \/ UNCHANGED drawingVars => scoreRanking' = scoreRanking
  BY DEF TimeIsUp, drawingVars
<1> QED
  BY <1>2, <1>3, <1>4, <1>5, <1>6, <1>7, <1>8 DEF DrawingNext

\* The parent is another after a step only when it is done.
LEMMA ParentGoesOn ==
  ASSUME OnceInv, [DrawingNext]_drawingVars, ~parent.done
  PROVE  \/ parent' = parent /\ ~MarkAsDone /\ ~ProcessOneNode
         \/ MarkAsDone /\ parent'.done
<1>1. CASE MarkAsDone
  <2>1. parent \in Nodes
    BY ParentFacts DEF OnceInv
  <2> QED
    BY <1>1, <2>1 DEF MarkAsDone, Done, Nodes
<1>2. CASE ~MarkAsDone
  BY <1>2 DEF DrawingNext, drawingVars, DropChild, RankChild, ProcessOneNode, DoneAllNodes,
              TimeIsUp, PrintBestAnswer
<1> QED
  BY <1>1, <1>2

LEMMA ParentsStayKnown ==
  ASSUME OnceInv, [DrawingNext]_drawingVars
  PROVE  ParentsAreKnown'
<1>1. MissInv /\ ParentsAreKnown /\ ParentIsNew
  BY DEF OnceInv
<1>2. SUFFICES ASSUME NEW a \in Seq(Rectangles), NEW r \in Rectangles, IsMade(Append(a, r))'
               PROVE  WasProcessed(a)' \/ (~parent'.done /\ a = parent'.answer)
  BY DEF ParentsAreKnown
<1>3. PICK b : b = Append(a, r)
  OBVIOUS
<1>4. IsMade(b) \/ b = << >> \/ \E q \in untried : RankChild(q) /\ b = Append(parent.answer, q)
  BY <1>1, <1>2, <1>3, MadeByStep
<1>5. b # << >>
  BY <1>3, ChildrenDiffer
<1>6. WasProcessed(a) \/ (~parent.done /\ a = parent.answer)
  <2>1. CASE IsMade(b)
    BY <1>1, <1>3, <2>1 DEF ParentsAreKnown
  <2>2. ASSUME NEW q \in untried, b = Append(parent.answer, q) PROVE ~parent.done /\ a = parent.answer
    <3>1. q \in Rectangles /\ parent.answer \in Seq(Rectangles) /\ ~parent.done
      BY <1>1, ParentFacts
    <3> QED
      BY <1>3, <2>2, <3>1, ChildrenDiffer
  <2> QED
    BY <1>4, <1>5, <2>1, <2>2
<1> QED
  BY <1>6, ProcessedByStep, ParentGoesOn

LEMMA UndoneStayNew ==
  ASSUME OnceInv, [DrawingNext]_drawingVars
  PROVE  UndoneAreNew'
<1>1. MissInv /\ UndoneAreNew /\ ParentIsNew
  BY DEF OnceInv
<1>2. SUFFICES ASSUME NEW i \in DOMAIN scoreRanking', ~scoreRanking'[i].done,
                      ~(~parent'.done /\ scoreRanking'[i].answer = parent'.answer)
               PROVE  HasNoChildren(scoreRanking[i].answer)'
  BY DEF UndoneAreNew
<1>3. CASE \E j \in DOMAIN scoreRanking :
             /\ scoreRanking'[i].answer = scoreRanking[j].answer
             /\ ~scoreRanking'[i].done =>
                   ~scoreRanking[j].done /\ (MarkAsDone => scoreRanking[j].answer # parent.answer)
  <2>1. PICK j \in DOMAIN scoreRanking :
             /\ scoreRanking'[i].answer = scoreRanking[j].answer /\ ~scoreRanking[j].done
             /\ MarkAsDone => scoreRanking[j].answer # parent.answer
    BY <1>2, <1>3
  <2>2. PICK a \in Seq(Rectangles) : a = scoreRanking[j].answer
    <3>1. scoreRanking[j] \in Nodes
      BY <1>1, ParentFacts, RankedNode
    <3> QED
      BY <3>1 DEF Nodes
  <2>3. ~parent.done => a # parent.answer
    BY <1>2, <2>1, <2>2, ParentGoesOn
  <2>4. ~WasProcessed(a) /\ \A r \in Rectangles : ~IsMade(Append(a, r))
    BY <1>1, <2>1, <2>2, <2>3 DEF UndoneAreNew, HasNoChildren
  <2>5. ~WasProcessed(a)'
    BY <2>1, <2>2, <2>4, ProcessedByStep
  <2>6. ASSUME NEW r \in Rectangles, IsMade(Append(a, r))' PROVE FALSE
    <3>1. PICK b : b = Append(a, r)
      OBVIOUS
    <3>2. ~IsMade(b) /\ b # << >>
      BY <2>4, <3>1, ChildrenDiffer
    <3>3. PICK q \in untried : b = Append(parent.answer, q)
      BY <1>1, <2>6, <3>1, <3>2, MadeByStep
    <3>4. q \in Rectangles /\ parent.answer \in Seq(Rectangles) /\ ~parent.done
      BY <1>1, ParentFacts
    <3> QED
      BY <2>3, <3>1, <3>3, <3>4, ChildrenDiffer
  <2> QED
    BY <2>1, <2>2, <2>5, <2>6 DEF HasNoChildren, WasProcessed, IsMade, IsRanked
<1>4. ASSUME NEW r \in untried, RankChild(r), scoreRanking'[i] = Child(r)
      PROVE  HasNoChildren(scoreRanking[i].answer)'
  <2>1. Child(r) \in Nodes
    BY <1>1, ChildIsSound DEF MissInv
  <2>2. PICK b \in Seq(Rectangles) : b = Child(r).answer /\ b = Append(parent.answer, r)
    BY <2>1 DEF Child, Nodes
  <2>3. ~WasProcessed(b)' /\ \A q \in Rectangles : ~IsMade(Append(b, q))'
    BY <1>4, <2>2, ChildIsNew
  <2> QED
    BY <1>4, <2>2, <2>3 DEF HasNoChildren, WasProcessed, IsMade, IsRanked
<1> QED
  BY <1>1, <1>3, <1>4, RankedByStep

LEMMA ParentStaysNew ==
  ASSUME OnceInv, [DrawingNext]_drawingVars
  PROVE  ParentIsNew'
<1>1. MissInv /\ UndoneAreNew /\ ParentIsNew /\ DrawingInv
  BY DEF OnceInv, MissInv
<1>2. SUFFICES ASSUME ~parent'.done PROVE ParentIsNew'
  BY DEF ParentIsNew
<1>3. CASE ~parent.done
  <2>1. parent' = parent /\ ~MarkAsDone /\ ~ProcessOneNode
    BY <1>2, <1>3, ParentGoesOn
  <2>2. PICK a \in Seq(Rectangles) : a = parent.answer
    BY <1>1, ParentFacts
  <2>3. /\ ~WasProcessed(a) /\ \A r \in untried : ~IsMade(Append(a, r))
        /\ a = << >> \/ \E k \in DOMAIN scoreRanking : ~scoreRanking[k].done /\ scoreRanking[k].answer = a
    BY <1>1, <1>3, <2>2 DEF ParentIsNew
  <2>4. ~WasProcessed(a)'
    BY <2>1, <2>3, ProcessedByStep
  <2>5. untried' \subseteq untried /\ \A r \in untried : RankChild(r) => r \notin untried'
    BY <2>1 DEF DrawingNext, drawingVars, DropChild, RankChild, DoneAllNodes, TimeIsUp, PrintBestAnswer
  <2>6. ASSUME NEW r \in untried', IsMade(Append(a, r))' PROVE FALSE
    <3>1. PICK b : b = Append(a, r)
      OBVIOUS
    <3>2. r \in untried /\ r \in Rectangles
      BY <1>1, <2>5, ParentFacts
    <3>3. ~IsMade(b) /\ b # << >>
      BY <2>3, <3>1, <3>2, ChildrenDiffer
    <3>4. PICK q \in untried : RankChild(q) /\ b = Append(parent.answer, q)
      BY <1>1, <2>6, <3>1, <3>3, MadeByStep
    <3>5. q \in Rectangles
      BY <1>1, ParentFacts
    <3>6. q = r
      BY <2>2, <3>1, <3>2, <3>4, <3>5, ChildrenDiffer
    <3> QED
      BY <2>5, <3>4, <3>6
  <2>7. a = << >> \/ \E k \in DOMAIN scoreRanking' : ~scoreRanking'[k].done /\ scoreRanking'[k].answer = a
    BY <1>1, <2>1, <2>3, RankedNodesGoOn
  <2> QED
    BY <2>1, <2>2, <2>4, <2>6, <2>7 DEF ParentIsNew, WasProcessed, IsMade, IsRanked
<1>4. CASE parent.done
  <2>1. ProcessOneNode
    BY <1>2, <1>4 DEF DrawingNext, drawingVars, DropChild, RankChild, MarkAsDone, DoneAllNodes,
                      TimeIsUp, PrintBestAnswer
  <2>2. PICK k \in DOMAIN scoreRanking :
          /\ IsToProcess(k)
          /\ untried' = Sanitized(scoreRanking[k]) \union Additional(scoreRanking[k])
          /\ parent' = [scoreRanking[k] EXCEPT !.candidates = untried']
    BY <2>1 DEF ProcessOneNode
  <2>3. PICK node \in Nodes : node = scoreRanking[k]
    BY <1>1, ParentFacts, RankedNode
  <2>4. PICK a \in Seq(Rectangles) : a = node.answer
    BY DEF Nodes
  <2>5. parent'.answer = a /\ ~scoreRanking[k].done /\ scoreRanking[k].answer = a
    BY <2>2, <2>3, <2>4 DEF Nodes, IsToProcess
  <2>6. ~WasProcessed(a) /\ \A r \in Rectangles : ~IsMade(Append(a, r))
    BY <1>1, <1>4, <2>5 DEF UndoneAreNew, HasNoChildren
  <2>7. ~MarkAsDone /\ untried = {}
    BY <1>1, <1>4, ParentFacts DEF MarkAsDone
  <2>8. ~WasProcessed(a)'
    BY <2>6, <2>7, ProcessedByStep
  <2>9. untried' \subseteq Rectangles
    <3>1. parent' \in Nodes /\ untried' \subseteq parent'.candidates
      BY <1>1, DrawingStep DEF DrawingInv, DrawingTypeOK
    <3> QED
      BY <3>1 DEF Nodes
  <2>10. ASSUME NEW r \in untried', IsMade(Append(a, r))' PROVE FALSE
    <3>1. PICK b : b = Append(a, r)
      OBVIOUS
    <3>2. ~IsMade(b) /\ b # << >>
      BY <2>6, <2>9, <3>1, ChildrenDiffer
    <3> QED
      BY <1>1, <2>7, <2>10, <3>1, <3>2, MadeByStep
  <2>11. \E j \in DOMAIN scoreRanking' : ~scoreRanking'[j].done /\ scoreRanking'[j].answer = a
    BY <1>1, <2>5, <2>7, RankedNodesGoOn
  <2> QED
    BY <2>5, <2>8, <2>10, <2>11 DEF ParentIsNew, WasProcessed, IsMade, IsRanked
<1> QED
  BY <1>3, <1>4

LEMMA OnceBegins == ASSUME DrawingInit PROVE OnceInv
<1>1. /\ scoreRanking = << >> /\ exploredSpace = {} /\ parent = Root
      /\ Root.answer = << >> /\ DOMAIN << >> = {}
  BY EmptySeq DEF DrawingInit, Root
<1>2. \A a : ~IsMade(a)
  BY <1>1 DEF IsMade, WasProcessed, IsRanked
<1>3. AnswersAreDistinct /\ UndoneAreNew
  BY <1>1 DEF AnswersAreDistinct, UndoneAreNew
<1>4. ParentsAreKnown /\ ParentIsNew
  BY <1>1, <1>2 DEF ParentsAreKnown, ParentIsNew, IsMade
<1> QED
  BY <1>3, <1>4, MissBegins DEF OnceInv

LEMMA OnceStep == OnceInv /\ [DrawingNext]_drawingVars => OnceInv'
<1>1. SUFFICES ASSUME OnceInv, [DrawingNext]_drawingVars PROVE OnceInv'
  OBVIOUS
<1>2. MissInv'
  BY <1>1, MissStep DEF OnceInv
<1> QED
  BY <1>1, <1>2, AnswersStayDistinct, ParentsStayKnown, UndoneStayNew, ParentStaysNew DEF OnceInv

(* What makes answers distinct is inductive.                               *)
THEOREM DrawingOnceInductive == DrawingSpec => []OnceInv
<1>1. DrawingInit => OnceInv
  BY OnceBegins
<1> QED
  BY <1>1, OnceStep, PTL DEF DrawingSpec

(* No two nodes of the ranking have the same answer, so that an answer     *)
(* tells which node the code's pointer is to.                              *)
THEOREM DrawingNodesAreDistinct == DrawingSpec => []AnswersAreDistinct
<1>1. OnceInv => AnswersAreDistinct
  BY DEF OnceInv
<1> QED
  BY <1>1, DrawingOnceInductive, PTL

(* No drawing is processed twice: a node that is done has an answer that   *)
(* no node done before had. (Its set of edges may well have been explored.)*)
NoneIsProcessedTwice == [][MarkAsDone => ~WasProcessed(parent.answer)]_drawingVars

(* A search does no work twice: a turn of the loop explores a drawing that *)
(* no turn before it has explored.                                         *)
THEOREM DrawingIsProcessedOnce == DrawingSpec => NoneIsProcessedTwice
<1>1. OnceInv /\ [DrawingNext]_drawingVars => [MarkAsDone => ~WasProcessed(parent.answer)]_drawingVars
  BY DEF OnceInv, ParentIsNew, MarkAsDone
<1> QED
  BY <1>1, DrawingOnceInductive, PTL DEF DrawingSpec, NoneIsProcessedTwice
===============================================================================
