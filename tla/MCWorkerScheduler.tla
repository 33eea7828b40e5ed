---------------------------- MODULE MCWorkerScheduler ----------------------------
(* Two workers of different workload, three jobs and a road a - b - c with *)
(* a shorter and a longer leg; every job is one of seven.                  *)
EXTENDS WorkerOutput, TLC
CONSTANTS a, b, c, w1, w2, j1, j2, j3

MCVertices == {a, b, c}
MCWorkers == {w1, w2}
MCJobs == {j1, j2, j3}
Leg == (a :> 0 @@ b :> 1 @@ c :> 3)
MCRoute == [u \in MCVertices |-> [v \in MCVertices |->
    [distance |-> IF Leg[u] < Leg[v] THEN Leg[v] - Leg[u] ELSE Leg[u] - Leg[v],
     vertices |-> CASE u = v -> <<u>> [] u # v /\ b \in {u, v} -> <<u, v>> [] OTHER -> <<u, b, v>>]]]
MCHome == (w1 :> a @@ w2 :> b)
MCWorkload == (w1 :> 2 @@ w2 :> 1)
MCTypes == (w1 :> {1} @@ w2 :> {1, 2})
AJob(tasks, vertex, opens, closes, pays, type, prior) ==
    [tasks |-> tasks, vertex |-> vertex, opens |-> opens, closes |-> closes, pays |-> pays,
     type |-> type, prior |-> prior]
Catalogue == {AJob(1, a, 1, 9, 1 .. 8, 1, FALSE),
              AJob(3, b, 2, 6, 2 .. 5, 1, FALSE),
              AJob(2, c, 3, 9, {4, 6}, 1, FALSE),
              AJob(4, c, 5, 12, 5 .. 11, 1, FALSE),
              AJob(3, a, 4, 8, 4 .. 7, 2, FALSE),
              AJob(1, b, 1, 9, 1 .. 8, 1, TRUE),
              AJob(5, b, 1, 20, 1 .. 19, 2, FALSE)}
MCJobLists == [MCJobs -> Catalogue]
=============================================================================
