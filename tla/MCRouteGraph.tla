------------------------------ MODULE MCRouteGraph ------------------------------
(* Every connected graph within a ring of four and a way out of it, with   *)
(* roads of length 1 and 3. Five vertices are the fewest for a search to   *)
(* be taken up again beyond a goal that two roads lead to.                 *)
EXTENDS RouteGraph
CONSTANTS v1, v2, v3, v4, v5

MCVertices == {v1, v2, v3, v4, v5}
Pairs == {{v1, v2}, {v1, v3}, {v2, v4}, {v3, v4}, {v4, v5}}
Lengths == {0, 1, 3}
Graph(w) == [u \in MCVertices |-> [v \in MCVertices |-> IF {u, v} \in Pairs THEN w[{u, v}] ELSE 0]]
Connected(w) == \A S \in (SUBSET MCVertices) \ {{}, MCVertices} :
                   \E p \in Pairs : w[p] > 0 /\ p \cap S # {} /\ p \ S # {}
MCRoads == {Graph(w) : w \in {w \in [Pairs -> Lengths] : Connected(w)}}
=============================================================================
