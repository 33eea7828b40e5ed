--------------------------- MODULE RectangleSearch ---------------------------
(***************************************************************************)
(* ex/atcoder/ahc014/main.cpp: a best-first search for the sequence of     *)
(* rectangles of the highest score that can be drawn, one after another,   *)
(* over the points of a grid.  A rectangle takes three corners that are    *)
(* points, makes its fourth, p4, a point, and may touch no other point and *)
(* share no piece of an edge with those before it.                         *)
(*                                                                         *)
(* A node of the tree is an answer with the candidates for its next        *)
(* rectangle; its points, edges and score are those of the answer.  The    *)
(* score of the root, which nothing initialises and every node inherits,   *)
(* is taken as the zero from which all are counted.                        *)
(***************************************************************************)
EXTENDS Integers, Sequences, FiniteSetsExt

CONSTANTS
  N,           \* the grid is N by N
  Instances    \* the sets of initial points

Grid == (0 .. N - 1) \X (0 .. N - 1)
ASSUME InstancesAreOnTheGrid == N \in Nat \ {0} /\ Instances \subseteq SUBSET Grid

VARIABLES
  initialPoints,
  scoreRanking,     \* the nodes, by descending score, the earlier first among equals
  exploredSpace,    \* the nodes that are done, of which the code keeps the sets of edges
  parent, untried,  \* the node whose children are created, from these candidates
  printed           \* the answer printBestAnswer prints

drawingVars == <<initialPoints, scoreRanking, exploredSpace, parent, untried, printed>>
NotYet == [made |-> FALSE, answer |-> << >>]

-----------------------------------------------------------------------------
\* Pieces of one step, along the axes and the diagonals, from p to q.
Sign(i) == IF i > 0 THEN 1 ELSE IF i < 0 THEN -1 ELSE 0
Abs(i) == i * Sign(i)
Size(p, q) == Max({Abs(q[1] - p[1]), Abs(q[2] - p[2])})
Towards(p, q, i) == <<p[1] + i * Sign(q[1] - p[1]), p[2] + i * Sign(q[2] - p[2])>>
Pieces(p, q) == {{Towards(p, q, i), Towards(p, q, i + 1)} : i \in 0 .. Size(p, q) - 1}

\* p2 is the corner opposite p4, and sides are p1 and p3, either way round.
Rectangle(p1, p2, p3) ==
  [p2 |-> p2, sides |-> {p1, p3}, p4 |-> <<p1[1] + p3[1] - p2[1], p1[2] + p3[2] - p2[2]>>]

Edges(r) == UNION {Pieces(c, s) : c \in {r.p2, r.p4}, s \in r.sides}
PointsOn(r) == UNION Edges(r)

\* tryToMakeRectangle: a right angle at p2, of the axes or of the diagonals.
Is45Degree(p, q) == Abs(p[1] - q[1]) = Abs(p[2] - q[2])
IsRightAngle(p1, p2, p3) ==
  /\ p1 # p2 /\ p3 # p2 /\ p1 # p3
  /\ \/ p1[1] = p2[1] /\ p3[2] = p2[2]
     \/ /\ Is45Degree(p1, p2) /\ Is45Degree(p3, p2)
        /\ (p1[1] - p2[1]) * (p3[1] - p2[1]) + (p1[2] - p2[2]) * (p3[2] - p2[2]) = 0

HasOnlyItsCorners(r, points) == PointsOn(r) \intersect points = {r.p2} \union r.sides
IsOverlapped(r, edges) == Edges(r) \intersect edges # {}

\* findCandidateRectanglesForAllPoints.
CandidatesForAllPoints(points) ==
  {r \in {Rectangle(t[1], t[2], t[3]) :
            t \in {t \in points \X points \X points : IsRightAngle(t[1], t[2], t[3])}} :
     r.p4 \in Grid /\ HasOnlyItsCorners(r, points)}

-----------------------------------------------------------------------------
Points(answer) == initialPoints \union {answer[i].p4 : i \in DOMAIN answer}
ExistingEdges(answer) == UNION {Edges(answer[i]) : i \in DOMAIN answer}
NewestPoint(answer) == answer[Len(answer)].p4

\* calcScore.
Weight(p) ==
  LET c == (N - 1) \div 2
  IN  (p[1] - c) * (p[1] - c) + (p[2] - c) * (p[2] - c) + 1

\* A slip: candidates that a later rectangle has overlapped are kept.
SanitizedByPoints(node) ==
  {r \in node.candidates : HasOnlyItsCorners(r, Points(node.answer))}

\* The candidates of its parent that are candidates still.
Sanitized(node) ==
  {r \in node.candidates : /\ ~IsOverlapped(r, ExistingEdges(node.answer))
                           /\ HasOnlyItsCorners(r, Points(node.answer))}

\* A slip: the newest point is tried as p2 alone.
AdditionalAroundNewest(node) ==
  {r \in CandidatesForAllPoints(Points(node.answer)) :
     r.p2 = NewestPoint(node.answer) /\ ~IsOverlapped(r, ExistingEdges(node.answer))}

\* Those that have the newest point for a corner.
Additional(node) ==
  {r \in CandidatesForAllPoints(Points(node.answer)) :
     /\ NewestPoint(node.answer) \in {r.p2} \union r.sides
     /\ ~IsOverlapped(r, ExistingEdges(node.answer))}

-----------------------------------------------------------------------------
\* The order of the ranking: a node goes behind all of the same score.
IsPlaceOf(node, k) ==
  /\ \A i \in 1 .. k - 1 : scoreRanking[i].score >= node.score
  /\ \A i \in k .. Len(scoreRanking) : scoreRanking[i].score < node.score

Inserted(node, k) ==
  SubSeq(scoreRanking, 1, k - 1) \o <<node>> \o SubSeq(scoreRanking, k, Len(scoreRanking))

Root ==
  [answer |-> << >>, score |-> 0, candidates |-> CandidatesForAllPoints(initialPoints), done |-> FALSE]

\* markAsDone also frees what a child would be made from.
Done(node) == [node EXCEPT !.candidates = {}, !.done = TRUE]

DrawingInit ==
  /\ initialPoints \in Instances
  /\ scoreRanking = << >> /\ exploredSpace = {}
  /\ parent = Root /\ untried = Root.candidates
  /\ printed = NotYet

Child(r) ==
  [answer |-> Append(parent.answer, r), score |-> parent.score + Weight(r.p4),
   candidates |-> parent.candidates \ {r}, done |-> FALSE]

\* createChildren meets the candidates in the order of a hash table, and drops
\* a child whose edges have been explored.
IsExplored(answer) == \E node \in exploredSpace : ExistingEdges(node.answer) = ExistingEdges(answer)

DropChild(r) ==
  /\ r \in untried /\ untried' = untried \ {r}
  /\ IsExplored(Child(r).answer)
  /\ UNCHANGED <<initialPoints, scoreRanking, exploredSpace, parent, printed>>

\* ... and not always: the hash of a set of edges is made from the first one in
\* the order of its own table, so that find may miss a set that is equal.
RankChild(r) ==
  /\ r \in untried /\ untried' = untried \ {r}
  /\ \E k \in 1 .. Len(scoreRanking) + 1 :
       IsPlaceOf(Child(r), k) /\ scoreRanking' = Inserted(Child(r), k)
  /\ UNCHANGED <<initialPoints, exploredSpace, parent, printed>>

MarkAsDone ==
  /\ ~parent.done /\ untried = {}
  /\ exploredSpace' = exploredSpace \union {[answer |-> parent.answer, score |-> parent.score]}
  /\ scoreRanking' = [k \in DOMAIN scoreRanking |->
                        IF scoreRanking[k].answer = parent.answer THEN Done(scoreRanking[k])
                        ELSE scoreRanking[k]]
  /\ parent' = Done(parent)
  /\ UNCHANGED <<initialPoints, untried, printed>>

\* findBestScoreNodeOrAnotherToProcess: the done nodes it passes are erased,
\* all but the first, which may be the best.
IsToProcess(k) == ~scoreRanking[k].done /\ \A i \in 1 .. k - 1 : scoreRanking[i].done

\* A slip: the first is erased too.
ErasedAll(k) == SubSeq(scoreRanking, k, Len(scoreRanking))

Erased(k) ==
  IF k > 1 THEN <<scoreRanking[1]>> \o SubSeq(scoreRanking, k, Len(scoreRanking))
  ELSE scoreRanking

ProcessOneNode ==
  /\ parent.done /\ printed = NotYet
  /\ \E k \in DOMAIN scoreRanking :
       LET node == scoreRanking[k]
           candidates == Sanitized(node) \union Additional(node)
       IN  /\ IsToProcess(k)
           /\ scoreRanking' = Erased(k)
           /\ parent' = [node EXCEPT !.candidates = candidates] /\ untried' = candidates
  /\ UNCHANGED <<initialPoints, exploredSpace, printed>>

\* main prints the first of the ranking when all nodes are done, or its second
\* is over.
PrintBestAnswer ==
  /\ parent.done /\ printed = NotYet
  /\ printed' = [made |-> TRUE,
                 answer |-> IF scoreRanking = << >> THEN << >> ELSE scoreRanking[1].answer]
  /\ UNCHANGED <<initialPoints, exploredSpace, parent, untried>>

AllDone == parent.done /\ \A k \in DOMAIN scoreRanking : scoreRanking[k].done

DoneAllNodes ==
  /\ AllDone
  /\ PrintBestAnswer
  /\ scoreRanking' = IF scoreRanking = << >> THEN << >> ELSE <<scoreRanking[1]>>

TimeIsUp == PrintBestAnswer /\ UNCHANGED scoreRanking

DrawingNext ==
  \/ \E r \in untried : DropChild(r) \/ RankChild(r)
  \/ MarkAsDone \/ ProcessOneNode \/ DoneAllNodes \/ TimeIsUp

DrawingSpec == DrawingInit /\ [][DrawingNext]_drawingVars

-----------------------------------------------------------------------------
(* Every answer of the ranking, and the one printed, can be drawn in its   *)
(* order, though a candidate is found when its corners are new and used    *)
(* many rectangles later, when other points and edges have come.           *)
MayBeDrawn(r, answer) ==
  /\ r.p2 \in Points(answer) /\ r.p4 \in Grid
  /\ \E p1, p3 \in Points(answer) : IsRightAngle(p1, r.p2, p3) /\ r = Rectangle(p1, r.p2, p3)
  /\ HasOnlyItsCorners(r, Points(answer))
  /\ ~IsOverlapped(r, ExistingEdges(answer))

CanBeDrawn(answer) ==
  \A i \in DOMAIN answer : MayBeDrawn(answer[i], SubSeq(answer, 1, i - 1))

AnswersCanBeDrawn ==
  /\ \A k \in DOMAIN scoreRanking : CanBeDrawn(scoreRanking[k].answer)
  /\ CanBeDrawn(printed.answer)

(* The best score never gets lost: the answer printed is at least as good  *)
(* as any that was ever first, whatever is erased or dropped meanwhile.    *)
BestScore == IF scoreRanking = << >> THEN 0 ELSE scoreRanking[1].score
BestIsNeverLost == [][BestScore' >= BestScore]_drawingVars

(* The search misses nothing but what it takes to be explored: once every  *)
(* node is done, whatever can be drawn after a drawing explored, which the *)
(* candidates inherited and those of the newest point must give together,  *)
(* has been explored itself, or another drawing of the same edges has. And *)
(* none of the drawings explored is better than the one printed.           *)
Drawable(answer) ==
  {r \in CandidatesForAllPoints(Points(answer)) : ~IsOverlapped(r, ExistingEdges(answer))}

MissesNothing ==
  AllDone =>
    /\ IsExplored(<< >>)
    /\ \A node \in exploredSpace : \A r \in Drawable(node.answer) : IsExplored(Append(node.answer, r))
    /\ \A node \in exploredSpace : node.score <= BestScore
=============================================================================
