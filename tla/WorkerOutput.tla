------------------------------ MODULE WorkerOutput ------------------------------
(***************************************************************************)
(* The action strings of src/ex/atcoder/hokudai-hitachi2022_a/main_A.cpp:  *)
(* makeActionStrings writes them for each schedule that WorkerScheduler    *)
(* makes, runForA prints one per worker and turn, and every worker does    *)
(* what its string says. What a worker does is the rules of the contest,   *)
(* not code of the program.                                                *)
(***************************************************************************)
EXTENDS WorkerScheduler, Sequences

(* A road is a route with no stop on the way.                              *)
Stops(u, v) == Route[u][v].vertices
IsRoad(u, v) == Stops(u, v) = <<u, v>>

(* The routes are those of RouteGraph: every part of one is the route to a *)
(* stop on the way, and from stop to stop there is a road.                 *)
ASSUME RouteAssumption ==
    \A u, v \in Vertices :
        /\ Stops(u, v) \in Seq(Vertices) \ {<<>>}
        /\ Stops(u, v)[1] = u /\ Stops(u, v)[Len(Stops(u, v))] = v
        /\ \A i \in 1 .. Len(Stops(u, v)) - 1 :
              LET from == Stops(u, v)[i]
                  to == Stops(u, v)[i + 1]
              IN  IsRoad(from, to) /\ from # to /\ Distance(u, to) = Distance(u, from) + Distance(from, to)

VARIABLES strings,   \* makeOutput1ForA's actionStrings
          written,   \* the slots makeActionStrings is done with, per worker
          leg,       \* the road of a move that is next, i of MoveAction::makeActionStrings
          turn,      \* t of runForA, from 1
          place,     \* where each worker is, and how far it has to go to there
          executed   \* the tasks each worker has executed of each job

outputVars == <<strings, written, leg, turn, place, executed>>

OutputInit ==
    /\ Init
    /\ strings = [w \in Workers |-> <<>>] /\ written = [w \in Workers |-> {}]
    /\ leg = [w \in Workers |-> 1]
    /\ turn = 1
    /\ place = [w \in Workers |-> [to |-> Home[w], left |-> 0]]
    /\ executed = [w \in Workers |-> [j \in Jobs |-> 0]]

---------------------------------------------------------------------------
(* Schedule::makeActionStrings, in the order of the start times.           *)
Planned == {w \in Workers : w \notin pending /\ w # worker}
AllWritten == \A w \in Planned : written[w] = slots[w]

NextToWrite(w, slot) ==
    /\ w \in Planned /\ ~aborted
    /\ slot \in slots[w] \ written[w]
    /\ \A s \in slots[w] \ written[w] : slot.start <= s.start

Repeat(n, string) == [i \in 1 .. n |-> string]
Write(w, new) == strings' = [strings EXCEPT ![w] = @ \o new]
Close(w, slot) == written' = [written EXCEPT ![w] = @ \cup {slot}]

WriteStay(w, slot) ==
    /\ NextToWrite(w, slot) /\ slot.act = "stay"
    /\ Write(w, Repeat(slot.end - slot.start, [act |-> "stay"]))
    /\ Close(w, slot)
    /\ UNCHANGED <<leg, turn, place, executed>>

(* A slip: the last string asks for a whole workload as well.              *)
TasksByWorkload(j, w, i) == Workload[w]

(* getTaskListToExecute: the workload, over and over, and what is left.    *)
Tasks(j, w, i) ==
    LET left == job[j].tasks - (i - 1) * Workload[w]
    IN  IF Workload[w] < left THEN Workload[w] ELSE left

WriteExecution(w, slot) ==
    /\ NextToWrite(w, slot) /\ slot.act \in Jobs
    /\ LET rounds == {i \in 1 .. job[slot.act].tasks : (i - 1) * Workload[w] < job[slot.act].tasks}
       IN  Write(w, [i \in rounds |->
                    [act |-> "execute", job |-> slot.act, tasks |-> Tasks(slot.act, w, i)]])
    /\ Close(w, slot)
    /\ UNCHANGED <<leg, turn, place, executed>>

(* A road of the route: a string for every unit of its length ...          *)
WriteRoad(w, slot) ==
    /\ NextToWrite(w, slot) /\ slot.act = "move"
    /\ LET stops == Stops(slot.from, slot.to)
       IN  /\ leg[w] < Len(stops)
           /\ Write(w, Repeat(Distance(stops[leg[w]], stops[leg[w] + 1]),
                              [act |-> "move", to |-> stops[leg[w] + 1]]))
    /\ leg' = [leg EXCEPT ![w] = @ + 1]
    /\ UNCHANGED <<written, turn, place, executed>>

(* ... and the end of the route.                                           *)
EndMove(w, slot) ==
    /\ NextToWrite(w, slot) /\ slot.act = "move"
    /\ leg[w] = Len(Stops(slot.from, slot.to))
    /\ leg' = [leg EXCEPT ![w] = 1] /\ Close(w, slot)
    /\ UNCHANGED <<strings, turn, place, executed>>

---------------------------------------------------------------------------
(* What a worker does: it begins a road only when it has come to the end   *)
(* of another.                                                             *)
After(p, s) ==
    IF s.act # "move" THEN p
    ELSE IF p.left > 0 THEN [p EXCEPT !.left = @ - 1]
    ELSE [to |-> s.to, left |-> Distance(p.to, s.to) - 1]

ExecutedBy(s, j) == IF s.act = "execute" /\ s.job = j THEN s.tasks ELSE 0

(* A turn of runForA's loop, if every worker has a string for it.          *)
Turn ==
    /\ Done /\ ~aborted /\ AllWritten
    /\ turn <= Tmax /\ \A w \in Workers : turn \in DOMAIN strings[w]
    /\ turn' = turn + 1
    /\ place' = [w \in Workers |-> After(place[w], strings[w][turn])]
    /\ executed' = [w \in Workers |-> [j \in Jobs |->
                        executed[w][j] + ExecutedBy(strings[w][turn], j)]]
    /\ UNCHANGED <<strings, written, leg>>

DayIsOver == Done /\ AllWritten /\ turn = Tmax + 1

(* The strings of a schedule are written before the next one is begun.     *)
Plan == AllWritten /\ Next /\ UNCHANGED outputVars
WriteStrings ==
    /\ \E w \in Workers : \E slot \in slots[w] :
          WriteStay(w, slot) \/ WriteExecution(w, slot) \/ WriteRoad(w, slot) \/ EndMove(w, slot)
    /\ UNCHANGED vars
FollowStrings == Turn /\ UNCHANGED vars
Finished == DayIsOver /\ UNCHANGED <<vars, outputVars>>

OutputNext == Plan \/ WriteStrings \/ FollowStrings \/ Finished

(* One thread runs the program to its end.                                 *)
OutputSpec == OutputInit /\ [][OutputNext]_<<vars, outputVars>> /\ WF_<<vars, outputVars>>(OutputNext)

---------------------------------------------------------------------------
(* runForA reads a string of every worker for every turn up to Tmax (line  *)
(* 1555) and nothing tests that there is one. There is, and the strings    *)
(* can be followed: a worker moves along roads and comes to the end of     *)
(* each, executes a job only at its vertex, within its time and its own    *)
(* workload; and each job is executed to its last task by one worker, or   *)
(* not at all.                                                             *)
CanMove(p, s) == IF p.left > 0 THEN s.to = p.to ELSE IsRoad(p.to, s.to)

CanExecute(w, p, s) ==
    /\ p.left = 0 /\ p.to = job[s.job].vertex
    /\ job[s.job].opens <= turn /\ turn < job[s.job].closes
    /\ 1 <= s.tasks /\ s.tasks <= Workload[w]
    /\ job[s.job].type \in Types[w] /\ ~job[s.job].prior

CanFollow(w, p, s) ==
    CASE s.act = "move" -> CanMove(p, s)
      [] s.act = "stay" -> p.left = 0
      [] s.act = "execute" -> CanExecute(w, p, s)

ExecutedOnce(j) ==
    LET by == {w \in Workers : executed[w][j] > 0}
    IN  /\ by # {} <=> j \in reserved
        /\ \A w \in by : by = {w} /\ executed[w][j] = job[j].tasks

ScriptsCanBeFollowed ==
    Done /\ AllWritten =>
        /\ \A w \in Workers : Len(strings[w]) = Tmax
        /\ turn <= Tmax => \A w \in Workers : CanFollow(w, place[w], strings[w][turn])
        /\ turn = Tmax + 1 => \A j \in Jobs : ExecutedOnce(j)

(* The turns of runForA are turns of a day as the contest has it, in which *)
(* a job, once begun, is one worker's own, never executed beyond its last  *)
(* task and not left half done at the end; planning and writing are no     *)
(* part of the day.                                                        *)
RoadLengths == {<<u, v, Distance(u, v)>> : u \in Vertices, v \in Vertices}
Contest == INSTANCE ContestDay WITH
    Roads <- {road \in RoadLengths : IsRoad(road[1], road[2])}
ImplementsContestDay == Contest!Spec

(* Every worker gets its schedule and the day comes to its end.            *)
EveryDayEnds == <>DayIsOver
=============================================================================
