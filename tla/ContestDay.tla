-------------------------------- MODULE ContestDay --------------------------------
(***************************************************************************)
(* What the workers of src/ex/atcoder/hokudai-hitachi2022_a may do in a    *)
(* day, whoever plans it: the rules of the contest, which runForA's output *)
(* has to keep, and two things more that the planner promises by reserving *)
(* a job for one worker: workers do not share a job, and leave none half   *)
(* done.                                                                   *)
(***************************************************************************)
EXTENDS Integers

CONSTANTS Workers, Jobs, Tmax, Home, Workload, Types, JobLists,
          Roads  \* <<from, to, length>>

VARIABLES job,      \* the jobs of the day
          turn,     \* from 1 to Tmax + 1, when the day is over
          place,    \* where a worker is going, and how far it has to go
          executed  \* the tasks each worker has executed of each job

vars == <<job, turn, place, executed>>

Init ==
    /\ job \in JobLists
    /\ turn = 1
    /\ place = [w \in Workers |-> [to |-> Home[w], left |-> 0]]
    /\ executed = [w \in Workers |-> [j \in Jobs |-> 0]]

HasArrived(w) == place[w].left = 0
ExecutesNothing(w) == executed'[w] = executed[w]

Stays(w) == HasArrived(w) /\ place'[w] = place[w] /\ ExecutesNothing(w)

(* A road is driven to its end, a unit of it in a turn.                    *)
SetsOut(w) ==
    /\ HasArrived(w)
    /\ \E road \in Roads : /\ road[1] = place[w].to
                           /\ place'[w] = [to |-> road[2], left |-> road[3] - 1]
    /\ ExecutesNothing(w)

DrivesOn(w) ==
    /\ ~HasArrived(w)
    /\ place'[w] = [place[w] EXCEPT !.left = @ - 1]
    /\ ExecutesNothing(w)

(* A job is executed at its vertex, while it is open, as far as the worker *)
(* is able and there are tasks left; and by nobody else.                   *)
Executes(w, j) ==
    /\ HasArrived(w) /\ place[w].to = job[j].vertex /\ place'[w] = place[w]
    /\ job[j].opens <= turn /\ turn < job[j].closes
    /\ job[j].type \in Types[w] /\ ~job[j].prior
    /\ \E n \in 1 .. Workload[w] : /\ executed[w][j] + n <= job[j].tasks
                                   /\ executed'[w] = [executed[w] EXCEPT ![j] = @ + n]
    /\ \A v \in Workers \ {w} : executed'[v][j] = 0

IsWhole(w, j) == executed'[w][j] \in {0, job[j].tasks}

Turn ==
    /\ turn <= Tmax /\ turn' = turn + 1
    /\ DOMAIN place' = Workers /\ DOMAIN executed' = Workers
    /\ \A w \in Workers : Stays(w) \/ SetsOut(w) \/ DrivesOn(w) \/ \E j \in Jobs : Executes(w, j)
    /\ turn = Tmax => \A w \in Workers, j \in Jobs : IsWhole(w, j)
    /\ UNCHANGED job

Spec == Init /\ [][Turn]_vars
=============================================================================
