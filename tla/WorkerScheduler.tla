----------------------------- MODULE WorkerScheduler -----------------------------
(***************************************************************************)
(* The planner of src/ex/atcoder/hokudai-hitachi2022_a/main_A.cpp, problem *)
(* A: every worker in turn takes jobs greedily as long as one fits, and    *)
(* the gaps of its schedule are then filled with moves and stays. The      *)
(* rating that ranks the jobs that fit is left open: any of them may be    *)
(* the best.                                                               *)
(*                                                                         *)
(* Route is the table RouteGraph answers from.                             *)
(***************************************************************************)
EXTENDS Integers

CONSTANTS Workers, Jobs, Vertices, Tmax, Route,
          Home,      \* Worker._initialVertex
          Workload,  \* Worker._workload
          Types,     \* Worker._jobTypes
          JobLists   \* what JobAdmin may be given: functions on Jobs

CONSTANTS VertexNone, Nobody

Distance(u, v) == Route[u][v].distance

ASSUME PlannerAssumption ==
    /\ Tmax \in Nat \ {0}
    /\ VertexNone \notin Vertices /\ Nobody \notin Workers
    /\ Jobs \cap {"move", "stay", "none"} = {}
    /\ Home \in [Workers -> Vertices] /\ Workload \in [Workers -> Nat \ {0}]
    /\ \A u, v \in Vertices : Distance(u, v) \in Nat /\ (Distance(u, v) = 0 <=> u = v)
    /\ \A list \in JobLists : \A j \in Jobs :
          /\ list[j].tasks \in Nat \ {0} /\ list[j].vertex \in Vertices
          /\ list[j].opens \in Int /\ list[j].closes \in Int

VARIABLES job,       \* JobAdmin._job
          reserved,  \* the jobs whose _reserved is set
          pending,   \* the workers makeOutput1ForA has not come to
          worker,    \* the one it is at
          phase,     \* where makeSchedule is
          now, at,   \* currentTime and currentVertex of makeGreedySchedule
          slots,     \* Schedule._timeSlots, per worker
          aborted    \* an assert has failed

vars == <<job, reserved, pending, worker, phase, now, at, slots, aborted>>

Init ==
    /\ job \in JobLists
    /\ reserved = {} /\ pending = Workers /\ worker = Nobody /\ phase = "sort"
    /\ now = 1 /\ at = VertexNone
    /\ slots = [w \in Workers |-> {}]
    /\ aborted = FALSE

---------------------------------------------------------------------------
(* Job.                                                                    *)
ExecutionTime(j, w) == (job[j].tasks + Workload[w] - 1) \div Workload[w]

(* getExpectedReward is not 0: job.pays holds the times at which the       *)
(* reward function is positive.                                            *)
Rewards(j, w, start) ==
    LET end == start + ExecutionTime(j, w)
    IN  job[j].opens <= start /\ end <= job[j].closes /\ \E t \in start .. end - 1 : t \in job[j].pays

Open(w) == {j \in Jobs : job[j].type \in Types[w] /\ ~job[j].prior}

(* A slip: the way to a job is left out of the time it needs.              *)
CanMoveAndExecuteLate(j, w) ==
    LET travel == Distance(at, job[j].vertex)
    IN  /\ now < job[j].closes
        /\ ExecutionTime(j, w) <= Tmax + 1 - now
        /\ Rewards(j, w, now + travel)

CanMoveAndExecute(j, w) ==
    LET travel == Distance(at, job[j].vertex)
    IN  /\ now < job[j].closes
        /\ travel + ExecutionTime(j, w) <= Tmax + 1 - now
        /\ Rewards(j, w, now + travel)

---------------------------------------------------------------------------
(* TimeSlot and Schedule. The slots are ordered and do not overlap, so     *)
(* comparing a new one with its neighbours is comparing it with all.       *)
Slot(start, length, from, to, act) ==
    [start |-> start, end |-> start + length, from |-> from, to |-> to, act |-> act]

Fits(slot, others) ==
    /\ slot.start < slot.end
    /\ \A s \in others : s.end <= slot.start \/ slot.end <= s.start

(* operator+= for each slot of new in turn.                                *)
Assign(w, new) ==
    IF \A slot \in new : Fits(slot, (slots[w] \cup new) \ {slot})
    THEN slots' = [slots EXCEPT ![w] = @ \cup new] /\ UNCHANGED aborted
    ELSE aborted' = TRUE /\ UNCHANGED slots

(* getBlankTimeSlots: from the start of the day or the end of a slot to    *)
(* the slot that comes next, or to the end of the day.                     *)
Blanks(w) ==
    LET Past == {[end |-> 1, to |-> Home[w]]} \cup {[end |-> s.end, to |-> s.to] : s \in slots[w]}
        Later(p) == {s \in slots[w] : p.end <= s.start}
        NextOf(p) == {s \in Later(p) : \A t \in Later(p) : s.start <= t.start}
    IN  UNION {IF Later(p) = {}
               THEN {Slot(p.end, Tmax + 1 - p.end, p.to, VertexNone, "none")}
               ELSE {Slot(p.end, s.start - p.end, p.to, s.from, "none") : s \in NextOf(p)} : p \in Past}

NonEmpty(blanks) == {b \in blanks : b.start < b.end}

MoveIn(blank) == Slot(blank.start, Distance(blank.from, blank.to), blank.from, blank.to, "move")
StayIn(blank) == Slot(blank.start, blank.end - blank.start, blank.from, blank.from, "stay")

---------------------------------------------------------------------------
(* makeOutput1ForA comes to the next worker, of those with most workload.  *)
BeginSchedule(w) ==
    /\ phase = "sort" /\ w \in pending /\ ~aborted
    /\ \A v \in pending : Workload[v] <= Workload[w]
    /\ worker' = w /\ pending' = pending \ {w} /\ phase' = "greedy"
    /\ now' = 1 /\ at' = Home[w]
    /\ UNCHANGED <<job, reserved, slots, aborted>>

(* A slip: currentTime goes on by the execution alone, not by the way.     *)
TakeJobForgettingTheWay(w, j) ==
    /\ phase = "greedy" /\ worker = w /\ ~aborted
    /\ j \in Open(w) \ reserved
    /\ CanMoveAndExecute(j, w)
    /\ LET slot == Slot(now + Distance(at, job[j].vertex), ExecutionTime(j, w),
                        job[j].vertex, job[j].vertex, j)
       IN  /\ Assign(w, {slot})
           /\ now' = now + ExecutionTime(j, w) /\ at' = slot.to
    /\ reserved' = reserved \cup {j}
    /\ UNCHANGED <<job, pending, worker, phase>>

(* One turn of makeGreedySchedule's loop: the job is reserved by the test. *)
TakeJob(w, j) ==
    /\ phase = "greedy" /\ worker = w /\ ~aborted
    /\ j \in Open(w) \ reserved
    /\ CanMoveAndExecute(j, w)
    /\ LET slot == Slot(now + Distance(at, job[j].vertex), ExecutionTime(j, w),
                        job[j].vertex, job[j].vertex, j)
       IN  /\ Assign(w, {slot})
           /\ now' = slot.end /\ at' = slot.to
    /\ reserved' = reserved \cup {j}
    /\ UNCHANGED <<job, pending, worker, phase>>

(* A slip: the loop ends when every job is reserved, fit or not.           *)
NoJobLeftToReserve(w) ==
    /\ phase = "greedy" /\ worker = w /\ ~aborted
    /\ Open(w) \subseteq reserved
    /\ phase' = "move"
    /\ UNCHANGED <<job, reserved, pending, worker, now, at, slots, aborted>>

(* ... and its end: nothing fits.                                          *)
NoJobLeft(w) ==
    /\ phase = "greedy" /\ worker = w /\ ~aborted
    /\ \A j \in Open(w) \ reserved : ~CanMoveAndExecute(j, w)
    /\ phase' = "move"
    /\ UNCHANGED <<job, reserved, pending, worker, now, at, slots, aborted>>

(* fillNecessaryMoveInAllBlankTimeSlots                                    *)
FillMoves(w) ==
    /\ phase = "move" /\ worker = w /\ ~aborted
    /\ Assign(w, {MoveIn(b) : b \in {b \in NonEmpty(Blanks(w)) : b.to \notin {b.from, VertexNone}}})
    /\ phase' = "stay"
    /\ UNCHANGED <<job, reserved, pending, worker, now, at>>

(* fillStayInAllBlankTimeSlots                                             *)
FillStays(w) ==
    /\ phase = "stay" /\ worker = w /\ ~aborted
    /\ Assign(w, {StayIn(b) : b \in NonEmpty(Blanks(w))})
    /\ phase' = "sort" /\ worker' = Nobody
    /\ UNCHANGED <<job, reserved, pending, now, at>>

(* Every worker has its schedule.                                          *)
Done == phase = "sort" /\ pending = {}

Next == \E w \in Workers : \/ BeginSchedule(w)
                           \/ \E j \in Jobs : TakeJob(w, j)
                           \/ NoJobLeft(w)
                           \/ FillMoves(w)
                           \/ FillStays(w)

Spec == Init /\ [][Next]_vars

---------------------------------------------------------------------------
(* The asserts of TimeSlot (line 850), of Schedule::assignTimeSlot (940,   *)
(* 951, 959) hold: what the planner assigns is neither empty nor overlaps. *)
NoAssertFails == ~aborted
=============================================================================
