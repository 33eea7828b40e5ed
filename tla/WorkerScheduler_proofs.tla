------------------------- MODULE WorkerScheduler_proofs -------------------------
(* The asserts of the planner hold, and the strings it writes can be       *)
(* followed, for any workers, jobs, routes and Tmax. The first part is     *)
(* about the planner alone (IInv); the second says what its slots stand    *)
(* for (PlanInv), the third what the strings say (WritingInv), the fourth  *)
(* where that leads a worker (FollowInv), and the last that the workers    *)
(* keep to a day of the contest (ImplementsContestDay).                    *)
EXTENDS WorkerOutput, FiniteSetTheorems, SequenceTheorems, TLAPS

Day == [start : Nat, end : Nat, from : Vertices, to : Vertices, act : Jobs \cup {"move", "stay"}]

(* What Assign asks of a set of slots, taken together.                     *)
Separate(S) == \A s, t \in S : s = t \/ s.end <= t.start \/ t.end <= s.start
WellFormed(S) == S \subseteq Day /\ Separate(S) /\ \A s \in S : 1 <= s.start /\ s.start < s.end

TypeOK ==
    /\ job \in JobLists /\ reserved \subseteq Jobs /\ pending \subseteq Workers
    /\ worker \in Workers \cup {Nobody}
    /\ phase \in {"sort", "greedy", "move", "stay"}
    /\ now \in Nat /\ now >= 1
    /\ DOMAIN slots = Workers
    /\ aborted \in BOOLEAN

(* The ends of a schedule's parts: its home in the morning and its slots.  *)
Past(w) == {[end |-> 1, to |-> Home[w]]} \cup {[end |-> s.end, to |-> s.to] : s \in slots[w]}

(* While the greedy loop runs, all slots lie before now and the last one   *)
(* ends at it, at the current vertex.                                      *)
GreedyIsLast ==
    phase = "greedy" =>
        /\ worker \in Workers /\ at \in Vertices
        /\ [end |-> now, to |-> at] \in Past(worker)
        /\ \A p \in Past(worker) : p.end < now \/ (p.end = now /\ p.to = at)

(* Until the moves are filled in, there is time to drive from every part   *)
(* of the schedule to the one that comes next.                             *)
TimeToDrive(w) ==
    \A p \in Past(w), s \in slots[w] :
        p.end <= s.start =>
            \/ p.end + Distance(p.to, s.from) <= s.start
            \/ \E m \in slots[w] : p.end <= m.start /\ m.end <= s.start

(* Once the moves are filled in, what comes next starts where a part of    *)
(* the schedule has ended, if not when.                                    *)
Joined(w) ==
    \A p \in Past(w), s \in slots[w] :
        p.end <= s.start =>
            \/ p.to = s.from
            \/ \E m \in slots[w] : p.end <= m.start /\ m.end <= s.start

(* Once the stays are, it starts there and then, up to the end of the day. *)
Tiled(w) ==
    \A p \in Past(w) :
        \/ p.end = Tmax + 1
        \/ \E s \in slots[w] : s.start = p.end /\ s.from = p.to

WithinTheDay == \A w \in Workers : \A p \in Past(w) : p.end <= Tmax + 1

IInv ==
    /\ TypeOK
    /\ NoAssertFails
    /\ IF phase = "sort" THEN worker = Nobody ELSE worker \in Workers /\ worker \notin pending
    /\ \A w \in pending : slots[w] = {}
    /\ \A w \in Workers : WellFormed(slots[w])
    /\ GreedyIsLast
    /\ phase \in {"greedy", "move"} => TimeToDrive(worker)
    /\ WithinTheDay
    /\ phase = "stay" => Joined(worker)
    /\ \A w \in Planned : Tiled(w)

(* A set of natural numbers has a least one: of the intervals from 0 to    *)
(* one of them, some interval contains no other.                           *)
LEMMA LeastExists ==
    ASSUME NEW T, T \subseteq Nat, T # {}
    PROVE  \E x \in T : \A y \in T : x <= y
<1> DEFINE UpTo == {0 .. x : x \in T}
<1>1. UpTo \subseteq FiniteSubsetsOf(Nat) /\ UpTo # {}
  <2>1. ASSUME NEW x \in T PROVE 0 .. x \in FiniteSubsetsOf(Nat)
    <3>1. IsFiniteSet(0 .. x)
      BY FS_Interval
    <3>2. 0 .. x \in SUBSET Nat
      OBVIOUS
    <3> QED  BY <3>1, <3>2 DEF FiniteSubsetsOf
  <2> QED  BY <2>1
<1>2. IsWellFoundedOn(StrictSubsetOrdering(Nat), FiniteSubsetsOf(Nat))
  BY FS_StrictSubsetOrderingWellFounded
<1> HIDE DEF UpTo
<1>3. PICK X \in UpTo : \A Y \in UpTo : ~(<<Y, X>> \in StrictSubsetOrdering(Nat))
  BY <1>1, <1>2, WFMin
<1>4. PICK x \in T : X = 0 .. x
  BY DEF UpTo
<1>5. ASSUME NEW y \in T, y < x PROVE FALSE
  <2>1. 0 .. y \in UpTo
    BY DEF UpTo
  <2>2. x \in X /\ x \notin 0 .. y /\ 0 .. y \subseteq X
    BY <1>4, <1>5
  <2>3. 0 .. y \in SUBSET Nat /\ X \in SUBSET Nat
    BY <1>4
  <2>4. <<0 .. y, X>> \in StrictSubsetOrdering(Nat)
    BY <2>2, <2>3 DEF StrictSubsetOrdering
  <2> QED  BY <2>1, <2>4, <1>3
<1> QED  BY <1>5

LEMMA ExecutionTakesTime ==
    ASSUME NEW list \in JobLists, NEW j \in Jobs, NEW w \in Workers
    PROVE  (list[j].tasks + Workload[w] - 1) \div Workload[w] \in Nat \ {0}
<1>1. list[j].tasks \in Nat \ {0} /\ Workload[w] \in Nat \ {0}
  BY PlannerAssumption
<1> DEFINE n == list[j].tasks
           l == Workload[w]
<1>2. n \in Nat \ {0} /\ l \in Nat \ {0}
  BY <1>1
<1> HIDE DEF n, l
<1>3. (n + l - 1) \div l \in Nat \ {0}
  BY <1>2
<1> QED  BY <1>3 DEF n, l

(* Slots that fit make a schedule that is still well formed, and Assign    *)
(* does not fail.                                                          *)
LEMMA AssignFits ==
    ASSUME NEW w \in Workers, DOMAIN slots = Workers, WellFormed(slots[w]),
           NEW new, new \subseteq Day, \A s \in new : 1 <= s.start,
           \A s \in new : Fits(s, (slots[w] \cup new) \ {s}),
           Assign(w, new)
    PROVE  /\ slots'[w] = slots[w] \cup new
           /\ DOMAIN slots' = Workers
           /\ \A v \in Workers \ {w} : slots'[v] = slots[v]
           /\ aborted' = aborted
           /\ WellFormed(slots'[w])
<1>1. /\ slots' = [slots EXCEPT ![w] = slots[w] \cup new] /\ aborted' = aborted
  BY DEF Assign
<1>2. /\ slots'[w] = slots[w] \cup new /\ DOMAIN slots' = Workers
      /\ \A v \in Workers \ {w} : slots'[v] = slots[v]
  BY <1>1
<1>3. \A s \in slots[w] \cup new : s \in Day /\ 1 <= s.start /\ s.start < s.end
  BY DEF WellFormed, Fits
<1>4. ASSUME NEW s \in slots[w] \cup new, NEW t \in slots[w] \cup new, s # t
      PROVE  s.end <= t.start \/ t.end <= s.start
  <2>1. CASE s \in new
    BY <1>4, <2>1 DEF Fits
  <2>2. CASE t \in new
    BY <1>4, <2>2 DEF Fits
  <2>3. CASE s \in slots[w] /\ t \in slots[w]
    BY <1>4, <2>3 DEF WellFormed, Separate
  <2> QED  BY <2>1, <2>2, <2>3
<1> QED  BY <1>1, <1>2, <1>3, <1>4 DEF WellFormed, Separate

(* A slot ends within the day.                                             *)
LEMMA EndInPast ==
    ASSUME WithinTheDay, NEW w \in Workers, NEW s \in slots[w]
    PROVE  s.end <= Tmax + 1
<1> DEFINE p == [end |-> s.end, to |-> s.to]
<1>1. p \in Past(w)
  BY DEF Past
<1>2. p.end = s.end
  OBVIOUS
<1> QED  BY <1>1, <1>2 DEF WithinTheDay

(* The schedules of the workers that a step leaves alone stay as they are. *)
LEMMA OthersKeep ==
    ASSUME NEW w \in Workers, \A v \in Workers \ {w} : slots'[v] = slots[v],
           WithinTheDay, \A p \in Past(w)' : p.end <= Tmax + 1,
           \A v \in Planned : Tiled(v),
           \A v \in Planned' \ {w} : v \in Planned
    PROVE  WithinTheDay' /\ \A v \in Planned' \ {w} : Tiled(v)'
<1>1. \A v \in Workers \ {w} : Past(v)' = Past(v)
  BY DEF Past
<1>2. WithinTheDay'
  BY <1>1 DEF WithinTheDay
<1>3. \A v \in Planned' \ {w} : v \in Workers
  BY DEF Planned
<1>4. \A v \in Planned' \ {w} : Tiled(v)'
  BY <1>1, <1>3 DEF Tiled
<1> QED  BY <1>2, <1>4

LEMMA InitIInv == Init => IInv
<1> SUFFICES ASSUME Init PROVE IInv
  OBVIOUS
<1>1. phase = "sort" /\ NoAssertFails /\ DOMAIN slots = Workers /\ \A w \in Workers : slots[w] = {}
  BY DEF Init, NoAssertFails
<1>0. TypeOK
  <2>1. now \in Nat /\ now >= 1
    BY DEF Init
  <2>2. /\ job \in JobLists /\ reserved \subseteq Jobs /\ pending \subseteq Workers
        /\ worker \in Workers \cup {Nobody} /\ aborted \in BOOLEAN
    BY DEF Init
  <2> QED  BY <1>1, <2>1, <2>2 DEF TypeOK
<1>2. WellFormed({})
  BY DEF WellFormed, Separate
<1>3. worker = Nobody /\ Planned = {}
  BY DEF Init, Planned
<1>4. WithinTheDay
  <2>1. \A w \in Workers : Past(w) = {[end |-> 1, to |-> Home[w]]}
    BY <1>1 DEF Past
  <2>2. 1 <= Tmax + 1
    BY PlannerAssumption
  <2> QED  BY <2>1, <2>2 DEF WithinTheDay
<1> QED  BY <1>0, <1>1, <1>2, <1>3, <1>4 DEF IInv, GreedyIsLast, TypeOK

(***************************************************************************)
(* One lemma per action.                                                   *)
(***************************************************************************)
LEMMA BeginIInv == ASSUME IInv, NEW w \in Workers, BeginSchedule(w) PROVE IInv'
<1>1. /\ phase = "sort" /\ phase' = "greedy"
      /\ worker' = w /\ w \in pending /\ pending' = pending \ {w}
      /\ now' = 1 /\ at' = Home[w] /\ UNCHANGED <<job, reserved, slots, aborted>>
  BY DEF BeginSchedule
<1>2. slots'[w] = {} /\ Past(w)' = {[end |-> 1, to |-> Home[w]]}
  BY <1>1 DEF IInv, Past
<1>3. TypeOK' /\ NoAssertFails'
  BY <1>1 DEF IInv, TypeOK, NoAssertFails
<1>4. GreedyIsLast'
  <2>1. Home[w] \in Vertices
    BY PlannerAssumption
  <2> QED  BY <1>1, <1>2, <2>1 DEF GreedyIsLast, Past
<1>5. TimeToDrive(worker)'
  BY <1>1, <1>2 DEF TimeToDrive
<1>6. \A v \in Workers : WellFormed(slots'[v])
  BY <1>1 DEF IInv
<1>7. WithinTheDay' /\ \A v \in Planned' : Tiled(v)'
  <2>1. worker = Nobody /\ WithinTheDay /\ \A v \in Planned : Tiled(v)
    BY <1>1 DEF IInv
  <2>2. \A v \in Planned' : v # w /\ v \in Planned
    BY <1>1, <2>1, PlannerAssumption DEF Planned
  <2>3. \A p \in Past(w)' : p.end <= Tmax + 1
    BY <1>2, PlannerAssumption
  <2> QED  BY <1>1, <2>1, <2>2, <2>3, OthersKeep
<1> QED  BY <1>1, <1>3, <1>4, <1>5, <1>6, <1>7 DEF IInv, TypeOK

LEMMA TakeIInv == ASSUME IInv, NEW w \in Workers, NEW j \in Jobs, TakeJob(w, j) PROVE IInv'
<1> DEFINE travel == Distance(at, job[j].vertex)
           slot == Slot(now + travel, ExecutionTime(j, w), job[j].vertex, job[j].vertex, j)
<1>1. /\ phase = "greedy" /\ phase' = "greedy" /\ worker = w /\ worker' = w /\ pending' = pending
      /\ Assign(w, {slot}) /\ now' = slot.end /\ at' = slot.to
      /\ reserved' = reserved \cup {j} /\ job' = job
      /\ travel + ExecutionTime(j, w) <= Tmax + 1 - now
  BY DEF TakeJob, CanMoveAndExecute
<1>2. /\ job \in JobLists /\ now \in Nat /\ now >= 1 /\ DOMAIN slots = Workers
      /\ WellFormed(slots[w]) /\ w \notin pending /\ aborted = FALSE
      /\ at \in Vertices /\ [end |-> now, to |-> at] \in Past(w)
      /\ \A p \in Past(w) : p.end < now \/ (p.end = now /\ p.to = at)
      /\ TimeToDrive(w)
  BY <1>1 DEF IInv, TypeOK, GreedyIsLast, NoAssertFails
<1>3. job[j].vertex \in Vertices /\ travel \in Nat /\ ExecutionTime(j, w) \in Nat \ {0}
  BY <1>2, PlannerAssumption, ExecutionTakesTime DEF ExecutionTime
<1> HIDE DEF travel
<1>4. /\ slot \in Day /\ slot.start = now + travel /\ slot.end = slot.start + ExecutionTime(j, w)
      /\ slot.from = job[j].vertex /\ slot.to = job[j].vertex
      /\ slot.start \in Nat /\ slot.end \in Nat
      /\ now <= slot.start /\ slot.start < slot.end
  BY <1>2, <1>3 DEF Slot, Day
<1> HIDE DEF slot
<1>5. \A s \in slots[w] : s.end <= now /\ s.end \in Nat /\ s.start \in Nat /\ s.start < s.end
                          /\ 1 <= s.start /\ s.to \in Vertices
  <2> SUFFICES ASSUME NEW s \in slots[w]
               PROVE  s.end <= now /\ s.end \in Nat /\ s.start \in Nat /\ s.start < s.end
                      /\ 1 <= s.start /\ s.to \in Vertices
    OBVIOUS
  <2>1. [end |-> s.end, to |-> s.to] \in Past(w)
    BY DEF Past
  <2>2. s \in Day /\ 1 <= s.start /\ s.start < s.end
    BY <1>2 DEF WellFormed
  <2>3. s.end \in Nat /\ s.start \in Nat /\ s.to \in Vertices
    BY <2>2 DEF Day
  <2>4. s.end < now \/ s.end = now
    BY <1>2, <2>1
  <2> QED  BY <1>2, <2>2, <2>3, <2>4
<1>6. \A t \in {slot} : Fits(t, (slots[w] \cup {slot}) \ {t})
  BY <1>2, <1>4, <1>5 DEF Fits
<1>7. /\ slots'[w] = slots[w] \cup {slot}
      /\ DOMAIN slots' = Workers
      /\ \A v \in Workers \ {w} : slots'[v] = slots[v]
      /\ aborted' = aborted
      /\ WellFormed(slots'[w])
  <2>1. {slot} \subseteq Day /\ \A t \in {slot} : 1 <= t.start
    BY <1>2, <1>4
  <2> QED  BY <1>1, <1>2, <1>6, <2>1, AssignFits
<1>8. Past(w)' = Past(w) \cup {[end |-> slot.end, to |-> slot.to]}
  BY <1>7 DEF Past
<1>9. \A p \in Past(w) : p.end \in Nat /\ p.end <= now
  <2> SUFFICES ASSUME NEW p \in Past(w) PROVE p.end \in Nat /\ p.end <= now
    OBVIOUS
  <2>1. CASE p = [end |-> 1, to |-> Home[w]]
    BY <1>2, <2>1
  <2>2. CASE \E s \in slots[w] : p = [end |-> s.end, to |-> s.to]
    BY <1>5, <2>2
  <2> QED  BY <2>1, <2>2 DEF Past
<1>10. GreedyIsLast'
  <2>1. at' \in Vertices /\ [end |-> now', to |-> at'] \in Past(w)'
    BY <1>1, <1>3, <1>4, <1>8
  <2>2. ASSUME NEW p \in Past(w)'
        PROVE  p.end < now' \/ (p.end = now' /\ p.to = at')
    <3>1. CASE p \in Past(w)
      BY <3>1, <1>1, <1>2, <1>4, <1>9
    <3>2. CASE p = [end |-> slot.end, to |-> slot.to]
      BY <3>2, <1>1
    <3> QED  BY <2>2, <3>1, <3>2, <1>8
  <2> QED  BY <1>1, <2>1, <2>2 DEF GreedyIsLast
<1>11. TimeToDrive(w)'
  <2> SUFFICES ASSUME NEW p \in Past(w)', NEW s \in slots'[w], p.end <= s.start
               PROVE  \/ p.end + Distance(p.to, s.from) <= s.start
                      \/ \E m \in slots'[w] : p.end <= m.start /\ m.end <= s.start
    BY DEF TimeToDrive
  <2>1. CASE p \in Past(w) /\ s \in slots[w]
    BY <2>1, <1>2, <1>7 DEF TimeToDrive
  <2>2. CASE p \in Past(w) /\ s = slot
    <3>1. CASE p.end = now /\ p.to = at
      <4>1. p.end + Distance(p.to, s.from) = s.start
        BY <2>2, <3>1, <1>4 DEF travel
      <4> QED  BY <4>1, <1>4, <2>2
    <3>2. CASE p.end < now
      <4>1. now # 1
        BY <3>2, <1>2, <1>9, <2>2, <1>5 DEF Past
      <4>2. PICK m \in slots[w] : m.end = now
        BY <1>2, <4>1 DEF Past
      <4>3. p.end <= m.start
        <5>1. CASE p = [end |-> 1, to |-> Home[w]]
          BY <5>1, <1>5
        <5>2. ASSUME NEW x \in slots[w], p = [end |-> x.end, to |-> x.to] PROVE p.end <= m.start
          <6>0. p.end = x.end
            BY <5>2
          <6>1. x # m
            BY <6>0, <3>2, <4>2, <1>2
          <6>2. x.end <= m.start \/ m.end <= x.start
            BY <6>1, <1>2 DEF WellFormed, Separate
          <6>3. x.end < now
            BY <5>2, <3>2
          <6> QED  BY <5>2, <6>2, <6>3, <4>2, <1>5, <1>2
        <5> QED  BY <5>1, <5>2, <2>2 DEF Past
      <4> QED  BY <4>2, <4>3, <1>4, <1>7, <2>2
    <3> QED  BY <3>1, <3>2, <2>2, <1>2
  <2>3. CASE p = [end |-> slot.end, to |-> slot.to]
    <3>1. CASE s = slot
      BY <2>3, <3>1, <1>4
    <3>2. CASE s \in slots[w]
      BY <2>3, <3>2, <1>4, <1>5, <1>2
    <3> QED  BY <3>1, <3>2, <1>7
  <2> QED  BY <2>1, <2>2, <2>3, <1>7, <1>8
<1>12. TypeOK'
  BY <1>1, <1>2, <1>4, <1>7 DEF IInv, TypeOK
<1>13. \A v \in Workers : WellFormed(slots'[v])
  BY <1>7 DEF IInv
<1>14. \A v \in pending' : slots'[v] = {}
  BY <1>1, <1>2, <1>7 DEF IInv, TypeOK
<1>15. WithinTheDay' /\ \A v \in Planned' : Tiled(v)'
  <2>1. slot.end <= Tmax + 1
    BY <1>1, <1>2, <1>3, <1>4, PlannerAssumption
  <2>2. WithinTheDay /\ \A v \in Planned : Tiled(v)
    BY DEF IInv
  <2>3. \A p \in Past(w)' : p.end <= Tmax + 1
    BY <1>8, <2>1, <2>2 DEF WithinTheDay
  <2>4. Planned' = Planned /\ w \notin Planned'
    BY <1>1 DEF Planned
  <2> QED  BY <1>7, <2>2, <2>3, <2>4, OthersKeep
<1> QED  BY <1>1, <1>2, <1>7, <1>10, <1>11, <1>12, <1>13, <1>14, <1>15 DEF IInv, NoAssertFails

LEMMA NoJobLeftIInv == ASSUME IInv, NEW w \in Workers, NoJobLeft(w) PROVE IInv'
<1>1. /\ phase = "greedy" /\ phase' = "move" /\ worker = w
      /\ UNCHANGED <<job, reserved, pending, worker, now, at, slots, aborted>>
  BY DEF NoJobLeft
<1>2. TypeOK' /\ NoAssertFails' /\ GreedyIsLast'
  BY <1>1 DEF IInv, TypeOK, NoAssertFails, GreedyIsLast
<1>3. TimeToDrive(worker)'
  BY <1>1 DEF IInv, TimeToDrive, Past
<1>4. WithinTheDay' /\ \A v \in Planned' : Tiled(v)'
  <2>1. Planned' = Planned /\ \A v : Past(v)' = Past(v)
    BY <1>1 DEF Planned, Past
  <2>2. \A v \in Planned : Tiled(v) => Tiled(v)'
    BY <1>1, <2>1 DEF Tiled
  <2> QED  BY <2>1, <2>2 DEF IInv, WithinTheDay
<1> QED  BY <1>1, <1>2, <1>3, <1>4 DEF IInv

(* Where a blank lies: it starts at the end of a part of the schedule, and *)
(* ends at the slot that comes next or at the end of the day.              *)
LEMMA BlankFacts ==
    ASSUME NEW w \in Workers, NEW b \in Blanks(w)
    PROVE  \E p \in Past(w) :
             /\ b.start = p.end /\ b.from = p.to
             /\ \/ /\ \A s \in slots[w] : ~(p.end <= s.start)
                   /\ b = Slot(p.end, Tmax + 1 - p.end, p.to, VertexNone, "none")
                \/ \E s \in slots[w] :
                      /\ p.end <= s.start
                      /\ \A t \in slots[w] : p.end <= t.start => s.start <= t.start
                      /\ b = Slot(p.end, s.start - p.end, p.to, s.from, "none")
<1> DEFINE Later(p) == {s \in slots[w] : p.end <= s.start}
           NextOf(p) == {s \in Later(p) : \A t \in Later(p) : s.start <= t.start}
<1>1. PICK p \in Past(w) :
         b \in IF Later(p) = {}
               THEN {Slot(p.end, Tmax + 1 - p.end, p.to, VertexNone, "none")}
               ELSE {Slot(p.end, s.start - p.end, p.to, s.from, "none") : s \in NextOf(p)}
  BY DEF Blanks, Past
<1>2. CASE Later(p) = {}
  <2>1. b = Slot(p.end, Tmax + 1 - p.end, p.to, VertexNone, "none")
    BY <1>1, <1>2
  <2> QED  BY <1>2, <2>1 DEF Slot
<1>3. CASE Later(p) # {}
  <2>1. PICK s \in NextOf(p) : b = Slot(p.end, s.start - p.end, p.to, s.from, "none")
    BY <1>1, <1>3
  <2> QED  BY <2>1 DEF Slot
<1> QED  BY <1>2, <1>3

(* And every part of the schedule has a blank after it, if only an empty   *)
(* one.                                                                    *)
LEMMA BlankOf ==
    ASSUME NEW w \in Workers, NEW p \in Past(w)
    PROVE  /\ (\A s \in slots[w] : ~(p.end <= s.start))
              => Slot(p.end, Tmax + 1 - p.end, p.to, VertexNone, "none") \in Blanks(w)
           /\ \A s \in slots[w] :
                 /\ p.end <= s.start
                 /\ \A t \in slots[w] : p.end <= t.start => s.start <= t.start
                 => Slot(p.end, s.start - p.end, p.to, s.from, "none") \in Blanks(w)
<1> DEFINE Later(q) == {s \in slots[w] : q.end <= s.start}
           NextOf(q) == {s \in Later(q) : \A t \in Later(q) : s.start <= t.start}
           Behind(q) == IF Later(q) = {}
                        THEN {Slot(q.end, Tmax + 1 - q.end, q.to, VertexNone, "none")}
                        ELSE {Slot(q.end, s.start - q.end, q.to, s.from, "none") : s \in NextOf(q)}
<1>1. Behind(p) \subseteq Blanks(w)
  BY DEF Blanks, Past
<1>2. ASSUME \A s \in slots[w] : ~(p.end <= s.start)
      PROVE  Slot(p.end, Tmax + 1 - p.end, p.to, VertexNone, "none") \in Behind(p)
  BY <1>2
<1>3. ASSUME NEW s \in slots[w], p.end <= s.start,
             \A t \in slots[w] : p.end <= t.start => s.start <= t.start
      PROVE  Slot(p.end, s.start - p.end, p.to, s.from, "none") \in Behind(p)
  <2>1. s \in NextOf(p) /\ Later(p) # {}
    BY <1>3
  <2> QED  BY <2>1
<1> QED  BY <1>1, <1>2, <1>3

(* No slot of a well formed schedule straddles the end of a part of it.    *)
LEMMA PastFacts ==
    ASSUME NEW w \in Workers, WellFormed(slots[w]), NEW p \in Past(w)
    PROVE  /\ p.end \in Nat /\ 1 <= p.end /\ p.to \in Vertices
           /\ \A t \in slots[w] : /\ t.start \in Nat /\ t.end \in Nat /\ t.start < t.end
                                  /\ t.from \in Vertices /\ t.to \in Vertices
                                  /\ t.end <= p.end \/ p.end <= t.start
           /\ \A q \in Past(w) : p.end = q.end => p = q
<1>1. \A t \in slots[w] : /\ t.start \in Nat /\ t.end \in Nat /\ 1 <= t.start /\ t.start < t.end
                          /\ t.from \in Vertices /\ t.to \in Vertices
  BY DEF WellFormed, Day
<1>2. Home[w] \in Vertices
  BY PlannerAssumption
<1>3. \A s, t \in slots[w] : s = t \/ s.end <= t.start \/ t.end <= s.start
  BY DEF WellFormed, Separate
<1>4. CASE p = [end |-> 1, to |-> Home[w]]
  <2>1. p.end = 1 /\ p.to = Home[w]
    BY <1>4
  <2>2. ASSUME NEW q \in Past(w), p.end = q.end PROVE p = q
    <3>1. CASE q = [end |-> 1, to |-> Home[w]]
      BY <1>4, <3>1
    <3>2. ASSUME NEW s \in slots[w], q = [end |-> s.end, to |-> s.to] PROVE FALSE
      <4>1. q.end = s.end
        BY <3>2
      <4> QED  BY <4>1, <1>1, <2>1, <2>2
    <3> QED  BY <3>1, <3>2 DEF Past
  <2> QED  BY <1>1, <1>2, <2>1, <2>2
<1>5. ASSUME NEW x \in slots[w], p = [end |-> x.end, to |-> x.to]
      PROVE  /\ p.end \in Nat /\ 1 <= p.end /\ p.to \in Vertices
             /\ \A t \in slots[w] : t.end <= p.end \/ p.end <= t.start
             /\ \A q \in Past(w) : p.end = q.end => p = q
  <2>1. p.end = x.end /\ p.to = x.to
    BY <1>5
  <2>2. \A t \in slots[w] : t.end <= p.end \/ p.end <= t.start
    <3> SUFFICES ASSUME NEW t \in slots[w] PROVE t.end <= x.end \/ x.end <= t.start
      BY <2>1
    <3>1. x = t \/ x.end <= t.start \/ t.end <= x.start
      BY <1>3
    <3> QED  BY <3>1, <1>1
  <2>3. ASSUME NEW q \in Past(w), p.end = q.end PROVE p = q
    <3>1. CASE q = [end |-> 1, to |-> Home[w]]
      <4>1. q.end = 1
        BY <3>1
      <4>2. x.start \in Nat /\ x.end \in Nat /\ 1 <= x.start /\ x.start < x.end
        BY <1>1
      <4>3. FALSE
        BY <4>1, <4>2, <2>1, <2>3
      <4> QED  BY <4>3
    <3>2. ASSUME NEW s \in slots[w], q = [end |-> s.end, to |-> s.to] PROVE p = q
      <4>1. s.end = x.end
        BY <2>1, <2>3, <3>2
      <4>2. s = x
        <5>1. s = x \/ s.end <= x.start \/ x.end <= s.start
          BY <1>3
        <5> QED  BY <5>1, <4>1, <1>1
      <4> QED  BY <4>2, <1>5, <3>2
    <3> QED  BY <3>1, <3>2 DEF Past
  <2> QED  BY <1>1, <2>1, <2>2, <2>3
<1> QED  BY <1>1, <1>4, <1>5 DEF Past

(***************************************************************************)
(* Slots laid at the ends of two different parts of a schedule, each done  *)
(* before the slot that comes next, fit among all others.                  *)
(***************************************************************************)
LEMMA FillersFit ==
    ASSUME NEW w \in Workers, WellFormed(slots[w]), NEW new,
           \A f \in new : f.start \in Nat /\ f.end \in Nat /\ f.start < f.end,
           \A f \in new : \E p \in Past(w) :
               /\ f.start = p.end
               /\ \A t \in slots[w] : p.end <= t.start => f.end <= t.start,
           \A f, g \in new : f.start = g.start => f = g
    PROVE  \A f \in new : Fits(f, (slots[w] \cup new) \ {f})
<1>1. ASSUME NEW f \in new, NEW t \in slots[w] PROVE t.end <= f.start \/ f.end <= t.start
  <2>1. PICK p \in Past(w) : f.start = p.end /\ (p.end <= t.start => f.end <= t.start)
    OBVIOUS
  <2> QED  BY <2>1, PastFacts
<1>2. ASSUME NEW f \in new, NEW g \in new, f.start < g.start PROVE f.end <= g.start
  <2>1. PICK p \in Past(w) : f.start = p.end /\ \A t \in slots[w] : p.end <= t.start => f.end <= t.start
    OBVIOUS
  <2>2. PICK q \in Past(w) : g.start = q.end
    OBVIOUS
  <2>3. p.end \in Nat /\ 1 <= p.end
    BY PastFacts
  <2>4. CASE q = [end |-> 1, to |-> Home[w]]
    <3>1. q.end = 1
      BY <2>4
    <3> QED  BY <3>1, <2>1, <2>2, <2>3, <1>2
  <2>5. ASSUME NEW x \in slots[w], q = [end |-> x.end, to |-> x.to] PROVE f.end <= g.start
    <3>1. q.end = x.end
      BY <2>5
    <3>2. x.end \in Nat /\ x.start \in Nat /\ x.start < x.end
          /\ (x.end <= p.end \/ p.end <= x.start)
      BY PastFacts
    <3>3. p.end <= x.start
      BY <3>1, <3>2, <2>1, <2>2, <2>3, <1>2
    <3>4. f.end <= x.start
      BY <3>3, <2>1
    <3> QED  BY <3>1, <3>2, <3>4, <2>2
  <2> QED  BY <2>4, <2>5 DEF Past
<1>3. ASSUME NEW f \in new, NEW s \in (slots[w] \cup new) \ {f}
      PROVE  s.end <= f.start \/ f.end <= s.start
  <2>1. CASE s \in slots[w]
    BY <2>1, <1>1
  <2>2. CASE s \in new
    <3>1. s.start # f.start
      BY <2>2, <1>3
    <3>2. s.start < f.start \/ f.start < s.start
      BY <3>1, <2>2
    <3> QED  BY <2>2, <3>2, <1>2
  <2> QED  BY <2>1, <2>2
<1> QED  BY <1>3 DEF Fits

(* What comes next after a part of a schedule: there is a nearest slot, and *)
(* nothing lies before it.                                                 *)
LEMMA NextSlot ==
    ASSUME NEW w \in Workers, WellFormed(slots[w]), NEW p \in Past(w),
           NEW s \in slots[w], p.end <= s.start
    PROVE  \E n \in slots[w] : /\ p.end <= n.start
                               /\ \A t \in slots[w] : p.end <= t.start => n.start <= t.start
<1> DEFINE Starts == {t.start : t \in {t \in slots[w] : p.end <= t.start}}
<1>1. Starts \subseteq Nat /\ Starts # {}
  BY PastFacts
<1> HIDE DEF Starts
<1>2. PICK x \in Starts : \A y \in Starts : x <= y
  BY <1>1, LeastExists
<1> QED  BY <1>2 DEF Starts

(* If no slot lies between a part and a slot after it, the slot is next.   *)
LEMMA NoneBetween ==
    ASSUME NEW w \in Workers, WellFormed(slots[w]), NEW p \in Past(w),
           NEW s \in slots[w], p.end <= s.start
    PROVE  (~ \E m \in slots[w] : p.end <= m.start /\ m.end <= s.start)
           <=> (\A t \in slots[w] : p.end <= t.start => s.start <= t.start)
<1>1. \A t \in slots[w] : /\ t.start \in Nat /\ t.end \in Nat /\ t.start < t.end
                          /\ s = t \/ s.end <= t.start \/ t.end <= s.start
  BY PastFacts DEF WellFormed, Separate
<1> QED  BY <1>1

LEMMA MovesIInv == ASSUME IInv, NEW w \in Workers, FillMoves(w) PROVE IInv'
<1> DEFINE new == {MoveIn(b) : b \in {b \in NonEmpty(Blanks(w)) : b.to \notin {b.from, VertexNone}}}
<1>1. /\ phase = "move" /\ phase' = "stay" /\ worker = w /\ Assign(w, new)
      /\ UNCHANGED <<job, reserved, pending, worker, now, at>>
  BY DEF FillMoves
<1>2. DOMAIN slots = Workers /\ WellFormed(slots[w]) /\ TimeToDrive(w) /\ w \notin pending
  BY <1>1 DEF IInv, TypeOK
<1>3. ASSUME NEW f \in new
      PROVE  /\ f \in Day /\ 1 <= f.start
             /\ f.start \in Nat /\ f.end \in Nat /\ f.start < f.end
             /\ \E p \in Past(w), s \in slots[w] :
                   /\ f.start = p.end /\ p.end <= s.start
                   /\ \A t \in slots[w] : p.end <= t.start => f.end <= t.start /\ s.start <= t.start
                   /\ f = Slot(p.end, Distance(p.to, s.from), p.to, s.from, "move")
  <2>1. PICK b \in Blanks(w) : b.to # b.from /\ b.to # VertexNone /\ f = MoveIn(b)
    BY DEF NonEmpty
  <2>2. PICK p \in Past(w) :
             /\ b.start = p.end /\ b.from = p.to
             /\ \/ /\ \A s \in slots[w] : ~(p.end <= s.start)
                   /\ b = Slot(p.end, Tmax + 1 - p.end, p.to, VertexNone, "none")
                \/ \E s \in slots[w] :
                      /\ p.end <= s.start
                      /\ \A t \in slots[w] : p.end <= t.start => s.start <= t.start
                      /\ b = Slot(p.end, s.start - p.end, p.to, s.from, "none")
    BY BlankFacts
  <2>3. b # Slot(p.end, Tmax + 1 - p.end, p.to, VertexNone, "none")
    BY <2>1 DEF Slot
  <2>4. PICK s \in slots[w] :
             /\ p.end <= s.start
             /\ \A t \in slots[w] : p.end <= t.start => s.start <= t.start
             /\ b = Slot(p.end, s.start - p.end, p.to, s.from, "none")
    BY <2>2, <2>3
  <2>5. b.to = s.from /\ b.from = p.to /\ b.start = p.end /\ p.to # s.from
    BY <2>1, <2>2, <2>4 DEF Slot
  <2>6. f = Slot(p.end, Distance(p.to, s.from), p.to, s.from, "move")
    BY <2>1, <2>5 DEF MoveIn
  <2>7. /\ p.end \in Nat /\ 1 <= p.end /\ p.to \in Vertices /\ s.from \in Vertices
        /\ s.start \in Nat /\ \A t \in slots[w] : t.start \in Nat /\ t.end \in Nat /\ t.start < t.end
    BY <1>2, PastFacts
  <2>8. Distance(p.to, s.from) \in Nat /\ Distance(p.to, s.from) # 0
    BY <2>5, <2>7, PlannerAssumption
  <2> DEFINE d == Distance(p.to, s.from)
  <2>9. d \in Nat /\ d # 0 /\ f = Slot(p.end, d, p.to, s.from, "move")
    BY <2>6, <2>8
  <2>10. p.end + d <= s.start
    <3>1. ~ \E m \in slots[w] : p.end <= m.start /\ m.end <= s.start
      BY <2>4, <2>7
    <3> QED  BY <1>2, <2>4, <3>1 DEF TimeToDrive
  <2> HIDE DEF d
  <2>11. /\ f.start = p.end /\ f.end = p.end + d /\ f \in Day
    BY <2>7, <2>9 DEF Slot, Day
  <2>12. \A t \in slots[w] : p.end <= t.start => f.end <= t.start /\ s.start <= t.start
    BY <2>4, <2>7, <2>9, <2>10, <2>11
  <2>13. f.start \in Nat /\ f.end \in Nat /\ f.start < f.end /\ 1 <= f.start
    BY <2>7, <2>9, <2>11
  <2> QED  BY <2>4, <2>6, <2>11, <2>12, <2>13
<1>4. ASSUME NEW f \in new, NEW g \in new, f.start = g.start PROVE f = g
  <2>1. PICK p \in Past(w), s \in slots[w] :
           /\ f.start = p.end /\ p.end <= s.start
           /\ \A t \in slots[w] : p.end <= t.start => s.start <= t.start
           /\ f = Slot(p.end, Distance(p.to, s.from), p.to, s.from, "move")
    BY <1>3
  <2>2. PICK q \in Past(w), r \in slots[w] :
           /\ g.start = q.end /\ q.end <= r.start
           /\ \A t \in slots[w] : q.end <= t.start => r.start <= t.start
           /\ g = Slot(q.end, Distance(q.to, r.from), q.to, r.from, "move")
    BY <1>3
  <2>3. p = q
    BY <2>1, <2>2, <1>2, <1>4, PastFacts
  <2>4. s.start <= r.start /\ r.start <= s.start /\ s.start \in Nat /\ r.start \in Nat
    BY <2>1, <2>2, <2>3, <1>2, PastFacts
  <2>5. s = r
    <3>1. s = r \/ s.end <= r.start \/ r.end <= s.start
      BY <1>2 DEF WellFormed, Separate
    <3>2. s.end \in Nat /\ s.start < s.end /\ r.end \in Nat /\ r.start < r.end
      BY <1>2, PastFacts
    <3> QED  BY <2>4, <3>1, <3>2
  <2> QED  BY <2>1, <2>2, <2>3, <2>5
<1> HIDE DEF new
<1>5. \A f \in new : Fits(f, (slots[w] \cup new) \ {f})
  <2>1. \A f \in new : f.start \in Nat /\ f.end \in Nat /\ f.start < f.end
    BY <1>3
  <2>2. \A f \in new : \E p \in Past(w) :
               /\ f.start = p.end
               /\ \A t \in slots[w] : p.end <= t.start => f.end <= t.start
    BY <1>3
  <2>3. \A f, g \in new : f.start = g.start => f = g
    BY <1>4
  <2> QED  BY <1>2, <2>1, <2>2, <2>3, FillersFit
<1>6. /\ slots'[w] = slots[w] \cup new
      /\ DOMAIN slots' = Workers
      /\ \A v \in Workers \ {w} : slots'[v] = slots[v]
      /\ aborted' = aborted
      /\ WellFormed(slots'[w])
  <2>1. new \subseteq Day /\ \A f \in new : 1 <= f.start
    BY <1>3
  <2> QED  BY <1>1, <1>2, <1>5, <2>1, AssignFits
<1>7. TypeOK' /\ NoAssertFails' /\ GreedyIsLast'
  BY <1>1, <1>6 DEF IInv, TypeOK, NoAssertFails, GreedyIsLast
<1>8. Past(w)' = Past(w) \cup {[end |-> f.end, to |-> f.to] : f \in new}
  BY <1>6 DEF Past
<1>9. Joined(w)'
  <2> SUFFICES ASSUME NEW p \in Past(w)', NEW s \in slots'[w], p.end <= s.start,
                      ~ \E m \in slots'[w] : p.end <= m.start /\ m.end <= s.start
               PROVE  p.to = s.from
    BY DEF Joined
  <2>1. \A m \in slots[w] : ~(p.end <= m.start /\ m.end <= s.start)
    BY <1>6
  <2>2. \A m \in new : ~(p.end <= m.start /\ m.end <= s.start)
    BY <1>6
  <2>3. CASE p \in Past(w) /\ s \in slots[w]
    <3>1. \A t \in slots[w] : p.end <= t.start => s.start <= t.start
      BY <1>2, <2>1, <2>3, NoneBetween
    <3>2. SUFFICES ASSUME p.to # s.from PROVE FALSE
      OBVIOUS
    <3> DEFINE b == Slot(p.end, s.start - p.end, p.to, s.from, "none")
               d == Distance(p.to, s.from)
    <3>3. b \in Blanks(w)
      BY <2>3, <3>1, BlankOf
    <3>4. /\ p.end \in Nat /\ s.start \in Nat /\ p.to \in Vertices /\ s.from \in Vertices
      BY <1>2, <2>3, PastFacts
    <3>5. d \in Nat /\ d # 0
      BY <3>2, <3>4, PlannerAssumption
    <3>6. p.end + d <= s.start
      BY <1>2, <2>1, <2>3 DEF TimeToDrive
    <3> HIDE DEF d
    <3>7. b.start = p.end /\ b.end = s.start /\ b.from = p.to /\ b.to = s.from
      BY <3>4 DEF Slot
    <3> HIDE DEF b
    <3>8. MoveIn(b) \in new
      <4>1. b.start < b.end
        BY <3>4, <3>5, <3>6, <3>7
      <4>2. b.to # b.from /\ b.to # VertexNone
        BY <3>2, <3>4, <3>7, PlannerAssumption
      <4> QED  BY <3>3, <4>1, <4>2 DEF NonEmpty, new
    <3>9. MoveIn(b).start = p.end /\ MoveIn(b).end = p.end + d
      BY <3>7 DEF MoveIn, Slot, d
    <3> QED  BY <2>2, <3>4, <3>6, <3>8, <3>9
  <2>4. CASE p \in Past(w) /\ s \in new
    <3>1. PICK q \in Past(w), r \in slots[w] :
             /\ s.start = q.end
             /\ s = Slot(q.end, Distance(q.to, r.from), q.to, r.from, "move")
      BY <2>4, <1>3
    <3>2. s.from = q.to
      BY <3>1 DEF Slot
    <3>3. p.end = q.end
      <4> SUFFICES ASSUME p.end # q.end PROVE FALSE
        OBVIOUS
      <4>1. p.end \in Nat /\ q.end \in Nat /\ p.end < q.end /\ 1 <= p.end
        BY <1>2, <2>4, <3>1, PastFacts
      <4>2. q # [end |-> 1, to |-> Home[w]]
        BY <4>1
      <4>3. PICK x \in slots[w] : q = [end |-> x.end, to |-> x.to]
        BY <4>2 DEF Past
      <4>4. /\ x.end = q.end /\ x.start \in Nat /\ x.end \in Nat
            /\ x.end <= p.end \/ p.end <= x.start
        BY <1>2, <2>4, <4>3, PastFacts
      <4> QED  BY <2>1, <3>1, <4>1, <4>4
    <3> QED  BY <1>2, <2>4, <3>2, <3>3, PastFacts
  <2>5. ASSUME NEW f \in new, p = [end |-> f.end, to |-> f.to] PROVE p.to = s.from
    <3>1. PICK q \in Past(w), r \in slots[w] :
             /\ f.start = q.end /\ q.end <= r.start
             /\ \A t \in slots[w] : q.end <= t.start => f.end <= t.start /\ r.start <= t.start
             /\ f = Slot(q.end, Distance(q.to, r.from), q.to, r.from, "move")
      BY <1>3
    <3>2. p.end = f.end /\ p.to = r.from
      BY <2>5, <3>1 DEF Slot
    <3>3. /\ f.end \in Nat /\ f.start \in Nat /\ f.start < f.end /\ f.end <= r.start
          /\ q.end \in Nat /\ 1 <= q.end
      BY <1>2, <1>3, <3>1, PastFacts
    <3>4. \A t \in slots[w] : /\ t.start \in Nat /\ t.end \in Nat /\ t.start < t.end
                              /\ t.end <= q.end \/ q.end <= t.start
                              /\ r = t \/ r.end <= t.start \/ t.end <= r.start
      BY <1>2, PastFacts DEF WellFormed, Separate
    <3>5. CASE s \in slots[w]
      <4>1. q.end <= s.start
        BY <3>2, <3>3, <3>4, <3>5, <3>1
      <4>2. r.start <= s.start
        BY <3>1, <3>5, <4>1
      <4>3. ~(r.end <= s.start)
        BY <2>1, <3>2, <3>3
      <4>4. r = s
        BY <3>4, <3>5, <4>2, <4>3
      <4> QED  BY <3>2, <4>4
    <3>6. CASE s \in new
      <4>1. PICK z \in Past(w) : s.start = z.end
        BY <3>6, <1>3
      <4>2. z.end \in Nat /\ q.end < z.end
        BY <1>2, <1>6, <3>1, <3>2, <3>3, <4>1, PastFacts
      <4>3. z # [end |-> 1, to |-> Home[w]]
        BY <3>3, <4>2
      <4>4. PICK x \in slots[w] : z = [end |-> x.end, to |-> x.to]
        BY <4>3 DEF Past
      <4>5. x.end = z.end
        BY <4>4
      <4>6. q.end <= x.start
        BY <3>3, <3>4, <4>2, <4>5
      <4>7. f.end <= x.start
        BY <3>1, <4>6
      <4> QED  BY <2>1, <3>2, <4>1, <4>5, <4>7, <3>4, <4>2
    <3> QED  BY <3>5, <3>6, <1>6
  <2> QED  BY <2>3, <2>4, <2>5, <1>6, <1>8
<1>10. WithinTheDay' /\ \A v \in Planned' : Tiled(v)'
  <2>1. WithinTheDay /\ \A v \in Planned : Tiled(v)
    BY DEF IInv
  <2>2. ASSUME NEW f \in new PROVE f.end <= Tmax + 1
    <3>1. PICK s \in slots[w] : f.end <= s.start
      BY <1>3
    <3>2. s.start \in Nat /\ s.end \in Nat /\ s.start < s.end
      BY <1>2 DEF WellFormed, Day
    <3>3. s.end <= Tmax + 1
      BY <2>1, EndInPast
    <3> QED  BY <1>3, <3>1, <3>2, <3>3, PlannerAssumption
  <2>3. \A p \in Past(w)' : p.end <= Tmax + 1
    BY <1>8, <2>1, <2>2 DEF WithinTheDay
  <2>4. Planned' = Planned /\ w \notin Planned'
    BY <1>1 DEF Planned
  <2> QED  BY <1>6, <2>1, <2>3, <2>4, OthersKeep
<1> QED  BY <1>1, <1>2, <1>6, <1>7, <1>9, <1>10 DEF IInv, TypeOK

LEMMA StaysIInv == ASSUME IInv, NEW w \in Workers, FillStays(w) PROVE IInv'
<1> DEFINE new == {StayIn(b) : b \in NonEmpty(Blanks(w))}
<1>1. /\ phase = "stay" /\ phase' = "sort" /\ worker = w /\ worker' = Nobody /\ Assign(w, new)
      /\ UNCHANGED <<job, reserved, pending, now, at>>
  BY DEF FillStays
<1>2. DOMAIN slots = Workers /\ WellFormed(slots[w]) /\ w \notin pending /\ Joined(w)
  BY <1>1 DEF IInv, TypeOK
<1>3. ASSUME NEW f \in new
      PROVE  /\ f \in Day /\ 1 <= f.start
             /\ f.start \in Nat /\ f.end \in Nat /\ f.start < f.end
             /\ \E p \in Past(w) :
                   /\ f.start = p.end
                   /\ \A t \in slots[w] : p.end <= t.start => f.end <= t.start
                   /\ f = Slot(p.end, f.end - f.start, p.to, p.to, "stay")
                   /\ \/ (\A t \in slots[w] : ~(p.end <= t.start)) /\ f.end = Tmax + 1
                      \/ \E s \in slots[w] : /\ p.end <= s.start /\ f.end = s.start
                                             /\ \A t \in slots[w] : p.end <= t.start => s.start <= t.start
  <2>1. PICK b \in Blanks(w) : b.start < b.end /\ f = StayIn(b)
    BY DEF NonEmpty
  <2>2. PICK p \in Past(w) :
             /\ b.start = p.end /\ b.from = p.to
             /\ \/ /\ \A s \in slots[w] : ~(p.end <= s.start)
                   /\ b = Slot(p.end, Tmax + 1 - p.end, p.to, VertexNone, "none")
                \/ \E s \in slots[w] :
                      /\ p.end <= s.start
                      /\ \A t \in slots[w] : p.end <= t.start => s.start <= t.start
                      /\ b = Slot(p.end, s.start - p.end, p.to, s.from, "none")
    BY BlankFacts
  <2>3. /\ p.end \in Nat /\ 1 <= p.end /\ p.to \in Vertices
        /\ \A t \in slots[w] : t.start \in Nat
    BY <1>2, PastFacts
  <2>4. Tmax \in Nat
    BY PlannerAssumption
  <2>5. f = Slot(p.end, b.end - p.end, p.to, p.to, "stay")
    BY <2>1, <2>2 DEF StayIn
  <2>6. \/ (\A t \in slots[w] : ~(p.end <= t.start)) /\ b.end = Tmax + 1
        \/ \E s \in slots[w] : /\ p.end <= s.start /\ b.end = s.start
                               /\ \A t \in slots[w] : p.end <= t.start => s.start <= t.start
    BY <2>2, <2>3, <2>4 DEF Slot
  <2>7. b.end \in Nat /\ p.end < b.end
    BY <2>1, <2>2, <2>3, <2>4, <2>6
  <2> DEFINE e == b.end
  <2>8. e \in Nat /\ p.end < e /\ f = Slot(p.end, e - p.end, p.to, p.to, "stay")
    BY <2>5, <2>7
  <2> HIDE DEF e
  <2>9. f.start = p.end /\ f.end = e /\ f \in Day
    BY <2>3, <2>8 DEF Slot, Day
  <2>10. f = Slot(p.end, f.end - f.start, p.to, p.to, "stay")
    BY <2>8, <2>9
  <2>11. \A t \in slots[w] : p.end <= t.start => f.end <= t.start
    BY <2>6, <2>9 DEF e
  <2>12. \/ (\A t \in slots[w] : ~(p.end <= t.start)) /\ f.end = Tmax + 1
         \/ \E s \in slots[w] : /\ p.end <= s.start /\ f.end = s.start
                                /\ \A t \in slots[w] : p.end <= t.start => s.start <= t.start
    BY <2>6, <2>9 DEF e
  <2>13. f.start \in Nat /\ f.end \in Nat /\ f.start < f.end /\ 1 <= f.start
    BY <2>3, <2>8, <2>9
  <2> QED  BY <2>9, <2>10, <2>11, <2>12, <2>13
<1>4. ASSUME NEW f \in new, NEW g \in new, f.start = g.start PROVE f = g
  <2>1. PICK p \in Past(w) :
           /\ f.start = p.end /\ f = Slot(p.end, f.end - f.start, p.to, p.to, "stay")
           /\ \/ (\A t \in slots[w] : ~(p.end <= t.start)) /\ f.end = Tmax + 1
              \/ \E s \in slots[w] : /\ p.end <= s.start /\ f.end = s.start
                                     /\ \A t \in slots[w] : p.end <= t.start => s.start <= t.start
    BY <1>3
  <2>2. PICK q \in Past(w) :
           /\ g.start = q.end /\ g = Slot(q.end, g.end - g.start, q.to, q.to, "stay")
           /\ \/ (\A t \in slots[w] : ~(q.end <= t.start)) /\ g.end = Tmax + 1
              \/ \E s \in slots[w] : /\ q.end <= s.start /\ g.end = s.start
                                     /\ \A t \in slots[w] : q.end <= t.start => s.start <= t.start
    BY <1>3
  <2>3. p = q
    BY <2>1, <2>2, <1>2, <1>4, PastFacts
  <2>4. f.end = g.end
    <3>1. \A t \in slots[w] : t.start \in Nat
      BY <1>2, PastFacts
    <3> QED  BY <2>1, <2>2, <2>3, <3>1
  <2> QED  BY <2>1, <2>2, <2>3, <2>4, <1>4
<1> HIDE DEF new
<1>5. \A f \in new : Fits(f, (slots[w] \cup new) \ {f})
  <2>1. \A f \in new : f.start \in Nat /\ f.end \in Nat /\ f.start < f.end
    BY <1>3
  <2>2. \A f \in new : \E p \in Past(w) :
               /\ f.start = p.end
               /\ \A t \in slots[w] : p.end <= t.start => f.end <= t.start
    BY <1>3
  <2>3. \A f, g \in new : f.start = g.start => f = g
    BY <1>4
  <2> QED  BY <1>2, <2>1, <2>2, <2>3, FillersFit
<1>6. /\ slots'[w] = slots[w] \cup new
      /\ DOMAIN slots' = Workers
      /\ \A v \in Workers \ {w} : slots'[v] = slots[v]
      /\ aborted' = aborted
      /\ WellFormed(slots'[w])
  <2>1. new \subseteq Day /\ \A f \in new : 1 <= f.start
    BY <1>3
  <2> QED  BY <1>1, <1>2, <1>5, <2>1, AssignFits
<1>7. TypeOK' /\ NoAssertFails' /\ GreedyIsLast'
  BY <1>1, <1>6 DEF IInv, TypeOK, NoAssertFails, GreedyIsLast
<1>8. Past(w)' = Past(w) \cup {[end |-> f.end, to |-> f.to] : f \in new}
  BY <1>6 DEF Past
<1>9. WithinTheDay /\ Tmax \in Nat
  BY PlannerAssumption DEF IInv
<1>10. ASSUME NEW p \in Past(w), NEW n \in slots[w], p.end <= n.start,
              \A t \in slots[w] : p.end <= t.start => n.start <= t.start
       PROVE  n.from = p.to
  BY <1>2, <1>10, NoneBetween DEF Joined
<1>11. ASSUME NEW p \in Past(w), NEW b \in Blanks(w),
              b.start = p.end, b.from = p.to, b.start < b.end
       PROVE  \E s \in slots'[w] : s.start = p.end /\ s.from = p.to
  <2>1. StayIn(b) \in new
    BY <1>11 DEF NonEmpty, new
  <2>2. StayIn(b).start = p.end /\ StayIn(b).from = p.to
    BY <1>11 DEF StayIn, Slot
  <2> QED  BY <1>6, <2>1, <2>2
<1>12. Tiled(w)'
  <2> SUFFICES ASSUME NEW p \in Past(w)'
               PROVE  p.end = Tmax + 1 \/ \E s \in slots'[w] : s.start = p.end /\ s.from = p.to
    BY DEF Tiled
  <2>1. CASE p \in Past(w)
    <3>1. p.end \in Nat /\ p.end <= Tmax + 1 /\ \A t \in slots[w] : t.start \in Nat
      BY <1>2, <1>9, <2>1, PastFacts DEF WithinTheDay
    <3>2. CASE \A s \in slots[w] : ~(p.end <= s.start)
      <4> DEFINE b == Slot(p.end, Tmax + 1 - p.end, p.to, VertexNone, "none")
      <4>1. b \in Blanks(w)
        BY <2>1, <3>2, BlankOf
      <4>2. b.start = p.end /\ b.from = p.to /\ b.end = Tmax + 1
        BY <1>9, <3>1 DEF Slot
      <4> HIDE DEF b
      <4> QED  BY <1>9, <1>11, <2>1, <3>1, <4>1, <4>2
    <3>3. ASSUME NEW s \in slots[w], p.end <= s.start
          PROVE  \E n \in slots'[w] : n.start = p.end /\ n.from = p.to
      <4>1. PICK n \in slots[w] : /\ p.end <= n.start
                                  /\ \A t \in slots[w] : p.end <= t.start => n.start <= t.start
        BY <1>2, <2>1, <3>3, NextSlot
      <4>2. CASE p.end = n.start
        BY <1>6, <1>10, <2>1, <4>1, <4>2
      <4>3. CASE p.end < n.start
        <5> DEFINE b == Slot(p.end, n.start - p.end, p.to, n.from, "none")
        <5>1. b \in Blanks(w)
          BY <2>1, <4>1, BlankOf
        <5>2. b.start = p.end /\ b.from = p.to /\ b.end = n.start
          BY <3>1 DEF Slot
        <5> HIDE DEF b
        <5> QED  BY <1>11, <2>1, <4>3, <5>1, <5>2
      <4> QED  BY <3>1, <4>1, <4>2, <4>3
    <3> QED  BY <3>2, <3>3
  <2>2. ASSUME NEW f \in new, p = [end |-> f.end, to |-> f.to]
        PROVE  p.end = Tmax + 1 \/ \E s \in slots'[w] : s.start = p.end /\ s.from = p.to
    <3>1. PICK q \in Past(w) :
             /\ f = Slot(q.end, f.end - f.start, q.to, q.to, "stay")
             /\ \/ f.end = Tmax + 1
                \/ \E s \in slots[w] : /\ q.end <= s.start /\ f.end = s.start
                                       /\ \A t \in slots[w] : q.end <= t.start => s.start <= t.start
      BY <1>3
    <3>2. f.to = q.to
      BY <3>1 DEF Slot
    <3>3. p.end = f.end /\ p.to = q.to
      BY <2>2, <3>2
    <3>4. CASE \E s \in slots[w] : /\ q.end <= s.start /\ f.end = s.start
                                   /\ \A t \in slots[w] : q.end <= t.start => s.start <= t.start
      BY <1>6, <1>10, <3>3, <3>4
    <3> QED  BY <3>1, <3>3, <3>4
  <2> QED  BY <2>1, <2>2, <1>8
<1>13. WithinTheDay' /\ \A v \in Planned' : Tiled(v)'
  <2>1. \A v \in Planned : Tiled(v)
    BY DEF IInv
  <2>2. ASSUME NEW f \in new PROVE f.end <= Tmax + 1
    <3>1. CASE f.end = Tmax + 1
      BY <3>1, <1>9
    <3>2. ASSUME NEW s \in slots[w], f.end = s.start PROVE f.end <= Tmax + 1
      <4>1. s.start \in Nat /\ s.end \in Nat /\ s.start < s.end
        BY <1>2 DEF WellFormed, Day
      <4>2. s.end <= Tmax + 1
        BY <1>9, EndInPast
      <4> QED  BY <1>9, <3>2, <4>1, <4>2
    <3> QED  BY <1>3, <3>1, <3>2
  <2>3. \A p \in Past(w)' : p.end <= Tmax + 1
    BY <1>8, <1>9, <2>2 DEF WithinTheDay
  <2>4. \A v \in Planned' \ {w} : v \in Planned
    BY <1>1 DEF Planned
  <2>5. WithinTheDay' /\ \A v \in Planned' \ {w} : Tiled(v)'
    BY <1>6, <1>9, <2>1, <2>3, <2>4, OthersKeep
  <2> QED  BY <2>5, <1>12
<1> QED  BY <1>1, <1>2, <1>6, <1>7, <1>13 DEF IInv, TypeOK

LEMMA NextIInv == IInv /\ [Next]_vars => IInv'
<1> SUFFICES ASSUME IInv, [Next]_vars PROVE IInv'
  OBVIOUS
<1>1. CASE UNCHANGED vars
  <2>1. Planned' = Planned /\ slots' = slots /\ worker' = worker /\ phase' = phase
    BY <1>1 DEF vars, Planned
  <2>2. TypeOK' /\ NoAssertFails' /\ GreedyIsLast' /\ WithinTheDay'
    BY <1>1, <2>1 DEF vars, IInv, TypeOK, NoAssertFails, GreedyIsLast, WithinTheDay, Past
  <2>3. phase' \in {"greedy", "move"} => TimeToDrive(worker)'
    BY <2>1 DEF IInv, TimeToDrive, Past
  <2>4. phase' = "stay" => Joined(worker)'
    BY <2>1 DEF IInv, Joined, Past
  <2>5. \A v \in Planned' : Tiled(v)'
    BY <2>1 DEF IInv, Tiled, Past
  <2>6. \A w \in Workers : WellFormed(slots[w])'
    BY <2>1 DEF IInv
  <2> QED  BY <1>1, <2>1, <2>2, <2>3, <2>4, <2>5, <2>6 DEF vars, IInv
<1>3. ASSUME NEW w \in Workers, BeginSchedule(w) PROVE IInv'
  BY <1>3, BeginIInv
<1>4. ASSUME NEW w \in Workers, NEW j \in Jobs, TakeJob(w, j) PROVE IInv'
  BY <1>4, TakeIInv
<1>5. ASSUME NEW w \in Workers, NoJobLeft(w) PROVE IInv'
  BY <1>5, NoJobLeftIInv
<1>6. ASSUME NEW w \in Workers, FillMoves(w) PROVE IInv'
  BY <1>6, MovesIInv
<1>7. ASSUME NEW w \in Workers, FillStays(w) PROVE IInv'
  BY <1>7, StaysIInv
<1> QED  BY <1>1, <1>3, <1>4, <1>5, <1>6, <1>7 DEF Next

(* All of it together is the inductive invariant of the planner.           *)
THEOREM PlannerInductive == Spec => []IInv
BY InitIInv, NextIInv, PTL DEF Spec

(* The planner's variables keep their types.                               *)
THEOREM PlannerTypeOK == Spec => []TypeOK
BY PlannerInductive, PTL DEF IInv

(* No assert of TimeSlot and Schedule fails, for any workers, jobs, routes *)
(* and length of the day.                                                  *)
THEOREM PlannerNoAssertFails == Spec => []NoAssertFails
BY PlannerInductive, PTL DEF IInv

(* The schedule of a worker whose turn is over tiles its day: the slots    *)
(* are neither empty nor overlap, and from the home at the start of the    *)
(* day, each begins when and where another has ended, up to the end.       *)
SchedulesTileTheDay == \A w \in Planned : WellFormed(slots[w]) /\ WithinTheDay /\ Tiled(w)
THEOREM PlannerTilesTheDay == Spec => []SchedulesTileTheDay
<1>1. IInv => SchedulesTileTheDay
  BY DEF IInv, SchedulesTileTheDay, Planned
<1> QED  BY PlannerInductive, <1>1, PTL

---------------------------------------------------------------------------
(* What the slots stand for: a job's slot is at the job's vertex, within   *)
(* its time, as long as this worker takes and for a worker of its type; a  *)
(* move's is as long as the way. A job has a slot once it is reserved, and *)
(* in one schedule only.                                                   *)
IsJobSlot(w, s) ==
    /\ s.from = job[s.act].vertex /\ s.to = s.from
    /\ s.end = s.start + ExecutionTime(s.act, w)
    /\ job[s.act].opens <= s.start /\ s.end <= job[s.act].closes
    /\ job[s.act].type \in Types[w] /\ ~job[s.act].prior
    /\ s.act \in reserved

IsTrue(w, s) ==
    /\ s.act \in Jobs => IsJobSlot(w, s)
    /\ s.act = "move" => s.end = s.start + Distance(s.from, s.to)
    /\ s.act = "stay" => s.from = s.to

SlotsAreTrue == \A w \in Workers : \A s \in slots[w] : IsTrue(w, s)

JobsHaveOneSlot ==
    /\ \A w, v \in Workers : \A s \in slots[w], t \in slots[v] :
          s.act \in Jobs /\ s.act = t.act => w = v /\ s = t
    /\ \A j \in reserved : \E w \in Workers : \E s \in slots[w] : s.act = j

PlanInv == IInv /\ SlotsAreTrue /\ JobsHaveOneSlot

(* An Assign that does not fail adds the slots.                            *)
LEMMA AssignAdds ==
    ASSUME NEW w \in Workers, NEW new, Assign(w, new), aborted' = FALSE
    PROVE  slots' = [slots EXCEPT ![w] = @ \cup new]
BY DEF Assign

\* Slots that stand for no job may be added, if they are true.
LEMMA FillersKeep ==
    ASSUME PlanInv, IInv', NEW w \in Workers, NEW new, Assign(w, new),
           job' = job, reserved' = reserved,
           \A s \in new : s.act \notin Jobs /\ IsTrue(w, s)
    PROVE  PlanInv'
<1>1. DOMAIN slots = Workers /\ SlotsAreTrue /\ JobsHaveOneSlot
  BY DEF PlanInv, IInv, TypeOK
<1>2. aborted' = FALSE
  BY DEF IInv, NoAssertFails, TypeOK
<1>3. slots' = [slots EXCEPT ![w] = @ \cup new]
  BY <1>2, AssignAdds
<1>4. \A v \in Workers : slots[v] \subseteq slots'[v] /\ slots'[v] \subseteq slots[v] \cup new
  BY <1>1, <1>3
<1>5. \A v \in Workers : v # w => slots'[v] = slots[v]
  BY <1>1, <1>3
<1>6. \A v \in Workers : \A s : IsTrue(v, s)' <=> IsTrue(v, s)
  BY DEF IsTrue, IsJobSlot, ExecutionTime
<1>7. SlotsAreTrue'
  BY <1>1, <1>4, <1>5, <1>6 DEF SlotsAreTrue
<1>8. JobsHaveOneSlot'
  BY <1>1, <1>4 DEF JobsHaveOneSlot
<1> QED  BY <1>7, <1>8 DEF PlanInv

\* A step that assigns nothing.
LEMMA SameSlotsKeep ==
    ASSUME PlanInv, IInv', slots' = slots, job' = job, reserved' = reserved
    PROVE  PlanInv'
BY DEF PlanInv, SlotsAreTrue, IsTrue, IsJobSlot, ExecutionTime, JobsHaveOneSlot

LEMMA TakeKeeps ==
    ASSUME PlanInv, IInv', NEW w \in Workers, NEW j \in Jobs, TakeJob(w, j)
    PROVE  PlanInv'
<1>0. PICK slot : slot = Slot(now + Distance(at, job[j].vertex), ExecutionTime(j, w),
                              job[j].vertex, job[j].vertex, j)
  OBVIOUS
<1>1. /\ DOMAIN slots = Workers /\ SlotsAreTrue /\ JobsHaveOneSlot
      /\ reserved \subseteq Jobs
  BY DEF PlanInv, IInv, TypeOK
<1>2. /\ Assign(w, {slot}) /\ job' = job /\ reserved' = reserved \cup {j} /\ j \notin reserved
      /\ job[j].type \in Types[w] /\ ~job[j].prior
      /\ Rewards(j, w, now + Distance(at, job[j].vertex))
  BY <1>0 DEF TakeJob, Open, CanMoveAndExecute
<1>3. aborted' = FALSE
  BY DEF IInv, NoAssertFails, TypeOK
<1>4. slots' = [slots EXCEPT ![w] = @ \cup {slot}]
  BY <1>0, <1>2, <1>3, AssignAdds
<1>5. /\ slot.act = j /\ slot.from = job[j].vertex /\ slot.to = job[j].vertex
      /\ slot.end = slot.start + ExecutionTime(j, w)
      /\ job[j].opens <= slot.start /\ slot.end <= job[j].closes
  BY <1>0, <1>2 DEF Slot, Rewards
<1>6. \A v \in Workers : \A s : IsTrue(v, s) => IsTrue(v, s)'
  BY <1>2 DEF IsTrue, IsJobSlot, ExecutionTime
<1>7. IsTrue(w, slot)'
  <2>1. j \notin {"move", "stay"}
    BY PlannerAssumption
  <2> QED  BY <1>2, <1>5, <2>1 DEF IsTrue, IsJobSlot, ExecutionTime
<1>8. \A v \in Workers : \A s \in slots'[v] : s \in slots[v] \/ (v = w /\ s = slot)
  <2>1. slots'[w] = slots[w] \cup {slot} /\ \A v \in Workers \ {w} : slots'[v] = slots[v]
    BY <1>1, <1>4
  <2> QED  BY <2>1
<1>9. SlotsAreTrue'
  BY <1>1, <1>6, <1>7, <1>8 DEF SlotsAreTrue
<1>10. \A v \in Workers : \A s \in slots[v] : s.act # j
  BY <1>1, <1>2 DEF SlotsAreTrue, IsTrue, IsJobSlot
<1>11. JobsHaveOneSlot'
  <2>1. \A v \in Workers : slots[v] \subseteq slots'[v]
    BY <1>1, <1>4
  <2>2. slot \in slots'[w]
    BY <1>1, <1>4
  <2>3. \A i \in reserved' : \E v \in Workers : \E s \in slots'[v] : s.act = i
    BY <1>1, <1>2, <1>5, <2>1, <2>2 DEF JobsHaveOneSlot
  <2>4. \A v, u \in Workers : \A s \in slots'[v], t \in slots'[u] :
           s.act \in Jobs /\ s.act = t.act => v = u /\ s = t
    BY <1>1, <1>5, <1>8, <1>10 DEF JobsHaveOneSlot
  <2> QED  BY <2>3, <2>4 DEF JobsHaveOneSlot
<1> QED  BY <1>9, <1>11 DEF PlanInv

LEMMA PlanStep == PlanInv /\ [Next]_vars => PlanInv'
<1> SUFFICES ASSUME PlanInv, [Next]_vars PROVE PlanInv'
  OBVIOUS
<1>1. IInv'
  BY NextIInv DEF PlanInv
<1>2. CASE UNCHANGED vars
  BY <1>1, <1>2, SameSlotsKeep DEF vars
<1>3. ASSUME NEW w \in Workers, BeginSchedule(w) PROVE PlanInv'
  BY <1>1, <1>3, SameSlotsKeep DEF BeginSchedule
<1>4. ASSUME NEW w \in Workers, NEW j \in Jobs, TakeJob(w, j) PROVE PlanInv'
  BY <1>1, <1>4, TakeKeeps
<1>5. ASSUME NEW w \in Workers, NoJobLeft(w) PROVE PlanInv'
  BY <1>1, <1>5, SameSlotsKeep DEF NoJobLeft
<1>6. ASSUME NEW w \in Workers, FillMoves(w) PROVE PlanInv'
  <2> DEFINE new == {MoveIn(b) : b \in {b \in NonEmpty(Blanks(w)) : b.to \notin {b.from, VertexNone}}}
  <2>1. Assign(w, new) /\ job' = job /\ reserved' = reserved
    BY <1>6 DEF FillMoves
  <2>2. \A b : MoveIn(b).act \notin Jobs /\ IsTrue(w, MoveIn(b))
    BY PlannerAssumption DEF MoveIn, Slot, IsTrue
  <2>3. \A s \in new : s.act \notin Jobs /\ IsTrue(w, s)
    BY <2>2
  <2> HIDE DEF new
  <2> QED  BY <1>1, <2>1, <2>3, FillersKeep
<1>7. ASSUME NEW w \in Workers, FillStays(w) PROVE PlanInv'
  <2> DEFINE new == {StayIn(b) : b \in NonEmpty(Blanks(w))}
  <2>1. Assign(w, new) /\ job' = job /\ reserved' = reserved
    BY <1>7 DEF FillStays
  <2>2. \A b : StayIn(b).act \notin Jobs /\ IsTrue(w, StayIn(b))
    BY PlannerAssumption DEF StayIn, Slot, IsTrue
  <2>3. \A s \in new : s.act \notin Jobs /\ IsTrue(w, s)
    BY <2>2
  <2> HIDE DEF new
  <2> QED  BY <1>1, <2>1, <2>3, FillersKeep
<1> QED  BY <1>2, <1>3, <1>4, <1>5, <1>6, <1>7 DEF Next

LEMMA PlanBegins == Init => PlanInv
<1> SUFFICES ASSUME Init PROVE PlanInv
  OBVIOUS
<1>1. IInv
  BY InitIInv
<1>2. reserved = {} /\ \A w \in Workers : slots[w] = {}
  BY DEF Init
<1> QED  BY <1>1, <1>2 DEF PlanInv, SlotsAreTrue, JobsHaveOneSlot

---------------------------------------------------------------------------
(* What the strings say. The stops of a move, and when each is reached.    *)
Stop(s, i) == Stops(s.from, s.to)[i]
LastStop(s) == Len(Stops(s.from, s.to))
Reached(s, i) == s.start + Distance(s.from, Stop(s, i))

Strings == [act : {"stay"}]
           \cup [act : {"move"}, to : Vertices]
           \cup [act : {"execute"}, job : Jobs, tasks : Int]

(* The roads of a move before its n-th stop have their strings.            *)
RoadsAreSaid(w, s, n) ==
    \A i \in 1 .. n - 1 :
        /\ Reached(s, i + 1) - 1 <= Len(strings[w])
        /\ \A t \in Reached(s, i) .. Reached(s, i + 1) - 1 :
              strings[w][t] = [act |-> "move", to |-> Stop(s, i + 1)]

(* So has a slot.                                                          *)
IsSaid(w, s) ==
    /\ s.end - 1 <= Len(strings[w])
    /\ s.act = "stay" => \A t \in s.start .. s.end - 1 : strings[w][t] = [act |-> "stay"]
    /\ s.act \in Jobs =>
          \A t \in s.start .. s.end - 1 :
              strings[w][t] = [act |-> "execute", job |-> s.act,
                               tasks |-> Tasks(s.act, w, t - s.start + 1)]
    /\ s.act = "move" => RoadsAreSaid(w, s, LastStop(s))

(* A schedule is written up to the end of a part of it, and on to the stop *)
(* of a move that leg tells.                                               *)
UpTo(w, p) ==
    /\ \A s \in slots[w] : s \in written[w] <=> s.end <= p.end
    /\ \/ leg[w] = 1 /\ Len(strings[w]) = p.end - 1
       \/ \E s \in slots[w] : /\ s.start = p.end /\ s.act = "move"
                              /\ leg[w] \in 2 .. LastStop(s)
                              /\ Len(strings[w]) = Reached(s, leg[w]) - 1
                              /\ RoadsAreSaid(w, s, leg[w])

WrittenInOrder(w) ==
    /\ \E p \in Past(w) : UpTo(w, p)
    /\ \A s \in written[w] : s \in slots[w] /\ IsSaid(w, s)

Blank(w) == strings[w] = <<>> /\ written[w] = {} /\ leg[w] = 1

WritingInv ==
    /\ strings \in [Workers -> Seq(Strings)]
    /\ DOMAIN written = Workers /\ DOMAIN leg = Workers
    /\ \A w \in Workers : IF w \in Planned THEN WrittenInOrder(w) ELSE Blank(w)

---------------------------------------------------------------------------
(* Where a worker is, and what it has done.                                *)
OnRoad(s, i, t, p) ==
    /\ Reached(s, i) <= t /\ t < Reached(s, i + 1)
    /\ p = IF t = Reached(s, i) THEN [to |-> Stop(s, i), left |-> 0]
           ELSE [to |-> Stop(s, i + 1), left |-> Reached(s, i + 1) - t]

IsAt(s, t, p) ==
    /\ s.start <= t /\ t < s.end
    /\ s.act # "move" => p = [to |-> s.from, left |-> 0]
    /\ s.act = "move" => \E i \in 1 .. LastStop(s) - 1 : OnRoad(s, i, t, p)

PlaceIsRight(w) == turn = Tmax + 1 \/ \E s \in slots[w] : IsAt(s, turn, place[w])

ExecutedIsRight(w, j) ==
    /\ (\A s \in slots[w] : s.act # j) => executed[w][j] = 0
    /\ \A s \in slots[w] : s.act = j =>
          executed[w][j] = IF turn <= s.start THEN 0
                           ELSE IF turn < s.end THEN (turn - s.start) * Workload[w]
                           ELSE job[j].tasks

NothingDone(w) == place[w] = [to |-> Home[w], left |-> 0] /\ \A j \in Jobs : executed[w][j] = 0

FollowInv ==
    /\ turn \in 1 .. Tmax + 1
    /\ \/ turn = 1 /\ \A w \in Workers : NothingDone(w)
       \/ /\ Done /\ AllWritten
          /\ \A w \in Workers : PlaceIsRight(w) /\ \A j \in Jobs : ExecutedIsRight(w, j)

OutputInv == PlanInv /\ WritingInv /\ FollowInv

---------------------------------------------------------------------------
(* What is assumed of the roads of a route.                                *)
LEMMA RouteRoads ==
    ASSUME NEW u \in Vertices, NEW v \in Vertices, NEW i \in 1 .. Len(Stops(u, v)) - 1
    PROVE  /\ IsRoad(Stops(u, v)[i], Stops(u, v)[i + 1]) /\ Stops(u, v)[i] # Stops(u, v)[i + 1]
           /\ Distance(u, Stops(u, v)[i + 1])
              = Distance(u, Stops(u, v)[i]) + Distance(Stops(u, v)[i], Stops(u, v)[i + 1])
<1>1. Distance(u, Stops(u, v)[i + 1])
      = Distance(u, Stops(u, v)[i]) + Distance(Stops(u, v)[i], Stops(u, v)[i + 1])
  BY RouteAssumption
<1>2. Stops(u, v)[i] # Stops(u, v)[i + 1]
  BY RouteAssumption
<1>3. IsRoad(Stops(u, v)[i], Stops(u, v)[i + 1])
  BY Zenon, RouteAssumption
<1> QED  BY <1>1, <1>2, <1>3

(* Each stop of a route is nearer than its end.                            *)
LEMMA StopsAreNear ==
    ASSUME NEW u \in Vertices, NEW v \in Vertices, NEW i \in 1 .. Len(Stops(u, v))
    PROVE  Distance(u, Stops(u, v)[i]) <= Distance(u, v)
<1> DEFINE n == Len(Stops(u, v))
           D(k) == Distance(u, Stops(u, v)[k])
<1>1. n \in Nat /\ n >= 1 /\ \A k \in 1 .. n : Stops(u, v)[k] \in Vertices
  <2>1. Stops(u, v) \in Seq(Vertices) /\ Stops(u, v) # <<>>
    BY RouteAssumption
  <2> QED  BY <2>1
<1>2. \A k \in 1 .. n : D(k) \in Nat
  BY <1>1, PlannerAssumption
<1>3. D(n) = Distance(u, v)
  BY RouteAssumption
<1>4. ASSUME NEW k \in 1 .. n - 1 PROVE D(k) <= D(k + 1)
  <2>1. k \in 1 .. n /\ k + 1 \in 1 .. n
    BY <1>1
  <2>2. D(k + 1) = D(k) + Distance(Stops(u, v)[k], Stops(u, v)[k + 1])
    BY RouteAssumption
  <2>3. Distance(Stops(u, v)[k], Stops(u, v)[k + 1]) \in Nat
    BY <1>1, <2>1, PlannerAssumption
  <2> QED  BY <1>2, <2>1, <2>2, <2>3
<1> DEFINE Far == {k \in Nat : k < n /\ D(n - k) > D(n)}
<1>5. Far = {}
  <2> SUFFICES ASSUME Far # {} PROVE FALSE
    OBVIOUS
  <2>1. PICK k \in Far : \A l \in Far : k <= l
    <3> HIDE DEF Far
    <3>1. Far \subseteq Nat
      BY DEF Far
    <3> QED  BY <3>1, LeastExists
  <2>2. k \in Nat /\ k < n /\ D(n - k) > D(n)
    BY <2>1
  <2> HIDE DEF D, n
  <2>3. k # 0
    BY <1>1, <1>2, <2>2
  <2>4. k - 1 \in Nat /\ k - 1 < n /\ k - 1 \notin Far
    <3>1. k - 1 \in Nat /\ k - 1 < n
      BY <1>1, <2>2, <2>3
    <3>2. ~(k <= k - 1)
      BY <2>2
    <3> HIDE DEF Far
    <3> QED  BY <2>1, <3>1, <3>2
  <2>5. n - k \in 1 .. n - 1 /\ n - (k - 1) = (n - k) + 1
    BY <1>1, <2>2, <2>3
  <2>6. D(n - (k - 1)) <= D(n)
    <3>1. ~(D(n - (k - 1)) > D(n))
      BY <2>4
    <3>2. n - (k - 1) \in 1 .. n /\ n \in 1 .. n
      BY <1>1, <2>5
    <3>3. D(n - (k - 1)) \in Nat /\ D(n) \in Nat
      BY <1>2, <3>2
    <3> QED  BY <3>1, <3>3
  <2>7. D(n - k) <= D(n - (k - 1))
    BY <1>4, <2>5
  <2>8. D(n - k) \in Nat /\ D(n - (k - 1)) \in Nat /\ D(n) \in Nat
    BY <1>1, <1>2, <2>5
  <2> QED  BY <2>2, <2>6, <2>7, <2>8
<1> HIDE DEF D, n
<1>6. n - i \in Nat /\ n - i < n /\ n - (n - i) = i
  BY <1>1 DEF n
<1>7. ~(D(i) > D(n))
  BY <1>5, <1>6
<1>8. D(i) \in Nat /\ D(n) \in Nat
  BY <1>1, <1>2 DEF n
<1> QED  BY <1>3, <1>7, <1>8 DEF D

(* The stops of a move slot, from its start to its end.                    *)
LEMMA MoveFacts ==
    ASSUME NEW s, s.from \in Vertices, s.to \in Vertices, s.start \in Nat, s.end \in Nat,
           s.start < s.end, s.end = s.start + Distance(s.from, s.to)
    PROVE  /\ LastStop(s) \in Nat /\ LastStop(s) >= 2
           /\ Stop(s, 1) = s.from /\ Stop(s, LastStop(s)) = s.to
           /\ Reached(s, 1) = s.start /\ Reached(s, LastStop(s)) = s.end
           /\ \A i \in 1 .. LastStop(s) :
                 /\ Stop(s, i) \in Vertices
                 /\ Reached(s, i) \in Nat /\ s.start <= Reached(s, i) /\ Reached(s, i) <= s.end
           /\ \A i \in 1 .. LastStop(s) - 1 :
                 /\ IsRoad(Stop(s, i), Stop(s, i + 1))
                 /\ Distance(Stop(s, i), Stop(s, i + 1)) \in Nat \ {0}
                 /\ Reached(s, i + 1) = Reached(s, i) + Distance(Stop(s, i), Stop(s, i + 1))
<1> DEFINE n == LastStop(s)
<1>1. /\ Stops(s.from, s.to) \in Seq(Vertices) /\ Stops(s.from, s.to) # <<>>
      /\ Stop(s, 1) = s.from /\ Stop(s, n) = s.to
  BY RouteAssumption DEF Stop, LastStop
<1>2. n \in Nat /\ n >= 1 /\ \A i \in 1 .. n : Stop(s, i) \in Vertices
  BY <1>1 DEF Stop, LastStop
<1>3. Distance(s.from, s.to) \in Nat \ {0} /\ s.from # s.to
  <2>1. Distance(s.from, s.to) \in Nat /\ (Distance(s.from, s.to) = 0 <=> s.from = s.to)
    BY PlannerAssumption
  <2> QED  BY <2>1
<1>4. n >= 2
  BY <1>1, <1>2, <1>3
<1>5. Distance(s.from, s.from) = 0
  BY PlannerAssumption
<1>6. Reached(s, 1) = s.start /\ Reached(s, n) = s.end
  BY <1>1, <1>5 DEF Reached
<1>7. \A i \in 1 .. n : Distance(s.from, Stop(s, i)) \in Nat
  BY <1>2, PlannerAssumption
<1>8. \A i \in 1 .. n : Distance(s.from, Stop(s, i)) <= Distance(s.from, s.to)
  BY StopsAreNear DEF Stop, LastStop
<1>9. \A i \in 1 .. n : Reached(s, i) \in Nat /\ s.start <= Reached(s, i) /\ Reached(s, i) <= s.end
  BY <1>3, <1>7, <1>8 DEF Reached
<1>10. ASSUME NEW i \in 1 .. n - 1
       PROVE  /\ IsRoad(Stop(s, i), Stop(s, i + 1))
              /\ Distance(Stop(s, i), Stop(s, i + 1)) \in Nat \ {0}
              /\ Reached(s, i + 1) = Reached(s, i) + Distance(Stop(s, i), Stop(s, i + 1))
  <2>1. /\ IsRoad(Stop(s, i), Stop(s, i + 1)) /\ Stop(s, i) # Stop(s, i + 1)
        /\ Distance(s.from, Stop(s, i + 1)) = Distance(s.from, Stop(s, i))
                                              + Distance(Stop(s, i), Stop(s, i + 1))
    <3>1. i \in 1 .. Len(Stops(s.from, s.to)) - 1
      BY DEF LastStop
    <3> HIDE DEF n
    <3> QED  BY <3>1, RouteRoads DEF Stop
  <2>2. i \in 1 .. n /\ i + 1 \in 1 .. n
    BY <1>2
  <2>3. Distance(Stop(s, i), Stop(s, i + 1)) \in Nat \ {0}
    <3>1. Stop(s, i) \in Vertices /\ Stop(s, i + 1) \in Vertices
      BY <1>2, <2>2
    <3> HIDE DEF n
    <3> QED  BY <2>1, <3>1, PlannerAssumption
  <2>4. Distance(s.from, Stop(s, i)) \in Nat
    BY <1>7, <2>2
  <2>5. Reached(s, i + 1) = Reached(s, i) + Distance(Stop(s, i), Stop(s, i + 1))
    <3>1. \A x, y, z, d : /\ x \in Nat /\ y \in Nat /\ d \in Nat /\ z = y + d
                          => x + z = (x + y) + d
      OBVIOUS
    <3> DEFINE y == Distance(s.from, Stop(s, i))
               z == Distance(s.from, Stop(s, i + 1))
               d == Distance(Stop(s, i), Stop(s, i + 1))
    <3>2. s.start \in Nat /\ y \in Nat /\ d \in Nat /\ z = y + d
      BY <2>1, <2>3, <2>4
    <3>3. Reached(s, i) = s.start + y /\ Reached(s, i + 1) = s.start + z
      BY DEF Reached
    <3> HIDE DEF y, z, d
    <3>4. s.start + z = (s.start + y) + d
      BY <3>1, <3>2
    <3>5. Reached(s, i + 1) = Reached(s, i) + d
      BY <3>3, <3>4
    <3> QED  BY <3>5 DEF d
  <2> QED  BY <2>1, <2>3, <2>5
<1> QED  BY <1>1, <1>2, <1>4, <1>6, <1>9, <1>10

---------------------------------------------------------------------------
(* Writing adds strings at the end and leaves those that are there.        *)
Grows(w) ==
    /\ Len(strings[w]) <= Len(strings'[w])
    /\ \A t \in 1 .. Len(strings[w]) : strings'[w][t] = strings[w][t]

LEMMA WriteGrows ==
    ASSUME NEW w \in Workers, strings \in [Workers -> Seq(Strings)],
           NEW new \in Seq(Strings), Write(w, new)
    PROVE  /\ strings' \in [Workers -> Seq(Strings)]
           /\ Len(strings'[w]) = Len(strings[w]) + Len(new)
           /\ \A i \in 1 .. Len(new) : strings'[w][Len(strings[w]) + i] = new[i]
           /\ Grows(w)
           /\ \A v \in Workers \ {w} : strings'[v] = strings[v]
<1>1. strings[w] \in Seq(Strings)
  OBVIOUS
<1>2. strings' = [strings EXCEPT ![w] = strings[w] \o new]
  BY DEF Write
<1>3. strings[w] \o new \in Seq(Strings)
  BY <1>1, ConcatProperties
<1>4. strings'[w] = strings[w] \o new /\ \A v \in Workers \ {w} : strings'[v] = strings[v]
  BY <1>2
<1>5. strings' \in [Workers -> Seq(Strings)]
  BY <1>2, <1>3
<1>6. /\ Len(strings[w] \o new) = Len(strings[w]) + Len(new)
      /\ \A i \in 1 .. Len(strings[w]) + Len(new) :
            (strings[w] \o new)[i] = IF i <= Len(strings[w]) THEN strings[w][i]
                                     ELSE new[i - Len(strings[w])]
  BY <1>1, ConcatProperties
<1>7. Len(strings[w]) \in Nat /\ Len(new) \in Nat
  BY <1>1
<1> DEFINE m == Len(strings[w])
           n == Len(new)
           both == strings[w] \o new
<1>8. m \in Nat /\ n \in Nat /\ \A i \in 1 .. m + n : both[i] = IF i <= m THEN strings[w][i] ELSE new[i - m]
  BY <1>6, <1>7
<1> HIDE DEF m, n, both
<1>9. \A i \in 1 .. n : both[m + i] = new[i]
  <2> TAKE i \in 1 .. n
  <2>1. m + i \in 1 .. m + n /\ ~(m + i <= m) /\ (m + i) - m = i
    BY <1>8
  <2> QED  BY <1>8, <2>1
<1>10. \A i \in 1 .. m : both[i] = strings[w][i]
  <2> TAKE i \in 1 .. m
  <2>1. i \in 1 .. m + n /\ i <= m
    BY <1>8
  <2> QED  BY <1>8, <2>1
<1>11. m <= m + n
  BY <1>8
<1> QED  BY <1>4, <1>5, <1>6, <1>9, <1>10, <1>11 DEF m, n, both, Grows

(* What the strings say, they go on saying: of roads, and of slots.        *)
LEMMA RoadsStaySaid ==
    ASSUME NEW w \in Workers, strings[w] \in Seq(Strings), strings'[w] \in Seq(Strings), Grows(w),
           NEW s, NEW n \in Nat, RoadsAreSaid(w, s, n),
           \A i \in 1 .. n : Reached(s, i) \in Nat /\ 1 <= Reached(s, i)
    PROVE  RoadsAreSaid(w, s, n)'
<1> SUFFICES ASSUME NEW i \in 1 .. n - 1
             PROVE  /\ Reached(s, i + 1) - 1 <= Len(strings'[w])
                    /\ \A t \in Reached(s, i) .. Reached(s, i + 1) - 1 :
                          strings'[w][t] = [act |-> "move", to |-> Stop(s, i + 1)]
  BY DEF RoadsAreSaid, Reached, Stop
<1>1. /\ Reached(s, i + 1) - 1 <= Len(strings[w])
      /\ \A t \in Reached(s, i) .. Reached(s, i + 1) - 1 :
            strings[w][t] = [act |-> "move", to |-> Stop(s, i + 1)]
  BY DEF RoadsAreSaid
<1>2. Len(strings[w]) \in Nat /\ Len(strings'[w]) \in Nat
  OBVIOUS
<1>3. i \in 1 .. n /\ i + 1 \in 1 .. n
  OBVIOUS
<1>4. Reached(s, i) \in Nat /\ 1 <= Reached(s, i) /\ Reached(s, i + 1) \in Nat
  BY <1>3
<1>5. \A t \in Reached(s, i) .. Reached(s, i + 1) - 1 : t \in 1 .. Len(strings[w])
  BY <1>1, <1>2, <1>4
<1>6. Reached(s, i + 1) - 1 <= Len(strings'[w])
  BY <1>1, <1>2, <1>4 DEF Grows
<1> QED  BY <1>1, <1>5, <1>6 DEF Grows

(* What a slot is, once it is in a schedule.                               *)
LEMMA SlotFacts ==
    ASSUME PlanInv, NEW w \in Workers, NEW s \in slots[w]
    PROVE  /\ s.start \in Nat /\ s.end \in Nat /\ 1 <= s.start /\ s.start < s.end
           /\ s.from \in Vertices /\ s.to \in Vertices
           /\ s.act \in Jobs \cup {"move", "stay"}
           /\ IsTrue(w, s)
           /\ \A t \in slots[w] : s = t \/ s.end <= t.start \/ t.end <= s.start
           /\ s.end <= Tmax + 1
<1>1. WellFormed(slots[w]) /\ WithinTheDay
  BY DEF PlanInv, IInv
<1>2. s \in Day /\ 1 <= s.start /\ s.start < s.end
  BY <1>1 DEF WellFormed
<1>3. s.end <= Tmax + 1
  BY <1>1, EndInPast
<1>4. \A t \in slots[w] : s = t \/ s.end <= t.start \/ t.end <= s.start
  BY <1>1 DEF WellFormed, Separate
<1>5. IsTrue(w, s)
  BY DEF PlanInv, SlotsAreTrue
<1> QED  BY <1>2, <1>3, <1>4, <1>5 DEF Day

LEMMA MovesAreLong ==
    ASSUME PlanInv, NEW w \in Workers, NEW s \in slots[w], s.act = "move"
    PROVE  s.end = s.start + Distance(s.from, s.to)
BY SlotFacts DEF IsTrue

LEMMA SlotStaysSaid ==
    ASSUME PlanInv, NEW w \in Workers, strings[w] \in Seq(Strings), strings'[w] \in Seq(Strings),
           Grows(w), job' = job, NEW s \in slots[w], IsSaid(w, s)
    PROVE  IsSaid(w, s)'
<1>1. s.start \in Nat /\ s.end \in Nat /\ 1 <= s.start /\ s.start < s.end
  BY SlotFacts
<1>2. Len(strings[w]) \in Nat /\ Len(strings'[w]) \in Nat /\ s.end - 1 <= Len(strings[w])
  BY DEF IsSaid
<1>3. s.end - 1 <= Len(strings'[w])
  BY <1>1, <1>2 DEF Grows
<1>4. \A t \in s.start .. s.end - 1 : strings'[w][t] = strings[w][t]
  BY <1>1, <1>2 DEF Grows
<1>5. s.act = "move" => RoadsAreSaid(w, s, LastStop(s))'
  <2> SUFFICES ASSUME s.act = "move" PROVE RoadsAreSaid(w, s, LastStop(s))'
    OBVIOUS
  <2>1. s.end = s.start + Distance(s.from, s.to) /\ s.from \in Vertices /\ s.to \in Vertices
    BY MovesAreLong, SlotFacts
  <2>2. /\ LastStop(s) \in Nat
        /\ \A i \in 1 .. LastStop(s) : Reached(s, i) \in Nat /\ s.start <= Reached(s, i)
    BY <1>1, <2>1, MoveFacts
  <2>3. \A i \in 1 .. LastStop(s) : 1 <= Reached(s, i)
    BY <1>1, <2>2
  <2>4. RoadsAreSaid(w, s, LastStop(s))
    BY DEF IsSaid
  <2>5. PICK n \in Nat : n = LastStop(s)
    BY <2>2
  <2>6. RoadsAreSaid(w, s, n)'
    BY <2>2, <2>3, <2>4, <2>5, RoadsStaySaid
  <2> QED  BY <2>5, <2>6 DEF LastStop
<1>6. s.act = "stay" => \A t \in s.start .. s.end - 1 : strings'[w][t] = [act |-> "stay"]
  BY <1>4 DEF IsSaid
<1>7. s.act \in Jobs =>
         \A t \in s.start .. s.end - 1 :
             strings'[w][t] = [act |-> "execute", job |-> s.act,
                               tasks |-> Tasks(s.act, w, t - s.start + 1)]
  BY <1>4 DEF IsSaid
<1>8. \A i : Tasks(s.act, w, i)' = Tasks(s.act, w, i)
  BY DEF Tasks
<1> QED  BY <1>3, <1>5, <1>6, <1>7, <1>8 DEF IsSaid

(* The slot that is written next begins where the strings end, or its      *)
(* first roads have been written.                                          *)
LEMMA BeforeWriting ==
    ASSUME PlanInv, WritingInv, NEW w \in Workers, NEW slot, NextToWrite(w, slot)
    PROVE  /\ w \in Planned /\ slot \in slots[w] /\ slot \notin written[w]
           /\ \A s \in slots[w] : s \in written[w] <=> s.end <= slot.start
           /\ \E p \in Past(w) : p.end = slot.start
           /\ slot.act # "move" => leg[w] = 1 /\ Len(strings[w]) = slot.start - 1
           /\ slot.act = "move" =>
                 /\ leg[w] \in 1 .. LastStop(slot)
                 /\ Len(strings[w]) = Reached(slot, leg[w]) - 1
                 /\ RoadsAreSaid(w, slot, leg[w])
<1>1. /\ w \in Planned /\ slot \in slots[w] /\ slot \notin written[w]
      /\ \A s \in slots[w] : s \notin written[w] => slot.start <= s.start
  BY DEF NextToWrite
<1>2. PICK p \in Past(w) : UpTo(w, p)
  BY <1>1 DEF WritingInv, WrittenInOrder
<1>3. /\ WellFormed(slots[w]) /\ Tiled(w)
      /\ Tmax \in Nat
  BY <1>1, PlannerAssumption DEF PlanInv, IInv
<1>4. /\ p.end \in Nat /\ \A t \in slots[w] : t.start \in Nat /\ t.end \in Nat /\ t.start < t.end
      /\ \A t \in slots[w] : t.end <= p.end \/ p.end <= t.start
  BY <1>3, PastFacts
<1>5. p.end <= slot.start /\ slot.end <= Tmax + 1
  <2>1. ~(slot.end <= p.end)
    BY <1>1, <1>2 DEF UpTo
  <2>2. slot.end <= Tmax + 1
    BY <1>1, SlotFacts
  <2> QED  BY <1>1, <1>4, <2>1, <2>2
<1>6. PICK s \in slots[w] : s.start = p.end
  <2>1. p.end # Tmax + 1
    BY <1>1, <1>3, <1>4, <1>5
  <2> QED  BY <1>3, <2>1 DEF Tiled
<1>7. s \notin written[w]
  BY <1>2, <1>4, <1>6 DEF UpTo
<1>8. slot.start = p.end
  BY <1>1, <1>4, <1>5, <1>6, <1>7
<1>9. \A t \in slots[w] : t.start = p.end => t = slot
  <2>1. \A t \in slots[w] : t = slot \/ t.end <= slot.start \/ slot.end <= t.start
    BY <1>1, <1>3 DEF WellFormed, Separate
  <2> QED  BY <1>1, <1>4, <1>8, <2>1
<1>10. \/ leg[w] = 1 /\ Len(strings[w]) = slot.start - 1
       \/ /\ slot.act = "move" /\ leg[w] \in 2 .. LastStop(slot)
          /\ Len(strings[w]) = Reached(slot, leg[w]) - 1 /\ RoadsAreSaid(w, slot, leg[w])
  BY <1>2, <1>8, <1>9 DEF UpTo
<1>11. slot.act # "move" => leg[w] = 1 /\ Len(strings[w]) = slot.start - 1
  BY <1>10
<1>12. ASSUME slot.act = "move"
       PROVE  /\ leg[w] \in 1 .. LastStop(slot)
              /\ Len(strings[w]) = Reached(slot, leg[w]) - 1
              /\ RoadsAreSaid(w, slot, leg[w])
  <2>1. /\ LastStop(slot) \in Nat /\ LastStop(slot) >= 2 /\ Reached(slot, 1) = slot.start
    <3>1. /\ slot.from \in Vertices /\ slot.to \in Vertices /\ slot.start \in Nat
          /\ slot.end \in Nat /\ slot.start < slot.end
          /\ slot.end = slot.start + Distance(slot.from, slot.to)
      BY <1>1, <1>12, SlotFacts, MovesAreLong
    <3> QED  BY <3>1, MoveFacts
  <2>2. RoadsAreSaid(w, slot, 1)
    BY DEF RoadsAreSaid
  <2>3. CASE leg[w] = 1 /\ Len(strings[w]) = slot.start - 1
    <3>1. 1 \in 1 .. LastStop(slot)
      BY <2>1
    <3> QED  BY <2>1, <2>2, <2>3, <3>1
  <2>4. CASE leg[w] \in 2 .. LastStop(slot) /\ Len(strings[w]) = Reached(slot, leg[w]) - 1
             /\ RoadsAreSaid(w, slot, leg[w])
    BY <2>1, <2>4
  <2> QED  BY <1>10, <2>3, <2>4
<1>13. \A t \in slots[w] : t \in written[w] <=> t.end <= slot.start
  BY <1>2, <1>8 DEF UpTo
<1> QED  BY <1>1, <1>8, <1>11, <1>12, <1>13

(* A schedule nothing is written for stays as it is.                       *)
LEMMA OthersStayWritten ==
    ASSUME PlanInv, WritingInv, NEW w \in Workers, w \in Planned, UNCHANGED vars,
           strings' \in [Workers -> Seq(Strings)], DOMAIN written' = Workers, DOMAIN leg' = Workers,
           \A v \in Workers \ {w} : /\ strings'[v] = strings[v] /\ written'[v] = written[v]
                                    /\ leg'[v] = leg[v],
           WrittenInOrder(w)'
    PROVE  WritingInv'
<1>1. /\ Planned' = Planned /\ slots' = slots /\ job' = job
      /\ \A v \in Workers : Past(v)' = Past(v)
  BY DEF vars, Planned, Past
<1>2. ASSUME NEW v \in Workers \ {w}, v \in Planned PROVE WrittenInOrder(v)'
  <2>1. \A s, n : RoadsAreSaid(v, s, n)' <=> RoadsAreSaid(v, s, n)
    BY DEF RoadsAreSaid, Reached, Stop
  <2>2. \A s : IsSaid(v, s)' <=> IsSaid(v, s)
    BY <1>1, <2>1 DEF IsSaid, Tasks, LastStop
  <2>3. \A p : UpTo(v, p)' <=> UpTo(v, p)
    BY <1>1, <2>1 DEF UpTo, LastStop, Reached, Stop
  <2>4. WrittenInOrder(v)
    BY <1>2 DEF WritingInv
  <2> QED  BY <1>1, <2>2, <2>3, <2>4 DEF WrittenInOrder
<1>3. ASSUME NEW v \in Workers \ {w}, v \notin Planned PROVE Blank(v)'
  BY <1>3 DEF WritingInv, Blank
<1> QED  BY <1>1, <1>2, <1>3 DEF WritingInv

(* The slot that is written is done with.                                  *)
LEMMA ClosesSlot ==
    ASSUME PlanInv, WritingInv, NEW w \in Workers, NEW slot, NextToWrite(w, slot), UNCHANGED vars,
           strings' \in [Workers -> Seq(Strings)], Grows(w),
           \A v \in Workers \ {w} : strings'[v] = strings[v],
           Close(w, slot),
           DOMAIN leg' = Workers, leg'[w] = 1, \A v \in Workers \ {w} : leg'[v] = leg[v],
           Len(strings'[w]) = slot.end - 1, IsSaid(w, slot)'
    PROVE  WritingInv'
<1>1. /\ w \in Planned /\ slot \in slots[w]
      /\ \A s \in slots[w] : s \in written[w] <=> s.end <= slot.start
  BY BeforeWriting
<1>2. /\ slots' = slots /\ job' = job /\ Past(w)' = Past(w)
  BY DEF vars, Past
<1>3. DOMAIN written = Workers /\ written' = [written EXCEPT ![w] = written[w] \cup {slot}]
  BY DEF WritingInv, Close
<1>4. /\ DOMAIN written' = Workers /\ written'[w] = written[w] \cup {slot}
      /\ \A v \in Workers \ {w} : written'[v] = written[v]
  BY <1>3
<1> DEFINE p == [end |-> slot.end, to |-> slot.to]
<1>5. p \in Past(w) /\ p.end = slot.end
  BY <1>1 DEF Past
<1> HIDE DEF p
<1>6. ASSUME NEW s \in slots[w] PROVE s \in written'[w] <=> s.end <= slot.end
  <2>1. /\ s.start \in Nat /\ s.end \in Nat /\ s.start < s.end
        /\ slot.start \in Nat /\ slot.end \in Nat /\ slot.start < slot.end
        /\ s = slot \/ s.end <= slot.start \/ slot.end <= s.start
    BY <1>1, SlotFacts
  <2> QED  BY <1>1, <1>4, <2>1
<1>7. UpTo(w, p)'
  BY <1>2, <1>5, <1>6 DEF UpTo
<1>8. ASSUME NEW s \in written'[w] PROVE s \in slots'[w] /\ IsSaid(w, s)'
  <2>1. CASE s = slot
    BY <1>1, <1>2, <2>1
  <2>2. CASE s \in written[w]
    <3>1. s \in slots[w] /\ IsSaid(w, s)
      BY <1>1, <2>2 DEF WritingInv, WrittenInOrder
    <3>2. strings[w] \in Seq(Strings) /\ strings'[w] \in Seq(Strings)
      BY DEF WritingInv
    <3>3. IsSaid(w, s)'
      BY <1>2, <3>1, <3>2, SlotStaysSaid
    <3> QED  BY <1>2, <3>1, <3>3
  <2> QED  BY <1>4, <2>1, <2>2
<1>9. WrittenInOrder(w)'
  BY <1>2, <1>5, <1>7, <1>8 DEF WrittenInOrder
<1> QED  BY <1>1, <1>4, <1>9, OthersStayWritten

LEMMA RepeatFacts ==
    ASSUME NEW n \in Nat, NEW x \in Strings
    PROVE  /\ Repeat(n, x) \in Seq(Strings) /\ Len(Repeat(n, x)) = n
           /\ \A i \in 1 .. n : Repeat(n, x)[i] = x
<1>1. Repeat(n, x) = [i \in 1 .. n |-> x]
  BY DEF Repeat
<1>2. Repeat(n, x) \in Seq(Strings)
  BY <1>1
<1>3. Len(Repeat(n, x)) = n /\ \A i \in 1 .. n : Repeat(n, x)[i] = x
  BY <1>1
<1> QED  BY <1>2, <1>3

(* The strings that are written are those of the times from the first on.  *)
LEMMA WrittenFrom ==
    ASSUME NEW w \in Workers, strings \in [Workers -> Seq(Strings)],
           NEW new \in Seq(Strings), Write(w, new), NEW a \in Nat, 1 <= a, NEW b \in Nat,
           Len(strings[w]) = a - 1, a + Len(new) = b
    PROVE  /\ Len(strings'[w]) = b - 1
           /\ \A t \in a .. b - 1 : t - a + 1 \in 1 .. Len(new) /\ strings'[w][t] = new[t - a + 1]
<1>1. /\ Len(strings'[w]) = Len(strings[w]) + Len(new)
      /\ \A i \in 1 .. Len(new) : strings'[w][Len(strings[w]) + i] = new[i]
  BY WriteGrows
<1>2. Len(new) \in Nat
  OBVIOUS
<1>3. ASSUME NEW t \in a .. b - 1
      PROVE  t - a + 1 \in 1 .. Len(new) /\ Len(strings[w]) + (t - a + 1) = t
  BY <1>2
<1> QED  BY <1>1, <1>2, <1>3

(* One lemma per way to write.                                             *)
LEMMA StayIsWritten ==
    ASSUME PlanInv, WritingInv, NEW w \in Workers, NEW slot \in slots[w], WriteStay(w, slot),
           UNCHANGED vars
    PROVE  WritingInv'
<1> DEFINE x == [act |-> "stay"]
           n == slot.end - slot.start
           new == Repeat(n, x)
<1>1. /\ NextToWrite(w, slot) /\ slot.act = "stay"
      /\ Write(w, new) /\ Close(w, slot) /\ leg' = leg
  BY DEF WriteStay
<1>2. /\ leg[w] = 1 /\ Len(strings[w]) = slot.start - 1
  BY <1>1, BeforeWriting
<1>3. slot.start \in Nat /\ slot.end \in Nat /\ 1 <= slot.start /\ slot.start < slot.end
  BY SlotFacts
<1>4. x \in Strings /\ n \in Nat /\ slot.start + n = slot.end
  BY <1>3 DEF Strings
<1>5. strings \in [Workers -> Seq(Strings)] /\ DOMAIN leg = Workers
  BY DEF WritingInv
<1> HIDE DEF x, n
<1>6. new \in Seq(Strings) /\ Len(new) = n /\ \A i \in 1 .. n : new[i] = x
  BY <1>4, RepeatFacts
<1> HIDE DEF new
<1>7. /\ strings' \in [Workers -> Seq(Strings)] /\ Grows(w)
      /\ \A v \in Workers \ {w} : strings'[v] = strings[v]
  BY <1>1, <1>5, <1>6, WriteGrows
<1>8. /\ Len(strings'[w]) = slot.end - 1
      /\ \A t \in slot.start .. slot.end - 1 :
            t - slot.start + 1 \in 1 .. n /\ strings'[w][t] = new[t - slot.start + 1]
  <2>1. slot.start + Len(new) = slot.end
    BY <1>4, <1>6
  <2>2. Write(w, new) /\ new \in Seq(Strings) /\ Len(strings[w]) = slot.start - 1
    BY <1>1, <1>2, <1>6
  <2>3. slot.start \in Nat /\ slot.end \in Nat /\ 1 <= slot.start
    BY <1>3
  <2>4. /\ Len(strings'[w]) = slot.end - 1
        /\ \A t \in slot.start .. slot.end - 1 :
              t - slot.start + 1 \in 1 .. Len(new) /\ strings'[w][t] = new[t - slot.start + 1]
    BY <1>5, <2>1, <2>2, <2>3, WrittenFrom
  <2> QED  BY <1>6, <2>4
<1>9. \A t \in slot.start .. slot.end - 1 : strings'[w][t] = [act |-> "stay"]
  BY <1>6, <1>8 DEF x
<1>10. IsSaid(w, slot)'
  <2>1. slot.end - 1 <= Len(strings'[w])
    BY <1>3, <1>8
  <2>2. slot.act \notin Jobs
    BY <1>1, PlannerAssumption
  <2> QED  BY <1>1, <1>9, <2>1, <2>2 DEF IsSaid
<1> QED  BY <1>1, <1>2, <1>5, <1>7, <1>8, <1>10, ClosesSlot

LEMMA ProductGrows ==
    ASSUME NEW i \in Nat, NEW k \in Nat, NEW l \in Nat, i <= k
    PROVE  i * l \in Nat /\ k * l \in Nat /\ i * l <= k * l
<1>1. PICK d \in Nat : k = i + d
  <2>1. k - i \in Nat /\ k = i + (k - i)
    OBVIOUS
  <2> QED  BY <2>1
<1>2. i * l \in Nat /\ d * l \in Nat
  OBVIOUS
<1>3. k * l = i * l + d * l
  BY <1>1
<1> QED  BY <1>2, <1>3

(* The quotient that is rounded up.                                        *)
LEMMA RoundsUp ==
    ASSUME NEW n \in Nat \ {0}, NEW l \in Nat \ {0}, NEW e \in Nat \ {0},
           e = (n + l - 1) \div l
    PROVE  (e - 1) * l < n /\ n <= e * l
<1>1. n + l - 1 \in Nat
  OBVIOUS
<1>2. PICK m \in Nat : m = n + l - 1
  BY <1>1
<1>3. l * e <= m /\ m < l * e + l
  BY <1>2
<1>4. e * l = l * e /\ (e - 1) * l = l * e - l /\ l * e \in Nat
  OBVIOUS
<1> QED  BY <1>2, <1>3, <1>4

(* The turns an execution takes: as long as there are tasks left, with the *)
(* whole workload in all but the last.                                     *)
LEMMA ExecutionFacts ==
    ASSUME job \in JobLists, NEW j \in Jobs, NEW w \in Workers
    PROVE  /\ ExecutionTime(j, w) \in Nat \ {0} /\ job[j].tasks \in Nat \ {0}
           /\ Workload[w] \in Nat \ {0}
           /\ {i \in 1 .. job[j].tasks : (i - 1) * Workload[w] < job[j].tasks}
              = 1 .. ExecutionTime(j, w)
           /\ \A i \in 1 .. ExecutionTime(j, w) :
                 /\ Tasks(j, w, i) \in Nat /\ 1 <= Tasks(j, w, i) /\ Tasks(j, w, i) <= Workload[w]
                 /\ (i - 1) * Workload[w] + Tasks(j, w, i)
                    = IF i < ExecutionTime(j, w) THEN i * Workload[w] ELSE job[j].tasks
<1> DEFINE n == job[j].tasks
           l == Workload[w]
           e == ExecutionTime(j, w)
<1>1. n \in Nat \ {0} /\ l \in Nat \ {0}
  BY PlannerAssumption
<1>2. e \in Nat \ {0} /\ e = (n + l - 1) \div l
  BY ExecutionTakesTime DEF ExecutionTime
<1>3. \A i : Tasks(j, w, i) = IF l < n - (i - 1) * l THEN l ELSE n - (i - 1) * l
  BY DEF Tasks
<1> HIDE DEF n, l, e
<1>4. (e - 1) * l < n /\ n <= e * l
  BY <1>1, <1>2, RoundsUp
<1>5. ASSUME NEW i \in Nat \ {0}, i <= e
      PROVE  (i - 1) * l \in Nat /\ (i - 1) * l < n
  <2>1. i - 1 \in Nat /\ e - 1 \in Nat /\ i - 1 <= e - 1 /\ l \in Nat
    BY <1>1, <1>2, <1>5
  <2>2. (i - 1) * l \in Nat /\ (e - 1) * l \in Nat /\ (i - 1) * l <= (e - 1) * l
    BY <2>1, ProductGrows
  <2> QED  BY <1>1, <1>4, <2>2
<1>6. ASSUME NEW i \in Nat, i >= e + 1 PROVE ~((i - 1) * l < n)
  <2>1. i - 1 \in Nat /\ e \in Nat /\ e <= i - 1 /\ l \in Nat
    BY <1>1, <1>2, <1>6
  <2>2. (i - 1) * l \in Nat /\ e * l \in Nat /\ e * l <= (i - 1) * l
    BY <2>1, ProductGrows
  <2> QED  BY <1>1, <1>4, <2>2
<1>7. e <= n
  <2>1. (e - 1) * 1 <= (e - 1) * l
    <3>1. e - 1 \in Nat /\ l - 1 \in Nat
      BY <1>1, <1>2
    <3>2. (e - 1) * (l - 1) \in Nat
      BY <3>1
    <3>3. (e - 1) * l = (e - 1) + (e - 1) * (l - 1)
      BY <1>1, <1>2
    <3> QED  BY <3>1, <3>2, <3>3
  <2>2. (e - 1) * l \in Int
    BY <1>1, <1>2
  <2> QED  BY <1>1, <1>2, <1>4, <2>1, <2>2
<1>8. {i \in 1 .. n : (i - 1) * l < n} = 1 .. e
  <2>1. ASSUME NEW i \in 1 .. n, (i - 1) * l < n PROVE i \in 1 .. e
    <3>1. ~(i >= e + 1)
      BY <1>6, <2>1
    <3> QED  BY <1>2, <3>1
  <2>2. ASSUME NEW i \in 1 .. e PROVE i \in 1 .. n /\ (i - 1) * l < n
    <3>1. i \in Nat \ {0} /\ i <= e /\ i \in 1 .. n
      BY <1>1, <1>2, <1>7
    <3> QED  BY <1>5, <3>1
  <2> QED  BY <2>1, <2>2
<1>9. ASSUME NEW i \in 1 .. e
      PROVE  /\ Tasks(j, w, i) \in Nat /\ 1 <= Tasks(j, w, i) /\ Tasks(j, w, i) <= l
             /\ (i - 1) * l + Tasks(j, w, i) = IF i < e THEN i * l ELSE n
  <2>1. i \in Nat \ {0} /\ i <= e
    BY <1>2
  <2>2. (i - 1) * l \in Nat /\ (i - 1) * l < n
    BY <1>5, <2>1
  <2>3. i * l = (i - 1) * l + l
    BY <1>1, <2>1
  <2>4. CASE i < e
    <3>1. i + 1 \in Nat \ {0} /\ i + 1 <= e /\ (i + 1) - 1 = i
      BY <1>2, <2>1, <2>4
    <3>2. i * l < n
      BY <1>5, <3>1
    <3>3. PICK x \in Nat : x = (i - 1) * l
      BY <2>2
    <3>4. l < n - (i - 1) * l
      BY <1>1, <2>3, <3>2, <3>3
    <3>5. Tasks(j, w, i) = l
      BY <1>3, <3>4
    <3> QED  BY <1>1, <2>3, <2>4, <3>5
  <2>5. CASE ~(i < e)
    <3>1. i = e
      BY <1>2, <2>1, <2>5
    <3>2. PICK x \in Nat : x = (i - 1) * l
      BY <2>2
    <3>3. ~(l < n - x) /\ n - x \in Nat /\ 1 <= n - x /\ n - x <= l
      BY <1>1, <1>4, <2>2, <2>3, <3>1, <3>2
    <3>4. Tasks(j, w, i) = n - x
      BY <1>3, <3>2, <3>3
    <3>5. x + (n - x) = n
      BY <1>1
    <3> QED  BY <2>5, <3>2, <3>3, <3>4, <3>5
  <2> QED  BY <2>4, <2>5
<1> QED  BY <1>1, <1>2, <1>8, <1>9 DEF n, l, e

LEMMA ExecutionIsWritten ==
    ASSUME PlanInv, WritingInv, NEW w \in Workers, NEW slot \in slots[w],
           WriteExecution(w, slot), UNCHANGED vars
    PROVE  WritingInv'
<1> DEFINE e == ExecutionTime(slot.act, w)
           rounds == {i \in 1 .. job[slot.act].tasks :
                          (i - 1) * Workload[w] < job[slot.act].tasks}
           x(i) == [act |-> "execute", job |-> slot.act, tasks |-> Tasks(slot.act, w, i)]
           new == [i \in rounds |-> x(i)]
<1>1. /\ NextToWrite(w, slot) /\ slot.act \in Jobs /\ slot.act # "move" /\ slot.act # "stay"
      /\ Write(w, new) /\ Close(w, slot) /\ leg' = leg
  BY PlannerAssumption DEF WriteExecution
<1>2. leg[w] = 1 /\ Len(strings[w]) = slot.start - 1
  BY <1>1, BeforeWriting
<1>3. slot.start \in Nat /\ slot.end \in Nat /\ 1 <= slot.start /\ slot.start < slot.end
  BY SlotFacts
<1>4. slot.end = slot.start + e
  BY <1>1, SlotFacts DEF IsTrue, IsJobSlot
<1>5. /\ e \in Nat \ {0} /\ rounds = 1 .. e
      /\ \A i \in 1 .. e : Tasks(slot.act, w, i) \in Nat
  <2>1. job \in JobLists
    BY DEF PlanInv, IInv, TypeOK
  <2> QED  BY <1>1, <2>1, ExecutionFacts
<1>6. strings \in [Workers -> Seq(Strings)] /\ DOMAIN leg = Workers
  BY DEF WritingInv
<1>7. \A i \in 1 .. e : x(i) \in Strings
  <2> TAKE i \in 1 .. e
  <2>1. Tasks(slot.act, w, i) \in Int
    BY <1>5
  <2> HIDE DEF e
  <2> QED  BY <1>1, <2>1 DEF Strings
<1> HIDE DEF e, rounds
<1>8. new = [i \in 1 .. e |-> x(i)]
  BY <1>5
<1> HIDE DEF x, new
<1>9. new \in Seq(Strings)
  BY <1>5, <1>7, <1>8
<1>10. Len(new) = e /\ \A i \in 1 .. e : new[i] = x(i)
  BY <1>5, <1>8
<1>11. /\ strings' \in [Workers -> Seq(Strings)] /\ Grows(w)
       /\ \A v \in Workers \ {w} : strings'[v] = strings[v]
  BY <1>1, <1>6, <1>9, WriteGrows
<1>12. /\ Len(strings'[w]) = slot.end - 1
       /\ \A t \in slot.start .. slot.end - 1 :
             t - slot.start + 1 \in 1 .. e /\ strings'[w][t] = new[t - slot.start + 1]
  <2>1. slot.start + Len(new) = slot.end
    BY <1>4, <1>10
  <2>2. Write(w, new) /\ new \in Seq(Strings) /\ Len(strings[w]) = slot.start - 1
    BY <1>1, <1>2, <1>9
  <2>3. slot.start \in Nat /\ slot.end \in Nat /\ 1 <= slot.start
    BY <1>3
  <2>4. /\ Len(strings'[w]) = slot.end - 1
        /\ \A t \in slot.start .. slot.end - 1 :
              t - slot.start + 1 \in 1 .. Len(new) /\ strings'[w][t] = new[t - slot.start + 1]
    BY <1>6, <2>1, <2>2, <2>3, WrittenFrom
  <2> QED  BY <1>10, <2>4
<1>13. \A t \in slot.start .. slot.end - 1 : strings'[w][t] = x(t - slot.start + 1)
  BY <1>10, <1>12
<1>14. IsSaid(w, slot)'
  <2>1. slot.end - 1 <= Len(strings'[w])
    BY <1>3, <1>12
  <2>2. \A i : Tasks(slot.act, w, i)' = Tasks(slot.act, w, i)
    BY DEF vars, Tasks
  <2>3. \A t \in slot.start .. slot.end - 1 :
            strings'[w][t] = [act |-> "execute", job |-> slot.act,
                              tasks |-> Tasks(slot.act, w, t - slot.start + 1)]
    BY <1>13 DEF x
  <2> QED  BY <1>1, <2>1, <2>2, <2>3 DEF IsSaid
<1> QED  BY <1>1, <1>2, <1>6, <1>11, <1>12, <1>14, ClosesSlot

LEMMA RoadIsWritten ==
    ASSUME PlanInv, WritingInv, NEW w \in Workers, NEW slot \in slots[w],
           WriteRoad(w, slot), UNCHANGED vars
    PROVE  WritingInv'
<1>0. PICK n : n = leg[w]
  OBVIOUS
<1> DEFINE d == Distance(Stop(slot, n), Stop(slot, n + 1))
           x == [act |-> "move", to |-> Stop(slot, n + 1)]
           new == Repeat(d, x)
<1>1. /\ NextToWrite(w, slot) /\ slot.act = "move" /\ n < LastStop(slot)
      /\ Write(w, new) /\ leg' = [leg EXCEPT ![w] = n + 1] /\ written' = written
  BY <1>0 DEF WriteRoad, LastStop, Stop
<1>2. /\ w \in Planned /\ n \in 1 .. LastStop(slot) /\ Len(strings[w]) = Reached(slot, n) - 1
      /\ RoadsAreSaid(w, slot, n)
      /\ \A s \in slots[w] : s \in written[w] <=> s.end <= slot.start
      /\ \E p \in Past(w) : p.end = slot.start
  BY <1>0, <1>1, BeforeWriting
<1>3. /\ slot.start \in Nat /\ slot.end \in Nat /\ 1 <= slot.start /\ slot.start < slot.end
      /\ slot.from \in Vertices /\ slot.to \in Vertices
      /\ slot.end = slot.start + Distance(slot.from, slot.to)
  BY <1>1, SlotFacts, MovesAreLong
<1>4. /\ LastStop(slot) \in Nat
      /\ \A i \in 1 .. LastStop(slot) :
            /\ Stop(slot, i) \in Vertices
            /\ Reached(slot, i) \in Nat /\ slot.start <= Reached(slot, i)
      /\ \A i \in 1 .. LastStop(slot) - 1 :
            /\ Distance(Stop(slot, i), Stop(slot, i + 1)) \in Nat \ {0}
            /\ Reached(slot, i + 1)
               = Reached(slot, i) + Distance(Stop(slot, i), Stop(slot, i + 1))
  BY <1>3, MoveFacts
<1>5. strings \in [Workers -> Seq(Strings)] /\ DOMAIN leg = Workers /\ DOMAIN written = Workers
  BY DEF WritingInv
<1>6. /\ n \in Nat /\ n + 1 \in 2 .. LastStop(slot) /\ n \in 1 .. LastStop(slot) - 1
      /\ n \in 1 .. LastStop(slot) /\ n + 1 \in 1 .. LastStop(slot)
  BY <1>1, <1>2, <1>4
<1>7. /\ d \in Nat /\ x \in Strings
      /\ Reached(slot, n) \in Nat /\ 1 <= Reached(slot, n) /\ Reached(slot, n + 1) \in Nat
      /\ Reached(slot, n) + d = Reached(slot, n + 1)
  <2>1. Stop(slot, n + 1) \in Vertices
    BY <1>4, <1>6
  <2>2. x \in Strings
    BY <2>1 DEF Strings
  <2>3. d \in Nat /\ Reached(slot, n) + d = Reached(slot, n + 1)
    BY <1>4, <1>6
  <2>4. Reached(slot, n) \in Nat /\ 1 <= Reached(slot, n) /\ Reached(slot, n + 1) \in Nat
    BY <1>3, <1>4, <1>6
  <2> QED  BY <2>2, <2>3, <2>4
<1> HIDE DEF d, x
<1>8. new \in Seq(Strings) /\ Len(new) = d /\ \A i \in 1 .. d : new[i] = x
  BY <1>7, RepeatFacts
<1> HIDE DEF new
<1>9. /\ strings' \in [Workers -> Seq(Strings)] /\ Grows(w)
      /\ \A v \in Workers \ {w} : strings'[v] = strings[v]
  BY <1>1, <1>5, <1>8, WriteGrows
<1>10. /\ Len(strings'[w]) = Reached(slot, n + 1) - 1
       /\ \A t \in Reached(slot, n) .. Reached(slot, n + 1) - 1 : strings'[w][t] = x
  <2> DEFINE a == Reached(slot, n)
             b == Reached(slot, n + 1)
  <2>1. a \in Nat /\ b \in Nat /\ 1 <= a /\ a + Len(new) = b
    BY <1>7, <1>8
  <2>2. Write(w, new) /\ new \in Seq(Strings) /\ Len(strings[w]) = a - 1
    BY <1>1, <1>2, <1>8
  <2> HIDE DEF a, b
  <2>3. /\ Len(strings'[w]) = b - 1
        /\ \A t \in a .. b - 1 :
              t - a + 1 \in 1 .. Len(new) /\ strings'[w][t] = new[t - a + 1]
    BY <1>5, <2>1, <2>2, WrittenFrom
  <2>4. \A t \in a .. b - 1 : strings'[w][t] = x
    BY <1>8, <2>3
  <2> QED  BY <2>3, <2>4 DEF a, b
<1>11. /\ leg'[w] = n + 1 /\ DOMAIN leg' = Workers
       /\ \A v \in Workers \ {w} : leg'[v] = leg[v]
  BY <1>1, <1>5
<1>12. RoadsAreSaid(w, slot, n)'
  <2>1. strings[w] \in Seq(Strings) /\ strings'[w] \in Seq(Strings)
    BY <1>5, <1>9
  <2>2. n \in Nat /\ \A i \in 1 .. n : Reached(slot, i) \in Nat /\ 1 <= Reached(slot, i)
    <3>1. \A i \in 1 .. n : i \in 1 .. LastStop(slot)
      BY <1>4, <1>6
    <3> QED  BY <1>3, <1>4, <1>6, <3>1
  <2> QED  BY <1>2, <1>9, <2>1, <2>2, RoadsStaySaid
<1>13. RoadsAreSaid(w, slot, n + 1)'
  <2> SUFFICES ASSUME NEW i \in 1 .. n
               PROVE  /\ Reached(slot, i + 1) - 1 <= Len(strings'[w])
                      /\ \A t \in Reached(slot, i) .. Reached(slot, i + 1) - 1 :
                            strings'[w][t] = [act |-> "move", to |-> Stop(slot, i + 1)]
    <3>1. (n + 1) - 1 = n
      BY <1>6
    <3> QED  BY <3>1 DEF RoadsAreSaid, Reached, Stop
  <2>1. CASE i = n
    BY <1>7, <1>10, <2>1 DEF x
  <2>2. CASE i # n
    <3>1. i \in 1 .. n - 1
      BY <1>6, <2>2
    <3> QED  BY <1>12, <3>1 DEF RoadsAreSaid, Reached, Stop
  <2> QED  BY <2>1, <2>2
<1>14. slots' = slots /\ Past(w)' = Past(w) /\ job' = job
  BY DEF vars, Past
<1>15. ASSUME NEW s \in written'[w] PROVE s \in slots'[w] /\ IsSaid(w, s)'
  <2>1. s \in slots[w] /\ IsSaid(w, s)
    BY <1>1, <1>2 DEF WritingInv, WrittenInOrder
  <2>2. strings[w] \in Seq(Strings) /\ strings'[w] \in Seq(Strings)
    BY <1>5, <1>9
  <2> QED  BY <1>9, <1>14, <2>1, <2>2, SlotStaysSaid
<1>16. WrittenInOrder(w)'
  <2>1. PICK p \in Past(w) : p.end = slot.start
    BY <1>2
  <2>2. \A s \in slots'[w] : s \in written'[w] <=> s.end <= p.end
    BY <1>1, <1>2, <1>14, <2>1
  <2>3. /\ slot \in slots'[w] /\ slot.start = p.end /\ slot.act = "move"
        /\ leg'[w] \in 2 .. LastStop(slot)
        /\ Len(strings'[w]) = Reached(slot, leg'[w]) - 1
        /\ RoadsAreSaid(w, slot, leg[w])'
    <3>1. RoadsAreSaid(w, slot, leg[w])'
      BY <1>11, <1>13
    <3> QED  BY <1>1, <1>6, <1>10, <1>11, <1>14, <2>1, <3>1
  <2>4. UpTo(w, p)'
    BY <2>2, <2>3 DEF UpTo, LastStop, Reached, Stop
  <2> QED  BY <1>14, <1>15, <2>4 DEF WrittenInOrder
<1> QED  BY <1>1, <1>2, <1>5, <1>9, <1>11, <1>16, OthersStayWritten

LEMMA MoveIsWritten ==
    ASSUME PlanInv, WritingInv, NEW w \in Workers, NEW slot \in slots[w],
           EndMove(w, slot), UNCHANGED vars
    PROVE  WritingInv'
<1>1. /\ NextToWrite(w, slot) /\ slot.act = "move" /\ leg[w] = LastStop(slot)
      /\ Close(w, slot) /\ leg' = [leg EXCEPT ![w] = 1] /\ strings' = strings
  BY DEF EndMove, LastStop
<1>2. /\ w \in Planned /\ Len(strings[w]) = Reached(slot, leg[w]) - 1
      /\ RoadsAreSaid(w, slot, LastStop(slot))
  BY <1>1, BeforeWriting
<1>3. /\ slot.start \in Nat /\ slot.end \in Nat /\ 1 <= slot.start /\ slot.start < slot.end
      /\ slot.from \in Vertices /\ slot.to \in Vertices
      /\ slot.end = slot.start + Distance(slot.from, slot.to)
  BY <1>1, SlotFacts, MovesAreLong
<1>4. Reached(slot, LastStop(slot)) = slot.end
  BY <1>3, MoveFacts
<1>5. strings \in [Workers -> Seq(Strings)] /\ DOMAIN leg = Workers
  BY DEF WritingInv
<1>6. Grows(w)
  <2>1. Len(strings[w]) \in Nat
    BY <1>5
  <2> QED  BY <1>1, <2>1 DEF Grows
<1>7. Len(strings[w]) = slot.end - 1
  BY <1>1, <1>2, <1>4
<1>8. IsSaid(w, slot)'
  <2>1. slot.end - 1 <= Len(strings'[w])
    BY <1>1, <1>3, <1>7
  <2>2. RoadsAreSaid(w, slot, LastStop(slot))'
    BY <1>1, <1>2 DEF RoadsAreSaid, LastStop, Reached, Stop
  <2>3. slot.act \notin Jobs /\ slot.act # "stay"
    BY <1>1, PlannerAssumption
  <2> QED  BY <1>1, <2>1, <2>2, <2>3 DEF IsSaid
<1>9. /\ leg'[w] = 1 /\ DOMAIN leg' = Workers
      /\ \A v \in Workers \ {w} : leg'[v] = leg[v]
  BY <1>1, <1>5
<1> QED  BY <1>1, <1>5, <1>6, <1>7, <1>8, <1>9, ClosesSlot

LEMMA WritingBegins == OutputInit => WritingInv
<1> SUFFICES ASSUME OutputInit PROVE WritingInv
  OBVIOUS
<1>1. /\ strings = [w \in Workers |-> <<>>] /\ written = [w \in Workers |-> {}]
      /\ leg = [w \in Workers |-> 1] /\ Planned = {}
  BY DEF OutputInit, Init, Planned
<1>2. strings \in [Workers -> Seq(Strings)]
  BY <1>1, EmptySeq
<1>3. \A w \in Workers : Blank(w)
  BY <1>1 DEF Blank
<1> QED  BY <1>1, <1>2, <1>3 DEF WritingInv

(* Planning leaves the schedules that have been made alone.                *)
LEMMA PlanLeaves ==
    ASSUME PlanInv, Next
    PROVE  /\ job' = job /\ (phase # "sort" \/ pending # {})
           /\ \A v \in Planned : v \in Planned' /\ slots'[v] = slots[v]
<1>1. /\ phase = "sort" => worker = Nobody
      /\ phase # "sort" => worker \notin pending
      /\ DOMAIN slots = Workers
  BY DEF PlanInv, IInv, TypeOK
<1>2. ASSUME NEW w \in Workers, NEW new, Assign(w, new), NEW v \in Workers, v # w
      PROVE  slots'[v] = slots[v]
  BY <1>1, <1>2 DEF Assign
<1>3. ASSUME NEW w \in Workers, BeginSchedule(w)
      PROVE  /\ job' = job /\ pending # {}
             /\ \A v \in Planned : v \in Planned' /\ slots'[v] = slots[v]
  BY <1>1, <1>3 DEF BeginSchedule, Planned
<1>4. ASSUME NEW w \in Workers, NEW j \in Jobs, TakeJob(w, j)
      PROVE  /\ job' = job /\ phase # "sort"
             /\ \A v \in Planned : v \in Planned' /\ slots'[v] = slots[v]
  BY <1>2, <1>4 DEF TakeJob, Planned
<1>5. ASSUME NEW w \in Workers, NoJobLeft(w)
      PROVE  /\ job' = job /\ phase # "sort"
             /\ \A v \in Planned : v \in Planned' /\ slots'[v] = slots[v]
  BY <1>5 DEF NoJobLeft, Planned
<1>6. ASSUME NEW w \in Workers, FillMoves(w)
      PROVE  /\ job' = job /\ phase # "sort"
             /\ \A v \in Planned : v \in Planned' /\ slots'[v] = slots[v]
  BY <1>2, <1>6 DEF FillMoves, Planned
<1>7. ASSUME NEW w \in Workers, FillStays(w)
      PROVE  /\ job' = job /\ phase # "sort"
             /\ \A v \in Planned : v \in Planned' /\ slots'[v] = slots[v]
  <2>1. Assign(w, {StayIn(b) : b \in NonEmpty(Blanks(w))}) /\ job' = job /\ phase # "sort"
        /\ worker = w /\ worker' = Nobody /\ pending' = pending
    BY <1>7 DEF FillStays
  <2>2. \A v \in Planned : v \in Workers /\ v # w /\ v \in Planned'
    BY <2>1, PlannerAssumption DEF Planned
  <2> QED  BY <1>2, <2>1, <2>2
<1> QED  BY <1>3, <1>4, <1>5, <1>6, <1>7 DEF Next

LEMMA PlanKeepsWriting ==
    ASSUME PlanInv, PlanInv', WritingInv, Plan
    PROVE  WritingInv'
<1>1. /\ AllWritten /\ Next
      /\ strings' = strings /\ written' = written /\ leg' = leg
  BY DEF Plan, outputVars
<1>2. job' = job /\ \A v \in Planned : v \in Planned' /\ slots'[v] = slots[v]
  BY <1>1, PlanLeaves
<1>3. ASSUME NEW v \in Workers, v \in Planned PROVE WrittenInOrder(v)'
  <2>1. slots'[v] = slots[v] /\ Past(v)' = Past(v)
    BY <1>2, <1>3 DEF Past
  <2>2. \A s, n : RoadsAreSaid(v, s, n)' <=> RoadsAreSaid(v, s, n)
    BY <1>1 DEF RoadsAreSaid, Reached, Stop
  <2>3. \A s : IsSaid(v, s)' <=> IsSaid(v, s)
    BY <1>1, <1>2, <2>2 DEF IsSaid, Tasks, LastStop
  <2>4. \A p : UpTo(v, p)' <=> UpTo(v, p)
    BY <1>1, <2>1, <2>2 DEF UpTo, LastStop, Reached, Stop
  <2>5. WrittenInOrder(v)
    BY <1>3 DEF WritingInv
  <2> QED  BY <1>1, <2>1, <2>3, <2>4, <2>5 DEF WrittenInOrder
<1>4. ASSUME NEW v \in Workers, v \notin Planned, v \in Planned' PROVE WrittenInOrder(v)'
  <2>1. strings[v] = <<>> /\ written[v] = {} /\ leg[v] = 1
    BY <1>4 DEF WritingInv, Blank
  <2> DEFINE p == [end |-> 1, to |-> Home[v]]
  <2>2. p \in Past(v)' /\ p.end = 1
    BY DEF Past
  <2> HIDE DEF p
  <2>3. \A s \in slots'[v] : s.start \in Nat /\ s.end \in Nat /\ 1 <= s.start /\ s.start < s.end
    <3>1. WellFormed(slots'[v])
      BY DEF PlanInv, IInv
    <3> QED  BY <3>1 DEF WellFormed, Day
  <2>4. UpTo(v, p)'
    <3>1. \A s \in slots'[v] : s \in written'[v] <=> s.end <= p.end
      BY <1>1, <2>1, <2>2, <2>3
    <3>2. leg'[v] = 1 /\ Len(strings'[v]) = p.end - 1
      BY <1>1, <2>1, <2>2, EmptySeq
    <3> QED  BY <3>1, <3>2 DEF UpTo
  <2> QED  BY <1>1, <2>1, <2>2, <2>4 DEF WrittenInOrder
<1>5. ASSUME NEW v \in Workers, v \notin Planned, v \notin Planned' PROVE Blank(v)'
  BY <1>1, <1>5 DEF WritingInv, Blank
<1> QED  BY <1>1, <1>2, <1>3, <1>4, <1>5 DEF WritingInv

(* No step but Plan and WriteStrings touches what is written.              *)
LEMMA SameStringsKeep ==
    ASSUME WritingInv, UNCHANGED vars,
           strings' = strings, written' = written, leg' = leg
    PROVE  WritingInv'
<1>1. /\ Planned' = Planned /\ slots' = slots /\ job' = job
      /\ \A v \in Workers : Past(v)' = Past(v)
  BY DEF vars, Planned, Past
<1>2. \A v \in Workers : \A s, n : RoadsAreSaid(v, s, n)' <=> RoadsAreSaid(v, s, n)
  BY DEF RoadsAreSaid, Reached, Stop
<1>3. \A v \in Workers : \A s : IsSaid(v, s)' <=> IsSaid(v, s)
  BY <1>1, <1>2 DEF IsSaid, Tasks, LastStop
<1>4. \A v \in Workers : \A p : UpTo(v, p)' <=> UpTo(v, p)
  BY <1>1, <1>2 DEF UpTo, LastStop, Reached, Stop
<1>5. \A v \in Workers : WrittenInOrder(v)' <=> WrittenInOrder(v)
  BY <1>1, <1>3, <1>4 DEF WrittenInOrder
<1>6. \A v \in Workers : Blank(v)' <=> Blank(v)
  BY DEF Blank
<1> QED  BY <1>1, <1>5, <1>6 DEF WritingInv

---------------------------------------------------------------------------
(* When every schedule is made and written, its strings last for the day.  *)
LEMMA DayIsWritten ==
    ASSUME PlanInv, WritingInv, Done, AllWritten, NEW w \in Workers
    PROVE  /\ Tiled(w) /\ Len(strings[w]) = Tmax
           /\ \A s \in slots[w] : IsSaid(w, s)
<1>1. w \in Planned
  BY PlannerAssumption DEF Done, PlanInv, IInv, Planned
<1>2. written[w] = slots[w] /\ WellFormed(slots[w]) /\ Tiled(w)
  BY <1>1 DEF AllWritten, PlanInv, IInv
<1>3. PICK p \in Past(w) : UpTo(w, p)
  BY <1>1 DEF WritingInv, WrittenInOrder
<1>4. ASSUME NEW s \in slots[w] PROVE s.start # p.end
  <2>1. s.start \in Nat /\ s.end \in Nat /\ s.start < s.end
    BY <1>2, PastFacts
  <2>2. s.end <= p.end
    BY <1>2, <1>3 DEF UpTo
  <2> QED  BY <2>1, <2>2
<1>5. p.end = Tmax + 1
  BY <1>2, <1>4 DEF Tiled
<1>6. Len(strings[w]) = p.end - 1
  BY <1>3, <1>4 DEF UpTo
<1>7. Len(strings[w]) = Tmax
  BY <1>5, <1>6, PlannerAssumption
<1> QED  BY <1>1, <1>2, <1>7 DEF WritingInv, WrittenInOrder

(* A worker that is where a slot begins can begin with it.                 *)
LEMMA SlotBegins ==
    ASSUME PlanInv, NEW w \in Workers, NEW s \in slots[w]
    PROVE  IsAt(s, s.start, [to |-> s.from, left |-> 0])
<1>1. /\ s.start \in Nat /\ s.end \in Nat /\ s.start < s.end
      /\ s.from \in Vertices /\ s.to \in Vertices
  BY SlotFacts
<1>2. ASSUME s.act = "move"
      PROVE  1 \in 1 .. LastStop(s) - 1 /\ OnRoad(s, 1, s.start, [to |-> s.from, left |-> 0])
  <2>1. s.end = s.start + Distance(s.from, s.to)
    BY <1>2, MovesAreLong
  <2>2. /\ LastStop(s) \in Nat /\ LastStop(s) >= 2
        /\ Stop(s, 1) = s.from /\ Reached(s, 1) = s.start
        /\ \A i \in 1 .. LastStop(s) : Reached(s, i) \in Nat
        /\ \A i \in 1 .. LastStop(s) - 1 :
              /\ Distance(Stop(s, i), Stop(s, i + 1)) \in Nat \ {0}
              /\ Reached(s, i + 1) = Reached(s, i) + Distance(Stop(s, i), Stop(s, i + 1))
    BY <1>1, <2>1, MoveFacts
  <2>3. 1 \in 1 .. LastStop(s) - 1
    BY <2>2
  <2>4. Reached(s, 1) < Reached(s, 1 + 1)
    <3>1. PICK d \in Nat \ {0} : Reached(s, 1 + 1) = s.start + d
      BY <2>2, <2>3
    <3> QED  BY <1>1, <2>2, <3>1
  <2> QED  BY <1>1, <2>2, <2>3, <2>4 DEF OnRoad
<1> QED  BY <1>1, <1>2 DEF IsAt

(* On a road, a worker comes nearer to its end, and then to the next road. *)
LEMMA RoadGoesOn ==
    ASSUME PlanInv, NEW w \in Workers, NEW s \in slots[w], s.act = "move",
           NEW t \in Nat, NEW p, NEW i \in 1 .. LastStop(s) - 1, OnRoad(s, i, t, p),
           NEW x, x = [act |-> "move", to |-> Stop(s, i + 1)]
    PROVE  /\ CanMove(p, x)
           /\ t + 1 < s.end => \E k \in 1 .. LastStop(s) - 1 : OnRoad(s, k, t + 1, After(p, x))
           /\ t + 1 >= s.end => After(p, x) = [to |-> s.to, left |-> 0]
<1>1. /\ s.start \in Nat /\ s.end \in Nat /\ s.start < s.end
      /\ s.from \in Vertices /\ s.to \in Vertices
      /\ s.end = s.start + Distance(s.from, s.to)
  BY SlotFacts, MovesAreLong
<1>2. /\ LastStop(s) \in Nat /\ LastStop(s) >= 2
      /\ Stop(s, LastStop(s)) = s.to /\ Reached(s, LastStop(s)) = s.end
      /\ \A k \in 1 .. LastStop(s) : Reached(s, k) \in Nat /\ Reached(s, k) <= s.end
      /\ \A k \in 1 .. LastStop(s) - 1 :
            /\ IsRoad(Stop(s, k), Stop(s, k + 1))
            /\ Distance(Stop(s, k), Stop(s, k + 1)) \in Nat \ {0}
            /\ Reached(s, k + 1) = Reached(s, k) + Distance(Stop(s, k), Stop(s, k + 1))
  BY <1>1, MoveFacts
<1> DEFINE a == Reached(s, i)
           b == Reached(s, i + 1)
           d == Distance(Stop(s, i), Stop(s, i + 1))
           there == Stop(s, i + 1)
           q == [to |-> there, left |-> b - (t + 1)]
<1>3. i \in 1 .. LastStop(s) /\ i + 1 \in 1 .. LastStop(s)
  BY <1>2
<1>4. /\ a \in Nat /\ b \in Nat /\ d \in Nat \ {0} /\ b = a + d /\ b <= s.end
      /\ a <= t /\ t < b
  BY <1>2, <1>3 DEF OnRoad
<1>5. IF t = a THEN p = [to |-> Stop(s, i), left |-> 0] ELSE p = [to |-> there, left |-> b - t]
  BY DEF OnRoad
<1>6. CanMove(p, x) /\ After(p, x) = q
  <2>1. CASE t = a
    <3>1. p.left = 0 /\ p.to = Stop(s, i) /\ x.to = there /\ x.act = "move"
      BY <1>5, <2>1
    <3>2. d - 1 = b - (t + 1)
      BY <1>4, <2>1
    <3>3. After(p, x) = [to |-> there, left |-> d - 1]
      BY <3>1 DEF After
    <3>4. IsRoad(Stop(s, i), there)
      BY <1>2
    <3> QED  BY <3>1, <3>2, <3>3, <3>4 DEF CanMove
  <2>2. CASE t # a
    <3>1. p = [to |-> there, left |-> b - t] /\ x.to = there /\ x.act = "move"
      BY <1>5, <2>2
    <3>2. b - t > 0 /\ (b - t) - 1 = b - (t + 1)
      BY <1>4
    <3>3. After(p, x) = [to |-> there, left |-> (b - t) - 1]
      BY <3>1, <3>2 DEF After
    <3> QED  BY <3>1, <3>2, <3>3 DEF CanMove
  <2> QED  BY <2>1, <2>2
<1>7. ASSUME t + 1 < b PROVE t + 1 < s.end /\ OnRoad(s, i, t + 1, q)
  <2>1. t + 1 < s.end /\ a <= t + 1 /\ t + 1 # a
    BY <1>1, <1>4, <1>7
  <2>2. q = [to |-> there, left |-> b - (t + 1)]
    OBVIOUS
  <2> HIDE DEF q
  <2> QED  BY <1>7, <2>1, <2>2 DEF OnRoad
<1>8. ASSUME t + 1 >= b, i + 1 = LastStop(s)
      PROVE  t + 1 >= s.end /\ q = [to |-> s.to, left |-> 0]
  <2>1. b = s.end /\ there = s.to
    BY <1>2, <1>8
  <2>2. t + 1 = s.end /\ b - (t + 1) = 0
    BY <1>4, <1>8, <2>1
  <2> HIDE DEF b, there
  <2> QED  BY <1>1, <2>1, <2>2
<1>9. ASSUME t + 1 >= b, i + 1 # LastStop(s)
      PROVE  /\ t + 1 < s.end /\ i + 1 \in 1 .. LastStop(s) - 1
             /\ OnRoad(s, i + 1, t + 1, q)
  <2>1. i + 1 \in 1 .. LastStop(s) - 1 /\ (i + 1) + 1 \in 1 .. LastStop(s)
    BY <1>2, <1>3, <1>9
  <2>2. PICK e \in Nat \ {0} : Reached(s, (i + 1) + 1) = b + e
    BY <1>2, <2>1
  <2>3. Reached(s, (i + 1) + 1) \in Nat /\ Reached(s, (i + 1) + 1) <= s.end
    BY <1>2, <2>1
  <2>4. t + 1 = b /\ b - (t + 1) = 0
    BY <1>4, <1>9
  <2>5. t + 1 < Reached(s, (i + 1) + 1)
    BY <1>4, <2>2, <2>4
  <2> HIDE DEF b
  <2>6. q = [to |-> Stop(s, i + 1), left |-> 0]
    BY <2>4
  <2>7. OnRoad(s, i + 1, t + 1, q)
    BY <1>4, <2>4, <2>5, <2>6 DEF OnRoad, b
  <2> QED  BY <1>1, <1>4, <2>1, <2>3, <2>5, <2>7
<1> QED
  <2> HIDE DEF q, b
  <2>1. CASE t + 1 < b
    BY <1>1, <1>6, <1>7, <2>1
  <2>2. CASE ~(t + 1 < b) /\ i + 1 = LastStop(s)
    BY <1>1, <1>4, <1>6, <1>8, <2>2
  <2>3. CASE ~(t + 1 < b) /\ i + 1 # LastStop(s)
    BY <1>1, <1>4, <1>6, <1>9, <2>3
  <2> QED  BY <2>1, <2>2, <2>3

(* A turn within a slot: the worker can follow its string, stays in the    *)
(* slot until the last turn of it and is then where the slot ends.         *)
LEMMA TurnInSlot ==
    ASSUME PlanInv, NEW w \in Workers, NEW s \in slots[w], IsSaid(w, s),
           turn \in Nat, IsAt(s, turn, place[w])
    PROVE  LET x == strings[w][turn]
           IN  /\ CanFollow(w, place[w], x)
               /\ turn + 1 < s.end => IsAt(s, turn + 1, After(place[w], x))
               /\ turn + 1 >= s.end => After(place[w], x) = [to |-> s.to, left |-> 0]
               /\ \A j \in Jobs : ExecutedBy(x, j) = IF s.act = j
                                                     THEN Tasks(j, w, turn - s.start + 1) ELSE 0
<1> DEFINE x == strings[w][turn]
<1>1. /\ s.start \in Nat /\ s.end \in Nat /\ 1 <= s.start /\ s.start < s.end
      /\ s.act \in Jobs \cup {"move", "stay"} /\ IsTrue(w, s)
  BY SlotFacts
<1>2. s.start <= turn /\ turn < s.end /\ turn \in s.start .. s.end - 1
  BY <1>1 DEF IsAt
<1>3. "move" \notin Jobs /\ "stay" \notin Jobs
  BY PlannerAssumption
<1>4. CASE s.act = "move"
  <2>1. PICK i \in 1 .. LastStop(s) - 1 : OnRoad(s, i, turn, place[w])
    BY <1>4 DEF IsAt
  <2>2. x = [act |-> "move", to |-> Stop(s, i + 1)]
    <3>1. Reached(s, i) <= turn /\ turn < Reached(s, i + 1)
      BY <2>1 DEF OnRoad
    <3>2. Reached(s, i) \in Nat /\ Reached(s, i + 1) \in Nat
      <4>1. /\ s.from \in Vertices /\ s.to \in Vertices
            /\ s.end = s.start + Distance(s.from, s.to)
        BY <1>4, SlotFacts, MovesAreLong
      <4>2. /\ LastStop(s) \in Nat
            /\ \A k \in 1 .. LastStop(s) : Reached(s, k) \in Nat
        BY <1>1, <4>1, MoveFacts
      <4>3. i \in 1 .. LastStop(s) /\ i + 1 \in 1 .. LastStop(s)
        BY <4>2
      <4> QED  BY <4>2, <4>3
    <3>3. turn \in Reached(s, i) .. Reached(s, i + 1) - 1
      BY <3>1, <3>2
    <3>4. RoadsAreSaid(w, s, LastStop(s))
      BY <1>4 DEF IsSaid
    <3> QED  BY <3>3, <3>4 DEF RoadsAreSaid
  <2> HIDE DEF x
  <2>3. /\ CanMove(place[w], x)
        /\ turn + 1 < s.end =>
              \E k \in 1 .. LastStop(s) - 1 : OnRoad(s, k, turn + 1, After(place[w], x))
        /\ turn + 1 >= s.end => After(place[w], x) = [to |-> s.to, left |-> 0]
    BY <1>4, <2>1, <2>2, RoadGoesOn
  <2>4. CanFollow(w, place[w], x)
    BY <2>2, <2>3 DEF CanFollow
  <2>5. turn + 1 < s.end => IsAt(s, turn + 1, After(place[w], x))
    BY <1>1, <1>2, <1>4, <2>3 DEF IsAt
  <2>6. \A j \in Jobs : ExecutedBy(x, j) = 0 /\ s.act # j
    BY <1>3, <1>4, <2>2 DEF ExecutedBy
  <2> QED  BY <2>3, <2>4, <2>5, <2>6 DEF x
<1>5. ASSUME s.act # "move", x.act # "move", s.to = s.from
      PROVE  /\ place[w] = [to |-> s.from, left |-> 0]
             /\ turn + 1 < s.end => IsAt(s, turn + 1, After(place[w], x))
             /\ turn + 1 >= s.end => After(place[w], x) = [to |-> s.to, left |-> 0]
  <2>1. place[w] = [to |-> s.from, left |-> 0] /\ After(place[w], x) = place[w]
    BY <1>5 DEF IsAt, After
  <2> HIDE DEF x
  <2> QED  BY <1>1, <1>2, <1>5, <2>1 DEF IsAt
<1>6. CASE s.act = "stay"
  <2>1. x = [act |-> "stay"] /\ s.to = s.from
    BY <1>1, <1>2, <1>6 DEF IsSaid, IsTrue
  <2> HIDE DEF x
  <2>2. /\ place[w] = [to |-> s.from, left |-> 0]
        /\ turn + 1 < s.end => IsAt(s, turn + 1, After(place[w], x))
        /\ turn + 1 >= s.end => After(place[w], x) = [to |-> s.to, left |-> 0]
    BY <1>5, <1>6, <2>1
  <2>3. CanFollow(w, place[w], x)
    BY <2>1, <2>2 DEF CanFollow
  <2>4. \A j \in Jobs : ExecutedBy(x, j) = 0 /\ s.act # j
    BY <1>3, <1>6, <2>1 DEF ExecutedBy
  <2> QED  BY <2>2, <2>3, <2>4 DEF x
<1>7. CASE s.act \in Jobs
  <2> DEFINE i == turn - s.start + 1
  <2>1. x = [act |-> "execute", job |-> s.act, tasks |-> Tasks(s.act, w, i)]
    BY <1>2, <1>7 DEF IsSaid
  <2>2. IsJobSlot(w, s) /\ s.act # "move" /\ s.act # "stay"
    BY <1>1, <1>3, <1>7 DEF IsTrue
  <2>3. s.to = s.from /\ s.from = job[s.act].vertex /\ s.end = s.start + ExecutionTime(s.act, w)
        /\ job[s.act].opens <= s.start /\ s.end <= job[s.act].closes
        /\ job[s.act].type \in Types[w] /\ ~job[s.act].prior
    BY <2>2 DEF IsJobSlot
  <2>4. job \in JobLists
    BY DEF PlanInv, IInv, TypeOK
  <2>5. /\ ExecutionTime(s.act, w) \in Nat \ {0}
        /\ \A k \in 1 .. ExecutionTime(s.act, w) :
              1 <= Tasks(s.act, w, k) /\ Tasks(s.act, w, k) <= Workload[w]
    BY <1>7, <2>4, ExecutionFacts
  <2>6. i \in 1 .. ExecutionTime(s.act, w)
    BY <1>1, <1>2, <2>3, <2>5
  <2> HIDE DEF x, i
  <2>7. /\ place[w] = [to |-> s.from, left |-> 0]
        /\ turn + 1 < s.end => IsAt(s, turn + 1, After(place[w], x))
        /\ turn + 1 >= s.end => After(place[w], x) = [to |-> s.to, left |-> 0]
    BY <1>5, <2>1, <2>2, <2>3
  <2>8. CanExecute(w, place[w], x)
    <3>1. x.job = s.act /\ x.tasks = Tasks(s.act, w, i)
      BY <2>1
    <3>2. place[w].left = 0 /\ place[w].to = job[s.act].vertex
      BY <2>3, <2>7
    <3>3. job[s.act].opens <= turn /\ turn < job[s.act].closes
      <4>1. job[s.act].opens \in Int /\ job[s.act].closes \in Int
        BY <1>7, <2>4, PlannerAssumption
      <4> QED  BY <1>1, <1>2, <2>3, <4>1
    <3>4. 1 <= x.tasks /\ x.tasks <= Workload[w]
      BY <2>5, <2>6, <3>1
    <3> QED  BY <2>3, <3>1, <3>2, <3>3, <3>4 DEF CanExecute
  <2>9. CanFollow(w, place[w], x)
    BY <2>1, <2>8 DEF CanFollow
  <2>10. \A j \in Jobs : ExecutedBy(x, j) = IF s.act = j THEN Tasks(j, w, i) ELSE 0
    BY <2>1 DEF ExecutedBy
  <2> QED  BY <2>7, <2>9, <2>10 DEF x, i
<1> QED  BY <1>1, <1>4, <1>6, <1>7

(* ... which is where the next one begins, or the end of the day.          *)
LEMMA TurnLeadsOn ==
    ASSUME PlanInv, NEW w \in Workers, NEW s \in slots[w], IsSaid(w, s), Tiled(w),
           turn \in Nat, IsAt(s, turn, place[w])
    PROVE  \/ turn + 1 = Tmax + 1
           \/ \E n \in slots[w] : IsAt(n, turn + 1, After(place[w], strings[w][turn]))
<1> DEFINE q == After(place[w], strings[w][turn])
<1>1. /\ turn + 1 < s.end => IsAt(s, turn + 1, q)
      /\ turn + 1 >= s.end => q = [to |-> s.to, left |-> 0]
  BY TurnInSlot
<1> HIDE DEF q
<1>2. s.start \in Nat /\ s.end \in Nat /\ s.start <= turn /\ turn < s.end
  BY SlotFacts DEF IsAt
<1>3. CASE turn + 1 < s.end
  BY <1>1, <1>3 DEF q
<1>4. CASE ~(turn + 1 < s.end)
  <2>1. turn + 1 = s.end /\ q = [to |-> s.to, left |-> 0]
    BY <1>1, <1>2, <1>4
  <2>2. [end |-> s.end, to |-> s.to] \in Past(w)
    BY DEF Past
  <2>3. CASE s.end = Tmax + 1
    BY <2>1, <2>3
  <2>4. ASSUME NEW n \in slots[w], n.start = s.end, n.from = s.to
        PROVE  IsAt(n, turn + 1, q)
    <3>1. IsAt(n, n.start, [to |-> n.from, left |-> 0])
      BY SlotBegins
    <3> QED  BY <2>1, <2>4, <3>1
  <2>5. s.end = Tmax + 1 \/ \E n \in slots[w] : n.start = s.end /\ n.from = s.to
    <3>1. PICK p \in Past(w) : p = [end |-> s.end, to |-> s.to]
      BY <2>2
    <3>2. p.end = s.end /\ p.to = s.to
      BY <3>1
    <3> QED  BY <3>2 DEF Tiled
  <2> QED  BY <2>3, <2>4, <2>5 DEF q
<1> QED  BY <1>3, <1>4

LEMMA OneSlotOfAJob ==
    ASSUME PlanInv, NEW w \in Workers, NEW s \in slots[w], NEW t \in slots[w],
           s.act \in Jobs, s.act = t.act
    PROVE  s = t
BY DEF PlanInv, JobsHaveOneSlot

(* A turn within a slot adds what the job's execution comes to.            *)
LEMMA TurnExecutes ==
    ASSUME PlanInv, NEW w \in Workers, NEW s \in slots[w], IsSaid(w, s), turn \in Nat,
           IsAt(s, turn, place[w]), NEW j \in Jobs, ExecutedIsRight(w, j), turn' = turn + 1,
           UNCHANGED vars, NEW x, x = strings[w][turn],
           executed'[w][j] = executed[w][j] + ExecutedBy(x, j)
    PROVE  ExecutedIsRight(w, j)'
<1>1. ExecutedBy(x, j) = IF s.act = j THEN Tasks(j, w, turn - s.start + 1) ELSE 0
  BY TurnInSlot
<1>2. s.start \in Nat /\ s.end \in Nat /\ s.start <= turn /\ turn < s.end
  BY SlotFacts DEF IsAt
<1>3. slots' = slots /\ job' = job
  BY DEF vars
<1>4. /\ ExecutionTime(j, w) \in Nat \ {0} /\ job[j].tasks \in Nat \ {0}
      /\ Workload[w] \in Nat \ {0}
      /\ \A i \in 1 .. ExecutionTime(j, w) :
            /\ Tasks(j, w, i) \in Nat
            /\ (i - 1) * Workload[w] + Tasks(j, w, i)
               = IF i < ExecutionTime(j, w) THEN i * Workload[w] ELSE job[j].tasks
  <2>1. job \in JobLists
    BY DEF PlanInv, IInv, TypeOK
  <2> QED  BY <2>1, ExecutionFacts
<1>5. ASSUME \A q \in slots[w] : q.act # j PROVE executed'[w][j] = 0
  BY <1>1, <1>5 DEF ExecutedIsRight
<1>6. ASSUME NEW q \in slots[w], q.act = j
      PROVE  executed'[w][j] = IF turn' <= q.start THEN 0
                               ELSE IF turn' < q.end THEN (turn' - q.start) * Workload[w]
                               ELSE job[j].tasks
  <2>1. q.start \in Nat /\ q.end \in Nat /\ q.start < q.end
        /\ (q = s \/ q.end <= s.start \/ s.end <= q.start)
    BY SlotFacts
  <2>2. executed[w][j] = IF turn <= q.start THEN 0
                         ELSE IF turn < q.end THEN (turn - q.start) * Workload[w]
                         ELSE job[j].tasks
    BY <1>6 DEF ExecutedIsRight
  <2>3. CASE q # s
    <3>1. s.act # j
      BY <1>6, <2>3, OneSlotOfAJob
    <3>2. executed'[w][j] = executed[w][j] + 0
      BY <1>1, <3>1
    <3>3. CASE q.end <= s.start
      BY <1>2, <1>4, <2>1, <2>2, <3>2, <3>3
    <3>4. CASE s.end <= q.start
      BY <1>2, <1>4, <2>1, <2>2, <3>2, <3>4
    <3> QED  BY <2>1, <2>3, <3>3, <3>4
  <2>4. CASE q = s
    <3> DEFINE i == turn - s.start + 1
               e == ExecutionTime(j, w)
               l == Workload[w]
    <3>1. s.end = s.start + e
      <4>1. IsTrue(w, s)
        BY SlotFacts
      <4> QED  BY <1>6, <2>4, <4>1 DEF IsTrue, IsJobSlot
    <3>2. i \in 1 .. e /\ i - 1 = turn - s.start /\ turn' - s.start = i
          /\ (turn' < s.end <=> i < e) /\ ~(turn' <= s.start)
      BY <1>2, <1>4, <3>1
    <3>3. executed'[w][j] = executed[w][j] + Tasks(j, w, i)
      BY <1>1, <1>6, <2>4
    <3>4. executed[w][j] = (i - 1) * l
      <4>1. CASE turn = s.start
        <5>1. i - 1 = 0 /\ executed[w][j] = 0
          BY <1>2, <2>2, <2>4, <4>1
        <5>2. 0 * l = 0
          BY <1>4
        <5> HIDE DEF i, l
        <5> QED  BY <5>1, <5>2
      <4>2. CASE turn # s.start
        <5>1. ~(turn <= s.start)
          BY <1>2, <4>2
        <5> QED  BY <1>2, <2>2, <2>4, <3>2, <5>1
      <4> QED  BY <4>1, <4>2
    <3>5. (i - 1) * l + Tasks(j, w, i) = IF i < e THEN i * l ELSE job[j].tasks
      BY <1>4, <3>2
    <3> HIDE DEF i, e, l
    <3>6. executed'[w][j] = IF i < e THEN i * l ELSE job[j].tasks
      BY <3>3, <3>4, <3>5
    <3> QED  BY <2>4, <3>2, <3>6 DEF l
  <2> QED  BY <2>3, <2>4
<1> QED  BY <1>3, <1>5, <1>6 DEF ExecutedIsRight

(* What holds before the first turn.                                       *)
LEMMA FirstTurn ==
    ASSUME PlanInv, WritingInv, Done, AllWritten, turn = 1, NEW w \in Workers, NothingDone(w)
    PROVE  PlaceIsRight(w) /\ \A j \in Jobs : ExecutedIsRight(w, j)
<1>1. Tiled(w)
  BY DayIsWritten
<1>2. PICK p \in Past(w) : p.end = 1 /\ p.to = Home[w]
  <2>1. [end |-> 1, to |-> Home[w]] \in Past(w)
    BY DEF Past
  <2> QED  BY <2>1
<1>3. 1 # Tmax + 1
  BY PlannerAssumption
<1>4. PICK s \in slots[w] : s.start = 1 /\ s.from = Home[w]
  BY <1>1, <1>2, <1>3 DEF Tiled
<1>5. IsAt(s, s.start, [to |-> s.from, left |-> 0])
  BY SlotBegins
<1>6. PlaceIsRight(w)
  BY <1>4, <1>5 DEF PlaceIsRight, NothingDone
<1>7. ASSUME NEW j \in Jobs PROVE ExecutedIsRight(w, j)
  <2>1. \A s1 \in slots[w] : turn <= s1.start
    BY SlotFacts
  <2>2. executed[w][j] = 0
    BY DEF NothingDone
  <2> QED  BY <2>1, <2>2 DEF ExecutedIsRight
<1> QED  BY <1>6, <1>7

Following(w) == PlaceIsRight(w) /\ \A j \in Jobs : ExecutedIsRight(w, j)

(* At the end of planning and writing, every worker follows its slots.     *)
LEMMA FollowsTheSlots ==
    ASSUME OutputInv, Done, AllWritten, NEW w \in Workers
    PROVE  Following(w)
BY FirstTurn DEF OutputInv, FollowInv, Following

LEMMA TurnIsFollowed ==
    ASSUME OutputInv, Turn, UNCHANGED vars, NEW w \in Workers
    PROVE  Following(w)'
<1>1. /\ PlanInv /\ WritingInv /\ Done /\ AllWritten /\ turn <= Tmax /\ turn' = turn + 1
      /\ turn \in Nat
      /\ place' = [v \in Workers |-> After(place[v], strings[v][turn])]
      /\ executed' = [v \in Workers |-> [j \in Jobs |->
                          executed[v][j] + ExecutedBy(strings[v][turn], j)]]
  BY DEF OutputInv, Turn, FollowInv
<1>2. Following(w)
  BY <1>1, FollowsTheSlots
<1>3. /\ Tiled(w) /\ \A s \in slots[w] : IsSaid(w, s)
  BY <1>1, DayIsWritten
<1>4. turn # Tmax + 1
  BY <1>1, PlannerAssumption
<1>5. PICK s \in slots[w] : IsAt(s, turn, place[w])
  BY <1>2, <1>4 DEF Following, PlaceIsRight
<1>6. PlaceIsRight(w)'
  <2>1. \/ turn + 1 = Tmax + 1
        \/ \E n \in slots[w] : IsAt(n, turn + 1, After(place[w], strings[w][turn]))
    BY <1>1, <1>3, <1>5, TurnLeadsOn
  <2>2. place'[w] = After(place[w], strings[w][turn]) /\ slots' = slots
    BY <1>1 DEF vars
  <2> QED  BY <1>1, <2>1, <2>2 DEF PlaceIsRight, IsAt, OnRoad, Reached, Stop, LastStop
<1>7. ASSUME NEW j \in Jobs PROVE ExecutedIsRight(w, j)'
  <2>1. executed'[w][j] = executed[w][j] + ExecutedBy(strings[w][turn], j)
    BY <1>1
  <2>2. ExecutedIsRight(w, j)
    BY <1>2 DEF Following
  <2> QED  BY <1>1, <1>3, <1>5, <2>1, <2>2, TurnExecutes
<1> QED  BY <1>6, <1>7 DEF Following

(***************************************************************************)
(* Planning, writing and following together.                               *)
(***************************************************************************)
LEMMA OutputBegins == OutputInit => OutputInv
<1> SUFFICES ASSUME OutputInit PROVE OutputInv
  OBVIOUS
<1>1. PlanInv
  BY PlanBegins DEF OutputInit
<1>2. WritingInv
  BY WritingBegins
<1>3. turn = 1 /\ 1 \in 1 .. Tmax + 1
  BY PlannerAssumption DEF OutputInit
<1>4. \A w \in Workers : NothingDone(w)
  BY DEF OutputInit, NothingDone
<1> QED  BY <1>1, <1>2, <1>3, <1>4 DEF OutputInv, FollowInv

(* What the planner does with its own variables is a step of the planner.  *)
LEMMA OutputPlans == [OutputNext]_<<vars, outputVars>> => [Next]_vars
BY DEF OutputNext, Plan, WriteStrings, FollowStrings, Finished

LEMMA SameTurnKeeps ==
    ASSUME FollowInv, UNCHANGED vars, written' = written,
           turn' = turn, place' = place, executed' = executed
    PROVE  FollowInv'
<1>1. slots' = slots /\ job' = job /\ Done' = Done /\ AllWritten' = AllWritten
  BY DEF vars, Done, AllWritten, Planned
<1>2. \A w \in Workers : PlaceIsRight(w)' <=> PlaceIsRight(w)
  BY <1>1 DEF PlaceIsRight, IsAt, OnRoad, Reached, Stop, LastStop
<1>3. \A w \in Workers : \A j \in Jobs : ExecutedIsRight(w, j)' <=> ExecutedIsRight(w, j)
  BY <1>1 DEF ExecutedIsRight
<1>4. \A w \in Workers : NothingDone(w)' <=> NothingDone(w)
  BY DEF NothingDone
<1> QED  BY <1>1, <1>2, <1>3, <1>4 DEF FollowInv

(* The first turn comes after planning and writing.                        *)
LEMMA NothingIsDoneYet ==
    ASSUME FollowInv, ~(Done /\ AllWritten), turn' = turn, place' = place, executed' = executed
    PROVE  FollowInv'
BY DEF FollowInv, NothingDone

LEMMA OutputStep == OutputInv /\ [OutputNext]_<<vars, outputVars>> => OutputInv'
<1> SUFFICES ASSUME OutputInv, [OutputNext]_<<vars, outputVars>> PROVE OutputInv'
  OBVIOUS
<1>1. PlanInv /\ PlanInv' /\ WritingInv /\ FollowInv
  BY OutputPlans, PlanStep DEF OutputInv
<1>2. CASE Plan
  <2>1. WritingInv'
    BY <1>1, <1>2, PlanKeepsWriting
  <2>2. ~Done
    BY <1>1, <1>2, PlanLeaves DEF Plan, Done
  <2>3. FollowInv'
    BY <1>1, <1>2, <2>2, NothingIsDoneYet DEF Plan, outputVars
  <2> QED  BY <1>1, <2>1, <2>3 DEF OutputInv
<1>3. CASE WriteStrings
  <2>0. PICK w \in Workers : \E slot \in slots[w] :
           WriteStay(w, slot) \/ WriteExecution(w, slot) \/ WriteRoad(w, slot) \/ EndMove(w, slot)
    BY <1>3 DEF WriteStrings
  <2>1. PICK slot \in slots[w] :
           WriteStay(w, slot) \/ WriteExecution(w, slot) \/ WriteRoad(w, slot) \/ EndMove(w, slot)
    BY <2>0
  <2>2. UNCHANGED vars
    BY <1>3 DEF WriteStrings
  <2>3. WritingInv'
    BY <1>1, <2>1, <2>2, StayIsWritten, ExecutionIsWritten, RoadIsWritten, MoveIsWritten
  <2>4. NextToWrite(w, slot) /\ turn' = turn /\ place' = place /\ executed' = executed
    BY <2>1 DEF WriteStay, WriteExecution, WriteRoad, EndMove
  <2>5. ~AllWritten
    BY <2>4 DEF NextToWrite, AllWritten
  <2>6. FollowInv'
    BY <1>1, <2>4, <2>5, NothingIsDoneYet
  <2> QED  BY <1>1, <2>3, <2>6 DEF OutputInv
<1>4. CASE FollowStrings
  <2>1. /\ Turn /\ UNCHANGED vars
        /\ strings' = strings /\ written' = written /\ leg' = leg
    BY <1>4 DEF FollowStrings, Turn
  <2>2. WritingInv'
    BY <1>1, <2>1, SameStringsKeep
  <2>3. \A w \in Workers : Following(w)'
    BY <2>1, TurnIsFollowed
  <2>4. turn' \in 1 .. Tmax + 1
    BY <1>1, <2>1, PlannerAssumption DEF FollowInv, Turn
  <2>5. Done' /\ AllWritten'
    BY <2>1 DEF Turn, vars, Done, AllWritten, Planned
  <2> QED  BY <1>1, <2>2, <2>3, <2>4, <2>5 DEF OutputInv, FollowInv, Following
<1>5. CASE UNCHANGED <<vars, outputVars>>
  <2>1. /\ UNCHANGED vars /\ strings' = strings /\ written' = written /\ leg' = leg
        /\ turn' = turn /\ place' = place /\ executed' = executed
    BY <1>5 DEF outputVars
  <2> QED  BY <1>1, <2>1, SameStringsKeep, SameTurnKeeps DEF OutputInv
<1> QED  BY <1>2, <1>3, <1>4, <1>5 DEF OutputNext, Finished

(* At the end of the day, a job has been executed by the worker that has   *)
(* its slot, to the last task.                                             *)
LEMMA DayIsDone ==
    ASSUME OutputInv, Done, AllWritten, turn = Tmax + 1, NEW j \in Jobs
    PROVE  ExecutedOnce(j)
<1> DEFINE by == {w \in Workers : executed[w][j] > 0}
<1>1. PlanInv /\ \A w \in Workers : ExecutedIsRight(w, j)
  BY FollowsTheSlots DEF OutputInv, Following
<1>2. job[j].tasks \in Nat \ {0}
  BY <1>1, PlannerAssumption DEF PlanInv, IInv, TypeOK
<1>3. ASSUME NEW w \in Workers, NEW s \in slots[w], s.act = j
      PROVE  executed[w][j] = job[j].tasks /\ w \in by
  <2>1. /\ s.start \in Nat /\ s.end \in Nat /\ s.start < s.end /\ s.end <= Tmax + 1
        /\ Tmax \in Nat
    BY <1>1, SlotFacts, PlannerAssumption
  <2>2. ~(turn <= s.start) /\ ~(turn < s.end)
    BY <2>1
  <2> QED  BY <1>1, <1>2, <1>3, <2>2 DEF ExecutedIsRight
<1>4. ASSUME NEW w \in by PROVE \E s \in slots[w] : s.act = j
  <2> SUFFICES ASSUME \A s \in slots[w] : s.act # j PROVE FALSE
    OBVIOUS
  <2>1. executed[w][j] = 0
    BY <1>1 DEF ExecutedIsRight
  <2> QED  BY <2>1
<1>5. \A w \in by : w \in Workers
  OBVIOUS
<1> HIDE DEF by
<1>6. by # {} <=> j \in reserved
  <2>1. ASSUME NEW w \in by PROVE j \in reserved
    <3>1. PICK s \in slots[w] : s.act = j
      BY <1>4
    <3>2. IsTrue(w, s)
      BY <1>1, <1>5, SlotFacts
    <3> QED  BY <3>1, <3>2 DEF IsTrue, IsJobSlot
  <2>2. ASSUME j \in reserved PROVE by # {}
    BY <1>1, <1>3, <2>2 DEF PlanInv, JobsHaveOneSlot
  <2> QED  BY <2>1, <2>2
<1>7. ASSUME NEW w \in by PROVE by = {w} /\ executed[w][j] = job[j].tasks
  <2>1. PICK s \in slots[w] : s.act = j
    BY <1>4
  <2>2. ASSUME NEW v \in by PROVE v = w
    <3>1. PICK t \in slots[v] : t.act = j
      BY <1>4
    <3> QED  BY <1>1, <1>5, <2>1, <3>1 DEF PlanInv, JobsHaveOneSlot
  <2> QED  BY <1>3, <1>5, <2>1, <2>2
<1> QED  BY <1>6, <1>7 DEF ExecutedOnce, by

LEMMA ScriptsAreFollowed == OutputInv => ScriptsCanBeFollowed
<1> SUFFICES ASSUME OutputInv, Done, AllWritten
             PROVE  /\ \A w \in Workers : Len(strings[w]) = Tmax
                    /\ turn <= Tmax =>
                          \A w \in Workers : CanFollow(w, place[w], strings[w][turn])
                    /\ turn = Tmax + 1 => \A j \in Jobs : ExecutedOnce(j)
  BY DEF ScriptsCanBeFollowed
<1>1. PlanInv /\ WritingInv /\ turn \in Nat
  BY DEF OutputInv, FollowInv
<1>2. \A w \in Workers : Len(strings[w]) = Tmax /\ \A s \in slots[w] : IsSaid(w, s)
  BY <1>1, DayIsWritten
<1>3. ASSUME turn <= Tmax, NEW w \in Workers PROVE CanFollow(w, place[w], strings[w][turn])
  <2>1. turn # Tmax + 1
    BY <1>1, <1>3, PlannerAssumption
  <2>2. PICK s \in slots[w] : IsAt(s, turn, place[w])
    BY <2>1, FollowsTheSlots DEF Following, PlaceIsRight
  <2> QED  BY <1>1, <1>2, <2>2, TurnInSlot
<1> QED  BY <1>2, <1>3, DayIsDone

(* The program with its output makes its plans as the planner does: what   *)
(* is proved of Spec holds of OutputSpec.                                  *)
THEOREM OutputMakesPlans == OutputSpec => Spec
<1>1. OutputInit => Init
  BY DEF OutputInit
<1> QED  BY <1>1, OutputPlans, PTL DEF OutputSpec, Spec

(* What the slots stand for, what the strings say and where that leads a   *)
(* worker is the inductive invariant of the program with its output.       *)
THEOREM OutputInductive == OutputSpec => []OutputInv
BY OutputBegins, OutputStep, PTL DEF OutputSpec

(* The strings that runForA prints last for the day and can be followed,   *)
(* turn by turn, by every worker, and each job whose slot was reserved is  *)
(* executed to its last task, by one worker; no other job is begun.        *)
THEOREM PlannerScriptsCanBeFollowed == OutputSpec => []ScriptsCanBeFollowed
BY OutputInductive, ScriptsAreFollowed, PTL

(***************************************************************************)
(* The turns are those of a day of the contest. At every turn, not at the  *)
(* end alone, a worker has executed of its jobs no more than their tasks,  *)
(* and of the others' jobs nothing.                                        *)
(***************************************************************************)
Tables ==
    /\ DOMAIN place = Workers
    /\ executed = [w \in Workers |-> [j \in Jobs |-> executed[w][j]]]

LEMMA TablesStay == Tables /\ [OutputNext]_<<vars, outputVars>> => Tables'
<1> SUFFICES ASSUME Tables, [OutputNext]_<<vars, outputVars>> PROVE Tables'
  OBVIOUS
<1>1. CASE place' = place /\ executed' = executed
  BY <1>1 DEF Tables
<1>2. CASE Turn
  BY <1>2 DEF Turn, Tables
<1> QED
  BY <1>1, <1>2 DEF OutputNext, Plan, WriteStrings, WriteStay, WriteExecution, WriteRoad, EndMove,
                    FollowStrings, Finished, outputVars

(* What ExecutedIsRight comes to, at any time t of the day.                *)
LEMMA ExecutionIsWithin ==
    ASSUME PlanInv, NEW w \in Workers, NEW j \in Jobs, NEW t \in 1 .. Tmax + 1, NEW e,
           (\A s \in slots[w] : s.act # j) => e = 0,
           \A s \in slots[w] : s.act = j =>
              e = IF t <= s.start THEN 0
                  ELSE IF t < s.end THEN (t - s.start) * Workload[w]
                  ELSE job[j].tasks
    PROVE  /\ e \in Nat /\ e <= job[j].tasks
           /\ t = Tmax + 1 => e \in {0, job[j].tasks}
<1>1. job \in JobLists
  BY DEF PlanInv, IInv, TypeOK
<1>2. /\ ExecutionTime(j, w) \in Nat \ {0} /\ job[j].tasks \in Nat \ {0}
      /\ Workload[w] \in Nat \ {0}
      /\ {i \in 1 .. job[j].tasks : (i - 1) * Workload[w] < job[j].tasks} = 1 .. ExecutionTime(j, w)
  BY <1>1, ExecutionFacts
<1>3. CASE \A s \in slots[w] : s.act # j
  BY <1>2, <1>3
<1>4. ASSUME NEW s \in slots[w], s.act = j
      PROVE  /\ e \in Nat /\ e <= job[j].tasks
             /\ t = Tmax + 1 => e \in {0, job[j].tasks}
  <2>1. /\ s.start \in Nat /\ s.end \in Nat /\ s.start < s.end /\ s.end <= Tmax + 1
        /\ IsTrue(w, s) /\ Tmax \in Nat
    BY SlotFacts, PlannerAssumption
  <2>2. s.end = s.start + ExecutionTime(j, w)
    BY <1>4, <2>1 DEF IsTrue, IsJobSlot
  <2>3. CASE t <= s.start
    BY <1>2, <1>4, <2>3
  <2>4. CASE ~(t <= s.start) /\ t < s.end
    <3>1. PICK k \in Nat : k = t - s.start
      BY <2>1, <2>4
    <3>2. k + 1 \in 1 .. ExecutionTime(j, w)
      BY <1>2, <2>1, <2>2, <2>4, <3>1
    <3>3. (k + 1 - 1) * Workload[w] < job[j].tasks /\ k + 1 - 1 = k
      BY <1>2, <3>2
    <3>4. e = k * Workload[w] /\ k * Workload[w] \in Nat
      BY <1>2, <1>4, <2>4, <3>1
    <3>5. t # Tmax + 1
      BY <2>1, <2>4
    <3> QED  BY <1>2, <3>3, <3>4, <3>5
  <2>5. CASE ~(t <= s.start) /\ ~(t < s.end)
    BY <1>2, <1>4, <2>5
  <2> QED  BY <2>3, <2>4, <2>5
<1> QED  BY <1>3, <1>4

(* A worker in a slot is at a vertex or on the way to one.                 *)
LEMMA PlacesAreVertices ==
    ASSUME PlanInv, NEW w \in Workers, NEW s \in slots[w], NEW t \in Nat, NEW p, IsAt(s, t, p)
    PROVE  p.to \in Vertices /\ p.left \in Nat
<1>1. /\ s.start \in Nat /\ s.end \in Nat /\ s.start < s.end
      /\ s.from \in Vertices /\ s.to \in Vertices
  BY SlotFacts
<1>2. CASE s.act # "move"
  BY <1>1, <1>2 DEF IsAt
<1>3. CASE s.act = "move"
  <2>1. s.end = s.start + Distance(s.from, s.to)
    BY <1>3, MovesAreLong
  <2>2. /\ LastStop(s) \in Nat
        /\ \A i \in 1 .. LastStop(s) : Stop(s, i) \in Vertices /\ Reached(s, i) \in Nat
    BY <1>1, <2>1, MoveFacts
  <2>3. PICK i \in 1 .. LastStop(s) - 1 : OnRoad(s, i, t, p)
    BY <1>3 DEF IsAt
  <2>4. i \in 1 .. LastStop(s) /\ i + 1 \in 1 .. LastStop(s)
    BY <2>2
  <2> QED  BY <2>2, <2>3, <2>4 DEF OnRoad
<1> QED  BY <1>2, <1>3

(* Of the steps of a day, the one that the worker's string stands for.     *)
LEMMA WorkerDoesAsItMay ==
    ASSUME OutputInv, Tables, FollowStrings, NEW w \in Workers
    PROVE  \/ Contest!Stays(w) \/ Contest!SetsOut(w) \/ Contest!DrivesOn(w)
           \/ \E j \in Jobs : Contest!Executes(w, j)
<1> DEFINE x == strings[w][turn]
<1>1. /\ PlanInv /\ WritingInv /\ Done /\ AllWritten /\ UNCHANGED vars
      /\ turn \in 1 .. Tmax /\ turn \in Nat /\ turn + 1 \in 1 .. Tmax + 1 /\ turn' = turn + 1
      /\ place' = [v \in Workers |-> After(place[v], strings[v][turn])]
      /\ executed' = [v \in Workers |-> [j \in Jobs |->
                          executed[v][j] + ExecutedBy(strings[v][turn], j)]]
  BY PlannerAssumption DEF OutputInv, FollowStrings, Turn, FollowInv
<1>2. \A v \in Workers : Following(v) /\ Following(v)'
  BY <1>1, FollowsTheSlots, TurnIsFollowed DEF FollowStrings
<1>3. Len(strings[w]) = Tmax /\ \A s \in slots[w] : IsSaid(w, s)
  BY <1>1, DayIsWritten
<1>4. PICK s \in slots[w] : IsAt(s, turn, place[w])
  <2>1. turn # Tmax + 1
    BY <1>1, PlannerAssumption
  <2> QED  BY <1>2, <2>1 DEF Following, PlaceIsRight
<1>5. /\ CanFollow(w, place[w], x)
      /\ \A j \in Jobs : ExecutedBy(x, j) = IF s.act = j THEN Tasks(j, w, turn - s.start + 1) ELSE 0
  BY <1>1, <1>3, <1>4, TurnInSlot
<1>6. place[w].to \in Vertices /\ place[w].left \in Nat
  BY <1>1, <1>4, PlacesAreVertices
<1>7. x \in Strings
  BY <1>1, <1>3 DEF WritingInv
<1>8. place'[w] = After(place[w], x)
  BY <1>1
<1>9. /\ executed[w] = [j \in Jobs |-> executed[w][j]]
      /\ executed'[w] = [j \in Jobs |-> executed[w][j] + ExecutedBy(x, j)]
  BY <1>1 DEF Tables
<1> HIDE DEF x
<1>10. ASSUME NEW v \in Workers, NEW j \in Jobs
       PROVE  /\ executed[v][j] \in Nat /\ executed'[v][j] \in Nat
              /\ executed'[v][j] <= job[j].tasks
  <2>0. PlanInv
    BY <1>1
  <2>1. slots' = slots /\ job' = job
    BY <1>1 DEF vars
  <2>2. ExecutedIsRight(v, j) /\ ExecutedIsRight(v, j)'
    BY <1>2 DEF Following
  <2>3. turn \in 1 .. Tmax + 1
    BY DEF OutputInv, FollowInv
  <2>4. executed[v][j] \in Nat
    <3>1. /\ (\A q \in slots[v] : q.act # j) => executed[v][j] = 0
          /\ \A q \in slots[v] : q.act = j =>
                executed[v][j] = IF turn <= q.start THEN 0
                                 ELSE IF turn < q.end THEN (turn - q.start) * Workload[v]
                                 ELSE job[j].tasks
      BY <2>2 DEF ExecutedIsRight
    <3>2. PICK t \in 1 .. Tmax + 1 : t = turn
      BY <2>3
    <3>3. PICK e : e = executed[v][j]
      OBVIOUS
    <3>4. /\ (\A q \in slots[v] : q.act # j) => e = 0
          /\ \A q \in slots[v] : q.act = j =>
                e = IF t <= q.start THEN 0
                    ELSE IF t < q.end THEN (t - q.start) * Workload[v] ELSE job[j].tasks
      BY <3>1, <3>2, <3>3
    <3>5. e \in Nat
      BY <2>0, <3>4, ExecutionIsWithin
    <3> QED  BY <3>3, <3>5
  <2>5. turn' \in 1 .. Tmax + 1
    BY <1>1
  <2>6. /\ (\A q \in slots[v] : q.act # j) => executed'[v][j] = 0
        /\ \A q \in slots[v] : q.act = j =>
              executed'[v][j] = IF turn' <= q.start THEN 0
                                ELSE IF turn' < q.end THEN (turn' - q.start) * Workload[v]
                                ELSE job[j].tasks
    BY <2>1, <2>2 DEF ExecutedIsRight
  <2>7. executed'[v][j] \in Nat /\ executed'[v][j] <= job[j].tasks
    <3>1. PICK t \in 1 .. Tmax + 1 : t = turn'
      BY <2>5
    <3>2. PICK e : e = executed'[v][j]
      OBVIOUS
    <3>3. /\ (\A q \in slots[v] : q.act # j) => e = 0
          /\ \A q \in slots[v] : q.act = j =>
                e = IF t <= q.start THEN 0
                    ELSE IF t < q.end THEN (t - q.start) * Workload[v] ELSE job[j].tasks
      BY <2>6, <3>1, <3>2
    <3>4. e \in Nat /\ e <= job[j].tasks
      BY <2>0, <3>3, ExecutionIsWithin
    <3> QED  BY <3>2, <3>4
  <2> QED  BY <2>4, <2>7
<1>11. ASSUME x.act # "execute" PROVE Contest!ExecutesNothing(w)
  <2>1. \A j \in Jobs : executed[w][j] + ExecutedBy(x, j) = executed[w][j]
    BY <1>10, <1>11 DEF ExecutedBy
  <2> QED  BY <1>9, <2>1 DEF Contest!ExecutesNothing
<1>12. CASE x.act = "stay"
  <2>1. place[w].left = 0 /\ place'[w] = place[w]
    BY <1>5, <1>8, <1>12 DEF CanFollow, After
  <2> QED  BY <1>11, <1>12, <2>1 DEF Contest!Stays, Contest!HasArrived
<1>13. CASE x.act = "move" /\ place[w].left > 0
  <2>1. place[w].left # 0 /\ place'[w] = [place[w] EXCEPT !.left = @ - 1]
    BY <1>8, <1>13 DEF After
  <2> QED  BY <1>11, <1>13, <2>1 DEF Contest!DrivesOn, Contest!HasArrived
<1>14. CASE x.act = "move" /\ ~(place[w].left > 0)
  <2>1. place[w].left = 0 /\ IsRoad(place[w].to, x.to)
    BY <1>5, <1>6, <1>14 DEF CanFollow, CanMove
  <2>2. x.to \in Vertices
    BY <1>7, <1>14 DEF Strings
  <2>3. place'[w] = [to |-> x.to, left |-> Distance(place[w].to, x.to) - 1]
    BY <1>8, <1>14 DEF After
  <2> DEFINE road == <<place[w].to, x.to, Distance(place[w].to, x.to)>>
  <2>4. road \in RoadLengths
    BY <1>6, <2>2 DEF RoadLengths
  <2>5. road[1] = place[w].to /\ road[2] = x.to /\ road[3] = Distance(place[w].to, x.to)
    OBVIOUS
  <2> HIDE DEF road
  <2>6. road \in {r \in RoadLengths : IsRoad(r[1], r[2])}
    BY <2>1, <2>4, <2>5
  <2> QED  BY <1>11, <1>14, <2>1, <2>3, <2>5, <2>6 DEF Contest!SetsOut, Contest!HasArrived
<1>15. CASE x.act = "execute"
  <2>1. x.job \in Jobs /\ x.tasks \in Int
    BY <1>7, <1>15 DEF Strings
  <2>2. PICK j \in Jobs : j = x.job
    BY <2>1
  <2>3. /\ place[w].left = 0 /\ place[w].to = job[j].vertex /\ place'[w] = place[w]
        /\ job[j].opens <= turn /\ turn < job[j].closes
        /\ job[j].type \in Types[w] /\ ~job[j].prior
        /\ x.tasks \in 1 .. Workload[w]
    BY <1>5, <1>8, <1>15, <2>1, <2>2, PlannerAssumption DEF CanFollow, CanExecute, After
  <2>4. executed'[w][j] = executed[w][j] + x.tasks
    BY <1>9, <1>15, <2>2 DEF ExecutedBy
  <2>5. executed[w][j] + x.tasks <= job[j].tasks
    BY <1>10, <2>4
  <2>6. \A k \in Jobs \ {j} : executed[w][k] + ExecutedBy(x, k) = executed[w][k]
    BY <1>10, <2>2 DEF ExecutedBy
  <2>7. executed'[w] = [executed[w] EXCEPT ![j] = @ + x.tasks]
    BY <1>9, <2>4, <2>6
  <2>8. s.act = j
    <3>1. ExecutedBy(x, j) = x.tasks /\ x.tasks # 0
      BY <1>15, <2>2, <2>3 DEF ExecutedBy
    <3> QED  BY <1>5, <3>1
  <2>9. ASSUME NEW v \in Workers \ {w} PROVE executed'[v][j] = 0
    <3>1. \A q \in slots[v] : q.act # j
      BY <1>1, <2>8 DEF PlanInv, JobsHaveOneSlot
    <3>2. slots' = slots /\ ExecutedIsRight(v, j)'
      BY <1>1, <1>2 DEF vars, Following
    <3> QED  BY <3>1, <3>2 DEF ExecutedIsRight
  <2>10. Contest!Executes(w, j)
    BY <2>3, <2>5, <2>7, <2>9 DEF Contest!Executes, Contest!HasArrived
  <2> QED  BY <2>10
<1>16. x.act \in {"stay", "move", "execute"}
  BY <1>7 DEF Strings
<1> QED  BY <1>12, <1>13, <1>14, <1>15, <1>16

LEMMA TurnsAreOfTheContest == ASSUME OutputInv, Tables, FollowStrings PROVE Contest!Turn
<1>1. /\ turn <= Tmax /\ turn' = turn + 1 /\ UNCHANGED vars /\ PlanInv
      /\ turn \in Nat /\ turn + 1 \in 1 .. Tmax + 1
  BY PlannerAssumption DEF OutputInv, FollowStrings, Turn, FollowInv
<1>2. DOMAIN place' = Workers /\ DOMAIN executed' = Workers
  BY DEF FollowStrings, Turn
<1>3. ASSUME turn = Tmax, NEW w \in Workers, NEW j \in Jobs PROVE Contest!IsWhole(w, j)
  <2>1. slots' = slots /\ job' = job /\ ExecutedIsRight(w, j)'
    BY <1>1, TurnIsFollowed DEF vars, Following, FollowStrings
  <2>2. /\ (\A q \in slots[w] : q.act # j) => executed'[w][j] = 0
        /\ \A q \in slots[w] : q.act = j =>
              executed'[w][j] = IF turn' <= q.start THEN 0
                                ELSE IF turn' < q.end THEN (turn' - q.start) * Workload[w]
                                ELSE job[j].tasks
    BY <2>1 DEF ExecutedIsRight
  <2>3. turn' \in 1 .. Tmax + 1 /\ turn' = Tmax + 1
    BY <1>1, <1>3
  <2>4. PICK t \in 1 .. Tmax + 1 : t = turn' /\ t = Tmax + 1
    BY <2>3
  <2>5. PICK e : e = executed'[w][j]
    OBVIOUS
  <2>6. /\ (\A q \in slots[w] : q.act # j) => e = 0
        /\ \A q \in slots[w] : q.act = j =>
              e = IF t <= q.start THEN 0
                  ELSE IF t < q.end THEN (t - q.start) * Workload[w] ELSE job[j].tasks
    BY <2>2, <2>4, <2>5
  <2>7. e \in {0, job[j].tasks}
    BY <1>1, <2>4, <2>6, ExecutionIsWithin
  <2> QED  BY <2>5, <2>7 DEF Contest!IsWhole
<1>4. job' = job
  BY <1>1 DEF vars
<1> QED  BY <1>1, <1>2, <1>3, <1>4, WorkerDoesAsItMay DEF Contest!Turn

(* The program keeps to a day of the contest: what its workers do, turn by *)
(* turn, is what they may do, with no job shared and none left half done.  *)
THEOREM OutputImplementsContestDay == OutputSpec => ImplementsContestDay
<1>1. OutputInit => Contest!Init /\ Tables
  BY DEF OutputInit, Init, Contest!Init, Tables
<1>2. ASSUME OutputInv, Tables, [OutputNext]_<<vars, outputVars>>
      PROVE  [Contest!Turn]_Contest!vars
  <2>1. CASE Plan
    <3>1. job' = job
      BY <1>2, <2>1, PlanLeaves DEF Plan, OutputInv
    <3> QED  BY <2>1, <3>1 DEF Plan, outputVars, Contest!vars
  <2>2. CASE WriteStrings
    BY <2>2 DEF WriteStrings, WriteStay, WriteExecution, WriteRoad, EndMove, vars, Contest!vars
  <2>3. CASE FollowStrings
    BY <1>2, <2>3, TurnsAreOfTheContest
  <2>4. CASE UNCHANGED <<vars, outputVars>>
    BY <2>4 DEF vars, outputVars, Contest!vars
  <2> QED  BY <1>2, <2>1, <2>2, <2>3, <2>4 DEF OutputNext, Finished
<1> QED
  BY <1>1, <1>2, TablesStay, OutputInductive, PTL DEF OutputSpec, ImplementsContestDay, Contest!Spec
=============================================================================
