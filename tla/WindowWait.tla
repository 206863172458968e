----------------------------- MODULE WindowWait -----------------------------
(* The per-day ceiling under [budget] on_daily_exhausted = "window": the
   pre-flight of services/loop.py that parks a trajectory until the next UTC
   day edge (T15), the pass of services/worker.py that reads the parked clocks
   and resumes (T16), counts an edge or halts (T17), and the daily balance of
   services/budget.py that both ask.  Leases, cancels of running work and
   how recovery finds what it resumes are the subject of WorkerPool; here a
   trajectory in hand is a leased one. *)
EXTENDS Integers, FiniteSets

CONSTANTS
    Trajectories, Workers, NoTrajectory,
    WindowWaitMaxDays,  \* [budget] window_wait_max_days
    Ceiling,            \* [budget] per_day
    StepCost,           \* estimate of a step on the tier it runs on, per trajectory
    WakeCost,           \* estimate on tier_override or policy.default_tier
    DearestTurn,        \* bound: what a turn is charged, its summaries included
    Steps,              \* bound: turns a trajectory needs
    MaxRestarts         \* bound: restarts of the process

ASSUME WindowAssumption ==
    /\ WindowWaitMaxDays \in Nat \ {0}
    /\ {Ceiling, DearestTurn, MaxRestarts} \subseteq Nat /\ Steps \in Nat \ {0}
    /\ {StepCost, WakeCost} \subseteq [Trajectories -> Nat]
    /\ NoTrajectory \notin Trajectories
    /\ IsFiniteSet(Workers) /\ Workers # {}

VARIABLES
    status, parked,   \* the row; window_parked_from is set
    due,              \* window_next_edge_at has passed
    daysWaited,       \* window_days_waited
    done,             \* turns recorded
    unrecorded,       \* its announced turn was left by a process that went away
    spent,            \* debits of the UTC day so far
    pc, hand, todo,   \* a worker, its trajectory, the rest of its parked list
    seen,             \* days_waited in the view it decides on
    late,             \* the day rolled since it read the clock
    edges,            \* history: day edges since the park, up to the maximum
    restarts

row == <<status, parked, due, daysWaited, done, unrecorded, spent>>
memory == <<pc, hand, todo, seen, late>>
vars == <<row, memory, edges, restarts>>

Terminal == {"completed", "halted", "cancelled"}
States == Terminal \cup {"none", "queued", "executing", "awaiting_window"}
Releasing == {"judge", "resume", "keep", "halt"}
Running == {"step", "turn", "park"}
Phases == {"list", "release", "claim", "dead"} \cup Releasing \cup Running

Init ==
    /\ status = [t \in Trajectories |-> "none"]
    /\ parked = [t \in Trajectories |-> FALSE]
    /\ due = [t \in Trajectories |-> FALSE]
    /\ daysWaited = [t \in Trajectories |-> 0]
    /\ done = [t \in Trajectories |-> 0]
    /\ unrecorded = {}
    /\ spent = 0
    /\ pc = [w \in Workers |-> "list"]
    /\ hand = [w \in Workers |-> NoTrajectory]
    /\ todo = [w \in Workers |-> {}]
    /\ seen = [w \in Workers |-> 0]
    /\ late = [w \in Workers |-> FALSE]
    /\ edges = [t \in Trajectories |-> 0]
    /\ restarts = 0
-----------------------------------------------------------------------------
(* Mutant: the compare-and-set takes a cancelled row for a parked one. *)
ParkedOrCancelled(t) == status[t] \in {"awaiting_window", "cancelled"}

Parked(t) == status[t] = "awaiting_window"
(* Mutant: the cheaper question, is the ceiling exceeded already. *)
AdmitsUntilExceeded(cost) == spent <= Ceiling

Admits(cost) == spent + cost <= Ceiling
Goto(w, p) == pc' = [pc EXCEPT ![w] = p]

TakeUp(w, t, p) == hand' = [hand EXCEPT ![w] = t] /\ Goto(w, p)

(* Mutant: the worker keeps in hand what it released or ran. *)
LeaveHolding(w) == Goto(w, "release") /\ UNCHANGED <<hand, todo, seen, late>>

(* The trajectory is out of this worker's hands: on to the next of the parked
   list, or, after a claimed run, to the next pass. *)
Leave(w) ==
    /\ hand' = [hand EXCEPT ![w] = NoTrajectory]
    /\ todo' = [todo EXCEPT ![w] = @ \ {hand[w]}]
    /\ Goto(w, IF hand[w] \in todo[w] THEN "release" ELSE "list")
    /\ seen' = [seen EXCEPT ![w] = 0]
    /\ late' = [late EXCEPT ![w] = FALSE]

Submit(t) ==                                                         \* T1
    /\ status[t] = "none"
    /\ status' = [status EXCEPT ![t] = "queued"]
    /\ UNCHANGED <<parked, due, daysWaited, done, unrecorded, spent, memory, edges, restarts>>

CancelUnleased(t) ==                                                 \* T14
    /\ status[t] \in {"queued", "awaiting_window"}
    /\ status' = [status EXCEPT ![t] = "cancelled"]
    /\ UNCHANGED <<parked, due, daysWaited, done, unrecorded, spent, memory, edges, restarts>>

(* The UTC day rolls: a new daily balance, and every parked clock is due. *)
DayRolls ==
    /\ spent' = 0
    /\ due' = [t \in Trajectories |-> due[t] \/ Parked(t)]
    /\ late' = [w \in Workers |-> late[w] \/ pc[w] \in Releasing]
    /\ edges' = [t \in Trajectories |->
                   IF Parked(t) /\ edges[t] < WindowWaitMaxDays
                     THEN edges[t] + 1 ELSE edges[t]]
    /\ UNCHANGED <<status, parked, daysWaited, done, unrecorded, pc, hand, todo, seen, restarts>>
-----------------------------------------------------------------------------
(* Mutant: no pass looks at the parked clocks. *)
ListNothing(w) ==
    /\ pc[w] = "list"
    /\ Goto(w, "release")
    /\ UNCHANGED <<row, hand, todo, seen, late, edges, restarts>>

ListParked(w) ==
    /\ pc[w] = "list"
    /\ todo' = [todo EXCEPT ![w] = {t \in Trajectories : Parked(t)}]
    /\ Goto(w, "release")
    /\ UNCHANGED <<row, hand, seen, late, edges, restarts>>

ListDone(w) ==
    /\ pc[w] = "release" /\ todo[w] = {}
    /\ Goto(w, "claim")
    /\ UNCHANGED <<row, hand, todo, seen, late, edges, restarts>>

(* release_window reads the clock and the row, then the ledger, then writes. *)
View(w) ==
    /\ pc[w] = "release"
    /\ \E t \in todo[w] :
         IF Parked(t) /\ due[t]
           THEN /\ TakeUp(w, t, "judge")
                /\ seen' = [seen EXCEPT ![w] = daysWaited[t]]
                /\ UNCHANGED todo
           ELSE /\ todo' = [todo EXCEPT ![w] = @ \ {t}]
                /\ UNCHANGED <<pc, hand, seen>>
    /\ UNCHANGED <<row, late, edges, restarts>>

Judge(w) ==
    /\ pc[w] = "judge"
    /\ Goto(w, IF Admits(WakeCost[hand[w]]) /\ seen[w] + 1 <= WindowWaitMaxDays
                 THEN "resume"
               ELSE IF seen[w] + 1 >= WindowWaitMaxDays THEN "halt"
               ELSE "keep")
    /\ UNCHANGED <<row, hand, todo, seen, late, edges, restarts>>

Resume(w) ==                                                         \* T16
    /\ pc[w] = "resume"
    /\ seen[w] + 1 < WindowWaitMaxDays
    /\ Parked(hand[w])
    /\ status' = [status EXCEPT ![hand[w]] = "executing"]
    /\ parked' = [parked EXCEPT ![hand[w]] = FALSE]
    /\ due' = [due EXCEPT ![hand[w]] = FALSE]
    /\ daysWaited' = [daysWaited EXCEPT ![hand[w]] = seen[w] + 1]
    /\ Goto(w, "step")
    /\ UNCHANGED <<done, unrecorded, spent, hand, todo, seen, late, edges, restarts>>

(* The domain's guard of T16 refuses the last edge the release let through. *)
ResumeRaises(w) ==
    /\ pc[w] = "resume"
    /\ seen[w] + 1 >= WindowWaitMaxDays
    /\ TakeUp(w, NoTrajectory, "dead")
    /\ todo' = [todo EXCEPT ![w] = {}]
    /\ seen' = [seen EXCEPT ![w] = 0]
    /\ late' = [late EXCEPT ![w] = FALSE]
    /\ UNCHANGED <<row, edges, restarts>>

(* Mutant: the edge just counted stays due. *)
KeepSameEdge(w) ==
    /\ pc[w] = "keep" /\ Parked(hand[w])
    /\ daysWaited' = [daysWaited EXCEPT ![hand[w]] = seen[w] + 1]
    /\ Leave(w)
    /\ UNCHANGED <<status, parked, due, done, unrecorded, spent, edges, restarts>>

KeepParked(w) ==
    /\ pc[w] = "keep"
    /\ Parked(hand[w])
    /\ due' = [due EXCEPT ![hand[w]] = late[w]]
    /\ daysWaited' = [daysWaited EXCEPT ![hand[w]] = seen[w] + 1]
    /\ Leave(w)
    /\ UNCHANGED <<status, parked, done, unrecorded, spent, edges, restarts>>

HaltWindowWait(w) ==                                                 \* T17
    /\ pc[w] = "halt"
    /\ Parked(hand[w])
    /\ status' = [status EXCEPT ![hand[w]] = "halted"]
    /\ due' = [due EXCEPT ![hand[w]] = late[w]]
    /\ daysWaited' = [daysWaited EXCEPT ![hand[w]] = seen[w] + 1]
    /\ Leave(w)
    /\ UNCHANGED <<parked, done, unrecorded, spent, edges, restarts>>

(* The compare-and-set of the three writes found the row no longer parked. *)
RowMoved(w) ==
    /\ \/ pc[w] \in {"keep", "halt"}
       \/ pc[w] = "resume" /\ seen[w] + 1 < WindowWaitMaxDays
    /\ ~Parked(hand[w])
    /\ Leave(w)
    /\ UNCHANGED <<row, edges, restarts>>
-----------------------------------------------------------------------------
(* T3, or recovery taking back what a restart left executing. *)
Claimable(t) == \/ status[t] = "queued"
                \/ status[t] = "executing" /\ \A w \in Workers : hand[w] # t

(* LoadCoach answered the turn that was under way: recovery records it, and
   charges it, with no pre-flight. *)
TakeUpAnswered(w, t) == t \in unrecorded /\ TakeUp(w, t, "turn")

Claim(w, t) ==
    /\ pc[w] = "claim"
    /\ Claimable(t)
    /\ status' = [status EXCEPT ![t] = "executing"]
    /\ TakeUp(w, t, "step") \/ TakeUpAnswered(w, t)
    /\ unrecorded' = unrecorded \ {t}
    /\ UNCHANGED <<parked, due, daysWaited, done, spent, todo, seen, late, edges, restarts>>

NothingToClaim(w) ==
    /\ pc[w] = "claim"
    /\ \A t \in Trajectories : ~Claimable(t)
    /\ Goto(w, "list")
    /\ UNCHANGED <<row, hand, todo, seen, late, edges, restarts>>

(* The only place a ceiling stops work; the debit is written after the turn. *)
Preflight(w) ==
    /\ pc[w] = "step"
    /\ Goto(w, IF Admits(StepCost[hand[w]]) THEN "turn" ELSE "park")
    /\ UNCHANGED <<row, hand, todo, seen, late, edges, restarts>>

ParkForWindow(w) ==                                                  \* T15
    /\ pc[w] = "park"
    /\ status' = [status EXCEPT ![hand[w]] = "awaiting_window"]
    /\ parked' = [parked EXCEPT ![hand[w]] = TRUE]
    /\ due' = [due EXCEPT ![hand[w]] = FALSE]
    /\ daysWaited' = [daysWaited EXCEPT ![hand[w]] = 0]
    /\ edges' = [edges EXCEPT ![hand[w]] = 0]
    /\ Leave(w)
    /\ UNCHANGED <<done, unrecorded, spent, restarts>>

(* What the answer reports, priced: nothing on a local tier under a ceiling of
   money, and more than was estimated as easily as less. *)
Debit == \E charge \in 0 .. DearestTurn : spent' = spent + charge

Turn(w) ==
    /\ pc[w] = "turn"
    /\ Debit
    /\ done' = [done EXCEPT ![hand[w]] = @ + 1]
    /\ IF done[hand[w]] + 1 < Steps
         THEN Goto(w, "step") /\ UNCHANGED <<status, hand, todo, seen, late>>
         ELSE status' = [status EXCEPT ![hand[w]] = "completed"] /\ Leave(w)  \* T11
    /\ UNCHANGED <<parked, due, daysWaited, unrecorded, edges, restarts>>

(* The turns under way. *)
Admitted == {w \in Workers : pc[w] = "turn"}

(* The process goes away and comes back; the clocks are in the rows. *)
Restart ==
    /\ restarts < MaxRestarts
    /\ restarts' = restarts + 1
    /\ pc' = [w \in Workers |-> "list"]
    /\ hand' = [w \in Workers |-> NoTrajectory]
    /\ todo' = [w \in Workers |-> {}]
    /\ seen' = [w \in Workers |-> 0]
    /\ late' = [w \in Workers |-> FALSE]
    /\ unrecorded' = unrecorded \cup {hand[w] : w \in Admitted}
    /\ UNCHANGED <<status, parked, due, daysWaited, done, spent, edges>>

Release(w) == \/ ListParked(w) \/ ListDone(w) \/ View(w) \/ Judge(w) \/ Resume(w)
              \/ ResumeRaises(w) \/ KeepParked(w) \/ HaltWindowWait(w) \/ RowMoved(w)

Run(w) == \/ NothingToClaim(w) \/ Preflight(w) \/ ParkForWindow(w) \/ Turn(w)
          \/ \E t \in Trajectories : Claim(w, t)

Step(w) == Release(w) \/ Run(w)

Next == \/ \E t \in Trajectories : Submit(t) \/ CancelUnleased(t)
        \/ \E w \in Workers : Step(w)
        \/ DayRolls \/ Restart

Spec == Init /\ [][Next]_vars

(* Threads are scheduled and days pass. *)
Fairness == WF_vars(DayRolls) /\ \A w \in Workers : WF_vars(Step(w))
FairSpec == Spec /\ Fairness
-----------------------------------------------------------------------------
(* Every variable keeps to its type, and a worker has a trajectory in hand
   exactly while it releases or runs one. *)
TypeOK ==
    /\ status \in [Trajectories -> States]
    /\ {parked, due} \subseteq [Trajectories -> BOOLEAN]
    /\ daysWaited \in [Trajectories -> 0 .. WindowWaitMaxDays]
    /\ done \in [Trajectories -> 0 .. Steps]
    /\ unrecorded \subseteq Trajectories
    /\ spent \in Nat
    /\ pc \in [Workers -> Phases]
    /\ hand \in [Workers -> Trajectories \cup {NoTrajectory}]
    /\ todo \in [Workers -> SUBSET Trajectories]
    /\ seen \in [Workers -> 0 .. WindowWaitMaxDays]
    /\ late \in [Workers -> BOOLEAN]
    /\ edges \in [Trajectories -> 0 .. WindowWaitMaxDays]
    /\ restarts \in 0 .. MaxRestarts
    /\ \A w \in Workers : hand[w] # NoTrajectory <=> pc[w] \in Releasing \cup Running

(* With one worker, the default, the clocks make exactly the transitions T15, T16
   and T17 allow, each edge counted by one, in every interleaving of its passes
   with cancels, midnights and restarts. *)
Lifecycle == INSTANCE TrajectoryLifecycle
    WITH leased <- [t \in Trajectories |-> status[t] = "executing"],
         pending <- [t \in Trajectories |-> FALSE],
         minted <- [t \in Trajectories |->
                      status[t] \in {"executing", "awaiting_window", "completed"} \/ parked[t]],
         parkedFrom <- [t \in Trajectories |-> IF parked[t] THEN "executing" ELSE "none"]

ImplementsLifecycle == Lifecycle!Spec

(* A pass over the parked clocks never costs the pool a thread (worker.py: "it
   resumes what the new day admits, counts an edge for what it still refuses,
   and halts what has waited"). *)
ThreadsSurvive == \A w \in Workers : pc[w] # "dead"

(* With one worker, the default, a day edge is counted at most once, however many
   passes and restarts read the clock between two edges.  A second worker may
   count an edge of the wait before this one: release_window compares the status
   and not the clock it read. *)
NoEdgeCountedTwice ==
    \A t \in Trajectories : Parked(t) => daysWaited[t] <= edges[t]

(* The pre-flight admits an estimate and the turn is debited with what it was
   charged, so a day may run past its ceiling ("the brake can fire late",
   lifecycle.md), but only by the turns that were under way: when the last of
   them was admitted the day had room for a step, or they are all there is since
   midnight.  Each worker has one under way, and so had each worker of a process
   that went away. *)
Overrun == Cardinality(Workers) * (1 + restarts) * DearestTurn
OverrunIsBounded ==
    \/ spent <= Overrun
    \/ \E t \in Trajectories : spent + StepCost[t] <= Ceiling + Overrun

(* A park ends, unless the pass that would end it died: each day edge resumes
   it, is counted against it, or finally halts it. *)
WaitEnds ==
    []ThreadsSurvive => \A t \in Trajectories : Parked(t) ~> ~Parked(t)

(* What runs under a daily ceiling comes to an end: waking a trajectory only
   for its next pre-flight to park it again "would spend a day edge per day,
   forever" (lifecycle.md). *)
WorkSettles ==
    []ThreadsSurvive =>
        \A t \in Trajectories : status[t] = "executing" ~> status[t] \in Terminal
=============================================================================
