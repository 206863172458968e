-------------------------- MODULE WindowWaitProofs --------------------------
(***************************************************************************)
(* The window park for every pool, ceiling, price and number of days: the  *)
(* types, how far a day may run past its ceiling, and, for the pool of one *)
(* worker that is the default, that no day edge is counted twice and that  *)
(* the clocks move the row only as the lifecycle allows.                   *)
(*                                                                         *)
(* A second worker makes the last two false: it may decide on a view of a  *)
(* wait that the first has resumed and parked again.                       *)
(***************************************************************************)
EXTENDS WindowWait, FiniteSetTheorems, TLAPS

(* ------------------------ the inductive invariant ------------------------ *)

(* Work is left wherever the trajectory is not completed. *)
Unfinished == \A t \in Trajectories : status[t] # "completed" => done[t] < Steps

(* What a worker runs is executing, and nobody else runs it. *)
Runs(w) == pc[w] \in Running
RunsAlone ==
    \A w \in Workers : Runs(w) =>
       /\ status[hand[w]] = "executing"
       /\ \A v \in Workers : Runs(v) /\ hand[v] = hand[w] => v = w

(* A wait has days left, and the row says it is parked. *)
Waiting ==
    \A t \in Trajectories :
       /\ Parked(t) => parked[t] /\ daysWaited[t] < WindowWaitMaxDays
       /\ status[t] \in {"none", "queued", "executing"} => ~parked[t]

(* What a release has decided from the view it read. *)
Deciding ==
    \A w \in Workers :
       /\ pc[w] \in Releasing => seen[w] < WindowWaitMaxDays
       /\ pc[w] = "keep" => seen[w] + 1 < WindowWaitMaxDays
       /\ pc[w] = "halt" => seen[w] + 1 >= WindowWaitMaxDays
       /\ pc[w] \notin Releasing \cup Running => ~late[w]

IInv == TypeOK /\ Unfinished /\ RunsAlone /\ Waiting /\ Deciding

(* The turns a former process left unrecorded are no more than its workers.  What
   the day was charged, and all its turns under way may yet be charged, stays
   within the bound: an admitted turn found room for a step, and each turn under
   way has a place of its own among the workers' turns. *)
Rooms(r) == Cardinality(Workers) * r
Left == IsFiniteSet(unrecorded) /\ Cardinality(unrecorded) <= Rooms(restarts)
Within(s, n, r) ==
    \/ s + n * DearestTurn <= Rooms(r + 1) * DearestTurn
    \/ \E t \in Trajectories :
          s + StepCost[t] + n * DearestTurn <= Ceiling + Rooms(r + 1) * DearestTurn
Spending == Within(spent, Cardinality(Admitted) + Cardinality(unrecorded), restarts)

(* Of one worker: an edge that is due is not yet counted, and neither is the one
   a release read, nor a further one that came while it decided. *)
Counted ==
    \A t \in Trajectories : Parked(t) =>
       /\ daysWaited[t] <= edges[t]
       /\ due[t] => daysWaited[t] < edges[t]
Sighted ==
    \A w \in Workers : pc[w] \in Releasing /\ Parked(hand[w]) =>
       /\ seen[w] = daysWaited[hand[w]] /\ seen[w] < edges[hand[w]]
       /\ late[w] => seen[w] + 1 < edges[hand[w]] \/ edges[hand[w]] = WindowWaitMaxDays

(* ------------------------------ one step --------------------------------- *)

(* Every variable keeps to its type. *)
LEMMA TypesKept ==
  ASSUME IInv, [Next]_vars
  PROVE  TypeOK'
<1>. USE WindowAssumption DEF IInv
<1>. USE DEF TypeOK, States, Terminal, Phases, Releasing, Running
<1>1. ASSUME NEW t \in Trajectories, Submit(t) \/ CancelUnleased(t) PROVE TypeOK'
  BY <1>1 DEF Submit, CancelUnleased, memory
<1>2. CASE DayRolls
  BY <1>2 DEF DayRolls
<1>3. CASE Restart
  <2>1. \A w \in Admitted : hand[w] \in Trajectories
    BY DEF Admitted
  <2>. QED  BY <1>3, <2>1 DEF Restart
<1>4. ASSUME NEW w \in Workers, Release(w) PROVE TypeOK'
  <2>1. CASE ListParked(w)
    BY <2>1 DEF ListParked, row, Goto
  <2>2. CASE ListDone(w)
    BY <2>2 DEF ListDone, row, Goto
  <2>3. CASE View(w)
    BY <2>3 DEF View, row, TakeUp, TakeUpAnswered, Goto
  <2>4. CASE Judge(w)
    BY <2>4 DEF Judge, row, Goto
  <2>5. CASE Resume(w)
    BY <2>5 DEF Resume, Goto
  <2>6. CASE ResumeRaises(w)
    BY <2>6 DEF ResumeRaises, row, TakeUp, TakeUpAnswered, Goto
  <2>7. CASE KeepParked(w)
    BY <2>7 DEF KeepParked, Leave, Goto, Deciding
  <2>8. CASE HaltWindowWait(w)
    BY <2>8 DEF HaltWindowWait, Leave, Goto, Deciding
  <2>9. CASE RowMoved(w)
    BY <2>9 DEF RowMoved, Leave, Goto, row
  <2>. QED  BY <1>4, <2>1, <2>2, <2>3, <2>4, <2>5, <2>6, <2>7, <2>8, <2>9 DEF Release
<1>5. ASSUME NEW w \in Workers, Run(w) PROVE TypeOK'
  <2>1. CASE NothingToClaim(w)
    BY <2>1 DEF NothingToClaim, row, Goto
  <2>2. CASE Preflight(w)
    BY <2>2 DEF Preflight, row, Goto
  <2>3. CASE ParkForWindow(w)
    BY <2>3 DEF ParkForWindow, Leave, Goto
  <2>4. CASE Turn(w)
    <3>1. hand[w] \in Trajectories /\ done[hand[w]] \in 0 .. Steps - 1
      BY <2>4 DEF Turn, Unfinished, RunsAlone, Runs
    <3>2. spent' \in Nat /\ done' \in [Trajectories -> 0 .. Steps]
      BY <2>4, <3>1 DEF Turn, Debit
    <3>3. CASE done[hand[w]] + 1 < Steps
      BY <2>4, <3>1, <3>2, <3>3 DEF Turn, Goto
    <3>4. CASE ~(done[hand[w]] + 1 < Steps)
      <4>1. /\ status' = [status EXCEPT ![hand[w]] = "completed"]
            /\ hand' = [hand EXCEPT ![w] = NoTrajectory]
            /\ todo' = [todo EXCEPT ![w] = @ \ {hand[w]}]
            /\ pc' = [pc EXCEPT ![w] = IF hand[w] \in todo[w] THEN "release" ELSE "list"]
            /\ seen' = [seen EXCEPT ![w] = 0]
            /\ late' = [late EXCEPT ![w] = FALSE]
            /\ UNCHANGED <<parked, due, daysWaited, unrecorded, edges, restarts>>
        BY <2>4, <3>4 DEF Turn, Leave, Goto
      <4>. QED  BY <3>1, <3>2, <4>1
    <3>. QED  BY <3>3, <3>4
  <2>5. ASSUME NEW t \in Trajectories, Claim(w, t) PROVE TypeOK'
    BY <2>5 DEF Claim, TakeUp, TakeUpAnswered, Goto
  <2>. QED  BY <1>5, <2>1, <2>2, <2>3, <2>4, <2>5 DEF Run
<1>6. CASE UNCHANGED vars
  BY <1>6 DEF vars, row, memory
<1>. QED  BY <1>1, <1>2, <1>3, <1>4, <1>5, <1>6 DEF Next, Step

(* A step of a worker leaves the others as they are. *)
LEMMA OwnMemory ==
  ASSUME IInv, NEW w \in Workers, Step(w), NEW v \in Workers, v # w
  PROVE  pc'[v] = pc[v] /\ hand'[v] = hand[v] /\ seen'[v] = seen[v] /\ late'[v] = late[v]
<1>. USE DEF IInv, TypeOK, Goto, TakeUp, TakeUpAnswered
<1>1. CASE Release(w)
  BY <1>1 DEF Release, ListParked, ListDone, View, Judge, Resume, ResumeRaises, KeepParked,
     HaltWindowWait, RowMoved, Leave
<1>2. CASE Run(w)
  BY <1>2 DEF Run, NothingToClaim, Preflight, ParkForWindow, Turn, Claim, Leave
<1>. QED  BY <1>1, <1>2 DEF Step

(* Who runs what after a step of a worker: what it ran before, what it resumed
   from a park, or what nobody ran. *)
LEMMA NowRuns ==
  ASSUME IInv, NEW w \in Workers, Step(w), Runs(w)'
  PROVE  /\ status'[hand'[w]] = "executing"
         /\ \/ Runs(w) /\ hand'[w] = hand[w]
            \/ Parked(hand'[w])
            \/ status[hand'[w]] = "queued"
            \/ status[hand'[w]] = "executing" /\ \A v \in Workers : hand[v] # hand'[w]
<1>. USE DEF IInv, TypeOK, Goto, TakeUp, TakeUpAnswered, Runs, Running, Releasing
<1>1. CASE Release(w)
  <2>1. Resume(w)
    BY <1>1 DEF Release, ListParked, ListDone, View, Judge, ResumeRaises, KeepParked,
       HaltWindowWait, RowMoved, Leave
  <2>. QED  BY <2>1 DEF Resume
<1>2. CASE NothingToClaim(w) \/ ParkForWindow(w)
  BY <1>2 DEF NothingToClaim, ParkForWindow, Leave
<1>3. CASE Preflight(w)
  BY <1>3 DEF Preflight, row, RunsAlone
<1>4. CASE Turn(w)
  BY <1>4 DEF Turn, RunsAlone, Leave
<1>5. ASSUME NEW t \in Trajectories, Claim(w, t)
      PROVE  /\ status'[hand'[w]] = "executing"
             /\ \/ status[hand'[w]] = "queued"
                \/ status[hand'[w]] = "executing" /\ \A v \in Workers : hand[v] # hand'[w]
  <2>1. hand'[w] = t /\ status'[t] = "executing" /\ Claimable(t)
    BY <1>5 DEF Claim
  <2>. QED  BY <2>1 DEF Claimable
<1>. QED  BY <1>1, <1>2, <1>3, <1>4, <1>5 DEF Step, Run

(* A worker moves no row that another runs. *)
LEMMA OwnRow ==
  ASSUME IInv, NEW w \in Workers, Step(w), NEW v \in Workers, v # w, Runs(v)
  PROVE  status'[hand[v]] = status[hand[v]]
<1>. USE DEF IInv, TypeOK, Goto, TakeUp, TakeUpAnswered
<1>0. status[hand[v]] = "executing" /\ hand[v] \in Trajectories /\ (Runs(w) => hand[w] # hand[v])
  BY DEF RunsAlone, Runs
<1>1. CASE Release(w)
  BY <1>0, <1>1 DEF Release, ListParked, ListDone, View, Judge, Resume, ResumeRaises, KeepParked,
     HaltWindowWait, RowMoved, Parked, row
<1>2. CASE Run(w)
  BY <1>0, <1>2 DEF Run, NothingToClaim, Preflight, ParkForWindow, Turn, Claim, row, Runs, Running
<1>. QED  BY <1>1, <1>2 DEF Step

LEMMA AloneKept ==
  ASSUME IInv, [Next]_vars
  PROVE  RunsAlone'
<1>. USE DEF IInv
<1>1. ASSUME NEW t \in Trajectories, Submit(t) \/ CancelUnleased(t) PROVE RunsAlone'
  BY <1>1 DEF Submit, CancelUnleased, memory, RunsAlone, Runs, TypeOK
<1>2. CASE DayRolls \/ UNCHANGED vars
  BY <1>2 DEF DayRolls, vars, row, memory, RunsAlone, Runs
<1>3. CASE Restart
  BY <1>3 DEF Restart, RunsAlone, Runs, Running
<1>4. ASSUME NEW w \in Workers, Step(w) PROVE RunsAlone'
  <2>1. ASSUME NEW u \in Workers, Runs(u)' PROVE status'[hand'[u]] = "executing"
    BY <1>4, <2>1, NowRuns, OwnMemory, OwnRow DEF Runs, RunsAlone
  <2>2. ASSUME NEW v \in Workers, v # w, Runs(v)', Runs(w)', hand'[v] = hand'[w] PROVE FALSE
    <3>1. Runs(v) /\ hand[v] = hand'[w] /\ status[hand[v]] = "executing"
      BY <1>4, <2>2, OwnMemory DEF Runs, RunsAlone
    <3>. QED  BY <1>4, <2>2, <3>1, NowRuns DEF RunsAlone, Parked
  <2>3. ASSUME NEW u \in Workers, NEW v \in Workers, u # w, v # w, Runs(u)', Runs(v)', hand'[v] = hand'[u]
        PROVE  v = u
    BY <1>4, <2>3, OwnMemory DEF Runs, RunsAlone
  <2>. QED  BY <2>1, <2>2, <2>3 DEF RunsAlone
<1>. QED  BY <1>1, <1>2, <1>3, <1>4 DEF Next

(* What is not completed has steps left. *)
LEMMA UnfinishedKept ==
  ASSUME IInv, [Next]_vars
  PROVE  Unfinished'
<1>. USE DEF IInv, TypeOK
<1>1. ASSUME NEW t \in Trajectories, Submit(t) \/ CancelUnleased(t) PROVE Unfinished'
  BY <1>1 DEF Submit, CancelUnleased, Unfinished
<1>2. CASE DayRolls \/ Restart \/ UNCHANGED vars
  BY <1>2 DEF DayRolls, Restart, vars, row, Unfinished
<1>3. ASSUME NEW w \in Workers, Step(w) PROVE Unfinished'
  <2>1. CASE Release(w)
    BY <2>1 DEF Release, ListParked, ListDone, View, Judge, Resume, ResumeRaises, KeepParked,
       HaltWindowWait, RowMoved, Parked, row, Unfinished
  <2>2. CASE NothingToClaim(w) \/ Preflight(w) \/ ParkForWindow(w) \/ (\E t \in Trajectories : Claim(w, t))
    BY <2>2 DEF NothingToClaim, Preflight, ParkForWindow, Claim, Claimable, row, Unfinished, RunsAlone, Runs, Running
  <2>3. CASE Turn(w)
    <3>1. hand[w] \in Trajectories /\ pc[w] = "turn"
      BY <2>3 DEF Turn, Running
    <3>2. \A t \in Trajectories : done'[t] = IF t = hand[w] THEN done[t] + 1 ELSE done[t]
      BY <2>3, <3>1 DEF Turn
    <3>3. \A t \in Trajectories \ {hand[w]} : status'[t] = status[t]
      BY <2>3 DEF Turn
    <3>4. CASE done[hand[w]] + 1 < Steps
      BY <3>2, <3>3, <3>4 DEF Unfinished
    <3>5. CASE ~(done[hand[w]] + 1 < Steps)
      <4>1. status'[hand[w]] = "completed"
        BY <2>3, <3>1, <3>5 DEF Turn
      <4>. QED  BY <3>2, <3>3, <4>1 DEF Unfinished
    <3>. QED  BY <3>4, <3>5
  <2>. QED  BY <1>3, <2>1, <2>2, <2>3 DEF Step, Run
<1>. QED  BY <1>1, <1>2, <1>3 DEF Next

(* A park starts its clock at nothing, counts only with days left, and ends with
   the row no longer parked. *)
LEMMA WaitingKept ==
  ASSUME IInv, [Next]_vars
  PROVE  Waiting'
<1>. USE WindowAssumption DEF IInv, TypeOK
<1>1. ASSUME NEW t \in Trajectories, Submit(t) \/ CancelUnleased(t) PROVE Waiting'
  BY <1>1 DEF Submit, CancelUnleased, Waiting, Parked
<1>2. CASE DayRolls \/ Restart \/ UNCHANGED vars
  BY <1>2 DEF DayRolls, Restart, vars, row, Waiting, Parked
<1>3. ASSUME NEW w \in Workers, Release(w) PROVE Waiting'
  <2>1. CASE Resume(w)
    BY <2>1 DEF Resume, Waiting, Parked, Releasing
  <2>2. CASE KeepParked(w)
    BY <2>2 DEF KeepParked, Waiting, Parked, Deciding, Releasing
  <2>3. CASE HaltWindowWait(w)
    BY <2>3 DEF HaltWindowWait, Waiting, Parked, Releasing
  <2>4. CASE ListParked(w) \/ ListDone(w) \/ View(w) \/ Judge(w) \/ ResumeRaises(w) \/ RowMoved(w)
    BY <2>4 DEF ListParked, ListDone, View, Judge, ResumeRaises, RowMoved, row, Waiting, Parked
  <2>. QED  BY <1>3, <2>1, <2>2, <2>3, <2>4 DEF Release
<1>4. ASSUME NEW w \in Workers, Run(w) PROVE Waiting'
  <2>1. CASE NothingToClaim(w) \/ Preflight(w)
    BY <2>1 DEF NothingToClaim, Preflight, row, Waiting, Parked
  <2>2. CASE ParkForWindow(w)
    BY <2>2 DEF ParkForWindow, Waiting, Parked, Running
  <2>3. CASE Turn(w)
    <3>1. /\ UNCHANGED <<parked, daysWaited>>
          /\ \A t \in Trajectories : status'[t] \in {status[t], "completed"}
      BY <2>3 DEF Turn
    <3>. QED  BY <3>1 DEF Waiting, Parked
  <2>4. ASSUME NEW t \in Trajectories, Claim(w, t) PROVE Waiting'
    BY <2>4 DEF Claim, Claimable, Waiting, Parked
  <2>. QED  BY <1>4, <2>1, <2>2, <2>3, <2>4 DEF Run
<1>. QED  BY <1>1, <1>2, <1>3, <1>4 DEF Next, Step

(* What one worker may decide. *)
Decides(w) ==
    /\ pc[w] \in Releasing => seen[w] < WindowWaitMaxDays
    /\ pc[w] = "keep" => seen[w] + 1 < WindowWaitMaxDays
    /\ pc[w] = "halt" => seen[w] + 1 >= WindowWaitMaxDays
    /\ pc[w] \notin Releasing \cup Running => ~late[w]

(* A release keeps to the days it read. *)
LEMMA DecidingKept ==
  ASSUME IInv, [Next]_vars
  PROVE  Deciding'
<1>. USE WindowAssumption DEF IInv, TypeOK
<1>0. Deciding <=> \A w \in Workers : Decides(w)
  BY DEF Deciding, Decides
<1>1. ASSUME NEW t \in Trajectories, Submit(t) \/ CancelUnleased(t) PROVE Deciding'
  BY <1>1 DEF Submit, CancelUnleased, memory, Deciding
<1>2. CASE DayRolls \/ UNCHANGED vars
  BY <1>2 DEF DayRolls, vars, memory, Deciding, Releasing, Running
<1>3. CASE Restart
  BY <1>3 DEF Restart, Deciding, Releasing, Running
<1>4. ASSUME NEW w \in Workers, Step(w) PROVE Deciding'
  <2>. USE DEF Goto, TakeUp, TakeUpAnswered, Releasing, Running, Decides
  <2>1. ASSUME Release(w) PROVE Decides(w)'
    <3>1. CASE View(w)
      BY <1>0, <3>1 DEF View, Waiting
    <3>2. CASE Judge(w)
      BY <1>0, <3>2 DEF Judge
    <3>3. CASE ListParked(w) \/ ListDone(w) \/ Resume(w) \/ ResumeRaises(w)
      BY <1>0, <3>3 DEF ListParked, ListDone, Resume, ResumeRaises
    <3>4. CASE KeepParked(w) \/ HaltWindowWait(w) \/ RowMoved(w)
      BY <3>4 DEF KeepParked, HaltWindowWait, RowMoved, Leave
    <3>. QED  BY <2>1, <3>1, <3>2, <3>3, <3>4 DEF Release
  <2>2. ASSUME Run(w) PROVE Decides(w)'
    <3>1. CASE ParkForWindow(w)
      BY <3>1 DEF ParkForWindow, Leave
    <3>2. CASE Turn(w)
      BY <1>0, <3>2 DEF Turn, Leave
    <3>3. CASE NothingToClaim(w) \/ Preflight(w) \/ (\E t \in Trajectories : Claim(w, t))
      BY <1>0, <3>3 DEF NothingToClaim, Preflight, Claim
    <3>. QED  BY <2>2, <3>1, <3>2, <3>3 DEF Run
  <2>3. ASSUME NEW v \in Workers \ {w} PROVE Decides(v)'
    BY <1>0, <1>4, OwnMemory
  <2>4. \A v \in Workers : Decides(v)'
    BY <1>4, <2>1, <2>2, <2>3 DEF Step
  <2>. QED  BY <2>4 DEF Deciding, Decides
<1>. QED  BY <1>1, <1>2, <1>3, <1>4 DEF Next

LEMMA AtFirst == Init => IInv
<1>. SUFFICES ASSUME Init PROVE IInv
  OBVIOUS
<1>. USE WindowAssumption DEF Init
<1>1. TypeOK
  BY DEF TypeOK, States, Phases, Releasing, Running
<1>2. Unfinished /\ RunsAlone /\ Waiting /\ Deciding
  BY DEF Unfinished, RunsAlone, Runs, Waiting, Parked, Deciding, Releasing, Running
<1>. QED  BY <1>1, <1>2 DEF IInv

LEMMA Kept == IInv /\ [Next]_vars => IInv'
BY TypesKept, UnfinishedKept, AloneKept, WaitingKept, DecidingKept DEF IInv

(* The inductive invariant holds in every reachable state. *)
THEOREM Invariance == Spec => []IInv
BY AtFirst, Kept, PTL DEF Spec

(* Every variable keeps to its type, and a worker has a trajectory in hand
   exactly while it releases or runs one, however many workers there are. *)
THEOREM TypeCorrect == Spec => []TypeOK
<1>1. IInv => TypeOK
  BY DEF IInv
<1>. QED  BY <1>1, Invariance, PTL

(* ------------------------------ the ceiling ------------------------------ *)

(* What turns may be charged: more turns no less, one more the dearest. *)
LEMMA Charged ==
  /\ \A n \in Nat : n * DearestTurn \in Nat /\ (n + 1) * DearestTurn = n * DearestTurn + DearestTurn
  /\ \A m, n \in Nat : m <= n => m * DearestTurn <= n * DearestTurn
<1>. DEFINE D == DearestTurn
<1>1. D \in Nat
  BY WindowAssumption
<1>. HIDE DEF D
<1>2. \A n \in Nat : n * D \in Nat /\ (n + 1) * D = n * D + D
  BY <1>1
<1>3. ASSUME NEW m \in Nat, NEW n \in Nat, m <= n PROVE m * D <= n * D
  <2>1. n - m \in Nat /\ n * D = m * D + (n - m) * D
    BY <1>1, <1>3
  <2>2. \A k \in Nat : k * D \in Nat
    BY <1>1
  <2>3. (n - m) * D \in Nat /\ m * D \in Nat /\ n * D \in Nat
    BY <2>1, <2>2
  <2>. QED  BY <2>1, <2>3
<1>. QED  BY <1>2, <1>3 DEF D

(* The places a worker of this process or of an earlier one gives a turn. *)
LEMMA RoomsCounted ==
  /\ Cardinality(Workers) \in Nat \ {0}
  /\ \A r \in Nat : /\ Rooms(r) \in Nat
                    /\ Rooms(r + 1) = Rooms(r) + Cardinality(Workers)
<1>1. Cardinality(Workers) \in Nat \ {0}
  BY WindowAssumption, FS_CardinalityType, FS_EmptySet
<1>. DEFINE K == Cardinality(Workers)
<1>2. \A r : Rooms(r) = K * r
  BY DEF Rooms
<1>3. K \in Nat
  BY <1>1
<1>. HIDE DEF K
<1>4. \A r \in Nat : K * r \in Nat /\ K * (r + 1) = K * r + K
  BY <1>3
<1>5. \A r \in Nat : r + 1 \in Nat
  OBVIOUS
<1>6. \A r \in Nat : Rooms(r) \in Nat /\ Rooms(r + 1) = Rooms(r) + K
  BY <1>2, <1>4
<1>. QED  BY <1>1, <1>6 DEF K

(* A day that is within its bound stays so while what it was charged and what its
   turns under way may be charged do not grow together. *)
LEMMA StaysWithin ==
  ASSUME NEW s \in Nat, NEW n \in Nat, NEW r \in Nat, Within(s, n, r),
         NEW s1 \in Nat, NEW n1 \in Nat, NEW r1 \in Nat,
         s1 + n1 * DearestTurn <= s + n * DearestTurn, r <= r1, r1 <= r + 1
  PROVE  Within(s1, n1, r1)
<1>. DEFINE X == n * DearestTurn
            X1 == n1 * DearestTurn
            B == Rooms(r + 1) * DearestTurn
            B1 == Rooms(r1 + 1) * DearestTurn
<1>1. X \in Nat /\ X1 \in Nat
  BY Charged
<1>2. B \in Nat /\ B1 \in Nat /\ B <= B1
  <2>1. Rooms(r + 1) \in Nat /\ Rooms(r1 + 1) \in Nat /\ Rooms(r + 1) <= Rooms(r1 + 1)
    <3>1. r + 1 \in Nat /\ r1 + 1 \in Nat /\ r1 \in {r, r + 1}
      OBVIOUS
    <3>2. Rooms(r + 1) \in Nat /\ Rooms((r + 1) + 1) \in Nat /\ Cardinality(Workers) \in Nat
          /\ Rooms((r + 1) + 1) = Rooms(r + 1) + Cardinality(Workers)
      BY <3>1, RoomsCounted
    <3>. QED  BY <3>1, <3>2
  <2>. QED  BY <2>1, Charged
<1>3. s1 + X1 <= s + X
  OBVIOUS
<1>4. Within(s, n, r) <=> \/ s + X <= B
                          \/ \E t \in Trajectories : s + StepCost[t] + X <= Ceiling + B
  BY DEF Within
<1>5. Within(s1, n1, r1) <=> \/ s1 + X1 <= B1
                             \/ \E t \in Trajectories : s1 + StepCost[t] + X1 <= Ceiling + B1
  BY DEF Within
<1>. HIDE DEF X, X1, B, B1
<1>6. CASE s + X <= B
  BY <1>1, <1>2, <1>3, <1>5, <1>6
<1>7. ASSUME NEW t \in Trajectories, s + StepCost[t] + X <= Ceiling + B PROVE Within(s1, n1, r1)
  <2>1. StepCost[t] \in Nat /\ Ceiling \in Nat
    BY WindowAssumption
  <2>2. s1 + StepCost[t] + X1 <= Ceiling + B1
    BY <1>1, <1>2, <1>3, <1>7, <2>1
  <2>. QED  BY <1>5, <2>2
<1>. QED  BY <1>4, <1>6, <1>7

(* The turns under way, counted. *)
LEMMA AdmittedCounted ==
  /\ IsFiniteSet(Admitted)
  /\ Cardinality(Admitted) \in 0 .. Cardinality(Workers)
  /\ \A w \in Workers \ Admitted :
       /\ Cardinality(Admitted \cup {w}) = Cardinality(Admitted) + 1
       /\ Cardinality(Admitted) + 1 <= Cardinality(Workers)
  /\ \A w \in Admitted : Cardinality(Admitted \ {w}) = Cardinality(Admitted) - 1
  /\ Cardinality(Admitted) > 0 => Admitted # {}
<1>. Admitted \subseteq Workers /\ IsFiniteSet(Workers)
  BY WindowAssumption DEF Admitted
<1>1. /\ IsFiniteSet(Admitted) /\ Cardinality(Admitted) \in Nat /\ Cardinality(Workers) \in Nat
      /\ Cardinality(Admitted) <= Cardinality(Workers)
  BY FS_Subset, FS_CardinalityType
<1>2. ASSUME NEW w \in Workers \ Admitted
      PROVE  /\ Cardinality(Admitted \cup {w}) = Cardinality(Admitted) + 1
             /\ Cardinality(Admitted) + 1 <= Cardinality(Workers)
  <2>1. Cardinality(Admitted \cup {w}) = Cardinality(Admitted) + 1
    BY <1>1, FS_AddElement
  <2>2. Admitted \cup {w} \in SUBSET Workers
    OBVIOUS
  <2>3. Cardinality(Admitted \cup {w}) <= Cardinality(Workers)
    BY <2>2, FS_Subset
  <2>. QED  BY <2>1, <2>3
<1>3. \A w \in Admitted : Cardinality(Admitted \ {w}) = Cardinality(Admitted) - 1
  BY <1>1, FS_RemoveElement
<1>4. Cardinality(Admitted) > 0 => Admitted # {}
  BY FS_EmptySet
<1>. QED  BY <1>1, <1>2, <1>3, <1>4

(* What a step of a worker makes of the turns under way and the day's debits:
   nothing, one turn more for which the day has room, one less and its debit, or
   one of a former process taken up or given up. *)
LEMMA TurnsUnderWay ==
  ASSUME IInv, NEW w \in Workers, Step(w)
  PROVE  \/ Admitted' = Admitted /\ unrecorded' = unrecorded /\ spent' = spent
         \/ /\ w \notin Admitted /\ Admitted' = Admitted \cup {w}
            /\ unrecorded' = unrecorded /\ spent' = spent
            /\ \E t \in Trajectories : spent + StepCost[t] <= Ceiling
         \/ /\ w \in Admitted /\ Admitted' = Admitted \ {w}
            /\ unrecorded' = unrecorded
            /\ \E charge \in 0 .. DearestTurn : spent' = spent + charge
         \/ /\ Admitted' = Admitted /\ spent' = spent
            /\ \E t \in Trajectories : unrecorded' = unrecorded \ {t}
         \/ /\ w \notin Admitted /\ Admitted' = Admitted \cup {w} /\ spent' = spent
            /\ \E t \in unrecorded : unrecorded' = unrecorded \ {t}
<1>. USE DEF IInv, TypeOK, Goto, TakeUp, TakeUpAnswered
<1>1. \A u \in Workers \ {w} : pc'[u] = pc[u]
  BY OwnMemory
<1>2. Admitted \subseteq Workers /\ \A u \in Workers \ {w} : u \in Admitted' <=> u \in Admitted
  BY <1>1 DEF Admitted
<1>3. ASSUME pc[w] # "turn", pc'[w] # "turn" PROVE Admitted' = Admitted
  BY <1>2, <1>3 DEF Admitted
<1>4. ASSUME pc[w] # "turn", pc'[w] = "turn" PROVE w \notin Admitted /\ Admitted' = Admitted \cup {w}
  BY <1>2, <1>4 DEF Admitted
<1>5. CASE Release(w)
  <2>1. pc[w] # "turn" /\ pc'[w] # "turn" /\ spent' = spent /\ unrecorded' = unrecorded
    BY <1>5 DEF Release, ListParked, ListDone, View, Judge, Resume, ResumeRaises, KeepParked,
       HaltWindowWait, RowMoved, Leave, row
  <2>. QED  BY <1>3, <2>1
<1>6. CASE NothingToClaim(w) \/ ParkForWindow(w)
  <2>1. pc[w] # "turn" /\ pc'[w] # "turn" /\ spent' = spent /\ unrecorded' = unrecorded
    BY <1>6 DEF NothingToClaim, ParkForWindow, Leave, row
  <2>. QED  BY <1>3, <2>1
<1>7. ASSUME NEW t \in Trajectories, Claim(w, t)
      PROVE  \/ Admitted' = Admitted /\ spent' = spent /\ unrecorded' = unrecorded \ {t}
             \/ /\ w \notin Admitted /\ Admitted' = Admitted \cup {w} /\ spent' = spent
                /\ t \in unrecorded /\ unrecorded' = unrecorded \ {t}
  <2>1. /\ pc[w] = "claim" /\ spent' = spent /\ unrecorded' = unrecorded \ {t}
        /\ \/ pc'[w] = "step"
           \/ t \in unrecorded /\ pc'[w] = "turn"
    BY <1>7 DEF Claim
  <2>. QED  BY <1>3, <1>4, <2>1
<1>8. CASE Preflight(w)
  <2>1. CASE Admits(StepCost[hand[w]])
    <3>1. pc[w] # "turn" /\ pc'[w] = "turn" /\ spent' = spent /\ unrecorded' = unrecorded
      BY <1>8, <2>1 DEF Preflight, row
    <3>2. hand[w] \in Trajectories
      BY <1>8 DEF Preflight, Running
    <3>. QED  BY <1>4, <2>1, <3>1, <3>2 DEF Admits
  <2>2. CASE ~Admits(StepCost[hand[w]])
    <3>1. pc[w] # "turn" /\ pc'[w] # "turn" /\ spent' = spent /\ unrecorded' = unrecorded
      BY <1>8, <2>2 DEF Preflight, row
    <3>. QED  BY <1>3, <3>1
  <2>. QED  BY <2>1, <2>2
<1>9. CASE Turn(w)
  <2>1. /\ pc[w] = "turn" /\ pc'[w] # "turn" /\ unrecorded' = unrecorded
        /\ \E charge \in 0 .. DearestTurn : spent' = spent + charge
    BY <1>9 DEF Turn, Debit, Leave
  <2>2. w \in Admitted /\ Admitted' = Admitted \ {w}
    BY <1>2, <2>1 DEF Admitted
  <2>. QED  BY <2>1, <2>2
<1>. QED  BY <1>5, <1>6, <1>7, <1>8, <1>9 DEF Step, Run

(* A restart leaves no more turns unrecorded than its workers had under way. *)
LEMMA TurnsLeft ==
  ASSUME IInv, IsFiniteSet(unrecorded), Restart
  PROVE  /\ Admitted' = {} /\ IsFiniteSet(unrecorded')
         /\ Cardinality(unrecorded') <= Cardinality(unrecorded) + Cardinality(Admitted)
<1>. DEFINE T == {hand[w] : w \in Admitted}
            f == [w \in Admitted |-> hand[w]]
<1>1. Admitted' = {} /\ unrecorded' = unrecorded \cup T
  BY DEF Restart, Admitted
<1>2. f \in Surjection(Admitted, T)
  BY DEF Surjection
<1>3. IsFiniteSet(T) /\ Cardinality(T) <= Cardinality(Admitted)
  <2>. HIDE DEF f, T
  <2>. QED  BY <1>2, AdmittedCounted, FS_Surjection
<1>. HIDE DEF T
<1>4. /\ IsFiniteSet(unrecorded \cup T)
      /\ Cardinality(unrecorded \cup T)
           = Cardinality(unrecorded) + Cardinality(T) - Cardinality(unrecorded \cap T)
  BY <1>3, FS_Union
<1>5. IsFiniteSet(unrecorded \cap T)
  BY <1>3, FS_Intersection
<1>6. /\ {Cardinality(unrecorded), Cardinality(T), Cardinality(unrecorded \cap T)} \subseteq Nat
      /\ Cardinality(Admitted) \in Nat
  BY <1>3, <1>5, AdmittedCounted, FS_CardinalityType
<1>7. Cardinality(unrecorded \cup T) <= Cardinality(unrecorded) + Cardinality(Admitted)
  BY <1>3, <1>4, <1>6
<1>. QED  BY <1>1, <1>4, <1>7

LEMMA SpendingKept ==
  ASSUME IInv, Left, Spending, [Next]_vars
  PROVE  Left' /\ Spending'
<1>. DEFINE a == Cardinality(Admitted)
            u == Cardinality(unrecorded)
<1>0. /\ a \in 0 .. Cardinality(Workers) /\ u \in Nat /\ IsFiniteSet(unrecorded)
      /\ spent \in Nat /\ restarts \in Nat /\ u <= Rooms(restarts) /\ Rooms(restarts) \in Nat
      /\ DearestTurn \in Nat /\ Cardinality(Workers) \in Nat
  BY AdmittedCounted, FS_CardinalityType, RoomsCounted, WindowAssumption DEF Left, IInv, TypeOK
<1>1. Left' <=> IsFiniteSet(unrecorded') /\ Cardinality(unrecorded') <= Rooms(restarts')
  BY DEF Left, Rooms
<1>2. Spending' <=> Within(spent', Cardinality(Admitted') + Cardinality(unrecorded'), restarts')
  BY DEF Spending, Within, Rooms
<1>3. Within(spent, a + u, restarts)
  BY DEF Spending
<1>4. ASSUME Admitted' = Admitted, unrecorded' = unrecorded, restarts' = restarts, spent' \in {0, spent}
      PROVE  Left' /\ Spending'
  <2>1. Within(spent', a + u, restarts)
    <3>1. a + u \in Nat /\ (a + u) * DearestTurn \in Nat
      BY <1>0, Charged
    <3>2. spent' \in Nat /\ spent' + (a + u) * DearestTurn <= spent + (a + u) * DearestTurn
          /\ restarts <= restarts /\ restarts <= restarts + 1
      BY <1>0, <1>4, <3>1
    <3>. QED  BY <1>0, <1>3, <3>1, <3>2, StaysWithin
  <2>. QED  BY <1>0, <1>1, <1>2, <1>4, <2>1
<1>5. ASSUME NEW t \in Trajectories, Submit(t) \/ CancelUnleased(t) PROVE Left' /\ Spending'
  BY <1>4, <1>5 DEF Submit, CancelUnleased, memory, Admitted
<1>6. CASE DayRolls \/ UNCHANGED vars
  BY <1>4, <1>6 DEF DayRolls, vars, row, memory, Admitted
<1>7. CASE Restart
  <2>1. Admitted' = {} /\ IsFiniteSet(unrecorded') /\ Cardinality(unrecorded') <= u + a
    BY <1>0, <1>7, TurnsLeft
  <2>2. spent' = spent /\ restarts' = restarts + 1
    BY <1>7 DEF Restart
  <2>3. Cardinality(Admitted') = 0 /\ Cardinality(unrecorded') \in Nat
    BY <2>1, FS_EmptySet, FS_CardinalityType
  <2>4. Rooms(restarts + 1) = Rooms(restarts) + Cardinality(Workers)
    BY <1>0, RoomsCounted
  <2>5. Left'
    BY <1>0, <1>1, <2>1, <2>2, <2>3, <2>4
  <2>6. Within(spent, Cardinality(unrecorded'), restarts + 1)
    <3>1. a + u \in Nat /\ Cardinality(unrecorded') <= a + u
      BY <1>0, <2>1, <2>3
    <3>2. /\ Cardinality(unrecorded') * DearestTurn <= (a + u) * DearestTurn
          /\ Cardinality(unrecorded') * DearestTurn \in Nat /\ (a + u) * DearestTurn \in Nat
      BY <2>3, <3>1, Charged
    <3>3. /\ spent + Cardinality(unrecorded') * DearestTurn <= spent + (a + u) * DearestTurn
          /\ restarts + 1 \in Nat /\ restarts <= restarts + 1 /\ restarts + 1 <= restarts + 1
      BY <1>0, <3>2
    <3>. QED  BY <1>0, <1>3, <2>3, <3>1, <3>3, StaysWithin
  <2>7. 0 + Cardinality(unrecorded') = Cardinality(unrecorded')
    BY <2>3
  <2>. QED  BY <1>2, <2>2, <2>3, <2>5, <2>6, <2>7
<1>8. ASSUME NEW w \in Workers, Step(w) PROVE Left' /\ Spending'
  <2>0. restarts' = restarts
    BY <1>8 DEF Step, Release, Run, ListParked, ListDone, View, Judge, Resume, ResumeRaises, KeepParked,
       HaltWindowWait, RowMoved, NothingToClaim, Preflight, ParkForWindow, Turn, Claim
  <2>1. CASE Admitted' = Admitted /\ unrecorded' = unrecorded /\ spent' = spent
    BY <1>4, <2>0, <2>1
  <2>2. ASSUME w \notin Admitted, Admitted' = Admitted \cup {w}, unrecorded' = unrecorded, spent' = spent,
               NEW t \in Trajectories, spent + StepCost[t] <= Ceiling
        PROVE  Left' /\ Spending'
    <3>1. Cardinality(Admitted') = a + 1 /\ a + 1 <= Cardinality(Workers)
      BY <2>2, AdmittedCounted
    <3>2. Left'
      BY <1>0, <1>1, <2>0, <2>2
    <3>3. (a + 1) + u \in Nat /\ Rooms(restarts + 1) \in Nat /\ (a + 1) + u <= Rooms(restarts + 1)
      <4>1. Rooms(restarts + 1) = Rooms(restarts) + Cardinality(Workers)
        BY <1>0, RoomsCounted
      <4>. QED  BY <1>0, <3>1, <4>1
    <3>4. /\ ((a + 1) + u) * DearestTurn <= Rooms(restarts + 1) * DearestTurn
          /\ ((a + 1) + u) * DearestTurn \in Nat /\ Rooms(restarts + 1) * DearestTurn \in Nat
      BY <3>3, Charged
    <3>5. StepCost[t] \in Nat /\ Ceiling \in Nat
      BY WindowAssumption
    <3>6. spent + StepCost[t] + ((a + 1) + u) * DearestTurn <= Ceiling + Rooms(restarts + 1) * DearestTurn
      BY <1>0, <2>2, <3>4, <3>5
    <3>7. Within(spent, (a + 1) + u, restarts)
      BY <3>6 DEF Within
    <3>. QED  BY <1>2, <2>0, <2>2, <3>1, <3>2, <3>7
  <2>3. ASSUME w \in Admitted, Admitted' = Admitted \ {w}, unrecorded' = unrecorded,
               NEW charge \in 0 .. DearestTurn, spent' = spent + charge
        PROVE  Left' /\ Spending'
    <3>1. Cardinality(Admitted') = a - 1 /\ a - 1 \in Nat
      BY <1>0, <2>3, AdmittedCounted, FS_CardinalityType, FS_EmptySet
    <3>2. Left'
      BY <1>0, <1>1, <2>0, <2>3
    <3>3. (a - 1) + u \in Nat /\ ((a - 1) + u) + 1 = a + u
      BY <1>0, <3>1
    <3>4. /\ ((a - 1) + u) * DearestTurn \in Nat
          /\ (a + u) * DearestTurn = ((a - 1) + u) * DearestTurn + DearestTurn
      BY <3>3, Charged
    <3>5. spent' \in Nat /\ spent' + ((a - 1) + u) * DearestTurn <= spent + (a + u) * DearestTurn
      BY <1>0, <2>3, <3>4
    <3>6. Within(spent', (a - 1) + u, restarts)
      <4>1. a + u \in Nat /\ restarts <= restarts /\ restarts <= restarts + 1
        BY <1>0
      <4>. QED  BY <1>0, <1>3, <3>3, <3>5, <4>1, StaysWithin
    <3>. QED  BY <1>2, <2>0, <2>3, <3>1, <3>2, <3>6
  <2>4. ASSUME spent' = spent, NEW t \in Trajectories, unrecorded' = unrecorded \ {t},
               \/ Admitted' = Admitted
               \/ w \notin Admitted /\ Admitted' = Admitted \cup {w} /\ t \in unrecorded
        PROVE  Left' /\ Spending'
    <3>1. /\ IsFiniteSet(unrecorded') /\ Cardinality(unrecorded') \in Nat
          /\ Cardinality(unrecorded') <= u
          /\ t \in unrecorded => Cardinality(unrecorded') = u - 1
      <4>1. CASE t \in unrecorded
        <5>1. IsFiniteSet(unrecorded \ {t}) /\ Cardinality(unrecorded \ {t}) = u - 1
          BY <1>0, <4>1, FS_RemoveElement
        <5>2. Cardinality(unrecorded \ {t}) \in Nat
          BY <5>1, FS_CardinalityType
        <5>. QED  BY <1>0, <2>4, <5>1, <5>2
      <4>2. CASE t \notin unrecorded
        <5>1. unrecorded' = unrecorded
          BY <2>4, <4>2
        <5>2. Cardinality(unrecorded') = u
          BY <5>1
        <5>. QED  BY <1>0, <4>2, <5>1, <5>2
      <4>. QED  BY <4>1, <4>2
    <3>2. Cardinality(Admitted') \in Nat /\ Cardinality(Admitted') + Cardinality(unrecorded') <= a + u
      <4>1. CASE Admitted' = Admitted
        BY <1>0, <3>1, <4>1
      <4>2. CASE w \notin Admitted /\ Admitted' = Admitted \cup {w} /\ t \in unrecorded
        <5>1. Cardinality(Admitted') = a + 1 /\ Cardinality(unrecorded') = u - 1
          BY <3>1, <4>2, AdmittedCounted
        <5>. QED  BY <1>0, <5>1
      <4>. QED  BY <2>4, <4>1, <4>2
    <3>3. Left'
      BY <1>0, <1>1, <2>0, <3>1
    <3>. DEFINE n == Cardinality(Admitted') + Cardinality(unrecorded')
    <3>4. n \in Nat /\ a + u \in Nat /\ n <= a + u
      BY <1>0, <3>1, <3>2
    <3>. HIDE DEF n
    <3>5. n * DearestTurn <= (a + u) * DearestTurn /\ n * DearestTurn \in Nat /\ (a + u) * DearestTurn \in Nat
      BY <3>4, Charged
    <3>6. /\ spent + n * DearestTurn <= spent + (a + u) * DearestTurn
          /\ restarts <= restarts /\ restarts <= restarts + 1
      BY <1>0, <3>5
    <3>7. Within(spent, n, restarts)
      BY <1>0, <1>3, <3>4, <3>6, StaysWithin
    <3>. QED  BY <1>2, <2>0, <2>4, <3>3, <3>7 DEF n
  <2>5. unrecorded \subseteq Trajectories
    BY DEF IInv, TypeOK
  <2>. QED  BY <1>8, <2>1, <2>2, <2>3, <2>4, <2>5, TurnsUnderWay
<1>. QED  BY <1>5, <1>6, <1>7, <1>8 DEF Next

(* What a day is charged beyond its ceiling is what turns under way were charged:
   one of each worker, of this process and of those before it. *)
THEOREM OverrunStaysBounded == Spec => []OverrunIsBounded
<1>1. Init => Left /\ Spending
  <2>. SUFFICES ASSUME Init PROVE Left /\ Spending
    OBVIOUS
  <2>1. Admitted = {} /\ spent = 0 /\ unrecorded = {} /\ restarts = 0
    BY DEF Init, Admitted
  <2>2. Cardinality(Admitted) = 0 /\ Cardinality(unrecorded) = 0 /\ IsFiniteSet(unrecorded)
    BY <2>1, FS_EmptySet
  <2>3. Rooms(0) \in Nat /\ Rooms(0 + 1) \in Nat
    BY RoomsCounted
  <2>4. 0 * DearestTurn \in Nat /\ 0 * DearestTurn <= Rooms(0 + 1) * DearestTurn /\ Rooms(0 + 1) * DearestTurn \in Nat
    BY <2>3, Charged
  <2>5. Within(0, 0 + 0, 0)
    BY <2>4 DEF Within
  <2>. QED  BY <2>1, <2>2, <2>3, <2>5 DEF Left, Spending
<1>2. IInv /\ Left /\ Spending => OverrunIsBounded
  <2>. SUFFICES ASSUME IInv, Left, Spending PROVE OverrunIsBounded
    OBVIOUS
  <2>. DEFINE n == Cardinality(Admitted) + Cardinality(unrecorded)
              X == n * DearestTurn
              B == Rooms(restarts + 1) * DearestTurn
  <2>1. n \in Nat /\ spent \in Nat /\ restarts \in Nat
    BY AdmittedCounted, FS_CardinalityType, WindowAssumption DEF Left, IInv, TypeOK
  <2>2. X \in Nat
    BY <2>1, Charged
  <2>3. B \in Nat /\ B = Overrun
    <3>1. Rooms(restarts + 1) \in Nat
      BY <2>1, RoomsCounted
    <3>2. Rooms(restarts + 1) = Cardinality(Workers) * (1 + restarts)
      BY <2>1 DEF Rooms
    <3>. QED  BY <3>1, <3>2, Charged DEF Overrun
  <2>4. \/ spent + X <= B
        \/ \E t \in Trajectories : spent + StepCost[t] + X <= Ceiling + B
    BY DEF Spending, Within
  <2>. HIDE DEF X, B
  <2>5. CASE spent + X <= B
    BY <2>1, <2>2, <2>3, <2>5 DEF OverrunIsBounded
  <2>6. ASSUME NEW t \in Trajectories, spent + StepCost[t] + X <= Ceiling + B PROVE OverrunIsBounded
    <3>1. StepCost[t] \in Nat /\ Ceiling \in Nat
      BY WindowAssumption
    <3>2. spent + StepCost[t] <= Ceiling + Overrun
      BY <2>1, <2>2, <2>3, <2>6, <3>1
    <3>. QED  BY <3>2 DEF OverrunIsBounded
  <2>. QED  BY <2>4, <2>5, <2>6
<1>. QED  BY <1>1, <1>2, SpendingKept, AtFirst, Kept, PTL DEF Spec

(* ------------------------- the pool of one worker ------------------------ *)

LoneWorker == \A v, w \in Workers : v = w

(* What the lone worker has read of a wait stays so while it decides: a midnight
   may add an edge, and a cancel end the wait, but nobody else counts. *)
LEMMA CountingKept ==
  ASSUME LoneWorker, IInv, Counted, Sighted, [Next]_vars
  PROVE  Counted' /\ Sighted'
<1>. USE WindowAssumption DEF IInv, TypeOK, Parked
<1>1. ASSUME NEW t \in Trajectories, Submit(t) \/ CancelUnleased(t) PROVE Counted' /\ Sighted'
  BY <1>1 DEF Submit, CancelUnleased, memory, Counted, Sighted
<1>2. CASE UNCHANGED vars
  BY <1>2 DEF vars, row, memory, Counted, Sighted
<1>3. CASE DayRolls
  <2>1. \A t \in Trajectories : Parked(t) =>
           /\ edges[t] < WindowWaitMaxDays => edges'[t] = edges[t] + 1
           /\ edges[t] = WindowWaitMaxDays => edges'[t] = WindowWaitMaxDays
    BY <1>3 DEF DayRolls
  <2>2. status' = status /\ daysWaited' = daysWaited /\ pc' = pc /\ hand' = hand /\ seen' = seen
    BY <1>3 DEF DayRolls
  <2>3. Counted'
    BY <2>1, <2>2 DEF Counted, Waiting
  <2>4. Sighted'
    <3>. SUFFICES ASSUME NEW w \in Workers, pc[w] \in Releasing, Parked(hand[w])
                  PROVE  /\ seen[w] = daysWaited[hand[w]] /\ seen[w] < edges'[hand[w]]
                         /\ seen[w] + 1 < edges'[hand[w]] \/ edges'[hand[w]] = WindowWaitMaxDays
      BY <2>2 DEF Sighted
    <3>1. hand[w] \in Trajectories
      OBVIOUS
    <3>2. seen[w] = daysWaited[hand[w]] /\ seen[w] < edges[hand[w]]
      BY DEF Sighted
    <3>. QED  BY <2>1, <3>1, <3>2 DEF Waiting
  <2>. QED  BY <2>3, <2>4
<1>4. CASE Restart
  BY <1>4 DEF Restart, row, Counted, Sighted, Releasing
<1>5. ASSUME NEW w \in Workers, Release(w) PROVE Counted' /\ Sighted'
  <2>0. Workers = {w}
    BY DEF LoneWorker
  <2>. USE DEF Goto, TakeUp, TakeUpAnswered
  <2>1. CASE View(w)
    <3>1. Counted'
      BY <2>1 DEF View, row, Counted
    <3>2. ASSUME pc'[w] \in Releasing, Parked(hand'[w])
          PROVE  /\ seen'[w] = daysWaited[hand'[w]] /\ seen'[w] < edges[hand'[w]]
                 /\ ~late'[w]
      <4>1. PICK t \in todo[w] : Parked(t) /\ due[t] /\ hand'[w] = t /\ seen'[w] = daysWaited[t]
        BY <2>1, <3>2 DEF View, Releasing
      <4>2. ~late'[w]
        BY <2>1 DEF View, Deciding, Releasing, Running
      <4>. QED  BY <4>1, <4>2 DEF Counted
    <3>3. UNCHANGED <<status, daysWaited, edges>>
      BY <2>1 DEF View, row
    <3>. QED  BY <2>0, <3>1, <3>2, <3>3 DEF Sighted
  <2>2. CASE Judge(w)
    BY <2>2 DEF Judge, row, Counted, Sighted, Releasing
  <2>3. CASE Resume(w)
    BY <2>0, <2>3 DEF Resume, Counted, Sighted, Releasing
  <2>4. CASE KeepParked(w)
    <3>1. /\ hand[w] \in Trajectories /\ seen[w] < edges[hand[w]] /\ seen[w] + 1 < WindowWaitMaxDays
          /\ late[w] => seen[w] + 1 < edges[hand[w]] \/ edges[hand[w]] = WindowWaitMaxDays
      BY <2>4 DEF KeepParked, Sighted, Deciding, Releasing
    <3>2. /\ \A t \in Trajectories \ {hand[w]} : due'[t] = due[t] /\ daysWaited'[t] = daysWaited[t]
          /\ due'[hand[w]] = late[w] /\ daysWaited'[hand[w]] = seen[w] + 1
          /\ status' = status /\ edges' = edges
      BY <2>4, <3>1 DEF KeepParked
    <3>3. Counted'
      BY <3>1, <3>2 DEF Counted
    <3>4. pc'[w] \notin Releasing
      BY <2>4 DEF KeepParked, Leave, Releasing
    <3>. QED  BY <2>0, <3>3, <3>4 DEF Sighted
  <2>5. CASE HaltWindowWait(w)
    <3>1. /\ \A t \in Trajectories : status'[t] = "awaiting_window" =>
               status[t] = "awaiting_window" /\ due'[t] = due[t] /\ daysWaited'[t] = daysWaited[t]
          /\ edges' = edges /\ pc'[w] \notin Releasing
      BY <2>5 DEF HaltWindowWait, Leave, Releasing
    <3>. QED  BY <2>0, <3>1 DEF Counted, Sighted
  <2>6. CASE ListParked(w) \/ ListDone(w) \/ ResumeRaises(w) \/ RowMoved(w)
    BY <2>0, <2>6 DEF ListParked, ListDone, ResumeRaises, RowMoved, Leave, row, Counted, Sighted, Releasing
  <2>. QED  BY <1>5, <2>1, <2>2, <2>3, <2>4, <2>5, <2>6 DEF Release
<1>6. ASSUME NEW w \in Workers, Run(w) PROVE Counted' /\ Sighted'
  <2>0. Workers = {w}
    BY DEF LoneWorker
  <2>1. pc'[w] \notin Releasing
    BY <1>6 DEF Run, NothingToClaim, Preflight, ParkForWindow, Turn, Claim, Goto, TakeUp, TakeUpAnswered, Leave, Releasing
  <2>2. CASE ParkForWindow(w)
    <3>1. /\ hand[w] \in Trajectories /\ daysWaited'[hand[w]] = 0 /\ edges'[hand[w]] = 0 /\ ~due'[hand[w]]
          /\ \A t \in Trajectories \ {hand[w]} : /\ status'[t] = status[t] /\ due'[t] = due[t]
                                                 /\ daysWaited'[t] = daysWaited[t] /\ edges'[t] = edges[t]
      BY <2>2 DEF ParkForWindow, Running
    <3>2. Counted'
      BY <3>1 DEF Counted
    <3>. QED  BY <2>0, <2>1, <3>2 DEF Sighted
  <2>3. CASE NothingToClaim(w) \/ Preflight(w) \/ Turn(w) \/ \E t \in Trajectories : Claim(w, t)
    <3>1. /\ \A t \in Trajectories : status'[t] = "awaiting_window" => status[t] = "awaiting_window"
          /\ UNCHANGED <<due, daysWaited, edges>>
      BY <2>3 DEF NothingToClaim, Preflight, Turn, Claim, row
    <3>2. Counted'
      BY <3>1 DEF Counted
    <3>. QED  BY <2>0, <2>1, <3>2 DEF Sighted
  <2>. QED  BY <1>6, <2>2, <2>3 DEF Run
<1>. QED  BY <1>1, <1>2, <1>3, <1>4, <1>5, <1>6 DEF Next, Step

LEMMA CountedAtFirst == Init => Counted /\ Sighted
BY DEF Init, Counted, Sighted, Parked, Releasing

(* A day edge is counted once, whatever passes, restarts, cancels and midnights
   come between the reading of a wait and the writing of it. *)
THEOREM EdgesAreCountedOnce ==
  ASSUME LoneWorker
  PROVE  Spec => []NoEdgeCountedTwice
<1>1. IInv /\ Counted /\ Sighted /\ [Next]_vars => Counted' /\ Sighted'
  BY CountingKept
<1>2. Counted => NoEdgeCountedTwice
  BY DEF Counted, NoEdgeCountedTwice
<1>. QED  BY <1>1, <1>2, CountedAtFirst, AtFirst, Kept, PTL DEF Spec

(* ------------------------------ refinement ------------------------------- *)

(* A step of the lone worker, of a caller or of the clock is one transition of
   one row, or none. *)
LEMMA Simulation ==
  ASSUME LoneWorker, IInv, Sighted, [Next]_vars
  PROVE  [Lifecycle!Next]_(Lifecycle!vars)
<1>. USE WindowAssumption DEF IInv, TypeOK, Parked
<1>. DEFINE Goal == [Lifecycle!Next]_(Lifecycle!vars)
<1>1. ASSUME NEW t \in Trajectories, Lifecycle!Step(t) PROVE Goal
  BY <1>1 DEF Lifecycle!Next
<1>2. ASSUME UNCHANGED <<status, parked, daysWaited>> PROVE Goal
  BY <1>2 DEF Lifecycle!vars
<1>3. ASSUME NEW t \in Trajectories, Submit(t) PROVE Goal
  <2>1. Lifecycle!Create(t)
    BY <1>3 DEF Submit, Lifecycle!Create, Lifecycle!Move, Lifecycle!KeepWait
  <2>. QED  BY <1>1, <2>1 DEF Lifecycle!Step
<1>4. ASSUME NEW t \in Trajectories, CancelUnleased(t) PROVE Goal
  <2>1. Lifecycle!Cancel(t)
    BY <1>4 DEF CancelUnleased, Waiting, Lifecycle!Cancel, Lifecycle!End, Lifecycle!Move, Lifecycle!KeepWait,
       Lifecycle!States, Lifecycle!Terminal, Lifecycle!LeaseHolding
  <2>. QED  BY <1>1, <2>1 DEF Lifecycle!Step
<1>5. CASE DayRolls \/ Restart \/ UNCHANGED vars
  <2>1. UNCHANGED <<status, parked, daysWaited>>
    BY <1>5 DEF DayRolls, Restart, vars, row
  <2>. QED  BY <1>2, <2>1
<1>6. ASSUME NEW w \in Workers, Release(w) PROVE Goal
  <2>0. pc[w] \in Releasing => hand[w] \in Trajectories
    BY DEF Releasing
  <2>1. CASE Resume(w)
    <3>. PICK t \in Trajectories : t = hand[w]
      BY <2>0, <2>1 DEF Resume, Releasing
    <3>1. Lifecycle!ResumeFromWindow(t)
      BY <2>0, <2>1 DEF Resume, Waiting, Sighted, Releasing, Lifecycle!ResumeFromWindow, Lifecycle!Move
    <3>. QED  BY <1>1, <3>1 DEF Lifecycle!Step
  <2>2. CASE KeepParked(w)
    <3>. PICK t \in Trajectories : t = hand[w]
      BY <2>0, <2>2 DEF KeepParked, Releasing
    <3>1. Lifecycle!KeepParked(t)
      BY <2>0, <2>2 DEF KeepParked, Waiting, Deciding, Sighted, Releasing, Lifecycle!KeepParked
    <3>. QED  BY <1>1, <3>1 DEF Lifecycle!Step
  <2>3. CASE HaltWindowWait(w)
    <3>. PICK t \in Trajectories : t = hand[w]
      BY <2>0, <2>3 DEF HaltWindowWait, Releasing
    <3>1. Lifecycle!HaltWindowWait(t)
      BY <2>0, <2>3 DEF HaltWindowWait, Waiting, Deciding, Sighted, Releasing, Lifecycle!HaltWindowWait,
         Lifecycle!Move
    <3>. QED  BY <1>1, <3>1 DEF Lifecycle!Step
  <2>4. CASE ListParked(w) \/ ListDone(w) \/ View(w) \/ Judge(w) \/ ResumeRaises(w) \/ RowMoved(w)
    BY <1>2, <2>4 DEF ListParked, ListDone, View, Judge, ResumeRaises, RowMoved, row
  <2>. QED  BY <1>6, <2>1, <2>2, <2>3, <2>4 DEF Release
<1>7. ASSUME NEW w \in Workers, Run(w) PROVE Goal
  <2>0. pc[w] \in Running => hand[w] \in Trajectories /\ status[hand[w]] = "executing" /\ ~parked[hand[w]]
    BY DEF Running, RunsAlone, Runs, Waiting
  <2>1. ASSUME NEW t \in Trajectories, Claim(w, t) PROVE Goal
    <3>1. CASE status[t] = "queued"
      <4>1. Lifecycle!ClaimForBypass(t)
        BY <2>1, <3>1 DEF Claim, Waiting, Lifecycle!ClaimForBypass, Lifecycle!Move, Lifecycle!Mint,
           Lifecycle!KeepWait
      <4>. QED  BY <1>1, <4>1 DEF Lifecycle!Step
    <3>2. CASE status[t] = "executing"
      BY <1>2, <2>1, <3>2 DEF Claim
    <3>. QED  BY <2>1, <3>1, <3>2 DEF Claim, Claimable
  <2>2. CASE ParkForWindow(w)
    <3>. PICK t \in Trajectories : t = hand[w]
      BY <2>0, <2>2 DEF ParkForWindow, Running
    <3>1. Lifecycle!ParkForWindow(t)
      BY <2>0, <2>2 DEF ParkForWindow, Running, Lifecycle!ParkForWindow, Lifecycle!Move, Lifecycle!Parkable
    <3>. QED  BY <1>1, <3>1 DEF Lifecycle!Step
  <2>3. CASE Turn(w)
    <3>1. CASE done[hand[w]] + 1 < Steps
      BY <1>2, <2>3, <3>1 DEF Turn
    <3>2. CASE ~(done[hand[w]] + 1 < Steps)
      <4>. PICK t \in Trajectories : t = hand[w]
        BY <2>0, <2>3 DEF Turn, Running
      <4>1. /\ status[t] = "executing" /\ status' = [status EXCEPT ![t] = "completed"]
            /\ UNCHANGED <<parked, daysWaited>>
        BY <2>0, <2>3, <3>2 DEF Turn, Running
      <4>2. Lifecycle!Complete(t)
        BY <4>1 DEF Lifecycle!Complete, Lifecycle!End, Lifecycle!Move, Lifecycle!KeepWait
      <4>. QED  BY <1>1, <4>2 DEF Lifecycle!Step
    <3>. QED  BY <3>1, <3>2
  <2>4. CASE NothingToClaim(w) \/ Preflight(w)
    BY <1>2, <2>4 DEF NothingToClaim, Preflight, row
  <2>. QED  BY <1>7, <2>1, <2>2, <2>3, <2>4 DEF Run
<1>. HIDE DEF IInv, TypeOK, Parked
<1>8. Goal
  BY <1>3, <1>4, <1>5, <1>6, <1>7 DEF Next, Step
<1>. QED  BY <1>8 DEF Goal

(* The clocks move the row exactly as T1, T3, T11 and T14 to T17 allow, each edge
   by one: the pool of one worker implements the lifecycle. *)
THEOREM WindowImplementsLifecycle ==
  ASSUME LoneWorker
  PROVE  Spec => ImplementsLifecycle
<1>1. Init => Lifecycle!Init
  BY DEF Init, Lifecycle!Init
<1>2. IInv /\ Sighted /\ [Next]_vars => [Lifecycle!Next]_(Lifecycle!vars)
  BY Simulation
<1>3. IInv /\ Counted /\ Sighted /\ [Next]_vars => Counted' /\ Sighted'
  BY CountingKept
<1>. QED
  BY <1>1, <1>2, <1>3, CountedAtFirst, AtFirst, Kept, PTL
  DEF Spec, ImplementsLifecycle, Lifecycle!Spec
=============================================================================
