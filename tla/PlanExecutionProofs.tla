------------------------ MODULE PlanExecutionProofs ------------------------
(***************************************************************************)
(* What holds of a plan's execution for every plan, every set of remote    *)
(* and gateable steps, every concurrency limit and every bound: the        *)
(* invariants and the action property of PlanExecution, its refinement of  *)
(* GovernedPlan, and with it GovernedPlan's promises.                      *)
(*                                                                         *)
(* None of the invariants is inductive alone.  The envelope needs to know  *)
(* which announced turns may still become rows, and that at most one of    *)
(* them does per step; that needs who is attending to which turn; that     *)
(* needs what the controller has in hand at each of its own phases, and    *)
(* what a crash leaves of it.  Each named part below is one of these.      *)
(***************************************************************************)
EXTENDS PlanExecution, FiniteSetTheorems, WellFoundedInduction, TLAPS

(* ------------------------ the inductive invariant ------------------------ *)

(* A thread with a turn announced and not recorded, and one that still has the
   step in hand and may announce or leave. *)
OnAir == InFlight \cup {"answered"}
AtWork == OnAir \cup {"refused", "failed"}

(* Turn i is the last announced for its step: the one recovery and a thread may
   still act on. *)
Latest(i) == \A j \in DOMAIN announced : j > i => announced[j].step # announced[i].step

(* What the record says in each phase of the controller. *)
Phased ==
    /\ pc = "deciding" => status = "planning"
    /\ status = "planning" =>
          /\ leased /\ live = {} /\ committed = {} /\ announced = <<>>
          /\ pc \in {"deciding", "recover"}
    /\ pc \in {"dispatch", "reconciled"} => Owned
    /\ pc = "running" /\ ~stopped => Owned
    /\ stopped => pc \in {"running", "dead"}
    /\ pc = "dead" => raised # "no"
    /\ request # {} => status = "awaiting_approval"
    /\ pc \in {"recover", "reconciled"} => crashes > 0

(* Threads exist only between a dispatch and its join; what recovery hands over
   is the answer of one turn. *)
Placed ==
    /\ pc \notin {"running", "reconciled"} => \A s \in Steps : at[s] = "off"
    /\ pc = "reconciled" =>
          /\ \A s \in Steps : at[s] \in {"off", "answered"}
          /\ \A s, t \in Steps : at[s] # "off" /\ at[t] # "off" => s = t

(* Tool calls are shown or run only where some are left to run. *)
Pending == \A s \in Steps : visible[s] \/ at[s] = "tools" => unrun[s] > 0

(* A step under way was allowed, is not yet committed, and is its turn in the
   plan. *)
Granted ==
    \A s \in Steps : at[s] # "off" => s \in live \ committed /\ DependsOn[s] \subseteq committed

(* A turn was announced for an allowed step; a committed step leaves none of its
   answers unrecorded; a recorded turn has an answer. *)
Accounted(i) ==
    /\ announced[i].step \in live /\ DependsOn[announced[i].step] \subseteq committed
    /\ Latest(i) /\ announced[i].step \in committed => announced[i].recorded
    /\ announced[i].recorded => announced[i].job = "completed"

(* A thread in flight attends to the last turn of its step, and what it believes
   of the job is so. *)
InStep(s) ==
    /\ at[s] \in OnAir => Latest(turn[s])
    /\ at[s] = "posting" => announced[turn[s]].job = "none"
    /\ at[s] = "answered" => announced[turn[s]].job \notin {"none", "running"}
    /\ at[s] = "failed" => \A i \in DOMAIN announced :
          Latest(i) /\ announced[i].step = s => announced[i].job \notin {"running", "completed"}

Traced ==
    /\ \A i \in DOMAIN announced : Accounted(i)
    /\ \A s \in Steps : InStep(s)

(* The step may take one more turn. *)
Room(s) == rounds[s] + retries[s] < MaxTurns

(* The envelope, and a place in it for every answer that may yet be recorded: a
   thread's own and one that recovery will find. *)
Enveloped ==
    /\ EnvelopeHolds
    /\ \A s \in Steps : at[s] \in AtWork => Room(s)
    /\ \A i \in DOMAIN announced :
         Latest(i) /\ ~announced[i].recorded /\ announced[i].job \in {"running", "completed"} 
            => Room(announced[i].step)

(* The steps in flight, and the limits on them: those of the dispatch. *)
Abroad == {s \in Steps : at[s] # "off"}

Bounded ==
    /\ Cardinality(Abroad) <= limit
    /\ Cardinality(Abroad \cap Remote) <= MaxRemote
    /\ Cardinality(Abroad \ Remote) <= 1

(* With one step at a time nobody works beside a thread that stopped, and its
   turn is the last one: the one _dangling_turn looks at. *)
Lone ==
    limit = 1 =>
       /\ stopped /\ pc = "running" => Abroad = {}
       /\ raised # "asked"
       /\ \A s \in Steps : at[s] \in OnAir => turn[s] = Len(announced)

(* A running job has a thread that waits for it, or recovery is about to look at
   it. *)
Attended ==
    limit = 1 \/ crashes = 0 =>
      \A i \in DOMAIN announced : announced[i].job = "running" =>
         \/ \E s \in Steps : at[s] = "calling" /\ turn[s] = i
         \/ crashes > 0 /\ pc = "recover" /\ i = Len(announced) /\ status = "executing"

IInv == TypeOK /\ Phased /\ Placed /\ Pending /\ Granted /\ Traced /\ Enveloped /\ Bounded /\ Lone /\ Attended

(* --------------------------- rows of the record -------------------------- *)

Turn == [step : Steps, job : JobStates, recorded : BOOLEAN]

(* One element of a sequence replaced. *)
LEMMA SetAt ==
  ASSUME NEW S, NEW q \in Seq(S), NEW i \in DOMAIN q, NEW x \in S
  PROVE  /\ [q EXCEPT ![i] = x] \in Seq(S)
         /\ Len([q EXCEPT ![i] = x]) = Len(q)
         /\ DOMAIN [q EXCEPT ![i] = x] = DOMAIN q
         /\ \A j \in DOMAIN q : [q EXCEPT ![i] = x][j] = IF j = i THEN x ELSE q[j]
OBVIOUS

(* A job that changes state changes that of one turn and nothing else. *)
LEMMA Relabelled ==
  ASSUME TypeOK, NEW i \in DOMAIN announced, NEW job \in JobStates,
         announced' = [announced EXCEPT ![i].job = job]
  PROVE  /\ announced' \in Seq(Turn)
         /\ Len(announced') = Len(announced)
         /\ DOMAIN announced' = DOMAIN announced
         /\ \A j \in DOMAIN announced :
              /\ announced'[j].step = announced[j].step
              /\ announced'[j].recorded = announced[j].recorded
              /\ announced'[j].job = IF j = i THEN job ELSE announced[j].job
<1>1. announced \in Seq(Turn)
  BY DEF TypeOK, Turn
<1>2. announced[i] \in Turn
  BY <1>1
<1>3. [announced[i] EXCEPT !.job = job] \in Turn
  BY <1>2 DEF Turn
<1>4. announced' = [announced EXCEPT ![i] = [announced[i] EXCEPT !.job = job]]
  OBVIOUS
<1>5. /\ [announced[i] EXCEPT !.job = job].step = announced[i].step
      /\ [announced[i] EXCEPT !.job = job].recorded = announced[i].recorded
      /\ [announced[i] EXCEPT !.job = job].job = job
  BY <1>2 DEF Turn
<1>6. QED
  BY <1>1, <1>3, <1>4, <1>5, SetAt

(* Recording a turn marks it and leaves every other as it was. *)
LEMMA Recorded ==
  ASSUME TypeOK, NEW i \in DOMAIN announced,
         announced' = [announced EXCEPT ![i].recorded = TRUE]
  PROVE  /\ announced' \in Seq(Turn)
         /\ Len(announced') = Len(announced)
         /\ DOMAIN announced' = DOMAIN announced
         /\ \A j \in DOMAIN announced :
              /\ announced'[j].step = announced[j].step
              /\ announced'[j].recorded = IF j = i THEN TRUE ELSE announced[j].recorded
              /\ announced'[j].job = announced[j].job
<1>1. announced \in Seq(Turn)
  BY DEF TypeOK, Turn
<1>2. announced[i] \in Turn
  BY <1>1
<1>3. [announced[i] EXCEPT !.recorded = TRUE] \in Turn
  BY <1>2 DEF Turn
<1>4. announced' = [announced EXCEPT ![i] = [announced[i] EXCEPT !.recorded = TRUE]]
  OBVIOUS
<1>5. /\ [announced[i] EXCEPT !.recorded = TRUE].step = announced[i].step
      /\ [announced[i] EXCEPT !.recorded = TRUE].recorded = TRUE
      /\ [announced[i] EXCEPT !.recorded = TRUE].job = announced[i].job
  BY <1>2 DEF Turn
<1>6. QED
  BY <1>1, <1>2, <1>3, <1>4, <1>5, SetAt

(* One element added to a sequence. *)
LEMMA AppendAt ==
  ASSUME NEW S, NEW q \in Seq(S), NEW x \in S
  PROVE  /\ Append(q, x) \in Seq(S)
         /\ Len(Append(q, x)) = Len(q) + 1
         /\ DOMAIN Append(q, x) = DOMAIN q \cup {Len(q) + 1}
         /\ \A j \in DOMAIN q : Append(q, x)[j] = q[j]
         /\ Append(q, x)[Len(q) + 1] = x
OBVIOUS
(* A row of the record, whatever the sequence holds. *)
LEMMA Rows ==
  ASSUME TypeOK
  PROVE  /\ announced \in Seq(Turn)
         /\ DOMAIN announced = 1 .. Len(announced) /\ Len(announced) \in Nat
         /\ announced # <<>> => Len(announced) \in DOMAIN announced
         /\ \A i \in DOMAIN announced : announced[i] \in Turn
<1>1. announced \in Seq(Turn)
  BY DEF TypeOK, Turn
<1>. QED  BY <1>1

(* The record of announced turns grows, changes the job of one turn, or marks
   one as recorded. *)
LEMMA Announcements ==
  ASSUME TypeOK, [Next]_vars
  PROVE  \/ announced' = announced
         \/ \E i \in DOMAIN announced, job \in JobStates :
               announced' = [announced EXCEPT ![i].job = job]
         \/ \E i \in DOMAIN announced : announced' = [announced EXCEPT ![i].recorded = TRUE]
         \/ \E s \in Steps :
               announced' = Append(announced, [step |-> s, job |-> "none", recorded |-> FALSE])
<1>. USE DEF JobStates, JobEndings
<1>1. /\ DOMAIN announced = 1 .. Len(announced) /\ Len(announced) \in Nat
      /\ announced # <<>> => Len(announced) \in DOMAIN announced
      /\ \A i \in DOMAIN announced : announced[i] \in Turn
  BY Rows
<1>2. ASSUME NEW s \in Steps, at[s] \in InFlight \cup {"answered"} PROVE turn[s] \in DOMAIN announced
  BY <1>1, <1>2 DEF TypeOK
<1>3. CASE Request \/ Crash \/ UNCHANGED vars
  BY <1>3 DEF Request, Cancel, Grant, DenyOrExpire, Crash, record, vars
<1>4. CASE Controller
  <2>1. CASE Resume
    <3>1. CASE Dangling /\ announced[Last].job = "running"
      BY <1>1, <2>1, <3>1 DEF Resume, Dangling, Last
    <3>. QED  BY <2>1, <3>1 DEF Resume
  <2>2. CASE Reconcile \/ HaltRecovered \/ RecoverPlanning \/ ClaimReleased \/ Join
    BY <2>2 DEF Reconcile, HaltRecovered, RecoverPlanning, ClaimReleased, Join, record
  <2>3. CASE Decide \/ CancelAtDispatch \/ Dispatch \/ HoldGatedStep
    BY <2>3 DEF Decide, CancelAtDispatch, Dispatch, HoldGatedStep, record
  <2>. QED  BY <1>4, <2>1, <2>2, <2>3 DEF Controller
<1>5. CASE Relay
  <2>1. PICK s \in Steps :
          /\ at[s] \in InFlight
          /\ announced' = [announced EXCEPT ![turn[s]].job = IF @ = "running" THEN "cancelled" ELSE @]
    BY <1>5 DEF Relay
  <2>2. announced[turn[s]].job \in JobStates
    BY <1>1, <1>2, <2>1 DEF Turn
  <2>. QED  BY <1>2, <2>1, <2>2
<1>6. CASE \E i \in DOMAIN announced : JobEnds(i)
  BY <1>6 DEF JobEnds
<1>7. ASSUME NEW s \in Steps, StepThread(s)
      PROVE  \/ announced' = announced
             \/ \E i \in DOMAIN announced, job \in JobStates :
                   announced' = [announced EXCEPT ![i].job = job]
             \/ \E i \in DOMAIN announced : announced' = [announced EXCEPT ![i].recorded = TRUE]
             \/ announced' = Append(announced, [step |-> s, job |-> "none", recorded |-> FALSE])
  <2>1. CASE \/ OpenThread(s) \/ CancelAtBoundary(s) \/ RunCall(s) \/ CallRaises(s) \/ HaltInTools(s)
             \/ HaltBeforeTurn(s) \/ AskBeforeTurn(s)
    BY <2>1 DEF OpenThread, CancelAtBoundary, RunCall, CallRaises, HaltInTools, HaltBeforeTurn, AskBeforeTurn, record
  <2>2. CASE Refuse(s) \/ Answer(s) \/ Retry(s) \/ HaltUnanswered(s) \/ Collapse(s) \/ LoseLease(s)
    BY <2>2 DEF Refuse, Answer, Retry, HaltUnanswered, Collapse, LoseLease, record
  <2>3. CASE Announce(s)
    BY <2>3 DEF Announce
  <2>4. CASE Post(s) \/ TimeOut(s)
    BY <1>2, <2>4 DEF Post, TimeOut, SetJob, At, InFlight
  <2>5. CASE RecordAndContinue(s) \/ RecordAndCommitStep(s) \/ RecordAndAsk(s) \/ RecordAndHalt(s)
    BY <1>2, <2>5 DEF RecordAndContinue, RecordAndCommitStep, RecordAndAsk, RecordAndHalt, Answered, Returned, At, RecordTurn
  <2>. QED  BY <1>7, <2>1, <2>2, <2>3, <2>4, <2>5 DEF StepThread
<1>. QED  BY <1>3, <1>4, <1>5, <1>6, <1>7 DEF Next

(* No announced turn is forgotten or given to another step. *)
LEMMA Growth ==
  ASSUME TypeOK, [Next]_vars
  PROVE  /\ announced' \in Seq(Turn)
         /\ DOMAIN announced' = 1 .. Len(announced') /\ Len(announced') \in Nat
         /\ Len(announced) <= Len(announced') /\ DOMAIN announced \subseteq DOMAIN announced'
         /\ \A i \in DOMAIN announced : announced'[i].step = announced[i].step
<1>1. CASE announced' = announced
  BY <1>1, Rows
<1>2. ASSUME NEW i \in DOMAIN announced, NEW job \in JobStates,
             announced' = [announced EXCEPT ![i].job = job]
      PROVE  /\ announced' \in Seq(Turn) /\ Len(announced') = Len(announced)
             /\ \A j \in DOMAIN announced : announced'[j].step = announced[j].step
  BY <1>2, Relabelled
<1>3. ASSUME NEW i \in DOMAIN announced, announced' = [announced EXCEPT ![i].recorded = TRUE]
      PROVE  /\ announced' \in Seq(Turn) /\ Len(announced') = Len(announced)
             /\ \A j \in DOMAIN announced : announced'[j].step = announced[j].step
  BY <1>3, Recorded
<1>4. ASSUME NEW s \in Steps,
             announced' = Append(announced, [step |-> s, job |-> "none", recorded |-> FALSE])
      PROVE  /\ announced' \in Seq(Turn) /\ Len(announced') = Len(announced) + 1
             /\ \A j \in DOMAIN announced : announced'[j].step = announced[j].step
  <2>1. [step |-> s, job |-> "none", recorded |-> FALSE] \in Turn
    BY DEF Turn, JobStates
  <2>. QED  BY <1>4, <2>1, Rows, AppendAt
<1>5. /\ announced' \in Seq(Turn) /\ Len(announced') \in {Len(announced), Len(announced) + 1}
      /\ \A j \in DOMAIN announced : announced'[j].step = announced[j].step
  BY <1>1, <1>2, <1>3, <1>4, Announcements, Rows
<1>. QED  BY <1>5, Rows

(* Where a step thread goes. *)
LEMMA Moves ==
  ASSUME TypeOK, NEW s \in Steps, StepThread(s)
  PROVE  \/ Idle /\ pc = "reconciled"
         \/ Announce(s)
         \/ \E p \in Places : /\ Goto(s, p) /\ (p \in OnAir => at[s] \in InFlight)
                              /\ pc' = pc \/ (pc = "reconciled" /\ pc' = "dispatch")
<1>. USE DEF Places, OnAir, InFlight
<1>1. CASE StepThread(s) /\ pc = "reconciled" /\ StepStops(s)
  BY <1>1 DEF StepStops
<1>2. CASE (StepStops(s) /\ pc # "reconciled") \/ StepLeaves(s) \/ StepGoesOn(s)
  BY <1>2 DEF StepStops, StepLeaves, StepGoesOn
<1>3. CASE OpenThread(s) \/ RunCall(s)
  BY <1>3 DEF OpenThread, RunCall, StepMoves
<1>4. CASE CancelAtBoundary(s) \/ HaltInTools(s) \/ HaltBeforeTurn(s) \/ AskBeforeTurn(s)
           \/ HaltUnanswered(s)
  BY <1>1, <1>2, <1>4 DEF CancelAtBoundary, HaltInTools, HaltBeforeTurn, AskBeforeTurn, HaltUnanswered
<1>5. CASE CallRaises(s) \/ Collapse(s)
  BY <1>5 DEF CallRaises, Collapse
<1>6. CASE Post(s) \/ Refuse(s) \/ Answer(s) \/ TimeOut(s)
  BY <1>6 DEF Post, Refuse, Answer, TimeOut, StepMoves, At
<1>7. CASE Retry(s) \/ LoseLease(s) \/ RecordAndContinue(s)
  BY <1>2, <1>7 DEF Retry, LoseLease, RecordAndContinue
<1>8. CASE RecordAndCommitStep(s) \/ RecordAndAsk(s) \/ RecordAndHalt(s)
  BY <1>1, <1>2, <1>8 DEF RecordAndCommitStep, RecordAndAsk, RecordAndHalt
<1>. QED  BY <1>3, <1>4, <1>5, <1>6, <1>7, <1>8 DEF StepThread

(* ------------------------------- the plan ------------------------------- *)

(* A nonempty set of naturals has a least element. *)
LEMMA Least ==
  ASSUME NEW T, T \subseteq Nat, T # {}
  PROVE  \E x \in T : \A y \in T : x <= y
<1>. DEFINE R == StrictSubsetOrdering(Nat)
            Upto == {0 .. n : n \in T}
<1>1. Upto \subseteq FiniteSubsetsOf(Nat) /\ Upto # {}
  <2>1. \A n \in T : 0 .. n \subseteq Nat /\ IsFiniteSet(0 .. n)
    BY FS_Interval
  <2>. QED  BY <2>1 DEF FiniteSubsetsOf
<1>2. PICK S \in Upto : \A U \in Upto : ~ (<<U, S>> \in R)
  <2>1. IsWellFoundedOn(R, FiniteSubsetsOf(Nat))
    BY FS_StrictSubsetOrderingWellFounded
  <2>. HIDE DEF Upto, R
  <2>. QED  BY <1>1, <2>1, WFMin
<1>3. PICK x \in T : S = 0 .. x
  OBVIOUS
<1>4. ASSUME NEW y \in T, y < x PROVE FALSE
  <2>1. 0 .. y \subseteq 0 .. x /\ x \in 0 .. x /\ x \notin 0 .. y
    BY <1>4
  <2>2. <<0 .. y, 0 .. x>> \in R
    BY <2>1 DEF StrictSubsetOrdering
  <2>. QED  BY <1>2, <1>3, <2>2
<1>. QED  BY <1>4

(* The plan is finite and puts its steps in a total order. *)
LEMMA PlanOrder ==
  /\ DOMAIN Plan = 1 .. Len(Plan) /\ Len(Plan) \in Nat
  /\ IsFiniteSet(Steps) /\ Steps # {}
  /\ \A s, t \in Steps : s # t => Before(s, t) \/ Before(t, s)
  /\ \A s, t \in Steps : Before(s, t) => s # t /\ ~Before(t, s)
<1>1. DOMAIN Plan = 1 .. Len(Plan) /\ Len(Plan) \in Nat
  BY PlanAssumption
<1>2. IsFiniteSet(Steps)
  <2>1. Plan \in Surjection(1 .. Len(Plan), Steps)
    BY <1>1, PlanAssumption DEF Surjection, Steps
  <2>. QED  BY <1>1, <2>1, FS_Interval, FS_Surjection
<1>3. Steps # {}
  <2>1. Plan \in Seq(Steps) /\ Plan # <<>>
    BY PlanAssumption
  <2>2. 1 \in DOMAIN Plan
    BY <2>1
  <2>. QED  BY <2>2 DEF Steps
<1>4. \A i, j \in DOMAIN Plan : Plan[i] = Plan[j] => i = j
  BY PlanAssumption
<1>5. \A s, t \in Steps : s # t => Before(s, t) \/ Before(t, s)
  BY <1>1 DEF Steps, Before
<1>6. \A s, t \in Steps : Before(s, t) => s # t /\ ~Before(t, s)
  BY <1>1, <1>4 DEF Before
<1>. QED  BY <1>1, <1>2, <1>3, <1>5, <1>6

(* The first of a set of steps is one of them. *)
LEMMA FirstOf ==
  ASSUME NEW S, S \subseteq Steps, S # {}
  PROVE  First(S) \in S
<1>. DEFINE places == {i \in DOMAIN Plan : Plan[i] \in S}
<1>1. places \subseteq Nat /\ places # {}
  BY PlanOrder DEF Steps
<1>2. PICK i \in places : \A j \in places : i <= j
  <2>. HIDE DEF places
  <2>. QED  BY <1>1, Least
<1>3. \A t \in S \ {Plan[i]} : Before(Plan[i], t)
  <2>. SUFFICES ASSUME NEW t \in S \ {Plan[i]} PROVE Before(Plan[i], t)
    OBVIOUS
  <2>1. PICK j \in DOMAIN Plan : Plan[j] = t
    BY DEF Steps
  <2>2. i < j
    BY <1>1, <1>2, <2>1, PlanOrder
  <2>. QED  BY <2>1, <2>2 DEF Before
<1>. QED  BY <1>2, <1>3 DEF First

(* Something can be done of a plan that is not done: it has no cycle. *)
LEMMA ReadyAtFirst ==
  ASSUME committed = {}
  PROVE  Ready \subseteq Steps /\ Ready # {}
<1>1. Steps \in (SUBSET Steps) \ {{}}
  BY PlanOrder
<1>2. PICK s \in Steps : DependsOn[s] \cap Steps = {}
  BY <1>1, PlanAssumption
<1>3. DependsOn[s] \subseteq Steps
  BY PlanAssumption
<1>. QED  BY <1>2, <1>3 DEF Ready

(* -------------------------------- types --------------------------------- *)

(* What a step thread writes into the row: nothing, a park of its own step, or an
   ending, and these only under the fence. *)
LEMMA WritesOfAStep ==
  ASSUME NEW s \in Steps, StepThread(s)
  PROVE  \/ UNCHANGED row /\ (UNCHANGED committed \/ RecordAndCommitStep(s))
         \/ Owned /\ StepStops(s) /\ Hold({s}) /\ UNCHANGED committed
         \/ Owned /\ StepStops(s) /\ End("cancelled") /\ UNCHANGED committed
         \/ Owned /\ StepStops(s) /\ End("halted") /\ UNCHANGED committed
         \/ Owned /\ StepStops(s) /\ End("completed") /\ RecordAndCommitStep(s)
                  /\ committed' = committed \cup {s} /\ committed' = Steps
<1>1. CASE \/ OpenThread(s) \/ RunCall(s) \/ CallRaises(s) \/ Announce(s) \/ Post(s) \/ Refuse(s)
           \/ Answer(s) \/ TimeOut(s) \/ Retry(s) \/ RecordAndContinue(s) \/ Collapse(s) \/ LoseLease(s)
  BY <1>1 DEF OpenThread, RunCall, CallRaises, Announce, Post, Refuse, Answer, TimeOut, Retry,
              RecordAndContinue, Collapse, LoseLease, SetJob, record
<1>2. CASE AskBeforeTurn(s) \/ RecordAndAsk(s)
  BY <1>2 DEF AskBeforeTurn, RecordAndAsk, record
<1>3. CASE CancelAtBoundary(s)
  BY <1>3 DEF CancelAtBoundary, record
<1>4. CASE HaltInTools(s) \/ HaltBeforeTurn(s) \/ HaltUnanswered(s) \/ RecordAndHalt(s)
  BY <1>4 DEF HaltInTools, HaltBeforeTurn, HaltUnanswered, RecordAndHalt, record
<1>5. CASE RecordAndCommitStep(s)
  BY <1>5 DEF RecordAndCommitStep
<1>. QED  BY <1>1, <1>2, <1>3, <1>4, <1>5, StepThread(s) DEF StepThread

(* The row keeps to its type. *)
LEMMA RowTyped ==
  ASSUME TypeOK, Phased, [Next]_vars
  PROVE  status' \in States /\ {leased', cancelRequested'} \subseteq BOOLEAN
         /\ {request', live'} \subseteq SUBSET Steps
<1>. DEFINE Goal == status' \in States /\ {leased', cancelRequested'} \subseteq BOOLEAN
                    /\ {request', live'} \subseteq SUBSET Steps
<1>0. /\ status \in States /\ {leased, cancelRequested} \subseteq BOOLEAN
      /\ {request, live} \subseteq SUBSET Steps
  BY DEF TypeOK
<1>. USE DEF States, Terminal
<1>1. CASE UNCHANGED row
  BY <1>0, <1>1 DEF row
<1>2. ASSUME NEW S \in SUBSET Steps, Hold(S) PROVE Goal
  BY <1>0, <1>2 DEF Hold, Write
<1>3. ASSUME NEW ending \in Terminal, End(ending) PROVE Goal
  BY <1>0, <1>3 DEF End, Write
<1>4. CASE Request
  BY <1>0, <1>3, <1>4 DEF Request, Cancel, Grant, DenyOrExpire
<1>5. CASE Controller
  <2>1. CASE Decide
    <3>1. Ready \subseteq Steps /\ Ready # {}
      BY <2>1, ReadyAtFirst DEF Decide, Phased
    <3>2. {First(Ready)} \in SUBSET Steps
      BY <3>1, FirstOf
    <3>. QED  BY <1>0, <1>2, <1>3, <2>1, <3>2 DEF Decide
  <2>2. CASE HoldGatedStep
    <3>1. {First(Ready)} \in SUBSET Steps
      BY <2>2, FirstOf DEF HoldGatedStep, Ready
    <3>. QED  BY <2>2, <3>1, <1>2 DEF HoldGatedStep
  <2>3. CASE CancelAtDispatch \/ HaltRecovered
    BY <2>3, <1>3 DEF CancelAtDispatch, HaltRecovered
  <2>4. CASE ClaimReleased \/ Resume \/ Reconcile
    BY <2>4, <1>0 DEF ClaimReleased, Resume, Reconcile
  <2>5. CASE Dispatch \/ Join \/ RecoverPlanning
    BY <2>5, <1>1 DEF Dispatch, Join, RecoverPlanning
  <2>. QED  BY <1>5, <2>1, <2>2, <2>3, <2>4, <2>5 DEF Controller
<1>6. CASE Relay \/ Crash \/ \E i \in DOMAIN announced : JobEnds(i)
  BY <1>1, <1>6 DEF Relay, Crash, JobEnds
<1>7. ASSUME NEW s \in Steps, StepThread(s) PROVE Goal
  BY <1>1, <1>2, <1>3, <1>7, WritesOfAStep
<1>8. CASE UNCHANGED vars
  BY <1>1, <1>8 DEF vars
<1>. QED  BY <1>4, <1>5, <1>6, <1>7, <1>8 DEF Next

(* The limit is fixed, and crashes are counted up to their bound. *)
LEMMA Bounds ==
  ASSUME TypeOK, [Next]_vars
  PROVE  limit' = limit /\ crashes' \in 0 .. MaxCrashes /\ crashes' >= crashes
<1>1. MaxCrashes \in Nat /\ crashes \in 0 .. MaxCrashes
  BY BoundsAssumption DEF TypeOK
<1>2. limit' = limit /\ (crashes' = crashes \/ Crash)
  <2>1. CASE Request \/ Relay \/ Crash \/ (\E i \in DOMAIN announced : JobEnds(i)) \/ UNCHANGED vars
    BY <2>1 DEF Request, Cancel, Grant, DenyOrExpire, Relay, Crash, JobEnds, vars
  <2>2. CASE Controller
    BY <2>2 DEF Controller, Decide, CancelAtDispatch, Dispatch, HoldGatedStep, Join, ClaimReleased,
       RecoverPlanning, Resume, Reconcile, HaltRecovered
  <2>3. ASSUME NEW s \in Steps, StepThread(s) PROVE UNCHANGED <<limit, crashes>>
    BY <2>3 DEF StepThread, OpenThread, CallRaises, Announce, Post, Refuse, Collapse, RunCall, Retry,
       Answer, TimeOut, LoseLease, CancelAtBoundary, HaltInTools, HaltBeforeTurn, AskBeforeTurn,
       HaltUnanswered, RecordAndContinue, RecordAndCommitStep, RecordAndAsk, RecordAndHalt
  <2>. QED  BY <2>1, <2>2, <2>3 DEF Next
<1>3. Crash => crashes < MaxCrashes /\ crashes' = crashes + 1
  BY DEF Crash
<1>. QED  BY <1>1, <1>2, <1>3

(* So do the controller's own variables. *)
LEMMA ControlTyped ==
  ASSUME TypeOK, [Next]_vars
  PROVE  /\ pc' \in Controls /\ {stopped', relayed'} \subseteq BOOLEAN
         /\ raised' \in {"no", "asked", "arguments"}
<1>. DEFINE Goal == /\ pc' \in Controls /\ {stopped', relayed'} \subseteq BOOLEAN
                    /\ raised' \in {"no", "asked", "arguments"}
<1>0. /\ pc \in Controls /\ {stopped, relayed} \subseteq BOOLEAN
      /\ raised \in {"no", "asked", "arguments"}
  BY DEF TypeOK
<1>. USE DEF Controls
<1>1. Idle => Goal
  BY <1>0 DEF Idle
<1>2. \A p \in Controls : Control(p) => Goal
  BY <1>0 DEF Control
<1>3. CASE Request \/ (\E i \in DOMAIN announced : JobEnds(i)) \/ UNCHANGED vars
  BY <1>0, <1>3 DEF Request, Cancel, Grant, DenyOrExpire, JobEnds, memory, vars
<1>4. CASE Crash
  BY <1>0, <1>4 DEF Crash
<1>5. CASE Controller
  <2>1. CASE Decide \/ CancelAtDispatch \/ HoldGatedStep \/ ClaimReleased \/ RecoverPlanning
             \/ Resume \/ HaltRecovered
    BY <1>0, <1>1, <1>2, <2>1 DEF Decide, CancelAtDispatch, HoldGatedStep, ClaimReleased, RecoverPlanning,
       Resume, HaltRecovered
  <2>2. CASE Dispatch
    BY <1>0, <2>2 DEF Dispatch
  <2>3. CASE Join
    BY <1>0, <2>3 DEF Join
  <2>4. CASE Reconcile
    BY <1>0, <2>4 DEF Reconcile
  <2>. QED  BY <1>5, <2>1, <2>2, <2>3, <2>4 DEF Controller
<1>6. CASE Relay
  BY <1>0, <1>6 DEF Relay
<1>7. ASSUME NEW s \in Steps, StepThread(s) PROVE Goal
  <2>1. StepStops(s) \/ StepLeaves(s) \/ StepGoesOn(s) => Goal
    BY <1>0, <1>1 DEF StepStops, StepLeaves, StepGoesOn
  <2>2. CASE OpenThread(s) \/ RunCall(s) \/ Post(s) \/ Refuse(s) \/ Answer(s) \/ TimeOut(s)
    BY <1>0, <2>2 DEF OpenThread, RunCall, Post, Refuse, Answer, TimeOut, StepMoves
  <2>3. CASE CallRaises(s) \/ Collapse(s) \/ Announce(s)
    BY <1>0, <2>3 DEF CallRaises, Collapse, Announce
  <2>4. CASE CancelAtBoundary(s) \/ HaltInTools(s) \/ HaltBeforeTurn(s) \/ AskBeforeTurn(s) \/ Retry(s)
    BY <2>1, <2>4 DEF CancelAtBoundary, HaltInTools, HaltBeforeTurn, AskBeforeTurn, Retry
  <2>5. CASE HaltUnanswered(s) \/ RecordAndContinue(s) \/ RecordAndCommitStep(s) \/ RecordAndAsk(s)
             \/ RecordAndHalt(s) \/ LoseLease(s)
    <3>. HIDE DEF Goal
    <3>1. StepStops(s) \/ StepLeaves(s) \/ StepGoesOn(s)
      BY <2>5 DEF HaltUnanswered, RecordAndContinue, RecordAndCommitStep, RecordAndAsk,
         RecordAndHalt, LoseLease
    <3>. QED  BY <2>1, <3>1
  <2>. QED  BY <1>7, <2>2, <2>3, <2>4, <2>5 DEF StepThread
<1>. QED  BY <1>3, <1>4, <1>5, <1>6, <1>7 DEF Next

(* What a step thread writes of its thread. *)
LEMMA ThreadWrites ==
  ASSUME TypeOK, NEW s \in Steps, StepThread(s)
  PROVE  \/ UNCHANGED <<committed, rounds, retries, unrun, visible>>
         \/ RunCall(s)
         \/ Retry(s)
         \/ /\ Answered(s) /\ committed' \in {committed, committed \cup {s}}
            /\ \/ RecordTurn(s, 0, FALSE)
               \/ \E declared \in BOOLEAN : RecordTurn(s, Calls, declared)
<1>1. CASE \/ OpenThread(s) \/ CallRaises(s) \/ Announce(s) \/ Post(s) \/ Refuse(s) \/ Collapse(s)
           \/ Answer(s) \/ TimeOut(s) \/ LoseLease(s)
  BY <1>1 DEF OpenThread, CallRaises, Announce, Post, Refuse, Collapse, Answer, TimeOut, LoseLease,
     SetJob, record
<1>2. CASE \/ CancelAtBoundary(s) \/ HaltInTools(s) \/ HaltBeforeTurn(s) \/ AskBeforeTurn(s)
           \/ HaltUnanswered(s)
  BY <1>2 DEF CancelAtBoundary, HaltInTools, HaltBeforeTurn, AskBeforeTurn, HaltUnanswered, record
<1>3. CASE RecordAndContinue(s) \/ RecordAndCommitStep(s) \/ RecordAndAsk(s) \/ RecordAndHalt(s)
  BY <1>3 DEF RecordAndContinue, RecordAndCommitStep, RecordAndAsk, RecordAndHalt
<1>. QED  BY <1>1, <1>2, <1>3 DEF StepThread

(* So does the record of turns. *)
LEMMA RecordTyped ==
  ASSUME TypeOK, Pending, [Next]_vars
  PROVE  /\ {committed', opened'} \subseteq SUBSET Steps
         /\ {rounds', retries', unrun'} \subseteq [Steps -> Nat]
         /\ visible' \in [Steps -> BOOLEAN]
<1>. DEFINE Goal == /\ {committed', opened'} \subseteq SUBSET Steps
                    /\ {rounds', retries', unrun'} \subseteq [Steps -> Nat]
                    /\ visible' \in [Steps -> BOOLEAN]
<1>0. /\ {committed, opened} \subseteq SUBSET Steps
      /\ {rounds, retries, unrun} \subseteq [Steps -> Nat]
      /\ visible \in [Steps -> BOOLEAN] /\ Calls \in Nat
  BY BoundsAssumption DEF TypeOK
<1>1. CASE UNCHANGED <<committed, opened, rounds, retries, unrun, visible>>
  BY <1>0, <1>1
<1>2. CASE Request \/ Relay \/ Crash \/ (\E i \in DOMAIN announced : JobEnds(i)) \/ UNCHANGED vars
  BY <1>1, <1>2 DEF Request, Cancel, Grant, DenyOrExpire, Relay, Crash, JobEnds, record, vars
<1>3. CASE Controller
  BY <1>1, <1>3 DEF Controller, Decide, CancelAtDispatch, Dispatch, HoldGatedStep, Join, ClaimReleased,
     RecoverPlanning, Resume, Reconcile, HaltRecovered, record
<1>4. ASSUME NEW s \in Steps, StepThread(s) PROVE Goal
  <2>1. opened' \in {opened, opened \cup {s}}
    BY <1>4 DEF StepThread, OpenThread, CallRaises, Announce, Post, Refuse, Collapse, RunCall, Retry,
       Answer, TimeOut, LoseLease, SetJob, record, CancelAtBoundary, HaltInTools, HaltBeforeTurn,
       AskBeforeTurn, HaltUnanswered, RecordAndContinue, RecordAndCommitStep, RecordAndAsk,
       RecordAndHalt, RecordTurn
  <2>2. CASE UNCHANGED <<committed, rounds, retries, unrun, visible>>
    BY <1>0, <2>1, <2>2
  <2>3. CASE RunCall(s)
    <3>1. unrun[s] \in Nat /\ unrun[s] > 0
      BY <1>0, <2>3 DEF RunCall, CallsPending, At, Pending
    <3>. QED  BY <1>0, <2>3, <3>1 DEF RunCall
  <2>4. CASE Retry(s)
    BY <1>0, <2>4 DEF Retry
  <2>5. ASSUME committed' \in {committed, committed \cup {s}},
               NEW left \in {0, Calls}, NEW seen \in BOOLEAN, RecordTurn(s, left, seen) PROVE Goal
    BY <1>0, <2>1, <2>5 DEF RecordTurn
  <2>. QED  BY <1>4, <2>2, <2>3, <2>4, <2>5, ThreadWrites
<1>. QED  BY <1>2, <1>3, <1>4 DEF Next

(* What the controller, the web side and a crash leave of the step threads. *)
LEMMA Threads ==
  ASSUME Request \/ Relay \/ Controller \/ Crash \/ (\E i \in DOMAIN announced : JobEnds(i))
         \/ UNCHANGED vars
  PROVE  \/ UNCHANGED <<at, turn>>
         \/ at' = None /\ turn' = [s \in Steps |-> 0] /\ (pc # "running" \/ Crash)
         \/ Dispatch
         \/ Reconcile
<1>1. CASE Request \/ Relay \/ (\E i \in DOMAIN announced : JobEnds(i)) \/ UNCHANGED vars
  BY <1>1 DEF Request, Cancel, Grant, DenyOrExpire, Relay, JobEnds, memory, vars
<1>2. CASE Crash
  BY <1>2 DEF Crash
<1>3. CASE Controller
  BY <1>3 DEF Controller, Decide, CancelAtDispatch, HoldGatedStep, Join, ClaimReleased,
     RecoverPlanning, Resume, HaltRecovered, Control, Idle
<1>. QED  BY <1>1, <1>2, <1>3

(* So does what the threads remember. *)
LEMMA MemoryTyped ==
  ASSUME TypeOK, [Next]_vars
  PROVE  /\ at' \in [Steps -> Places]
         /\ turn' \in [Steps -> 0 .. Len(announced')]
         /\ \A s \in Steps : at'[s] \in OnAir => turn'[s] # 0 /\ announced'[turn'[s]].step = s
<1>. DEFINE Goal == /\ at' \in [Steps -> Places]
                    /\ turn' \in [Steps -> 0 .. Len(announced')]
                    /\ \A s \in Steps : at'[s] \in OnAir => turn'[s] # 0 /\ announced'[turn'[s]].step = s
<1>. USE DEF Places, OnAir, InFlight
<1>0. /\ at \in [Steps -> Places]
      /\ turn \in [Steps -> 0 .. Len(announced)]
      /\ \A s \in Steps : at[s] \in OnAir => turn[s] # 0 /\ announced[turn[s]].step = s
  BY DEF TypeOK
<1>1. /\ Len(announced) \in Nat /\ Len(announced') \in Nat /\ Len(announced) <= Len(announced')
      /\ turn \in [Steps -> 0 .. Len(announced')]
      /\ \A s \in Steps : at[s] \in OnAir => announced'[turn[s]].step = s
  <2>1. \A s \in Steps : at[s] \in OnAir => turn[s] \in DOMAIN announced
    BY <1>0, Rows
  <2>. QED  BY <1>0, <2>1, Rows, Growth
<1>2. CASE UNCHANGED <<at, turn>>
  BY <1>0, <1>1, <1>2
<1>3. CASE at' = None /\ turn' = [s \in Steps |-> 0]
  BY <1>1, <1>3 DEF None
<1>4. CASE Dispatch
  BY <1>0, <1>1, <1>4 DEF Dispatch
<1>5. CASE Reconcile
  <2>1. /\ announced' = announced /\ Last \in DOMAIN announced /\ announced[Last].step \in Steps
        /\ Last \in 0 .. Len(announced') /\ Last # 0
    BY <1>5, Rows DEF Reconcile, Dangling, Last, record, Turn
  <2>2. /\ at' = [at EXCEPT ![announced[Last].step] = "answered"]
        /\ turn' = [turn EXCEPT ![announced[Last].step] = Last]
    BY <1>5 DEF Reconcile
  <2>. HIDE DEF Last
  <2>. QED  BY <1>0, <1>1, <2>1, <2>2
<1>6. ASSUME NEW s \in Steps, StepThread(s) PROVE Goal
  <2>1. CASE Idle
    BY <1>3, <2>1 DEF Idle
  <2>2. CASE Announce(s)
    <3>1. /\ at' = [at EXCEPT ![s] = "posting"]
          /\ turn' = [turn EXCEPT ![s] = Len(announced) + 1]
          /\ announced' = Append(announced, [step |-> s, job |-> "none", recorded |-> FALSE])
      BY <2>2 DEF Announce
    <3>2. /\ Len(announced') = Len(announced) + 1
          /\ announced'[Len(announced) + 1].step = s
      BY <3>1, Rows
    <3>. QED  BY <1>0, <1>1, <3>1, <3>2
  <2>3. ASSUME NEW p \in Places, Goto(s, p), p \in OnAir => at[s] \in InFlight PROVE Goal
    BY <1>0, <1>1, <2>3 DEF Goto
  <2>. QED  BY <1>6, <2>1, <2>2, <2>3, Moves
<1>. QED  BY <1>2, <1>3, <1>4, <1>5, <1>6, Threads DEF Next

(* The type invariant is kept by every step. *)
LEMMA Typed ==
  ASSUME TypeOK, Phased, Pending, [Next]_vars
  PROVE  TypeOK'
<1>1. announced' \in Seq([step : Steps, job : JobStates, recorded : BOOLEAN])
  BY Growth DEF Turn
<1>2. limit' \in Limits
  BY Bounds DEF TypeOK
<1>. QED  BY <1>1, <1>2, RowTyped, Bounds, ControlTyped, RecordTyped, MemoryTyped DEF TypeOK, OnAir

(* ------------------------ controller and threads ------------------------ *)

(* Who runs a step thread, and what it does to the thread around it. *)
LEMMA Threading ==
  ASSUME TypeOK, NEW s \in Steps, StepThread(s)
  PROVE  /\ pc \in {"running", "reconciled"} /\ at[s] # "off"
         /\ UNCHANGED <<limit, crashes>>
         /\ pc = "reconciled" => at[s] = "answered" /\ (StepStops(s) \/ Goto(s, "off"))
         /\ \/ StepStops(s)
            \/ pc' = pc /\ stopped' = stopped
            \/ pc = "reconciled" /\ pc' = "dispatch" /\ stopped' = stopped
<1>. USE DEF CallsPending, BeforeTurn, AtTurn, Answered, Returned, At
<1>1. CASE OpenThread(s) \/ RunCall(s) \/ Post(s) \/ Refuse(s) \/ Answer(s) \/ TimeOut(s)
  BY <1>1 DEF OpenThread, RunCall, Post, Refuse, Answer, TimeOut, StepMoves
<1>2. CASE CallRaises(s) \/ Collapse(s) \/ Announce(s)
  BY <1>2 DEF CallRaises, Collapse, Announce
<1>3. CASE CancelAtBoundary(s) \/ HaltInTools(s) \/ HaltBeforeTurn(s) \/ AskBeforeTurn(s) \/ HaltUnanswered(s)
  BY <1>3 DEF CancelAtBoundary, HaltInTools, HaltBeforeTurn, AskBeforeTurn, HaltUnanswered
<1>4. CASE Retry(s) \/ LoseLease(s)
  BY <1>4 DEF Retry, LoseLease, StepGoesOn, StepLeaves
<1>5. CASE RecordAndContinue(s) \/ RecordAndCommitStep(s) \/ RecordAndAsk(s) \/ RecordAndHalt(s)
  BY <1>5 DEF RecordAndContinue, RecordAndCommitStep, RecordAndAsk, RecordAndHalt, StepGoesOn, StepLeaves
<1>. QED  BY <1>1, <1>2, <1>3, <1>4, <1>5 DEF StepThread

(* Every step leaves a phase whose record is as Phased says. *)
LEMMA Phasing ==
  ASSUME TypeOK, Phased, Placed, [Next]_vars
  PROVE  Phased'
<1>. USE DEF Phased, Owned
<1>0. Len(announced) \in Nat /\ (\A i \in DOMAIN announced : announced # <<>>) /\ crashes \in Nat
  BY Rows, BoundsAssumption DEF TypeOK
<1>1. CASE Request
  BY <1>1 DEF Request, Cancel, Grant, DenyOrExpire, End, Write, Terminal, memory, record
<1>2. CASE UNCHANGED vars
  BY <1>2 DEF vars, row, memory, record
<1>3. CASE Relay \/ \E i \in DOMAIN announced : JobEnds(i)
  BY <1>0, <1>3 DEF Relay, JobEnds, row, memory
<1>4. CASE Crash
  BY <1>0, <1>4 DEF Crash, row, record
<1>5. CASE Controller
  <2>1. CASE Decide
    <3>1. CASE Idle /\ ((\E S : Hold(S)) \/ End("rejected"))
      BY <3>1 DEF Hold, End, Write, Idle
    <3>2. CASE status' = "executing" /\ UNCHANGED <<leased, request>> /\ Control("dispatch")
      BY <2>1, <3>2 DEF Decide, Control
    <3>. QED  BY <2>1, <3>1, <3>2 DEF Decide
  <2>2. CASE CancelAtDispatch \/ HoldGatedStep \/ HaltRecovered
    BY <2>2 DEF CancelAtDispatch, HoldGatedStep, HaltRecovered, Hold, End, Write, Idle
  <2>3. CASE Dispatch
    BY <2>3 DEF Dispatch, row
  <2>4. CASE Join
    BY <2>4 DEF Join, row, record
  <2>5. CASE ClaimReleased \/ Resume
    BY <2>5 DEF ClaimReleased, Resume, Control
  <2>6. CASE RecoverPlanning
    BY <2>6 DEF RecoverPlanning, Control, row, record
  <2>7. CASE Reconcile
    BY <2>7 DEF Reconcile
  <2>. QED  BY <1>5, <2>1, <2>2, <2>3, <2>4, <2>5, <2>6, <2>7 DEF Controller
<1>6. ASSUME NEW s \in Steps, StepThread(s) PROVE Phased'
  <2>1. /\ pc \in {"running", "reconciled"}
        /\ status # "planning"
        /\ crashes' = crashes
    BY <1>6, Threading
  <2>2. CASE UNCHANGED row
    BY <1>6, <2>1, <2>2, Threading DEF StepStops, Idle, row
  <2>3. CASE Owned /\ StepStops(s) /\ Hold({s})
    BY <1>0, <2>1, <2>3 DEF StepStops, Idle, Hold, Write
  <2>4. ASSUME NEW ending \in Terminal, Owned, StepStops(s), End(ending) PROVE Phased'
    BY <1>0, <2>1, <2>4 DEF StepStops, Idle, End, Write, Terminal
  <2>. QED  BY <1>6, <2>2, <2>3, <2>4, WritesOfAStep DEF Terminal
<1>. QED  BY <1>1, <1>2, <1>3, <1>4, <1>5, <1>6 DEF Next

(* Outside a step thread, threads stay where they are, or none is left. *)
LEMMA Gathered ==
  ASSUME Placed, Request \/ Relay \/ Controller \/ Crash
                 \/ (\E i \in DOMAIN announced : JobEnds(i)) \/ UNCHANGED vars
  PROVE  \/ UNCHANGED <<at, turn, pc>>
         \/ (\A s \in Steps : at'[s] = "off") /\ (Crash \/ \A s \in Steps : at[s] = "off")
         \/ Dispatch /\ \A s \in Steps : at[s] = "off"
         \/ Reconcile /\ \A s \in Steps : at[s] = "off"
<1>1. CASE Request \/ Relay \/ (\E i \in DOMAIN announced : JobEnds(i)) \/ UNCHANGED vars
  BY <1>1 DEF Request, Cancel, Grant, DenyOrExpire, Relay, JobEnds, memory, vars
<1>2. CASE Crash
  BY <1>2 DEF Crash, None
<1>3. CASE Controller
  <2>1. \/ UNCHANGED at
        \/ at' = None
        \/ Dispatch
        \/ Reconcile
    BY <1>3 DEF Controller, Decide, CancelAtDispatch, HoldGatedStep, Join, ClaimReleased,
       RecoverPlanning, Resume, HaltRecovered, Control, Idle
  <2>2. pc \notin {"running", "reconciled"} \/ at = None
    BY <1>3 DEF Controller, Decide, CancelAtDispatch, HoldGatedStep, Join, ClaimReleased,
       RecoverPlanning, Resume, HaltRecovered, Dispatch, Reconcile
  <2>. QED  BY <2>1, <2>2 DEF Placed, None
<1>. QED  BY <1>1, <1>2, <1>3

(* Threads are placed where Placed has them. *)
LEMMA Placing ==
  ASSUME TypeOK, Placed, [Next]_vars
  PROVE  Placed'
<1>. USE DEF Placed
<1>0. at \in [Steps -> Places]
  BY DEF TypeOK
<1>1. CASE UNCHANGED <<at, pc>> \/ \A s \in Steps : at'[s] = "off"
  BY <1>1
<1>2. CASE Dispatch
  BY <1>2 DEF Dispatch
<1>3. CASE Reconcile
  BY <1>0, <1>3 DEF Reconcile
<1>4. ASSUME NEW s \in Steps, StepThread(s) PROVE Placed'
  <2>0. /\ pc \in {"running", "reconciled"}
        /\ pc = "reconciled" => at[s] = "answered" /\ (Idle \/ Goto(s, "off"))
    BY <1>4, Threading DEF StepStops
  <2>1. CASE Idle
    BY <2>1 DEF Idle, None
  <2>2. CASE pc = "running" /\ pc' = pc
    BY <2>2
  <2>3. CASE pc = "reconciled" /\ Goto(s, "off")
    BY <1>0, <2>0, <2>3 DEF Goto
  <2>4. CASE pc = "running" /\ pc' # pc
    BY <1>4, <2>1, <2>4, Threading DEF StepStops
  <2>. QED  BY <2>0, <2>1, <2>2, <2>3, <2>4
<1>. QED  BY <1>1, <1>2, <1>3, <1>4, Gathered DEF Next

Same == UNCHANGED <<committed, rounds, retries, announced>>

(* A thread is left alone, or taken out of a run that nothing is in flight of. *)
LeftAlone(t) ==
    \/ at'[t] = at[t] /\ turn'[t] = turn[t]
    \/ at'[t] = "off" /\ at[t] \notin InFlight

Rests(s) ==
    /\ Same /\ UNCHANGED <<unrun, visible>>
    /\ at[s] \notin InFlight /\ at'[s] \in {"off", "boundary"}

Records(s) ==
    /\ Answered(s)
    /\ \/ RecordTurn(s, 0, FALSE)
       \/ \E declared \in BOOLEAN : RecordTurn(s, Calls, declared)
    /\ at'[s] \in {"off", "boundary"}
    /\ committed' = committed \/ (committed' = committed \cup {s} /\ at'[s] = "off")

Acts(s) ==
    \/ Rests(s)
    \/ RunCall(s) /\ Same /\ at'[s] = (IF unrun[s] = 1 THEN "boundary" ELSE "tools")
    \/ Refuse(s) /\ Same /\ at'[s] \in {"refused", "failed"}
    \/ Answer(s) /\ Same /\ at'[s] = (IF Job(s) = "failed" THEN "failed" ELSE "answered")
                 /\ turn'[s] = (IF at'[s] = "answered" THEN turn[s] ELSE 0)
    \/ Announce(s) /\ at'[s] = "posting"
    \/ Post(s) /\ at'[s] = "calling" /\ turn'[s] = turn[s]
    \/ TimeOut(s) /\ at'[s] = "failed"
    \/ Retry(s) /\ at'[s] = "boundary"
    \/ Records(s)

(* --------------------------- steps under way ---------------------------- *)

(* A step thread acts on its own thread, and in one of these ways. *)
LEMMA StepShape ==
  ASSUME TypeOK, Placed, NEW s \in Steps, StepThread(s)
  PROVE  /\ \A t \in Steps \ {s} : LeftAlone(t)
         /\ Acts(s)
<1>0. at \in [Steps -> Places] /\ turn \in [Steps -> 0 .. Len(announced)]
  BY DEF TypeOK
<1>1. \A t \in Steps \ {s} : LeftAlone(t)
  <2>1. CASE Idle /\ pc = "reconciled"
    BY <2>1 DEF Idle, None, Placed, LeftAlone, InFlight
  <2>2. CASE Announce(s)
    BY <1>0, <2>2 DEF Announce, LeftAlone
  <2>3. ASSUME NEW p \in Places, Goto(s, p) PROVE \A t \in Steps \ {s} : LeftAlone(t)
    BY <1>0, <2>3 DEF Goto, LeftAlone
  <2>. QED  BY <2>1, <2>2, <2>3, Moves
<1>2. \A p \in Places : Goto(s, p) => /\ at'[s] = p
                                      /\ turn'[s] = IF p \in OnAir THEN turn[s] ELSE 0
  BY <1>0 DEF Goto, OnAir
<1>3. /\ StepStops(s) => at'[s] = "off"
      /\ StepLeaves(s) => at'[s] = "off"
      /\ StepGoesOn(s) => at'[s] \in {"off", "boundary"}
      /\ pc = "running" /\ StepGoesOn(s) => at'[s] = "boundary"
  BY <1>2 DEF StepStops, StepLeaves, StepGoesOn, Idle, None, Places
<1>. USE DEF Acts, CallsPending, BeforeTurn, AtTurn, Answered, Returned, At
<1>4. ASSUME OpenThread(s) PROVE Acts(s)
  BY <1>2, <1>4 DEF OpenThread, StepMoves, Rests, Same, Places, InFlight
<1>5. ASSUME RunCall(s) PROVE Acts(s)
  BY <1>2, <1>5 DEF RunCall, StepMoves, Same, Places
<1>6. ASSUME Refuse(s) PROVE Acts(s)
  BY <1>2, <1>6 DEF Refuse, StepMoves, Same, record, Places
<1>7. ASSUME Answer(s) PROVE Acts(s)
  <2>1. Same
    BY <1>7 DEF Answer, Same, record
  <2>2. CASE Job(s) = "failed"
    BY <1>2, <1>7, <2>1, <2>2 DEF Answer, StepMoves, Places, OnAir, InFlight
  <2>3. CASE Job(s) # "failed"
    BY <1>2, <1>7, <2>1, <2>3 DEF Answer, StepMoves, Places, OnAir
  <2>. QED  BY <2>2, <2>3
<1>8. ASSUME Post(s) \/ TimeOut(s) PROVE Acts(s)
  BY <1>2, <1>8 DEF Post, TimeOut, StepMoves, Places, OnAir, InFlight
<1>9. ASSUME Announce(s) PROVE Acts(s)
  BY <1>0, <1>9 DEF Announce
<1>10. ASSUME Retry(s) PROVE Acts(s)
  BY <1>3, <1>10 DEF Retry
<1>11. ASSUME CallRaises(s) \/ Collapse(s) PROVE Acts(s)
  BY <1>2, <1>11 DEF CallRaises, Collapse, Rests, Same, record, Places, InFlight
<1>12. ASSUME CancelAtBoundary(s) \/ HaltInTools(s) \/ HaltBeforeTurn(s) \/ AskBeforeTurn(s) \/ HaltUnanswered(s) PROVE Acts(s)
  BY <1>3, <1>12 DEF CancelAtBoundary, HaltInTools, HaltBeforeTurn, AskBeforeTurn, HaltUnanswered,
     Rests, Same, record, InFlight
<1>13. ASSUME LoseLease(s) PROVE Acts(s)
  BY <1>3, <1>13 DEF LoseLease, Rests, Same, record, InFlight
<1>14. ASSUME RecordAndContinue(s) \/ RecordAndAsk(s) \/ RecordAndHalt(s) PROVE Acts(s)
  BY <1>3, <1>14 DEF RecordAndContinue, RecordAndAsk, RecordAndHalt, Records
<1>15. ASSUME RecordAndCommitStep(s) PROVE Acts(s)
  BY <1>3, <1>15 DEF RecordAndCommitStep, Records
<1>. QED  BY <1>1, <1>4, <1>5, <1>6, <1>7, <1>8, <1>9, <1>10, <1>11, <1>12, <1>13, <1>14, <1>15 DEF StepThread

(* No step leaves tool calls shown that are not there to run. *)
LEMMA PendingKept ==
  ASSUME TypeOK, Placed, Pending, [Next]_vars
  PROVE  Pending'
<1>. USE DEF Pending
<1>0. /\ unrun \in [Steps -> Nat] /\ visible \in [Steps -> BOOLEAN] /\ Calls \in Nat /\ Calls > 0
      /\ at \in [Steps -> Places]
  BY BoundsAssumption DEF TypeOK
<1>1. CASE Request \/ Relay \/ Controller \/ Crash \/ (\E i \in DOMAIN announced : JobEnds(i))
           \/ UNCHANGED vars
  <2>1. UNCHANGED <<unrun, visible>>
    BY <1>1 DEF Request, Cancel, Grant, DenyOrExpire, Relay, Crash, JobEnds, vars, Controller, Decide,
       CancelAtDispatch, Dispatch, HoldGatedStep, Join, ClaimReleased, RecoverPlanning, Resume,
       Reconcile, HaltRecovered, record
  <2>2. CASE Dispatch
    BY <2>1, <2>2 DEF Dispatch
  <2>3. CASE Reconcile
    BY <1>0, <2>1, <2>3 DEF Reconcile
  <2>. QED  BY <1>1, <2>1, <2>2, <2>3, Gathered
<1>2. ASSUME NEW s \in Steps, StepThread(s) PROVE Pending'
  <2>1. \A t \in Steps \ {s} : at'[t] = "tools" => at[t] = "tools"
    BY <1>2, StepShape DEF LeftAlone
  <2>2. CASE UNCHANGED <<unrun, visible>> /\ at'[s] # "tools"
    BY <2>1, <2>2
  <2>3. CASE RunCall(s) /\ at'[s] = (IF unrun[s] = 1 THEN "boundary" ELSE "tools")
    <3>1. unrun[s] \in Nat /\ unrun[s] > 0
      BY <1>0, <2>3 DEF RunCall, CallsPending, At
    <3>2. unrun' = [unrun EXCEPT ![s] = @ - 1] /\ visible' = [visible EXCEPT ![s] = FALSE]
      BY <2>3 DEF RunCall
    <3>. QED  BY <1>0, <2>1, <2>3, <3>1, <3>2
  <2>4. CASE Records(s)
    BY <1>0, <2>1, <2>4 DEF Records, RecordTurn
  <2>5. \/ UNCHANGED <<unrun, visible>> /\ at'[s] # "tools"
        \/ RunCall(s) /\ at'[s] = (IF unrun[s] = 1 THEN "boundary" ELSE "tools")
        \/ Records(s)
    BY <1>2, StepShape DEF Acts, Rests, Refuse, Answer, Announce, Post, TimeOut, Retry, SetJob, record
  <2>. QED  BY <2>2, <2>3, <2>4, <2>5
<1>. QED  BY <1>1, <1>2 DEF Next

(* Intents and commits are never taken back; only a step thread commits. *)
LEMMA Lasting ==
  ASSUME TypeOK, Phased, Placed, [Next]_vars
  PROVE  /\ live \subseteq live' /\ committed \subseteq committed'
         /\ \/ UNCHANGED committed
            \/ \E s \in Steps : Records(s) /\ committed' = committed \cup {s} /\ at'[s] = "off"
<1>1. CASE Request \/ Relay \/ Crash \/ (\E i \in DOMAIN announced : JobEnds(i)) \/ UNCHANGED vars
  BY <1>1 DEF Request, Cancel, Grant, DenyOrExpire, End, Relay, Crash, JobEnds, record, row, vars
<1>2. CASE Controller
  <2>1. UNCHANGED committed
    BY <1>2 DEF Controller, Decide, CancelAtDispatch, Dispatch, HoldGatedStep, Join, ClaimReleased,
       RecoverPlanning, Resume, Reconcile, HaltRecovered, record
  <2>2. CASE Decide
    BY <2>1, <2>2 DEF Decide, Phased
  <2>3. CASE ~Decide
    BY <1>2, <2>1, <2>3 DEF Controller, CancelAtDispatch, Dispatch, HoldGatedStep, Join, ClaimReleased,
       RecoverPlanning, Resume, Reconcile, HaltRecovered, Hold, End, row
  <2>. QED  BY <2>2, <2>3
<1>3. ASSUME NEW s \in Steps, StepThread(s)
      PROVE  /\ live' = live
             /\ \/ UNCHANGED committed
                \/ Records(s) /\ committed' = committed \cup {s} /\ at'[s] = "off"
  <2>1. live' = live
    BY <1>3, WritesOfAStep DEF row, Hold, End
  <2>2. \/ UNCHANGED committed
        \/ Records(s) /\ committed' = committed \cup {s} /\ at'[s] = "off"
    BY <1>3, StepShape DEF Acts, Rests, Same, Records, Announce, Post, TimeOut, Retry, SetJob
  <2>. QED  BY <2>1, <2>2
<1>. QED  BY <1>1, <1>2, <1>3 DEF Next

(* A step stays under the grant and behind the steps it depends on. *)
LEMMA GrantedKept ==
  ASSUME TypeOK, Phased, Placed, Granted, Traced, [Next]_vars
  PROVE  Granted'
<1>. USE DEF Granted
<1>0. /\ at \in [Steps -> Places] /\ live \subseteq live' /\ committed \subseteq committed'
  BY Lasting DEF TypeOK
<1>1. CASE Request \/ Relay \/ Controller \/ Crash \/ (\E i \in DOMAIN announced : JobEnds(i))
           \/ UNCHANGED vars
  <2>1. UNCHANGED committed
    BY <1>1 DEF Request, Cancel, Grant, DenyOrExpire, Relay, Crash, JobEnds, vars, Controller, Decide,
       CancelAtDispatch, Dispatch, HoldGatedStep, Join, ClaimReleased, RecoverPlanning, Resume,
       Reconcile, HaltRecovered, record
  <2>2. CASE Dispatch
    BY <1>0, <2>1, <2>2 DEF Dispatch, Dispatchable, Ready
  <2>3. CASE Reconcile
    <3>. DEFINE s == announced[Last].step
    <3>1. s \in live \ committed /\ DependsOn[s] \subseteq committed
      <4>1. Last \in DOMAIN announced /\ ~announced[Last].recorded
        BY <2>3, Rows DEF Reconcile, Dangling, Last
      <4>2. Latest(Last)
        BY <4>1, Rows DEF Latest, Last
      <4>. QED  BY <4>1, <4>2 DEF Traced, Accounted
    <3>2. \A t \in Steps : at'[t] # "off" => t = s \/ at[t] # "off"
      BY <1>0, <2>3 DEF Reconcile
    <3>. QED  BY <1>0, <2>1, <3>1, <3>2
  <2>. QED  BY <1>0, <1>1, <2>1, <2>2, <2>3, Gathered
<1>2. ASSUME NEW s \in Steps, StepThread(s) PROVE Granted'
  <2>1. \A t \in Steps : at'[t] # "off" => at[t] # "off"
    BY <1>2, StepShape, Threading DEF LeftAlone
  <2>2. committed' = committed \/ (committed' = committed \cup {s} /\ at'[s] = "off")
    BY <1>2, StepShape DEF Acts, Rests, Same, Records, Announce, Post, TimeOut, Retry, SetJob
  <2>. QED  BY <1>0, <2>1, <2>2
<1>. QED  BY <1>1, <1>2 DEF Next

JobsEnd ==
    /\ DOMAIN announced' = DOMAIN announced /\ Len(announced') = Len(announced)
    /\ \A i \in DOMAIN announced :
          /\ announced'[i].step = announced[i].step
          /\ announced'[i].recorded = announced[i].recorded
          /\ \/ announced'[i].job = announced[i].job
             \/ announced[i].job = "running" /\ announced'[i].job \in JobEndings

(* Outside a step thread, all that happens to an announced turn is that its job
   ends. *)
LEMMA JobsOutside ==
  ASSUME TypeOK, Request \/ Relay \/ Controller \/ Crash
                 \/ (\E i \in DOMAIN announced : JobEnds(i)) \/ UNCHANGED vars
  PROVE  JobsEnd
<1>1. ASSUME UNCHANGED announced PROVE JobsEnd
  BY <1>1 DEF JobsEnd
<1>2. ASSUME NEW i \in DOMAIN announced, NEW job \in JobEndings,
             announced' = [announced EXCEPT ![i].job = job], announced[i].job = "running"
      PROVE  JobsEnd
  BY <1>2, Relabelled DEF JobsEnd, JobStates
<1>3. CASE Relay
  <2>1. PICK s \in Steps :
          /\ at[s] \in InFlight
          /\ announced' = [announced EXCEPT ![turn[s]].job = IF @ = "running" THEN "cancelled" ELSE @]
    BY <1>3 DEF Relay
  <2>2. turn[s] \in DOMAIN announced /\ announced[turn[s]].job \in JobStates
    <3>1. turn[s] \in DOMAIN announced
      BY <2>1, Rows DEF TypeOK
    <3>. QED  BY <3>1, Rows DEF Turn
  <2>3. CASE announced[turn[s]].job = "running"
    BY <1>2, <2>1, <2>2, <2>3 DEF JobEndings
  <2>4. CASE announced[turn[s]].job # "running"
    <3>1. announced' = [announced EXCEPT ![turn[s]].job = announced[turn[s]].job]
      BY <2>1, <2>4
    <3>. QED  BY <2>2, <3>1, Relabelled DEF JobsEnd
  <2>. QED  BY <2>3, <2>4
<1>4. CASE \E i \in DOMAIN announced : JobEnds(i)
  BY <1>2, <1>4 DEF JobEnds, JobEndings
<1>5. CASE Resume
  <2>1. CASE Dangling /\ announced[Last].job = "running"
    <3>1. Last \in DOMAIN announced
      BY <2>1, Rows DEF Dangling, Last
    <3>2. announced' = [announced EXCEPT ![Last].job = "cancelled"]
      BY <1>5, <2>1 DEF Resume
    <3>. QED  BY <1>2, <2>1, <3>1, <3>2 DEF JobEndings
  <2>. QED  BY <1>1, <1>5, <2>1 DEF Resume
<1>6. CASE Request \/ Crash \/ UNCHANGED vars
  BY <1>1, <1>6 DEF Request, Cancel, Grant, DenyOrExpire, Crash, record, vars
<1>7. CASE Controller /\ ~Resume
  BY <1>1, <1>7 DEF Controller, Decide, CancelAtDispatch, Dispatch, HoldGatedStep, Join, ClaimReleased,
     RecoverPlanning, Reconcile, HaltRecovered, record
<1>. QED  BY <1>3, <1>4, <1>5, <1>6, <1>7

(* A step has one last turn. *)
LEMMA LatestOne ==
  ASSUME TypeOK, NEW i \in DOMAIN announced, NEW j \in DOMAIN announced,
         Latest(i), Latest(j), announced[i].step = announced[j].step
  PROVE  i = j
BY Rows DEF Latest

(* The turn of a thread in flight is in the record, and is of its step. *)
LEMMA OnAirTurn ==
  ASSUME TypeOK, NEW s \in Steps, at[s] \in OnAir
  PROVE  turn[s] \in DOMAIN announced /\ announced[turn[s]].step = s
BY Rows DEF TypeOK, OnAir

(* ------------------------ the trace of the turns ------------------------ *)

(* The trace survives what happens outside the step threads, *)
LEMMA TracedOutside ==
  ASSUME TypeOK, Phased, Placed, Granted, Traced,
         Request \/ Relay \/ Controller \/ Crash
         \/ (\E i \in DOMAIN announced : JobEnds(i)) \/ UNCHANGED vars
  PROVE  Traced'
<1>0. /\ live \subseteq live' /\ committed' = committed /\ at \in [Steps -> Places]
      /\ turn \in [Steps -> 0 .. Len(announced)]
  <2>1. [Next]_vars
    BY DEF Next
  <2>2. committed' = committed
    BY DEF Request, Cancel, Grant, DenyOrExpire, Relay, Crash, JobEnds, vars, Controller, Decide,
       CancelAtDispatch, Dispatch, HoldGatedStep, Join, ClaimReleased, RecoverPlanning, Resume,
       Reconcile, HaltRecovered, record
  <2>. QED  BY <2>1, <2>2, Lasting DEF TypeOK
<1>1. JobsEnd
  BY JobsOutside
<1>2. \A i \in DOMAIN announced : Latest(i)' <=> Latest(i)
  BY <1>1 DEF JobsEnd, Latest
<1>3. \A i \in DOMAIN announced' : Accounted(i)'
  BY <1>0, <1>1, <1>2 DEF JobsEnd, Traced, Accounted
<1>4. ASSUME NEW s \in Steps, at'[s] = at[s], turn'[s] = turn[s] PROVE InStep(s)'
  <2>1. CASE at[s] \in OnAir
    <3>1. turn[s] \in DOMAIN announced /\ turn[s] \in DOMAIN announced'
      BY <1>1, <2>1, OnAirTurn DEF JobsEnd
    <3>. QED  BY <1>1, <1>2, <1>4, <2>1, <3>1 DEF JobsEnd, Traced, InStep, OnAir, JobEndings, InFlight
  <2>2. CASE at[s] = "failed"
    BY <1>1, <1>2, <1>4, <2>2 DEF JobsEnd, Traced, InStep, OnAir, JobEndings, InFlight
  <2>. QED  BY <1>4, <2>1, <2>2 DEF InStep, OnAir, InFlight
<1>5. ASSUME NEW s \in Steps, at'[s] \in {"off", "boundary", "opening"} PROVE InStep(s)'
  BY <1>5 DEF InStep, OnAir, InFlight
<1>6. CASE Dispatch
  <2>1. \A s \in Steps : at'[s] \in {"off", "boundary", "opening"}
    BY <1>6 DEF Dispatch
  <2>. QED  BY <1>3, <1>5, <2>1 DEF Traced
<1>7. CASE Reconcile
  <2>1. /\ announced' = announced /\ Last \in DOMAIN announced /\ announced[Last].job = "completed"
        /\ at' = [at EXCEPT ![announced[Last].step] = "answered"]
        /\ turn' = [turn EXCEPT ![announced[Last].step] = Last]
    BY <1>7, Rows DEF Reconcile, Dangling, Last, record
  <2>2. Latest(Last) /\ announced[Last].step \in Steps
    BY <2>1, Rows DEF Latest, Last, Turn
  <2>3. ASSUME NEW s \in Steps, at'[s] = "answered", turn'[s] = Last PROVE InStep(s)'
    <3>1. Latest(turn[s])'
      BY <2>1, <2>2, <2>3 DEF Latest
    <3>. QED  BY <2>1, <2>3, <3>1 DEF InStep, OnAir, InFlight
  <2>4. ASSUME NEW s \in Steps PROVE InStep(s)'
    <3>. HIDE DEF Last
    <3>1. CASE s = announced[Last].step
      BY <1>0, <2>1, <2>3, <3>1
    <3>2. CASE s # announced[Last].step
      BY <1>0, <1>4, <2>1, <3>2
    <3>. QED  BY <3>1, <3>2
  <2>. QED  BY <1>3, <2>4 DEF Traced
<1>. QED  BY <1>3, <1>4, <1>5, <1>6, <1>7, Gathered DEF Traced

(* what another step's thread does, *)
LEMMA OthersInStep ==
  ASSUME TypeOK, Traced, NEW t \in Steps, LeftAlone(t),
         DOMAIN announced \subseteq DOMAIN announced',
         \A i \in DOMAIN announced : announced'[i].step = announced[i].step,
         \A i \in DOMAIN announced' : announced'[i].step = t =>
            i \in DOMAIN announced /\ announced'[i].job = announced[i].job
  PROVE  InStep(t)'
<1>1. CASE at'[t] = "off"
  BY <1>1 DEF InStep, OnAir, InFlight
<1>2. CASE at'[t] = at[t] /\ turn'[t] = turn[t]
  <2>1. InStep(t)
    BY DEF Traced
  <2>2. \A i \in DOMAIN announced : announced[i].step = t => (Latest(i)' <=> Latest(i))
    BY DEF Latest
  <2>3. at[t] \in OnAir => turn[t] \in DOMAIN announced /\ announced[turn[t]].step = t
    BY OnAirTurn
  <2>4. at'[t] \in OnAir => Latest(turn[t])' /\ announced'[turn[t]].job = announced[turn[t]].job
    BY <1>2, <2>1, <2>2, <2>3 DEF InStep
  <2>. QED  BY <1>2, <2>1, <2>2, <2>3, <2>4 DEF InStep, OnAir, InFlight
<1>. QED  BY <1>1, <1>2 DEF LeftAlone

(* and the step's own acts. *)
LEMMA TracedAtStep ==
  ASSUME TypeOK, Phased, Placed, Granted, Traced, NEW s \in Steps, StepThread(s)
  PROVE  Traced'
<1>0. /\ live' = live /\ at[s] # "off" /\ s \in live \ committed /\ DependsOn[s] \subseteq committed
      /\ \A t \in Steps \ {s} : LeftAlone(t)
  <2>1. live' = live
    BY WritesOfAStep DEF row, Hold, End
  <2>. QED  BY <2>1, Threading, StepShape DEF Granted
<1>. DEFINE Others == \A t \in Steps \ {s} : InStep(t)'
            Rows1 == \A i \in DOMAIN announced' : Accounted(i)'
<1>1. ASSUME UNCHANGED <<announced, committed>> PROVE Others /\ Rows1
  <2>1. Others
    BY <1>0, <1>1, OthersInStep
  <2>2. Rows1
    BY <1>0, <1>1 DEF Traced, Accounted, Latest
  <2>. QED  BY <2>1, <2>2
<1>2. ASSUME NEW i \in DOMAIN announced, announced[i].step = s, NEW job \in JobStates,
             announced[i].job # "completed",
             announced' = [announced EXCEPT ![i].job = job], UNCHANGED committed
      PROVE  Others /\ Rows1
  <2>1. /\ DOMAIN announced' = DOMAIN announced
        /\ \A j \in DOMAIN announced :
              /\ announced'[j].step = announced[j].step
              /\ announced'[j].recorded = announced[j].recorded
              /\ announced'[j].job = IF j = i THEN job ELSE announced[j].job
    BY <1>2, Relabelled
  <2>2. Others
    BY <1>0, <1>2, <2>1, OthersInStep
  <2>3. Rows1
    BY <1>0, <1>2, <2>1 DEF Traced, Accounted, Latest
  <2>. QED  BY <2>2, <2>3
<1>3. CASE announced' = announced /\ committed' = committed /\ at'[s] \in {"off", "boundary", "tools"}
  BY <1>1, <1>3 DEF Traced, InStep, OnAir, InFlight
<1>4. CASE Refuse(s) /\ Same /\ at'[s] \in {"refused", "failed"}
  <2>1. \A i \in DOMAIN announced : Latest(i) /\ announced[i].step = s => announced[i].job = "none"
    <3>1. at[s] = "posting"
      BY <1>4 DEF Refuse, At
    <3>2. /\ turn[s] \in DOMAIN announced /\ announced[turn[s]].step = s
          /\ Latest(turn[s]) /\ announced[turn[s]].job = "none"
      BY <3>1, OnAirTurn DEF Traced, InStep, OnAir, InFlight
    <3>. QED  BY <3>2, LatestOne
  <2>2. InStep(s)'
    BY <1>4, <2>1 DEF Same, InStep, OnAir, InFlight, Latest
  <2>. QED  BY <1>1, <1>4, <2>2 DEF Same, Traced
<1>5. CASE /\ Answer(s) /\ Same /\ at'[s] = (IF Job(s) = "failed" THEN "failed" ELSE "answered")
           /\ turn'[s] = (IF at'[s] = "answered" THEN turn[s] ELSE 0)
  <2>1. at[s] = "calling" /\ Job(s) \in JobEndings
    BY <1>5 DEF Answer, At
  <2>2. /\ turn[s] \in DOMAIN announced /\ announced[turn[s]].step = s /\ Latest(turn[s])
    BY <2>1, OnAirTurn DEF Traced, InStep, OnAir, InFlight
  <2>3. CASE Job(s) = "failed"
    <3>1. \A i \in DOMAIN announced : Latest(i) /\ announced[i].step = s => announced[i].job = "failed"
      BY <2>2, <2>3, LatestOne DEF Job
    <3>2. InStep(s)'
      BY <1>5, <2>3, <3>1 DEF Same, InStep, OnAir, InFlight, Latest
    <3>. QED  BY <1>1, <1>5, <3>2 DEF Same, Traced
  <2>4. CASE Job(s) # "failed"
    <3>1. InStep(s)'
      BY <1>5, <2>1, <2>2, <2>4 DEF Same, InStep, OnAir, InFlight, Latest, Job, JobEndings
    <3>. QED  BY <1>1, <1>5, <3>1 DEF Same, Traced
  <2>. QED  BY <2>3, <2>4
<1>6. CASE Announce(s) /\ at'[s] = "posting"
  <2>. DEFINE n == Len(announced) + 1
  <2>1. /\ announced' = Append(announced, [step |-> s, job |-> "none", recorded |-> FALSE])
        /\ committed' = committed /\ turn' = [turn EXCEPT ![s] = n]
    BY <1>6 DEF Announce
  <2>2. turn'[s] = n
    BY <2>1 DEF TypeOK
  <2>3. /\ DOMAIN announced = 1 .. Len(announced) /\ Len(announced) \in Nat
        /\ DOMAIN announced' = DOMAIN announced \cup {n}
        /\ \A j \in DOMAIN announced : announced'[j] = announced[j]
        /\ announced'[n].step = s /\ announced'[n].job = "none"
    BY <2>1, Rows
  <2>4. Others
    BY <1>0, <2>3, OthersInStep
  <2>5. Rows1
    BY <1>0, <2>1, <2>3 DEF Traced, Accounted, Latest
  <2>6. Latest(turn[s])'
    BY <2>2, <2>3 DEF Latest
  <2>7. InStep(s)'
    BY <1>6, <2>2, <2>3, <2>6 DEF InStep, OnAir, InFlight
  <2>. QED  BY <2>4, <2>5, <2>7 DEF Traced
<1>7. CASE Post(s) /\ at'[s] = "calling" /\ turn'[s] = turn[s]
  <2>1. at[s] = "posting"
    BY <1>7 DEF Post, At
  <2>2. /\ turn[s] \in DOMAIN announced /\ announced[turn[s]].step = s /\ Latest(turn[s])
        /\ announced[turn[s]].job = "none"
    BY <2>1, OnAirTurn DEF Traced, InStep, OnAir, InFlight
  <2>3. announced' = [announced EXCEPT ![turn[s]].job = "running"] /\ committed' = committed
    BY <1>7 DEF Post, SetJob
  <2>4. /\ DOMAIN announced' = DOMAIN announced
        /\ \A j \in DOMAIN announced : announced'[j].step = announced[j].step
    BY <2>2, <2>3, Relabelled DEF JobStates
  <2>5. Latest(turn[s])'
    BY <1>7, <2>2, <2>4 DEF Latest
  <2>6. InStep(s)'
    BY <1>7, <2>5 DEF InStep, OnAir, InFlight
  <2>. QED  BY <1>2, <2>2, <2>3, <2>6 DEF Traced, JobStates
<1>8. CASE TimeOut(s) /\ at'[s] = "failed"
  <2>1. at[s] = "calling" /\ announced[turn[s]].job = "running"
    BY <1>8 DEF TimeOut, At, Job
  <2>2. /\ turn[s] \in DOMAIN announced /\ announced[turn[s]].step = s /\ Latest(turn[s])
    BY <2>1, OnAirTurn DEF Traced, InStep, OnAir, InFlight
  <2>3. announced' = [announced EXCEPT ![turn[s]].job = "cancelled"] /\ committed' = committed
    BY <1>8 DEF TimeOut, SetJob
  <2>4. /\ DOMAIN announced' = DOMAIN announced
        /\ \A j \in DOMAIN announced : announced'[j].step = announced[j].step
        /\ announced'[turn[s]].job = "cancelled"
    <3>1. "cancelled" \in JobStates
      BY DEF JobStates, JobEndings
    <3>2. turn[s] \in DOMAIN announced
      BY <2>2
    <3>3. /\ DOMAIN announced' = DOMAIN announced
          /\ \A j \in DOMAIN announced :
                /\ announced'[j].step = announced[j].step
                /\ announced'[j].job = IF j = turn[s] THEN "cancelled" ELSE announced[j].job
      BY <2>3, <3>1, <3>2, Relabelled
    <3>. QED  BY <3>2, <3>3
  <2>5. \A i \in DOMAIN announced : Latest(i)' <=> Latest(i)
    BY <2>4 DEF Latest
  <2>6. \A i \in DOMAIN announced : Latest(i)' /\ announced'[i].step = s => i = turn[s]
    BY <2>2, <2>4, <2>5, LatestOne
  <2>7. InStep(s)'
    BY <1>8, <2>4, <2>6 DEF InStep, OnAir, InFlight
  <2>. QED  BY <1>2, <2>1, <2>2, <2>3, <2>7 DEF Traced, JobStates, JobEndings
<1>9. CASE Retry(s) /\ at'[s] = "boundary"
  BY <1>3, <1>9 DEF Retry
<1>10. CASE Records(s)
  <2>1. at[s] = "answered" /\ announced[turn[s]].job = "completed"
    BY <1>10 DEF Records, Answered, Returned, At, Job
  <2>2. /\ turn[s] \in DOMAIN announced /\ announced[turn[s]].step = s /\ Latest(turn[s])
    BY <2>1, OnAirTurn DEF Traced, InStep, OnAir, InFlight
  <2>3. /\ announced' = [announced EXCEPT ![turn[s]].recorded = TRUE]
        /\ committed \subseteq committed' /\ committed' \subseteq committed \cup {s}
        /\ at'[s] \in {"off", "boundary"}
    BY <1>10 DEF Records, RecordTurn
  <2>4. /\ DOMAIN announced' = DOMAIN announced
        /\ \A j \in DOMAIN announced :
              /\ announced'[j].step = announced[j].step
              /\ announced'[j].recorded = IF j = turn[s] THEN TRUE ELSE announced[j].recorded
              /\ announced'[j].job = announced[j].job
    BY <2>2, <2>3, Recorded
  <2>5. \A i \in DOMAIN announced : Latest(i)' <=> Latest(i)
    BY <2>4 DEF Latest
  <2>6. \A i \in DOMAIN announced : Latest(i) /\ announced[i].step = s => i = turn[s]
    BY <2>2, LatestOne
  <2>7. Others
    BY <1>0, <2>4, OthersInStep
  <2>8. Rows1
    BY <1>0, <2>1, <2>3, <2>4, <2>5, <2>6 DEF Traced, Accounted
  <2>9. InStep(s)'
    BY <2>3 DEF InStep, OnAir, InFlight
  <2>. QED  BY <2>7, <2>8, <2>9 DEF Traced
<1>. QED  BY <1>3, <1>4, <1>5, <1>6, <1>7, <1>8, <1>9, <1>10, StepShape DEF Acts, Rests, Same

(* ----------------------------- the envelope ----------------------------- *)

(* Outside the step threads nothing enters an envelope but the turn recovery
   records, and it has a place. *)
LEMMA EnvelopedOutside ==
  ASSUME TypeOK, Placed, Enveloped,
         Request \/ Relay \/ Controller \/ Crash
         \/ (\E i \in DOMAIN announced : JobEnds(i)) \/ UNCHANGED vars
  PROVE  Enveloped'
<1>0. UNCHANGED <<rounds, retries>> /\ at \in [Steps -> Places]
  BY DEF TypeOK, Request, Cancel, Grant, DenyOrExpire, Relay, Crash, JobEnds, vars, Controller, Decide,
     CancelAtDispatch, Dispatch, HoldGatedStep, Join, ClaimReleased, RecoverPlanning, Resume,
     Reconcile, HaltRecovered, record
<1>1. \A s \in Steps : Room(s)' <=> Room(s)
  BY <1>0 DEF Room
<1>2. JobsEnd
  BY JobsOutside
<1>3. \A i \in DOMAIN announced : Latest(i)' <=> Latest(i)
  BY <1>2 DEF JobsEnd, Latest
<1>4. EnvelopeHolds'
  BY <1>0 DEF Enveloped, EnvelopeHolds
<1>5. ASSUME NEW i \in DOMAIN announced', Latest(i)', ~announced'[i].recorded,
             announced'[i].job \in {"running", "completed"}
      PROVE  Room(announced[i].step)'
  <2>1. i \in DOMAIN announced /\ announced'[i].step = announced[i].step /\ announced[i].step \in Steps
    BY <1>2, <1>5, Rows DEF JobsEnd, Turn
  <2>2. Room(announced[i].step)
    BY <1>2, <1>3, <1>5, <2>1 DEF Enveloped, JobsEnd, JobEndings
  <2>. QED  BY <1>0, <2>1, <2>2 DEF Room
<1>6. ASSUME NEW s \in Steps, at'[s] \in AtWork PROVE Room(s)
  <2>1. CASE at'[s] = at[s]
    BY <1>6, <2>1 DEF Enveloped
  <2>2. CASE Dispatch
    BY <1>6, <2>2 DEF Dispatch, AtWork, OnAir, InFlight
  <2>3. CASE Reconcile /\ s = announced[Last].step
    <3>1. Last \in DOMAIN announced /\ ~announced[Last].recorded /\ announced[Last].job = "completed"
      BY <2>3, Rows DEF Reconcile, Dangling, Last
    <3>2. Latest(Last)
      BY <3>1, Rows DEF Latest, Last
    <3>. QED  BY <2>3, <3>1, <3>2 DEF Enveloped
  <2>4. CASE Reconcile /\ s # announced[Last].step
    BY <1>0, <1>6, <2>1, <2>4 DEF Reconcile
  <2>. QED  BY <1>6, <2>1, <2>2, <2>3, <2>4, Gathered DEF AtWork, OnAir, InFlight
<1>. QED  BY <1>1, <1>4, <1>5, <1>6 DEF Enveloped

(* A step thread announces only with a place left, and records only into one. *)
LEMMA EnvelopedAtStep ==
  ASSUME TypeOK, Placed, Traced, Enveloped, NEW s \in Steps, StepThread(s)
  PROVE  Enveloped'
<1>. DEFINE Owed == \A i \in DOMAIN announced :
                      Latest(i) /\ ~announced[i].recorded /\ announced[i].job \in {"running", "completed"}
                        => Room(announced[i].step)
<1>0. /\ rounds \in [Steps -> Nat] /\ retries \in [Steps -> Nat] /\ MaxTurns \in Nat
      /\ \A t \in Steps : rounds[t] \in Nat /\ retries[t] \in Nat
      /\ \A i \in DOMAIN announced : announced[i].step \in Steps
      /\ Owed /\ EnvelopeHolds
      /\ \A t \in Steps : at[t] \in AtWork => Room(t)
  BY Rows, BoundsAssumption DEF TypeOK, Turn, Enveloped
<1>1. \A t \in Steps \ {s} : at'[t] \in AtWork => at[t] \in AtWork
  BY StepShape DEF LeftAlone, AtWork, OnAir, InFlight
<1>2. ASSUME UNCHANGED <<rounds, retries>>, at'[s] \in AtWork => Room(s), Owed' PROVE Enveloped'
  <2>1. \A t \in Steps : Room(t)' <=> Room(t)
    BY <1>2 DEF Room
  <2>2. EnvelopeHolds'
    BY <1>0, <1>2 DEF EnvelopeHolds
  <2>. QED  BY <1>0, <1>1, <1>2, <2>1, <2>2 DEF Enveloped
<1>3. ASSUME UNCHANGED <<rounds, retries, announced>> PROVE Owed'
  BY <1>0, <1>3 DEF Room, Latest
<1>4. CASE Rests(s) \/ (RunCall(s) /\ Same /\ at'[s] = IF unrun[s] = 1 THEN "boundary" ELSE "tools")
  BY <1>2, <1>3, <1>4 DEF Rests, Same, AtWork, OnAir, InFlight
<1>5. CASE (Refuse(s) \/ Answer(s)) /\ Same
  <2>1. Room(s)
    BY <1>0, <1>5 DEF Refuse, Answer, At, AtWork, OnAir, InFlight
  <2>. QED  BY <1>2, <1>3, <1>5, <2>1 DEF Same
<1>6. CASE Announce(s) /\ at'[s] = "posting"
  <2>1. Room(s)
    BY <1>0, <1>6 DEF Announce, BeforeTurn, AtTurn, At, Spent, Room, AtWork, OnAir
  <2>2. /\ announced' = Append(announced, [step |-> s, job |-> "none", recorded |-> FALSE])
        /\ UNCHANGED <<rounds, retries>>
    BY <1>6 DEF Announce
  <2>3. /\ DOMAIN announced' = DOMAIN announced \cup {Len(announced) + 1}
        /\ \A j \in DOMAIN announced : announced'[j] = announced[j]
        /\ announced'[Len(announced) + 1].job = "none"
    BY <2>2, Rows
  <2>4. Owed'
    BY <1>0, <2>2, <2>3 DEF Room, Latest
  <2>. QED  BY <1>2, <2>1, <2>2, <2>4
<1>7. ASSUME NEW job \in JobStates, SetJob(s, job), at[s] \in OnAir, UNCHANGED <<rounds, retries>>
      PROVE  Enveloped'
  <2>1. turn[s] \in DOMAIN announced /\ announced[turn[s]].step = s /\ Room(s)
    BY <1>0, <1>7, OnAirTurn DEF AtWork
  <2>2. announced' = [announced EXCEPT ![turn[s]].job = job]
    BY <1>7 DEF SetJob
  <2>3. /\ DOMAIN announced' = DOMAIN announced
        /\ \A j \in DOMAIN announced :
              /\ announced'[j].step = announced[j].step
              /\ announced'[j].recorded = announced[j].recorded
              /\ announced'[j].job = IF j = turn[s] THEN job ELSE announced[j].job
    BY <2>1, <2>2, Relabelled
  <2>4. Owed'
    BY <1>0, <1>7, <2>1, <2>3 DEF Room, Latest
  <2>. QED  BY <1>2, <1>7, <2>1, <2>4
<1>8. CASE Post(s)
  BY <1>7, <1>8 DEF Post, SetJob, At, OnAir, InFlight, JobStates
<1>9. CASE TimeOut(s)
  BY <1>7, <1>9 DEF TimeOut, SetJob, At, OnAir, InFlight, JobStates, JobEndings
<1>10. CASE Retry(s) /\ at'[s] = "boundary"
  <2>1. Room(s) /\ at[s] = "failed"
    BY <1>0, <1>10 DEF Retry, At, AtWork
  <2>2. announced' = announced /\ rounds' = rounds /\ retries' = [retries EXCEPT ![s] = @ + 1]
    BY <1>10 DEF Retry
  <2>3. EnvelopeHolds'
    BY <1>0, <2>1, <2>2 DEF EnvelopeHolds, Room
  <2>4. \A t \in Steps \ {s} : Room(t) => Room(t)'
    BY <1>0, <2>2 DEF Room
  <2>5. \A i \in DOMAIN announced : Latest(i) /\ announced[i].step = s =>
            announced[i].job \notin {"running", "completed"}
    BY <2>1 DEF Traced, InStep
  <2>6. \A i \in DOMAIN announced' :
            Latest(i)' /\ ~announced'[i].recorded /\ announced'[i].job \in {"running", "completed"}
              => announced'[i] = announced[i] /\ announced[i].step \in Steps \ {s} /\ Room(announced[i].step)
    BY <1>0, <2>2, <2>5 DEF Latest
  <2>7. Owed'
    BY <2>2, <2>4, <2>6
  <2>8. \A t \in Steps : at'[t] \in AtWork => t # s
    BY <1>10 DEF AtWork, OnAir, InFlight
  <2>. QED  BY <1>0, <1>1, <2>3, <2>4, <2>7, <2>8 DEF Enveloped
<1>11. CASE Records(s)
  <2>1. at[s] = "answered"
    BY <1>11 DEF Records, Answered, Returned, At
  <2>2. /\ turn[s] \in DOMAIN announced /\ announced[turn[s]].step = s /\ Latest(turn[s]) /\ Room(s)
    BY <1>0, <2>1, OnAirTurn DEF Traced, InStep, OnAir, InFlight, AtWork
  <2>3. /\ announced' = [announced EXCEPT ![turn[s]].recorded = TRUE]
        /\ rounds' = [rounds EXCEPT ![s] = @ + 1] /\ retries' = retries
        /\ at'[s] \in {"off", "boundary"}
    BY <1>11 DEF Records, RecordTurn
  <2>4. /\ DOMAIN announced' = DOMAIN announced
        /\ \A j \in DOMAIN announced :
              /\ announced'[j].step = announced[j].step
              /\ announced'[j].recorded = IF j = turn[s] THEN TRUE ELSE announced[j].recorded
              /\ announced'[j].job = announced[j].job
    BY <2>2, <2>3, Recorded
  <2>5. EnvelopeHolds'
    BY <1>0, <2>2, <2>3 DEF EnvelopeHolds, Room
  <2>6. \A t \in Steps \ {s} : Room(t) => Room(t)'
    BY <1>0, <2>3 DEF Room
  <2>7. \A i \in DOMAIN announced : Latest(i) /\ announced[i].step = s => i = turn[s]
    BY <2>2, LatestOne
  <2>8. \A i \in DOMAIN announced' :
            Latest(i)' /\ ~announced'[i].recorded /\ announced'[i].job \in {"running", "completed"}
              => announced'[i].step = announced[i].step /\ announced[i].step \in Steps \ {s}
                 /\ Room(announced[i].step)
    <3>1. \A i \in DOMAIN announced : Latest(i)' <=> Latest(i)
      BY <2>4 DEF Latest
    <3>2. \A i \in DOMAIN announced : ~announced'[i].recorded => i # turn[s] /\ ~announced[i].recorded
      BY <2>4
    <3>. QED  BY <1>0, <2>4, <2>7, <3>1, <3>2
  <2>9. Owed'
    BY <2>6, <2>8
  <2>10. \A t \in Steps : at'[t] \in AtWork => t # s
    BY <2>3 DEF AtWork, OnAir, InFlight
  <2>. QED  BY <1>0, <1>1, <2>5, <2>6, <2>9, <2>10 DEF Enveloped
<1>. QED  BY <1>4, <1>5, <1>6, <1>8, <1>9, <1>10, <1>11, StepShape DEF Acts

(* ---------------------- the limits of the dispatch ---------------------- *)

(* A nonempty finite set of steps has a last one in the plan's order. *)
LEMMA LastOf ==
  ASSUME NEW S, S \subseteq Steps, S # {}
  PROVE  \E s \in S : \A t \in S \ {s} : Before(t, s)
<1>. DEFINE places == {i \in DOMAIN Plan : Plan[i] \in S}
            fromEnd == {Len(Plan) - i : i \in places}
<1>1. places \subseteq 1 .. Len(Plan) /\ places # {} /\ Len(Plan) \in Nat
  BY PlanOrder DEF Steps
<1>2. fromEnd \subseteq Nat /\ fromEnd # {}
  BY <1>1
<1>3. PICK k \in fromEnd : \A l \in fromEnd : k <= l
  <2>. HIDE DEF fromEnd
  <2>. QED  BY <1>2, Least
<1>4. PICK i \in places : k = Len(Plan) - i
  BY <1>3
<1>5. \A j \in places : j <= i
  <2>. SUFFICES ASSUME NEW j \in places PROVE j <= i
    OBVIOUS
  <2>1. Len(Plan) - i <= Len(Plan) - j
    BY <1>3, <1>4
  <2>. QED  BY <1>1, <2>1
<1>6. \A t \in S \ {Plan[i]} : Before(t, Plan[i])
  <2>. SUFFICES ASSUME NEW t \in S \ {Plan[i]} PROVE Before(t, Plan[i])
    OBVIOUS
  <2>1. PICK j \in DOMAIN Plan : Plan[j] = t
    BY DEF Steps
  <2>2. j < i
    BY <1>1, <1>5, <2>1
  <2>. QED  BY <2>1, <2>2 DEF Before
<1>. QED  BY <1>6

(* No step of a set has n of it before itself: the set has no more than n. *)
LEMMA CountedInOrder ==
  ASSUME NEW S, S \subseteq Steps, NEW n \in Nat,
         \A s \in S : Cardinality({t \in S : Before(t, s)}) < n
  PROVE  Cardinality(S) <= n
<1>1. IsFiniteSet(S)
  BY PlanOrder, FS_Subset
<1>2. CASE S = {}
  BY <1>2, FS_EmptySet
<1>3. CASE S # {}
  <2>1. PICK s \in S : \A t \in S \ {s} : Before(t, s)
    BY <1>3, LastOf
  <2>. DEFINE ahead == {t \in S : Before(t, s)}
  <2>2. IsFiniteSet(ahead) /\ Cardinality(ahead) < n
    BY <1>1, FS_Subset
  <2>3. S \ {s} \in SUBSET ahead
    BY <2>1
  <2>4. Cardinality(S \ {s}) <= Cardinality(ahead)
    BY <2>2, <2>3, FS_Subset
  <2>5. Cardinality(S \ {s}) = Cardinality(S) - 1
    BY <1>1, FS_RemoveElement
  <2>6. Cardinality(S) \in Nat /\ Cardinality(ahead) \in Nat
    BY <1>1, <2>2, FS_CardinalityType
  <2>. QED  BY <2>2, <2>4, <2>5, <2>6
<1>. QED  BY <1>2, <1>3

(* One dispatch keeps to the limit, to MaxRemote remote steps and to one local
   step, whatever is ready. *)
THEOREM DispatchFits ==
  ASSUME NEW S, S \subseteq Steps, limit \in Nat
  PROVE  /\ Dispatchable(S) \subseteq S
         /\ Cardinality(Dispatchable(S)) <= limit
         /\ Cardinality(Dispatchable(S) \cap Remote) <= MaxRemote
         /\ Cardinality(Dispatchable(S) \ Remote) <= 1
<1>. DEFINE fitting == {s \in S : FitsItsSurface(s, S)}
            D == Dispatchable(S)
<1>1. D = {s \in fitting : Cardinality({t \in fitting : Before(t, s)}) < limit}
  BY DEF Dispatchable
<1>2. D \subseteq fitting /\ fitting \subseteq S /\ IsFiniteSet(S) /\ MaxRemote \in Nat
  BY <1>1, PlanOrder, FS_Subset, BoundsAssumption
<1>3. ASSUME NEW A, NEW B, A \subseteq B, B \subseteq Steps PROVE
        Cardinality(A) \in Nat /\ Cardinality(B) \in Nat /\ Cardinality(A) <= Cardinality(B)
  BY <1>3, PlanOrder, FS_Subset, FS_CardinalityType
<1>4. Cardinality(D) <= limit
  <2>1. ASSUME NEW s \in D PROVE Cardinality({t \in D : Before(t, s)}) < limit
    <3>1. Cardinality({t \in fitting : Before(t, s)}) < limit
      BY <1>1
    <3>2. {t \in D : Before(t, s)} \subseteq {t \in fitting : Before(t, s)}
      BY <1>2
    <3>3. {t \in fitting : Before(t, s)} \subseteq Steps
      BY <1>2
    <3>. HIDE DEF D, fitting
    <3>. QED  BY <1>3, <3>1, <3>2, <3>3
  <2>. HIDE DEF D
  <2>. QED  BY <1>2, <2>1, CountedInOrder
<1>5. Cardinality(D \cap Remote) <= MaxRemote
  <2>1. ASSUME NEW s \in D \cap Remote PROVE Cardinality({t \in D \cap Remote : Before(t, s)}) < MaxRemote
    <3>1. Cardinality({t \in S : Before(t, s)} \cap Remote) < MaxRemote
      BY <1>2 DEF FitsItsSurface
    <3>2. {t \in D \cap Remote : Before(t, s)} \subseteq {t \in S : Before(t, s)} \cap Remote
      BY <1>2
    <3>3. {t \in S : Before(t, s)} \cap Remote \subseteq Steps
      OBVIOUS
    <3>. HIDE DEF D, fitting
    <3>. QED  BY <1>2, <1>3, <3>1, <3>2, <3>3
  <2>. HIDE DEF D
  <2>. QED  BY <1>2, <2>1, CountedInOrder
<1>6. Cardinality(D \ Remote) <= 1
  <2>1. ASSUME NEW s \in D \ Remote PROVE Cardinality({t \in D \ Remote : Before(t, s)}) < 1
    <3>1. {t \in S : Before(t, s)} \subseteq Remote
      BY <1>2 DEF FitsItsSurface
    <3>2. {t \in D \ Remote : Before(t, s)} = {}
      BY <1>2, <3>1
    <3>. QED  BY <3>2, FS_EmptySet
  <2>. HIDE DEF D
  <2>. QED  BY <1>2, <2>1, CountedInOrder
<1>. QED  BY <1>2, <1>4, <1>5, <1>6

(* The limits of the dispatch hold until the join. *)
LEMMA BoundedKept ==
  ASSUME TypeOK, Placed, Bounded, [Next]_vars
  PROVE  Bounded'
<1>0. /\ limit \in Nat \ {0} /\ MaxRemote \in Nat \ {0} /\ limit' = limit
      /\ Abroad \subseteq Steps /\ Abroad' \subseteq Steps /\ at \in [Steps -> Places]
  BY BoundsAssumption, Bounds DEF TypeOK, Abroad
<1>1. ASSUME NEW A, NEW B, A \subseteq B, B \subseteq Steps
      PROVE  Cardinality(A) \in Nat /\ Cardinality(B) \in Nat /\ Cardinality(A) <= Cardinality(B)
  BY <1>1, PlanOrder, FS_Subset, FS_CardinalityType
<1>2. ASSUME Abroad' \subseteq Abroad PROVE Bounded'
  <2>1. Cardinality(Abroad') <= Cardinality(Abroad) /\ Cardinality(Abroad) \in Nat
        /\ Cardinality(Abroad') \in Nat
    BY <1>0, <1>1, <1>2
  <2>2. /\ Cardinality(Abroad' \cap Remote) <= Cardinality(Abroad \cap Remote)
        /\ Cardinality(Abroad \cap Remote) \in Nat /\ Cardinality(Abroad' \cap Remote) \in Nat
    <3>1. Abroad' \cap Remote \subseteq Abroad \cap Remote /\ Abroad \cap Remote \subseteq Steps
      BY <1>0, <1>2
    <3>. QED  BY <1>1, <3>1
  <2>3. /\ Cardinality(Abroad' \ Remote) <= Cardinality(Abroad \ Remote)
        /\ Cardinality(Abroad \ Remote) \in Nat /\ Cardinality(Abroad' \ Remote) \in Nat
    <3>1. Abroad' \ Remote \subseteq Abroad \ Remote /\ Abroad \ Remote \subseteq Steps
      BY <1>0, <1>2
    <3>. QED  BY <1>1, <3>1
  <2>. QED  BY <1>0, <2>1, <2>2, <2>3 DEF Bounded
<1>3. CASE Dispatch
  <2>. DEFINE D == Dispatchable(Ready \cap live)
  <2>1. Ready \cap live \subseteq Steps
    BY DEF Ready
  <2>2. Abroad' = D
    <3>1. D \subseteq Steps
      BY <2>1 DEF Dispatchable
    <3>. HIDE DEF D
    <3>2. at' = [s \in Steps |-> IF s \notin D THEN "off" ELSE IF s \in opened THEN "boundary" ELSE "opening"]
      BY <1>3 DEF Dispatch, D
    <3>. QED  BY <3>1, <3>2 DEF Abroad
  <2>. QED  BY <1>0, <2>1, <2>2, DispatchFits DEF Bounded
<1>4. CASE Reconcile /\ \A s \in Steps : at[s] = "off"
  <2>. DEFINE s == announced[Last].step
  <2>1. Abroad' \subseteq {s}
    BY <1>0, <1>4 DEF Reconcile, Abroad
  <2>2. ASSUME NEW A, A \subseteq Abroad' PROVE Cardinality(A) \in Nat /\ Cardinality(A) <= 1
    <3>1. IsFiniteSet({s}) /\ Cardinality({s}) = 1
      BY FS_Singleton
    <3>. HIDE DEF s
    <3>. QED  BY <2>1, <2>2, <3>1, FS_Subset, FS_CardinalityType
  <2>3. Cardinality(Abroad') <= 1 /\ Cardinality(Abroad' \cap Remote) <= 1 /\ Cardinality(Abroad' \ Remote) <= 1
        /\ Cardinality(Abroad') \in Nat /\ Cardinality(Abroad' \cap Remote) \in Nat
    BY <2>2
  <2>. QED  BY <1>0, <2>3 DEF Bounded
<1>5. CASE UNCHANGED <<at, turn, pc>> \/ \A s \in Steps : at'[s] = "off"
  BY <1>2, <1>5 DEF Abroad
<1>6. ASSUME NEW s \in Steps, StepThread(s) PROVE Bounded'
  <2>1. \A t \in Steps : at'[t] # "off" => at[t] # "off"
    BY <1>6, StepShape, Threading DEF LeftAlone
  <2>. QED  BY <1>2, <2>1 DEF Abroad
<1>. QED  BY <1>3, <1>4, <1>5, <1>6, Gathered DEF Next

(* With a limit of one, one step is in flight. *)
LEMMA OneAbroad ==
  ASSUME TypeOK, Bounded, limit = 1, NEW s \in Steps, NEW t \in Steps, at[s] # "off", at[t] # "off"
  PROVE  s = t
<1>1. IsFiniteSet(Abroad) /\ Cardinality(Abroad) \in Nat /\ Cardinality(Abroad) <= 1
  BY PlanOrder, FS_Subset, FS_CardinalityType DEF Bounded, Abroad
<1>2. CASE Cardinality(Abroad) = 0
  BY <1>1, <1>2, FS_EmptySet DEF Abroad
<1>3. CASE Cardinality(Abroad) = 1
  <2>1. PICK u : Abroad = {u}
    BY <1>1, <1>3, FS_Singleton
  <2>. QED  BY <2>1 DEF Abroad
<1>. QED  BY <1>1, <1>2, <1>3

(* A step that asks in vain finds the request of another. *)
LEMMA RaisesOfAStep ==
  ASSUME NEW s \in Steps, StepThread(s)
  PROVE  raised' \in {raised, "no", "arguments"} \/ request # {}
<1>1. StepStops(s) \/ StepLeaves(s) \/ StepGoesOn(s) => raised' \in {raised, "no"}
  BY DEF StepStops, StepLeaves, StepGoesOn, Idle
<1>2. CASE OpenThread(s) \/ RunCall(s) \/ Post(s) \/ Refuse(s) \/ Answer(s) \/ TimeOut(s) \/ Announce(s)
           \/ CallRaises(s) \/ Collapse(s)
  BY <1>2 DEF OpenThread, RunCall, Post, Refuse, Answer, TimeOut, StepMoves, Announce, CallRaises, Collapse
<1>3. CASE CancelAtBoundary(s) \/ HaltInTools(s) \/ HaltBeforeTurn(s) \/ AskBeforeTurn(s) \/ Retry(s)
           \/ HaltUnanswered(s) \/ LoseLease(s)
  BY <1>1, <1>3 DEF CancelAtBoundary, HaltInTools, HaltBeforeTurn, AskBeforeTurn, Retry, HaltUnanswered, LoseLease
<1>4. CASE RecordAndContinue(s) \/ RecordAndCommitStep(s) \/ RecordAndAsk(s) \/ RecordAndHalt(s)
  BY <1>1, <1>4 DEF RecordAndContinue, RecordAndCommitStep, RecordAndAsk, RecordAndHalt
<1>. QED  BY <1>2, <1>3, <1>4 DEF StepThread

(* With one step at a time, a thread is alone until the join. *)
LEMMA LoneKept ==
  ASSUME TypeOK, Phased, Placed, Traced, Bounded, Lone, [Next]_vars
  PROVE  Lone'
<1>. SUFFICES ASSUME limit = 1
              PROVE  /\ stopped' /\ pc' = "running" => Abroad' = {}
                     /\ raised' # "asked"
                     /\ \A s \in Steps : at'[s] \in OnAir => turn'[s] = Len(announced')
  BY Bounds DEF Lone
<1>. DEFINE Goal == /\ stopped' /\ pc' = "running" => Abroad' = {}
                    /\ raised' # "asked"
                    /\ \A s \in Steps : at'[s] \in OnAir => turn'[s] = Len(announced')
<1>0. /\ stopped /\ pc = "running" => Abroad = {}
      /\ raised # "asked" /\ stopped \in BOOLEAN /\ at \in [Steps -> Places]
      /\ turn \in [Steps -> 0 .. Len(announced)]
      /\ \A s \in Steps : at[s] \in OnAir => turn[s] = Len(announced)
  BY DEF Lone, TypeOK
<1>1. CASE Request \/ Relay \/ Controller \/ Crash \/ (\E i \in DOMAIN announced : JobEnds(i))
           \/ UNCHANGED vars
  <2>1. Len(announced') = Len(announced)
    BY <1>1, JobsOutside DEF JobsEnd
  <2>2. raised' \in {raised, "no"}
    BY <1>1 DEF Request, Cancel, Grant, DenyOrExpire, Relay, Crash, JobEnds, vars, Controller, Decide,
       CancelAtDispatch, Dispatch, HoldGatedStep, Join, ClaimReleased, RecoverPlanning, Resume,
       Reconcile, HaltRecovered, memory, Idle, Control
  <2>3. CASE UNCHANGED <<at, turn, pc>>
    <3>1. pc = "running" => (stopped' <=> stopped)
      BY <1>1, <2>3 DEF Request, Cancel, Grant, DenyOrExpire, Relay, Crash, JobEnds, vars, Controller, Decide,
         CancelAtDispatch, Dispatch, HoldGatedStep, Join, ClaimReleased, RecoverPlanning, Resume,
         Reconcile, HaltRecovered, memory
    <3>. QED  BY <1>0, <2>1, <2>2, <2>3, <3>1 DEF Abroad
  <2>4. CASE \A s \in Steps : at'[s] = "off"
    BY <1>0, <2>2, <2>4 DEF Abroad, OnAir, InFlight
  <2>5. CASE Dispatch
    BY <1>0, <2>2, <2>5 DEF Dispatch, Phased, OnAir, InFlight
  <2>6. CASE Reconcile /\ \A s \in Steps : at[s] = "off"
    BY <1>0, <2>1, <2>2, <2>6 DEF Reconcile, OnAir, InFlight, Last
  <2>. QED  BY <1>1, <2>3, <2>4, <2>5, <2>6, Gathered
<1>2. ASSUME NEW s \in Steps, StepThread(s) PROVE Goal
  <2>1. /\ pc \in {"running", "reconciled"} /\ at[s] # "off"
        /\ \A t \in Steps \ {s} : at[t] = "off" /\ at'[t] = "off"
    BY <1>2, Threading, StepShape, OneAbroad DEF LeftAlone
  <2>2. ~stopped /\ Owned
    BY <1>0, <2>1 DEF Phased, Abroad
  <2>3. stopped' /\ pc' = "running" => Abroad' = {}
    <3>1. CASE StepStops(s)
      <4>1. pc = "running" => at'[s] = "off"
        BY <1>0, <3>1 DEF StepStops, Goto
      <4>. QED  BY <2>1, <3>1, <4>1 DEF StepStops, Idle, Abroad
    <3>. QED  BY <1>2, <2>2, <3>1, Threading
  <2>4. raised' # "asked"
    BY <1>0, <1>2, <2>2, RaisesOfAStep DEF Owned, Phased
  <2>5. ASSUME at'[s] \in OnAir PROVE turn'[s] = Len(announced')
    <3>1. CASE Announce(s)
      <4>1. /\ turn' = [turn EXCEPT ![s] = Len(announced) + 1]
            /\ announced' = Append(announced, [step |-> s, job |-> "none", recorded |-> FALSE])
        BY <3>1 DEF Announce
      <4>2. Len(announced') = Len(announced) + 1
        BY <4>1, Rows
      <4>. QED  BY <1>0, <4>1, <4>2
    <3>2. CASE Answer(s) /\ Same /\ turn'[s] = turn[s]
      BY <1>0, <3>2 DEF Answer, At, Same, OnAir, InFlight
    <3>3. CASE Post(s) /\ turn'[s] = turn[s]
      <4>1. at[s] \in OnAir
        BY <3>3 DEF Post, At, OnAir, InFlight
      <4>2. Len(announced') = Len(announced)
        <5>1. turn[s] \in DOMAIN announced
          BY <4>1, OnAirTurn
        <5>2. announced' = [announced EXCEPT ![turn[s]].job = "running"] /\ "running" \in JobStates
          BY <3>3 DEF Post, SetJob, JobStates
        <5>. QED  BY <5>1, <5>2, Relabelled
      <4>. QED  BY <1>0, <3>3, <4>1, <4>2
    <3>4. \/ Announce(s)
          \/ Answer(s) /\ Same /\ turn'[s] = turn[s]
          \/ Post(s) /\ turn'[s] = turn[s]
      BY <1>2, <2>5, StepShape DEF Acts, Rests, Records, OnAir, InFlight
    <3>. QED  BY <3>1, <3>2, <3>3, <3>4
  <2>6. \A t \in Steps : at'[t] \in OnAir => t = s
    BY <2>1 DEF OnAir, InFlight
  <2>. QED  BY <2>3, <2>4, <2>5, <2>6
<1>. QED  BY <1>1, <1>2 DEF Next

(* --------------------- jobs and who waits for them ---------------------- *)

(* A crash leaves at most one job unattended, and recovery attends to it. *)
LEMMA AttendedOutside ==
  ASSUME TypeOK, Phased, Placed, Traced, Lone, Attended,
         Request \/ Relay \/ Controller \/ Crash
         \/ (\E i \in DOMAIN announced : JobEnds(i)) \/ UNCHANGED vars
  PROVE  Attended'
<1>. DEFINE Caller(i) == \E s \in Steps : at[s] = "calling" /\ turn[s] = i
            Left(i) == crashes > 0 /\ pc = "recover" /\ i = Len(announced) /\ status = "executing"
<1>0. limit' = limit /\ crashes \in Nat /\ crashes' \in Nat /\ crashes <= crashes'
  BY Bounds, BoundsAssumption DEF TypeOK, Next
<1>1. JobsEnd
  BY JobsOutside
<1>. SUFFICES ASSUME limit = 1 \/ crashes' = 0,
                     NEW i \in DOMAIN announced, announced'[i].job = "running"
              PROVE  Caller(i)' \/ Left(i)'
  BY <1>0, <1>1 DEF Attended, JobsEnd
<1>2. announced[i].job = "running" /\ (Caller(i) \/ Left(i))
  BY <1>0, <1>1 DEF Attended, JobsEnd, JobEndings
<1>3. CASE Request \/ Relay \/ (\E j \in DOMAIN announced : JobEnds(j)) \/ UNCHANGED vars
  <2>1. UNCHANGED <<at, turn, pc>> /\ (status = "executing" => status' = "executing")
    BY <1>3 DEF Request, Cancel, Grant, DenyOrExpire, End, Write, Relay, JobEnds, vars, memory, row
  <2>2. Len(announced') = Len(announced)
    BY <1>1 DEF JobsEnd
  <2>. QED  BY <1>0, <1>2, <2>1, <2>2
<1>4. CASE Crash
  <2>1. /\ crashes' > 0 /\ pc' = "recover" /\ announced' = announced /\ status' = status
    BY <1>0, <1>4 DEF Crash, record, row
  <2>2. limit = 1
    BY <1>0, <2>1
  <2>3. ASSUME NEW s \in Steps, at[s] = "calling", turn[s] = i
        PROVE  i = Len(announced) /\ status = "executing"
    <3>1. pc = "running" /\ Abroad # {}
      BY <2>3 DEF Placed, Abroad
    <3>2. ~stopped
      BY <2>2, <3>1 DEF Lone
    <3>. QED  BY <2>2, <2>3, <3>1, <3>2 DEF Lone, OnAir, InFlight, Phased, Owned
  <2>. QED  BY <1>2, <2>1, <2>3
<1>5. CASE Controller
  <2>1. \A s \in Steps : at[s] # "calling"
    BY <1>5 DEF Placed, None, Controller, Decide, CancelAtDispatch, HoldGatedStep, Join, ClaimReleased,
       RecoverPlanning, Resume, HaltRecovered, Dispatch, Reconcile
  <2>2. Left(i) /\ Last = i
    BY <1>2, <2>1 DEF Last
  <2>3. Dangling
    BY <1>2, <2>2, Rows DEF Dangling, Traced, Accounted
  <2>4. CASE Resume
    <3>1. announced' = [announced EXCEPT ![i].job = "cancelled"] /\ "cancelled" \in JobStates
      BY <1>2, <2>2, <2>3, <2>4 DEF Resume, JobStates, JobEndings
    <3>2. \A j \in DOMAIN announced : announced'[j].job = IF j = i THEN "cancelled" ELSE announced[j].job
      BY <3>1, Relabelled
    <3>. QED  BY <3>2
  <2>5. CASE ~Resume
    BY <1>2, <1>5, <2>2, <2>5 DEF Controller, Decide, CancelAtDispatch, HoldGatedStep, Join, ClaimReleased,
       RecoverPlanning, HaltRecovered, Dispatch, Reconcile
  <2>. QED  BY <2>4, <2>5
<1>. QED  BY <1>3, <1>4, <1>5

(* A thread leaves no job running behind it. *)
LEMMA AttendedAtStep ==
  ASSUME TypeOK, Phased, Placed, Traced, Attended, NEW s \in Steps, StepThread(s)
  PROVE  Attended'
<1>0. /\ limit' = limit /\ crashes' = crashes /\ pc \in {"running", "reconciled"}
      /\ \A t \in Steps \ {s} : LeftAlone(t)
  BY Threading, StepShape
<1>1. \A t \in Steps \ {s} : at[t] = "calling" => at'[t] = "calling" /\ turn'[t] = turn[t]
  BY <1>0 DEF LeftAlone, InFlight
<1>. SUFFICES ASSUME limit = 1 \/ crashes = 0
              PROVE  \A i \in DOMAIN announced' : announced'[i].job = "running" =>
                         \E t \in Steps : at'[t] = "calling" /\ turn'[t] = i
  BY <1>0 DEF Attended
<1>2. \A i \in DOMAIN announced : announced[i].job = "running" =>
          \E t \in Steps : at[t] = "calling" /\ turn[t] = i
  BY <1>0 DEF Attended
<1>3. CASE at[s] # "calling" /\ announced' = announced
  BY <1>1, <1>2, <1>3
<1>4. CASE Answer(s) /\ Same
  <2>1. announced[turn[s]].job # "running"
    BY <1>4 DEF Answer, Job, JobEndings
  <2>. QED  BY <1>1, <1>2, <1>4, <2>1 DEF Same
<1>5. CASE Announce(s)
  <2>1. /\ announced' = Append(announced, [step |-> s, job |-> "none", recorded |-> FALSE])
        /\ at[s] # "calling"
    BY <1>5 DEF Announce, BeforeTurn, AtTurn, At
  <2>2. /\ DOMAIN announced' = DOMAIN announced \cup {Len(announced) + 1}
        /\ \A j \in DOMAIN announced : announced'[j] = announced[j]
        /\ announced'[Len(announced) + 1].job = "none"
    BY <2>1, Rows
  <2>. QED  BY <1>1, <1>2, <2>1, <2>2
<1>6. ASSUME NEW job \in JobStates, SetJob(s, job), at[s] \in InFlight
      PROVE  /\ DOMAIN announced' = DOMAIN announced
             /\ \A i \in DOMAIN announced : announced'[i].job = IF i = turn[s] THEN job ELSE announced[i].job
  <2>1. turn[s] \in DOMAIN announced
    BY <1>6, OnAirTurn DEF OnAir
  <2>2. announced' = [announced EXCEPT ![turn[s]].job = job]
    BY <1>6 DEF SetJob
  <2>. QED  BY <2>1, <2>2, Relabelled
<1>7. CASE Post(s) /\ at'[s] = "calling" /\ turn'[s] = turn[s]
  <2>1. SetJob(s, "running") /\ at[s] = "posting"
    BY <1>7 DEF Post, At
  <2>2. /\ DOMAIN announced' = DOMAIN announced
        /\ \A i \in DOMAIN announced : announced'[i].job = IF i = turn[s] THEN "running" ELSE announced[i].job
    BY <1>6, <2>1 DEF JobStates, InFlight
  <2>. QED  BY <1>1, <1>2, <1>7, <2>1, <2>2
<1>8. CASE TimeOut(s)
  <2>1. SetJob(s, "cancelled") /\ at[s] = "calling"
    BY <1>8 DEF TimeOut, At
  <2>2. /\ DOMAIN announced' = DOMAIN announced
        /\ \A i \in DOMAIN announced : announced'[i].job = IF i = turn[s] THEN "cancelled" ELSE announced[i].job
    BY <1>6, <2>1 DEF JobStates, JobEndings, InFlight
  <2>. QED  BY <1>1, <1>2, <2>1, <2>2
<1>9. CASE Records(s)
  <2>1. at[s] = "answered"
    BY <1>9 DEF Records, Answered, Returned, At
  <2>2. turn[s] \in DOMAIN announced /\ announced' = [announced EXCEPT ![turn[s]].recorded = TRUE]
    BY <1>9, <2>1, OnAirTurn DEF OnAir, Records, RecordTurn
  <2>3. /\ DOMAIN announced' = DOMAIN announced
        /\ \A i \in DOMAIN announced : announced'[i].job = announced[i].job
    BY <2>2, Recorded
  <2>. QED  BY <1>1, <1>2, <2>1, <2>3
<1>10. CASE Rests(s) \/ (RunCall(s) /\ Same) \/ (Refuse(s) /\ Same) \/ Retry(s)
  BY <1>3, <1>10 DEF Rests, Same, RunCall, CallsPending, Refuse, Retry, At, InFlight
<1>. QED  BY <1>4, <1>5, <1>7, <1>8, <1>9, <1>10, StepShape DEF Acts

(* ----------------------------- the theorems ----------------------------- *)

(* The inductive invariant holds in every reachable state. *)
THEOREM Invariance == Spec => []IInv
<1>1. Init => IInv
  <2>. SUFFICES ASSUME Init PROVE IInv
    OBVIOUS
  <2>1. limit \in Nat \ {0} /\ MaxRemote \in Nat /\ MaxTurns \in Nat \ {0} /\ MaxCrashes \in Nat
    BY BoundsAssumption DEF Init
  <2>2. TypeOK
    <3>1. /\ {leased, cancelRequested, stopped, relayed} \subseteq BOOLEAN
          /\ status \in States /\ pc \in Controls /\ raised \in {"no", "asked", "arguments"}
      BY DEF Init, States, Controls
    <3>2. /\ {request, live, committed, opened} \subseteq SUBSET Steps
          /\ {rounds, retries, unrun} \subseteq [Steps -> Nat]
      BY DEF Init
    <3>3. visible \in [Steps -> BOOLEAN]
      BY DEF Init
    <3>4. /\ announced \in Seq([step : Steps, job : JobStates, recorded : BOOLEAN])
          /\ Len(announced) = 0
      BY DEF Init
    <3>5. turn \in [Steps -> 0 .. Len(announced)]
      BY <3>4 DEF Init
    <3>6. at \in [Steps -> Places] /\ \A s \in Steps : at[s] = "off"
      BY DEF Init, None, Places
    <3>7. limit \in Limits /\ crashes \in 0 .. MaxCrashes
      BY <2>1 DEF Init
    <3>. QED  BY <3>1, <3>2, <3>3, <3>4, <3>5, <3>6, <3>7 DEF TypeOK, InFlight
  <2>3. Phased /\ Placed /\ Pending /\ Granted
    BY DEF Init, Phased, Placed, Pending, Granted, None
  <2>4. DOMAIN announced = {}
    BY DEF Init
  <2>5. Traced /\ Attended
    BY <2>4 DEF Init, Traced, InStep, None, OnAir, InFlight, Attended
  <2>6. Enveloped
    BY <2>1, <2>4 DEF Init, Enveloped, EnvelopeHolds, None, AtWork, OnAir, InFlight
  <2>7. Abroad = {}
    BY DEF Init, Abroad, None
  <2>8. Bounded
    BY <2>1, <2>7, FS_EmptySet DEF Bounded
  <2>9. Lone
    BY <2>7 DEF Init, Lone, None, OnAir, InFlight
  <2>. QED  BY <2>2, <2>3, <2>5, <2>6, <2>8, <2>9 DEF IInv
<1>2. IInv /\ [Next]_vars => IInv'
  <2>. SUFFICES ASSUME IInv, [Next]_vars PROVE IInv'
    OBVIOUS
  <2>. USE DEF IInv
  <2>1. TypeOK' /\ Phased' /\ Placed' /\ Pending' /\ Granted'
    BY Typed, Phasing, Placing, PendingKept, GrantedKept
  <2>2. Bounded' /\ Lone'
    BY BoundedKept, LoneKept
  <2>3. CASE Request \/ Relay \/ Controller \/ Crash \/ (\E i \in DOMAIN announced : JobEnds(i))
             \/ UNCHANGED vars
    BY <2>1, <2>2, <2>3, TracedOutside, EnvelopedOutside, AttendedOutside
  <2>4. ASSUME NEW s \in Steps, StepThread(s) PROVE IInv'
    BY <2>1, <2>2, <2>4, TracedAtStep, EnvelopedAtStep, AttendedAtStep
  <2>. QED  BY <2>3, <2>4 DEF Next
<1>. QED  BY <1>1, <1>2, PTL DEF Spec

(* Turns that are attended to by different steps are no more than the steps. *)
LEMMA FewerThanAbroad ==
  ASSUME TypeOK, NEW R, R \subseteq DOMAIN announced, NEW A, A \subseteq Abroad,
         \A i \in R : announced[i].step \in A /\ turn[announced[i].step] = i
  PROVE  Cardinality(R) <= Cardinality(A)
<1>. DEFINE f == [i \in R |-> announced[i].step]
<1>1. f \in [R -> A] /\ \A i, j \in R : f[i] = f[j] => i = j
  OBVIOUS
<1>2. f \in Injection(R, A)
  BY <1>1 DEF Injection, IsInjective
<1>3. IsFiniteSet(A)
  BY PlanOrder, FS_Subset DEF Abroad
<1>. QED  BY <1>2, <1>3, FS_Injection

(* Jobs are attended, and the attending steps are within the limits: so are the
   jobs. *)
LEMMA JobsAreAttended ==
  ASSUME IInv PROVE JobsWithinLimit
<1>. USE DEF IInv
<1>. DEFINE running == {i \in DOMAIN announced : announced[i].job = "running"}
            remote == {i \in running : announced[i].step \in Remote}
<1>. SUFFICES ASSUME limit = 1 \/ crashes = 0
              PROVE  /\ Cardinality(running) <= limit
                     /\ Cardinality(remote) <= MaxRemote
                     /\ Cardinality(running \ remote) <= 1
  BY DEF JobsWithinLimit
<1>0. limit \in Nat \ {0} /\ MaxRemote \in Nat \ {0} /\ IsFiniteSet(Abroad) /\ Len(announced) \in Nat
  BY BoundsAssumption, PlanOrder, FS_Subset, Rows DEF TypeOK, Abroad
<1>1. CASE pc = "recover"
  <2>1. running \subseteq {Len(announced)}
    BY <1>1 DEF Attended, Placed
  <2>2. ASSUME NEW R, R \subseteq running PROVE Cardinality(R) <= 1 /\ Cardinality(R) \in Nat
    <3>1. IsFiniteSet({Len(announced)}) /\ Cardinality({Len(announced)}) = 1
      BY FS_Singleton
    <3>2. R \in SUBSET {Len(announced)}
      BY <2>1, <2>2
    <3>. QED  BY <3>1, <3>2, FS_Subset, FS_CardinalityType
  <2>3. /\ Cardinality(running) <= 1 /\ Cardinality(running) \in Nat
        /\ Cardinality(remote) <= 1 /\ Cardinality(remote) \in Nat
        /\ Cardinality(running \ remote) <= 1
    BY <2>2
  <2>. HIDE DEF running, remote
  <2>. QED  BY <1>0, <2>3
<1>2. CASE pc # "recover"
  <2>1. \A i \in running : announced[i].step \in Abroad /\ turn[announced[i].step] = i
    <3>. TAKE i \in running
    <3>1. PICK s \in Steps : at[s] = "calling" /\ turn[s] = i
      BY <1>2 DEF Attended
    <3>2. announced[i].step = s
      BY <3>1, OnAirTurn DEF OnAir, InFlight
    <3>. QED  BY <3>1, <3>2 DEF Abroad
  <2>2. Cardinality(running) <= Cardinality(Abroad)
    <3>1. running \subseteq DOMAIN announced
      OBVIOUS
    <3>. HIDE DEF running
    <3>. QED  BY <2>1, <3>1, FewerThanAbroad
  <2>3. Cardinality(remote) <= Cardinality(Abroad \cap Remote)
    <3>1. remote \subseteq DOMAIN announced /\ Abroad \cap Remote \subseteq Abroad
          /\ \A i \in remote : announced[i].step \in Abroad \cap Remote /\ turn[announced[i].step] = i
      BY <2>1
    <3>. HIDE DEF remote
    <3>. QED  BY <3>1, FewerThanAbroad
  <2>4. Cardinality(running \ remote) <= Cardinality(Abroad \ Remote)
    <3>. DEFINE local == running \ remote
    <3>1. local \subseteq DOMAIN announced /\ Abroad \ Remote \subseteq Abroad
          /\ \A i \in local : announced[i].step \in Abroad \ Remote /\ turn[announced[i].step] = i
      BY <2>1
    <3>. HIDE DEF local
    <3>2. Cardinality(local) <= Cardinality(Abroad \ Remote)
      BY <3>1, FewerThanAbroad
    <3>. QED  BY <3>2 DEF local
  <2>5. IsFiniteSet(running)
    <3>1. running \in SUBSET (1 .. Len(announced))
      BY Rows
    <3>. HIDE DEF running
    <3>2. IsFiniteSet(1 .. Len(announced))
      BY <1>0, FS_Interval
    <3>. QED  BY <3>1, <3>2, FS_Subset
  <2>6. /\ Cardinality(running) \in Nat /\ Cardinality(remote) \in Nat
        /\ Cardinality(running \ remote) \in Nat
    <3>1. remote \in SUBSET running /\ running \ remote \in SUBSET running
      OBVIOUS
    <3>. HIDE DEF running, remote
    <3>. QED  BY <2>5, <3>1, FS_Subset, FS_CardinalityType
  <2>7. /\ Cardinality(Abroad) \in Nat /\ Cardinality(Abroad \cap Remote) \in Nat
        /\ Cardinality(Abroad \ Remote) \in Nat
    BY <1>0, FS_Subset, FS_CardinalityType
  <2>. HIDE DEF running, remote
  <2>. QED  BY <1>0, <2>2, <2>3, <2>4, <2>6, <2>7 DEF Bounded
<1>. QED  BY <1>1, <1>2

(* Every variable keeps to its type, and a step in flight is in flight with its
   own turn. *)
THEOREM TypeCorrect == Spec => []TypeOK
<1>1. IInv => TypeOK
  BY DEF IInv
<1>. QED  BY <1>1, Invariance, PTL

(* The envelope: no interleaving of turns, repeats, parks, crashes and recovered
   answers makes a step spend more attempts than its intent gives it. *)
THEOREM TurnsStayInEnvelope == Spec => []EnvelopeHolds
<1>1. IInv => EnvelopeHolds
  BY DEF IInv, Enveloped
<1>. QED  BY <1>1, Invariance, PTL

(* One step at a time, nothing but ill-formed arguments kills the worker thread. *)
THEOREM SerialThreadSurvives == Spec => []ThreadSurvives
<1>1. IInv => ThreadSurvives
  <2>. SUFFICES ASSUME IInv, limit = 1, pc = "dead" PROVE raised = "arguments"
    BY DEF ThreadSurvives
  <2>1. raised # "asked" /\ raised \in {"no", "asked", "arguments"}
    BY DEF IInv, Lone, TypeOK
  <2>2. raised # "no"
    BY DEF IInv, Phased
  <2>. QED  BY <2>1, <2>2
<1>. QED  BY <1>1, Invariance, PTL

(* What LoadCoach runs for a trajectory keeps to the limits of the dispatch. *)
THEOREM JobsStayWithinLimit == Spec => []JobsWithinLimit
BY Invariance, JobsAreAttended, PTL

(* What is committed is over: its thread is gone, and nothing announced for it
   is left to be recorded. *)
THEOREM CommittedStepsAreOver == Spec => CommittedIsOver
<1>. DEFINE Over == \A s \in committed : rounds'[s] = rounds[s] /\ s \in committed'
<1>1. IInv /\ [Next]_vars => [Over]_vars
  <2>. SUFFICES ASSUME IInv, [Next]_vars, NEW s \in committed PROVE rounds'[s] = rounds[s] /\ s \in committed'
    OBVIOUS
  <2>. USE DEF IInv
  <2>0. s \in Steps /\ at[s] = "off" /\ rounds \in [Steps -> Nat] /\ s \in committed'
    BY Lasting DEF Granted, TypeOK
  <2>1. CASE Request \/ Relay \/ Controller \/ Crash \/ (\E i \in DOMAIN announced : JobEnds(i))
             \/ UNCHANGED vars
    <3>1. rounds' = rounds
      BY <2>1 DEF Request, Cancel, Grant, DenyOrExpire, Relay, Crash, JobEnds, vars, Controller, Decide,
         CancelAtDispatch, Dispatch, HoldGatedStep, Join, ClaimReleased, RecoverPlanning, Resume,
         Reconcile, HaltRecovered, record
    <3>. QED  BY <2>0, <3>1
  <2>2. ASSUME NEW t \in Steps, StepThread(t) PROVE rounds'[s] = rounds[s]
    <3>1. s # t
      BY <2>0, <2>2, Threading
    <3>2. rounds' = rounds \/ rounds' = [rounds EXCEPT ![t] = @ + 1]
      BY <2>2, StepShape DEF Acts, Rests, Same, Announce, Post, TimeOut, SetJob, Retry, Records, RecordTurn
    <3>. QED  BY <2>0, <3>1, <3>2
  <2>. QED  BY <2>0, <2>1, <2>2 DEF Next
<1>. QED  BY <1>1, Invariance, PTL DEF Spec, CommittedIsOver

(* ----------------------------- refinement ------------------------------ *)

(* A step of the threads, the web side or recovery is one step of the record, or
   none. *)
LEMMA Simulation ==
  ASSUME IInv, [Next]_vars
  PROVE  [Governed!Next]_(Governed!vars)
<1>. USE DEF IInv
<1>. DEFINE Goal == [Governed!Next]_(Governed!vars)
<1>1. ASSUME UNCHANGED <<status, live, request, committed>> PROVE Goal
  BY <1>1 DEF Governed!vars
<1>2. ASSUME NEW S \in (SUBSET Steps) \ {{}}, Hold(S), status \in {"planning", "executing"},
             UNCHANGED committed
      PROVE  Goal
  BY <1>2 DEF Hold, Write, Governed!Next, Governed!Ask, Terminal
<1>3. ASSUME NEW ending \in Terminal \ {"completed"}, status \notin Terminal, status \in States, status' = ending,
             request' = {}, UNCHANGED <<live, committed>>
      PROVE  Goal
  BY <1>3 DEF Governed!Next, Governed!End, Governed!Open, Terminal, States
<1>4. CASE Request
  <2>1. CASE Cancel
    BY <1>1, <1>3, <2>1 DEF Cancel, record, Terminal, TypeOK
  <2>2. CASE Grant
    BY <2>2 DEF Grant, record, Governed!Next, Governed!Grant, Terminal
  <2>3. CASE DenyOrExpire
    BY <1>3, <2>3 DEF DenyOrExpire, End, Write, record, Terminal, TypeOK
  <2>. QED  BY <1>4, <2>1, <2>2, <2>3 DEF Request
<1>5. CASE Relay \/ Crash \/ (\E i \in DOMAIN announced : JobEnds(i)) \/ UNCHANGED vars
  BY <1>1, <1>5 DEF Relay, Crash, JobEnds, vars, row, record
<1>6. CASE Controller
  <2>1. CASE Decide
    <3>1. status = "planning" /\ committed' = committed /\ committed = {}
      BY <2>1 DEF Decide, Phased, record
    <3>2. Steps \in (SUBSET Steps) \ {{}}
      BY PlanOrder
    <3>3. {First(Ready)} \in (SUBSET Steps) \ {{}}
      BY <3>1, ReadyAtFirst, FirstOf
    <3>4. ASSUME NEW gated \in SUBSET Gateable, gated # Steps, status' = "executing", live' = Steps \ gated,
                 UNCHANGED request
          PROVE  Goal
      <4>1. Steps \ gated \in (SUBSET Steps) \ {{}}
        BY <3>4, PlanAssumption
      <4>. QED  BY <3>1, <3>4, <4>1 DEF Governed!Next, Governed!Allow, Terminal
    <3>5. CASE End("rejected")
      BY <1>3, <3>1, <3>5 DEF End, Write, Terminal, TypeOK
    <3>. QED  BY <1>2, <2>1, <3>1, <3>2, <3>3, <3>4, <3>5 DEF Decide
  <2>2. CASE HoldGatedStep
    <3>1. {First(Ready)} \in (SUBSET Steps) \ {{}}
      BY <2>2, FirstOf DEF HoldGatedStep, Ready
    <3>. QED  BY <1>2, <2>2, <3>1 DEF HoldGatedStep, Phased, Owned, record
  <2>3. CASE CancelAtDispatch \/ HaltRecovered
    BY <1>3, <2>3 DEF CancelAtDispatch, HaltRecovered, Phased, Owned, record, End, Write, Terminal, TypeOK
  <2>4. CASE Dispatch \/ Join \/ ClaimReleased \/ RecoverPlanning \/ Resume \/ Reconcile
    BY <1>1, <2>4 DEF Dispatch, Join, ClaimReleased, RecoverPlanning, Resume, Reconcile, row, record
  <2>. QED  BY <1>6, <2>1, <2>2, <2>3, <2>4 DEF Controller
<1>7. ASSUME NEW s \in Steps, StepThread(s) PROVE Goal
  <2>1. CASE UNCHANGED row /\ UNCHANGED committed
    BY <1>1, <2>1 DEF row
  <2>2. CASE Owned /\ StepStops(s) /\ Hold({s}) /\ UNCHANGED committed
    BY <1>2, <2>2 DEF Owned
  <2>3. CASE Owned /\ End("cancelled") /\ UNCHANGED committed
    BY <1>3, <2>3 DEF Owned, End, Write, Terminal, States
  <2>4. CASE Owned /\ End("halted") /\ UNCHANGED committed
    BY <1>3, <2>4 DEF Owned, End, Write, Terminal, States
  <2>5. CASE RecordAndCommitStep(s)
    <3>1. /\ Owned /\ committed' = committed \cup {s}
          /\ IF committed' = Steps THEN End("completed") ELSE UNCHANGED row
      BY <2>5 DEF RecordAndCommitStep
    <3>2. /\ status = "executing" /\ request = {}
          /\ s \in live \ committed /\ DependsOn[s] \subseteq committed
      BY <1>7, <3>1, Threading DEF Owned, Phased, Granted
    <3>3. /\ UNCHANGED <<live, request>>
          /\ status' = IF committed' = Steps THEN "completed" ELSE "executing"
      BY <3>1, <3>2 DEF End, Write, row
    <3>4. Governed!Commit(s)
      BY <3>1, <3>2, <3>3 DEF Governed!Commit, Terminal
    <3>. QED  BY <3>2, <3>4 DEF Governed!Next
  <2>. QED  BY <1>7, <2>1, <2>2, <2>3, <2>4, <2>5, WritesOfAStep
<1>. QED  BY <1>4, <1>5, <1>6, <1>7 DEF Next

(* The plan's promises survive concurrency, parks and crashes: PlanExecution
   implements GovernedPlan, whatever the plan, the limits and the bounds. *)
THEOREM ExecutionImplementsPlan == Spec => ImplementsGovernedPlan
<1>1. Init => Governed!Init
  BY DEF Init, Governed!Init, Terminal
<1>2. IInv /\ [Next]_vars => [Governed!Next]_(Governed!vars)
  BY Simulation
<1>. QED  BY <1>1, <1>2, Invariance, PTL DEF Spec, ImplementsGovernedPlan, Governed!Spec

Promised == INSTANCE GovernedPlanProofs
    WITH phase <- IF status \in Terminal \ {"completed"} THEN "ended" ELSE status,
         allowed <- live, asked <- request

(* No step is done that nobody allowed, none before the steps it depends on, the
   trajectory is completed when all are and only then, and a person is asked
   exactly while it waits: what GovernedPlan promises, of the threads. *)
THEOREM PromisesKept ==
  Spec => [](/\ committed \subseteq live
             /\ \A s \in committed : DependsOn[s] \subseteq committed
             /\ status = "completed" <=> committed = Steps
             /\ status = "awaiting_approval" <=> request # {})
<1>. DEFINE Kept == /\ committed \subseteq live
                    /\ \A s \in committed : DependsOn[s] \subseteq committed
                    /\ status = "completed" <=> committed = Steps
                    /\ status = "awaiting_approval" <=> request # {}
<1>0. Governed!Init => Promised!Init
  BY DEF Governed!Init, Promised!Init
<1>1. [Governed!Next]_(Governed!vars) => [Promised!Next]_(Promised!vars)
  BY DEF Governed!Next, Promised!Next, Governed!vars, Promised!vars,
     Governed!Allow, Governed!Ask, Governed!Grant, Governed!Commit, Governed!End, Governed!Open,
     Promised!Allow, Promised!Ask, Promised!Grant, Promised!Commit, Promised!End, Promised!Open
<1>2. Promised!Promises => Kept
  BY PlanOrder DEF Promised!Promises, Promised!CommittedWasAllowed, Promised!DependenciesFirst,
     Promised!CompletedIsWhole, Promised!AsksWhileWaiting, Terminal
<1>. QED
  BY <1>0, <1>1, <1>2, ExecutionImplementsPlan, Promised!PromisesHold, PTL
  DEF ImplementsGovernedPlan, Governed!Spec, Promised!Spec

=============================================================================
