--------------------------- MODULE PlanExecution ---------------------------
(* One planned trajectory under one worker: the verdict over its plan, the
   dispatch of ready steps, the threads that run them side by side, their turns,
   tool calls, retries and escalations, the parks they raise, and the recovery
   of the last announced turn (services/loop.py, domain/dispatch.py,
   domain/plan.py, services/approvals.py).

   Several workers and their leases are the subject of WorkerPool, day windows
   of WindowWait; LoadCoach answers here, if only with an error.  Which tier a
   turn runs on, and what a tool does, are abstracted. *)
EXTENDS Naturals, Sequences, FiniteSets

CONSTANTS
    Plan,               \* the steps, in plan order
    DependsOn,          \* depends_on
    Remote,             \* steps whose approved tier is remote
    Gateable,           \* steps for which an approval gate may fire
    Limits,             \* the values of max_concurrent_steps considered
    MaxRemote,          \* max_concurrent_remote_steps
    MaxTurns,           \* intent.max_turns
    StepRetries,        \* [execution] step_retries
    Calls,              \* tool calls of a turn that asks for any
    Fetching,           \* steps whose calls may be of a network tool, ill-formed
    MaxAnnounced,       \* bound: turns announced for the trajectory
    MaxCrashes          \* bound: crashes

Steps == {Plan[i] : i \in DOMAIN Plan}

Before(a, b) == \E i, j \in DOMAIN Plan : i < j /\ Plan[i] = a /\ Plan[j] = b

ASSUME PlanAssumption ==
    /\ Plan \in Seq(Steps) /\ Plan # <<>>
    /\ \A i, j \in DOMAIN Plan : Plan[i] = Plan[j] => i = j
    /\ DependsOn \in [Steps -> SUBSET Steps]
    /\ \A S \in (SUBSET Steps) \ {{}} : \E s \in S : DependsOn[s] \cap S = {}
    /\ Remote \subseteq Steps /\ Gateable \subseteq Steps /\ Fetching \subseteq Steps
ASSUME BoundsAssumption ==
    /\ Limits \subseteq Nat \ {0} /\ Limits # {}
    /\ {MaxRemote, MaxTurns, Calls, MaxAnnounced} \subseteq Nat \ {0}
    /\ {StepRetries, MaxCrashes} \subseteq Nat

VARIABLES
    \* rows and events
    status, leased,
    cancelRequested,
    request,          \* the steps of the pending request
    live,             \* steps whose intent is live
    committed,        \* plan_steps with status committed
    opened,           \* steps whose thread exists
    rounds,           \* assistant turns in each step's thread
    retries,          \* step.retried events of each step
    unrun,            \* calls of a thread's last assistant turn not yet run
    visible,          \* that turn ends the thread and declares tool_calls
    announced,        \* turn.started events, each with LoadCoach's job
    \* the settings and the process
    limit,            \* max_concurrent_steps
    pc,               \* where the worker thread is
    at, turn,         \* where each dispatched step is, and the turn it announced
    stopped, raised,  \* a step returned a state; why one raised, if one did
    relayed,          \* the keeper has relayed the cancel
    crashes

row == <<status, leased, cancelRequested, request, live>>
record == <<committed, opened, rounds, retries, unrun, visible, announced>>
memory == <<pc, at, turn, stopped, raised, relayed>>
vars == <<row, record, memory, limit, crashes>>
-----------------------------------------------------------------------------
Terminal == {"completed", "rejected", "halted", "failed", "cancelled"}
States == Terminal \cup {"planning", "executing", "awaiting_approval"}
JobEndings == {"completed", "failed", "cancelled"}
JobStates == JobEndings \cup {"none", "running"}
Controls == {"idle", "deciding", "dispatch", "running", "recover", "reconciled", "dead"}
Places == {"off", "opening", "boundary", "tools", "posting", "calling", "refused",
           "failed", "answered"}
InFlight == {"posting", "calling"}

None == [s \in Steps |-> "off"]

Init ==
    /\ status = "planning" /\ leased = TRUE
    /\ cancelRequested = FALSE
    /\ request = {} /\ live = {} /\ committed = {} /\ opened = {}
    /\ rounds = [s \in Steps |-> 0]
    /\ retries = [s \in Steps |-> 0]
    /\ unrun = [s \in Steps |-> 0]
    /\ visible = [s \in Steps |-> FALSE]
    /\ announced = <<>>
    /\ limit \in Limits
    /\ pc = "deciding"
    /\ at = None
    /\ turn = [s \in Steps |-> 0]
    /\ stopped = FALSE /\ raised = "no" /\ relayed = FALSE
    /\ crashes = 0
-----------------------------------------------------------------------------
(* _owned_cas on an executing row. *)
Owned == status = "executing" /\ leased

Write(to, by) ==
    /\ status' = to
    /\ leased' = by

Hold(S) ==
    /\ Write("awaiting_approval", FALSE)
    /\ request' = S
    /\ UNCHANGED <<cancelRequested, live>>

End(ending) ==
    /\ Write(ending, FALSE)
    /\ request' = {}
    /\ UNCHANGED <<cancelRequested, live>>

(* run() returned. *)
Idle ==
    /\ pc' = "idle"
    /\ at' = None
    /\ turn' = [s \in Steps |-> 0]
    /\ stopped' = FALSE /\ raised' = "no" /\ relayed' = FALSE

Control(p) == pc' = p /\ UNCHANGED <<at, turn, stopped, raised, relayed>>

(* The turn id lives as long as the turn. *)
Goto(s, p) ==
    /\ at' = [at EXCEPT ![s] = p]
    /\ turn' = IF p \in InFlight \cup {"answered"} THEN turn ELSE [turn EXCEPT ![s] = 0]

(* _run_step returned a state: out of the run.  A turn that recovery records has
   no step loop around it, and recovery hands the trajectory to a run itself. *)
StepStops(s) ==
    IF pc = "reconciled" THEN Idle
    ELSE /\ Goto(s, "off")
         /\ stopped' = TRUE
         /\ UNCHANGED <<pc, raised, relayed>>

(* _StepDone, or LeaseLost, which _run_steps swallows. *)
StepLeaves(s) ==
    /\ Goto(s, "off")
    /\ pc' = IF pc = "reconciled" THEN "dispatch" ELSE pc
    /\ UNCHANGED <<stopped, raised, relayed>>

(* The step loop's next iteration. *)
StepGoesOn(s) ==
    /\ Goto(s, IF pc = "reconciled" THEN "off" ELSE "boundary")
    /\ pc' = IF pc = "reconciled" THEN "dispatch" ELSE pc
    /\ UNCHANGED <<stopped, raised, relayed>>

StepMoves(s, p) == Goto(s, p) /\ UNCHANGED <<pc, stopped, raised, relayed>>
-----------------------------------------------------------------------------
(* The web side. *)
Cancel ==                                                             \* T14
    /\ status \notin Terminal
    /\ cancelRequested' = TRUE
    /\ IF status = "awaiting_approval"
         THEN status' = "cancelled" /\ request' = {} /\ UNCHANGED <<leased, live>>
         ELSE UNCHANGED <<status, leased, request, live>>
    /\ UNCHANGED <<record, memory, limit, crashes>>

(* Mutant: the grant of a gated step mints nothing. *)
GrantWithoutMinting ==
    /\ status = "awaiting_approval"
    /\ status' = "executing"
    /\ request' = {}
    /\ UNCHANGED <<leased, cancelRequested, live, record, memory, limit, crashes>>

(* Mutant: the grant leaves its request pending. *)
GrantUnanswered ==
    /\ status = "awaiting_approval"
    /\ status' = "executing"
    /\ live' = live \cup request
    /\ UNCHANGED <<leased, cancelRequested, request, record, memory, limit, crashes>>

(* A gated step gets its intent, a drifted one its next revision. *)
Grant ==                                                               \* T8
    /\ status = "awaiting_approval"
    /\ status' = "executing"
    /\ live' = live \cup request
    /\ request' = {}
    /\ UNCHANGED <<leased, cancelRequested, record, memory, limit, crashes>>

DenyOrExpire ==                                                        \* T9
    /\ status = "awaiting_approval"
    /\ End("halted")
    /\ UNCHANGED <<record, memory, limit, crashes>>

JobEnds(i) ==
    /\ announced[i].job = "running"
    /\ \E ending \in {"completed", "failed"} : announced' = [announced EXCEPT ![i].job = ending]
    /\ UNCHANGED <<row, committed, opened, rounds, retries, unrun, visible,
                   memory, limit, crashes>>

(* The keeper relays a cancel once, to the turn announced last among those in
   flight. *)
Relay ==
    /\ pc = "running" /\ Owned /\ cancelRequested /\ ~relayed
    /\ \E s \in Steps :
         /\ at[s] \in InFlight
         /\ \A t \in Steps : at[t] \in InFlight => turn[t] <= turn[s]
         /\ announced' = [announced EXCEPT ![turn[s]].job = IF @ = "running" THEN "cancelled" ELSE @]
    /\ relayed' = TRUE
    /\ UNCHANGED <<row, committed, opened, rounds, retries, unrun, visible,
                   pc, at, turn, stopped, raised, limit, crashes>>
-----------------------------------------------------------------------------
(* Mutant: any step left is ready. *)
AnyStepLeft == Steps \ committed

(* plan.ready_steps. *)
Ready == {s \in Steps \ committed : DependsOn[s] \subseteq committed}

First(S) == CHOOSE s \in S : \A t \in S \ {s} : Before(s, t)

(* The verdict over the plan, in one write with what it mints or asks. *)
Decide ==
    /\ pc = "deciding"
    /\ \/ \E gated \in SUBSET Gateable :                                  \* T4
            /\ gated # Steps
            /\ status' = "executing" /\ live' = Steps \ gated
            /\ UNCHANGED <<leased, cancelRequested, request>>
            /\ Control("dispatch")
       \/ Hold(Steps) /\ Idle                     \* T5, in manual mode
       \/ Gateable = Steps /\ Hold({First(Ready)}) /\ Idle             \* T5
       \/ End("rejected") /\ Idle                                      \* T6
    /\ UNCHANGED <<record, limit, crashes>>

(* Mutant: one local step is not the limit. *)
AnySurface(s, S) == Cardinality({t \in S : Before(t, s)}) < limit

(* domain/dispatch.py, with nothing in flight: in plan order, one local step,
   MaxRemote remote ones, and limit of either. *)
FitsItsSurface(s, S) ==
    LET ahead == {t \in S : Before(t, s)} IN
    IF s \in Remote THEN Cardinality(ahead \cap Remote) < MaxRemote ELSE ahead \subseteq Remote

Dispatchable(S) ==
    LET fitting == {s \in S : FitsItsSurface(s, S)} IN
    {s \in fitting : Cardinality({t \in fitting : Before(t, s)}) < limit}

CancelAtDispatch ==                                                   \* T14
    /\ pc = "dispatch" /\ cancelRequested
    /\ End("cancelled") /\ Idle
    /\ UNCHANGED <<record, limit, crashes>>

(* Some step is always ready: the plan has no cycle, and the write that commits
   the last step completes the trajectory. *)
Dispatch ==
    /\ pc = "dispatch" /\ ~cancelRequested
    /\ Ready \cap live # {}
    /\ at' = [s \in Steps |-> IF s \notin Dispatchable(Ready \cap live) THEN "off"
                              ELSE IF s \in opened THEN "boundary" ELSE "opening"]
    /\ pc' = "running"
    /\ UNCHANGED <<row, record, turn, stopped, raised, relayed, limit, crashes>>

HoldGatedStep ==                                                      \* T10
    /\ pc = "dispatch" /\ ~cancelRequested
    /\ Ready # {} /\ Ready \cap live = {}
    /\ Hold({First(Ready)}) /\ Idle
    /\ UNCHANGED <<record, limit, crashes>>

(* step.started, once in the step's life, in plan order. *)
OpenThread(s) ==
    /\ pc = "running" /\ at[s] = "opening"
    /\ \A t \in Steps : at[t] = "opening" => ~Before(t, s)
    /\ opened' = opened \cup {s}
    /\ StepMoves(s, "boundary")
    /\ UNCHANGED <<row, committed, rounds, retries, unrun, visible, announced, limit, crashes>>

(* Every dispatched step has returned. *)
Join ==
    /\ pc = "running" /\ at = None
    /\ CASE raised # "no" -> pc' = "dead" /\ UNCHANGED <<stopped, raised, relayed>>
         [] raised = "no" /\ stopped -> pc' = "idle" /\ stopped' = FALSE /\ relayed' = FALSE
                                        /\ UNCHANGED raised
         [] OTHER -> pc' = "dispatch" /\ UNCHANGED <<stopped, raised, relayed>>
    /\ UNCHANGED <<row, record, at, turn, limit, crashes>>
-----------------------------------------------------------------------------
(* The step loop.  The steps of one dispatch start once all have a thread. *)
At(s, p) == pc = "running" /\ at[s] = p /\ \A t \in Steps : at[t] # "opening"

CancelAtBoundary(s) ==                                                \* T14
    /\ At(s, "boundary") /\ cancelRequested /\ Owned
    /\ End("cancelled")
    /\ StepStops(s)
    /\ UNCHANGED <<record, limit, crashes>>

CallsPending(s) ==
    \/ At(s, "boundary") /\ ~cancelRequested /\ visible[s]
    \/ At(s, "tools")

(* One call, from tool_call.started to its TOOL turn: a crash in between leaves
   the record as it was before the call. *)
RunCall(s) ==
    /\ CallsPending(s) /\ Owned
    /\ unrun' = [unrun EXCEPT ![s] = @ - 1]
    /\ visible' = [visible EXCEPT ![s] = FALSE]
    /\ StepMoves(s, IF unrun[s] = 1 THEN "boundary" ELSE "tools")
    /\ UNCHANGED <<row, committed, opened, rounds, retries, announced, limit, crashes>>

(* _tool_egress_ceiling reads the url of a network call's arguments, which are
   text when the model wrote no JSON object: the error is caught nowhere. *)
CallRaises(s) ==
    /\ CallsPending(s) /\ s \in Fetching
    /\ Goto(s, "off")
    /\ raised' = "arguments"
    /\ UNCHANGED <<row, record, pc, stopped, relayed, limit, crashes>>

(* A call ran and could not be recorded, or the registry refuses. *)
HaltInTools(s) ==                                                     \* T12
    /\ CallsPending(s) /\ Owned
    /\ End("halted")
    /\ StepStops(s)
    /\ UNCHANGED <<record, limit, crashes>>

(* Mutant: the attempts recorded before a crash do not count. *)
RoundsSpent(s) == rounds[s] >= MaxTurns

Spent(s) == rounds[s] + retries[s] >= MaxTurns

AtTurn(s) == At(s, "boundary") /\ ~cancelRequested /\ ~visible[s]

(* Before a turn on the intent's first tier, or on the next. *)
BeforeTurn(s) == At(s, "refused") \/ (AtTurn(s) /\ ~Spent(s))

(* max_turns spent, a pre-flight that halts, or no tier left. *)
HaltBeforeTurn(s) ==                                                  \* T12
    /\ AtTurn(s) \/ At(s, "refused")
    /\ Owned
    /\ End("halted")
    /\ StepStops(s)
    /\ UNCHANGED <<record, limit, crashes>>

(* A ceiling to raise, or an escalation to approve. *)
AskBeforeTurn(s) ==                                                   \* T10
    /\ BeforeTurn(s) /\ Owned
    /\ Hold({s})
    /\ StepStops(s)
    /\ UNCHANGED <<record, limit, crashes>>

Announce(s) ==
    /\ BeforeTurn(s) /\ Owned
    /\ Len(announced) < MaxAnnounced
    /\ announced' = Append(announced, [step |-> s, job |-> "none", recorded |-> FALSE])
    /\ turn' = [turn EXCEPT ![s] = Len(announced) + 1]
    /\ at' = [at EXCEPT ![s] = "posting"]
    /\ UNCHANGED <<row, committed, opened, rounds, retries, unrun, visible,
                   pc, stopped, raised, relayed, limit, crashes>>

Job(s) == announced[turn[s]].job

SetJob(s, state) ==
    /\ announced' = [announced EXCEPT ![turn[s]].job = state]
    /\ UNCHANGED <<committed, opened, rounds, retries, unrun, visible>>

Post(s) ==
    /\ At(s, "posting")
    /\ SetJob(s, "running")
    /\ StepMoves(s, "calling")
    /\ UNCHANGED <<row, limit, crashes>>

(* NO_ELIGIBLE_MODEL falls to the next tier, QUEUE_FULL and the like do not. *)
Refuse(s) ==
    /\ At(s, "posting")
    /\ \E p \in {"refused", "failed"} : StepMoves(s, p)
    /\ UNCHANGED <<row, record, limit, crashes>>

Answer(s) ==
    /\ At(s, "calling") /\ Job(s) \in JobEndings
    /\ StepMoves(s, IF Job(s) = "failed" THEN "failed" ELSE "answered")
    /\ UNCHANGED <<row, record, limit, crashes>>

(* Mutant: the client gives up and leaves the job to itself. *)
WalkAway(s) ==
    /\ At(s, "calling") /\ Job(s) = "running"
    /\ StepMoves(s, "failed")
    /\ UNCHANGED <<row, record, limit, crashes>>

TimeOut(s) ==
    /\ At(s, "calling") /\ Job(s) = "running"
    /\ SetJob(s, "cancelled")
    /\ StepMoves(s, "failed")
    /\ UNCHANGED <<row, limit, crashes>>

Retry(s) ==
    /\ At(s, "failed") /\ Owned
    /\ retries[s] < StepRetries
    /\ retries' = [retries EXCEPT ![s] = @ + 1]
    /\ StepGoesOn(s)
    /\ UNCHANGED <<row, committed, opened, rounds, unrun, visible, announced, limit, crashes>>

-----------------------------------------------------------------------------
(* The answer is recorded in one write with what it decides, in the step's own
   thread or by recovery. *)
Returned(s) == At(s, "answered") \/ (pc = "reconciled" /\ at[s] = "answered")

Answered(s) == Returned(s) /\ Job(s) = "completed"

(* Attempts spent, an error not to be repeated, a job not completed, an answer
   in another currency or from a model that cannot be verified. *)
HaltUnanswered(s) ==                                                  \* T12
    /\ At(s, "failed") \/ Returned(s)
    /\ Owned
    /\ End("halted")
    /\ StepStops(s)
    /\ UNCHANGED <<record, limit, crashes>>

(* `left` calls to run, which the step loop will see or not. *)
RecordTurn(s, left, seen) ==
    /\ announced' = [announced EXCEPT ![turn[s]].recorded = TRUE]
    /\ rounds' = [rounds EXCEPT ![s] = @ + 1]
    /\ unrun' = [unrun EXCEPT ![s] = left]
    /\ visible' = [visible EXCEPT ![s] = seen]
    /\ UNCHANGED <<opened, retries>>

(* CONTINUE: tool_calls declared, or calls under no declared finish_reason. *)
RecordAndContinue(s) ==
    /\ Answered(s)
    /\ \E declared \in BOOLEAN : RecordTurn(s, Calls, declared)
    /\ StepGoesOn(s)
    /\ UNCHANGED <<row, committed, limit, crashes>>

RecordAndCommitStep(s) ==                                             \* T11
    /\ Answered(s) /\ Owned
    /\ RecordTurn(s, 0, FALSE)
    /\ committed' = committed \cup {s}
    /\ IF committed' = Steps THEN End("completed") /\ StepStops(s)
                             ELSE StepLeaves(s) /\ UNCHANGED row
    /\ UNCHANGED <<limit, crashes>>

RecordAndAsk(s) ==                                                    \* T10
    /\ Answered(s) /\ Owned
    /\ \/ RecordTurn(s, 0, FALSE)
       \/ \E declared \in BOOLEAN : RecordTurn(s, Calls, declared)
    /\ Hold({s})
    /\ StepStops(s)
    /\ UNCHANGED <<committed, limit, crashes>>

RecordAndHalt(s) ==                                                   \* T12
    /\ Answered(s) /\ Owned
    /\ RecordTurn(s, 0, FALSE)
    /\ End("halted")
    /\ StepStops(s)
    /\ UNCHANGED <<committed, limit, crashes>>

(* ApprovalInvalidStateError: a sibling already asked.  It is raised before the
   fence, and only LeaseLost is caught. *)
Collapse(s) ==
    /\ BeforeTurn(s) \/ Answered(s)
    /\ request # {}
    /\ Goto(s, "off")
    /\ raised' = "asked"
    /\ UNCHANGED <<row, record, pc, stopped, relayed, limit, crashes>>

(* A sibling ended or parked the trajectory: the fence, or the keeper, says so. *)
LoseLease(s) ==
    /\ \E p \in {"boundary", "tools", "refused", "failed", "answered"} : At(s, p)
    /\ ~Owned
    /\ StepLeaves(s)
    /\ UNCHANGED <<row, record, limit, crashes>>
-----------------------------------------------------------------------------
(* Mutant: what a cancel was requested for is not claimed. *)
ClaimUncancelled ==
    /\ pc = "idle" /\ status = "executing" /\ ~leased /\ ~cancelRequested
    /\ leased' = TRUE
    /\ Control("dispatch")
    /\ UNCHANGED <<status, cancelRequested, request, live, record, limit, crashes>>

(* The pass finds what a grant released. *)
ClaimReleased ==
    /\ pc = "idle" /\ status = "executing" /\ ~leased
    /\ leased' = TRUE
    /\ Control("dispatch")
    /\ UNCHANGED <<status, cancelRequested, request, live, record, limit, crashes>>

Crash ==
    /\ crashes < MaxCrashes
    /\ crashes' = crashes + 1
    /\ pc' = "recover"
    /\ at' = None
    /\ turn' = [s \in Steps |-> 0]
    /\ stopped' = FALSE /\ raised' = "no" /\ relayed' = FALSE
    /\ UNCHANGED <<row, record, limit>>

Last == Len(announced)

(* Mutant: the last turn is taken for unanswered though its row is there. *)
DanglingAlways == announced # <<>>

Dangling == announced # <<>> /\ ~announced[Last].recorded

(* Startup: a plan is drafted anew, what waits or ended is left alone. *)
RecoverPlanning ==
    /\ pc = "recover" /\ status # "executing"
    /\ Control(IF status = "planning" THEN "deciding" ELSE "idle")
    /\ UNCHANGED <<row, record, limit, crashes>>

(* Nothing was in flight, or what was has failed, or still runs and is cancelled. *)
Resume ==
    /\ pc = "recover" /\ status = "executing"
    /\ Dangling => announced[Last].job \in {"running", "failed", "cancelled"}
    /\ leased' = TRUE
    /\ announced' = IF Dangling /\ announced[Last].job = "running"
                    THEN [announced EXCEPT ![Last].job = "cancelled"] ELSE announced
    /\ Control("dispatch")
    /\ UNCHANGED <<status, cancelRequested, request, live,
                   committed, opened, rounds, retries, unrun, visible, limit, crashes>>

(* Mutant: the answer goes to the first ready step. *)
ReconcileFirstReady ==
    /\ pc = "recover" /\ status = "executing"
    /\ Dangling /\ announced[Last].job = "completed"
    /\ leased' = TRUE
    /\ pc' = "reconciled"
    /\ at' = [at EXCEPT ![First(Ready)] = "answered"]
    /\ turn' = [turn EXCEPT ![First(Ready)] = Last]
    /\ UNCHANGED <<status, cancelRequested, request, live, record,
                   stopped, raised, relayed, limit, crashes>>

(* The finished job's answer is loaded to be recorded as the turn it was. *)
Reconcile ==
    /\ pc = "recover" /\ status = "executing"
    /\ Dangling /\ announced[Last].job = "completed"
    /\ leased' = TRUE
    /\ pc' = "reconciled"
    /\ at' = [at EXCEPT ![announced[Last].step] = "answered"]
    /\ turn' = [turn EXCEPT ![announced[Last].step] = Last]
    /\ UNCHANGED <<status, cancelRequested, request, live, record,
                   stopped, raised, relayed, limit, crashes>>

HaltRecovered ==                                                      \* T12
    /\ pc = "recover" /\ status = "executing"
    /\ Dangling /\ announced[Last].job = "none"
    /\ End("halted") /\ Idle
    /\ UNCHANGED <<record, limit, crashes>>
-----------------------------------------------------------------------------
Request == Cancel \/ Grant \/ DenyOrExpire

Controller ==
    \/ Decide \/ CancelAtDispatch \/ Dispatch \/ HoldGatedStep \/ Join \/ ClaimReleased
    \/ RecoverPlanning \/ Resume \/ Reconcile \/ HaltRecovered

StepThread(s) ==
    \/ OpenThread(s) \/ CancelAtBoundary(s) \/ RunCall(s) \/ CallRaises(s) \/ HaltInTools(s)
    \/ HaltBeforeTurn(s) \/ AskBeforeTurn(s) \/ Announce(s) \/ Post(s) \/ Refuse(s)
    \/ Answer(s) \/ TimeOut(s) \/ Retry(s) \/ HaltUnanswered(s)
    \/ RecordAndContinue(s) \/ RecordAndCommitStep(s) \/ RecordAndAsk(s) \/ RecordAndHalt(s)
    \/ Collapse(s) \/ LoseLease(s)

Next ==
    \/ Request \/ Relay \/ Controller \/ Crash
    \/ \E i \in DOMAIN announced : JobEnds(i)
    \/ \E s \in Steps : StepThread(s)

Spec == Init /\ [][Next]_vars

(* The worker thread and the step threads are scheduled, LoadCoach ends what it
   runs; nobody has to answer a request, and the keeper may be late. *)
Fairness ==
    /\ WF_vars(Controller)
    /\ \A s \in Steps : WF_vars(StepThread(s))
    /\ \A i \in 1 .. MaxAnnounced : WF_vars(i \in DOMAIN announced /\ JobEnds(i))

FairSpec == Spec /\ Fairness
-----------------------------------------------------------------------------
(* Every variable keeps to its type, and a step that is in flight is in flight
   with a turn announced for it. *)
TypeOK ==
    /\ status \in States /\ pc \in Controls
    /\ {leased, cancelRequested, stopped, relayed} \subseteq BOOLEAN
    /\ raised \in {"no", "asked", "arguments"}
    /\ {request, live, committed, opened} \subseteq SUBSET Steps
    /\ {rounds, retries, unrun} \subseteq [Steps -> Nat]
    /\ visible \in [Steps -> BOOLEAN]
    /\ announced \in Seq([step : Steps, job : JobStates, recorded : BOOLEAN])
    /\ at \in [Steps -> Places]
    /\ turn \in [Steps -> 0 .. Len(announced)]
    /\ limit \in Limits /\ crashes \in 0 .. MaxCrashes
    /\ \A s \in Steps : at[s] \in InFlight \cup {"answered"} =>
            turn[s] # 0 /\ announced[turn[s]].step = s

(* Whatever runs side by side and wherever it is killed, the record keeps what
   GovernedPlan promises. *)
Governed == INSTANCE GovernedPlan
    WITH phase <- IF status \in Terminal \ {"completed"} THEN "ended" ELSE status,
         allowed <- live, asked <- request

ImplementsGovernedPlan == Governed!Spec

(* "At most one local step in flight ever", MaxRemote remote ones, and no more
   than the limit (domain/dispatch.py), seen from LoadCoach: what it runs for the
   trajectory.  With concurrent steps a crash may leave a sibling's job behind,
   which recovery of the last announced turn does not see. *)
JobsWithinLimit ==
    LET running == {i \in DOMAIN announced : announced[i].job = "running"}
        remote == {i \in running : announced[i].step \in Remote}
    IN limit = 1 \/ crashes = 0 =>
          /\ Cardinality(running) <= limit
          /\ Cardinality(remote) <= MaxRemote
          /\ Cardinality(running \ remote) <= 1

(* Turns and repeats draw on one envelope, across crashes and recovered turns:
   a crash cannot hand a step a fresh budget (_run_step). *)
EnvelopeHolds == \A s \in Steps : rounds[s] + retries[s] <= MaxTurns

(* One step at a time, which is the default, the worker thread survives all of
   this, but for the arguments of a network call that are no object. *)
ThreadSurvives == limit = 1 /\ pc = "dead" => raised = "arguments"

(* A step that committed is over: no crash and no sibling makes it run again. *)
CommittedIsOver ==
    [][\A s \in committed : rounds'[s] = rounds[s] /\ s \in committed']_vars

(* Execution comes to an end or to a person, whatever was granted before and
   however often the process dies, as long as its worker thread lives. *)
ExecutionSettles == limit = 1 /\ status = "executing" ~> status # "executing" \/ pc = "dead"

(* The calls of a turn are run before the step's next turn: "a crash or a park
   between this write and their execution loses nothing" (_record_turn). *)
NoCallLost == \A s \in Steps : at[s] \in InFlight => unrun[s] = 0
=============================================================================
