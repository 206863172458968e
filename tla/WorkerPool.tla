----------------------------- MODULE WorkerPool -----------------------------
(* The worker threads of one served process, the lease each holds on a
   trajectory, and what survives a kill -9: services/worker.py (the pass, the
   lease keeper, startup recovery, the reaper), the claim, plan, turn and
   recovery halves of services/loop.py, and the web-side writes of
   services/trajectories.py and services/approvals.py that race with them.

   Every write is one SQLite transaction and therefore one action; every read
   of a row, call to LoadCoach and write is a step of its own, so that another
   thread, a request, the clock or a crash can come in between.  A step's
   threads, tools and tiers are abstracted to "one more turn"; the park on a
   day window is the subject of WindowWait. *)
EXTENDS Naturals, Sequences, FiniteSets

CONSTANTS
    Trajectories,
    Workers,            \* `<prefix>/0`, `<prefix>/1`, ...
    Recovery,           \* `<prefix>/recovery`, the thread Worker.start runs on
    NoOwner,            \* lease_owner is null
    Former,             \* lease_owner names a process that is gone
    NoTrajectory,       \* a thread with nothing in hand
    MaxTurns,           \* intent.max_turns
    StepRetries,        \* [execution] step_retries
    CorrectiveRetries,  \* [planning] corrective_retries
    Load,               \* bound: trajectories submitted, by the size of the pool
    MaxAnnounced,       \* bound: turns announced for one trajectory
    MaxCrashes,         \* bound: crashes
    KeepersStall,       \* may a lease expire under a live keeper?
    Outages,            \* bound: the sizes of the pool whose calls to LoadCoach may fail
    PidReused           \* may a restart come back under the same host:pid?

Threads == Workers \cup {Recovery}

ASSUME OwnersAssumption ==
    /\ Recovery \notin Workers
    /\ {NoOwner, Former} \cap Threads = {}
    /\ NoOwner # Former
    /\ NoTrajectory \notin Trajectories
ASSUME BoundsAssumption ==
    /\ {MaxTurns, MaxAnnounced} \subseteq Nat \ {0}
    /\ {StepRetries, CorrectiveRetries, MaxCrashes} \subseteq Nat
    /\ IsFiniteSet(Workers) /\ DOMAIN Load \subseteq 1 .. Cardinality(Workers)
    /\ \A n \in DOMAIN Load : Load[n] \in Nat
    /\ Outages \subseteq DOMAIN Load
    /\ {KeepersStall, PidReused} \subseteq BOOLEAN

VARIABLES
    \* the trajectories row, and the rows that hang on it
    status, owner,
    expired,          \* lease_expires_at has passed
    cancelRequested, pending, minted,
    \* the record: events and turns, and LoadCoach's own jobs
    announced,        \* turn.started events; turn ids are 1 .. announced[t]
    turns,            \* ids of the turn rows, by thread sequence
    retries,          \* step.retried events
    job,              \* LoadCoach's job under each turn's idempotency key
    \* the threads
    pc, hand,         \* where a thread is, and the trajectory it works on
    turn,             \* the turn it announced, or found dangling
    base,             \* how many turns the thread it read already held
    todo, resumed,    \* the rows its recovery pass listed, and those it took
    signals,          \* RunSignals of the run in hand
    drafts,           \* attempts of the drafting session in hand
    crashes,
    pool              \* the max_concurrent_trajectories threads of Workers

row == <<status, owner, expired, cancelRequested, pending, minted>>
record == <<announced, turns, retries, job>>
memory == <<pc, hand, turn, base, todo, resumed, signals, drafts>>
outside == <<crashes, pool>>
vars == <<row, record, memory, outside>>
-----------------------------------------------------------------------------
Terminal == {"completed", "rejected", "halted", "failed", "cancelled"}
LeaseHolding == {"planning", "executing"}
States == Terminal \cup LeaseHolding \cup {"none", "queued", "awaiting_approval"}
JobEndings == {"completed", "failed", "cancelled"}
JobStates == JobEndings \cup {"none", "running"}
Signals == {"lease_lost", "cancel_requested", "job_cancelled"}

Passing == {"reap", "resume", "approvals", "released", "queued"}
Recovering == {"recover", "redrafted", "inspect", "find", "take_resume",
               "take_cancel", "take_record", "take_halt", "cancel_job", "load"}
Planning == {"drafting", "drafted", "approving", "refused"}
Executing == {"boundary", "ready", "posting", "calling", "unreachable", "failed", "answered"}
Running == {"start"} \cup Planning \cup Executing
Phases == {"off", "dead"} \cup Passing \cup Recovering \cup Running

Committed(t) == {turns[t][i] : i \in DOMAIN turns[t]}

(* recover() works through its own list; _run_held runs under a keeper. *)
InRecovery(w) == todo[w] # {}
Kept(w, t) == hand[w] = t /\ pc[w] \in Running /\ ~InRecovery(w)
                /\ "lease_lost" \notin signals[w]

Init ==
    /\ status = [t \in Trajectories |-> "none"]
    /\ owner = [t \in Trajectories |-> NoOwner]
    /\ expired = [t \in Trajectories |-> FALSE]
    /\ cancelRequested = [t \in Trajectories |-> FALSE]
    /\ pending = [t \in Trajectories |-> FALSE]
    /\ minted = [t \in Trajectories |-> FALSE]
    /\ announced = [t \in Trajectories |-> 0]
    /\ turns = [t \in Trajectories |-> <<>>]
    /\ retries = [t \in Trajectories |-> 0]
    /\ job = [t \in Trajectories |-> [i \in 1 .. MaxAnnounced |-> "none"]]
    /\ pc = [w \in Threads |-> IF w = Recovery THEN "reap" ELSE "off"]
    /\ hand = [w \in Threads |-> NoTrajectory]
    /\ turn = [w \in Threads |-> 0]
    /\ base = [w \in Threads |-> 0]
    /\ todo = [w \in Threads |-> {}]
    /\ resumed = [w \in Threads |-> {}]
    /\ signals = [w \in Threads |-> {}]
    /\ drafts = [w \in Threads |-> 0]
    /\ crashes = 0
    /\ pool \in {W \in SUBSET Workers : Cardinality(W) \in DOMAIN Load}
-----------------------------------------------------------------------------
LoadCoachFails == Cardinality(pool) \in Outages

(* One write of the row.  Every ending and every hold releases the lease. *)
Write(t, to, by, asks) ==
    /\ status' = [status EXCEPT ![t] = to]
    /\ owner' = [owner EXCEPT ![t] = by]
    /\ expired' = [expired EXCEPT ![t] = FALSE]
    /\ pending' = [pending EXCEPT ![t] = asks]

End(t, ending) == Write(t, ending, NoOwner, FALSE) /\ UNCHANGED <<cancelRequested, minted>>
Hold(t) == Write(t, "awaiting_approval", NoOwner, TRUE) /\ UNCHANGED <<cancelRequested, minted>>
TakeLease(t, w) == Write(t, status[t], w, pending[t]) /\ UNCHANGED <<cancelRequested, minted>>

(* _owned_cas: the row is in this state under this worker. *)
Owns(w, s) == status[hand[w]] = s /\ owner[hand[w]] = w

Goto(w, p) == pc' = [pc EXCEPT ![w] = p]

(* A thread takes t in hand, at the start of a run or of a reconciliation. *)
TakeUp(w, t, p) ==
    /\ hand' = [hand EXCEPT ![w] = t]
    /\ Goto(w, p)

Forget(w) ==
    /\ hand' = [hand EXCEPT ![w] = NoTrajectory]
    /\ turn' = [turn EXCEPT ![w] = 0]
    /\ base' = [base EXCEPT ![w] = 0]
    /\ signals' = [signals EXCEPT ![w] = {}]
    /\ drafts' = [drafts EXCEPT ![w] = 0]

(* Mutant: a run that returned keeps its trajectory in hand. *)
LeaveHolding(w) ==
    /\ Goto(w, "reap")
    /\ UNCHANGED <<hand, turn, base, todo, resumed, signals, drafts>>

(* run() returned: on to the next resumed trajectory, or to the next pass. *)
Leave(w) ==
    /\ Forget(w)
    /\ Goto(w, IF hand[w] \in resumed[w] THEN "resume" ELSE "reap")
    /\ resumed' = [resumed EXCEPT ![w] = @ \ {hand[w]}]
    /\ UNCHANGED todo

(* reconcile() or redraft() returned: `held` iff the outcome is RESUMED. *)
Reconciled(w, held) ==
    /\ Forget(w)
    /\ todo' = [todo EXCEPT ![w] = {e \in @ : e[1] # hand[w]}]
    /\ resumed' = [resumed EXCEPT ![w] = IF held THEN @ \cup {hand[w]} ELSE @]
    /\ Goto(w, "recover")

(* Where the end of a turn leads: the next boundary, or out of the run. *)
AfterTurn(w, again) ==
    IF InRecovery(w) THEN Reconciled(w, again)
    ELSE IF again THEN /\ Goto(w, "boundary")
                       /\ UNCHANGED <<hand, turn, base, todo, resumed, signals, drafts>>
    ELSE Leave(w)

(* An exception nothing catches: the thread is gone, its keeper stopped. *)
Dies(w) ==
    /\ Forget(w)
    /\ Goto(w, "dead")
    /\ todo' = [todo EXCEPT ![w] = {}]
    /\ resumed' = [resumed EXCEPT ![w] = {}]
-----------------------------------------------------------------------------
(* The web side: served once startup recovery has returned. *)
Serving == \E w \in Workers : pc[w] # "off"

Submit(t) ==                                                         \* T1
    /\ Serving
    /\ status[t] = "none"
    /\ Cardinality({u \in Trajectories : status[u] # "none"}) < Load[Cardinality(pool)]
    /\ status' = [status EXCEPT ![t] = "queued"]
    /\ UNCHANGED <<owner, expired, cancelRequested, pending, minted, record, memory, outside>>

(* Mutant: T14 without asking whether a worker holds the lease. *)
CancelAtOnce(t) ==
    /\ Serving
    /\ status[t] \in States \ (Terminal \cup {"none"})
    /\ cancelRequested' = [cancelRequested EXCEPT ![t] = TRUE]
    /\ Write(t, "cancelled", NoOwner, FALSE)
    /\ UNCHANGED <<minted, record, memory, outside>>

(* T14: at once without a lease, with the pending request resolved in the
   same write; a request to the worker with one. *)
Cancel(t) ==
    /\ Serving
    /\ status[t] \in States \ (Terminal \cup {"none"})
    /\ cancelRequested' = [cancelRequested EXCEPT ![t] = TRUE]
    /\ IF status[t] \in LeaseHolding
         THEN UNCHANGED <<status, owner, expired, pending>>
         ELSE Write(t, "cancelled", NoOwner, FALSE)
    /\ UNCHANGED <<minted, record, memory, outside>>

Grant(t) ==                                                          \* T8
    /\ Serving
    /\ status[t] = "awaiting_approval" /\ pending[t]
    /\ Write(t, "executing", NoOwner, FALSE)
    /\ minted' = [minted EXCEPT ![t] = TRUE]
    /\ UNCHANGED <<cancelRequested, record, memory, outside>>

Deny(t) ==                                                           \* T9
    /\ Serving
    /\ status[t] = "awaiting_approval" /\ pending[t]
    /\ End(t, "halted")
    /\ UNCHANGED <<record, memory, outside>>

(* LoadCoach runs a job to an ending of its own. *)
JobEnds(t, i) ==
    /\ job[t][i] = "running"
    /\ \E ending \in {"completed", "failed"} : job' = [job EXCEPT ![t][i] = ending]
    /\ UNCHANGED <<row, announced, turns, retries, memory, outside>>

(* lease_seconds pass without a renewal. *)
LeaseExpires(t) ==
    /\ status[t] \in LeaseHolding /\ owner[t] # NoOwner /\ ~expired[t]
    /\ KeepersStall \/ ~ \E w \in Threads : owner[t] = w /\ Kept(w, t)
    /\ expired' = [expired EXCEPT ![t] = TRUE]
    /\ UNCHANGED <<status, owner, cancelRequested, pending, minted, record, memory, outside>>
-----------------------------------------------------------------------------
(* The lease keeper of a run: renewal by compare-and-set, and the relay of a
   cancel, which cancels at most one in-flight job. *)
Renew(w) ==
    /\ Kept(w, hand[w])
    /\ IF status[hand[w]] \in LeaseHolding /\ owner[hand[w]] = w
         THEN /\ expired' = [expired EXCEPT ![hand[w]] = FALSE]
              /\ signals' = [signals EXCEPT ![w] =
                   @ \cup IF cancelRequested[hand[w]] THEN {"cancel_requested"} ELSE {}]
         ELSE /\ signals' = [signals EXCEPT ![w] = @ \cup {"lease_lost"}]
              /\ UNCHANGED expired
    /\ UNCHANGED <<status, owner, cancelRequested, pending, minted, record,
                   pc, hand, turn, base, todo, resumed, drafts, outside>>

CancelInFlight(w) ==
    /\ Kept(w, hand[w])
    /\ pc[w] \in {"posting", "calling"}
    /\ "cancel_requested" \in signals[w] /\ "job_cancelled" \notin signals[w]
    /\ signals' = [signals EXCEPT ![w] = @ \cup {"job_cancelled"}]
    /\ job' = [job EXCEPT ![hand[w]][turn[w]] = IF @ = "running" THEN "cancelled" ELSE @]
    /\ UNCHANGED <<row, announced, turns, retries,
                   pc, hand, turn, base, todo, resumed, drafts, outside>>
-----------------------------------------------------------------------------
(* The recovery pass, at startup over every foreign lease and every released
   row, in a running thread over the expired leases only. *)
Reap(w) ==
    /\ pc[w] = "reap"
    /\ todo' = [todo EXCEPT ![w] =
         {<<t, status[t]>> : t \in {u \in Trajectories :
             /\ status[u] \in LeaseHolding
             /\ IF w = Recovery THEN owner[u] \notin Threads \/ expired[u]
                                ELSE expired[u]}}]
    /\ Goto(w, "recover")
    /\ UNCHANGED <<row, record, hand, turn, base, resumed, signals, drafts, outside>>

(* A running thread reaps every lease_seconds, not on every pass. *)
NotYetDue(w) ==
    /\ w # Recovery /\ pc[w] = "reap"
    /\ Goto(w, "approvals")
    /\ UNCHANGED <<row, record, hand, turn, base, todo, resumed, signals, drafts, outside>>

RecoveryListDone(w) ==
    /\ pc[w] = "recover" /\ todo[w] = {}
    /\ Goto(w, "resume")
    /\ UNCHANGED <<row, record, hand, turn, base, todo, resumed, signals, drafts, outside>>

(* redraft: the lease, then the plan jobs and the event in a second write. *)
Redraft(w) ==
    /\ pc[w] = "recover"
    /\ \E t \in Trajectories :
         /\ <<t, "planning">> \in todo[w]
         /\ IF status[t] = "planning"
              THEN TakeLease(t, w) /\ TakeUp(w, t, "redrafted") /\ UNCHANGED todo
              ELSE /\ todo' = [todo EXCEPT ![w] = @ \ {<<t, "planning">>}]
                   /\ UNCHANGED <<row, pc, hand>>
    /\ UNCHANGED <<record, turn, base, resumed, signals, drafts, outside>>

RecordRedraft(w) ==
    /\ pc[w] = "redrafted"
    /\ IF Owns(w, "planning") THEN Reconciled(w, TRUE) ELSE Dies(w)
    /\ UNCHANGED <<row, record, outside>>

(* reconcile reads the events, then the row and the committed turns. *)
ReadEvents(w) ==
    /\ pc[w] = "recover"
    /\ \E t \in Trajectories :
         /\ <<t, "executing">> \in todo[w]
         /\ IF status[t] = "executing"
              THEN /\ TakeUp(w, t, "inspect")
                   /\ turn' = [turn EXCEPT ![w] = announced[t]]
                   /\ UNCHANGED todo
              ELSE /\ todo' = [todo EXCEPT ![w] = @ \ {<<t, "executing">>}]
                   /\ UNCHANGED <<pc, hand, turn>>
    /\ UNCHANGED <<row, record, base, resumed, signals, drafts, outside>>

(* Mutant: the last announced turn dangles whether or not it was recorded. *)
DanglingAlways(w) == turn[w] # 0

Dangling(w) == turn[w] # 0 /\ turn[w] \notin Committed(hand[w])

Inspect(w) ==
    /\ pc[w] = "inspect"
    /\ IF w # Recovery /\ owner[hand[w]] # NoOwner /\ ~expired[hand[w]]
         THEN Reconciled(w, FALSE)
         ELSE /\ Goto(w, IF Dangling(w) THEN "find" ELSE "take_resume")
              /\ UNCHANGED <<hand, turn, base, todo, resumed, signals, drafts>>
    /\ UNCHANGED <<row, record, outside>>

(* Mutant: a job still running is left to itself. *)
VerdictIgnoresRunning(state) == IF state = "completed" THEN "take_record" ELSE "take_resume"

Verdict(state) == CASE state = "running" -> "take_cancel"
                    [] state = "completed" -> "take_record"
                    [] state = "none" -> "take_halt"
                    [] OTHER -> "take_resume"

FindJob(w) ==
    /\ pc[w] = "find"
    /\ \/ /\ Goto(w, Verdict(job[hand[w]][turn[w]]))
          /\ UNCHANGED <<hand, turn, base, todo, resumed, signals, drafts>>
       \/ LoadCoachFails /\ Reconciled(w, FALSE)
       \/ /\ LoadCoachFails /\ Goto(w, "take_halt")
          /\ UNCHANGED <<hand, turn, base, todo, resumed, signals, drafts>>
    /\ UNCHANGED <<row, record, outside>>

(* _take_over asks only that the row is still executing. *)
TakeOver(w) ==
    /\ pc[w] \in {"take_resume", "take_cancel", "take_record"}
    /\ IF status[hand[w]] # "executing"
         THEN Reconciled(w, FALSE) /\ UNCHANGED row
         ELSE /\ TakeLease(hand[w], w)
              /\ IF pc[w] = "take_resume" THEN Reconciled(w, TRUE)
                 ELSE /\ Goto(w, IF pc[w] = "take_cancel" THEN "cancel_job" ELSE "load")
                      /\ UNCHANGED <<hand, turn, base, todo, resumed, signals, drafts>>
    /\ UNCHANGED <<record, outside>>

CancelFoundJob(w) ==
    /\ pc[w] = "cancel_job"
    /\ \/ /\ job' = [job EXCEPT ![hand[w]][turn[w]] = IF @ = "running" THEN "cancelled" ELSE @]
          /\ Reconciled(w, TRUE)
       \/ LoadCoachFails /\ Reconciled(w, FALSE) /\ UNCHANGED job
       \/ /\ LoadCoachFails /\ Goto(w, "take_halt")
          /\ UNCHANGED <<job, hand, turn, base, todo, resumed, signals, drafts>>
    /\ UNCHANGED <<row, announced, turns, retries, outside>>

(* Mutant: the halt does not ask whether the row is still executing. *)
HaltAnyway(w) ==
    /\ pc[w] = "take_halt"
    /\ End(hand[w], "halted")
    /\ Reconciled(w, FALSE)
    /\ UNCHANGED <<record, outside>>

HaltRecovered(w) ==
    /\ pc[w] = "take_halt"
    /\ IF status[hand[w]] = "executing" THEN End(hand[w], "halted") ELSE UNCHANGED row
    /\ Reconciled(w, FALSE)
    /\ UNCHANGED <<record, outside>>

(* The finished job's answer is loaded to be recorded as the turn it was. *)
LoadFinished(w) ==
    /\ pc[w] = "load"
    /\ \/ /\ Goto(w, IF Owns(w, "executing") THEN "answered" ELSE "take_halt")
          /\ base' = [base EXCEPT ![w] = Len(turns[hand[w]])]
          /\ UNCHANGED <<hand, turn, todo, resumed, signals, drafts>>
       \/ LoadCoachFails /\ Reconciled(w, FALSE)
    /\ UNCHANGED <<row, record, outside>>
-----------------------------------------------------------------------------
(* The pass of a worker thread: what recovery resumed, the approvals that
   timed out, one released trajectory, one queued one. *)
ResumeNext(w) ==
    /\ pc[w] = "resume"
    /\ \E t \in resumed[w] : TakeUp(w, t, "start")
    /\ UNCHANGED <<row, record, turn, base, todo, resumed, signals, drafts, outside>>

ResumedAll(w) ==
    /\ pc[w] = "resume" /\ resumed[w] = {}
    /\ pc' = [v \in Threads |->
                IF w = Recovery THEN IF v \in pool THEN "reap" ELSE "off"
                ELSE IF v = w THEN "approvals" ELSE pc[v]]
    /\ UNCHANGED <<row, record, hand, turn, base, todo, resumed, signals, drafts, outside>>

ExpireApproval(w, t) ==                                              \* T9
    /\ pc[w] = "approvals"
    /\ status[t] = "awaiting_approval" /\ pending[t]
    /\ End(t, "halted")
    /\ UNCHANGED <<record, memory, outside>>

ApprovalsDone(w) ==
    /\ pc[w] = "approvals"
    /\ Goto(w, "released")
    /\ UNCHANGED <<row, record, hand, turn, base, todo, resumed, signals, drafts, outside>>

(* Mutants: next_released over every lease, or over expired leases only. *)
ReleasedOrLeased(t) == status[t] = "executing"
ReleasedOnceExpired(t) == status[t] = "executing" /\ expired[t]

Released(t) == status[t] = "executing" /\ owner[t] = NoOwner

ClaimReleased(w, t) ==
    /\ pc[w] = "released"
    /\ Released(t)
    /\ TakeLease(t, w)
    /\ TakeUp(w, t, "start")
    /\ UNCHANGED <<record, turn, base, todo, resumed, signals, drafts, outside>>

NothingReleased(w) ==
    /\ pc[w] = "released"
    /\ \A t \in Trajectories : ~Released(t)
    /\ Goto(w, "queued")
    /\ UNCHANGED <<row, record, hand, turn, base, todo, resumed, signals, drafts, outside>>

Claim(w, t) ==                            \* T2, T3, or T3 and T10 in one write
    /\ pc[w] = "queued"
    /\ status[t] = "queued"
    /\ \/ /\ Write(t, "planning", w, FALSE) /\ UNCHANGED minted
          /\ TakeUp(w, t, "start")
       \/ /\ Write(t, "executing", w, FALSE)
          /\ minted' = [minted EXCEPT ![t] = TRUE]
          /\ TakeUp(w, t, "start")
       \/ /\ Write(t, "awaiting_approval", NoOwner, TRUE)
          /\ minted' = [minted EXCEPT ![t] = TRUE]
          /\ Goto(w, "reap") /\ UNCHANGED hand
    /\ UNCHANGED <<cancelRequested, record, turn, base, todo, resumed, signals, drafts, outside>>

(* Mutant: a pass may miss what is queued. *)
QueueMissed(w) ==
    /\ pc[w] = "queued"
    /\ Goto(w, "reap")
    /\ UNCHANGED <<row, record, hand, turn, base, todo, resumed, signals, drafts, outside>>

NothingQueued(w) ==
    /\ pc[w] = "queued"
    /\ \A t \in Trajectories : status[t] # "queued"
    /\ Goto(w, "reap")
    /\ UNCHANGED <<row, record, hand, turn, base, todo, resumed, signals, drafts, outside>>
-----------------------------------------------------------------------------
(* _run: planning or executing under this worker, or nothing to run. *)
Start(w) ==
    /\ pc[w] = "start"
    /\ IF owner[hand[w]] = w /\ status[hand[w]] \in LeaseHolding
         THEN /\ Goto(w, IF status[hand[w]] = "planning" THEN "drafting" ELSE "boundary")
              /\ UNCHANGED <<hand, turn, base, todo, resumed, signals, drafts>>
         ELSE Leave(w)
    /\ UNCHANGED <<row, record, outside>>

(* The envelope no longer re-mints to its row, or LoadCoach's provider surface
   cannot be read: over before the first turn. *)
FailToStart(w) ==                                             \* T12 or T13
    /\ pc[w] = "start"
    /\ Owns(w, "executing")
    /\ \E ending \in {"failed", "halted"} : End(hand[w], ending)
    /\ Leave(w)
    /\ UNCHANGED <<record, outside>>

CancelSeen(w) == "cancel_requested" \in signals[w] \/ cancelRequested[hand[w]]

(* should_stop, read before every attempt; a stop is honoured as a cancel. *)
StopDrafting(w) ==                                                   \* T14
    /\ pc[w] = "drafting"
    /\ CancelSeen(w) \/ "lease_lost" \in signals[w]
    /\ Owns(w, "planning")
    /\ End(hand[w], "cancelled")
    /\ Leave(w)
    /\ UNCHANGED <<record, outside>>

Draft(w) ==
    /\ pc[w] = "drafting"
    /\ ~CancelSeen(w) /\ "lease_lost" \notin signals[w]
    /\ \/ Goto(w, "drafted") /\ drafts' = [drafts EXCEPT ![w] = @ + 1]
       \/ LoadCoachFails /\ Goto(w, "refused") /\ UNCHANGED drafts
    /\ UNCHANGED <<row, record, hand, turn, base, todo, resumed, signals, outside>>

RecordAttempt(w) ==
    /\ pc[w] = "drafted"
    /\ Owns(w, "planning")
    /\ \E valid \in BOOLEAN :
         Goto(w, IF valid THEN "approving"
                 ELSE IF drafts[w] <= CorrectiveRetries THEN "drafting" ELSE "refused")
    /\ UNCHANGED <<row, record, hand, turn, base, todo, resumed, signals, drafts, outside>>

FailPlanning(w) ==                                                   \* T7
    /\ pc[w] = "refused"
    /\ Owns(w, "planning")
    /\ End(hand[w], "failed")
    /\ Leave(w)
    /\ UNCHANGED <<record, outside>>

Approve(w) ==                                                 \* T4, T5 or T6
    /\ pc[w] = "approving"
    /\ Owns(w, "planning")
    /\ \/ /\ Write(hand[w], "executing", w, FALSE)
          /\ minted' = [minted EXCEPT ![hand[w]] = TRUE]
          /\ Goto(w, "start")
          /\ UNCHANGED <<cancelRequested, hand, turn, base, todo, resumed, signals, drafts>>
       \/ Hold(hand[w]) /\ Leave(w)
       \/ End(hand[w], "rejected") /\ Leave(w)
    /\ UNCHANGED <<record, outside>>
-----------------------------------------------------------------------------
(* The step loop reads the signals and the row's cancel flag at a boundary. *)
StopAtBoundary(w) ==
    /\ pc[w] = "boundary"
    /\ "lease_lost" \in signals[w]
    /\ Leave(w)
    /\ UNCHANGED <<row, record, outside>>

CancelAtBoundary(w) ==                                               \* T14
    /\ pc[w] = "boundary"
    /\ "lease_lost" \notin signals[w] /\ CancelSeen(w)
    /\ Owns(w, "executing")
    /\ End(hand[w], "cancelled")
    /\ Leave(w)
    /\ UNCHANGED <<record, outside>>

Prepare(w) ==
    /\ pc[w] = "boundary"
    /\ "lease_lost" \notin signals[w] /\ ~CancelSeen(w)
    /\ base' = [base EXCEPT ![w] = Len(turns[hand[w]])]
    /\ Goto(w, "ready")
    /\ UNCHANGED <<row, record, hand, turn, todo, resumed, signals, drafts, outside>>

Spent(w) == base[w] + retries[hand[w]] >= MaxTurns

(* max_turns spent, or a pre-flight (egress, pricing, budget) that halts. *)
HaltBeforeTurn(w) ==                                                 \* T12
    /\ pc[w] = "ready"
    /\ Owns(w, "executing")
    /\ End(hand[w], "halted")
    /\ Leave(w)
    /\ UNCHANGED <<record, outside>>

(* A gated step or a refused ceiling holds the trajectory before the turn. *)
AskBeforeTurn(w) ==                                                  \* T10
    /\ pc[w] = "ready" /\ ~Spent(w)
    /\ Owns(w, "executing") /\ ~pending[hand[w]]
    /\ Hold(hand[w])
    /\ Leave(w)
    /\ UNCHANGED <<record, outside>>

(* turn.started, in its own write, before the request leaves. *)
Announce(w) ==
    /\ pc[w] = "ready" /\ ~Spent(w)
    /\ Owns(w, "executing")
    /\ announced[hand[w]] < MaxAnnounced
    /\ announced' = [announced EXCEPT ![hand[w]] = @ + 1]
    /\ turn' = [turn EXCEPT ![w] = announced[hand[w]] + 1]
    /\ Goto(w, "posting")
    /\ UNCHANGED <<row, turns, retries, job, hand, base, todo, resumed, signals, drafts, outside>>

Post(w) ==
    /\ pc[w] = "posting"
    /\ job' = [job EXCEPT ![hand[w]][turn[w]] = "running"]
    /\ Goto(w, "calling")
    /\ UNCHANGED <<row, announced, turns, retries,
                   hand, turn, base, todo, resumed, signals, drafts, outside>>

(* LoadCoach refuses the request (NO_ELIGIBLE_MODEL, QUEUE_FULL, ...): no job. *)
Refuse(w) ==
    /\ pc[w] = "posting"
    /\ Goto(w, "failed")
    /\ UNCHANGED <<row, record, hand, turn, base, todo, resumed, signals, drafts, outside>>

(* The job's document, or for a failed job LoadCoach's error. *)
Answer(w) ==
    /\ pc[w] = "calling"
    /\ job[hand[w]][turn[w]] \in JobEndings
    /\ \/ Goto(w, "answered")
       \/ job[hand[w]][turn[w]] = "failed" /\ Goto(w, "failed")
    /\ UNCHANGED <<row, record, hand, turn, base, todo, resumed, signals, drafts, outside>>

(* Mutant: the client gives up and leaves the job to itself. *)
WalkAway(w) ==
    /\ pc[w] = "calling"
    /\ job[hand[w]][turn[w]] = "running"
    /\ Goto(w, "failed")
    /\ UNCHANGED <<row, record, hand, turn, base, todo, resumed, signals, drafts, outside>>

(* The client gives up waiting, and abandons the job if LoadCoach lets it. *)
TimeOut(w) ==
    /\ pc[w] = "calling"
    /\ job[hand[w]][turn[w]] = "running"
    /\ \/ job' = [job EXCEPT ![hand[w]][turn[w]] = "cancelled"]
       \/ LoadCoachFails /\ UNCHANGED job
    /\ Goto(w, "failed")
    /\ UNCHANGED <<row, announced, turns, retries,
                   hand, turn, base, todo, resumed, signals, drafts, outside>>

(* LoadCoach cannot be reached: abandon the job if that still works, fail. *)
LoseCall(w) ==
    /\ LoadCoachFails
    /\ pc[w] \in {"posting", "calling"}
    /\ \/ job' = [job EXCEPT ![hand[w]][turn[w]] = IF @ = "running" THEN "cancelled" ELSE @]
       \/ UNCHANGED job
    /\ Goto(w, "unreachable")
    /\ UNCHANGED <<row, announced, turns, retries,
                   hand, turn, base, todo, resumed, signals, drafts, outside>>

FailUnreachable(w) ==                                                \* T13
    /\ pc[w] = "unreachable"
    /\ Owns(w, "executing")
    /\ End(hand[w], "failed")
    /\ Leave(w)
    /\ UNCHANGED <<record, outside>>
-----------------------------------------------------------------------------
Outcome(w) == job[hand[w]][turn[w]]

(* The intent's next tier, under a turn id of its own. *)
NextTier(w) ==
    /\ pc[w] = "failed" /\ Outcome(w) = "none"
    /\ Goto(w, "ready")
    /\ UNCHANGED <<row, record, hand, turn, base, todo, resumed, signals, drafts, outside>>

(* step.retried before the attempt it starts; the budget is the record's. *)
RetryTurn(w) ==
    /\ pc[w] = "failed" /\ retries[hand[w]] < StepRetries
    /\ Owns(w, "executing")
    /\ retries' = [retries EXCEPT ![hand[w]] = @ + 1]
    /\ AfterTurn(w, TRUE)
    /\ UNCHANGED <<row, announced, turns, job, outside>>

(* A failure not to be repeated, attempts that are spent, or the document of a
   job that did not complete. *)
HaltUnanswered(w) ==                                                 \* T12
    /\ \/ pc[w] = "failed"
       \/ pc[w] = "answered" /\ Outcome(w) # "completed"
    /\ Owns(w, "executing")
    /\ End(hand[w], "halted")
    /\ AfterTurn(w, FALSE)
    /\ UNCHANGED <<record, outside>>

(* turns: the id is the primary key, (thread_id, sequence) is unique. *)
Collides(w) == turn[w] \in Committed(hand[w]) \/ base[w] # Len(turns[hand[w]])

CommitTurn(w) ==
    /\ turns' = [turns EXCEPT ![hand[w]] = Append(@, turn[w])]
    /\ UNCHANGED <<announced, retries, job>>

(* FinishOutcome.CONTINUE writes the turn and its event, and no row. *)
RecordAndContinue(w) ==
    /\ pc[w] = "answered" /\ Outcome(w) = "completed" /\ ~Collides(w)
    /\ CommitTurn(w)
    /\ AfterTurn(w, TRUE)
    /\ UNCHANGED <<row, outside>>

(* The step is done and others remain: step.completed under the lease. *)
RecordAndCommitStep(w) ==
    /\ pc[w] = "answered" /\ Outcome(w) = "completed" /\ ~Collides(w)
    /\ Owns(w, "executing")
    /\ CommitTurn(w)
    /\ AfterTurn(w, TRUE)
    /\ UNCHANGED <<row, outside>>

RecordAndEnd(w) ==                                            \* T11 or T12
    /\ pc[w] = "answered" /\ Outcome(w) = "completed" /\ ~Collides(w)
    /\ Owns(w, "executing")
    /\ \E ending \in {"completed", "halted"} : End(hand[w], ending)
    /\ CommitTurn(w)
    /\ AfterTurn(w, FALSE)
    /\ UNCHANGED outside

RecordAndAsk(w) ==                                                   \* T10
    /\ pc[w] = "answered" /\ Outcome(w) = "completed" /\ ~Collides(w)
    /\ Owns(w, "executing") /\ ~pending[hand[w]]
    /\ Hold(hand[w])
    /\ CommitTurn(w)
    /\ AfterTurn(w, FALSE)
    /\ UNCHANGED outside

(* An IntegrityError from the turn row, or ApprovalInvalidStateError from a
   second pending request: raised before the fence, and caught by nobody. *)
Collapse(w) ==
    /\ \/ pc[w] = "answered" /\ Outcome(w) = "completed" /\ Collides(w)
       \/ pc[w] = "answered" /\ Outcome(w) = "completed" /\ pending[hand[w]]
       \/ pc[w] = "ready" /\ ~Spent(w) /\ pending[hand[w]]
       \/ pc[w] = "approving" /\ pending[hand[w]]
    /\ Dies(w)
    /\ UNCHANGED <<row, record, outside>>

(* The next fenced write affects no row: LeaseLost, and the run stops. *)
LoseLease(w) ==
    /\ \/ /\ pc[w] = "drafting" /\ (CancelSeen(w) \/ "lease_lost" \in signals[w])
          /\ ~Owns(w, "planning")
       \/ pc[w] \in {"drafted", "refused", "approving"} /\ ~Owns(w, "planning")
       \/ /\ pc[w] = "boundary" /\ "lease_lost" \notin signals[w] /\ CancelSeen(w)
          /\ ~Owns(w, "executing")
       \/ pc[w] \in {"ready", "unreachable", "failed"} /\ ~Owns(w, "executing")
       \/ /\ pc[w] = "answered" /\ ~Owns(w, "executing")
          /\ Outcome(w) = "completed" => ~Collides(w)
    /\ AfterTurn(w, FALSE)
    /\ UNCHANGED <<row, record, outside>>
-----------------------------------------------------------------------------
(* kill -9 and a new process: memory is gone, the rows and LoadCoach's jobs
   are not, and startup recovery runs before anything else. *)
Crash ==
    /\ crashes < MaxCrashes
    /\ crashes' = crashes + 1
    /\ \E samePrefix \in IF PidReused THEN BOOLEAN ELSE {FALSE} :
         owner' = [t \in Trajectories |->
                     IF owner[t] \in Threads /\ ~samePrefix THEN Former ELSE owner[t]]
    /\ pc' = [w \in Threads |-> IF w = Recovery THEN "reap" ELSE "off"]
    /\ hand' = [w \in Threads |-> NoTrajectory]
    /\ turn' = [w \in Threads |-> 0]
    /\ base' = [w \in Threads |-> 0]
    /\ todo' = [w \in Threads |-> {}]
    /\ resumed' = [w \in Threads |-> {}]
    /\ signals' = [w \in Threads |-> {}]
    /\ drafts' = [w \in Threads |-> 0]
    /\ UNCHANGED <<status, expired, cancelRequested, pending, minted, record, pool>>

Request(t) == Submit(t) \/ Cancel(t) \/ Grant(t) \/ Deny(t)

Keep(w) == Renew(w) \/ CancelInFlight(w)

Recover(w) ==
    \/ Reap(w) \/ NotYetDue(w) \/ RecoveryListDone(w) \/ Redraft(w) \/ RecordRedraft(w)
    \/ ReadEvents(w) \/ Inspect(w) \/ FindJob(w) \/ TakeOver(w)
    \/ CancelFoundJob(w) \/ HaltRecovered(w) \/ LoadFinished(w)

Pass(w) ==
    \/ ResumeNext(w) \/ ResumedAll(w) \/ ApprovalsDone(w)
    \/ NothingReleased(w) \/ NothingQueued(w)
    \/ \E t \in Trajectories : ExpireApproval(w, t) \/ ClaimReleased(w, t) \/ Claim(w, t)

Plan(w) == Start(w) \/ FailToStart(w) \/ StopDrafting(w) \/ Draft(w) \/ RecordAttempt(w)
            \/ FailPlanning(w) \/ Approve(w)

Turn(w) ==
    \/ StopAtBoundary(w) \/ CancelAtBoundary(w) \/ Prepare(w)
    \/ HaltBeforeTurn(w) \/ AskBeforeTurn(w) \/ Announce(w) \/ Post(w) \/ Refuse(w)
    \/ Answer(w) \/ TimeOut(w) \/ LoseCall(w) \/ FailUnreachable(w) \/ NextTier(w) \/ RetryTurn(w)
    \/ HaltUnanswered(w) \/ RecordAndContinue(w) \/ RecordAndCommitStep(w)
    \/ RecordAndEnd(w) \/ RecordAndAsk(w) \/ Collapse(w) \/ LoseLease(w)

Step(w) == Recover(w) \/ Pass(w) \/ Plan(w) \/ Turn(w)

Next ==
    \/ \E t \in Trajectories : Request(t) \/ LeaseExpires(t)
    \/ \E t \in Trajectories, i \in 1 .. MaxAnnounced : JobEnds(t, i)
    \/ \E w \in Threads : Keep(w) \/ Step(w)
    \/ Crash

Spec == Init /\ [][Next]_vars

(* Threads are scheduled and reap when their clock says so, their keepers tick,
   a lease that nobody renews runs out, LoadCoach ends what it runs. *)
Fairness ==
    /\ \A w \in Threads : WF_vars(Step(w)) /\ WF_vars(Renew(w)) /\ SF_vars(Reap(w))
    /\ \A t \in Trajectories : WF_vars(LeaseExpires(t))
    /\ \A t \in Trajectories : \A i \in 1 .. MaxAnnounced : WF_vars(JobEnds(t, i))

FairSpec == Spec /\ Fairness
-----------------------------------------------------------------------------
(* Every variable keeps to its type: pc and hand agree, and the turn rows hold
   announced turns only. *)
TypeOK ==
    /\ status \in [Trajectories -> States]
    /\ owner \in [Trajectories -> Threads \cup {NoOwner, Former}]
    /\ {expired, cancelRequested, pending, minted} \subseteq [Trajectories -> BOOLEAN]
    /\ announced \in [Trajectories -> 0 .. MaxAnnounced]
    /\ \A t \in Trajectories : turns[t] \in Seq(1 .. announced[t])
    /\ retries \in [Trajectories -> 0 .. StepRetries]
    /\ job \in [Trajectories -> [1 .. MaxAnnounced -> JobStates]]
    /\ pc \in [Threads -> Phases]
    /\ hand \in [Threads -> Trajectories \cup {NoTrajectory}]
    /\ {turn, base} \subseteq [Threads -> 0 .. MaxAnnounced]
    /\ todo \in [Threads -> SUBSET (Trajectories \X LeaseHolding)]
    /\ resumed \in [Threads -> SUBSET Trajectories]
    /\ signals \in [Threads -> SUBSET Signals]
    /\ drafts \in [Threads -> 0 .. CorrectiveRetries + 1]
    /\ crashes \in 0 .. MaxCrashes
    /\ pool \subseteq Workers /\ \A w \in Workers \ pool : pc[w] = "off"
    /\ \A w \in Threads : hand[w] = NoTrajectory <=>
            pc[w] \in {"off", "dead", "recover"} \cup Passing

(* Whatever interleaves, the row only ever moves as domain/trajectory.py
   allows: the pool implements the lifecycle. *)
Lifecycle == INSTANCE TrajectoryLifecycle
    WITH WindowWaitMaxDays <- 1,
         leased <- [t \in Trajectories |-> owner[t] # NoOwner],
         parkedFrom <- [t \in Trajectories |-> "none"],
         daysWaited <- [t \in Trajectories |-> 0]

ImplementsLifecycle == Lifecycle!Spec

(* Two threads never work on one trajectory: whoever plans or executes it is
   the owner its row names ("What a lease means here", loop.py). *)
OwnerAloneRuns ==
    \A w \in Threads :
        /\ pc[w] \in Planning \cup Executing
        /\ status[hand[w]] \in LeaseHolding
        => owner[hand[w]] = w

(* No thread of the pool is ever lost to an exception nobody catches: a dead
   worker is never restarted, and a dead recovery never serves. *)
ThreadsSurvive == \A w \in Threads : pc[w] # "dead"

(* While LoadCoach answers, it runs at most one job for a trajectory: neither a
   retry after a timeout nor a recovered turn starts beside its predecessor. *)
OneJobAtATime ==
    \A t \in Trajectories :
        Cardinality({i \in 1 .. MaxAnnounced : job[t][i] = "running"}) <= 1

(* A trajectory that ended, or waits for a person, left no job holding the
   GPU behind it (the docstring of domain cancel: "exactly the orphan recovery
   exists to avoid"). *)
NoOrphanJob ==
    \A t \in Trajectories :
        status[t] \in Terminal \cup {"awaiting_approval"} =>
            \A i \in 1 .. MaxAnnounced : job[t][i] # "running"

(* One worker thread, which is the default, survives everything here, its own
   stalled keeper, a lost LoadCoach and a reused process id included. *)
LoneWorkerSurvives == Cardinality(pool) = 1 => ThreadsSurvive

(* A worker whose lease was taken over cannot commit a turn (loop.py, "What a
   lease means here"; LeaseKeeper): a turn row is only ever written by the
   thread the row names as owner. *)
FencedStep ==
    \A t \in Trajectories : turns'[t] # turns[t] =>
        \E w \in Threads : hand[w] = t /\ owner[t] = w /\ turns'[t] = Append(turns[t], turn[w])

TurnsAreFenced == [][FencedStep]_vars

(* With one worker thread, which is the default, the fence holds whatever
   stalls or fails. *)
LoneWorkerIsFenced == [][Cardinality(pool) = 1 => FencedStep]_vars

(* With one worker thread, nothing is added to the record of a trajectory that
   has ended. *)
EndedRecordIsClosed ==
    [][Cardinality(pool) = 1 =>
       \A t \in Trajectories : status[t] \in Terminal =>
          /\ turns'[t] = turns[t] /\ announced'[t] = announced[t]
          /\ retries'[t] = retries[t]]_vars

(* Work that was accepted is worked on, and work that began comes to an end or
   to a person, across every crash and restart. *)
QueuedIsTaken ==
    \A t \in Trajectories : status[t] = "queued" ~> status[t] # "queued"
WorkSettles ==
    \A t \in Trajectories : status[t] \in LeaseHolding ~> status[t] \notin LeaseHolding

(* A cancel is honoured, unless the trajectory asks a person first. *)
CancelIsHonoured ==
    \A t \in Trajectories : cancelRequested[t] ~>
        status[t] \in Terminal \cup {"awaiting_approval"}
=============================================================================
