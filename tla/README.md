# PromptCadence: a verification of its trajectories

PromptCadence runs *trajectories*: a task is planned by a model, the plan is
decided by policy or by a person, and its steps run as turns against LoadCoach,
an external service that owns the GPU. Every turn runs under an *envelope* (an
`ExecutionIntent`: the tier, tools, data class and budget that were approved), and
is compared with it afterwards. Everything the program knows is in one SQLite
database, and it promises that the record survives a `kill -9` at any instant.
These modules model the parts of it that make those promises hard to keep, check
them with TLC on small instances, and prove the central ones with TLAPS.

Paths are relative to `src/`; `loop.py`, `worker.py`, `approvals.py` and the like
are under `src/promptcadence/services/`, `trajectory.py`, `policy.py`, `plan.py`
under `src/promptcadence/domain/`, `loadcoach.py` under
`src/promptcadence/infrastructure/`. `lifecycle.md` is
`docs/apps/promptcadence/lifecycle.md`.

## 1. Inventory

### The parts, their state and their operations

| Part | State | Operations | Correct when | Module |
|---|---|---|---|---|
| **Trajectory lifecycle** (`trajectory.py`) | status, lease, pending request, window clock | T1-T17 | no execution without an intent, a park is releasable, endings absorb | `TrajectoryLifecycle` |
| **Worker pool** (`worker.py`) | owner names, what each thread does | pass, keep the lease, reap, recover at startup | no thread is lost, accepted work is taken, leases move only when expired | `WorkerPool` |
| **Loop controller** (`loop.py`) | events, threads, turns, debits; the run in hand | claim, plan, approve, dispatch, step, turn, call, record, escalate, compact, park, end | one owner, every call under its envelope, nothing done twice, nothing lost | `WorkerPool`, `PlanExecution`, `Governance` |
| **Recovery** (`loop.py` `reconcile`, `redraft`) | the last `turn.started` and LoadCoach's job under its key | resume, cancel and resume, record, halt, draft anew | a crash costs at most the work in flight | the same three |
| **Plan dispatch** (`dispatch.py`) | committed steps, live intents | ready set, surfaces, concurrent steps | dependencies first, surfaces disjoint | `PlanExecution` |
| **Plan validation, planner** (`plan.py`, `planner.py`) | drafts | validate, order, draft, correct, fail | a recorded plan is acyclic and within its declaration | `PlanDocument`, `Governance` |
| **Policy, deviation** (`policy.py`, `deviation.py`) | none: functions | gate, verdict, compare, widen | nobody but a person widens an envelope | `ApprovalPolicy`, `Deviations` |
| **Intents** (`intent.py`, `intents.py`) | revisions of envelopes | mint, supersede, rebuild | a revision is minted again from the record | `Intents`, `Governance` |
| **Approvals** (`approvals.py`) | requests | decide a plan, request, grant, deny, expire | one request, answered once, granting what it asked | `Governance`, `PlanExecution`, `WorkerPool` |
| **Budgets and windows** (`budget.py`, `loop.py`) | ledger, day window | position, headroom, debit, park, resume, halt | a ceiling is overrun by turns under way only, an edge counts once, a turn is debited once | `Budgets`, `WindowWait`, `Governance` |
| **Tiers** (`tiers.py`, `pricing.py`, `estimates.py`) | configuration | resolve, escalate, price, estimate | data goes only where its class may | `Tiers`, `Budgets` |
| **Compaction** (`compaction.py`, `loop.py`) | summaries, superseding intents | narrow, summarize, verify, restore | the step's turns never run under the summary's envelope | `Governance` |
| **Egress** (`egress.py`) | decisions | evaluate a tier, a host | policy and ceiling agree | `Egress` |
| **LoadCoach client** (`loadcoach.py`) | version cache | map errors, parse, assemble calls, find a job | nothing that is not an answer is taken for one | `LoadCoachClient` |
| **Runtime settings** (`settings.py`) | stored rows | put, read, refresh | a PUT is all or nothing | `RuntimeSettings`, `Governance` |
| **Retention, explanation** (`retention.py`, `explanation.py`) | scrub marks, explanation revisions | sweep, scrub, file, invalidate, rebuild | no words outlive their scrub, one current revision | `Record` |
| **Tools** (`tools.py`, `tool_calls.py`) | invocations, artifacts | run, record, spill | every call of a turn answered once | `PlanExecution` |
| **Trajectory service** (`trajectories.py`) | rows | submit, cancel, read | a cancel is honoured once | `WorkerPool` |
| Event sink and SSE, rate limit, tokens, web, CLI, prompts | numbered events, buckets | append, replay, take | see section 7 | |

`PROJECT.json` lists all of them with their files, status and what is left out.

### How they interact

* **Shared state is the database.** A write is one transaction and every write
  to a trajectory row is meant to be a compare-and-set: on the status (`_cas`)
  or on the status and the owner (`_owned_cas`). Web requests, worker threads,
  lease keepers and step threads meet only there.
* **A grant releases, it does not call.** It leaves `executing` with no lease,
  and a worker's next pass has to find it (`claim_released`).
* **A cancel is a flag** while a lease is held, relayed by the keeper to
  LoadCoach and read by the loop at a boundary; without a lease it ends the
  trajectory at once.
* **A turn is announced before it is asked for** (`turn.started`), and its id is
  LoadCoach's idempotency key: recovery finds the job of a turn that has no row.
* **An envelope is rebuilt, not read.** Before a run every revision is minted
  again from the record and compared; one that differs fails the trajectory.
* **A summary borrows the step's envelope**: a superseding revision narrows it to
  a local tier without tools, another restores it.
* **The sweep, a run that ends, and the rebuild command** write explanation
  revisions from three transactions each, in two processes.

### What is hard

Stalled workers that come back; crashes between an announcement, its job, its
debit, its row and its effects; the same work recovered twice; cancels, grants,
denials and expiries that race; envelopes that a grant, an escalation, a
compaction and a crash all move; siblings that park, end or raise; day edges read
by every pass; calls of a turn half run; a scrub beside a rebuild.
`PROJECT.json` lists each hazard at its line with the properties that watch it, or
the reason none does.

## 2. The modules

```
 TrajectoryLifecycle (T1-T17)                  GovernedPlan (a plan's promises)
   ^ implemented by    ^         \ extended by     ^ implemented by
 WorkerPool        WindowWait     Record         PlanExecution
 threads, leases,  day windows,   words, filed   steps, threads, turns,
 crashes, reaper   daily ceiling  explanations   tool calls, recovery

                         Governance
        plan, verdict, envelopes, pre-flights, call, answer,
        deviations, compaction, requests, ledger, recovery
   ^          ^            ^               ^                 ^
 Budgets   PlanDocument  LoadCoachClient  RuntimeSettings  Egress
   |          |                                              |
 Deviations > Intents > ApprovalPolicy > Tiers <-------------+
```

`MC...` modules give each its small instance. Eight modules hold the theorems:
`RecordProofs` (of the lifecycle too), `GovernedPlanProofs`, `PlanExecutionProofs`,
`WindowWaitProofs`, `WorkerPoolProofs`, `PolicyProofs`, `GovernanceProofs` and
`CoverageProofs`, which extends it.

**`TrajectoryLifecycle`** is the transition table of `trajectory.py`, one action
per function, with what the callers write in the same transaction: the lease,
the pending request, whether an intent was ever minted, the window clock.

**`WorkerPool`** is what runs: threads as a program counter `pc` over the
statements of `_pass`, `run`, `reconcile` and `redraft`. Every transaction,
every read that is used later and every call to LoadCoach is a step of its own,
so another thread, a request, the clock or a crash can come in between.
`announced`, `turns`, `retries` and `job` are the record and LoadCoach's jobs;
`hand`, `turn`, `base` and `todo` are what a thread remembers from an earlier
read. A step is abstracted to one more turn of the trajectory. `Load` sets how
many workers run beside how many trajectories.

**`WindowWait`** is the pre-flight against the per-day ceiling and the pass over
parked clocks. The balance is `spent`. What is admitted and what is debited are two
things, as in the code: `Preflight` asks whether the *estimate* (`StepCost`) still
fits, `Debit` charges what the answer reports, anything from nothing (a local tier
under a ceiling of money) up to `DearestTurn`, more than the estimate or less.
`seen` and `late` are what a worker read before the row or the day moved.
`unrecorded` are the trajectories whose turn was under way in a process that went
away: recovery may record it, and charge it, with no pre-flight. `edges` is a
history variable: the day edges that really passed since the park.

**`PlanExecution`** is a trajectory with a plan under one worker. `pc` is the
worker thread (`_execute_plan`, `_run_steps`, recovery), `at[s]` where the thread
of each dispatched step is in `_run_step`, `_turn` and `_call`. A thread of turns
is kept as `rounds` (assistant turns), `unrun` (calls of the last one still to
run) and `visible` (`_pending_tool_calls` sees them: the last turn is an
ASSISTANT turn that declares `tool_calls`). `announced` has LoadCoach's job and
whether the row exists. What a turn's pre-flights, policy and answer decide is a
choice here and is decided in `Governance`; what each outcome writes is not.

**`GovernedPlan`** is what the record of a plan promises, with no threads, turns
or crashes: intents, one request, commits, the ending.

**`Governance`** is one trajectory under one worker, from the claim to its end,
with the decisions `PlanExecution` leaves open. `worker.pc` is where `run` is;
`worker.as` says whether the turn in hand is the step's or a summary's, and
`worker.envelope` is what `_compact` keeps in a local variable and a crash loses.
`chains` are the revisions of each step's envelope, `threads` the recorded turns,
`ledger` the debits, `announced` the last `turn.started` with LoadCoach's job.
Actions are the transactions of the code: `Claim`, `Draft`, `Decide` (the verdict
with the intents it mints), `Load` (the rebuild), `Dispatch`, `RunTools`,
`Preflight` (the refusals of a turn in their order: turns, egress, pricing,
availability, budget), `Narrow`/`Restore` around a summary, `Announce`, `Post`, the failures of
a call, `Debit`, `Record` (the row, the deviations and what they lead to in one
write), `Unverified` and `HaltViolation`, `Escalate`, `Grant`, `Deny`, `Put` and
`Refresh` of settings, `Crash`, `Restart`, `Recover`. Its functions are modules:

* `Tiers`: which tier admits which class, the escalation order, the summarizing tier.
* `ApprovalPolicy`: gates, verdict of a step, verdict of a plan under ceilings.
* `Intents`: minting, superseding, the live revision, the rebuild from the record.
* `Deviations`: what deviates, what it leads to, what a grant may widen.
* `Budgets`: estimates, charges, positions, what binds.
* `PlanDocument`: every reason a planner answer is refused for, the cycle search,
  the ready set, the topological order.
* `LoadCoachClient`: exchanges to failures, failures to reactions, documents that
  are refused, fragments of tool calls, the version cache, the search for a job.
* `RuntimeSettings`: coercion, bounds, what is stored and what is effective.
* `Egress`: the decision for a tier and for the host of a network tool.

**`Record`** extends the lifecycle with what is kept: words, scrub marks, and
explanation revisions with three writers (`run`, `sweep`, `rebuild`) that compose,
compare and insert in separate transactions.

Each module carries its mutants: small variants of an action or guard, marked
`Mutant:`, that no specification uses. `PROJECT.json` names for each checked
property the mutant that breaks it.

## 3. The runs

| Run | Instance | Shows |
|---|---|---|
| `lifecycle_record` | 2 trajectories, one of them from an earlier process, window of 3 days, 1 late debit, 1 rebuild, 1 kill | the table keeps its invariants (`Inductive` is the one the proofs use), no two current explanations, no words behind a scrub, what ended loses its words |
| `pool` | 1 worker with 2 trajectories and a LoadCoach that may fail at any call, or 2 workers with 1; stalls, a reused pid, 1 crash; 1.59M states | the row moves only as the lifecycle allows, what ended is closed, and at the default of one worker no thread dies and turns are written by owners |
| `pool_live` | 2 workers, 1 trajectory, 1 crash, keepers in time, LoadCoach up | one owner, one job, no orphan job; work and cancels come to their end |
| `window_daily` | 1 worker (the default), 2 trajectories of 4 turns, a day that has room for one, turns charged up to twice their estimate, 1 restart; 277,254 states | with one worker edges are counted once and the row moves only as the lifecycle allows; how far a day overruns its ceiling, waits end |
| `plan_serial` | 3 steps, any gates, one at a time, 4 announcements, 2 calls a turn, 1 crash | the plan's promises, the attempts envelope across crashes, the end of execution |
| `plan_concurrent` | 3 steps, 2 at once (1 local, 1 remote), 4 announcements, 1 crash | the promises under every interleaving of siblings; the surfaces as LoadCoach sees them |
| `governance` | 3 submissions, 3 plans, 3 policies, with and without a remote provider, 7 answers, 7 failed exchanges, 4 calls, 5 revisions, 2 summaries a compaction, 1 crash; 2.57M states | see below |
| `summary`, `fence`, `edge`, `forever`, `calls` | small | five disagreements, section 5 |

What `governance` asks, across every path of approvals, deviations, escalations,
raises, compactions, changed settings and a crash at any instant:

* `CallsAreCovered`: a call goes to the tier of the step's live envelope; a step's turn
  goes to a tier that may have its data; a remote tier is priced and has its provider;
  in manual mode a person approved some envelope of the step, and in hybrid mode, where
  a gate caught what leaves the machine, the very tier that is called.
* `PolicyNeverWidens`: a revision minted by policy keeps class and budget, and either
  is a local one without tools or has the tier and tools an earlier revision had.
* `StepRunsUnderItsEnvelope`: the step's own turns never run under a summary's
  envelope (as long as no worker died; after a crash they do, section 5).
* `LedgerMatchesTurns`: each recorded turn is debited exactly once.
* `ViolationHalts`: after a turn was found to violate its envelope nothing is asked.
* `RebuildRefusesOnlyChanged`: an envelope fails to rebuild only if the policy
  changed, with two exceptions that the code does have (section 5).

`MCGovernance` also checks the functions on their own, as assumptions evaluated
before the run: every refusal reason of a plan is produced by an answer that has that
fault and by none of the good ones (`EachRefusal`); the cycle search is exact on
every graph of three nodes (`SearchIsExact`) and the order respects dependencies
(`OrderRespectsDependencies`); egress and ceilings agree (`EgressAgrees`); a PUT is
all or nothing (`SettingsAreWhole`); fragments of calls come together whatever lies
between them (`FragmentsComeTogether`); a refused version is asked for again and
jobs are found within the pages read (`VersionAndJobs`).

**Bounds and why they are enough.** The protocols are per trajectory: a second
trajectory matters only for a thread's choice among them (`pool`), for a shared
ceiling (`window_daily`) and for a batch (`lifecycle_record`). Two workers are a
stale one and a live one. One crash, at every instant, is followed by a full
recovery; `plan_serial` was also explored with two, with gates on one step only,
and holds. The plan of `PlanExecution` has what the dispatch rule tells apart: two
local steps ready together, a remote one beside a local one, and a dependency.
`MaxTurns = 2` makes a repeat and a second round compete for the envelope. A window
of 3 days has a first, a middle and a last edge, and the defect of the last edge
needs 2. A turn is charged 0, 1 or 2 where 1 was estimated (`DearestTurn`), so a day
of ceiling 1 is overrun by a turn, by one carried over midnight and by one that a
restart left. In `Governance` four calls are a step's turn, a summary, the turn that
follows and one more after a grant or a crash; five revisions (`MaxRevisions`,
after which nobody grants) are a minting, a narrowing and restoring, a raise and
another; four tiers are two local ones of different context, a remote one that is
priced and one that is not; the submissions are the classes with and without
remote tiers, and a bypass. `CHECK_DEADLOCK FALSE` stands where a trajectory may
really end with nothing left to do.

**Fairness.** Threads are scheduled (weak fairness of each thread's step, of
`Controller`, of each `StepThread`, of the sweep and of the run that files);
keepers tick (`Renew`); a lease nobody renews runs out (`LeaseExpires`); LoadCoach
ends what it runs (`JobEnds`); days pass (`DayRolls`). The reaper is a clock test
inside a pass that alternates with other work, so it is enabled over and over and
not for good: strong fairness, which the code earns because the interval elapses
and the pass is a loop. No fairness is given to a cancel, a grant, a denial, a
submission, the keeper's relay, the rebuild command or a crash: nobody has to act.
`pool_live` assumes keepers in time and LoadCoach up, for with either failing work
may wait as long as the failure lasts. `Governance` states no fairness: what must
happen is asked of `WorkerPool` and `PlanExecution`.

## 4. What is proved

Every invariant and action property a passing run checks is also a theorem, for
every value of the constants; so are the three refinements. What the theorems assume
are the named `ASSUME`s of the modules: bounds that are natural numbers, finite sets
of workers, an acyclic order the plan was validated with, tiers that are what their
configuration says, submissions as `submit` lets them in (`trajectories.py:189-233`:
registered tools, a tier of the snapshot, a token ceiling and caps of at least one,
a money ceiling of zero stored as none), raises that are positive
(`approvals.py:184-194`), answers that count tokens. Of a planner's answer nothing
is assumed but that its identifiers are names (`IsDocument`): every field may be
absent, of the wrong type or nonsense. Where a theorem needs more it says so in its
statement. Each invariant was first checked by TLC on instances, with the state
counts given below.

| Module | About | Theorems that say most |
|---|---|---|
| `RecordProofs` | `TrajectoryLifecycle`, `Record` | `NoExecutionWithoutIntent`, `Absorption`, `ScrubIsFinal` |
| `GovernedPlanProofs` | `GovernedPlan` | `PromisesHold` |
| `PlanExecutionProofs` | `PlanExecution` | `TurnsStayInEnvelope`, `JobsStayWithinLimit`, `ExecutionImplementsPlan`, `PromisesKept` |
| `WindowWaitProofs` | `WindowWait` | `OverrunStaysBounded`, `EdgesAreCountedOnce`, `WindowImplementsLifecycle` |
| `WorkerPoolProofs` | `WorkerPool` | `PoolImplementsLifecycle`, `LeasesGuard`, `OneOwnerRuns`, `OneJobRuns`, `NoJobIsOrphaned` |
| `PolicyProofs` | the functions | `SummariesStayLocal`, `VerdictsAdmit`, `NoCycleUnseen`, `CyclesAreReal`, `ValidPlansAreSound`, `SomeStepReady` |
| `GovernanceProofs` | `Governance` | `OnlyPeopleWiden`, `TurnsAreDebitedOnce` |
| `CoverageProofs` | `Governance`, on top of the last | `NoUngovernedTurn`, `StepsKeepTheirEnvelope`, `RebuildsRefuseOnlyChanged`, `TypeCorrect` |

**`RecordProofs`**, for any set of trajectories and any window length of at least
one day. Of the *life*: the inductive invariant, and from it type correctness, no
execution without an intent, no park without its request, leases only where work is,
no intent behind a rejection, absorption of the endings, and no return to planning.
`ExecutingHasIntent` alone is not inductive: T16 returns to the state a park
remembers, so the invariant has to say that only what held an intent remembers
`executing` (`ParkRemembersItsOrigin`), and that planning never holds one
(`UnplannedHasNoIntent`). Of the *record*: the three writers of explanations leave at
most one current revision (`RecordTypeCorrect`), and no current revision holds words
behind a scrub, but where it was torn (`ScrubIsFinal`). That takes what a sweep has in
hand (`Working`, `Sweeping`), that what is old enough to be scrubbed will not be filed
by a run again (`Over`), and that a writer that read before the scrub is caught by its
compare (`Wordless`). `RecordFollowsLife`: with all that beside it, the row
still moves only as the table has it.

**`GovernedPlanProofs`**, for every plan (no assumption at all, cycles included,
since a cyclic plan merely never completes): `Promises`. They are inductive but for
one point: the verdict *replaces* the allowed steps, harmless only because nothing
was allowed in `planning`, which `Inductive` adds.

**`PlanExecutionProofs`**, for every plan, every split into local and remote steps,
any gates, limits and bounds, and any number of crashes. The envelope
(`rounds + retries <= MaxTurns`) is what the proof is about. A turn is
announced under it and becomes a row much later, by its own thread or by a recovery,
so the invariant has to know that at most one turn per step may still become a row,
and whose it is:

| Part | Says | Needed because |
|---|---|---|
| `Phased`, `Placed` | which phase goes with which status, and where threads may be in it | a crash, a park and a join leave threads behind, recovery hands over at most one |
| `Pending`, `Granted` | a thread in its tools has calls to run; every thread's step is allowed, uncommitted and ready | the refinement: a commit is of an allowed step whose dependencies are committed |
| `Traced` | an announced turn is of an allowed step; a commit leaves no answer of its step unrecorded; a thread in flight attends to the last turn of its step | only that turn may become a row, and only once |
| `Enveloped` | the property; a thread at work, and an unrecorded turn LoadCoach may have answered, have room for one more round | a repeat, a second round and a recovered turn compete for the last one |
| `Bounded` | threads abroad keep to the limits of number and surface | `JobsWithinLimit`: the jobs are those of the threads abroad |
| `Lone`, `Attended` | with one step at a time the turn in flight is the last announced; a running job has its thread, or recovery about to find it | recovery looks at the last announcement only, which is enough for one step at a time and not for two (section 5) |

(TLC: 346,914 states one step at a time, 1,421,137 side by side.) On it rest type
correctness, `CommittedIsOver`, `ThreadSurvives` for one step at a time, the number of
jobs (`JobsWithinLimit`, which a crash with several steps in flight breaks and which
therefore has them excluded), and the step simulation `ExecutionImplementsPlan`.
`PromisesKept` carries the promises of `GovernedPlan` over to the execution. That a
round of dispatch fits beside what is in flight (`DispatchFits`) is a lemma about the
choice itself, proved of any set of steps.

**`WindowWaitProofs`**, for any workers, trajectories, estimates, charges and ceiling.
A daily ceiling is not a cap: the pre-flight weighs an estimate, the turn is charged
what it turns out to cost, and midnights and recoveries bring charges nobody weighed
that day. `OverrunIsBounded` says how far that goes: when the last turn was admitted
the day still had room for a step, so beyond the ceiling there is at most what the
turns under way were charged, one for each worker of this process and of each one
before it. The balance alone does not know who was admitted on it, so the invariant
adds what is still to come: `Spending` bounds what was charged *and* all that the
turns under way (`Admitted`, and `unrecorded` ones) may yet be charged, and `Left` says
that a restart leaves no more turns than it had workers (TLC: 277,254 states with one
worker, 5.3M with two and uneven prices). A step then only has to show that the two
together do not grow (`StaysWithin`), except that an admission has found room.
Two more theorems assume the default of one worker, and need it: with a second,
one decides on a view of a wait that the other has resumed and parked again. Then
`EdgesAreCountedOnce` rests on `Counted` (a due clock has an edge it has not
counted) and `Sighted` (what was read at the start of a release is still so at its
write, unless the day rolled meanwhile), and `WindowImplementsLifecycle` on `Sighted`.

**`WorkerPoolProofs`**, for any number of threads and trajectories. Types and
`PoolImplementsLifecycle` hold with no condition: whoever stalls, crashes or has its
pid used again, every compare-and-set moves the row as the table has it. What a
lease *guards* is a matter of time, and is proved under `Disciplined`: there is one
worker (the default, and then even stalls and outages do no harm), or keepers run in
time, LoadCoach answers and no pid is used again (`Timely`). `LeasesGuard` is that
invariant:

| Part | Says | Needed because |
|---|---|---|
| `IInv` | types, the row (`RowSound`), shifts (workers start when recovery is over), numbered turns, and for each statement what a thread has in hand | the program counter says what was read and not yet acted on |
| `Fit` | a thread past its claim owns the row, in the state it thinks; what recovery listed is as it was listed; nobody has announced or recorded a turn since the thread read them; it was told of no lost lease | its compare-and-sets succeed, and a refusal nobody handles is how a thread dies |
| `RecoveryOnly`, `RecoversAlone` | recovery takes nothing new and runs beside nobody | it reads a list of leases first and resumes them afterwards |
| `Tidy` | in time: no lease expires, what names an owner is in that thread's hand, what names a former process is still to be recovered | a second owner needs an expired lease, so there is none |
| `Jobs` | the running job is that of the last announced turn, unrecorded, of an executing trajectory somebody owns; where a thread is sure none runs, none does | a retry, a halt, a park and a hand-over each leave the job ended first, or to recovery |

From it: no thread dies, turns are written by owners, what ended is closed, one
owner runs (`OneWorkerSurvives`, `OneWorkerIsFenced`, `EndedIsClosed`, `OneOwnerRuns`,
`NoThreadIsLost`). With `Jobs`, which needs `~LoadCoachFails` besides, since a cancel
LoadCoach does not answer leaves its job running: one job at a time, no orphan
(`OneJobRuns`, `NoJobIsOrphaned`). `EveryTurnIsFenced` is the other half of finding 1:
in time every turn *is* fenced, so that a stall past the lease is the only way to the
unfenced one. (TLC: 34,419, 1.59M and 3.9M states of the three configurations.)

**`PolicyProofs`**, for every set of tiers, ceilings, prices and classes, from the
`ASSUME`s of `Tiers`, `Budgets`, `Egress` and `RuntimeSettings`: a summary is made
by a local tier (`SummariesStayLocal`); each tier a step is moved to may have its
data (`MovesAreAdmitted`); a step that is not rejected has such a tier
(`VerdictsAdmit`); the egress decision and the ceiling agree
(`EgressAgreesWithTiers`); a grant stays within what the submission declared
(`GrantsStayDeclared`).

*Plan validation*, for every plan and every answer of the planner:

* `NoCycleUnseen`: where the search of `_find_cycle` finds no cycle there is none,
  stated as what the loop needs of it: of any set of nodes one depends on none of the
  set. The search is recursive and no induction theorem can be used, so the proof
  first shows that the walk is what its definition says: for every n there is a walk
  that is right wherever at most n nodes are left to visit (`WalksFurther` takes it
  from n to n + 1, `Reaches` from 0 to all, by the least number it would fail for),
  and for n as large as the graph that is the whole of `Walk` (`WalkCame`). Being right
  is `Came`: a walk that found no cycle leaves the stack as it was, forgets nothing
  that was done, has visited its node, and keeps what is done closed under dependencies.
* `CyclesAreReal`: what the search reports is a cycle, each step depending on the next
  and the last on the first, so that no plan is refused for a cycle it does not have.
  It rests on the stack being a path all along (`Path`, `Below`), by the same induction
  over what is left to visit (`WalkCloses`).
* `ValidPlansAreSound`: an answer nothing is found wrong with, by any of the checks of
  `validate_plan_document`, gives a plan within what was submitted, whose steps
  depend on steps of the plan and never wait for one another.
* `SomeStepReady`: of such a plan, whatever has committed, some step is ready as long
  as any is left, and what is ready depends only on what has committed. So the branch
  of `_execute_plan` in which "the DAG cannot advance" (`loop.py:1359`) is never taken,
  and `Governance` has no action for it; nor is the fallback of `_first_ready_gated`
  (`approvals.py:1149`), which would hold a step that cannot start.

The operators these are about were written out so that they can be reasoned about:
`Among` is a filter that keeps the order, and the search is `Look`, `Walked`, `Walk`
and `Begun` by name where Python has a nested function. The last part of the module
types what the operators return: gates, verdicts, minted and superseding envelopes,
widenings, estimates, charges and positions. That a position is a number is the one
with content (`AmountsTyped`): it is a sum over a *set* of debits, proved for the
subsets of each size in turn.

**`GovernanceProofs`**, for every configuration, set of submissions, plans, answers
and failures, and any number of calls and crashes: `OnlyPeopleWiden`
(`Spec => []PolicyNeverWidens`), `TurnsAreDebitedOnce` (`[]LedgerMatchesTurns`) and
`NoCallAfterViolation` (`ViolationHalts`), all from one inductive invariant
`Governed` (`AlwaysGoverned`). Its parts, and why each is needed:

| Part | Says | Needed because |
|---|---|---|
| `Shaped` | records have their fields, histories are sequences | nothing can be said of `Append` otherwise; what is *in* an envelope stays open |
| `Placed` | which `pc` goes with which status, and where a summary can be | a step that ends or parks leaves no one working |
| `Enveloped` | a step that runs or was announced has an envelope | the live revision exists when it is narrowed or compared |
| `Remembered` | what a compaction will restore is what some revision of the step had, for data of its present class | otherwise the restoring revision, which policy mints, might widen; it also has to survive a grant and a second compaction |
| `PolicyNeverWidens` | the property | |
| `Counted` | the turn in flight has no row, and is debited before it has | otherwise recovery might debit a turn again or record one that was not |
| `LedgerMatchesTurns` | the property | |
| `Caught` | a recorded violation not yet acted on is that of the turn in flight, and recovery comes upon the same answer | a crash between the record of a violation and the halt |

The proof has a lemma per part, with a case for each of the actions that disturb
it, and lemmas for the ways a trajectory ends, parks, goes on, is taken and is
recovered.

**`CoverageProofs`**, from the same assumptions: no ungoverned turn,
`NoUngovernedTurn` (`Spec => CallsAreCovered`). The call is made several steps after
what covers it, and an envelope is approved many steps before it is used, so the
theorem stands on `Governed` and four more parts, `Covered` (`AlwaysCovered`):

| Part | Says | Needed because |
|---|---|---|
| `ConfigRecord` | what was submitted stays, and only a restart moves policy or provider | the checks of a turn and its call are judged by the same configuration |
| `InFlight` | what was announced is what the worker is about to post | the property is about the announced call, the checks are about the worker's step |
| `Checked` | from the pre-flight to the post the live tier is an admitted one; around a summary it is local, and the tier to be restored is the admitted one | a compaction comes between the pre-flight and the call, and after it nothing is checked again |
| `Approvals` | each revision's egress gate is what its tier and class say under the policy it was minted by, and each tier a gate fires on was approved in some revision | escalations, raises and compactions supersede the approved envelope; the default envelope of a bypassed trajectory is the exception, minted before anyone is asked (`Waiting`), and waits with its trajectory |

The restoring of a compaction is where they meet: `Remembered` says the tier comes
from an earlier revision for data of the same class, so that its gate fires exactly
if that revision's did, and it was approved there.

Two more properties of the envelope itself, and the types, have invariants of their
own:

| Part | Says | Needed because |
|---|---|---|
| `Lent` | while nobody crashed, the live revision of a step has the tier and tools of the last one a person or the first minting gave; during a summary the worker has them to restore | `StepsKeepTheirEnvelope`: what `_compact` keeps is local, and a crash there is why the property stops at the first crash (section 5) |
| `PlanRows`, `Unminted`, `Requested` | a decided plan is a drafted one; no envelope exists before the verdict or the claim; a request that will supersede names one step that has an envelope | the first revision is minted from the recorded verdict, the others from the one before |
| `Rebuildable` | of a trajectory drafted once, under its first policy: every chain is minted again from the record, gate and budget included | `RebuildsRefuseOnlyChanged`: a load that refuses is a failure of the trajectory |

The heart of the last is that superseding is idempotent (`SupersedesAgain`):
minting a revision again with what it holds gives it back. It holds although an
absent amount of money means *inherit*, since what was inherited is then given.

`TypeCorrect` (`Spec => []TypeOK`) is the plain name of a theorem that is not plain:
`TypeOK` says that a request is there exactly while one waits for it, that a
position is a sum of numbers, that each revision of each envelope has a tier, tools
and a budget whatever it was minted from, and that is true only of plans that were
validated and of trajectories that have something left to do. `AlwaysTyped` is the
invariant it stands on, `Typed`:

| Part | Says | Needed because |
|---|---|---|
| `Drafted` | each drafted plan is sound, and a decided one has a verdict for each of its steps | what is minted is minted from the verdict of a step, and a step is found by name (`ValidPlansAreSound`) |
| `RowTyped` | a request is pending exactly while the trajectory waits for one | what is granted is the ask of the request there is |
| `Underway` | a trajectory that can be resumed has a step that has not committed, and its plan can be run; what runs or was announced is a step of that plan | `Dispatch` and a gated verdict take the *first* ready step, which has to exist (`SomeStepReady`) |
| `Books` | the debits are finitely many, of amounts; recorded turns count tokens | a sum over them is an amount (`AmountsTyped`), and what is left of a budget a number |
| `CountsTyped` | the announced answer counts tokens; a step is given at least one turn, also by a stored setting put and refreshed under it | a budget is computed from both |
| `Asks` | no grant is asked for what no grant can give: a tier violation or a tool outside the registry | the widening is chosen by the category of the ask |
| `Envelopes` | each chain is a sequence of intents | the part of `TypeOK` the others serve |

Each part is kept with the help of the others before the step, and of `Governed`,
`Covered` and `Recordable`.

**Only model-checked:** every liveness property (fairness and ENABLED are out of
the prover's reach). Of the functions, that each refusal has its reason, that
`TopologicalOrder` respects the dependencies, and what those of `LoadCoachClient`
compute, are checked on the small inputs of `MCGovernance`.

## 5. Findings

Five runs show the code doing what a document says it does not:

1. **`fence`: an unfenced turn.** The CONTINUE branch of `_record_turn`
   (`loop.py:2911`) writes no compare-and-set, so a worker that stalled past its
   lease commits a turn, which `loop.py:36` says it cannot.
2. **`edge`: the last day edge.** `release_window` resumes at
   `days_waited = window_wait_max_days`; the domain refuses, nobody catches it, and
   the worker thread is gone (`loop.py:3331`).
3. **`forever`: a park without end.** A trajectory is woken on the price of the
   default tier and parked again on the price of its step's (`loop.py:3343`), with
   its count of days reset.
4. **`calls`: lost tool calls.** `_pending_tool_calls` (`loop.py:3029`) misses calls
   that came with no `finish_reason`, and all that were left when a crash came
   between two calls of a turn; the step takes its next turn without them.
5. **`summary`: a summary that answers.** After a crash between the post of a summary
   and its row, recovery records it as a turn of the step it was to summarize
   (`loop.py:4104`); `lifecycle.md:419` says the two are kept apart by structure.

Other behaviours met while modelling. The modules take the path the code takes;
where a property had to exempt one, it names it:

* *Threads that die.* Arguments of a network tool that are no JSON object raise in
  `_tool_egress_ceiling` (`loop.py:3541`; 3507 says no exception a model can cause
  escapes), and again after every restart: `CallRaises`, exempted by name in
  `ThreadSurvives`. `TierUnavailableError` leaves `_summary_turn` (2376), and the
  provider surface (2457) is loaded outside any handler: `SurfaceLost`. With two
  concurrent steps a second request does the same.
* *Envelopes after a crash.* A worker that dies in a compaction leaves the summary's
  envelope live, and the step's next turn runs under it, against
  `lifecycle.md:409-410`; a later compaction "restores" that. An escalated turn looks
  in flight to recovery, which halts it. A summary's violation that a crash separates
  from its halt is recovered into further calls.
* *Rebuilds that refuse the innocent.* After a redraft `recorded_plan`
  (`intents.py:524`) may read the wrong plan; a plan step named `loop` is rebuilt as a
  bypass (`intents.py:430`). Changing the policy and restarting fails what ran under
  the old one.
* *Words that stay.* A kill between a scrub and its invalidation, or a rebuild that
  composed before the scrub, leaves the words in a current revision
  (`lifecycle.md:623` calls that a defeated scrub): `torn` in `Record`.
* *Answers.* A response without its `canonical_id` is an error but no violation;
  an unreadable completed answer is never debited; tool calls are run from the
  fragments while deviations are judged on the assembled list; `FinishReason` of an
  unknown word is none.
* *Budgets.* The docstring of `debited_turn_ids` says the debit comes after the row,
  the loop debits first; a raise may be lower than what it raises; a raise of the
  trajectory does not help a project's ceiling; superseding re-evaluates the cost gate
  with the previous budget; `lifecycle.md:317-320` has the brake fire late by the
  unreported portion of a price only, and never under `strict`, but a turn dearer
  than its estimate, turns admitted together and a recovered turn overrun a day
  too; summary turns are not pre-flighted, though
  `lifecycle.md:308` has the token ceiling bind every turn.
* *Settings.* Recovery at startup runs on the configured values before the stored
  rows are read; NaN passes for a threshold, infinity raises; a raised limit of
  turns does not lift envelopes already minted.
* *Two workers.* Two reapers can take one lease after an outage; a day that rolls
  between a read and a write halts a fresh park; a crash with two steps in flight
  leaves one job behind.

## 6. What is not modelled, and why

In `WorkerPool` a step is one more turn; in `PlanExecution` and `Governance` there
is one worker: a stale worker *and* concurrent siblings together are not explored.
The `PlanExecution` cancel of a timed-out job always succeeds, and LoadCoach always
answers there (outages are in `WorkerPool`, failures of every kind in
`Governance`). Steps of `Governance` run one at a time and its trajectory is never
cancelled; which turns a compaction masks or drops, and how many tokens that saves,
is a choice. Prices, snapshots and tiers are constants: the files they are read from
are not modelled. SQLite's isolation is taken as given: one write, one action.

Left out for what they are: the events vocabulary and error types (data); tokens,
authentication and CSRF (each request on its own); the rate limit and request limits
(a bucket per client, no state a trajectory depends on); the web application and its
routes, the command line (they call the services above); prompts, logging and
bootstrap; views, console and diagnostics (they read). Workspaces and spilled
artifacts are files.

## 7. What comes next

1. `EventLog`, of `events.py` and the SSE routes: dense numbering under concurrent
   writers, a replay and its live tail without gap or repeat.
2. A stale worker *and* concurrent siblings in one module, on top of `WorkerPool`.
