----------------------------- MODULE Governance ------------------------------
(***************************************************************************)
(* One trajectory under governance (services/loop.py, approvals.py,        *)
(* compaction.py, budget.py, intents.py): it is claimed or planned, its    *)
(* steps run turn by turn under their envelopes, each call is checked      *)
(* before it is made and its answer compared after, a person is asked      *)
(* where the policy or a deviation asks, a transcript that outgrew its     *)
(* tier is compacted by a summary, and a worker that dies is recovered     *)
(* from the record.  One worker: what several do to one another is         *)
(* WorkerPool; retries and cancels are there too, the days of a window are *)
(* in WindowWait, concurrent steps and tool calls in PlanExecution.        *)
(***************************************************************************)
EXTENDS Budgets, PlanDocument, LoadCoachClient, RuntimeSettings, Egress

CONSTANTS
  Step,           \* the steps plans are made of
  Submissions,    \* [class, tools, tokens, money, tier, bypass, maxSteps]
  Documents,      \* what the planner may answer
  Policies,       \* what [approval] may be configured to
  Answers,        \* the answers of completed jobs: [finish, tools, egress, verified, failure, tokens]
  Exchanges,      \* what else may come of a request to LoadCoach
  Raises,         \* the token ceilings a person may offer
  MaxTurnsPerStep,\* [execution] max_turns_per_step, as configured
  Puts,           \* what an administrator may put
  MaxSteps,       \* [execution] max_steps
  MaxPlanSteps,   \* [planning] max_plan_steps
  CorrectiveRetries, \* [planning] corrective_retries
  OnExhausted,    \* [budget] on_exhausted
  Strict,         \* [budget] strict_unpriced
  MaxCalls,       \* bound: calls announced
  MaxRevisions,   \* bound: the revisions after which a person grants no more
  MaxSummaries,   \* bound: the summaries of one compaction
  MaxCrashes      \* bound

SummaryThread == "summary"
Threads == Step \cup {BypassStep, SummaryThread}
Chained == Step \cup {BypassStep}

\* What TrajectoryService.submit, BudgetRaise and the readers of a response let
\* in: tools of the registry, a tier of the snapshot, no ceiling of zero, token
\* counts that are numbers; and of the planner any answer at all.
ASSUME GovernanceAssumption ==
  /\ Policies \subseteq PolicyType
  /\ \A s \in Submissions :
       /\ s.class \in Class /\ s.tools \subseteq Tool /\ s.tier \in Tier \cup {NoTier}
       /\ s.tokens \in Nat \ {0} /\ s.money \in Positive /\ s.maxSteps \in Positive
  /\ \A d \in Documents : IsDocument(d, Step)
  /\ \A a \in Answers : a.tokens \in Nat
  /\ Raises \subseteq Nat \ {0}
  /\ {MaxTurnsPerStep, MaxSteps, MaxPlanSteps} \subseteq Nat \ {0}
  /\ CorrectiveRetries \in Nat
  /\ OnExhausted \in {"approval", "halt"}
  /\ Strict \in BOOLEAN
  /\ MaxCalls \in Nat /\ MaxRevisions \in Nat /\ MaxSummaries \in Nat /\ MaxCrashes \in Nat
  /\ SummaryThread \notin Step

VARIABLES
  submission,  \* what was submitted: never changes
  config,      \* the process's [policy, provider, changed, turns, stored]: whether a restart changed
               \* the policy, and the turns of a step it runs on beside the rows that tune them
  row,         \* the trajectories row: [status, cause, tokens, leased]
  plans,       \* the valid rows of plans, the oldest first: [attempt, plan, verdict]
  chains,      \* execution_intents: the revisions of each step
  committed,   \* the steps that committed
  request,     \* the pending approval request: [kind, steps, ask]
  threads,     \* the assistant turns of each step's thread, and those of summaries
  ledger,      \* the debits
  announced,   \* the last turn.started, and what LoadCoach has under its key
  deviations,  \* how many deviation rows name each step's intent
  violated,    \* which kind of turn was recorded as a violation, if any
  worker,      \* where the one worker is: [pc, step, as, envelope, summaries]
  crashes      \* how many crashes are left

vars == <<submission, config, row, plans, chains, committed, request, threads, ledger,
          announced, deviations, violated, worker, crashes>>

Declaration ==
  [class |-> submission.class, tools |-> submission.tools, tier |-> submission.tier,
   tokens |-> row.tokens, money |-> submission.money,
   turns |-> IF submission.maxSteps # NoAmount THEN submission.maxSteps ELSE MaxSteps]
Ceilings == <<[scope |-> "trajectory", tokens |-> row.tokens, money |-> submission.money]>>

NoAsk == [category |-> "none", tools |-> {}, next |-> NoTier, tokens |-> 0, slice |-> 0,
          turns |-> 0, class |-> 0]
NoRequest == [kind |-> "none", steps |-> {}, ask |-> NoAsk]
NoVerdict == [outcome |-> "none", steps |-> <<>>]
NoPlan == [attempt |-> 0, plan |-> [order |-> <<>>, steps |-> <<>>, after |-> <<>>],
           verdict |-> NoVerdict]
BypassPlan == [order |-> <<BypassStep>>, steps |-> <<>>, after |-> [s \in {BypassStep} |-> {}]]
NoAnswer == [finish |-> "none", tools |-> {}, egress |-> 0, verified |-> TRUE, failure |-> NoFailure,
             tokens |-> 0]
NoCall == [id |-> 0, step |-> BypassStep, kind |-> "step", tier |-> NoTier, revision |-> 0,
           job |-> "none", answer |-> NoAnswer]
NoEnvelope == [tier |-> NoTier, tools |-> {}]
At(pc) == [pc |-> pc, step |-> BypassStep, as |-> "step", envelope |-> NoEnvelope, summaries |-> 0]
Idle == At("idle")

Ended == {"completed", "halted", "failed", "rejected"}
\* recorded_plan: the valid plan of the highest attempt, of equals the one
\* SQLite finds first; drafting again after a crash counts attempts from one.
Recorded ==
  IF plans = <<>> THEN NoPlan
  ELSE plans[CHOOSE k \in DOMAIN plans :
               \A j \in DOMAIN plans :
                 \/ plans[j].attempt < plans[k].attempt
                 \/ plans[j].attempt = plans[k].attempt /\ k <= j]
ThePlan == IF submission.bypass THEN BypassPlan ELSE Recorded.plan
Steps == StepIds(ThePlan)
Verdicts == Recorded.verdict.steps

IntentOf(s) == Live(chains[s])
Held(s) == s \in Chained /\ chains[s] # <<>>
Rows == UNION {{threads[s][k] : k \in DOMAIN threads[s]} : s \in Threads}
Committed == {r.id : r \in Rows}
Debited == {e.turn : e \in ledger}

Init ==
  /\ submission \in Submissions
  /\ \E policy \in Policies, provider \in BOOLEAN :
       config = [policy |-> policy, provider |-> provider, changed |-> FALSE,
                 turns |-> MaxTurnsPerStep, stored |-> <<>>]
  /\ row = [status |-> "queued", cause |-> "none", tokens |-> submission.tokens, leased |-> FALSE]
  /\ plans = <<>>
  /\ chains = [s \in Chained |-> <<>>]
  /\ committed = {}
  /\ request = NoRequest
  /\ threads = [s \in Threads |-> <<>>]
  /\ ledger = {}
  /\ announced = NoCall
  /\ deviations = [s \in Chained |-> 0]
  /\ violated = "no"
  /\ worker = Idle
  /\ crashes = MaxCrashes

Fixed == UNCHANGED <<submission, config, crashes>>

(* ------------------- writes every handler is made of -------------------- *)

End(status, cause) ==
  /\ row' = [row EXCEPT !.status = status, !.cause = cause, !.leased = FALSE]
  /\ worker' = Idle
  /\ UNCHANGED request

\* ApprovalService.request and the park of the row are one write.
Park(kind, steps, ask) ==
  /\ row' = [row EXCEPT !.status = "awaiting_approval", !.cause = kind, !.leased = FALSE]
  /\ request' = [kind |-> kind, steps |-> steps, ask |-> ask]
  /\ worker' = Idle

Goes(pc) ==
  /\ worker' = [worker EXCEPT !.pc = pc]
  /\ UNCHANGED <<row, request>>

Superseded(s, changes, by) ==
  [chains EXCEPT ![s] = Append(@, Supersede(Live(@), changes, by, config.policy))]

\* First revisions of these steps, of a plan under its verdict.
Minted(steps, plan, verdicts, by) ==
  [s \in Chained |->
     IF s \in steps THEN <<MintForStep(plan.steps[s], verdicts[s], config.turns, by, config.policy)>>
     ELSE chains[s]]

(* --------------------------- claim and plan ----------------------------- *)

\* Mutant: the default intent's gate is not looked at.
ClaimUngated ==
  /\ worker.pc = "idle" /\ row.status = "queued"
  /\ chains' = IF submission.bypass
               THEN [chains EXCEPT ![BypassStep] =
                       <<MintBypass(Declaration, row.tokens, submission.money, config.policy)>>]
               ELSE chains
  /\ row' = [row EXCEPT !.status = IF submission.bypass THEN "executing" ELSE "planning", !.leased = TRUE]
  /\ worker' = At(IF submission.bypass THEN "load" ELSE "plan")
  /\ UNCHANGED <<request, plans, committed, threads, ledger, announced, deviations, violated>>
  /\ Fixed

\* claim: T2 for a planned trajectory; T3 for a bypassed one, which mints the
\* default intent and goes on into T10 in the same write when its gate fires.
Claim ==
  /\ worker.pc = "idle" /\ row.status = "queued"
  /\ IF ~submission.bypass
     THEN /\ row' = [row EXCEPT !.status = "planning", !.leased = TRUE]
          /\ worker' = At("plan")
          /\ UNCHANGED <<request, chains>>
     ELSE LET intent == MintBypass(Declaration, row.tokens, submission.money, config.policy)
          IN /\ chains' = [chains EXCEPT ![BypassStep] = <<intent>>]
             /\ IF RequiresHuman(intent.gate, config.policy.mode)
                THEN Park("bypass_gate", {BypassStep}, NoAsk)
                ELSE /\ row' = [row EXCEPT !.status = "executing", !.leased = TRUE]
                     /\ worker' = At("load")
                     /\ UNCHANGED request
  /\ UNCHANGED <<plans, committed, threads, ledger, announced, deviations, violated>> /\ Fixed

\* draft and _record_attempt: up to the corrective retries the planner is
\* asked again; what it answers is validated, and the first valid plan is a row
\* before anything is decided.  None, or LoadCoach failing, and the trajectory
\* fails.
Draft ==
  /\ worker.pc = "plan"
  /\ LET limit == IF submission.maxSteps # NoAmount THEN submission.maxSteps ELSE MaxPlanSteps
         valid == {d \in Documents : Issues(d, submission, limit) = {}}
     IN \/ \E document \in valid, attempt \in 1 .. CorrectiveRetries + 1 :
             /\ plans' = Append(plans, [attempt |-> attempt, plan |-> PlanOf(document),
                                       verdict |-> NoVerdict])
             /\ Goes("decide")
        \/ End("failed", "planning") /\ UNCHANGED plans
  /\ UNCHANGED <<chains, committed, threads, ledger, announced, deviations, violated>> /\ Fixed

\* decide_plan, on the plan just drafted: rejected; held as a whole (manual) or
\* for its first gated step when nothing else can be minted; or the steps no
\* gate holds are minted and the rest wait for their turn.
Decide ==
  /\ worker.pc = "decide"
  /\ LET plan == Live(plans).plan
         estimates == [s \in StepIds(plan) |-> Estimate(plan.steps[s].tier, ledger)]
         says == PlanVerdict(plan.steps, estimates, config.policy, config.provider,
                             Position(Ceilings, ledger, Strict))
         mintable == {s \in DOMAIN plan.steps : ~says.steps[s].human}
         first == ReadySteps(plan, {})[1]
     IN /\ plans' = [plans EXCEPT ![Len(plans)].verdict = says]
        /\ \/ /\ says.outcome = "rejected"
              /\ End("rejected", "plan") /\ UNCHANGED chains
           \/ /\ says.outcome # "rejected" /\ config.policy.mode = "manual"
              /\ Park("plan", StepIds(plan), NoAsk) /\ UNCHANGED chains
           \/ /\ says.outcome # "rejected" /\ config.policy.mode # "manual" /\ mintable = {}
              /\ Park("gated_step", {first}, NoAsk) /\ UNCHANGED chains
           \/ /\ says.outcome # "rejected" /\ config.policy.mode # "manual" /\ mintable # {}
              /\ chains' = Minted(mintable, plan, says.steps, "policy")
              /\ row' = [row EXCEPT !.status = "executing"]
              /\ worker' = At("load")
              /\ UNCHANGED request
  /\ UNCHANGED <<committed, threads, ledger, announced, deviations, violated>> /\ Fixed

(* ------------------------- load and dispatch ---------------------------- *)

\* claim_released: an executing row nobody holds is simply taken.
TakeReleased ==
  /\ worker.pc = "idle" /\ row.status = "executing" /\ ~row.leased
  /\ row' = [row EXCEPT !.leased = TRUE]
  /\ worker' = At("load")
  /\ UNCHANGED <<plans, chains, committed, request, threads, ledger, announced, deviations,
                 violated>> /\ Fixed

AllRebuild ==
  \A s \in Chained :
    Rebuilds(s, chains[s], Declaration, Recorded.plan.steps, Verdicts, config.policy)

\* _load: an envelope that cannot be minted again from the record is not run.
Load ==
  /\ worker.pc = "load"
  /\ IF AllRebuild THEN Goes("dispatch") ELSE End("failed", "rebuild")
  /\ UNCHANGED <<plans, chains, committed, threads, ledger, announced, deviations, violated>>
  /\ Fixed

\* _execute_plan and _execute_bypass: the first ready step that has an
\* envelope; none, and the first ready one is held for a person.  The commit
\* of the last step completes the trajectory, so some step is always ready.
Dispatch ==
  /\ worker.pc = "dispatch"
  /\ LET ready == ReadySteps(ThePlan, committed)
     IN \/ \E k \in DOMAIN ready :
             /\ Held(ready[k]) /\ \A j \in 1 .. k - 1 : ~Held(ready[j])
             /\ worker' = [At("step") EXCEPT !.step = ready[k]]
             /\ UNCHANGED <<row, request>>
        \/ /\ \A k \in DOMAIN ready : ~Held(ready[k])
           /\ Park("gated_step", {ready[1]}, NoAsk)
  /\ UNCHANGED <<plans, chains, committed, threads, ledger, announced, deviations, violated>>
  /\ Fixed

(* --------------------------- before a call ------------------------------ *)

Pending(s) == threads[s] # <<>> /\ Live(threads[s]).finish = "tool_calls"
Asked(s) == Len(SelectSeq(threads[s], LAMBDA r : r.finish # "tools_ran"))
Spent(s) == Amounts({threads[s][k] : k \in DOMAIN threads[s]}, "tokens")

\* _run_tool_calls: the last turn's calls are executed before the next turn is
\* asked for; what each does and how it fails is PlanExecution's.
RunTools ==
  /\ worker.pc = "step" /\ Pending(worker.step)
  /\ threads' = [threads EXCEPT ![worker.step] =
       Append(@, [Live(@) EXCEPT !.finish = "tools_ran", !.tokens = 0])]
  /\ UNCHANGED <<row, request, worker, plans, chains, committed, ledger, announced, deviations,
                 violated>> /\ Fixed

\* _egress_preflight, the pricing check, ensure_available and _preflight, each
\* before the next; what the declaration calls the data decides the egress.
Refusal(s) ==
  LET intent == IntentOf(s)
      tier == intent.tier
      binding == Binding(Ceilings, ledger, Estimate(tier, ledger), Strict)
  IN IF Asked(s) >= intent.turns THEN "turns"
     ELSE IF ~Approves(submission.class, TierTarget(tier)) THEN "egress"
     ELSE IF tier \in Remote \ Claiming THEN "unpriced"
     ELSE IF ~Available(tier, config.provider) THEN "unavailable"
     ELSE binding

Preflight ==
  /\ worker.pc = "step" /\ ~Pending(worker.step)
  /\ LET refusal == Refusal(worker.step)
     IN CASE refusal = Admitted -> Goes("compose")
          [] refusal = "unavailable" -> Goes("escalate")
          [] refusal \in {"turns", "egress", "unpriced"} -> End("halted", refusal)
          [] OTHER -> IF OnExhausted = "approval"
                      THEN Park("ceiling_raise", {worker.step}, NoAsk)
                      ELSE End("halted", "budget")
  /\ UNCHANGED <<plans, chains, committed, threads, ledger, announced, deviations, violated>>
  /\ Fixed

(* ----------------------------- compaction ------------------------------- *)

\* _compact: the transcript fits, or it is masked and dropped without a summary.
ComposeAsIs ==
  /\ worker.pc = "compose"
  /\ Goes("announce")
  /\ UNCHANGED <<plans, chains, committed, threads, ledger, announced, deviations, violated>>
  /\ Fixed

\* The chain of policies cannot reach the budget, or no local tier admits the
\* data, so that a summary would be egress.
CannotCompact ==
  /\ worker.pc = "compose" /\ threads[worker.step] # <<>>
  /\ End("halted", "compaction")
  /\ UNCHANGED <<plans, chains, committed, threads, ledger, announced, deviations, violated>>
  /\ Fixed

\* _summarize begins: the policy supersedes the step's envelope by one that
\* permits the summarizing tier and no tool, and remembers what to restore.
Narrow ==
  LET s == worker.step
      tier == SummarizingTier(IntentOf(s).class)
  IN /\ worker.pc = "compose" /\ threads[s] # <<>> /\ tier # NoTier /\ MaxSummaries > 0
     /\ chains' = Superseded(s, [tier |-> tier, tools |-> {}], "policy")
     /\ worker' = [worker EXCEPT !.pc = "announce", !.as = "summary", !.summaries = 0,
                     !.envelope = [tier |-> IntentOf(s).tier, tools |-> IntentOf(s).tools]]
     /\ UNCHANGED <<row, request, plans, committed, threads, ledger, announced, deviations,
                    violated>> /\ Fixed

\* Mutants: the summary's tool allowlist stays; the declaration's is taken.
RestoreTierOnly ==
  /\ worker.pc \in {"restore", "undo", "lost"}
  /\ chains' = Superseded(worker.step, [tier |-> worker.envelope.tier], "policy")
  /\ worker' = [worker EXCEPT !.as = "step",
                  !.pc = [restore |-> "announce", undo |-> "give_up", lost |-> "dead"][@]]
  /\ UNCHANGED <<row, request, plans, committed, threads, ledger, announced, deviations,
                 violated>> /\ Fixed
RestoreDeclared ==
  /\ worker.pc \in {"restore", "undo", "lost"}
  /\ chains' = Superseded(worker.step, [worker.envelope EXCEPT !.tools = submission.tools], "policy")
  /\ worker' = [worker EXCEPT !.as = "step",
                  !.pc = [restore |-> "announce", undo |-> "give_up", lost |-> "dead"][@]]
  /\ UNCHANGED <<row, request, plans, committed, threads, ledger, announced, deviations,
                 violated>> /\ Fixed

\* The finally of _summarize: the envelope is restored whatever happened, and
\* only then does a failed compaction halt the trajectory, or an exception
\* nobody catches end the thread.
AfterRestore == [restore |-> "announce", undo |-> "give_up", lost |-> "dead"]
Restore ==
  /\ worker.pc \in DOMAIN AfterRestore
  /\ chains' = Superseded(worker.step, worker.envelope, "policy")
  /\ worker' = [worker EXCEPT !.pc = AfterRestore[@], !.as = "step"]
  /\ UNCHANGED <<row, request, plans, committed, threads, ledger, announced, deviations,
                 violated>> /\ Fixed

GiveUp ==
  /\ worker.pc = "give_up"
  /\ End("halted", "compaction")
  /\ UNCHANGED <<plans, chains, committed, threads, ledger, announced, deviations, violated>>
  /\ Fixed

(* ------------------------------- the call ------------------------------- *)

\* turn.started, before the request: a step's turn and a summary's alike name
\* the step's intent.
Announce ==
  /\ worker.pc = "announce" /\ announced.id < MaxCalls
  /\ announced' = [NoCall EXCEPT !.id = announced.id + 1, !.step = worker.step,
                     !.kind = worker.as, !.tier = IntentOf(worker.step).tier,
                     !.revision = Len(chains[worker.step])]
  /\ Goes("post")
  /\ UNCHANGED <<plans, chains, committed, threads, ledger, deviations, violated>> /\ Fixed

\* LoadCoach takes the request: a job exists under the turn's key.
Post ==
  /\ worker.pc = "post"
  /\ announced' = [announced EXCEPT !.job = "running"]
  /\ Goes("wait")
  /\ UNCHANGED <<plans, chains, committed, threads, ledger, deviations, violated>> /\ Fixed

\* What a failed call comes to.  An escalated turn leaves its announced id
\* without a row and without a job; a turn to be repeated is at its last attempt
\* (PlanExecution has the others); a summary fails the compaction, or escapes.
Fails(failure) ==
  LET reaction == IF worker.as = "step" THEN Reaction(failure) ELSE SummaryReaction(failure)
  IN CASE reaction = "fail"               -> End("failed", "loadcoach")
       [] reaction \in {"repeat", "halt"} -> End("halted", "loadcoach")
       [] reaction = "violation"          -> Goes("violated")
       [] reaction \in {"escalate", "undo"} -> Goes(reaction)
       [] reaction = "escapes"            -> Goes("lost")

\* The request is refused, or cut off before or while its job runs; a step's job
\* is cancelled then, if LoadCoach can be reached.
CallFails ==
  /\ worker.pc = "post" \/ (worker.pc = "wait" /\ announced.job = "running")
  /\ \E exchange \in Exchanges :
       LET failure == Called(exchange, 200)
       IN /\ worker.pc = "wait" => exchange.ended # "answered"
          /\ Fails(failure)
          /\ \/ UNCHANGED announced
             \/ /\ worker.as = "step" /\ announced.job = "running" /\ Abandons(failure)
                /\ announced' = [announced EXCEPT !.job = "failed"]
  /\ UNCHANGED <<plans, chains, committed, threads, ledger, deviations, violated>> /\ Fixed

\* The run begins with the provider surface, and without it ends.
SurfaceFails ==
  /\ worker.pc = "load" /\ AllRebuild
  /\ \E exchange \in Exchanges :
       LET failure == Called(exchange, 200)
       IN /\ exchange.code \notin DOMAIN LoadCoachCodeMap
          /\ End(IF failure.kind = "LOADCOACH_UNAVAILABLE" THEN "failed" ELSE "halted", "loadcoach")
  /\ UNCHANGED <<plans, chains, committed, threads, ledger, announced, deviations, violated>>
  /\ Fixed

\* LoadCoach ends the job, whether or not anyone is waiting for it.
JobEnds ==
  /\ announced.job = "running"
  /\ \/ \E answer \in Answers :
          announced' = [announced EXCEPT !.job = "completed", !.answer = answer]
     \/ announced' = [announced EXCEPT !.job = "failed"]
  /\ UNCHANGED <<row, request, worker, plans, chains, committed, threads, ledger, deviations,
                 violated>> /\ Fixed

\* The answer's document is refused: the turn is neither debited nor recorded.
\* One that names no subject is a violation, a finished job that cannot be read
\* an error like any other.
Unread ==
  /\ worker.pc = "wait" /\ announced.job = "completed" /\ announced.answer.failure # NoFailure
  /\ Fails(announced.answer.failure)
  /\ violated' = IF worker.pc' = "violated" THEN "step" ELSE violated
  /\ UNCHANGED <<plans, chains, committed, threads, ledger, announced, deviations>> /\ Fixed

\* The response says the job did not complete.
Unfinished ==
  /\ worker.pc = "wait" /\ announced.job = "failed"
  /\ IF worker.as = "step" THEN End("halted", "job") ELSE Goes("undo")
  /\ UNCHANGED <<plans, chains, committed, threads, ledger, announced, deviations, violated>>
  /\ Fixed

(* ------------------------------ the answer ------------------------------ *)

\* Mutant: the debit is not idempotent.
DebitAgain ==
  /\ worker.pc = "wait" /\ announced.job = "completed" /\ announced.answer.failure = NoFailure
  /\ ledger' = ledger \cup {Charge(ledger, announced.id, IntentOf(worker.step).tier,
                                   announced.answer.tokens, TRUE)}
  /\ Goes("record")
  /\ UNCHANGED <<plans, chains, committed, threads, announced, deviations, violated>> /\ Fixed

\* _debit_turn, a write of its own and the first one: a turn the ledger has is
\* not charged again.
Debit ==
  /\ worker.pc = "wait" /\ announced.job = "completed" /\ announced.answer.failure = NoFailure
  /\ ledger' = IF announced.id \in Debited THEN ledger
               ELSE ledger \cup {Charge(ledger, announced.id, IntentOf(worker.step).tier,
                                        announced.answer.tokens, TRUE)}
  /\ Goes("record")
  /\ UNCHANGED <<plans, chains, committed, threads, announced, deviations, violated>> /\ Fixed

NewRow == [id |-> announced.id, kind |-> announced.kind, tier |-> IntentOf(worker.step).tier,
           tokens |-> announced.answer.tokens, finish |-> announced.answer.finish]

\* Mutant: the violation is recorded and the loop goes on.
UnverifiedGoesOn ==
  /\ worker.pc = "record" /\ worker.as = "step" /\ ~announced.answer.verified
  /\ violated' = "step"
  /\ Goes("step")
  /\ UNCHANGED <<plans, chains, committed, threads, ledger, announced, deviations>> /\ Fixed

\* _subject_violation: the provider that answered cannot be verified.  The
\* denied egress is one write and the halt the next.
Unverified ==
  /\ worker.pc = "record" /\ worker.as = "step" /\ ~announced.answer.verified
  /\ violated' = "step"
  /\ Goes("violated")
  /\ UNCHANGED <<plans, chains, committed, threads, ledger, announced, deviations>> /\ Fixed

HaltViolation ==
  /\ worker.pc = "violated"
  /\ End("halted", "violation")
  /\ UNCHANGED <<plans, chains, committed, threads, ledger, announced, deviations, violated>>
  /\ Fixed

DeviationLimit == 3
Trips(s) == Len(SelectSeq(threads[s], LAMBDA r : r.finish = "tool_calls"))

Facts(s, answer) ==
  [tier |-> IntentOf(s).tier, egress |-> answer.egress, class |-> IntentOf(s).class,
   used |-> Asked(s) + 1, tokens |-> Spent(s) + answer.tokens, tools |-> answer.tools,
   failed |-> FALSE, finished |-> answer.finish = "stop"]

AskFor(category, s, facts) ==
  LET intent == IntentOf(s)
  IN [category |-> category,
      tools    |-> IF category = "undeclared_tool"
                   THEN (facts.tools \ intent.tools) \cap submission.tools ELSE {},
      next     |-> NextEscalation(intent.tier, intent.class),
      tokens   |-> IF category = "budget_overrun" THEN facts.tokens ELSE 0,
      slice    |-> IF category = "budget_overrun" THEN intent.tokens ELSE 0,
      turns    |-> IF category = "turn_overrun" THEN intent.turns ELSE 0,
      class    |-> facts.class]

\* _record_turn, one write: the turn's row and its deviations, and then the
\* first that applies of a violation, too many deviations, an ask, the finish
\* that commits the step, tool calls to run, and an answer that ends nothing.
Record ==
  LET s == worker.step
      answer == announced.answer
      facts == Facts(s, answer)
      found == Deviates(facts, IntentOf(s), submission.tools)
      asking == Asking(found, config.policy.scope)
      count == deviations[s] + Cardinality(found)
      commits == /\ ~Halting(found) /\ count <= DeviationLimit /\ asking = {}
                 /\ answer.finish = "stop"
  IN /\ worker.pc = "record" /\ worker.as = "step" /\ answer.verified
     /\ threads' = [threads EXCEPT ![s] = Append(@, NewRow)]
     /\ deviations' = [deviations EXCEPT ![s] = count]
     /\ violated' = IF "tier_violation" \in found THEN "step" ELSE violated
     /\ committed' = IF commits THEN committed \cup {s} ELSE committed
     /\ CASE Halting(found) -> End("halted", "violation")
          [] ~Halting(found) /\ count > DeviationLimit -> End("halted", "deviations")
          [] ~Halting(found) /\ count <= DeviationLimit /\ asking # {} ->
               Park("reapproval", {s}, AskFor(FirstAsked(found, config.policy.scope), s, facts))
          [] commits -> IF committed' = Steps THEN End("completed", "steps") ELSE Goes("dispatch")
          [] OTHER -> IF answer.finish = "tool_calls" /\ Trips(s) + 1 <= config.turns
                      THEN Goes("step") ELSE End("halted", "finish")
     /\ UNCHANGED <<plans, chains, ledger, announced>> /\ Fixed

\* _summary_turn: the summary's row, in a thread of its own.
RecordSummary ==
  /\ worker.pc = "record" /\ worker.as = "summary"
  /\ threads' = [threads EXCEPT ![SummaryThread] = Append(@, NewRow)]
  /\ Goes("verify")
  /\ UNCHANGED <<plans, chains, committed, ledger, announced, deviations, violated>> /\ Fixed

\* _verify_summary_subject, a write of its own when it finds something: the
\* compaction fails, and with it the trajectory, once the envelope is restored.
VerifySummary ==
  LET intent == IntentOf(worker.step)
      facts == [tier |-> intent.tier, egress |-> announced.answer.egress, class |-> intent.class,
                used |-> 1, tokens |-> 0, tools |-> {}, failed |-> FALSE, finished |-> FALSE]
      found == IF announced.answer.verified THEN Deviates(facts, intent, submission.tools) ELSE {}
      more == worker.summaries + 1 < MaxSummaries
  IN /\ worker.pc = "verify"
     /\ deviations' = [deviations EXCEPT ![worker.step] = @ + Cardinality(found)]
     /\ violated' = IF "tier_violation" \in found THEN "summary" ELSE violated
     /\ \/ /\ ~announced.answer.verified \/ found # {}
           /\ Goes("undo")
        \/ /\ announced.answer.verified /\ found = {}
           /\ Goes("restore")
        \/ /\ announced.answer.verified /\ found = {} /\ more
           /\ worker' = [worker EXCEPT !.pc = "announce", !.summaries = @ + 1]
           /\ UNCHANGED <<row, request>>
     /\ UNCHANGED <<plans, chains, committed, threads, ledger, announced>> /\ Fixed

\* The surface a summary is verified against cannot be loaded: the error is not
\* one that _call, _run or the thread's main loop catches.
SurfaceLost ==
  /\ worker.pc = "verify"
  /\ Goes("lost")
  /\ UNCHANGED <<plans, chains, committed, threads, ledger, announced, deviations, violated>>
  /\ Fixed

\* _escalate: no permitted tier served the turn.  The next of the escalation
\* order is asked for, and without one the trajectory halts.
Escalate ==
  LET s == worker.step
      intent == IntentOf(s)
      facts == [tier |-> NoTier, egress |-> 0, class |-> intent.class, used |-> Asked(s) + 1,
                tokens |-> Spent(s), tools |-> {}, failed |-> TRUE, finished |-> FALSE]
      found == Deviates(facts, intent, submission.tools)
  IN /\ worker.pc = "escalate"
     /\ deviations' = [deviations EXCEPT ![s] = @ + Cardinality(found)]
     /\ IF NextEscalation(intent.tier, intent.class) # NoTier
        THEN Park("reapproval", {s}, AskFor("tier_escalation", s, facts))
        ELSE End("halted", "unavailable")
     /\ UNCHANGED <<plans, chains, committed, threads, ledger, announced, violated>> /\ Fixed

(* ---------------------------- a person answers -------------------------- *)

\* grant, of a request a worker or a claim made.  A plan or a gated step gets
\* its first revision from the recorded verdict, everything else supersedes the
\* live one, rebuilt from the record first; a raise is written to the row before.
Grant ==
  /\ row.status = "awaiting_approval" /\ worker.pc # "down"
  /\ \A s \in request.steps : Len(chains[s]) < MaxRevisions
  /\ \E tokens \in IF request.kind = "ceiling_raise" THEN Raises ELSE {row.tokens} :
       LET target == CHOOSE s \in request.steps : TRUE
           declared == [Declaration EXCEPT !.tokens = tokens]
           first == request.kind \in {"plan", "gated_step"}
           widening == CASE request.kind = "bypass_gate" -> <<>>
                         [] request.kind = "ceiling_raise" ->
                              IF target # BypassStep THEN <<>>
                              ELSE [tokens |-> tokens, money |-> declared.money]
                         [] OTHER -> Widening(request.ask, IntentOf(target))
       IN /\ first => \A s \in request.steps :
                        /\ s \in DOMAIN Recorded.plan.steps \cap DOMAIN Verdicts
                        /\ Mintable(Recorded.plan.steps[s], Verdicts[s], declared)
          /\ ~first => AllRebuild
          /\ request.kind = "reapproval" => Grantable(request.ask, declared)
          /\ chains' = IF first THEN Minted(request.steps, Recorded.plan, Verdicts, "approver")
                       ELSE Superseded(target, widening, "approver")
          /\ row' = [row EXCEPT !.status = "executing", !.cause = "none", !.tokens = tokens]
  /\ request' = NoRequest
  /\ UNCHANGED <<worker, plans, committed, threads, ledger, announced, deviations, violated>>
  /\ Fixed

\* Mutant: the request is left pending.
DenyUnresolved ==
  /\ row.status = "awaiting_approval" /\ worker.pc # "down"
  /\ row' = [row EXCEPT !.status = "halted", !.cause = "denied"]
  /\ UNCHANGED <<request, worker, plans, chains, committed, threads, ledger, announced,
                 deviations, violated>> /\ Fixed

\* deny, and expire: silence halts as a denial does.
Deny ==
  /\ row.status = "awaiting_approval" /\ worker.pc # "down"
  /\ row' = [row EXCEPT !.status = "halted", !.cause = "denied"]
  /\ request' = NoRequest
  /\ UNCHANGED <<worker, plans, chains, committed, threads, ledger, announced, deviations,
                 violated>> /\ Fixed

(* ---------------------------- live settings ----------------------------- *)

\* PUT /settings: all of it is stored, or nothing.
Put ==
  /\ worker.pc # "down"
  /\ \E changes \in Puts :
       /\ PutAnswer(changes) = "stored"
       /\ config' = [config EXCEPT !.stored = Written(@, changes)]
  /\ UNCHANGED <<submission, row, plans, chains, committed, request, threads, ledger, announced,
                 deviations, violated, worker, crashes>>

\* refresh_runtime_settings, of whichever worker thread reaps next: the object
\* every controller and the approvals read changes under a running turn.
Refresh ==
  /\ worker.pc # "down"
  /\ config' = [config EXCEPT !.turns =
       Effective("max_turns_per_step", config.stored, 100 * MaxTurnsPerStep) \div 100]
  /\ UNCHANGED <<submission, row, plans, chains, committed, request, threads, ledger, announced,
                 deviations, violated, worker, crashes>>

(* -------------------------- crash and recovery -------------------------- *)

Crash ==
  /\ worker.pc # "down" /\ crashes > 0 /\ row.status \notin Ended
  /\ worker' = At("down")
  /\ crashes' = crashes - 1
  /\ UNCHANGED <<submission, config, row, plans, chains, committed, request, threads, ledger,
                 announced, deviations, violated>>

\* The process starts again, perhaps under another configuration: startup
\* recovery redrafts what was planning and reconciles what was executing, and
\* runs it on what is configured: the stored rows are read after it.
Restart ==
  /\ worker.pc = "down"
  /\ \E policy \in Policies, provider \in BOOLEAN :
       config' = [config EXCEPT !.policy = policy, !.provider = provider, !.turns = MaxTurnsPerStep,
                    !.changed = @ \/ policy # config.policy]
  /\ worker' = At(CASE row.status = "planning" -> "plan"
                    [] row.status = "executing" -> "recover"
                    [] OTHER -> "idle")
  /\ UNCHANGED <<submission, row, plans, chains, committed, request, threads, ledger, announced,
                 deviations, violated, crashes>>

\* _dangling_turn: the last announced turn has no row.  The deviation of an
\* escalation names another id, so an escalated turn is dangling too.
Dangling == announced.id # 0 /\ announced.id \notin Committed

Owed == {Charge(ledger, r.id, r.tier, r.tokens, TRUE) :
           r \in {r \in Rows : r.finish # "tools_ran" /\ r.id \notin Debited}}
Takes(pc) ==
  /\ row' = [row EXCEPT !.leased = TRUE]
  /\ worker' = [At(pc) EXCEPT !.step = announced.step]
  /\ UNCHANGED request

\* reconcile: debits first; then nothing in flight, a job to cancel, a job that
\* failed or was cancelled, a job nobody knows, or an answer to record under
\* the live envelope of the step whose intent the turn named.
Recover ==
  /\ worker.pc = "recover"
  /\ ledger' = ledger \cup Owed
  /\ announced' = IF Dangling /\ announced.job = "running"
                  THEN [announced EXCEPT !.job = "failed"] ELSE announced
  /\ CASE ~Dangling -> Takes("load")
       [] Dangling /\ announced.job \in {"running", "failed"} -> Takes("load")
       [] Dangling /\ announced.job = "none" -> End("halted", "recovered")
       [] Dangling /\ announced.job = "completed" ->
            IF /\ AllRebuild /\ announced.revision = Len(chains[announced.step])
               /\ announced.answer.failure = NoFailure
               /\ Available(IntentOf(announced.step).tier, config.provider)
            THEN Takes("wait") ELSE End("halted", "recovered")
  /\ UNCHANGED <<plans, chains, committed, threads, deviations, violated>> /\ Fixed

Next ==
  \/ Claim \/ Draft \/ Decide \/ TakeReleased \/ Load \/ Dispatch
  \/ RunTools \/ Preflight
  \/ ComposeAsIs \/ CannotCompact \/ Narrow \/ Restore \/ GiveUp
  \/ Announce \/ Post \/ CallFails \/ SurfaceFails \/ JobEnds \/ Unread \/ Unfinished
  \/ Debit \/ Unverified \/ HaltViolation \/ Record \/ RecordSummary \/ VerifySummary
  \/ SurfaceLost \/ Escalate
  \/ Grant \/ Deny \/ Put \/ Refresh
  \/ Crash \/ Restart \/ Recover

Spec == Init /\ [][Next]_vars

(* ------------------------------ properties ------------------------------ *)

Kinds == {"none", "plan", "gated_step", "bypass_gate", "ceiling_raise", "reapproval"}
Pcs == {"down", "idle", "plan", "decide", "load", "dispatch", "step", "compose", "announce", "post", "wait",
        "record", "verify", "restore", "undo", "lost", "dead", "give_up", "violated", "escalate", "recover"}

\* The record and the worker have the shapes the code gives them, a request is
\* pending exactly while the trajectory awaits approval, and only a row that is
\* planning or executing is leased.
TypeOK ==
  /\ row.status \in {"queued", "planning", "executing", "awaiting_approval"} \cup Ended
  /\ row.tokens \in Nat /\ row.leased \in BOOLEAN
  /\ \A k \in DOMAIN plans :
       plans[k].verdict # NoVerdict => plans[k].verdict.steps \in [StepIds(plans[k].plan) -> VerdictType]
  /\ chains \in [Chained -> Seq(IntentType)]
  /\ committed \subseteq Steps
  /\ request.kind \in Kinds /\ request.steps \subseteq Chained /\ request.ask \in AskType
  /\ (row.status = "awaiting_approval") = (request.kind # "none")
  /\ row.leased => row.status \in {"planning", "executing"}
  /\ ledger \subseteq EntryType /\ Position(Ceilings, ledger, Strict) \subseteq HeadroomType
  /\ announced.id \in 0 .. MaxCalls
  /\ deviations \in [Chained -> Nat]
  /\ violated \in {"no", "step", "summary"}
  /\ worker.pc \in Pcs

Posts == announced.job = "none" /\ announced'.job = "running"
Approved(s) == \E k \in DOMAIN chains[s] : chains[s][k].by = "approver"
ApprovedOn(s, tier) ==
  \E k \in DOMAIN chains[s] : chains[s][k].by = "approver" /\ chains[s][k].tier = tier

\* No ungoverned turn (spec contract 1), at the instant LoadCoach takes the
\* request: it goes to the tier of the live envelope; a step's data may be
\* there; a remote tier is priced and offered by the deployment; and, unless a
\* restart changed the policy, what the policy holds for a person a person
\* approved, on that very tier where the gate is one of egress.  Crashes,
\* escalations, raises and compactions come between the approval and the call.
CallsAreCovered ==
  [][Posts =>
       LET intent == IntentOf(announced.step)
           tier == announced.tier
       IN /\ tier = intent.tier
          /\ announced.kind = "step" => Admits(tier, submission.class)
          /\ tier \in Remote => tier \in Claiming /\ config.provider
          /\ ~config.changed =>
               /\ config.policy.mode = "manual" => Approved(announced.step)
               /\ config.policy.mode = "hybrid" /\ intent.gate.egress =>
                     ApprovedOn(announced.step, tier)]_vars

\* A revision the policy minted by itself, which is what a compaction does,
\* changes no class, budget or number of turns, and its tier and tools are
\* either a local tier without tools or those of an earlier revision: only a
\* person widens an envelope, however a compaction was torn.
PolicyNeverWidens ==
  \A s \in Chained : \A k \in DOMAIN chains[s] \ {1} :
    LET new == chains[s][k]
        old == chains[s][k - 1]
    IN new.by = "policy" =>
         /\ new.class = old.class /\ new.turns = old.turns
         /\ new.tokens = old.tokens /\ new.money = old.money
         /\ \/ new.tools = {} /\ new.tier \notin Remote
            \/ \E j \in 1 .. k - 1 : new.tier = chains[s][j].tier /\ new.tools = chains[s][j].tools

\* The revision a person or the first minting gave the step.
Base(s) ==
  LET given == {k \in DOMAIN chains[s] : k = 1 \/ chains[s][k].by # "policy"}
  IN chains[s][CHOOSE k \in given : \A j \in given : j <= k]

\* As long as no worker died, a step's own turn runs under the tier and the
\* tools the step was given, never under the envelope of a summary.
StepRunsUnderItsEnvelope ==
  [][Posts /\ announced.kind = "step" /\ crashes = MaxCrashes =>
       /\ IntentOf(announced.step).tier = Base(announced.step).tier
       /\ IntentOf(announced.step).tools = Base(announced.step).tools]_vars

\* A trajectory whose envelopes do not rebuild from the record is failed; under
\* the policy they were minted by they always do, after any grants, raises,
\* compactions and crashes.  Two ways of the code to fail a trajectory that did
\* nothing wrong are named: after a redraft recorded_plan takes the valid plan
\* of the highest attempt, which need not be the last one drafted, and a step
\* that a plan named "loop" is rebuilt as a bypass.
RebuildRefusesOnlyChanged ==
  row.cause = "rebuild" =>
    config.changed \/ Len(plans) > 1 \/ BypassStep \in DOMAIN Recorded.plan.steps

\* Every recorded turn, a summary's too, was debited exactly once, no turn
\* twice, and nothing was debited but those and the turn in flight: a crash
\* between the debit and the row neither repeats the one nor loses the other.
LedgerMatchesTurns ==
  /\ \A r \in Rows : r.id \in Debited
  /\ \A d, e \in ledger : d.turn = e.turn => d = e
  /\ Debited \subseteq Committed \cup {announced.id}

\* After a step's turn was found to violate its envelope no call is made, a
\* crash between the record of it and the halt included.  A summary's violation
\* halts too, unless a worker dies before it could.
ViolationHalts ==
  [][Posts => violated # "step" /\ (crashes = MaxCrashes => violated = "no")]_vars

\* docs lifecycle.md:419: "The separation is structural rather than a filter -
\* the summary is recorded in its own thread", so a step's thread holds answers
\* to the step's own turns only.
SummaryNeverAnswers ==
  \A s \in Chained : \A k \in DOMAIN threads[s] : threads[s][k].kind = "step"
=============================================================================
