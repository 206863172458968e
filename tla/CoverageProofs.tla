--------------------------- MODULE CoverageProofs ----------------------------
(***************************************************************************)
(* No ungoverned turn: every call LoadCoach is asked for is covered by the *)
(* envelope of its step, by the checks made before it, and by a person     *)
(* where the policy wants one (CallsAreCovered), for every configuration,  *)
(* plan and answer and any number of crashes.  Then two properties of the  *)
(* envelope itself: a summary lends its own and gives the step's back      *)
(* (StepRunsUnderItsEnvelope), and what was minted is minted again from    *)
(* the record when a worker loads it (RebuildRefusesOnlyChanged).  And the *)
(* types: whatever is submitted, answered, planned and stored, the record, *)
(* the books and the envelopes hold what they are read as (TypeOK).        *)
(***************************************************************************)
EXTENDS GovernanceProofs

(* ------------------------ the inductive invariant ----------------------- *)

ConfigRecord ==
  /\ {"policy", "provider", "changed", "turns", "stored"} \subseteq DOMAIN config
  /\ submission \in Submissions

(* What was announced is what the worker is about to post. *)
InFlight ==
  worker.pc = "post" =>
    /\ announced.step = worker.step /\ announced.kind = worker.as
    /\ announced.tier = IntentOf(worker.step).tier

(* What passed the pre-flight holds until the post; around a summary it holds
   of the envelope that will be restored, and the summary's own is local. *)
Allowed(tier) ==
  Admits(tier, submission.class) /\ (tier \in Remote => tier \in Claiming /\ config.provider)
Checked ==
  /\ worker.pc \in {"compose", "announce", "post"} /\ worker.as = "step" =>
       Allowed(IntentOf(worker.step).tier)
  /\ worker.as = "summary" =>
       /\ IntentOf(worker.step).tier \notin Remote
       /\ Allowed(worker.envelope.tier)

(* The egress gate of an envelope, from its tier and its class. *)
Fires(tier, class) ==
  LET leaving == Leaving(MostPermissive(<<tier>>, class), class)
  IN leaving # NotLeaving /\ leaving >= config.policy.gateEgressAt

(* The default envelope of a bypassed trajectory is minted before anyone was
   asked, and waits with its trajectory. *)
Waiting(s) ==
  /\ s = BypassStep /\ Len(chains[s]) = 1
  /\ \/ row.status \in Ended
     \/ /\ row.status = "awaiting_approval"
        /\ request.kind = "bypass_gate" /\ request.steps = {BypassStep}

(* Under the policy it was minted by, a revision's gate says what its tier and
   class say; and a tier the gate fires on was approved in some revision. *)
Told(c) == \A k \in DOMAIN c : c[k].gate.egress = Fires(c[k].tier, c[k].class)
Answered(c) ==
  /\ config.policy.mode = "manual" /\ c # <<>> => \E k \in DOMAIN c : c[k].by = "approver"
  /\ config.policy.mode = "hybrid" =>
       \A k \in DOMAIN c : Fires(c[k].tier, c[k].class) =>
         \E j \in DOMAIN c : c[j].by = "approver" /\ c[j].tier = c[k].tier
Approvals ==
  ~config.changed =>
    \A s \in Chained : Told(chains[s]) /\ (~Waiting(s) => Answered(chains[s]))

Covered == ConfigRecord /\ InFlight /\ Checked /\ Approvals

(* --------------------------- what is in flight --------------------------- *)

LEMMA ConfigRecordKept ==
  ASSUME ConfigRecord, [Next]_vars
  PROVE  /\ ConfigRecord' /\ submission' = submission
         /\ \/ config' = config \/ Put \/ Refresh
            \/ Restart
         /\ ~Restart => config'.policy = config.policy /\ config'.changed = config.changed
                        /\ config'.provider = config.provider
<1>1. CASE Put
  BY <1>1 DEF Put, ConfigRecord
<1>2. CASE Refresh
  BY <1>2 DEF Refresh, ConfigRecord
<1>3. CASE Restart
  BY <1>3 DEF Restart, ConfigRecord
<1>4. CASE UNCHANGED <<submission, config>>
  BY <1>4 DEF ConfigRecord
<1>. QED
  BY <1>1, <1>2, <1>3, <1>4
     DEF Next, vars, Fixed, Claim, Draft, Decide, TakeReleased, Load, Dispatch, RunTools, Preflight,
         ComposeAsIs, CannotCompact, Narrow, Restore, GiveUp, Announce, Post, CallFails, SurfaceFails,
         JobEnds, Unread, Unfinished, Debit, Unverified, HaltViolation, Record, RecordSummary,
         VerifySummary, SurfaceLost, Escalate, Grant, Deny, Crash, Recover

LEMMA InFlightKept ==
  ASSUME Shaped, Placed, InFlight, [Next]_vars
  PROVE  InFlight'
<1>. DEFINE Still == /\ worker' = worker /\ chains' = chains
                     /\ announced'.step = announced.step /\ announced'.kind = announced.kind
                     /\ announced'.tier = announced.tier
<1>0. worker'.pc # "post" \/ Still => InFlight'
  BY DEF InFlight, IntentOf
<1>. Records
  BY DEF Shaped
<1>. HIDE DEF Still
<1>. USE Ending, Parking, Going DEF Records, WorkerRecord, RowRecord, CallRecord, Ended, Pcs
<1>1. CASE Claim
  <2>1. worker' = At("plan") \/ worker' = At("load") \/ \E steps : Park("bypass_gate", steps, NoAsk)
    BY <1>1, Zenon DEF Claim
  <2>. QED  BY <1>0, <2>1 DEF At
<1>2. CASE Draft  BY <1>2, <1>0 DEF Draft
<1>3. CASE Decide
  <2>1. End("rejected", "plan") \/ (\E kind, steps : Park(kind, steps, NoAsk)) \/ worker' = At("load")
    BY <1>3, Zenon DEF Decide
  <2>. QED  BY <1>0, <2>1 DEF At
<1>4. CASE TakeReleased  BY <1>4, <1>0 DEF TakeReleased, At
<1>5. CASE Load  BY <1>5, <1>0 DEF Load
<1>6. CASE Dispatch  BY <1>6, <1>0 DEF Dispatch, At
<1>7. CASE RunTools  BY <1>7, <1>0 DEF RunTools
<1>8. CASE Preflight  BY <1>8, <1>0 DEF Preflight
<1>9. CASE ComposeAsIs  BY <1>9, <1>0 DEF ComposeAsIs
<1>10. CASE CannotCompact  BY <1>10, <1>0 DEF CannotCompact
<1>11. CASE Narrow  BY <1>11, <1>0 DEF Narrow
<1>12. CASE Restore  BY <1>12, <1>0 DEF Restore, AfterRestore
<1>13. CASE GiveUp  BY <1>13, <1>0 DEF GiveUp
<1>14. CASE Announce
  <2>1. /\ worker'.step = worker.step /\ worker'.as = worker.as /\ chains' = chains
        /\ announced'.step = worker.step /\ announced'.kind = worker.as
        /\ announced'.tier = IntentOf(worker.step).tier
    BY <1>14 DEF Announce, NoCall
  <2>. QED  BY <2>1 DEF InFlight, IntentOf
<1>15. CASE Post  BY <1>15, <1>0 DEF Post
<1>16. CASE CallFails  BY <1>16, <1>0, Failing DEF CallFails
<1>17. CASE SurfaceFails  BY <1>17, <1>0 DEF SurfaceFails
<1>18. CASE JobEnds  BY <1>18, <1>0 DEF JobEnds, Still
<1>19. CASE Unread  BY <1>19, <1>0, Failing DEF Unread
<1>20. CASE Unfinished  BY <1>20, <1>0 DEF Unfinished
<1>21. CASE Debit  BY <1>21, <1>0 DEF Debit
<1>22. CASE Unverified  BY <1>22, <1>0 DEF Unverified
<1>23. CASE HaltViolation  BY <1>23, <1>0 DEF HaltViolation
<1>24. CASE Record  BY <1>24, <1>0 DEF Record
<1>25. CASE RecordSummary  BY <1>25, <1>0 DEF RecordSummary
<1>26. CASE VerifySummary  BY <1>26, <1>0 DEF VerifySummary
<1>27. CASE SurfaceLost  BY <1>27, <1>0 DEF SurfaceLost
<1>28. CASE Escalate  BY <1>28, <1>0 DEF Escalate
<1>29. CASE Grant
  <2>1. worker' = worker /\ row.status = "awaiting_approval"
    BY <1>29 DEF Grant
  <2>. QED  BY <1>0, <2>1 DEF Placed
<1>30. CASE Deny  BY <1>30, <1>0 DEF Deny, Still
<1>31. CASE Put \/ Refresh  BY <1>31, <1>0 DEF Put, Refresh, Still
<1>32. CASE Crash  BY <1>32, <1>0 DEF Crash, At
<1>33. CASE Restart  BY <1>33, <1>0 DEF Restart, At
<1>34. CASE Recover  BY <1>34, <1>0, Recovering, Taking
<1>35. CASE UNCHANGED vars  BY <1>35, <1>0 DEF vars, Still
<1>. QED
  BY <1>1, <1>2, <1>3, <1>4, <1>5, <1>6, <1>7, <1>8, <1>9, <1>10, <1>11, <1>12, <1>13, <1>14,
     <1>15, <1>16, <1>17, <1>18, <1>19, <1>20, <1>21, <1>22, <1>23, <1>24, <1>25, <1>26, <1>27,
     <1>28, <1>29, <1>30, <1>31, <1>32, <1>33, <1>34, <1>35
     DEF Next

(* ------------------------- what passed its checks ------------------------ *)

(* _egress_preflight, the pricing check and ensure_available, all passed. *)
LEMMA PassesItsChecks ==
  ASSUME NEW s, Refusal(s) = Admitted, submission.class \in Class
  PROVE  Allowed(IntentOf(s).tier)
<1>. DEFINE tier == IntentOf(s).tier
<1>1. /\ Approves(submission.class, TierTarget(tier))
      /\ tier \in Remote => tier \in Claiming
      /\ Available(tier, config.provider)
  BY DEF Refusal, Admitted
<1>2. CASE tier \in Remote
  BY <1>1, <1>2, EgressAgreesWithTiers, TiersAssumption DEF Allowed, Available
<1>3. CASE tier \notin Remote
  BY <1>3 DEF Allowed, Admits, EffectiveMax, LocalCeiling, Class
<1>. QED  BY <1>2, <1>3

LEMMA CheckedKept ==
  ASSUME Shaped, Placed, Enveloped, Remembered, ConfigRecord, Checked, [Next]_vars
  PROVE  Checked'
<1>. DEFINE Sending == {"compose", "announce", "post"}
            Away == worker'.as = "step" /\ worker'.pc \notin Sending
            Same == /\ worker'.step = worker.step /\ worker'.as = worker.as
                    /\ worker'.envelope = worker.envelope /\ chains' = chains
                    /\ worker'.pc \in Sending => worker.pc \in Sending \/ worker.as # "step"
<1>1. CASE Restart
  <2>1. worker'.as = "step" /\ worker'.pc \notin Sending
    BY <1>1 DEF Restart, At
  <2>. QED  BY <2>1 DEF Checked
<1>. SUFFICES ASSUME ~Restart PROVE Checked'
  BY <1>1
<1>. Records /\ submission.class \in Class
  BY GovernanceAssumption DEF Shaped, ConfigRecord
<1>2. \A tier : Allowed(tier) => Allowed(tier)'
  BY ConfigRecordKept DEF Allowed
<1>0. Away \/ Same => Checked'
  BY <1>2 DEF Checked, IntentOf
<1>. USE Ending, Parking, Going
     DEF Records, WorkerRecord, RowRecord, CallRecord, Ended, Pcs, Placed, SummaryPcs
<1>3. CASE Claim
  <2>1. worker' = At("plan") \/ worker' = At("load") \/ \E steps : Park("bypass_gate", steps, NoAsk)
    BY <1>3, Zenon DEF Claim
  <2>. QED  BY <1>0, <2>1 DEF At
<1>4. CASE Draft  BY <1>4, <1>0 DEF Draft
<1>5. CASE Decide
  <2>1. End("rejected", "plan") \/ (\E kind, steps : Park(kind, steps, NoAsk)) \/ worker' = At("load")
    BY <1>5, Zenon DEF Decide
  <2>. QED  BY <1>0, <2>1 DEF At
<1>6. CASE TakeReleased  BY <1>6, <1>0 DEF TakeReleased, At
<1>7. CASE Load  BY <1>7, <1>0 DEF Load
<1>8. CASE Dispatch  BY <1>8, <1>0 DEF Dispatch, At
<1>9. CASE RunTools  BY <1>9, <1>0 DEF RunTools
<1>10. CASE Preflight
  <2>. DEFINE refusal == Refusal(worker.step)
  <2>1. /\ worker.as = "step" /\ chains' = chains
        /\ \/ refusal = Admitted /\ Goes("compose")
           \/ Goes("escalate") \/ (\E cause : End("halted", cause))
           \/ Park("ceiling_raise", {worker.step}, NoAsk)
    BY <1>10 DEF Preflight
  <2>2. CASE refusal = Admitted /\ Goes("compose")
    <3>1. Allowed(IntentOf(worker.step).tier)
      BY <2>2, PassesItsChecks
    <3>2. worker'.step = worker.step /\ worker'.as = "step"
      BY <2>1, <2>2
    <3>. HIDE DEF refusal
    <3>. QED  BY <1>2, <2>1, <3>1, <3>2 DEF Checked, IntentOf
  <2>. HIDE DEF refusal
  <2>. QED  BY <1>0, <2>1, <2>2
<1>11. CASE ComposeAsIs  BY <1>11, <1>0 DEF ComposeAsIs
<1>12. CASE CannotCompact  BY <1>12, <1>0 DEF CannotCompact
<1>13. CASE Narrow
  <2>. DEFINE s == worker.step
              old == Live(chains[s])
              changes == [tier |-> SummarizingTier(IntentOf(s).class), tools |-> {}]
  <2>1. /\ chains' = Superseded(s, changes, "policy") /\ chains[s] # <<>>
        /\ worker'.step = s /\ worker'.envelope = [tier |-> old.tier, tools |-> old.tools]
        /\ worker'.as = "summary" /\ worker.as = "step" /\ changes.tier # NoTier
    BY <1>13 DEF Narrow, Enveloped, Running, IntentOf
  <2>2. s \in Chained /\ Histories /\ DOMAIN changes = {"tier", "tools"}
    BY DEF Shaped
  <2>3. Allowed(old.tier)
    BY <1>13, <2>1 DEF Narrow, Checked, IntentOf
  <2>4. changes.tier \notin Remote
    BY <2>1, SummariesStayLocal
  <2>. HIDE DEF changes, s
  <2>5. Live(chains'[s]).tier = changes.tier
    BY <2>1, <2>2, Superseding, Inherited
  <2>6. IntentOf(worker.step)'.tier \notin Remote /\ worker'.envelope.tier = old.tier
    BY <2>1, <2>4, <2>5 DEF IntentOf
  <2>. QED  BY <1>2, <2>1, <2>3, <2>6 DEF Checked
<1>14. CASE Restore
  <2>. DEFINE s == worker.step
  <2>1. /\ chains' = Superseded(s, worker.envelope, "policy") /\ chains[s] # <<>> /\ s \in Chained
        /\ worker'.step = s /\ worker'.as = "step" /\ worker.as = "summary"
    BY <1>14 DEF Restore, AfterRestore, Enveloped, Running
  <2>2. DOMAIN worker.envelope = {"tier", "tools"} /\ Histories
    BY <2>1 DEF Remembered, Shaped
  <2>3. Live(chains'[s]).tier = worker.envelope.tier
    BY <2>1, <2>2, Superseding, Inherited
  <2>4. IntentOf(worker.step)'.tier = worker.envelope.tier /\ Allowed(worker.envelope.tier)
    BY <2>1, <2>3 DEF IntentOf, Checked
  <2>. QED  BY <1>2, <2>1, <2>4 DEF Checked
<1>15. CASE GiveUp  BY <1>15, <1>0 DEF GiveUp
<1>16. CASE Announce  BY <1>16, <1>0 DEF Announce
<1>17. CASE Post  BY <1>17, <1>0 DEF Post
<1>18. CASE CallFails  BY <1>18, <1>0, Failing DEF CallFails
<1>19. CASE SurfaceFails  BY <1>19, <1>0 DEF SurfaceFails
<1>20. CASE JobEnds
  <2>1. UNCHANGED <<worker, chains>>
    BY <1>20 DEF JobEnds
  <2>. QED  BY <2>1, <1>0
<1>21. CASE Unread  BY <1>21, <1>0, Failing DEF Unread
<1>22. CASE Unfinished  BY <1>22, <1>0 DEF Unfinished
<1>23. CASE Debit  BY <1>23, <1>0 DEF Debit
<1>24. CASE Unverified  BY <1>24, <1>0 DEF Unverified
<1>25. CASE HaltViolation  BY <1>25, <1>0 DEF HaltViolation
<1>26. CASE Record  BY <1>26, <1>0 DEF Record
<1>27. CASE RecordSummary  BY <1>27, <1>0 DEF RecordSummary
<1>28. CASE VerifySummary  BY <1>28, <1>0 DEF VerifySummary
<1>29. CASE SurfaceLost  BY <1>29, <1>0 DEF SurfaceLost
<1>30. CASE Escalate  BY <1>30, <1>0 DEF Escalate
<1>31. CASE Grant
  <2>1. worker' = worker /\ worker.pc = "idle"
    BY <1>31 DEF Grant
  <2>. QED  BY <2>1, <1>0
<1>32. CASE Deny  BY <1>32, <1>0 DEF Deny
<1>33. CASE Put \/ Refresh
  <2>1. UNCHANGED <<worker, chains>>
    BY <1>33 DEF Put, Refresh
  <2>. QED  BY <2>1, <1>0
<1>34. CASE Crash  BY <1>34, <1>0 DEF Crash, At
<1>35. CASE Recover  BY <1>35, <1>0, Recovering, Taking
<1>36. CASE UNCHANGED vars
  <2>1. UNCHANGED <<worker, chains>>
    BY <1>36 DEF vars
  <2>. QED  BY <2>1, <1>0
<1>. QED
  BY <1>3, <1>4, <1>5, <1>6, <1>7, <1>8, <1>9, <1>10, <1>11, <1>12, <1>13, <1>14, <1>15, <1>16,
     <1>17, <1>18, <1>19, <1>20, <1>21, <1>22, <1>23, <1>24, <1>25, <1>26, <1>27, <1>28, <1>29,
     <1>30, <1>31, <1>32, <1>33, <1>34, <1>35, <1>36
     DEF Next

(* ------------------------- who approved what ----------------------------- *)

(* The egress gate of whatever is minted. *)
LEMMA Gating ==
  ASSUME NEW tier, NEW tools, NEW class, NEW tokens, NEW money, NEW turns, NEW estimate, NEW by
  PROVE  LET new == Mint(tier, tools, class, tokens, money, turns, estimate, by, config.policy)
         IN /\ new.tier = tier /\ new.class = class /\ new.by = by
            /\ new.gate.egress = Fires(tier, class)
  BY DEF Mint, Gate, Fires

LEMMA GatingSuperseded ==
  ASSUME NEW old, NEW changes, NEW by
  PROVE  LET new == Supersede(old, changes, by, config.policy)
         IN /\ new.by = by /\ new.gate.egress = Fires(new.tier, new.class)
            /\ new.tier = (IF "tier" \in DOMAIN changes THEN changes.tier ELSE old.tier)
            /\ new.class = (IF "class" \in DOMAIN changes THEN changes.class ELSE old.class)
  BY Gating DEF Supersede, Changeable

LEMMA GatingStep ==
  ASSUME NEW step, NEW verdict, NEW turns, NEW by
  PROVE  LET new == MintForStep(step, verdict, turns, by, config.policy)
         IN /\ new.tier = verdict.tier /\ new.class = step.class /\ new.by = by
            /\ new.gate.egress = Fires(new.tier, new.class)
  BY Gating DEF MintForStep

(* Nothing leaves the machine with a local tier. *)
LEMMA LocalNeverFires ==
  ASSUME NEW tier, tier \notin Remote, NEW class
  PROVE  ~Fires(tier, class)
<1>1. DOMAIN <<tier>> = {1} /\ <<tier>>[1] = tier
  BY Singleton
<1>. DEFINE weight(k) == 4 * EgressRank(<<tier>>[k]) + Leaving(<<tier>>[k], class)
            best == {k \in DOMAIN <<tier>> : \A j \in DOMAIN <<tier>> : weight(j) <= weight(k)}
<1>2. weight(1) <= weight(1)
  BY <1>1 DEF EgressRank, Leaving, NotLeaving
<1>. HIDE DEF weight
<1>3. best = {1}
  BY <1>1, <1>2
<1>4. First({1}) = 1
  BY DEF First
<1>5. MostPermissive(<<tier>>, class) = <<tier>>[First(best)]
  BY DEF MostPermissive, weight
<1>. QED  BY <1>1, <1>3, <1>4, <1>5 DEF Fires, Leaving

LEMMA ToldOfMore ==
  ASSUME NEW c, IsSeq(c), Told(c), NEW new, new.gate.egress = Fires(new.tier, new.class)
  PROVE  Told(Append(c, new))
  BY Appended DEF Told

(* One more revision needs no one more: a person gave it, or its gate does not
   fire, or one with its tier was there whose gate fires as well. *)
LEMMA AnsweredForMore ==
  ASSUME NEW c, IsSeq(c), Answered(c), NEW new,
         \/ new.by = "approver"
         \/ /\ c # <<>>
            /\ Fires(new.tier, new.class) =>
                 \E j \in DOMAIN c : c[j].tier = new.tier /\ Fires(c[j].tier, c[j].class)
  PROVE  Answered(Append(c, new))
<1>. DEFINE d == Append(c, new)
<1>1. /\ DOMAIN c = 1 .. Len(c) /\ Len(c) \in Nat /\ DOMAIN d = 1 .. Len(c) + 1
      /\ \A k \in DOMAIN c : d[k] = c[k] /\ k \in DOMAIN d
      /\ d[Len(c) + 1] = new /\ Len(c) + 1 \in DOMAIN d
  BY Appended
<1>. HIDE DEF d
<1>2. config.policy.mode = "manual" => \E k \in DOMAIN d : d[k].by = "approver"
  BY <1>1 DEF Answered
<1>3. ASSUME config.policy.mode = "hybrid", NEW k \in DOMAIN d, Fires(d[k].tier, d[k].class)
      PROVE  \E j \in DOMAIN d : d[j].by = "approver" /\ d[j].tier = d[k].tier
  <2>1. CASE k \in DOMAIN c
    BY <1>1, <1>3, <2>1 DEF Answered
  <2>2. CASE k \notin DOMAIN c
    <3>1. d[k] = new
      BY <1>1, <2>2
    <3>2. CASE new.by = "approver"
      BY <1>1, <3>1, <3>2
    <3>3. CASE \E j \in DOMAIN c : c[j].tier = new.tier /\ Fires(c[j].tier, c[j].class)
      BY <1>1, <1>3, <3>1, <3>3 DEF Answered
    <3>. QED  BY <1>3, <3>1, <3>2, <3>3
  <2>. QED  BY <2>1, <2>2
<1>. QED  BY <1>2, <1>3 DEF Answered, d

(* A plan that is not rejected has no free step whose gate fires. *)
LEMMA FreeStepsAreFree ==
  ASSUME NEW plan, NEW estimates, NEW provider, NEW rooms, NEW s \in DOMAIN plan,
         PlanVerdict(plan, estimates, config.policy, provider, rooms).outcome # "rejected",
         ~PlanVerdict(plan, estimates, config.policy, provider, rooms).steps[s].human
  PROVE  /\ config.policy.mode # "manual"
         /\ config.policy.mode = "hybrid" =>
              ~Fires(PlanVerdict(plan, estimates, config.policy, provider, rooms).steps[s].tier,
                     plan[s].class)
<1>. DEFINE says == PlanVerdict(plan, estimates, config.policy, provider, rooms)
            verdict == StepVerdict(plan[s], estimates[s], config.policy, provider)
<1>1. says.steps[s].outcome # "rejected"
  BY DEF PlanVerdict
<1>2. says.steps[s] = verdict
  BY <1>1 DEF PlanVerdict, Rejected
<1>. DEFINE gate == Gate(<<Resolved(plan[s])>>, plan[s].class, estimates[s], config.policy)
<1>3. verdict.tier = Resolved(plan[s]) /\ verdict.human = RequiresHuman(gate, config.policy.mode)
  <2>. HIDE DEF says
  <2>1. verdict.outcome # "rejected"
    BY <1>1, <1>2
  <2>. QED  BY <2>1 DEF StepVerdict, Rejected
<1>. QED  BY <1>2, <1>3 DEF RequiresHuman, Gated, Gate, Fires

(* While no envelope changes and nobody grants, who waits goes on waiting. *)
LEMMA WaitingOn ==
  ASSUME Shaped, Placed, NEW s, Waiting(s), chains' = chains, ~Grant, [Next]_vars
  PROVE  Waiting(s)'
<1>1. worker.pc \in {"idle", "down"} /\ row.status # "queued" /\ row.status # "executing"
  BY DEF Waiting, Placed, Ended, Shaped, Records, WorkerRecord
<1>2. CASE UNCHANGED <<row, request>>
  BY <1>2 DEF Waiting
<1>3. CASE Deny
  <2>1. row'.status = "halted"
    BY <1>3 DEF Deny, Shaped, Records, RowRecord
  <2>. QED  BY <2>1 DEF Waiting, Ended
<1>. QED
  BY <1>1, <1>2, <1>3
     DEF Next, vars, Claim, Draft, Decide, TakeReleased, Load, Dispatch, RunTools, Preflight,
         ComposeAsIs, CannotCompact, Narrow, Restore, GiveUp, Announce, Post, CallFails, SurfaceFails,
         JobEnds, Unread, Unfinished, Debit, Unverified, HaltViolation, Record, RecordSummary,
         VerifySummary, SurfaceLost, Escalate, Put, Refresh, Crash, Restart, Recover

(* The step's envelopes are told, and answered unless it waits. *)
Settled(s) == Told(chains[s]) /\ (~Waiting(s) => Answered(chains[s]))

LEMMA ApprovalsKept ==
  ASSUME Shaped, Placed, Enveloped, Remembered, ConfigRecord, Approvals, [Next]_vars
  PROVE  Approvals'
<1>. SUFFICES ASSUME ~config'.changed, NEW s \in Chained  PROVE Settled(s)'
  BY DEF Approvals, Settled
<1>1. ~config.changed /\ config'.policy = config.policy
  <2>1. CASE Restart
    BY <2>1 DEF Restart, ConfigRecord
  <2>. QED  BY <2>1, ConfigRecordKept
<1>2. Settled(s)
  BY <1>1 DEF Approvals, Settled
<1>3. /\ \A tier, class : Fires(tier, class)' = Fires(tier, class)
      /\ \A c : Told(c)' = Told(c) /\ Answered(c)' = Answered(c)
  BY <1>1 DEF Fires, Told, Answered
<1>. Histories /\ Records /\ IsSeq(chains[s]) /\ DOMAIN chains = Chained
  BY DEF Shaped, Histories
<1>4. CASE chains'[s] = chains[s] /\ (Waiting(s) => Waiting(s)')
  BY <1>2, <1>3, <1>4 DEF Settled
<1>5. CASE Told(chains'[s]) /\ Answered(chains'[s])
  BY <1>3, <1>5 DEF Settled
<1>6. CASE chains' = chains /\ ~Grant
  BY <1>4, <1>6, WaitingOn
<1>7. CASE Claim
  <2>1. worker.pc = "idle" /\ row.status = "queued" /\ ~Waiting(s)
    BY <1>7 DEF Claim, Waiting, Ended
  <2>2. CASE s # BypassStep \/ ~submission.bypass
    <3>1. chains'[s] = chains[s]
      BY <1>7, <2>2 DEF Claim
    <3>. QED  BY <1>4, <2>1, <3>1
  <2>3. CASE s = BypassStep /\ submission.bypass
    <3>. DEFINE intent == MintBypass(Declaration, row.tokens, submission.money, config.policy)
    <3>1. /\ chains' = [chains EXCEPT ![BypassStep] = <<intent>>]
          /\ \/ Park("bypass_gate", {BypassStep}, NoAsk)
             \/ ~RequiresHuman(intent.gate, config.policy.mode)
      BY <1>7, <2>3, Zenon DEF Claim
    <3>2. intent.gate.egress = Fires(intent.tier, intent.class)
      BY Gating DEF MintBypass
    <3>. HIDE DEF intent
    <3>3. chains'[s] = <<intent>> /\ DOMAIN <<intent>> = {1} /\ <<intent>>[1] = intent
          /\ Len(<<intent>>) = 1
      BY <2>3, <3>1, Singleton
    <3>4. Told(chains'[s])
      BY <3>2, <3>3 DEF Told
    <3>5. CASE Park("bypass_gate", {BypassStep}, NoAsk)
      <4>1. /\ row'.status = "awaiting_approval"
            /\ request'.kind = "bypass_gate" /\ request'.steps = {BypassStep}
        BY <3>5 DEF Park, Records, RowRecord
      <4>2. Waiting(s)'
        BY <2>3, <3>3, <4>1 DEF Waiting
      <4>. QED  BY <1>3, <3>4, <4>2 DEF Settled
    <3>6. CASE ~RequiresHuman(intent.gate, config.policy.mode)
      <4>1. Answered(chains'[s])
        BY <3>2, <3>3, <3>6 DEF RequiresHuman, Gated, Answered
      <4>. QED  BY <1>5, <3>4, <4>1
    <3>. QED  BY <3>1, <3>5, <3>6
  <2>. QED  BY <2>2, <2>3
<1>8. CASE Decide
  <2>. DEFINE plan == Live(plans).plan
              estimates == [r \in StepIds(plan) |-> Estimate(plan.steps[r].tier, ledger)]
              rooms == Position(Ceilings, ledger, Strict)
              says == PlanVerdict(plan.steps, estimates, config.policy, config.provider, rooms)
              mintable == {r \in DOMAIN plan.steps : ~says.steps[r].human}
  <2>1. /\ worker.pc = "decide"
        /\ \/ chains' = chains
           \/ says.outcome # "rejected" /\ chains' = Minted(mintable, plan, says.steps, "policy")
    BY <1>8, Zenon DEF Decide
  <2>2. ~Waiting(s)
    BY <2>1 DEF Placed, Waiting, Ended
  <2>3. CASE chains'[s] = chains[s]
    BY <1>4, <2>2, <2>3
  <2>4. CASE says.outcome # "rejected" /\ chains' = Minted(mintable, plan, says.steps, "policy")
    <3>. DEFINE intent == MintForStep(plan.steps[s], says.steps[s], config.turns, "policy", config.policy)
    <3>1. s \notin mintable => chains'[s] = chains[s]
      BY <2>4, Zenon DEF Minted
    <3>2. CASE s \in mintable
      <4>1. chains'[s] = <<intent>>
        BY <2>4, <3>2, Zenon DEF Minted
      <4>2. /\ intent.gate.egress = Fires(intent.tier, intent.class)
            /\ intent.tier = says.steps[s].tier /\ intent.class = plan.steps[s].class
        <5>. HIDE DEF says, plan
        <5>. QED  BY GatingStep
      <4>3. s \in DOMAIN plan.steps /\ ~says.steps[s].human
        BY <3>2
      <4>4. /\ config.policy.mode # "manual"
            /\ config.policy.mode = "hybrid" => ~Fires(says.steps[s].tier, plan.steps[s].class)
        <5>. HIDE DEF plan, estimates, rooms
        <5>. QED  BY <2>4, <4>3, FreeStepsAreFree, Zenon
      <4>. HIDE DEF intent
      <4>5. DOMAIN <<intent>> = {1} /\ <<intent>>[1] = intent
        BY Singleton
      <4>6. Told(<<intent>>)
        BY <4>2, <4>5 DEF Told
      <4>7. Answered(<<intent>>)
        <5>. HIDE DEF says
        <5>. QED  BY <4>2, <4>4, <4>5 DEF Answered
      <4>. QED  BY <1>5, <4>1, <4>6, <4>7
    <3>. QED  BY <2>3, <3>1, <3>2
  <2>. QED  BY <2>1, <2>3, <2>4
<1>9. CASE Narrow
  <2>. DEFINE changes == [tier |-> SummarizingTier(IntentOf(worker.step).class), tools |-> {}]
              new == Supersede(Live(chains[s]), changes, "policy", config.policy)
  <2>1. /\ chains' = Superseded(worker.step, changes, "policy") /\ worker.pc = "compose"
        /\ changes.tier # NoTier /\ chains[worker.step] # <<>>
    BY <1>9 DEF Narrow, Enveloped, Running
  <2>2. ~Waiting(s)
    BY <2>1 DEF Placed, Waiting, Ended
  <2>3. CASE s = worker.step
    <3>1. chains'[s] = Append(chains[s], new)
      BY <2>1, <2>3 DEF Superseded
    <3>2. new.gate.egress = Fires(new.tier, new.class) /\ new.tier = changes.tier
      BY GatingSuperseded
    <3>3. ~Fires(new.tier, new.class)
      BY <2>1, <3>2, SummariesStayLocal, LocalNeverFires
    <3>. HIDE DEF new
    <3>. QED  BY <1>2, <1>5, <2>1, <2>2, <2>3, <3>1, <3>2, <3>3, ToldOfMore, AnsweredForMore DEF Settled
  <2>4. CASE s # worker.step
    <3>1. chains'[s] = chains[s]
      BY <2>1, <2>4 DEF Superseded
    <3>. QED  BY <1>4, <2>2, <3>1
  <2>. QED  BY <2>3, <2>4
<1>10. CASE Restore
  <2>. DEFINE new == Supersede(Live(chains[s]), worker.envelope, "policy", config.policy)
  <2>1. /\ chains' = Superseded(worker.step, worker.envelope, "policy")
        /\ worker.pc \in {"restore", "undo", "lost"} /\ worker.as = "summary"
        /\ chains[worker.step] # <<>>
    BY <1>10 DEF Restore, AfterRestore, Enveloped, Running, SummaryPcs, Placed
  <2>2. ~Waiting(s)
    BY <2>1 DEF Placed, Waiting, Ended
  <2>3. CASE s = worker.step
    <3>1. chains'[s] = Append(chains[s], new)
      BY <2>1, <2>3 DEF Superseded
    <3>2. PICK j \in DOMAIN chains[s] :
            /\ worker.envelope = [tier |-> chains[s][j].tier, tools |-> chains[s][j].tools]
            /\ chains[s][j].class = Live(chains[s]).class
      BY <2>1, <2>3 DEF Remembered
    <3>3. /\ new.gate.egress = Fires(new.tier, new.class)
          /\ new.tier = chains[s][j].tier /\ new.class = chains[s][j].class
      BY <3>2, GatingSuperseded
    <3>. HIDE DEF new
    <3>. QED  BY <1>2, <1>5, <2>1, <2>2, <2>3, <3>1, <3>3, ToldOfMore, AnsweredForMore DEF Settled
  <2>4. CASE s # worker.step
    <3>1. chains'[s] = chains[s]
      BY <2>1, <2>4 DEF Superseded
    <3>. QED  BY <1>4, <2>2, <3>1
  <2>. QED  BY <2>3, <2>4
<1>11. CASE Grant
  <2>. DEFINE target == CHOOSE r \in request.steps : TRUE
              plan == Recorded.plan
  <2>1. PICK widening :
          /\ row.status = "awaiting_approval"
          /\ request.kind = "bypass_gate" => widening = <<>>
          /\ chains' = IF request.kind \in {"plan", "gated_step"}
                       THEN Minted(request.steps, plan, Verdicts, "approver")
                       ELSE Superseded(target, widening, "approver")
    BY <1>11, Zenon DEF Grant
  <2>2. CASE request.kind \in {"plan", "gated_step"}
    <3>. DEFINE intent == MintForStep(plan.steps[s], Verdicts[s], config.turns, "approver", config.policy)
    <3>1. chains' = Minted(request.steps, plan, Verdicts, "approver")
      BY <2>1, <2>2
    <3>2. CASE s \in request.steps
      <4>1. chains'[s] = <<intent>>
        BY <3>1, <3>2, Zenon DEF Minted
      <4>2. intent.gate.egress = Fires(intent.tier, intent.class) /\ intent.by = "approver"
        BY GatingStep
      <4>. HIDE DEF intent
      <4>3. DOMAIN <<intent>> = {1} /\ <<intent>>[1] = intent
        BY Singleton
      <4>4. Told(<<intent>>) /\ Answered(<<intent>>)
        BY <4>2, <4>3 DEF Told, Answered
      <4>. QED  BY <1>5, <4>1, <4>4
    <3>3. CASE s \notin request.steps
      <4>1. chains'[s] = chains[s]
        BY <3>1, <3>3, Zenon DEF Minted
      <4>2. ~Waiting(s)
        BY <2>1, <2>2 DEF Waiting, Ended
      <4>. QED  BY <1>4, <4>1, <4>2
    <3>. QED  BY <3>2, <3>3
  <2>3. CASE request.kind \notin {"plan", "gated_step"}
    <3>. DEFINE new == Supersede(Live(chains[s]), widening, "approver", config.policy)
    <3>1. chains' = Superseded(target, widening, "approver")
      BY <2>1, <2>3
    <3>2. Waiting(s) => s = target /\ request.kind = "bypass_gate"
      BY <2>1 DEF Waiting, Ended
    <3>. HIDE DEF target
    <3>3. CASE s = target
      <4>1. chains'[s] = Append(chains[s], new)
        BY <3>1, <3>3 DEF Superseded
      <4>2. new.gate.egress = Fires(new.tier, new.class) /\ new.by = "approver"
        BY GatingSuperseded
      <4>3. Told(Append(chains[s], new))
        BY <1>2, <4>2, ToldOfMore DEF Settled
      <4>4. CASE ~Waiting(s)
        BY <1>2, <1>5, <4>1, <4>2, <4>3, <4>4, AnsweredForMore DEF Settled
      <4>5. CASE Waiting(s)
        <5>. DEFINE d == Append(chains[s], new)
        <5>1. Len(chains[s]) = 1
          BY <4>5 DEF Waiting
        <5>. HIDE DEF new
        <5>3. /\ DOMAIN d = 1 .. Len(chains[s]) + 1 /\ d[Len(chains[s]) + 1] = new
              /\ \A k \in 1 .. Len(chains[s]) : d[k] = chains[s][k]
          BY Appended
        <5>4. DOMAIN d = {1, 2} /\ d[2] = new /\ d[1] = Live(chains[s])
          BY <5>1, <5>3 DEF Live
        <5>2. new.tier = Live(chains[s]).tier
          <6>1. "tier" \notin DOMAIN widening
            BY <2>1, <3>2, <4>5
          <6>. QED  BY <6>1, GatingSuperseded DEF new
        <5>. HIDE DEF d
        <5>5. Answered(d)
          BY <4>2, <5>2, <5>4 DEF Answered
        <5>. QED  BY <1>5, <4>1, <4>3, <5>5 DEF d
      <4>. QED  BY <4>4, <4>5
    <3>4. CASE s # target
      <4>1. chains'[s] = chains[s]
        BY <3>1, <3>4 DEF Superseded
      <4>. QED  BY <1>4, <3>2, <3>4, <4>1
    <3>. QED  BY <3>3, <3>4
  <2>. QED  BY <2>2, <2>3
<1>. QED
  BY <1>6, <1>7, <1>8, <1>9, <1>10, <1>11
     DEF Next, vars, Draft, TakeReleased, Load, Dispatch, RunTools, Preflight, ComposeAsIs,
         CannotCompact, GiveUp, Announce, Post, CallFails, SurfaceFails, JobEnds, Unread, Unfinished,
         Debit, Unverified, HaltViolation, Record, RecordSummary, VerifySummary, SurfaceLost, Escalate,
         Deny, Put, Refresh, Crash, Restart, Recover

(* ------------------------------ the theorem ------------------------------ *)

LEMMA CoveredAtFirst ==
  ASSUME Init
  PROVE  Covered
<1>1. ConfigRecord /\ InFlight /\ Checked
  BY DEF Init, ConfigRecord, InFlight, Checked, Idle, At
<1>2. \A s \in Chained : chains[s] = <<>>
  BY DEF Init
<1>3. Told(<<>>) /\ Answered(<<>>)
  BY DEF Told, Answered
<1>. QED  BY <1>1, <1>2, <1>3 DEF Covered, Approvals

LEMMA CoveredKept ==
  ASSUME Governed, Covered, [Next]_vars
  PROVE  Covered'
  BY ConfigRecordKept, InFlightKept, CheckedKept, ApprovalsKept DEF Governed, Covered

(* The invariant behind the calls: what is announced is what the envelope says,
   it passed the checks, and a person approved what the policy holds. *)
THEOREM AlwaysCovered == Spec => []Covered
  BY CoveredAtFirst, CoveredKept, AlwaysGoverned, PTL DEF Spec

(* What a call must be covered by holds wherever the worker may post it. *)
LEMMA PostsAreCovered ==
  ASSUME Governed, Covered, worker.pc = "post"
  PROVE  LET intent == IntentOf(announced.step)
             tier == announced.tier
         IN /\ tier = intent.tier
            /\ announced.kind = "step" => Admits(tier, submission.class)
            /\ tier \in Remote => tier \in Claiming /\ config.provider
            /\ ~config.changed =>
                 /\ config.policy.mode = "manual" => Approved(announced.step)
                 /\ config.policy.mode = "hybrid" /\ intent.gate.egress =>
                       ApprovedOn(announced.step, tier)
<1>. DEFINE s == announced.step
            c == chains[s]
            intent == IntentOf(s)
<1>1. s = worker.step /\ announced.kind = worker.as /\ announced.tier = intent.tier
  BY DEF Covered, InFlight
<1>2. /\ worker.as = "step" => Allowed(intent.tier)
      /\ worker.as = "summary" => intent.tier \notin Remote
  BY <1>1 DEF Covered, Checked
<1>3. worker.as \in {"step", "summary"} /\ s \in Chained /\ IsSeq(c)
  BY DEF Governed, Shaped, Records, WorkerRecord, CallRecord, Histories
<1>4. c # <<>> /\ ~Waiting(s)
  BY <1>1 DEF Governed, Enveloped, Running, SummaryPcs, Placed, Waiting, Ended
<1>5. Len(c) \in DOMAIN c /\ intent = c[Len(c)]
  BY <1>3, <1>4, Appended, EmptySeq DEF IntentOf, Live, IsSeq
<1>6. ~config.changed => Told(c) /\ Answered(c)
  BY <1>3, <1>4 DEF Covered, Approvals
<1>7. ~config.changed /\ config.policy.mode = "manual" => Approved(s)
  BY <1>4, <1>6 DEF Answered, Approved
<1>8. ~config.changed /\ config.policy.mode = "hybrid" /\ intent.gate.egress => ApprovedOn(s, intent.tier)
  BY <1>5, <1>6 DEF Told, Answered, ApprovedOn
<1>. HIDE DEF intent, c
<1>. QED  BY <1>1, <1>2, <1>3, <1>7, <1>8 DEF Allowed, intent

(* No ungoverned turn, for every configuration and whatever comes between the
   approval of an envelope and the call: the request LoadCoach takes goes where
   the live envelope says, was checked, and was approved where it had to be
   (loop.py's _turn, from the pre-flight to the post). *)
THEOREM NoUngovernedTurn == Spec => CallsAreCovered
<1>1. Governed /\ Covered /\ [Next]_vars =>
        [Posts =>
           LET intent == IntentOf(announced.step)
               tier == announced.tier
           IN /\ tier = intent.tier
              /\ announced.kind = "step" => Admits(tier, submission.class)
              /\ tier \in Remote => tier \in Claiming /\ config.provider
              /\ ~config.changed =>
                   /\ config.policy.mode = "manual" => Approved(announced.step)
                   /\ config.policy.mode = "hybrid" /\ intent.gate.egress =>
                         ApprovedOn(announced.step, tier)]_vars
  BY Posting, PostsAreCovered DEF Governed, Shaped
<1>. QED  BY <1>1, AlwaysGoverned, AlwaysCovered, PTL DEF Spec, CallsAreCovered

(* ------------------- the envelope a step was given ----------------------- *)

(* The revisions a person or the first minting gave, and the last of them:
   Base of one chain. *)
GivenIn(c) == {k \in DOMAIN c : k = 1 \/ c[k].by # "policy"}
HasBase(c) == \E k \in GivenIn(c) : \A j \in GivenIn(c) : j <= k
BaseIn(c) == c[CHOOSE k \in GivenIn(c) : \A j \in GivenIn(c) : j <= k]

(* As long as no worker died: a step's live envelope has the tier and the tools
   it was given, but around a summary, which has them to restore. *)
Lends(s) ==
  IF worker.as = "summary" /\ worker.step = s
  THEN worker.envelope = [tier |-> BaseIn(chains[s]).tier, tools |-> BaseIn(chains[s]).tools]
  ELSE /\ Live(chains[s]).tier = BaseIn(chains[s]).tier
       /\ Live(chains[s]).tools = BaseIn(chains[s]).tools
Lent ==
  crashes = MaxCrashes =>
    \A s \in Chained : chains[s] # <<>> => HasBase(chains[s]) /\ Lends(s)

(* A revision of the policy leaves the base where it was, any other is it. *)
LEMMA BaseOfMore ==
  ASSUME NEW c, IsSeq(c), NEW new, c # <<>> => HasBase(c), c # <<>> \/ new.by # "policy"
  PROVE  LET d == Append(c, new)
         IN /\ HasBase(d)
            /\ BaseIn(d) = IF new.by = "policy" THEN BaseIn(c) ELSE new
            /\ Live(d) = new
<1>. DEFINE d == Append(c, new)
            n == Len(c)
<1>1. /\ n \in Nat /\ DOMAIN c = 1 .. n /\ DOMAIN d = 1 .. n + 1 /\ Len(d) = n + 1
      /\ \A k \in 1 .. n : d[k] = c[k]
      /\ d[n + 1] = new
  BY Appended
<1>2. n = 0 <=> c = <<>>
  BY <1>1, EmptySeq DEF IsSeq
<1>. HIDE DEF d, n
<1>3. Live(d) = new
  BY <1>1 DEF Live
<1>4. CASE new.by = "policy"
  <2>1. GivenIn(d) = GivenIn(c)
    BY <1>1, <1>2, <1>4 DEF GivenIn
  <2>2. PICK m \in GivenIn(c) : \A j \in GivenIn(c) : j <= m
    BY <1>4 DEF HasBase
  <2>. DEFINE base == CHOOSE k \in GivenIn(c) : \A j \in GivenIn(c) : j <= k
  <2>3. base \in GivenIn(c)
    BY <2>2
  <2>4. BaseIn(d) = d[base] /\ BaseIn(c) = c[base]
    BY <2>1 DEF BaseIn
  <2>. HIDE DEF base
  <2>5. d[base] = c[base]
    BY <1>1, <2>3 DEF GivenIn
  <2>6. HasBase(d)
    BY <2>1, <2>2 DEF HasBase
  <2>. QED  BY <1>3, <1>4, <2>4, <2>5, <2>6 DEF d
<1>5. CASE new.by # "policy"
  <2>1. n + 1 \in GivenIn(d) /\ \A j \in GivenIn(d) : j \in Nat /\ j <= n + 1
    BY <1>1, <1>5 DEF GivenIn
  <2>. DEFINE base == CHOOSE k \in GivenIn(d) : \A j \in GivenIn(d) : j <= k
  <2>2. base \in GivenIn(d) /\ \A j \in GivenIn(d) : j <= base
    BY <2>1
  <2>3. base = n + 1
    <3>. HIDE DEF base
    <3>. QED  BY <1>1, <2>1, <2>2
  <2>4. BaseIn(d) = new /\ HasBase(d)
    BY <1>1, <2>1, <2>3 DEF BaseIn, HasBase
  <2>. QED  BY <1>3, <1>5, <2>4 DEF d
<1>. QED  BY <1>4, <1>5

LEMMA BaseOfOne ==
  ASSUME NEW x
  PROVE  HasBase(<<x>>) /\ BaseIn(<<x>>) = x /\ Live(<<x>>) = x
<1>1. DOMAIN <<x>> = {1} /\ <<x>>[1] = x /\ Len(<<x>>) = 1
  BY Singleton
<1>2. GivenIn(<<x>>) = {1}
  BY <1>1 DEF GivenIn
<1>. QED  BY <1>1, <1>2 DEF HasBase, BaseIn, Live

(* The call of a summary fails the compaction or escapes: either way through
   the finally that restores. *)
LEMMA SummaryFailing ==
  ASSUME NEW failure, Fails(failure), worker.as = "summary"
  PROVE  Goes("undo") \/ Goes("lost")
<1>1. SummaryReaction(failure) \in {"escapes", "undo"}
  BY DEF SummaryReaction
<1>. DEFINE reaction == IF worker.as = "step" THEN Reaction(failure) ELSE SummaryReaction(failure)
<1>2. reaction \in {"escapes", "undo"}
  BY <1>1
<1>3. CASE reaction = "undo"
  BY <1>3 DEF Fails
<1>4. CASE reaction = "escapes"
  BY <1>4 DEF Fails
<1>. QED  BY <1>2, <1>3, <1>4

(* Outside a compaction's two moves a summary stays a summary of its step, and
   a step's turn stays one. *)
LEMMA SummaryStays ==
  ASSUME Shaped, Placed, [Next]_vars, ~Narrow, ~Restore, crashes' = MaxCrashes
  PROVE  /\ crashes = MaxCrashes
         /\ worker.as # "summary" => worker'.as # "summary"
         /\ worker.as = "summary" =>
              /\ worker'.as = "summary" /\ worker'.step = worker.step
              /\ worker'.envelope = worker.envelope
<1>. Records
  BY DEF Shaped
<1>. USE Ending, Parking, Going DEF Placed, SummaryPcs, Records, WorkerRecord, RowRecord, Ended, Pcs
<1>0. ~Crash
  BY GovernanceAssumption DEF Crash
<1>1. crashes = MaxCrashes
  BY <1>0 DEF Next, vars, Fixed, Claim, Draft, Decide, TakeReleased, Load, Dispatch, RunTools, Preflight,
         ComposeAsIs, CannotCompact, Narrow, Restore, GiveUp, Announce, Post, CallFails, SurfaceFails,
         JobEnds, Unread, Unfinished, Debit, Unverified, HaltViolation, Record, RecordSummary,
         VerifySummary, SurfaceLost, Escalate, Grant, Deny, Put, Refresh, Restart, Recover
<1>. USE <1>1
<1>2. CASE Claim
  <2>1. worker' = At("plan") \/ worker' = At("load") \/ \E steps : Park("bypass_gate", steps, NoAsk)
    BY <1>2, Zenon DEF Claim
  <2>. QED  BY <1>2, <2>1 DEF At, Claim
<1>3. CASE Draft  BY <1>3 DEF Draft
<1>4. CASE Decide
  <2>1. End("rejected", "plan") \/ (\E kind, steps : Park(kind, steps, NoAsk)) \/ worker' = At("load")
    BY <1>4, Zenon DEF Decide
  <2>2. worker.pc = "decide"
    BY <1>4, Zenon DEF Decide
  <2>. QED  BY <2>1, <2>2 DEF At
<1>5. CASE TakeReleased  BY <1>5 DEF TakeReleased, At
<1>6. CASE Load  BY <1>6 DEF Load
<1>7. CASE Dispatch  BY <1>7 DEF Dispatch, At
<1>8. CASE RunTools  BY <1>8 DEF RunTools
<1>9. CASE Preflight  BY <1>9 DEF Preflight
<1>10. CASE ComposeAsIs  BY <1>10 DEF ComposeAsIs
<1>11. CASE CannotCompact  BY <1>11 DEF CannotCompact
<1>12. CASE GiveUp  BY <1>12 DEF GiveUp
<1>13. CASE Announce  BY <1>13 DEF Announce
<1>14. CASE Post  BY <1>14 DEF Post
<1>15. CASE CallFails  BY <1>15, Failing, SummaryFailing DEF CallFails
<1>16. CASE SurfaceFails  BY <1>16 DEF SurfaceFails
<1>17. CASE JobEnds  BY <1>17 DEF JobEnds
<1>18. CASE Unread  BY <1>18, Failing, SummaryFailing DEF Unread
<1>19. CASE Unfinished  BY <1>19 DEF Unfinished
<1>20. CASE Debit  BY <1>20 DEF Debit
<1>21. CASE Unverified  BY <1>21 DEF Unverified
<1>22. CASE HaltViolation  BY <1>22 DEF HaltViolation
<1>23. CASE Record  BY <1>23 DEF Record
<1>24. CASE RecordSummary  BY <1>24 DEF RecordSummary
<1>25. CASE VerifySummary  BY <1>25 DEF VerifySummary
<1>26. CASE SurfaceLost  BY <1>26 DEF SurfaceLost
<1>27. CASE Escalate  BY <1>27 DEF Escalate
<1>28. CASE Grant  BY <1>28 DEF Grant
<1>29. CASE Deny  BY <1>29 DEF Deny
<1>30. CASE Put \/ Refresh  BY <1>30 DEF Put, Refresh
<1>31. CASE Restart  BY <1>31 DEF Restart, At
<1>32. CASE Recover  BY <1>32, Recovering, Taking
<1>33. CASE UNCHANGED vars  BY <1>33 DEF vars
<1>. QED
  BY <1>0, <1>2, <1>3, <1>4, <1>5, <1>6, <1>7, <1>8, <1>9, <1>10, <1>11, <1>12, <1>13, <1>14,
     <1>15, <1>16, <1>17, <1>18, <1>19, <1>20, <1>21, <1>22, <1>23, <1>24, <1>25, <1>26, <1>27,
     <1>28, <1>29, <1>30, <1>31, <1>32, <1>33
     DEF Next

(* Which actions write envelopes. *)
LEMMA Minting ==
  ASSUME [Next]_vars
  PROVE  \/ chains' = chains
         \/ Claim \/ Decide \/ Narrow \/ Restore \/ Grant
BY DEF Next, vars, Draft, TakeReleased, Load, Dispatch, RunTools, Preflight, ComposeAsIs,
       CannotCompact, GiveUp, Announce, Post, CallFails, SurfaceFails, JobEnds, Unread, Unfinished,
       Debit, Unverified, HaltViolation, Record, RecordSummary, VerifySummary, SurfaceLost, Escalate,
       Deny, Put, Refresh, Crash, Restart, Recover

LEMMA LentKept ==
  ASSUME Shaped, Placed, Enveloped, Remembered, Lent, [Next]_vars
  PROVE  Lent'
<1>. SUFFICES ASSUME crashes' = MaxCrashes, NEW s \in Chained, chains'[s] # <<>>
              PROVE  HasBase(chains'[s]) /\ Lends(s)'
  BY DEF Lent
<1>. Histories /\ Records /\ IsSeq(chains[s]) /\ DOMAIN chains = Chained
  BY DEF Shaped, Histories
<1>1. crashes = MaxCrashes
  <2>1. Narrow \/ Restore => crashes' = crashes
    BY DEF Narrow, Restore, Fixed
  <2>. QED  BY <2>1, SummaryStays
<1>2. chains[s] # <<>> => HasBase(chains[s]) /\ Lends(s)
  BY <1>1 DEF Lent
<1>3. ASSUME ~Narrow, ~Restore, chains'[s] = chains[s]
      PROVE  HasBase(chains'[s]) /\ Lends(s)'
  <2>1. chains[s] # <<>> /\ HasBase(chains[s]) /\ Lends(s)
    BY <1>2, <1>3
  <2>. QED  BY <1>3, <2>1, SummaryStays DEF Lends
<1>4. ASSUME worker'.as # "summary" \/ worker'.step # s, NEW x,
             chains'[s] = <<x>> \/ (chains'[s] = Append(chains[s], x) /\ x.by # "policy")
      PROVE  HasBase(chains'[s]) /\ Lends(s)'
  <2>1. HasBase(chains'[s]) /\ BaseIn(chains'[s]) = x /\ Live(chains'[s]) = x
    <3>1. CASE chains'[s] = <<x>>
      BY <3>1, BaseOfOne
    <3>2. CASE chains'[s] = Append(chains[s], x) /\ x.by # "policy"
      BY <1>2, <3>2, BaseOfMore
    <3>. QED  BY <1>4, <3>1, <3>2
  <2>. QED  BY <1>4, <2>1 DEF Lends
<1>5. CASE chains' = chains /\ ~Narrow /\ ~Restore
  BY <1>3, <1>5
<1>6. CASE Claim
  <2>1. ~Narrow /\ ~Restore
    BY <1>6 DEF Claim, Narrow, Restore, AfterRestore
  <2>2. chains'[s] = chains[s] \/ \E x : chains'[s] = <<x>>
    BY <1>6 DEF Claim
  <2>3. worker'.as # "summary"
    BY <1>6, <2>1, SummaryStays DEF Claim, Placed, SummaryPcs
  <2>. QED  BY <1>3, <1>4, <2>1, <2>2, <2>3
<1>7. CASE Decide
  <2>0. worker.pc = "decide"
    BY <1>7, Zenon DEF Decide
  <2>1. ~Narrow /\ ~Restore
    BY <2>0 DEF Narrow, Restore, AfterRestore
  <2>2. chains' = chains \/ \E steps, plan, verdicts : chains' = Minted(steps, plan, verdicts, "policy")
    BY <1>7, Zenon DEF Decide
  <2>3. chains'[s] = chains[s] \/ \E x : chains'[s] = <<x>>
    BY <2>2 DEF Minted
  <2>4. worker'.as # "summary"
    BY <2>0, <2>1, SummaryStays DEF Placed, SummaryPcs
  <2>. QED  BY <1>3, <1>4, <2>1, <2>3, <2>4
<1>8. CASE Grant
  <2>0. row.status = "awaiting_approval" /\ worker' = worker
    BY <1>8 DEF Grant
  <2>1. ~Narrow /\ ~Restore
    BY <2>0 DEF Narrow, Restore, AfterRestore, Placed
  <2>2. worker'.as # "summary"
    BY <2>0 DEF Placed, SummaryPcs
  <2>3. CASE chains' = Minted(request.steps, Recorded.plan, Verdicts, "approver")
    <3>1. chains'[s] = chains[s] \/ \E x : chains'[s] = <<x>>
      BY <2>3 DEF Minted
    <3>. QED  BY <1>3, <1>4, <2>1, <2>2, <3>1
  <2>4. ASSUME NEW t, NEW changes, chains' = Superseded(t, changes, "approver")
        PROVE  HasBase(chains'[s]) /\ Lends(s)'
    <3>. DEFINE x == Supersede(Live(chains[s]), changes, "approver", config.policy)
    <3>1. chains'[s] = chains[s] \/ chains'[s] = Append(chains[s], x)
      BY <2>4 DEF Superseded
    <3>2. x.by = "approver"
      BY GatingSuperseded
    <3>. HIDE DEF x
    <3>. QED  BY <1>3, <1>4, <2>1, <2>2, <3>1, <3>2
  <2>. QED  BY <1>8, <2>3, <2>4, Granted
<1>9. CASE Narrow
  <2>. DEFINE changes == [tier |-> SummarizingTier(IntentOf(worker.step).class), tools |-> {}]
              new == Supersede(Live(chains[s]), changes, "policy", config.policy)
  <2>1. /\ chains' = Superseded(worker.step, changes, "policy") /\ worker.pc = "compose"
        /\ worker'.as = "summary" /\ worker'.step = worker.step
        /\ worker'.envelope = [tier |-> Live(chains[worker.step]).tier,
                               tools |-> Live(chains[worker.step]).tools]
    BY <1>9 DEF Narrow, IntentOf, WorkerRecord, Records
  <2>2. worker.as # "summary" /\ chains[worker.step] # <<>>
    BY <2>1 DEF Placed, SummaryPcs, Enveloped, Running
  <2>3. CASE s = worker.step
    <3>1. chains'[s] = Append(chains[s], new)
      BY <2>1, <2>3 DEF Superseded
    <3>2. new.by = "policy"
      BY GatingSuperseded
    <3>. HIDE DEF new
    <3>3. HasBase(chains'[s]) /\ BaseIn(chains'[s]) = BaseIn(chains[s])
      BY <1>2, <2>2, <2>3, <3>1, <3>2, BaseOfMore
    <3>. QED  BY <1>2, <2>1, <2>2, <2>3, <3>3 DEF Lends
  <2>4. CASE s # worker.step
    <3>1. chains'[s] = chains[s]
      BY <2>1, <2>4 DEF Superseded
    <3>. QED  BY <1>2, <2>1, <2>2, <2>4, <3>1 DEF Lends
  <2>. QED  BY <2>3, <2>4
<1>10. CASE Restore
  <2>. DEFINE new == Supersede(Live(chains[s]), worker.envelope, "policy", config.policy)
  <2>1. /\ chains' = Superseded(worker.step, worker.envelope, "policy")
        /\ worker.pc \in {"restore", "undo", "lost"}
        /\ worker'.as = "step" /\ worker'.step = worker.step
    BY <1>10 DEF Restore, AfterRestore, Records, WorkerRecord
  <2>2. worker.as = "summary" /\ chains[worker.step] # <<>>
    BY <2>1 DEF Placed, Enveloped, Running, SummaryPcs
  <2>3. CASE s = worker.step
    <3>1. chains'[s] = Append(chains[s], new)
      BY <2>1, <2>3 DEF Superseded
    <3>2. worker.envelope = [tier |-> BaseIn(chains[s]).tier, tools |-> BaseIn(chains[s]).tools]
      BY <1>2, <2>2, <2>3 DEF Lends
    <3>3. DOMAIN worker.envelope = {"tier", "tools"}
      BY <3>2
    <3>4. new.by = "policy" /\ new.tier = worker.envelope.tier /\ new.tools = worker.envelope.tools
      BY <3>3, Inherited
    <3>. HIDE DEF new
    <3>5. /\ HasBase(chains'[s]) /\ BaseIn(chains'[s]) = BaseIn(chains[s])
          /\ Live(chains'[s]) = new
      BY <1>2, <2>2, <2>3, <3>1, <3>4, BaseOfMore
    <3>. QED  BY <2>1, <3>2, <3>4, <3>5 DEF Lends
  <2>4. CASE s # worker.step
    <3>1. chains'[s] = chains[s]
      BY <2>1, <2>4 DEF Superseded
    <3>. QED  BY <1>2, <2>1, <2>4, <3>1 DEF Lends
  <2>. QED  BY <2>3, <2>4
<1>. QED  BY <1>5, <1>6, <1>7, <1>8, <1>9, <1>10, Minting

(* What a summary lends is given back, in every reachable state (_summarize). *)
THEOREM AlwaysLent == Spec => []Lent
<1>1. Init => Lent
  BY DEF Init, Lent
<1>2. Governed /\ Lent /\ [Next]_vars => Lent'
  BY LentKept DEF Governed
<1>. QED  BY <1>1, <1>2, AlwaysGoverned, PTL DEF Spec

(* While no worker died a step's own turn runs under the tier and the tools the
   step was given, never under the envelope of a summary (_summarize and its
   finally; lifecycle.md, compaction). *)
THEOREM StepsKeepTheirEnvelope == Spec => StepRunsUnderItsEnvelope
<1>1. ASSUME Governed, Covered, Lent, [Next]_vars, Posts, announced.kind = "step", crashes = MaxCrashes
      PROVE  /\ IntentOf(announced.step).tier = Base(announced.step).tier
             /\ IntentOf(announced.step).tools = Base(announced.step).tools
  <2>. DEFINE s == announced.step
  <2>1. worker.pc = "post"
    BY <1>1, Posting DEF Governed, Shaped
  <2>2. s = worker.step /\ worker.as = "step" /\ s \in Chained
    BY <1>1, <2>1 DEF Covered, InFlight, Governed, Shaped, Records, WorkerRecord
  <2>3. chains[s] # <<>>
    BY <1>1, <2>1, <2>2 DEF Governed, Enveloped, Running, SummaryPcs
  <2>4. Lends(s)
    BY <1>1, <2>2, <2>3 DEF Lent
  <2>5. Base(s) = BaseIn(chains[s])
    BY DEF Base, BaseIn, GivenIn
  <2>. QED  BY <2>2, <2>4, <2>5 DEF Lends, IntentOf
<1>2. Governed /\ Covered /\ Lent /\ [Next]_vars =>
        [Posts /\ announced.kind = "step" /\ crashes = MaxCrashes =>
           /\ IntentOf(announced.step).tier = Base(announced.step).tier
           /\ IntentOf(announced.step).tools = Base(announced.step).tools]_vars
  BY <1>1
<1>. QED  BY <1>2, AlwaysGoverned, AlwaysCovered, AlwaysLent, PTL DEF Spec, StepRunsUnderItsEnvelope

(* ---------------------- minted again from the record --------------------- *)

(* The rows of plans, and that only a drafted one is decided. *)
PlanRows ==
  /\ IsSeq(plans)
  /\ \A k \in DOMAIN plans : {"attempt", "plan", "verdict"} \subseteq DOMAIN plans[k]
  /\ worker.pc = "decide" => plans # <<>>

(* Nothing is minted before a plan is decided or a bypass claimed. *)
Unminted == row.status \in {"queued", "planning"} => \A s \in Chained : chains[s] = <<>>

(* A request that is to supersede an envelope names one step, which has one. *)
Requested ==
  row.status = "awaiting_approval" /\ request.kind \notin {"plan", "gated_step"} =>
    \E s \in Chained : request.steps = {s} /\ chains[s] # <<>>

(* The record of a trajectory drafted once, under the policy it began with. *)
Sound == ~config.changed /\ Len(plans) <= 1 /\ BypassStep \notin DOMAIN Recorded.plan.steps
Rebuildable == Sound => AllRebuild

Recordable == PlanRows /\ Unminted /\ Requested /\ Rebuildable /\ RebuildRefusesOnlyChanged

(* One chain minted again from what is recorded now. *)
RebuildsNow(s, chain) ==
  Rebuilds(s, chain, Declaration, Recorded.plan.steps, Verdicts, config.policy)

(* Superseding again with what a revision holds gives that revision: an amount
   of money taken back to none was inherited. *)
LEMMA SupersedesAgain ==
  ASSUME NEW old, NEW changes, NEW by, NEW policy
  PROVE  LET new == Supersede(old, changes, by, policy)
         IN Supersede(old, [f \in Changeable |-> new[f]], by, policy) = new
<1>. DEFINE new == Supersede(old, changes, by, policy)
            given == [f \in Changeable |-> IF f \in DOMAIN changes THEN changes[f] ELSE old[f]]
            money == IF given.money = NoAmount THEN old.money ELSE given.money
            estimate == [tokens |-> old.tokens, money |-> old.money]
            again == [f \in Changeable |-> new[f]]
<1>1. new = Mint(given.tier, given.tools, given.class, given.tokens, money, given.turns, estimate, by, policy)
  BY DEF Supersede
<1>2. /\ new.tier = given.tier /\ new.tools = given.tools /\ new.class = given.class
      /\ new.tokens = given.tokens /\ new.money = money /\ new.turns = given.turns
  BY <1>1 DEF Mint
<1>3. /\ DOMAIN again = Changeable
      /\ again.tier = given.tier /\ again.tools = given.tools /\ again.class = given.class
      /\ again.tokens = given.tokens /\ again.money = money /\ again.turns = given.turns
  BY <1>2 DEF Changeable
<1>4. (IF again.money = NoAmount THEN old.money ELSE again.money) = money
  BY <1>3
<1>. HIDE DEF given, money, again, new
<1>5. [f \in Changeable |-> IF f \in DOMAIN again THEN again[f] ELSE old[f]] = again
  BY <1>3 DEF again
<1>6. Supersede(old, again, by, policy) =
        Mint(again.tier, again.tools, again.class, again.tokens, money, again.turns, estimate, by, policy)
  BY <1>4, <1>5 DEF Supersede
<1>. QED  BY <1>1, <1>3, <1>6 DEF again, new

(* One more revision of a chain that is minted again is minted again as well. *)
LEMMA RebuildsMore ==
  ASSUME NEW s, NEW c, IsSeq(c), c # <<>>, RebuildsNow(s, c), NEW changes, NEW by
  PROVE  RebuildsNow(s, Append(c, Supersede(Live(c), changes, by, config.policy)))
<1>. DEFINE new == Supersede(Live(c), changes, by, config.policy)
            d == Append(c, new)
            n == Len(c)
<1>1. /\ n \in Nat /\ DOMAIN c = 1 .. n /\ DOMAIN d = 1 .. n + 1
      /\ \A k \in 1 .. n : d[k] = c[k]
      /\ d[n + 1] = new
  BY Appended
<1>2. n # 0
  BY <1>1, EmptySeq DEF IsSeq
<1>3. new.by = by
  BY GatingSuperseded
<1>4. new = Supersede(c[n], [f \in Changeable |-> new[f]], new.by, config.policy)
  BY <1>3, SupersedesAgain DEF Live
<1>5. s # BypassStep => s \in DOMAIN Recorded.plan.steps \cap DOMAIN Verdicts
  <2>1. 1 \in DOMAIN c
    BY <1>1, <1>2
  <2>. QED  BY <2>1 DEF RebuildsNow, Rebuilds
<1>. HIDE DEF n, d, new
<1>6. ASSUME NEW k \in DOMAIN d
      PROVE  d[k] = IF k = 1
                    THEN RemintFirst(s, d[k], Declaration, Recorded.plan.steps, Verdicts, config.policy)
                    ELSE Supersede(d[k - 1], [f \in Changeable |-> d[k][f]], d[k].by, config.policy)
  <2>1. CASE k = n + 1
    <3>1. d[k] = new /\ k # 1 /\ d[k - 1] = c[n]
      BY <1>1, <1>2, <2>1
    <3>. QED  BY <1>4, <3>1
  <2>2. CASE k = 1
    <3>1. k \in DOMAIN c /\ d[k] = c[k]
      BY <1>1, <1>2, <2>2
    <3>. QED  BY <2>2, <3>1 DEF RebuildsNow, Rebuilds
  <2>3. CASE k # 1 /\ k # n + 1
    <3>1. k \in DOMAIN c /\ d[k] = c[k] /\ d[k - 1] = c[k - 1]
      BY <1>1, <2>3
    <3>. QED  BY <2>3, <3>1 DEF RebuildsNow, Rebuilds
  <2>. QED  BY <1>1, <2>1, <2>2, <2>3
<1>. QED  BY <1>5, <1>6 DEF RebuildsNow, Rebuilds, d, new

(* The first revision of a step of the recorded plan. *)
LEMMA MintedFirst ==
  ASSUME NEW s, NEW decl, NEW steps, NEW verdicts, NEW policy, NEW turns, NEW by,
         s # BypassStep, s \in DOMAIN steps \cap DOMAIN verdicts
  PROVE  Rebuilds(s, <<MintForStep(steps[s], verdicts[s], turns, by, policy)>>, decl, steps, verdicts, policy)
<1>. DEFINE new == MintForStep(steps[s], verdicts[s], turns, by, policy)
<1>1. new.turns = turns /\ new.by = by
  BY DEF MintForStep, Mint
<1>2. DOMAIN <<new>> = {1} /\ <<new>>[1] = new
  <2>. HIDE DEF new
  <2>. QED  BY Singleton
<1>3. RemintFirst(s, new, decl, steps, verdicts, policy) = new
  BY <1>1 DEF RemintFirst
<1>. HIDE DEF new
<1>. QED  BY <1>2, <1>3 DEF Rebuilds, new

(* The default envelope of a bypassed trajectory. *)
LEMMA RebuildsBypass ==
  ASSUME NEW tokens, NEW money
  PROVE  RebuildsNow(BypassStep, <<MintBypass(Declaration, tokens, money, config.policy)>>)
<1>. DEFINE new == MintBypass(Declaration, tokens, money, config.policy)
<1>1. new.tokens = tokens /\ new.money = money
  BY DEF MintBypass, Mint
<1>2. DOMAIN <<new>> = {1} /\ <<new>>[1] = new
  <2>. HIDE DEF new
  <2>. QED  BY Singleton
<1>3. RemintFirst(BypassStep, new, Declaration, Recorded.plan.steps, Verdicts, config.policy) = new
  BY <1>1 DEF RemintFirst
<1>. HIDE DEF new
<1>. QED  BY <1>2, <1>3 DEF RebuildsNow, Rebuilds, new

LEMMA NothingToRebuild == \A s : RebuildsNow(s, <<>>)
  BY DEF RebuildsNow, Rebuilds

(* What is minted again depends on the recorded plan, its verdict, the policy
   and the submission, and not on the tokens a ceiling raise may have moved. *)
LEMMA RebuildsThen ==
  ASSUME submission' = submission, config'.policy = config.policy, plans' = plans
  PROVE  /\ \A s, c : RebuildsNow(s, c)' <=> RebuildsNow(s, c)
         /\ Recorded' = Recorded
<1>1. Recorded' = Recorded /\ Verdicts' = Verdicts
  BY DEF Recorded, Verdicts
<1>2. /\ Declaration'.tier = Declaration.tier /\ Declaration'.tools = Declaration.tools
      /\ Declaration'.class = Declaration.class /\ Declaration'.turns = Declaration.turns
  BY DEF Declaration
<1>3. \A tokens, money : MintBypass(Declaration', tokens, money, config.policy)
                         = MintBypass(Declaration, tokens, money, config.policy)
  BY <1>2 DEF MintBypass
<1>4. \A s, i : RemintFirst(s, i, Declaration', Recorded.plan.steps, Verdicts, config.policy)
                = RemintFirst(s, i, Declaration, Recorded.plan.steps, Verdicts, config.policy)
  BY <1>3 DEF RemintFirst
<1>5. ASSUME NEW s, NEW c
      PROVE  Rebuilds(s, c, Declaration', Recorded.plan.steps, Verdicts, config.policy)
             <=> Rebuilds(s, c, Declaration, Recorded.plan.steps, Verdicts, config.policy)
  BY <1>4, Zenon DEF Rebuilds
<1>. QED  BY <1>1, <1>5 DEF RebuildsNow

(* Only drafting adds a row of a plan, and only deciding writes one. *)
LEMMA Drafting ==
  ASSUME [Next]_vars
  PROVE  \/ plans' = plans
         \/ /\ Draft /\ Goes("decide")
            /\ \E attempt, plan :
                 plans' = Append(plans, [attempt |-> attempt, plan |-> plan, verdict |-> NoVerdict])
         \/ Decide
<1>1. CASE Draft
  <2>1. \/ plans' = plans
        \/ /\ Goes("decide")
           /\ \E attempt, plan :
                plans' = Append(plans, [attempt |-> attempt, plan |-> plan, verdict |-> NoVerdict])
    BY <1>1, Zenon DEF Draft
  <2>. QED  BY <1>1, <2>1
<1>. QED
  BY <1>1 DEF Next, vars, Claim, TakeReleased, Load, Dispatch, RunTools, Preflight, ComposeAsIs,
       CannotCompact, Narrow, Restore, GiveUp, Announce, Post, CallFails, SurfaceFails, JobEnds, Unread,
       Unfinished, Debit, Unverified, HaltViolation, Record, RecordSummary, VerifySummary, SurfaceLost,
       Escalate, Grant, Deny, Put, Refresh, Crash, Restart, Recover

(* What a decision writes: the verdict, which speaks of every step of the plan,
   and the envelopes of the steps no gate holds. *)
LEMMA Deciding ==
  ASSUME Decide
  PROVE  /\ worker.pc = "decide"
         /\ \E says :
              /\ plans' = [plans EXCEPT ![Len(plans)].verdict = says]
              /\ DOMAIN says.steps = DOMAIN Live(plans).plan.steps
              /\ \/ chains' = chains
                 \/ \E steps \in SUBSET DOMAIN Live(plans).plan.steps :
                      chains' = Minted(steps, Live(plans).plan, says.steps, "policy")
         /\ \/ End("rejected", "plan")
            \/ \E kind \in {"plan", "gated_step"} : \E steps : Park(kind, steps, NoAsk)
            \/ row' = [row EXCEPT !.status = "executing"] /\ UNCHANGED request
         /\ chains' = chains \/ row' = [row EXCEPT !.status = "executing"]
<1>. DEFINE plan == Live(plans).plan
            estimates == [s \in StepIds(plan) |-> Estimate(plan.steps[s].tier, ledger)]
            rooms == Position(Ceilings, ledger, Strict)
            says == PlanVerdict(plan.steps, estimates, config.policy, config.provider, rooms)
            mintable == {s \in DOMAIN plan.steps : ~says.steps[s].human}
<1>1. /\ worker.pc = "decide"
      /\ plans' = [plans EXCEPT ![Len(plans)].verdict = says]
      /\ \/ End("rejected", "plan") /\ chains' = chains
         \/ (\E kind \in {"plan", "gated_step"} : \E steps : Park(kind, steps, NoAsk)) /\ chains' = chains
         \/ /\ row' = [row EXCEPT !.status = "executing"] /\ UNCHANGED request
            /\ chains' = Minted(mintable, plan, says.steps, "policy")
  BY Zenon DEF Decide
<1>2. DOMAIN says.steps = DOMAIN plan.steps
  <2>. HIDE DEF plan, estimates, rooms
  <2>. QED  BY DEF PlanVerdict
<1>3. mintable \in SUBSET DOMAIN plan.steps
  OBVIOUS
<1>. HIDE DEF says, mintable
<1>. QED  BY <1>1, <1>2, <1>3

LEMMA PlanRowsKept ==
  ASSUME Shaped, Placed, PlanRows, [Next]_vars
  PROVE  PlanRows'
<1>. Records
  BY DEF Shaped
<1>1. CASE plans' = plans
  <2>. USE Ending, Parking, Going DEF Records, WorkerRecord, RowRecord, Ended, Pcs
  <2>1. worker'.pc # "decide" \/ worker' = worker \/ Draft
    <3>1. CASE Claim
      <4>1. worker' = At("plan") \/ worker' = At("load") \/ \E steps : Park("bypass_gate", steps, NoAsk)
        BY <3>1, Zenon DEF Claim
      <4>. QED  BY <4>1 DEF At
    <3>2. CASE Decide
      <4>1. End("rejected", "plan") \/ (\E kind, steps : Park(kind, steps, NoAsk)) \/ worker' = At("load")
        BY <3>2, Zenon DEF Decide
      <4>. QED  BY <4>1 DEF At
    <3>3. CASE TakeReleased \/ Load \/ Dispatch \/ Preflight \/ ComposeAsIs \/ CannotCompact \/ GiveUp
      BY <3>3 DEF TakeReleased, Load, Dispatch, Preflight, ComposeAsIs, CannotCompact, GiveUp, At
    <3>4. CASE Narrow \/ Announce \/ Post \/ SurfaceFails \/ Unfinished \/ Debit \/ Unverified
      BY <3>4 DEF Narrow, Announce, Post, SurfaceFails, Unfinished, Debit, Unverified
    <3>11. CASE Restore
      <4>1. worker.pc \in {"restore", "undo", "lost"} /\ worker'.pc = AfterRestore[worker.pc]
        BY <3>11 DEF Restore, AfterRestore
      <4>. QED  BY <4>1 DEF AfterRestore
    <3>5. CASE CallFails \/ Unread
      BY <3>5, Failing DEF CallFails, Unread
    <3>6. CASE HaltViolation \/ Record \/ RecordSummary \/ SurfaceLost \/ Escalate
      BY <3>6 DEF HaltViolation, Record, RecordSummary, SurfaceLost, Escalate
    <3>7. CASE VerifySummary
      BY <3>7 DEF VerifySummary
    <3>8. CASE Crash
      BY <3>8 DEF Crash, At
    <3>12. CASE Restart
      <4>1. worker' = At(CASE row.status = "planning" -> "plan"
                           [] row.status = "executing" -> "recover"
                           [] OTHER -> "idle")
        BY <3>12 DEF Restart
      <4>. QED  BY <4>1 DEF At
    <3>9. CASE Recover
      BY <3>9, Recovering, Taking
    <3>10. CASE RunTools \/ JobEnds \/ Grant \/ Deny \/ Put \/ Refresh \/ UNCHANGED vars
      BY <3>10 DEF RunTools, JobEnds, Grant, Deny, Put, Refresh, vars
    <3>. QED
      BY <3>1, <3>2, <3>3, <3>4, <3>5, <3>6, <3>7, <3>8, <3>9, <3>10, <3>11, <3>12 DEF Next
  <2>2. CASE Draft
    <3>1. worker.pc = "plan" /\ (Goes("decide") \/ End("failed", "planning"))
      BY <2>2 DEF Draft
    <3>2. CASE End("failed", "planning")
      BY <1>1, <3>2 DEF PlanRows
    <3>3. CASE Goes("decide")
      <4>1. \E x : plans' = Append(plans, x)
        BY <2>2, <3>1, <3>3, Zenon DEF Draft, Goes, End, Idle, At
      <4>. QED  BY <1>1, <4>1, Appended DEF PlanRows
    <3>. QED  BY <3>1, <3>2, <3>3
  <2>. QED  BY <1>1, <2>1, <2>2 DEF PlanRows
<1>2. ASSUME NEW attempt, NEW plan,
             plans' = Append(plans, [attempt |-> attempt, plan |-> plan, verdict |-> NoVerdict])
      PROVE  PlanRows'
  <2>. DEFINE x == [attempt |-> attempt, plan |-> plan, verdict |-> NoVerdict]
  <2>1. plans' = Append(plans, x) /\ {"attempt", "plan", "verdict"} \subseteq DOMAIN x
    BY <1>2
  <2>. HIDE DEF x
  <2>. QED  BY <2>1, Appended DEF PlanRows
<1>3. CASE Decide
  <2>1. PICK says : plans' = [plans EXCEPT ![Len(plans)].verdict = says]
    BY <1>3, Deciding
  <2>2. worker'.pc # "decide"
    <3>1. End("rejected", "plan") \/ (\E kind, steps : Park(kind, steps, NoAsk)) \/ worker' = At("load")
      BY <1>3, Zenon DEF Decide
    <3>. QED  BY <3>1, Ending, Parking DEF At, Ended
  <2>3. DOMAIN plans' = DOMAIN plans /\ DOMAIN plans = 1 .. Len(plans) /\ Len(plans) \in Nat
    BY <2>1, Appended DEF PlanRows
  <2>4. IsSeq(plans')
    <3>1. plans' = [k \in DOMAIN plans |-> plans'[k]]
      BY <2>1
    <3>2. plans' \in [1 .. Len(plans) -> {plans'[k] : k \in DOMAIN plans'}]
      BY <2>3, <3>1
    <3>. QED  BY <2>3, <3>2, SeqDef DEF IsSeq
  <2>5. \A k \in DOMAIN plans : DOMAIN plans'[k] = DOMAIN plans[k]
    BY <2>1
  <2>. QED  BY <2>2, <2>3, <2>4, <2>5 DEF PlanRows
<1>. QED  BY <1>1, <1>2, <1>3, Drafting

(* The only row of a list is the one that is recorded. *)
LEMMA OnlyRow ==
  ASSUME NEW p, IsSeq(p), Len(p) = 1
  PROVE  /\ DOMAIN p = {1} /\ p # <<>>
         /\ (CHOOSE k \in DOMAIN p : \A j \in DOMAIN p :
                \/ p[j].attempt < p[k].attempt
                \/ p[j].attempt = p[k].attempt /\ k <= j) = 1
<1>1. DOMAIN p = 1 .. Len(p)
  BY Appended
<1>2. DOMAIN p = {1}
  BY <1>1
<1>3. p # <<>>
  BY EmptySeq
<1>. QED  BY <1>2, <1>3

LEMMA RecordedOne ==
  ASSUME PlanRows, Len(plans) = 1
  PROVE  DOMAIN plans = {1} /\ Recorded = plans[1] /\ Live(plans) = plans[1]
<1>1. IsSeq(plans)
  BY DEF PlanRows
<1>. QED  BY <1>1, OnlyRow DEF Recorded, Live

LEMMA RecordedOneThen ==
  ASSUME PlanRows', Len(plans') = 1
  PROVE  DOMAIN plans' = {1} /\ Recorded' = plans'[1]
<1>1. IsSeq(plans')
  BY DEF PlanRows
<1>. QED  BY <1>1, OnlyRow DEF Recorded

LEMMA UnmintedKept ==
  ASSUME Shaped, Placed, PlanRows, Unminted, [Next]_vars
  PROVE  Unminted'
<1>. SUFFICES ASSUME row'.status \in {"queued", "planning"}  PROVE \A s \in Chained : chains'[s] = <<>>
  BY DEF Unminted
<1>. Records
  BY DEF Shaped
<1>. USE Ending, Parking, Going DEF Records, WorkerRecord, RowRecord, Ended, Pcs
<1>1. CASE Claim
  <2>1. \/ chains' = chains /\ row.status = "queued"
        \/ row' = [row EXCEPT !.status = "executing", !.leased = TRUE]
        \/ \E steps : Park("bypass_gate", steps, NoAsk)
    BY <1>1, Zenon DEF Claim
  <2>. QED  BY <2>1 DEF Unminted
<1>2. CASE Decide
  <2>1. chains' = chains \/ row' = [row EXCEPT !.status = "executing"]
    BY <1>2, Deciding
  <2>2. row.status = "planning"
    BY <1>2, Deciding DEF Placed
  <2>. QED  BY <2>1, <2>2 DEF Unminted
<1>3. CASE Narrow \/ Restore
  <2>1. row.status = "executing" /\ row' = row
    BY <1>3 DEF Narrow, Restore, AfterRestore, Placed
  <2>. QED  BY <2>1
<1>4. CASE Grant
  <2>1. row'.status = "executing"
    BY <1>4 DEF Grant
  <2>. QED  BY <2>1
<1>5. CASE chains' = chains /\ ~Claim /\ ~Decide /\ ~Narrow /\ ~Restore /\ ~Grant
  <2>1. row.status \in {"queued", "planning"}
    <3>1. CASE Draft \/ TakeReleased \/ Load \/ Dispatch \/ Preflight \/ ComposeAsIs \/ CannotCompact \/ GiveUp
      BY <3>1 DEF Draft, TakeReleased, Load, Dispatch, Preflight, ComposeAsIs, CannotCompact, GiveUp
    <3>2. CASE CallFails \/ Unread
      BY <3>2, Failing DEF CallFails, Unread
    <3>3. CASE RunTools \/ Announce \/ Post \/ SurfaceFails \/ JobEnds \/ Unfinished \/ Debit \/ Unverified
      BY <3>3 DEF RunTools, Announce, Post, SurfaceFails, JobEnds, Unfinished, Debit, Unverified
    <3>4. CASE HaltViolation \/ Record \/ RecordSummary \/ SurfaceLost \/ Escalate \/ VerifySummary
      BY <3>4 DEF HaltViolation, Record, RecordSummary, SurfaceLost, Escalate, VerifySummary
    <3>5. CASE Deny \/ Put \/ Refresh \/ Crash \/ Restart \/ UNCHANGED vars
      BY <3>5 DEF Deny, Put, Refresh, Crash, Restart, vars
    <3>6. CASE Recover
      BY <3>6, Recovering, Taking
    <3>. QED  BY <1>5, <3>1, <3>2, <3>3, <3>4, <3>5, <3>6 DEF Next
  <2>. QED  BY <1>5, <2>1 DEF Unminted
<1>. QED  BY <1>1, <1>2, <1>3, <1>4, <1>5, Minting

LEMMA RequestedKept ==
  ASSUME Shaped, Placed, Enveloped, Requested, [Next]_vars
  PROVE  Requested'
<1>. Records /\ Histories
  BY DEF Shaped
<1>0. \A s \in Chained : chains[s] # <<>> => chains'[s] # <<>>
  BY ChainsGrow, GrownIsSeq DEF Histories
<1>1. CASE row'.status # "awaiting_approval"
  BY <1>1 DEF Requested
<1>2. CASE row'.status = row.status /\ request' = request
  BY <1>0, <1>2 DEF Requested
<1>3. ASSUME NEW kind, NEW s \in Chained, NEW ask, chains'[s] # <<>>, Park(kind, {s}, ask)
      PROVE  Requested'
  <2>1. request'.steps = {s}
    BY <1>3 DEF Park
  <2>. QED  BY <1>3, <2>1 DEF Requested
<1>4. ASSUME NEW kind \in {"plan", "gated_step"}, NEW steps, NEW ask, Park(kind, steps, ask)
      PROVE  Requested'
  <2>1. request'.kind = kind
    BY <1>4 DEF Park
  <2>. QED  BY <2>1 DEF Requested
<1>. USE Ending, Parking, Going DEF Records, WorkerRecord, RowRecord, Ended, Pcs
<1>5. CASE Claim
  <2>1. \/ row' = [row EXCEPT !.status = "planning", !.leased = TRUE]
        \/ row' = [row EXCEPT !.status = "executing", !.leased = TRUE]
        \/ /\ Park("bypass_gate", {BypassStep}, NoAsk)
           /\ \E intent : chains' = [chains EXCEPT ![BypassStep] = <<intent>>]
    BY <1>5, Zenon DEF Claim
  <2>2. CASE \/ row' = [row EXCEPT !.status = "planning", !.leased = TRUE]
             \/ row' = [row EXCEPT !.status = "executing", !.leased = TRUE]
    BY <1>1, <2>2
  <2>3. CASE /\ Park("bypass_gate", {BypassStep}, NoAsk)
             /\ \E intent : chains' = [chains EXCEPT ![BypassStep] = <<intent>>]
    <3>1. BypassStep \in Chained
      BY DEF Chained
    <3>2. chains'[BypassStep] # <<>>
      BY <2>3, <3>1, Singleton DEF Histories
    <3>. QED  BY <1>3, <2>3, <3>1, <3>2
  <2>. QED  BY <2>1, <2>2, <2>3
<1>6. CASE Decide
  <2>1. \/ End("rejected", "plan")
        \/ \E kind \in {"plan", "gated_step"} : \E steps : Park(kind, steps, NoAsk)
        \/ row' = [row EXCEPT !.status = "executing"]
    BY <1>6, Deciding
  <2>. QED  BY <1>1, <1>4, <2>1
<1>7. CASE Draft \/ TakeReleased \/ Load \/ ComposeAsIs \/ CannotCompact \/ GiveUp
  BY <1>7, <1>1, <1>2 DEF Draft, TakeReleased, Load, ComposeAsIs, CannotCompact, GiveUp, Goes
<1>8. CASE Dispatch
  <2>1. UNCHANGED <<row, request>> \/ \E steps : Park("gated_step", steps, NoAsk)
    BY <1>8 DEF Dispatch
  <2>. QED  BY <1>2, <1>4, <2>1
<1>9. CASE Preflight
  <2>1. /\ worker.pc = "step"
        /\ \/ \E pc \in Pcs : Goes(pc)
           \/ \E cause : End("halted", cause)
           \/ Park("ceiling_raise", {worker.step}, NoAsk)
    BY <1>9 DEF Preflight
  <2>2. worker.step \in Chained /\ chains'[worker.step] # <<>>
    BY <1>0, <2>1 DEF Enveloped, Running
  <2>. QED  BY <1>1, <1>2, <1>3, <2>1, <2>2 DEF Goes
<1>10. CASE CallFails \/ Unread
  <2>1. \/ \E status \in {"failed", "halted"} : End(status, "loadcoach")
        \/ \E pc : Goes(pc)
    BY <1>10, Failing DEF CallFails, Unread
  <2>. QED  BY <1>1, <1>2, <2>1 DEF Goes
<1>11. CASE RunTools \/ Narrow \/ Restore \/ Announce \/ Post \/ JobEnds \/ Debit \/ Unverified
  BY <1>11, <1>2 DEF RunTools, Narrow, Restore, Announce, Post, JobEnds, Debit, Unverified, Goes
<1>12. CASE SurfaceFails \/ Unfinished \/ HaltViolation \/ RecordSummary \/ SurfaceLost \/ VerifySummary
  BY <1>12, <1>1, <1>2 DEF SurfaceFails, Unfinished, HaltViolation, RecordSummary, SurfaceLost,
                           VerifySummary, Goes
<1>13. CASE Record \/ Escalate
  <2>1. /\ worker.pc \in {"record", "escalate"}
        /\ \/ \E pc : Goes(pc)
           \/ \E status \in Ended : \E cause : End(status, cause)
           \/ \E ask : Park("reapproval", {worker.step}, ask)
    BY <1>13 DEF Record, Escalate
  <2>2. worker.step \in Chained /\ chains'[worker.step] # <<>>
    BY <1>0, <2>1 DEF Enveloped, Running, SummaryPcs
  <2>3. CASE \E status \in Ended : \E cause : End(status, cause)
    <3>1. PICK status \in Ended : \E cause : End(status, cause)
      BY <2>3
    <3>2. PICK cause : End(status, cause)
      BY <3>1
    <3>. QED  BY <1>1, <3>2
  <2>. QED  BY <1>2, <1>3, <2>1, <2>2, <2>3 DEF Goes
<1>14. CASE Grant \/ Deny
  BY <1>14, <1>1 DEF Grant, Deny
<1>15. CASE Put \/ Refresh \/ Crash \/ Restart \/ UNCHANGED vars
  BY <1>15, <1>2 DEF Put, Refresh, Crash, Restart, vars
<1>16. CASE Recover
  <2>1. \/ End("halted", "recovered") \/ Takes("load") \/ Takes("wait")
    BY <1>16, Recovering
  <2>. QED  BY <1>1, <1>2, <2>1, Taking DEF Takes
<1>. QED
  BY <1>5, <1>6, <1>7, <1>8, <1>9, <1>10, <1>11, <1>12, <1>13, <1>14, <1>15, <1>16 DEF Next

(* A trajectory whose record is sound after a step had a sound one before, the
   same policy, and the same plan unless it is drafted now. *)
LEMMA SoundBefore ==
  ASSUME Shaped, Placed, ConfigRecord, PlanRows, [Next]_vars, Sound'
  PROVE  /\ submission' = submission /\ ~config.changed /\ config'.policy = config.policy
         /\ ~Draft => Sound /\ Recorded'.plan = Recorded.plan
         /\ \/ plans' = plans /\ Sound
            \/ Draft /\ plans = <<>>
            \/ Decide /\ Sound /\ Len(plans) = 1
<1>1. submission' = submission /\ ~config.changed /\ config'.policy = config.policy
  <2>1. CASE Restart
    BY <2>1, ConfigRecordKept DEF Restart, ConfigRecord, Sound
  <2>. QED  BY <2>1, ConfigRecordKept DEF Sound
<1>2. CASE plans' = plans
  <2>1. Recorded' = Recorded
    BY <1>2 DEF Recorded
  <2>. QED  BY <1>1, <1>2, <2>1 DEF Sound
<1>3. ASSUME Draft, NEW x, plans' = Append(plans, x)
      PROVE  plans = <<>>
  <2>1. Len(plans) \in Nat /\ Len(plans') = Len(plans) + 1
    BY <1>3, Appended DEF PlanRows
  <2>2. Len(plans) = 0
    BY <2>1 DEF Sound
  <2>. QED  BY <2>2, EmptySeq DEF PlanRows, IsSeq
<1>4. CASE Decide
  <2>1. PICK says : plans' = [plans EXCEPT ![Len(plans)].verdict = says]
    BY <1>4, Deciding
  <2>2. plans # <<>>
    BY <1>4, Deciding DEF PlanRows
  <2>3. Len(plans) \in Nat \ {0} /\ Len(plans') = Len(plans) /\ DOMAIN plans = 1 .. Len(plans)
    <3>1. Len(plans) \in Nat /\ DOMAIN plans = 1 .. Len(plans) /\ DOMAIN plans' = DOMAIN plans
      BY <2>1, Appended DEF PlanRows
    <3>2. Len(plans) # 0
      BY <2>2, EmptySeq DEF PlanRows, IsSeq
    <3>3. PlanRows'
      BY PlanRowsKept
    <3>4. Len(plans') \in Nat /\ DOMAIN plans' = 1 .. Len(plans')
      BY <3>3, Appended DEF PlanRows
    <3>. QED  BY <3>1, <3>2, <3>4
  <2>4. Len(plans) = 1
    BY <2>3 DEF Sound
  <2>5. Recorded = plans[1]
    BY <2>4, RecordedOne
  <2>6. Recorded' = plans'[1]
    BY <2>3, <2>4, PlanRowsKept, RecordedOneThen
  <2>7. plans'[1].plan = plans[1].plan
    BY <2>1, <2>3, <2>4 DEF PlanRows
  <2>. QED  BY <1>1, <1>4, <2>4, <2>5, <2>6, <2>7 DEF Sound
<1>. QED  BY <1>1, <1>2, <1>3, <1>4, Drafting

LEMMA RebuildableKept ==
  ASSUME Shaped, Placed, Enveloped, ConfigRecord, PlanRows, Unminted, Requested, Rebuildable, [Next]_vars
  PROVE  Rebuildable'
<1>. SUFFICES ASSUME Sound', NEW s \in Chained  PROVE RebuildsNow(s, chains[s])'
  BY DEF Rebuildable, AllRebuild, RebuildsNow
<1>. Histories /\ Records /\ IsSeq(chains[s]) /\ DOMAIN chains = Chained
  BY DEF Shaped, Histories
<1>1. submission' = submission /\ ~config.changed /\ config'.policy = config.policy
  BY SoundBefore
<1>2. Sound => RebuildsNow(s, chains[s])
  BY DEF Rebuildable, AllRebuild, RebuildsNow
<1>3. CASE chains'[s] = <<>>
  BY <1>3, NothingToRebuild DEF RebuildsNow, Rebuilds
<1>4. ASSUME plans' = plans, ~Draft
      PROVE  /\ RebuildsNow(s, chains'[s]) => RebuildsNow(s, chains[s])'
             /\ Sound
  BY <1>1, <1>4, SoundBefore, RebuildsThen DEF RebuildsNow
<1>5. ASSUME plans' = plans, ~Draft, NEW changes, NEW by, NEW t \in Chained, chains[t] # <<>>,
             chains' = Superseded(t, changes, by)
      PROVE  RebuildsNow(s, chains[s])'
  <2>1. CASE s = t
    <3>1. chains'[s] = Append(chains[s], Supersede(Live(chains[s]), changes, by, config.policy))
      BY <1>5, <2>1 DEF Superseded
    <3>2. RebuildsNow(s, chains[s])
      BY <1>2, <1>4, <1>5
    <3>3. RebuildsNow(s, chains'[s])
      BY <1>5, <2>1, <3>1, <3>2, RebuildsMore
    <3>. QED  BY <1>4, <1>5, <3>3
  <2>2. CASE s # t
    <3>1. chains'[s] = chains[s]
      BY <1>5, <2>2 DEF Superseded
    <3>. QED  BY <1>2, <1>4, <1>5, <3>1
  <2>. QED  BY <2>1, <2>2
<1>6. CASE Draft
  <2>1. chains' = chains /\ chains[s] = <<>>
    BY <1>6 DEF Draft, Placed, Unminted
  <2>. QED  BY <1>3, <2>1
<1>7. CASE Decide
  <2>1. chains[s] = <<>> /\ plans # <<>>
    BY <1>7, Deciding DEF Placed, Unminted, PlanRows
  <2>2. PICK says :
          /\ plans' = [plans EXCEPT ![Len(plans)].verdict = says]
          /\ DOMAIN says.steps = DOMAIN Live(plans).plan.steps
          /\ \/ chains' = chains
             \/ \E steps \in SUBSET DOMAIN Live(plans).plan.steps :
                  chains' = Minted(steps, Live(plans).plan, says.steps, "policy")
    BY <1>7, Deciding
  <2>3. /\ DOMAIN plans = {1} /\ Recorded = plans[1] /\ Live(plans) = plans[1] /\ Len(plans) = 1
        /\ Recorded' = plans'[1] /\ Recorded'.plan = Recorded.plan
    <3>1. Sound /\ Recorded'.plan = Recorded.plan
      BY <1>7, SoundBefore DEF Decide, Draft
    <3>2. Len(plans) = 1
      <4>1. Len(plans) \in Nat /\ Len(plans) # 0
        BY <2>1, Appended, EmptySeq DEF PlanRows, IsSeq
      <4>2. Len(plans) <= 1
        BY <3>1 DEF Sound
      <4>3. \A n \in Nat : n # 0 /\ n <= 1 => n = 1
        OBVIOUS
      <4>. QED  BY <4>1, <4>2, <4>3, Zenon
    <3>3. DOMAIN plans = {1} /\ Recorded = plans[1] /\ Live(plans) = plans[1]
      BY <3>2, RecordedOne
    <3>4. PlanRows' /\ DOMAIN plans' = {1}
      BY <2>2, <3>3, PlanRowsKept
    <3>5. Len(plans') = 1
      <4>1. DOMAIN plans' = 1 .. Len(plans') /\ Len(plans') \in Nat
        BY <3>4, Appended DEF PlanRows
      <4>. QED  BY <3>4, <4>1
    <3>6. Recorded' = plans'[1]
      BY <3>4, <3>5, RecordedOneThen
    <3>. QED  BY <3>1, <3>2, <3>3, <3>6
  <2>4. Recorded'.verdict = says
    BY <2>2, <2>3 DEF PlanRows
  <2>5. CASE chains' = chains
    BY <1>3, <2>1, <2>5
  <2>6. ASSUME NEW steps \in SUBSET DOMAIN Live(plans).plan.steps,
               chains' = Minted(steps, Live(plans).plan, says.steps, "policy")
        PROVE  RebuildsNow(s, chains[s])'
    <3>1. CASE s \notin steps
      <4>1. chains'[s] = chains[s]
        BY <2>6, <3>1, Zenon DEF Minted
      <4>. QED  BY <1>3, <2>1, <4>1
    <3>2. CASE s \in steps
      <4>1. chains'[s] = <<MintForStep(Recorded.plan.steps[s], says.steps[s], config.turns, "policy",
                                       config.policy)>>
        BY <2>3, <2>6, <3>2, Zenon DEF Minted
      <4>2. Recorded'.plan = Recorded.plan /\ Verdicts' = says.steps
        BY <2>3, <2>4 DEF Verdicts
      <4>3. s \in DOMAIN Recorded.plan.steps
        BY <2>3, <3>2
      <4>4. s # BypassStep
        BY <4>2, <4>3 DEF Sound
      <4>5. s \in DOMAIN Recorded'.plan.steps \cap DOMAIN Verdicts'
        BY <2>2, <2>3, <4>2, <4>3
      <4>. QED  BY <1>1, <4>1, <4>2, <4>4, <4>5, MintedFirst DEF RebuildsNow
    <3>. QED  BY <3>1, <3>2
  <2>. QED  BY <2>2, <2>5, <2>6
<1>8. CASE Claim
  <2>1. plans' = plans /\ chains[s] = <<>> /\ ~Draft
    BY <1>8 DEF Claim, Draft, Unminted
  <2>2. \/ chains' = chains
        \/ chains' = [chains EXCEPT ![BypassStep] =
                        <<MintBypass(Declaration, row.tokens, submission.money, config.policy)>>]
    BY <1>8, Zenon DEF Claim
  <2>3. CASE chains'[s] = chains[s]
    BY <1>3, <2>1, <2>3
  <2>4. CASE chains'[s] # chains[s]
    <3>1. s = BypassStep
          /\ chains'[s] = <<MintBypass(Declaration, row.tokens, submission.money, config.policy)>>
      BY <2>2, <2>4
    <3>2. RebuildsNow(s, chains'[s])
      BY <3>1, RebuildsBypass
    <3>. QED  BY <1>4, <2>1, <3>2
  <2>. QED  BY <2>3, <2>4
<1>9. CASE Narrow
  <2>1. /\ plans' = plans /\ ~Draft /\ worker.step \in Chained /\ chains[worker.step] # <<>>
        /\ \E changes : chains' = Superseded(worker.step, changes, "policy")
    BY <1>9 DEF Narrow, Draft, Records, WorkerRecord, Enveloped, Running
  <2>. QED  BY <1>5, <2>1
<1>10. CASE Restore
  <2>1. /\ plans' = plans /\ ~Draft /\ worker.step \in Chained /\ chains[worker.step] # <<>>
        /\ chains' = Superseded(worker.step, worker.envelope, "policy")
    BY <1>10 DEF Restore, AfterRestore, Draft, Records, WorkerRecord, Enveloped, Running, SummaryPcs
  <2>. QED  BY <1>5, <2>1
<1>11. CASE Grant
  <2>. DEFINE target == CHOOSE t \in request.steps : TRUE
              minted == Minted(request.steps, Recorded.plan, Verdicts, "approver")
              first == request.kind \in {"plan", "gated_step"}
  <2>1. /\ row.status = "awaiting_approval" /\ plans' = plans /\ worker' = worker
        /\ first => \A t \in request.steps : t \in DOMAIN Recorded.plan.steps \cap DOMAIN Verdicts
        /\ first => chains' = minted
        /\ ~first => \E changes : chains' = Superseded(target, changes, "approver")
    BY <1>11, Zenon DEF Grant
  <2>2. ~Draft
    BY <2>1 DEF Draft, Placed
  <2>3. CASE first
    <3>1. CASE s \notin request.steps
      <4>1. chains'[s] = chains[s]
        BY <2>1, <2>3, <3>1, Zenon DEF Minted
      <4>. QED  BY <1>2, <1>4, <2>1, <2>2, <4>1
    <3>2. CASE s \in request.steps
      <4>1. chains'[s] = <<MintForStep(Recorded.plan.steps[s], Verdicts[s], config.turns, "approver",
                                       config.policy)>>
        BY <2>1, <2>3, <3>2, Zenon DEF Minted
      <4>2. s # BypassStep
        BY <1>4, <2>1, <2>2, <2>3, <3>2 DEF Sound
      <4>3. RebuildsNow(s, chains'[s])
        BY <2>1, <2>3, <3>2, <4>1, <4>2, MintedFirst DEF RebuildsNow
      <4>. QED  BY <1>4, <2>1, <2>2, <4>3
    <3>. QED  BY <3>1, <3>2
  <2>4. CASE ~first
    <3>1. PICK t \in Chained : request.steps = {t} /\ chains[t] # <<>>
      BY <2>1, <2>4 DEF Requested
    <3>2. target = t
      BY <3>1
    <3>. HIDE DEF target, minted, first
    <3>. QED  BY <1>5, <2>1, <2>2, <2>4, <3>1, <3>2
  <2>. QED  BY <2>3, <2>4
<1>12. CASE chains' = chains /\ plans' = plans /\ ~Draft
  BY <1>2, <1>4, <1>12
<1>. QED  BY <1>6, <1>7, <1>8, <1>9, <1>10, <1>11, <1>12, Minting, Drafting

(* Only _load fails a trajectory for its envelopes. *)
LEMMA Refusing ==
  ASSUME Records, [Next]_vars, row'.cause = "rebuild"
  PROVE  row.cause = "rebuild" \/ (Load /\ ~AllRebuild)
<1>. DEFINE Keeps == row' = row \/ row'.cause = row.cause
<1>. "cause" \in DOMAIN row
  BY DEF Records, RowRecord
<1>1. ASSUME NEW status, NEW cause, cause # "rebuild", End(status, cause)  PROVE FALSE
  BY <1>1 DEF End
<1>2. ASSUME NEW kind, NEW steps, NEW ask, kind # "rebuild", Park(kind, steps, ask)  PROVE FALSE
  BY <1>2 DEF Park
<1>3. CASE Claim
  <2>1. \/ row' = [row EXCEPT !.status = "planning", !.leased = TRUE]
        \/ row' = [row EXCEPT !.status = "executing", !.leased = TRUE]
        \/ \E steps : Park("bypass_gate", steps, NoAsk)
    BY <1>3, Zenon DEF Claim
  <2>. QED  BY <1>2, <2>1
<1>4. CASE Decide
  <2>1. \/ End("rejected", "plan")
        \/ \E kind \in {"plan", "gated_step"} : \E steps : Park(kind, steps, NoAsk)
        \/ row' = [row EXCEPT !.status = "executing"]
    BY <1>4, Deciding
  <2>. QED  BY <1>1, <1>2, <2>1
<1>5. CASE Draft \/ TakeReleased \/ ComposeAsIs \/ CannotCompact \/ GiveUp
  BY <1>5, <1>1 DEF Draft, TakeReleased, ComposeAsIs, CannotCompact, GiveUp, Goes
<1>6. CASE Load
  BY <1>6 DEF Load, Goes
<1>7. CASE Dispatch
  BY <1>7, <1>2 DEF Dispatch
<1>8. CASE Preflight
  <2>1. \/ \E pc : Goes(pc)
        \/ \E cause \in {"turns", "egress", "unpriced", "budget"} : End("halted", cause)
        \/ Park("ceiling_raise", {worker.step}, NoAsk)
    BY <1>8 DEF Preflight
  <2>. QED  BY <1>1, <1>2, <2>1 DEF Goes
<1>9. CASE CallFails \/ Unread
  <2>1. \/ \E status \in {"failed", "halted"} : End(status, "loadcoach")
        \/ \E pc : Goes(pc)
    BY <1>9, Failing DEF CallFails, Unread
  <2>. QED  BY <1>1, <2>1 DEF Goes
<1>10. CASE RunTools \/ Narrow \/ Restore \/ Announce \/ Post \/ JobEnds \/ Debit \/ Unverified
  BY <1>10 DEF RunTools, Narrow, Restore, Announce, Post, JobEnds, Debit, Unverified, Goes
<1>11. CASE SurfaceFails \/ Unfinished \/ HaltViolation \/ RecordSummary \/ SurfaceLost \/ VerifySummary
  BY <1>11, <1>1 DEF SurfaceFails, Unfinished, HaltViolation, RecordSummary, SurfaceLost,
                     VerifySummary, Goes
<1>12. CASE Record
  <2>1. \/ \E pc : Goes(pc)
        \/ \E status : End(status, "violation") \/ End(status, "deviations") \/ End(status, "steps")
                        \/ End(status, "finish")
        \/ \E steps, ask : Park("reapproval", steps, ask)
    BY <1>12, Zenon DEF Record
  <2>. QED  BY <1>1, <1>2, <2>1 DEF Goes
<1>16. CASE Escalate
  <2>1. \/ End("halted", "unavailable")
        \/ \E steps, ask : Park("reapproval", steps, ask)
    BY <1>16, Zenon DEF Escalate
  <2>. QED  BY <1>1, <1>2, <2>1
<1>13. CASE Grant \/ Deny
  <2>1. row'.cause \in {"none", "denied"}
    BY <1>13 DEF Grant, Deny
  <2>. QED  BY <2>1
<1>14. CASE Put \/ Refresh \/ Crash \/ Restart \/ UNCHANGED vars
  BY <1>14 DEF Put, Refresh, Crash, Restart, vars
<1>15. CASE Recover
  <2>1. \/ End("halted", "recovered") \/ Takes("load") \/ Takes("wait")
    BY <1>15, Recovering
  <2>. QED  BY <1>1, <2>1 DEF Takes
<1>. QED
  BY <1>3, <1>4, <1>5, <1>6, <1>7, <1>8, <1>9, <1>10, <1>11, <1>12, <1>13, <1>14, <1>15, <1>16 DEF Next

(* What is sound refuses nothing, and no step makes a record sound. *)
LEMMA RefusalsKept ==
  ASSUME Shaped, Placed, ConfigRecord, PlanRows, Rebuildable, RebuildRefusesOnlyChanged, [Next]_vars
  PROVE  RebuildRefusesOnlyChanged'
<1>. SUFFICES ASSUME row'.cause = "rebuild", Sound'  PROVE FALSE
  <2>1. PlanRows'
    BY PlanRowsKept
  <2>2. Len(plans)' \in Nat
    BY <2>1, Appended DEF PlanRows
  <2>. QED  BY <2>2 DEF RebuildRefusesOnlyChanged, Sound
<1>1. CASE Load /\ ~AllRebuild
  <2>1. Sound
    BY <1>1, SoundBefore DEF Load, Draft
  <2>. QED  BY <1>1, <2>1 DEF Rebuildable
<1>2. CASE row.cause = "rebuild"
  <2>1. ~Sound
    <3>1. Len(plans) \in Nat
      BY Appended DEF PlanRows
    <3>. QED  BY <1>2, <3>1 DEF RebuildRefusesOnlyChanged, Sound
  <2>2. Draft /\ plans = <<>>
    BY <2>1, SoundBefore
  <2>3. ~config.changed /\ Len(plans) = 0
    BY <2>2, SoundBefore, EmptySeq
  <2>4. BypassStep \notin DOMAIN Recorded.plan.steps
    BY <2>2 DEF Recorded, NoPlan
  <2>. QED  BY <2>1, <2>3, <2>4 DEF Sound
<1>. QED  BY <1>1, <1>2, Refusing DEF Shaped

(* What a worker will mint again from the record stays what was minted, in
   every reachable state (rebuild_intents). *)
THEOREM AlwaysRecordable == Spec => []Recordable
<1>1. Init => Recordable
  <2>. SUFFICES ASSUME Init PROVE Recordable
    OBVIOUS
  <2>1. plans = <<>> /\ worker.pc = "idle" /\ row.status = "queued" /\ row.cause = "none"
        /\ \A s \in Chained : chains[s] = <<>>
    BY DEF Init, Idle, At
  <2>2. IsSeq(plans) /\ DOMAIN plans = {}
    BY <2>1, EmptySeq DEF IsSeq
  <2>3. PlanRows /\ Unminted /\ Requested /\ RebuildRefusesOnlyChanged
    BY <2>1, <2>2 DEF PlanRows, Unminted, Requested, RebuildRefusesOnlyChanged
  <2>4. Rebuildable
    BY <2>1, NothingToRebuild DEF Rebuildable, AllRebuild, RebuildsNow
  <2>. QED  BY <2>3, <2>4 DEF Recordable
<1>2. Governed /\ Covered /\ Recordable /\ [Next]_vars => Recordable'
  BY PlanRowsKept, UnmintedKept, RequestedKept, RebuildableKept, RefusalsKept
     DEF Recordable, Governed, Covered
<1>. QED  BY <1>1, <1>2, AlwaysGoverned, AlwaysCovered, PTL DEF Spec

(* Whatever grants, raises, compactions and crashes made of its envelopes, a
   trajectory drafted once under the policy it began with is never failed for
   an envelope that does not rebuild (rebuild_intents). *)
THEOREM RebuildsRefuseOnlyChanged == Spec => []RebuildRefusesOnlyChanged
  BY AlwaysRecordable, PTL DEF Recordable

(* ------------------------------- the types ------------------------------- *)

(* Every drafted plan can be run within what was declared, and a verdict speaks
   of each of its steps. *)
Drafted ==
  \A k \in DOMAIN plans :
    /\ plans[k].attempt \in Nat /\ SoundPlan(plans[k].plan, Step, submission)
    /\ plans[k].verdict # NoVerdict =>
         plans[k].verdict.steps \in [StepIds(plans[k].plan) -> VerdictType]

(* The row, and the request that is pending exactly while it waits for one. *)
RowTyped ==
  /\ row.tokens \in Nat \ {0} /\ row.leased \in BOOLEAN
  /\ row.leased => row.status \in {"planning", "executing"}
  /\ (row.status = "awaiting_approval") = (request.kind # "none")
  /\ request.kind \in Kinds

CountsTyped ==
  /\ config.turns \in Nat \ {0}
  /\ announced.id \in 0 .. MaxCalls /\ announced.answer.tokens \in Nat
  /\ deviations \in [Chained -> Nat]

(* As long as it can be resumed some step of the plan has not committed, and
   what runs or was announced is a step of the plan. *)
Underway ==
  /\ row.status \in {"queued", "planning"} => committed = {} /\ announced.id = 0
  /\ row.status \in {"executing", "awaiting_approval"} => Runnable(ThePlan) /\ committed # Steps
  /\ committed \subseteq Steps
  /\ worker.pc \in Running => worker.step \in Steps
  /\ announced.id > 0 => announced.step \in Steps

Books ==
  /\ ledger \in SUBSET EntryType /\ IsFiniteSet(ledger)
  /\ \A s \in Threads : \A k \in DOMAIN threads[s] :
       "tokens" \in DOMAIN threads[s][k] /\ threads[s][k].tokens \in Nat

(* What is asked can be granted. *)
Asks ==
  /\ request.ask \in AskType /\ request.steps \subseteq Chained
  /\ request.kind = "reapproval" =>
       request.ask.category \in Categories \ {"tier_violation", "outside_tool"}

Envelopes == chains \in [Chained -> Seq(IntentType)]

Typed == Drafted /\ RowTyped /\ CountsTyped /\ Underway /\ Books /\ Asks /\ Envelopes

(* ------------------------- which plan is recorded ------------------------ *)

(* A plan that was drafted is the one that is recorded. *)
LEMMA TopRow ==
  ASSUME NEW p, IsSeq(p), p # <<>>, \A k \in DOMAIN p : p[k].attempt \in Nat
  PROVE  (CHOOSE k \in DOMAIN p : \A j \in DOMAIN p :
            \/ p[j].attempt < p[k].attempt
            \/ p[j].attempt = p[k].attempt /\ k <= j) \in DOMAIN p
<1>. DEFINE n == Len(p)
            A == {p[k].attempt : k \in DOMAIN p}
<1>1. n \in Nat /\ DOMAIN p = 1 .. n
  BY Appended
<1>2. 1 \in DOMAIN p
  <2>1. n # 0
    BY EmptySeq DEF IsSeq
  <2>. HIDE DEF n
  <2>. QED  BY <1>1, <2>1
<1>3. IsFiniteSet(A)
  <2>. DEFINE f == [k \in DOMAIN p |-> p[k].attempt]
  <2>1. f \in Surjection(DOMAIN p, A)
    BY DEF Surjection
  <2>2. IsFiniteSet(DOMAIN p)
    BY <1>1, FS_Interval
  <2>. HIDE DEF f, A
  <2>. QED  BY <2>1, <2>2, FS_Surjection
<1>4. A \subseteq Nat /\ A # {}
  BY <1>2
<1>. HIDE DEF A
<1>5. PICK a \in A : \A b \in A : b <= a
  BY <1>3, <1>4, Greatest
<1>. DEFINE T == {k \in DOMAIN p : p[k].attempt = a}
<1>6. T \subseteq Nat /\ T # {}
  BY <1>1, <1>5 DEF A
<1>. HIDE DEF T
<1>7. PICK x \in T : \A y \in T : x <= y
  BY <1>6, Least
<1>8. x \in DOMAIN p /\ p[x].attempt = a
  BY DEF T
<1>9. ASSUME NEW j \in DOMAIN p
      PROVE  p[j].attempt < p[x].attempt \/ (p[j].attempt = p[x].attempt /\ x <= j)
  <2>1. p[j].attempt \in A /\ p[j].attempt \in Nat /\ a \in Nat
    BY <1>4 DEF A
  <2>2. p[j].attempt <= a
    BY <1>5, <2>1
  <2>3. CASE p[j].attempt = a
    BY <1>7, <1>8, <2>3 DEF T
  <2>4. CASE p[j].attempt # a
    BY <1>8, <2>1, <2>2, <2>4
  <2>. QED  BY <2>3, <2>4
<1>. QED  BY <1>8, <1>9

LEMMA RecordedRow ==
  ASSUME IsSeq(plans), Drafted, plans # <<>>
  PROVE  \E k \in DOMAIN plans : Recorded = plans[k]
<1>1. \A k \in DOMAIN plans : plans[k].attempt \in Nat
  BY DEF Drafted
<1>. QED  BY <1>1, TopRow DEF Recorded

LEMMA BypassRuns == Runnable(BypassPlan) /\ StepIds(BypassPlan) = {BypassStep}
<1>. DEFINE plan == BypassPlan
<1>1. plan.order = <<BypassStep>> /\ plan.after = [s \in {BypassStep} |-> {}]
  BY DEF BypassPlan
<1>. HIDE DEF plan
<1>2. StepIds(plan) = {BypassStep}
  <2>1. DOMAIN <<BypassStep>> = {1} /\ <<BypassStep>>[1] = BypassStep
    OBVIOUS
  <2>. QED  BY <1>1, <2>1 DEF StepIds
<1>3. plan.order \in Seq({BypassStep}) /\ plan.after \in [{BypassStep} -> SUBSET {BypassStep}]
  BY <1>1
<1>4. \A B \in SUBSET {BypassStep} : B # {} => \E s \in B : plan.after[s] \cap B = {}
  BY <1>1
<1>5. Runnable(plan)
  BY <1>2, <1>3, <1>4 DEF Runnable
<1>. QED  BY <1>2, <1>5 DEF plan

(* The steps of the plan are steps, and one that was drafted can be run. *)
LEMMA StepsAreSteps ==
  ASSUME IsSeq(plans), Drafted
  PROVE  /\ Steps \subseteq Chained
         /\ submission.bypass \/ plans # <<>> => Runnable(ThePlan)
<1>1. CASE submission.bypass
  BY <1>1, BypassRuns DEF ThePlan, Steps, Chained
<1>2. CASE ~submission.bypass /\ plans # <<>>
  <2>1. PICK k \in DOMAIN plans : Recorded = plans[k]
    BY <1>2, RecordedRow
  <2>2. ThePlan = plans[k].plan
    BY <1>2, <2>1 DEF ThePlan
  <2>3. SoundPlan(plans[k].plan, Step, submission)
    BY DEF Drafted
  <2>. QED  BY <1>2, <2>2, <2>3 DEF SoundPlan, Steps, Chained
<1>3. CASE ~submission.bypass /\ plans = <<>>
  <2>1. ThePlan.order = <<>>
    BY <1>3 DEF ThePlan, Recorded, NoPlan
  <2>2. Steps = {}
    BY <2>1 DEF Steps, StepIds
  <2>. QED  BY <1>3, <2>2
<1>. QED  BY <1>1, <1>2, <1>3

LEMMA RunnableThen ==
  ASSUME IsSeq(plans'), Drafted', plans' # <<>>
  PROVE  Runnable(ThePlan')
<1>1. CASE submission'.bypass
  BY <1>1, BypassRuns DEF ThePlan
<1>2. CASE ~submission'.bypass
  <2>1. \A k \in DOMAIN plans' : plans'[k].attempt \in Nat
    BY DEF Drafted
  <2>2. PICK k \in DOMAIN plans' : Recorded' = plans'[k]
    BY <2>1, TopRow DEF Recorded
  <2>3. SoundPlan(plans'[k].plan, Step, submission')
    BY DEF Drafted
  <2>. QED  BY <1>2, <2>2, <2>3 DEF ThePlan, SoundPlan
<1>. QED  BY <1>1, <1>2

LEMMA SubmissionStays ==
  ASSUME [Next]_vars
  PROVE  submission' = submission
BY DEF Next, vars, Fixed, Claim, Draft, Decide, TakeReleased, Load, Dispatch, RunTools, Preflight,
       ComposeAsIs, CannotCompact, Narrow, Restore, GiveUp, Announce, Post, CallFails, SurfaceFails,
       JobEnds, Unread, Unfinished, Debit, Unverified, HaltViolation, Record, RecordSummary,
       VerifySummary, SurfaceLost, Escalate, Grant, Deny, Put, Refresh, Crash, Restart, Recover

LEMMA PlanStays ==
  ASSUME plans' = plans, submission' = submission
  PROVE  ThePlan' = ThePlan /\ Steps' = Steps /\ Recorded' = Recorded
BY DEF ThePlan, Steps, Recorded

(* The first of what is ready is a step, as long as one has not committed. *)
LEMMA FirstReady ==
  ASSUME NEW plan, Runnable(plan), NEW done \in SUBSET StepIds(plan), done # StepIds(plan)
  PROVE  ReadySteps(plan, done)[1] \in StepIds(plan)
BY SomeStepReady

(* What is decided is the last row, and the verdict names a tier for every step
   of a plan it does not reject. *)
LEMMA LastRow ==
  ASSUME PlanRows, worker.pc = "decide"
  PROVE  /\ Len(plans) \in DOMAIN plans /\ Live(plans) = plans[Len(plans)]
         /\ {"attempt", "plan", "verdict"} \subseteq DOMAIN plans[Len(plans)]
<1>1. Len(plans) \in Nat /\ DOMAIN plans = 1 .. Len(plans) /\ plans # <<>>
  BY Appended DEF PlanRows
<1>2. Len(plans) # 0
  BY <1>1, EmptySeq DEF PlanRows, IsSeq
<1>3. Len(plans) \in DOMAIN plans
  BY <1>1, <1>2
<1>. QED  BY <1>3 DEF Live, PlanRows

LEMMA DecidingTyped ==
  ASSUME PlanRows, Drafted, Books, ConfigRecord, Decide
  PROVE  LET plan == Live(plans).plan
         IN \E says :
              /\ plans' = [plans EXCEPT ![Len(plans)].verdict = says]
              /\ says.steps \in [StepIds(plan) -> VerdictType]
              /\ \/ chains' = chains
                 \/ \E steps \in SUBSET StepIds(plan) :
                      /\ chains' = Minted(steps, plan, says.steps, "policy")
                      /\ \A s \in steps : says.steps[s].tier # NoTier
              /\ \/ End("rejected", "plan")
                 \/ \E kind \in {"plan", "gated_step"} : \E steps \in SUBSET StepIds(plan) :
                      Park(kind, steps, NoAsk)
                 \/ row' = [row EXCEPT !.status = "executing"] /\ worker' = At("load") /\ UNCHANGED request
<1>. DEFINE plan == Live(plans).plan
            estimates == [s \in StepIds(plan) |-> Estimate(plan.steps[s].tier, ledger)]
            rooms == Position(Ceilings, ledger, Strict)
            says == PlanVerdict(plan.steps, estimates, config.policy, config.provider, rooms)
            mintable == {s \in DOMAIN plan.steps : ~says.steps[s].human}
            first == ReadySteps(plan, {})[1]
<1>1. /\ plans' = [plans EXCEPT ![Len(plans)].verdict = says]
      /\ \/ End("rejected", "plan") /\ chains' = chains
         \/ Park("plan", StepIds(plan), NoAsk) /\ chains' = chains
         \/ Park("gated_step", {first}, NoAsk) /\ chains' = chains
         \/ /\ says.outcome # "rejected"
            /\ row' = [row EXCEPT !.status = "executing"] /\ worker' = At("load") /\ UNCHANGED request
            /\ chains' = Minted(mintable, plan, says.steps, "policy")
  BY Zenon DEF Decide
<1>2. SoundPlan(plan, Step, submission)
  BY LastRow DEF Decide, Drafted
<1>. HIDE DEF plan
<1>3. /\ Runnable(plan) /\ DOMAIN plan.steps = StepIds(plan) /\ StepIds(plan) # {}
      /\ \A s \in StepIds(plan) : plan.steps[s].tier \in Tier /\ plan.steps[s].class \in Class
  BY <1>2 DEF SoundPlan, Runnable
<1>4. \A s \in DOMAIN plan.steps : estimates[s] \in EstimateType
  BY <1>3, EstimateTyped DEF Books
<1>5. first \in StepIds(plan)
  BY <1>3, FirstReady
<1>. HIDE DEF estimates, rooms, first
<1>6. /\ says.steps \in [StepIds(plan) -> VerdictType]
      /\ says.outcome # "rejected" => \A s \in StepIds(plan) : says.steps[s].tier # NoTier
  BY <1>3, <1>4, PlanVerdictTyped
<1>7. mintable \in SUBSET StepIds(plan)
  BY <1>3
<1>. HIDE DEF says, mintable
<1>8. \/ End("rejected", "plan")
      \/ \E kind \in {"plan", "gated_step"} : \E steps \in SUBSET StepIds(plan) : Park(kind, steps, NoAsk)
      \/ row' = [row EXCEPT !.status = "executing"] /\ worker' = At("load") /\ UNCHANGED request
  <2>1. StepIds(plan) \in SUBSET StepIds(plan) /\ {first} \in SUBSET StepIds(plan)
    BY <1>5
  <2>. QED  BY <1>1, <2>1
<1>9. \/ chains' = chains
      \/ \E steps \in SUBSET StepIds(plan) :
           /\ chains' = Minted(steps, plan, says.steps, "policy")
           /\ \A s \in steps : says.steps[s].tier # NoTier
  BY <1>1, <1>6, <1>7
<1>. QED  BY <1>1, <1>6, <1>8, <1>9 DEF plan

LEMMA DraftedKept ==
  ASSUME PlanRows, Drafted, Books, ConfigRecord, [Next]_vars
  PROVE  Drafted'
<1>. IsSeq(plans)
  BY DEF PlanRows
<1>1. submission' = submission
  BY SubmissionStays
<1>2. CASE plans' = plans
  BY <1>1, <1>2 DEF Drafted
<1>3. CASE Draft
  <2>1. \/ plans' = plans
        \/ \E document \in Documents, attempt \in 1 .. CorrectiveRetries + 1 :
             /\ Issues(document, submission,
                       IF submission.maxSteps # NoAmount THEN submission.maxSteps ELSE MaxPlanSteps) = {}
             /\ plans' = Append(plans, [attempt |-> attempt, plan |-> PlanOf(document), verdict |-> NoVerdict])
    BY <1>3, Zenon DEF Draft
  <2>2. ASSUME NEW document \in Documents, NEW attempt \in 1 .. CorrectiveRetries + 1,
               Issues(document, submission,
                      IF submission.maxSteps # NoAmount THEN submission.maxSteps ELSE MaxPlanSteps) = {},
               plans' = Append(plans, [attempt |-> attempt, plan |-> PlanOf(document), verdict |-> NoVerdict])
        PROVE  Drafted'
    <3>. DEFINE plan == PlanOf(document)
                new == [attempt |-> attempt, plan |-> plan, verdict |-> NoVerdict]
    <3>1. SoundPlan(plan, Step, submission)
      <4>1. IsDocument(document, Step) /\ submission.class \in Class
        BY GovernanceAssumption DEF ConfigRecord
      <4>. QED  BY <2>2, <4>1, ValidPlansAreSound
    <3>2. attempt \in Nat
      BY GovernanceAssumption
    <3>. HIDE DEF plan
    <3>3. new.attempt = attempt /\ new.plan = plan /\ new.verdict = NoVerdict
      OBVIOUS
    <3>. HIDE DEF new
    <3>4. /\ DOMAIN plans' = 1 .. Len(plans) + 1 /\ DOMAIN plans = 1 .. Len(plans) /\ Len(plans) \in Nat
          /\ \A k \in 1 .. Len(plans) : plans'[k] = plans[k]
          /\ plans'[Len(plans) + 1] = new
      BY <2>2, Appended DEF new, plan
    <3>5. ASSUME NEW k \in DOMAIN plans'
          PROVE  /\ plans'[k].attempt \in Nat /\ SoundPlan(plans'[k].plan, Step, submission)
                 /\ plans'[k].verdict # NoVerdict =>
                      plans'[k].verdict.steps \in [StepIds(plans'[k].plan) -> VerdictType]
      <4>1. CASE k \in 1 .. Len(plans)
        <5>1. plans'[k] = plans[k] /\ k \in DOMAIN plans
          BY <3>4, <4>1
        <5>. QED  BY <5>1 DEF Drafted
      <4>2. CASE k = Len(plans) + 1
        <5>1. plans'[k] = new
          BY <3>4, <4>2
        <5>. QED  BY <3>1, <3>2, <3>3, <5>1
      <4>. QED  BY <3>4, <4>1, <4>2
    <3>. QED  BY <1>1, <3>5 DEF Drafted
  <2>. QED  BY <1>2, <2>1, <2>2
<1>4. CASE Decide
  <2>. DEFINE n == Len(plans)
  <2>1. worker.pc = "decide"
    BY <1>4 DEF Decide
  <2>2. n \in DOMAIN plans /\ Live(plans) = plans[n] /\ {"attempt", "plan", "verdict"} \subseteq DOMAIN plans[n]
    BY <2>1, LastRow
  <2>3. PICK says : /\ plans' = [plans EXCEPT ![n].verdict = says]
                    /\ says.steps \in [StepIds(Live(plans).plan) -> VerdictType]
    BY <1>4, DecidingTyped
  <2>. HIDE DEF n
  <2>4. /\ DOMAIN plans' = DOMAIN plans
        /\ \A k \in DOMAIN plans \ {n} : plans'[k] = plans[k]
        /\ plans'[n].attempt = plans[n].attempt /\ plans'[n].plan = plans[n].plan /\ plans'[n].verdict = says
    BY <2>2, <2>3
  <2>5. ASSUME NEW k \in DOMAIN plans
        PROVE  /\ plans'[k].attempt \in Nat /\ SoundPlan(plans'[k].plan, Step, submission)
               /\ plans'[k].verdict # NoVerdict =>
                    plans'[k].verdict.steps \in [StepIds(plans'[k].plan) -> VerdictType]
    <3>1. CASE k = n
      BY <2>2, <2>3, <2>4, <3>1 DEF Drafted
    <3>2. CASE k # n
      <4>1. plans'[k] = plans[k]
        BY <2>4, <3>2
      <4>. QED  BY <4>1 DEF Drafted
    <3>. QED  BY <3>1, <3>2
  <2>. QED  BY <1>1, <2>4, <2>5 DEF Drafted
<1>. QED  BY <1>2, <1>3, <1>4, Drafting

(* ----------------------- the row and the counters ------------------------ *)

LEMMA RowTypedKept ==
  ASSUME Shaped, Placed, ConfigRecord, PlanRows, Drafted, Books, RowTyped, [Next]_vars
  PROVE  RowTyped'
<1>. Records
  BY DEF Shaped
<1>. USE DEF RowTyped
<1>1. ASSUME NEW status \in Ended, NEW cause, End(status, cause), row.status # "awaiting_approval"
      PROVE  RowTyped'
  <2>1. row'.tokens = row.tokens /\ row'.leased = FALSE /\ row'.status = status /\ request' = request
    BY <1>1 DEF End, Records, RowRecord
  <2>. QED  BY <1>1, <2>1 DEF Ended
<1>2. ASSUME NEW kind \in Kinds \ {"none"}, NEW steps, NEW ask, Park(kind, steps, ask)
      PROVE  RowTyped'
  <2>1. /\ row'.tokens = row.tokens /\ row'.leased = FALSE /\ row'.status = "awaiting_approval"
        /\ request'.kind = kind
    BY <1>2 DEF Park, Records, RowRecord
  <2>. QED  BY <1>2, <2>1
<1>3. CASE UNCHANGED <<row, request>>
  BY <1>3
<1>4. ASSUME NEW status \in {"planning", "executing"}, NEW leased \in BOOLEAN,
             row.status # "awaiting_approval", request' = request,
             \/ row' = [row EXCEPT !.status = status, !.leased = leased]
             \/ row' = [row EXCEPT !.status = status]
      PROVE  RowTyped'
  <2>1. row'.tokens = row.tokens /\ row'.leased \in BOOLEAN /\ row'.status = status
    BY <1>4 DEF Records, RowRecord
  <2>. QED  BY <1>4, <2>1
<1>5. worker.pc \notin {"idle", "down"} => row.status \in {"planning", "executing"}
  BY DEF Placed
<1>6. {"rejected", "failed", "halted", "completed"} \subseteq Ended
  BY DEF Ended
<1>7. {"plan", "gated_step", "bypass_gate", "ceiling_raise", "reapproval"} \subseteq Kinds \ {"none"}
  BY DEF Kinds
<1>8. CASE Claim
  <2>1. /\ row.status = "queued"
        /\ \/ row' = [row EXCEPT !.status = "planning", !.leased = TRUE] /\ request' = request
           \/ row' = [row EXCEPT !.status = "executing", !.leased = TRUE] /\ request' = request
           \/ \E steps : Park("bypass_gate", steps, NoAsk)
    BY <1>8, Zenon DEF Claim
  <2>. QED  BY <1>2, <1>4, <1>7, <2>1
<1>9. CASE Decide
  <2>1. /\ row.status = "planning"
        /\ \/ End("rejected", "plan")
           \/ \E kind \in {"plan", "gated_step"} : \E steps : Park(kind, steps, NoAsk)
           \/ row' = [row EXCEPT !.status = "executing"] /\ request' = request
    BY <1>9, Deciding DEF Placed
  <2>. QED  BY <1>1, <1>2, <1>4, <1>6, <1>7, <2>1
<1>10. CASE Draft \/ Load \/ ComposeAsIs \/ CannotCompact \/ GiveUp
  <2>1. worker.pc \notin {"idle", "down"}
    BY <1>10 DEF Draft, Load, ComposeAsIs, CannotCompact, GiveUp
  <2>2. UNCHANGED <<row, request>> \/ \E status \in {"failed", "halted"} : \E cause : End(status, cause)
    BY <1>10 DEF Draft, Load, ComposeAsIs, CannotCompact, GiveUp, Goes
  <2>. QED  BY <1>1, <1>3, <1>5, <1>6, <2>1, <2>2
<1>11. CASE TakeReleased
  BY <1>4, <1>11 DEF TakeReleased, Records, RowRecord
<1>12. CASE Dispatch
  BY <1>2, <1>3, <1>7, <1>12 DEF Dispatch
<1>13. CASE Preflight
  <2>1. /\ worker.pc = "step"
        /\ \/ UNCHANGED <<row, request>>
           \/ \E cause : End("halted", cause)
           \/ Park("ceiling_raise", {worker.step}, NoAsk)
    BY <1>13 DEF Preflight, Goes
  <2>. QED  BY <1>1, <1>2, <1>3, <1>5, <1>6, <1>7, <2>1
<1>14. CASE CallFails \/ Unread
  <2>1. /\ worker.pc \in {"post", "wait"}
        /\ \/ \E status \in {"failed", "halted"} : End(status, "loadcoach")
           \/ UNCHANGED <<row, request>>
    BY <1>14, Failing DEF CallFails, Unread, Goes
  <2>. QED  BY <1>1, <1>3, <1>5, <1>6, <2>1
<1>15. CASE RunTools \/ Narrow \/ Restore \/ Announce \/ Post \/ JobEnds \/ Debit \/ Unverified
  BY <1>3, <1>15 DEF RunTools, Narrow, Restore, Announce, Post, JobEnds, Debit, Unverified, Goes
<1>16. CASE SurfaceFails \/ Unfinished \/ HaltViolation \/ RecordSummary \/ SurfaceLost \/ VerifySummary
  <2>1. worker.pc \notin {"idle", "down"}
    BY <1>16 DEF SurfaceFails, Unfinished, HaltViolation, RecordSummary, SurfaceLost, VerifySummary
  <2>2. UNCHANGED <<row, request>> \/ \E status \in {"failed", "halted"} : \E cause : End(status, cause)
    BY <1>16 DEF SurfaceFails, Unfinished, HaltViolation, RecordSummary, SurfaceLost, VerifySummary, Goes
  <2>. QED  BY <1>1, <1>3, <1>5, <1>6, <2>1, <2>2
<1>17. CASE Record \/ Escalate
  <2>1. /\ worker.pc \in {"record", "escalate"}
        /\ \/ UNCHANGED <<row, request>>
           \/ \E status \in {"halted", "completed"} : \E cause : End(status, cause)
           \/ \E steps, ask : Park("reapproval", steps, ask)
    BY <1>17 DEF Record, Escalate, Goes
  <2>. QED  BY <1>1, <1>2, <1>3, <1>5, <1>6, <1>7, <2>1
<1>18. CASE Grant
  <2>1. PICK tokens \in IF request.kind = "ceiling_raise" THEN Raises ELSE {row.tokens} :
          row' = [row EXCEPT !.status = "executing", !.cause = "none", !.tokens = tokens]
    BY <1>18, Zenon DEF Grant
  <2>2. row.status = "awaiting_approval" /\ request'.kind = "none"
    BY <1>18 DEF Grant, NoRequest
  <2>3. tokens \in Nat \ {0}
    BY <2>1, GovernanceAssumption
  <2>4. row'.status = "executing" /\ row'.tokens = tokens /\ row'.leased = row.leased
    BY <2>1 DEF Records, RowRecord
  <2>. QED  BY <2>2, <2>3, <2>4 DEF Kinds
<1>19. CASE Deny
  <2>1. row.status = "awaiting_approval" /\ request'.kind = "none"
    BY <1>19 DEF Deny, NoRequest
  <2>2. row'.status = "halted" /\ row'.tokens = row.tokens /\ row'.leased = row.leased
    BY <1>19 DEF Deny, Records, RowRecord
  <2>. QED  BY <2>1, <2>2 DEF Kinds
<1>20. CASE Put \/ Refresh \/ Crash \/ Restart \/ UNCHANGED vars
  BY <1>3, <1>20 DEF Put, Refresh, Crash, Restart, vars
<1>21. CASE Recover
  <2>1. /\ row.status = "executing"
        /\ \/ End("halted", "recovered")
           \/ row' = [row EXCEPT !.leased = TRUE] /\ request' = request
    BY <1>21, Recovering DEF Placed, Takes
  <2>2. CASE row' = [row EXCEPT !.leased = TRUE] /\ request' = request
    <3>1. row'.status = row.status /\ row'.tokens = row.tokens /\ row'.leased = TRUE
      BY <2>2 DEF Records, RowRecord
    <3>. QED  BY <2>1, <2>2, <3>1
  <2>. QED  BY <1>1, <1>6, <2>1, <2>2
<1>. QED
  BY <1>3, <1>8, <1>9, <1>10, <1>11, <1>12, <1>13, <1>14, <1>15, <1>16, <1>17, <1>18, <1>19, <1>20,
     <1>21 DEF Next

(* Every count is one, and what a stored setting makes of the turns is at least
   one turn. *)
LEMMA CountsTypedKept ==
  ASSUME Shaped, ConfigRecord, CountsTyped, [Next]_vars
  PROVE  CountsTyped'
<1>. Records
  BY DEF Shaped
<1>1. config'.turns \in Nat \ {0}
  <2>1. CASE config' = config
    BY <2>1 DEF CountsTyped
  <2>2. CASE Put
    BY <2>2 DEF Put, ConfigRecord, CountsTyped
  <2>3. CASE Refresh
    <3>1. config'.turns = Effective("max_turns_per_step", config.stored, 100 * MaxTurnsPerStep) \div 100
      BY <2>3 DEF Refresh, ConfigRecord
    <3>2. MaxTurnsPerStep \in Nat \ {0}
      BY GovernanceAssumption
    <3>. QED  BY <3>1, <3>2, TurnsTyped
  <2>4. CASE Restart
    <3>1. config'.turns = MaxTurnsPerStep
      BY <2>4 DEF Restart, ConfigRecord
    <3>. QED  BY <3>1, GovernanceAssumption
  <2>. QED
    BY <2>1, <2>2, <2>3, <2>4
       DEF Next, vars, Fixed, Claim, Draft, Decide, TakeReleased, Load, Dispatch, RunTools, Preflight,
           ComposeAsIs, CannotCompact, Narrow, Restore, GiveUp, Announce, Post, CallFails, SurfaceFails,
           JobEnds, Unread, Unfinished, Debit, Unverified, HaltViolation, Record, RecordSummary,
           VerifySummary, SurfaceLost, Escalate, Grant, Deny, Crash, Recover
<1>2. announced'.id \in 0 .. MaxCalls /\ announced'.answer.tokens \in Nat
  <2>. USE DEF CountsTyped, Records, CallRecord
  <2>1. CASE announced' = announced
    BY <2>1
  <2>2. ASSUME NEW job, announced' = [announced EXCEPT !.job = job]
        PROVE  announced'.id \in 0 .. MaxCalls /\ announced'.answer.tokens \in Nat
    BY <2>2
  <2>3. CASE Announce
    <3>1. announced'.id = announced.id + 1 /\ announced'.answer = NoAnswer /\ announced.id < MaxCalls
      BY <2>3 DEF Announce, NoCall
    <3>2. NoAnswer.tokens \in Nat
      BY DEF NoAnswer
    <3>. QED  BY <3>1, <3>2, GovernanceAssumption
  <2>4. CASE JobEnds
    <3>1. ASSUME NEW answer \in Answers,
                 announced' = [announced EXCEPT !.job = "completed", !.answer = answer]
          PROVE  announced'.id \in 0 .. MaxCalls /\ announced'.answer.tokens \in Nat
      BY <3>1, GovernanceAssumption
    <3>. QED  BY <2>2, <2>4, <3>1 DEF JobEnds
  <2>5. CASE Post \/ CallFails \/ Recover
    BY <2>1, <2>2, <2>5 DEF Post, CallFails, Recover
  <2>. QED
    BY <2>1, <2>3, <2>4, <2>5
       DEF Next, vars, Claim, Draft, Decide, TakeReleased, Load, Dispatch, RunTools, Preflight,
           ComposeAsIs, CannotCompact, Narrow, Restore, GiveUp, SurfaceFails, Unread, Unfinished, Debit,
           Unverified, HaltViolation, Record, RecordSummary, VerifySummary, SurfaceLost, Escalate, Grant,
           Deny, Put, Refresh, Crash, Restart
<1>3. deviations' \in [Chained -> Nat]
  <2>1. CASE deviations' = deviations
    BY <2>1 DEF CountsTyped
  <2>2. ASSUME NEW found, Cardinality(found) \in Nat,
               deviations' = [deviations EXCEPT ![worker.step] = deviations[worker.step] + Cardinality(found)]
        PROVE  deviations' \in [Chained -> Nat]
    BY <2>2 DEF CountsTyped, Records, WorkerRecord
  <2>3. CASE VerifySummary
    <3>. DEFINE intent == IntentOf(worker.step)
                facts == [tier |-> intent.tier, egress |-> announced.answer.egress, class |-> intent.class,
                          used |-> 1, tokens |-> 0, tools |-> {}, failed |-> FALSE, finished |-> FALSE]
                found == IF announced.answer.verified THEN Deviates(facts, intent, submission.tools) ELSE {}
    <3>1. deviations' = [deviations EXCEPT ![worker.step] = deviations[worker.step] + Cardinality(found)]
      BY <2>3, Zenon DEF VerifySummary
    <3>2. Cardinality(found) \in Nat
      BY DeviatesFinite, FS_EmptySet
    <3>. HIDE DEF found
    <3>. QED  BY <2>2, <3>1, <3>2
  <2>4. CASE Escalate
    <3>. DEFINE intent == IntentOf(worker.step)
                facts == [tier |-> NoTier, egress |-> 0, class |-> intent.class,
                          used |-> Asked(worker.step) + 1, tokens |-> Spent(worker.step), tools |-> {},
                          failed |-> TRUE, finished |-> FALSE]
                found == Deviates(facts, intent, submission.tools)
    <3>1. deviations' = [deviations EXCEPT ![worker.step] = deviations[worker.step] + Cardinality(found)]
      BY <2>4, Zenon DEF Escalate
    <3>2. Cardinality(found) \in Nat
      BY DeviatesFinite
    <3>. HIDE DEF found
    <3>. QED  BY <2>2, <3>1, <3>2
  <2>5. CASE Record
    <3>. DEFINE found == Deviates(Facts(worker.step, announced.answer), IntentOf(worker.step), submission.tools)
    <3>1. deviations' = [deviations EXCEPT ![worker.step] = deviations[worker.step] + Cardinality(found)]
      BY <2>5, Zenon DEF Record
    <3>2. Cardinality(found) \in Nat
      BY DeviatesFinite
    <3>. HIDE DEF found
    <3>. QED  BY <2>2, <3>1, <3>2
  <2>. QED
    BY <2>1, <2>3, <2>4, <2>5
       DEF Next, vars, Claim, Draft, Decide, TakeReleased, Load, Dispatch, RunTools, Preflight,
           ComposeAsIs, CannotCompact, Narrow, Restore, GiveUp, Announce, Post, CallFails, SurfaceFails,
           JobEnds, Unread, Unfinished, Debit, Unverified, HaltViolation, RecordSummary, SurfaceLost,
           Grant, Deny, Put, Refresh, Crash, Restart, Recover
<1>. QED  BY <1>1, <1>2, <1>3 DEF CountsTyped

(* ---------------------------- the ledger --------------------------------- *)

LEMMA IntentTyped ==
  ASSUME Envelopes, NEW s \in Chained, chains[s] # <<>>
  PROVE  IntentOf(s) \in IntentType
<1>1. chains[s] \in Seq(IntentType)
  BY DEF Envelopes
<1>2. Len(chains[s]) \in 1 .. Len(chains[s]) /\ DOMAIN chains[s] = 1 .. Len(chains[s])
  <2>1. Len(chains[s]) \in Nat /\ Len(chains[s]) # 0
    BY <1>1, EmptySeq, LenProperties
  <2>2. DOMAIN chains[s] = 1 .. Len(chains[s])
    BY <1>1, LenProperties
  <2>. QED  BY <2>1, <2>2
<1>3. chains[s][Len(chains[s])] \in IntentType
  BY <1>1, <1>2, ElementOfSeq
<1>. QED  BY <1>3 DEF IntentOf, Live

(* A turn is charged to a tier of the snapshot, for a number of tokens; what
   recovery owes was debited with the turn. *)
LEMMA BooksKept ==
  ASSUME Governed, CountsTyped, Books, Envelopes, [Next]_vars
  PROVE  Books'
<1>. Shaped /\ Records /\ Histories
  BY DEF Governed, Shaped
<1>1. ledger' \in SUBSET EntryType /\ IsFiniteSet(ledger')
  <2>1. CASE ledger' = ledger
    BY <2>1 DEF Books
  <2>2. CASE Debit
    <3>1. /\ worker.pc = "wait" /\ announced.id \in Nat \ {0} /\ worker.step \in Chained
          /\ announced.answer.tokens \in Nat
      BY <2>2 DEF Debit, Governed, Counted, Records, CallRecord, WorkerRecord, CountsTyped
    <3>2. chains[worker.step] # <<>>
      BY <3>1 DEF Governed, Enveloped, Running, SummaryPcs
    <3>3. IntentOf(worker.step).tier \in Tier
      BY <3>1, <3>2, IntentTyped DEF IntentType
    <3>. DEFINE entry == Charge(ledger, announced.id, IntentOf(worker.step).tier, announced.answer.tokens, TRUE)
    <3>4. entry \in EntryType
      BY <3>1, <3>3, ChargeTyped DEF Books
    <3>5. ledger' = ledger \/ ledger' = ledger \cup {entry}
      BY <2>2, Zenon DEF Debit
    <3>. HIDE DEF entry
    <3>. QED  BY <2>1, <3>4, <3>5, FS_AddElement DEF Books
  <2>3. CASE Recover
    <3>1. Owed = {}
      BY DEF Owed, Governed, LedgerMatchesTurns
    <3>2. ledger' = ledger
      BY <2>3, <3>1 DEF Recover
    <3>. QED  BY <2>1, <3>2
  <2>. QED
    BY <2>1, <2>2, <2>3
       DEF Next, vars, Claim, Draft, Decide, TakeReleased, Load, Dispatch, RunTools, Preflight,
           ComposeAsIs, CannotCompact, Narrow, Restore, GiveUp, Announce, Post, CallFails, SurfaceFails,
           JobEnds, Unread, Unfinished, Unverified, HaltViolation, Record, RecordSummary, VerifySummary,
           SurfaceLost, Escalate, Grant, Deny, Put, Refresh, Crash, Restart
<1>. DEFINE
     Tallied(t) == \A s \in Threads : \A k \in DOMAIN t[s] : "tokens" \in DOMAIN t[s][k] /\ t[s][k].tokens \in Nat
<1>2. Tallied(threads')
  <2>1. CASE threads' = threads
    BY <2>1 DEF Books
  <2>2. ASSUME NEW s \in Threads, NEW r, "tokens" \in DOMAIN r, r.tokens \in Nat,
               threads' = [threads EXCEPT ![s] = Append(threads[s], r)]
        PROVE  Tallied(threads')
    <3>1. ASSUME NEW q \in Threads, NEW k \in DOMAIN threads'[q]
          PROVE  "tokens" \in DOMAIN threads'[q][k] /\ threads'[q][k].tokens \in Nat
      <4>1. CASE q # s
        <5>1. threads'[q] = threads[q]
          BY <2>2, <4>1
        <5>. QED  BY <3>1, <5>1 DEF Books
      <4>2. CASE q = s
        <5>1. threads'[q] = Append(threads[s], r) /\ IsSeq(threads[s])
          BY <2>2, <4>2 DEF Histories
        <5>2. /\ k \in 1 .. Len(threads[s]) + 1 /\ Len(threads[s]) \in Nat
              /\ DOMAIN threads[s] = 1 .. Len(threads[s])
              /\ \A j \in 1 .. Len(threads[s]) : threads'[q][j] = threads[s][j]
              /\ threads'[q][Len(threads[s]) + 1] = r
          BY <3>1, <5>1, Appended
        <5>3. CASE k = Len(threads[s]) + 1
          BY <2>2, <5>2, <5>3
        <5>4. CASE k # Len(threads[s]) + 1
          <6>1. k \in DOMAIN threads[s] /\ threads'[q][k] = threads[s][k]
            BY <5>2, <5>4
          <6>. QED  BY <6>1 DEF Books
        <5>. QED  BY <5>3, <5>4
      <4>. QED  BY <4>1, <4>2
    <3>. QED  BY <3>1
  <2>. HIDE DEF Tallied
  <2>3. CASE RunTools /\ threads' = [threads EXCEPT ![worker.step] =
                             Append(@, [Live(@) EXCEPT !.finish = "tools_ran", !.tokens = 0])]
    <3>1. worker.step \in Threads /\ threads[worker.step] # <<>>
      BY <2>3 DEF Records, WorkerRecord, RunTools, Pending, Chained, Threads
    <3>2. "tokens" \in DOMAIN Live(threads[worker.step])
      <4>1. IsSeq(threads[worker.step])
        BY <3>1 DEF Histories
      <4>2. /\ Len(threads[worker.step]) \in Nat
            /\ DOMAIN threads[worker.step] = 1 .. Len(threads[worker.step])
        BY <4>1, Appended
      <4>3. Len(threads[worker.step]) # 0
        BY <3>1, <4>1, EmptySeq DEF IsSeq
      <4>4. Len(threads[worker.step]) \in DOMAIN threads[worker.step]
        BY <4>2, <4>3
      <4>. QED  BY <3>1, <4>4 DEF Books, Live
    <3>. DEFINE r == [Live(threads[worker.step]) EXCEPT !.finish = "tools_ran", !.tokens = 0]
    <3>3. /\ "tokens" \in DOMAIN r /\ r.tokens \in Nat
          /\ threads' = [threads EXCEPT ![worker.step] = Append(threads[worker.step], r)]
      BY <2>3, <3>1, <3>2 DEF Histories
    <3>. HIDE DEF r
    <3>. QED  BY <2>2, <3>1, <3>3
  <2>4. ASSUME NEW s \in Threads, threads' = [threads EXCEPT ![s] = Append(@, NewRow)]
        PROVE  Tallied(threads')
    <3>1. "tokens" \in DOMAIN NewRow /\ NewRow.tokens \in Nat
      BY DEF NewRow, CountsTyped
    <3>2. threads' = [threads EXCEPT ![s] = Append(threads[s], NewRow)]
      BY <2>4
    <3>. QED  BY <2>2, <3>1, <3>2
  <2>. QED  BY <2>1, <2>3, <2>4, ThreadsGrow
<1>. QED  BY <1>1, <1>2 DEF Books

(* What a step has spent is a number. *)
LEMMA SpentTyped ==
  ASSUME Histories, Books, NEW s \in Chained
  PROVE  Spent(s) \in Nat
<1>. DEFINE E == {threads[s][k] : k \in DOMAIN threads[s]}
<1>1. s \in Threads
  BY DEF Chained, Threads
<1>2. IsSeq(threads[s])
  BY <1>1 DEF Histories
<1>3. IsFiniteSet(E)
  BY <1>2, ListedFinite DEF IsSeq
<1>4. \A e \in E : e["tokens"] \in Nat
  BY <1>1 DEF Books
<1>. HIDE DEF E
<1>5. Amounts(E, "tokens") \in Nat
  BY <1>3, <1>4, AmountsTyped
<1>. QED  BY <1>5 DEF Spent, E

(* ------------------------- what a person is asked ------------------------ *)

LEMMA AskForTyped ==
  ASSUME ConfigRecord, Envelopes, NEW s \in Chained, chains[s] # <<>>,
         NEW category \in Categories, NEW facts, facts.tokens \in Nat, facts.class = IntentOf(s).class
  PROVE  AskFor(category, s, facts) \in AskType /\ AskFor(category, s, facts).category = category
<1>. DEFINE intent == IntentOf(s)
            tools == IF category = "undeclared_tool"
                     THEN (facts.tools \ intent.tools) \cap submission.tools ELSE {}
            next == NextEscalation(intent.tier, intent.class)
            tokens == IF category = "budget_overrun" THEN facts.tokens ELSE 0
            slice == IF category = "budget_overrun" THEN intent.tokens ELSE 0
            turns == IF category = "turn_overrun" THEN intent.turns ELSE 0
            ask == [category |-> category, tools |-> tools, next |-> next, tokens |-> tokens,
                    slice |-> slice, turns |-> turns, class |-> facts.class]
<1>1. intent.class \in Class /\ intent.tokens \in Nat /\ intent.turns \in Nat
  BY IntentTyped DEF IntentType
<1>2. submission.tools \subseteq Tool
  BY GovernanceAssumption DEF ConfigRecord
<1>3. next \in Tier \cup {NoTier}
  BY MovesAreAdmitted
<1>4. tools \in SUBSET Tool
  BY <1>2
<1>5. tokens \in Nat /\ slice \in Nat /\ turns \in Nat /\ facts.class \in Class
  BY <1>1
<1>6. AskFor(category, s, facts) = ask
  BY Zenon DEF AskFor
<1>7. ask.category = category
  OBVIOUS
<1>. HIDE DEF intent, tools, next, tokens, slice, turns
<1>8. ask \in AskType
  BY <1>3, <1>4, <1>5 DEF AskType
<1>. HIDE DEF ask
<1>. QED  BY <1>6, <1>7, <1>8

(* What asks for an approval: the worker that ran a step, of a step it ran, and
   nothing that no grant can give. *)
LEMMA AsksKept ==
  ASSUME Governed, ConfigRecord, PlanRows, Drafted, Books, CountsTyped, Underway, Envelopes, Asks, [Next]_vars
  PROVE  Asks'
<1>. Shaped /\ Records /\ Histories /\ Placed /\ IsSeq(plans)
  BY DEF Governed, Shaped, PlanRows
<1>0. Steps \subseteq Chained
  BY StepsAreSteps
<1>1. NoAsk \in AskType
  BY DEF NoAsk, AskType, Class
<1>2. CASE request' = request
  BY <1>2 DEF Asks
<1>3. ASSUME NEW kind, kind # "reapproval", NEW steps \in SUBSET Chained, Park(kind, steps, NoAsk)
      PROVE  Asks'
  <2>1. request'.kind = kind /\ request'.steps = steps /\ request'.ask = NoAsk
    BY <1>3 DEF Park
  <2>. QED  BY <1>1, <1>3, <2>1 DEF Asks
<1>4. ASSUME NEW category \in Categories \ {"tier_violation", "outside_tool"}, NEW facts,
             worker.pc \in {"record", "escalate"},
             facts.tokens \in Nat, facts.class = IntentOf(worker.step).class,
             Park("reapproval", {worker.step}, AskFor(category, worker.step, facts))
      PROVE  Asks'
  <2>1. worker.step \in Chained /\ chains[worker.step] # <<>>
    BY <1>4 DEF Records, WorkerRecord, Governed, Enveloped, Running, SummaryPcs
  <2>. DEFINE ask == AskFor(category, worker.step, facts)
  <2>2. ask \in AskType /\ ask.category = category
    BY <1>4, <2>1, AskForTyped
  <2>3. request'.kind = "reapproval" /\ request'.steps = {worker.step} /\ request'.ask = ask
    BY <1>4 DEF Park
  <2>. HIDE DEF ask
  <2>. QED  BY <2>1, <2>2, <2>3 DEF Asks
<1>5. CASE request' = NoRequest
  <2>1. request'.kind = "none" /\ request'.steps = {} /\ request'.ask = NoAsk
    BY <1>5 DEF NoRequest
  <2>. QED  BY <1>1, <2>1 DEF Asks
<1>6. \A status, cause : End(status, cause) => request' = request
  BY DEF End
<1>7. CASE Claim
  <2>1. request' = request \/ Park("bypass_gate", {BypassStep}, NoAsk)
    BY <1>7, Zenon DEF Claim
  <2>. QED  BY <1>2, <1>3, <2>1 DEF Chained
<1>8. CASE Decide
  <2>1. StepIds(Live(plans).plan) \subseteq Chained
    BY <1>8, LastRow DEF Decide, Drafted, SoundPlan, Chained
  <2>2. \/ request' = request
        \/ \E kind \in {"plan", "gated_step"} : \E steps \in SUBSET StepIds(Live(plans).plan) :
             Park(kind, steps, NoAsk)
    BY <1>6, <1>8, DecidingTyped
  <2>. QED  BY <1>2, <1>3, <2>1, <2>2
<1>9. CASE Dispatch
  <2>. DEFINE first == ReadySteps(ThePlan, committed)[1]
  <2>1. worker.pc = "dispatch" /\ (request' = request \/ Park("gated_step", {first}, NoAsk))
    BY <1>9 DEF Dispatch
  <2>2. Runnable(ThePlan) /\ committed \in SUBSET StepIds(ThePlan) /\ committed # StepIds(ThePlan)
    BY <2>1 DEF Underway, Placed, Steps
  <2>3. first \in Chained
    BY <1>0, <2>2, FirstReady DEF Steps
  <2>. HIDE DEF first
  <2>. QED  BY <1>2, <1>3, <2>1, <2>3
<1>10. CASE Preflight
  <2>1. request' = request \/ Park("ceiling_raise", {worker.step}, NoAsk)
    BY <1>6, <1>10 DEF Preflight, Goes
  <2>. QED  BY <1>2, <1>3, <2>1 DEF Records, WorkerRecord
<1>11. CASE Record
  <2>. DEFINE s == worker.step
              facts == Facts(s, announced.answer)
              found == Deviates(facts, IntentOf(s), submission.tools)
              category == FirstAsked(found, config.policy.scope)
  <2>1. \/ request' = request
        \/ Asking(found, config.policy.scope) # {} /\ Park("reapproval", {s}, AskFor(category, s, facts))
    <3>1. \/ \E pc : Goes(pc)
          \/ \E status, cause : End(status, cause)
          \/ Asking(found, config.policy.scope) # {} /\ Park("reapproval", {s}, AskFor(category, s, facts))
      BY <1>11, Zenon DEF Record
    <3>. QED  BY <1>6, <3>1 DEF Goes
  <2>2. worker.pc = "record" /\ s \in Chained
    BY <1>11 DEF Record, Records, WorkerRecord
  <2>3. found \in SUBSET Categories
    BY DeviatesFinite
  <2>4. facts.tokens \in Nat /\ facts.class = IntentOf(s).class
    <3>1. Spent(s) \in Nat /\ announced.answer.tokens \in Nat
      BY <2>2, SpentTyped DEF CountsTyped
    <3>. QED  BY <3>1 DEF Facts
  <2>. HIDE DEF facts, found
  <2>5. Asking(found, config.policy.scope) # {} => category \in Categories \ {"tier_violation", "outside_tool"}
    BY <2>3, FirstAskedTyped
  <2>. HIDE DEF category
  <2>. QED  BY <1>2, <1>4, <2>1, <2>2, <2>4, <2>5
<1>12. CASE Escalate
  <2>. DEFINE s == worker.step
              facts == [tier |-> NoTier, egress |-> 0, class |-> IntentOf(s).class, used |-> Asked(s) + 1,
                        tokens |-> Spent(s), tools |-> {}, failed |-> TRUE, finished |-> FALSE]
  <2>1. \/ request' = request
        \/ Park("reapproval", {s}, AskFor("tier_escalation", s, facts))
    <3>1. \/ \E status, cause : End(status, cause)
          \/ Park("reapproval", {s}, AskFor("tier_escalation", s, facts))
      BY <1>12, Zenon DEF Escalate
    <3>. QED  BY <1>6, <3>1
  <2>2. worker.pc = "escalate" /\ s \in Chained
    BY <1>12 DEF Escalate, Records, WorkerRecord
  <2>3. facts.tokens \in Nat /\ facts.class = IntentOf(s).class
    BY <2>2, SpentTyped
  <2>4. "tier_escalation" \in Categories \ {"tier_violation", "outside_tool"}
    BY DEF Categories
  <2>. HIDE DEF facts
  <2>. QED  BY <1>2, <1>4, <2>1, <2>2, <2>3, <2>4
<1>13. CASE Grant \/ Deny
  BY <1>5, <1>13 DEF Grant, Deny
<1>14. CASE CallFails \/ Unread
  <2>1. \/ \E status \in {"failed", "halted"} : End(status, "loadcoach")
        \/ \E pc : Goes(pc)
    BY <1>14, Failing DEF CallFails, Unread
  <2>. QED  BY <1>2, <1>6, <2>1 DEF Goes
<1>15. CASE Draft \/ TakeReleased \/ Load \/ RunTools \/ ComposeAsIs \/ CannotCompact \/ Narrow \/ Restore \/ GiveUp
  BY <1>2, <1>6, <1>15 DEF Draft, TakeReleased, Load, RunTools, ComposeAsIs, CannotCompact, Narrow, Restore,
                           GiveUp, Goes
<1>16. CASE Announce \/ Post \/ SurfaceFails \/ JobEnds \/ Unfinished \/ Debit \/ Unverified
  BY <1>2, <1>6, <1>16 DEF Announce, Post, SurfaceFails, JobEnds, Unfinished, Debit, Unverified, Goes
<1>17. CASE HaltViolation \/ RecordSummary \/ VerifySummary \/ SurfaceLost
  BY <1>2, <1>6, <1>17 DEF HaltViolation, RecordSummary, VerifySummary, SurfaceLost, Goes
<1>18. CASE Put \/ Refresh \/ Crash \/ Restart \/ UNCHANGED vars
  BY <1>2, <1>18 DEF Put, Refresh, Crash, Restart, vars
<1>19. CASE Recover
  <2>1. \/ End("halted", "recovered") \/ Takes("load") \/ Takes("wait")
    BY <1>19, Recovering
  <2>. QED  BY <1>2, <1>6, <2>1 DEF Takes
<1>. QED
  BY <1>7, <1>8, <1>9, <1>10, <1>11, <1>12, <1>13, <1>14, <1>15, <1>16, <1>17, <1>18, <1>19 DEF Next

(* ------------------------------ the envelopes ----------------------------- *)

LEMMA DeclarationTyped ==
  ASSUME ConfigRecord, RowTyped
  PROVE  /\ Declaration.tier \in Tier \cup {NoTier} /\ Declaration.tools \in SUBSET Tool
         /\ Declaration.class \in Class /\ Declaration.turns \in Nat \ {0}
         /\ submission.money \in Positive
<1>1. /\ submission.class \in Class /\ submission.tools \subseteq Tool
      /\ submission.tier \in Tier \cup {NoTier}
      /\ submission.money \in Positive /\ submission.maxSteps \in Positive
  BY GovernanceAssumption DEF ConfigRecord
<1>2. (IF submission.maxSteps # NoAmount THEN submission.maxSteps ELSE MaxSteps) \in Nat \ {0}
  BY <1>1, GovernanceAssumption DEF Positive
<1>. QED  BY <1>1, <1>2 DEF Declaration

LEMMA SupersededTyped ==
  ASSUME Envelopes, NEW s \in Chained, NEW changes, NEW by, chains[s] # <<>>,
         Supersede(Live(chains[s]), changes, by, config.policy) \in IntentType,
         chains' = Superseded(s, changes, by)
  PROVE  Envelopes'
<1>. DEFINE new == Supersede(Live(chains[s]), changes, by, config.policy)
            chain == Append(chains[s], new)
<1>1. chains' = [chains EXCEPT ![s] = chain]
  BY Zenon DEF Superseded
<1>2. chains[s] \in Seq(IntentType)
  BY DEF Envelopes
<1>. HIDE DEF new
<1>3. chain \in Seq(IntentType)
  BY <1>2, AppendProperties DEF new
<1>. HIDE DEF chain
<1>. QED  BY <1>1, <1>3 DEF Envelopes

LEMMA MintedTyped ==
  ASSUME Envelopes, NEW steps, NEW plan, NEW verdicts, NEW by,
         \A s \in steps \cap Chained :
           MintForStep(plan.steps[s], verdicts[s], config.turns, by, config.policy) \in IntentType,
         chains' = Minted(steps, plan, verdicts, by)
  PROVE  Envelopes'
<1>1. ASSUME NEW s \in Chained  PROVE chains'[s] \in Seq(IntentType)
  <2>. DEFINE new == MintForStep(plan.steps[s], verdicts[s], config.turns, by, config.policy)
  <2>1. chains'[s] = IF s \in steps THEN <<new>> ELSE chains[s]
    BY DEF Minted
  <2>2. s \in steps => new \in IntentType
    OBVIOUS
  <2>3. chains[s] \in Seq(IntentType)
    BY DEF Envelopes
  <2>. HIDE DEF new
  <2>. QED  BY <2>1, <2>2, <2>3
<1>2. chains' = [s \in Chained |-> chains'[s]]
  BY DEF Minted
<1>. QED  BY <1>1, <1>2 DEF Envelopes

(* Every envelope is one an ExecutionIntent can be built of. *)
LEMMA EnvelopesKept ==
  ASSUME Governed, ConfigRecord, Recordable, Drafted, RowTyped, CountsTyped, Underway, Books, Asks, Envelopes,
         [Next]_vars
  PROVE  Envelopes'
<1>. Shaped /\ Records /\ Histories /\ Placed /\ PlanRows /\ IsSeq(plans)
  BY DEF Governed, Shaped, Recordable, PlanRows
<1>0. {"policy", "approver", "bypass_default"} \subseteq Minters
  BY DEF Minters
<1>1. CASE chains' = chains
  BY <1>1 DEF Envelopes
<1>2. CASE Claim
  <2>. DEFINE intent == MintBypass(Declaration, row.tokens, submission.money, config.policy)
  <2>1. intent \in IntentType
    BY DeclarationTyped, MintBypassTyped DEF RowTyped
  <2>2. chains' = chains \/ chains' = [chains EXCEPT ![BypassStep] = <<intent>>]
    BY <1>2, Zenon DEF Claim
  <2>. HIDE DEF intent
  <2>3. <<intent>> \in Seq(IntentType)
    BY <2>1
  <2>. QED  BY <1>1, <2>2, <2>3 DEF Envelopes
<1>3. CASE Decide
  <2>. DEFINE plan == Live(plans).plan
  <2>1. PICK says :
          /\ says.steps \in [StepIds(plan) -> VerdictType]
          /\ \/ chains' = chains
             \/ \E steps \in SUBSET StepIds(plan) :
                  /\ chains' = Minted(steps, plan, says.steps, "policy")
                  /\ \A s \in steps : says.steps[s].tier # NoTier
    BY <1>3, DecidingTyped
  <2>2. SoundPlan(plan, Step, submission)
    BY <1>3, LastRow DEF Decide, Drafted
  <2>. HIDE DEF plan
  <2>3. ASSUME NEW steps \in SUBSET StepIds(plan), chains' = Minted(steps, plan, says.steps, "policy"),
               \A s \in steps : says.steps[s].tier # NoTier
        PROVE  Envelopes'
    <3>1. ASSUME NEW s \in steps \cap Chained
          PROVE  MintForStep(plan.steps[s], says.steps[s], config.turns, "policy", config.policy) \in IntentType
      <4>1. plan.steps[s].tools \in SUBSET Tool /\ plan.steps[s].class \in Class
        BY <2>2, GovernanceAssumption DEF SoundPlan, ConfigRecord
      <4>2. says.steps[s] \in VerdictType /\ says.steps[s].tier # NoTier
        BY <2>1, <2>3
      <4>. QED  BY <1>0, <4>1, <4>2, MintForStepTyped DEF CountsTyped
    <3>. QED  BY <2>3, <3>1, MintedTyped
  <2>. QED  BY <1>1, <2>1, <2>3
<1>4. CASE Narrow
  <2>. DEFINE s == worker.step
              tier == SummarizingTier(IntentOf(s).class)
              changes == [tier |-> tier, tools |-> {}]
  <2>1. /\ worker.pc = "compose" /\ s \in Chained /\ tier # NoTier
        /\ chains' = Superseded(s, changes, "policy")
    BY <1>4, Zenon DEF Narrow, Records, WorkerRecord
  <2>2. chains[s] # <<>>
    BY <2>1 DEF Governed, Enveloped, Running
  <2>3. Live(chains[s]) \in IntentType
    BY <2>1, <2>2, IntentTyped DEF IntentOf
  <2>4. tier \in Tier
    BY <2>1, SummariesStayLocal
  <2>. HIDE DEF tier
  <2>5. DOMAIN changes = {"tier", "tools"} /\ changes["tier"] \in Tier /\ changes["tools"] \in SUBSET Tool
    BY <2>4
  <2>. HIDE DEF changes
  <2>6. Supersede(Live(chains[s]), changes, "policy", config.policy) \in IntentType
    BY <1>0, <2>3, <2>5, SupersedeTyped
  <2>. QED  BY <2>1, <2>2, <2>6, SupersededTyped
<1>5. CASE Restore
  <2>. DEFINE s == worker.step
  <2>1. worker.pc \in {"restore", "undo", "lost"} /\ s \in Chained /\ chains' = Superseded(s, worker.envelope, "policy")
    BY <1>5 DEF Restore, AfterRestore, Records, WorkerRecord
  <2>2. chains[s] # <<>> /\ worker.as = "summary"
    BY <2>1 DEF Governed, Enveloped, Running, SummaryPcs, Placed
  <2>3. Live(chains[s]) \in IntentType
    BY <2>1, <2>2, IntentTyped DEF IntentOf
  <2>4. PICK j \in DOMAIN chains[s] : worker.envelope = [tier |-> chains[s][j].tier, tools |-> chains[s][j].tools]
    BY <2>2 DEF Governed, Remembered
  <2>5. chains[s][j] \in IntentType
    <3>1. chains[s] \in Seq(IntentType)
      BY <2>1 DEF Envelopes
    <3>2. DOMAIN chains[s] = 1 .. Len(chains[s])
      BY <3>1, LenProperties
    <3>. QED  BY <3>1, <3>2, ElementOfSeq
  <2>6. /\ DOMAIN worker.envelope = {"tier", "tools"}
        /\ worker.envelope["tier"] \in Tier /\ worker.envelope["tools"] \in SUBSET Tool
    BY <2>4, <2>5 DEF IntentType
  <2>7. Supersede(Live(chains[s]), worker.envelope, "policy", config.policy) \in IntentType
    BY <1>0, <2>3, <2>6, SupersedeTyped
  <2>. QED  BY <2>1, <2>2, <2>7, SupersededTyped
<1>6. CASE Grant
  <2>. DEFINE target == CHOOSE s \in request.steps : TRUE
  <2>1. PICK tokens \in IF request.kind = "ceiling_raise" THEN Raises ELSE {row.tokens} :
          LET declared == [Declaration EXCEPT !.tokens = tokens]
              first == request.kind \in {"plan", "gated_step"}
              widening == CASE request.kind = "bypass_gate" -> <<>>
                            [] request.kind = "ceiling_raise" ->
                                 IF target # BypassStep THEN <<>>
                                 ELSE [tokens |-> tokens, money |-> declared.money]
                            [] OTHER -> Widening(request.ask, IntentOf(target))
          IN /\ first => \A s \in request.steps :
                           /\ s \in DOMAIN Recorded.plan.steps \cap DOMAIN Verdicts
                           /\ Mintable(Recorded.plan.steps[s], Verdicts[s], declared)
             /\ request.kind = "reapproval" => Grantable(request.ask, declared)
             /\ chains' = IF first THEN Minted(request.steps, Recorded.plan, Verdicts, "approver")
                          ELSE Superseded(target, widening, "approver")
    BY <1>6, Zenon DEF Grant
  <2>2. row.status = "awaiting_approval"
    BY <1>6 DEF Grant
  <2>3. CASE request.kind \in {"plan", "gated_step"}
    <3>. DEFINE plan == Recorded.plan
                verdicts == Verdicts
    <3>1. chains' = Minted(request.steps, plan, verdicts, "approver")
      BY <2>1, <2>3
    <3>2. ASSUME NEW s \in request.steps \cap Chained
          PROVE  MintForStep(plan.steps[s], verdicts[s], config.turns, "approver", config.policy) \in IntentType
      <4>1. s \in DOMAIN plan.steps /\ s \in DOMAIN verdicts /\ verdicts[s].tier # NoTier
        BY <2>1, <2>3, Zenon DEF Mintable
      <4>2. plans # <<>>
        <5>1. DOMAIN NoPlan.plan.steps = {}
          BY DEF NoPlan
        <5>. QED  BY <4>1, <5>1 DEF Recorded
      <4>3. PICK k \in DOMAIN plans : Recorded = plans[k]
        BY <4>2, RecordedRow
      <4>4. plan = plans[k].plan /\ verdicts = plans[k].verdict.steps
        BY <4>3 DEF Verdicts
      <4>. HIDE DEF plan, verdicts
      <4>5. plans[k].verdict # NoVerdict
        <5>1. DOMAIN NoVerdict.steps = {}
          BY DEF NoVerdict
        <5>. QED  BY <4>1, <4>4, <5>1
      <4>6. SoundPlan(plan, Step, submission) /\ verdicts \in [StepIds(plan) -> VerdictType]
        BY <4>4, <4>5 DEF Drafted
      <4>7. verdicts[s] \in VerdictType /\ s \in StepIds(plan)
        BY <4>1, <4>6
      <4>8. plan.steps[s].tools \in SUBSET Tool /\ plan.steps[s].class \in Class
        BY <4>6, <4>7, GovernanceAssumption DEF SoundPlan, ConfigRecord
      <4>. QED  BY <1>0, <4>1, <4>7, <4>8, MintForStepTyped DEF CountsTyped
    <3>. HIDE DEF plan, verdicts
    <3>. QED  BY <3>1, <3>2, MintedTyped
  <2>4. CASE request.kind \notin {"plan", "gated_step"}
    <3>1. PICK s \in Chained : request.steps = {s} /\ chains[s] # <<>>
      BY <2>2, <2>4 DEF Recordable, Requested
    <3>2. target = s
      BY <3>1
    <3>. HIDE DEF target
    <3>. DEFINE old == Live(chains[s])
    <3>3. old \in IntentType /\ old = IntentOf(s)
      BY <3>1, IntentTyped DEF IntentOf
    <3>4. request.kind \in {"bypass_gate", "ceiling_raise", "reapproval"}
      BY <2>2, <2>4 DEF RowTyped, Kinds
    <3>5. PICK widening :
            /\ chains' = Superseded(s, widening, "approver")
            /\ request.kind = "bypass_gate" => widening = <<>>
            /\ request.kind = "ceiling_raise" =>
                 widening = <<>> \/ widening = [tokens |-> tokens, money |-> submission.money]
            /\ request.kind = "reapproval" => widening = Widening(request.ask, old)
      <4>. DEFINE declared == [Declaration EXCEPT !.tokens = tokens]
                  given == CASE request.kind = "bypass_gate" -> <<>>
                             [] request.kind = "ceiling_raise" ->
                                  IF target # BypassStep THEN <<>>
                                  ELSE [tokens |-> tokens, money |-> declared.money]
                             [] OTHER -> Widening(request.ask, IntentOf(target))
      <4>1. chains' = Superseded(target, given, "approver")
        BY <2>1, <2>4, Zenon
      <4>2. declared.money = submission.money
        BY DEF Declaration
      <4>. HIDE DEF declared, old
      <4>3. request.kind = "bypass_gate" => given = <<>>
        OBVIOUS
      <4>4. request.kind = "ceiling_raise" =>
              given = <<>> \/ given = [tokens |-> tokens, money |-> submission.money]
        BY <4>2
      <4>5. request.kind = "reapproval" => given = Widening(request.ask, old)
        BY <3>2, <3>3
      <4>. HIDE DEF given
      <4>. QED  BY <3>2, <4>1, <4>3, <4>4, <4>5
    <3>. HIDE DEF old
    <3>6. Supersede(old, widening, "approver", config.policy) \in IntentType
      <4>1. CASE widening = <<>>
        <5>1. DOMAIN widening = {}
          BY <4>1
        <5>. QED  BY <1>0, <3>3, <5>1, SupersedeTyped
      <4>2. CASE widening = [tokens |-> tokens, money |-> submission.money] /\ request.kind = "ceiling_raise"
        <5>1. tokens \in Nat \ {0}
          BY <2>1, <4>2, GovernanceAssumption
        <5>2. submission.money \in Positive
          BY DeclarationTyped
        <5>3. /\ DOMAIN widening = {"tokens", "money"}
              /\ widening["tokens"] \in Nat \ {0} /\ widening["money"] \in Positive
          BY <4>2, <5>1, <5>2
        <5>. QED  BY <1>0, <3>3, <5>3, SupersedeTyped
      <4>3. CASE request.kind = "reapproval"
        <5>. DEFINE declared == [Declaration EXCEPT !.tokens = tokens]
        <5>1. Grantable(request.ask, declared)
          BY <2>1, <4>3, Zenon
        <5>. HIDE DEF declared
        <5>2. /\ request.ask \in AskType
              /\ request.ask.category \in Categories \ {"tier_violation", "outside_tool"}
          BY <4>3 DEF Asks
        <5>3. Supersede(old, Widening(request.ask, old), "approver", config.policy) \in IntentType
          BY <1>0, <3>3, <5>1, <5>2, WideningTyped
        <5>. QED  BY <3>5, <4>3, <5>3
      <4>. QED  BY <3>4, <3>5, <4>1, <4>2, <4>3
    <3>. QED  BY <3>1, <3>5, <3>6, SupersededTyped DEF old
  <2>. QED  BY <2>3, <2>4
<1>. QED  BY <1>1, <1>2, <1>3, <1>4, <1>5, <1>6, Minting

(* ------------------------------ what is running --------------------------- *)

LEMMA UnderwayKept ==
  ASSUME Governed, ConfigRecord, PlanRows, PlanRows', Drafted, Drafted', Books, CountsTyped, Underway,
         [Next]_vars
  PROVE  Underway'
<1>. Shaped /\ Records /\ Histories /\ Placed /\ IsSeq(plans)
  BY DEF Governed, Shaped, PlanRows
<1>. DEFINE resumable == {"executing", "awaiting_approval"}
<1>1. {"plan", "decide", "load", "dispatch", "idle", "down", "recover"} \cap Running = {}
  BY DEF Running, SummaryPcs
<1>2. CASE row.status = "planning" /\ row'.status \in {"planning"} \cup resumable \cup Ended
           /\ committed' = committed /\ announced' = announced /\ worker'.pc \notin Running
           /\ (row'.status \in resumable => plans' # <<>>)
  <2>1. committed' = {} /\ announced'.id = 0
    BY <1>2 DEF Underway
  <2>2. row'.status \in resumable => Runnable(ThePlan') /\ Steps' # {}
    BY <1>2, RunnableThen DEF PlanRows, Runnable, Steps
  <2>. QED  BY <1>2, <2>1, <2>2 DEF Underway, Ended
<1>3. CASE Draft
  <2>1. row.status = "planning" /\ committed' = committed /\ announced' = announced
    BY <1>3 DEF Draft, Placed
  <2>2. Goes("decide") \/ End("failed", "planning")
    BY <1>3, Zenon DEF Draft
  <2>3. row'.status \in {"planning"} \cup Ended /\ worker'.pc \in {"decide", "idle"}
    BY <2>1, <2>2, Going, Ending DEF Pcs, Ended
  <2>. QED  BY <1>1, <1>2, <2>1, <2>3 DEF Ended
<1>4. CASE Decide
  <2>1. row.status = "planning" /\ committed' = committed /\ announced' = announced
    BY <1>4 DEF Decide, Placed
  <2>2. \/ End("rejected", "plan")
        \/ \E kind \in {"plan", "gated_step"} : \E steps : Park(kind, steps, NoAsk)
        \/ row' = [row EXCEPT !.status = "executing"] /\ worker' = At("load")
    BY <1>4, DecidingTyped
  <2>3. row'.status \in {"planning"} \cup resumable \cup Ended /\ worker'.pc \in {"load", "idle"}
    BY <2>2, Parking, Ending DEF At, Ended, Records, RowRecord
  <2>4. plans' # <<>>
    <3>1. DOMAIN plans' = DOMAIN plans /\ Len(plans) \in DOMAIN plans
      <4>1. PICK says : plans' = [plans EXCEPT ![Len(plans)].verdict = says]
        BY <1>4, Deciding
      <4>. QED  BY <1>4, <4>1, LastRow DEF Decide
    <3>. QED  BY <3>1
  <2>. QED  BY <1>1, <1>2, <2>1, <2>3, <2>4
<1>5. CASE plans' = plans /\ ~Draft /\ ~Decide
  <2>1. ThePlan' = ThePlan /\ Steps' = Steps
    BY <1>5, SubmissionStays, PlanStays
  <2>2. ASSUME committed' = committed,
               announced'.id = announced.id, announced'.step = announced.step,
               \/ row'.status = row.status \/ row'.status \in Ended
               \/ row.status \in resumable /\ row'.status \in resumable,
               worker'.pc \in Running => worker'.step = worker.step /\ worker.pc \in Running
        PROVE  Underway'
    BY <2>1, <2>2 DEF Underway, Ended
  <2>3. ASSUME NEW status \in Ended, NEW cause, End(status, cause),
               committed' = committed, announced' = announced
        PROVE  Underway'
    <3>1. row'.status = status /\ worker'.pc = "idle"
      BY <2>3, Ending
    <3>. QED  BY <1>1, <2>2, <2>3, <3>1
  <2>4. ASSUME NEW kind, NEW steps, NEW ask, Park(kind, steps, ask), row.status = "executing",
               committed' = committed, announced' = announced
        PROVE  Underway'
    <3>1. row'.status = "awaiting_approval" /\ worker'.pc = "idle"
      BY <2>4, Parking
    <3>. QED  BY <1>1, <2>2, <2>4, <3>1
  <2>5. ASSUME NEW pc \in Pcs, Goes(pc), pc \in Running => worker.pc \in Running,
               committed' = committed, announced'.id = announced.id, announced'.step = announced.step
        PROVE  Underway'
    <3>1. row' = row /\ worker'.pc = pc /\ worker'.step = worker.step
      BY <2>5, Going
    <3>. QED  BY <2>2, <2>5, <3>1
  <2>6. Running \subseteq Pcs /\ {"failed", "halted", "completed"} \subseteq Ended
    BY DEF Running, SummaryPcs, Pcs, Ended
  <2>7. CASE Claim
    <3>1. row.status = "queued" /\ committed' = committed /\ announced' = announced
      BY <2>7 DEF Claim
    <3>2. \/ row' = [row EXCEPT !.status = "planning", !.leased = TRUE] /\ worker' = At("plan")
          \/ /\ submission.bypass
             /\ \/ row' = [row EXCEPT !.status = "executing", !.leased = TRUE] /\ worker' = At("load")
                \/ Park("bypass_gate", {BypassStep}, NoAsk)
      BY <2>7, Zenon DEF Claim
    <3>3. worker'.pc \notin Running
      BY <1>1, <3>2, Parking DEF At
    <3>4. row'.status = "planning" \/ (submission.bypass /\ row'.status \in resumable)
      BY <3>2, Parking DEF Records, RowRecord
    <3>5. committed' = {} /\ announced'.id = 0
      BY <3>1 DEF Underway
    <3>6. submission.bypass => Runnable(ThePlan) /\ Steps # {}
      BY StepsAreSteps DEF Runnable, Steps
    <3>. QED  BY <2>1, <3>3, <3>4, <3>5, <3>6 DEF Underway
  <2>8. CASE TakeReleased
    <3>1. row'.status = row.status /\ worker'.pc = "load"
      BY <2>8 DEF TakeReleased, At, Records, RowRecord
    <3>. QED  BY <1>1, <2>2, <2>8, <3>1 DEF TakeReleased
  <2>9. CASE Load \/ CannotCompact \/ GiveUp \/ SurfaceFails \/ HaltViolation
    <3>1. committed' = committed /\ announced' = announced
      BY <2>9 DEF Load, CannotCompact, GiveUp, SurfaceFails, HaltViolation
    <3>2. Goes("dispatch") \/ \E status \in {"failed", "halted"} : \E cause : End(status, cause)
      BY <2>9 DEF Load, CannotCompact, GiveUp, SurfaceFails, HaltViolation
    <3>3. "dispatch" \in Pcs
      BY DEF Pcs
    <3>. QED  BY <1>1, <2>3, <2>5, <2>6, <3>1, <3>2, <3>3
  <2>10. CASE Dispatch
    <3>. DEFINE ready == ReadySteps(ThePlan, committed)
    <3>1. /\ worker.pc = "dispatch" /\ committed' = committed /\ announced' = announced
          /\ \/ \E k \in DOMAIN ready : worker' = [At("step") EXCEPT !.step = ready[k]] /\ row' = row
             \/ \E steps : Park("gated_step", steps, NoAsk)
      BY <2>10, Zenon DEF Dispatch
    <3>2. row.status = "executing"
      BY <3>1 DEF Placed
    <3>3. ASSUME NEW k \in DOMAIN ready, worker' = [At("step") EXCEPT !.step = ready[k]], row' = row
          PROVE  Underway'
      <4>1. Runnable(ThePlan) /\ committed \in SUBSET StepIds(ThePlan)
        BY <3>2 DEF Underway, Steps
      <4>2. ready[k] \in Steps
        BY <4>1, SomeStepReady DEF Steps
      <4>. HIDE DEF ready
      <4>3. worker'.step = ready[k]
        BY <3>3 DEF At
      <4>. QED  BY <2>1, <3>1, <3>3, <4>2, <4>3 DEF Underway
    <3>. QED  BY <2>4, <3>1, <3>2, <3>3
  <2>11. CASE RunTools \/ ComposeAsIs \/ Narrow \/ Restore
    <3>1. worker.pc \in Running /\ row' = row /\ committed' = committed /\ announced' = announced
      BY <2>11 DEF RunTools, ComposeAsIs, Narrow, Restore, AfterRestore, Running, SummaryPcs, Goes
    <3>2. worker'.step = worker.step
      BY <2>11 DEF RunTools, ComposeAsIs, Narrow, Restore, Goes, Records, WorkerRecord
    <3>. QED  BY <2>2, <3>1, <3>2
  <2>12. CASE Preflight
    <3>1. /\ worker.pc = "step" /\ row.status = "executing"
          /\ committed' = committed /\ announced' = announced
      BY <2>12 DEF Preflight, Placed
    <3>2. \/ \E pc \in Pcs : Goes(pc)
          \/ \E cause : End("halted", cause)
          \/ Park("ceiling_raise", {worker.step}, NoAsk)
      BY <2>12 DEF Preflight, Pcs
    <3>3. worker.pc \in Running
      BY <3>1 DEF Running
    <3>. QED  BY <2>3, <2>4, <2>5, <2>6, <3>1, <3>2, <3>3
  <2>13. CASE Announce
    <3>1. /\ worker.pc = "announce" /\ committed' = committed /\ Goes("post")
          /\ announced'.step = worker.step
      BY <2>13 DEF Announce, NoCall
    <3>2. row' = row /\ worker'.pc = "post" /\ worker'.step = worker.step
      BY <3>1, Going DEF Pcs
    <3>3. worker.step \in Steps /\ row.status = "executing"
      BY <3>1 DEF Underway, Running, SummaryPcs, Placed
    <3>. QED  BY <2>1, <3>1, <3>2, <3>3 DEF Underway
  <2>14. CASE Post \/ JobEnds
    <3>1. /\ committed' = committed /\ announced'.id = announced.id /\ announced'.step = announced.step
          /\ row' = row
      BY <2>14 DEF Post, JobEnds, Goes, Records, CallRecord
    <3>2. worker'.step = worker.step /\ (worker' = worker \/ worker.pc = "post")
      BY <2>14 DEF Post, JobEnds, Goes, Records, WorkerRecord
    <3>. QED  BY <2>2, <3>1, <3>2 DEF Running, SummaryPcs
  <2>15. CASE CallFails \/ Unread
    <3>1. /\ worker.pc \in {"post", "wait"} /\ committed' = committed
          /\ announced'.id = announced.id /\ announced'.step = announced.step
      BY <2>15 DEF CallFails, Unread, Records, CallRecord
    <3>2. \/ \E status \in {"failed", "halted"} : End(status, "loadcoach")
          \/ \E pc \in {"violated", "escalate", "undo", "lost"} : Goes(pc)
      BY <2>15, Failing DEF CallFails, Unread
    <3>3. CASE \E status \in {"failed", "halted"} : End(status, "loadcoach")
      <4>1. row'.status \in Ended /\ worker'.pc = "idle"
        BY <2>6, <3>3, Ending
      <4>. QED  BY <1>1, <2>2, <3>1, <4>1
    <3>. QED  BY <2>5, <3>1, <3>2, <3>3 DEF Running, SummaryPcs, Pcs
  <2>16. CASE Unfinished \/ Debit \/ Unverified \/ RecordSummary \/ SurfaceLost
    <3>1. worker.pc \in Running /\ committed' = committed /\ announced' = announced
      BY <2>16 DEF Unfinished, Debit, Unverified, RecordSummary, SurfaceLost, Running, SummaryPcs
    <3>2. End("halted", "job") \/ \E pc \in Pcs : Goes(pc)
      BY <2>16 DEF Unfinished, Debit, Unverified, RecordSummary, SurfaceLost, Pcs
    <3>. QED  BY <2>3, <2>5, <2>6, <3>1, <3>2
  <2>17. CASE VerifySummary
    <3>1. /\ worker.pc \in Running /\ committed' = committed /\ announced' = announced /\ row' = row
          /\ worker'.step = worker.step
      BY <2>17 DEF VerifySummary, Goes, Running, SummaryPcs, Records, WorkerRecord
    <3>. QED  BY <2>2, <3>1
  <2>18. CASE Escalate
    <3>1. row.status = "executing" /\ committed' = committed /\ announced' = announced
      BY <2>18 DEF Escalate, Placed
    <3>2. (\E cause : End("halted", cause)) \/ \E kind, steps, ask : Park(kind, steps, ask)
      BY <2>18, Zenon DEF Escalate
    <3>. QED  BY <2>3, <2>4, <2>6, <3>1, <3>2
  <2>19. CASE Record
    <3>1. /\ worker.pc = "record" /\ row.status = "executing" /\ announced' = announced
          /\ worker.pc \in Running /\ worker.step \in Steps
      BY <2>19 DEF Record, Placed, Underway, Running, SummaryPcs
    <3>2. \/ /\ committed' = committed
             /\ \/ \E cause : End("halted", cause)
                \/ \E steps, ask : Park("reapproval", steps, ask)
                \/ Goes("step")
          \/ /\ committed' = committed \cup {worker.step}
             /\ IF committed' = Steps THEN End("completed", "steps") ELSE Goes("dispatch")
      <4>. DEFINE s == worker.step
                  answer == announced.answer
                  facts == Facts(s, answer)
                  found == Deviates(facts, IntentOf(s), submission.tools)
                  asking == Asking(found, config.policy.scope)
                  count == deviations[s] + Cardinality(found)
                  commits == /\ ~Halting(found) /\ count <= DeviationLimit /\ asking = {}
                             /\ answer.finish = "stop"
                  ask == AskFor(FirstAsked(found, config.policy.scope), s, facts)
                  goesOn == IF answer.finish = "tool_calls" /\ Trips(s) + 1 <= config.turns
                            THEN Goes("step") ELSE End("halted", "finish")
                  done == IF committed' = Steps THEN End("completed", "steps") ELSE Goes("dispatch")
      <4>1. /\ committed' = IF commits THEN committed \cup {s} ELSE committed
            /\ CASE Halting(found) -> End("halted", "violation")
                 [] ~Halting(found) /\ count > DeviationLimit -> End("halted", "deviations")
                 [] ~Halting(found) /\ count <= DeviationLimit /\ asking # {} ->
                      Park("reapproval", {s}, ask)
                 [] commits -> done
                 [] OTHER -> goesOn
        BY <2>19, Zenon DEF Record
      <4>2. goesOn => Goes("step") \/ End("halted", "finish")
        OBVIOUS
      <4>3. commits => ~Halting(found) /\ count <= DeviationLimit /\ asking = {}
        OBVIOUS
      <4>4. count <= DeviationLimit => ~(count > DeviationLimit)
        <5>1. count \in Int
          BY <2>19, DeviatesFinite DEF Record, CountsTyped, Records, WorkerRecord
        <5>. HIDE DEF count
        <5>. QED  BY <5>1 DEF DeviationLimit
      <4>. HIDE DEF found, asking, count, commits, ask, goesOn, done
      <4>5. CASE commits
        <5>1. committed' = committed \cup {s} /\ done
          BY <4>1, <4>3, <4>4, <4>5
        <5>. QED  BY <5>1 DEF done
      <4>6. CASE ~commits
        <5>1. committed' = committed
          BY <4>1, <4>6
        <5>2. \/ \E cause : End("halted", cause)
              \/ Park("reapproval", {s}, ask)
              \/ Goes("step")
          BY <4>1, <4>2, <4>6
        <5>. QED  BY <5>1, <5>2
      <4>. QED  BY <4>5, <4>6
    <3>3. CASE /\ committed' = committed
               /\ \/ \E cause : End("halted", cause)
                  \/ \E steps, ask : Park("reapproval", steps, ask)
                  \/ Goes("step")
      BY <2>3, <2>4, <2>5, <2>6, <3>1, <3>3 DEF Pcs
    <3>4. CASE /\ committed' = committed \cup {worker.step}
               /\ IF committed' = Steps THEN End("completed", "steps") ELSE Goes("dispatch")
      <4>1. committed' \subseteq Steps'
        BY <2>1, <3>1, <3>4 DEF Underway
      <4>2. CASE committed' = Steps /\ End("completed", "steps")
        <5>1. row'.status = "completed" /\ worker'.pc = "idle"
          BY <2>6, <4>2, Ending
        <5>. QED  BY <1>1, <2>1, <3>1, <4>1, <5>1 DEF Underway
      <4>3. CASE committed' # Steps /\ Goes("dispatch")
        <5>1. row' = row /\ worker'.pc = "dispatch"
          BY <4>3, Going DEF Pcs
        <5>. QED  BY <1>1, <2>1, <3>1, <4>1, <4>3, <5>1 DEF Underway
      <4>. QED  BY <3>4, <4>2, <4>3
    <3>. QED  BY <3>2, <3>3, <3>4
  <2>20. CASE Grant \/ Deny
    <3>1. /\ row.status = "awaiting_approval" /\ committed' = committed /\ announced' = announced
          /\ worker' = worker
      BY <2>20 DEF Grant, Deny
    <3>2. row'.status \in {"executing", "halted"}
      BY <2>20 DEF Grant, Deny, Records, RowRecord
    <3>. QED  BY <2>2, <2>6, <3>1, <3>2
  <2>21. CASE Put \/ Refresh \/ UNCHANGED vars
    BY <2>2, <2>21 DEF Put, Refresh, vars
  <2>22. CASE Crash \/ Restart
    <3>1. /\ committed' = committed /\ announced' = announced /\ row' = row
          /\ worker'.pc \in {"down", "plan", "recover", "idle"}
      <4>1. CASE Crash
        BY <4>1 DEF Crash, At
      <4>2. CASE Restart
        <5>1. /\ committed' = committed /\ announced' = announced /\ row' = row
              /\ worker' = At(CASE row.status = "planning" -> "plan"
                                [] row.status = "executing" -> "recover"
                                [] OTHER -> "idle")
          BY <4>2 DEF Restart
        <5>. QED  BY <5>1 DEF At
      <4>. QED  BY <2>22, <4>1, <4>2
    <3>. QED  BY <1>1, <2>2, <3>1
  <2>23. CASE Recover
    <3>1. committed' = committed /\ announced'.id = announced.id /\ announced'.step = announced.step
      BY <2>23 DEF Recover, Records, CallRecord
    <3>2. \/ End("halted", "recovered")
          \/ Takes("load")
          \/ Takes("wait") /\ Dangling
      BY <2>23, Recovering
    <3>3. CASE End("halted", "recovered")
      <4>1. row'.status \in Ended /\ worker'.pc = "idle"
        BY <2>6, <3>3, Ending
      <4>. QED  BY <1>1, <2>2, <3>1, <4>1
    <3>4. CASE Takes("load")
      <4>1. row'.status = row.status /\ worker'.pc = "load"
        BY <3>4, Taking DEF Pcs
      <4>. QED  BY <1>1, <2>2, <3>1, <4>1
    <3>5. CASE Takes("wait") /\ Dangling
      <4>1. row'.status = row.status /\ worker'.step = announced.step
        BY <3>5, Taking DEF Pcs
      <4>2. announced.id > 0
        BY <3>5 DEF Dangling, Records, CallRecord
      <4>. QED  BY <2>1, <3>1, <4>1, <4>2 DEF Underway
    <3>. QED  BY <3>2, <3>3, <3>4, <3>5
  <2>. QED
    BY <1>5, <2>7, <2>8, <2>9, <2>10, <2>11, <2>12, <2>13, <2>14, <2>15, <2>16, <2>17, <2>18, <2>19,
       <2>20, <2>21, <2>22, <2>23 DEF Next
<1>. QED  BY <1>3, <1>4, <1>5, Drafting

(* ------------------------------- the theorem ------------------------------ *)

LEMMA TypedAtFirst ==
  ASSUME Init
  PROVE  Typed
<1>1. /\ plans = <<>> /\ ledger = {} /\ committed = {} /\ request = NoRequest /\ announced = NoCall
      /\ row = [status |-> "queued", cause |-> "none", tokens |-> submission.tokens, leased |-> FALSE]
      /\ threads = [s \in Threads |-> <<>>] /\ chains = [s \in Chained |-> <<>>]
      /\ deviations = [s \in Chained |-> 0] /\ worker.pc = "idle"
      /\ submission \in Submissions /\ config.turns = MaxTurnsPerStep
  BY DEF Init, Idle, At
<1>2. Drafted
  BY <1>1 DEF Drafted
<1>3. RowTyped
  <2>1. submission.tokens \in Nat \ {0}
    BY <1>1, GovernanceAssumption
  <2>. QED  BY <1>1, <2>1 DEF RowTyped, NoRequest, Kinds
<1>4. CountsTyped
  <2>1. announced.id = 0 /\ announced.answer.tokens = 0
    BY <1>1 DEF NoCall, NoAnswer
  <2>. QED  BY <1>1, <2>1, GovernanceAssumption DEF CountsTyped
<1>5. Underway
  <2>1. announced.id = 0 /\ row.status = "queued"
    BY <1>1 DEF NoCall
  <2>. QED  BY <1>1, <2>1 DEF Underway, Running, SummaryPcs
<1>6. Books
  BY <1>1, FS_EmptySet DEF Books
<1>7. Asks
  BY <1>1 DEF Asks, NoRequest, NoAsk, AskType, Class
<1>8. Envelopes
  BY <1>1 DEF Envelopes
<1>. QED  BY <1>2, <1>3, <1>4, <1>5, <1>6, <1>7, <1>8 DEF Typed

LEMMA TypedKept ==
  ASSUME Governed, Covered, Recordable, Recordable', Typed, [Next]_vars
  PROVE  Typed'
<1>. /\ Shaped /\ Placed /\ ConfigRecord /\ PlanRows /\ PlanRows'
     /\ Drafted /\ RowTyped /\ CountsTyped /\ Underway /\ Books /\ Asks /\ Envelopes
  BY DEF Governed, Covered, Recordable, Typed
<1>1. Drafted'
  BY DraftedKept
<1>2. RowTyped' /\ CountsTyped' /\ Books'
  BY RowTypedKept, CountsTypedKept, BooksKept
<1>3. Underway'
  BY <1>1, UnderwayKept
<1>4. Asks' /\ Envelopes'
  BY AsksKept, EnvelopesKept
<1>. QED  BY <1>1, <1>2, <1>3, <1>4 DEF Typed

(* In every reachable state the plans that were drafted can be run, what runs is
   a step of the plan, and every row has the types its table gives it. *)
THEOREM AlwaysTyped == Spec => []Typed
<1>1. Governed /\ Covered /\ Recordable /\ Recordable' /\ Typed /\ [Next]_vars => Typed'
  BY TypedKept
<1>. QED  BY <1>1, TypedAtFirst, AlwaysGoverned, AlwaysCovered, AlwaysRecordable, PTL DEF Spec

(* TypeOK for every instance: an envelope is never one ExecutionIntent would
   refuse to build (a budget or a number of turns of zero, a gate evaluated
   against another tier), a verdict speaks of every step of its plan, a request
   is pending exactly while the trajectory awaits approval, and what the
   ceilings say of the ledger is a number. *)
THEOREM TypeCorrect == Spec => []TypeOK
<1>1. Governed /\ Covered /\ Recordable /\ Typed => TypeOK
  <2>. SUFFICES ASSUME Governed, Covered, Recordable, Typed  PROVE TypeOK
    OBVIOUS
  <2>. /\ Records /\ ConfigRecord
       /\ Drafted /\ RowTyped /\ CountsTyped /\ Underway /\ Books /\ Asks /\ Envelopes
    BY DEF Governed, Shaped, Covered, Typed
  <2>1. Position(Ceilings, ledger, Strict) \subseteq HeadroomType
    <3>. DEFINE ceiling == [scope |-> "trajectory", tokens |-> row.tokens, money |-> submission.money]
                room(k) == Headroom(Ceilings[k], ledger, 0, NoAmount, Strict)
    <3>1. ceiling.scope = "trajectory" /\ ceiling.tokens \in Int /\ ceiling.money \in Int
      BY DeclarationTyped DEF RowTyped, Positive, NoAmount
    <3>2. DOMAIN Ceilings = {1} /\ Ceilings[1] = ceiling
      BY DEF Ceilings
    <3>3. Strict \in BOOLEAN /\ NoAmount \in Amount
      BY GovernanceAssumption DEF Amount
    <3>. HIDE DEF ceiling
    <3>4. Headroom(ceiling, ledger, 0, NoAmount, Strict) \in HeadroomType
      BY <3>1, <3>3, HeadroomTyped DEF Books
    <3>5. Position(Ceilings, ledger, Strict) = {room(k) : k \in DOMAIN Ceilings}
      BY Zenon DEF Position
    <3>6. \A k \in DOMAIN Ceilings : room(k) \in HeadroomType
      BY <3>2, <3>4
    <3>. HIDE DEF room
    <3>. QED  BY <3>5, <3>6
  <2>2. \A k \in DOMAIN plans :
          plans[k].verdict # NoVerdict => plans[k].verdict.steps \in [StepIds(plans[k].plan) -> VerdictType]
    BY DEF Drafted
  <2>3. row.status \in {"queued", "planning", "executing", "awaiting_approval"} \cup Ended
    BY DEF Records, RowRecord
  <2>4. /\ row.tokens \in Nat /\ row.leased \in BOOLEAN
        /\ (row.status = "awaiting_approval") = (request.kind # "none")
        /\ row.leased => row.status \in {"planning", "executing"}
        /\ request.kind \in Kinds
    BY DEF RowTyped
  <2>5. chains \in [Chained -> Seq(IntentType)] /\ committed \subseteq Steps
    BY DEF Envelopes, Underway
  <2>6. request.steps \subseteq Chained /\ request.ask \in AskType
    BY DEF Asks
  <2>7. ledger \subseteq EntryType /\ announced.id \in 0 .. MaxCalls /\ deviations \in [Chained -> Nat]
    BY DEF Books, CountsTyped
  <2>8. violated \in {"no", "step", "summary"} /\ worker.pc \in Pcs
    BY DEF Records, WorkerRecord
  <2>. QED  BY <2>1, <2>2, <2>3, <2>4, <2>5, <2>6, <2>7, <2>8, Zenon DEF TypeOK
<1>. QED  BY <1>1, AlwaysGoverned, AlwaysCovered, AlwaysRecordable, AlwaysTyped, PTL
=============================================================================
