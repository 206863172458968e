--------------------------- MODULE ApprovalPolicy ---------------------------
(***************************************************************************)
(* What the automatic policy says of a plan (domain/policy.py): the gates  *)
(* of a step, its verdict, and the verdict of the plan under the ceilings. *)
(* A policy is [mode, gateEgressAt, gateCost, scope], a step is            *)
(* [tier, class, tools], an estimate [tokens, money], a headroom           *)
(* [scope, exceeded, tokens, money, untotalled, strict]; an absent amount  *)
(* is NoAmount.  Errors' texts and the counts of a floor are left out.     *)
(***************************************************************************)
EXTENDS Tiers, FiniteSets, FiniteSetsExt

Modes  == {"auto", "hybrid", "manual"}
Scopes == {"on_tier_or_classification_change", "any_deviation"}

NoAmount == -1
Amount == Nat \cup {NoAmount}
Positive == (Nat \ {0}) \cup {NoAmount}

(* --------------------- what the records are made of --------------------- *)

\* A cost gate of zero would fire on every step and is refused.
PolicyType == [mode : Modes, gateEgressAt : Class, gateCost : Positive, scope : Scopes]
EstimateType == [tokens : Nat, money : Amount]
HeadroomType ==
  [scope : {"trajectory", "day", "project"}, tokens : Int, money : Int, tokensOver : BOOLEAN,
   exceeded : BOOLEAN, untotalled : Nat, strict : BOOLEAN]

(* ----------------------------- the gates ------------------------------- *)

GateType == [egress : BOOLEAN, cost : BOOLEAN, tier : Tier \cup {NoTier},
             leaving : Class \cup {NotLeaving}]

Gate(tiers, class, estimate, policy) ==
  LET tier == MostPermissive(tiers, class)
      leaving == Leaving(tier, class)
  IN [egress  |-> leaving # NotLeaving /\ leaving >= policy.gateEgressAt,
      cost    |-> /\ policy.gateCost # NoAmount
                  /\ estimate.money # NoAmount
                  /\ estimate.money > policy.gateCost,
      tier    |-> tier,
      leaving |-> leaving]

NoGate == [egress |-> FALSE, cost |-> FALSE, tier |-> NoTier, leaving |-> NotLeaving]
Gated(gate) == gate.egress \/ gate.cost

RequiresHuman(gate, mode) ==
  \/ mode = "manual"
  \/ mode = "hybrid" /\ Gated(gate)

GateReason(gate, mode) ==
  IF mode = "manual" THEN "manual_mode"
  ELSE IF gate.egress THEN "gated_egress" ELSE "gated_step_cost"

(* ---------------------------- one step --------------------------------- *)

Outcomes == {"approved", "redlined", "rejected"}
Reasons == {"auto_approved", "manual_mode", "gated_egress", "gated_step_cost",
            "tier_ceiling_substitution", "tier_not_configured", "no_admitting_tier",
            "unpriced_egress", "tier_unavailable", "budget_exceeded", "estimates_exceed_headroom"}

\* A rejected step names no tier, any other names the one it runs on.
VerdictType ==
  {v \in [outcome : Outcomes, reason : Reasons, tier : Tier \cup {NoTier}, gate : GateType,
          human : BOOLEAN, estimate : EstimateType] :
     (v.outcome = "rejected") = (v.tier = NoTier)}

Rejected(reason, estimate) ==
  [outcome |-> "rejected", reason |-> reason, tier |-> NoTier,
   gate |-> NoGate, human |-> FALSE, estimate |-> estimate]

\* The tier a step is resolved to, and how.
Resolved(step) == IF Admits(step.tier, step.class) THEN step.tier ELSE Substitute(step.class)

\* evaluate_step: each refusal before the next is asked, the gates last and on
\* the resolved tier.  The estimate stays the one made for the declared tier.
StepVerdict(step, estimate, policy, provider) ==
  LET tier == Resolved(step)
      redlined == tier # step.tier
      gate == Gate(<<tier>>, step.class, estimate, policy)
      human == RequiresHuman(gate, policy.mode)
  IN IF step.tier \notin Tier THEN Rejected("tier_not_configured", estimate)
     ELSE IF tier = NoTier THEN Rejected("no_admitting_tier", estimate)
     ELSE IF tier \in Remote \ PricingSource THEN Rejected("unpriced_egress", estimate)
     ELSE IF ~Available(tier, provider) THEN Rejected("tier_unavailable", estimate)
     ELSE [outcome  |-> IF redlined THEN "redlined" ELSE "approved",
           reason   |-> IF redlined THEN "tier_ceiling_substitution"
                        ELSE IF human THEN GateReason(gate, policy.mode)
                        ELSE "auto_approved",
           tier     |-> tier,
           gate     |-> gate,
           human    |-> human,
           estimate |-> estimate]

(* ---------------------------- the ceilings ----------------------------- *)

\* BudgetHeadroom.binds: spent, or strict over a debit that did not total.
Binds(room) == room.exceeded \/ (room.strict /\ room.untotalled > 0)

\* _estimates_fit: the whole plan, under every ceiling; unpriced steps add
\* nothing to the money and everything to the tokens.
Total(steps, amount(_)) == MapThenSumSet(amount, steps)
EstimatesFit(steps, estimates, rooms) ==
  LET tokens(s) == estimates[s].tokens
      priced == {s \in steps : estimates[s].money # NoAmount}
      money(s) == estimates[s].money
  IN \A room \in rooms :
       /\ room.tokens # NoAmount => Total(steps, tokens) <= room.tokens
       /\ room.money # NoAmount /\ priced # {} => Total(priced, money) <= room.money

(* ---------------------------- the plan --------------------------------- *)

\* evaluate_plan over a plan: a function from step ids to steps.
PlanVerdict(plan, estimates, policy, provider, rooms) ==
  LET ids == DOMAIN plan
      all(reason) == [s \in ids |-> Rejected(reason, estimates[s])]
      steps ==
        IF \E room \in rooms : Binds(room) THEN all("budget_exceeded")
        ELSE IF ~EstimatesFit(ids, estimates, rooms) THEN all("estimates_exceed_headroom")
        ELSE [s \in ids |-> StepVerdict(plan[s], estimates[s], policy, provider)]
  IN [outcome |-> IF \E s \in ids : steps[s].outcome = "rejected" THEN "rejected"
                  ELSE IF \E s \in ids : steps[s].human THEN "gated"
                  ELSE "approved",
      steps   |-> steps]
=============================================================================
