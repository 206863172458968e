------------------------------- MODULE Intents -------------------------------
(***************************************************************************)
(* The envelope a step runs under (domain/intent.py), how its revisions    *)
(* come about, and how they are minted again from the record               *)
(* (services/intents.py).  An intent is                                    *)
(*   [tier, egress, tools, class, tokens, money, turns, by, gate];         *)
(* a chain is the sequence of its revisions.  permitted_tiers is the       *)
(* approved tier alone: no verdict grants a fallback and no grant adds     *)
(* one, so fallback_tiers is empty in every state the program reaches.     *)
(* A declaration is [class, tools, tokens, money, turns, tier].            *)
(***************************************************************************)
EXTENDS ApprovalPolicy

CONSTANT Tool

Minters == {"policy", "approver", "bypass_default"}
BypassStep == "loop"

Greater(a, b) == IF a >= b THEN a ELSE b

\* ExecutionIntent refuses anything else: a budget or a number of turns of
\* zero, an egress class that is not its tier's, or a gate that was evaluated
\* against a tier the intent does not permit.
IntentType ==
  {i \in [tier : Tier, egress : 0 .. 1, tools : SUBSET Tool, class : Class,
          tokens : Nat \ {0}, money : Positive, turns : Nat \ {0}, by : Minters,
          gate : GateType] :
     i.egress = EgressRank(i.tier) /\ i.gate.tier = i.tier}

(* ----------------------------- minting --------------------------------- *)

\* _mint: the gate and the egress class follow from the tier, the class of the
\* data and the estimate given; they are never inputs.
Mint(tier, tools, class, tokens, money, turns, estimate, by, policy) ==
  [tier |-> tier, egress |-> EgressRank(tier), tools |-> tools, class |-> class,
   tokens |-> tokens, money |-> money, turns |-> turns, by |-> by,
   gate |-> Gate(<<tier>>, class, estimate, policy)]

\* step_budgets: twice the estimate, at least one token, no money for none.
StepBudgetMultiplier == 2
StepTokens(estimate) == Greater(StepBudgetMultiplier * estimate.tokens, 1)
StepMoney(estimate) ==
  IF estimate.money > 0 THEN StepBudgetMultiplier * estimate.money ELSE NoAmount

\* What mint_for_step refuses: a rejected step, a tool or a class the caller
\* did not declare.
Mintable(step, verdict, decl) ==
  /\ verdict.tier # NoTier
  /\ step.tools \subseteq decl.tools
  /\ step.class <= decl.class

MintForStep(step, verdict, turns, by, policy) ==
  Mint(verdict.tier, step.tools, step.class, StepTokens(verdict.estimate),
       StepMoney(verdict.estimate), turns, verdict.estimate, by, policy)

MintBypass(decl, tokens, money, policy) ==
  Mint(IF decl.tier = NoTier THEN DefaultTier ELSE decl.tier, decl.tools, decl.class,
       tokens, money, decl.turns, [tokens |-> 0, money |-> NoAmount],
       "bypass_default", policy)

(* --------------------------- supersession ------------------------------ *)

Changeable == {"tier", "tools", "class", "tokens", "money", "turns"}

\* supersede: what the caller does not name is inherited, an amount of money
\* cannot be taken back to none, and the estimate the gate is evaluated with
\* is the budget of the revision before.
Supersede(previous, changes, by, policy) ==
  LET new == [f \in Changeable |-> IF f \in DOMAIN changes THEN changes[f] ELSE previous[f]]
      money == IF new.money = NoAmount THEN previous.money ELSE new.money
  IN Mint(new.tier, new.tools, new.class, new.tokens, money, new.turns,
          [tokens |-> previous.tokens, money |-> previous.money], by, policy)

Live(chain) == chain[Len(chain)]

(* ------------------- minting again from the record ---------------------- *)

\* Mutant: a default intent is minted again with the declaration's budgets.
RemintDeclared(s, row, decl, plan, verdicts, policy) ==
  IF s = BypassStep
  THEN MintBypass(decl, decl.tokens, decl.money, policy)
  ELSE MintForStep(plan[s], verdicts[s], row.turns, row.by, policy)

\* _remint_first: the bypass envelope from the declaration, which a ceiling
\* raise may have moved since, with the budgets its row holds; a step's from
\* the recorded plan and verdict, with the turns its row holds.
RemintFirst(s, row, decl, plan, verdicts, policy) ==
  IF s = BypassStep
  THEN MintBypass(decl, row.tokens, row.money, policy)
  ELSE MintForStep(plan[s], verdicts[s], row.turns, row.by, policy)

\* rebuild_intents over one chain: every revision is minted again and must
\* be the recorded one, gate included.
Rebuilds(s, chain, decl, plan, verdicts, policy) ==
  \A k \in DOMAIN chain :
    /\ s # BypassStep => s \in DOMAIN plan \cap DOMAIN verdicts
    /\ chain[k] =
      IF k = 1
      THEN RemintFirst(s, chain[k], decl, plan, verdicts, policy)
      ELSE Supersede(chain[k - 1],
             [f \in Changeable |-> chain[k][f]],
             chain[k].by, policy)
=============================================================================
