------------------------------- MODULE Budgets -------------------------------
(***************************************************************************)
(* What the ceilings say of a trajectory and of its next step              *)
(* (services/budget.py, services/estimates.py, services/pricing.py).       *)
(* Entries are the ledger's: a set of [n, turn, tier, tokens, money, total];  *)
(* money is NoAmount for a local tier, total says whether the cost could   *)
(* be totalled.  A ceiling is [scope, tokens, money]; the days belong to   *)
(* WindowWait, and a zero [budget] daily_money_ceiling is no ceiling.      *)
(***************************************************************************)
EXTENDS Deviations

CONSTANTS
  StepTokensDefault, \* [tiers.*] default_step tokens
  UnitPrice,         \* the dearest claiming record of each remote tier, per token
  MinSamples         \* [budget] estimate_min_samples

ASSUME BudgetAssumption ==
  /\ StepTokensDefault \in [Tier -> Nat]
  /\ UnitPrice \in [Remote -> Nat \ {0}]
  /\ MinSamples \in Nat \ {0}

\* A debit of a local tier has no money, nor has one that could not be totalled.
EntryType == [n : Nat \ {0}, turn : Nat \ {0}, tier : Tier, tokens : Nat, money : Amount,
              total : BOOLEAN]

Amounts(entries, field) == MapThenSumSet(LAMBDA e : e[field], entries)
Priced(entries) == {e \in entries : e.money # NoAmount}

(* ----------------------------- estimates ------------------------------- *)

\* p80: of n samples in ascending order the one of rank ceil(0.8 n).
P80(samples) ==
  LET rank == (8 * Cardinality(samples) + 9) \div 10
      upTo(v) == {e \in samples : e.tokens <= v}
      reached == {e.tokens : e \in {d \in samples : Cardinality(upTo(d.tokens)) >= rank}}
  IN CHOOSE v \in reached : \A w \in reached : v <= w

\* estimate: from the tier's own history once there is enough of it, else what
\* is configured; priced at the dearest record that still claims the tier, and
\* at nothing for a tier no record claims, which every local tier is.
Estimate(t, entries) ==
  LET own == {e \in entries : e.tier = t}
      tokens == IF Cardinality(own) >= MinSamples THEN P80(own) ELSE StepTokensDefault[t]
  IN [tokens |-> tokens,
      money  |-> IF t \in Claiming THEN UnitPrice[t] * tokens ELSE NoAmount]

\* price and debit: the ledger's next entry, what one turn is charged with.
Charge(entries, turn, t, tokens, total) ==
  [n |-> Cardinality(entries) + 1, turn |-> turn, tier |-> t, tokens |-> tokens, total |-> total,
   money |-> IF t \in Claiming /\ total THEN UnitPrice[t] * tokens ELSE NoAmount]

(* ------------------------------ ceilings ------------------------------- *)

Left(cap, spent) == IF cap = NoAmount THEN NoAmount ELSE cap - spent
Over(cap, spent) == cap # NoAmount /\ spent > cap

\* One ceiling's verdict on what was spent, and (tokens, money) on top of it.
Headroom(ceiling, entries, tokens, money, strict) ==
  LET spentTokens == Amounts(entries, "tokens") + tokens
      spentMoney == Amounts(Priced(entries), "money") + (IF money = NoAmount THEN 0 ELSE money)
  IN [scope      |-> ceiling.scope,
      tokens     |-> Left(ceiling.tokens, spentTokens),
      money      |-> Left(ceiling.money, spentMoney),
      tokensOver |-> Over(ceiling.tokens, spentTokens),
      exceeded   |-> \/ Over(ceiling.tokens, spentTokens)
                     \/ Over(ceiling.money, spentMoney),
      untotalled |-> Cardinality({e \in entries : ~e.total}),
      strict     |-> strict /\ ceiling.money # NoAmount]

\* position: what the ceilings say now.
Position(ceilings, entries, strict) ==
  {Headroom(ceilings[k], entries, 0, NoAmount, strict) : k \in DOMAIN ceilings}

\* A ceiling refuses the step when it binds; a step that spends no money only
\* through its tokens.
Refuses(room, priced) == Binds(room) /\ (priced \/ room.tokensOver)

\* preflight and binding: the scope of the first ceiling that refuses.
Admitted == "admitted"
Binding(ceilings, entries, estimate, strict) ==
  LET room(k) == Headroom(ceilings[k], entries, estimate.tokens, estimate.money, strict)
      refusing == {k \in DOMAIN ceilings : Refuses(room(k), estimate.money # NoAmount)}
  IN IF refusing = {} THEN Admitted ELSE ceilings[First(refusing)].scope
=============================================================================
