-------------------------------- MODULE Tiers --------------------------------
(***************************************************************************)
(* The tiers a trajectory may run on (domain/tiers.py) as its recorded     *)
(* snapshot has them: constants, since a trajectory keeps the snapshot it  *)
(* was submitted under. A data class is its rank: 0 public, 1 internal,    *)
(* 2 confidential. Whether LoadCoach has a remote provider is the          *)
(* deployment's and is passed in.                                          *)
(***************************************************************************)
EXTENDS Integers, Sequences

CONSTANTS
  Tier,             \* the names of the snapshot
  Remote,           \* the tiers whose egress class is remote
  Ceiling,          \* what a remote tier declares it may receive
  PricingSource,    \* the tiers that name a pricing file
  Claiming,         \* the tiers some price record claims at this instant
  Order,            \* [policy] escalation_order
  DefaultTier,      \* [policy] default_tier
  Context           \* the context budget of each tier, in tokens

Class == 0 .. 2
LocalCeiling == 2
NotLeaving == -1    \* None: nothing leaves the machine
NoTier == "no tier"

\* Tier and TierSnapshot refuse anything else when they are built.
ASSUME TiersAssumption ==
  /\ Remote \subseteq Tier
  /\ Ceiling \in [Remote -> Class]
  /\ Claiming \subseteq PricingSource
  /\ PricingSource \subseteq Remote
  /\ Order \in Seq(Tier)
  /\ DefaultTier \in Tier
  /\ Context \in [Tier -> Nat \ {0}]
  /\ NoTier \notin Tier

EffectiveMax(t) == IF t \in Remote THEN Ceiling[t] ELSE LocalCeiling
Admits(t, class) == class <= EffectiveMax(t)

\* What would leave the machine, were data of this class sent to the tier.
Leaving(t, class) ==
  IF t \notin Remote THEN NotLeaving
  ELSE IF class <= Ceiling[t] THEN class ELSE Ceiling[t]

EgressRank(t) == IF t \in Remote THEN 1 ELSE 0
Available(t, provider) == t \in Remote => provider

\* The places of the escalation order, after place i, whose tier admits class.
Admitting(class, i) == {k \in DOMAIN Order : k > i /\ Admits(Order[k], class)}
First(places) == CHOOSE k \in places : \A j \in places : k <= j
AtFirst(places) == IF places = {} THEN NoTier ELSE Order[First(places)]

\* The tier a step moves to when its own does not admit its data: the first of
\* the escalation order that does.
Substitute(class) == AtFirst(Admitting(class, 0))

\* The tier an escalation asks for: the next of the order that admits the data.
\* A tier outside the order escalates to nothing.
NextEscalation(t, class) ==
  LET own == {k \in DOMAIN Order : Order[k] = t}
  IN IF own = {} THEN NoTier ELSE AtFirst(Admitting(class, First(own)))

\* Of a sequence of tiers the one gates are evaluated against: remote before
\* local, the more leaving before the less, the earlier of equals.
MostPermissive(tiers, class) ==
  LET weight(k) == 4 * EgressRank(tiers[k]) + Leaving(tiers[k], class)
      best == {k \in DOMAIN tiers : \A j \in DOMAIN tiers : weight(j) <= weight(k)}
  IN tiers[First(best)]

\* The tier of a compaction's summaries: the local tier with the smallest
\* context, never a remote one, so that a summary is never egress.
SummarizingTier(class) ==
  LET local == {t \in Tier \ Remote : Admits(t, class)}
  IN IF local = {} THEN NoTier
     ELSE CHOOSE t \in local : \A u \in local : Context[t] <= Context[u]
=============================================================================
