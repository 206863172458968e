----------------------------- MODULE Deviations ------------------------------
(***************************************************************************)
(* What a turn did, compared with the envelope it ran under                *)
(* (domain/deviation.py).  The facts of a turn are [tier, egress, class,   *)
(* used, tokens, tools, failed, finished]: egress is the rank the provider *)
(* that answered has, failed says that no tier could serve the turn.       *)
(***************************************************************************)
EXTENDS Intents

Categories == {"tier_violation", "tier_escalation", "classification_exceeded",
               "undeclared_tool", "outside_tool", "budget_overrun", "turn_overrun"}

\* A turn that ran names its tier, one that could not be served names none.
FactsType ==
  {f \in [tier : Tier \cup {NoTier}, egress : 0 .. 1, class : Class, used : Nat \ {0},
          tokens : Nat, tools : SUBSET Tool, failed : BOOLEAN, finished : BOOLEAN] :
     f.failed = (f.tier = NoTier)}

\* compare: every category is judged on its own.  An undeclared tool outside
\* the caller's allowlist is a deviation apart from one inside it.
Deviates(facts, intent, allowlist) ==
  LET undeclared == facts.tools \ intent.tools
      held(category) ==
        CASE category = "tier_violation" ->
               /\ ~facts.failed
               /\ (facts.tier # intent.tier \/ facts.egress > intent.egress)
          [] category = "tier_escalation" -> facts.failed
          [] category = "classification_exceeded" -> facts.class > intent.class
          [] category = "undeclared_tool" -> undeclared \cap allowlist # {}
          [] category = "outside_tool" -> undeclared \ allowlist # {}
          [] category = "budget_overrun" -> facts.tokens > intent.tokens
          [] category = "turn_overrun" -> ~facts.finished /\ facts.used >= intent.turns
  IN {category \in Categories : held(category)}

\* disposition: a violation halts, a tool outside the allowlist is refused by
\* the tool plant and nothing else, the rest by the configured scope.
Disposition(category, scope) ==
  CASE category = "tier_violation" -> "halt"
    [] category = "outside_tool" -> "refused_not_reapprovable"
    [] category \in {"undeclared_tool", "budget_overrun"} /\ scope # "any_deviation" ->
         "continue_recorded"
    [] OTHER -> "scoped_reapproval"

\* The order compare finds them in; the first that asks is what is asked.
Precedence == <<"tier_violation", "tier_escalation", "classification_exceeded",
                "outside_tool", "undeclared_tool", "budget_overrun", "turn_overrun">>

Halting(found) == \E d \in found : Disposition(d, "any_deviation") = "halt"
Asking(found, scope) == {d \in found : Disposition(d, scope) = "scoped_reapproval"}
FirstAsked(found, scope) ==
  Precedence[First({k \in DOMAIN Precedence : Precedence[k] \in Asking(found, scope)})]

(* ------------------ what a grant changes (_widen) ----------------------- *)

\* What a request for re-approval asks: the fields its category does not use are
\* left at nothing.
AskType == [category : Categories \cup {"none"}, tools : SUBSET Tool, next : Tier \cup {NoTier},
            tokens : Nat, slice : Nat, turns : Nat, class : Class]

\* The fields the superseding revision takes instead of the previous ones.
Widening(ask, previous) ==
  CASE ask.category = "undeclared_tool" -> [tools |-> previous.tools \cup ask.tools]
    [] ask.category = "tier_escalation" -> [tier |-> ask.next]
    [] ask.category = "turn_overrun" -> [turns |-> previous.turns + ask.turns]
    [] ask.category = "budget_overrun" ->
         [tokens |-> Greater(ask.tokens, previous.tokens) + ask.slice]
    [] ask.category = "classification_exceeded" -> [class |-> ask.class]

\* What _widen refuses to grant.
Grantable(ask, decl) ==
  /\ ask.category = "undeclared_tool" => ask.tools \subseteq decl.tools
  /\ ask.category = "tier_escalation" => ask.next # NoTier
  /\ ask.category = "classification_exceeded" => ask.class <= decl.class
  /\ ask.category # "tier_violation"
=============================================================================
