---------------------------- MODULE MCGovernance ----------------------------
(***************************************************************************)
(* Small submissions for TLC, two to plan and one bypassed on a remote     *)
(* tier, and what the planner answers: a plan whose first step leaves the  *)
(* machine and whose second is moved to a tier its data may go to; a step  *)
(* on a tier no price record claims, whose own class may go where the      *)
(* declared one may not; and a step named like the bypass's own.           *)
(***************************************************************************)
EXTENDS Governance, Functions, TLC

MCTiers == {"tiny", "fast", "cloud", "edge"}
MCRemote == {"cloud", "edge"}
MCCeiling == [t \in MCRemote |-> IF t = "cloud" THEN 1 ELSE 0]
MCContext == [t \in MCTiers |-> IF t = "tiny" THEN 1 ELSE 2]
MCOrder == <<"fast", "cloud">>
MCStepTokens == [t \in MCTiers |-> 1]
MCUnitPrice == [t \in MCRemote |-> 1]

Submission(class) ==
  [class |-> class, tools |-> {"read", "write"}, tokens |-> 3, money |-> NoAmount, tier |-> NoTier,
   bypass |-> FALSE, maxSteps |-> NoAmount]
MCSubmissions ==
  {Submission(0), Submission(1),
   [Submission(1) EXCEPT !.bypass = TRUE, !.tier = "cloud", !.maxSteps = 2]}

Raw(id, tier, class, tools, after) ==
  [step_id |-> id, description |-> "text", depends_on |-> after, tools |-> tools, tier |-> tier,
   data_classification |-> class, expected_turns |-> 1]
Steplist(raws) == [text |-> "object", fields |-> [steps |-> raws]]
MCDocuments ==
  {Steplist(<<Raw("s1", "cloud", 0, {"read"}, <<>>), Raw("s2", "edge", 1, {}, <<"s1">>)>>),
   Steplist(<<Raw("s1", "edge", 0, {}, <<>>)>>),
   Steplist(<<Raw("loop", "fast", 1, {}, <<>>)>>)}

Policy(mode, egressAt, cost, scope) ==
  [mode |-> mode, gateEgressAt |-> egressAt, gateCost |-> cost, scope |-> scope]
MCPolicies ==
  {Policy("auto", 2, NoAmount, "any_deviation"),
   Policy("hybrid", 0, 1, "on_tier_or_classification_change"),
   Policy("manual", 2, NoAmount, "on_tier_or_classification_change")}

Exchange(ended, status, body, code) ==
  [ended |-> ended, status |-> status, body |-> body, code |-> code]
MCExchanges ==
  {Exchange("timeout", 0, "no json", NoCode), Exchange("broken", 0, "no json", NoCode),
   Exchange("answered", 409, "json", "NO_ELIGIBLE_MODEL"),
   Exchange("answered", 413, "json", "CONTEXT_LIMIT_EXCEEDED"),
   Exchange("answered", 429, "json", "QUEUE_FULL"),
   Exchange("answered", 400, "json", "a code of its own"),
   Exchange("answered", 200, "no json", NoCode)}

Whole == [path \in Paths |-> "fine"]
Answer(finish, tools, egress, verified, document, tokens) ==
  [finish |-> finish, tools |-> tools, egress |-> egress, verified |-> verified,
   failure |-> Parse(document), tokens |-> tokens]
MCAnswers ==
  {Answer("stop", {}, 0, TRUE, Whole, 1),
   Answer("stop", {}, 1, TRUE, Whole, 3),
   Answer("tool_calls", {"write", "exec"}, 0, TRUE, Whole, 1),
   Answer("length", {}, 1, TRUE, Whole, 1),
   Answer("stop", {}, 0, FALSE, Whole, 1),
   Answer("stop", {}, 0, TRUE, [Whole EXCEPT !["model.canonical_id"] = "empty"], 1),
   Answer("stop", {}, 0, TRUE, [Whole EXCEPT !["model.canonical_id"] = "absent"], 1)}

Sent(hundredths) == [type |-> "integer", hundredths |-> hundredths]
MCPuts == {[max_turns_per_step |-> Sent(100)]}
MCSecured == {"retain_content", "ceiling_tokens"}

(* Every answer that is refused, each for what is wrong with it. *)
WholeStep == Raw("s1", "fast", 1, {}, <<>>)
Only(raw) == Steplist(<<raw>>)
Refusals ==
  {<<[text |-> "not json", fields |-> <<>>], "not_json">>,
   <<[text |-> "array", fields |-> <<>>], "not_an_object">>,
   <<[text |-> "object", fields |-> [other |-> 1]], "missing_field">>,
   <<[text |-> "object", fields |-> [steps |-> <<WholeStep>>, other |-> 1]], "unknown_field">>,
   <<[text |-> "object", fields |-> [steps |-> Malformed]], "wrong_type">>,
   <<Steplist(<<>>), "empty_plan">>,
   <<Steplist(<<WholeStep, WholeStep, WholeStep>>), "too_many_steps">>,
   <<Only(Malformed), "wrong_type">>,
   <<Only([step_id |-> "s1"]), "missing_field">>,
   <<Only(WholeStep @@ [notes |-> 1]), "unknown_field">>,
   <<Only([WholeStep EXCEPT !.step_id = Overlong]), "step_id_invalid">>,
   <<Only([WholeStep EXCEPT !.step_id = Malformed]), "wrong_type">>,
   <<Only([WholeStep EXCEPT !.tools = Malformed]), "wrong_type">>,
   <<Only([WholeStep EXCEPT !.data_classification = Malformed]), "classification_unknown">>,
   <<Only([WholeStep EXCEPT !.expected_turns = 0]), "expected_turns_invalid">>,
   <<Only([WholeStep EXCEPT !.expected_turns = 101]), "expected_turns_invalid">>,
   <<Steplist(<<WholeStep, WholeStep>>), "duplicate_step_id">>,
   <<Only([WholeStep EXCEPT !.tools = {"exec"}]), "tool_not_allowlisted">>,
   <<Only([WholeStep EXCEPT !.tier = "unheard of"]), "tier_not_configured">>,
   <<Only([WholeStep EXCEPT !.data_classification = 2]), "classification_laundering">>,
   <<Only([WholeStep EXCEPT !.depends_on = <<"s1">>]), "self_dependency">>,
   <<Only([WholeStep EXCEPT !.depends_on = <<"s9">>]), "unknown_dependency">>,
   <<Steplist(<<[WholeStep EXCEPT !.depends_on = <<"s2">>],
               [WholeStep EXCEPT !.step_id = "s2", !.depends_on = <<"s1">>]>>), "dependency_cycle">>}

ASSUME EachRefusal ==
  /\ \A refusal \in Refusals :
       \E issue \in Issues(refusal[1], Submission(1), 2) : issue.reason = refusal[2]
  /\ {refusal[2] : refusal \in Refusals} = IssueReasons
  /\ \A document \in MCDocuments : Issues(document, Submission(1), 2) = {}

(* The search finds a cycle of every graph of three nodes that has one, and of
   no other; and an acyclic plan is ordered with every step after those it
   depends on, so that some step is always ready. *)
Node == {"a", "b", "c"}
Cyclic(edges) ==
  \E S \in SUBSET Node \ {{}} : \A n \in S : \E d \in S : d \in Range(edges[n])
Lists(nodes) == UNION {{list \in [1 .. k -> nodes] : IsInjective(list)} : k \in 0 .. 2}
Graphs == {edges \in [Node -> Lists(Node)] : \A n \in Node : n \notin Range(edges[n])}

ASSUME SearchIsExact ==
  \A edges \in Graphs :
    LET cycle == FindCycle(edges)
    IN /\ (cycle # <<>>) = Cyclic(edges)
       /\ \A k \in DOMAIN cycle :
            cycle[IF k = Len(cycle) THEN 1 ELSE k + 1] \in Range(edges[cycle[k]])

ASSUME OrderRespectsDependencies ==
  \A edges \in {e \in Graphs : ~Cyclic(e)} :
    LET plan == [order |-> <<"a", "b", "c">>, steps |-> <<>>,
                 after |-> [n \in Node |-> Range(edges[n])]]
        order == TopologicalOrder(plan)
    IN /\ Len(order) = 3 /\ Range(order) = Node
       /\ \A k \in 1 .. 3 : plan.after[order[k]] \subseteq {order[j] : j \in 1 .. k - 1}

(* What the policy says before a call and the tier's own ceiling say the same
   of every class; and a call leaves the machine only for a host the operator
   allowed, with data the operator's ceiling admits. *)
Hosts == {"localhost", "docs.example", "elsewhere", NoHost}
ASSUME EgressAgrees ==
  /\ \A tier \in Tier, class \in Class : Approves(class, TierTarget(tier)) = Admits(tier, class)
  /\ \A host \in Hosts, class \in Class :
       MayReach("fetch", host, class) = (host = "localhost" \/ (host = "docs.example" /\ class <= 1))
  /\ \A class \in Class : MayReach("read", NoHost, class)

(* A PUT is all or nothing, and what it stored is what the process runs on. *)
Half == [type |-> "fraction", hundredths |-> 50]
ASSUME SettingsAreWhole ==
  /\ PutAnswer([max_turns_per_step |-> Half]) = "invalid"
  /\ PutAnswer([max_turns_per_step |-> Sent(0)]) = "invalid"
  /\ PutAnswer([threshold |-> Half]) = "stored"
  /\ PutAnswer([threshold |-> [Half EXCEPT !.type = "boolean"]]) = "invalid"
  /\ PutAnswer([threshold |-> Half, unheard_of |-> Half]) = "unknown"
  /\ PutAnswer([unheard_of |-> Half, ceiling_tokens |-> Half]) = "forbidden"
  /\ \A key \in Keys \ Pinned, n \in {0, 1, 50, 100, 101, 500, 2500, 876000, 876001} :
       Effective(key, Written(<<>>, key :> Sent(n)), 7) =
         IF PutAnswer(key :> Sent(n)) = "stored" THEN n ELSE 7

(* Fragments of two calls, told apart by index or by id: each call once, with
   its texts in order, whatever lies between. *)
Fragment(index, id, name, text) == [index |-> index, id |-> id, name |-> name, text |-> text]
ASSUME FragmentsComeTogether ==
  /\ AssembleToolCalls(<<Fragment(0, "a", "read", <<>>), Fragment(1, "b", "exec", <<1>>),
                         Fragment(0, None, None, <<2>>), Fragment(1, None, None, <<3>>)>>)
       = <<[id |-> <<"a">>, name |-> "read", text |-> <<2>>],
           [id |-> <<"b">>, name |-> "exec", text |-> <<1, 3>>]>>
  /\ AssembleToolCalls(<<Fragment(None, "a", "read", <<1>>), Fragment(None, "a", None, <<2>>)>>)
       = <<[id |-> <<"a">>, name |-> "read", text |-> <<1, 2>>]>>
  /\ AssembleToolCalls(<<Fragment(None, None, "read", <<1>>), Fragment(None, None, "read", <<2>>)>>)
       = <<[id |-> <<"call", 0>>, name |-> "read", text |-> <<1>>],
           [id |-> <<"call", 1>>, name |-> "read", text |-> <<2>>]>>
  /\ RequestedToolCalls([assembled |-> <<>>, fragments |-> <<Fragment(0, "a", "read", <<>>)>>]) = <<>>
  /\ RequestedToolCalls([assembled |-> None, fragments |-> <<Fragment(0, "a", "read", <<>>)>>]) # <<>>
  /\ FinishReason("stop") = "stop" /\ FinishReason("eos") = "none"
  /\ TokenCount(None) = Unsupported /\ TokenCount(0) = 0
  /\ ~SchemaValidated([performed |-> TRUE, passed |-> TRUE, checks |-> "absent"])
  /\ SchemaValidated([performed |-> TRUE, passed |-> TRUE, checks |-> <<<<"json_schema", TRUE>>>>])

(* A version that was refused is asked for again, one that was accepted only
   after a while; and a job beyond the pages that are read is not found. *)
Well == Exchange("answered", 200, "json", NoCode)
Job(key) == [key |-> key]
ASSUME VersionAndJobs ==
  LET told == Negotiate(NeverNegotiated, 5, Well, {"v1"})
  IN /\ Negotiate(NeverNegotiated, 5, Well, {"v2"}).cache = NeverNegotiated
     /\ told.failure = NoFailure
     /\ \A t \in 5 .. 9 : (Negotiate(told.cache, t, Well, {"v2"}).failure = NoFailure) = (t < 7)
     /\ FindJob(<<<<Job(1), Job(2)>>, <<Job(3)>>, <<Job(4)>>>>, 3) = Job(3)
     /\ FindJob(<<<<Job(1), Job(2)>>, <<Job(3)>>, <<Job(4)>>>>, 4) = NoJob

=============================================================================
