---------------------------- MODULE PlanDocument -----------------------------
(***************************************************************************)
(* What the planner's answer is held to before anything is made of it      *)
(* (domain/plan.py).  An answer is [text, fields]; where its text is an    *)
(* object, fields is a function of the fields it has, and steps one of     *)
(* them: a sequence of raw steps, each a function of the fields it has.    *)
(* A value of the wrong type is Malformed, a step id of no or too many     *)
(* characters is Overlong; the lists of tools are sets.  A plan is         *)
(* [order, steps, after].  Messages and the digest are left out.            *)
(***************************************************************************)
EXTENDS Tiers, FiniteSets, Functions

CONSTANTS Malformed, Overlong

\* The elements of a list that are among those kept, in the list's order.
Among(list, kept) ==
  LET among[i \in 0 .. Len(list)] ==
        IF i = 0 THEN <<>>
        ELSE IF list[i] \in kept THEN Append(among[i - 1], list[i]) ELSE among[i - 1]
  IN among[Len(list)]

StepFields == {"step_id", "description", "depends_on", "tools", "tier", "data_classification",
               "expected_turns"}
MaxExpectedTurns == 100

IssueReasons ==
  {"not_an_object", "not_json", "missing_field", "unknown_field", "wrong_type", "empty_plan",
   "too_many_steps", "step_id_invalid", "duplicate_step_id", "self_dependency",
   "unknown_dependency", "dependency_cycle", "tool_not_allowlisted", "tier_not_configured",
   "classification_unknown", "classification_laundering", "expected_turns_invalid"}

\* An issue names the field, and the step where the document could name one.
NoStep == "no step"
Issue(reason, field, step) == [reason |-> reason, field |-> field, step |-> step]

(* ----------------------------- the document ----------------------------- *)

\* What the planner's answer may be, for steps of these names: any list of raw
\* steps, each with any of the fields, of the right type or not.
IsList(list) == list \in Seq(Range(list))
IsRaw(raw, ids) ==
  raw # Malformed =>
    /\ "step_id" \in DOMAIN raw => raw.step_id \in ids \cup {Malformed, Overlong}
    /\ "depends_on" \in DOMAIN raw => raw.depends_on = Malformed \/ IsList(raw.depends_on)
    /\ "data_classification" \in DOMAIN raw => raw.data_classification \in Class \cup {Malformed}
IsDocument(document, ids) ==
  /\ document.text \in {"not json", "array", "object"}
  /\ document.text = "object" /\ "steps" \in DOMAIN document.fields =>
       \/ document.fields.steps = Malformed
       \/ /\ IsList(document.fields.steps)
          /\ \A raw \in Range(document.fields.steps) : IsRaw(raw, ids)

ParseIssues(document) ==
  CASE document.text = "not json" -> {Issue("not_json", "$", NoStep)}
    [] document.text = "array" -> {Issue("not_an_object", "$", NoStep)}
    [] document.text = "object" ->
         {Issue("unknown_field", f, NoStep) : f \in DOMAIN document.fields \ {"steps"}}

\* Why the list of steps cannot be used at all.
ListIssues(fields, maxSteps) ==
  LET reason == IF "steps" \notin DOMAIN fields THEN "missing_field"
                ELSE IF fields.steps = Malformed THEN "wrong_type"
                ELSE IF fields.steps = <<>> THEN "empty_plan"
                ELSE IF Len(fields.steps) > maxSteps THEN "too_many_steps"
                ELSE "fine"
  IN IF reason = "fine" THEN {} ELSE {Issue(reason, "steps", NoStep)}

(* ------------------------------- one step ------------------------------- *)

StepLabel(raw) ==
  IF "step_id" \in DOMAIN raw /\ raw.step_id \notin {Malformed, Overlong} THEN raw.step_id ELSE NoStep

IdShape(raw) ==
  CASE raw.step_id = Malformed -> "wrong_type"
    [] raw.step_id = Overlong  -> "step_id_invalid"
    [] OTHER                   -> "fine"

\* description and tier, depends_on and tools: strings, none of them empty.
TextShape(raw, field) == IF raw[field] = Malformed THEN "wrong_type" ELSE "fine"

ClassShape(raw) ==
  IF raw.data_classification = Malformed THEN "classification_unknown" ELSE "fine"

TurnsShape(raw) ==
  IF raw.expected_turns # Malformed /\ raw.expected_turns \in 1 .. MaxExpectedTurns THEN "fine"
  ELSE "expected_turns_invalid"

Shape(raw, field) ==
  CASE field = "step_id"                   -> IdShape(raw)
    [] field \in {"description", "tier", "depends_on", "tools"} -> TextShape(raw, field)
    [] field = "data_classification"       -> ClassShape(raw)
    [] field = "expected_turns"            -> TurnsShape(raw)

\* Everything wrong with one step is named, and a step with anything wrong is
\* dropped before the steps are looked at together.
StepIssues(raw) ==
  IF raw = Malformed THEN {Issue("wrong_type", "steps", NoStep)}
  ELSE LET named(reason, fields) == {Issue(reason, f, StepLabel(raw)) : f \in fields}
       IN named("missing_field", StepFields \ DOMAIN raw)
          \cup named("unknown_field", DOMAIN raw \ StepFields)
          \cup {Issue(Shape(raw, f), f, StepLabel(raw)) :
                  f \in {f \in StepFields \cap DOMAIN raw : Shape(raw, f) # "fine"}}

WellFormed(raws) == Among(raws, {raw \in Range(raws) : StepIssues(raw) = {}})

(* --------------------------- the steps together ------------------------- *)

IdIssues(steps) ==
  {Issue("duplicate_step_id", "step_id", steps[k].step_id) :
     k \in {k \in DOMAIN steps : \E j \in 1 .. k - 1 : steps[j].step_id = steps[k].step_id}}

\* A plan cannot declare a tool the caller did not allow, a tier the snapshot
\* does not have, or a class above the caller's own.
DeclarationIssues(steps, declared) ==
  UNION {LET step == steps[k]
             refused(reason, field, wrong) ==
               IF wrong THEN {Issue(reason, field, step.step_id)} ELSE {}
         IN refused("tool_not_allowlisted", "tools", ~(step.tools \subseteq declared.tools))
            \cup refused("tier_not_configured", "tier", step.tier \notin Tier)
            \cup refused("classification_laundering", "data_classification",
                         step.data_classification > declared.class) : k \in DOMAIN steps}

Unvisited == "unvisited"
Visiting == "visiting"
Done == "done"

\* The depth-first search for a cycle: edges gives each node its dependencies
\* in order, and a search is the state of each node, the stack, and the cycle
\* once one is found.  What is being visited is on the stack.
Searches(nodes) ==
  {search \in [state : [nodes -> {Unvisited, Visiting, Done}], stack : Seq(nodes), cycle : Seq(nodes)] :
     \A n \in nodes : search.state[n] = Visiting => n \in Range(search.stack)}

Enter(search, node) == [search EXCEPT !.state[node] = Visiting, !.stack = Append(@, node)]
Leave(search, node) == [search EXCEPT !.state[node] = Done, !.stack = SubSeq(@, 1, Len(@) - 1)]

\* A dependency met while it is being visited closes a cycle, which is the stack
\* from there on; one that was not met is walked; and nothing follows a cycle.
Look(walk, search, next) ==
  CASE search.cycle # <<>> -> search
    [] search.cycle = <<>> /\ search.state[next] = Visiting ->
         [search EXCEPT !.cycle =
            SubSeq(search.stack, CHOOSE k \in DOMAIN search.stack : search.stack[k] = next,
                   Len(search.stack))]
    [] search.cycle = <<>> /\ search.state[next] = Unvisited -> walk[next][search]
    [] OTHER -> search

Looked(walk, at, list) ==
  LET looked[i \in 0 .. Len(list)] ==
        IF i = 0 THEN at ELSE Look(walk, looked[i - 1], list[i])
  IN looked[Len(list)]

Walked(walk, edges, node, at) ==
  LET looked == Looked(walk, Enter(at, node), edges[node])
  IN IF looked.cycle # <<>> THEN looked ELSE Leave(looked, node)

Walk(edges) ==
  LET walk[node \in DOMAIN edges] ==
        [at \in Searches(DOMAIN edges) |-> Walked(walk, edges, node, at)]
  IN walk

Begin(walk, search, node) ==
  IF search.cycle = <<>> /\ search.state[node] = Unvisited THEN walk[node][search] ELSE search

Begun(walk, at, nodes) ==
  LET begun[i \in 0 .. Len(nodes)] ==
        IF i = 0 THEN at ELSE Begin(walk, begun[i - 1], nodes[i])
  IN begun[Len(nodes)]

\* The order of the keys the search starts from: any will do.
FindCycle(edges) ==
  LET start == [state |-> [n \in DOMAIN edges |-> Unvisited], stack |-> <<>>, cycle |-> <<>>]
      keys == CHOOSE keys \in Bijection(1 .. Cardinality(DOMAIN edges), DOMAIN edges) : TRUE
  IN Begun(Walk(edges), start, keys).cycle

\* The last of two steps with one id gives the edges.
LastNamed(steps, id) ==
  steps[CHOOSE k \in DOMAIN steps :
          steps[k].step_id = id /\ \A j \in k + 1 .. Len(steps) : steps[j].step_id # id]

EdgesOf(steps) ==
  LET known == {steps[k].step_id : k \in DOMAIN steps}
  IN [id \in known |->
        Among(LastNamed(steps, id).depends_on, known \ {id})]

DagIssues(steps) ==
  LET known == {steps[k].step_id : k \in DOMAIN steps}
      cycle == FindCycle(EdgesOf(steps))
      dangling(step, d) ==
        CASE d = step.step_id -> {Issue("self_dependency", "depends_on", step.step_id)}
          [] d # step.step_id /\ d \notin known ->
               {Issue("unknown_dependency", "depends_on", step.step_id)}
          [] OTHER -> {}
  IN (UNION {UNION {dangling(steps[k], d) : d \in Range(steps[k].depends_on)} : k \in DOMAIN steps})
     \cup (IF cycle = <<>> THEN {} ELSE {Issue("dependency_cycle", "depends_on", cycle[1])})

\* validate_plan_document: a document that is no object, or has no usable list
\* of steps, is refused for that alone; else everything found is reported.
Issues(document, declared, maxSteps) ==
  LET parse == ParseIssues(document)
      usable == document.text = "object" /\ ListIssues(document.fields, maxSteps) = {}
      raws == document.fields.steps
      steps == WellFormed(raws)
  IN parse \cup
     CASE document.text # "object" -> {}
       [] document.text = "object" /\ ~usable -> ListIssues(document.fields, maxSteps)
       [] OTHER -> (UNION {StepIssues(raws[k]) : k \in DOMAIN raws})
                   \cup IdIssues(steps) \cup DeclarationIssues(steps, declared)
                   \cup DagIssues(steps)

(* ------------------------------- the plan ------------------------------- *)

PlanOf(document) ==
  LET raws == document.fields.steps
      ids == {raws[k].step_id : k \in DOMAIN raws}
      named(id) == LastNamed(raws, id)
  IN [order |-> [k \in DOMAIN raws |-> raws[k].step_id],
      steps |-> [id \in ids |-> [tier |-> named(id).tier, class |-> named(id).data_classification,
                                 tools |-> named(id).tools]],
      after |-> [id \in ids |-> Range(named(id).depends_on)]]

StepIds(plan) == {plan.order[k] : k \in DOMAIN plan.order}

ReadySteps(plan, committed) ==
  Among(plan.order, {s \in StepIds(plan) \ committed : plan.after[s] \subseteq committed})

\* One round after the other of what is ready, each in the document's order.
TopologicalOrder(plan) ==
  LET rounds[done \in SUBSET StepIds(plan)] ==
        IF done = StepIds(plan) THEN <<>>
        ELSE LET ready == ReadySteps(plan, done)
             IN ready \o rounds[done \cup Range(ready)]
  IN rounds[{}]
=============================================================================
