--------------------------- MODULE LoadCoachClient ---------------------------
(***************************************************************************)
(* What comes back from LoadCoach (infrastructure/loadcoach.py): how one   *)
(* exchange is mapped onto an error, what of a generation's document is    *)
(* read and what is refused, how the fragments of tool calls are put       *)
(* together, how the API version is cached and how the job of a turn is    *)
(* found; and what the loop does of each failure (services/loop.py).       *)
(* An exchange is [ended, status, body, code]: how it ended, and what the  *)
(* error envelope of the body says, if it is one.  A document is a         *)
(* function from the paths that are read to the shape found there.         *)
(***************************************************************************)
EXTENDS Integers, Sequences

LOCAL INSTANCE SequencesExt

CONSTANTS
  VersionCacheSeconds, \* how long a negotiated version is trusted
  MaxPages,            \* pages of /jobs a search reads
  None,                \* the null of a document, and a field it does not carry
  Unsupported          \* the marker of a provider that does not count a class of tokens

(* ------------------------------- failures ------------------------------- *)

NoCode == "no code"
TierReason ==
  [NO_ELIGIBLE_MODEL |-> "no_eligible_model", TASK_PROFILE_NOT_FOUND |-> "task_profile_not_found"]

\* The codes the table maps onto an error other than LOADCOACH_ERROR, which is
\* what all others are, one it does not know included.
LoadCoachCodeMap ==
  [code \in DOMAIN TierReason \cup {"CONTEXT_LIMIT_EXCEEDED"} |->
     IF code \in DOMAIN TierReason THEN "TIER_UNAVAILABLE" ELSE "COMPACTION_FAILED"]

Failure(kind, reason, code) == [kind |-> kind, reason |-> reason, code |-> code]
NoFailure == Failure("none", "none", NoCode)

MapError(exchange) ==
  CASE exchange.ended = "timeout" -> Failure("LOADCOACH_ERROR", "client_timeout", NoCode)
    [] exchange.ended = "broken"  -> Failure("LOADCOACH_UNAVAILABLE", "none", NoCode)
    [] exchange.ended = "answered" ->
         Failure(IF exchange.code \in DOMAIN LoadCoachCodeMap
                 THEN LoadCoachCodeMap[exchange.code] ELSE "LOADCOACH_ERROR",
                 IF exchange.code \in DOMAIN TierReason THEN TierReason[exchange.code] ELSE "none",
                 exchange.code)

\* _call: any other status than the expected is a failure, and so is no JSON.
Called(exchange, expected) ==
  IF exchange.ended # "answered" \/ exchange.status # expected THEN MapError(exchange)
  ELSE IF exchange.body = "no json" THEN Failure("LOADCOACH_ERROR", "none", NoCode)
  ELSE NoFailure

RetryableCodes ==
  {"ALL_CANDIDATES_FAILED", "PROVIDER_UNAVAILABLE", "PROVIDER_TIMEOUT", "PROVIDER_PROTOCOL_ERROR",
   "INSUFFICIENT_RESOURCES", "QUEUE_FULL", "MAX_WAIT_EXCEEDED", "RATE_LIMITED", "INTERNAL_ERROR"}
SubjectAbsent == "subject_absent"
UnverifiedReasons == {SubjectAbsent, "subject_unverifiable"}
ServiceFailureReasons ==
  {"no_eligible_model", "task_profile_not_found", "loadcoach_has_no_remote_provider"}

\* What the loop makes of a step's turn that failed so, the first that applies.
Reaction(failure) ==
  IF failure.kind = "LOADCOACH_UNAVAILABLE" THEN "fail"
  ELSE IF failure.reason \in UnverifiedReasons THEN "violation"
  ELSE IF failure.reason \in ServiceFailureReasons THEN "escalate"
  ELSE IF failure.reason = "client_timeout" \/ failure.code \in RetryableCodes THEN "repeat"
  ELSE "halt"

\* And of a summary's: the compaction fails, but for an error of a class that is
\* neither a LoadCoachError nor caught further up.
SummaryReaction(failure) ==
  IF failure.kind = "TIER_UNAVAILABLE" THEN "escapes" ELSE "undo"

\* The job that may still run under the turn's key is cancelled.
Abandons(failure) ==
  failure.kind = "LOADCOACH_UNAVAILABLE" \/ failure.reason = "client_timeout"

(* ------------------------- a generation's document ---------------------- *)

\* The paths in the order they are read, and the shapes each may not have:
\* absent, null, empty or of the wrong type.
Refused ==
  <<<<"job_id", {"absent"}>>, <<"status", {"absent"}>>,
    <<"output", {"absent", "null", "wrong"}>>,
    <<"output.text", {"wrong"}>>,
    <<"output.tool_calls", {"wrong"}>>,
    <<"output.tool_calls_assembled", {"null", "wrong"}>>,
    <<"model.canonical_id", {"absent", "null", "empty", "wrong"}>>,
    <<"usage", {"absent", "null", "wrong"}>>,
    <<"usage.tokens", {"absent", "wrong"}>>,
    <<"usage.thinking_tokens", {"wrong"}>>,
    <<"timing", {"absent"}>>, <<"routing", {"absent"}>>,
    <<"output.finish_reason", {"wrong"}>>,
    <<"model.served_context", {"wrong"}>>,
    <<"timing.total_ms", {"wrong"}>>,
    <<"validation", {"absent", "null", "wrong"}>>>>
Paths == {Refused[k][1] : k \in DOMAIN Refused}

\* parse_generation: the first path that cannot be read decides.  A canonical id
\* that is there and names nothing is marked; an absent one is not.
Parse(document) ==
  LET wrong == {k \in DOMAIN Refused : document[Refused[k][1]] \in Refused[k][2]}
      path == Refused[CHOOSE k \in wrong : \A j \in wrong : k <= j][1]
  IN IF wrong = {} THEN NoFailure
     ELSE Failure("LOADCOACH_ERROR",
                  IF path = "model.canonical_id" /\ document[path] # "absent"
                  THEN SubjectAbsent ELSE "none", NoCode)

\* A class of tokens: null and "unsupported" are no count, and never zero.
TokenCount(value) == IF value = None THEN Unsupported ELSE value

Declared == {"stop", "length", "tool_calls", "error"}
\* _finish_reason_of: a declared reason, or none of this suite's.
FinishReason(raw) == IF raw \in Declared THEN raw ELSE "none"

\* A schema validation: performed and passed, and a check of that kind passed;
\* the job document of a replayed key has no checks and confirms nothing.
SchemaValidated(block) ==
  /\ block.performed /\ block.passed /\ block.checks # "absent"
  /\ \E k \in DOMAIN block.checks : block.checks[k] = <<"json_schema", TRUE>>

(* ------------------------------ tool calls ------------------------------ *)

\* A fragment is [index, id, name, text].
Key(fragments, k) ==
  IF fragments[k].index # None THEN <<"index", fragments[k].index>>
  ELSE IF fragments[k].id # None THEN <<"id", fragments[k].id>>
  ELSE <<"position", k>>

\* assemble_tool_calls: one call per key in the order of first appearance, with
\* the first fragment's id, the first name there is, and all texts in order.
AssembleToolCalls(fragments) ==
  LET places == 1 .. Len(fragments)
      ofKey(k) == {j \in places : Key(fragments, j) = Key(fragments, k)}
      first(S) == CHOOSE k \in S : \A j \in S : k <= j
      opens(k) == first(ofKey(k)) = k
      named(k) == {j \in ofKey(k) : fragments[j].name # None}
      call(k) ==
        [id   |-> IF fragments[k].id # None THEN <<fragments[k].id>>
                  ELSE IF fragments[k].index # None THEN <<"call", fragments[k].index>>
                  ELSE <<"call", k - 1>>,
         name |-> IF named(k) = {} THEN None ELSE fragments[first(named(k))].name,
         text |-> FoldLeft(LAMBDA text, j : IF Key(fragments, j) = Key(fragments, k)
                                            THEN text \o fragments[j].text ELSE text,
                           <<>>, [j \in places |-> j])]
  IN FoldLeft(LAMBDA calls, k : IF opens(k) THEN Append(calls, call(k)) ELSE calls,
              <<>>, [k \in places |-> k])

\* What LoadCoach assembled is taken as it is, empty or not, and only where it
\* assembled nothing are the fragments.
RequestedToolCalls(output) ==
  IF output.assembled # None THEN output.assembled ELSE AssembleToolCalls(output.fragments)

(* --------------------------- versions and jobs -------------------------- *)

\* version: the last successful negotiation is trusted for a while; one that
\* finds no v1 is refused and not remembered.
NeverNegotiated == [known |-> FALSE, at |-> 0]
Fresh(cache, now) == cache.known /\ now - cache.at < VersionCacheSeconds
Negotiate(cache, now, exchange, majors) ==
  LET failure == Called(exchange, 200)
  IN IF Fresh(cache, now) THEN [failure |-> NoFailure, cache |-> cache]
     ELSE IF failure # NoFailure THEN [failure |-> failure, cache |-> cache]
     ELSE IF "v1" \notin majors
     THEN [failure |-> Failure("LOADCOACH_ERROR", "none", NoCode), cache |-> cache]
     ELSE [failure |-> NoFailure, cache |-> [known |-> TRUE, at |-> now]]

\* find_job: the newest job with the key on the pages that are read; a job
\* beyond them is not found.
NoJob == "no job"
FindJob(pages, key) ==
  LET read == FlattenSeq(SubSeq(pages, 1, IF Len(pages) < MaxPages THEN Len(pages) ELSE MaxPages))
      held == {k \in DOMAIN read : read[k].key = key}
  IN IF held = {} THEN NoJob ELSE read[CHOOSE k \in held : \A j \in held : k <= j]
=============================================================================
