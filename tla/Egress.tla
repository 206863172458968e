------------------------------- MODULE Egress --------------------------------
(***************************************************************************)
(* May this data go there (services/egress.py): a tier or the host of a    *)
(* fetch is described as a target [remote, ceiling], the policy evaluates  *)
(* the trajectory's declared class against it, and the verdict is recorded *)
(* whatever it is.  A tool's call reaches the network only with an         *)
(* approval (services/loop.py).                                            *)
(***************************************************************************)
EXTENDS Tiers

CONSTANTS
  LoopbackHosts,  \* the hosts that do not leave this machine
  AllowedHosts,   \* [tools] fetch_allowed_hosts, lowered
  FetchCeiling,   \* [tools] fetch_max_data_classification, or none
  NetworkTools    \* the registered tools whose egress class is the network

NoCeiling == -1
NoHost == "no host"  \* host_of: a URL that cannot be parsed or names none

ASSUME EgressAssumption ==
  /\ FetchCeiling \in Class \cup {NoCeiling}
  /\ NoHost \notin LoopbackHosts \cup AllowedHosts

NotLeavingTarget == [remote |-> FALSE, ceiling |-> NoCeiling]
RemoteTarget(ceiling) == [remote |-> TRUE, ceiling |-> ceiling]

TierTarget(tier) == IF tier \in Remote THEN RemoteTarget(Ceiling[tier]) ELSE NotLeavingTarget

\* A host that is allowed gets the operator's ceiling, and any other none at
\* all, so that its denial is a recorded decision too.
FetchTarget(host) ==
  IF host \in LoopbackHosts THEN NotLeavingTarget
  ELSE RemoteTarget(IF host \in AllowedHosts THEN FetchCeiling ELSE NoCeiling)

\* Commissioner's shipped policy: the verdict on one target and its reason.
Evaluate(class, target) ==
  IF ~target.remote THEN [verdict |-> "APPROVED", reason |-> "target_not_remote"]
  ELSE IF target.ceiling = NoCeiling THEN [verdict |-> "DENIED", reason |-> "no_ceiling_declared"]
  ELSE IF class <= target.ceiling THEN [verdict |-> "APPROVED", reason |-> "within_ceiling"]
  ELSE [verdict |-> "DENIED", reason |-> "classification_exceeds_ceiling"]
Approves(class, target) == Evaluate(class, target).verdict = "APPROVED"

\* record_violation: what went although nothing approved it is a verdict of the
\* verification's own, whatever the policy would have said.
Violation(reason) == [verdict |-> "VIOLATION", reason |-> reason]

\* _tool_egress_ceiling: of the network tools alone, by the host of the url the
\* call names; a url that is no text names no host.
ToolCeiling(tool, host, class) ==
  IF tool \in NetworkTools /\ Approves(class, FetchTarget(host)) THEN "NETWORK" ELSE "NONE"

\* ToolYard's own check: a network tool is refused under a closed ceiling.
MayReach(tool, host, class) == tool \in NetworkTools => ToolCeiling(tool, host, class) = "NETWORK"
=============================================================================
