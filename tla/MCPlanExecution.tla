-------------------------- MODULE MCPlanExecution --------------------------
(* A plan of three steps: two local ones that are ready together and may not
   run together, and a remote one that waits for the first and may then run
   beside the second. *)
EXTENDS PlanExecution

CONSTANTS scan, review, fetch

MCPlan == <<scan, review, fetch>>
MCDependsOn == [s \in {scan, review, fetch} |-> IF s = fetch THEN {scan} ELSE {}]
=============================================================================
