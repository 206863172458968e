---------------------------- MODULE GovernedPlan ----------------------------
(* What the record of a planned trajectory promises, whatever threads, turns and
   crashes lie beneath it: a step commits at most once, only under an intent,
   only after the steps it depends on, and the trajectory is completed in the
   very write that commits its last step (lifecycle of a plan in services/loop.py
   and services/approvals.py).  PlanExecution implements this module. *)
CONSTANTS
    Steps,
    DependsOn       \* a step's depends_on

VARIABLES
    phase,          \* the trajectory's status, as far as its plan is concerned
    allowed,        \* steps that hold a live intent
    asked,          \* the steps of the one pending request
    committed       \* plan_steps with status committed

vars == <<phase, allowed, asked, committed>>

Phases == {"planning", "executing", "awaiting_approval", "completed", "ended"}
Open == {"planning", "executing", "awaiting_approval"}
-----------------------------------------------------------------------------
Init ==
    /\ phase = "planning"
    /\ allowed = {} /\ asked = {} /\ committed = {}

(* The verdict mints what policy allows, and at least one step of it. *)
Allow ==                                                               \* T4
    /\ phase = "planning"
    /\ phase' = "executing"
    /\ allowed' \in (SUBSET Steps) \ {{}}
    /\ UNCHANGED <<asked, committed>>

(* A plan held whole, a gated step, a drift: one request. *)
Ask ==                                                            \* T5, T10
    /\ phase \in {"planning", "executing"}
    /\ phase' = "awaiting_approval"
    /\ asked' \in (SUBSET Steps) \ {{}}
    /\ UNCHANGED <<allowed, committed>>

Grant ==                                                               \* T8
    /\ phase = "awaiting_approval"
    /\ phase' = "executing"
    /\ allowed' = allowed \cup asked
    /\ asked' = {}
    /\ UNCHANGED committed

Commit(s) ==                                                 \* and T11, at the last
    /\ phase = "executing"
    /\ s \in allowed \ committed
    /\ DependsOn[s] \subseteq committed
    /\ committed' = committed \cup {s}
    /\ phase' = IF committed' = Steps THEN "completed" ELSE "executing"
    /\ UNCHANGED <<allowed, asked>>

(* Rejected, halted, failed, denied, expired or cancelled. *)
End ==
    /\ phase \in Open
    /\ phase' = "ended"
    /\ asked' = {}
    /\ UNCHANGED <<allowed, committed>>

Next ==
    \/ Allow \/ Ask \/ Grant \/ End
    \/ \E s \in allowed : Commit(s)

Spec == Init /\ [][Next]_vars
-----------------------------------------------------------------------------
(* The type invariant. *)
TypeOK ==
    /\ phase \in Phases
    /\ {allowed, asked, committed} \subseteq SUBSET Steps

(* No step is done that nobody allowed (contract: every turn runs under a live
   intent). *)
CommittedWasAllowed == committed \subseteq allowed

(* The plan's order is kept, whatever ran concurrently. *)
DependenciesFirst == \A s \in committed : DependsOn[s] \subseteq committed

(* Completed means every step, and every step means completed: neither is ever
   seen without the other. *)
CompletedIsWhole == Steps # {} => (phase = "completed" <=> committed = Steps)

(* A person is asked about something, and only while the trajectory waits. *)
AsksWhileWaiting == phase = "awaiting_approval" <=> asked # {}
=============================================================================
