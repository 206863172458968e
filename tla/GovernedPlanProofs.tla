------------------------- MODULE GovernedPlanProofs -------------------------
(* The promises of GovernedPlan, proved for every plan.  They are not inductive
   as they stand: the verdict replaces the set of allowed steps, which is harmless
   only because nothing was allowed, and so nothing committed, before it. *)
EXTENDS GovernedPlan, TLAPS

Promises ==
    /\ TypeOK
    /\ CommittedWasAllowed
    /\ DependenciesFirst
    /\ CompletedIsWhole
    /\ AsksWhileWaiting

Inductive ==
    /\ Promises
    /\ phase = "planning" => allowed = {}

(* Every promise holds in every reachable state: intents before work, the plan's
   order, completion with the last commit, one request while waiting. *)
THEOREM PromisesHold == Spec => []Promises
<1>1. Init => Inductive
  BY DEF Init, Inductive, Promises, TypeOK, Phases, CommittedWasAllowed, DependenciesFirst,
         CompletedIsWhole, AsksWhileWaiting, Promises
<1>2. Inductive /\ [Next]_vars => Inductive'
  <2> SUFFICES ASSUME Inductive, [Next]_vars PROVE Inductive'
    OBVIOUS
  <2> USE DEF Inductive, Promises, TypeOK, Phases, CommittedWasAllowed, DependenciesFirst,
              CompletedIsWhole, AsksWhileWaiting
  <2>1. CASE Allow
    BY <2>1 DEF Allow
  <2>2. CASE Ask
    BY <2>2 DEF Ask
  <2>3. ASSUME NEW s \in allowed, Commit(s) PROVE Inductive'
    BY <2>3 DEF Commit
  <2>4. CASE Grant
    BY <2>4 DEF Grant
  <2>5. CASE End
    BY <2>5 DEF End, Open
  <2>6. CASE UNCHANGED vars
    BY <2>6 DEF vars
  <2> QED
    BY <2>1, <2>2, <2>3, <2>4, <2>5, <2>6 DEF Next
<1>3. Inductive => Promises
  BY DEF Inductive
<1> QED
  BY <1>1, <1>2, <1>3, PTL DEF Spec
=============================================================================
