------------------------ MODULE TrajectoryLifecycle ------------------------
(* The life of a trajectory, as the transition functions of
   src/promptcadence/domain/trajectory.py permit it: seventeen labelled
   transitions (T1 to T17) over ten states, each one a single write of the
   row together with the lease, the approval request, the intents and the
   window clock it carries.  Who makes a transition, and what may interleave
   with it, is the business of the modules that refine this one. *)
EXTENDS Naturals

CONSTANTS
    Trajectories,       \* ids that POST /trajectories may create
    WindowWaitMaxDays   \* [budget] window_wait_max_days

ASSUME WindowWaitMaxDaysAssumption == WindowWaitMaxDays \in Nat \ {0}

VARIABLES
    status,      \* trajectories.status, or "none" before T1
    leased,      \* lease_owner is not null
    pending,     \* a pending approval_requests row exists
    minted,      \* at least one execution_intents row exists
    parkedFrom,  \* WindowWait.parked_from, "none" when not parked
    daysWaited   \* WindowWait.days_waited

vars == <<status, leased, pending, minted, parkedFrom, daysWaited>>
----------------------------------------------------------------------------
Terminal == {"completed", "rejected", "halted", "failed", "cancelled"}
LeaseHolding == {"planning", "executing"}
Parkable == {"planning", "executing"}
States == Terminal \cup LeaseHolding
            \cup {"queued", "awaiting_approval", "awaiting_window"}

Init == /\ status = [t \in Trajectories |-> "none"]
        /\ leased = [t \in Trajectories |-> FALSE]
        /\ pending = [t \in Trajectories |-> FALSE]
        /\ minted = [t \in Trajectories |-> FALSE]
        /\ parkedFrom = [t \in Trajectories |-> "none"]
        /\ daysWaited = [t \in Trajectories |-> 0]

(* One write of the row: the state, whether a lease goes with it, and whether
   a pending request does. *)
Move(t, to, holdsLease, asks) ==
    /\ status' = [status EXCEPT ![t] = to]
    /\ leased' = [leased EXCEPT ![t] = holdsLease]
    /\ pending' = [pending EXCEPT ![t] = asks]

(* Mutant: the intent is left for a later write. *)
MintLater(t) == UNCHANGED minted

Mint(t) == minted' = [minted EXCEPT ![t] = TRUE]
KeepWait == UNCHANGED <<parkedFrom, daysWaited>>
(* Mutant: an ending leaves its request unanswered. *)
EndUnanswered(t, ending) == Move(t, ending, FALSE, pending[t]) /\ UNCHANGED minted /\ KeepWait

End(t, ending) == Move(t, ending, FALSE, FALSE) /\ UNCHANGED minted /\ KeepWait
----------------------------------------------------------------------------
Create(t) ==                                                         \* T1
    /\ status[t] = "none"
    /\ Move(t, "queued", FALSE, FALSE)
    /\ UNCHANGED minted /\ KeepWait

ClaimForPlanning(t) ==                                               \* T2
    /\ status[t] = "queued"
    /\ Move(t, "planning", TRUE, FALSE)
    /\ UNCHANGED minted /\ KeepWait

ClaimForBypass(t) ==                                                 \* T3
    /\ status[t] = "queued"
    /\ Move(t, "executing", TRUE, FALSE)
    /\ Mint(t) /\ KeepWait

ClaimForBypassGated(t) ==                         \* T3 then T10, one write
    /\ status[t] = "queued"
    /\ Move(t, "awaiting_approval", FALSE, TRUE)
    /\ Mint(t) /\ KeepWait

ApprovePlan(t) ==                                                    \* T4
    /\ status[t] = "planning"
    /\ Move(t, "executing", leased[t], FALSE)
    /\ Mint(t) /\ KeepWait

RequestApproval(t) ==                                          \* T5 and T10
    /\ status[t] \in {"planning", "executing"}
    /\ Move(t, "awaiting_approval", FALSE, TRUE)
    /\ UNCHANGED minted /\ KeepWait

RejectPlan(t) == status[t] = "planning" /\ End(t, "rejected")        \* T6

GrantApproval(t) ==                                                  \* T8
    /\ status[t] = "awaiting_approval"
    /\ pending[t]
    /\ Move(t, "executing", FALSE, FALSE)
    /\ Mint(t) /\ KeepWait

DenyOrTimeOutApproval(t) ==                                          \* T9
    status[t] = "awaiting_approval" /\ End(t, "halted")

Complete(t) == status[t] = "executing" /\ End(t, "completed")        \* T11
Halt(t) == status[t] = "executing" /\ End(t, "halted")               \* T12
Fail(t) == status[t] \in {"planning", "executing"} /\ End(t, "failed") \* T7, T13

(* Mutant: T14 without the refusal of a terminal state. *)
CancelAnything(t) == status[t] # "none" /\ End(t, "cancelled")

Cancel(t) ==                                                         \* T14
    status[t] \in States \ Terminal /\ End(t, "cancelled")

(* Mutant: every park remembers planning. *)
ParkAsPlanning(t) ==
    /\ status[t] \in Parkable
    /\ Move(t, "awaiting_window", FALSE, FALSE)
    /\ parkedFrom' = [parkedFrom EXCEPT ![t] = "planning"]
    /\ daysWaited' = [daysWaited EXCEPT ![t] = 0]
    /\ UNCHANGED minted

ParkForWindow(t) ==                                                  \* T15
    /\ status[t] \in Parkable
    /\ Move(t, "awaiting_window", FALSE, FALSE)
    /\ parkedFrom' = [parkedFrom EXCEPT ![t] = status[t]]
    /\ daysWaited' = [daysWaited EXCEPT ![t] = 0]
    /\ UNCHANGED minted

(* A day edge the ceiling still refused: the edge is counted, the park kept. *)
KeepParked(t) ==
    /\ status[t] = "awaiting_window"
    /\ daysWaited[t] + 1 < WindowWaitMaxDays
    /\ daysWaited' = [daysWaited EXCEPT ![t] = @ + 1]
    /\ UNCHANGED <<status, leased, pending, minted, parkedFrom>>

(* T16 sees the clock with the edge just crossed already counted. *)
ResumeFromWindow(t) ==                                               \* T16
    /\ status[t] = "awaiting_window"
    /\ daysWaited[t] + 1 < WindowWaitMaxDays
    /\ Move(t, parkedFrom[t], TRUE, FALSE)
    /\ parkedFrom' = [parkedFrom EXCEPT ![t] = "none"]
    /\ daysWaited' = [daysWaited EXCEPT ![t] = @ + 1]
    /\ UNCHANGED minted

HaltWindowWait(t) ==                                                 \* T17
    /\ status[t] = "awaiting_window"
    /\ daysWaited[t] + 1 >= WindowWaitMaxDays
    /\ Move(t, "halted", FALSE, FALSE)
    /\ daysWaited' = [daysWaited EXCEPT ![t] = @ + 1]
    /\ UNCHANGED <<minted, parkedFrom>>

(* Recovery (lifecycle 8.3) changes no state: a lease is taken over, or put
   back on a released row. *)
Recover(t) ==
    /\ status[t] \in LeaseHolding
    /\ leased' = [leased EXCEPT ![t] = TRUE]
    /\ UNCHANGED <<status, pending, minted, parkedFrom, daysWaited>>

Step(t) == \/ Create(t) \/ ClaimForPlanning(t) \/ ClaimForBypass(t)
           \/ ClaimForBypassGated(t) \/ ApprovePlan(t) \/ RequestApproval(t)
           \/ RejectPlan(t) \/ GrantApproval(t) \/ DenyOrTimeOutApproval(t)
           \/ Complete(t) \/ Halt(t) \/ Fail(t) \/ Cancel(t)
           \/ ParkForWindow(t) \/ KeepParked(t) \/ ResumeFromWindow(t)
           \/ HaltWindowWait(t) \/ Recover(t)

Next == \E t \in Trajectories : Step(t)

Spec == Init /\ [][Next]_vars
----------------------------------------------------------------------------
(* Every variable keeps to its type, and a park returns only to a state that
   can park (WindowWait.__post_init__). *)
TypeOK ==
    /\ status \in [Trajectories -> States \cup {"none"}]
    /\ leased \in [Trajectories -> BOOLEAN]
    /\ pending \in [Trajectories -> BOOLEAN]
    /\ minted \in [Trajectories -> BOOLEAN]
    /\ parkedFrom \in [Trajectories -> Parkable \cup {"none"}]
    /\ daysWaited \in [Trajectories -> 0 .. WindowWaitMaxDays]

(* There is no path into executing without an intent (ADR-0048, the docstring
   of claim_for_bypass): not by bypass, plan, grant, nor by the return from a
   window park. *)
ExecutingHasIntent ==
    \A t \in Trajectories : status[t] \in {"executing", "completed"} => minted[t]

(* A trajectory parked with no request is one nobody can release, and a
   request whose trajectory moved on is one nobody should answer (ADR-0049
   rule 6, the docstring of request_approval). *)
ParkedOnItsRequest ==
    \A t \in Trajectories : status[t] = "awaiting_approval" <=> pending[t]

(* T6 "nothing executed": a rejected plan never minted an intent. *)
RejectedRanNothing ==
    \A t \in Trajectories : status[t] = "rejected" => ~minted[t]

(* Only planning and executing hold a lease, and a plan is never drafted
   without one (TrajectoryState.holds_lease). *)
LeaseFollowsWork ==
    \A t \in Trajectories :
        /\ leased[t] => status[t] \in LeaseHolding
        /\ status[t] = "planning" => leased[t]

(* What the five invariants above rest on, and what makes them inductive: a
   window park remembers a state it may return to, the return to executing is
   only open to what had an intent, and planning precedes every intent. *)
UnplannedHasNoIntent ==
    \A t \in Trajectories :
        \/ status[t] \in {"none", "queued", "planning", "rejected"}
        \/ status[t] = "awaiting_window" /\ parkedFrom[t] = "planning"
        => ~minted[t]

ParkRemembersItsOrigin ==
    \A t \in Trajectories : status[t] = "awaiting_window" =>
        /\ parkedFrom[t] \in Parkable
        /\ parkedFrom[t] = "executing" => minted[t]
        /\ daysWaited[t] < WindowWaitMaxDays

Inductive == /\ TypeOK
             /\ ExecutingHasIntent /\ ParkedOnItsRequest
             /\ LeaseFollowsWork
             /\ UnplannedHasNoIntent /\ ParkRemembersItsOrigin

(* Terminal states are absorbing (TrajectoryState.is_terminal): no later
   write changes the row at all. *)
TerminalIsAbsorbing ==
    [][\A t \in Trajectories :
          status[t] \in Terminal =>
              /\ status'[t] = status[t]
              /\ minted'[t] = minted[t]
              /\ ~leased'[t] /\ ~pending'[t]]_vars

(* Once work has begun under an intent the trajectory never plans again. *)
PlansOnlyOnce ==
    [][\A t \in Trajectories : minted[t] => status'[t] # "planning"]_vars
============================================================================
