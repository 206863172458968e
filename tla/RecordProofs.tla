---------------------------- MODULE RecordProofs ----------------------------
(***************************************************************************)
(* The life of a trajectory and what is kept of it, for every set of       *)
(* trajectories and every bound.                                           *)
(*                                                                         *)
(* The transition table keeps its promises whoever makes its transitions:  *)
(* Inductive is kept by each of the eighteen actions; the invariants are   *)
(* its conjuncts or follow from them, and the two action properties are    *)
(* read off one step taken from it.  On that rest the two invariants of    *)
(* the three writers of explanations, which need to know what each writer  *)
(* has in hand and which trajectories no run will touch again.             *)
(***************************************************************************)
EXTENDS Record, TLAPS

(* ------------------------------- the life -------------------------------- *)

(* No trajectory exists at first, and nothing is claimed of it. *)
LEMMA InitInductive == Init => Inductive
  BY WindowWaitMaxDaysAssumption
     DEF Init, Inductive, TypeOK, ExecutingHasIntent, ParkedOnItsRequest,
         LeaseFollowsWork, UnplannedHasNoIntent, ParkRemembersItsOrigin,
         States, Terminal, LeaseHolding, Parkable

(* Each labelled transition keeps the inductive invariant. *)
LEMMA StepKeepsInductive == Inductive /\ [Next]_vars => Inductive'
  <1> SUFFICES ASSUME Inductive, [Next]_vars
               PROVE  Inductive'
    OBVIOUS
  <1> USE WindowWaitMaxDaysAssumption
          DEF Inductive, TypeOK, ExecutingHasIntent, ParkedOnItsRequest,
              LeaseFollowsWork, UnplannedHasNoIntent, ParkRemembersItsOrigin,
              States, Terminal, LeaseHolding, Parkable, Move, KeepWait
  <1>1. ASSUME NEW t \in Trajectories, Create(t) PROVE Inductive'
    BY <1>1 DEF Create
  <1>2. ASSUME NEW t \in Trajectories, ClaimForPlanning(t) PROVE Inductive'
    BY <1>2 DEF ClaimForPlanning
  <1>3. ASSUME NEW t \in Trajectories, ClaimForBypass(t) PROVE Inductive'
    BY <1>3 DEF ClaimForBypass, Mint
  <1>4. ASSUME NEW t \in Trajectories, ClaimForBypassGated(t) PROVE Inductive'
    BY <1>4 DEF ClaimForBypassGated, Mint
  <1>5. ASSUME NEW t \in Trajectories, ApprovePlan(t) PROVE Inductive'
    BY <1>5 DEF ApprovePlan, Mint
  <1>6. ASSUME NEW t \in Trajectories, RequestApproval(t) PROVE Inductive'
    BY <1>6 DEF RequestApproval
  <1>7. ASSUME NEW t \in Trajectories, RejectPlan(t) PROVE Inductive'
    BY <1>7 DEF RejectPlan, End
  <1>8. ASSUME NEW t \in Trajectories, GrantApproval(t) PROVE Inductive'
    BY <1>8 DEF GrantApproval, Mint
  <1>9. ASSUME NEW t \in Trajectories, DenyOrTimeOutApproval(t) PROVE Inductive'
    BY <1>9 DEF DenyOrTimeOutApproval, End
  <1>10. ASSUME NEW t \in Trajectories, Complete(t) PROVE Inductive'
    BY <1>10 DEF Complete, End
  <1>11. ASSUME NEW t \in Trajectories, Halt(t) PROVE Inductive'
    BY <1>11 DEF Halt, End
  <1>12. ASSUME NEW t \in Trajectories, Fail(t) PROVE Inductive'
    BY <1>12 DEF Fail, End
  <1>13. ASSUME NEW t \in Trajectories, Cancel(t) PROVE Inductive'
    BY <1>13 DEF Cancel, End
  <1>14. ASSUME NEW t \in Trajectories, ParkForWindow(t) PROVE Inductive'
    BY <1>14 DEF ParkForWindow
  <1>15. ASSUME NEW t \in Trajectories, KeepParked(t) PROVE Inductive'
    BY <1>15 DEF KeepParked
  <1>16. ASSUME NEW t \in Trajectories, ResumeFromWindow(t) PROVE Inductive'
    BY <1>16 DEF ResumeFromWindow
  <1>17. ASSUME NEW t \in Trajectories, HaltWindowWait(t) PROVE Inductive'
    BY <1>17 DEF HaltWindowWait
  <1>18. ASSUME NEW t \in Trajectories, Recover(t) PROVE Inductive'
    BY <1>18 DEF Recover
  <1>19. CASE UNCHANGED vars
    BY <1>19 DEF vars
  <1> QED
    BY <1>1, <1>2, <1>3, <1>4, <1>5, <1>6, <1>7, <1>8, <1>9, <1>10, <1>11,
       <1>12, <1>13, <1>14, <1>15, <1>16, <1>17, <1>18, <1>19 DEF Next, Step

(* Every reachable state satisfies the inductive invariant: the table alone,
   with no assumption on who makes its transitions, when or how often. *)
THEOREM Invariance == Spec => []Inductive
  BY InitInductive, StepKeepsInductive, PTL DEF Spec

(* The row keeps to its type, and a window wait to its limit of days. *)
THEOREM TypeCorrect == Spec => []TypeOK
  BY Invariance, PTL DEF Inductive

(* No path reaches executing, or completes, without an intent (ADR-0048). *)
THEOREM NoExecutionWithoutIntent == Spec => []ExecutingHasIntent
  BY Invariance, PTL DEF Inductive

(* A trajectory waits for a person exactly as long as its request is pending:
   none is unreleasable, and no request outlives its trajectory (ADR-0049). *)
THEOREM NoUnreleasablePark == Spec => []ParkedOnItsRequest
  BY Invariance, PTL DEF Inductive

(* No state outside planning and executing holds a lease: a recovery pass that
   reads leases finds work, and nothing else. *)
THEOREM LeasesMeanWork == Spec => []LeaseFollowsWork
  BY Invariance, PTL DEF Inductive

(* A rejected plan ran nothing (T6). *)
THEOREM RejectionIsBeforeWork == Spec => []RejectedRanNothing
  <1>1. Inductive => RejectedRanNothing
    BY DEF Inductive, UnplannedHasNoIntent, RejectedRanNothing
  <1> QED
    BY Invariance, <1>1, PTL

(* No transition leaves a terminal state, or adds an intent, a lease or a
   request to one. *)
LEMMA TerminalStep ==
    ASSUME Inductive, [Next]_vars, NEW t \in Trajectories, status[t] \in Terminal
    PROVE  /\ status'[t] = status[t]
           /\ minted'[t] = minted[t]
           /\ ~leased'[t] /\ ~pending'[t]
  <1>1. Inductive'
    BY StepKeepsInductive
  <1>2. status'[t] = status[t] /\ minted'[t] = minted[t]
    <2>1. CASE UNCHANGED vars
      BY <2>1 DEF vars
    <2>2. ASSUME NEW u \in Trajectories, Step(u)
          PROVE  status'[t] = status[t] /\ minted'[t] = minted[t]
      <3>1. CASE u = t
        BY <2>2, <3>1 DEF Inductive, TypeOK, ParkedOnItsRequest, Step, Create,
           ClaimForPlanning, ClaimForBypass, ClaimForBypassGated, ApprovePlan,
           RequestApproval, RejectPlan, GrantApproval, DenyOrTimeOutApproval,
           Complete, Halt, Fail, Cancel, ParkForWindow, KeepParked,
           ResumeFromWindow, HaltWindowWait, Recover, Terminal, LeaseHolding,
           Parkable, Move, Mint, KeepWait, End
      <3>2. CASE u # t
        BY <2>2, <3>2 DEF Inductive, TypeOK, Step, Create,
           ClaimForPlanning, ClaimForBypass, ClaimForBypassGated, ApprovePlan,
           RequestApproval, RejectPlan, GrantApproval, DenyOrTimeOutApproval,
           Complete, Halt, Fail, Cancel, ParkForWindow, KeepParked,
           ResumeFromWindow, HaltWindowWait, Recover, Move, Mint, KeepWait, End
      <3> QED
        BY <3>1, <3>2
    <2> QED
      BY <2>1, <2>2 DEF Next
  <1>3. status'[t] \notin LeaseHolding \cup {"awaiting_approval"}
    BY <1>2 DEF Terminal, LeaseHolding
  <1> QED
    BY <1>1, <1>2, <1>3 DEF Inductive, LeaseFollowsWork, ParkedOnItsRequest

(* Terminal states are absorbing (TrajectoryState.is_terminal). *)
THEOREM Absorption == Spec => TerminalIsAbsorbing
  <1>1. Inductive /\ [Next]_vars =>
          [\A t \in Trajectories :
             status[t] \in Terminal =>
                 /\ status'[t] = status[t]
                 /\ minted'[t] = minted[t]
                 /\ ~leased'[t] /\ ~pending'[t]]_vars
    BY TerminalStep
  <1> QED
    BY Invariance, <1>1, PTL DEF Spec, TerminalIsAbsorbing

(* Once an intent exists the trajectory never drafts a plan again, not even by
   the return from a window wait: what it parked from is remembered. *)
THEOREM NoSecondPlan == Spec => PlansOnlyOnce
  <1>1. ASSUME Inductive, [Next]_vars, NEW t \in Trajectories, minted[t]
        PROVE  status'[t] # "planning"
    <2>1. Inductive'
      BY <1>1, StepKeepsInductive
    <2>2. minted'[t]
      <3>1. CASE UNCHANGED vars
        BY <1>1, <3>1 DEF vars
      <3>2. ASSUME NEW u \in Trajectories, Step(u)
            PROVE  minted'[t]
        BY <1>1, <3>2 DEF Inductive, TypeOK, Step, Create,
           ClaimForPlanning, ClaimForBypass, ClaimForBypassGated, ApprovePlan,
           RequestApproval, RejectPlan, GrantApproval, DenyOrTimeOutApproval,
           Complete, Halt, Fail, Cancel, ParkForWindow, KeepParked,
           ResumeFromWindow, HaltWindowWait, Recover, Mint, End
      <3> QED
        BY <1>1, <3>1, <3>2 DEF Next
    <2> QED
      BY <2>1, <2>2 DEF Inductive, UnplannedHasNoIntent
  <1>2. Inductive /\ [Next]_vars =>
          [\A t \in Trajectories : minted[t] => status'[t] # "planning"]_vars
    BY <1>1
  <1> QED
    BY Invariance, <1>2, PTL DEF Spec, PlansOnlyOnce

(* ------------------------- the inductive invariant ----------------------- *)

(* What is old has ended, and no run has it or will. *)
Over ==
    \A t \in Trajectories : aged[t] => t \in Ended /\ ~unfiled[t] /\ Subject("run") # t

(* A writer at work has a trajectory that ended; only the sweep scrubs. *)
Working ==
    \A w \in Writers :
       /\ ~At(w, "idle") => Subject(w) \in Trajectories
       /\ At(w, "idle") => Subject(w) = NoTrajectory
       /\ w # "sweep" => ~At(w, "scrub") /\ ~At(w, "check")

(* The sweep has in hand what it selected and took off its list, which is old
   and, until it scrubs it, unscrubbed. *)
Sweeping ==
    /\ \A t \in targets["sweep"] : aged[t] /\ ~scrubbed[t]
    /\ Subject("sweep") \notin targets["sweep"]
    /\ At("sweep", "scrub") => aged[Subject("sweep")] /\ ~scrubbed[Subject("sweep")]
    /\ ~At("sweep", "idle") /\ ~At("sweep", "scrub") => scrubbed[Subject("sweep")]
    /\ \A t \in Trajectories : scrubbed[t] => aged[t]

(* A document composed after the scrub has no words, whoever composed it; one
   composed before it has torn the trajectory. *)
Wordless ==
    \A w \in Writers : At(w, "compare") \/ At(w, "insert") =>
       (w = "sweep" \/ (scrubbed[Subject(w)] /\ ~torn[Subject(w)]) => ~writer[w].doc.words)

Kept ==
    /\ Inductive /\ RecordTypeOK
    /\ Over /\ Working /\ Sweeping /\ Wordless
    /\ NothingOutlivesItsScrub

(* ------------------------------ its steps -------------------------------- *)

(* What is kept follows the life of the trajectory and never leads it; what has
   ended stays ended. *)
LEMMA LifeGoesOn ==
  ASSUME Kept, [RecordNext]_allVars
  PROVE  [Next]_vars /\ Inductive' /\ Ended \subseteq Ended'
<1>1. [Next]_vars
  BY DEF RecordNext, allVars, Transition, DebitLate, Age, File, Materialize, Compose, Compare, Insert,
     FailToFile, Sweep, Select, NextTarget, Scrub, Check, Rebuild, Kill, Next
<1>2. Inductive'
  BY <1>1, StepKeepsInductive DEF Kept
<1>3. \A t \in Trajectories : status[t] \in Terminal => status'[t] \in Terminal
  BY <1>1, TerminalStep DEF Kept
<1>. QED  BY <1>1, <1>2, <1>3 DEF Ended

(* The bits and counters keep to their types. *)
LEMMA BitsTyped ==
  ASSUME Kept, [RecordNext]_allVars
  PROVE  /\ {aged, scrubbed, unfiled, torn}' \subseteq [Trajectories -> BOOLEAN]
         /\ late' \in [Trajectories -> 0 .. MaxLate]
         /\ rebuilds' \in 0 .. MaxRebuilds /\ kills' \in 0 .. MaxKills
<1>. USE RecordAssumption DEF Kept, RecordTypeOK
<1>1. ASSUME NEW t \in Trajectories, Transition(t) \/ DebitLate(t) \/ Age(t) \/ File(t)
      PROVE  /\ {aged, scrubbed, unfiled, torn}' \subseteq [Trajectories -> BOOLEAN]
             /\ late' \in [Trajectories -> 0 .. MaxLate]
             /\ rebuilds' \in 0 .. MaxRebuilds /\ kills' \in 0 .. MaxKills
  <2>1. CASE Transition(t)
    BY <2>1 DEF Transition, rows
  <2>2. CASE DebitLate(t)
    BY <2>2 DEF DebitLate, memory
  <2>3. CASE Age(t)
    BY <2>3 DEF Age, memory
  <2>4. CASE File(t)
    BY <2>4 DEF File, rows
  <2>. QED  BY <1>1, <2>1, <2>2, <2>3, <2>4
<1>2. CASE Scrub
  BY <1>2 DEF Scrub
<1>3. CASE Kill
  BY <1>3 DEF Kill, rows
<1>4. CASE Rebuild
  BY <1>4 DEF Rebuild, rows
<1>5. CASE \/ \E w \in Writers : Materialize(w)
           \/ FailToFile \/ Select \/ NextTarget("sweep", "scrub") \/ Check
           \/ NextTarget("rebuild", "compose") \/ UNCHANGED allVars
  BY <1>5 DEF Materialize, Compose, Compare, Insert, FailToFile, Select, NextTarget, Check, rows,
     allVars, recordVars, memory
<1>. QED  BY <1>1, <1>2, <1>3, <1>4, <1>5 DEF RecordNext, Sweep

(* What is filed: nothing new, nothing at all, or one more revision, which
   supersedes the others of its trajectory. *)
LEMMA Filing ==
  ASSUME Kept, [RecordNext]_allVars
  PROVE  \/ revisions' = revisions
         \/ revisions' = [t \in Trajectories |-> <<>>]
         \/ \E w \in Writers :
              /\ At(w, "insert")
              /\ revisions' = [revisions EXCEPT ![Subject(w)] =
                        Append([i \in DOMAIN @ |-> [@[i] EXCEPT !.superseded = TRUE]],
                               [doc |-> writer[w].doc, superseded |-> FALSE])]
<1>1. CASE \E w \in Writers : Insert(w)
  BY <1>1 DEF Insert
<1>2. CASE Rebuild
  BY <1>2 DEF Rebuild
<1>3. CASE ~Rebuild /\ ~\E w \in Writers : Insert(w)
  BY <1>3 DEF RecordNext, allVars, recordVars, Transition, DebitLate, Age, File, Materialize, Compose, Compare,
     FailToFile, Sweep, Select, NextTarget, Scrub, Check, Kill
<1>. QED  BY <1>1, <1>2, <1>3

(* One element added to a sequence. *)
LEMMA AppendAt ==
  ASSUME NEW S, NEW q \in Seq(S), NEW x \in S
  PROVE  /\ Append(q, x) \in Seq(S)
         /\ Len(Append(q, x)) = Len(q) + 1 /\ DOMAIN Append(q, x) = 1 .. Len(q) + 1
         /\ \A i \in 1 .. Len(q) : Append(q, x)[i] = q[i]
         /\ Append(q, x)[Len(q) + 1] = x
OBVIOUS

Revision == [doc : Document, superseded : BOOLEAN]
Filed(q) == q \in Seq(Revision) /\ \A i \in DOMAIN q : q[i].superseded <=> i # Len(q)

(* A list of revisions with one more. *)
LEMMA Superseding ==
  ASSUME NEW q, Filed(q), NEW doc \in Document, NEW r,
         r = Append([i \in DOMAIN q |-> [q[i] EXCEPT !.superseded = TRUE]],
                    [doc |-> doc, superseded |-> FALSE])
  PROVE  Filed(r) /\ Len(r) \in Nat \ {0} /\ r[Len(r)].doc = doc
<1>. DEFINE old == [i \in DOMAIN q |-> [q[i] EXCEPT !.superseded = TRUE]]
            new == [doc |-> doc, superseded |-> FALSE]
<1>1. q \in Seq(Revision) /\ Len(q) \in Nat /\ DOMAIN q = 1 .. Len(q)
  BY DEF Filed
<1>2. \A i \in DOMAIN q : old[i] \in Revision /\ old[i].superseded
  <2>. SUFFICES ASSUME NEW i \in DOMAIN q PROVE old[i] \in Revision /\ old[i].superseded
    OBVIOUS
  <2>1. q[i] \in Revision
    BY <1>1
  <2>2. [q[i] EXCEPT !.superseded = TRUE] \in Revision /\ [q[i] EXCEPT !.superseded = TRUE].superseded
    BY <2>1 DEF Revision
  <2>. QED  BY <2>2
<1>3. old \in Seq(Revision) /\ Len(old) = Len(q) /\ DOMAIN old = 1 .. Len(q)
  BY <1>1, <1>2
<1>4. new \in Revision /\ new.superseded = FALSE /\ new.doc = doc
  BY DEF Revision
<1>. HIDE DEF old, new
<1>5. /\ r \in Seq(Revision) /\ Len(r) = Len(q) + 1 /\ DOMAIN r = 1 .. Len(q) + 1
      /\ r[Len(q) + 1] = new /\ \A i \in 1 .. Len(q) : r[i] = old[i]
  <2>1. r = Append(old, new)
    BY DEF old, new
  <2>2. /\ Append(old, new) \in Seq(Revision)
        /\ Len(Append(old, new)) = Len(old) + 1 /\ DOMAIN Append(old, new) = 1 .. Len(old) + 1
        /\ \A i \in 1 .. Len(old) : Append(old, new)[i] = old[i]
        /\ Append(old, new)[Len(old) + 1] = new
    BY <1>3, <1>4, AppendAt
  <2>. QED  BY <1>3, <2>1, <2>2
<1>6. \A i \in DOMAIN r : r[i].superseded <=> i # Len(r)
  BY <1>1, <1>2, <1>3, <1>4, <1>5
<1>. QED  BY <1>1, <1>4, <1>5, <1>6 DEF Filed

(* Every list of revisions keeps its one current revision, at its end. *)
LEMMA RevisionsKept ==
  ASSUME Kept, [RecordNext]_allVars
  PROVE  /\ revisions' \in [Trajectories -> Seq(Revision)]
         /\ \A t \in Trajectories : Filed(revisions'[t])
<1>0. revisions \in [Trajectories -> Seq(Revision)] /\ \A t \in Trajectories : Filed(revisions[t])
  BY DEF Kept, RecordTypeOK, Filed, Revision
<1>1. CASE revisions' = revisions
  BY <1>0, <1>1
<1>2. CASE revisions' = [t \in Trajectories |-> <<>>]
  BY <1>2 DEF Filed
<1>3. ASSUME NEW w \in Writers, At(w, "insert"),
             revisions' = [revisions EXCEPT ![Subject(w)] =
                        Append([i \in DOMAIN @ |-> [@[i] EXCEPT !.superseded = TRUE]],
                               [doc |-> writer[w].doc, superseded |-> FALSE])]
      PROVE  /\ revisions' \in [Trajectories -> Seq(Revision)]
             /\ \A t \in Trajectories : Filed(revisions'[t])
  <2>1. writer[w].doc \in Document /\ Subject(w) \in Trajectories
    BY <1>3 DEF Kept, RecordTypeOK, Working, At
  <2>2. /\ \A t \in Trajectories \ {Subject(w)} : revisions'[t] = revisions[t]
        /\ revisions'[Subject(w)] =
             Append([i \in DOMAIN revisions[Subject(w)] |-> [revisions[Subject(w)][i] EXCEPT !.superseded = TRUE]],
                    [doc |-> writer[w].doc, superseded |-> FALSE])
        /\ DOMAIN revisions' = Trajectories /\ revisions' = [t \in Trajectories |-> revisions'[t]]
    BY <1>0, <1>3, <2>1
  <2>3. \A t \in Trajectories : Filed(revisions'[t])
    <3>. DEFINE q == revisions[Subject(w)]
                doc == writer[w].doc
                r == revisions'[Subject(w)]
    <3>1. /\ Filed(q) /\ doc \in Document
          /\ r = Append([i \in DOMAIN q |-> [q[i] EXCEPT !.superseded = TRUE]],
                        [doc |-> doc, superseded |-> FALSE])
      BY <1>0, <2>1, <2>2
    <3>. HIDE DEF q, doc, r
    <3>2. Filed(r)
      BY <3>1, Superseding
    <3>. QED  BY <1>0, <2>2, <3>2 DEF r
  <2>4. \A t \in Trajectories : revisions'[t] \in Seq(Revision)
    BY <2>3 DEF Filed
  <2>. QED  BY <2>2, <2>3, <2>4
<1>. QED  BY <1>1, <1>2, <1>3, Filing

(* Where the writers go, and with what. *)
LEMMA WritersTyped ==
  ASSUME Kept, [RecordNext]_allVars
  PROVE  /\ writer' \in [Writers -> [at : Phases, on : Trajectories \cup {NoTrajectory}, doc : Document]]
         /\ Working'
<1>. DEFINE Hand == [at : Phases, on : Trajectories \cup {NoTrajectory}, doc : Document]
            Sound(w, h) == /\ h \in Hand
                           /\ h.at # "idle" => h.on \in Trajectories
                           /\ h.at = "idle" => h.on = NoTrajectory
                           /\ w # "sweep" => h.at \notin {"scrub", "check"}
<1>0. /\ writer \in [Writers -> Hand] /\ \A w \in Writers : Sound(w, writer[w])
      /\ NoTrajectory \notin Trajectories /\ Idle \in Hand /\ Idle.at = "idle" /\ Idle.on = NoTrajectory
      /\ \A t \in Trajectories : Live(t) \in Document
  <2>1. NoTrajectory \notin Trajectories /\ MaxLate \in Nat
    BY RecordAssumption
  <2>2. writer \in [Writers -> Hand] /\ \A w \in Writers : Sound(w, writer[w])
    BY DEF Kept, RecordTypeOK, Working, At, Subject
  <2>3. Idle \in Hand /\ Idle.at = "idle" /\ Idle.on = NoTrajectory
    BY <2>1 DEF Idle, Phases, Document
  <2>4. \A t \in Trajectories : Live(t) \in Document
    BY DEF Live, Document, Kept, RecordTypeOK
  <2>. QED  BY <2>1, <2>2, <2>3, <2>4
<1>1. ASSUME NEW w \in Writers, NEW h, Sound(w, h), writer' = [writer EXCEPT ![w] = h]
      PROVE  writer' \in [Writers -> Hand] /\ \A v \in Writers : Sound(v, writer'[v])
  BY <1>0, <1>1
<1>. HIDE DEF Sound
<1>2. \A w \in Writers : Sound(w, Idle)
  BY <1>0 DEF Sound
<1>3. ASSUME UNCHANGED writer
      PROVE  writer' \in [Writers -> Hand] /\ \A v \in Writers : Sound(v, writer'[v])
  BY <1>0, <1>3
<1>4. ASSUME NEW w \in Writers, NEW t \in Trajectories, NEW phase \in {"compose", "scrub"},
             phase = "scrub" => w = "sweep", Takes(w, t, phase)
      PROVE  writer' \in [Writers -> Hand] /\ \A v \in Writers : Sound(v, writer'[v])
  <2>. DEFINE h == [Idle EXCEPT !.at = phase, !.on = t]
  <2>1. Sound(w, h)
    BY <1>0, <1>4 DEF Sound, Idle, Phases
  <2>2. writer' = [writer EXCEPT ![w] = h]
    BY <1>4 DEF Takes
  <2>. HIDE DEF h
  <2>. QED  BY <1>1, <2>1, <2>2
<1>5. ASSUME NEW w \in Writers, NEW phase \in Phases \ {"idle"}, ~At(w, "idle"),
             phase \in {"scrub", "check"} => w = "sweep", Moves(w, phase)
      PROVE  writer' \in [Writers -> Hand] /\ \A v \in Writers : Sound(v, writer'[v])
  <2>. DEFINE h == [writer[w] EXCEPT !.at = phase]
  <2>1. writer[w] \in Hand /\ writer[w].on \in Trajectories
    BY <1>0, <1>5 DEF Sound, At
  <2>2. Sound(w, h)
    BY <1>0, <1>5, <2>1 DEF Sound
  <2>3. writer' = [writer EXCEPT ![w] = h]
    BY <1>5 DEF Moves
  <2>. HIDE DEF h
  <2>. QED  BY <1>1, <2>2, <2>3
<1>6. ASSUME NEW w \in Writers, Done(w)
      PROVE  writer' \in [Writers -> Hand] /\ \A v \in Writers : Sound(v, writer'[v])
  BY <1>1, <1>2, <1>6 DEF Done
<1>7. ASSUME NEW w \in Writers, Compose(w)
      PROVE  writer' \in [Writers -> Hand] /\ \A v \in Writers : Sound(v, writer'[v])
  <2>. DEFINE h == [writer[w] EXCEPT !.at = "compare", !.doc = Live(Subject(w))]
  <2>1. writer[w] \in Hand /\ writer[w].on \in Trajectories /\ Live(Subject(w)) \in Document
    BY <1>0, <1>7 DEF Sound, At, Compose, Subject
  <2>2. Sound(w, h)
    BY <1>0, <1>7, <2>1 DEF Sound, Phases
  <2>3. writer' = [writer EXCEPT ![w] = h]
    BY <1>0, <1>7 DEF Compose
  <2>. HIDE DEF h
  <2>. QED  BY <1>1, <2>2, <2>3
<1>8. ASSUME Kill
      PROVE  writer' \in [Writers -> Hand] /\ \A v \in Writers : Sound(v, writer'[v])
  <2>1. writer' = [w \in Writers |-> IF w \in {"run", "sweep"} THEN Idle ELSE writer[w]]
    BY <1>0, <1>8 DEF Kill, Writers
  <2>. QED  BY <1>0, <1>2, <2>1
<1>9. writer' \in [Writers -> Hand] /\ \A v \in Writers : Sound(v, writer'[v])
  <2>1. ASSUME NEW t \in Trajectories, Transition(t) \/ DebitLate(t) \/ Age(t) \/ File(t)
        PROVE  UNCHANGED writer \/ Takes("run", t, "compose")
    BY <2>1 DEF Transition, DebitLate, Age, File, memory
  <2>2. ASSUME NEW w \in Writers, Compare(w) \/ Insert(w)
        PROVE  Done(w) \/ (At(w, "compare") /\ Moves(w, "insert"))
    BY <2>2 DEF Compare, Insert
  <2>3. CASE Select \/ Rebuild \/ UNCHANGED allVars
    BY <1>3, <2>3 DEF Select, Rebuild, allVars, recordVars, memory
  <2>4. CASE Scrub \/ Check
    <3>1. \/ At("sweep", "scrub") /\ Moves("sweep", "check")
          \/ At("sweep", "check") /\ Moves("sweep", "compose")
          \/ Done("sweep")
      BY <2>4 DEF Scrub, Check
    <3>. QED  BY <1>5, <1>6, <3>1 DEF At, Phases, Writers
  <2>5. CASE NextTarget("sweep", "scrub") \/ NextTarget("rebuild", "compose")
    <3>1. PICK t : \/ t \in targets["sweep"] /\ Takes("sweep", t, "scrub")
                   \/ t \in targets["rebuild"] /\ Takes("rebuild", t, "compose")
      BY <2>5 DEF NextTarget
    <3>2. t \in Trajectories
      BY <3>1 DEF Kept, RecordTypeOK, Ended
    <3>. QED  BY <1>4, <3>1, <3>2 DEF Writers
  <2>6. CASE FailToFile
    BY <1>6, <2>6 DEF FailToFile, Writers
  <2>7. ASSUME NEW w \in Writers, Materialize(w)
        PROVE  writer' \in [Writers -> Hand] /\ \A v \in Writers : Sound(v, writer'[v])
    BY <1>5, <1>6, <1>7, <2>2, <2>7 DEF Materialize, At, Phases
  <2>8. ASSUME NEW t \in Trajectories, Transition(t) \/ DebitLate(t) \/ Age(t) \/ File(t)
        PROVE  writer' \in [Writers -> Hand] /\ \A v \in Writers : Sound(v, writer'[v])
    BY <1>3, <1>4, <2>1, <2>8 DEF Writers
  <2>. QED  BY <1>8, <2>3, <2>4, <2>5, <2>6, <2>7, <2>8 DEF RecordNext, Sweep
<1>. QED  BY <1>9 DEF Sound, Working, At, Subject

(* What the sweep and the rebuild have to do has ended. *)
LEMMA TargetsTyped ==
  ASSUME Kept, [RecordNext]_allVars
  PROVE  targets' \in [{"sweep", "rebuild"} -> SUBSET Ended']
<1>0. targets \in [{"sweep", "rebuild"} -> SUBSET Ended] /\ Ended \subseteq Ended'
  BY LifeGoesOn DEF Kept, RecordTypeOK
<1>1. ASSUME UNCHANGED targets
      PROVE  targets' \in [{"sweep", "rebuild"} -> SUBSET Ended']
  BY <1>0, <1>1
<1>2. ASSUME NEW w \in {"sweep", "rebuild"}, NEW s \in SUBSET Ended, targets' = [targets EXCEPT ![w] = s]
      PROVE  targets' \in [{"sweep", "rebuild"} -> SUBSET Ended']
  BY <1>0, <1>2
<1>3. ASSUME NEW w \in {"sweep", "rebuild"}, NEW phase, NextTarget(w, phase)
      PROVE  targets' \in [{"sweep", "rebuild"} -> SUBSET Ended']
  <2>1. PICK t \in targets[w] : targets' = [targets EXCEPT ![w] = @ \ {t}]
    BY <1>3 DEF NextTarget
  <2>2. targets' = [targets EXCEPT ![w] = targets[w] \ {t}] /\ targets[w] \ {t} \in SUBSET Ended
    BY <1>0, <2>1
  <2>. QED  BY <1>2, <2>2
<1>4. CASE Select
  <2>1. PICK batch \in SUBSET Overdue : targets' = [targets EXCEPT !["sweep"] = batch]
    BY <1>4 DEF Select
  <2>2. batch \in SUBSET Ended
    BY DEF Overdue
  <2>. QED  BY <1>2, <2>1, <2>2
<1>5. CASE Rebuild
  BY <1>2, <1>5 DEF Rebuild
<1>6. CASE Kill
  BY <1>2, <1>6 DEF Kill
<1>7. CASE \/ \E t \in Trajectories : Transition(t) \/ DebitLate(t) \/ Age(t) \/ File(t)
           \/ \E w \in Writers : Materialize(w)
           \/ FailToFile \/ Scrub \/ Check \/ UNCHANGED allVars
  <2>1. UNCHANGED targets
    BY <1>7 DEF Transition, DebitLate, Age, File, Materialize, Compose, Compare, Insert, FailToFile, Scrub,
       Check, allVars, recordVars, memory
  <2>. QED  BY <1>1, <2>1
<1>. QED  BY <1>3, <1>4, <1>5, <1>6, <1>7 DEF RecordNext, Sweep

(* Whatever a step does beside the sweep leaves it where it was, and what was
   scrubbed or torn as it was. *)
Aside ==
    /\ writer'["sweep"] = writer["sweep"] /\ targets'["sweep"] = targets["sweep"]
    /\ UNCHANGED <<scrubbed, torn>>

LEMMA SweepOrAside ==
  ASSUME Kept, [RecordNext]_allVars
  PROVE  Aside \/ Select \/ NextTarget("sweep", "scrub") \/ Scrub \/ Check \/ Materialize("sweep") \/ Kill
<1>0. /\ writer = [w \in Writers |-> writer[w]] /\ targets = [w \in {"sweep", "rebuild"} |-> targets[w]]
      /\ {"run", "sweep", "rebuild"} \subseteq Writers
  BY DEF Kept, RecordTypeOK, Writers
<1>1. ASSUME NEW w \in Writers \ {"sweep"}, Materialize(w)
      PROVE  Aside
  <2>1. PICK h : writer' = [writer EXCEPT ![w] = h]
    BY <1>1 DEF Materialize, Compose, Compare, Insert, Moves, Done
  <2>2. writer'["sweep"] = writer["sweep"]
    BY <1>0, <2>1
  <2>. QED  BY <1>1, <2>2 DEF Materialize, Compose, Compare, Insert, Aside, rows
<1>2. ASSUME NEW t \in Trajectories, Transition(t) \/ DebitLate(t) \/ Age(t) \/ File(t)
      PROVE  Aside
  <2>1. writer' = writer \/ \E h : writer' = [writer EXCEPT !["run"] = h]
    BY <1>2 DEF Transition, DebitLate, Age, File, Takes, memory
  <2>2. writer'["sweep"] = writer["sweep"]
    BY <1>0, <2>1
  <2>. QED  BY <1>2, <2>2 DEF Transition, DebitLate, Age, File, Aside, rows, memory
<1>3. ASSUME FailToFile \/ Rebuild \/ NextTarget("rebuild", "compose") \/ UNCHANGED allVars
      PROVE  Aside
  <2>1. \/ writer' = writer
        \/ \E w \in {"run", "rebuild"} : \E h : writer' = [writer EXCEPT ![w] = h]
    BY <1>3 DEF FailToFile, Rebuild, NextTarget, Done, Takes, allVars, recordVars, memory
  <2>2. writer'["sweep"] = writer["sweep"]
    BY <1>0, <2>1
  <2>3. targets' = targets \/ \E s : targets' = [targets EXCEPT !["rebuild"] = s]
    BY <1>3 DEF FailToFile, Rebuild, NextTarget, allVars, recordVars, memory
  <2>4. targets'["sweep"] = targets["sweep"]
    BY <1>0, <2>3
  <2>. QED  BY <1>3, <2>2, <2>4 DEF FailToFile, Rebuild, NextTarget, Aside, rows, allVars, recordVars
<1>. QED  BY <1>1, <1>2, <1>3 DEF RecordNext, Sweep, Writers

(* Nothing that is old is run again. *)
LEMMA OverKept ==
  ASSUME Kept, [RecordNext]_allVars
  PROVE  Over'
<1>0. /\ writer = [w \in Writers |-> writer[w]] /\ {"run", "sweep", "rebuild"} \subseteq Writers
      /\ {aged, unfiled} \subseteq [Trajectories -> BOOLEAN] /\ Over /\ Ended \subseteq Ended'
      /\ NoTrajectory \notin Trajectories /\ Idle.on = NoTrajectory
      /\ \A w \in Writers : writer[w] \in [at : Phases, on : Trajectories \cup {NoTrajectory}, doc : Document]
  BY RecordAssumption, LifeGoesOn DEF Kept, RecordTypeOK, Writers, Idle
<1>1. \A t \in Trajectories : aged'[t] => aged[t] \/ Age(t)
  <2>1. CASE \E t \in Trajectories : Age(t)
    BY <1>0, <2>1 DEF Age
  <2>2. CASE ~\E t \in Trajectories : Age(t)
    <3>1. UNCHANGED aged
      BY <2>2 DEF RecordNext, Transition, DebitLate, File, Materialize, Compose, Compare, Insert, FailToFile,
         Sweep, Select, NextTarget, Scrub, Check, Rebuild, Kill, rows, allVars, recordVars
    <3>. QED  BY <3>1
  <2>. QED  BY <2>1, <2>2
<1>2. \A t \in Trajectories : unfiled'[t] => unfiled[t] \/ (t \notin Ended /\ ~Age(t))
  <2>1. CASE \E t \in Trajectories : Transition(t) \/ File(t)
    <3>1. PICK t \in Trajectories : Transition(t) \/ File(t)
      BY <2>1
    <3>2. CASE File(t)
      BY <1>0, <3>2 DEF File
    <3>3. CASE Transition(t)
      <4>1. PICK byItsRun \in BOOLEAN :
              /\ byItsRun => status[t] \in LeaseHolding
              /\ unfiled' = [unfiled EXCEPT ![t] = byItsRun]
        BY <3>3 DEF Transition
      <4>2. \A u \in Trajectories : unfiled'[u] => unfiled[u] \/ (u = t /\ status[t] \in LeaseHolding)
        BY <1>0, <4>1
      <4>3. status[t] \in LeaseHolding => t \notin Ended
        BY DEF Ended, LeaseHolding, Terminal
      <4>. QED  BY <4>2, <4>3 DEF Age
    <3>. QED  BY <3>1, <3>2, <3>3
  <2>2. CASE Kill
    BY <2>2 DEF Kill
  <2>3. CASE ~Kill /\ ~\E t \in Trajectories : Transition(t) \/ File(t)
    <3>1. UNCHANGED unfiled
      BY <2>3 DEF RecordNext, DebitLate, Age, Materialize, Compose, Compare, Insert, FailToFile,
         Sweep, Select, NextTarget, Scrub, Check, Rebuild, memory, allVars, recordVars
    <3>. QED  BY <3>1
  <2>. QED  BY <2>1, <2>2, <2>3
<1>3. \/ writer'["run"].on \in {writer["run"].on, NoTrajectory}
      \/ \E t \in Trajectories : unfiled[t] /\ ~Age(t) /\ writer'["run"].on = t /\ aged' = aged
  <2>1. ASSUME NEW w \in Writers \ {"run"}, NEW h, writer' = [writer EXCEPT ![w] = h]
        PROVE  writer'["run"] = writer["run"]
    BY <1>0, <2>1
  <2>2. ASSUME NEW w \in Writers, Materialize(w)
        PROVE  writer'["run"].on \in {writer["run"].on, NoTrajectory}
    <3>1. CASE w = "run"
      <4>1. CASE Compose(w)
        BY <1>0, <3>1, <4>1 DEF Compose
      <4>2. CASE Done(w)
        BY <1>0, <3>1, <4>2 DEF Done
      <4>3. CASE Moves(w, "insert")
        BY <1>0, <3>1, <4>3 DEF Moves
      <4>. QED  BY <2>2, <4>1, <4>2, <4>3 DEF Materialize, Compare, Insert
    <3>2. CASE w # "run"
      <4>1. PICK h : writer' = [writer EXCEPT ![w] = h]
        BY <2>2 DEF Materialize, Compose, Compare, Insert, Moves, Done
      <4>. QED  BY <2>1, <3>2, <4>1
    <3>. QED  BY <3>1, <3>2
  <2>3. CASE FailToFile
    BY <1>0, <2>3 DEF FailToFile, Done
  <2>4. CASE Kill
    BY <1>0, <2>4 DEF Kill
  <2>5. CASE Scrub \/ Check \/ NextTarget("sweep", "scrub") \/ NextTarget("rebuild", "compose")
    <3>1. PICK w \in {"sweep", "rebuild"} : \E h : writer' = [writer EXCEPT ![w] = h]
      BY <2>5 DEF Scrub, Check, NextTarget, Moves, Done, Takes
    <3>. QED  BY <1>0, <2>1, <3>1
  <2>6. ASSUME NEW t \in Trajectories, File(t)
        PROVE  unfiled[t] /\ ~Age(t) /\ writer'["run"].on = t /\ aged' = aged
    <3>1. writer' = [writer EXCEPT !["run"] = [Idle EXCEPT !.at = "compose", !.on = t]]
      BY <2>6 DEF File, Takes
    <3>2. [Idle EXCEPT !.at = "compose", !.on = t].on = t
      BY DEF Idle
    <3>. QED  BY <1>0, <2>6, <3>1, <3>2 DEF File, Age, rows
  <2>7. CASE \/ \E t \in Trajectories : Transition(t) \/ DebitLate(t) \/ Age(t)
             \/ Select \/ Rebuild \/ UNCHANGED allVars
    BY <2>7 DEF Transition, DebitLate, Age, Select, Rebuild, memory, allVars, recordVars
  <2>. QED  BY <2>2, <2>3, <2>4, <2>5, <2>6, <2>7 DEF RecordNext, Sweep
<1>. SUFFICES ASSUME NEW t \in Trajectories, aged'[t]
              PROVE  t \in Ended' /\ ~unfiled'[t] /\ writer'["run"].on # t
  BY DEF Over, Subject
<1>4. t \in Ended /\ ~unfiled[t] /\ writer["run"].on # t
  BY <1>0, <1>1 DEF Over, Age, Subject
<1>. QED  BY <1>0, <1>1, <1>2, <1>3, <1>4 DEF Over, Age, Subject

(* The sweep scrubs what it selected, once. *)
LEMMA SweepingKept ==
  ASSUME Kept, [RecordNext]_allVars
  PROVE  Sweeping'
<1>0. /\ writer = [w \in Writers |-> writer[w]] /\ {"run", "sweep", "rebuild"} \subseteq Writers
      /\ targets \in [{"sweep", "rebuild"} -> SUBSET Ended] /\ Ended \subseteq Trajectories
      /\ {aged, scrubbed} \subseteq [Trajectories -> BOOLEAN]
      /\ NoTrajectory \notin Trajectories /\ Idle.at = "idle" /\ Idle.on = NoTrajectory
      /\ Idle \in [at : Phases, on : Trajectories \cup {NoTrajectory}, doc : Document]
      /\ \A w \in Writers : writer[w] \in [at : Phases, on : Trajectories \cup {NoTrajectory}, doc : Document]
      /\ Sweeping /\ Working
  BY RecordAssumption DEF Kept, RecordTypeOK, Writers, Idle, Ended, Document, Phases
<1>. DEFINE hand == writer["sweep"]
            left == targets["sweep"]
<1>1. /\ \A t \in left : t \in Trajectories /\ aged[t] /\ ~scrubbed[t]
      /\ hand.on \notin left
      /\ hand.at = "scrub" => aged[hand.on] /\ ~scrubbed[hand.on]
      /\ hand.at \notin {"idle", "scrub"} => scrubbed[hand.on]
      /\ hand.at # "idle" => hand.on \in Trajectories
      /\ hand.at = "idle" => hand.on = NoTrajectory
      /\ \A t \in Trajectories : scrubbed[t] => aged[t]
  BY <1>0 DEF Sweeping, Working, At, Subject
<1>2. \A t \in Trajectories : aged[t] => aged'[t]
  <2>1. UNCHANGED aged \/ \E t \in Trajectories : aged' = [aged EXCEPT ![t] = TRUE]
    BY DEF RecordNext, Transition, DebitLate, Age, File, Materialize, Compose, Compare, Insert, FailToFile,
       Sweep, Select, NextTarget, Scrub, Check, Rebuild, Kill, rows, allVars, recordVars
  <2>. QED  BY <1>0, <2>1
<1>3. SUFFICES
        /\ \A t \in left' : aged'[t] /\ ~scrubbed'[t]
        /\ hand'.on \notin left'
        /\ hand'.at = "scrub" => aged'[hand'.on] /\ ~scrubbed'[hand'.on]
        /\ hand'.at \notin {"idle", "scrub"} => scrubbed'[hand'.on]
        /\ \A t \in Trajectories : scrubbed'[t] => aged'[t]
  BY DEF Sweeping, At, Subject
<1>4. CASE hand' = hand /\ left' = left /\ scrubbed' = scrubbed
  BY <1>1, <1>2, <1>4
<1>5. CASE Aside
  BY <1>4, <1>5 DEF Aside
<1>6. CASE Select
  <2>1. PICK batch \in SUBSET Overdue : targets' = [targets EXCEPT !["sweep"] = batch]
    BY <1>6 DEF Select
  <2>2. left' = batch /\ hand' = hand /\ scrubbed' = scrubbed /\ hand.at = "idle"
    BY <1>0, <1>6, <2>1 DEF Select, rows, At
  <2>3. \A t \in batch : t \in Trajectories /\ aged[t] /\ ~scrubbed[t]
    BY <1>0, <2>1 DEF Overdue
  <2>. QED  BY <1>0, <1>1, <1>2, <2>2, <2>3
<1>7. CASE NextTarget("sweep", "scrub")
  <2>1. PICK t \in left : /\ targets' = [targets EXCEPT !["sweep"] = @ \ {t}]
                          /\ Takes("sweep", t, "scrub")
    BY <1>7 DEF NextTarget
  <2>2. left' = left \ {t} /\ scrubbed' = scrubbed
    BY <1>0, <1>7, <2>1 DEF NextTarget, rows
  <2>3. hand' = [Idle EXCEPT !.at = "scrub", !.on = t]
    BY <1>0, <2>1 DEF Takes
  <2>4. hand'.at = "scrub" /\ hand'.on = t
    BY <2>3 DEF Idle
  <2>. QED  BY <1>1, <1>2, <2>1, <2>2, <2>4
<1>8. CASE Scrub
  <2>1. hand' = [hand EXCEPT !.at = "check"] /\ hand.at = "scrub"
    BY <1>0, <1>8 DEF Scrub, Moves, At
  <2>2. hand'.at = "check" /\ hand'.on = hand.on /\ hand.on \in Trajectories
    BY <1>0, <1>1, <2>1
  <2>3. left' = left /\ scrubbed' = [scrubbed EXCEPT ![hand.on] = TRUE]
    BY <1>8 DEF Scrub, Subject
  <2>. QED  BY <1>0, <1>1, <1>2, <2>1, <2>2, <2>3
<1>9. ASSUME hand.at \in {"check", "compose", "compare", "insert"},
             \/ hand' = Idle
             \/ hand'.on = hand.on /\ hand'.at \in {"compose", "compare", "insert"},
             left' = left, scrubbed' = scrubbed
      PROVE  Sweeping'
  BY <1>0, <1>1, <1>2, <1>9 DEF Sweeping, At, Subject
<1>10. CASE Check
  <2>1. Done("sweep") \/ Moves("sweep", "compose")
    BY <1>10 DEF Check
  <2>2. hand' = Idle \/ (hand'.on = hand.on /\ hand'.at = "compose")
    <3>1. hand' = Idle \/ hand' = [hand EXCEPT !.at = "compose"]
      BY <1>0, <2>1 DEF Done, Moves
    <3>. QED  BY <1>0, <3>1
  <2>3. hand.at = "check" /\ left' = left /\ scrubbed' = scrubbed
    BY <1>10 DEF Check, At, rows
  <2>. QED  BY <1>9, <2>2, <2>3 DEF Sweeping, At, Subject
<1>11. CASE Materialize("sweep")
  <2>1. hand' = Idle \/ (hand'.on = hand.on /\ hand'.at \in {"compare", "insert"})
    <3>1. \/ hand' = Idle \/ hand' = [hand EXCEPT !.at = "insert"]
          \/ \E d : hand' = [hand EXCEPT !.at = "compare", !.doc = d]
      BY <1>0, <1>11 DEF Materialize, Compose, Compare, Insert, Done, Moves
    <3>. QED  BY <1>0, <3>1
  <2>2. hand.at \in {"compose", "compare", "insert"} /\ left' = left /\ scrubbed' = scrubbed
    BY <1>11 DEF Materialize, Compose, Compare, Insert, At, rows
  <2>. QED  BY <1>9, <2>1, <2>2 DEF Sweeping, At, Subject
<1>12. CASE Kill
  <2>1. hand' = Idle /\ left' = {} /\ scrubbed' = scrubbed
    BY <1>0, <1>12 DEF Kill, rows
  <2>. QED  BY <1>0, <1>1, <1>2, <2>1
<1>. QED  BY <1>5, <1>6, <1>7, <1>8, <1>10, <1>11, <1>12, SweepOrAside

(* What was torn stays torn, and only the sweep's own trajectory is scrubbed. *)
LEMMA ScrubbedOnce ==
  ASSUME Kept, [RecordNext]_allVars, NEW t \in Trajectories
  PROVE  /\ torn[t] => torn'[t]
         /\ scrubbed'[t] => scrubbed[t] \/ (Scrub /\ t = Subject("sweep"))
<1>0. {scrubbed, torn} \subseteq [Trajectories -> BOOLEAN]
  BY DEF Kept, RecordTypeOK
<1>1. CASE Scrub
  BY <1>0, <1>1 DEF Scrub
<1>2. CASE Kill
  BY <1>0, <1>2 DEF Kill, rows
<1>3. CASE ~Scrub /\ ~Kill
  <2>1. UNCHANGED <<scrubbed, torn>>
    BY <1>3 DEF RecordNext, Transition, DebitLate, Age, File, Materialize, Compose, Compare, Insert, FailToFile,
       Sweep, Select, NextTarget, Check, Rebuild, rows, allVars, recordVars
  <2>. QED  BY <2>1
<1>. QED  BY <1>1, <1>2, <1>3

(* A document in hand was in hand before, or is composed of the rows as they
   are. *)
LEMMA InHand ==
  ASSUME Kept, [RecordNext]_allVars, NEW w \in Writers, writer'[w].at \in {"compare", "insert"}
  PROVE  /\ writer'[w].on = writer[w].on
         /\ \/ writer[w].at \in {"compare", "insert"} /\ writer'[w].doc = writer[w].doc
            \/ /\ writer[w].at = "compose" /\ writer'[w].doc = Live(writer[w].on)
               /\ UNCHANGED <<scrubbed, torn>>
<1>0. /\ writer = [v \in Writers |-> writer[v]] /\ {"run", "sweep", "rebuild"} \subseteq Writers
      /\ Idle.at = "idle"
      /\ \A v \in Writers : writer[v] \in [at : Phases, on : Trajectories \cup {NoTrajectory}, doc : Document]
  BY DEF Kept, RecordTypeOK, Writers, Idle
<1>1. ASSUME NEW v \in Writers, NEW h, writer' = [writer EXCEPT ![v] = h], h.at \notin {"compare", "insert"}
      PROVE  writer'[w] = writer[w]
  BY <1>0, <1>1
<1>2. ASSUME NEW v \in Writers, Materialize(v)
      PROVE  \/ writer'[w] = writer[w]
             \/ /\ writer'[w].on = writer[w].on
                /\ \/ writer[w].at \in {"compare", "insert"} /\ writer'[w].doc = writer[w].doc
                   \/ /\ writer[w].at = "compose" /\ writer'[w].doc = Live(writer[w].on)
                      /\ UNCHANGED <<scrubbed, torn>>
  <2>1. CASE Compose(v)
    BY <1>0, <2>1 DEF Compose, At, Subject, rows
  <2>2. CASE Done(v)
    BY <1>0, <1>1, <2>2 DEF Done
  <2>3. CASE At(v, "compare") /\ Moves(v, "insert")
    BY <1>0, <2>3 DEF Moves, At
  <2>. QED  BY <1>2, <2>1, <2>2, <2>3 DEF Materialize, Compare, Insert
<1>3. CASE Kill
  BY <1>0, <1>3 DEF Kill
<1>4. CASE \/ \E t \in Trajectories : Transition(t) \/ DebitLate(t) \/ Age(t)
           \/ Select \/ Rebuild \/ UNCHANGED allVars
  BY <1>4 DEF Transition, DebitLate, Age, Select, Rebuild, memory, allVars, recordVars
<1>5. CASE FailToFile
  BY <1>0, <1>1, <1>5 DEF FailToFile, Done
<1>6. CASE Scrub \/ Check
  <2>1. \/ writer' = [writer EXCEPT !["sweep"] = Idle]
        \/ \E phase \in {"check", "compose"} : writer' = [writer EXCEPT !["sweep"].at = phase]
    BY <1>6 DEF Scrub, Check, Moves, Done
  <2>2. \E h : writer' = [writer EXCEPT !["sweep"] = h] /\ h.at \notin {"compare", "insert"}
    <3>1. CASE writer' = [writer EXCEPT !["sweep"] = Idle]
      BY <1>0, <3>1
    <3>2. ASSUME NEW phase \in {"check", "compose"}, writer' = [writer EXCEPT !["sweep"].at = phase]
          PROVE  \E h : writer' = [writer EXCEPT !["sweep"] = h] /\ h.at \notin {"compare", "insert"}
      <4>. DEFINE h == [writer["sweep"] EXCEPT !.at = phase]
      <4>1. h.at = phase
        BY <1>0
      <4>2. writer' = [writer EXCEPT !["sweep"] = h]
        BY <3>2
      <4>. HIDE DEF h
      <4>. QED  BY <4>1, <4>2
    <3>. QED  BY <2>1, <3>1, <3>2
  <2>. QED  BY <1>0, <1>1, <2>2
<1>7. CASE \/ \E t \in Trajectories : File(t)
           \/ NextTarget("sweep", "scrub") \/ NextTarget("rebuild", "compose")
  <2>1. PICK v \in Writers, phase \in {"scrub", "compose"} : \E t : Takes(v, t, phase)
    BY <1>0, <1>7 DEF File, NextTarget
  <2>2. PICK t : Takes(v, t, phase)
    BY <2>1
  <2>. DEFINE h == [Idle EXCEPT !.at = phase, !.on = t]
  <2>3. writer' = [writer EXCEPT ![v] = h] /\ h.at = phase
    BY <2>2 DEF Takes, Idle
  <2>. HIDE DEF h
  <2>. QED  BY <1>1, <2>1, <2>3
<1>. QED  BY <1>2, <1>3, <1>4, <1>5, <1>6, <1>7 DEF RecordNext, Sweep

(* A document composed after the scrub has no words. *)
LEMMA WordlessKept ==
  ASSUME Kept, [RecordNext]_allVars
  PROVE  Wordless'
<1>1. SUFFICES ASSUME NEW w \in Writers, writer'[w].at \in {"compare", "insert"},
                      w = "sweep" \/ (scrubbed'[writer'[w].on] /\ ~torn'[writer'[w].on])
               PROVE  ~writer'[w].doc.words
  BY DEF Wordless, At, Subject
<1>. DEFINE t == writer[w].on
<1>2. /\ writer'[w].on = t
      /\ \/ writer[w].at \in {"compare", "insert"} /\ writer'[w].doc = writer[w].doc
         \/ /\ writer[w].at = "compose" /\ writer'[w].doc = Live(t)
            /\ UNCHANGED <<scrubbed, torn>>
  BY <1>1, InHand
<1>3. t \in Trajectories /\ w \in {"run", "sweep", "rebuild"}
  BY <1>2 DEF Kept, Working, At, Subject, Writers
<1>4. CASE writer[w].at = "compose" /\ writer'[w].doc = Live(t) /\ UNCHANGED <<scrubbed, torn>>
  <2>1. scrubbed[t]
    BY <1>1, <1>2, <1>4 DEF Kept, Sweeping, At, Subject
  <2>2. Live(t).words = ~scrubbed[t]
    BY DEF Live
  <2>. QED  BY <1>4, <2>1, <2>2
<1>5. CASE writer[w].at \in {"compare", "insert"} /\ writer'[w].doc = writer[w].doc
  <2>1. w = "sweep" \/ (scrubbed[t] /\ ~torn[t]) => ~writer[w].doc.words
    BY <1>5 DEF Kept, Wordless, At, Subject
  <2>2. CASE w = "sweep"
    BY <1>5, <2>1, <2>2
  <2>3. CASE w # "sweep"
    <3>1. scrubbed'[t] /\ ~torn'[t]
      BY <1>1, <1>2, <2>3
    <3>2. ~torn[t] /\ (scrubbed[t] \/ (Scrub /\ t = Subject("sweep")))
      BY <1>3, <3>1, ScrubbedOnce
    <3>3. ~(Scrub /\ t = Subject("sweep"))
      <4>1. SUFFICES ASSUME Scrub, t = Subject("sweep") PROVE FALSE
        OBVIOUS
      <4>2. w # "run"
        <5>1. aged[t]
          BY <4>1 DEF Kept, Sweeping, Scrub
        <5>. QED  BY <1>3, <5>1 DEF Kept, Over, Subject
      <4>3. w = "rebuild"
        BY <1>3, <2>3, <4>2
      <4>4. torn'[t]
        BY <1>3, <1>5, <4>1, <4>3 DEF Scrub, At, Subject, Kept, RecordTypeOK
      <4>. QED  BY <3>1, <4>4
    <3>. QED  BY <1>5, <2>1, <3>2, <3>3
  <2>. QED  BY <2>2, <2>3
<1>. QED  BY <1>2, <1>4, <1>5

(* A list of revisions has at most one current revision. *)
LEMMA OneCurrent ==
  ASSUME RecordTypeOK, NEW t \in Trajectories
  PROVE  \A a, b \in Current(t) : a = b
<1>1. SUFFICES ASSUME NEW i \in DOMAIN revisions[t], NEW j \in DOMAIN revisions[t],
                      ~revisions[t][i].superseded, ~revisions[t][j].superseded
               PROVE  revisions[t][i].doc = revisions[t][j].doc
  BY DEF Current
<1>2. i = Len(revisions[t]) /\ j = Len(revisions[t])
  BY <1>1 DEF RecordTypeOK
<1>. QED  BY <1>2

(* What a new revision leaves current. *)
LEMMA NewCurrent ==
  ASSUME Kept, [RecordNext]_allVars, NEW w \in Writers, Insert(w), NEW t \in Trajectories, NEW doc \in Current(t)'
  PROVE  IF t = Subject(w) THEN doc = writer[w].doc ELSE doc \in Current(t)
<1>1. revisions \in [Trajectories -> Seq(Revision)] /\ Subject(w) \in Trajectories
      /\ writer[w].doc \in Document /\ \A u \in Trajectories : Filed(revisions[u])
  BY DEF Kept, RecordTypeOK, Revision, Filed, Insert, Working, At
<1>2. CASE t # Subject(w)
  <2>1. revisions'[t] = revisions[t]
    BY <1>1, <1>2 DEF Insert
  <2>. QED  BY <1>2, <2>1 DEF Current
<1>3. CASE t = Subject(w)
  <2>. DEFINE q == revisions[t]
              r == revisions'[t]
              new == writer[w].doc
  <2>1. /\ Filed(q) /\ new \in Document
        /\ r = Append([i \in DOMAIN q |-> [q[i] EXCEPT !.superseded = TRUE]],
                      [doc |-> new, superseded |-> FALSE])
    BY <1>1, <1>3 DEF Insert
  <2>2. PICK i \in DOMAIN r : ~r[i].superseded /\ doc = r[i].doc
    BY DEF Current
  <2>. HIDE DEF q, r, new
  <2>3. Filed(r) /\ r[Len(r)].doc = new
    <3>1. Filed(r)
      BY <2>1, Superseding
    <3>2. r[Len(r)].doc = new
      BY <2>1, Superseding
    <3>. QED  BY <3>1, <3>2
  <2>4. i = Len(r)
    BY <2>2, <2>3 DEF Filed
  <2>. QED  BY <1>3, <2>2, <2>3, <2>4 DEF new
<1>. QED  BY <1>2, <1>3

(* No step lets a current revision keep the words of what was scrubbed. *)
LEMMA NothingKept ==
  ASSUME Kept, [RecordNext]_allVars
  PROVE  NothingOutlivesItsScrub'
<1>. SUFFICES ASSUME NEW t \in Trajectories, scrubbed'[t], ~torn'[t], writer'["sweep"].on # t,
                     NEW doc \in Current(t)'
              PROVE  ~doc.words
  BY DEF NothingOutlivesItsScrub, Subject
<1>. DEFINE hand == writer["sweep"]
<1>0. /\ writer = [w \in Writers |-> writer[w]] /\ {"run", "sweep", "rebuild"} \subseteq Writers
      /\ Idle.at = "idle" /\ Idle.on = NoTrajectory /\ NoTrajectory \notin Trajectories
      /\ {scrubbed, torn} \subseteq [Trajectories -> BOOLEAN]
      /\ hand \in [at : Phases, on : Trajectories \cup {NoTrajectory}, doc : Document]
  BY RecordAssumption DEF Kept, RecordTypeOK, Writers, Idle
<1>1. ~torn[t] /\ (scrubbed[t] \/ (Scrub /\ t = Subject("sweep")))
  BY ScrubbedOnce
<1>2. ASSUME scrubbed[t], hand.on # t, doc \in Current(t) PROVE ~doc.words
  BY <1>1, <1>2 DEF Kept, NothingOutlivesItsScrub, Subject
<1>3. ASSUME NEW w \in Writers, Insert(w) PROVE ~doc.words
  <2>1. IF t = Subject(w) THEN doc = writer[w].doc ELSE doc \in Current(t)
    BY <1>3, NewCurrent
  <2>2. scrubbed[t]
    BY <1>1, <1>3 DEF Insert, Scrub, At, Kept, RecordTypeOK, rows
  <2>3. CASE t = Subject(w)
    BY <1>1, <1>3, <2>1, <2>2, <2>3 DEF Kept, Wordless, Insert
  <2>4. CASE t # Subject(w)
    <3>1. hand.on # t
      <4>1. CASE w = "sweep"
        BY <2>4, <4>1 DEF Subject
      <4>2. CASE w # "sweep"
        BY <1>0, <1>3, <4>2 DEF Insert, Done
      <4>. QED  BY <4>1, <4>2
    <3>. QED  BY <1>2, <2>1, <2>2, <2>4, <3>1
  <2>. QED  BY <2>3, <2>4
<1>4. CASE Rebuild
  <2>1. revisions' = revisions \/ revisions' = [u \in Trajectories |-> <<>>]
    BY <1>4 DEF Rebuild
  <2>2. revisions' = revisions
    BY <2>1 DEF Current
  <2>. QED  BY <1>1, <1>2, <1>4, <2>2 DEF Rebuild, Current, rows
<1>5. CASE ~Rebuild /\ ~\E w \in Writers : Insert(w)
  <2>1. doc \in Current(t)
    <3>1. UNCHANGED revisions
      BY <1>5 DEF RecordNext, Transition, DebitLate, Age, File, Materialize, Compose, Compare, FailToFile,
         Sweep, Select, NextTarget, Scrub, Check, Kill, allVars, recordVars
    <3>. QED  BY <3>1 DEF Current
  <2>2. CASE Aside
    BY <1>2, <2>1, <2>2 DEF Aside
  <2>3. CASE Select
    BY <1>2, <2>1, <2>3 DEF Select, rows
  <2>4. CASE NextTarget("sweep", "scrub")
    <3>1. hand.on = NoTrajectory /\ scrubbed' = scrubbed
      BY <2>4 DEF NextTarget, Kept, Working, At, Subject, Writers, rows
    <3>. QED  BY <1>0, <1>2, <2>1, <3>1
  <2>5. CASE Scrub
    <3>1. writer'["sweep"].on = hand.on
      BY <1>0, <2>5 DEF Scrub, Moves
    <3>. QED  BY <1>1, <1>2, <2>1, <3>1 DEF Subject
  <2>6. CASE Check
    <3>1. CASE hand.on = t
      <4>1. Current(t) # {} /\ Moves("sweep", "compose")
        BY <2>1, <2>6, <3>1 DEF Check, Subject
      <4>2. writer'["sweep"].on = t
        BY <1>0, <3>1, <4>1 DEF Moves
      <4>. QED  BY <4>2
    <3>2. CASE hand.on # t
      BY <1>2, <2>1, <2>6, <3>2 DEF Check, rows
    <3>. QED  BY <3>1, <3>2
  <2>7. CASE Materialize("sweep")
    <3>0. scrubbed[t] /\ (Compose("sweep") \/ Compare("sweep"))
      BY <1>0, <1>5, <2>7 DEF Materialize, Compose, Compare, rows
    <3>1. CASE hand.on = t
      <4>1. ~(Compose("sweep") \/ Moves("sweep", "insert"))
        <5>1. Compose("sweep") \/ Moves("sweep", "insert") => writer'["sweep"].on = hand.on
          BY <1>0 DEF Compose, Moves
        <5>. QED  BY <3>1, <5>1
      <4>2. At("sweep", "compare") /\ writer["sweep"].doc \in Current(t)
        BY <3>0, <3>1, <4>1 DEF Compare, Subject
      <4>3. doc = writer["sweep"].doc
        BY <2>1, <4>2, OneCurrent DEF Kept
      <4>. QED  BY <1>0, <4>2, <4>3 DEF Kept, Wordless
    <3>. QED  BY <1>2, <2>1, <3>0, <3>1
  <2>8. CASE Kill
    <3>1. hand.on # t
      <4>1. SUFFICES ASSUME hand.on = t PROVE FALSE
        OBVIOUS
      <4>2. hand.at = "scrub"
        BY <1>0, <2>8, <4>1 DEF Kill, Subject, At
      <4>3. ~scrubbed[t] /\ scrubbed' = scrubbed
        BY <2>8, <4>1, <4>2 DEF Kept, Sweeping, At, Subject, Kill, rows
      <4>. QED  BY <4>3
    <3>. QED  BY <1>2, <2>1, <2>8, <3>1 DEF Kill, rows
  <2>. QED  BY <2>2, <2>3, <2>4, <2>5, <2>6, <2>7, <2>8, SweepOrAside
<1>. QED  BY <1>3, <1>4, <1>5

(* ------------------------------ the theorems ----------------------------- *)

(* Nothing is scrubbed, filed or in hand at first. *)
LEMMA InitKept == RecordInit => Kept
<1>. SUFFICES ASSUME RecordInit PROVE Kept
  OBVIOUS
<1>1. Inductive
  <2>1. TypeOK
    BY WindowWaitMaxDaysAssumption DEF RecordInit, TypeOK, States, Terminal, LeaseHolding, Parkable
  <2>2. \A t \in Trajectories : /\ status[t] = IF t \in Past THEN "completed" ELSE "none"
                                /\ minted[t] <=> t \in Past
                                /\ ~leased[t] /\ ~pending[t] /\ parkedFrom[t] = "none"
    BY DEF RecordInit
  <2>. QED  BY <2>1, <2>2 DEF Inductive, ExecutingHasIntent, ParkedOnItsRequest,
         LeaseFollowsWork, UnplannedHasNoIntent, ParkRemembersItsOrigin, LeaseHolding, Parkable
<1>2. /\ {MaxLate, MaxRebuilds, MaxKills} \subseteq Nat /\ NoTrajectory \notin Trajectories
      /\ Idle \in [at : Phases, on : Trajectories \cup {NoTrajectory}, doc : Document]
      /\ Idle.at = "idle" /\ Idle.on = NoTrajectory
  BY RecordAssumption DEF Idle, Document, Phases
<1>3. \A w \in Writers : writer[w] = Idle
  BY DEF RecordInit
<1>4. RecordTypeOK
  BY <1>2, RecordAssumption DEF RecordInit, RecordTypeOK
<1>5. Over /\ Working
  BY <1>2, <1>3 DEF RecordInit, Over, Working, At, Subject
<1>6. Sweeping
  BY <1>2, <1>3 DEF RecordInit, Sweeping, At, Subject, Writers
<1>7. Wordless /\ NothingOutlivesItsScrub
  BY <1>2, <1>3 DEF RecordInit, Wordless, NothingOutlivesItsScrub, At
<1>. QED  BY <1>1, <1>4, <1>5, <1>6, <1>7 DEF Kept

LEMMA StepKept == Kept /\ [RecordNext]_allVars => Kept'
<1>. SUFFICES ASSUME Kept, [RecordNext]_allVars PROVE Kept'
  OBVIOUS
<1>1. RecordTypeOK'
  BY BitsTyped, RevisionsKept, WritersTyped, TargetsTyped DEF RecordTypeOK, Filed, Revision
<1>. QED
  BY <1>1, LifeGoesOn, WritersTyped, OverKept, SweepingKept, WordlessKept, NothingKept DEF Kept

(* The inductive invariant of the writers holds of every execution. *)
THEOREM RecordInvariance == RecordSpec => []Kept
<1>. QED  BY InitKept, StepKept, PTL DEF RecordSpec

(* Every variable keeps to its type, the rows of the life among them, and of a
   trajectory's revisions only the last is current, whoever files them. *)
THEOREM RecordTypeCorrect == RecordSpec => []RecordTypeOK
<1>1. Kept => RecordTypeOK
  BY DEF Kept
<1>. QED  BY <1>1, RecordInvariance, PTL

(* Once a sweep is done with a trajectory no read of it serves its words, however
   the three writers interleave and whenever the process dies, unless the scrub
   itself was torn. *)
THEOREM ScrubIsFinal == RecordSpec => []NothingOutlivesItsScrub
<1>1. Kept => NothingOutlivesItsScrub
  BY DEF Kept
<1>. QED  BY <1>1, RecordInvariance, PTL

(* Neither a rebuild nor a sweep nor a late debit moves the trajectory itself:
   what happens to it is a transition of its table or nothing. *)
THEOREM RecordFollowsLife == RecordSpec => [][Next]_vars /\ []Inductive
<1>1. Kept /\ [RecordNext]_allVars => [Next]_vars
  BY LifeGoesOn
<1>2. Kept => Inductive
  BY DEF Kept
<1>. QED  BY <1>1, <1>2, RecordInvariance, PTL DEF RecordSpec
=============================================================================
