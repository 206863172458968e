-------------------------- MODULE WorkerPoolProofs --------------------------
(***************************************************************************)
(* The worker threads for every number of threads and trajectories: the    *)
(* types and the table of transitions with no assumption on who stalls;    *)
(* that nobody works on what is another's, and no thread dies, with one    *)
(* worker or with keepers in time; and, as long as LoadCoach answers, that *)
(* its jobs follow the leases.                                             *)
(*                                                                         *)
(* A lease is a promise about time, so what it guards needs one of the two *)
(* conditions (Disciplined): a keeper that stalls lets a second thread in. *)
(***************************************************************************)
EXTENDS WorkerPool, FiniteSetTheorems, TLAPS

(* ------------------------------- the row --------------------------------- *)

(* What a row says of itself: a request while it waits for one, a lease while
   it is worked on, an intent once it may execute. *)
RowSound ==
    \A t \in Trajectories :
       /\ pending[t] <=> status[t] = "awaiting_approval"
       /\ owner[t] # NoOwner => status[t] \in LeaseHolding
       /\ status[t] = "planning" => owner[t] # NoOwner
       /\ status[t] \in {"executing", "completed"} => minted[t]
       /\ status[t] \in {"none", "queued", "planning", "rejected"} => ~minted[t]
       /\ expired[t] => owner[t] # NoOwner

(* The writes of a row there are, ... *)
Allowed(t, to, by, mints) ==
    \/ /\ status[t] \in {"queued", "awaiting_approval"}
       /\ to = "cancelled" /\ by = NoOwner /\ ~mints
    \/ /\ status[t] = "awaiting_approval" /\ by = NoOwner
       /\ \/ to = "executing" /\ mints
          \/ to = "halted" /\ ~mints
    \/ /\ status[t] = "queued"
       /\ \/ to = "planning" /\ by \in Threads /\ ~mints
          \/ to = "executing" /\ by \in Threads /\ mints
          \/ to = "awaiting_approval" /\ by = NoOwner /\ mints
    \/ status[t] \in LeaseHolding /\ to = status[t] /\ by \in Threads /\ ~mints
    \/ status[t] = "planning" /\ to = "executing" /\ by = owner[t] /\ by \in Threads /\ mints
    \/ /\ status[t] = "planning" /\ by = NoOwner /\ ~mints
       /\ to \in {"rejected", "failed", "cancelled", "awaiting_approval"}
    \/ /\ status[t] = "executing" /\ by = NoOwner /\ ~mints
       /\ to \in {"completed", "halted", "failed", "cancelled", "awaiting_approval"}

(* ... what each leaves, ... *)
Written(t, to, by, mints) ==
    /\ status' = [status EXCEPT ![t] = to]
    /\ owner' = [owner EXCEPT ![t] = by]
    /\ expired' = [expired EXCEPT ![t] = FALSE]
    /\ pending' = [pending EXCEPT ![t] = (to = "awaiting_approval")]
    /\ minted' = IF mints THEN [minted EXCEPT ![t] = TRUE] ELSE minted

RowStays == UNCHANGED <<status, owner, pending, minted>>

(* ... and whose row a thread may write: its own, one that it recovers, or one
   that nobody holds. *)
Touches(w, t) ==
    \/ hand[w] = t /\ owner[t] = w /\ pc[w] \in Running
    \/ pc[w] \in Recovering /\ (hand[w] = t \/ \E s \in LeaseHolding : <<t, s>> \in todo[w])
    \/ owner[t] = NoOwner /\ pc[w] \in Passing

WritesRow(w) ==
    \E t \in Trajectories, to \in States, by \in {w, NoOwner}, mints \in BOOLEAN :
        Touches(w, t) /\ Allowed(t, to, by, mints) /\ Written(t, to, by, mints)

LEMMA Writing ==
  ASSUME NEW w \in Threads, NEW t \in Trajectories, NEW to \in States, NEW by \in {w, NoOwner},
         NEW mints \in BOOLEAN, Touches(w, t), Allowed(t, to, by, mints), Written(t, to, by, mints)
  PROVE  WritesRow(w)
BY DEF WritesRow

(* A thread that holds a row ends it or asks for it; another one takes it up. *)
LEMMA EndsOwn ==
  ASSUME TypeOK, RowSound, NEW w \in Threads, pc[w] \in Running, NEW s \in LeaseHolding, Owns(w, s),
         NEW to, \/ Hold(hand[w]) /\ to = "awaiting_approval"
                 \/ End(hand[w], to) /\ to \in {"failed", "cancelled"}
                 \/ End(hand[w], to) /\ to \in {"completed", "halted"} /\ s = "executing"
                 \/ End(hand[w], to) /\ to = "rejected" /\ s = "planning"
  PROVE  WritesRow(w)
<1>1. PICK t \in Trajectories : t = hand[w]
  BY DEF TypeOK, Running, Planning, Executing, Passing
<1>2. Touches(w, t) /\ status[t] = s
  BY <1>1 DEF Touches, Owns
<1>3. Allowed(t, to, NoOwner, FALSE) /\ to \in States
  BY <1>2 DEF Allowed, States, Terminal, LeaseHolding
<1>4. Written(t, to, NoOwner, FALSE)
  BY <1>1 DEF Written, Hold, End, Write
<1>. QED  BY <1>1, <1>2, <1>3, <1>4, Writing

LEMMA TakesUp ==
  ASSUME TypeOK, RowSound, NEW w \in Threads, NEW t \in Trajectories, Touches(w, t), status[t] \in LeaseHolding,
         TakeLease(t, w)
  PROVE  WritesRow(w)
<1>1. Allowed(t, status[t], w, FALSE) /\ status[t] \in States
  BY DEF Allowed, TypeOK
<1>2. pending[t] = (status[t] = "awaiting_approval")
  BY DEF RowSound, TypeOK
<1>3. Written(t, status[t], w, FALSE)
  BY <1>2 DEF Written, TakeLease, Write
<1>. QED  BY <1>1, <1>3, Writing

LEMMA RecoveryWrites ==
  ASSUME TypeOK, RowSound, NEW w \in Threads, Recover(w)
  PROVE  RowStays \/ WritesRow(w)
<1>1. CASE Redraft(w)
  <2>1. PICK t \in Trajectories :
          /\ <<t, "planning">> \in todo[w]
          /\ \/ status[t] = "planning" /\ TakeLease(t, w)
             \/ UNCHANGED row
    BY <1>1 DEF Redraft
  <2>2. Touches(w, t)
    BY <1>1, <2>1 DEF Redraft, Touches, Recovering, LeaseHolding
  <2>. QED  BY <2>1, <2>2, TakesUp DEF RowStays, row, LeaseHolding
<1>2. CASE TakeOver(w)
  <2>1. PICK t \in Trajectories : t = hand[w]
    BY <1>2 DEF TakeOver, TypeOK, Passing
  <2>2. UNCHANGED row \/ (status[t] = "executing" /\ TakeLease(t, w))
    BY <1>2, <2>1 DEF TakeOver
  <2>3. Touches(w, t)
    BY <1>2, <2>1 DEF TakeOver, Touches, Recovering
  <2>. QED  BY <2>2, <2>3, TakesUp DEF RowStays, row, LeaseHolding
<1>3. CASE HaltRecovered(w)
  <2>1. PICK t \in Trajectories : t = hand[w]
    BY <1>3 DEF HaltRecovered, TypeOK, Passing
  <2>2. UNCHANGED row \/ (status[t] = "executing" /\ End(t, "halted"))
    BY <1>3, <2>1 DEF HaltRecovered
  <2>3. Touches(w, t)
    BY <1>3, <2>1 DEF HaltRecovered, Touches, Recovering
  <2>4. ASSUME status[t] = "executing", End(t, "halted") PROVE WritesRow(w)
    <3>1. Allowed(t, "halted", NoOwner, FALSE) /\ "halted" \in States
      BY <2>4 DEF Allowed, States, Terminal
    <3>2. Written(t, "halted", NoOwner, FALSE)
      BY <2>4 DEF Written, End, Write
    <3>. QED  BY <2>3, <3>1, <3>2, Writing
  <2>. QED  BY <2>2, <2>4 DEF RowStays, row
<1>4. CASE \/ Reap(w) \/ NotYetDue(w) \/ RecoveryListDone(w) \/ RecordRedraft(w) \/ ReadEvents(w)
           \/ Inspect(w) \/ FindJob(w) \/ CancelFoundJob(w) \/ LoadFinished(w)
  BY <1>4 DEF Reap, NotYetDue, RecoveryListDone, RecordRedraft, ReadEvents, Inspect, FindJob,
     CancelFoundJob, LoadFinished, RowStays, row
<1>. QED  BY <1>1, <1>2, <1>3, <1>4 DEF Recover

LEMMA PassWrites ==
  ASSUME TypeOK, RowSound, NEW w \in Threads, Pass(w)
  PROVE  RowStays \/ WritesRow(w)
<1>0. \A t \in Trajectories : status[t] \notin LeaseHolding => owner[t] = NoOwner
  BY DEF RowSound
<1>1. ASSUME NEW t \in Trajectories, ExpireApproval(w, t) PROVE WritesRow(w)
  <2>1. Touches(w, t) /\ Allowed(t, "halted", NoOwner, FALSE) /\ "halted" \in States
    BY <1>0, <1>1 DEF ExpireApproval, Touches, Allowed, States, Terminal, LeaseHolding, Passing
  <2>2. Written(t, "halted", NoOwner, FALSE)
    BY <1>1 DEF ExpireApproval, Written, End, Write
  <2>. QED  BY <2>1, <2>2, Writing
<1>2. ASSUME NEW t \in Trajectories, ClaimReleased(w, t) PROVE WritesRow(w)
  <2>1. Touches(w, t)
    BY <1>2 DEF ClaimReleased, Released, Touches, Passing
  <2>. QED  BY <1>2, <2>1, TakesUp DEF ClaimReleased, Released, LeaseHolding
<1>3. ASSUME NEW t \in Trajectories, Claim(w, t) PROVE WritesRow(w)
  <2>1. Touches(w, t) /\ status[t] = "queued"
    BY <1>0, <1>3 DEF Claim, Touches, Passing, LeaseHolding
  <2>2. CASE Write(t, "planning", w, FALSE) /\ UNCHANGED minted
    <3>1. Allowed(t, "planning", w, FALSE) /\ "planning" \in States
      BY <2>1 DEF Allowed, States, LeaseHolding
    <3>2. Written(t, "planning", w, FALSE)
      BY <2>2 DEF Write, Written
    <3>. QED  BY <2>1, <3>1, <3>2, Writing
  <2>3. CASE Write(t, "executing", w, FALSE) /\ minted' = [minted EXCEPT ![t] = TRUE]
    <3>1. Allowed(t, "executing", w, TRUE) /\ "executing" \in States
      BY <2>1 DEF Allowed, States, LeaseHolding
    <3>2. Written(t, "executing", w, TRUE)
      BY <2>3 DEF Write, Written
    <3>. QED  BY <2>1, <3>1, <3>2, Writing
  <2>4. CASE Write(t, "awaiting_approval", NoOwner, TRUE) /\ minted' = [minted EXCEPT ![t] = TRUE]
    <3>1. Allowed(t, "awaiting_approval", NoOwner, TRUE) /\ "awaiting_approval" \in States
      BY <2>1 DEF Allowed, States, LeaseHolding
    <3>2. Written(t, "awaiting_approval", NoOwner, TRUE)
      BY <2>4 DEF Write, Written
    <3>. QED  BY <2>1, <3>1, <3>2, Writing
  <2>. QED  BY <1>3, <2>2, <2>3, <2>4 DEF Claim
<1>4. CASE ResumeNext(w) \/ ResumedAll(w) \/ ApprovalsDone(w) \/ NothingReleased(w) \/ NothingQueued(w)
  BY <1>4 DEF ResumeNext, ResumedAll, ApprovalsDone, NothingReleased, NothingQueued, RowStays, row
<1>. QED  BY <1>1, <1>2, <1>3, <1>4 DEF Pass

LEMMA PlanWrites ==
  ASSUME TypeOK, RowSound, NEW w \in Threads, Plan(w)
  PROVE  RowStays \/ WritesRow(w)
<1>1. CASE FailToStart(w)
  BY <1>1, EndsOwn DEF FailToStart, Running, LeaseHolding
<1>2. CASE StopDrafting(w)
  BY <1>2, EndsOwn DEF StopDrafting, Running, Planning, LeaseHolding
<1>3. CASE FailPlanning(w)
  BY <1>3, EndsOwn DEF FailPlanning, Running, Planning, LeaseHolding
<1>4. CASE Approve(w)
  <2>0. pc[w] \in Running /\ Owns(w, "planning") /\ "planning" \in LeaseHolding
    BY <1>4 DEF Approve, Running, Planning, LeaseHolding
  <2>1. CASE Hold(hand[w]) \/ End(hand[w], "rejected")
    BY <2>0, <2>1, EndsOwn
  <2>2. CASE /\ Write(hand[w], "executing", w, FALSE)
             /\ minted' = [minted EXCEPT ![hand[w]] = TRUE]
    <3>1. PICK t \in Trajectories : t = hand[w]
      BY <2>0 DEF TypeOK, Running, Planning, Executing, Passing
    <3>2. Touches(w, t) /\ Allowed(t, "executing", w, TRUE) /\ "executing" \in States
      BY <2>0, <3>1 DEF Touches, Allowed, Owns, States, LeaseHolding
    <3>3. Written(t, "executing", w, TRUE)
      BY <2>2, <3>1 DEF Written, Write
    <3>. QED  BY <3>2, <3>3, Writing
  <2>. QED  BY <1>4, <2>1, <2>2 DEF Approve
<1>5. CASE Start(w) \/ Draft(w) \/ RecordAttempt(w)
  BY <1>5 DEF Start, Draft, RecordAttempt, RowStays, row
<1>. QED  BY <1>1, <1>2, <1>3, <1>4, <1>5 DEF Plan

LEMMA TurnWrites ==
  ASSUME TypeOK, RowSound, NEW w \in Threads, Turn(w)
  PROVE  RowStays \/ WritesRow(w)
<1>0. "executing" \in LeaseHolding
  BY DEF LeaseHolding
<1>1. CASE CancelAtBoundary(w)
  BY <1>0, <1>1, EndsOwn DEF CancelAtBoundary, Running, Executing
<1>2. CASE HaltBeforeTurn(w) \/ AskBeforeTurn(w)
  BY <1>0, <1>2, EndsOwn DEF HaltBeforeTurn, AskBeforeTurn, Running, Executing
<1>3. CASE FailUnreachable(w) \/ HaltUnanswered(w)
  BY <1>0, <1>3, EndsOwn DEF FailUnreachable, HaltUnanswered, Running, Executing
<1>4. CASE RecordAndEnd(w) \/ RecordAndAsk(w)
  BY <1>0, <1>4, EndsOwn DEF RecordAndEnd, RecordAndAsk, Running, Executing
<1>5. CASE \/ StopAtBoundary(w) \/ Prepare(w) \/ Announce(w) \/ Post(w) \/ Refuse(w) \/ Answer(w) \/ TimeOut(w)
           \/ LoseCall(w) \/ NextTier(w) \/ RetryTurn(w) \/ RecordAndContinue(w) \/ RecordAndCommitStep(w)
           \/ Collapse(w) \/ LoseLease(w)
  BY <1>5 DEF StopAtBoundary, Prepare, Announce, Post, Refuse, Answer, TimeOut, LoseCall, NextTier, RetryTurn,
     RecordAndContinue, RecordAndCommitStep, Collapse, LoseLease, RowStays, row
<1>. QED  BY <1>1, <1>2, <1>3, <1>4, <1>5 DEF Turn

(* Every step of a thread leaves the rows or makes one write of the table. *)
LEMMA ThreadWrites ==
  ASSUME TypeOK, RowSound, NEW w \in Threads, Step(w)
  PROVE  RowStays \/ WritesRow(w)
BY RecoveryWrites, PassWrites, PlanWrites, TurnWrites DEF Step

(* Of the rows, a step of the system makes one write of the table, submits, or
   renames the owners of a process that is gone. *)
SomeWrite ==
    \E t \in Trajectories, to \in States, by \in Threads \cup {NoOwner}, mints \in BOOLEAN :
        Allowed(t, to, by, mints) /\ Written(t, to, by, mints)

Submitted ==
    \E t \in Trajectories :
        /\ status[t] = "none"
        /\ status' = [status EXCEPT ![t] = "queued"]
        /\ UNCHANGED <<owner, expired, pending, minted>>

Renamed ==
    /\ \/ owner' = owner
       \/ owner' = [t \in Trajectories |-> IF owner[t] \in Threads THEN Former ELSE owner[t]]
    /\ UNCHANGED <<status, pending, minted>>

Expiring ==
    /\ expired' \in [Trajectories -> BOOLEAN]
    /\ \A t \in Trajectories : expired'[t] => expired[t] \/ owner[t] # NoOwner

LEMMA RequestWrites ==
  ASSUME TypeOK, RowSound, NEW t \in Trajectories, Request(t)
  PROVE  (RowStays /\ UNCHANGED expired) \/ Submitted \/ SomeWrite
<1>1. CASE Submit(t)
  BY <1>1 DEF Submit, Submitted
<1>2. CASE Cancel(t)
  <2>1. CASE status[t] \in LeaseHolding
    BY <1>2, <2>1 DEF Cancel, RowStays
  <2>2. CASE status[t] \notin LeaseHolding
    <3>1. Allowed(t, "cancelled", NoOwner, FALSE) /\ "cancelled" \in States
      BY <1>2, <2>2 DEF Cancel, Allowed, States, Terminal, LeaseHolding
    <3>2. Written(t, "cancelled", NoOwner, FALSE)
      BY <1>2, <2>2 DEF Cancel, Written, Write
    <3>. QED  BY <3>1, <3>2 DEF SomeWrite
  <2>. QED  BY <2>1, <2>2
<1>3. CASE Grant(t)
  <2>1. Allowed(t, "executing", NoOwner, TRUE) /\ "executing" \in States
    BY <1>3 DEF Grant, Allowed, States, LeaseHolding
  <2>2. Written(t, "executing", NoOwner, TRUE)
    BY <1>3 DEF Grant, Written, Write
  <2>. QED  BY <2>1, <2>2 DEF SomeWrite
<1>4. CASE Deny(t)
  <2>1. Allowed(t, "halted", NoOwner, FALSE) /\ "halted" \in States
    BY <1>4 DEF Deny, Allowed, States, Terminal
  <2>2. Written(t, "halted", NoOwner, FALSE)
    BY <1>4 DEF Deny, Written, End, Write
  <2>. QED  BY <2>1, <2>2 DEF SomeWrite
<1>. QED  BY <1>1, <1>2, <1>3, <1>4 DEF Request

(* A lease expires only while there is one. *)
LEMMA RowSteps ==
  ASSUME TypeOK, RowSound, [Next]_vars
  PROVE  \/ RowStays /\ Expiring
         \/ Submitted \/ SomeWrite
         \/ Renamed /\ UNCHANGED expired
<1>0. expired \in [Trajectories -> BOOLEAN]
  BY DEF TypeOK
<1>1. ASSUME UNCHANGED expired PROVE Expiring
  BY <1>0, <1>1 DEF Expiring
<1>2. ASSUME NEW t \in Trajectories, LeaseExpires(t)
      PROVE  RowStays /\ Expiring
  BY <1>0, <1>2 DEF LeaseExpires, RowStays, Expiring
<1>3. ASSUME NEW w \in Threads, Keep(w)
      PROVE  RowStays /\ Expiring
  <2>1. CASE Renew(w)
    <3>1. expired' = expired \/ expired' = [expired EXCEPT ![hand[w]] = FALSE]
      BY <2>1 DEF Renew
    <3>2. Expiring
      BY <1>0, <3>1 DEF Expiring
    <3>. QED  BY <2>1, <3>2 DEF Renew, RowStays
  <2>2. CASE CancelInFlight(w)
    BY <1>1, <2>2 DEF CancelInFlight, RowStays, row
  <2>. QED  BY <1>3, <2>1, <2>2 DEF Keep
<1>4. ASSUME NEW w \in Threads, Step(w), RowStays
      PROVE  Expiring
  <2>1. UNCHANGED expired \/ \E t, to, by, asks : Write(t, to, by, asks)
    <3>1. CASE Recover(w)
      BY <3>1 DEF Recover, Reap, NotYetDue, RecoveryListDone, Redraft, RecordRedraft, ReadEvents, Inspect,
         FindJob, TakeOver, CancelFoundJob, HaltRecovered, LoadFinished, row, TakeLease, End
    <3>2. CASE Pass(w)
      BY <3>2 DEF Pass, ResumeNext, ResumedAll, ApprovalsDone, NothingReleased, NothingQueued, ExpireApproval,
         ClaimReleased, Claim, row, TakeLease, End
    <3>3. CASE Plan(w)
      BY <3>3 DEF Plan, Start, FailToStart, StopDrafting, Draft, RecordAttempt, FailPlanning, Approve, row, End, Hold
    <3>4. CASE Turn(w)
      BY <3>4 DEF Turn, StopAtBoundary, CancelAtBoundary, Prepare, HaltBeforeTurn, AskBeforeTurn, Announce, Post,
         Refuse, Answer, TimeOut, LoseCall, FailUnreachable, NextTier, RetryTurn, HaltUnanswered,
         RecordAndContinue, RecordAndCommitStep, RecordAndEnd, RecordAndAsk, Collapse, LoseLease, row, End, Hold
    <3>. QED  BY <1>4, <3>1, <3>2, <3>3, <3>4 DEF Step
  <2>2. ASSUME NEW t, NEW to, NEW by, NEW asks, Write(t, to, by, asks) PROVE Expiring
    BY <1>0, <2>2 DEF Write, Expiring
  <2>. QED  BY <1>1, <2>1, <2>2
<1>5. CASE Crash
  <2>1. Renamed
    BY <1>5 DEF Crash, Renamed, TypeOK
  <2>. QED  BY <1>5, <2>1 DEF Crash
<1>6. CASE UNCHANGED vars \/ \E t \in Trajectories, i \in 1 .. MaxAnnounced : JobEnds(t, i)
  BY <1>1, <1>6 DEF JobEnds, vars, row, RowStays
<1>7. ASSUME NEW t \in Trajectories, Request(t)
      PROVE  (RowStays /\ Expiring) \/ Submitted \/ SomeWrite
  BY <1>1, <1>7, RequestWrites
<1>8. ASSUME NEW w \in Threads, Step(w)
      PROVE  (RowStays /\ Expiring) \/ SomeWrite
  BY <1>4, <1>8, ThreadWrites DEF WritesRow, SomeWrite
<1>. QED  BY <1>2, <1>3, <1>5, <1>6, <1>7, <1>8 DEF Next

(* The rows stay sound and typed. *)
LEMMA RowsKept ==
  ASSUME TypeOK, RowSound, [Next]_vars
  PROVE  /\ RowSound'
         /\ status' \in [Trajectories -> States]
         /\ owner' \in [Trajectories -> Threads \cup {NoOwner, Former}]
         /\ {expired, pending, minted}' \subseteq [Trajectories -> BOOLEAN]
<1>. DEFINE Goal == /\ RowSound'
                    /\ status' \in [Trajectories -> States]
                    /\ owner' \in [Trajectories -> Threads \cup {NoOwner, Former}]
                    /\ {expired, pending, minted}' \subseteq [Trajectories -> BOOLEAN]
<1>0. /\ status \in [Trajectories -> States] /\ owner \in [Trajectories -> Threads \cup {NoOwner, Former}]
      /\ {expired, pending, minted} \subseteq [Trajectories -> BOOLEAN]
      /\ NoOwner # Former /\ NoOwner \notin Threads
  BY OwnersAssumption DEF TypeOK
<1>1. CASE RowStays /\ Expiring
  BY <1>0, <1>1 DEF RowStays, Expiring, RowSound
<1>2. CASE Submitted
  BY <1>0, <1>2 DEF Submitted, RowSound, States, Terminal, LeaseHolding
<1>3. CASE SomeWrite
  <2>1. PICK t \in Trajectories, to \in States, by \in Threads \cup {NoOwner}, mints \in BOOLEAN :
          Allowed(t, to, by, mints) /\ Written(t, to, by, mints)
    BY <1>3 DEF SomeWrite
  <2>2. /\ status' \in [Trajectories -> States] /\ owner' \in [Trajectories -> Threads \cup {NoOwner, Former}]
        /\ {expired, pending, minted}' \subseteq [Trajectories -> BOOLEAN]
    BY <1>0, <2>1 DEF Written
  <2>3. ASSUME NEW u \in Trajectories
        PROVE  /\ pending'[u] <=> status'[u] = "awaiting_approval"
               /\ owner'[u] # NoOwner => status'[u] \in LeaseHolding
               /\ status'[u] = "planning" => owner'[u] # NoOwner
               /\ status'[u] \in {"executing", "completed"} => minted'[u]
               /\ status'[u] \in {"none", "queued", "planning", "rejected"} => ~minted'[u]
               /\ expired'[u] => owner'[u] # NoOwner
    <3>1. CASE u # t
      BY <1>0, <2>1, <3>1 DEF Written, RowSound
    <3>2. CASE u = t
      <4>1. /\ status'[t] = to /\ owner'[t] = by /\ ~expired'[t]
            /\ pending'[t] = (to = "awaiting_approval")
            /\ minted'[t] = (mints \/ minted[t])
        BY <1>0, <2>1 DEF Written
      <4>2. by # NoOwner => to \in LeaseHolding
        BY <1>0, <2>1 DEF Allowed, LeaseHolding
      <4>3. to = "planning" => by # NoOwner
        BY <1>0, <2>1 DEF Allowed
      <4>4. to \in {"executing", "completed"} => mints \/ minted[t]
        BY <2>1 DEF Allowed, RowSound, LeaseHolding
      <4>5. to \in {"none", "queued", "planning", "rejected"} => ~mints /\ ~minted[t]
        BY <2>1 DEF Allowed, RowSound, LeaseHolding
      <4>. QED  BY <3>2, <4>1, <4>2, <4>3, <4>4, <4>5
    <3>. QED  BY <3>1, <3>2
  <2>. QED  BY <2>2, <2>3 DEF RowSound
<1>4. CASE Renamed /\ UNCHANGED expired
  BY <1>0, <1>4 DEF Renamed, RowSound
<1>5. Goal
  BY <1>1, <1>2, <1>3, <1>4, RowSteps
<1>. QED  BY <1>5

(* Each write of the table is a labelled transition. *)
LEMMA Simulation ==
  ASSUME TypeOK, RowSound, [Next]_vars
  PROVE  [Lifecycle!Next]_(Lifecycle!vars)
<1>. DEFINE Goal == [Lifecycle!Next]_(Lifecycle!vars)
            lease == [u \in Trajectories |-> owner[u] # NoOwner]
            none == [u \in Trajectories |-> "none"]
            days == [u \in Trajectories |-> 0]
<1>0. /\ NoOwner # Former /\ NoOwner \notin Threads
      /\ owner \in [Trajectories -> Threads \cup {NoOwner, Former}]
      /\ status \in [Trajectories -> States]
  BY OwnersAssumption DEF TypeOK
<1>1. ASSUME NEW t \in Trajectories, Lifecycle!Step(t) PROVE Goal
  BY <1>1 DEF Lifecycle!Next
<1>2. ASSUME UNCHANGED <<status, pending, minted>>, lease' = lease PROVE Goal
  BY <1>2 DEF Lifecycle!vars
<1>3. CASE RowStays
  BY <1>2, <1>3 DEF RowStays
<1>4. CASE Renamed
  <2>1. lease' = lease
    BY <1>0, <1>4 DEF Renamed
  <2>. QED  BY <1>2, <1>4, <2>1 DEF Renamed
<1>5. CASE Submitted
  <2>1. PICK t \in Trajectories :
        /\ status[t] = "none"
        /\ status' = [status EXCEPT ![t] = "queued"]
        /\ UNCHANGED <<owner, expired, pending, minted>>
    BY <1>5 DEF Submitted
  <2>2. owner[t] = NoOwner /\ ~pending[t] /\ pending \in [Trajectories -> BOOLEAN]
    BY <2>1 DEF RowSound, LeaseHolding, TypeOK
  <2>3. lease' = [lease EXCEPT ![t] = FALSE]
    BY <2>1, <2>2
  <2>4. pending' = [pending EXCEPT ![t] = FALSE]
    BY <2>1, <2>2
  <2>5. Lifecycle!Create(t)
    BY <2>1, <2>3, <2>4 DEF Lifecycle!Create, Lifecycle!Move, Lifecycle!KeepWait
  <2>. QED  BY <1>1, <2>5 DEF Lifecycle!Step
<1>6. CASE SomeWrite
  <2>1. PICK t \in Trajectories, to \in States, by \in Threads \cup {NoOwner}, mints \in BOOLEAN :
          Allowed(t, to, by, mints) /\ Written(t, to, by, mints)
    BY <1>6 DEF SomeWrite
  <2>2. lease' = [lease EXCEPT ![t] = (by # NoOwner)]
    BY <1>0, <2>1 DEF Written
  <2>3. /\ status' = [status EXCEPT ![t] = to]
        /\ pending' = [pending EXCEPT ![t] = (to = "awaiting_approval")]
        /\ minted' = IF mints THEN [minted EXCEPT ![t] = TRUE] ELSE minted
    BY <2>1 DEF Written
  <2>. HIDE DEF lease
  <2>. DEFINE Moves(holds, asks) ==
                /\ status' = [status EXCEPT ![t] = to]
                /\ lease' = [lease EXCEPT ![t] = holds]
                /\ pending' = [pending EXCEPT ![t] = asks]
                /\ none' = none /\ days' = days
  <2>4. Moves(by # NoOwner, to = "awaiting_approval")
    BY <2>2, <2>3
  <2>5. lease[t] = (owner[t] # NoOwner) /\ pending[t] = (status[t] = "awaiting_approval")
        /\ lease \in [Trajectories -> BOOLEAN] /\ pending \in [Trajectories -> BOOLEAN]
        /\ (mints => minted' = [minted EXCEPT ![t] = TRUE]) /\ (~mints => minted' = minted)
        /\ status \in [Trajectories -> States]
    BY <2>3 DEF lease, RowSound, TypeOK
  <2>6. CASE by = NoOwner /\ ~mints /\ to # "awaiting_approval"
    <3>1. Moves(FALSE, FALSE)
      BY <2>4, <2>6
    <3>2. Lifecycle!End(t, to)
      BY <2>5, <2>6, <3>1 DEF lease, none, days, Lifecycle!End, Lifecycle!Move, Lifecycle!KeepWait
    <3>3. \/ status[t] \in {"queued", "awaiting_approval"} /\ to = "cancelled"
          \/ status[t] = "awaiting_approval" /\ to = "halted"
          \/ status[t] = "planning" /\ to \in {"rejected", "failed", "cancelled"}
          \/ status[t] = "executing" /\ to \in {"completed", "halted", "failed", "cancelled"}
      BY <1>0, <2>1, <2>6 DEF Allowed
    <3>4. \/ Lifecycle!Cancel(t) \/ Lifecycle!DenyOrTimeOutApproval(t) \/ Lifecycle!RejectPlan(t)
          \/ Lifecycle!Fail(t) \/ Lifecycle!Complete(t) \/ Lifecycle!Halt(t)
      BY <3>2, <3>3 DEF Lifecycle!Cancel, Lifecycle!DenyOrTimeOutApproval, Lifecycle!RejectPlan,
         Lifecycle!Fail, Lifecycle!Complete, Lifecycle!Halt, Lifecycle!States, Lifecycle!Terminal,
         Lifecycle!LeaseHolding
    <3>. QED  BY <1>1, <3>4 DEF Lifecycle!Step
  <2>7. CASE by = NoOwner /\ ~mints /\ to = "awaiting_approval"
    <3>1. Moves(FALSE, TRUE)
      BY <2>4, <2>7
    <3>2. status[t] \in {"planning", "executing"}
      BY <1>0, <2>1, <2>7 DEF Allowed, LeaseHolding
    <3>3. Lifecycle!RequestApproval(t)
      BY <2>5, <2>7, <3>1, <3>2 DEF lease, none, days, Lifecycle!RequestApproval, Lifecycle!Move, Lifecycle!KeepWait
    <3>. QED  BY <1>1, <3>3 DEF Lifecycle!Step
  <2>8. CASE by = NoOwner /\ mints
    <3>1. \/ status[t] = "awaiting_approval" /\ to = "executing"
          \/ status[t] = "queued" /\ to = "awaiting_approval"
      BY <1>0, <2>1, <2>8 DEF Allowed
    <3>2. CASE status[t] = "awaiting_approval" /\ to = "executing"
      <4>1. Moves(FALSE, FALSE) /\ pending[t]
        BY <2>4, <2>5, <2>8, <3>2
      <4>2. Lifecycle!GrantApproval(t)
        BY <2>5, <2>8, <3>2, <4>1 DEF lease, none, days, Lifecycle!GrantApproval, Lifecycle!Move, Lifecycle!Mint,
           Lifecycle!KeepWait
      <4>. QED  BY <1>1, <4>2 DEF Lifecycle!Step
    <3>3. CASE status[t] = "queued" /\ to = "awaiting_approval"
      <4>1. Moves(FALSE, TRUE)
        BY <2>4, <2>8, <3>3
      <4>2. Lifecycle!ClaimForBypassGated(t)
        BY <2>5, <2>8, <3>3, <4>1 DEF lease, none, days, Lifecycle!ClaimForBypassGated, Lifecycle!Move,
           Lifecycle!Mint, Lifecycle!KeepWait
      <4>. QED  BY <1>1, <4>2 DEF Lifecycle!Step
    <3>. QED  BY <3>1, <3>2, <3>3
  <2>9. CASE by # NoOwner
    <3>0. Moves(TRUE, FALSE)
      <4>1. to # "awaiting_approval"
        BY <2>1, <2>9 DEF Allowed, LeaseHolding
      <4>. QED  BY <2>4, <2>9, <4>1
    <3>1. \/ status[t] = "queued" /\ to = "planning" /\ ~mints
          \/ status[t] = "queued" /\ to = "executing" /\ mints
          \/ status[t] \in LeaseHolding /\ to = status[t] /\ ~mints
          \/ status[t] = "planning" /\ to = "executing" /\ mints
      BY <2>1, <2>9 DEF Allowed
    <3>2. CASE status[t] = "queued" /\ to = "planning" /\ ~mints
      <4>1. Lifecycle!ClaimForPlanning(t)
        BY <2>5, <3>0, <3>2 DEF lease, none, days, Lifecycle!ClaimForPlanning, Lifecycle!Move, Lifecycle!KeepWait
      <4>. QED  BY <1>1, <4>1 DEF Lifecycle!Step
    <3>3. CASE status[t] = "queued" /\ to = "executing" /\ mints
      <4>1. Lifecycle!ClaimForBypass(t)
        BY <2>5, <3>0, <3>3 DEF lease, none, days, Lifecycle!ClaimForBypass, Lifecycle!Move, Lifecycle!Mint,
           Lifecycle!KeepWait
      <4>. QED  BY <1>1, <4>1 DEF Lifecycle!Step
    <3>4. CASE status[t] \in LeaseHolding /\ to = status[t] /\ ~mints
      <4>1. status' = status
        BY <2>5, <3>0, <3>4
      <4>2. pending' = pending
        <5>1. pending[t] = FALSE
          BY <2>5, <3>4 DEF LeaseHolding
        <5>. QED  BY <2>5, <3>0, <5>1
      <4>3. Lifecycle!Recover(t)
        BY <2>5, <3>0, <3>4, <4>1, <4>2 DEF lease, none, days, Lifecycle!Recover, LeaseHolding, Lifecycle!LeaseHolding
      <4>. QED  BY <1>1, <4>3 DEF Lifecycle!Step
    <3>5. CASE status[t] = "planning" /\ to = "executing" /\ mints
      <4>1. lease[t] = TRUE
        BY <2>5, <3>5 DEF RowSound
      <4>2. lease' = [lease EXCEPT ![t] = lease[t]]
        BY <3>0, <4>1
      <4>3. Lifecycle!ApprovePlan(t)
        BY <2>5, <3>0, <3>5, <4>2 DEF lease, none, days, Lifecycle!ApprovePlan, Lifecycle!Move, Lifecycle!Mint,
           Lifecycle!KeepWait
      <4>. QED  BY <1>1, <4>3 DEF Lifecycle!Step
    <3>. QED  BY <3>1, <3>2, <3>3, <3>4, <3>5
  <2>. QED  BY <2>6, <2>7, <2>8, <2>9
<1>7. Goal
  BY <1>3, <1>4, <1>5, <1>6, RowSteps
<1>. QED  BY <1>7 DEF Goal

(* ------------------------------ the record ------------------------------- *)

Commits(w) == pc[w] = "answered" /\ Outcome(w) = "completed" /\ ~Collides(w) /\ CommitTurn(w)

(* A turn is announced, committed or retried by a thread, one at a time. *)
LEMMA ThreadRecord ==
  ASSUME NEW w \in Threads, Step(w) \/ Keep(w)
  PROVE  /\ announced' = announced \/ Announce(w)
         /\ turns' = turns \/ Commits(w)
         /\ retries' = retries \/ RetryTurn(w)
<1>. DEFINE Goal == /\ announced' = announced \/ Announce(w)
                    /\ turns' = turns \/ Commits(w)
                    /\ retries' = retries \/ RetryTurn(w)
<1>1. ASSUME UNCHANGED <<announced, turns, retries>> PROVE Goal
  BY <1>1
<1>2. CASE Recover(w)
  BY <1>1, <1>2 DEF Recover, Reap, NotYetDue, RecoveryListDone, Redraft, RecordRedraft, ReadEvents, Inspect,
     FindJob, TakeOver, CancelFoundJob, HaltRecovered, LoadFinished, record
<1>3. CASE Pass(w)
  BY <1>1, <1>3 DEF Pass, ResumeNext, ResumedAll, ApprovalsDone, NothingReleased, NothingQueued, ExpireApproval,
     ClaimReleased, Claim, record
<1>4. CASE Plan(w)
  BY <1>1, <1>4 DEF Plan, Start, FailToStart, StopDrafting, Draft, RecordAttempt, FailPlanning, Approve, record
<1>5. CASE RecordAndContinue(w) \/ RecordAndCommitStep(w) \/ RecordAndEnd(w) \/ RecordAndAsk(w)
  BY <1>5 DEF RecordAndContinue, RecordAndCommitStep, RecordAndEnd, RecordAndAsk, Commits, CommitTurn
<1>6. CASE Announce(w)
  BY <1>6 DEF Announce
<1>7. CASE RetryTurn(w)
  BY <1>7 DEF RetryTurn
<1>8. CASE \/ StopAtBoundary(w) \/ CancelAtBoundary(w) \/ Prepare(w) \/ HaltBeforeTurn(w) \/ AskBeforeTurn(w)
           \/ Post(w) \/ Refuse(w) \/ Answer(w) \/ TimeOut(w) \/ LoseCall(w) \/ FailUnreachable(w) \/ NextTier(w)
           \/ HaltUnanswered(w) \/ Collapse(w) \/ LoseLease(w)
  BY <1>1, <1>8 DEF StopAtBoundary, CancelAtBoundary, Prepare, HaltBeforeTurn, AskBeforeTurn, Post,
     Refuse, Answer, TimeOut, LoseCall, FailUnreachable, NextTier, HaltUnanswered, Collapse, LoseLease, record
<1>9. CASE Keep(w)
  BY <1>1, <1>9 DEF Keep, Renew, CancelInFlight, record
<1>. QED  BY <1>2, <1>3, <1>4, <1>5, <1>6, <1>7, <1>8, <1>9 DEF Step, Turn

(* Nobody else writes them. *)
LEMMA RecordSteps ==
  ASSUME [Next]_vars
  PROVE  \/ UNCHANGED <<announced, turns, retries>>
         \/ \E w \in Threads : Step(w) \/ Keep(w)
<1>1. ASSUME NEW t \in Trajectories, Request(t) \/ LeaseExpires(t)
      PROVE  UNCHANGED <<announced, turns, retries>>
  BY <1>1 DEF Request, Submit, Cancel, Grant, Deny, LeaseExpires, record
<1>2. CASE \/ \E t \in Trajectories, i \in 1 .. MaxAnnounced : JobEnds(t, i)
           \/ Crash \/ UNCHANGED vars
  BY <1>2 DEF JobEnds, Crash, vars, record
<1>. QED  BY <1>1, <1>2 DEF Next

(* LoadCoach's jobs change one at a time, under a turn that was announced. *)
OneJob == \E t \in Trajectories, i \in 1 .. MaxAnnounced, s \in JobStates : job' = [job EXCEPT ![t][i] = s]

InFlight == {"posting", "calling", "unreachable", "failed", "answered"}
Dangles == {"find", "take_cancel", "take_record", "cancel_job", "load"}
Reconciling == {"inspect", "take_resume", "take_halt"} \cup Dangles

(* Turns are numbered as they are announced, and no two rows have one number. *)
Numbered(t) ==
    /\ Cardinality(Committed(t)) = Len(turns[t])
    /\ Len(turns[t]) <= announced[t]

(* What a thread holds in memory fits where it is.  `a` and `m` are what the record
   says of the trajectory in hand: how many turns it announced, whether an intent
   was minted. *)
Sized(p, n, b, dr, a, m) ==
    /\ {n, b} \subseteq 0 .. MaxAnnounced /\ dr \in 0 .. CorrectiveRetries + 1
    /\ p \in InFlight \cup Dangles => n \in 1 .. a
    /\ p \in Reconciling => n \in 0 .. a
    /\ p = "start" => dr = 0 \/ m
    /\ p = "drafting" => dr <= CorrectiveRetries
    /\ p \notin Running => dr = 0

Shaped(p, h, td, rs, sg) ==
    /\ p \in Phases /\ h \in Trajectories \cup {NoTrajectory}
    /\ td \in SUBSET (Trajectories \X LeaseHolding) /\ rs \in SUBSET Trajectories /\ sg \in SUBSET Signals
    /\ h = NoTrajectory <=> p \in {"off", "dead", "recover"} \cup Passing
    /\ td # {} => p \in Recovering \cup {"answered"}
    /\ p \in Recovering \ {"recover"} => \E e \in td : e[1] = h
    /\ td # {} /\ p = "answered" => \E e \in td : e[1] = h
    /\ rs # {} => p \in Recovering \cup {"resume"} \cup Running
    /\ p \in Running /\ td = {} => rs = {} \/ h \in rs
    /\ \A e \in td : e[1] \notin rs

Fine(p, h, n, b, td, rs, sg, dr, a, m) == Sized(p, n, b, dr, a, m) /\ Shaped(p, h, td, rs, sg)

Local(w) == Fine(pc[w], hand[w], turn[w], base[w], todo[w], resumed[w], signals[w], drafts[w],
                 announced[hand[w]], minted[hand[w]])

(* Startup recovery runs before the pool does. *)
Shift == pc[Recovery] # "off" => \A w \in Workers : pc[w] = "off"

IInv ==
    /\ TypeOK /\ RowSound /\ Shift
    /\ turns \in [Trajectories -> Seq(Nat)]
    /\ \A t \in Trajectories : Numbered(t)
    /\ \A w \in Threads : Local(w)

LEMMA HandTaken ==
  ASSUME NEW w \in Threads, Local(w), pc[w] \in Running \cup (Recovering \ {"recover"})
  PROVE  hand[w] \in Trajectories
BY DEF Local, Fine, Sized, Shaped, Running, Recovering, Passing, Planning, Executing

LEMMA ThreadJobs ==
  ASSUME IInv, NEW w \in Threads, Step(w) \/ Keep(w)
  PROVE  job' = job \/ OneJob
<1>1. ASSUME NEW s \in JobStates, pc[w] \in InFlight \cup Dangles,
             \/ job' = [job EXCEPT ![hand[w]][turn[w]] = s]
             \/ job' = [job EXCEPT ![hand[w]][turn[w]] = IF @ = "running" THEN s ELSE @]
      PROVE  OneJob
  <2>1. PICK t \in Trajectories : t = hand[w]
    BY <1>1, HandTaken DEF IInv, InFlight, Dangles, Running, Executing, Recovering
  <2>2. PICK i \in 1 .. MaxAnnounced : i = turn[w]
    BY <1>1, <2>1 DEF IInv, Local, Fine, Sized, Shaped, TypeOK
  <2>3. job[t][i] \in JobStates
    <3>1. job \in [Trajectories -> [1 .. MaxAnnounced -> JobStates]]
      BY DEF IInv, TypeOK
    <3>. QED  BY <3>1
  <2>. QED  BY <1>1, <2>1, <2>2, <2>3 DEF OneJob
<1>2. CASE Recover(w)
  <2>1. CASE CancelFoundJob(w)
    BY <1>1, <2>1 DEF CancelFoundJob, Dangles, JobStates, JobEndings
  <2>. QED  BY <1>2, <2>1 DEF Recover, Reap, NotYetDue, RecoveryListDone, Redraft, RecordRedraft, ReadEvents, Inspect,
     FindJob, TakeOver, HaltRecovered, LoadFinished, record
<1>3. CASE Pass(w)
  BY <1>3 DEF Pass, ResumeNext, ResumedAll, ApprovalsDone, NothingReleased, NothingQueued, ExpireApproval,
     ClaimReleased, Claim, record
<1>4. CASE Plan(w)
  BY <1>4 DEF Plan, Start, FailToStart, StopDrafting, Draft, RecordAttempt, FailPlanning, Approve, record
<1>5. CASE RecordAndContinue(w) \/ RecordAndCommitStep(w) \/ RecordAndEnd(w) \/ RecordAndAsk(w) \/ Announce(w) \/ RetryTurn(w)
  BY <1>5 DEF RecordAndContinue, RecordAndCommitStep, RecordAndEnd, RecordAndAsk, CommitTurn, Announce, RetryTurn
<1>6. CASE Post(w) \/ TimeOut(w) \/ LoseCall(w)
  BY <1>1, <1>6 DEF Post, TimeOut, LoseCall, InFlight, JobStates, JobEndings
<1>7. CASE Keep(w)
  BY <1>1, <1>7 DEF Keep, Renew, CancelInFlight, record, InFlight, JobStates, JobEndings
<1>8. CASE \/ StopAtBoundary(w) \/ CancelAtBoundary(w) \/ Prepare(w) \/ HaltBeforeTurn(w) \/ AskBeforeTurn(w)
           \/ Refuse(w) \/ Answer(w) \/ FailUnreachable(w) \/ NextTier(w)
           \/ HaltUnanswered(w) \/ Collapse(w) \/ LoseLease(w)
  BY <1>8 DEF StopAtBoundary, CancelAtBoundary, Prepare, HaltBeforeTurn, AskBeforeTurn,
     Refuse, Answer, FailUnreachable, NextTier, HaltUnanswered, Collapse, LoseLease, record
<1>. QED  BY <1>2, <1>3, <1>4, <1>5, <1>6, <1>7, <1>8 DEF Step, Turn

(* Numbers that are all different, from as many, are no more than these. *)
Apart(s) == Cardinality({s[i] : i \in DOMAIN s}) = Len(s)

LEMMA CountedOnce ==
  ASSUME NEW n \in Nat, NEW q \in Seq(1 .. n), NEW x \in 1 .. n,
         Apart(q), x \notin {q[i] : i \in DOMAIN q}, NEW r, r = Append(q, x)
  PROVE  r \in Seq(1 .. n) /\ Apart(r) /\ Len(r) <= n
<1>. DEFINE old == {q[i] : i \in DOMAIN q}
            new == {r[i] : i \in DOMAIN r}
<1>1. IsFiniteSet(1 .. n) /\ Cardinality(1 .. n) = n
  BY FS_Interval
<1>2. old \subseteq 1 .. n /\ Len(q) \in Nat /\ DOMAIN q = 1 .. Len(q)
  OBVIOUS
<1>3. /\ r \in Seq(1 .. n) /\ Len(r) = Len(q) + 1 /\ DOMAIN r = 1 .. Len(q) + 1
      /\ \A i \in 1 .. Len(q) : r[i] = q[i]
      /\ r[Len(q) + 1] = x
  OBVIOUS
<1>4. new = old \cup {x}
  <2>0. PICK k \in Nat : /\ k = Len(q) /\ DOMAIN q = 1 .. k /\ DOMAIN r = 1 .. k + 1
                         /\ \A i \in 1 .. k : r[i] = q[i]
                         /\ r[k + 1] = x
    BY <1>2, <1>3
  <2>1. ASSUME NEW i \in 1 .. k + 1 PROVE i \in 1 .. k \/ i = k + 1
    OBVIOUS
  <2>2. 1 .. k \subseteq 1 .. k + 1 /\ k + 1 \in 1 .. k + 1
    OBVIOUS
  <2>. QED  BY <2>0, <2>1, <2>2, Zenon
<1>5. IsFiniteSet(old) /\ Cardinality(old) = Len(q) /\ x \notin old
  BY <1>1, <1>2, FS_Subset DEF Apart
<1>. HIDE DEF old, new
<1>6. Cardinality(new) = Len(q) + 1
  BY <1>4, <1>5, FS_AddElement
<1>7. new \subseteq 1 .. n
  BY <1>2, <1>4
<1>8. Cardinality(new) <= n
  BY <1>1, <1>7, FS_Subset
<1>9. Cardinality(new) = Len(r) /\ Len(r) <= n
  BY <1>3, <1>6, <1>8
<1>10. Apart(r)
  BY <1>9 DEF new, Apart
<1>. QED  BY <1>3, <1>9, <1>10

(* What was announced or committed stays, and every count keeps its bound. *)
LEMMA RecordKept ==
  ASSUME IInv, [Next]_vars
  PROVE  /\ announced' \in [Trajectories -> 0 .. MaxAnnounced]
         /\ turns' \in [Trajectories -> Seq(Nat)]
         /\ \A t \in Trajectories : turns'[t] \in Seq(1 .. announced'[t]) /\ Numbered(t)'
         /\ retries' \in [Trajectories -> 0 .. StepRetries]
         /\ job' \in [Trajectories -> [1 .. MaxAnnounced -> JobStates]]
         /\ \A t \in Trajectories : announced[t] <= announced'[t] /\ (minted[t] => minted'[t])
<1>0. /\ announced \in [Trajectories -> 0 .. MaxAnnounced] /\ retries \in [Trajectories -> 0 .. StepRetries]
      /\ job \in [Trajectories -> [1 .. MaxAnnounced -> JobStates]]
      /\ \A t \in Trajectories : turns[t] \in Seq(1 .. announced[t]) /\ Numbered(t)
      /\ MaxAnnounced \in Nat /\ StepRetries \in Nat
  BY BoundsAssumption DEF IInv, TypeOK
<1>1. \A t \in Trajectories : minted[t] => minted'[t]
  <2>1. TypeOK /\ RowSound
    BY DEF IInv
  <2>2. minted' = minted \/ \E t \in Trajectories : minted' = [minted EXCEPT ![t] = TRUE]
    BY <2>1, RowSteps DEF RowStays, Submitted, SomeWrite, Written, Renamed
  <2>. QED  BY <2>1, <2>2 DEF TypeOK
<1>2. job' \in [Trajectories -> [1 .. MaxAnnounced -> JobStates]]
  <2>1. ASSUME NEW t \in Trajectories, Request(t) \/ LeaseExpires(t) PROVE job' = job
    BY <2>1 DEF Request, Submit, Cancel, Grant, Deny, LeaseExpires, record
  <2>2. ASSUME NEW t \in Trajectories, NEW i \in 1 .. MaxAnnounced, JobEnds(t, i) PROVE OneJob
    BY <2>2 DEF JobEnds, OneJob, JobStates, JobEndings
  <2>3. CASE Crash \/ UNCHANGED vars
    BY <1>0, <2>3 DEF Crash, vars, record
  <2>4. OneJob \/ job' = job
    BY <2>1, <2>2, <2>3, ThreadJobs DEF Next, Crash, vars, record
  <2>5. ASSUME NEW t \in Trajectories, NEW i \in 1 .. MaxAnnounced, NEW s \in JobStates,
               job' = [job EXCEPT ![t][i] = s]
        PROVE  job' \in [Trajectories -> [1 .. MaxAnnounced -> JobStates]]
    <3>1. job' = [job EXCEPT ![t] = [job[t] EXCEPT ![i] = s]]
      BY <2>5
    <3>2. [job[t] EXCEPT ![i] = s] \in [1 .. MaxAnnounced -> JobStates]
      BY <1>0
    <3>. QED  BY <1>0, <3>1, <3>2
  <2>. QED  BY <1>0, <2>4, <2>5 DEF OneJob
<1>3. retries' \in [Trajectories -> 0 .. StepRetries]
  <2>1. ASSUME NEW w \in Threads, RetryTurn(w) PROVE retries' \in [Trajectories -> 0 .. StepRetries]
    <3>1. PICK t \in Trajectories : t = hand[w]
      BY <2>1, HandTaken DEF IInv, RetryTurn, Running, Executing
    <3>2. retries' = [retries EXCEPT ![t] = retries[t] + 1] /\ retries[t] < StepRetries
      BY <2>1, <3>1 DEF RetryTurn
    <3>3. retries[t] + 1 \in 0 .. StepRetries
      BY <1>0, <3>2
    <3>. QED  BY <1>0, <3>2, <3>3
  <2>. QED  BY <1>0, <2>1, RecordSteps, ThreadRecord
<1>4. /\ announced' \in [Trajectories -> 0 .. MaxAnnounced]
      /\ \A t \in Trajectories : announced[t] <= announced'[t]
  <2>1. ASSUME NEW w \in Threads, Announce(w)
        PROVE  /\ announced' \in [Trajectories -> 0 .. MaxAnnounced]
               /\ \A t \in Trajectories : announced[t] <= announced'[t]
    <3>1. PICK t \in Trajectories : t = hand[w]
      BY <2>1, HandTaken DEF IInv, Announce, Running, Executing
    <3>2. announced' = [announced EXCEPT ![t] = announced[t] + 1] /\ announced[t] < MaxAnnounced
      BY <2>1, <3>1 DEF Announce
    <3>3. announced[t] + 1 \in 0 .. MaxAnnounced
      BY <1>0, <3>2
    <3>. QED  BY <1>0, <3>2, <3>3
  <2>2. CASE announced' = announced
    BY <1>0, <2>2
  <2>. QED  BY <2>1, <2>2, RecordSteps, ThreadRecord
<1>5. ASSUME NEW t \in Trajectories PROVE turns'[t] \in Seq(1 .. announced'[t]) /\ Numbered(t)'
  <2>0. /\ announced[t] \in Nat /\ announced'[t] \in Nat /\ announced[t] <= announced'[t]
        /\ turns[t] \in Seq(1 .. announced[t]) /\ Cardinality(Committed(t)) = Len(turns[t])
        /\ Len(turns[t]) <= announced[t]
    BY <1>0, <1>4 DEF Numbered
  <2>1. CASE turns'[t] = turns[t]
    <3>1. Committed(t)' = Committed(t)
      BY <2>1 DEF Committed
    <3>2. Numbered(t)'
      BY <2>0, <2>1, <3>1 DEF Numbered
    <3>. QED  BY <2>0, <2>1, <3>2
  <2>2. ASSUME NEW w \in Threads, Commits(w), t = hand[w], turns' = [turns EXCEPT ![t] = Append(turns[t], turn[w])]
        PROVE  turns'[t] \in Seq(1 .. announced'[t]) /\ Numbered(t)'
    <3>. DEFINE n == announced[t]
                q == turns[t]
                x == turn[w]
                r == turns'[t]
    <3>1. x \in 1 .. n /\ x \notin {q[i] : i \in DOMAIN q} /\ announced' = announced
      BY <2>2, ThreadRecord, RecordSteps DEF IInv, Local, Fine, Sized, Shaped, InFlight, Commits, Collides, Committed, CommitTurn
    <3>3. r = Append(q, x)
      BY <2>2 DEF IInv
    <3>4. n \in Nat /\ q \in Seq(1 .. n) /\ Cardinality({q[i] : i \in DOMAIN q}) = Len(q)
      BY <2>0 DEF Committed
    <3>. HIDE DEF n, q, x, r
    <3>5. Apart(q) /\ x \notin {q[i] : i \in DOMAIN q}
      BY <3>1, <3>4 DEF Apart
    <3>6. r \in Seq(1 .. n)
      BY <3>1, <3>3, <3>4, <3>5, CountedOnce, Zenon
    <3>7. Apart(r) /\ Len(r) <= n
      BY <3>1, <3>3, <3>4, <3>5, CountedOnce, Zenon
    <3>8. Cardinality(Committed(t)') = Len(turns'[t])
      BY <3>7 DEF r, Committed, Apart
    <3>. QED  BY <3>1, <3>6, <3>7, <3>8 DEF r, n, Numbered
  <2>3. \/ turns'[t] = turns[t]
        \/ \E w \in Threads : Commits(w) /\ t = hand[w] /\ turns' = [turns EXCEPT ![t] = Append(turns[t], turn[w])]
    <3>1. ASSUME NEW w \in Threads, Commits(w), t = hand[w]
          PROVE  turns' = [turns EXCEPT ![t] = Append(turns[t], turn[w])]
      BY <3>1 DEF Commits, CommitTurn
    <3>2. ASSUME NEW w \in Threads, Commits(w), t # hand[w]
          PROVE  turns'[t] = turns[t]
      BY <3>2 DEF Commits, CommitTurn, IInv
    <3>. QED  BY <3>1, <3>2, RecordSteps, ThreadRecord
  <2>. QED  BY <2>1, <2>2, <2>3
<1>6. turns' \in [Trajectories -> Seq(Nat)]
  <2>1. turns' = turns \/ \E w \in Threads : turns' = [turns EXCEPT ![hand[w]] = Append(@, turn[w])]
    BY RecordSteps, ThreadRecord DEF Commits, CommitTurn
  <2>2. DOMAIN turns' = Trajectories /\ turns' = [t \in Trajectories |-> turns'[t]]
    BY <2>1 DEF IInv
  <2>3. \A t \in Trajectories : turns'[t] \in Seq(Nat)
    <3>1. ASSUME NEW t \in Trajectories PROVE turns'[t] \in Seq(Nat)
      <4>1. turns'[t] \in Seq(1 .. announced'[t])
        BY <1>5
      <4>2. PICK n \in Nat : n = announced'[t]
        BY <1>0, <1>4
      <4>3. 1 .. n \subseteq Nat
        OBVIOUS
      <4>. QED  BY <4>1, <4>2, <4>3
    <3>. QED  BY <3>1
  <2>. QED  BY <2>2, <2>3
<1>. QED  BY <1>1, <1>2, <1>3, <1>4, <1>5, <1>6

(* ------------------------------ the memory ------------------------------- *)

(* What a step leaves in the memory of the thread that takes it. *)
Cells(w, p, h, n, b, td, rs, sg, dr) ==
    /\ pc' = [pc EXCEPT ![w] = p] /\ hand' = [hand EXCEPT ![w] = h]
    /\ turn' = [turn EXCEPT ![w] = n] /\ base' = [base EXCEPT ![w] = b]
    /\ todo' = [todo EXCEPT ![w] = td] /\ resumed' = [resumed EXCEPT ![w] = rs]
    /\ signals' = [signals EXCEPT ![w] = sg] /\ drafts' = [drafts EXCEPT ![w] = dr]

Moves(w) ==
    \E p, h, n, b, td, rs, sg, dr :
        /\ Cells(w, p, h, n, b, td, rs, sg, dr)
        /\ Fine(p, h, n, b, td, rs, sg, dr, announced'[h], minted'[h])

(* It goes on with what it has, leaves its run, is done with a row of its
   recovery pass, or is lost. *)
Onward(w, p) == Cells(w, p, hand[w], turn[w], base[w], todo[w], resumed[w], signals[w], drafts[w])
Quits(w) == Cells(w, IF hand[w] \in resumed[w] THEN "resume" ELSE "reap", NoTrajectory, 0, 0,
                  todo[w], resumed[w] \ {hand[w]}, {}, 0)
Settles(w, held) == Cells(w, "recover", NoTrajectory, 0, 0, {e \in todo[w] : e[1] # hand[w]},
                          IF held THEN resumed[w] \cup {hand[w]} ELSE resumed[w], {}, 0)
Perishes(w) == Cells(w, "dead", NoTrajectory, 0, 0, {}, {}, {}, 0)

LEMMA Shapes ==
  ASSUME TypeOK, NEW w \in Threads
  PROVE  /\ \A p : Goto(w, p) /\ UNCHANGED <<hand, turn, base, todo, resumed, signals, drafts>> => Onward(w, p)
         /\ Leave(w) => Quits(w)
         /\ \A held \in BOOLEAN : Reconciled(w, held) => Settles(w, held)
         /\ Dies(w) => Perishes(w)
<1>0. /\ hand = [hand EXCEPT ![w] = hand[w]] /\ turn = [turn EXCEPT ![w] = turn[w]]
      /\ base = [base EXCEPT ![w] = base[w]] /\ todo = [todo EXCEPT ![w] = todo[w]]
      /\ resumed = [resumed EXCEPT ![w] = resumed[w]] /\ signals = [signals EXCEPT ![w] = signals[w]]
      /\ drafts = [drafts EXCEPT ![w] = drafts[w]]
  BY DEF TypeOK
<1>1. \A p : Goto(w, p) /\ UNCHANGED <<hand, turn, base, todo, resumed, signals, drafts>> => Onward(w, p)
  BY <1>0 DEF Goto, Onward, Cells
<1>2. Leave(w) => Quits(w)
  BY <1>0 DEF Leave, Forget, Goto, Quits, Cells
<1>3. \A held \in BOOLEAN : Reconciled(w, held) => Settles(w, held)
  BY DEF Reconciled, Forget, Goto, Settles, Cells
<1>4. Dies(w) => Perishes(w)
  BY DEF Dies, Forget, Goto, Perishes, Cells
<1>. QED  BY <1>1, <1>2, <1>3, <1>4

LEMMA Quitting ==
  ASSUME IInv, NEW w \in Threads, pc[w] \in Running, todo[w] = {}, Quits(w)
  PROVE  Moves(w)
<1>. DEFINE p == IF hand[w] \in resumed[w] THEN "resume" ELSE "reap"
            rs == resumed[w] \ {hand[w]}
<1>1. rs \in SUBSET Trajectories /\ (rs # {} => p = "resume")
  BY DEF IInv, Local, Fine, Sized, Shaped
<1>2. Fine(p, NoTrajectory, 0, 0, todo[w], rs, {}, 0, announced'[NoTrajectory], minted'[NoTrajectory])
  BY <1>1, BoundsAssumption DEF Fine, Sized, Shaped, Phases, Passing, Recovering, Running, Planning, Executing, InFlight, Dangles, Reconciling
<1>. QED  BY <1>2 DEF Moves, Quits

LEMMA Settling ==
  ASSUME IInv, NEW w \in Threads, hand[w] \in Trajectories, NEW held \in BOOLEAN, Settles(w, held)
  PROVE  Moves(w)
<1>. DEFINE td == {e \in todo[w] : e[1] # hand[w]}
            rs == IF held THEN resumed[w] \cup {hand[w]} ELSE resumed[w]
<1>1. rs \in SUBSET Trajectories /\ td \in SUBSET (Trajectories \X LeaseHolding) /\ \A e \in td : e[1] \notin rs
  BY DEF IInv, Local, Fine, Sized, Shaped
<1>2. Fine("recover", NoTrajectory, 0, 0, td, rs, {}, 0, announced'[NoTrajectory], minted'[NoTrajectory])
  BY <1>1, BoundsAssumption DEF Fine, Sized, Shaped, Phases, Passing, Recovering, Running, Planning, Executing, InFlight, Dangles, Reconciling
<1>. QED  BY <1>2 DEF Moves, Settles

LEMMA Perishing ==
  ASSUME NEW w \in Threads, Perishes(w)
  PROVE  Moves(w)
<1>1. Fine("dead", NoTrajectory, 0, 0, {}, {}, {}, 0, announced'[NoTrajectory], minted'[NoTrajectory])
  BY BoundsAssumption DEF Fine, Sized, Shaped, Phases, Passing, Recovering, Running, Planning, Executing, InFlight, Dangles, Reconciling
<1>. QED  BY <1>1 DEF Moves, Perishes

(* The end of a turn, whichever way it goes on. *)
LEMMA TurnEnds ==
  ASSUME IInv, NEW w \in Threads, pc[w] \in Running, NEW again \in BOOLEAN, AfterTurn(w, again)
  PROVE  /\ Moves(w)
         /\ \/ todo[w] # {} /\ Settles(w, again)
            \/ todo[w] = {} /\ again /\ Onward(w, "boundary")
            \/ todo[w] = {} /\ ~again /\ Quits(w)
<1>0. TypeOK /\ hand[w] \in Trajectories
  BY HandTaken DEF IInv
<1>1. CASE todo[w] # {}
  <2>1. Settles(w, again)
    BY <1>0, <1>1, Shapes DEF AfterTurn, InRecovery
  <2>. QED  BY <1>0, <1>1, <2>1, Settling
<1>2. CASE todo[w] = {} /\ again
  <2>1. Onward(w, "boundary")
    BY <1>0, <1>2, Shapes DEF AfterTurn, InRecovery
  <2>2. Fine("boundary", hand[w], turn[w], base[w], todo[w], resumed[w], signals[w], drafts[w],
             announced'[hand[w]], minted'[hand[w]])
    BY <1>0, <1>2, OwnersAssumption DEF IInv, Local, Fine, Sized, Shaped, Phases, Passing, Recovering, Running, Planning, Executing,
       InFlight, Dangles, Reconciling
  <2>. QED  BY <1>2, <2>1, <2>2 DEF Moves, Onward
<1>3. CASE todo[w] = {} /\ ~again
  <2>1. Quits(w)
    BY <1>0, <1>3, Shapes DEF AfterTurn, InRecovery
  <2>. QED  BY <1>3, <2>1, Quitting
<1>. QED  BY <1>1, <1>2, <1>3

(* What fits a record fits it as it grows. *)
LEMMA FineStays ==
  ASSUME IInv, [Next]_vars, NEW p, NEW h, NEW n, NEW b, NEW td, NEW rs, NEW sg, NEW dr,
         Fine(p, h, n, b, td, rs, sg, dr, announced[h], minted[h])
  PROVE  Fine(p, h, n, b, td, rs, sg, dr, announced'[h], minted'[h])
<1>1. CASE h \in Trajectories
  <2>0. announced' \in [Trajectories -> 0 .. MaxAnnounced]
    BY RecordKept
  <2>1. /\ announced[h] \in Nat /\ announced'[h] \in Nat /\ announced[h] <= announced'[h]
        /\ minted[h] => minted'[h]
    <3>1. announced[h] <= announced'[h] /\ (minted[h] => minted'[h])
      BY <1>1, RecordKept
    <3>. QED  BY <1>1, <2>0, <3>1, BoundsAssumption DEF IInv, TypeOK
  <2>2. \A i \in 1 .. announced[h] : i \in 1 .. announced'[h]
    BY <2>1
  <2>3. \A i \in 0 .. announced[h] : i \in 0 .. announced'[h]
    BY <2>1
  <2>. QED  BY <2>1, <2>2, <2>3 DEF Fine, Sized, Shaped
<1>2. CASE h \notin Trajectories
  <2>1. p \in {"off", "dead", "recover"} \cup Passing
    BY <1>2 DEF Fine, Sized, Shaped
  <2>2. p \notin InFlight \cup Dangles \cup Reconciling \cup {"start"}
    BY <2>1 DEF InFlight, Dangles, Reconciling, Passing
  <2>. QED  BY <2>2 DEF Fine, Sized, Shaped
<1>. QED  BY <1>1, <1>2

(* A thread goes on, in the same part of its run or its pass, or to the next. *)
LEMMA GoingOn ==
  ASSUME IInv, [Next]_vars, NEW w \in Threads, NEW p, Onward(w, p),
         Fine(p, hand[w], turn[w], base[w], todo[w], resumed[w], signals[w], drafts[w],
              announced[hand[w]], minted[hand[w]])
  PROVE  Moves(w)
<1>1. Fine(p, hand[w], turn[w], base[w], todo[w], resumed[w], signals[w], drafts[w],
           announced'[hand[w]], minted'[hand[w]])
  BY FineStays
<1>. QED  BY <1>1 DEF Moves, Onward

Ahead(w, p) ==
    /\ Goto(w, p)
    /\ UNCHANGED <<hand, turn, base, todo, resumed, signals, drafts>>
    /\ \/ pc[w] \in {"reap", "approvals", "released", "queued"} /\ p \in {"reap", "approvals", "released", "queued"}
       \/ pc[w] = "recover" /\ todo[w] = {} /\ p = "resume"
       \/ pc[w] \in Reconciling /\ p \in Reconciling /\ (p \in Dangles => turn[w] # 0)
       \/ pc[w] \in Running \ {"answered"} /\ p \in {"drafting", "refused", "approving", "boundary", "ready"}
             /\ (p = "drafting" => drafts[w] <= CorrectiveRetries)
       \/ pc[w] \in InFlight \ {"answered"} /\ p \in InFlight

LEMMA GoingAhead ==
  ASSUME IInv, [Next]_vars, NEW w \in Threads, NEW p, Ahead(w, p)
  PROVE  Moves(w)
<1>1. TypeOK /\ Local(w)
  BY DEF IInv
<1>2. Onward(w, p)
  BY <1>1, Shapes DEF Ahead
<1>. DEFINE h == hand[w]
            n == turn[w]
            b == base[w]
            td == todo[w]
            rs == resumed[w]
            sg == signals[w]
            dr == drafts[w]
            a == announced[h]
            m == minted[h]
            Goal == Fine(p, h, n, b, td, rs, sg, dr, a, m)
            G1 == Sized(p, n, b, dr, a, m)
            G2 == Shaped(p, h, td, rs, sg)
<1>3. Sized(pc[w], n, b, dr, a, m) /\ Shaped(pc[w], h, td, rs, sg)
  BY <1>1 DEF Local, Fine
<1>4. ASSUME pc[w] \in {"reap", "approvals", "released", "queued"} /\ p \in {"reap", "approvals", "released", "queued"} PROVE Goal
  <2>. HIDE DEF h, n, b, td, rs, sg, dr, a, m
  <2>1. G1
    BY <1>3, <1>4 DEF Sized, Passing, Recovering, Running, Planning, Executing, InFlight, Dangles, Reconciling
  <2>2. G2
    BY <1>3, <1>4 DEF Shaped, Phases, Passing, Recovering, Running, Planning, Executing
  <2>. QED  BY <2>1, <2>2 DEF Goal, Fine
<1>5. ASSUME pc[w] = "recover" /\ td = {} /\ p = "resume" PROVE Goal
  <2>. HIDE DEF h, n, b, td, rs, sg, dr, a, m
  <2>1. G1
    BY <1>3, <1>5 DEF Sized, Passing, Recovering, Running, Planning, Executing, InFlight, Dangles, Reconciling
  <2>2. G2
    BY <1>3, <1>5 DEF Shaped, Phases, Passing, Recovering, Running, Planning, Executing
  <2>. QED  BY <2>1, <2>2 DEF Goal, Fine
<1>6. ASSUME pc[w] \in Reconciling /\ p \in Reconciling /\ (p \in Dangles => n # 0) PROVE Goal
  <2>1. n \in Nat /\ (n \in 0 .. a /\ n # 0 => n \in 1 .. a)
    BY <1>1, BoundsAssumption DEF IInv, TypeOK
  <2>. HIDE DEF h, n, b, td, rs, sg, dr, a, m
  <2>2. G1
    <3>1. p \notin Running /\ p \notin InFlight /\ p # "start" /\ p # "drafting" /\ pc[w] \notin Running
      BY <1>6 DEF Recovering, Running, Planning, Executing, InFlight, Dangles, Reconciling
    <3>. QED  BY <1>3, <1>6, <2>1, <3>1 DEF Sized
  <2>3. G2
    BY <1>3, <1>6 DEF Shaped, Phases, Passing, Recovering, Running, Planning, Executing, Dangles, Reconciling
  <2>. QED  BY <2>2, <2>3 DEF Goal, Fine
<1>7. ASSUME /\ pc[w] \in Running \ {"answered"} /\ p \in {"drafting", "refused", "approving", "boundary", "ready"}
             /\ p = "drafting" => dr <= CorrectiveRetries
      PROVE  Goal
  <2>. HIDE DEF h, n, b, td, rs, sg, dr, a, m
  <2>1. G1
    <3>1. p \in Running /\ p # "start" /\ p \notin InFlight \cup Dangles \cup Reconciling
      BY <1>7 DEF Running, Planning, Executing, InFlight, Dangles, Reconciling
    <3>. QED  BY <1>3, <1>7, <3>1 DEF Sized
  <2>2. G2
    BY <1>3, <1>7 DEF Shaped, Phases, Passing, Recovering, Running, Planning, Executing
  <2>. QED  BY <2>1, <2>2 DEF Goal, Fine
<1>8. ASSUME pc[w] \in InFlight \ {"answered"} /\ p \in InFlight PROVE Goal
  <2>. HIDE DEF h, n, b, td, rs, sg, dr, a, m
  <2>1. G1
    <3>1. p \in Running /\ p \notin Reconciling /\ p # "start" /\ p # "drafting"
      BY <1>8 DEF Running, Planning, Executing, InFlight, Dangles, Reconciling
    <3>. QED  BY <1>3, <1>8, <3>1 DEF Sized
  <2>2. G2
    BY <1>3, <1>8 DEF Shaped, Phases, Passing, Recovering, Running, Planning, Executing, InFlight
  <2>. QED  BY <2>1, <2>2 DEF Goal, Fine
<1>9. Goal
  BY <1>4, <1>5, <1>6, <1>7, <1>8, Zenon DEF Ahead
<1>. QED  BY <1>2, <1>9, GoingOn

(* A thread that takes a trajectory in hand holds no other. *)
LEMMA TakingUp ==
  ASSUME IInv, [Next]_vars, NEW w \in Threads, NEW t \in Trajectories, TakeUp(w, t, "start"),
         pc[w] \in Passing, pc[w] = "resume" => t \in resumed[w],
         UNCHANGED <<turn, base, todo, resumed, signals, drafts>>
  PROVE  Moves(w)
<1>1. TypeOK /\ Local(w)
  BY DEF IInv
<1>2. Cells(w, "start", t, turn[w], base[w], todo[w], resumed[w], signals[w], drafts[w])
  BY <1>1 DEF TypeOK, TakeUp, Goto, Cells
<1>3. Sized("start", turn[w], base[w], drafts[w], announced[t], minted[t])
  <2>1. drafts[w] = 0 /\ {turn[w], base[w]} \subseteq 0 .. MaxAnnounced /\ drafts[w] \in 0 .. CorrectiveRetries + 1
    BY <1>1 DEF Local, Fine, Sized, Passing, Running, Planning, Executing
  <2>. QED  BY <2>1 DEF Sized, Running, Planning, Executing, InFlight, Dangles, Reconciling
<1>4. Shaped("start", t, todo[w], resumed[w], signals[w])
  <2>1. Shaped(pc[w], hand[w], todo[w], resumed[w], signals[w])
    BY <1>1 DEF Local, Fine
  <2>. QED  BY <2>1, OwnersAssumption DEF Shaped, Phases, Passing, Recovering, Running, Planning, Executing
<1>5. Fine("start", t, turn[w], base[w], todo[w], resumed[w], signals[w], drafts[w], announced'[t], minted'[t])
  BY <1>3, <1>4, FineStays DEF Fine
<1>. QED  BY <1>2, <1>5 DEF Moves

LEMMA RecoveryMoves ==
  ASSUME IInv, [Next]_vars, NEW w \in Threads, Recover(w)
  PROVE  Moves(w)
<1>1. TypeOK /\ Local(w) /\ Sized(pc[w], turn[w], base[w], drafts[w], announced[hand[w]], minted[hand[w]])
      /\ Shaped(pc[w], hand[w], todo[w], resumed[w], signals[w])
  BY DEF IInv, Local, Fine
<1>2. ASSUME pc[w] \in Recovering \ {"recover"} PROVE hand[w] \in Trajectories
  BY <1>1, <1>2, HandTaken
<1>3. CASE Reap(w)
  <2>. DEFINE td == {<<t, status[t]>> : t \in {u \in Trajectories :
             /\ status[u] \in LeaseHolding
             /\ IF w = Recovery THEN owner[u] \notin Threads \/ expired[u]
                                ELSE expired[u]}}
  <2>1. Cells(w, "recover", hand[w], turn[w], base[w], td, resumed[w], signals[w], drafts[w])
    BY <1>1, <1>3 DEF TypeOK, Reap, Goto, Cells
  <2>2. td \in SUBSET (Trajectories \X LeaseHolding) /\ pc[w] = "reap"
    BY <1>3 DEF Reap
  <2>. HIDE DEF td
  <2>3. Shaped("recover", hand[w], td, resumed[w], signals[w])
    BY <1>1, <2>2 DEF Shaped, Phases, Passing, Recovering, Running, Planning, Executing
  <2>4. Sized("recover", turn[w], base[w], drafts[w], announced[hand[w]], minted[hand[w]])
    BY <1>1, <2>2 DEF Sized, Running, Planning, Executing, InFlight, Dangles, Reconciling
  <2>5. Fine("recover", hand[w], turn[w], base[w], td, resumed[w], signals[w], drafts[w], announced'[hand[w]], minted'[hand[w]])
    BY <2>3, <2>4, FineStays DEF Fine
  <2>. QED  BY <2>1, <2>5 DEF Moves
<1>4. CASE NotYetDue(w) \/ RecoveryListDone(w)
  <2>1. \E p : Ahead(w, p)
    BY <1>4 DEF NotYetDue, RecoveryListDone, Ahead
  <2>. QED  BY <2>1, GoingAhead
<1>5. CASE Redraft(w) \/ ReadEvents(w)
  <2>. DEFINE Passed(t, s) ==
         /\ <<t, s>> \in todo[w] /\ todo' = [todo EXCEPT ![w] = @ \ {<<t, s>>}]
         /\ UNCHANGED <<pc, hand, turn, base, resumed, signals, drafts>>
       Opened(t, p, n) ==
         /\ p \in {"redrafted", "inspect"} /\ \E s : <<t, s>> \in todo[w]
         /\ n \in {turn[w], announced[t]} /\ (p = "inspect" => n = announced[t])
         /\ Cells(w, p, t, n, base[w], todo[w], resumed[w], signals[w], drafts[w])
  <2>0. pc[w] = "recover"
    BY <1>5 DEF Redraft, ReadEvents
  <2>1. \E t \in Trajectories : (\E s : Passed(t, s)) \/ (\E p, n : Opened(t, p, n))
    <3>1. CASE Redraft(w)
      <4>1. PICK t \in Trajectories : /\ <<t, "planning">> \in todo[w]
                                      /\ \/ TakeUp(w, t, "redrafted") /\ UNCHANGED todo
                                         \/ /\ todo' = [todo EXCEPT ![w] = @ \ {<<t, "planning">>}]
                                            /\ UNCHANGED <<pc, hand>>
        BY <3>1 DEF Redraft
      <4>2. UNCHANGED <<turn, base, resumed, signals, drafts>>
        BY <3>1 DEF Redraft
      <4>3. ASSUME TakeUp(w, t, "redrafted"), UNCHANGED todo PROVE Opened(t, "redrafted", turn[w])
        BY <1>1, <4>1, <4>2, <4>3 DEF TypeOK, TakeUp, Goto, Cells
      <4>4. ASSUME todo' = [todo EXCEPT ![w] = @ \ {<<t, "planning">>}], UNCHANGED <<pc, hand>>
            PROVE  Passed(t, "planning")
        BY <4>1, <4>2, <4>4
      <4>. HIDE DEF Passed, Opened
      <4>. QED  BY <4>1, <4>3, <4>4
    <3>2. CASE ReadEvents(w)
      <4>1. PICK t \in Trajectories : /\ <<t, "executing">> \in todo[w]
                                      /\ \/ /\ TakeUp(w, t, "inspect") /\ UNCHANGED todo
                                            /\ turn' = [turn EXCEPT ![w] = announced[t]]
                                         \/ /\ todo' = [todo EXCEPT ![w] = @ \ {<<t, "executing">>}]
                                            /\ UNCHANGED <<pc, hand, turn>>
        BY <3>2 DEF ReadEvents
      <4>2. UNCHANGED <<base, resumed, signals, drafts>>
        BY <3>2 DEF ReadEvents
      <4>3. ASSUME TakeUp(w, t, "inspect"), UNCHANGED todo, turn' = [turn EXCEPT ![w] = announced[t]]
            PROVE  Opened(t, "inspect", announced[t])
        BY <1>1, <4>1, <4>2, <4>3 DEF TypeOK, TakeUp, Goto, Cells
      <4>4. ASSUME todo' = [todo EXCEPT ![w] = @ \ {<<t, "executing">>}], UNCHANGED <<pc, hand, turn>>
            PROVE  Passed(t, "executing")
        BY <4>1, <4>2, <4>4
      <4>. HIDE DEF Passed, Opened
      <4>. QED  BY <4>1, <4>3, <4>4
    <3>. QED  BY <1>5, <3>1, <3>2
  <2>2. ASSUME NEW t \in Trajectories, NEW s, Passed(t, s) PROVE Moves(w)
    <3>. DEFINE td == todo[w] \ {<<t, s>>}
    <3>1. Cells(w, "recover", hand[w], turn[w], base[w], td, resumed[w], signals[w], drafts[w])
      BY <1>1, <2>0, <2>2 DEF TypeOK, Cells
    <3>2. Shaped("recover", hand[w], td, resumed[w], signals[w])
      BY <1>1, <2>0 DEF Shaped, Recovering, Running, Planning, Executing
    <3>3. Fine("recover", hand[w], turn[w], base[w], td, resumed[w], signals[w], drafts[w], announced'[hand[w]], minted'[hand[w]])
      BY <1>1, <2>0, <3>2, FineStays DEF Fine
    <3>. QED  BY <3>1, <3>3 DEF Moves
  <2>3. ASSUME NEW t \in Trajectories, NEW p, NEW n, Opened(t, p, n) PROVE Moves(w)
    <3>1. Shaped(p, t, todo[w], resumed[w], signals[w])
      <4>1. \E e \in todo[w] : e[1] = t
        BY <2>3
      <4>. QED  BY <1>1, <2>0, <2>3, <4>1, OwnersAssumption DEF Shaped, Phases, Passing, Recovering, Running, Planning, Executing
    <3>2. Sized(p, n, base[w], drafts[w], announced[t], minted[t])
      <4>1. announced[t] \in 0 .. MaxAnnounced /\ announced[t] \in 0 .. announced[t]
        BY <1>1, BoundsAssumption DEF TypeOK
      <4>2. p \notin Running /\ p \notin InFlight \cup Dangles /\ p # "start" /\ p # "drafting" /\ pc[w] \notin Running
        BY <2>0, <2>3 DEF Running, Planning, Executing, InFlight, Dangles
      <4>3. n \in 0 .. MaxAnnounced
        BY <1>1, <2>3, <4>1 DEF Sized
      <4>4. p \in Reconciling => n \in 0 .. announced[t]
        BY <2>3, <4>1 DEF Reconciling, Dangles
      <4>. QED  BY <1>1, <4>2, <4>3, <4>4 DEF Sized
    <3>3. Fine(p, t, n, base[w], todo[w], resumed[w], signals[w], drafts[w], announced'[t], minted'[t])
      BY <3>1, <3>2, FineStays DEF Fine
    <3>. QED  BY <2>3, <3>3 DEF Moves
  <2>. HIDE DEF Passed, Opened
  <2>. QED  BY <2>1, <2>2, <2>3
<1>6. CASE RecordRedraft(w)
  <2>1. Settles(w, TRUE) \/ Perishes(w)
    BY <1>1, <1>6, Shapes DEF RecordRedraft
  <2>2. hand[w] \in Trajectories
    BY <1>2, <1>6 DEF RecordRedraft, Recovering
  <2>. QED  BY <2>1, <2>2, Settling, Perishing
<1>7. CASE \/ Inspect(w) \/ FindJob(w) \/ TakeOver(w) \/ CancelFoundJob(w) \/ HaltRecovered(w)
  <2>1. pc[w] \in Reconciling /\ hand[w] \in Trajectories
    BY <1>2, <1>7 DEF Inspect, FindJob, TakeOver, CancelFoundJob, HaltRecovered, Recovering, Reconciling, Dangles
  <2>2. ASSUME pc[w] \in Dangles PROVE turn[w] # 0
    BY <1>1, <2>2 DEF Sized
  <2>3. (\E p : Ahead(w, p)) \/ (\E held \in BOOLEAN : Reconciled(w, held))
    <3>1. CASE Inspect(w)
      <4>1. CASE Reconciled(w, FALSE)
        BY <4>1
      <4>2. ASSUME Goto(w, IF Dangling(w) THEN "find" ELSE "take_resume"),
                   UNCHANGED <<hand, turn, base, todo, resumed, signals, drafts>>
            PROVE  Ahead(w, IF Dangling(w) THEN "find" ELSE "take_resume")
        BY <2>1, <4>2 DEF Ahead, Dangling, Reconciling, Dangles
      <4>. QED  BY <3>1, <4>1, <4>2 DEF Inspect
    <3>2. CASE FindJob(w)
      BY <2>1, <2>2, <3>2 DEF FindJob, Ahead, Verdict, Reconciling, Dangles
    <3>3. CASE TakeOver(w)
      BY <2>1, <2>2, <3>3 DEF TakeOver, Ahead, Reconciling, Dangles
    <3>4. CASE CancelFoundJob(w)
      BY <2>1, <2>2, <3>4 DEF CancelFoundJob, Ahead, Reconciling, Dangles
    <3>5. CASE HaltRecovered(w)
      BY <3>5 DEF HaltRecovered
    <3>. QED  BY <1>7, <3>1, <3>2, <3>3, <3>4, <3>5
  <2>. QED  BY <1>1, <2>1, <2>3, GoingAhead, Shapes, Settling
<1>8. CASE LoadFinished(w)
  <2>0. hand[w] \in Trajectories /\ pc[w] = "load"
    BY <1>2, <1>8 DEF LoadFinished, Recovering
  <2>1. CASE Reconciled(w, FALSE)
    BY <1>1, <2>0, <2>1, Shapes, Settling
  <2>2. ASSUME NEW p \in {"answered", "take_halt"}, Goto(w, p), base' = [base EXCEPT ![w] = Len(turns[hand[w]])],
               UNCHANGED <<hand, turn, todo, resumed, signals, drafts>>
        PROVE  Moves(w)
    <3>. DEFINE b == Len(turns[hand[w]])
    <3>1. Cells(w, p, hand[w], turn[w], b, todo[w], resumed[w], signals[w], drafts[w])
      BY <1>1, <2>2 DEF TypeOK, Goto, Cells
    <3>2. Shaped(p, hand[w], todo[w], resumed[w], signals[w])
      BY <1>1, <2>0 DEF Shaped, Phases, Passing, Recovering, Running, Planning, Executing
    <3>3. b \in 0 .. MaxAnnounced
      <4>1. PICK t \in Trajectories : t = hand[w]
        BY <2>0
      <4>2. turns[t] \in Seq(1 .. announced[t]) /\ Len(turns[t]) <= announced[t] /\ announced[t] \in 0 .. MaxAnnounced
        BY DEF IInv, TypeOK, Numbered
      <4>3. Len(turns[t]) \in Nat
        BY <4>2
      <4>. QED  BY <4>1, <4>2, <4>3, BoundsAssumption
    <3>4. turn[w] \in 1 .. announced[hand[w]] /\ turn[w] \in 0 .. announced[hand[w]]
      BY <1>1, <2>0 DEF Sized, Dangles, Reconciling
    <3>. HIDE DEF b
    <3>5. Sized(p, turn[w], b, drafts[w], announced[hand[w]], minted[hand[w]])
      <4>1. drafts[w] = 0 /\ p # "start" /\ p # "drafting"
        BY <1>1, <2>0 DEF Sized, Running, Planning, Executing
      <4>. QED  BY <1>1, <3>3, <3>4, <4>1 DEF Sized
    <3>6. Fine(p, hand[w], turn[w], b, todo[w], resumed[w], signals[w], drafts[w], announced'[hand[w]], minted'[hand[w]])
      BY <3>2, <3>5, FineStays DEF Fine
    <3>. QED  BY <3>1, <3>6 DEF Moves
  <2>. QED  BY <1>8, <2>1, <2>2 DEF LoadFinished
<1>. QED  BY <1>3, <1>4, <1>5, <1>6, <1>7, <1>8 DEF Recover

LEMMA PassMoves ==
  ASSUME IInv, [Next]_vars, NEW w \in Threads, Pass(w), ~ResumedAll(w)
  PROVE  Moves(w)
<1>1. TypeOK
  BY DEF IInv
<1>2. CASE ApprovalsDone(w) \/ NothingReleased(w) \/ NothingQueued(w)
  <2>1. \E p : Ahead(w, p)
    BY <1>2 DEF ApprovalsDone, NothingReleased, NothingQueued, Ahead
  <2>. QED  BY <2>1, GoingAhead
<1>3. CASE ResumeNext(w)
  <2>1. PICK t \in resumed[w] : TakeUp(w, t, "start")
    BY <1>3 DEF ResumeNext
  <2>2. t \in Trajectories
    BY <1>1, <2>1 DEF TypeOK
  <2>. QED  BY <1>3, <2>1, <2>2, TakingUp DEF ResumeNext, Passing
<1>4. ASSUME NEW t \in Trajectories, ClaimReleased(w, t) PROVE Moves(w)
  BY <1>4, TakingUp DEF ClaimReleased, Passing
<1>5. ASSUME NEW t \in Trajectories, Claim(w, t) PROVE Moves(w)
  <2>1. CASE TakeUp(w, t, "start")
    BY <1>5, <2>1, TakingUp DEF Claim, Passing
  <2>2. CASE Goto(w, "reap") /\ UNCHANGED hand
    <3>1. Ahead(w, "reap")
      BY <1>5, <2>2 DEF Claim, Ahead
    <3>. QED  BY <3>1, GoingAhead
  <2>. QED  BY <1>5, <2>1, <2>2 DEF Claim
<1>6. ASSUME NEW t \in Trajectories, ExpireApproval(w, t) PROVE Moves(w)
  <2>1. Ahead(w, "approvals")
    BY <1>1, <1>6 DEF ExpireApproval, memory, Ahead, Goto, TypeOK
  <2>. QED  BY <2>1, GoingAhead
<1>. QED  BY <1>2, <1>3, <1>4, <1>5, <1>6 DEF Pass

(* No thread waits for its recovery list to end while it drafts or asks. *)
LEMMA NothingListed ==
  ASSUME IInv, NEW w \in Threads, pc[w] \in Running \ {"answered"}
  PROVE  todo[w] = {} /\ hand[w] \in Trajectories
BY HandTaken DEF IInv, Local, Fine, Shaped, Recovering, Running, Planning, Executing

LEMMA LeavingRun ==
  ASSUME IInv, NEW w \in Threads, pc[w] \in Running \ {"answered"}, Leave(w)
  PROVE  Moves(w)
<1>1. TypeOK
  BY DEF IInv
<1>2. todo[w] = {}
  BY NothingListed
<1>. QED  BY <1>1, <1>2, Shapes, Quitting

LEMMA PlanMoves ==
  ASSUME IInv, [Next]_vars, NEW w \in Threads, Plan(w)
  PROVE  Moves(w)
<1>1. /\ TypeOK /\ RowSound /\ Local(w)
      /\ Sized(pc[w], turn[w], base[w], drafts[w], announced[hand[w]], minted[hand[w]])
      /\ Shaped(pc[w], hand[w], todo[w], resumed[w], signals[w])
  BY DEF IInv, Local, Fine
<1>2. pc[w] \in {"start"} \cup Planning
  BY DEF Plan, Start, FailToStart, StopDrafting, Draft, RecordAttempt, FailPlanning, Approve, Planning
<1>3. pc[w] \in Running \ {"answered"}
  BY <1>2 DEF Planning, Running
<1>4. PICK t \in Trajectories : t = hand[w]
  BY <1>3, NothingListed
<1>5. CASE Leave(w)
  BY <1>3, <1>5, LeavingRun
<1>6. CASE Start(w)
  <2>1. ASSUME owner[t] = w, status[t] = "planning" PROVE drafts[w] <= CorrectiveRetries
    <3>1. ~minted[t]
      BY <1>1, <2>1 DEF RowSound
    <3>2. drafts[w] = 0
      BY <1>4, <1>1, <1>6, <3>1 DEF Sized, Start
    <3>. QED  BY <3>2, BoundsAssumption
  <2>2. Leave(w) \/ \E p : Ahead(w, p)
    <3>1. CASE owner[t] = w /\ status[t] = "planning"
      <4>1. Ahead(w, "drafting")
        BY <1>3, <1>4, <1>6, <2>1, <3>1 DEF Start, Ahead, LeaseHolding
      <4>. QED  BY <4>1
    <3>2. CASE owner[t] = w /\ status[t] = "executing"
      <4>1. Ahead(w, "boundary")
        BY <1>3, <1>4, <1>6, <3>2 DEF Start, Ahead, LeaseHolding
      <4>. QED  BY <4>1
    <3>. QED  BY <1>4, <1>6, <3>1, <3>2 DEF Start, LeaseHolding
  <2>. QED  BY <1>5, <2>2, GoingAhead
<1>7. CASE Draft(w)
  <2>1. CASE Goto(w, "refused") /\ UNCHANGED drafts
    <3>1. Ahead(w, "refused")
      BY <1>3, <1>7, <2>1 DEF Draft, Ahead
    <3>. QED  BY <3>1, GoingAhead
  <2>2. CASE Goto(w, "drafted") /\ drafts' = [drafts EXCEPT ![w] = @ + 1]
    <3>1. Cells(w, "drafted", hand[w], turn[w], base[w], todo[w], resumed[w], signals[w], drafts[w] + 1)
      BY <1>1, <1>7, <2>2 DEF TypeOK, Draft, Goto, Cells
    <3>2. Shaped("drafted", hand[w], todo[w], resumed[w], signals[w])
      BY <1>1, <1>7 DEF Draft, Shaped, Phases, Passing, Recovering, Running, Planning, Executing
    <3>3. Sized("drafted", turn[w], base[w], drafts[w] + 1, announced[hand[w]], minted[hand[w]])
      <4>1. drafts[w] + 1 \in 0 .. CorrectiveRetries + 1
        <5>1. drafts[w] \in 0 .. CorrectiveRetries + 1 /\ drafts[w] <= CorrectiveRetries
          BY <1>1, <1>7 DEF Draft, Sized
        <5>. QED  BY <5>1, BoundsAssumption
      <4>2. "drafted" \in Running /\ "drafted" \notin InFlight \cup Dangles \cup Reconciling
        BY DEF Running, Planning, InFlight, Dangles, Reconciling
      <4>. QED  BY <1>1, <4>1, <4>2 DEF Sized
    <3>4. Fine("drafted", hand[w], turn[w], base[w], todo[w], resumed[w], signals[w], drafts[w] + 1,
               announced'[hand[w]], minted'[hand[w]])
      BY <3>2, <3>3, FineStays DEF Fine
    <3>. QED  BY <3>1, <3>4 DEF Moves
  <2>. QED  BY <1>7, <2>1, <2>2 DEF Draft
<1>8. CASE RecordAttempt(w)
  <2>1. \E p : Ahead(w, p)
    <3>1. PICK valid \in BOOLEAN :
            Goto(w, IF valid THEN "approving"
                    ELSE IF drafts[w] <= CorrectiveRetries THEN "drafting" ELSE "refused")
      BY <1>8 DEF RecordAttempt
    <3>2. ASSUME NEW p \in {"approving", "refused", "drafting"}, Goto(w, p), p = "drafting" => drafts[w] <= CorrectiveRetries
          PROVE  Ahead(w, p)
      BY <1>3, <1>8, <3>2 DEF RecordAttempt, Ahead
    <3>. QED  BY <3>1, <3>2
  <2>. QED  BY <2>1, GoingAhead
<1>9. CASE Approve(w) /\ ~Leave(w)
  <2>1. minted' = [minted EXCEPT ![t] = TRUE] /\ Goto(w, "start")
        /\ UNCHANGED <<hand, turn, base, todo, resumed, signals, drafts>>
    BY <1>4, <1>9 DEF Approve
  <2>2. Onward(w, "start")
    BY <1>1, <2>1, Shapes
  <2>3. minted'[t] = TRUE
    BY <1>1, <2>1 DEF TypeOK
  <2>4. Sized("start", turn[w], base[w], drafts[w], announced'[hand[w]], minted'[hand[w]])
    <3>1. "start" \in Running /\ "start" \notin InFlight \cup Dangles \cup Reconciling
      BY DEF Running, InFlight, Dangles, Reconciling
    <3>2. {turn[w], base[w]} \subseteq 0 .. MaxAnnounced /\ drafts[w] \in 0 .. CorrectiveRetries + 1
      BY <1>1 DEF Sized
    <3>. QED  BY <1>4, <2>3, <3>1, <3>2 DEF Sized
  <2>5. Shaped("start", hand[w], todo[w], resumed[w], signals[w])
    BY <1>1, <1>9 DEF Approve, Shaped, Phases, Passing, Recovering, Running, Planning, Executing
  <2>6. Fine("start", hand[w], turn[w], base[w], todo[w], resumed[w], signals[w], drafts[w],
             announced'[hand[w]], minted'[hand[w]])
    BY <2>4, <2>5 DEF Fine
  <2>. QED  BY <2>2, <2>6 DEF Moves, Onward
<1>. QED  BY <1>5, <1>6, <1>7, <1>8, <1>9 DEF Plan, FailToStart, StopDrafting, FailPlanning

LEMMA TurnMoves ==
  ASSUME IInv, [Next]_vars, NEW w \in Threads, Turn(w)
  PROVE  Moves(w)
<1>1. /\ TypeOK /\ Local(w)
      /\ Sized(pc[w], turn[w], base[w], drafts[w], announced[hand[w]], minted[hand[w]])
      /\ Shaped(pc[w], hand[w], todo[w], resumed[w], signals[w])
  BY DEF IInv, Local, Fine
<1>2. pc[w] \in Running
  BY DEF Turn, StopAtBoundary, CancelAtBoundary, Prepare, HaltBeforeTurn, AskBeforeTurn, Announce, Post, Refuse,
     Answer, TimeOut, LoseCall, FailUnreachable, NextTier, RetryTurn, HaltUnanswered, RecordAndContinue,
     RecordAndCommitStep, RecordAndEnd, RecordAndAsk, Collapse, LoseLease, Running, Planning, Executing
<1>3. PICK t \in Trajectories : t = hand[w]
  BY <1>1, <1>2, HandTaken
<1>4. CASE Leave(w) /\ pc[w] # "answered"
  BY <1>2, <1>4, LeavingRun
<1>5. ASSUME NEW again \in BOOLEAN, AfterTurn(w, again) PROVE Moves(w)
  BY <1>2, <1>5, TurnEnds
<1>6. CASE Dies(w)
  BY <1>1, <1>6, Shapes, Perishing
<1>7. CASE Post(w) \/ Refuse(w) \/ Answer(w) \/ TimeOut(w) \/ LoseCall(w) \/ NextTier(w)
  <2>1. \E p : Ahead(w, p)
    <3>1. CASE Post(w) \/ Refuse(w)
      BY <3>1 DEF Post, Refuse, Ahead, InFlight, Running, Executing
    <3>2. CASE Answer(w)
      BY <3>2 DEF Answer, Ahead, InFlight, Running, Executing
    <3>3. CASE TimeOut(w)
      BY <3>3 DEF TimeOut, Ahead, InFlight, Running, Executing
    <3>4. CASE LoseCall(w)
      BY <3>4 DEF LoseCall, Ahead, InFlight, Running, Executing
    <3>5. CASE NextTier(w)
      BY <3>5 DEF NextTier, Ahead, InFlight, Running, Executing
    <3>. QED  BY <1>7, <3>1, <3>2, <3>3, <3>4, <3>5
  <2>. QED  BY <2>1, GoingAhead
<1>8. CASE Prepare(w)
  <2>. DEFINE b == Len(turns[hand[w]])
  <2>1. Cells(w, "ready", hand[w], turn[w], b, todo[w], resumed[w], signals[w], drafts[w])
    BY <1>1, <1>8 DEF TypeOK, Prepare, Goto, Cells
  <2>2. Shaped("ready", hand[w], todo[w], resumed[w], signals[w])
    BY <1>1, <1>8 DEF Prepare, Shaped, Phases, Passing, Recovering, Running, Planning, Executing
  <2>3. b \in 0 .. MaxAnnounced
    <3>1. turns[t] \in Seq(1 .. announced[t]) /\ Len(turns[t]) <= announced[t] /\ announced[t] \in 0 .. MaxAnnounced
      BY DEF IInv, TypeOK, Numbered
    <3>2. Len(turns[t]) \in Nat
      BY <3>1
    <3>. QED  BY <1>3, <3>1, <3>2, BoundsAssumption
  <2>. HIDE DEF b
  <2>4. Sized("ready", turn[w], b, drafts[w], announced[hand[w]], minted[hand[w]])
    <3>1. "ready" \in Running /\ "ready" \notin InFlight \cup Dangles \cup Reconciling
      BY DEF Running, Executing, InFlight, Dangles, Reconciling
    <3>. QED  BY <1>1, <2>3, <3>1 DEF Sized
  <2>5. Fine("ready", hand[w], turn[w], b, todo[w], resumed[w], signals[w], drafts[w], announced'[hand[w]], minted'[hand[w]])
    BY <2>2, <2>4, FineStays DEF Fine
  <2>. QED  BY <2>1, <2>5 DEF Moves
<1>9. CASE Announce(w)
  <2>. DEFINE n == announced[t] + 1
  <2>1. Cells(w, "posting", hand[w], n, base[w], todo[w], resumed[w], signals[w], drafts[w])
    BY <1>1, <1>3, <1>9 DEF TypeOK, Announce, Goto, Cells
  <2>2. Shaped("posting", hand[w], todo[w], resumed[w], signals[w])
    BY <1>1, <1>9 DEF Announce, Shaped, Phases, Passing, Recovering, Running, Planning, Executing
  <2>3. announced'[t] = n /\ n \in 1 .. n /\ n \in 0 .. MaxAnnounced
    <3>1. announced[t] \in 0 .. MaxAnnounced /\ announced[t] < MaxAnnounced
      BY <1>1, <1>3, <1>9 DEF TypeOK, Announce
    <3>2. announced'[t] = n
      BY <1>1, <1>3, <1>9 DEF TypeOK, Announce
    <3>. QED  BY <3>1, <3>2, BoundsAssumption
  <2>. HIDE DEF n
  <2>4. Sized("posting", n, base[w], drafts[w], announced'[t], minted'[t])
    <3>1. "posting" \in Running /\ "posting" \notin Reconciling
      BY DEF Running, Executing, Dangles, Reconciling
    <3>. QED  BY <1>1, <2>3, <3>1 DEF Sized
  <2>5. Fine("posting", hand[w], n, base[w], todo[w], resumed[w], signals[w], drafts[w], announced'[t], minted'[t])
    BY <2>2, <2>4 DEF Fine
  <2>. QED  BY <1>3, <2>1, <2>5 DEF Moves
<1>10. CASE \/ RetryTurn(w) \/ HaltUnanswered(w) \/ RecordAndContinue(w) \/ RecordAndCommitStep(w)
            \/ RecordAndEnd(w) \/ RecordAndAsk(w) \/ LoseLease(w)
  <2>1. \E again \in BOOLEAN : AfterTurn(w, again)
    BY <1>10 DEF RetryTurn, HaltUnanswered, RecordAndContinue, RecordAndCommitStep, RecordAndEnd, RecordAndAsk, LoseLease
  <2>. QED  BY <1>5, <2>1
<1>11. CASE StopAtBoundary(w) \/ CancelAtBoundary(w) \/ HaltBeforeTurn(w) \/ AskBeforeTurn(w) \/ FailUnreachable(w)
  BY <1>4, <1>11 DEF StopAtBoundary, CancelAtBoundary, HaltBeforeTurn, AskBeforeTurn, FailUnreachable
<1>12. CASE Collapse(w)
  BY <1>6, <1>12 DEF Collapse
<1>. QED  BY <1>7, <1>8, <1>9, <1>10, <1>11, <1>12 DEF Turn

LEMMA KeeperMoves ==
  ASSUME IInv, [Next]_vars, NEW w \in Threads, Keep(w)
  PROVE  Moves(w)
<1>1. TypeOK /\ Local(w) /\ Shaped(pc[w], hand[w], todo[w], resumed[w], signals[w])
  BY DEF IInv, Local, Fine
<1>2. PICK sg \in SUBSET Signals : Cells(w, pc[w], hand[w], turn[w], base[w], todo[w], resumed[w], sg, drafts[w])
  <2>1. PICK more \in SUBSET Signals : signals' = [signals EXCEPT ![w] = @ \cup more]
    BY DEF Keep, Renew, CancelInFlight, Signals
  <2>2. signals[w] \cup more \in SUBSET Signals
    BY <1>1, <2>1 DEF Shaped
  <2>3. Cells(w, pc[w], hand[w], turn[w], base[w], todo[w], resumed[w], signals[w] \cup more, drafts[w])
    BY <1>1, <2>1 DEF TypeOK, Keep, Renew, CancelInFlight, Cells
  <2>. QED  BY <2>2, <2>3
<1>3. Shaped(pc[w], hand[w], todo[w], resumed[w], sg)
  BY <1>1, <1>2 DEF Shaped
<1>4. Fine(pc[w], hand[w], turn[w], base[w], todo[w], resumed[w], sg, drafts[w], announced'[hand[w]], minted'[hand[w]])
  BY <1>1, <1>3, FineStays DEF Local, Fine
<1>. QED  BY <1>2, <1>4 DEF Moves

(* Startup recovery hands over to the pool at once; a crash forgets everything;
   and only a cancel sets the flag. *)
LEMMA ThreadMoves ==
  ASSUME IInv, [Next]_vars, NEW w \in Threads, Step(w) \/ Keep(w), ~ResumedAll(w)
  PROVE  Moves(w)
BY RecoveryMoves, PassMoves, PlanMoves, TurnMoves, KeeperMoves DEF Step

(* The pool stays what it is, the flag goes up and stays, crashes are counted. *)
LEMMA OutsideKept ==
  ASSUME TypeOK, [Next]_vars
  PROVE  /\ pool' = pool /\ crashes' \in 0 .. MaxCrashes
         /\ cancelRequested' \in [Trajectories -> BOOLEAN]
<1>. DEFINE Goal == /\ pool' = pool /\ crashes' \in 0 .. MaxCrashes
                    /\ cancelRequested' \in [Trajectories -> BOOLEAN]
<1>0. crashes \in 0 .. MaxCrashes /\ cancelRequested \in [Trajectories -> BOOLEAN] /\ MaxCrashes \in Nat
  BY BoundsAssumption DEF TypeOK
<1>1. ASSUME UNCHANGED <<pool, crashes, cancelRequested>> PROVE Goal
  BY <1>0, <1>1
<1>2. ASSUME NEW t \in Trajectories, Request(t) \/ LeaseExpires(t) PROVE Goal
  <2>1. CASE Cancel(t)
    BY <1>0, <2>1 DEF Cancel, outside
  <2>. QED  BY <1>1, <1>2, <2>1 DEF Request, Submit, Grant, Deny, End, LeaseExpires, outside
<1>3. ASSUME NEW w \in Threads, Keep(w) \/ Step(w) PROVE UNCHANGED <<pool, crashes, cancelRequested>>
  <2>1. CASE Keep(w)
    BY <2>1 DEF Keep, Renew, CancelInFlight, row, outside
  <2>2. CASE Recover(w)
    BY <2>2 DEF Recover, Reap, NotYetDue, RecoveryListDone, Redraft, RecordRedraft, ReadEvents, Inspect,
       FindJob, TakeOver, CancelFoundJob, HaltRecovered, LoadFinished, row, TakeLease, End, outside
  <2>3. CASE Pass(w)
    BY <2>3 DEF Pass, ResumeNext, ResumedAll, ApprovalsDone, NothingReleased, NothingQueued, ExpireApproval,
       ClaimReleased, Claim, row, TakeLease, End, outside
  <2>4. CASE Plan(w)
    BY <2>4 DEF Plan, Start, FailToStart, StopDrafting, Draft, RecordAttempt, FailPlanning, Approve, row, End, Hold, outside
  <2>5. CASE Turn(w)
    BY <2>5 DEF Turn, StopAtBoundary, CancelAtBoundary, Prepare, HaltBeforeTurn, AskBeforeTurn, Announce, Post,
       Refuse, Answer, TimeOut, LoseCall, FailUnreachable, NextTier, RetryTurn, HaltUnanswered,
       RecordAndContinue, RecordAndCommitStep, RecordAndEnd, RecordAndAsk, Collapse, LoseLease, row, End, Hold, outside
  <2>. QED  BY <1>3, <2>1, <2>2, <2>3, <2>4, <2>5 DEF Step
<1>4. CASE Crash
  <2>1. crashes + 1 \in 0 .. MaxCrashes
    BY <1>0, <1>4 DEF Crash
  <2>. QED  BY <1>0, <1>4, <2>1 DEF Crash
<1>5. CASE UNCHANGED vars \/ \E t \in Trajectories, i \in 1 .. MaxAnnounced : JobEnds(t, i)
  BY <1>1, <1>5 DEF JobEnds, vars, row, outside
<1>. QED  BY <1>1, <1>2, <1>3, <1>4, <1>5 DEF Next

(* A thread that is off, or lost, takes no step. *)
LEMMA StepsAreAwake ==
  ASSUME NEW w \in Threads, Step(w) \/ Keep(w)
  PROVE  pc[w] \notin {"off", "dead"}
<1>1. CASE Keep(w)
  BY <1>1 DEF Keep, Renew, CancelInFlight, Kept, Running, Planning, Executing
<1>2. CASE Recover(w)
  BY <1>2 DEF Recover, Reap, NotYetDue, RecoveryListDone, Redraft, RecordRedraft, ReadEvents, Inspect,
     FindJob, TakeOver, CancelFoundJob, HaltRecovered, LoadFinished
<1>3. CASE Pass(w)
  BY <1>3 DEF Pass, ResumeNext, ResumedAll, ApprovalsDone, NothingReleased, NothingQueued, ExpireApproval,
     ClaimReleased, Claim
<1>4. CASE Plan(w)
  BY <1>4 DEF Plan, Start, FailToStart, StopDrafting, Draft, RecordAttempt, FailPlanning, Approve
<1>5. CASE Turn(w)
  BY <1>5 DEF Turn, StopAtBoundary, CancelAtBoundary, Prepare, HaltBeforeTurn, AskBeforeTurn, Announce, Post, Refuse,
     Answer, TimeOut, LoseCall, FailUnreachable, NextTier, RetryTurn, HaltUnanswered, RecordAndContinue,
     RecordAndCommitStep, RecordAndEnd, RecordAndAsk, Collapse, LoseLease
<1>. QED  BY <1>1, <1>2, <1>3, <1>4, <1>5 DEF Step

(* Whose memory a step changes. *)
Forgets ==
    /\ pc' = [w \in Threads |-> IF w = Recovery THEN "reap" ELSE "off"]
    /\ hand' = [w \in Threads |-> NoTrajectory]
    /\ turn' = [w \in Threads |-> 0] /\ base' = [w \in Threads |-> 0]
    /\ todo' = [w \in Threads |-> {}] /\ resumed' = [w \in Threads |-> {}]
    /\ signals' = [w \in Threads |-> {}] /\ drafts' = [w \in Threads |-> 0]

LEMMA MemorySteps ==
  ASSUME IInv, [Next]_vars
  PROVE  \/ UNCHANGED memory
         \/ \E w \in Threads : (Step(w) \/ Keep(w)) /\ Moves(w)
         \/ \E w \in Threads : ResumedAll(w)
         \/ Forgets
<1>1. ASSUME NEW t \in Trajectories, Request(t) \/ LeaseExpires(t) PROVE UNCHANGED memory
  BY <1>1 DEF Request, Submit, Cancel, Grant, Deny, LeaseExpires
<1>2. CASE UNCHANGED vars \/ \E t \in Trajectories, i \in 1 .. MaxAnnounced : JobEnds(t, i)
  BY <1>2 DEF JobEnds, vars
<1>3. CASE Crash
  BY <1>3 DEF Crash, Forgets
<1>. QED  BY <1>1, <1>2, <1>3, ThreadMoves DEF Next

LEMMA MemoryKept ==
  ASSUME IInv, [Next]_vars
  PROVE  /\ \A v \in Threads : Local(v)'
         /\ Shift' /\ \A w \in Workers \ pool : pc'[w] = "off"
         /\ <<pc', hand', turn', base', todo', resumed', signals', drafts'>>
              \in [Threads -> Phases] \X [Threads -> Trajectories \cup {NoTrajectory}]
                  \X [Threads -> 0 .. MaxAnnounced] \X [Threads -> 0 .. MaxAnnounced]
                  \X [Threads -> SUBSET (Trajectories \X LeaseHolding)] \X [Threads -> SUBSET Trajectories]
                  \X [Threads -> SUBSET Signals] \X [Threads -> 0 .. CorrectiveRetries + 1]
<1>. DEFINE Typed == <<pc', hand', turn', base', todo', resumed', signals', drafts'>>
              \in [Threads -> Phases] \X [Threads -> Trajectories \cup {NoTrajectory}]
                  \X [Threads -> 0 .. MaxAnnounced] \X [Threads -> 0 .. MaxAnnounced]
                  \X [Threads -> SUBSET (Trajectories \X LeaseHolding)] \X [Threads -> SUBSET Trajectories]
                  \X [Threads -> SUBSET Signals] \X [Threads -> 0 .. CorrectiveRetries + 1]
            Goal == /\ \A v \in Threads : Local(v)'
                    /\ Shift' /\ \A w \in Workers \ pool : pc'[w] = "off"
                    /\ Typed
            Still(v) == /\ pc'[v] = pc[v] /\ hand'[v] = hand[v] /\ turn'[v] = turn[v] /\ base'[v] = base[v]
                        /\ todo'[v] = todo[v] /\ resumed'[v] = resumed[v] /\ signals'[v] = signals[v]
                        /\ drafts'[v] = drafts[v]
<1>0. TypeOK /\ Shift /\ (\A v \in Threads : Local(v)) /\ Recovery \in Threads /\ Recovery \notin Workers
      /\ (\A w \in Workers : w \in Threads)
  BY OwnersAssumption DEF IInv, Threads
<1>1. ASSUME NEW v \in Threads, Still(v) PROVE Local(v)'
  <2>1. Fine(pc[v], hand[v], turn[v], base[v], todo[v], resumed[v], signals[v], drafts[v],
             announced'[hand[v]], minted'[hand[v]])
    BY <1>0, FineStays DEF Local
  <2>. QED  BY <1>1, <2>1 DEF Local
<1>2. ASSUME UNCHANGED memory PROVE Goal
  <2>1. \A v \in Threads : Still(v)
    BY <1>2 DEF memory
  <2>2. Typed /\ Shift' /\ \A w \in Workers \ pool : pc'[w] = "off"
    BY <1>0, <1>2 DEF memory, TypeOK, Shift
  <2>. QED  BY <1>1, <2>1, <2>2
<1>3. ASSUME NEW w \in Threads, Step(w) \/ Keep(w), Moves(w) PROVE Goal
  <2>1. PICK p, h, n, b, td, rs, sg, dr : /\ Cells(w, p, h, n, b, td, rs, sg, dr)
                                          /\ Fine(p, h, n, b, td, rs, sg, dr, announced'[h], minted'[h])
    BY <1>3 DEF Moves
  <2>2. \A v \in Threads \ {w} : Still(v)
    BY <1>0, <2>1 DEF Cells, TypeOK
  <2>3. /\ pc'[w] = p /\ hand'[w] = h /\ turn'[w] = n /\ base'[w] = b /\ todo'[w] = td /\ resumed'[w] = rs
        /\ signals'[w] = sg /\ drafts'[w] = dr
    BY <1>0, <2>1 DEF Cells, TypeOK
  <2>4. Local(w)'
    BY <2>1, <2>3 DEF Local
  <2>5. /\ p \in Phases /\ h \in Trajectories \cup {NoTrajectory} /\ n \in 0 .. MaxAnnounced /\ b \in 0 .. MaxAnnounced
        /\ td \in SUBSET (Trajectories \X LeaseHolding) /\ rs \in SUBSET Trajectories /\ sg \in SUBSET Signals
        /\ dr \in 0 .. CorrectiveRetries + 1
    BY <2>1 DEF Fine, Sized, Shaped
  <2>6. Typed
    BY <1>0, <2>1, <2>5 DEF Cells, TypeOK
  <2>7. pc[w] # "off"
    BY <1>3, StepsAreAwake
  <2>8. Shift'
    <3>1. CASE w = Recovery
      BY <1>0, <2>2, <2>7, <3>1 DEF Shift
    <3>2. CASE w # Recovery
      <4>1. w \in Workers
        BY <3>2 DEF Threads
      <4>. QED  BY <1>0, <2>2, <2>7, <3>2, <4>1 DEF Shift
    <3>. QED  BY <3>1, <3>2
  <2>9. \A v \in Workers \ pool : pc'[v] = "off"
    BY <1>0, <2>2, <2>7 DEF TypeOK
  <2>. QED  BY <1>1, <2>2, <2>4, <2>6, <2>8, <2>9
<1>4. ASSUME NEW w \in Threads, ResumedAll(w) PROVE Goal
  <2>. DEFINE q(v) == IF w = Recovery THEN IF v \in pool THEN "reap" ELSE "off"
                      ELSE IF v = w THEN "approvals" ELSE pc[v]
  <2>1. /\ pc' = [v \in Threads |-> q(v)] /\ pc[w] = "resume" /\ resumed[w] = {}
        /\ UNCHANGED <<hand, turn, base, todo, resumed, signals, drafts>>
    BY <1>4 DEF ResumedAll
  <2>2. ASSUME NEW v \in Threads PROVE pc'[v] = pc[v] \/ (pc[v] \in {"off", "resume"} /\ resumed[v] = {} /\ pc'[v] \in {"reap", "approvals", "off"})
    <3>1. CASE w = Recovery
      <4>1. pc[v] \in {"off", "resume"} /\ resumed[v] = {}
        <5>1. CASE v = Recovery
          BY <2>1, <3>1, <5>1
        <5>2. CASE v # Recovery
          <6>1. pc[v] = "off"
            BY <1>0, <2>1, <3>1, <5>2 DEF Shift, Threads
          <6>. QED  BY <1>0, <6>1 DEF Local, Fine, Shaped, Recovering, Running, Planning, Executing
        <5>. QED  BY <5>1, <5>2
      <4>. QED  BY <2>1, <3>1, <4>1
    <3>2. CASE w # Recovery
      BY <2>1, <3>2
    <3>. QED  BY <3>1, <3>2
  <2>3. ASSUME NEW v \in Threads PROVE Local(v)'
    <3>1. CASE pc'[v] = pc[v]
      BY <1>1, <2>1, <3>1
    <3>2. CASE pc[v] \in {"off", "resume"} /\ resumed[v] = {} /\ pc'[v] \in {"reap", "approvals", "off"}
      <4>1. Sized(pc[v], turn[v], base[v], drafts[v], announced[hand[v]], minted[hand[v]])
            /\ Shaped(pc[v], hand[v], todo[v], resumed[v], signals[v])
        BY <1>0 DEF Local, Fine
      <4>2. Sized(pc'[v], turn[v], base[v], drafts[v], announced[hand[v]], minted[hand[v]])
        <5>1. pc[v] \notin Running /\ pc'[v] \notin InFlight \cup Dangles \cup Reconciling \cup {"start", "drafting"}
          BY <3>2 DEF Running, Planning, Executing, InFlight, Dangles, Reconciling
        <5>. QED  BY <4>1, <5>1 DEF Sized
      <4>3. Shaped(pc'[v], hand[v], todo[v], resumed[v], signals[v])
        BY <3>2, <4>1 DEF Shaped, Phases, Passing, Recovering, Running, Planning, Executing
      <4>4. Fine(pc'[v], hand[v], turn[v], base[v], todo[v], resumed[v], signals[v], drafts[v],
                 announced'[hand[v]], minted'[hand[v]])
        BY <4>2, <4>3, FineStays DEF Fine
      <4>. QED  BY <2>1, <4>4 DEF Local
    <3>. QED  BY <2>2, <3>1, <3>2
  <2>4. pc' \in [Threads -> Phases]
    BY <1>0, <2>1 DEF TypeOK, Phases, Passing
  <2>5. Typed
    BY <1>0, <2>1, <2>4 DEF TypeOK
  <2>6. Shift'
    <3>1. CASE w = Recovery
      <4>1. Recovery \notin pool
        BY <1>0 DEF TypeOK
      <4>. QED  BY <1>0, <2>1, <3>1, <4>1 DEF Shift
    <3>2. CASE w # Recovery
      <4>1. w \in Workers
        BY <3>2 DEF Threads
      <4>. QED  BY <1>0, <2>1, <3>2, <4>1 DEF Shift
    <3>. QED  BY <3>1, <3>2
  <2>7. \A v \in Workers \ pool : pc'[v] = "off"
    <3>1. ASSUME NEW v \in Workers \ pool PROVE pc'[v] = "off"
      <4>1. pc[v] = "off" /\ v \in Threads
        BY <1>0 DEF TypeOK
      <4>. QED  BY <2>1, <4>1
    <3>. QED  BY <3>1
  <2>. QED  BY <2>3, <2>5, <2>6, <2>7
<1>5. ASSUME Forgets PROVE Goal
  <2>1. ASSUME NEW v \in Threads PROVE Local(v)'
    <3>1. /\ pc'[v] \in {"reap", "off"} /\ hand'[v] = NoTrajectory /\ turn'[v] = 0 /\ base'[v] = 0
          /\ todo'[v] = {} /\ resumed'[v] = {} /\ signals'[v] = {} /\ drafts'[v] = 0
      BY <1>5 DEF Forgets
    <3>. QED  BY <3>1, BoundsAssumption DEF Local, Fine, Sized, Shaped, Phases, Passing, Recovering, Running, Planning, Executing,
         InFlight, Dangles, Reconciling
  <2>2. Typed
    <3>1. pc' \in [Threads -> Phases]
      BY <1>5 DEF Forgets, Phases, Passing
    <3>. QED  BY <1>5, <3>1, BoundsAssumption DEF Forgets
  <2>3. Shift' /\ \A w \in Workers \ pool : pc'[w] = "off"
    BY <1>0, <1>5 DEF Forgets, Shift
  <2>. QED  BY <2>1, <2>2, <2>3
<1>. HIDE DEF Goal
<1>6. Goal
  BY <1>2, <1>3, <1>4, <1>5, MemorySteps
<1>. QED  BY <1>6 DEF Goal

LEMMA Initially ==
  ASSUME Init
  PROVE  IInv
<1>0. /\ NoOwner # Former /\ NoOwner \notin Threads /\ Recovery \in Threads /\ MaxAnnounced \in Nat
      /\ StepRetries \in Nat /\ CorrectiveRetries \in Nat /\ MaxCrashes \in Nat
  BY OwnersAssumption, BoundsAssumption DEF Threads
<1>1. \A t \in Trajectories : turns[t] = <<>> /\ announced[t] = 0
  BY DEF Init
<1>2. TypeOK
  <2>1. /\ status \in [Trajectories -> States] /\ owner \in [Trajectories -> Threads \cup {NoOwner, Former}]
        /\ {expired, cancelRequested, pending, minted} \subseteq [Trajectories -> BOOLEAN]
        /\ job \in [Trajectories -> [1 .. MaxAnnounced -> JobStates]]
    BY DEF Init, States, JobStates
  <2>2. announced \in [Trajectories -> 0 .. MaxAnnounced] /\ retries \in [Trajectories -> 0 .. StepRetries]
        /\ {turn, base} \subseteq [Threads -> 0 .. MaxAnnounced] /\ drafts \in [Threads -> 0 .. CorrectiveRetries + 1]
        /\ crashes \in 0 .. MaxCrashes
    BY <1>0 DEF Init
  <2>3. \A t \in Trajectories : turns[t] \in Seq(1 .. announced[t])
    <3>1. \A S : <<>> \in Seq(S)
      OBVIOUS
    <3>. QED  BY <1>1, <3>1, Zenon
  <2>4. /\ pc \in [Threads -> Phases] /\ hand \in [Threads -> Trajectories \cup {NoTrajectory}]
        /\ todo \in [Threads -> SUBSET (Trajectories \X LeaseHolding)]
        /\ resumed \in [Threads -> SUBSET Trajectories] /\ signals \in [Threads -> SUBSET Signals]
    BY DEF Init, Phases, Passing
  <2>5. pool \subseteq Workers /\ \A w \in Workers \ pool : pc[w] = "off"
    BY OwnersAssumption DEF Init, Threads
  <2>6. \A w \in Threads : hand[w] = NoTrajectory <=> pc[w] \in {"off", "dead", "recover"} \cup Passing
    BY DEF Init, Passing
  <2>. QED  BY <2>1, <2>2, <2>3, <2>4, <2>5, <2>6 DEF TypeOK
<1>3. RowSound /\ Shift
  BY <1>0, OwnersAssumption DEF Init, RowSound, Shift, LeaseHolding, Threads
<1>4. turns \in [Trajectories -> Seq(Nat)]
  <2>1. <<>> \in Seq(Nat)
    OBVIOUS
  <2>. QED  BY <2>1 DEF Init
<1>5. \A t \in Trajectories : Numbered(t)
  <2>1. ASSUME NEW t \in Trajectories PROVE Numbered(t)
    <3>1. Committed(t) = {} /\ Len(turns[t]) = 0
      BY <1>1 DEF Committed
    <3>2. Cardinality({}) = 0
      BY FS_EmptySet
    <3>. QED  BY <1>1, <3>1, <3>2 DEF Numbered
  <2>. QED  BY <2>1
<1>6. \A w \in Threads : Local(w)
  BY <1>0 DEF Init, Local, Fine, Sized, Shaped, Phases, Passing, Recovering, Running, Planning, Executing,
     InFlight, Dangles, Reconciling
<1>. QED  BY <1>2, <1>3, <1>4, <1>5, <1>6 DEF IInv

LEMMA Preservation ==
  ASSUME IInv, [Next]_vars
  PROVE  IInv'
<1>1. TypeOK /\ RowSound
  BY DEF IInv
<1>2. TypeOK'
  <2>1. /\ status' \in [Trajectories -> States] /\ owner' \in [Trajectories -> Threads \cup {NoOwner, Former}]
        /\ {expired, pending, minted}' \subseteq [Trajectories -> BOOLEAN]
    BY <1>1, RowsKept
  <2>2. /\ pool' = pool /\ crashes' \in 0 .. MaxCrashes /\ cancelRequested' \in [Trajectories -> BOOLEAN]
    BY <1>1, OutsideKept
  <2>3. /\ announced' \in [Trajectories -> 0 .. MaxAnnounced] /\ retries' \in [Trajectories -> 0 .. StepRetries]
        /\ job' \in [Trajectories -> [1 .. MaxAnnounced -> JobStates]]
        /\ \A t \in Trajectories : turns'[t] \in Seq(1 .. announced'[t])
    BY RecordKept
  <2>4. /\ <<pc', hand', turn', base', todo', resumed', signals', drafts'>>
              \in [Threads -> Phases] \X [Threads -> Trajectories \cup {NoTrajectory}]
                  \X [Threads -> 0 .. MaxAnnounced] \X [Threads -> 0 .. MaxAnnounced]
                  \X [Threads -> SUBSET (Trajectories \X LeaseHolding)] \X [Threads -> SUBSET Trajectories]
                  \X [Threads -> SUBSET Signals] \X [Threads -> 0 .. CorrectiveRetries + 1]
        /\ \A w \in Workers \ pool : pc'[w] = "off"
    BY MemoryKept
  <2>5. ASSUME NEW w \in Threads
        PROVE  hand'[w] = NoTrajectory <=> pc'[w] \in {"off", "dead", "recover"} \cup Passing
    <3>1. Local(w)'
      BY MemoryKept
    <3>. QED  BY <3>1 DEF Local, Fine, Shaped
  <2>6. pool \subseteq Workers
    BY <1>1 DEF TypeOK
  <2>. QED  BY <2>1, <2>2, <2>3, <2>4, <2>5, <2>6 DEF TypeOK
<1>3. RowSound'
  BY <1>1, RowsKept
<1>4. turns' \in [Trajectories -> Seq(Nat)] /\ \A t \in Trajectories : Numbered(t)'
  BY RecordKept
<1>5. Shift' /\ \A w \in Threads : Local(w)'
  BY MemoryKept
<1>. QED  BY <1>2, <1>3, <1>4, <1>5 DEF IInv

(* A pool of any size keeps its invariant, whatever stalls, fails or crashes. *)
THEOREM Invariance == Spec => []IInv
<1>1. IInv /\ [Next]_vars => IInv'
  BY Preservation
<1>. QED  BY Initially, <1>1, PTL DEF Spec

(* Every variable of every thread keeps to its type: what a thread remembers fits
   where it is, and the turn rows hold announced turns only. *)
THEOREM TypeCorrect == Spec => []TypeOK
<1>1. IInv => TypeOK
  BY DEF IInv
<1>. QED  BY Invariance, <1>1, PTL

LEMMA InitiallyUnborn ==
  ASSUME Init
  PROVE  Lifecycle!Init
BY DEF Init, Lifecycle!Init

(* Whatever interleaves, and however many threads there are, the rows only ever
   move as domain/trajectory.py allows: every step of the pool is a labelled
   transition of one trajectory or leaves them all. *)
THEOREM PoolImplementsLifecycle == Spec => ImplementsLifecycle
<1>1. IInv /\ [Next]_vars => [Lifecycle!Next]_(Lifecycle!vars)
  BY Simulation DEF IInv
<1>. QED  BY InitiallyUnborn, Invariance, <1>1, PTL DEF Spec, ImplementsLifecycle, Lifecycle!Spec

(* --------------------- one trajectory, one thread ------------------------ *)

(* What the fence takes: one worker thread, or keepers that keep their time, a
   LoadCoach that answers, and process ids that are not used twice. *)
Timely == ~KeepersStall /\ Outages = {} /\ ~PidReused
Disciplined == Cardinality(pool) = 1 \/ Timely

On(w) == pc[w] # "off"
Holding == {"redrafted", "cancel_job", "load"} \cup Running
Held(w, t) == t \in resumed[w] \/ (hand[w] = t /\ pc[w] \in Holding)

(* What a thread holds has its lease and is in the state it thinks; what it listed
   is as it was listed ... *)
Leased(w, p, h, td, rs, st, ow) ==
    /\ \A t \in Trajectories : t \in rs \/ (h = t /\ p \in Holding) => ow[t] = w /\ st[t] \in LeaseHolding
    /\ p \in Planning \cup {"redrafted"} => st[h] = "planning"
    /\ p \in Executing \cup Reconciling => st[h] = "executing"
    /\ \A e \in td : st[e[1]] = e[2]

(* ... and nobody has added to the record it read. *)
Abreast(p, h, n, b, an, tu) ==
    /\ p \in InFlight \cup Reconciling => n = an[h]
    /\ p \in InFlight \cup Dangles => n \notin {tu[h][i] : i \in DOMAIN tu[h]}
    /\ p \in InFlight \cup {"ready"} => b = Len(tu[h])

Snug(w, p, h, n, b, td, rs, sg, st, ow, an, tu) ==
    /\ p # "dead" /\ "lease_lost" \notin sg
    /\ Leased(w, p, h, td, rs, st, ow) /\ Abreast(p, h, n, b, an, tu)

Fit(w) == Snug(w, pc[w], hand[w], turn[w], base[w], todo[w], resumed[w], signals[w],
               status, owner, announced, turns)

(* A pass that lists anything runs alone. *)
RecoversAlone == \A w \in Threads : todo[w] # {} => \A v \in Threads \ {w} : ~On(v)

RecoveryOnly == On(Recovery) => pc[Recovery] \notin {"approvals", "released", "queued"}

(* While keepers keep their time every lease is held by the thread it names, but
   for those a crash left behind, which startup recovery takes. *)
Orphaned(t) == On(Recovery) /\ (pc[Recovery] = "reap" \/ \E e \in todo[Recovery] : e[1] = t)

Tidy ==
    /\ \A w \in Workers : todo[w] = {} /\ resumed[w] = {}
    /\ \A w \in Threads, t \in Trajectories : owner[t] = w => Held(w, t)
    /\ \A t \in Trajectories : owner[t] = Former => Orphaned(t)
    /\ ~On(Recovery) => \A t \in Trajectories : ~expired[t]

Guarded == RecoveryOnly /\ RecoversAlone /\ (\A w \in Threads : Fit(w)) /\ (Timely => Tidy)

(* The trajectories a thread counts on. *)
Mine(w, t) ==
    \/ Held(w, t)
    \/ \E e \in todo[w] : e[1] = t

LEMMA MineIsLeased ==
  ASSUME IInv, NEW w \in Threads, Fit(w), NEW t \in Trajectories, Mine(w, t)
  PROVE  status[t] \in LeaseHolding
<1>1. CASE Held(w, t)
  BY <1>1 DEF Held, Fit, Snug, Leased
<1>2. ASSUME NEW e \in todo[w], e[1] = t PROVE status[t] \in LeaseHolding
  <2>1. e \in Trajectories \X LeaseHolding
    BY <1>2 DEF IInv, TypeOK
  <2>2. status[t] = e[2]
    BY <1>2 DEF Fit, Snug, Leased
  <2>. QED  BY <2>1, <2>2
<1>. QED  BY <1>1, <1>2 DEF Mine

(* What a thread counts on is enough for it to stay as it is. *)
LEMMA FitStays ==
  ASSUME IInv, NEW w \in Threads, Fit(w),
         pc'[w] = pc[w], hand'[w] = hand[w], turn'[w] = turn[w], base'[w] = base[w], todo'[w] = todo[w],
         resumed'[w] = resumed[w], "lease_lost" \notin signals'[w],
         \A t \in Trajectories : Mine(w, t) =>
            /\ status'[t] = status[t] /\ owner'[t] = owner[t] /\ announced'[t] = announced[t] /\ turns'[t] = turns[t]
  PROVE  Fit(w)'
<1>1. Local(w) /\ Shaped(pc[w], hand[w], todo[w], resumed[w], signals[w])
  BY DEF IInv, Local, Fine
<1>2. ASSUME pc[w] \in Holding \cup Reconciling PROVE hand[w] \in Trajectories /\ Mine(w, hand[w])
  <2>1. hand[w] \in Trajectories
    BY <1>1, <1>2, HandTaken DEF Holding, Reconciling, Dangles, Recovering
  <2>2. CASE pc[w] \in Holding
    BY <2>1, <2>2 DEF Mine, Held
  <2>3. CASE pc[w] \in Reconciling
    BY <1>1, <2>1, <2>3 DEF Mine, Shaped, Reconciling, Dangles, Recovering
  <2>. QED  BY <1>2, <2>1, <2>2, <2>3
<1>3. Leased(w, pc[w], hand[w], todo[w], resumed[w], status, owner) /\ pc[w] # "dead"
      /\ Abreast(pc[w], hand[w], turn[w], base[w], announced, turns)
  BY DEF Fit, Snug
<1>4. Leased(w, pc[w], hand[w], todo[w], resumed[w], status', owner')
  <2>1. ASSUME NEW t \in Trajectories, t \in resumed[w] \/ (hand[w] = t /\ pc[w] \in Holding)
        PROVE  owner'[t] = w /\ status'[t] \in LeaseHolding
    BY <1>3, <2>1 DEF Leased, Mine, Held
  <2>2. /\ pc[w] \in Planning \cup {"redrafted"} => status'[hand[w]] = "planning"
        /\ pc[w] \in Executing \cup Reconciling => status'[hand[w]] = "executing"
    <3>1. Planning \cup {"redrafted"} \subseteq Holding /\ Executing \subseteq Holding
      BY DEF Holding, Running
    <3>. QED  BY <1>2, <1>3, <3>1 DEF Leased
  <2>3. ASSUME NEW e \in todo[w] PROVE status'[e[1]] = e[2]
    <3>1. e[1] \in Trajectories
      BY <1>1 DEF Shaped
    <3>2. Mine(w, e[1])
      BY DEF Mine
    <3>. QED  BY <1>3, <3>1, <3>2 DEF Leased
  <2>. QED  BY <2>1, <2>2, <2>3 DEF Leased
<1>5. Abreast(pc[w], hand[w], turn[w], base[w], announced', turns')
  <2>1. InFlight \cup {"ready"} \subseteq Holding /\ Dangles \subseteq Reconciling
    BY DEF InFlight, Holding, Running, Executing, Dangles, Reconciling
  <2>2. ASSUME pc[w] \in InFlight \cup {"ready"} \cup Reconciling
        PROVE  announced'[hand[w]] = announced[hand[w]] /\ turns'[hand[w]] = turns[hand[w]]
    BY <1>2, <2>1, <2>2
  <2>. QED  BY <1>3, <2>1, <2>2 DEF Abreast
<1>. QED  BY <1>3, <1>4, <1>5 DEF Fit, Snug

(* A thread that runs has its trajectory's lease. *)
LEMMA RunsLeased ==
  ASSUME IInv, NEW w \in Threads, Fit(w), pc[w] \in Running
  PROVE  /\ hand[w] \in Trajectories /\ owner[hand[w]] = w /\ status[hand[w]] \in LeaseHolding
         /\ pc[w] \in Planning => status[hand[w]] = "planning"
         /\ pc[w] \in Executing => status[hand[w]] = "executing"
         /\ ~pending[hand[w]]
<1>1. hand[w] \in Trajectories
  BY HandTaken DEF IInv
<1>2. /\ owner[hand[w]] = w /\ status[hand[w]] \in LeaseHolding
      /\ pc[w] \in Planning => status[hand[w]] = "planning"
      /\ pc[w] \in Executing => status[hand[w]] = "executing"
  BY <1>1 DEF Fit, Snug, Leased, Holding
<1>3. ~pending[hand[w]]
  BY <1>1, <1>2 DEF IInv, RowSound, LeaseHolding
<1>. QED  BY <1>1, <1>2, <1>3

(* A turn is announced, committed or retried only under the lease, and only of a
   trajectory that executes. *)
LEMMA RecordIsFenced ==
  ASSUME IInv, \A w \in Threads : Fit(w), [Next]_vars, NEW t \in Trajectories,
         announced'[t] # announced[t] \/ turns'[t] # turns[t] \/ retries'[t] # retries[t]
  PROVE  \E w \in Threads :
            /\ Step(w) /\ hand[w] = t /\ owner[t] = w /\ status[t] = "executing" /\ pc[w] \in Running
            /\ turns'[t] # turns[t] => turns'[t] = Append(turns[t], turn[w])
<1>1. PICK w \in Threads : (Step(w) \/ Keep(w)) /\ (Announce(w) \/ Commits(w) \/ RetryTurn(w))
  BY RecordSteps, ThreadRecord
<1>2. pc[w] \in Executing /\ pc[w] \in Running
  BY <1>1 DEF Announce, Commits, RetryTurn, Executing, Running
<1>3. hand[w] \in Trajectories /\ owner[hand[w]] = w /\ status[hand[w]] = "executing"
  BY <1>2, RunsLeased
<1>4. DOMAIN announced = Trajectories /\ DOMAIN turns = Trajectories /\ DOMAIN retries = Trajectories
  BY DEF IInv, TypeOK
<1>5. hand[w] = t
  BY <1>1, <1>3, <1>4 DEF Announce, Commits, CommitTurn, RetryTurn
<1>6. turns'[t] # turns[t] => turns'[t] = Append(turns[t], turn[w])
  BY <1>1, <1>4, <1>5 DEF Announce, Commits, CommitTurn, RetryTurn
<1>7. Step(w)
  <2>1. CASE Keep(w)
    BY <1>5, <2>1, <1>4 DEF Keep, Renew, CancelInFlight, record
  <2>. QED  BY <1>1, <2>1
<1>. QED  BY <1>2, <1>3, <1>5, <1>6, <1>7

(* A thread touches nothing that another one counts on. *)
LEMMA Untouched ==
  ASSUME IInv, RecoversAlone, \A u \in Threads : Fit(u), [Next]_vars, NEW w \in Threads, Step(w) \/ Keep(w),
         NEW v \in Threads \ {w}, NEW t \in Trajectories, Mine(v, t)
  PROVE  status'[t] = status[t] /\ owner'[t] = owner[t] /\ announced'[t] = announced[t] /\ turns'[t] = turns[t]
<1>1. On(w)
  BY StepsAreAwake DEF On
<1>2. todo[v] = {}
  BY <1>1 DEF RecoversAlone
<1>3. Held(v, t) /\ owner[t] = v /\ v # NoOwner
  BY <1>2, OwnersAssumption DEF Mine, Held, Fit, Snug, Leased
<1>4. owner[t] # w
  BY <1>3
<1>5. On(v)
  BY <1>3 DEF Held, On, Holding, Running, Planning, Executing, IInv, Local, Fine, Shaped, Recovering
<1>6. ~Touches(w, t)
  <2>1. CASE todo[w] = {}
    <3>1. pc[w] \in Recovering => pc[w] = "recover" /\ hand[w] # t
      BY <2>1, OwnersAssumption DEF IInv, Local, Fine, Shaped, Recovering
    <3>. QED  BY <1>3, <1>4, <2>1, <3>1 DEF Touches
  <2>2. CASE todo[w] # {}
    BY <1>5, <2>2 DEF RecoversAlone
  <2>. QED  BY <2>1, <2>2
<1>7. status'[t] = status[t] /\ owner'[t] = owner[t]
  <2>1. CASE Keep(w)
    BY <2>1 DEF Keep, Renew, CancelInFlight, row
  <2>2. CASE RowStays
    BY <2>2 DEF RowStays
  <2>3. CASE WritesRow(w)
    <3>1. PICK u \in Trajectories, to \in States, by \in {w, NoOwner}, mints \in BOOLEAN :
            Touches(w, u) /\ Allowed(u, to, by, mints) /\ Written(u, to, by, mints)
      BY <2>3 DEF WritesRow
    <3>2. u # t
      BY <1>6, <3>1
    <3>. QED  BY <3>1, <3>2 DEF Written, IInv, TypeOK
  <2>. QED  BY <2>1, <2>2, <2>3, ThreadWrites DEF IInv
<1>8. announced'[t] = announced[t] /\ turns'[t] = turns[t]
  <2>1. CASE Announce(w) \/ Commits(w)
    <3>1. pc[w] \in Running
      BY <2>1 DEF Announce, Commits, Running, Executing
    <3>2. hand[w] # t
      BY <1>4, <3>1, RunsLeased
    <3>. QED  BY <2>1, <3>2 DEF Announce, Commits, CommitTurn, IInv, TypeOK
  <2>. QED  BY <2>1, ThreadRecord
<1>. QED  BY <1>7, <1>8

RowsBut(t) == \A u \in Trajectories \ {t} : status'[u] = status[u] /\ owner'[u] = owner[u]

(* What a thread's own step leaves true of it. *)
OwnKept(w) ==
    /\ Fit(w)'
    /\ todo'[w] \subseteq todo[w] \/ Reap(w)
    /\ todo[w] = {} => resumed'[w] \subseteq resumed[w]
    /\ Timely => \A t \in Trajectories : owner'[t] = w => Held(w, t)'
    /\ Timely => \A e \in todo[w] : owner'[e[1]] = Former => e \in todo'[w]

LEMMA CellsRead ==
  ASSUME TypeOK, NEW w \in Threads, NEW p, NEW h, NEW n, NEW b, NEW td, NEW rs, NEW sg, NEW dr,
         Cells(w, p, h, n, b, td, rs, sg, dr)
  PROVE  /\ pc'[w] = p /\ hand'[w] = h /\ turn'[w] = n /\ base'[w] = b /\ todo'[w] = td /\ resumed'[w] = rs
         /\ signals'[w] = sg
         /\ \A v \in Threads \ {w} :
               /\ pc'[v] = pc[v] /\ hand'[v] = hand[v] /\ turn'[v] = turn[v] /\ base'[v] = base[v]
               /\ todo'[v] = todo[v] /\ resumed'[v] = resumed[v] /\ signals'[v] = signals[v]
BY DEF Cells, TypeOK

LEMMA QuitKeeps ==
  ASSUME IInv, Guarded, NEW w \in Threads, pc[w] \in Running, todo[w] = {}, Quits(w),
         NEW t \in Trajectories, t = hand[w], RowsBut(t), owner'[t] = NoOwner
  PROVE  OwnKept(w)
<1>. DEFINE p == IF hand[w] \in resumed[w] THEN "resume" ELSE "reap"
<1>1. /\ pc'[w] = p /\ hand'[w] = NoTrajectory /\ todo'[w] = todo[w] /\ resumed'[w] = resumed[w] \ {t}
      /\ signals'[w] = {} /\ turn'[w] = 0 /\ base'[w] = 0
  BY CellsRead DEF IInv, Quits
<1>2. p \notin Holding \cup Reconciling \cup InFlight \cup Dangles \cup {"ready", "dead"} \cup Planning \cup Executing
  BY DEF Holding, Running, Planning, Executing, Reconciling, InFlight, Dangles
<1>3. Fit(w) /\ w # NoOwner
  BY OwnersAssumption DEF Guarded
<1>. HIDE DEF p
<1>4. Leased(w, p, NoTrajectory, todo[w], resumed[w] \ {t}, status', owner')
  BY <1>2, <1>3 DEF Fit, Snug, Leased, RowsBut, Holding
<1>5. Abreast(p, NoTrajectory, 0, 0, announced', turns')
  BY <1>2 DEF Abreast
<1>6. Fit(w)'
  BY <1>1, <1>2, <1>4, <1>5 DEF Fit, Snug
<1>7. ASSUME Timely, NEW u \in Trajectories, owner'[u] = w PROVE Held(w, u)'
  <2>1. u # t /\ owner[u] = w
    BY <1>3, <1>7 DEF RowsBut
  <2>2. u \in resumed[w]
    BY <1>7, <2>1 DEF Guarded, Tidy, Held
  <2>. QED  BY <1>1, <2>1, <2>2 DEF Held
<1>. QED  BY <1>1, <1>6, <1>7 DEF OwnKept

LEMMA SettleKeeps ==
  ASSUME IInv, Guarded, NEW w \in Threads, NEW held \in BOOLEAN, Settles(w, held),
         NEW t \in Trajectories, t = hand[w], RowsBut(t), todo[w] # {},
         held => owner'[t] = w /\ status'[t] \in LeaseHolding,
         ~held /\ Timely => owner'[t] \notin {w, Former}
  PROVE  OwnKept(w)
<1>. DEFINE td == {e \in todo[w] : e[1] # t}
            rs == IF held THEN resumed[w] \cup {t} ELSE resumed[w]
<1>1. /\ pc'[w] = "recover" /\ hand'[w] = NoTrajectory /\ todo'[w] = td /\ resumed'[w] = rs
      /\ signals'[w] = {} /\ turn'[w] = 0 /\ base'[w] = 0
  BY CellsRead DEF IInv, Settles
<1>2. "recover" \notin Holding \cup Reconciling \cup InFlight \cup Dangles \cup {"ready", "dead"} \cup Planning \cup Executing
  BY DEF Holding, Running, Planning, Executing, Reconciling, InFlight, Dangles
<1>3. Fit(w) /\ w # Former
  BY OwnersAssumption DEF Guarded
<1>4. \A e \in todo[w] : e[1] \in Trajectories /\ e[1] \notin resumed[w]
  BY DEF IInv, Local, Fine, Shaped
<1>5. (\E e \in todo[w] : e[1] = t) /\ t \notin resumed[w]
  <2>1. pc[w] \notin {"off", "dead", "recover"} \cup Passing
    BY OwnersAssumption DEF IInv, TypeOK
  <2>2. pc[w] \in (Recovering \ {"recover"}) \cup {"answered"}
    BY <2>1 DEF IInv, Local, Fine, Shaped
  <2>. QED  BY <1>4, <2>2 DEF IInv, Local, Fine, Shaped
<1>6. Leased(w, "recover", NoTrajectory, td, rs, status', owner')
  <2>1. ASSUME NEW u \in Trajectories, u \in rs PROVE owner'[u] = w /\ status'[u] \in LeaseHolding
    <3>1. CASE u \in resumed[w]
      BY <1>3, <1>5, <3>1 DEF Fit, Snug, Leased, RowsBut
    <3>2. CASE held /\ u = t
      BY <3>2
    <3>. QED  BY <2>1, <3>1, <3>2
  <2>2. ASSUME NEW e \in td PROVE status'[e[1]] = e[2]
    BY <1>3, <1>4, <2>2 DEF Fit, Snug, Leased, RowsBut
  <2>. HIDE DEF td, rs
  <2>. QED  BY <1>2, <2>1, <2>2 DEF Leased
<1>7. Abreast("recover", NoTrajectory, 0, 0, announced', turns')
  BY <1>2 DEF Abreast
<1>8. Fit(w)'
  BY <1>1, <1>6, <1>7 DEF Fit, Snug
<1>9. ASSUME Timely, NEW u \in Trajectories, owner'[u] = w PROVE Held(w, u)'
  <2>1. CASE u = t
    BY <1>1, <1>9, <2>1 DEF Held
  <2>2. CASE u # t
    <3>1. owner[u] = w
      BY <1>9, <2>2 DEF RowsBut
    <3>2. u \in resumed[w]
      BY <1>9, <2>2, <3>1 DEF Guarded, Tidy, Held
    <3>. QED  BY <1>1, <3>2 DEF Held
  <2>. QED  BY <2>1, <2>2
<1>10. ASSUME Timely, NEW e \in todo[w], owner'[e[1]] = Former PROVE e \in todo'[w]
  BY <1>1, <1>3, <1>10
<1>. QED  BY <1>1, <1>5, <1>8, <1>9, <1>10 DEF OwnKept

LEMMA GoesKeeps ==
  ASSUME IInv, Guarded, NEW w \in Threads, NEW p, NEW n, NEW b, NEW sg, NEW dr,
         Cells(w, p, hand[w], n, b, todo[w], resumed[w], sg, dr), p # "dead", "lease_lost" \notin sg,
         NEW t \in Trajectories, t = hand[w], RowsBut(t),
         owner'[t] \in {owner[t], w}, p \in Holding => owner'[t] = w,
         status'[t] = status[t] \/ (todo[w] = {} /\ status'[t] \in LeaseHolding),
         p \in Holding => status'[t] \in LeaseHolding,
         p \in Planning \cup {"redrafted"} => status'[t] = "planning",
         p \in Executing \cup Reconciling => status'[t] = "executing",
         Timely /\ owner'[t] = w => p \in Holding \/ (owner[t] = w /\ pc[w] \notin Holding),
         Abreast(p, t, n, b, announced', turns')
  PROVE  OwnKept(w)
<1>1. /\ pc'[w] = p /\ hand'[w] = t /\ todo'[w] = todo[w] /\ resumed'[w] = resumed[w]
      /\ signals'[w] = sg /\ turn'[w] = n /\ base'[w] = b
  BY CellsRead DEF IInv
<1>2. Fit(w)
  BY DEF Guarded
<1>3. \A e \in todo[w] : e[1] \in Trajectories
  BY DEF IInv, Local, Fine, Shaped
<1>4. Leased(w, p, t, todo[w], resumed[w], status', owner')
  <2>1. ASSUME NEW u \in Trajectories, u \in resumed[w] \/ (t = u /\ p \in Holding)
        PROVE  owner'[u] = w /\ status'[u] \in LeaseHolding
    <3>1. CASE u \in resumed[w]
      BY <1>2, <3>1 DEF Fit, Snug, Leased, RowsBut
    <3>2. CASE t = u /\ p \in Holding
      BY <3>2
    <3>. QED  BY <2>1, <3>1, <3>2
  <2>2. ASSUME NEW e \in todo[w] PROVE status'[e[1]] = e[2]
    BY <1>2, <1>3 DEF Fit, Snug, Leased, RowsBut
  <2>. QED  BY <2>1, <2>2 DEF Leased
<1>5. Fit(w)'
  BY <1>1, <1>4 DEF Fit, Snug
<1>6. ASSUME Timely, NEW u \in Trajectories, owner'[u] = w PROVE Held(w, u)'
  <2>1. CASE u = t
    <3>1. CASE p \in Holding
      BY <1>1, <2>1, <3>1 DEF Held
    <3>2. CASE owner[t] = w /\ pc[w] \notin Holding
      <4>1. t \in resumed[w]
        BY <1>6, <3>2 DEF Guarded, Tidy, Held
      <4>. QED  BY <1>1, <2>1, <4>1 DEF Held
    <3>. QED  BY <1>6, <2>1, <3>1, <3>2
  <2>2. CASE u # t
    <3>1. owner[u] = w
      BY <1>6, <2>2 DEF RowsBut
    <3>2. u \in resumed[w]
      BY <1>6, <2>2, <3>1 DEF Guarded, Tidy, Held
    <3>. QED  BY <1>1, <3>2 DEF Held
  <2>. QED  BY <2>1, <2>2
<1>. QED  BY <1>1, <1>5, <1>6 DEF OwnKept

(* A thread in its pass holds what recovery resumed, and nothing else. *)
LEMMA StandKeeps ==
  ASSUME IInv, Guarded, NEW w \in Threads, pc[w] \in Passing \cup {"recover"}, NEW p \in Passing \cup {"recover"},
         Cells(w, p, hand[w], turn[w], base[w], todo[w], resumed[w], signals[w], drafts[w]),
         \A t \in Trajectories : /\ Mine(w, t) => status'[t] = status[t] /\ owner'[t] = owner[t]
                                 /\ owner'[t] = w => owner[t] = w
  PROVE  OwnKept(w)
<1>1. /\ pc'[w] = p /\ hand'[w] = hand[w] /\ todo'[w] = todo[w] /\ resumed'[w] = resumed[w]
      /\ signals'[w] = signals[w] /\ turn'[w] = turn[w] /\ base'[w] = base[w]
  BY CellsRead DEF IInv
<1>2. \A q \in Passing \cup {"recover"} :
        q \notin Holding \cup Reconciling \cup InFlight \cup Dangles \cup {"ready", "dead"} \cup Planning \cup Executing
             \cup {"redrafted"}
  BY DEF Passing, Holding, Running, Planning, Executing, Reconciling, InFlight, Dangles
<1>3. Fit(w)
  BY DEF Guarded
<1>4. \A e \in todo[w] : e[1] \in Trajectories
  BY DEF IInv, Local, Fine, Shaped
<1>5. Leased(w, p, hand[w], todo[w], resumed[w], status', owner')
  <2>1. ASSUME NEW u \in Trajectories, u \in resumed[w] PROVE owner'[u] = w /\ status'[u] \in LeaseHolding
    BY <1>3, <2>1 DEF Mine, Held, Fit, Snug, Leased
  <2>2. ASSUME NEW e \in todo[w] PROVE status'[e[1]] = e[2]
    BY <1>3, <1>4, <2>2 DEF Mine, Fit, Snug, Leased
  <2>. QED  BY <1>2, <2>1, <2>2 DEF Leased
<1>6. Abreast(p, hand[w], turn[w], base[w], announced', turns')
  BY <1>2 DEF Abreast
<1>7. Fit(w)'
  BY <1>1, <1>2, <1>3, <1>5, <1>6 DEF Fit, Snug
<1>8. ASSUME Timely, NEW u \in Trajectories, owner'[u] = w PROVE Held(w, u)'
  <2>1. Held(w, u)
    BY <1>8 DEF Guarded, Tidy
  <2>. QED  BY <1>1, <1>2, <2>1 DEF Held
<1>. QED  BY <1>1, <1>7, <1>8 DEF OwnKept

LEMMA TakeKeeps ==
  ASSUME IInv, Guarded, NEW w \in Threads, pc[w] \in Passing, NEW t \in Trajectories, TakeUp(w, t, "start"),
         UNCHANGED <<turn, base, todo, resumed, signals, drafts>>,
         RowsBut(t), owner'[t] = w, status'[t] \in LeaseHolding
  PROVE  OwnKept(w)
<1>1. /\ pc'[w] = "start" /\ hand'[w] = t /\ todo'[w] = todo[w] /\ resumed'[w] = resumed[w]
      /\ signals'[w] = signals[w] /\ turn'[w] = turn[w] /\ base'[w] = base[w]
  BY DEF IInv, TypeOK, TakeUp, Goto
<1>2. /\ "start" \notin Reconciling \cup InFlight \cup Dangles \cup {"ready", "dead"} \cup Planning \cup Executing \cup {"redrafted"}
      /\ "start" \in Holding
  BY DEF Holding, Running, Planning, Executing, Reconciling, InFlight, Dangles
<1>3. Fit(w) /\ todo[w] = {} /\ pc[w] \notin Holding
  BY DEF Guarded, IInv, Local, Fine, Shaped, Passing, Recovering, Holding, Running, Planning, Executing
<1>4. Leased(w, "start", t, todo[w], resumed[w], status', owner')
  <2>1. ASSUME NEW u \in Trajectories, u \in resumed[w] \/ t = u PROVE owner'[u] = w /\ status'[u] \in LeaseHolding
    BY <1>3, <2>1 DEF Fit, Snug, Leased, RowsBut
  <2>. QED  BY <1>2, <1>3, <2>1 DEF Leased
<1>5. Abreast("start", t, turn[w], base[w], announced', turns')
  BY <1>2 DEF Abreast
<1>6. Fit(w)'
  BY <1>1, <1>2, <1>3, <1>4, <1>5 DEF Fit, Snug
<1>7. ASSUME Timely, NEW u \in Trajectories, owner'[u] = w PROVE Held(w, u)'
  <2>1. CASE u = t
    BY <1>1, <1>2, <2>1 DEF Held
  <2>2. CASE u # t
    <3>1. owner[u] = w
      BY <1>7, <2>2 DEF RowsBut
    <3>2. u \in resumed[w]
      BY <1>3, <1>7, <3>1 DEF Guarded, Tidy, Held
    <3>. QED  BY <1>1, <3>2 DEF Held
  <2>. QED  BY <2>1, <2>2
<1>. QED  BY <1>1, <1>3, <1>6, <1>7 DEF OwnKept

(* A write of one row reaches no other. *)
LEMMA WritesOne ==
  ASSUME TypeOK, NEW t \in Trajectories
  PROVE  /\ \A to, by, asks : Write(t, to, by, asks) => RowsBut(t) /\ status'[t] = to /\ owner'[t] = by
         /\ \A ending : End(t, ending) => RowsBut(t) /\ status'[t] = ending /\ owner'[t] = NoOwner
         /\ Hold(t) => RowsBut(t) /\ status'[t] = "awaiting_approval" /\ owner'[t] = NoOwner
         /\ \A w : TakeLease(t, w) => RowsBut(t) /\ status'[t] = status[t] /\ owner'[t] = w
         /\ UNCHANGED row => RowsBut(t) /\ status'[t] = status[t] /\ owner'[t] = owner[t]
<1>1. \A to, by, asks : Write(t, to, by, asks) => RowsBut(t) /\ status'[t] = to /\ owner'[t] = by
  BY DEF TypeOK, Write, RowsBut
<1>2. UNCHANGED row => RowsBut(t) /\ status'[t] = status[t] /\ owner'[t] = owner[t]
  BY DEF row, RowsBut
<1>. QED  BY <1>1, <1>2 DEF End, Hold, TakeLease

(* In a pool that keeps its time LoadCoach answers. *)
LEMMA NoOutage ==
  ASSUME Timely
  PROVE  ~LoadCoachFails
BY DEF Timely, LoadCoachFails

(* In a pool that keeps its time, only startup recovery lists anything. *)
LEMMA ListsAtStartup ==
  ASSUME Guarded, Timely, NEW w \in Threads, todo[w] # {}
  PROVE  w = Recovery
BY DEF Guarded, Tidy, Threads

LEMMA RecoveryKeeps ==
  ASSUME IInv, Guarded, [Next]_vars, NEW w \in Threads, Recover(w)
  PROVE  OwnKept(w)
<1>1. /\ TypeOK /\ RowSound /\ Local(w) /\ Fit(w) /\ (Timely => Tidy)
      /\ Shaped(pc[w], hand[w], todo[w], resumed[w], signals[w])
      /\ Sized(pc[w], turn[w], base[w], drafts[w], announced[hand[w]], minted[hand[w]])
      /\ Leased(w, pc[w], hand[w], todo[w], resumed[w], status, owner)
      /\ Abreast(pc[w], hand[w], turn[w], base[w], announced, turns)
      /\ pc[w] # "dead" /\ "lease_lost" \notin signals[w]
      /\ w # NoOwner /\ w # Former /\ NoOwner # Former
  BY OwnersAssumption DEF IInv, Local, Fine, Guarded, Fit, Snug
<1>2. ASSUME pc[w] \in Recovering \ {"recover"}
      PROVE  hand[w] \in Trajectories /\ todo[w] # {} /\ \E e \in todo[w] : e[1] = hand[w]
  BY <1>1, <1>2, HandTaken DEF Shaped
<1>3. ASSUME NEW t \in Trajectories PROVE UNCHANGED row => status'[t] = status[t] /\ owner'[t] = owner[t]
  BY DEF row
<1>4. CASE Reap(w)
  <2>. DEFINE listed == {u \in Trajectories : /\ status[u] \in LeaseHolding
                                               /\ IF w = Recovery THEN owner[u] \notin Threads \/ expired[u]
                                                                  ELSE expired[u]}
              td == {<<t, status[t]>> : t \in listed}
  <2>1. /\ pc'[w] = "recover" /\ hand'[w] = hand[w] /\ todo'[w] = td /\ resumed'[w] = resumed[w]
        /\ signals'[w] = signals[w] /\ turn'[w] = turn[w] /\ base'[w] = base[w]
        /\ UNCHANGED <<status, owner, announced, turns>> /\ pc[w] = "reap"
    BY <1>1, <1>4 DEF TypeOK, Reap, Goto, row, record
  <2>2. resumed[w] = {} /\ todo[w] = {}
    BY <1>1, <2>1 DEF Shaped, Recovering, Running, Planning, Executing
  <2>3. \A e \in td : status[e[1]] = e[2]
    OBVIOUS
  <2>4. "recover" \notin Holding \cup Reconciling \cup InFlight \cup Dangles \cup {"ready", "dead", "redrafted"} \cup Planning \cup Executing
    BY DEF Holding, Running, Planning, Executing, Reconciling, InFlight, Dangles
  <2>. HIDE DEF td
  <2>5. Leased(w, "recover", hand[w], td, resumed[w], status, owner)
    BY <2>2, <2>3, <2>4 DEF Leased
  <2>6. Abreast("recover", hand[w], turn[w], base[w], announced, turns)
    BY <2>4 DEF Abreast
  <2>7. Fit(w)'
    BY <1>1, <2>1, <2>5, <2>6 DEF Fit, Snug
  <2>8. ASSUME Timely, NEW u \in Trajectories, owner'[u] = w PROVE Held(w, u)'
    <3>1. Held(w, u)
      BY <1>1, <2>1, <2>8 DEF Tidy
    <3>2. pc[w] \notin Holding
      BY <2>1 DEF Holding, Running, Planning, Executing
    <3>. QED  BY <2>2, <3>1, <3>2 DEF Held
  <2>. QED  BY <1>4, <2>1, <2>2, <2>7, <2>8 DEF OwnKept
<1>5. CASE NotYetDue(w) \/ RecoveryListDone(w)
  <2>1. PICK p \in Passing : Ahead(w, p) /\ UNCHANGED row /\ pc[w] \in Passing \cup {"recover"}
    BY <1>5 DEF NotYetDue, RecoveryListDone, Ahead, Passing
  <2>2. Onward(w, p)
    BY <1>1, <2>1, Shapes DEF Ahead
  <2>. QED  BY <1>3, <2>1, <2>2, StandKeeps DEF Onward
<1>6. CASE RecordRedraft(w)
  <2>1. hand[w] \in Trajectories /\ todo[w] # {} /\ pc[w] = "redrafted"
    BY <1>2, <1>6 DEF RecordRedraft, Recovering
  <2>2. Owns(w, "planning")
    BY <1>1, <2>1 DEF Leased, Owns, Holding
  <2>3. Settles(w, TRUE)
    BY <1>1, <1>6, <2>2, Shapes DEF RecordRedraft
  <2>4. UNCHANGED row
    BY <1>6 DEF RecordRedraft
  <2>5. RowsBut(hand[w]) /\ owner'[hand[w]] = w /\ status'[hand[w]] \in LeaseHolding
    BY <1>1, <2>1, <2>2, <2>4, WritesOne DEF Owns, LeaseHolding
  <2>. QED  BY <2>1, <2>3, <2>5, SettleKeeps
<1>7. CASE Redraft(w) \/ ReadEvents(w)
  <2>. DEFINE Opened(t, s, p, n) ==
         /\ p \in {"redrafted", "inspect"} /\ <<t, s>> \in todo[w]
         /\ p = "redrafted" => s = "planning" /\ TakeLease(t, w)
         /\ p = "inspect" => s = "executing" /\ n = announced[t] /\ UNCHANGED row
         /\ Cells(w, p, t, n, base[w], todo[w], resumed[w], signals[w], drafts[w])
  <2>0. pc[w] = "recover" /\ \A t \in Trajectories, s \in LeaseHolding : <<t, s>> \in todo[w] => status[t] = s
    BY <1>1, <1>7 DEF Redraft, ReadEvents, Leased
  <2>1. PICK t \in Trajectories, s \in LeaseHolding : \E p, n : Opened(t, s, p, n)
    <3>1. CASE Redraft(w)
      <4>1. PICK t \in Trajectories : /\ <<t, "planning">> \in todo[w]
                                      /\ status[t] = "planning" => TakeLease(t, w) /\ TakeUp(w, t, "redrafted") /\ UNCHANGED todo
        BY <3>1 DEF Redraft
      <4>2. TakeLease(t, w) /\ TakeUp(w, t, "redrafted") /\ UNCHANGED <<todo, turn, base, resumed, signals, drafts>>
        BY <2>0, <3>1, <4>1 DEF Redraft, LeaseHolding
      <4>3. Opened(t, "planning", "redrafted", turn[w])
        BY <1>1, <4>1, <4>2 DEF TypeOK, TakeUp, Goto, Cells
      <4>. HIDE DEF Opened
      <4>. QED  BY <4>3 DEF LeaseHolding
    <3>2. CASE ReadEvents(w)
      <4>1. PICK t \in Trajectories : /\ <<t, "executing">> \in todo[w]
                                      /\ status[t] = "executing" => /\ TakeUp(w, t, "inspect") /\ UNCHANGED todo
                                                                    /\ turn' = [turn EXCEPT ![w] = announced[t]]
        BY <3>2 DEF ReadEvents
      <4>2. /\ TakeUp(w, t, "inspect") /\ turn' = [turn EXCEPT ![w] = announced[t]]
            /\ UNCHANGED <<todo, base, resumed, signals, drafts>> /\ UNCHANGED row
        BY <2>0, <3>2, <4>1 DEF ReadEvents, LeaseHolding
      <4>3. Opened(t, "executing", "inspect", announced[t])
        BY <1>1, <4>1, <4>2 DEF TypeOK, TakeUp, Goto, Cells
      <4>. HIDE DEF Opened
      <4>. QED  BY <4>3 DEF LeaseHolding
    <3>. QED  BY <1>7, <3>1, <3>2
  <2>2. PICK p, n : Opened(t, s, p, n)
    BY <2>1
  <2>3. /\ pc'[w] = p /\ hand'[w] = t /\ todo'[w] = todo[w] /\ resumed'[w] = resumed[w]
        /\ signals'[w] = signals[w] /\ turn'[w] = n /\ base'[w] = base[w]
    BY <1>1, <2>2, CellsRead
  <2>4. /\ status[t] = s /\ status'[t] = s /\ RowsBut(t)
        /\ p = "redrafted" => owner'[t] = w
        /\ p = "inspect" => owner'[t] = owner[t]
    BY <1>1, <2>0, <2>2, WritesOne
  <2>5. t \notin resumed[w] /\ pc[w] \notin Holding
    BY <1>1, <2>0, <2>2 DEF Shaped, Holding, Running, Planning, Executing
  <2>6. Leased(w, p, t, todo[w], resumed[w], status', owner')
    <3>1. ASSUME NEW u \in Trajectories, u \in resumed[w] PROVE owner'[u] = w /\ status'[u] \in LeaseHolding
      BY <1>1, <2>4, <2>5, <3>1 DEF Leased, RowsBut
    <3>2. ASSUME NEW e \in todo[w] PROVE status'[e[1]] = e[2]
      <4>1. e[1] \in Trajectories /\ status[e[1]] = e[2]
        BY <1>1 DEF Leased, Shaped
      <4>. QED  BY <2>4, <4>1 DEF RowsBut
    <3>3. p = "redrafted" => owner'[t] = w /\ status'[t] = "planning"
      BY <2>2, <2>4
    <3>4. p = "inspect" => status'[t] = "executing"
      BY <2>2, <2>4
    <3>5. p \in {"redrafted", "inspect"}
      BY <2>2
    <3>. QED  BY <3>1, <3>2, <3>3, <3>4, <3>5 DEF Leased, Holding, Running, Planning, Executing, Reconciling, Dangles, LeaseHolding
  <2>7. Abreast(p, t, n, base[w], announced', turns')
    <3>1. p = "inspect" => n = announced'[t]
      BY <1>7, <2>2 DEF Redraft, ReadEvents, record
    <3>. QED  BY <2>2, <3>1 DEF Abreast, InFlight, Dangles, Reconciling
  <2>8. Fit(w)'
    BY <1>1, <2>2, <2>3, <2>6, <2>7 DEF Fit, Snug
  <2>9. ASSUME Timely, NEW u \in Trajectories, owner'[u] = w PROVE Held(w, u)'
    <3>1. ASSUME owner[u] = w PROVE Held(w, u)'
      <4>1. u \in resumed[w]
        BY <1>1, <2>5, <2>9, <3>1 DEF Tidy, Held
      <4>. QED  BY <2>3, <4>1 DEF Held
    <3>2. CASE u = t /\ p = "redrafted"
      BY <2>3, <3>2 DEF Held, Holding
    <3>3. CASE u # t \/ p = "inspect"
      BY <2>4, <2>9, <3>1, <3>3 DEF RowsBut
    <3>. QED  BY <2>2, <3>2, <3>3
  <2>. QED  BY <2>3, <2>8, <2>9 DEF OwnKept
<1>8. CASE \/ Inspect(w) \/ FindJob(w) \/ TakeOver(w) \/ CancelFoundJob(w) \/ HaltRecovered(w) \/ LoadFinished(w)
  <2>1. /\ pc[w] \in Reconciling /\ pc[w] \in Recovering \ {"recover"} /\ UNCHANGED <<announced, turns>>
    BY <1>8 DEF Inspect, FindJob, TakeOver, CancelFoundJob, HaltRecovered, LoadFinished, Recovering, Reconciling, Dangles, record
  <2>2. PICK t \in Trajectories : t = hand[w]
    BY <1>2, <2>1
  <2>3. todo[w] # {} /\ status[t] = "executing" /\ turn[w] = announced[t]
    BY <1>1, <1>2, <2>1, <2>2 DEF Leased, Abreast
  <2>4. pc[w] \in Dangles => turn[w] \notin {turns[t][i] : i \in DOMAIN turns[t]} /\ turn[w] # 0
    BY <1>1, <2>2 DEF Abreast, Sized
  (* Given up where LoadCoach fails, or where another thread renewed. *)
  <2>5. ASSUME Reconciled(w, FALSE), UNCHANGED row \/ owner'[t] = NoOwner, RowsBut(t),
               Timely => owner'[t] = NoOwner
        PROVE  OwnKept(w)
    <3>1. Settles(w, FALSE)
      BY <1>1, <2>5, Shapes
    <3>2. Timely => owner'[t] \notin {w, Former}
      BY <1>1, <2>5
    <3>. QED  BY <2>2, <2>3, <2>5, <3>1, <3>2, SettleKeeps
  <2>6. ASSUME Reconciled(w, TRUE), RowsBut(t), owner'[t] = w, status'[t] = "executing"
        PROVE  OwnKept(w)
    <3>1. Settles(w, TRUE)
      BY <1>1, <2>6, Shapes
    <3>. QED  BY <2>2, <2>3, <2>6, <3>1, SettleKeeps DEF LeaseHolding
  <2>7. ASSUME NEW p \in Reconciling, Goto(w, p), UNCHANGED <<hand, turn, base, todo, resumed, signals, drafts>>,
               RowsBut(t), status'[t] = "executing", owner'[t] \in {owner[t], w}, p \in Holding => owner'[t] = w,
               p \in Dangles => turn[w] \notin {turns[t][i] : i \in DOMAIN turns[t]},
               Timely /\ owner'[t] = w => p \in Holding \/ (owner[t] = w /\ pc[w] \notin Holding)
        PROVE  OwnKept(w)
    <3>1. Onward(w, p)
      BY <1>1, <2>7, Shapes
    <3>2. p # "dead" /\ p \notin Planning \cup {"redrafted"}
      BY <2>7 DEF Reconciling, Dangles, Planning
    <3>3. Abreast(p, t, turn[w], base[w], announced', turns')
      <4>1. p \notin InFlight \cup {"ready"}
        BY <2>7 DEF Reconciling, Dangles, InFlight
      <4>2. announced' = announced /\ turns' = turns
        BY <2>1
      <4>. QED  BY <2>3, <2>7, <4>1, <4>2 DEF Abreast
    <3>4. "executing" \in LeaseHolding
      BY DEF LeaseHolding
    <3>. QED  BY <1>1, <2>2, <2>3, <2>7, <3>1, <3>2, <3>3, <3>4, GoesKeeps DEF Onward
  <2>8. CASE Inspect(w)
    <3>1. UNCHANGED row /\ RowsBut(t) /\ owner'[t] = owner[t] /\ status'[t] = "executing"
      BY <1>1, <2>3, <2>8, WritesOne DEF Inspect
    <3>2. ASSUME w # Recovery, Reconciled(w, FALSE) PROVE OwnKept(w)
      <4>1. ~Timely
        BY <2>3, <3>2, ListsAtStartup
      <4>. QED  BY <2>5, <3>1, <3>2, <4>1
    <3>3. ASSUME Goto(w, "find"), Dangling(w), UNCHANGED <<hand, turn, base, todo, resumed, signals, drafts>>
          PROVE  OwnKept(w)
      <4>1. turn[w] \notin {turns[t][i] : i \in DOMAIN turns[t]} /\ "find" \in Reconciling /\ "find" \notin Holding
            /\ pc[w] \notin Holding
        BY <2>2, <2>8, <3>3 DEF Dangling, Committed, Reconciling, Dangles, Holding, Running, Planning, Executing, Inspect
      <4>. QED  BY <2>7, <3>1, <3>3, <4>1
    <3>4. ASSUME Goto(w, "take_resume"), UNCHANGED <<hand, turn, base, todo, resumed, signals, drafts>>
          PROVE  OwnKept(w)
      <4>1. "take_resume" \in Reconciling /\ "take_resume" \notin Dangles /\ "take_resume" \notin Holding
            /\ pc[w] \notin Holding
        BY <2>8 DEF Reconciling, Dangles, Holding, Running, Planning, Executing, Inspect
      <4>. QED  BY <2>7, <3>1, <3>4, <4>1
    <3>. QED  BY <2>8, <3>2, <3>3, <3>4 DEF Inspect
  <2>9. CASE FindJob(w)
    <3>1. UNCHANGED row /\ RowsBut(t) /\ owner'[t] = owner[t] /\ status'[t] = "executing"
      BY <1>1, <2>3, <2>9, WritesOne DEF FindJob
    <3>2. ASSUME LoadCoachFails, Reconciled(w, FALSE) PROVE OwnKept(w)
      BY <2>5, <3>1, <3>2, NoOutage
    <3>3. ASSUME NEW p \in {"take_cancel", "take_record", "take_halt", "take_resume"}, Goto(w, p),
                 UNCHANGED <<hand, turn, base, todo, resumed, signals, drafts>>
          PROVE  OwnKept(w)
      <4>1. p \in Reconciling /\ p \notin Holding /\ pc[w] \notin Holding /\ pc[w] \in Dangles
        BY <2>9 DEF Reconciling, Dangles, Holding, Running, Planning, Executing, FindJob
      <4>. QED  BY <2>4, <2>7, <3>1, <3>3, <4>1
    <3>4. Verdict(job[hand[w]][turn[w]]) \in {"take_cancel", "take_record", "take_halt", "take_resume"}
      BY DEF Verdict
    <3>. QED  BY <2>9, <3>2, <3>3, <3>4 DEF FindJob
  <2>10. CASE TakeOver(w)
    <3>1. TakeLease(t, w) /\ RowsBut(t) /\ owner'[t] = w /\ status'[t] = "executing"
      BY <1>1, <2>2, <2>3, <2>10, WritesOne DEF TakeOver
    <3>2. ASSUME Reconciled(w, TRUE) PROVE OwnKept(w)
      BY <2>6, <3>1, <3>2
    <3>3. ASSUME NEW p \in {"cancel_job", "load"}, Goto(w, p), pc[w] # "take_resume",
                 UNCHANGED <<hand, turn, base, todo, resumed, signals, drafts>>
          PROVE  OwnKept(w)
      <4>1. p \in Reconciling /\ p \in Holding /\ pc[w] \in Dangles
        BY <2>10, <3>3 DEF Reconciling, Dangles, Holding, TakeOver
      <4>. QED  BY <2>4, <2>7, <3>1, <3>3, <4>1
    <3>. QED  BY <2>2, <2>3, <2>10, <3>2, <3>3 DEF TakeOver
  <2>11. CASE CancelFoundJob(w)
    <3>0. pc[w] = "cancel_job" /\ owner[t] = w
      BY <1>1, <2>2, <2>11 DEF CancelFoundJob, Leased, Holding
    <3>1. UNCHANGED row /\ RowsBut(t) /\ owner'[t] = w /\ status'[t] = "executing"
      BY <1>1, <2>3, <2>11, <3>0, WritesOne DEF CancelFoundJob
    <3>2. CASE Reconciled(w, TRUE)
      BY <2>6, <3>1, <3>2
    <3>3. ASSUME LoadCoachFails, Reconciled(w, FALSE) PROVE OwnKept(w)
      BY <2>5, <3>1, <3>3, NoOutage
    <3>4. ASSUME LoadCoachFails, Goto(w, "take_halt"), UNCHANGED <<hand, turn, base, todo, resumed, signals, drafts>>
          PROVE  OwnKept(w)
      <4>1. "take_halt" \in Reconciling /\ "take_halt" \notin Dangles /\ "take_halt" \notin Holding
        BY DEF Reconciling, Dangles, Holding, Running, Planning, Executing
      <4>. QED  BY <2>7, <3>0, <3>1, <3>4, <4>1, NoOutage
    <3>. QED  BY <2>11, <3>2, <3>3, <3>4 DEF CancelFoundJob
  <2>12. CASE HaltRecovered(w)
    <3>1. End(t, "halted") /\ Reconciled(w, FALSE)
      BY <2>2, <2>3, <2>12 DEF HaltRecovered
    <3>2. RowsBut(t) /\ owner'[t] = NoOwner
      BY <1>1, <3>1, WritesOne
    <3>. QED  BY <2>5, <3>1, <3>2
  <2>13. CASE LoadFinished(w)
    <3>0. pc[w] = "load" /\ owner[t] = w
      BY <1>1, <2>2, <2>13 DEF LoadFinished, Leased, Holding
    <3>1. UNCHANGED row /\ RowsBut(t) /\ owner'[t] = w /\ status'[t] = "executing" /\ Owns(w, "executing")
      BY <1>1, <2>2, <2>3, <2>13, <3>0, WritesOne DEF LoadFinished, Owns
    <3>2. ASSUME LoadCoachFails, Reconciled(w, FALSE) PROVE OwnKept(w)
      BY <2>5, <3>1, <3>2, NoOutage
    <3>3. ASSUME Goto(w, "answered"), base' = [base EXCEPT ![w] = Len(turns[hand[w]])],
                 UNCHANGED <<hand, turn, todo, resumed, signals, drafts>>
          PROVE  OwnKept(w)
      <4>1. Cells(w, "answered", hand[w], turn[w], Len(turns[t]), todo[w], resumed[w], signals[w], drafts[w])
        BY <1>1, <2>2, <3>3 DEF TypeOK, Goto, Cells
      <4>2. "answered" \in Holding /\ "answered" \notin Planning /\ "answered" \notin Dangles
        BY DEF Holding, Running, Planning, Executing, Dangles
      <4>3. Abreast("answered", t, turn[w], Len(turns[t]), announced', turns')
        <5>1. announced' = announced /\ turns' = turns /\ pc[w] \in Dangles
          BY <2>1, <3>0 DEF Dangles
        <5>. QED  BY <2>3, <2>4, <5>1 DEF Abreast
      <4>4. "executing" \in LeaseHolding
        BY DEF LeaseHolding
      <4>. QED  BY <1>1, <2>2, <2>3, <3>1, <4>1, <4>2, <4>3, <4>4, GoesKeeps
    <3>. QED  BY <2>13, <3>1, <3>2, <3>3 DEF LoadFinished
  <2>. QED  BY <1>8, <2>8, <2>9, <2>10, <2>11, <2>12, <2>13
<1>. QED  BY <1>4, <1>5, <1>6, <1>7, <1>8 DEF Recover

LEMMA PassKeeps ==
  ASSUME IInv, Guarded, [Next]_vars, NEW w \in Threads, Pass(w), ~ResumedAll(w)
  PROVE  OwnKept(w)
<1>1. TypeOK /\ RowSound /\ Fit(w) /\ w # NoOwner
  BY OwnersAssumption DEF IInv, Guarded
<1>2. ASSUME NEW t \in Trajectories, Mine(w, t) PROVE status[t] \in LeaseHolding
  BY <1>1, <1>2, MineIsLeased
<1>3. CASE ApprovalsDone(w) \/ NothingReleased(w) \/ NothingQueued(w)
  <2>1. PICK p \in Passing : Ahead(w, p) /\ UNCHANGED row /\ pc[w] \in Passing
    BY <1>3 DEF ApprovalsDone, NothingReleased, NothingQueued, Ahead, Passing
  <2>2. Onward(w, p)
    BY <1>1, <2>1, Shapes DEF Ahead
  <2>. QED  BY <2>1, <2>2, StandKeeps DEF Onward, row
<1>4. ASSUME NEW t \in Trajectories, ExpireApproval(w, t) PROVE OwnKept(w)
  <2>1. Onward(w, "approvals")
    BY <1>1, <1>4 DEF ExpireApproval, memory, Onward, Cells, TypeOK
  <2>2. status[t] \notin LeaseHolding /\ RowsBut(t) /\ owner'[t] = NoOwner
    BY <1>1, <1>4, WritesOne DEF ExpireApproval, LeaseHolding
  <2>3. \A u \in Trajectories : /\ Mine(w, u) => status'[u] = status[u] /\ owner'[u] = owner[u]
                                /\ owner'[u] = w => owner[u] = w
    BY <1>1, <1>2, <2>2 DEF RowsBut
  <2>4. pc[w] \in Passing /\ "approvals" \in Passing
    BY <1>4 DEF ExpireApproval, Passing
  <2>. QED  BY <2>1, <2>3, <2>4, StandKeeps DEF Onward
<1>5. CASE ResumeNext(w)
  <2>1. PICK t \in resumed[w] : TakeUp(w, t, "start")
    BY <1>5 DEF ResumeNext
  <2>2. t \in Trajectories /\ owner[t] = w /\ status[t] \in LeaseHolding
    <3>1. t \in Trajectories
      BY <1>1, <2>1 DEF TypeOK
    <3>. QED  BY <1>1, <2>1, <3>1 DEF Fit, Snug, Leased
  <2>3. RowsBut(t) /\ owner'[t] = w /\ status'[t] \in LeaseHolding
    BY <1>1, <1>5, <2>2, WritesOne DEF ResumeNext
  <2>. QED  BY <1>5, <2>1, <2>2, <2>3, TakeKeeps DEF ResumeNext, Passing
<1>6. ASSUME NEW t \in Trajectories, ClaimReleased(w, t) PROVE OwnKept(w)
  <2>1. RowsBut(t) /\ owner'[t] = w /\ status'[t] \in LeaseHolding
    BY <1>1, <1>6, WritesOne DEF ClaimReleased, Released, LeaseHolding
  <2>. QED  BY <1>6, <2>1, TakeKeeps DEF ClaimReleased, Passing
<1>7. ASSUME NEW t \in Trajectories, Claim(w, t) PROVE OwnKept(w)
  <2>1. ASSUME TakeUp(w, t, "start"), NEW to \in LeaseHolding, Write(t, to, w, FALSE) PROVE OwnKept(w)
    <3>1. RowsBut(t) /\ owner'[t] = w /\ status'[t] \in LeaseHolding
      BY <1>1, <2>1, WritesOne
    <3>. QED  BY <1>7, <2>1, <3>1, TakeKeeps DEF Claim, Passing
  <2>2. ASSUME Goto(w, "reap"), UNCHANGED hand, Write(t, "awaiting_approval", NoOwner, TRUE) PROVE OwnKept(w)
    <3>1. Onward(w, "reap")
      BY <1>1, <1>7, <2>2, Shapes DEF Claim
    <3>2. status[t] \notin LeaseHolding /\ RowsBut(t) /\ owner'[t] = NoOwner
      BY <1>1, <1>7, <2>2, WritesOne DEF Claim, LeaseHolding
    <3>3. \A u \in Trajectories : /\ Mine(w, u) => status'[u] = status[u] /\ owner'[u] = owner[u]
                                  /\ owner'[u] = w => owner[u] = w
      BY <1>1, <1>2, <3>2 DEF RowsBut
    <3>4. pc[w] \in Passing /\ "reap" \in Passing
      BY <1>7 DEF Claim, Passing
    <3>. QED  BY <3>1, <3>3, <3>4, StandKeeps DEF Onward
  <2>. QED  BY <1>7, <2>1, <2>2 DEF Claim, LeaseHolding
<1>. QED  BY <1>3, <1>4, <1>5, <1>6, <1>7 DEF Pass

(* A run that gives its lease up leaves. *)
LEMMA RunKeeps ==
  ASSUME IInv, Guarded, NEW w \in Threads, pc[w] \in Running, NEW t, t = hand[w],
         Hold(t) \/ \E ending : End(t, ending),
         (pc[w] # "answered" /\ Leave(w)) \/ AfterTurn(w, FALSE)
  PROVE  OwnKept(w)
<1>1. TypeOK /\ Fit(w) /\ t \in Trajectories /\ NoOwner \notin {w, Former}
  BY HandTaken, OwnersAssumption DEF IInv, Guarded
<1>2. RowsBut(t) /\ owner'[t] = NoOwner
  BY <1>1, WritesOne
<1>3. CASE todo[w] = {} /\ Quits(w)
  BY <1>1, <1>2, <1>3, QuitKeeps
<1>4. CASE todo[w] # {} /\ Settles(w, FALSE)
  BY <1>1, <1>2, <1>4, SettleKeeps
<1>5. CASE pc[w] # "answered" /\ Leave(w)
  <2>1. todo[w] = {}
    BY <1>5, NothingListed
  <2>. QED  BY <1>1, <1>3, <1>5, <2>1, Shapes
<1>6. CASE AfterTurn(w, FALSE)
  BY <1>3, <1>4, <1>6, TurnEnds
<1>. QED  BY <1>5, <1>6

(* A run that goes on keeps its lease. *)
LEMMA LeaseKeeps ==
  ASSUME IInv, Guarded, NEW w \in Threads, pc[w] \in Running,
         NEW p \in Running, NEW n, NEW b, NEW sg, NEW dr,
         Cells(w, p, hand[w], n, b, todo[w], resumed[w], sg, dr), "lease_lost" \notin sg,
         UNCHANGED row, NEW t, t = hand[w],
         p \in Planning => pc[w] \in Planning \/ status[t] = "planning",
         p \in Executing => pc[w] \in Executing \/ status[t] = "executing",
         Abreast(p, t, n, b, announced', turns')
  PROVE  OwnKept(w)
<1>1. Fit(w) /\ TypeOK
  BY DEF Guarded, IInv
<1>2. /\ t \in Trajectories /\ owner[t] = w /\ status[t] \in LeaseHolding
      /\ pc[w] \in Planning => status[t] = "planning"
      /\ pc[w] \in Executing => status[t] = "executing"
  BY <1>1, RunsLeased
<1>3. RowsBut(t) /\ status'[t] = status[t] /\ owner'[t] = w
  BY <1>1, <1>2, WritesOne
<1>4. p \in Holding /\ p \notin {"dead", "redrafted"} /\ p \notin Reconciling
  BY DEF Holding, Running, Planning, Executing, Reconciling, Dangles
<1>. QED  BY <1>2, <1>3, <1>4, GoesKeeps

LEMMA PlanKeeps ==
  ASSUME IInv, Guarded, [Next]_vars, NEW w \in Threads, Plan(w)
  PROVE  OwnKept(w)
<1>1. pc[w] \in {"start"} \cup Planning
  BY DEF Plan, Start, FailToStart, StopDrafting, Draft, RecordAttempt, FailPlanning, Approve, Planning
<1>2. /\ pc[w] \in Running \ {"answered"}
      /\ \A p \in {"start"} \cup Planning \cup {"boundary"} : p \in Running /\ p \notin InFlight \cup Reconciling \cup Dangles \cup {"ready"}
  BY <1>1 DEF Planning, Running, Executing, InFlight, Reconciling, Dangles
<1>3. TypeOK /\ Fit(w) /\ "lease_lost" \notin signals[w]
  BY DEF IInv, Guarded, Fit, Snug
<1>4. PICK t \in Trajectories : /\ t = hand[w] /\ owner[t] = w /\ status[t] \in LeaseHolding
                                /\ pc[w] \in Planning => status[t] = "planning"
  BY <1>2, <1>3, RunsLeased
<1>5. todo[w] = {}
  BY <1>2, NothingListed
<1>6. ASSUME NEW p \in Planning \cup {"boundary"}, NEW dr, UNCHANGED row,
             Cells(w, p, hand[w], turn[w], base[w], todo[w], resumed[w], signals[w], dr),
             p \in Planning => pc[w] \in Planning \/ status[t] = "planning",
             p = "boundary" => status[t] = "executing"
      PROVE  OwnKept(w)
  <2>1. Abreast(p, t, turn[w], base[w], announced', turns')
    BY <1>2 DEF Abreast
  <2>2. p \in Executing => p = "boundary"
    BY <1>6 DEF Planning, Executing
  <2>. QED  BY <1>2, <1>3, <1>4, <1>6, <2>1, <2>2, LeaseKeeps
<1>7. CASE Start(w)
  <2>1. CASE status[t] = "planning"
    <3>1. Onward(w, "drafting")
      BY <1>3, <1>4, <1>7, <2>1, Shapes DEF Start
    <3>. QED  BY <1>6, <1>7, <2>1, <3>1 DEF Start, Onward, Planning
  <2>2. CASE status[t] = "executing"
    <3>1. Onward(w, "boundary")
      BY <1>3, <1>4, <1>7, <2>2, Shapes DEF Start
    <3>. QED  BY <1>6, <1>7, <2>2, <3>1 DEF Start, Onward, Planning
  <2>. QED  BY <1>4, <2>1, <2>2 DEF LeaseHolding
<1>8. CASE Draft(w)
  <2>1. PICK p \in Planning : \E dr : Cells(w, p, hand[w], turn[w], base[w], todo[w], resumed[w], signals[w], dr)
    <3>1. CASE Goto(w, "refused") /\ UNCHANGED drafts
      <4>1. Onward(w, "refused")
        BY <1>3, <1>8, <3>1, Shapes DEF Draft
      <4>. QED  BY <4>1 DEF Onward, Planning
    <3>2. CASE Goto(w, "drafted") /\ drafts' = [drafts EXCEPT ![w] = @ + 1]
      <4>1. Cells(w, "drafted", hand[w], turn[w], base[w], todo[w], resumed[w], signals[w], drafts[w] + 1)
        BY <1>3, <1>8, <3>2 DEF TypeOK, Draft, Goto, Cells
      <4>. QED  BY <4>1 DEF Planning
    <3>. QED  BY <1>8, <3>1, <3>2 DEF Draft
  <2>. QED  BY <1>6, <1>8, <2>1 DEF Draft, Planning
<1>9. CASE RecordAttempt(w)
  <2>1. PICK p \in Planning : Onward(w, p)
    <3>1. PICK p \in Planning : Goto(w, p)
      BY <1>9 DEF RecordAttempt, Planning
    <3>. QED  BY <1>3, <1>9, <3>1, Shapes DEF RecordAttempt
  <2>. QED  BY <1>6, <1>9, <2>1 DEF RecordAttempt, Onward, Planning
<1>10. CASE FailToStart(w) \/ StopDrafting(w) \/ FailPlanning(w)
            \/ (Leave(w) /\ (Hold(hand[w]) \/ End(hand[w], "rejected")))
  <2>1. Leave(w) /\ (Hold(t) \/ \E ending : End(t, ending))
    BY <1>4, <1>10 DEF FailToStart, StopDrafting, FailPlanning
  <2>. QED  BY <1>2, <1>4, <2>1, RunKeeps
<1>11. CASE /\ Write(hand[w], "executing", w, FALSE) /\ Goto(w, "start")
            /\ UNCHANGED <<hand, turn, base, todo, resumed, signals, drafts>>
  <2>1. Write(t, "executing", w, FALSE) /\ Onward(w, "start")
    BY <1>3, <1>4, <1>11, Shapes
  <2>2. RowsBut(t) /\ status'[t] = "executing" /\ owner'[t] = w
    BY <1>3, <2>1, WritesOne
  <2>3. Abreast("start", t, turn[w], base[w], announced', turns')
    BY <1>2 DEF Abreast
  <2>4. "start" \in Holding /\ "start" \notin Planning \cup Executing \cup Reconciling \cup {"redrafted", "dead"}
    BY DEF Holding, Running, Planning, Executing, Reconciling, Dangles
  <2>5. "executing" \in LeaseHolding
    BY DEF LeaseHolding
  <2>. QED  BY <1>3, <1>4, <1>5, <2>1, <2>2, <2>3, <2>4, <2>5, GoesKeeps DEF Onward
<1>. QED  BY <1>7, <1>8, <1>9, <1>10, <1>11 DEF Plan, Approve

LEMMA TurnKeeps ==
  ASSUME IInv, Guarded, [Next]_vars, NEW w \in Threads, Turn(w)
  PROVE  OwnKept(w)
<1>1. pc[w] \in Executing \cup {"approving", "drafting", "drafted", "refused"} /\ pc[w] \in Running
  BY DEF Turn, StopAtBoundary, CancelAtBoundary, Prepare, HaltBeforeTurn, AskBeforeTurn, Announce, Post, Refuse,
     Answer, TimeOut, LoseCall, FailUnreachable, NextTier, RetryTurn, HaltUnanswered, RecordAndContinue,
     RecordAndCommitStep, RecordAndEnd, RecordAndAsk, Collapse, LoseLease, Running, Planning, Executing
<1>2. /\ TypeOK /\ Fit(w) /\ "lease_lost" \notin signals[w]
      /\ Abreast(pc[w], hand[w], turn[w], base[w], announced, turns)
  BY DEF IInv, Guarded, Fit, Snug
<1>3. PICK t \in Trajectories : /\ t = hand[w] /\ owner[t] = w /\ status[t] \in LeaseHolding /\ ~pending[t]
                                /\ pc[w] \in Planning => status[t] = "planning"
                                /\ pc[w] \in Executing => status[t] = "executing"
  BY <1>1, <1>2, RunsLeased
<1>4. pc[w] \in Executing => Owns(w, "executing")
  BY <1>3 DEF Owns
<1>5. pc[w] \in Planning => Owns(w, "planning")
  BY <1>3 DEF Owns
(* Nothing of the record is changed but what this thread has in hand. *)
<1>6. ASSUME NEW p \in Executing, NEW n, NEW b, UNCHANGED row, pc[w] \in Executing,
             Cells(w, p, hand[w], n, b, todo[w], resumed[w], signals[w], drafts[w]),
             Abreast(p, t, n, b, announced', turns')
      PROVE  OwnKept(w)
  <2>1. p \in Running /\ p \notin Planning
    BY <1>6 DEF Running, Planning, Executing
  <2>. QED  BY <1>1, <1>2, <1>3, <1>6, <2>1, LeaseKeeps
<1>7. CASE Post(w) \/ Refuse(w) \/ Answer(w) \/ TimeOut(w) \/ LoseCall(w) \/ NextTier(w)
  <2>1. PICK p \in InFlight \cup {"ready"} : Goto(w, p) /\ UNCHANGED <<hand, turn, base, todo, resumed, signals, drafts>>
    <3>1. CASE Post(w) \/ Refuse(w)
      BY <3>1 DEF Post, Refuse, InFlight
    <3>2. CASE Answer(w)
      BY <3>2 DEF Answer, InFlight
    <3>3. CASE TimeOut(w)
      BY <3>3 DEF TimeOut, InFlight
    <3>4. CASE LoseCall(w)
      BY <3>4 DEF LoseCall, InFlight
    <3>5. CASE NextTier(w)
      BY <3>5 DEF NextTier, InFlight
    <3>. QED  BY <1>7, <3>1, <3>2, <3>3, <3>4, <3>5
  <2>2. pc[w] \in InFlight /\ pc[w] \in Executing /\ UNCHANGED row /\ UNCHANGED <<announced, turns>>
    BY <1>7 DEF Post, Refuse, Answer, TimeOut, LoseCall, NextTier, InFlight, Executing, record
  <2>3. Onward(w, p)
    BY <1>2, <2>1, Shapes
  <2>4. Abreast(p, t, turn[w], base[w], announced', turns')
    <3>1. p \notin Reconciling /\ p \notin Dangles
      BY <2>1 DEF InFlight, Reconciling, Dangles
    <3>. QED  BY <1>2, <1>3, <2>2, <3>1 DEF Abreast
  <2>5. p \in Executing
    BY <2>1 DEF InFlight, Executing
  <2>. QED  BY <1>6, <2>2, <2>3, <2>4, <2>5 DEF Onward
<1>8. CASE Prepare(w)
  <2>1. Cells(w, "ready", hand[w], turn[w], Len(turns[t]), todo[w], resumed[w], signals[w], drafts[w])
    BY <1>2, <1>3, <1>8 DEF TypeOK, Prepare, Goto, Cells
  <2>2. Abreast("ready", t, turn[w], Len(turns[t]), announced', turns')
    BY <1>8 DEF Prepare, record, Abreast, InFlight, Reconciling, Dangles
  <2>. QED  BY <1>6, <1>8, <2>1, <2>2 DEF Prepare, Executing
<1>9. CASE Announce(w)
  <2>1. Cells(w, "posting", hand[w], announced[t] + 1, base[w], todo[w], resumed[w], signals[w], drafts[w])
    BY <1>2, <1>3, <1>9 DEF TypeOK, Announce, Goto, Cells
  <2>2. announced'[t] = announced[t] + 1 /\ turns' = turns /\ base[w] = Len(turns[t])
    BY <1>2, <1>3, <1>9 DEF TypeOK, Announce, Abreast
  <2>3. announced[t] + 1 \notin {turns[t][i] : i \in DOMAIN turns[t]}
    <3>1. announced[t] \in Nat /\ turns[t] \in Seq(1 .. announced[t])
      BY <1>2, BoundsAssumption DEF TypeOK
    <3>2. \A i \in DOMAIN turns[t] : turns[t][i] \in 1 .. announced[t]
      BY <3>1
    <3>3. announced[t] + 1 \notin 1 .. announced[t]
      BY <3>1
    <3>. QED  BY <3>2, <3>3
  <2>4. Abreast("posting", t, announced[t] + 1, base[w], announced', turns')
    BY <2>2, <2>3 DEF Abreast
  <2>. QED  BY <1>6, <1>9, <2>1, <2>4 DEF Announce, Executing
(* The end of a turn that goes on, with or without a turn row. *)
<1>10. CASE RetryTurn(w) \/ RecordAndContinue(w) \/ RecordAndCommitStep(w)
  <2>1. AfterTurn(w, TRUE) /\ UNCHANGED row /\ pc[w] \in Executing
    BY <1>10 DEF RetryTurn, RecordAndContinue, RecordAndCommitStep, Executing
  <2>2. RowsBut(t) /\ owner'[t] = w /\ status'[t] = "executing"
    BY <1>2, <1>3, <2>1, WritesOne
  <2>3. CASE todo[w] # {} /\ Settles(w, TRUE)
    BY <1>3, <2>2, <2>3, SettleKeeps DEF LeaseHolding
  <2>4. CASE Onward(w, "boundary")
    <3>1. Abreast("boundary", t, turn[w], base[w], announced', turns')
      BY DEF Abreast, InFlight, Reconciling, Dangles
    <3>. QED  BY <1>6, <2>1, <2>4, <3>1 DEF Onward, Executing
  <2>. QED  BY <1>1, <2>1, <2>3, <2>4, TurnEnds
<1>11. CASE \/ CancelAtBoundary(w) \/ HaltBeforeTurn(w) \/ AskBeforeTurn(w) \/ FailUnreachable(w)
            \/ HaltUnanswered(w) \/ RecordAndEnd(w) \/ RecordAndAsk(w)
  <2>1. Hold(t) \/ \E ending : End(t, ending)
    BY <1>3, <1>11 DEF CancelAtBoundary, HaltBeforeTurn, AskBeforeTurn, FailUnreachable, HaltUnanswered, RecordAndEnd, RecordAndAsk
  <2>2. (pc[w] # "answered" /\ Leave(w)) \/ AfterTurn(w, FALSE)
    BY <1>11 DEF CancelAtBoundary, HaltBeforeTurn, AskBeforeTurn, FailUnreachable, HaltUnanswered, RecordAndEnd, RecordAndAsk
  <2>. QED  BY <1>1, <1>3, <2>1, <2>2, RunKeeps
(* Under the lease no run loses it, and none breaks. *)
<1>12. ~StopAtBoundary(w)
  BY <1>2 DEF StopAtBoundary
<1>13. ~LoseLease(w)
  BY <1>2, <1>4, <1>5 DEF LoseLease, Planning, Executing
<1>14. ~Collapse(w)
  <2>1. ~pending[hand[w]]
    BY <1>3
  <2>2. pc[w] = "answered" => ~Collides(w)
    BY <1>2 DEF Collides, Committed, Abreast, InFlight
  <2>. QED  BY <2>1, <2>2 DEF Collapse
<1>. QED  BY <1>7, <1>8, <1>9, <1>10, <1>11, <1>12, <1>13, <1>14 DEF Turn

LEMMA KeeperKeeps ==
  ASSUME IInv, Guarded, [Next]_vars, NEW w \in Threads, Keep(w)
  PROVE  OwnKept(w)
<1>1. TypeOK /\ Fit(w) /\ pc[w] \in Running /\ "lease_lost" \notin signals[w]
  BY DEF IInv, Guarded, Fit, Snug, Keep, Renew, CancelInFlight, Kept
<1>2. PICK t \in Trajectories : /\ t = hand[w] /\ owner[t] = w /\ status[t] \in LeaseHolding
                                /\ pc[w] \in Planning => status[t] = "planning"
                                /\ pc[w] \in Executing => status[t] = "executing"
  BY <1>1, RunsLeased
<1>3. PICK more \in SUBSET {"cancel_requested", "job_cancelled"} : signals' = [signals EXCEPT ![w] = @ \cup more]
  <2>1. CASE Renew(w)
    BY <1>2, <2>1 DEF Renew
  <2>2. CASE CancelInFlight(w)
    BY <2>2 DEF CancelInFlight
  <2>. QED  BY <2>1, <2>2 DEF Keep
<1>4. Cells(w, pc[w], hand[w], turn[w], base[w], todo[w], resumed[w], signals[w] \cup more, drafts[w])
  BY <1>1, <1>3 DEF TypeOK, Keep, Renew, CancelInFlight, Cells
<1>5. UNCHANGED <<status, owner, announced, turns>>
  BY DEF Keep, Renew, CancelInFlight, row, record
<1>6. RowsBut(t) /\ owner'[t] = w /\ status'[t] = status[t]
  BY <1>2, <1>5 DEF RowsBut
<1>7. pc[w] \in Holding /\ pc[w] \notin {"dead", "redrafted"} /\ pc[w] \notin Reconciling
  BY <1>1 DEF Holding, Running, Planning, Executing, Reconciling, Dangles
<1>8. Abreast(pc[w], t, turn[w], base[w], announced', turns')
  BY <1>1, <1>2, <1>5 DEF Fit, Snug
<1>9. "lease_lost" \notin signals[w] \cup more
  BY <1>1, <1>3
<1>. QED  BY <1>1, <1>2, <1>4, <1>6, <1>7, <1>8, <1>9, GoesKeeps

(* A pool of one has one thread running, startup recovery or the worker. *)
LEMMA LoneThread ==
  ASSUME IInv, Cardinality(pool) = 1, NEW w \in Workers, On(w), NEW v \in Threads \ {w}
  PROVE  ~On(v)
<1>1. pool \subseteq Workers /\ (\A u \in Workers \ pool : pc[u] = "off") /\ IsFiniteSet(Workers) /\ Shift
  BY BoundsAssumption DEF IInv, TypeOK
<1>2. IsFiniteSet(pool)
  BY <1>1, FS_Subset
<1>3. PICK x : pool = {x}
  BY <1>2, FS_Singleton
<1>4. CASE v = Recovery
  BY <1>1, <1>4 DEF Shift, On
<1>5. CASE v \in Workers
  BY <1>1, <1>3, <1>5 DEF On
<1>. QED  BY <1>4, <1>5 DEF Threads

(* Requests, the clock and LoadCoach leave the rows that threads count on. *)
LEMMA OutsideTouches ==
  ASSUME TypeOK, RowSound, NEW t \in Trajectories, Request(t) \/ LeaseExpires(t), NEW u \in Trajectories
  PROVE  /\ status[u] \in LeaseHolding => status'[u] = status[u] /\ owner'[u] = owner[u]
         /\ owner'[u] \in {owner[u], NoOwner}
         /\ UNCHANGED <<announced, turns>> /\ UNCHANGED memory
<1>1. CASE Submit(t)
  BY <1>1 DEF Submit, TypeOK, record, LeaseHolding
<1>2. CASE Cancel(t)
  <2>1. CASE status[t] \in LeaseHolding
    BY <1>2, <2>1 DEF Cancel, record
  <2>2. CASE status[t] \notin LeaseHolding
    BY <1>2, <2>2, WritesOne DEF Cancel, RowsBut, record
  <2>. QED  BY <2>1, <2>2
<1>3. CASE Grant(t)
  BY <1>3, WritesOne DEF Grant, RowsBut, record, LeaseHolding
<1>4. CASE Deny(t)
  BY <1>4, WritesOne DEF Deny, RowsBut, record, LeaseHolding
<1>5. CASE LeaseExpires(t)
  BY <1>5 DEF LeaseExpires, record
<1>. QED  BY <1>1, <1>2, <1>3, <1>4, <1>5 DEF Request

(* What an owner says before and after a thread's step. *)
LEMMA OwnersAfter ==
  ASSUME IInv, NEW w \in Threads, Step(w) \/ Keep(w), NEW t \in Trajectories
  PROVE  owner'[t] \in {owner[t], w, NoOwner}
<1>1. CASE Keep(w)
  BY <1>1 DEF Keep, Renew, CancelInFlight, row
<1>2. CASE WritesRow(w)
  BY <1>2 DEF WritesRow, Written, IInv, TypeOK
<1>3. CASE RowStays
  BY <1>3 DEF RowStays
<1>. QED  BY <1>1, <1>2, <1>3, ThreadWrites DEF IInv

(* While keepers keep their time, no lease runs out but before a restart. *)
LEMMA NothingExpires ==
  ASSUME IInv, Guarded, Timely, ~On(Recovery), NEW t \in Trajectories
  PROVE  ~LeaseExpires(t)
<1>1. SUFFICES ASSUME LeaseExpires(t) PROVE FALSE
  OBVIOUS
<1>2. Tidy /\ owner[t] # NoOwner /\ owner[t] \in Threads \cup {NoOwner, Former}
  BY <1>1 DEF Guarded, LeaseExpires, IInv, TypeOK
<1>3. PICK w \in Threads : owner[t] = w
  BY <1>2 DEF Tidy, Orphaned
<1>4. Held(w, t) /\ Shaped(pc[w], hand[w], todo[w], resumed[w], signals[w]) /\ "lease_lost" \notin signals[w]
  BY <1>2, <1>3 DEF Tidy, Guarded, Fit, Snug, IInv, Local, Fine
<1>5. w \in Workers
  <2>1. pc[w] # "off"
    BY <1>4 DEF Held, Shaped, Holding, Running, Planning, Executing, Recovering
  <2>. QED  BY <2>1 DEF On, Threads
<1>6. todo[w] = {} /\ resumed[w] = {}
  BY <1>2, <1>5 DEF Tidy
<1>7. Kept(w, t)
  BY <1>4, <1>6 DEF Held, Shaped, Holding, Kept, InRecovery, Recovering
<1>. QED  BY <1>1, <1>3, <1>7 DEF LeaseExpires, Timely

LEMMA OutsideGuarded ==
  ASSUME IInv, Guarded, [Next]_vars, UNCHANGED memory,
         \A u \in Trajectories :
            /\ status[u] \in LeaseHolding => status'[u] = status[u] /\ owner'[u] = owner[u]
            /\ owner'[u] \in {owner[u], NoOwner},
         UNCHANGED <<announced, turns>>,
         Timely /\ ~On(Recovery) => \A u \in Trajectories : ~expired'[u]
  PROVE  Guarded'
<1>1. ASSUME NEW w \in Threads PROVE Fit(w)'
  <2>1. Fit(w) /\ "lease_lost" \notin signals[w]
    BY DEF Guarded, Fit, Snug
  <2>2. \A t \in Trajectories : Mine(w, t) =>
           /\ status'[t] = status[t] /\ owner'[t] = owner[t] /\ announced'[t] = announced[t] /\ turns'[t] = turns[t]
    BY <2>1, MineIsLeased
  <2>. QED  BY <2>1, <2>2, FitStays DEF memory
<1>2. RecoveryOnly' /\ RecoversAlone'
  BY DEF Guarded, RecoveryOnly, RecoversAlone, On, memory
<1>3. ASSUME Timely PROVE Tidy'
  <2>1. Tidy
    BY <1>3 DEF Guarded
  <2>2. \A w \in Workers : todo'[w] = {} /\ resumed'[w] = {}
    BY <2>1 DEF Tidy, memory
  <2>3. ASSUME NEW w \in Threads, NEW t \in Trajectories, owner'[t] = w PROVE Held(w, t)'
    <3>1. owner[t] = w
      BY <2>3, OwnersAssumption
    <3>. QED  BY <2>1, <3>1 DEF Tidy, Held, memory
  <2>4. ASSUME NEW t \in Trajectories, owner'[t] = Former PROVE Orphaned(t)'
    <3>1. owner[t] = Former
      BY <2>4, OwnersAssumption
    <3>. QED  BY <2>1, <3>1 DEF Tidy, Orphaned, On, memory
  <2>5. ~On(Recovery)' => \A t \in Trajectories : ~expired'[t]
    BY <1>3 DEF On, memory
  <2>. QED  BY <2>2, <2>3, <2>4, <2>5 DEF Tidy
<1>. QED  BY <1>1, <1>2, <1>3 DEF Guarded

(* Where a step leaves the thread that takes it, ... *)
LEMMA Whereto ==
  ASSUME TypeOK, NEW w \in Threads, Step(w) \/ Keep(w), ~ResumedAll(w)
  PROVE  /\ pc'[w] # "off"
         /\ pc'[w] \in {"approvals", "released", "queued"} =>
               pc[w] \in {"approvals", "released", "queued"} \/ w # Recovery
         /\ pc[w] = "reap" /\ w = Recovery => Reap(w)
<1>. DEFINE Goal == /\ pc'[w] # "off"
                    /\ pc'[w] \in {"approvals", "released", "queued"} =>
                          pc[w] \in {"approvals", "released", "queued"} \/ w # Recovery
                    /\ pc[w] = "reap" /\ w = Recovery => Reap(w)
<1>0. /\ \A p : Goto(w, p) => pc'[w] = p
      /\ \A t, p : TakeUp(w, t, p) => pc'[w] = p
      /\ Leave(w) => pc'[w] \in {"resume", "reap"}
      /\ \A held : Reconciled(w, held) => pc'[w] = "recover"
      /\ \A again : AfterTurn(w, again) => pc'[w] \in {"recover", "boundary", "resume", "reap"}
      /\ Dies(w) => pc'[w] = "dead"
      /\ pc' = pc => pc'[w] = pc[w]
  <2>1. \A p : Goto(w, p) => pc'[w] = p
    BY DEF Goto, TypeOK
  <2>2. \A t, p : TakeUp(w, t, p) => pc'[w] = p
    BY <2>1 DEF TakeUp
  <2>3. Leave(w) => pc'[w] \in {"resume", "reap"}
    BY <2>1 DEF Leave
  <2>4. \A held : Reconciled(w, held) => pc'[w] = "recover"
    BY <2>1 DEF Reconciled
  <2>5. \A again : AfterTurn(w, again) => pc'[w] \in {"recover", "boundary", "resume", "reap"}
    BY <2>1, <2>3, <2>4 DEF AfterTurn
  <2>6. Dies(w) => pc'[w] = "dead"
    BY <2>1 DEF Dies
  <2>. QED  BY <2>1, <2>2, <2>3, <2>4, <2>5, <2>6
<1>1. CASE Keep(w)
  BY <1>1 DEF Keep, Renew, CancelInFlight, Kept, Running, Planning, Executing
<1>2. CASE Recover(w)
  <2>1. CASE Reap(w) \/ NotYetDue(w)
    BY <1>0, <2>1 DEF Reap, NotYetDue
  <2>2. CASE RecoveryListDone(w) \/ Redraft(w) \/ RecordRedraft(w) \/ ReadEvents(w)
    BY <1>0, <2>2 DEF RecoveryListDone, Redraft, RecordRedraft, ReadEvents
  <2>3. CASE Inspect(w) \/ FindJob(w) \/ TakeOver(w) \/ CancelFoundJob(w) \/ HaltRecovered(w) \/ LoadFinished(w)
    <3>1. \A state : Verdict(state) \in {"take_cancel", "take_record", "take_halt", "take_resume"}
      BY DEF Verdict
    <3>. QED  BY <1>0, <2>3, <3>1 DEF Inspect, FindJob, TakeOver, CancelFoundJob, HaltRecovered, LoadFinished
  <2>. QED  BY <1>2, <2>1, <2>2, <2>3 DEF Recover
<1>3. CASE Pass(w)
  BY <1>0, <1>3 DEF Pass, ResumeNext, ApprovalsDone, NothingReleased, NothingQueued, ExpireApproval,
     ClaimReleased, Claim, memory
<1>4. CASE Plan(w)
  BY <1>0, <1>4 DEF Plan, Start, FailToStart, StopDrafting, Draft, RecordAttempt, FailPlanning, Approve
<1>5. CASE Turn(w)
  BY <1>0, <1>5 DEF Turn, StopAtBoundary, CancelAtBoundary, Prepare, HaltBeforeTurn, AskBeforeTurn, Announce, Post, Refuse,
     Answer, TimeOut, LoseCall, FailUnreachable, NextTier, RetryTurn, HaltUnanswered, RecordAndContinue,
     RecordAndCommitStep, RecordAndEnd, RecordAndAsk, Collapse, LoseLease
<1>. QED  BY <1>1, <1>2, <1>3, <1>4, <1>5 DEF Step

(* ... and the leases: a thread lets none run out. *)
LEMMA RunsNothingOut ==
  ASSUME TypeOK, NEW w \in Threads, Step(w) \/ Keep(w), NEW t \in Trajectories, expired'[t]
  PROVE  expired[t]
<1>1. UNCHANGED expired \/ (\E h : expired' = [expired EXCEPT ![h] = FALSE])
  <2>0. \A u, to, by, asks : Write(u, to, by, asks) => expired' = [expired EXCEPT ![u] = FALSE]
    BY DEF Write
  <2>1. CASE Recover(w)
    BY <2>0, <2>1 DEF Recover, Reap, NotYetDue, RecoveryListDone, Redraft, RecordRedraft, ReadEvents, Inspect,
       FindJob, TakeOver, CancelFoundJob, HaltRecovered, LoadFinished, row, TakeLease, End
  <2>2. CASE Pass(w)
    BY <2>0, <2>2 DEF Pass, ResumeNext, ResumedAll, ApprovalsDone, NothingReleased, NothingQueued, ExpireApproval,
       ClaimReleased, Claim, row, TakeLease, End
  <2>3. CASE Plan(w)
    BY <2>0, <2>3 DEF Plan, Start, FailToStart, StopDrafting, Draft, RecordAttempt, FailPlanning, Approve, row, End, Hold
  <2>4. CASE Turn(w)
    BY <2>0, <2>4 DEF Turn, StopAtBoundary, CancelAtBoundary, Prepare, HaltBeforeTurn, AskBeforeTurn, Announce, Post,
       Refuse, Answer, TimeOut, LoseCall, FailUnreachable, NextTier, RetryTurn, HaltUnanswered,
       RecordAndContinue, RecordAndCommitStep, RecordAndEnd, RecordAndAsk, Collapse, LoseLease, row, End, Hold
  <2>5. CASE Keep(w)
    BY <2>5 DEF Keep, Renew, CancelInFlight, row
  <2>. QED  BY <2>1, <2>2, <2>3, <2>4, <2>5 DEF Step
<1>. QED  BY <1>1 DEF TypeOK

LEMMA ThreadGuarded ==
  ASSUME IInv, Guarded, Disciplined, [Next]_vars, NEW w \in Threads, Step(w) \/ Keep(w), ~ResumedAll(w)
  PROVE  Guarded'
<1>0. /\ TypeOK /\ Shift /\ pc[w] \notin {"off", "dead"} /\ Recovery \in Threads /\ On(w)
      /\ pc'[w] # "off" /\ Workers \subseteq Threads /\ Threads = Workers \cup {Recovery}
  BY StepsAreAwake, Whereto DEF IInv, Threads, On
<1>1. OwnKept(w)
  BY RecoveryKeeps, PassKeeps, PlanKeeps, TurnKeeps, KeeperKeeps DEF Step
<1>2. PICK p, h, n, b, td, rs, sg, dr : Cells(w, p, h, n, b, td, rs, sg, dr)
  BY ThreadMoves DEF Moves
<1>3. ASSUME NEW v \in Threads \ {w}
      PROVE  /\ pc'[v] = pc[v] /\ hand'[v] = hand[v] /\ turn'[v] = turn[v] /\ base'[v] = base[v]
             /\ todo'[v] = todo[v] /\ resumed'[v] = resumed[v] /\ signals'[v] = signals[v]
  BY <1>0, <1>2, CellsRead
<1>4. ASSUME NEW v \in Threads PROVE Fit(v)'
  <2>1. CASE v = w
    BY <1>1, <2>1 DEF OwnKept
  <2>2. CASE v # w
    <3>1. Fit(v) /\ "lease_lost" \notin signals[v] /\ RecoversAlone /\ \A u \in Threads : Fit(u)
      BY DEF Guarded, Fit, Snug
    <3>2. \A t \in Trajectories : Mine(v, t) =>
             /\ status'[t] = status[t] /\ owner'[t] = owner[t] /\ announced'[t] = announced[t] /\ turns'[t] = turns[t]
      BY <2>2, <3>1, Untouched
    <3>3. v \in Threads \ {w}
      BY <2>2
    <3>. QED  BY <1>3, <3>1, <3>2, <3>3, FitStays
  <2>. QED  BY <2>1, <2>2
<1>5. RecoveryOnly'
  <2>1. CASE w = Recovery
    BY <1>0, <2>1, Whereto DEF RecoveryOnly, Guarded
  <2>2. CASE w # Recovery
    BY <1>0, <1>3, <2>2 DEF RecoveryOnly, Guarded, On
  <2>. QED  BY <2>1, <2>2
(* A worker in time finds no lease that ran out. *)
<1>6. ASSUME Timely, w \in Workers PROVE todo[w] = {} /\ todo'[w] = {}
  <2>1. todo[w] = {} /\ \A t \in Trajectories : ~expired[t]
    BY <1>0, <1>6 DEF Guarded, Tidy, Shift, On
  <2>2. CASE Reap(w)
    <3>1. w # Recovery
      BY <1>6, OwnersAssumption
    <3>. QED  BY <1>0, <2>1, <2>2, <3>1 DEF Reap, TypeOK
  <2>. QED  BY <1>1, <2>1, <2>2 DEF OwnKept
<1>7. RecoversAlone'
  <2>1. SUFFICES ASSUME NEW u \in Threads, todo'[u] # {}, NEW v \in Threads \ {u} PROVE ~On(v)'
    BY DEF RecoversAlone
  <2>2. u = w
    <3>1. CASE u # w
      <4>1. todo[u] # {} /\ w \in Threads \ {u}
        BY <1>3, <2>1, <3>1
      <4>. QED  BY <1>0, <4>1 DEF Guarded, RecoversAlone
    <3>. QED  BY <3>1
  <2>3. ~On(v)
    <3>1. CASE todo[w] # {}
      BY <2>1, <2>2, <3>1 DEF Guarded, RecoversAlone
    <3>2. CASE w = Recovery
      BY <1>0, <2>1, <2>2, <3>2 DEF Shift, On
    <3>3. CASE w \in Workers
      <4>1. ~Timely
        BY <1>6, <2>1, <2>2, <3>3
      <4>. QED  BY <1>0, <2>1, <2>2, <3>3, <4>1, LoneThread DEF Disciplined
    <3>. QED  BY <1>0, <3>2, <3>3
  <2>. QED  BY <1>3, <2>1, <2>2, <2>3 DEF On
<1>8. ASSUME Timely PROVE Tidy'
  <2>1. Tidy
    BY <1>8 DEF Guarded
  <2>2. ASSUME NEW v \in Workers PROVE todo'[v] = {} /\ resumed'[v] = {}
    <3>1. CASE v = w
      BY <1>1, <1>6, <1>8, <2>1, <2>2, <3>1 DEF OwnKept, Tidy
    <3>2. CASE v # w
      BY <1>0, <1>3, <2>1, <2>2, <3>2 DEF Tidy
    <3>. QED  BY <3>1, <3>2
  <2>3. ASSUME NEW v \in Threads, NEW t \in Trajectories, owner'[t] = v PROVE Held(v, t)'
    <3>1. CASE v = w
      BY <1>1, <1>8, <2>3, <3>1 DEF OwnKept
    <3>2. CASE v # w
      <4>1. owner[t] = v
        BY <2>3, <3>2, OwnersAfter, OwnersAssumption
      <4>2. Held(v, t)
        BY <2>1, <4>1 DEF Tidy
      <4>. QED  BY <1>3, <3>2, <4>2 DEF Held
    <3>. QED  BY <3>1, <3>2
  <2>4. ASSUME NEW t \in Trajectories, owner'[t] = Former PROVE Orphaned(t)'
    <3>1. owner[t] = Former
      BY <1>0, <2>4, OwnersAfter, OwnersAssumption
    <3>2. Orphaned(t)
      BY <2>1, <3>1 DEF Tidy
    <3>3. w = Recovery
      BY <1>0, <3>2 DEF Orphaned, Shift, On
    <3>4. CASE pc[w] = "reap"
      <4>1. Reap(w)
        BY <1>0, <3>3, <3>4, Whereto
      <4>2. status[t] \in LeaseHolding /\ Former \notin Threads
        BY <3>1, OwnersAssumption DEF IInv, RowSound
      <4>3. <<t, status[t]>> \in todo'[w]
        <5>1. todo'[w] = {<<u, status[u]>> : u \in {u \in Trajectories :
                 /\ status[u] \in LeaseHolding /\ (owner[u] \notin Threads \/ expired[u])}}
          BY <1>0, <3>3, <4>1 DEF Reap, TypeOK
        <5>. QED  BY <3>1, <4>2, <5>1
      <4>4. \E e \in todo'[w] : e[1] = t
        BY <4>3
      <4>. QED  BY <1>0, <3>3, <4>4 DEF Orphaned, On
    <3>5. CASE \E e \in todo[w] : e[1] = t
      <4>1. \E e \in todo'[w] : e[1] = t
        BY <1>1, <1>8, <2>4, <3>5 DEF OwnKept
      <4>. QED  BY <1>0, <3>3, <4>1 DEF Orphaned, On
    <3>. QED  BY <3>2, <3>3, <3>4, <3>5 DEF Orphaned
  <2>5. ASSUME ~On(Recovery)', NEW t \in Trajectories PROVE ~expired'[t]
    <3>1. ~On(Recovery)
      BY <1>0, <1>3, <2>5 DEF On
    <3>. QED  BY <1>0, <2>1, <3>1, RunsNothingOut DEF Tidy
  <2>. QED  BY <2>2, <2>3, <2>4, <2>5 DEF Tidy
<1>. QED  BY <1>4, <1>5, <1>7, <1>8 DEF Guarded

(* A thread with an empty memory counts on nothing. *)
LEMMA FitAtRest ==
  ASSUME NEW w \in Threads, pc'[w] \in {"off", "reap", "approvals"}, todo'[w] = {}, resumed'[w] = {},
         "lease_lost" \notin signals'[w]
  PROVE  Fit(w)' /\ \A t : ~Held(w, t)'
<1>1. pc'[w] \notin Holding \cup Reconciling \cup InFlight \cup Dangles \cup {"ready", "dead", "redrafted"}
                      \cup Planning \cup Executing
  BY DEF Holding, Running, Planning, Executing, Reconciling, InFlight, Dangles
<1>. QED  BY <1>1 DEF Fit, Snug, Leased, Abreast, Held

(* When a thread is done with what its recovery resumed, nobody has anything on
   its list, and whoever goes elsewhere holds nothing. *)
LEMMA ShiftRests ==
  ASSUME IInv, Guarded, [Next]_vars, NEW w \in Threads, ResumedAll(w)
  PROVE  \A v \in Threads :
            /\ todo[v] = {}
            /\ \/ pc'[v] = pc[v] /\ v # w /\ w # Recovery
               \/ pc[v] \in {"off", "resume"} /\ resumed[v] = {} /\ pc'[v] \in {"off", "reap", "approvals"}
<1>. DEFINE q(v) == IF w = Recovery THEN IF v \in pool THEN "reap" ELSE "off"
                    ELSE IF v = w THEN "approvals" ELSE pc[v]
<1>0. /\ pc' = [v \in Threads |-> q(v)] /\ pc[w] = "resume" /\ resumed[w] = {}
      /\ UNCHANGED <<row, record, hand, turn, base, todo, resumed, signals>>
  BY DEF ResumedAll
<1>1. /\ TypeOK /\ Shift /\ Recovery \in Threads /\ Recovery \notin pool
      /\ \A v \in Threads : Fit(v) /\ "lease_lost" \notin signals[v]
      /\ \A v \in Threads : Shaped(pc[v], hand[v], todo[v], resumed[v], signals[v])
  BY OwnersAssumption DEF IInv, Guarded, Fit, Snug, Threads, TypeOK, Local, Fine
<1>2. ASSUME NEW v \in Threads
      PROVE  /\ todo[v] = {}
             /\ \/ pc'[v] = pc[v] /\ v # w /\ w # Recovery
                \/ pc[v] \in {"off", "resume"} /\ resumed[v] = {} /\ pc'[v] \in {"off", "reap", "approvals"}
  <2>1. todo[w] = {}
    BY <1>0, <1>1 DEF Shaped, Recovering
  <2>2. CASE v = w
    BY <1>0, <2>1, <2>2
  <2>3. CASE v # w
    <3>1. todo[v] = {}
      BY <1>0, <2>3 DEF Guarded, RecoversAlone, On
    <3>2. CASE w = Recovery
      <4>1. pc[v] = "off"
        BY <1>0, <1>1, <2>3, <3>2 DEF Shift, Threads
      <4>2. resumed[v] = {}
        BY <1>1, <4>1 DEF Shaped, Recovering, Running, Planning, Executing
      <4>. QED  BY <1>0, <3>1, <3>2, <4>1, <4>2
    <3>. QED  BY <1>0, <2>3, <3>1, <3>2
  <2>. QED  BY <2>2, <2>3
<1>. QED  BY <1>2

LEMMA ShiftGuarded ==
  ASSUME IInv, Guarded, [Next]_vars, NEW w \in Threads, ResumedAll(w)
  PROVE  Guarded'
<1>. DEFINE q(v) == IF w = Recovery THEN IF v \in pool THEN "reap" ELSE "off"
                    ELSE IF v = w THEN "approvals" ELSE pc[v]
<1>0. /\ pc' = [v \in Threads |-> q(v)] /\ pc[w] = "resume" /\ resumed[w] = {}
      /\ UNCHANGED <<row, record, hand, turn, base, todo, resumed, signals>>
  BY DEF ResumedAll
<1>1. /\ TypeOK /\ Shift /\ Recovery \in Threads /\ Recovery \notin pool
      /\ \A v \in Threads : Fit(v) /\ "lease_lost" \notin signals[v]
      /\ \A v \in Threads : Shaped(pc[v], hand[v], todo[v], resumed[v], signals[v])
  BY OwnersAssumption DEF IInv, Guarded, Fit, Snug, Threads, TypeOK, Local, Fine
<1>2. \A v \in Threads :
        /\ todo[v] = {}
        /\ \/ pc'[v] = pc[v] /\ v # w /\ w # Recovery
           \/ pc[v] \in {"off", "resume"} /\ resumed[v] = {} /\ pc'[v] \in {"off", "reap", "approvals"}
  BY ShiftRests
<1>3. ASSUME NEW v \in Threads PROVE Fit(v)'
  <2>1. CASE pc'[v] = pc[v]
    <3>1. \A t \in Trajectories : status'[t] = status[t] /\ owner'[t] = owner[t] /\ announced'[t] = announced[t]
                                  /\ turns'[t] = turns[t]
      BY <1>0 DEF row, record
    <3>. QED  BY <1>0, <1>1, <2>1, <3>1, FitStays
  <2>2. CASE pc'[v] \in {"off", "reap", "approvals"} /\ resumed[v] = {}
    <3>1. todo'[v] = {} /\ resumed'[v] = {} /\ "lease_lost" \notin signals'[v]
      BY <1>0, <1>1, <1>2, <2>2
    <3>. QED  BY <2>2, <3>1, FitAtRest
  <2>. QED  BY <1>2, <2>1, <2>2
<1>4. RecoveryOnly'
  BY <1>0, <1>1 DEF Guarded, RecoveryOnly, On
<1>5. RecoversAlone'
  BY <1>0, <1>2 DEF RecoversAlone
<1>6. ASSUME Timely PROVE Tidy'
  <2>1. Tidy
    BY <1>6 DEF Guarded
  <2>2. ASSUME NEW v \in Threads, NEW t \in Trajectories, owner[t] = v
        PROVE  w # Recovery /\ Held(v, t)'
    <3>1. Held(v, t)
      BY <2>1, <2>2 DEF Tidy
    <3>2. "off" \notin Holding /\ "resume" \notin Holding
      BY DEF Holding, Running, Planning, Executing
    <3>. QED  BY <1>0, <1>2, <3>1, <3>2 DEF Held
  <2>3. ASSUME NEW t \in Trajectories PROVE owner[t] # Former
    <3>1. ~Orphaned(t)
      BY <1>0, <1>1, <1>2 DEF Orphaned, Shift, On, Threads
    <3>. QED  BY <2>1, <3>1 DEF Tidy
  <2>4. ASSUME ~On(Recovery)', NEW t \in Trajectories PROVE ~expired'[t]
    <3>1. expired' = expired /\ owner[t] \in Threads \cup {NoOwner, Former}
      BY <1>0, <1>1 DEF row, TypeOK
    <3>2. CASE w = Recovery
      <4>1. owner[t] = NoOwner
        BY <2>2, <2>3, <3>1, <3>2
      <4>. QED  BY <3>1, <4>1 DEF IInv, RowSound
    <3>3. CASE w # Recovery
      <4>1. ~On(Recovery)
        BY <1>0, <1>1, <2>4, <3>3 DEF On
      <4>. QED  BY <2>1, <3>1, <4>1 DEF Tidy
    <3>. QED  BY <3>2, <3>3
  <2>. QED  BY <1>0, <2>1, <2>2, <2>3, <2>4 DEF Tidy, row
<1>. QED  BY <1>3, <1>4, <1>5, <1>6 DEF Guarded

(* A process that starts finds the leases of one that is gone. *)
LEMMA CrashGuarded ==
  ASSUME IInv, Crash
  PROVE  Guarded'
<1>1. /\ \A w \in Threads : /\ pc'[w] = IF w = Recovery THEN "reap" ELSE "off"
                            /\ todo'[w] = {} /\ resumed'[w] = {} /\ signals'[w] = {}
      /\ Recovery \in Threads /\ Workers \subseteq Threads
  BY DEF Crash, Threads
<1>2. \A w \in Threads : Fit(w)'
  BY <1>1, FitAtRest
<1>3. RecoveryOnly' /\ RecoversAlone'
  BY <1>1 DEF RecoveryOnly, RecoversAlone
<1>4. ASSUME Timely PROVE Tidy'
  <2>1. owner' = [t \in Trajectories |-> IF owner[t] \in Threads THEN Former ELSE owner[t]]
    BY <1>4 DEF Crash, Timely
  <2>2. \A t \in Trajectories : owner'[t] \notin Threads
    BY <2>1, OwnersAssumption
  <2>3. On(Recovery)' /\ pc'[Recovery] = "reap"
    BY <1>1 DEF On
  <2>. QED  BY <1>1, <2>2, <2>3 DEF Tidy, Orphaned
<1>. QED  BY <1>2, <1>3, <1>4 DEF Guarded

LEMMA InitiallyGuarded ==
  ASSUME Init
  PROVE  Guarded
<1>1. /\ \A w \in Threads : /\ pc[w] = IF w = Recovery THEN "reap" ELSE "off"
                            /\ todo[w] = {} /\ resumed[w] = {} /\ signals[w] = {}
      /\ Recovery \in Threads /\ Workers \subseteq Threads
      /\ \A t \in Trajectories : owner[t] = NoOwner
  BY DEF Init, Threads
<1>2. ASSUME NEW w \in Threads PROVE Fit(w)
  <2>1. pc[w] \notin Holding \cup Reconciling \cup InFlight \cup Dangles \cup {"ready", "dead", "redrafted"}
                       \cup Planning \cup Executing
    BY <1>1 DEF Holding, Running, Planning, Executing, Reconciling, InFlight, Dangles
  <2>. QED  BY <1>1, <2>1 DEF Fit, Snug, Leased, Abreast
<1>3. RecoveryOnly /\ RecoversAlone /\ Tidy
  BY <1>1, OwnersAssumption DEF RecoveryOnly, RecoversAlone, Tidy, On
<1>. QED  BY <1>2, <1>3 DEF Guarded

LEMMA GuardStays ==
  ASSUME IInv, Guarded, Disciplined, [Next]_vars
  PROVE  Guarded'
<1>0. TypeOK /\ RowSound /\ RecoveryOnly
  BY DEF IInv, Guarded
<1>1. ASSUME NEW t \in Trajectories, Request(t) \/ LeaseExpires(t) PROVE Guarded'
  <2>1. \A u \in Trajectories :
            /\ status[u] \in LeaseHolding => status'[u] = status[u] /\ owner'[u] = owner[u]
            /\ owner'[u] \in {owner[u], NoOwner}
    BY <1>0, <1>1, OutsideTouches
  <2>2. UNCHANGED <<announced, turns>> /\ UNCHANGED memory
    BY <1>0, <1>1, OutsideTouches
  <2>3. ASSUME Timely, ~On(Recovery), NEW u \in Trajectories PROVE ~expired'[u]
    <3>1. ~expired[u] /\ Request(t)
      BY <1>1, <2>3, NothingExpires DEF Guarded, Tidy
    <3>2. UNCHANGED expired \/ expired' = [expired EXCEPT ![t] = FALSE]
      BY <3>1 DEF Request, Submit, Cancel, Grant, Deny, End, Write
    <3>. QED  BY <1>0, <3>1, <3>2 DEF TypeOK
  <2>. QED  BY <2>1, <2>2, <2>3, OutsideGuarded
<1>2. CASE UNCHANGED vars \/ \E t \in Trajectories, i \in 1 .. MaxAnnounced : JobEnds(t, i)
  <2>1. UNCHANGED <<status, owner, expired, announced, turns>> /\ UNCHANGED memory
    BY <1>2 DEF JobEnds, vars, row, record
  <2>2. Timely /\ ~On(Recovery) => \A u \in Trajectories : ~expired'[u]
    BY <2>1 DEF Guarded, Tidy
  <2>. QED  BY <2>1, <2>2, OutsideGuarded
<1>3. ASSUME NEW w \in Threads, Step(w) \/ Keep(w) PROVE Guarded'
  BY <1>3, ThreadGuarded, ShiftGuarded
<1>. QED  BY <1>1, <1>2, <1>3, CrashGuarded DEF Next

(* With one worker thread, whatever stalls or fails, and with any number of them
   while keepers keep their time, nobody works on what another one holds. *)
THEOREM LeasesGuard == Spec => [](Disciplined => Guarded)
<1>1. Init => (Disciplined => Guarded)
  BY InitiallyGuarded
<1>2. IInv /\ (Disciplined => Guarded) /\ [Next]_vars => (Disciplined => Guarded)'
  <2>1. ASSUME IInv, [Next]_vars PROVE Disciplined' <=> Disciplined
    <3>1. pool' = pool
      BY <2>1, OutsideKept DEF IInv
    <3>. QED  BY <3>1 DEF Disciplined, Timely
  <2>. QED  BY <2>1, GuardStays
<1>. QED  BY <1>1, <1>2, Invariance, PTL DEF Spec

LEMMA LoneIsDisciplined ==
  ASSUME Cardinality(pool) = 1
  PROVE  Disciplined
BY DEF Disciplined

(* One worker thread, which is the default, is never lost to an exception that
   nobody catches, whatever its keeper, LoadCoach and the process id do. *)
THEOREM OneWorkerSurvives == Spec => []LoneWorkerSurvives
<1>1. (Disciplined => Guarded) => LoneWorkerSurvives
  BY LoneIsDisciplined DEF Guarded, Fit, Snug, LoneWorkerSurvives, ThreadsSurvive
<1>. QED  BY LeasesGuard, <1>1, PTL

(* It writes a turn row only while the row names it as owner, ... *)
THEOREM OneWorkerIsFenced == Spec => LoneWorkerIsFenced
<1>1. IInv /\ (Disciplined => Guarded) /\ [Next]_vars => [Cardinality(pool) = 1 => FencedStep]_vars
  <2>1. SUFFICES ASSUME IInv, Guarded, [Next]_vars, NEW t \in Trajectories, turns'[t] # turns[t]
                 PROVE  \E w \in Threads : hand[w] = t /\ owner[t] = w /\ turns'[t] = Append(turns[t], turn[w])
    BY LoneIsDisciplined DEF FencedStep
  <2>. QED  BY <2>1, RecordIsFenced DEF Guarded
<1>. QED  BY LeasesGuard, Invariance, <1>1, PTL DEF Spec, LoneWorkerIsFenced

(* ... and adds nothing to the record of a trajectory that has ended. *)
THEOREM EndedIsClosed == Spec => EndedRecordIsClosed
<1>. DEFINE Closed == \A t \in Trajectories : status[t] \in Terminal =>
                         /\ turns'[t] = turns[t] /\ announced'[t] = announced[t]
                         /\ retries'[t] = retries[t]
<1>1. ASSUME IInv, Guarded, [Next]_vars PROVE Closed
  <2>1. SUFFICES ASSUME NEW t \in Trajectories, status[t] \in Terminal,
                        announced'[t] # announced[t] \/ turns'[t] # turns[t] \/ retries'[t] # retries[t]
                 PROVE  FALSE
    OBVIOUS
  <2>2. status[t] = "executing"
    BY <1>1, <2>1, RecordIsFenced DEF Guarded
  <2>. QED  BY <2>1, <2>2 DEF Terminal
<1>2. IInv /\ (Disciplined => Guarded) /\ [Next]_vars => [Cardinality(pool) = 1 => Closed]_vars
  BY <1>1, LoneIsDisciplined
<1>. QED  BY LeasesGuard, Invariance, <1>2, PTL DEF Spec, EndedRecordIsClosed

(* While keepers keep their time, LoadCoach answers and process ids are not used
   twice, it is so for every number of worker threads: no two of them work on one
   trajectory, ... *)
THEOREM OneOwnerRuns == Spec => [](Disciplined => OwnerAloneRuns)
<1>1. IInv /\ Guarded => OwnerAloneRuns
  <2>1. Planning \cup Executing \subseteq Running
    BY DEF Running
  <2>. QED  BY <2>1, RunsLeased DEF Guarded, OwnerAloneRuns
<1>. QED  BY LeasesGuard, Invariance, <1>1, PTL

(* ... none of them is lost, ... *)
THEOREM NoThreadIsLost == Spec => [](Disciplined => ThreadsSurvive)
<1>1. Guarded => ThreadsSurvive
  BY DEF Guarded, Fit, Snug, ThreadsSurvive
<1>. QED  BY LeasesGuard, <1>1, PTL

(* ... and each writes turn rows only under its lease. *)
THEOREM EveryTurnIsFenced == ASSUME Timely PROVE Spec => TurnsAreFenced
<1>1. IInv /\ Guarded /\ [Next]_vars => [FencedStep]_vars
  BY RecordIsFenced DEF Guarded, FencedStep
<1>2. Disciplined
  BY DEF Disciplined
<1>. QED  BY LeasesGuard, Invariance, <1>1, <1>2, PTL DEF Spec, TurnsAreFenced

(* ------------------------------- the jobs -------------------------------- *)

NoneRuns(t) == \A i \in 1 .. MaxAnnounced : job[t][i] # "running"

(* A job that runs is that of the last turn that was announced, which is not
   recorded, of a trajectory that executes under a lease. *)
JobsAt(t) == \A i \in 1 .. MaxAnnounced :
    /\ i > announced[t] => job[t][i] = "none"
    /\ job[t][i] = "running" => /\ i = announced[t] /\ i \notin Committed(t)
                                /\ status[t] = "executing" /\ owner[t] # NoOwner

(* Where a thread is sure that no job runs for what it has in hand. *)
Sure == (Running \ {"calling", "unreachable"}) \cup {"take_resume", "take_record", "take_halt", "load"}

Calm(w) ==
    /\ pc[w] # "unreachable"
    /\ pc[w] \in Sure => NoneRuns(hand[w])
    /\ \A t \in resumed[w] : t # hand[w] => NoneRuns(t)

Jobs == (\A t \in Trajectories : JobsAt(t)) /\ \A w \in Threads : Calm(w)

(* A thread starts the job of the turn in hand, or cancels it. *)
Cancels(w) ==
    /\ job[hand[w]][turn[w]] = "running"
    /\ job' = [job EXCEPT ![hand[w]][turn[w]] = "cancelled"]

LEMMA JobMoves ==
  ASSUME IInv, NEW w \in Threads, Step(w) \/ Keep(w)
  PROVE  job' = job \/ Post(w) \/ Cancels(w)
<1>1. ASSUME pc[w] \in InFlight \cup Dangles,
             \/ job' = [job EXCEPT ![hand[w]][turn[w]] = "cancelled"] /\ job[hand[w]][turn[w]] = "running"
             \/ job' = [job EXCEPT ![hand[w]][turn[w]] = IF @ = "running" THEN "cancelled" ELSE @]
      PROVE  job' = job \/ Cancels(w)
  <2>1. PICK t \in Trajectories : t = hand[w]
    BY <1>1, HandTaken DEF IInv, InFlight, Dangles, Running, Executing, Recovering
  <2>2. PICK i \in 1 .. MaxAnnounced : i = turn[w]
    BY <1>1, <2>1 DEF IInv, Local, Fine, Sized, Shaped, TypeOK
  <2>3. job \in [Trajectories -> [1 .. MaxAnnounced -> JobStates]]
    BY DEF IInv, TypeOK
  <2>4. CASE job[t][i] = "running"
    BY <1>1, <2>1, <2>2, <2>4 DEF Cancels
  <2>5. CASE job[t][i] # "running"
    <3>1. job' = [job EXCEPT ![t][i] = job[t][i]]
      BY <1>1, <2>1, <2>2, <2>5
    <3>2. [job EXCEPT ![t][i] = job[t][i]] = job
      BY <2>3
    <3>. QED  BY <3>1, <3>2
  <2>. QED  BY <2>4, <2>5
<1>2. CASE Recover(w)
  <2>1. CASE CancelFoundJob(w)
    BY <1>1, <2>1 DEF CancelFoundJob, Dangles
  <2>. QED  BY <1>2, <2>1 DEF Recover, Reap, NotYetDue, RecoveryListDone, Redraft, RecordRedraft, ReadEvents, Inspect,
     FindJob, TakeOver, HaltRecovered, LoadFinished, record
<1>3. CASE Pass(w)
  BY <1>3 DEF Pass, ResumeNext, ResumedAll, ApprovalsDone, NothingReleased, NothingQueued, ExpireApproval,
     ClaimReleased, Claim, record
<1>4. CASE Plan(w)
  BY <1>4 DEF Plan, Start, FailToStart, StopDrafting, Draft, RecordAttempt, FailPlanning, Approve, record
<1>5. CASE RecordAndContinue(w) \/ RecordAndCommitStep(w) \/ RecordAndEnd(w) \/ RecordAndAsk(w) \/ Announce(w) \/ RetryTurn(w)
  BY <1>5 DEF RecordAndContinue, RecordAndCommitStep, RecordAndEnd, RecordAndAsk, CommitTurn, Announce, RetryTurn
<1>6. CASE TimeOut(w) \/ LoseCall(w)
  BY <1>1, <1>6 DEF TimeOut, LoseCall, InFlight
<1>7. CASE Keep(w)
  BY <1>1, <1>7 DEF Keep, Renew, CancelInFlight, record, InFlight
<1>8. CASE \/ StopAtBoundary(w) \/ CancelAtBoundary(w) \/ Prepare(w) \/ HaltBeforeTurn(w) \/ AskBeforeTurn(w)
           \/ Refuse(w) \/ Answer(w) \/ FailUnreachable(w) \/ NextTier(w)
           \/ HaltUnanswered(w) \/ Collapse(w) \/ LoseLease(w)
  BY <1>8 DEF StopAtBoundary, CancelAtBoundary, Prepare, HaltBeforeTurn, AskBeforeTurn,
     Refuse, Answer, FailUnreachable, NextTier, HaltUnanswered, Collapse, LoseLease, record
<1>. QED  BY <1>2, <1>3, <1>4, <1>5, <1>6, <1>7, <1>8 DEF Step, Turn

LEMMA JobAfter ==
  ASSUME IInv, NEW w \in Threads, Step(w) \/ Keep(w), NEW t \in Trajectories, NEW i \in 1 .. MaxAnnounced,
         job'[t][i] # job[t][i]
  PROVE  /\ t = hand[w] /\ i = turn[w]
         /\ \/ Post(w) /\ job'[t][i] = "running"
            \/ job[t][i] = "running" /\ job'[t][i] = "cancelled"
<1>1. job \in [Trajectories -> [1 .. MaxAnnounced -> JobStates]]
  BY DEF IInv, TypeOK
<1>2. ASSUME NEW s, job' = [job EXCEPT ![hand[w]][turn[w]] = s] PROVE t = hand[w] /\ i = turn[w] /\ job'[t][i] = s
  BY <1>1, <1>2
<1>3. CASE Post(w)
  BY <1>2, <1>3 DEF Post
<1>4. CASE Cancels(w)
  BY <1>2, <1>4 DEF Cancels
<1>. QED  BY <1>3, <1>4, JobMoves

LEMMA NoneStays ==
  ASSUME IInv, NEW w \in Threads, Step(w) \/ Keep(w), NEW t \in Trajectories, NoneRuns(t),
         ~Post(w) \/ t # hand[w]
  PROVE  NoneRuns(t)'
BY JobAfter DEF NoneRuns

(* While a thread waits for a job the row stays, ... *)
LEMMA CallingWaits ==
  ASSUME NEW w \in Threads, Step(w) \/ Keep(w), pc[w] = "calling"
  PROVE  Answer(w) \/ TimeOut(w) \/ LoseCall(w) \/ Keep(w)
<1>1. ~Recover(w)
  BY DEF Recover, Reap, NotYetDue, RecoveryListDone, Redraft, RecordRedraft, ReadEvents, Inspect,
     FindJob, TakeOver, CancelFoundJob, HaltRecovered, LoadFinished
<1>2. ~Pass(w)
  BY DEF Pass, ResumeNext, ResumedAll, ApprovalsDone, NothingReleased, NothingQueued, ExpireApproval,
     ClaimReleased, Claim
<1>3. ~Plan(w)
  BY DEF Plan, Start, FailToStart, StopDrafting, Draft, RecordAttempt, FailPlanning, Approve
<1>4. CASE Turn(w)
  BY <1>4 DEF Turn, StopAtBoundary, CancelAtBoundary, Prepare, HaltBeforeTurn, AskBeforeTurn, Announce, Post, Refuse,
     FailUnreachable, NextTier, RetryTurn, HaltUnanswered, RecordAndContinue,
     RecordAndCommitStep, RecordAndEnd, RecordAndAsk, Collapse, LoseLease
<1>. QED  BY <1>1, <1>2, <1>3, <1>4 DEF Step

(* ... and recovery ends a trajectory only where it has no job left. *)
LEMMA RecoveryEnds ==
  ASSUME TypeOK, NEW w \in Threads, Recover(w), ~HaltRecovered(w), NEW t \in Trajectories
  PROVE  status'[t] = status[t] /\ owner'[t] \in {owner[t], w}
<1>1. UNCHANGED row \/ \E u \in Trajectories : TakeLease(u, w)
  <2>1. TakeOver(w) => UNCHANGED row \/ (status[hand[w]] = "executing" /\ TakeLease(hand[w], w) /\ hand[w] \in Trajectories)
    BY DEF TakeOver, TypeOK, Passing
  <2>2. CASE TakeOver(w)
    BY <2>1, <2>2
  <2>. QED  BY <2>2 DEF Recover, Reap, NotYetDue, RecoveryListDone, Redraft, RecordRedraft, ReadEvents, Inspect,
     FindJob, CancelFoundJob, LoadFinished
<1>2. ASSUME NEW u \in Trajectories, TakeLease(u, w) PROVE status'[t] = status[t] /\ owner'[t] \in {owner[t], w}
  BY <1>2 DEF TakeLease, Write, TypeOK
<1>. QED  BY <1>1, <1>2 DEF row

(* The row of a trajectory for which a job runs goes on executing. *)
LEMMA JobsHoldRows ==
  ASSUME IInv, Jobs, NEW w \in Threads, Step(w) \/ Keep(w), NEW t \in Trajectories, ~NoneRuns(t)
  PROVE  status'[t] = "executing" /\ owner'[t] # NoOwner
<1>0. TypeOK /\ RowSound /\ status[t] = "executing" /\ owner[t] # NoOwner /\ w # NoOwner
  BY OwnersAssumption DEF IInv, Jobs, JobsAt, NoneRuns
<1>1. CASE UNCHANGED <<status, owner>>
  BY <1>0, <1>1
<1>2. CASE Keep(w)
  BY <1>1, <1>2 DEF Keep, Renew, CancelInFlight, row
<1>3. CASE HaltRecovered(w)
  <2>1. t # hand[w]
    BY <1>3 DEF HaltRecovered, Jobs, Calm, Sure
  <2>2. status'[t] = status[t] /\ owner'[t] = owner[t]
    BY <1>0, <1>3, <2>1 DEF HaltRecovered, End, Write, row, TypeOK
  <2>. QED  BY <1>0, <2>2
<1>4. CASE Recover(w) /\ ~HaltRecovered(w)
  BY <1>0, <1>4, RecoveryEnds
<1>5. ASSUME \A u \in Trajectories : Touches(w, u) => u # t, Step(w)
      PROVE  status'[t] = "executing" /\ owner'[t] # NoOwner
  <2>1. CASE RowStays
    BY <1>0, <2>1 DEF RowStays
  <2>2. CASE WritesRow(w)
    <3>1. PICK u \in Trajectories, to \in States, by \in {w, NoOwner}, mints \in BOOLEAN :
            Touches(w, u) /\ Allowed(u, to, by, mints) /\ Written(u, to, by, mints)
      BY <2>2 DEF WritesRow
    <3>2. u # t
      BY <1>5, <3>1
    <3>. QED  BY <1>0, <3>1, <3>2 DEF Written, TypeOK
  <2>. QED  BY <1>0, <1>5, <2>1, <2>2, ThreadWrites
<1>6. CASE Pass(w)
  <2>1. pc[w] \in Passing
    BY <1>6 DEF Pass, ResumeNext, ResumedAll, ApprovalsDone, NothingReleased, NothingQueued, ExpireApproval,
       ClaimReleased, Claim, Passing
  <2>2. \A u \in Trajectories : Touches(w, u) => u # t
    BY <1>0, <2>1 DEF Touches, Passing, Running, Planning, Executing, Recovering
  <2>. QED  BY <1>5, <1>6, <2>2 DEF Step
<1>7. CASE pc[w] = "calling"
  BY <1>1, <1>2, <1>7, CallingWaits DEF Answer, TimeOut, LoseCall, row
<1>8. CASE (Plan(w) \/ Turn(w)) /\ pc[w] # "calling"
  <2>1. pc[w] \in Running
    BY <1>8 DEF Plan, Start, FailToStart, StopDrafting, Draft, RecordAttempt, FailPlanning, Approve,
       Turn, StopAtBoundary, CancelAtBoundary, Prepare, HaltBeforeTurn, AskBeforeTurn, Announce, Post, Refuse,
       Answer, TimeOut, LoseCall, FailUnreachable, NextTier, RetryTurn, HaltUnanswered, RecordAndContinue,
       RecordAndCommitStep, RecordAndEnd, RecordAndAsk, Collapse, LoseLease, Running, Planning, Executing
  <2>2. hand[w] # t
    BY <1>8, <2>1 DEF Jobs, Calm, Sure
  <2>3. \A u \in Trajectories : Touches(w, u) => u # t
    BY <1>0, <2>1, <2>2 DEF Touches, Passing, Running, Planning, Executing, Recovering
  <2>. QED  BY <1>5, <1>8, <2>3 DEF Step
<1>. QED  BY <1>2, <1>3, <1>4, <1>6, <1>7, <1>8 DEF Step

LEMMA JobsAtStay ==
  ASSUME IInv, Guarded, Jobs, [Next]_vars, NEW w \in Threads, Step(w) \/ Keep(w), NEW t \in Trajectories
  PROVE  JobsAt(t)'
<1>. SUFFICES ASSUME NEW i \in 1 .. MaxAnnounced
              PROVE  /\ i > announced'[t] => job'[t][i] = "none"
                     /\ job'[t][i] = "running" => /\ i = announced'[t] /\ i \notin Committed(t)'
                                                  /\ status'[t] = "executing" /\ owner'[t] # NoOwner
  BY DEF JobsAt
<1>0. /\ announced[t] \in Nat /\ announced'[t] \in Nat /\ announced[t] <= announced'[t] /\ MaxAnnounced \in Nat
      /\ JobsAt(t) /\ TypeOK
  <2>1. announced' \in [Trajectories -> 0 .. MaxAnnounced] /\ announced[t] <= announced'[t]
    BY RecordKept
  <2>2. announced \in [Trajectories -> 0 .. MaxAnnounced] /\ MaxAnnounced \in Nat /\ TypeOK
    BY BoundsAssumption DEF IInv, TypeOK
  <2>. QED  BY <2>1, <2>2 DEF Jobs
<1>1. ASSUME Post(w), t = hand[w], i = turn[w]
      PROVE  /\ i = announced[t] /\ announced'[t] = announced[t] /\ Committed(t)' = Committed(t) /\ i \notin Committed(t)
             /\ status'[t] = "executing" /\ owner'[t] # NoOwner
  <2>1. pc[w] \in InFlight /\ pc[w] \in Executing /\ pc[w] \in Running
    BY <1>1 DEF Post, InFlight, Executing, Running
  <2>2. Fit(w) /\ Abreast(pc[w], hand[w], turn[w], base[w], announced, turns)
    BY DEF Guarded, Fit, Snug
  <2>3. owner[t] = w /\ status[t] = "executing"
    BY <1>1, <2>1, <2>2, RunsLeased
  <2>. QED  BY <1>1, <2>1, <2>2, <2>3, OwnersAssumption DEF Post, row, Abreast, Committed
<1>2. ASSUME job[t][i] = "running"
      PROVE  announced'[t] = announced[t] /\ Committed(t)' = Committed(t)
  <2>1. ~NoneRuns(t)
    BY <1>2 DEF NoneRuns
  <2>2. pc[w] \in {"ready", "answered"} => hand[w] # t
    BY <2>1 DEF Jobs, Calm, Sure, Running, Executing
  <2>3. announced'[t] = announced[t]
    BY <1>0, <2>2, ThreadRecord DEF Announce, TypeOK
  <2>4. turns'[t] = turns[t]
    BY <2>2, ThreadRecord DEF Commits, CommitTurn, IInv
  <2>. QED  BY <2>3, <2>4 DEF Committed
<1>3. i > announced'[t] => job'[t][i] = "none"
  <2>1. ASSUME i > announced'[t] PROVE job[t][i] = "none"
    BY <1>0, <2>1 DEF JobsAt
  <2>2. ASSUME i > announced'[t], job'[t][i] # job[t][i] PROVE FALSE
    <3>1. Post(w) /\ t = hand[w] /\ i = turn[w]
      BY <2>1, <2>2, JobAfter
    <3>. QED  BY <1>0, <1>1, <2>2, <3>1
  <2>. QED  BY <2>1, <2>2
<1>4. ASSUME job'[t][i] = "running"
      PROVE  /\ i = announced'[t] /\ i \notin Committed(t)'
             /\ status'[t] = "executing" /\ owner'[t] # NoOwner
  <2>1. CASE job[t][i] = "running"
    <3>1. ~NoneRuns(t)
      BY <2>1 DEF NoneRuns
    <3>. QED  BY <1>0, <1>2, <2>1, <3>1, JobsHoldRows DEF JobsAt
  <2>2. CASE job[t][i] # "running"
    <3>1. Post(w) /\ t = hand[w] /\ i = turn[w]
      BY <1>4, <2>2, JobAfter
    <3>. QED  BY <1>1, <3>1
  <2>. QED  BY <2>1, <2>2
<1>. QED  BY <1>3, <1>4

(* What another thread is sure of stays so: it holds the lease, or is alone. *)
LEMMA CalmOthers ==
  ASSUME IInv, Guarded, Jobs, [Next]_vars, NEW w \in Threads, Step(w) \/ Keep(w), ~ResumedAll(w),
         NEW v \in Threads \ {w}
  PROVE  Calm(v)'
<1>1. PICK p, h, n, b, td, rs, sg, dr : Cells(w, p, h, n, b, td, rs, sg, dr)
  BY ThreadMoves DEF Moves
<1>2. pc'[v] = pc[v] /\ hand'[v] = hand[v] /\ resumed'[v] = resumed[v]
  BY <1>1, CellsRead DEF IInv
<1>3. ASSUME NEW t \in Trajectories, NoneRuns(t), t \in resumed[v] \/ (t = hand[v] /\ pc[v] \in Sure)
      PROVE  NoneRuns(t)'
  <2>1. CASE Post(w) /\ t = hand[w]
    <3>1. pc[w] \in Running /\ On(w)
      BY <2>1, StepsAreAwake DEF Post, Running, Executing, On
    <3>2. owner[t] = w /\ todo[v] = {}
      BY <2>1, <3>1, RunsLeased DEF Guarded, RecoversAlone
    <3>3. pc[v] \in Sure => pc[v] \in Running \cup {"load"}
      BY <3>2 DEF Sure, IInv, Local, Fine, Shaped, Recovering
    <3>4. Held(v, t)
      BY <1>3, <3>3 DEF Held, Holding
    <3>5. owner[t] = v
      BY <3>4 DEF Guarded, Fit, Snug, Leased, Held
    <3>. QED  BY <3>2, <3>5
  <2>. QED  BY <1>3, <2>1, NoneStays
<1>4. ASSUME pc[v] \in Sure PROVE NoneRuns(hand[v])'
  <2>1. PICK t \in Trajectories : t = hand[v]
    BY <1>4, HandTaken DEF IInv, Sure, Recovering
  <2>2. NoneRuns(t)
    BY <1>4, <2>1 DEF Jobs, Calm
  <2>3. NoneRuns(t)'
    BY <1>3, <1>4, <2>1, <2>2
  <2>. QED  BY <1>2, <2>1, <2>3 DEF NoneRuns
<1>5. ASSUME NEW t \in resumed[v], t # hand[v] PROVE NoneRuns(t)'
  <2>1. t \in Trajectories
    BY DEF IInv, TypeOK
  <2>. QED  BY <1>3, <1>5, <2>1 DEF Jobs, Calm
<1>. QED  BY <1>2, <1>4, <1>5 DEF Jobs, Calm, NoneRuns

(* A thread's own step: what it has in hand afterwards, and what it lays by. *)
LEMMA CalmGoes ==
  ASSUME IInv, Jobs, NEW w \in Threads, Step(w) \/ Keep(w), ~Post(w),
         NEW p, NEW h, NEW rs, pc'[w] = p, hand'[w] = h, resumed'[w] = rs,
         p # "unreachable", p \in Sure => h \in Trajectories /\ (NoneRuns(h) \/ NoneRuns(h)'),
         \A t \in rs : t # h => /\ t \in Trajectories
                                /\ (t \in resumed[w] /\ t # hand[w]) \/ NoneRuns(t) \/ NoneRuns(t)'
  PROVE  Calm(w)'
<1>1. \A t \in Trajectories : NoneRuns(t) => NoneRuns(t)'
  BY NoneStays
<1>2. p \in Sure => NoneRuns(h)'
  BY <1>1
<1>3. \A t \in rs : t # h => NoneRuns(t)'
  BY <1>1 DEF Jobs, Calm
<1>. QED  BY <1>2, <1>3 DEF Calm, NoneRuns

LEMMA QuitCalm ==
  ASSUME IInv, Jobs, NEW w \in Threads, Step(w) \/ Keep(w), ~Post(w), Quits(w)
  PROVE  Calm(w)'
<1>. DEFINE p == IF hand[w] \in resumed[w] THEN "resume" ELSE "reap"
            rs == resumed[w] \ {hand[w]}
<1>1. pc'[w] = p /\ hand'[w] = NoTrajectory /\ resumed'[w] = rs
  BY CellsRead DEF IInv, Quits
<1>2. p # "unreachable" /\ p \notin Sure
  BY DEF Sure, Running, Planning, Executing
<1>3. \A t \in rs : t \in Trajectories /\ t \in resumed[w] /\ t # hand[w]
  BY DEF IInv, TypeOK
<1>. HIDE DEF p, rs
<1>. QED  BY <1>1, <1>2, <1>3, CalmGoes

LEMMA SettleCalm ==
  ASSUME IInv, Jobs, NEW w \in Threads, Step(w) \/ Keep(w), ~Post(w), NEW held \in BOOLEAN, Settles(w, held),
         NEW t \in Trajectories, t = hand[w], todo[w] # {}, held => NoneRuns(t) \/ NoneRuns(t)'
  PROVE  Calm(w)'
<1>. DEFINE rs == IF held THEN resumed[w] \cup {t} ELSE resumed[w]
<1>1. pc'[w] = "recover" /\ hand'[w] = NoTrajectory /\ resumed'[w] = rs
  BY CellsRead DEF IInv, Settles
<1>2. "recover" \notin Sure
  BY DEF Sure, Running, Planning, Executing
<1>3. t \notin resumed[w]
  <2>1. pc[w] \notin {"off", "dead", "recover"} \cup Passing
    BY OwnersAssumption DEF IInv, TypeOK
  <2>2. pc[w] \in (Recovering \ {"recover"}) \cup {"answered"}
    BY <2>1 DEF IInv, Local, Fine, Shaped
  <2>3. (\E e \in todo[w] : e[1] = t) /\ \A e \in todo[w] : e[1] \notin resumed[w]
    BY <2>2 DEF IInv, Local, Fine, Shaped
  <2>. QED  BY <2>3
<1>4. \A u \in rs : /\ u \in Trajectories
                    /\ (u \in resumed[w] /\ u # hand[w]) \/ (held /\ u = t)
  BY <1>3 DEF IInv, TypeOK
<1>5. \A u \in rs : /\ u \in Trajectories
                    /\ (u \in resumed[w] /\ u # hand[w]) \/ NoneRuns(u) \/ NoneRuns(u)'
  BY <1>4 DEF NoneRuns
<1>. HIDE DEF rs
<1>. QED  BY <1>1, <1>2, <1>5, CalmGoes

LEMMA OnwardCalm ==
  ASSUME IInv, Jobs, NEW w \in Threads, Step(w) \/ Keep(w), ~Post(w), NEW p,
         pc'[w] = p, hand'[w] = hand[w], resumed'[w] = resumed[w], p # "unreachable",
         p \in Sure => hand[w] \in Trajectories /\ (NoneRuns(hand[w]) \/ NoneRuns(hand[w])')
  PROVE  Calm(w)'
<1>1. \A t \in resumed[w] : t \in Trajectories
  BY DEF IInv, TypeOK
<1>. QED  BY <1>1, CalmGoes

(* The job that dangles is that of the last turn: what LoadCoach says of it goes
   for the trajectory. *)
LEMMA LastOnly ==
  ASSUME IInv, Jobs, NEW w \in Threads, NEW t \in Trajectories, t = hand[w], turn[w] = announced[t],
         \/ turn[w] = 0 \/ turn[w] \in Committed(t)
         \/ turn[w] \in 1 .. MaxAnnounced /\ job[t][turn[w]] # "running"
  PROVE  NoneRuns(t)
<1>1. SUFFICES ASSUME NEW i \in 1 .. MaxAnnounced, job[t][i] = "running" PROVE FALSE
  BY DEF NoneRuns
<1>2. i = turn[w] /\ i \notin Committed(t)
  BY <1>1 DEF Jobs, JobsAt
<1>. QED  BY <1>1, <1>2, BoundsAssumption

LEMMA RecoveryCalm ==
  ASSUME IInv, Guarded, Jobs, ~LoadCoachFails, [Next]_vars, NEW w \in Threads, Recover(w)
  PROVE  Calm(w)'
<1>0. TypeOK /\ Step(w) /\ Fit(w) /\ Calm(w)
  BY DEF IInv, Step, Guarded, Jobs
<1>1. ~Post(w)
  <2>1. pc[w] # "posting"
    BY DEF Recover, Reap, NotYetDue, RecoveryListDone, Redraft, RecordRedraft, ReadEvents, Inspect,
       FindJob, TakeOver, CancelFoundJob, HaltRecovered, LoadFinished
  <2>. QED  BY <2>1 DEF Post
<1>2. ASSUME NEW p \in {"recover", "approvals", "resume"}, Goto(w, p), hand' = hand, resumed' = resumed
      PROVE  Calm(w)'
  <2>1. p \notin Sure
    BY DEF Sure, Running, Planning, Executing
  <2>2. pc'[w] = p
    BY <1>0, <1>2 DEF Goto, TypeOK
  <2>. QED  BY <1>0, <1>1, <1>2, <2>1, <2>2, OnwardCalm
<1>3. CASE Reap(w) \/ NotYetDue(w) \/ RecoveryListDone(w)
  BY <1>2, <1>3 DEF Reap, NotYetDue, RecoveryListDone
<1>4. ASSUME NEW t \in Trajectories, NEW p \in {"redrafted", "inspect"}, pc[w] = "recover", TakeUp(w, t, p), resumed' = resumed
      PROVE  Calm(w)'
  <2>1. p \notin Sure
    BY DEF Sure, Running, Planning, Executing
  <2>2. pc'[w] = p /\ hand'[w] = t /\ hand[w] = NoTrajectory
    BY <1>0, <1>4 DEF TakeUp, Goto, TypeOK
  <2>3. \A u \in resumed[w] : u \in Trajectories /\ u # hand[w]
    BY <1>0, <2>2, OwnersAssumption DEF TypeOK
  <2>. QED  BY <1>0, <1>1, <1>4, <2>1, <2>2, <2>3, CalmGoes
<1>5. ASSUME pc[w] = "recover", UNCHANGED <<pc, hand, resumed>> PROVE Calm(w)'
  <2>1. "recover" \notin Sure
    BY DEF Sure, Running, Planning, Executing
  <2>. QED  BY <1>0, <1>1, <1>5, <2>1, OnwardCalm
<1>6. CASE Redraft(w)
  BY <1>4, <1>5, <1>6 DEF Redraft
<1>7. CASE ReadEvents(w)
  BY <1>4, <1>5, <1>7 DEF ReadEvents
<1>8. ASSUME pc[w] \in Recovering \ {"recover"} PROVE Calm(w)'
  <2>1. PICK t \in Trajectories : t = hand[w]
    BY <1>8, HandTaken DEF IInv
  <2>2. todo[w] # {}
    BY <1>8 DEF IInv, Local, Fine, Shaped
  <2>3. pc[w] \in Sure => NoneRuns(t)
    BY <1>0, <2>1 DEF Calm
  <2>4. ASSUME NEW held \in BOOLEAN, Reconciled(w, held), held => NoneRuns(t) \/ NoneRuns(t)' PROVE Calm(w)'
    BY <1>0, <1>1, <2>1, <2>2, <2>4, Shapes, SettleCalm
  <2>5. ASSUME NEW p \in Recovering \cup {"answered"}, Goto(w, p), hand' = hand, resumed' = resumed,
               p \in Sure => NoneRuns(t) \/ NoneRuns(t)'
        PROVE  Calm(w)'
    <3>1. pc'[w] = p /\ p # "unreachable"
      BY <1>0, <2>5 DEF Goto, TypeOK, Recovering
    <3>. QED  BY <1>0, <1>1, <2>1, <2>5, <3>1, OnwardCalm DEF NoneRuns
  <2>6. pc[w] \in Reconciling => turn[w] = announced[t]
    BY <1>0, <2>1 DEF Fit, Snug, Abreast
  <2>7. pc[w] \in Dangles => turn[w] \in 1 .. MaxAnnounced
    <3>1. pc[w] \in Dangles => turn[w] \in 1 .. announced[t]
      BY <2>1 DEF IInv, Local, Fine, Sized
    <3>2. announced[t] \in 0 .. MaxAnnounced /\ MaxAnnounced \in Nat
      BY <1>0, BoundsAssumption DEF TypeOK
    <3>. QED  BY <3>1, <3>2
  <2>8. CASE RecordRedraft(w)
    <3>1. NoneRuns(t)
      <4>1. status[t] # "executing"
        BY <1>0, <2>1, <2>8 DEF RecordRedraft, Fit, Snug, Leased
      <4>. QED  BY <4>1 DEF Jobs, JobsAt, NoneRuns
    <3>2. CASE Dies(w)
      <4>1. pc'[w] = "dead" /\ hand'[w] = NoTrajectory /\ resumed'[w] = {}
        BY <1>0, <3>2 DEF Dies, Goto, Forget, TypeOK
      <4>2. "dead" \notin Sure
        BY DEF Sure, Running, Planning, Executing
      <4>. QED  BY <1>0, <1>1, <4>1, <4>2, CalmGoes
    <3>. QED  BY <2>4, <2>8, <3>1, <3>2 DEF RecordRedraft
  <2>9. CASE Inspect(w)
    <3>1. ~Dangling(w) => NoneRuns(t)
      <4>1. turn[w] = announced[t]
        BY <2>6, <2>9 DEF Inspect, Reconciling
      <4>. QED  BY <2>1, <4>1, LastOnly DEF Dangling
    <3>2. "find" \notin Sure /\ {"find", "take_resume"} \subseteq Recovering
      BY DEF Sure, Running, Planning, Executing, Recovering
    <3>. QED  BY <2>4, <2>5, <2>9, <3>1, <3>2 DEF Inspect
  <2>10. CASE FindJob(w)
    <3>1. turn[w] = announced[t] /\ turn[w] \in 1 .. MaxAnnounced
      BY <2>6, <2>7, <2>10 DEF FindJob, Reconciling, Dangles
    <3>2. PICK p : p = Verdict(job[t][turn[w]])
      OBVIOUS
    <3>3. p \in Sure => job[t][turn[w]] # "running"
      BY <3>2 DEF Verdict, Sure, Running, Planning, Executing
    <3>4. p \in Sure => NoneRuns(t)
      BY <2>1, <3>1, <3>3, LastOnly
    <3>5. p \in Recovering
      BY <3>2 DEF Verdict, Recovering
    <3>6. Goto(w, p) /\ hand' = hand /\ resumed' = resumed
      BY <2>1, <2>10, <3>2 DEF FindJob
    <3>. QED  BY <2>5, <3>4, <3>5, <3>6
  <2>11. CASE TakeOver(w)
    <3>1. pc[w] # "take_cancel" => NoneRuns(t)
      BY <2>3, <2>11 DEF TakeOver, Sure
    <3>2. "cancel_job" \notin Sure /\ {"cancel_job", "load"} \subseteq Recovering
      BY DEF Sure, Running, Planning, Executing, Recovering
    <3>. QED  BY <2>4, <2>5, <2>11, <3>1, <3>2 DEF TakeOver
  <2>12. CASE CancelFoundJob(w)
    <3>1. turn[w] = announced[t] /\ turn[w] \in 1 .. MaxAnnounced
      BY <2>6, <2>7, <2>12 DEF CancelFoundJob, Reconciling, Dangles
    <3>2. job' = [job EXCEPT ![t][turn[w]] = IF @ = "running" THEN "cancelled" ELSE @] /\ Reconciled(w, TRUE)
      BY <2>1, <2>12 DEF CancelFoundJob
    <3>3. NoneRuns(t)'
      <4>1. SUFFICES ASSUME NEW i \in 1 .. MaxAnnounced PROVE job'[t][i] # "running"
        BY DEF NoneRuns
      <4>2. job[t][i] = "running" => i = turn[w]
        BY <3>1 DEF Jobs, JobsAt
      <4>. QED  BY <1>0, <3>1, <3>2, <4>2 DEF TypeOK
    <3>. QED  BY <2>4, <3>2, <3>3
  <2>13. CASE HaltRecovered(w)
    BY <2>4, <2>13 DEF HaltRecovered
  <2>14. CASE LoadFinished(w)
    <3>1. NoneRuns(t)
      BY <2>3, <2>14 DEF LoadFinished, Sure
    <3>2. "take_halt" \in Recovering
      BY DEF Recovering
    <3>. QED  BY <2>5, <2>14, <3>1, <3>2 DEF LoadFinished
  <2>. QED  BY <1>8, <2>8, <2>9, <2>10, <2>11, <2>12, <2>13, <2>14 DEF Recover, Reap, NotYetDue,
       RecoveryListDone, Redraft, ReadEvents, Recovering
<1>9. pc[w] \in Recovering \cup Passing
  BY DEF Recover, Reap, NotYetDue, RecoveryListDone, Redraft, RecordRedraft, ReadEvents, Inspect,
     FindJob, TakeOver, CancelFoundJob, HaltRecovered, LoadFinished, Recovering, Passing
<1>10. ASSUME pc[w] \in {"recover"} \cup Passing PROVE Reap(w) \/ NotYetDue(w) \/ RecoveryListDone(w) \/ Redraft(w) \/ ReadEvents(w)
  BY <1>10 DEF Recover, RecordRedraft, Inspect,
     FindJob, TakeOver, CancelFoundJob, HaltRecovered, LoadFinished, Passing
<1>. QED  BY <1>3, <1>6, <1>7, <1>8, <1>9, <1>10

LEMMA PassCalm ==
  ASSUME IInv, Guarded, Jobs, [Next]_vars, NEW w \in Threads, Pass(w), ~ResumedAll(w)
  PROVE  Calm(w)'
<1>0. TypeOK /\ Step(w) /\ Calm(w) /\ pc[w] \in Passing
  BY DEF IInv, Step, Jobs, Pass, ResumeNext, ApprovalsDone, NothingReleased, NothingQueued, ExpireApproval,
     ClaimReleased, Claim, Passing
<1>1. ~Post(w)
  BY <1>0 DEF Post, Passing
<1>2. ASSUME NEW p \in Passing, pc'[w] = p, hand' = hand, resumed' = resumed PROVE Calm(w)'
  <2>1. p \notin Sure /\ p # "unreachable"
    BY DEF Sure, Running, Planning, Executing, Passing
  <2>. QED  BY <1>0, <1>1, <1>2, <2>1, OnwardCalm
<1>3. ASSUME NEW t \in Trajectories, TakeUp(w, t, "start"), resumed' = resumed, NoneRuns(t) PROVE Calm(w)'
  <2>1. pc'[w] = "start" /\ hand'[w] = t /\ hand[w] = NoTrajectory
    BY <1>0, <1>3 DEF TakeUp, Goto, TypeOK, Passing
  <2>2. \A u \in resumed[w] : u \in Trajectories /\ u # hand[w]
    BY <1>0, <2>1, OwnersAssumption DEF TypeOK
  <2>. QED  BY <1>0, <1>1, <1>3, <2>1, <2>2, CalmGoes
<1>4. ASSUME NEW t \in Trajectories, status[t] # "executing" \/ owner[t] = NoOwner PROVE NoneRuns(t)
  BY <1>4 DEF Jobs, JobsAt, NoneRuns
<1>5. CASE ApprovalsDone(w) \/ NothingReleased(w) \/ NothingQueued(w)
  <2>1. PICK p \in Passing : Goto(w, p)
    BY <1>5 DEF ApprovalsDone, NothingReleased, NothingQueued, Passing
  <2>. QED  BY <1>0, <1>2, <1>5, <2>1 DEF ApprovalsDone, NothingReleased, NothingQueued, Goto, TypeOK
<1>6. ASSUME NEW t \in Trajectories, ExpireApproval(w, t) PROVE Calm(w)'
  BY <1>0, <1>2, <1>6 DEF ExpireApproval, memory
<1>7. CASE ResumeNext(w)
  <2>1. PICK t \in resumed[w] : TakeUp(w, t, "start")
    BY <1>7 DEF ResumeNext
  <2>2. t \in Trajectories /\ t # hand[w]
    BY <1>0, <1>7, OwnersAssumption DEF TypeOK, ResumeNext, Passing
  <2>3. NoneRuns(t)
    BY <1>0, <2>2 DEF Calm
  <2>. QED  BY <1>3, <1>7, <2>1, <2>2, <2>3 DEF ResumeNext
<1>8. ASSUME NEW t \in Trajectories, ClaimReleased(w, t) PROVE Calm(w)'
  BY <1>3, <1>4, <1>8 DEF ClaimReleased, Released
<1>9. ASSUME NEW t \in Trajectories, Claim(w, t) PROVE Calm(w)'
  <2>1. CASE Goto(w, "reap") /\ UNCHANGED hand
    BY <1>0, <1>2, <1>9, <2>1 DEF Claim, Goto, TypeOK, Passing
  <2>. QED  BY <1>3, <1>4, <1>9, <2>1 DEF Claim
<1>. QED  BY <1>5, <1>6, <1>7, <1>8, <1>9 DEF Pass

(* A run has one trajectory in hand, and no job of it but while it calls. *)
LEMMA RunCalm ==
  ASSUME IInv, Guarded, Jobs, [Next]_vars, NEW w \in Threads, pc[w] \in Running, Step(w) \/ Keep(w), ~Post(w),
         NEW t \in Trajectories, t = hand[w], NoneRuns(t) \/ NoneRuns(t)',
         NEW p, pc'[w] = p, p # "unreachable",
         NEW h \in {t, NoTrajectory}, hand'[w] = h, resumed'[w] \subseteq resumed[w] \cup {t}
  PROVE  Calm(w)'
<1>1. NoneRuns(t)'
  BY NoneStays
<1>2. p \in Sure => h = t
  <2>1. Local(w)'
    BY MemoryKept
  <2>2. h = NoTrajectory => p \in {"off", "dead", "recover"} \cup Passing
    BY <2>1 DEF Local, Fine, Shaped
  <2>3. p \in Sure => p \notin {"off", "dead", "recover"} \cup Passing
    BY DEF Sure, Running, Planning, Executing, Passing
  <2>. QED  BY <2>2, <2>3
<1>3. ASSUME NEW u \in resumed[w] \cup {t}
      PROVE  u \in Trajectories /\ ((u \in resumed[w] /\ u # hand[w]) \/ u = t)
  BY DEF IInv, TypeOK
<1>4. p \in Sure => h \in Trajectories /\ (NoneRuns(h) \/ NoneRuns(h)')
  BY <1>1, <1>2 DEF NoneRuns
<1>5. \A u \in resumed'[w] : u # h => /\ u \in Trajectories
                                      /\ (u \in resumed[w] /\ u # hand[w]) \/ NoneRuns(u) \/ NoneRuns(u)'
  BY <1>1, <1>3 DEF NoneRuns
<1>. QED  BY <1>4, <1>5, CalmGoes

(* What a run does to its memory. *)
LEMMA RunGoes ==
  ASSUME TypeOK, NEW w \in Threads, Plan(w) \/ Turn(w)
  PROVE  /\ hand'[w] \in {hand[w], NoTrajectory} /\ resumed'[w] \subseteq resumed[w] \cup {hand[w]}
         /\ pc[w] \in Running
         /\ pc'[w] = "unreachable" => LoadCoachFails
<1>. DEFINE Kind == /\ hand'[w] \in {hand[w], NoTrajectory} /\ resumed'[w] \subseteq resumed[w] \cup {hand[w]}
                    /\ pc'[w] = "unreachable" => LoadCoachFails
<1>1. ASSUME NEW p, Goto(w, p), p = "unreachable" => LoadCoachFails, hand' = hand, resumed' = resumed PROVE Kind
  BY <1>1 DEF Goto, TypeOK
<1>2. ASSUME Leave(w) PROVE Kind
  BY <1>2 DEF Leave, Forget, Goto, TypeOK
<1>3. ASSUME NEW held, Reconciled(w, held) PROVE Kind
  BY <1>3 DEF Reconciled, Forget, Goto, TypeOK
<1>4. ASSUME Dies(w) PROVE Kind
  BY <1>4 DEF Dies, Forget, Goto, TypeOK
<1>5. ASSUME NEW again, AfterTurn(w, again) PROVE Kind
  <2>1. CASE Reconciled(w, again)
    BY <1>3, <2>1
  <2>2. CASE Goto(w, "boundary") /\ hand' = hand /\ resumed' = resumed
    BY <1>1, <2>2
  <2>. QED  BY <1>2, <1>5, <2>1, <2>2 DEF AfterTurn
<1>. HIDE DEF Kind
<1>6. CASE Plan(w)
  <2>1. pc[w] \in Running
    BY <1>6 DEF Plan, Start, FailToStart, StopDrafting, Draft, RecordAttempt, FailPlanning, Approve, Running, Planning
  <2>2. ASSUME Start(w) \/ FailToStart(w) \/ StopDrafting(w) \/ FailPlanning(w) \/ Approve(w) \/ Draft(w) PROVE Kind
    BY <1>1, <1>2, <2>2 DEF Start, FailToStart, StopDrafting, FailPlanning, Approve, Draft
  <2>3. ASSUME RecordAttempt(w) PROVE Kind
    <3>1. PICK p \in {"approving", "drafting", "refused"} : Goto(w, p)
      BY <2>3 DEF RecordAttempt
    <3>. QED  BY <1>1, <2>3, <3>1 DEF RecordAttempt
  <2>4. Kind
    BY <1>6, <2>2, <2>3 DEF Plan
  <2>. QED  BY <2>1, <2>4 DEF Kind
<1>7. CASE Turn(w)
  <2>1. pc[w] \in Running
    BY <1>7 DEF Turn, StopAtBoundary, CancelAtBoundary, Prepare, HaltBeforeTurn, AskBeforeTurn, Announce, Post, Refuse,
       Answer, TimeOut, LoseCall, FailUnreachable, NextTier, RetryTurn, HaltUnanswered, RecordAndContinue,
       RecordAndCommitStep, RecordAndEnd, RecordAndAsk, Collapse, LoseLease, Running, Planning, Executing
  <2>2. ASSUME StopAtBoundary(w) \/ CancelAtBoundary(w) \/ HaltBeforeTurn(w) \/ AskBeforeTurn(w) \/ FailUnreachable(w)
        PROVE  Kind
    BY <1>2, <2>2 DEF StopAtBoundary, CancelAtBoundary, HaltBeforeTurn, AskBeforeTurn, FailUnreachable
  <2>3. ASSUME \/ RetryTurn(w) \/ HaltUnanswered(w) \/ RecordAndContinue(w) \/ RecordAndCommitStep(w)
               \/ RecordAndEnd(w) \/ RecordAndAsk(w) \/ LoseLease(w)
        PROVE  Kind
    BY <1>5, <2>3 DEF RetryTurn, HaltUnanswered, RecordAndContinue, RecordAndCommitStep, RecordAndEnd, RecordAndAsk, LoseLease
  <2>4. ASSUME Prepare(w) \/ Announce(w) \/ Post(w) \/ Refuse(w) \/ NextTier(w) \/ Answer(w) \/ TimeOut(w) \/ LoseCall(w)
        PROVE  Kind
    BY <1>1, <2>4 DEF Prepare, Announce, Post, Refuse, NextTier, Answer, TimeOut, LoseCall
  <2>5. ASSUME Collapse(w) PROVE Kind
    BY <1>4, <2>5 DEF Collapse
  <2>6. Kind
    BY <1>7, <2>2, <2>3, <2>4, <2>5 DEF Turn
  <2>. QED  BY <2>1, <2>6 DEF Kind
<1>. QED  BY <1>6, <1>7

LEMMA RunsCalm ==
  ASSUME IInv, Guarded, Jobs, ~LoadCoachFails, [Next]_vars, NEW w \in Threads, Plan(w) \/ Turn(w)
  PROVE  Calm(w)'
<1>0. TypeOK /\ Step(w) /\ Calm(w) /\ pc[w] \in Running /\ pc'[w] # "unreachable"
  BY RunGoes DEF IInv, Step, Jobs
<1>1. PICK t \in Trajectories : t = hand[w]
  BY <1>0, HandTaken DEF IInv
<1>2. CASE Post(w)
  <2>1. pc'[w] = "calling" /\ hand'[w] = t /\ resumed'[w] = resumed[w] /\ "calling" \notin Sure
    BY <1>0, <1>1, <1>2 DEF Post, Goto, TypeOK, Sure
  <2>2. ASSUME NEW u \in resumed[w], u # t PROVE NoneRuns(u)'
    BY <1>0, <1>1, <2>2, NoneStays DEF Calm, TypeOK
  <2>. QED  BY <2>1, <2>2 DEF Calm, NoneRuns
<1>3. CASE ~Post(w)
  <2>1. NoneRuns(t) \/ NoneRuns(t)'
    <3>1. CASE pc[w] # "calling"
      BY <1>0, <1>1, <3>1 DEF Calm, Sure
    <3>2. CASE pc[w] = "calling"
      <4>1. turn[w] = announced[t] /\ turn[w] \in 1 .. MaxAnnounced
        <5>1. turn[w] = announced[t]
          BY <1>1, <3>2 DEF Guarded, Fit, Snug, Abreast, InFlight
        <5>2. turn[w] \in 1 .. announced[t]
          BY <1>1, <3>2 DEF IInv, Local, Fine, Sized, InFlight
        <5>3. announced[t] \in 0 .. MaxAnnounced /\ MaxAnnounced \in Nat
          BY <1>0, BoundsAssumption DEF TypeOK
        <5>. QED  BY <5>1, <5>2, <5>3
      <4>2. CASE Answer(w)
        <5>1. job[t][turn[w]] # "running"
          BY <1>1, <4>2 DEF Answer, JobEndings
        <5>. QED  BY <1>1, <4>1, <5>1, LastOnly
      <4>3. CASE job' = [job EXCEPT ![t][turn[w]] = "cancelled"]
        <5>1. SUFFICES ASSUME NEW i \in 1 .. MaxAnnounced PROVE job'[t][i] # "running"
          BY DEF NoneRuns
        <5>2. job[t][i] = "running" => i = turn[w]
          BY <4>1 DEF Jobs, JobsAt
        <5>. QED  BY <1>0, <4>1, <4>3, <5>2 DEF TypeOK
      <4>4. Answer(w) \/ TimeOut(w) \/ LoseCall(w)
        BY <3>2 DEF Plan, Start, FailToStart, StopDrafting, Draft, RecordAttempt, FailPlanning, Approve, Turn,
           StopAtBoundary, CancelAtBoundary, Prepare, HaltBeforeTurn, AskBeforeTurn, Announce, Post, Refuse,
           FailUnreachable, NextTier, RetryTurn, HaltUnanswered, RecordAndContinue,
           RecordAndCommitStep, RecordAndEnd, RecordAndAsk, Collapse, LoseLease
      <4>. QED  BY <1>1, <4>2, <4>3, <4>4 DEF TimeOut, LoseCall
    <3>. QED  BY <3>1, <3>2
  <2>2. PICK p : p = pc'[w]
    OBVIOUS
  <2>3. PICK h : h = hand'[w]
    OBVIOUS
  <2>4. h \in {t, NoTrajectory} /\ resumed'[w] \subseteq resumed[w] \cup {t}
    BY <1>0, <1>1, <2>3, RunGoes
  <2>. QED  BY <1>0, <1>1, <1>3, <2>1, <2>2, <2>3, <2>4, RunCalm
<1>. QED  BY <1>2, <1>3

(* Whatever leaves the record alone and starts no job: requests, the clock,
   LoadCoach, a restart, the shift from recovery to the pool. *)
LEMMA JobsStay ==
  ASSUME IInv, Jobs, UNCHANGED <<announced, turns>>,
         \A t \in Trajectories : status[t] = "executing" /\ owner[t] # NoOwner =>
                                    status'[t] = "executing" /\ owner'[t] # NoOwner,
         \A t \in Trajectories, i \in 1 .. MaxAnnounced :
            job'[t][i] = job[t][i] \/ (job[t][i] = "running" /\ job'[t][i] \in JobEndings),
         \A w \in Threads : \/ pc'[w] = pc[w] /\ hand'[w] = hand[w] /\ resumed'[w] = resumed[w]
                            \/ pc'[w] \in {"off", "reap", "approvals"} /\ resumed'[w] = {}
  PROVE  Jobs'
<1>1. \A t \in Trajectories : NoneRuns(t) => NoneRuns(t)'
  BY DEF NoneRuns, JobEndings
<1>2. ASSUME NEW t \in Trajectories PROVE JobsAt(t)'
  BY DEF Jobs, JobsAt, Committed, JobEndings
<1>3. ASSUME NEW w \in Threads PROVE Calm(w)'
  <2>1. CASE pc'[w] \in {"off", "reap", "approvals"} /\ resumed'[w] = {}
    BY <2>1 DEF Calm, Sure, Running, Planning, Executing
  <2>2. CASE pc'[w] = pc[w] /\ hand'[w] = hand[w] /\ resumed'[w] = resumed[w]
    <3>1. pc[w] \in Sure => hand[w] \in Trajectories
      BY HandTaken DEF IInv, Sure, Recovering
    <3>2. \A t \in resumed[w] : t \in Trajectories
      BY DEF IInv, TypeOK
    <3>3. pc[w] \in Sure => NoneRuns(hand[w])'
      BY <1>1, <2>2, <3>1 DEF Jobs, Calm, NoneRuns
    <3>. QED  BY <1>1, <2>2, <3>2, <3>3 DEF Jobs, Calm, NoneRuns
  <2>. QED  BY <2>1, <2>2
<1>. QED  BY <1>2, <1>3 DEF Jobs

LEMMA KeeperCalm ==
  ASSUME IInv, Jobs, NEW w \in Threads, Keep(w)
  PROVE  Calm(w)'
<1>1. pc' = pc /\ hand' = hand /\ resumed' = resumed /\ pc[w] # "unreachable" /\ TypeOK
  BY DEF Keep, Renew, CancelInFlight, Jobs, Calm, IInv
<1>2. ~Post(w)
  BY <1>1 DEF Post, Goto, TypeOK
<1>3. pc[w] \in Sure => hand[w] \in Trajectories /\ NoneRuns(hand[w])
  BY HandTaken DEF IInv, Sure, Recovering, Jobs, Calm
<1>. QED  BY <1>1, <1>2, <1>3, OnwardCalm

LEMMA JobsKept ==
  ASSUME IInv, Guarded, Jobs, ~LoadCoachFails, [Next]_vars
  PROVE  Jobs'
<1>0. TypeOK /\ RowSound
  BY DEF IInv
<1>1. ASSUME NEW t \in Trajectories, Request(t) \/ LeaseExpires(t) PROVE Jobs'
  <2>1. \A u \in Trajectories : status[u] = "executing" /\ owner[u] # NoOwner =>
                                   status'[u] = "executing" /\ owner'[u] # NoOwner
    BY <1>0, <1>1, OutsideTouches DEF LeaseHolding
  <2>2. UNCHANGED <<announced, turns, job>> /\ UNCHANGED memory
    BY <1>1 DEF Request, Submit, Cancel, Grant, Deny, LeaseExpires, record
  <2>. QED  BY <2>1, <2>2, JobsStay DEF memory
<1>2. CASE UNCHANGED vars
  BY <1>2, JobsStay DEF vars, row, record, memory
<1>3. ASSUME NEW t \in Trajectories, NEW i \in 1 .. MaxAnnounced, JobEnds(t, i) PROVE Jobs'
  <2>1. UNCHANGED <<status, owner, announced, turns>> /\ UNCHANGED memory
    BY <1>3 DEF JobEnds, row
  <2>2. \A u \in Trajectories, k \in 1 .. MaxAnnounced :
            job'[u][k] = job[u][k] \/ (job[u][k] = "running" /\ job'[u][k] \in JobEndings)
    BY <1>0, <1>3 DEF JobEnds, JobEndings, TypeOK
  <2>. QED  BY <2>1, <2>2, JobsStay DEF memory
<1>4. CASE Crash
  <2>1. UNCHANGED <<status, announced, turns, job>>
    BY <1>4 DEF Crash, record
  <2>2. \A u \in Trajectories : owner[u] # NoOwner => owner'[u] # NoOwner
    BY <1>4, OwnersAssumption DEF Crash
  <2>3. \A w \in Threads : pc'[w] \in {"off", "reap", "approvals"} /\ resumed'[w] = {}
    BY <1>4 DEF Crash
  <2>. QED  BY <2>1, <2>2, <2>3, JobsStay
<1>5. ASSUME NEW w \in Threads, ResumedAll(w) PROVE Jobs'
  <2>1. UNCHANGED <<status, owner, announced, turns, job, hand, resumed>>
    BY <1>5 DEF ResumedAll, row, record
  <2>2. \A v \in Threads : \/ pc'[v] = pc[v]
                           \/ resumed[v] = {} /\ pc'[v] \in {"off", "reap", "approvals"}
    BY <1>5, ShiftRests
  <2>. QED  BY <2>1, <2>2, JobsStay
<1>6. ASSUME NEW w \in Threads, Step(w) \/ Keep(w), ~ResumedAll(w) PROVE Jobs'
  <2>1. \A t \in Trajectories : JobsAt(t)'
    BY <1>6, JobsAtStay
  <2>2. \A v \in Threads \ {w} : Calm(v)'
    BY <1>6, CalmOthers
  <2>3. Calm(w)'
    BY <1>6, RecoveryCalm, PassCalm, RunsCalm, KeeperCalm DEF Step
  <2>. QED  BY <2>1, <2>2, <2>3 DEF Jobs
<1>. QED  BY <1>1, <1>2, <1>3, <1>4, <1>5, <1>6 DEF Next

(* While LoadCoach answers, the leases are also what keeps one job per trajectory. *)
THEOREM JobsFollowLeases == Spec => [](Disciplined /\ ~LoadCoachFails => Jobs)
<1>1. Init => Jobs
  <2>1. ASSUME Init PROVE \A t \in Trajectories : JobsAt(t)
    BY <2>1 DEF Init, JobsAt
  <2>2. ASSUME Init PROVE \A w \in Threads : Calm(w)
    <3>1. ASSUME NEW w \in Threads PROVE pc[w] \in {"off", "reap"} /\ resumed[w] = {}
      BY <2>2 DEF Init
    <3>. QED  BY <3>1 DEF Calm, Sure, Running, Planning, Executing
  <2>. QED  BY <2>1, <2>2 DEF Jobs
<1>2. IInv /\ (Disciplined => Guarded) /\ (Disciplined /\ ~LoadCoachFails => Jobs) /\ [Next]_vars
         => (Disciplined /\ ~LoadCoachFails => Jobs)'
  <2>1. ASSUME IInv, [Next]_vars PROVE (Disciplined' <=> Disciplined) /\ (LoadCoachFails' <=> LoadCoachFails)
    <3>1. pool' = pool
      BY <2>1, OutsideKept DEF IInv
    <3>. QED  BY <3>1 DEF Disciplined, Timely, LoadCoachFails
  <2>. QED  BY <2>1, JobsKept
<1>. QED  BY <1>1, <1>2, Invariance, LeasesGuard, PTL DEF Spec

(* LoadCoach never runs two jobs for one trajectory: neither a retry after a
   timeout nor a turn that recovery took over starts beside its predecessor. *)
THEOREM OneJobRuns == Spec => [](Disciplined /\ ~LoadCoachFails => OneJobAtATime)
<1>1. Jobs => OneJobAtATime
  <2>1. SUFFICES ASSUME Jobs, NEW t \in Trajectories
                 PROVE  Cardinality({i \in 1 .. MaxAnnounced : job[t][i] = "running"}) <= 1
    BY DEF OneJobAtATime
  <2>. DEFINE R == {i \in 1 .. MaxAnnounced : job[t][i] = "running"}
  <2>2. R \subseteq {announced[t]}
    BY <2>1 DEF Jobs, JobsAt
  <2>3. IsFiniteSet({announced[t]}) /\ Cardinality({announced[t]}) = 1
    BY FS_Singleton
  <2>4. IsFiniteSet(R) /\ Cardinality(R) <= Cardinality({announced[t]})
    BY <2>2, <2>3, FS_Subset
  <2>. QED  BY <2>3, <2>4
<1>. QED  BY JobsFollowLeases, <1>1, PTL

(* A trajectory that ended, or waits for a person, left no job running. *)
THEOREM NoJobIsOrphaned == Spec => [](Disciplined /\ ~LoadCoachFails => NoOrphanJob)
<1>1. Jobs => NoOrphanJob
  BY DEF Jobs, JobsAt, NoOrphanJob, Terminal
<1>. QED  BY JobsFollowLeases, <1>1, PTL
=============================================================================
