-------------------------- MODULE GovernanceProofs ---------------------------
(***************************************************************************)
(* What Governance promises for every set of tiers, policies, answers and  *)
(* bounds: only a person widens an envelope, every recorded turn is        *)
(* debited once, and after a violation no call is made.                    *)
(***************************************************************************)
EXTENDS Governance, PolicyProofs, SequenceTheorems, TLAPS

(* A sequence, whatever its elements. *)
IsSeq(c) == c \in Seq({c[k] : k \in DOMAIN c})

(* ------------------------ the inductive invariant ----------------------- *)

(* The records have their fields and the histories are sequences: what is in
   them is left open where nothing depends on it. *)
WorkerRecord ==
  /\ {"pc", "step", "as", "envelope", "summaries"} \subseteq DOMAIN worker
  /\ worker.pc \in Pcs /\ worker.step \in Chained /\ worker.as \in {"step", "summary"}
RowRecord ==
  /\ {"status", "cause", "tokens", "leased"} \subseteq DOMAIN row
  /\ row.status \in {"queued", "planning", "executing", "awaiting_approval"} \cup Ended
CallRecord ==
  /\ {"id", "step", "kind", "tier", "revision", "job", "answer"} \subseteq DOMAIN announced
  /\ announced.id \in Nat /\ announced.step \in Chained
  /\ announced.job \in {"none", "running", "completed", "failed"}
Records ==
  /\ WorkerRecord /\ RowRecord /\ CallRecord
  /\ violated \in {"no", "step", "summary"}
  /\ crashes \in 0 .. MaxCrashes
Histories ==
  /\ DOMAIN chains = Chained /\ \A s \in Chained : IsSeq(chains[s])
  /\ DOMAIN threads = Threads
  /\ \A s \in Threads : IsSeq(threads[s]) /\ \A k \in DOMAIN threads[s] : "id" \in DOMAIN threads[s][k]
Shaped == Records /\ Histories

(* Where the worker may be while the row has which status, and where a summary
   may have brought it. *)
SummaryPcs == {"announce", "post", "wait", "record", "verify", "restore", "undo", "lost"}
Placed ==
  /\ worker.pc \notin {"idle", "down"} =>
       row.status = IF worker.pc \in {"plan", "decide"} THEN "planning" ELSE "executing"
  /\ row.status \in Ended => worker.pc = "idle"
  /\ worker.as = "summary" => worker.pc \in SummaryPcs
  /\ worker.pc \in {"verify", "restore", "undo", "lost"} => worker.as = "summary"

(* A step that runs, and one that was announced, has an envelope. *)
Running == SummaryPcs \cup {"step", "compose", "record", "give_up", "dead", "violated", "escalate"}
Enveloped ==
  /\ worker.pc \in Running => chains[worker.step] # <<>>
  /\ announced.id > 0 => chains[announced.step] # <<>>

(* What a compaction is to restore is what some revision of the step had, for
   data of the class the step has now. *)
Remembered ==
  worker.as = "summary" =>
    \E j \in DOMAIN chains[worker.step] :
      /\ worker.envelope = [tier |-> chains[worker.step][j].tier, tools |-> chains[worker.step][j].tools]
      /\ chains[worker.step][j].class = Live(chains[worker.step]).class

(* The turn in flight is announced, has no row, and is debited before it has. *)
Counted ==
  /\ Committed \subseteq 0 .. announced.id
  /\ 0 \notin Debited
  /\ worker.pc \in {"post", "wait", "record"} => announced.id > 0 /\ announced.id \notin Committed
  /\ worker.pc = "record" =>
       announced.id \in Debited /\ announced.job = "completed" /\ announced.answer.failure = NoFailure
  /\ announced.id \in Debited \ Committed =>
       /\ announced.job = "completed" /\ announced.answer.failure = NoFailure
       /\ \/ row.status \in Ended
          \/ row.status = "executing" /\ worker.pc \in {"wait", "record", "violated", "down", "recover"}

(* A violation that was recorded and has not ended the trajectory yet is that
   of the turn in flight, and whatever recovers it comes upon it again. *)
Caught ==
  /\ violated = "step" =>
       \/ row.status \in Ended
       \/ /\ row.status = "executing"
          /\ Dangling /\ announced.job = "completed"
          /\ announced.answer.failure # NoFailure \/ ~announced.answer.verified
          /\ \/ worker.pc \in {"violated", "down", "recover"}
             \/ /\ worker.pc \in {"wait", "record"} /\ worker.as = "step"
                /\ announced.answer.failure = NoFailure
  /\ violated = "summary" /\ crashes = MaxCrashes =>
       row.status \in Ended \/ worker.pc \in {"undo", "give_up"}

Governed ==
  Shaped /\ Placed /\ Enveloped /\ Remembered /\ PolicyNeverWidens /\ Counted /\ LedgerMatchesTurns /\ Caught

(* -------------------------------- lemmas -------------------------------- *)

(* What appending to a sequence of anything gives, and keeps. *)
LEMMA Appended ==
  ASSUME NEW c, IsSeq(c), NEW x
  PROVE  /\ Len(c) \in Nat /\ DOMAIN c = 1 .. Len(c)
         /\ IsSeq(Append(c, x)) /\ Append(c, x) # <<>> /\ DOMAIN Append(c, x) = 1 .. Len(c) + 1
         /\ Len(Append(c, x)) = Len(c) + 1
         /\ \A k \in 1 .. Len(c) : Append(c, x)[k] = c[k]
         /\ Append(c, x)[Len(c) + 1] = x
<1>. DEFINE S == {c[k] : k \in DOMAIN c} \cup {x}
            d == Append(c, x)
<1>1. c \in Seq(S)
  BY SeqMonotonic DEF IsSeq
<1>2. /\ d \in Seq(S) /\ d # <<>> /\ Len(d) = Len(c) + 1
      /\ \A k \in 1 .. Len(c) : d[k] = c[k]
      /\ d[Len(c) + 1] = x
  BY <1>1, AppendProperties
<1>3. /\ Len(c) \in Nat /\ DOMAIN c = 1 .. Len(c) /\ DOMAIN d = 1 .. Len(d)
  BY <1>1, <1>2, LenProperties
<1>4. d \in Seq({d[k] : k \in DOMAIN d})
  BY <1>2, <1>3, SeqDef
<1>. QED  BY <1>2, <1>3, <1>4 DEF IsSeq

LEMMA Singleton ==
  ASSUME NEW x
  PROVE  IsSeq(<<x>>) /\ <<x>> # <<>> /\ DOMAIN <<x>> = {1}
<1>1. <<x>> \in Seq({x}) /\ DOMAIN <<x>> = 1 .. 1 /\ <<x>>[1] = x
  OBVIOUS
<1>2. {<<x>>[k] : k \in DOMAIN <<x>>} = {x}
  BY <1>1
<1>. QED  BY <1>1, <1>2 DEF IsSeq

(* The three ways a handler leaves the worker and the row. *)
LEMMA Ending ==
  ASSUME Records, NEW status \in Ended, NEW cause, End(status, cause)
  PROVE  WorkerRecord' /\ RowRecord' /\ worker'.pc = "idle" /\ worker'.as = "step" /\ row'.status = status
  BY DEF End, Idle, At, Records, WorkerRecord, RowRecord, Pcs, Chained

LEMMA Parking ==
  ASSUME Records, NEW kind, NEW steps, NEW ask, Park(kind, steps, ask)
  PROVE  /\ WorkerRecord' /\ RowRecord' /\ worker'.pc = "idle" /\ worker'.as = "step"
         /\ row'.status = "awaiting_approval"
  BY DEF Park, Idle, At, Records, WorkerRecord, RowRecord, Pcs, Chained

LEMMA Going ==
  ASSUME Records, NEW pc \in Pcs, Goes(pc)
  PROVE  /\ WorkerRecord' /\ RowRecord' /\ worker'.pc = pc /\ row' = row
         /\ worker'.as = worker.as /\ worker'.step = worker.step /\ worker'.envelope = worker.envelope
  BY DEF Goes, Records, WorkerRecord, RowRecord

(* Whatever came of a failed call, the trajectory ended or the worker went to
   one of few places. *)
LEMMA Failing ==
  ASSUME Records, NEW failure, Fails(failure)
  PROVE  \/ \E status \in {"failed", "halted"} : End(status, "loadcoach")
         \/ \E pc \in IF worker.as = "step" THEN {"violated", "escalate"} ELSE {"undo", "lost"} : Goes(pc)
<1>. DEFINE reaction == IF worker.as = "step" THEN Reaction(failure) ELSE SummaryReaction(failure)
<1>1. /\ worker.as = "step" => reaction \in {"fail", "violation", "escalate", "repeat", "halt"}
      /\ worker.as # "step" => reaction \in {"escapes", "undo"}
  BY DEF Reaction, SummaryReaction
<1>2. CASE reaction = "fail"
  BY <1>2 DEF Fails
<1>3. CASE reaction \in {"repeat", "halt"}
  BY <1>3 DEF Fails
<1>4. CASE reaction = "violation"
  BY <1>1, <1>4 DEF Fails
<1>5. CASE reaction \in {"escalate", "undo"}
  BY <1>1, <1>5 DEF Fails
<1>6. CASE reaction = "escapes"
  BY <1>1, <1>6 DEF Fails
<1>. QED  BY <1>1, <1>2, <1>3, <1>4, <1>5, <1>6

LEMMA Taking ==
  ASSUME Records, NEW pc \in Pcs, Takes(pc)
  PROVE  /\ WorkerRecord' /\ RowRecord' /\ worker'.pc = pc /\ worker'.as = "step"
         /\ worker'.step = announced.step /\ row'.status = row.status
  BY DEF Takes, At, Records, WorkerRecord, RowRecord, CallRecord

(* Recovery goes on with a completed answer only, as the answer of a step. *)
LEMMA Recovering ==
  ASSUME Records, Recover
  PROVE  /\ worker.pc = "recover"
         /\ \/ End("halted", "recovered")
            \/ Takes("load") /\ ~(Dangling /\ announced.job = "completed")
            \/ /\ Takes("wait") /\ Dangling /\ announced.job = "completed"
               /\ announced.answer.failure = NoFailure /\ announced' = announced
<1>. announced.job \in {"none", "running", "completed", "failed"}
  BY DEF Records, CallRecord
<1>1. CASE ~Dangling  BY <1>1 DEF Recover
<1>2. CASE Dangling /\ announced.job \in {"running", "failed"}  BY <1>2 DEF Recover
<1>3. CASE Dangling /\ announced.job = "none"  BY <1>3 DEF Recover
<1>4. CASE Dangling /\ announced.job = "completed"
  BY <1>4 DEF Recover
<1>. QED  BY <1>1, <1>2, <1>3, <1>4

(* ---------------------- how the histories change ------------------------ *)

(* A chain stays, gets one more revision, or is its first. *)
Grows(s) ==
  \/ chains'[s] = chains[s]
  \/ \E intent : chains'[s] = Append(chains[s], intent)
  \/ \E intent : chains'[s] = <<intent>>

LEMMA SupersededGrows ==
  ASSUME Histories, NEW s, NEW changes, NEW by, chains' = Superseded(s, changes, by)
  PROVE  DOMAIN chains' = Chained /\ \A r \in Chained : Grows(r)
  BY DEF Histories, Superseded, Grows

LEMMA MintedGrows ==
  ASSUME Histories, NEW steps, NEW plan, NEW verdicts, NEW by,
         chains' = Minted(steps, plan, verdicts, by)
  PROVE  DOMAIN chains' = Chained /\ \A r \in Chained : Grows(r)
  BY DEF Histories, Minted, Grows

(* A grant mints the steps it was asked for, or supersedes one envelope. *)
LEMMA Granted ==
  ASSUME Grant
  PROVE  \/ chains' = Minted(request.steps, Recorded.plan, Verdicts, "approver")
         \/ \E s, changes : chains' = Superseded(s, changes, "approver")
<1>. DEFINE target == CHOOSE s \in request.steps : TRUE
            minted == Minted(request.steps, Recorded.plan, Verdicts, "approver")
<1>1. \E changes : chains' = IF request.kind \in {"plan", "gated_step"} THEN minted
                             ELSE Superseded(target, changes, "approver")
  BY Zenon DEF Grant
<1>. HIDE DEF target, minted
<1>2. PICK changes : chains' = IF request.kind \in {"plan", "gated_step"} THEN minted
                             ELSE Superseded(target, changes, "approver")
  BY <1>1
<1>. QED  BY <1>2 DEF minted

(* No envelope is ever taken out of the record or changed in it. *)
LEMMA ChainsGrow ==
  ASSUME Histories, [Next]_vars
  PROVE  DOMAIN chains' = Chained /\ \A s \in Chained : Grows(s)
<1>1. CASE UNCHANGED chains
  BY <1>1 DEF Histories, Grows
<1>2. CASE Claim
  BY <1>1, <1>2 DEF Claim, Histories, Grows
<1>3. CASE Decide
  BY <1>1, <1>3, MintedGrows DEF Decide
<1>4. CASE Narrow
  BY <1>4, SupersededGrows DEF Narrow
<1>5. CASE Restore
  BY <1>5, SupersededGrows DEF Restore
<1>6. CASE Grant
  BY <1>6, Granted, SupersededGrows, MintedGrows
<1>. QED
  BY <1>1, <1>2, <1>3, <1>4, <1>5, <1>6
     DEF Next, vars, Draft, TakeReleased, Load, Dispatch, RunTools, Preflight, ComposeAsIs,
         CannotCompact, GiveUp, Announce, Post, CallFails, SurfaceFails, JobEnds, Unread, Unfinished,
         Debit, Unverified, HaltViolation, Record, RecordSummary, VerifySummary, SurfaceLost, Escalate,
         Deny, Put, Refresh, Crash, Restart, Recover

LEMMA GrownIsSeq ==
  ASSUME NEW s, IsSeq(chains[s]), Grows(s)
  PROVE  IsSeq(chains'[s]) /\ (chains[s] # <<>> => chains'[s] # <<>>)
<1>1. CASE chains'[s] = chains[s]
  BY <1>1
<1>2. CASE \E intent : chains'[s] = Append(chains[s], intent)
  <2>1. PICK intent : chains'[s] = Append(chains[s], intent)
    BY <1>2
  <2>2. IsSeq(Append(chains[s], intent)) /\ Append(chains[s], intent) # <<>>
    BY Appended
  <2>. QED  BY <2>1, <2>2
<1>3. CASE \E intent : chains'[s] = <<intent>>
  <2>1. PICK intent : chains'[s] = <<intent>>
    BY <1>3
  <2>2. IsSeq(<<intent>>) /\ <<intent>> # <<>>
    BY Singleton
  <2>. QED  BY <2>1, <2>2
<1>. QED  BY <1>1, <1>2, <1>3 DEF Grows

(* A thread is only appended to. *)
LEMMA ThreadsGrow ==
  ASSUME Shaped, [Next]_vars
  PROVE  \/ threads' = threads
         \/ /\ RunTools
            /\ threads' = [threads EXCEPT ![worker.step] =
                             Append(@, [Live(@) EXCEPT !.finish = "tools_ran", !.tokens = 0])]
         \/ \E s \in Threads :
              /\ worker.pc = "record"
              /\ threads' = [threads EXCEPT ![s] = Append(@, NewRow)]
<1>1. CASE Record
  BY <1>1 DEF Record, Shaped, Records, WorkerRecord, Threads, Chained
<1>2. CASE RecordSummary
  BY <1>2 DEF RecordSummary, Threads
<1>3. CASE RunTools
  BY <1>3 DEF RunTools
<1>. QED
  BY <1>1, <1>2, <1>3
     DEF Next, vars, Claim, Draft, Decide, TakeReleased, Load, Dispatch, Preflight, ComposeAsIs,
         CannotCompact, Narrow, Restore, GiveUp, Announce, Post, CallFails, SurfaceFails, JobEnds,
         Unread, Unfinished, Debit, Unverified, HaltViolation, VerifySummary, SurfaceLost, Escalate,
         Grant, Deny, Put, Refresh, Crash, Restart, Recover

(* ------------------------- the records keep their shape ------------------ *)

LEMMA ShapedKept ==
  ASSUME Shaped, [Next]_vars
  PROVE  Shaped'
<1>. DEFINE
     Threaded ==
       /\ DOMAIN threads = Threads
       /\ \A s \in Threads :
            IsSeq(threads[s]) /\ \A k \in DOMAIN threads[s] : "id" \in DOMAIN threads[s][k]
<1>1. Records'
  <2>. Records
    BY DEF Shaped
  <2>. USE Ending, Parking, Going DEF Records, WorkerRecord, RowRecord, CallRecord, Ended, Fixed, Pcs
  <2>1. CASE Claim
    <3>. UNCHANGED <<announced, violated, crashes>>
      BY <2>1 DEF Claim
    <3>1. \/ row' = [row EXCEPT !.status = "planning", !.leased = TRUE] /\ worker' = At("plan")
          \/ row' = [row EXCEPT !.status = "executing", !.leased = TRUE] /\ worker' = At("load")
          \/ \E steps : Park("bypass_gate", steps, NoAsk)
      BY <2>1, Zenon DEF Claim
    <3>2. CASE row' = [row EXCEPT !.status = "planning", !.leased = TRUE] /\ worker' = At("plan")
      BY <3>2 DEF At, Chained
    <3>3. CASE row' = [row EXCEPT !.status = "executing", !.leased = TRUE] /\ worker' = At("load")
      BY <3>3 DEF At, Chained
    <3>. QED  BY <3>1, <3>2, <3>3
  <2>2. CASE Draft  BY <2>2 DEF Draft
  <2>3. CASE Decide
    <3>. UNCHANGED <<announced, violated, crashes>>
      BY <2>3 DEF Decide
    <3>1. \/ End("rejected", "plan")
          \/ \E kind, steps : Park(kind, steps, NoAsk)
          \/ row' = [row EXCEPT !.status = "executing"] /\ worker' = At("load")
      BY <2>3, Zenon DEF Decide
    <3>2. CASE row' = [row EXCEPT !.status = "executing"] /\ worker' = At("load")
      BY <3>2 DEF At, Chained
    <3>. QED  BY <3>1, <3>2
  <2>4. CASE TakeReleased  BY <2>4 DEF TakeReleased, At, Chained
  <2>5. CASE Load  BY <2>5 DEF Load
  <2>6. CASE Dispatch  BY <2>6 DEF Dispatch, At, Held
  <2>7. CASE RunTools  BY <2>7 DEF RunTools
  <2>8. CASE Preflight  BY <2>8 DEF Preflight
  <2>9. CASE ComposeAsIs  BY <2>9 DEF ComposeAsIs
  <2>10. CASE CannotCompact  BY <2>10 DEF CannotCompact
  <2>11. CASE Narrow  BY <2>11 DEF Narrow
  <2>12. CASE Restore  BY <2>12 DEF Restore, AfterRestore
  <2>13. CASE GiveUp  BY <2>13 DEF GiveUp
  <2>14. CASE Announce  BY <2>14 DEF Announce, NoCall
  <2>15. CASE Post  BY <2>15 DEF Post
  <2>16. CASE CallFails  BY <2>16, Failing DEF CallFails
  <2>17. CASE SurfaceFails  BY <2>17 DEF SurfaceFails
  <2>18. CASE JobEnds
    <3>. UNCHANGED <<row, worker, violated, crashes>>
      BY <2>18 DEF JobEnds
    <3>1. CASE announced' = [announced EXCEPT !.job = "failed"]  BY <3>1
    <3>2. ASSUME NEW answer, announced' = [announced EXCEPT !.job = "completed", !.answer = answer]
          PROVE  Records'
      BY <3>2
    <3>. QED  BY <2>18, <3>1, <3>2 DEF JobEnds
  <2>19. CASE Unread  BY <2>19, Failing DEF Unread
  <2>20. CASE Unfinished  BY <2>20 DEF Unfinished
  <2>21. CASE Debit  BY <2>21 DEF Debit
  <2>22. CASE Unverified  BY <2>22 DEF Unverified
  <2>23. CASE HaltViolation  BY <2>23 DEF HaltViolation
  <2>24. CASE Record  BY <2>24 DEF Record
  <2>25. CASE RecordSummary  BY <2>25 DEF RecordSummary
  <2>26. CASE VerifySummary  BY <2>26 DEF VerifySummary
  <2>27. CASE SurfaceLost  BY <2>27 DEF SurfaceLost
  <2>28. CASE Escalate  BY <2>28 DEF Escalate
  <2>29. CASE Grant  BY <2>29 DEF Grant
  <2>30. CASE Deny  BY <2>30 DEF Deny
  <2>31. CASE Put \/ Refresh  BY <2>31 DEF Put, Refresh
  <2>32. CASE Crash  BY <2>32, GovernanceAssumption DEF Crash, At, Chained
  <2>33. CASE Restart  BY <2>33 DEF Restart, At, Chained
  <2>34. CASE Recover  BY <2>34 DEF Recover, Takes, At
  <2>35. CASE UNCHANGED vars  BY <2>35 DEF vars
  <2>. QED
    BY <2>1, <2>2, <2>3, <2>4, <2>5, <2>6, <2>7, <2>8, <2>9, <2>10, <2>11, <2>12, <2>13, <2>14, <2>15,
       <2>16, <2>17, <2>18, <2>19, <2>20, <2>21, <2>22, <2>23, <2>24, <2>25, <2>26, <2>27, <2>28, <2>29,
       <2>30, <2>31, <2>32, <2>33, <2>34, <2>35
       DEF Next
<1>2. DOMAIN chains' = Chained /\ \A s \in Chained : IsSeq(chains'[s])
  BY ChainsGrow, GrownIsSeq DEF Shaped, Histories
<1>3. Threaded'
  <2>1. CASE threads' = threads
    BY <2>1 DEF Shaped, Histories
  <2>2. ASSUME NEW s \in Threads, NEW r, "id" \in DOMAIN r,
               threads' = [threads EXCEPT ![s] = Append(@, r)]
        PROVE  Threaded'
    BY <2>2, Appended DEF Shaped, Histories
  <2>3. CASE RunTools /\ threads' = [threads EXCEPT ![worker.step] =
                             Append(@, [Live(@) EXCEPT !.finish = "tools_ran", !.tokens = 0])]
    <3>1. worker.step \in Threads /\ threads[worker.step] # <<>>
      BY <2>3 DEF Shaped, Records, WorkerRecord, RunTools, Pending, Chained, Threads
    <3>2. "id" \in DOMAIN Live(threads[worker.step])
      BY <3>1, Appended DEF Shaped, Histories, Live
    <3>. DEFINE r == [Live(threads[worker.step]) EXCEPT !.finish = "tools_ran", !.tokens = 0]
    <3>3. "id" \in DOMAIN r /\ threads' = [threads EXCEPT ![worker.step] = Append(@, r)]
      BY <2>3, <3>1, <3>2 DEF Shaped, Histories
    <3>. HIDE DEF r
    <3>. QED  BY <2>2, <3>1, <3>3
  <2>4. ASSUME NEW s \in Threads, threads' = [threads EXCEPT ![s] = Append(@, NewRow)]
        PROVE  Threaded'
    <3>1. "id" \in DOMAIN NewRow
      BY DEF NewRow
    <3>. QED  BY <2>2, <2>4, <3>1
  <2>. QED  BY <2>1, <2>3, <2>4, ThreadsGrow
<1>. QED  BY <1>1, <1>2, <1>3 DEF Shaped, Histories

(* ---------------------- the worker and the row ---------------------------- *)

LEMMA PlacedKept ==
  ASSUME Shaped, Placed, [Next]_vars
  PROVE  Placed'
<1>. Records
  BY DEF Shaped
<1>. USE Ending, Parking, Going DEF Placed, SummaryPcs, Records, WorkerRecord, RowRecord, Ended, Fixed, Pcs
<1>1. CASE Claim
  <2>1. \/ row' = [row EXCEPT !.status = "planning", !.leased = TRUE] /\ worker' = At("plan")
        \/ row' = [row EXCEPT !.status = "executing", !.leased = TRUE] /\ worker' = At("load")
        \/ \E steps : Park("bypass_gate", steps, NoAsk)
    BY <1>1, Zenon DEF Claim
  <2>2. CASE row' = [row EXCEPT !.status = "planning", !.leased = TRUE] /\ worker' = At("plan")
    BY <2>2 DEF At
  <2>3. CASE row' = [row EXCEPT !.status = "executing", !.leased = TRUE] /\ worker' = At("load")
    BY <2>3 DEF At
  <2>. QED  BY <2>1, <2>2, <2>3
<1>2. CASE Draft  BY <1>2 DEF Draft
<1>3. CASE Decide
  <2>1. \/ End("rejected", "plan")
        \/ \E kind, steps : Park(kind, steps, NoAsk)
        \/ row' = [row EXCEPT !.status = "executing"] /\ worker' = At("load")
    BY <1>3, Zenon DEF Decide
  <2>2. CASE row' = [row EXCEPT !.status = "executing"] /\ worker' = At("load")
    BY <2>2 DEF At
  <2>. QED  BY <2>1, <2>2
<1>4. CASE TakeReleased  BY <1>4 DEF TakeReleased, At
<1>5. CASE Load  BY <1>5 DEF Load
<1>6. CASE Dispatch  BY <1>6 DEF Dispatch, At
<1>7. CASE RunTools  BY <1>7 DEF RunTools
<1>8. CASE Preflight  BY <1>8 DEF Preflight
<1>9. CASE ComposeAsIs  BY <1>9 DEF ComposeAsIs
<1>10. CASE CannotCompact  BY <1>10 DEF CannotCompact
<1>11. CASE Narrow  BY <1>11 DEF Narrow
<1>12. CASE Restore  BY <1>12 DEF Restore, AfterRestore
<1>13. CASE GiveUp  BY <1>13 DEF GiveUp
<1>14. CASE Announce  BY <1>14 DEF Announce
<1>15. CASE Post  BY <1>15 DEF Post
<1>16. CASE CallFails  BY <1>16, Failing DEF CallFails
<1>17. CASE SurfaceFails  BY <1>17 DEF SurfaceFails
<1>18. CASE JobEnds  BY <1>18 DEF JobEnds
<1>19. CASE Unread  BY <1>19, Failing DEF Unread
<1>20. CASE Unfinished  BY <1>20 DEF Unfinished
<1>21. CASE Debit  BY <1>21 DEF Debit
<1>22. CASE Unverified  BY <1>22 DEF Unverified
<1>23. CASE HaltViolation  BY <1>23 DEF HaltViolation
<1>24. CASE Record  BY <1>24 DEF Record
<1>25. CASE RecordSummary  BY <1>25 DEF RecordSummary
<1>26. CASE VerifySummary  BY <1>26 DEF VerifySummary
<1>27. CASE SurfaceLost  BY <1>27 DEF SurfaceLost
<1>28. CASE Escalate  BY <1>28 DEF Escalate
<1>29. CASE Grant  BY <1>29 DEF Grant
<1>30. CASE Deny  BY <1>30 DEF Deny
<1>31. CASE Put \/ Refresh  BY <1>31 DEF Put, Refresh
<1>32. CASE Crash  BY <1>32 DEF Crash, At
<1>33. CASE Restart  BY <1>33 DEF Restart, At
<1>34. CASE Recover  BY <1>34, Recovering, Taking
<1>35. CASE UNCHANGED vars  BY <1>35 DEF vars
<1>. QED
  BY <1>1, <1>2, <1>3, <1>4, <1>5, <1>6, <1>7, <1>8, <1>9, <1>10, <1>11, <1>12, <1>13, <1>14,
     <1>15, <1>16, <1>17, <1>18, <1>19, <1>20, <1>21, <1>22, <1>23, <1>24, <1>25, <1>26, <1>27,
     <1>28, <1>29, <1>30, <1>31, <1>32, <1>33, <1>34, <1>35
     DEF Next

LEMMA EnvelopedKept ==
  ASSUME Shaped, Enveloped, [Next]_vars
  PROVE  Enveloped'
<1>. Records /\ (worker.pc \in Running => chains'[worker.step] # <<>>)
             /\ (announced.id > 0 => chains'[announced.step] # <<>>)
  BY ChainsGrow, GrownIsSeq DEF Shaped, Histories, Records, WorkerRecord, CallRecord, Enveloped
<1>. USE Ending, Parking, Going
         DEF Enveloped, Running, SummaryPcs, Records, WorkerRecord, CallRecord, Ended, Pcs
<1>1. CASE Claim
  <2>1. announced' = announced
    BY <1>1 DEF Claim
  <2>2. worker' = At("plan") \/ worker' = At("load") \/ \E steps : Park("bypass_gate", steps, NoAsk)
    BY <1>1, Zenon DEF Claim
  <2>. QED  BY <2>1, <2>2 DEF At
<1>2. CASE Draft  BY <1>2 DEF Draft
<1>3. CASE Decide
  <2>1. announced' = announced
    BY <1>3 DEF Decide
  <2>2. End("rejected", "plan") \/ (\E kind, steps : Park(kind, steps, NoAsk)) \/ worker' = At("load")
    BY <1>3, Zenon DEF Decide
  <2>. QED  BY <2>1, <2>2 DEF At
<1>4. CASE TakeReleased  BY <1>4 DEF TakeReleased, At
<1>5. CASE Load  BY <1>5 DEF Load
<1>6. CASE Dispatch  BY <1>6 DEF Dispatch, At, Held
<1>7. CASE RunTools  BY <1>7 DEF RunTools
<1>8. CASE Preflight  BY <1>8 DEF Preflight
<1>9. CASE ComposeAsIs  BY <1>9 DEF ComposeAsIs
<1>10. CASE CannotCompact  BY <1>10 DEF CannotCompact
<1>11. CASE Narrow  BY <1>11 DEF Narrow
<1>12. CASE Restore  BY <1>12 DEF Restore, AfterRestore
<1>13. CASE GiveUp  BY <1>13 DEF GiveUp
<1>14. CASE Announce  BY <1>14 DEF Announce, NoCall
<1>15. CASE Post  BY <1>15 DEF Post
<1>16. CASE CallFails  BY <1>16, Failing DEF CallFails
<1>17. CASE SurfaceFails  BY <1>17 DEF SurfaceFails
<1>18. CASE JobEnds
  <2>1. worker' = worker /\ announced'.id = announced.id /\ announced'.step = announced.step
    BY <1>18 DEF JobEnds
  <2>. QED  BY <2>1
<1>19. CASE Unread  BY <1>19, Failing DEF Unread
<1>20. CASE Unfinished  BY <1>20 DEF Unfinished
<1>21. CASE Debit  BY <1>21 DEF Debit
<1>22. CASE Unverified  BY <1>22 DEF Unverified
<1>23. CASE HaltViolation  BY <1>23 DEF HaltViolation
<1>24. CASE Record  BY <1>24 DEF Record
<1>25. CASE RecordSummary  BY <1>25 DEF RecordSummary
<1>26. CASE VerifySummary  BY <1>26 DEF VerifySummary
<1>27. CASE SurfaceLost  BY <1>27 DEF SurfaceLost
<1>28. CASE Escalate  BY <1>28 DEF Escalate
<1>29. CASE Grant
  <2>1. worker' = worker /\ announced' = announced
    BY <1>29 DEF Grant
  <2>. QED  BY <2>1
<1>30. CASE Deny  BY <1>30 DEF Deny
<1>31. CASE Put \/ Refresh  BY <1>31 DEF Put, Refresh
<1>32. CASE Crash  BY <1>32 DEF Crash, At
<1>33. CASE Restart  BY <1>33 DEF Restart, At
<1>34. CASE Recover
  <2>1. announced'.id = announced.id /\ announced'.step = announced.step
    BY <1>34 DEF Recover
  <2>. QED  BY <1>34, <2>1, Recovering, Taking DEF Dangling
<1>35. CASE UNCHANGED vars  BY <1>35 DEF vars
<1>. QED
  BY <1>1, <1>2, <1>3, <1>4, <1>5, <1>6, <1>7, <1>8, <1>9, <1>10, <1>11, <1>12, <1>13, <1>14,
     <1>15, <1>16, <1>17, <1>18, <1>19, <1>20, <1>21, <1>22, <1>23, <1>24, <1>25, <1>26, <1>27,
     <1>28, <1>29, <1>30, <1>31, <1>32, <1>33, <1>34, <1>35
     DEF Next

(* ------------------------------ compaction ------------------------------- *)

(* What superseding an envelope leaves as it was, whoever does it and whatever
   is changed, and what it does to the chain. *)
LEMMA Superseding ==
  ASSUME Histories, NEW s \in Chained, NEW changes, NEW by, chains' = Superseded(s, changes, by),
         chains[s] # <<>>
  PROVE  LET old == Live(chains[s])
             new == Live(chains'[s])
         IN /\ Len(chains[s]) \in Nat \ {0} /\ DOMAIN chains[s] = 1 .. Len(chains[s])
            /\ DOMAIN chains'[s] = 1 .. Len(chains[s]) + 1 /\ Len(chains'[s]) = Len(chains[s]) + 1
            /\ \A k \in 1 .. Len(chains[s]) : chains'[s][k] = chains[s][k]
            /\ chains'[s][Len(chains[s]) + 1] = new
            /\ new = Supersede(old, changes, by, config.policy)
            /\ \A r \in Chained \ {s} : chains'[r] = chains[r]
<1>1. chains'[s] = Append(chains[s], Supersede(Live(chains[s]), changes, by, config.policy))
  BY DEF Superseded, Histories
<1>2. \A r \in Chained \ {s} : chains'[r] = chains[r]
  BY DEF Superseded, Histories
<1>3. IsSeq(chains[s])
  BY DEF Histories
<1>4. Len(chains[s]) # 0
  BY <1>3, EmptySeq DEF IsSeq
<1>. QED  BY <1>1, <1>2, <1>3, <1>4, Appended DEF Live

LEMMA Inherited ==
  ASSUME NEW old, NEW changes, NEW by, NEW policy, DOMAIN changes \subseteq {"tier", "tools"}
  PROVE  LET new == Supersede(old, changes, by, policy)
         IN /\ new.by = by /\ new.class = old.class /\ new.turns = old.turns
            /\ new.tokens = old.tokens /\ new.money = old.money
            /\ "tier" \in DOMAIN changes => new.tier = changes.tier
            /\ "tools" \in DOMAIN changes => new.tools = changes.tools
  BY DEF Supersede, Mint, Changeable

LEMMA RememberedKept ==
  ASSUME Shaped, Placed, Enveloped, Remembered, [Next]_vars
  PROVE  Remembered'
<1>. DEFINE Kept == \/ worker'.as # "summary"
                    \/ /\ worker.as = "summary" /\ worker'.step = worker.step
                       /\ worker'.envelope = worker.envelope /\ chains' = chains
<1>. Records
  BY DEF Shaped
<1>0. Kept => Remembered'
  BY DEF Remembered
<1>. USE Ending, Parking, Going DEF Placed, SummaryPcs, Records, WorkerRecord, Ended, Pcs
<1>1. CASE Claim
  <2>1. worker' = At("plan") \/ worker' = At("load") \/ \E steps : Park("bypass_gate", steps, NoAsk)
    BY <1>1, Zenon DEF Claim
  <2>. QED  BY <1>0, <2>1 DEF At
<1>2. CASE Draft  BY <1>2, <1>0 DEF Draft
<1>3. CASE Decide
  <2>1. End("rejected", "plan") \/ (\E kind, steps : Park(kind, steps, NoAsk)) \/ worker' = At("load")
    BY <1>3, Zenon DEF Decide
  <2>. QED  BY <1>0, <2>1 DEF At
<1>4. CASE TakeReleased  BY <1>4, <1>0 DEF TakeReleased, At
<1>5. CASE Load  BY <1>5, <1>0 DEF Load
<1>6. CASE Dispatch  BY <1>6, <1>0 DEF Dispatch, At
<1>7. CASE RunTools  BY <1>7, <1>0 DEF RunTools
<1>8. CASE Preflight  BY <1>8, <1>0 DEF Preflight
<1>9. CASE ComposeAsIs  BY <1>9, <1>0 DEF ComposeAsIs
<1>10. CASE CannotCompact  BY <1>10, <1>0 DEF CannotCompact
<1>11. CASE Narrow
  <2>. DEFINE s == worker.step
              old == Live(chains[s])
              changes == [tier |-> SummarizingTier(IntentOf(s).class), tools |-> {}]
  <2>1. /\ chains' = Superseded(s, changes, "policy") /\ chains[s] # <<>>
        /\ worker'.step = s /\ worker'.envelope = [tier |-> old.tier, tools |-> old.tools]
    BY <1>11 DEF Narrow, Enveloped, Running, IntentOf
  <2>2. s \in Chained /\ Histories /\ DOMAIN changes = {"tier", "tools"}
    BY DEF Shaped
  <2>. HIDE DEF changes, s
  <2>3. /\ Len(chains[s]) \in Nat \ {0} /\ DOMAIN chains'[s] = 1 .. Len(chains[s]) + 1
        /\ \A k \in 1 .. Len(chains[s]) : chains'[s][k] = chains[s][k]
        /\ Live(chains'[s]) = Supersede(old, changes, "policy", config.policy)
    BY <2>1, <2>2, Superseding
  <2>4. Live(chains'[s]).class = old.class
    BY <2>2, <2>3, Inherited
  <2>5. Len(chains[s]) \in DOMAIN chains'[s] /\ chains'[s][Len(chains[s])] = old
    BY <2>3 DEF Live
  <2>. QED  BY <2>1, <2>4, <2>5 DEF Remembered
<1>12. CASE Restore  BY <1>12, <1>0 DEF Restore
<1>13. CASE GiveUp  BY <1>13, <1>0 DEF GiveUp
<1>14. CASE Announce  BY <1>14, <1>0 DEF Announce
<1>15. CASE Post  BY <1>15, <1>0 DEF Post
<1>16. CASE CallFails  BY <1>16, <1>0, Failing DEF CallFails
<1>17. CASE SurfaceFails  BY <1>17, <1>0 DEF SurfaceFails
<1>18. CASE JobEnds  BY <1>18, <1>0 DEF JobEnds
<1>19. CASE Unread  BY <1>19, <1>0, Failing DEF Unread
<1>20. CASE Unfinished  BY <1>20, <1>0 DEF Unfinished
<1>21. CASE Debit  BY <1>21, <1>0 DEF Debit
<1>22. CASE Unverified  BY <1>22, <1>0 DEF Unverified
<1>23. CASE HaltViolation  BY <1>23, <1>0 DEF HaltViolation
<1>24. CASE Record  BY <1>24, <1>0 DEF Record
<1>25. CASE RecordSummary  BY <1>25, <1>0 DEF RecordSummary
<1>26. CASE VerifySummary  BY <1>26, <1>0 DEF VerifySummary
<1>27. CASE SurfaceLost  BY <1>27, <1>0 DEF SurfaceLost
<1>28. CASE Escalate  BY <1>28, <1>0 DEF Escalate
<1>29. CASE Grant
  <2>1. worker' = worker /\ row.status = "awaiting_approval"
    BY <1>29 DEF Grant
  <2>. QED  BY <1>0, <2>1
<1>30. CASE Deny  BY <1>30, <1>0 DEF Deny
<1>31. CASE Put \/ Refresh  BY <1>31, <1>0 DEF Put, Refresh
<1>32. CASE Crash  BY <1>32, <1>0 DEF Crash, At
<1>33. CASE Restart  BY <1>33, <1>0 DEF Restart, At
<1>34. CASE Recover
  <2>1. chains' = chains
    BY <1>34 DEF Recover
  <2>. QED  BY <1>0, <1>34, <2>1, Recovering, Taking
<1>35. CASE UNCHANGED vars  BY <1>35, <1>0 DEF vars
<1>. QED
  BY <1>1, <1>2, <1>3, <1>4, <1>5, <1>6, <1>7, <1>8, <1>9, <1>10, <1>11, <1>12, <1>13, <1>14,
     <1>15, <1>16, <1>17, <1>18, <1>19, <1>20, <1>21, <1>22, <1>23, <1>24, <1>25, <1>26, <1>27,
     <1>28, <1>29, <1>30, <1>31, <1>32, <1>33, <1>34, <1>35
     DEF Next

(* ------------------- only a person widens an envelope -------------------- *)

(* PolicyNeverWidens of one chain, and what keeps it when a revision is added. *)
NeverWidens(c) ==
  \A k \in DOMAIN c \ {1} :
    c[k].by = "policy" =>
      /\ c[k].class = c[k - 1].class /\ c[k].turns = c[k - 1].turns
      /\ c[k].tokens = c[k - 1].tokens /\ c[k].money = c[k - 1].money
      /\ \/ c[k].tools = {} /\ c[k].tier \notin Remote
         \/ \E j \in 1 .. k - 1 : c[k].tier = c[j].tier /\ c[k].tools = c[j].tools

Fits(new, c) ==
  /\ new.class = Live(c).class /\ new.turns = Live(c).turns
  /\ new.tokens = Live(c).tokens /\ new.money = Live(c).money
  /\ \/ new.tools = {} /\ new.tier \notin Remote
     \/ \E j \in 1 .. Len(c) : new.tier = c[j].tier /\ new.tools = c[j].tools

LEMMA NeverWidensAll == PolicyNeverWidens <=> \A s \in Chained : NeverWidens(chains[s])
  BY DEF PolicyNeverWidens, NeverWidens

LEMMA NeverWidensOne ==
  ASSUME NEW c, IsSeq(c), NeverWidens(c), NEW new, c # <<>> /\ new.by = "policy" => Fits(new, c)
  PROVE  NeverWidens(Append(c, new)) /\ NeverWidens(<<new>>)
<1>. DEFINE d == Append(c, new)
            n == Len(c)
<1>1. /\ n \in Nat /\ DOMAIN c = 1 .. n /\ DOMAIN d = 1 .. n + 1
      /\ \A k \in 1 .. n : d[k] = c[k]
      /\ d[n + 1] = new
  BY Appended
<1>2. n = 0 <=> c = <<>>
  BY <1>1, EmptySeq DEF IsSeq
<1>3. NeverWidens(<<new>>)
  BY Singleton DEF NeverWidens
<1>4. ASSUME NEW k \in DOMAIN d \ {1}, d[k].by = "policy"
      PROVE  /\ d[k].class = d[k - 1].class /\ d[k].turns = d[k - 1].turns
             /\ d[k].tokens = d[k - 1].tokens /\ d[k].money = d[k - 1].money
             /\ \/ d[k].tools = {} /\ d[k].tier \notin Remote
                \/ \E j \in 1 .. k - 1 : d[k].tier = d[j].tier /\ d[k].tools = d[j].tools
  <2>. HIDE DEF d, n
  <2>1. CASE k \in 1 .. n
    BY <1>1, <1>4, <2>1 DEF NeverWidens
  <2>2. CASE k = n + 1
    BY <1>1, <1>2, <1>4, <2>2 DEF Fits, Live, n
  <2>. QED  BY <1>1, <2>1, <2>2
<1>. QED  BY <1>3, <1>4 DEF NeverWidens

LEMMA PolicyNeverWidensKept ==
  ASSUME Shaped, Placed, Enveloped, Remembered, PolicyNeverWidens, [Next]_vars
  PROVE  PolicyNeverWidens'
<1>. Histories /\ \A s \in Chained : NeverWidens(chains[s])
  BY NeverWidensAll DEF Shaped
<1>. SUFFICES \A s \in Chained : NeverWidens(chains'[s])
  BY DEF PolicyNeverWidens, NeverWidens
<1>1. CASE UNCHANGED chains
  BY <1>1
<1>2. ASSUME NEW s \in Chained, NEW changes, NEW by, chains' = Superseded(s, changes, by),
             by = "policy" =>
               chains[s] # <<>> /\ Fits(Supersede(Live(chains[s]), changes, by, config.policy), chains[s])
      PROVE  \A r \in Chained : NeverWidens(chains'[r])
  <2>. DEFINE new == Supersede(Live(chains[s]), changes, by, config.policy)
  <2>1. \A r \in Chained : chains'[r] = IF r = s THEN Append(chains[s], new) ELSE chains[r]
    BY <1>2 DEF Superseded, Histories
  <2>2. new.by = by /\ IsSeq(chains[s]) /\ NeverWidens(chains[s])
    BY DEF Supersede, Mint, Histories
  <2>3. by = "policy" => Fits(new, chains[s])
    BY <1>2
  <2>. HIDE DEF new
  <2>4. NeverWidens(Append(chains[s], new))
    BY <2>2, <2>3, NeverWidensOne
  <2>. QED  BY <2>1, <2>4
<1>3. \A intent : NeverWidens(<<intent>>)
  BY Singleton DEF NeverWidens
<1>4. ASSUME NEW steps, NEW plan, NEW verdicts, NEW by, chains' = Minted(steps, plan, verdicts, by)
      PROVE  \A r \in Chained : NeverWidens(chains'[r])
  <2>. SUFFICES ASSUME NEW r \in Chained  PROVE NeverWidens(chains'[r])
    OBVIOUS
  <2>1. chains'[r] = chains[r] \/ \E intent : chains'[r] = <<intent>>
    BY <1>4 DEF Minted
  <2>. QED  BY <1>3, <2>1
<1>5. CASE Claim
  <2>1. UNCHANGED chains \/ \E intent : chains' = [chains EXCEPT ![BypassStep] = <<intent>>]
    BY <1>5 DEF Claim
  <2>2. ASSUME NEW intent, chains' = [chains EXCEPT ![BypassStep] = <<intent>>], NEW r \in Chained
        PROVE  NeverWidens(chains'[r])
    <3>1. chains'[r] = chains[r] \/ chains'[r] = <<intent>>
      BY <2>2 DEF Histories
    <3>. QED  BY <1>3, <3>1
  <2>. QED  BY <1>1, <2>1, <2>2
<1>6. CASE Decide
  <2>1. UNCHANGED chains \/ \E steps, plan, verdicts : chains' = Minted(steps, plan, verdicts, "policy")
    BY <1>6, Zenon DEF Decide
  <2>. QED  BY <1>1, <1>4, <2>1
<1>7. CASE Narrow
  <2>. DEFINE s == worker.step
              changes == [tier |-> SummarizingTier(IntentOf(s).class), tools |-> {}]
              new == Supersede(Live(chains[s]), changes, "policy", config.policy)
  <2>1. chains' = Superseded(s, changes, "policy") /\ chains[s] # <<>> /\ s \in Chained
    BY <1>7 DEF Narrow, Enveloped, Running, Shaped, Records, WorkerRecord
  <2>2. changes.tier # NoTier /\ changes.tier = SummarizingTier(IntentOf(s).class)
    BY <1>7 DEF Narrow
  <2>3. changes.tier \notin Remote
    BY <2>2, SummariesStayLocal
  <2>4. DOMAIN changes = {"tier", "tools"} /\ changes.tools = {}
    OBVIOUS
  <2>. HIDE DEF changes
  <2>5. Fits(new, chains[s])
    BY <2>3, <2>4, Inherited DEF Fits
  <2>. HIDE DEF s, new
  <2>. QED  BY <1>2, <2>1, <2>5 DEF new
<1>8. CASE Restore
  <2>. DEFINE s == worker.step
              c == chains[s]
              changes == worker.envelope
              new == Supersede(Live(chains[s]), changes, "policy", config.policy)
  <2>1. chains' = Superseded(s, changes, "policy") /\ c # <<>> /\ s \in Chained
    BY <1>8 DEF Restore, AfterRestore, Enveloped, Running, SummaryPcs, Shaped, Records, WorkerRecord
  <2>2. worker.as = "summary"
    BY <1>8 DEF Restore, AfterRestore, Placed
  <2>3. PICK j \in DOMAIN c : changes = [tier |-> c[j].tier, tools |-> c[j].tools]
    BY <2>2 DEF Remembered
  <2>4. DOMAIN changes = {"tier", "tools"} /\ changes.tier = c[j].tier /\ changes.tools = c[j].tools
    BY <2>3
  <2>5. j \in 1 .. Len(c)
    BY <2>1, Appended DEF Histories
  <2>. HIDE DEF changes
  <2>6. Fits(new, c)
    BY <2>4, <2>5, Inherited DEF Fits
  <2>. HIDE DEF s, new
  <2>. QED  BY <1>2, <2>1, <2>6 DEF new, c
<1>9. CASE Grant
  <2>1. CASE chains' = Minted(request.steps, Recorded.plan, Verdicts, "approver")
    BY <1>4, <2>1
  <2>2. ASSUME NEW s, NEW changes, chains' = Superseded(s, changes, "approver")
        PROVE  \A r \in Chained : NeverWidens(chains'[r])
    <3>1. CASE s \in Chained
      BY <1>2, <2>2, <3>1
    <3>2. CASE s \notin Chained
      BY <1>1, <2>2, <3>2 DEF Superseded, Histories
    <3>. QED  BY <3>1, <3>2
  <2>. QED  BY <1>9, <2>1, <2>2, Granted
<1>. QED
  BY <1>1, <1>5, <1>6, <1>7, <1>8, <1>9
     DEF Next, vars, Draft, TakeReleased, Load, Dispatch, RunTools, Preflight, ComposeAsIs,
         CannotCompact, GiveUp, Announce, Post, CallFails, SurfaceFails, JobEnds, Unread, Unfinished,
         Debit, Unverified, HaltViolation, Record, RecordSummary, VerifySummary, SurfaceLost, Escalate,
         Deny, Put, Refresh, Crash, Restart, Recover

(* -------------------------- rows and debits ------------------------------ *)

(* A row more is an id more. *)
LEMMA Recording ==
  ASSUME Histories, NEW s \in Threads, NEW r, threads' = [threads EXCEPT ![s] = Append(@, r)]
  PROVE  Committed' = Committed \cup {r.id}
<1>. DEFINE n == Len(threads[s])
            of(q) == {threads[q][k].id : k \in DOMAIN threads[q]}
            now(q) == {threads'[q][k].id : k \in DOMAIN threads'[q]}
<1>1. Committed = UNION {of(q) : q \in Threads} /\ Committed' = UNION {now(q) : q \in Threads}
  BY DEF Committed, Rows
<1>2. \A q \in Threads \ {s} : now(q) = of(q)
  BY DEF Histories
<1>3. now(s) = of(s) \cup {r.id}
  <2>1. threads'[s] = Append(threads[s], r) /\ IsSeq(threads[s])
    BY DEF Histories
  <2>2. /\ n \in Nat /\ DOMAIN threads[s] = 1 .. n /\ DOMAIN threads'[s] = 1 .. n + 1
        /\ \A k \in 1 .. n : threads'[s][k] = threads[s][k]
        /\ threads'[s][n + 1] = r
    BY <2>1, Appended
  <2>3. 1 .. n + 1 = (1 .. n) \cup {n + 1}
    BY <2>2
  <2>. QED  BY <2>2, <2>3
<1>. HIDE DEF of, now
<1>. QED  BY <1>1, <1>2, <1>3

(* Only the record of the turn in flight adds an id: the row of executed tool
   calls has that of the turn they answer. *)
LEMMA Committing ==
  ASSUME Shaped, [Next]_vars
  PROVE  /\ ~(Record \/ RecordSummary) => Committed' = Committed
         /\ Record \/ RecordSummary => Committed' = Committed \cup {announced.id}
<1>. Histories
  BY DEF Shaped
<1>1. NewRow.id = announced.id
  BY DEF NewRow
<1>2. CASE Record
  <2>1. worker.step \in Threads /\ threads' = [threads EXCEPT ![worker.step] = Append(@, NewRow)]
    BY <1>2 DEF Record, Shaped, Records, WorkerRecord, Threads, Chained
  <2>. QED  BY <1>1, <1>2, <2>1, Recording
<1>3. CASE RecordSummary
  <2>1. SummaryThread \in Threads /\ threads' = [threads EXCEPT ![SummaryThread] = Append(@, NewRow)]
    BY <1>3 DEF RecordSummary, Threads
  <2>. QED  BY <1>1, <1>3, <2>1, Recording
<1>4. CASE RunTools
  <2>. DEFINE s == worker.step
              r == [Live(threads[s]) EXCEPT !.finish = "tools_ran", !.tokens = 0]
  <2>1. s \in Threads /\ threads[s] # <<>> /\ threads' = [threads EXCEPT ![s] = Append(@, r)]
    BY <1>4 DEF Shaped, Histories, Records, WorkerRecord, RunTools, Pending, Chained, Threads
  <2>2. r.id = Live(threads[s]).id /\ Live(threads[s]).id \in Committed
    <3>1. IsSeq(threads[s])
      BY <2>1 DEF Histories
    <3>2. Len(threads[s]) \in Nat /\ Len(threads[s]) # 0 /\ DOMAIN threads[s] = 1 .. Len(threads[s])
      BY <2>1, <3>1, Appended, EmptySeq DEF IsSeq
    <3>3. Len(threads[s]) \in DOMAIN threads[s]
      BY <3>2
    <3>4. "id" \in DOMAIN Live(threads[s]) /\ Live(threads[s]) \in Rows
      BY <2>1, <3>3 DEF Live, Rows, Histories
    <3>. QED  BY <3>4 DEF Committed
  <2>3. Committed' = Committed \cup {r.id}
    <3>. HIDE DEF r, s
    <3>. QED  BY <2>1, Recording
  <2>4. ~(Record \/ RecordSummary)
    BY <1>4 DEF RunTools, Record, RecordSummary
  <2>. QED  BY <2>2, <2>3, <2>4
<1>5. CASE UNCHANGED threads /\ ~(Record \/ RecordSummary)
  BY <1>5 DEF Committed, Rows
<1>. QED
  BY <1>2, <1>3, <1>4, <1>5
     DEF Next, vars, Claim, Draft, Decide, TakeReleased, Load, Dispatch, Preflight, ComposeAsIs,
         CannotCompact, Narrow, Restore, GiveUp, Announce, Post, CallFails, SurfaceFails, JobEnds,
         Unread, Unfinished, Debit, Unverified, HaltViolation, VerifySummary, SurfaceLost, Escalate,
         Grant, Deny, Put, Refresh, Crash, Restart, Recover

(* Only _debit_turn writes to the ledger: recovery finds nothing it owes. *)
LEMMA Debiting ==
  ASSUME LedgerMatchesTurns, [Next]_vars
  PROVE  /\ Debit => announced.id \in Debited'
         /\ \/ UNCHANGED ledger /\ Debited' = Debited
            \/ /\ Debit /\ announced.id \notin Debited
               /\ \E e : e.turn = announced.id /\ ledger' = ledger \cup {e}
               /\ Debited' = Debited \cup {announced.id}
<1>1. CASE UNCHANGED ledger /\ ~Debit
  BY <1>1 DEF Debited
<1>2. CASE Debit
  <2>1. CASE announced.id \in Debited
    BY <1>2, <2>1 DEF Debit, Debited
  <2>2. CASE announced.id \notin Debited
    <3>. DEFINE e == Charge(ledger, announced.id, IntentOf(worker.step).tier, announced.answer.tokens, TRUE)
    <3>1. e.turn = announced.id
      BY DEF Charge
    <3>2. ledger' = ledger \cup {e}
      BY <1>2, <2>2 DEF Debit
    <3>. HIDE DEF e
    <3>. QED  BY <1>2, <2>2, <3>1, <3>2 DEF Debited
  <2>. QED  BY <2>1, <2>2
<1>3. CASE Recover
  <2>1. Owed = {}
    BY DEF Owed, LedgerMatchesTurns
  <2>2. ledger' = ledger /\ ~Debit
    BY <1>3, <2>1 DEF Recover, Debit
  <2>. QED  BY <1>1, <2>2
<1>. QED
  BY <1>1, <1>2, <1>3
     DEF Next, vars, Claim, Draft, Decide, TakeReleased, Load, Dispatch, RunTools, Preflight,
         ComposeAsIs, CannotCompact, Narrow, Restore, GiveUp, Announce, Post, CallFails, SurfaceFails,
         JobEnds, Unread, Unfinished, Unverified, HaltViolation, Record, RecordSummary, VerifySummary,
         SurfaceLost, Escalate, Grant, Deny, Put, Refresh, Crash, Restart

LEMMA CountedKept ==
  ASSUME Shaped, Placed, LedgerMatchesTurns, Counted, [Next]_vars
  PROVE  Counted'
<1>. Records
  BY DEF Shaped
<1>0. /\ ~(Record \/ RecordSummary) => Committed' = Committed
      /\ Record \/ RecordSummary => Committed' = Committed \cup {announced.id}
  BY Committing
<1>a. ~Debit => Debited' = Debited
  BY Debiting
<1>b. Debited' \subseteq Debited \cup {announced.id} /\ (Debit => announced.id \in Debited')
  BY Debiting
<1>c. Debited \subseteq Committed \cup {announced.id}
  BY DEF LedgerMatchesTurns
<1>. USE Ending, Parking, Going
         DEF Counted, Placed, SummaryPcs, Records, WorkerRecord, RowRecord, CallRecord, Ended, Pcs
<1>1. CASE Record \/ RecordSummary
  <2>1. ~Debit /\ announced' = announced /\ worker.pc = "record"
    BY <1>1 DEF Record, RecordSummary, Debit
  <2>2. ASSUME Record  PROVE worker'.pc \in {"idle", "step", "dispatch"}
    BY <2>2 DEF Record
  <2>3. ASSUME RecordSummary  PROVE worker'.pc = "verify"
    BY <2>3 DEF RecordSummary
  <2>4. Committed' = Committed \cup {announced.id} /\ Debited' = Debited
    BY <1>0, <1>1, <1>a, <2>1
  <2>5. worker'.pc \in {"idle", "step", "dispatch", "verify"}
    BY <1>1, <2>2, <2>3
  <2>6. announced'.id = announced.id /\ announced.id \in 0 .. announced.id
    BY <2>1
  <2>7. Committed' \subseteq 0 .. announced'.id /\ 0 \notin Debited' /\ announced'.id \in Committed'
    BY <2>4, <2>6
  <2>. QED  BY <2>5, <2>7
<1>2. CASE Debit
  <2>1. Committed' = Committed
    BY <1>0, <1>2 DEF Debit, Record, RecordSummary
  <2>. QED  BY <1>2, <1>b, <2>1 DEF Debit
<1>3. CASE ~Debit /\ ~Record /\ ~RecordSummary
  <2>0. Committed' = Committed /\ Debited' = Debited /\ Debited \subseteq Committed \cup {announced.id}
    BY <1>0, <1>3, <1>a, <1>c
  <2>1. CASE Claim
    <3>1. worker' = At("plan") \/ worker' = At("load") \/ \E steps : Park("bypass_gate", steps, NoAsk)
      BY <2>1, Zenon DEF Claim
    <3>2. announced' = announced /\ worker.pc = "idle" /\ row.status = "queued"
      BY <2>1 DEF Claim
    <3>. QED  BY <3>1, <3>2, <2>0 DEF At
  <2>2. CASE Draft  BY <2>2, <2>0 DEF Draft
  <2>3. CASE Decide
    <3>1. End("rejected", "plan") \/ (\E kind, steps : Park(kind, steps, NoAsk)) \/ worker' = At("load")
      BY <2>3, Zenon DEF Decide
    <3>2. announced' = announced /\ worker.pc = "decide"
      BY <2>3 DEF Decide
    <3>. QED  BY <3>1, <3>2, <2>0 DEF At
  <2>4. CASE TakeReleased  BY <2>4, <2>0 DEF TakeReleased, At
  <2>5. CASE Load  BY <2>5, <2>0 DEF Load
  <2>6. CASE Dispatch  BY <2>6, <2>0 DEF Dispatch, At
  <2>7. CASE RunTools  BY <2>7, <2>0 DEF RunTools
  <2>8. CASE Preflight  BY <2>8, <2>0 DEF Preflight
  <2>9. CASE ComposeAsIs  BY <2>9, <2>0 DEF ComposeAsIs
  <2>10. CASE CannotCompact  BY <2>10, <2>0 DEF CannotCompact
  <2>11. CASE Narrow  BY <2>11, <2>0 DEF Narrow
  <2>12. CASE Restore  BY <2>12, <2>0 DEF Restore, AfterRestore
  <2>13. CASE GiveUp  BY <2>13, <2>0 DEF GiveUp
  <2>14. CASE Announce  BY <2>14, <2>0 DEF Announce, NoCall
  <2>15. CASE Post  BY <2>15, <2>0 DEF Post
  <2>16. CASE CallFails  BY <2>16, <2>0, Failing DEF CallFails
  <2>17. CASE SurfaceFails  BY <2>17, <2>0 DEF SurfaceFails
  <2>18. CASE JobEnds
    <3>1. /\ worker' = worker /\ row' = row /\ announced.job = "running" /\ announced'.id = announced.id
      BY <2>18 DEF JobEnds
    <3>. QED  BY <3>1, <2>0
  <2>19. CASE Unread  BY <2>19, <2>0, Failing DEF Unread
  <2>20. CASE Unfinished  BY <2>20, <2>0 DEF Unfinished
  <2>21. CASE Unverified  BY <2>21, <2>0 DEF Unverified
  <2>22. CASE HaltViolation  BY <2>22, <2>0 DEF HaltViolation
  <2>23. CASE VerifySummary  BY <2>23, <2>0 DEF VerifySummary
  <2>24. CASE SurfaceLost  BY <2>24, <2>0 DEF SurfaceLost
  <2>25. CASE Escalate  BY <2>25, <2>0 DEF Escalate
  <2>26. CASE Grant
    <3>1. worker' = worker /\ announced' = announced /\ row.status = "awaiting_approval"
      BY <2>26 DEF Grant
    <3>. QED  BY <3>1, <2>0
  <2>27. CASE Deny  BY <2>27, <2>0 DEF Deny
  <2>28. CASE Put \/ Refresh  BY <2>28, <2>0 DEF Put, Refresh
  <2>29. CASE Crash  BY <2>29, <2>0 DEF Crash, At
  <2>30. CASE Restart  BY <2>30, <2>0 DEF Restart, At
  <2>31. CASE Recover
    <3>1. announced'.id = announced.id
      BY <2>31 DEF Recover
    <3>2. announced.job # "running" => announced' = announced
      BY <2>31 DEF Recover
    <3>. QED  BY <2>31, <3>1, <3>2, <2>0, Recovering, Taking DEF Dangling
  <2>32. CASE UNCHANGED vars  BY <2>32, <2>0 DEF vars
  <2>. QED
    BY <1>3, <2>1, <2>2, <2>3, <2>4, <2>5, <2>6, <2>7, <2>8, <2>9, <2>10, <2>11, <2>12, <2>13, <2>14,
       <2>15, <2>16, <2>17, <2>18, <2>19, <2>20, <2>21, <2>22, <2>23, <2>24, <2>25, <2>26, <2>27,
       <2>28, <2>29, <2>30, <2>31, <2>32
       DEF Next
<1>. QED  BY <1>1, <1>2, <1>3

LEMMA LedgerMatchesTurnsKept ==
  ASSUME Shaped, Placed, Counted, LedgerMatchesTurns, [Next]_vars
  PROVE  LedgerMatchesTurns'
<1>1. Committed' \subseteq Debited'
  <2>1. Committed \subseteq Debited /\ Debited \subseteq Debited'
    BY Debiting DEF LedgerMatchesTurns, Committed
  <2>2. Record \/ RecordSummary => announced.id \in Debited
    BY DEF Counted, Record, RecordSummary
  <2>. QED  BY <2>1, <2>2, Committing
<1>2. \A d, e \in ledger' : d.turn = e.turn => d = e
  <2>1. CASE UNCHANGED ledger
    BY <2>1 DEF LedgerMatchesTurns
  <2>2. ASSUME NEW new, new.turn = announced.id, ledger' = ledger \cup {new}, announced.id \notin Debited
        PROVE  \A d, e \in ledger' : d.turn = e.turn => d = e
    BY <2>2 DEF LedgerMatchesTurns, Debited
  <2>. QED  BY <2>1, <2>2, Debiting
<1>3. Debited' \subseteq Committed' \cup {announced'.id}
  <2>1. Debited \subseteq Committed \cup {announced.id} /\ Committed \subseteq Committed'
    BY Committing DEF LedgerMatchesTurns
  <2>2. Debited' \subseteq Debited \cup {announced.id}
    BY Debiting
  <2>3. CASE Announce
    <3>1. worker.pc = "announce" /\ ~Debit
      BY <2>3 DEF Announce, Debit
    <3>2. announced.id \in Debited => announced.id \in Committed
      BY <3>1 DEF Counted, Placed, Ended
    <3>. QED  BY <2>1, <3>1, <3>2, Debiting
  <2>4. CASE announced'.id = announced.id
    BY <2>1, <2>2, <2>4
  <2>5. CASE JobEnds \/ Recover
    BY <2>4, <2>5 DEF JobEnds, Recover, Shaped, Records, CallRecord
  <2>. QED
    BY <2>3, <2>4, <2>5
       DEF Shaped, Records, CallRecord, Next, vars, Claim, Draft, Decide, TakeReleased, Load,
           Dispatch, RunTools, Preflight, ComposeAsIs, CannotCompact, Narrow, Restore, GiveUp, Post, CallFails, SurfaceFails,
           Unread, Unfinished, Debit, Unverified, HaltViolation, Record, RecordSummary, VerifySummary,
           SurfaceLost, Escalate, Grant, Deny, Put, Refresh, Crash, Restart
<1>. QED  BY <1>1, <1>2, <1>3 DEF LedgerMatchesTurns, Committed

(* ------------------------------ violations ------------------------------- *)

LEMMA CaughtKept ==
  ASSUME Shaped, Placed, Counted, Caught, [Next]_vars
  PROVE  Caught'
<1>. Records
  BY DEF Shaped
<1>c. worker.pc \in {"wait", "record"} => Dangling
  BY DEF Counted, Dangling, Records, CallRecord
<1>d. announced'.id = announced.id /\ ~(Record \/ RecordSummary) => Dangling' = Dangling
  BY Committing DEF Dangling
<1>e. worker.pc = "record" => announced.job = "completed" /\ announced.answer.failure = NoFailure
  BY DEF Counted
<1>. USE Ending, Parking, Going
         DEF Caught, Placed, SummaryPcs, Records, WorkerRecord, RowRecord, CallRecord, Ended, Pcs, Fixed
<1>1. CASE Record
  <2>. DEFINE found == Deviates(Facts(worker.step, announced.answer), IntentOf(worker.step), submission.tools)
  <2>1. /\ worker.pc = "record" /\ worker.as = "step" /\ announced.answer.verified
        /\ announced' = announced /\ crashes' = crashes
        /\ violated' = IF "tier_violation" \in found THEN "step" ELSE violated
    BY <1>1 DEF Record
  <2>2. "tier_violation" \in found => End("halted", "violation")
    <3>1. "tier_violation" \in found => Halting(found)
      BY DEF Halting, Disposition
    <3>2. Halting(found) => End("halted", "violation")
      BY <1>1, Zenon DEF Record
    <3>. QED  BY <3>1, <3>2
  <2>. HIDE DEF found
  <2>. QED  BY <2>1, <2>2, <1>d, <1>e
<1>2. CASE RecordSummary
  <2>1. UNCHANGED <<announced, violated, crashes>> /\ worker.pc = "record" /\ worker.as = "summary"
    BY <1>2 DEF RecordSummary
  <2>. QED  BY <2>1, <1>d, <1>e
<1>3. CASE ~Record /\ ~RecordSummary
  <2>0. announced'.id = announced.id => Dangling' = Dangling
    BY <1>d, <1>3
  <2>1. CASE Claim
    <3>1. UNCHANGED <<announced, violated, crashes>> /\ row.status = "queued"
      BY <2>1 DEF Claim
    <3>. QED  BY <3>1, <2>0
  <2>2. CASE Draft  BY <2>2, <2>0 DEF Draft
  <2>3. CASE Decide
    <3>1. UNCHANGED <<announced, violated, crashes>> /\ worker.pc = "decide"
      BY <2>3 DEF Decide
    <3>. QED  BY <3>1, <2>0
  <2>4. CASE TakeReleased  BY <2>4, <2>0 DEF TakeReleased, At
  <2>5. CASE Load  BY <2>5, <2>0 DEF Load
  <2>6. CASE Dispatch  BY <2>6, <2>0 DEF Dispatch, At
  <2>7. CASE RunTools  BY <2>7, <2>0 DEF RunTools
  <2>8. CASE Preflight  BY <2>8, <2>0 DEF Preflight
  <2>9. CASE ComposeAsIs  BY <2>9, <2>0 DEF ComposeAsIs
  <2>10. CASE CannotCompact  BY <2>10, <2>0 DEF CannotCompact
  <2>11. CASE Narrow  BY <2>11, <2>0 DEF Narrow
  <2>12. CASE Restore  BY <2>12, <2>0 DEF Restore, AfterRestore
  <2>13. CASE GiveUp  BY <2>13, <2>0 DEF GiveUp
  <2>14. CASE Announce  BY <2>14, <2>0 DEF Announce, NoCall
  <2>15. CASE Post  BY <2>15, <2>0 DEF Post
  <2>16. CASE CallFails  BY <2>16, <2>0, Failing DEF CallFails
  <2>17. CASE SurfaceFails  BY <2>17, <2>0 DEF SurfaceFails
  <2>18. CASE JobEnds
    <3>1. UNCHANGED <<worker, row, violated, crashes>> /\ announced.job = "running"
      BY <2>18 DEF JobEnds
    <3>. QED  BY <3>1, <2>0
  <2>19. CASE Unread
    <3>1. /\ worker.pc = "wait" /\ announced.job = "completed" /\ announced.answer.failure # NoFailure
          /\ announced' = announced /\ crashes' = crashes
          /\ violated' = (IF worker'.pc = "violated" THEN "step" ELSE violated)
          /\ Fails(announced.answer.failure)
      BY <2>19 DEF Unread
    <3>2. CASE worker'.pc = "violated"
      BY <3>1, <3>2, <1>c, <2>0, Failing
    <3>3. CASE worker'.pc # "violated"
      BY <3>1, <3>3, <2>0, Failing
    <3>. QED  BY <3>2, <3>3
  <2>20. CASE Unfinished  BY <2>20, <2>0 DEF Unfinished
  <2>21. CASE Debit  BY <2>21, <2>0 DEF Debit
  <2>22. CASE Unverified  BY <2>22, <2>0, <1>c, <1>e DEF Unverified
  <2>23. CASE HaltViolation  BY <2>23, <2>0 DEF HaltViolation
  <2>24. CASE VerifySummary
    <3>. DEFINE finds == violated' # violated
    <3>1. /\ worker.pc = "verify" /\ announced' = announced /\ crashes' = crashes
          /\ violated' \in {violated, "summary"}
          /\ violated' = violated \/ Goes("undo")
      BY <2>24 DEF VerifySummary
    <3>. QED  BY <3>1, <2>0
  <2>25. CASE SurfaceLost  BY <2>25, <2>0 DEF SurfaceLost
  <2>26. CASE Escalate  BY <2>26, <2>0 DEF Escalate
  <2>27. CASE Grant
    <3>1. UNCHANGED <<announced, violated, crashes>> /\ row.status = "awaiting_approval"
      BY <2>27 DEF Grant
    <3>. QED  BY <3>1, <2>0
  <2>28. CASE Deny  BY <2>28, <2>0 DEF Deny
  <2>29. CASE Put \/ Refresh  BY <2>29, <2>0 DEF Put, Refresh
  <2>30. CASE Crash  BY <2>30, <2>0, GovernanceAssumption DEF Crash, At
  <2>31. CASE Restart  BY <2>31, <2>0 DEF Restart, At
  <2>32. CASE Recover
    <3>1. UNCHANGED <<violated, crashes>>
      BY <2>32 DEF Recover
    <3>2. announced.job # "running" => announced' = announced
      BY <2>32 DEF Recover
    <3>. QED  BY <2>32, <3>1, <3>2, <2>0, Recovering, Taking
  <2>33. CASE UNCHANGED vars  BY <2>33, <2>0 DEF vars
  <2>. QED
    BY <1>3, <2>1, <2>2, <2>3, <2>4, <2>5, <2>6, <2>7, <2>8, <2>9, <2>10, <2>11, <2>12, <2>13, <2>14,
       <2>15, <2>16, <2>17, <2>18, <2>19, <2>20, <2>21, <2>22, <2>23, <2>24, <2>25, <2>26, <2>27,
       <2>28, <2>29, <2>30, <2>31, <2>32, <2>33
       DEF Next
<1>. QED  BY <1>1, <1>2, <1>3

(* ----------------------------- the theorems ------------------------------ *)

LEMMA GovernedAtFirst ==
  ASSUME Init
  PROVE  Governed
<1>1. Records
  BY GovernanceAssumption
     DEF Init, Records, WorkerRecord, RowRecord, CallRecord, Idle, At, NoCall, Pcs, Chained
<1>2. /\ \A s \in Chained : chains[s] = <<>>
      /\ \A s \in Threads : threads[s] = <<>>
      /\ DOMAIN chains = Chained /\ DOMAIN threads = Threads
  BY DEF Init
<1>3. IsSeq(<<>>) /\ DOMAIN <<>> = {}
  BY DEF IsSeq
<1>4. Shaped
  BY <1>1, <1>2, <1>3 DEF Shaped, Histories
<1>5. Rows = {} /\ Committed = {} /\ Debited = {}
  BY <1>2, <1>3 DEF Rows, Committed, Debited, Init
<1>6. PolicyNeverWidens
  BY <1>2, <1>3 DEF PolicyNeverWidens
<1>7. Placed /\ Enveloped /\ Remembered
  BY DEF Init, Placed, Enveloped, Remembered, Idle, At, NoCall, Ended, Running, SummaryPcs
<1>8. Counted /\ LedgerMatchesTurns /\ Caught
  BY <1>5 DEF Init, Counted, LedgerMatchesTurns, Caught, Idle, At
<1>. QED  BY <1>4, <1>6, <1>7, <1>8 DEF Governed

LEMMA GovernedKept ==
  ASSUME Governed, [Next]_vars
  PROVE  Governed'
  BY ShapedKept, PlacedKept, EnvelopedKept, RememberedKept, PolicyNeverWidensKept, CountedKept,
     LedgerMatchesTurnsKept, CaughtKept
     DEF Governed

(* The invariant the properties follow from: a compaction remembers an envelope
   the step had, the turn in flight has no row and at most one debit, and a
   violation that did not end the trajectory yet is that of this turn. *)
THEOREM AlwaysGoverned == Spec => []Governed
  BY GovernedAtFirst, GovernedKept, PTL DEF Spec

(* Whatever a compaction, a crash in it or its recovery does, the policy alone
   never gives a step a tier or a tool it did not have (compaction.py, the
   narrowing and restoring of _summarize). *)
THEOREM OnlyPeopleWiden == Spec => []PolicyNeverWidens
<1>1. Governed => PolicyNeverWidens
  BY DEF Governed
<1>. QED  BY <1>1, AlwaysGoverned, PTL

(* No turn is debited twice and none is recorded without its debit, whatever
   crashes come between the two writes (_debit_turn and _record_turn). *)
THEOREM TurnsAreDebitedOnce == Spec => []LedgerMatchesTurns
<1>1. Governed => LedgerMatchesTurns
  BY DEF Governed
<1>. QED  BY <1>1, AlwaysGoverned, PTL

(* Only Post has LoadCoach take a request. *)
LEMMA Posting ==
  ASSUME Records, [Next]_vars, Posts
  PROVE  worker.pc = "post"
<1>1. CASE JobEnds \/ CallFails \/ Announce \/ Recover
  BY <1>1 DEF Posts, JobEnds, CallFails, Announce, NoCall, Recover, Records, CallRecord
<1>2. CASE Post
  BY <1>2 DEF Post
<1>3. CASE UNCHANGED announced
  BY <1>3 DEF Posts
<1>. QED
  BY <1>1, <1>2, <1>3
     DEF Next, vars, Claim, Draft, Decide, TakeReleased, Load, Dispatch, RunTools, Preflight,
         ComposeAsIs, CannotCompact, Narrow, Restore, GiveUp, SurfaceFails, Unread, Unfinished, Debit,
         Unverified, HaltViolation, Record, RecordSummary, VerifySummary, SurfaceLost, Escalate, Grant,
         Deny, Put, Refresh, Crash, Restart

(* After the record of a violation LoadCoach is asked for nothing: every crash
   between the record and the halt is recovered into the halt. *)
THEOREM NoCallAfterViolation == Spec => ViolationHalts
<1>1. Governed /\ [Next]_vars => (Posts => violated # "step" /\ (crashes = MaxCrashes => violated = "no"))
  <2>. SUFFICES ASSUME Governed, [Next]_vars, Posts
                PROVE  violated # "step" /\ (crashes = MaxCrashes => violated = "no")
    OBVIOUS
  <2>1. worker.pc = "post" /\ violated \in {"no", "step", "summary"}
    BY Posting DEF Governed, Shaped, Records
  <2>. QED  BY <2>1 DEF Governed, Placed, Caught, Ended
<1>. QED  BY <1>1, AlwaysGoverned, PTL DEF Spec, ViolationHalts
=============================================================================
