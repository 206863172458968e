------------------------------- MODULE Record -------------------------------
(* What is kept of a trajectory once it has ended: the composed explanation and
   its materialized revisions (services/explanation.py), and the words, which
   the retention sweep removes (services/retention.py), beside the life of the
   trajectory itself.

   Three writers meet here.  A run that ended its trajectory files the first
   revision, in a write of its own; the sweep of a worker thread scrubs what is
   old and invalidates what was filed; and `promptcadence db
   rebuild-explanations`, another process, files everything again.  Each reads,
   compares and writes in separate transactions.  A document is abstracted to
   whether it quotes any words, and to the ledger lines it lists. *)
EXTENDS TrajectoryLifecycle, Sequences, FiniteSets

CONSTANTS
    Past,           \* trajectories that completed under an earlier process
    NoTrajectory,   \* a writer with nothing in hand
    Batch,          \* batch_size of a sweep
    MaxLate,        \* bound: turns debited after their trajectory ended
    MaxRebuilds,    \* bound: rebuilds
    MaxKills        \* bound: crashes

ASSUME RecordAssumption ==
    /\ Past \subseteq Trajectories /\ NoTrajectory \notin Trajectories
    /\ Batch \in Nat \ {0}
    /\ {MaxLate, MaxRebuilds, MaxKills} \subseteq Nat

VARIABLES
    aged,        \* completed_at lies before the cutoff of a sweep
    scrubbed,    \* trajectories.content_scrubbed_at
    late,        \* ledger entries written after the end
    revisions,   \* explanation_revisions, by revision
    unfiled,     \* the run that ended the trajectory has yet to materialize it
    writer,      \* where each writer is, and the document it composed
    targets,     \* what the sweep and the rebuild still have to do
    torn,        \* history: a crash or a rebuild came between a scrub and its revision
    rebuilds, kills

rows == <<aged, scrubbed, late>>
memory == <<unfiled, writer, targets>>
recordVars == <<rows, revisions, memory, torn, rebuilds, kills>>
allVars == <<vars, recordVars>>
-----------------------------------------------------------------------------
Writers == {"run", "sweep", "rebuild"}
Phases == {"idle", "scrub", "check", "compose", "compare", "insert"}
Ended == {t \in Trajectories : status[t] \in Terminal}

Document == [words : BOOLEAN, late : 0 .. MaxLate]
Idle == [at |-> "idle", on |-> NoTrajectory, doc |-> [words |-> FALSE, late |-> 0]]

(* Some trajectories may have completed before, and nothing of them be filed. *)
RecordInit ==
    /\ status = [t \in Trajectories |-> IF t \in Past THEN "completed" ELSE "none"]
    /\ minted = [t \in Trajectories |-> t \in Past]
    /\ leased = [t \in Trajectories |-> FALSE]
    /\ pending = [t \in Trajectories |-> FALSE]
    /\ parkedFrom = [t \in Trajectories |-> "none"]
    /\ daysWaited = [t \in Trajectories |-> 0]
    /\ aged = [t \in Trajectories |-> FALSE]
    /\ scrubbed = [t \in Trajectories |-> FALSE]
    /\ late = [t \in Trajectories |-> 0]
    /\ revisions = [t \in Trajectories |-> <<>>]
    /\ unfiled = [t \in Trajectories |-> FALSE]
    /\ writer = [w \in Writers |-> Idle]
    /\ targets = [w \in {"sweep", "rebuild"} |-> {}]
    /\ torn = [t \in Trajectories |-> FALSE]
    /\ rebuilds = 0 /\ kills = 0

(* compose_live *)
Live(t) == [words |-> ~scrubbed[t], late |-> late[t]]

(* current_revision, of which there is at most one. *)
Current(t) == {revisions[t][i].doc : i \in {j \in DOMAIN revisions[t] : ~revisions[t][j].superseded}}

Moves(w, phase) == writer' = [writer EXCEPT ![w].at = phase]
Takes(w, t, phase) == writer' = [writer EXCEPT ![w] = [Idle EXCEPT !.at = phase, !.on = t]]
Done(w) == writer' = [writer EXCEPT ![w] = Idle]

At(w, phase) == writer[w].at = phase
Subject(w) == writer[w].on
-----------------------------------------------------------------------------
(* A transition of the row.  run() materializes what it ended; an ending by a
   request, a timeout or a recovery materializes nothing. *)
Transition(t) ==
    /\ Step(t)
    /\ \E byItsRun \in BOOLEAN :
         /\ byItsRun => status[t] \in LeaseHolding /\ status'[t] \in Terminal
         /\ unfiled' = [unfiled EXCEPT ![t] = byItsRun]
    /\ UNCHANGED <<rows, revisions, writer, targets, torn, rebuilds, kills>>

(* _debit_turn asks nobody whether the trajectory has ended meanwhile. *)
DebitLate(t) ==
    /\ t \in Ended \ Past /\ minted[t] /\ ~aged[t]
    /\ late[t] < MaxLate
    /\ late' = [late EXCEPT ![t] = @ + 1]
    /\ UNCHANGED <<vars, aged, scrubbed, revisions, memory, torn, rebuilds, kills>>

(* content_retention_hours go by; its run has long filed it, or died. *)
Age(t) ==
    /\ t \in Ended /\ ~aged[t]
    /\ ~unfiled[t] /\ Subject("run") # t
    /\ aged' = [aged EXCEPT ![t] = TRUE]
    /\ UNCHANGED <<vars, scrubbed, late, revisions, memory, torn, rebuilds, kills>>

(* run() goes on to _materialize. *)
File(t) ==
    /\ unfiled[t] /\ At("run", "idle")
    /\ unfiled' = [unfiled EXCEPT ![t] = FALSE]
    /\ Takes("run", t, "compose")
    /\ UNCHANGED <<vars, rows, revisions, targets, torn, rebuilds, kills>>
-----------------------------------------------------------------------------
(* materialize: compose, compare with the current revision, file the next. *)
Compose(w) ==
    /\ At(w, "compose")
    /\ writer' = [writer EXCEPT ![w].at = "compare", ![w].doc = Live(Subject(w))]
    /\ UNCHANGED <<vars, rows, revisions, unfiled, targets, torn, rebuilds, kills>>

(* Mutant: a current revision is taken for a revision of these rows. *)
CompareByPresence(w) ==
    /\ At(w, "compare")
    /\ IF Current(Subject(w)) # {} THEN Done(w) ELSE Moves(w, "insert")
    /\ UNCHANGED <<vars, rows, revisions, unfiled, targets, torn, rebuilds, kills>>

Compare(w) ==
    /\ At(w, "compare")
    /\ IF writer[w].doc \in Current(Subject(w)) THEN Done(w) ELSE Moves(w, "insert")
    /\ UNCHANGED <<vars, rows, revisions, unfiled, targets, torn, rebuilds, kills>>

(* Mutant: the revision before it stays current. *)
InsertBeside(w) ==
    /\ At(w, "insert")
    /\ revisions' = [revisions EXCEPT ![Subject(w)] =
                        Append(@, [doc |-> writer[w].doc, superseded |-> FALSE])]
    /\ Done(w)
    /\ UNCHANGED <<vars, rows, unfiled, targets, torn, rebuilds, kills>>

Insert(w) ==
    /\ At(w, "insert")
    /\ revisions' = [revisions EXCEPT ![Subject(w)] =
                        Append([i \in DOMAIN @ |-> [@[i] EXCEPT !.superseded = TRUE]],
                               [doc |-> writer[w].doc, superseded |-> FALSE])]
    /\ Done(w)
    /\ UNCHANGED <<vars, rows, unfiled, targets, torn, rebuilds, kills>>

(* _materialize logs and swallows whatever fails. *)
FailToFile ==
    /\ ~At("run", "idle")
    /\ Done("run")
    /\ UNCHANGED <<vars, rows, revisions, unfiled, targets, torn, rebuilds, kills>>
-----------------------------------------------------------------------------
(* Mutant: what was scrubbed is selected again. *)
OverdueAgain == {t \in Ended : aged[t]}

Overdue == {t \in Ended : aged[t] /\ ~scrubbed[t]}

(* scrub_content selects a batch ... *)
Select ==
    /\ At("sweep", "idle") /\ targets["sweep"] = {}
    /\ \E batch \in (SUBSET Overdue) \ {{}} :
         /\ Cardinality(batch) = Batch \/ (batch = Overdue /\ Cardinality(batch) < Batch)
         /\ targets' = [targets EXCEPT !["sweep"] = batch]
    /\ UNCHANGED <<vars, rows, revisions, unfiled, writer, torn, rebuilds, kills>>

(* ... and for each of it, removes the words in one write, ... *)
NextTarget(w, phase) ==
    /\ At(w, "idle")
    /\ \E t \in targets[w] :
         /\ targets' = [targets EXCEPT ![w] = @ \ {t}]
         /\ Takes(w, t, phase)
    /\ UNCHANGED <<vars, rows, revisions, unfiled, torn, rebuilds, kills>>

Scrub ==
    /\ At("sweep", "scrub")
    /\ scrubbed' = [scrubbed EXCEPT ![Subject("sweep")] = TRUE]
    /\ torn' = [torn EXCEPT ![Subject("sweep")] =
                   \/ @
                   \/ /\ Subject("rebuild") = Subject("sweep")
                      /\ At("rebuild", "compare") \/ At("rebuild", "insert")]
    /\ Moves("sweep", "check")
    /\ UNCHANGED <<vars, aged, late, revisions, unfiled, targets, rebuilds, kills>>

(* ... and invalidates the revision that was composed before, if there is one. *)
Check ==
    /\ At("sweep", "check")
    /\ IF Current(Subject("sweep")) = {} THEN Done("sweep") ELSE Moves("sweep", "compose")
    /\ UNCHANGED <<vars, rows, revisions, unfiled, targets, torn, rebuilds, kills>>

(* db rebuild-explanations over every terminal trajectory, with or without
   --drop, which empties the table first. *)
Rebuild ==
    /\ At("rebuild", "idle") /\ targets["rebuild"] = {}
    /\ rebuilds < MaxRebuilds
    /\ rebuilds' = rebuilds + 1
    /\ targets' = [targets EXCEPT !["rebuild"] = Ended]
    /\ \E drop \in BOOLEAN :
         revisions' = IF drop THEN [t \in Trajectories |-> <<>>] ELSE revisions
    /\ UNCHANGED <<vars, rows, unfiled, writer, torn, kills>>

(* A kill -9 of the served process: what a run had not filed stays unfiled, and
   a sweep that had scrubbed does not come back for the revision. *)
Kill ==
    /\ kills < MaxKills
    /\ kills' = kills + 1
    /\ unfiled' = [t \in Trajectories |-> FALSE]
    /\ writer' = [writer EXCEPT !["run"] = Idle, !["sweep"] = Idle]
    /\ targets' = [targets EXCEPT !["sweep"] = {}]
    /\ torn' = [t \in Trajectories |->
                   torn[t] \/ (Subject("sweep") = t /\ ~At("sweep", "scrub"))]
    /\ UNCHANGED <<vars, rows, revisions, rebuilds>>

Sweep == Select \/ NextTarget("sweep", "scrub") \/ Scrub \/ Check
Materialize(w) == Compose(w) \/ Compare(w) \/ Insert(w)

RecordNext ==
    \/ \E t \in Trajectories : Transition(t) \/ DebitLate(t) \/ Age(t) \/ File(t)
    \/ \E w \in Writers : Materialize(w)
    \/ FailToFile \/ Sweep \/ Rebuild \/ NextTarget("rebuild", "compose") \/ Kill

RecordSpec == RecordInit /\ [][RecordNext]_allVars

(* The worker thread reaches its sweep at every lease_seconds, and goes on. *)
RecordFairness == WF_allVars(Sweep \/ Materialize("sweep"))

FairRecordSpec == RecordSpec /\ RecordFairness
-----------------------------------------------------------------------------
(* Every variable keeps to its type, and of a trajectory's revisions only the
   last can be current: three writers never leave two (materialize). *)
RecordTypeOK ==
    /\ {aged, scrubbed, unfiled, torn} \subseteq [Trajectories -> BOOLEAN]
    /\ late \in [Trajectories -> 0 .. MaxLate]
    /\ revisions \in [Trajectories -> Seq([doc : Document, superseded : BOOLEAN])]
    /\ \A t \in Trajectories : \A i \in DOMAIN revisions[t] :
           revisions[t][i].superseded <=> i # Len(revisions[t])
    /\ writer \in [Writers -> [at : Phases, on : Trajectories \cup {NoTrajectory}, doc : Document]]
    /\ targets \in [{"sweep", "rebuild"} -> SUBSET Ended]
    /\ rebuilds \in 0 .. MaxRebuilds /\ kills \in 0 .. MaxKills

(* "An explanation that survives a scrub by keeping its own copy has defeated
   the scrub" (lifecycle, 9.1): once a sweep is done with a trajectory no read
   serves its words, except where a kill came between the scrub and the
   revision, or a rebuild had composed the document before it. *)
NothingOutlivesItsScrub ==
    \A t \in Trajectories :
        scrubbed[t] /\ ~torn[t] /\ Subject("sweep") # t =>
            \A doc \in Current(t) : ~doc.words

(* Whatever ended loses its words once its retention is over, however the
   sweeps are cut into batches and whenever the process dies. *)
RetentionIsHonoured == \A t \in Trajectories : aged[t] ~> scrubbed[t]
=============================================================================
