---------------------------- MODULE MCWorkerPool ----------------------------
(* Small pools: model values for the threads and the trajectories, which are
   interchangeable.  Two trajectories under one thread, or one under two. *)
EXTENDS WorkerPool, TLC

EitherPool == <<2, 1>>
TwoThreads == 2 :> 1

Symmetry == Permutations(Trajectories) \cup Permutations(Workers)
=============================================================================
