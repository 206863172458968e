---------------------------- MODULE MCWindowWait ----------------------------
(* Ceilings of one step a day.  Alike: a trajectory is woken for what its step
   costs.  DearStep: the tier the step runs on costs more than the default
   tier the trajectory is woken for, and more than a day ever holds. *)
EXTENDS WindowWait, TLC

Alike == [t \in Trajectories |-> 1]
DearStep == [t \in Trajectories |-> Ceiling + 1]
=============================================================================
