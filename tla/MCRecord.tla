------------------------------ MODULE MCRecord ------------------------------
(* Two trajectories through the whole of their life and what is kept of it: a
   window of three days, sweeps of one trajectory at a time. *)
EXTENDS Record
=============================================================================
