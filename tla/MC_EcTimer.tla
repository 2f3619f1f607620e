----------------------------- MODULE MC_EcTimer -----------------------------
(***************************************************************************)
(* Instances of EcTimer: two tasks, a counter that wraps every few ticks.  *)
(***************************************************************************)
EXTENDS EcTimer
=============================================================================
