----------------------------- MODULE MC_EcHooks -----------------------------
(***************************************************************************)
(* An instance of EcHooks: two routines and a tick of a few microseconds.  *)
(***************************************************************************)
EXTENDS EcHooks
=============================================================================
