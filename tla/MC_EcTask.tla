----------------------------- MODULE MC_EcTask -----------------------------
(***************************************************************************)
(* Instances of EcTask: which calls the tasks make in which run.           *)
(***************************************************************************)
EXTENDS EcTask

\* Every call of the runtime.
EveryCall == AllCalls
=============================================================================
