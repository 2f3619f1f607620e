-------------------------- MODULE MC_EcTaskReset --------------------------
\* Instances of EcTaskReset: the priorities of the tasks are in the .cfg.
EXTENDS EcTaskReset
=============================================================================
