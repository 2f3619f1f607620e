---------------------------- MODULE MC_Rollback ----------------------------
EXTENDS Rollback, TLC

CONSTANTS rwsig, hooks, fpsensor
=============================================================================
