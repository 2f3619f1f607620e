------------------------------ MODULE MC_Prl ------------------------------
\* Instances of Prl for TLC.
EXTENDS Prl
=============================================================================
