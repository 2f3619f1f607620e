--------------------------- MODULE MC_HostCommand ---------------------------
EXTENDS HostCommand, TLC
=============================================================================
