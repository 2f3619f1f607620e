---------------------------- MODULE MC_VbootHash ----------------------------
EXTENDS VbootHash, TLC

Reg(o, s) == [offset |-> o, size |-> s]
\* Two chunks, one, none, and a region that does not fit.
MCRegions == {Reg(0, 2), Reg(1, 1), Reg(1, 0), Reg(1, 2)}
\* An update of everything, and of a part.
MCUpdates == {Reg(0, 2), Reg(1, 1)}
MCRW == Reg(0, 2)
=============================================================================
