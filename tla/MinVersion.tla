---------------------------- MODULE MinVersion ----------------------------
(***************************************************************************)
(* What include/rollback.h promises: one stored minimum version, which is  *)
(* only ever raised, and one secret, to which entropy is only ever added,  *)
(* each change being seen whole or not at all.  A secret is the set of the *)
(* entropies hashed into it.                                               *)
(***************************************************************************)
EXTENDS Integers

CONSTANTS
  InitialVersion,         \* the version the image is flashed with
  Entropies

VARIABLES minimum, secret

Init == minimum = InitialVersion /\ secret = {}

\* rollback_update_version
Raise ==
  /\ minimum' > minimum
  /\ UNCHANGED secret

\* rollback_add_entropy
AddEntropy(entropy) ==
  /\ secret' = secret \union {entropy}
  /\ UNCHANGED minimum

Next ==
  \/ Raise
  \/ \E entropy \in Entropies : AddEntropy(entropy)

Spec == Init /\ [][Next]_<<minimum, secret>>
=============================================================================
