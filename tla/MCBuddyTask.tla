----------------------------- MODULE MCBuddyTask -----------------------------
(***************************************************************************)
(* BuddyTask for TLC.  Apart from the requester the identities are         *)
(* interchangeable.                                                        *)
(***************************************************************************)
EXTENDS BuddyTask, TLC

Symmetry == Permutations(Principal \ {Requester})
=============================================================================
