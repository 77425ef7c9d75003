--------------------------- MODULE MCDeletionHold ---------------------------
(* Two devices that share a save of two files.                             *)
EXTENDS DeletionHold, TLC

CONSTANTS a, b, f, g

BothBefore == {f, g}
Twins == Permutations(Devices)
=============================================================================
