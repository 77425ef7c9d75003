------------------------------ MODULE MCSyncPair ----------------------------
(* SyncPair for two devices, a save of one or two files, a few edits.      *)
EXTENDS SyncPair, TLC

CONSTANTS a, b, f, g

Both == {a, b}
MCHashes == 1..MaxVersion

\* Two devices that start alike and whose users both play may be swapped.
Twins == Permutations(Devices)
=============================================================================
