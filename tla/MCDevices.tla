------------------------------ MODULE MCDevices ------------------------------
(* DeviceParts with few devices, messages, paths and times.                 *)
EXTENDS DeviceParts, TLC

CONSTANTS f, g, h1, h2, dir, a, b, m1, m2

MCPaths == {f, g}
MCHashes == {h1, h2}
MCFolders == {dir}
MCDevs == {a, b}
MCUsers == {a}
MCMessages == {m1, m2}
MCRequests == {m1}

\* Paths and contents are interchangeable, as ids and folders of games too; times
\* are not, and only one of the two devices that track games has a user.
Sym == Permutations(MCPaths) \cup Permutations(MCHashes)
=============================================================================
