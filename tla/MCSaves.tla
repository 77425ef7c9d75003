------------------------------- MODULE MCSaves -------------------------------
(* SaveParts with few threads, contents, devices and readers.               *)
EXTENDS SaveParts, TLC

CONSTANTS ui, bg, user, auto, app, tool, main, side, c1, c2, d1, d2, x, f, r1, r2

MCThreads == {ui, bg, user, auto}
MCHistory == {ui, bg}
MCSwitch == {user, auto}
MCProcessOf == [t \in MCThreads |-> IF t = ui THEN tool ELSE app]
MCOps == ui   :> {"restore", "play"}
      @@ bg   :> {"autoCapture", "compact"}
      @@ user :> {"switch", "branch", "play", "delete", "capture"}
      @@ auto :> {"autoCapture"}
MCBranches == {main, side}
MCData == {c1, c2}
MCDevs == {d1, d2}
MCAnswers == {x}
MCFiles == {f}
MCReaders == {r1, r2}

\* The contents of a save, two devices and two readers are interchangeable.
Sym == Permutations(MCData) \cup Permutations(MCDevs) \cup Permutations(MCReaders)
=============================================================================
