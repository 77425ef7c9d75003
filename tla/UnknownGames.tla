---------------------------- MODULE UnknownGames ----------------------------
(***************************************************************************)
(* What a device does about a game a peer asks for and it may not know:    *)
(* the peer's requests resolve it to one tracked here, offer it to the     *)
(* user or track it at a guessed folder (ensureManifestGame), while the    *)
(* user tracks, places, declines, untracks, links and unlinks (TrackGame,  *)
(* handlePlaceOfferedGame, LinkGames, UnlinkGame).  All act on the same    *)
(* rows, one statement at a time.  All ids are taken to have one App ID.   *)
(***************************************************************************)
EXTENDS Naturals, FiniteSets

CONSTANTS
  Ids,        \* ids the title is known by here or on peers
  Folders,    \* save folders
  Requests,   \* manifest requests served at a time
  None        \* no row, no folder

NoneIsNothing == None \notin Ids \cup Folders

VARIABLES
  folder,     \* the games tracked, and where
  link,       \* alias rows: the game meant, and the folder its entry had
  offered,    \* games waiting for the user to place them
  declined,   \* tombstones
  settings,   \* ask before tracking; match by App ID
  request,    \* the peers' requests
  user,       \* what the user's operation does next
  answered    \* history: how the user settled a game last

vars == <<folder, link, offered, declined, settings, request, user, answered>>

NoLink == [to |-> None, folder |-> None]
Idle   == [at |-> "idle", id |-> None, other |-> None]

Stages == {"idle", "look", "resolve", "match", "note", "judge", "offer", "create"}
Doing  == {"idle", "track", "place", "createOwn", "createPlaced", "answer", "drop", "bury",
           "decline", "alias", "merge", "absorb", "unlink", "restore"}

TypeOK ==
  /\ folder \in [Ids -> Folders \cup {None}]
  /\ link \in [Ids -> [to : Ids \cup {None}, folder : Folders \cup {None}]]
  /\ offered \subseteq Ids /\ declined \subseteq Ids
  /\ settings \in [ask : BOOLEAN, match : BOOLEAN]
  /\ request \in [Requests -> [at : Stages, id : Ids \cup {None}, other : Ids \cup Folders \cup {None}]]
  /\ user \in [at : Doing, id : Ids \cup {None}, other : Ids \cup Folders \cup {None}]
  /\ answered \in [Ids -> {"none", "placed", "linked"}]

Init ==
  /\ folder = [i \in Ids |-> None] /\ link = [i \in Ids |-> NoLink]
  /\ offered = {} /\ declined = {}
  /\ settings \in [ask : BOOLEAN, match : BOOLEAN]
  /\ request = [r \in Requests |-> Idle] /\ user = Idle
  /\ answered = [i \in Ids |-> "none"]

-----------------------------------------------------------------------------
\* Rows.

Tracked == {i \in Ids : folder[i] # None}
Linked(i) == link[i].to # None

CreateGame(i, f) == folder' = [folder EXCEPT ![i] = f]

\* An alias row refers to a game and goes with it.
DeleteGame(i) ==
  /\ folder' = [folder EXCEPT ![i] = None]
  /\ link' = [j \in Ids |-> IF link[j].to = i THEN NoLink ELSE link[j]]

\* Only the game is replaced in a row there is; one that names no game is refused.
AddGameAlias(i, g) ==
  link' = IF g \in Tracked THEN [link EXCEPT ![i].to = g] ELSE link

\* Broken: the caller's own check, made before, is trusted.
RecordOfferedGame_Unchecked(i) == offered' = offered \cup {i}

\* The check and the insert are one statement.
RecordOfferedGame(i) ==
  offered' = IF folder[i] # None \/ Linked(i) THEN offered ELSE offered \cup {i}

\* Broken: as CreateGame, which asks for no link.
CreateGameUnlessAliased_Plain(i, f) ==
  folder' = IF folder[i] # None THEN folder ELSE [folder EXCEPT ![i] = f]

\* The check for a link and the insert are one transaction.
CreateGameUnlessAliased(i, f) ==
  folder' = IF folder[i] # None \/ Linked(i) THEN folder ELSE [folder EXCEPT ![i] = f]

-----------------------------------------------------------------------------
\* A peer's manifest request.

Becomes(r, stage, o) ==
  request' = [request EXCEPT ![r] = IF stage = "idle" THEN Idle ELSE [at |-> stage, id |-> @.id, other |-> o]]

Ask(r, i) ==
  /\ request[r] = Idle
  /\ request' = [request EXCEPT ![r] = [at |-> "look", id |-> i, other |-> None]]
  /\ UNCHANGED <<folder, link, offered, declined>>

Look(r) ==
  /\ request[r].at = "look"
  /\ Becomes(r, IF request[r].id \in Tracked THEN "idle" ELSE "resolve", None)
  /\ UNCHANGED <<folder, link, offered, declined>>

ResolveGameAlias(r) ==
  /\ request[r].at = "resolve"
  /\ Becomes(r, IF Linked(request[r].id) THEN "idle" ELSE "match", None)
  /\ UNCHANGED <<folder, link, offered, declined>>

\* Several games with the App ID are too many to choose from.
FindGameByAppID(r) ==
  /\ request[r].at = "match"
  /\ IF settings.match /\ Cardinality(Tracked) = 1
       THEN \E g \in Tracked : Becomes(r, "note", g)
       ELSE Becomes(r, "judge", None)
  /\ UNCHANGED <<folder, link, offered, declined>>

\* A match is remembered as a link.
NoteMatch(r) ==
  /\ request[r].at = "note"
  /\ IF request[r].id # request[r].other THEN AddGameAlias(request[r].id, request[r].other) ELSE UNCHANGED link
  /\ Becomes(r, "idle", None)
  /\ UNCHANGED <<folder, offered, declined>>

\* An unwanted game is not found; else it is offered, unless a known save
\* folder is guessed and the user did not ask to be asked.
Judge(r) ==
  /\ request[r].at = "judge"
  /\ \/ request[r].id \in declined /\ Becomes(r, "idle", None)
     \/ request[r].id \notin declined /\ Becomes(r, "offer", None)
     \/ /\ request[r].id \notin declined /\ ~settings.ask
        /\ \E f \in Folders : Becomes(r, "create", f)
  /\ UNCHANGED <<folder, link, offered, declined>>

OfferGame(r) ==
  /\ request[r].at = "offer"
  /\ RecordOfferedGame(request[r].id)
  /\ Becomes(r, "idle", None)
  /\ UNCHANGED <<folder, link, declined>>

AutoTrack(r) ==
  /\ request[r].at = "create"
  /\ CreateGameUnlessAliased(request[r].id, request[r].other)
  /\ Becomes(r, "idle", None)
  /\ UNCHANGED <<link, offered, declined>>

EnsureManifestGame(r) ==
  /\ \/ \E i \in Ids : Ask(r, i)
     \/ Look(r) \/ ResolveGameAlias(r) \/ FindGameByAppID(r) \/ NoteMatch(r)
     \/ Judge(r) \/ OfferGame(r) \/ AutoTrack(r)
  /\ UNCHANGED <<settings, user, answered>>

-----------------------------------------------------------------------------
\* The user, one operation at a time.

Proceeds(stage, i, o) == user' = IF stage = "idle" THEN Idle ELSE [at |-> stage, id |-> i, other |-> o]
Settled(i, how) == answered' = [answered EXCEPT ![i] = how]

\* What the user said of a link goes with the link.
Lapsed(gone) == [j \in Ids |-> IF j \in gone /\ answered[j] = "linked" THEN "none" ELSE answered[j]]
LinksTo(i) == {j \in Ids : link[j].to = i}

\* ValidateSavePath: one folder, one game.
Free(f) == \A i \in Ids : folder[i] # f

Starts ==
  /\ user = Idle
  /\ \/ \E i \in Ids \ Tracked, f \in Folders : Free(f) /\ Proceeds("track", i, f)
     \/ \E i \in offered, f \in Folders : Free(f) /\ Proceeds("place", i, f)
     \/ \E i \in offered : Proceeds("decline", i, None)
     \/ \E i \in Tracked : Proceeds("drop", i, None)
     \/ \E c \in Tracked : \E i \in Ids \ {c} : Proceeds("alias", i, c)
     \/ \E i \in Ids : Linked(i) /\ Proceeds("unlink", i, link[i].folder)
  /\ UNCHANGED <<folder, link, offered, declined, answered>>

\* TrackGame, from the Games page or to place an offer.
ClearTombstone ==
  /\ user.at \in {"track", "place"}
  /\ declined' = declined \ {user.id}
  /\ Proceeds(IF user.at = "track" THEN "createOwn" ELSE "createPlaced", user.id, user.other)
  /\ UNCHANGED <<folder, link, offered, answered>>

TrackGame ==
  /\ user.at \in {"createOwn", "createPlaced"}
  /\ IF user.id \in Tracked
       THEN Proceeds("idle", None, None) /\ UNCHANGED <<folder, answered>>
       ELSE /\ CreateGame(user.id, user.other) /\ Settled(user.id, "none")
            /\ Proceeds(IF user.at = "createPlaced" THEN "answer" ELSE "idle", user.id, user.other)
  /\ UNCHANGED <<link, offered, declined>>

\* The offer goes once it is placed or declined.
ClearOfferedGame ==
  /\ user.at = "answer"
  /\ offered' = offered \ {user.id}
  /\ Settled(user.id, IF user.other = None THEN "none" ELSE "placed")
  /\ Proceeds("idle", None, None)
  /\ UNCHANGED <<folder, link, declined>>

\* UntrackGame.
Untrack ==
  /\ user.at = "drop"
  /\ DeleteGame(user.id)
  /\ answered' = [Lapsed(LinksTo(user.id)) EXCEPT ![user.id] = "none"]
  /\ Proceeds("bury", user.id, None)
  /\ UNCHANGED <<offered, declined>>

\* handleDeclineOfferedGame, and what an untracking ends with.
Bury ==
  /\ user.at \in {"bury", "decline"}
  /\ declined' = declined \cup {user.id}
  /\ Proceeds(IF user.at = "decline" THEN "answer" ELSE "idle", user.id, None)
  /\ UNCHANGED <<folder, link, offered, answered>>

LinkAlias ==
  /\ user.at = "alias"
  /\ AddGameAlias(user.id, user.other)
  /\ IF user.other \in Tracked THEN Proceeds("merge", user.id, user.other) ELSE Proceeds("idle", None, None)
  /\ Settled(user.id, "none")
  /\ UNCHANGED <<folder, offered, declined>>

\* An entry of its own is remembered in the row, to be merged.
LinkMerge ==
  /\ user.at = "merge"
  /\ IF user.id \in Tracked
       THEN /\ link' = IF Linked(user.id) THEN [link EXCEPT ![user.id].folder = folder[user.id]] ELSE link
            /\ Proceeds("absorb", user.id, user.other) /\ UNCHANGED answered
       ELSE Settled(user.id, "linked") /\ Proceeds("idle", None, None) /\ UNCHANGED link
  /\ UNCHANGED <<folder, offered, declined>>

LinkAbsorb ==
  /\ user.at = "absorb"
  /\ DeleteGame(user.id)
  /\ answered' = [Lapsed(LinksTo(user.id)) EXCEPT ![user.id] = "linked"]
  /\ Proceeds("idle", None, None)
  /\ UNCHANGED <<offered, declined>>

Unlink ==
  /\ user.at = "unlink"
  /\ link' = [link EXCEPT ![user.id] = NoLink]
  /\ Proceeds(IF user.other = None THEN "idle" ELSE "restore", user.id, user.other)
  /\ answered' = Lapsed({user.id})
  /\ UNCHANGED <<folder, offered, declined>>

\* The entry that was merged comes back, where it was.
Restore ==
  /\ user.at = "restore"
  /\ IF user.id \in Tracked THEN UNCHANGED <<folder, answered>>
       ELSE CreateGame(user.id, user.other) /\ Settled(user.id, "none")
  /\ Proceeds("idle", None, None)
  /\ UNCHANGED <<link, offered, declined>>

User ==
  /\ \/ Starts \/ ClearTombstone \/ TrackGame \/ ClearOfferedGame \/ Untrack \/ Bury
     \/ LinkAlias \/ LinkMerge \/ LinkAbsorb \/ Unlink \/ Restore
  /\ UNCHANGED <<settings, request>>

Next == User \/ \E r \in Requests : EnsureManifestGame(r)

Spec == Init /\ [][Next]_vars

-----------------------------------------------------------------------------
\* What the user has settled about a game, a request that looked before does
\* not undo: an offer that was placed is not made again, and a game linked to
\* another does not get an entry beside it (RecordOfferedGame,
\* CreateGameUnlessAliased).
AnswersAreNotUndone ==
  \A i \in Ids :
    /\ answered[i] = "placed" => i \notin offered
    /\ answered[i] = "linked" => Linked(i) /\ folder[i] = None
=============================================================================
