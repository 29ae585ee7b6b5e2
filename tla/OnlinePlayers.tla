----------------------------- MODULE OnlinePlayers -----------------------------
(***************************************************************************)
(* The records of the players that are online (M_online_players.cpp,       *)
(* M_online_players.h) and the hooks that keep them: the login, the        *)
(* creation of a character and the logout of M_player_common_activity.cpp. *)
(*                                                                         *)
(* A record is found by the number of the player's character and keeps the *)
(* pointer to the controller that logged in.  The server owns controllers: *)
(* it destroys one when its player has been logged out, and a player who   *)
(* reconnects may have two for a while.  Timers and hooks follow the       *)
(* pointers of the records at any time.                                    *)
(***************************************************************************)
EXTENDS Naturals

CONSTANTS
  Controller,   \* the controllers that ever exist
  Steam,        \* the accounts
  SteamOf,      \* the account of each controller
  MaxPid,       \* characters have the numbers 1 .. MaxPid; 0 is none
  NoInfo        \* a null pointer

Pid  == 1 .. MaxPid
Info == [shooterPlayer : Controller, steamId : Steam]

ASSUME ConstantsAssumption ==
  /\ SteamOf \in [Controller -> Steam]
  /\ MaxPid \in Nat
  /\ NoInfo \notin Info

VARIABLES
  playerIdMap,  \* the records
  todo,         \* controllers the constructor has still to look at
  plugin,       \* "unloaded", "starting" (in the constructor) or "loaded"
  conn,         \* of each controller: "new", "in" or "destroyed"
  linked,       \* LinkedPlayerID of each controller
  character,    \* the character of each account
  lastPid,      \* the youngest character
  overlapped,   \* history: accounts that have had two controllers at a time
  missed        \* history: controllers that the constructor has left out, and that have
                \* been neither inserted nor destroyed since

gameVars == <<conn, linked, character, lastPid, overlapped>>
vars == <<playerIdMap, todo, plugin, gameVars, missed>>

TypeOK ==
  /\ playerIdMap \in [Pid -> Info \cup {NoInfo}]
  /\ todo \subseteq Controller
  /\ plugin \in {"unloaded", "starting", "loaded"}
  /\ conn \in [Controller -> {"new", "in", "destroyed"}]
  /\ linked \in [Controller -> Pid \cup {0}]
  /\ character \in [Steam -> Pid \cup {0}]
  /\ lastPid \in Pid \cup {0}
  /\ overlapped \subseteq Steam
  /\ missed \subseteq Controller

-----------------------------------------------------------------------------

Nobody == [p \in Pid |-> NoInfo]
Online == {c \in Controller : conn[c] = "in"}

Records(map, s) == {p \in Pid : map[p] # NoInfo /\ map[p].steamId = s}

\* Mistake: a record of the same account is not looked for.
ForgetSteamNot(map, s) == map

\* The first record of an account is deleted.
ForgetSteam(map, s) ==
  IF Records(map, s) = {} THEN map
  ELSE [map EXCEPT ![CHOOSE p \in Records(map, s) :
                       \A q \in Records(map, s) : p <= q] = NoInfo]

\* Mistake: a record that is there is kept, the old controller with it.
InsertPlayerKeeps(map, c, id) ==
  IF id # 0 /\ map[id] = NoInfo
  THEN [map EXCEPT ![id] = [shooterPlayer |-> c, steamId |-> SteamOf[c]]]
  ELSE map

\* insertPlayer: a controller without a character gets no record.
InsertPlayer(map, c, id) ==
  LET purged == ForgetSteam(map, SteamOf[c])
  IN  IF id # 0 /\ purged[id] = NoInfo
      THEN [purged EXCEPT ![id] = [shooterPlayer |-> c, steamId |-> SteamOf[c]]]
      ELSE purged

\* Mistake: lower_bound() in place of find().
EraseLowerBound(map, id) ==
  LET above == {p \in Pid : p >= id /\ map[p] # NoInfo}
  IN  IF above = {} THEN map
      ELSE [map EXCEPT ![CHOOSE p \in above : \A q \in above : p <= q] = NoInfo]

Erase(map, id) == [p \in Pid |-> IF p = id THEN NoInfo ELSE map[p]]

Init ==
  /\ playerIdMap = Nobody /\ todo = {} /\ plugin = "unloaded"
  /\ conn = [c \in Controller |-> "new"]
  /\ linked = [c \in Controller |-> 0]
  /\ character = [s \in Steam |-> 0]
  /\ lastPid = 0 /\ overlapped = {} /\ missed = {}

\* StartNewShooterPlayer returns, and the hook inserts the player.
Inserted(c, id) ==
  /\ linked' = [linked EXCEPT ![c] = id]
  /\ playerIdMap' = IF plugin = "loaded" THEN InsertPlayer(playerIdMap, c, id)
                    ELSE playerIdMap
  /\ missed' = missed \ {c}

-----------------------------------------------------------------------------
(* The server's calls, on the game thread.  None comes while the plugin is  *)
(* in its constructor.                                                      *)

\* A player logs in, with the character of the account if there is one.
Login(c) ==
  /\ plugin # "starting" /\ conn[c] = "new"
  /\ conn' = [conn EXCEPT ![c] = "in"]
  /\ overlapped' = IF \E o \in Online : SteamOf[o] = SteamOf[c]
                   THEN overlapped \cup {SteamOf[c]} ELSE overlapped
  /\ Inserted(c, character[SteamOf[c]])
  /\ UNCHANGED <<todo, plugin, character, lastPid>>

\* A player creates a character, the first or one in place of the last.
CreatePlayer(c) ==
  /\ plugin # "starting" /\ conn[c] = "in" /\ lastPid < MaxPid
  /\ lastPid' = lastPid + 1
  /\ character' = [character EXCEPT ![SteamOf[c]] = lastPid']
  /\ Inserted(c, lastPid')
  /\ UNCHANGED <<todo, plugin, conn, overlapped>>

\* A player spawns again with the character of the controller.
Respawn(c) ==
  /\ plugin # "starting" /\ conn[c] = "in"
  /\ Inserted(c, linked[c])
  /\ UNCHANGED <<todo, plugin, conn, character, lastPid, overlapped>>

\* The hook erases the record, the server destroys the controller.
Logout(c) ==
  /\ plugin # "starting" /\ conn[c] = "in"
  /\ playerIdMap' = IF plugin = "loaded" THEN Erase(playerIdMap, linked[c])
                    ELSE playerIdMap
  /\ conn' = [conn EXCEPT ![c] = "destroyed"] /\ missed' = missed \ {c}
  /\ UNCHANGED <<todo, plugin, linked, character, lastPid, overlapped>>

-----------------------------------------------------------------------------
(* The plugin.                                                              *)

\* The constructor reads the server's list of controllers.
Load ==
  /\ plugin = "unloaded"
  /\ plugin' = "starting" /\ todo' = Online
  /\ playerIdMap' = Nobody
  /\ UNCHANGED <<gameVars, missed>>

\* It inserts the players of the list one by one.
Construct(c) ==
  /\ plugin = "starting" /\ c \in todo
  /\ playerIdMap' = InsertPlayer(playerIdMap, c, linked[c])
  /\ todo' = todo \ {c}
  /\ UNCHANGED <<plugin, gameVars, missed>>

\* An exception, such as that of stoull() for a controller that has no account number yet,
\* ends the list: its controller and those after it are left out, and loading goes on.
ConstructEnds ==
  /\ plugin = "starting" /\ todo # {}
  /\ todo' = {} /\ missed' = todo
  /\ UNCHANGED <<playerIdMap, plugin, gameVars>>

Loaded ==
  /\ plugin = "starting" /\ todo = {}
  /\ plugin' = "loaded"
  /\ UNCHANGED <<playerIdMap, todo, gameVars, missed>>

Unload ==
  /\ plugin = "loaded"
  /\ plugin' = "unloaded" /\ playerIdMap' = Nobody /\ missed' = {}
  /\ UNCHANGED <<todo, gameVars>>

Next ==
  \/ \E c \in Controller :
       Login(c) \/ CreatePlayer(c) \/ Respawn(c) \/ Logout(c) \/ Construct(c)
  \/ Load \/ ConstructEnds \/ Loaded \/ Unload

Spec == Init /\ [][Next]_vars

-----------------------------------------------------------------------------

\* A pointer in a record leads to a controller that exists and still plays the
\* character under which the record is found; the position timer and the tame
\* hooks follow it with no check of their own (M_online_players.cpp 212-232,
\* M_tribe.cpp 661-674).
LivePointers ==
  \A p \in Pid : playerIdMap[p] # NoInfo =>
    LET c == playerIdMap[p].shooterPlayer
    IN  conn[c] = "in" /\ linked[c] = p /\ playerIdMap[p].steamId = SteamOf[c]

\* No account has two records, so that the count in the ping counts players
\* (M_online_players.cpp 109-120, 205).
OneRecordPerPlayer ==
  \A p, q \in Pid :
    /\ playerIdMap[p] # NoInfo /\ playerIdMap[q] # NoInfo
    /\ playerIdMap[p].steamId = playerIdMap[q].steamId
    => p = q

\* A player online with a character has a record, unless an earlier reconnect
\* gave the account two controllers: then the logout of the old one erases the
\* record of the new one (M_player_common_activity.cpp 65-67); or the constructor
\* has left the player out, who then has none until the next spawn or character
\* (M_online_players.cpp 36-83).
Tracked ==
  plugin = "loaded" =>
    \A c \in Online :
      linked[c] = 0 \/ SteamOf[c] \in overlapped \/ c \in missed
      \/ playerIdMap[linked[c]] # NoInfo

\* Whatever logins, reconnects and reloads come after each other, the map has
\* at most one record for each account.
Inv == TypeOK /\ OneRecordPerPlayer

=============================================================================
