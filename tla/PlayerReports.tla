----------------------------- MODULE PlayerReports -----------------------------
(***************************************************************************)
(* What a reader of the log knows of the players: the messages of the      *)
(* hooks of login and logout (M_player_common_activity.cpp) and of the     *)
(* position timer (M_online_players.cpp), over the records of              *)
(* OnlinePlayers, and those with which Load() begins.  The reader shows a  *)
(* character from its login to its logout, or to the login of another one  *)
(* of the same account; at the start of the server it forgets all.         *)
(***************************************************************************)
EXTENDS OnlinePlayers

CONSTANTS
  Place,     \* where players are
  Nowhere,   \* no place
  Off,       \* a character that is not online
  Unnamed    \* one that is, of an account that the log does not name

ASSUME PlaceAssumption ==
  Nowhere \notin Place /\ Off # Unnamed /\ {Off, Unnamed} \cap Steam = {}

VARIABLES
  pos,       \* where each controller's player is
  at,        \* x, y and z of the records
  known,     \* the reader's place of each character
  shown,     \* what the reader has of each character: the account with which it is
             \* online, Unnamed, or Off
  untold     \* history: controllers that the start of the log has left out, and whose
             \* player has neither made a character nor left since

readerVars == <<known, shown, untold>>
reportVars == <<pos, at, readerVars>>
playerVars == <<vars, reportVars>>

ReportTypeOK ==
  /\ pos \in [Controller -> Place]
  /\ at \in [Pid -> Place \cup {Nowhere}]
  /\ known \in [Pid -> Place \cup {Nowhere}]
  /\ shown \in [Pid -> Steam \cup {Unnamed, Off}]
  /\ untold \subseteq Controller

ReportInit ==
  /\ pos \in [Controller -> Place]
  /\ at = [p \in Pid |-> Nowhere] /\ known = [p \in Pid |-> Nowhere]
  /\ shown = [p \in Pid |-> Off] /\ untold = {}

-----------------------------------------------------------------------------

\* insertPlayer makes a record of id, and not only deletes the account's old one.
MakesRecord(c, id) ==
  id # 0 /\ ForgetSteam(playerIdMap, SteamOf[c])[id] = NoInfo

\* Mistake: a record of the account is taken over as it is.
PlacesKept(c, id) ==
  [p \in Pid |-> IF playerIdMap'[p] = NoInfo THEN Nowhere
                 ELSE IF p = id /\ at[p] = Nowhere THEN pos[c] ELSE at[p]]

\* The places in the records after an insertion.
Places(c, id) ==
  [p \in Pid |-> IF playerIdMap'[p] = NoInfo THEN Nowhere
                 ELSE IF p = id /\ MakesRecord(c, id) THEN pos[c] ELSE at[p]]

SetPos(c, id) == IF id = 0 THEN known ELSE [known EXCEPT ![id] = pos[c]]

\* A login of an account with a character ends what the reader shows of the account.
ShowLogin(s, id) ==
  [p \in Pid |-> IF p = id THEN s ELSE IF shown[p] = s THEN Off ELSE shown[p]]

ShowLogout(s, id) == [p \in Pid |-> IF p = id \/ shown[p] = s THEN Off ELSE shown[p]]

\* StartNewShooterPlayer: what the message of a respawn says of the player is hidden
\* by its type, m_stop_work.
ReportStart(c, messageType) ==
  /\ IF plugin = "loaded"
     THEN /\ at' = Places(c, linked'[c]) /\ known' = SetPos(c, linked'[c])
          /\ IF messageType = "m_stop_work" THEN UNCHANGED <<shown, untold>>
             ELSE /\ shown' = ShowLogin(SteamOf[c], linked'[c])
                  /\ untold' = untold \ {c}
     ELSE UNCHANGED <<at, readerVars>>
  /\ UNCHANGED pos

PlayerLogin(c)   == Login(c) /\ ReportStart(c, "m_player_login")
PlayerCreate(c)  == CreatePlayer(c) /\ ReportStart(c, "m_player_create")
PlayerRespawn(c) == Respawn(c) /\ ReportStart(c, "m_stop_work")

\* The places in the records that are left.
PlacesLeft == [p \in Pid |-> IF playerIdMap'[p] = NoInfo THEN Nowhere ELSE at[p]]

PlayerLogout(c) ==
  /\ Logout(c)
  /\ IF plugin = "loaded"
     THEN /\ known' = SetPos(c, linked[c])
          /\ shown' = ShowLogout(SteamOf[c], linked[c])
          /\ untold' = untold \ {c}
     ELSE UNCHANGED readerVars
  /\ at' = PlacesLeft /\ UNCHANGED pos

-----------------------------------------------------------------------------

PlayersLoad == Load /\ at' = PlacesLeft /\ UNCHANGED <<pos, readerVars>>

\* The constructor reports nothing of the players that it finds.
PlayersConstruct(c) ==
  /\ Construct(c)
  /\ at' = Places(c, linked[c]) /\ UNCHANGED <<pos, readerVars>>

PlayersConstructEnds == ConstructEnds /\ UNCHANGED reportVars

\* Mistake: those who are online are not told.
LoadedSilently ==
  /\ Loaded
  /\ known' = [p \in Pid |-> Nowhere] /\ shown' = [p \in Pid |-> Off]
  /\ untold' = missed
  /\ UNCHANGED <<pos, at>>

\* When all modules are there, Load() pushes the start of the server and a message for
\* each record.
PlayersLoaded ==
  /\ Loaded
  /\ known' = [p \in Pid |-> Nowhere]
  /\ shown' = [p \in Pid |-> IF playerIdMap[p] = NoInfo THEN Off ELSE Unnamed]
  /\ untold' = missed
  /\ UNCHANGED <<pos, at>>

PlayersUnload ==
  /\ Unload
  /\ at' = PlacesLeft /\ untold' = {} /\ UNCHANGED <<pos, known, shown>>

Move(c, place) ==
  /\ plugin # "starting" /\ conn[c] = "in"
  /\ pos' = [pos EXCEPT ![c] = place]
  /\ UNCHANGED <<vars, at, readerVars>>

Where(p) == pos[playerIdMap[p].shooterPlayer]

\* Mistake: the new place is reported, and not kept.
CollectForgets ==
  /\ plugin = "loaded"
  /\ known' = [p \in Pid |-> IF playerIdMap[p] # NoInfo /\ at[p] # Where(p)
                             THEN Where(p) ELSE known[p]]
  /\ UNCHANGED <<vars, pos, at, shown, untold>>

\* The timer reports the places of those that have moved.
Collect ==
  /\ plugin = "loaded"
  /\ LET Moved(p) == playerIdMap[p] # NoInfo /\ at[p] # Where(p)
     IN  /\ at'    = [p \in Pid |-> IF Moved(p) THEN Where(p) ELSE at[p]]
         /\ known' = [p \in Pid |-> IF Moved(p) THEN Where(p) ELSE known[p]]
  /\ UNCHANGED <<vars, pos, shown, untold>>

PlayerNext ==
  \/ \E c \in Controller :
       \/ PlayerLogin(c) \/ PlayerCreate(c) \/ PlayerRespawn(c) \/ PlayerLogout(c)
       \/ PlayersConstruct(c)
       \/ \E place \in Place : Move(c, place)
  \/ PlayersLoad \/ PlayersConstructEnds \/ PlayersLoaded \/ PlayersUnload \/ Collect

-----------------------------------------------------------------------------

\* The reader knows the place that is in a record; only of a player who was there when the
\* plugin was loaded, and has not moved or spawned since, it knows none.  A record that is
\* behind the player is put right by the next run of the timer
\* (M_online_players.cpp 107-138, 217-234; M_player_common_activity.cpp 60-67, 129-139).
PlacesKnown ==
  plugin = "loaded" =>
    \A p \in Pid : playerIdMap[p] # NoInfo =>
      known[p] = at[p] \/ (known[p] = Nowhere /\ shown[p] = Unnamed)

Playing(p) == \E c \in Online : linked[c] = p

Untold(p) == \E c \in untold : linked[c] = p

Overlapped(p) == \E c \in Controller : linked[c] = p /\ SteamOf[c] \in overlapped

\* Unless a reconnect overlapped, the reader shows whoever plays, and nobody else: but for
\* a player whom the constructor left out, which the start of the log does not name, and
\* who is not shown before a login or a new character, even if a spawn has made a record;
\* and but for a character that was there when the plugin was loaded, and was replaced by
\* another: its account was never named, and it is shown until the next start
\* (ExtendedEventLog.cpp 247-271; M_player_common_activity.cpp 60-67, 108-127).
OnlineShown ==
  plugin = "loaded" =>
    \A p \in Pid : ~Overlapped(p) =>
      /\ Playing(p) => shown[p] # Off \/ Untold(p)
      /\ shown[p] # Off =>
           Playing(p) \/ (shown[p] = Unnamed /\ \A s \in Steam : character[s] # p)

ReaderTrue == PlacesKnown /\ OnlineShown

=============================================================================
