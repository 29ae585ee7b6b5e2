--------------------------- MODULE DinoCreditProofs ---------------------------
(***************************************************************************)
(* Proofs about OnlinePlayers, PlayerReports and DinoCredit, for every     *)
(* number of accounts, controllers, characters, places and addresses: no   *)
(* record ever points to a controller that is gone, no account has two     *)
(* records, and a player is tracked unless an earlier reconnect overlapped *)
(* or the constructor left the player out; what a reader of the log knows  *)
(* of players, and whom it names for a dino, is true but for those.  Each  *)
(* step of DinoCredit is one of OnlinePlayers or none, so that what is     *)
(* proved of the records holds in the composition.                         *)
(***************************************************************************)
EXTENDS DinoCredit, ProofFacts

-----------------------------------------------------------------------------
(* The records: OnlinePlayers by itself.                                    *)

Maps == [Pid -> Info \cup {NoInfo}]
Record(c) == [shooterPlayer |-> c, steamId |-> SteamOf[c]]

(* Characters belong to one account each, and are numbered in the order of  *)
(* their creation.                                                          *)
PidOwner ==
  /\ \A c \in Controller : linked[c] <= lastPid
  /\ \A s \in Steam : character[s] <= lastPid
  /\ \A c, d \in Controller :
       linked[c] = linked[d] /\ linked[c] # 0 => SteamOf[c] = SteamOf[d]
  /\ \A c \in Controller, s \in Steam :
       linked[c] = character[s] /\ linked[c] # 0 => SteamOf[c] = s
  /\ \A s, t \in Steam : character[s] = character[t] /\ character[s] # 0 => s = t

(* Two controllers of one account are remembered.                           *)
OverlapSeen ==
  \A c, d \in Online : c # d /\ SteamOf[c] = SteamOf[d] => SteamOf[c] \in overlapped

(* The constructor has tracked the players it has seen.                     *)
Seen ==
  /\ plugin = "unloaded" => playerIdMap = Nobody
  /\ plugin # "starting" => todo = {}
  /\ todo \subseteq Online
  /\ plugin # "unloaded" =>
       \A c \in Online \ todo :
         linked[c] = 0 \/ SteamOf[c] \in overlapped \/ c \in missed
         \/ playerIdMap[linked[c]] # NoInfo

(* Whom the constructor has left out, or has still to look at, has no record. *)
MissedOut ==
  /\ plugin = "unloaded" \/ todo # {} => missed = {}
  /\ \A p \in Pid : playerIdMap[p] # NoInfo =>
       playerIdMap[p].shooterPlayer \notin todo \cup missed

IInv == TypeOK /\ LivePointers /\ OneRecordPerPlayer
        /\ PidOwner /\ OverlapSeen /\ Seen /\ MissedOut

-----------------------------------------------------------------------------

\* The search by account of insertPlayer deletes the record of that account, if there
\* is one, and leaves the others alone (M_online_players.cpp 109-120).
LEMMA ForgetSteamMap ==
  ASSUME NEW map \in Maps, NEW s \in Steam,
         \A p, q \in Pid :
           /\ map[p] # NoInfo /\ map[q] # NoInfo
           /\ map[p].steamId = map[q].steamId
           => p = q
  PROVE  /\ ForgetSteam(map, s) \in Maps
         /\ \A p \in Pid : ForgetSteam(map, s)[p] =
              IF map[p] # NoInfo /\ map[p].steamId = s THEN NoInfo ELSE map[p]
<1> DEFINE purged == ForgetSteam(map, s)
<1>1. CASE Records(map, s) = {}
  BY <1>1 DEF Records, ForgetSteam, Maps
<1>2. CASE Records(map, s) # {}
  <2>1. PICK p \in Pid : map[p] # NoInfo /\ map[p].steamId = s
    BY <1>2 DEF Records
  <2>2. Records(map, s) = {p}
    BY <2>1 DEF Records
  <2>3. p <= p
    BY DEF Pid
  <2>4. (CHOOSE r \in Records(map, s) : \A q \in Records(map, s) : r <= q) = p
    BY <2>2, <2>3
  <2>5. purged = [map EXCEPT ![p] = NoInfo]
    BY <1>2, <2>4 DEF ForgetSteam
  <2>6. \A q \in Pid : map[q] # NoInfo /\ map[q].steamId = s <=> q = p
    BY <2>1
  <2> QED
    BY <2>1, <2>5, <2>6 DEF Maps
<1> QED
  BY <1>1, <1>2

\* What insertPlayer does to a map in which no account has two records: it
\* adds the record of the controller, deletes the account's old one, and
\* leaves the records of others alone (M_online_players.cpp 107-188).
LEMMA InsertPlayerMap ==
  ASSUME NEW map \in Maps, NEW c \in Controller, NEW id \in Pid \cup {0},
         \A p, q \in Pid :
           /\ map[p] # NoInfo /\ map[q] # NoInfo
           /\ map[p].steamId = map[q].steamId
           => p = q
  PROVE  LET new == InsertPlayer(map, c, id)
         IN  /\ new \in Maps
             /\ \A p \in Pid : new[p] # NoInfo =>
                  \/ p = id /\ new[p] = Record(c)
                  \/ map[p] # NoInfo /\ new[p] = map[p]
                     /\ map[p].steamId # SteamOf[c]
             /\ \A p \in Pid : map[p] # NoInfo /\ map[p].steamId # SteamOf[c]
                  => new[p] = map[p]
             /\ id # 0 => new[id] # NoInfo
<1> DEFINE s == SteamOf[c]
           purged == ForgetSteam(map, s)
           new == InsertPlayer(map, c, id)
<1>1. s \in Steam /\ Record(c) \in Info /\ Record(c) # NoInfo
  BY ConstantsAssumption DEF Info, Record
<1>2. /\ purged \in Maps
      /\ \A p \in Pid : purged[p] =
           IF map[p] # NoInfo /\ map[p].steamId = s THEN NoInfo ELSE map[p]
  BY <1>1, ForgetSteamMap
<1>3. new = IF id # 0 /\ purged[id] = NoInfo
            THEN [purged EXCEPT ![id] = Record(c)] ELSE purged
  BY DEF InsertPlayer, Record
<1>4. new \in Maps
  BY <1>1, <1>2, <1>3 DEF Maps
<1>5. \A p \in Pid : new[p] =
        IF p = id /\ purged[id] = NoInfo THEN Record(c) ELSE purged[p]
  BY <1>2, <1>3, 0 \notin Pid DEF Maps, Pid
<1>6. id # 0 => new[id] # NoInfo
  BY <1>1, <1>5
<1> HIDE DEF purged, new
<1>7. \A p \in Pid : new[p] # NoInfo =>
        \/ p = id /\ new[p] = Record(c)
        \/ map[p] # NoInfo /\ new[p] = map[p] /\ map[p].steamId # s
  BY <1>2, <1>5
<1>8. \A p \in Pid : map[p] # NoInfo /\ map[p].steamId # s => new[p] = map[p]
  BY <1>2, <1>5
<1> QED
  BY <1>4, <1>6, <1>7, <1>8 DEF new

\* The plugin starts with no records, and nobody plays.
LEMMA InitInv == Init => IInv
  BY ConstantsAssumption
  DEF Init, IInv, TypeOK, LivePointers, OneRecordPerPlayer, PidOwner,
      OverlapSeen, Seen, MissedOut, Nobody, Online, Pid

\* A login or a spawn of a controller keeps the records right, whether the
\* plugin sees it or not (M_player_common_activity.cpp 100-133).
LEMMA InsertedInvariant ==
  ASSUME IInv, NEW c \in Controller, NEW id \in Pid \cup {0},
         plugin # "starting", Inserted(c, id),
         conn'[c] = "in",
         \A d \in Controller \ {c} : conn'[d] = conn[d],
         overlapped \subseteq overlapped', OverlapSeen',
         UNCHANGED <<todo, plugin>>
  PROVE  /\ playerIdMap' \in Maps
         /\ linked' \in [Controller -> Pid \cup {0}] /\ missed' \subseteq Controller
         /\ LivePointers' /\ OneRecordPerPlayer' /\ Seen' /\ MissedOut'
<1>1. /\ playerIdMap \in Maps /\ linked \in [Controller -> Pid \cup {0}]
      /\ todo = {} /\ todo' = {}
  BY DEF IInv, TypeOK, Maps, Seen
<1>0. missed' = missed \ {c} /\ missed \subseteq Controller
  BY DEF IInv, TypeOK, Inserted
<1>2. /\ linked' \in [Controller -> Pid \cup {0}]
      /\ linked'[c] = id
      /\ \A d \in Controller \ {c} : linked'[d] = linked[d]
  BY <1>1 DEF Inserted
<1>3. CASE plugin = "unloaded"
  <2>1. playerIdMap' = Nobody /\ playerIdMap = Nobody
    BY <1>3 DEF Inserted, IInv, Seen
  <2>2. \A p \in Pid : playerIdMap'[p] = NoInfo
    BY <2>1 DEF Nobody
  <2> QED
    BY <1>0, <1>1, <1>2, <1>3, <2>1, <2>2
    DEF LivePointers, OneRecordPerPlayer, Seen, Maps, Nobody, IInv, MissedOut
<1>4. CASE plugin = "loaded"
  <2>1. \A p, q \in Pid :
          /\ playerIdMap[p] # NoInfo /\ playerIdMap[q] # NoInfo
          /\ playerIdMap[p].steamId = playerIdMap[q].steamId
          => p = q
    BY DEF IInv, OneRecordPerPlayer
  <2>2. /\ playerIdMap' \in Maps
        /\ \A p \in Pid : playerIdMap'[p] # NoInfo =>
             \/ p = id /\ playerIdMap'[p] = Record(c)
             \/ playerIdMap[p] # NoInfo /\ playerIdMap'[p] = playerIdMap[p]
                /\ playerIdMap[p].steamId # SteamOf[c]
        /\ \A p \in Pid :
             playerIdMap[p] # NoInfo /\ playerIdMap[p].steamId # SteamOf[c]
             => playerIdMap'[p] = playerIdMap[p]
        /\ id # 0 => playerIdMap'[id] # NoInfo
    <3>1. playerIdMap' = InsertPlayer(playerIdMap, c, id)
      BY <1>4 DEF Inserted
    <3> QED
      BY <1>1, <2>1, <3>1, InsertPlayerMap
  <2>3. LivePointers'
    <3> SUFFICES ASSUME NEW p \in Pid, playerIdMap'[p] # NoInfo
                 PROVE  LET o == playerIdMap'[p].shooterPlayer
                        IN  /\ conn'[o] = "in" /\ linked'[o] = p
                            /\ playerIdMap'[p].steamId = SteamOf[o]
      BY DEF LivePointers
    <3>1. CASE p = id /\ playerIdMap'[p] = Record(c)
      BY <1>2, <3>1 DEF Record
    <3>2. CASE /\ playerIdMap[p] # NoInfo /\ playerIdMap'[p] = playerIdMap[p]
               /\ playerIdMap[p].steamId # SteamOf[c]
      <4>1. playerIdMap[p].shooterPlayer \in Controller
        BY <1>1, <3>2 DEF Maps, Info
      <4>2. LET o == playerIdMap[p].shooterPlayer
            IN  conn[o] = "in" /\ linked[o] = p /\ playerIdMap[p].steamId = SteamOf[o]
        BY <3>2 DEF IInv, LivePointers
      <4> QED
        BY <1>2, <3>2, <4>1, <4>2
    <3> QED
      BY <2>2, <3>1, <3>2
  <2>4. OneRecordPerPlayer'
    <3>1. Record(c).steamId = SteamOf[c]
      BY DEF Record
    <3> QED
      BY <2>1, <2>2, <3>1 DEF OneRecordPerPlayer
  <2>5. Seen'
    <3> SUFFICES ASSUME NEW d \in Online'
                 PROVE  \/ linked'[d] = 0 \/ SteamOf[d] \in overlapped' \/ d \in missed'
                        \/ playerIdMap'[linked'[d]] # NoInfo
      BY <1>1, <1>4 DEF Seen, Online
    <3>1. CASE d = c
      BY <1>2, <2>2, <3>1
    <3>2. CASE d # c /\ SteamOf[d] = SteamOf[c]
      BY <3>2 DEF OverlapSeen, Online
    <3>3. CASE d # c /\ SteamOf[d] # SteamOf[c]
      <4>1. d \in Online /\ linked'[d] = linked[d] /\ linked[d] \in Pid \cup {0}
        BY <1>1, <1>2, <3>3 DEF Online
      <4>2. \/ linked[d] = 0 \/ SteamOf[d] \in overlapped \/ d \in missed
            \/ playerIdMap[linked[d]] # NoInfo
        BY <1>1, <1>4, <4>1 DEF IInv, Seen
      <4>3. ASSUME linked[d] # 0, playerIdMap[linked[d]] # NoInfo
            PROVE  playerIdMap'[linked[d]] # NoInfo
        <5>1. LET o == playerIdMap[linked[d]].shooterPlayer
              IN  /\ o \in Controller /\ linked[o] = linked[d]
                  /\ playerIdMap[linked[d]].steamId = SteamOf[o]
          BY <1>1, <4>1, <4>3 DEF IInv, LivePointers, Maps, Info
        <5>2. playerIdMap[linked[d]].steamId = SteamOf[d]
          BY <4>3, <5>1, d \in Controller DEF IInv, PidOwner, Online
        <5> QED
          BY <2>2, <3>3, <4>1, <4>3, <5>2
      <4> QED
        BY <1>0, <3>3, <4>1, <4>2, <4>3
    <3> QED
      BY <3>1, <3>2, <3>3
  <2>6. MissedOut'
    <3>1. Record(c).shooterPlayer = c
      BY DEF Record
    <3> QED
      BY <1>0, <1>1, <1>4, <2>2, <3>1 DEF IInv, MissedOut
  <2> QED
    BY <1>0, <1>2, <2>2, <2>3, <2>4, <2>5, <2>6
<1> QED
  BY <1>3, <1>4 DEF IInv, TypeOK

\* A login preserves the invariant.
LEMMA LoginInvariant ==
  ASSUME IInv, NEW c \in Controller, Login(c)
  PROVE  IInv'
<1>1. character[SteamOf[c]] \in Pid \cup {0} /\ SteamOf[c] \in Steam
  BY ConstantsAssumption DEF IInv, TypeOK
<1>2. OverlapSeen'
  BY DEF IInv, TypeOK, Login, OverlapSeen, Online
<1>3. /\ playerIdMap' \in Maps
      /\ linked' \in [Controller -> Pid \cup {0}] /\ missed' \subseteq Controller
      /\ LivePointers' /\ OneRecordPerPlayer' /\ Seen' /\ MissedOut'
  <2>1. Inserted(c, character[SteamOf[c]]) /\ plugin # "starting"
    BY DEF Login
  <2>2. /\ conn'[c] = "in" /\ \A d \in Controller \ {c} : conn'[d] = conn[d]
        /\ overlapped \subseteq overlapped' /\ UNCHANGED <<todo, plugin>>
    BY DEF Login, IInv, TypeOK
  <2> QED
    BY <1>1, <1>2, <2>1, <2>2, InsertedInvariant
<1>4. TypeOK'
  BY <1>1, <1>3 DEF IInv, TypeOK, Login, Maps
<1>5. PidOwner'
  BY <1>1 DEF IInv, TypeOK, Login, Inserted, PidOwner
<1> QED
  BY <1>2, <1>3, <1>4, <1>5 DEF IInv

\* The creation of a character preserves the invariant.
LEMMA CreatePlayerInvariant ==
  ASSUME IInv, NEW c \in Controller, CreatePlayer(c)
  PROVE  IInv'
<1>1. lastPid + 1 \in Pid /\ lastPid \in Nat /\ SteamOf[c] \in Steam
  BY ConstantsAssumption DEF IInv, TypeOK, CreatePlayer, Pid
<1>2. OverlapSeen'
  BY DEF IInv, CreatePlayer, OverlapSeen, Online
<1>3. /\ playerIdMap' \in Maps
      /\ linked' \in [Controller -> Pid \cup {0}] /\ missed' \subseteq Controller
      /\ LivePointers' /\ OneRecordPerPlayer' /\ Seen' /\ MissedOut'
  <2>1. Inserted(c, lastPid + 1) /\ plugin # "starting"
    BY DEF CreatePlayer
  <2>2. /\ conn'[c] = "in" /\ \A d \in Controller \ {c} : conn'[d] = conn[d]
        /\ overlapped \subseteq overlapped' /\ UNCHANGED <<todo, plugin>>
    BY DEF CreatePlayer
  <2> QED
    BY <1>1, <1>2, <2>1, <2>2, InsertedInvariant
<1>4. TypeOK'
  BY <1>1, <1>3 DEF IInv, TypeOK, CreatePlayer, Maps
<1>5. PidOwner'
  <2>1. /\ linked' = [linked EXCEPT ![c] = lastPid + 1]
        /\ character' = [character EXCEPT ![SteamOf[c]] = lastPid + 1]
        /\ lastPid' = lastPid + 1
    BY DEF CreatePlayer, Inserted
  <2>2. /\ \A d \in Controller : linked[d] \in Nat /\ linked[d] <= lastPid
        /\ \A s \in Steam : character[s] \in Nat /\ character[s] <= lastPid
    BY DEF IInv, TypeOK, PidOwner, Pid
  <2> QED
    BY <1>1, <2>1, <2>2 DEF IInv, TypeOK, PidOwner
<1> QED
  BY <1>2, <1>3, <1>4, <1>5 DEF IInv

\* A spawn preserves the invariant.
LEMMA RespawnInvariant ==
  ASSUME IInv, NEW c \in Controller, Respawn(c)
  PROVE  IInv'
<1>1. linked[c] \in Pid \cup {0}
  BY DEF IInv, TypeOK
<1>2. OverlapSeen'
  BY DEF IInv, Respawn, OverlapSeen, Online
<1>3. /\ playerIdMap' \in Maps
      /\ linked' \in [Controller -> Pid \cup {0}] /\ missed' \subseteq Controller
      /\ LivePointers' /\ OneRecordPerPlayer' /\ Seen' /\ MissedOut'
  <2>1. Inserted(c, linked[c]) /\ plugin # "starting"
    BY DEF Respawn
  <2>2. /\ conn'[c] = "in" /\ \A d \in Controller \ {c} : conn'[d] = conn[d]
        /\ overlapped \subseteq overlapped' /\ UNCHANGED <<todo, plugin>>
    BY DEF Respawn
  <2> QED
    BY <1>1, <1>2, <2>1, <2>2, InsertedInvariant
<1>4. TypeOK'
  BY <1>1, <1>3 DEF IInv, TypeOK, Respawn, Maps
<1>5. PidOwner'
  BY <1>1 DEF IInv, TypeOK, Respawn, Inserted, PidOwner
<1> QED
  BY <1>2, <1>3, <1>4, <1>5 DEF IInv

\* A logout preserves the invariant: the record that leads to the controller
\* is the one that is erased (M_player_common_activity.cpp 55-67).
LEMMA LogoutInvariant ==
  ASSUME IInv, NEW c \in Controller, Logout(c)
  PROVE  IInv'
<1>1. /\ linked[c] \in Pid \cup {0} /\ todo = {} /\ todo' = {}
      /\ playerIdMap \in Maps /\ linked' = linked /\ plugin' = plugin
      /\ overlapped' = overlapped /\ conn' = [conn EXCEPT ![c] = "destroyed"]
  BY DEF IInv, TypeOK, Logout, Seen, Maps
<1>2. /\ playerIdMap' \in Maps
      /\ \A p \in Pid : playerIdMap'[p] =
           IF p = linked[c] THEN NoInfo ELSE playerIdMap[p]
  <2>1. CASE plugin = "loaded"
    BY <1>1, <2>1 DEF Logout, Erase, Maps
  <2>2. CASE plugin = "unloaded"
    <3>1. playerIdMap = Nobody /\ playerIdMap' = Nobody
      BY <2>2 DEF IInv, Seen, Logout
    <3> QED
      BY <3>1 DEF Nobody, Maps
  <2> QED
    BY <2>1, <2>2 DEF IInv, TypeOK, Logout
<1>3. TypeOK' /\ missed' = missed \ {c}
  BY <1>2 DEF IInv, TypeOK, Logout, Maps
<1>4. LivePointers'
  <2> SUFFICES ASSUME NEW p \in Pid, playerIdMap'[p] # NoInfo
               PROVE  LET o == playerIdMap'[p].shooterPlayer
                      IN  /\ conn'[o] = "in" /\ linked'[o] = p
                          /\ playerIdMap'[p].steamId = SteamOf[o]
    BY DEF LivePointers
  <2>1. p # linked[c] /\ playerIdMap'[p] = playerIdMap[p]
    BY <1>2
  <2>2. LET o == playerIdMap[p].shooterPlayer
        IN  /\ o \in Controller
            /\ conn[o] = "in" /\ linked[o] = p /\ playerIdMap[p].steamId = SteamOf[o]
    BY <1>1, <2>1 DEF IInv, LivePointers, Maps, Info
  <2> QED
    BY <1>1, <2>1, <2>2 DEF IInv, TypeOK
<1>5. OneRecordPerPlayer'
  BY <1>2 DEF IInv, OneRecordPerPlayer
<1>6. PidOwner' /\ OverlapSeen'
  BY DEF IInv, TypeOK, Logout, PidOwner, OverlapSeen, Online
<1>7. Seen'
  <2>1. plugin = "unloaded" => playerIdMap' = Nobody
    BY DEF IInv, Seen, Logout
  <2>2. ASSUME plugin = "loaded", NEW d \in Online'
        PROVE  \/ linked[d] = 0 \/ SteamOf[d] \in overlapped \/ d \in missed'
               \/ playerIdMap'[linked[d]] # NoInfo
    <3>1. d \in Online /\ d # c /\ d \in Controller /\ linked[d] \in Pid \cup {0}
      BY <1>1, <2>2 DEF Online, IInv, TypeOK
    <3>2. CASE linked[d] = linked[c] /\ linked[d] # 0
      <4>1. SteamOf[d] = SteamOf[c] /\ c \in Online
        BY <3>1, <3>2 DEF IInv, PidOwner, Logout, Online
      <4> QED
        BY <3>1, <4>1 DEF IInv, OverlapSeen
    <3>3. CASE linked[d] # linked[c]
      BY <1>1, <1>2, <1>3, <2>2, <3>1, <3>3 DEF IInv, Seen
    <3> QED
      BY <3>2, <3>3
  <2>3. plugin \in {"unloaded", "loaded"}
    BY DEF IInv, TypeOK, Logout
  <2> QED
    BY <1>1, <2>1, <2>2, <2>3 DEF Seen, Online
<1>8. MissedOut'
  BY <1>1, <1>2, <1>3 DEF IInv, MissedOut
<1> QED
  BY <1>3, <1>4, <1>5, <1>6, <1>7, <1>8 DEF IInv

\* A step of the constructor preserves the invariant
\* (M_online_players.cpp 37-45).
LEMMA ConstructInvariant ==
  ASSUME IInv, NEW c \in Controller, Construct(c)
  PROVE  IInv'
<1>1. /\ linked[c] \in Pid \cup {0} /\ playerIdMap \in Maps
      /\ c \in Online /\ plugin = "starting" /\ plugin' = plugin
      /\ todo' = todo \ {c} /\ todo \subseteq Online
      /\ conn' = conn /\ linked' = linked /\ overlapped' = overlapped
      /\ character' = character /\ lastPid' = lastPid
      /\ missed' = missed /\ missed = {}
  BY DEF IInv, TypeOK, Construct, Seen, MissedOut, Maps, gameVars
<1>2. \A p, q \in Pid :
        /\ playerIdMap[p] # NoInfo /\ playerIdMap[q] # NoInfo
        /\ playerIdMap[p].steamId = playerIdMap[q].steamId
        => p = q
  BY DEF IInv, OneRecordPerPlayer
<1>3. /\ playerIdMap' \in Maps
      /\ \A p \in Pid : playerIdMap'[p] # NoInfo =>
           \/ p = linked[c] /\ playerIdMap'[p] = Record(c)
           \/ playerIdMap[p] # NoInfo /\ playerIdMap'[p] = playerIdMap[p]
              /\ playerIdMap[p].steamId # SteamOf[c]
      /\ \A p \in Pid :
           playerIdMap[p] # NoInfo /\ playerIdMap[p].steamId # SteamOf[c]
           => playerIdMap'[p] = playerIdMap[p]
      /\ linked[c] # 0 => playerIdMap'[linked[c]] # NoInfo
  <2>1. playerIdMap' = InsertPlayer(playerIdMap, c, linked[c])
    BY DEF Construct
  <2> QED
    BY <1>1, <1>2, <2>1, InsertPlayerMap
<1>4. TypeOK'
  BY <1>1, <1>3 DEF IInv, TypeOK, Maps
<1>5. LivePointers'
  <2>1. Record(c).shooterPlayer = c /\ Record(c).steamId = SteamOf[c]
    BY DEF Record
  <2> QED
    BY <1>1, <1>3, <2>1 DEF IInv, LivePointers, Online
<1>6. OneRecordPerPlayer'
  <2>1. Record(c).steamId = SteamOf[c]
    BY DEF Record
  <2> QED
    BY <1>2, <1>3, <2>1 DEF OneRecordPerPlayer
<1>7. PidOwner' /\ OverlapSeen'
  BY <1>1 DEF IInv, PidOwner, OverlapSeen, Online
<1>8. Seen'
  <2> SUFFICES ASSUME NEW d \in Online, d \notin todo \/ d = c
               PROVE  \/ linked[d] = 0 \/ SteamOf[d] \in overlapped
                      \/ playerIdMap'[linked[d]] # NoInfo
    BY <1>1 DEF Seen, Online
  <2>1. CASE d = c
    BY <1>3, <2>1
  <2>2. CASE d # c /\ SteamOf[d] = SteamOf[c]
    BY <1>1, <2>2 DEF IInv, OverlapSeen
  <2>3. CASE d # c /\ SteamOf[d] # SteamOf[c]
    <3>1. linked[d] \in Pid \cup {0} /\ d \in Controller
      BY DEF IInv, TypeOK, Online
    <3>2. \/ linked[d] = 0 \/ SteamOf[d] \in overlapped
          \/ playerIdMap[linked[d]] # NoInfo
      BY <1>1, <2>3 DEF IInv, Seen
    <3>3. ASSUME linked[d] # 0, playerIdMap[linked[d]] # NoInfo
          PROVE  playerIdMap'[linked[d]] # NoInfo
      <4>1. LET o == playerIdMap[linked[d]].shooterPlayer
            IN  /\ o \in Controller /\ linked[o] = linked[d]
                /\ playerIdMap[linked[d]].steamId = SteamOf[o]
        BY <1>1, <3>1, <3>3 DEF IInv, LivePointers, Maps, Info
      <4>2. playerIdMap[linked[d]].steamId = SteamOf[d]
        BY <3>1, <3>3, <4>1 DEF IInv, PidOwner
      <4> QED
        BY <1>3, <2>3, <3>1, <3>3, <4>2
    <3> QED
      BY <3>2, <3>3
  <2> QED
    BY <2>1, <2>2, <2>3
<1>9. MissedOut'
  <2>1. Record(c).shooterPlayer = c
    BY DEF Record
  <2> QED
    BY <1>1, <1>3, <2>1 DEF IInv, MissedOut
<1> QED
  BY <1>4, <1>5, <1>6, <1>7, <1>8, <1>9 DEF IInv

\* Loading, an exception in the constructor, and unloading preserve the invariant
\* (M_online_players.cpp 36-83).
LEMMA PluginInvariant ==
  ASSUME IInv, Load \/ ConstructEnds \/ Loaded \/ Unload
  PROVE  IInv'
<1>1. CASE Load
  <2>1. playerIdMap' = Nobody /\ \A p \in Pid : playerIdMap'[p] = NoInfo
    BY <1>1 DEF Load, Nobody
  <2> QED
    BY <1>1, <2>1 DEF IInv, TypeOK, Load, Nobody, LivePointers,
       OneRecordPerPlayer, PidOwner, OverlapSeen, Seen, MissedOut, Online, gameVars
<1>2. CASE Loaded
  BY <1>2 DEF IInv, TypeOK, Loaded, LivePointers, OneRecordPerPlayer,
     PidOwner, OverlapSeen, Seen, MissedOut, Online, gameVars
<1>3. CASE Unload
  <2>1. playerIdMap' = Nobody /\ \A p \in Pid : playerIdMap'[p] = NoInfo
    BY <1>3 DEF Unload, Nobody
  <2> QED
    BY <1>3, <2>1 DEF IInv, TypeOK, Unload, Nobody, LivePointers,
       OneRecordPerPlayer, PidOwner, OverlapSeen, Seen, MissedOut, Online, gameVars
<1>4. CASE ConstructEnds
  <2>1. /\ plugin' = plugin /\ plugin = "starting" /\ todo' = {} /\ missed' = todo
        /\ missed = {} /\ todo \subseteq Controller
        /\ UNCHANGED <<playerIdMap, conn, linked, character, lastPid, overlapped>>
    BY <1>4 DEF IInv, TypeOK, ConstructEnds, MissedOut, gameVars
  <2>2. TypeOK' /\ LivePointers' /\ OneRecordPerPlayer' /\ PidOwner' /\ OverlapSeen'
    BY <2>1 DEF IInv, TypeOK, LivePointers, OneRecordPerPlayer, PidOwner, OverlapSeen,
       Online
  <2>3. Seen' /\ MissedOut'
    BY <2>1 DEF IInv, Seen, MissedOut, Online
  <2> QED
    BY <2>2, <2>3 DEF IInv
<1> QED
  BY <1>1, <1>2, <1>3, <1>4

\* The invariant holds in every behaviour.
LEMMA Invariance == Spec => []IInv
<1>1. IInv /\ [Next]_vars => IInv'
  <2> SUFFICES ASSUME IInv, [Next]_vars PROVE IInv'
    OBVIOUS
  <2>1. CASE Next
    BY <2>1, LoginInvariant, CreatePlayerInvariant, RespawnInvariant,
       LogoutInvariant, ConstructInvariant, PluginInvariant DEF Next
  <2>2. CASE UNCHANGED vars
    BY <2>2 DEF vars, gameVars, IInv, TypeOK, LivePointers,
       OneRecordPerPlayer, PidOwner, OverlapSeen, Seen, MissedOut, Online
  <2> QED
    BY <2>1, <2>2
<1> QED
  BY <1>1, InitInv, PTL DEF Spec

\* The records' variables always have their types.
THEOREM TypeCorrect == Spec => []TypeOK
  BY Invariance, PTL DEF IInv

\* Whoever follows the pointer of a record finds a controller that exists, for
\* any number of players, reconnects and reloads of the plugin
\* (M_online_players.cpp 212-232, M_tribe.cpp 661-674).
THEOREM PointersLive == Spec => []LivePointers
  BY Invariance, PTL DEF IInv

\* No account is counted twice (M_online_players.cpp 109-120, 205).
THEOREM OneRecord == Spec => []OneRecordPerPlayer
  BY Invariance, PTL DEF IInv

\* Types and single records together: what the run checks as Inv, for any
\* number of accounts, controllers and characters.
THEOREM InvariantHolds == Spec => []Inv
  BY TypeCorrect, OneRecord, PTL DEF Inv

\* A player online is tracked, but for an account that had two controllers, and for one
\* whom an exception in the constructor left out and who has not spawned since
\* (M_online_players.cpp 36-83; M_player_common_activity.cpp 65-67, 131-133).
THEOREM PlayersTracked == Spec => []Tracked
<1>1. IInv => Tracked
  BY DEF IInv, Seen, Tracked
<1> QED
  BY <1>1, Invariance, PTL

-----------------------------------------------------------------------------
(* The records are those of OnlinePlayers.                                  *)

\* What hits, moves and reports add to the steps of OnlinePlayers changes none of its
\* variables.
LEMMA CreditStep == [CreditNext]_creditVars => [Next]_vars
<1>1. ASSUME NEW c \in Controller, Starts(c) \/ Leaves(c) \/ Constructs(c)
      PROVE  Next
  BY <1>1 DEF Starts, Leaves, Constructs, PlayerLogin, PlayerCreate, PlayerRespawn,
     PlayerLogout, PlayersConstruct, Next
<1>2. Reloads \/ ConstructsEnd => Next
  BY DEF Reloads, ConstructsEnd, PlayersConstructEnds, PlayersLoad, PlayersLoaded,
     PlayersUnload, Next
<1>3. Elsewhere => UNCHANGED vars
  BY DEF Elsewhere, Collect, Move
<1>4. ASSUME NEW a \in Address,
             \/ Spawn(a) \/ KnockedOut(a) \/ Wakes(a) \/ Tamed(a) \/ Destroyed(a)
             \/ \E c \in Controller : Hit(c, a)
      PROVE  UNCHANGED vars
  BY <1>4 DEF Spawn, KnockedOut, Wakes, Tamed, Destroyed, Hit, Same, playerVars
<1>5. UNCHANGED creditVars => UNCHANGED vars
  BY DEF creditVars, playerVars
<1> QED
  BY <1>1, <1>2, <1>3, <1>4, <1>5 DEF CreditNext

\* DinoCredit implements OnlinePlayers (M_online_players.cpp, M_tribe.cpp 568-702).
THEOREM CreditImplementsPlayers == CreditSpec => Spec
<1>1. CreditInit => Init
  BY DEF CreditInit
<1> QED
  BY <1>1, CreditStep, PTL DEF CreditSpec, Spec

\* Whoever follows the pointer of a record finds a controller that exists, also when the
\* credit for a dino is given (M_tribe.cpp 580-590, 657-698).
THEOREM CreditPointersLive == CreditSpec => []LivePointers
  BY CreditImplementsPlayers, PointersLive, PTL

\* A player online is tracked, but for an account that had two controllers, and for one
\* whom an exception in the constructor left out and who has not spawned since
\* (M_online_players.cpp 36-83; M_player_common_activity.cpp 65-67, 131-133).
THEOREM CreditTracked == CreditSpec => []Tracked
  BY CreditImplementsPlayers, PlayersTracked, PTL

-----------------------------------------------------------------------------
(* Facts that all invariants below need.                                    *)

StartOf(c) == Login(c) \/ CreatePlayer(c) \/ Respawn(c)

\* A login or spawn replaces the record of its account, and leaves those of others alone:
\* the records it touches are those of the characters of the account's controllers
\* (M_online_players.cpp 107-188, M_player_common_activity.cpp 131-133).
LEMMA Survivors ==
  ASSUME IInv, IInv', NEW c \in Controller, StartOf(c), plugin = "loaded"
  PROVE  /\ linked'[c] \in Pid \cup {0}
         /\ linked'[c] # 0 =>
              MakesRecord(c, linked'[c]) /\ playerIdMap'[linked'[c]] # NoInfo
         /\ \A p \in Pid : playerIdMap[p] # NoInfo =>
              IF p \in PidsOf(SteamOf[c])
              THEN playerIdMap'[p] # NoInfo => p = linked'[c]
              ELSE playerIdMap'[p] # NoInfo /\ p # linked'[c]
         /\ \A p \in Pid : playerIdMap'[p] # NoInfo =>
              playerIdMap[p] # NoInfo \/ p = linked'[c]
<1> DEFINE s == SteamOf[c]
           id == linked'[c]
<1>1. /\ s \in Steam /\ playerIdMap \in Maps /\ id \in Pid \cup {0}
      /\ linked \in [Controller -> Pid \cup {0}]
      /\ \A d \in Controller \ {c} : linked'[d] = linked[d]
  BY ConstantsAssumption
  DEF IInv, TypeOK, Maps, StartOf, Login, CreatePlayer, Respawn, Inserted
<1>2. playerIdMap' = InsertPlayer(playerIdMap, c, id)
  <2>1. PICK i \in Pid \cup {0} : Inserted(c, i)
    <3>1. CASE Login(c)
      BY <1>1, <3>1, ConstantsAssumption DEF Login, IInv, TypeOK
    <3>2. CASE CreatePlayer(c)
      BY <3>2, lastPid' \in Pid \cup {0} DEF CreatePlayer, IInv, TypeOK
    <3>3. CASE Respawn(c)
      BY <1>1, <3>3 DEF Respawn
    <3> QED
      BY <3>1, <3>2, <3>3 DEF StartOf
  <2>2. linked'[c] = i
    BY <1>1, <2>1 DEF Inserted
  <2> QED
    BY <2>1, <2>2 DEF Inserted
<1>3. \A p, q \in Pid :
        /\ playerIdMap[p] # NoInfo /\ playerIdMap[q] # NoInfo
        /\ playerIdMap[p].steamId = playerIdMap[q].steamId
        => p = q
  BY DEF IInv, OneRecordPerPlayer
<1>4. ASSUME NEW p \in Pid, playerIdMap[p] # NoInfo
      PROVE  /\ p \in PidsOf(s) <=> playerIdMap[p].steamId = s
             /\ p = id => playerIdMap[p].steamId = s
  <2> DEFINE o == playerIdMap[p].shooterPlayer
  <2>1. /\ o \in Controller /\ conn[o] = "in" /\ linked[o] = p
        /\ playerIdMap[p].steamId = SteamOf[o]
    BY <1>1, <1>4 DEF IInv, LivePointers, Maps, Info
  <2>2. p # 0
    BY DEF Pid
  <2>3. ASSUME NEW d \in Controller, SteamOf[d] = s, linked[d] = p
        PROVE  SteamOf[o] = s
    BY <2>1, <2>2, <2>3 DEF IInv, PidOwner
  <2>4. ASSUME NEW d \in Controller, SteamOf[d] = s, linked'[d] = p
        PROVE  SteamOf[o] = s
    <3>1. CASE o = c
      BY <3>1
    <3>2. CASE o # c
      <4>1. linked'[o] = p
        BY <1>1, <2>1, <3>2
      <4> QED
        BY <2>1, <2>2, <2>4, <4>1 DEF IInv, PidOwner
    <3> QED
      BY <3>1, <3>2
  <2>5. SteamOf[o] = s => p \in PidsOf(s)
    BY <2>1 DEF PidsOf
  <2>6. p \in PidsOf(s) => SteamOf[o] = s
    BY <2>3, <2>4 DEF PidsOf
  <2> QED
    BY <2>1, <2>4, <2>5, <2>6
<1>5. /\ \A p \in Pid : playerIdMap'[p] # NoInfo =>
           \/ p = id /\ playerIdMap'[p] = Record(c)
           \/ playerIdMap[p] # NoInfo /\ playerIdMap'[p] = playerIdMap[p]
              /\ playerIdMap[p].steamId # s
      /\ \A p \in Pid : playerIdMap[p] # NoInfo /\ playerIdMap[p].steamId # s
           => playerIdMap'[p] = playerIdMap[p]
      /\ id # 0 => playerIdMap'[id] # NoInfo
  BY <1>1, <1>2, <1>3, InsertPlayerMap
<1>6. id # 0 => MakesRecord(c, id)
  <2>1. \A p \in Pid : ForgetSteam(playerIdMap, s)[p] =
          IF playerIdMap[p] # NoInfo /\ playerIdMap[p].steamId = s THEN NoInfo
          ELSE playerIdMap[p]
    BY <1>1, <1>3, ForgetSteamMap
  <2> QED
    BY <1>1, <1>4, <2>1 DEF MakesRecord
<1> HIDE DEF s
<1>7. ASSUME NEW p \in Pid, playerIdMap[p] # NoInfo
      PROVE  IF p \in PidsOf(s) THEN playerIdMap'[p] # NoInfo => p = id
             ELSE playerIdMap'[p] # NoInfo /\ p # id
  BY <1>4, <1>5, <1>7
<1> QED
  BY <1>1, <1>5, <1>6, <1>7 DEF s

-----------------------------------------------------------------------------
(* What the reader knows is true.                                           *)

\* A controller that has not logged in plays nobody.
NewUnlinked == \A c \in Controller : conn[c] = "new" => linked[c] = 0

\* A character is shown with the account that plays it, if with any.
ShownOwner ==
  plugin = "loaded" =>
    \A p \in Pid, c \in Controller :
      linked[c] = p /\ shown[p] \in Steam => shown[p] = SteamOf[c]

ReaderInv == ReportTypeOK /\ NewUnlinked /\ ShownOwner /\ PlacesKnown /\ OnlineShown

\* What a login, a creation and a respawn have in common.
LEMMA StartChanges ==
  ASSUME IInv, NEW c \in Controller, StartOf(c)
  PROVE  /\ plugin \in {"unloaded", "loaded"} /\ plugin' = plugin
         /\ SteamOf[c] \in Steam /\ linked'[c] \in Pid \cup {0}
         /\ \A d \in Controller \ {c} : linked'[d] = linked[d] /\ conn'[d] = conn[d]
         /\ conn'[c] = "in" /\ overlapped \subseteq overlapped'
         /\ overlapped' \subseteq overlapped \cup {SteamOf[c]}
<1>1. /\ SteamOf[c] \in Steam /\ plugin \in {"unloaded", "loaded"} /\ plugin' = plugin
      /\ linked \in [Controller -> Pid \cup {0}]
      /\ conn \in [Controller -> {"new", "in", "destroyed"}]
  BY ConstantsAssumption DEF IInv, TypeOK, StartOf, Login, CreatePlayer, Respawn
<1>2. CASE Login(c)
  BY <1>1, <1>2 DEF IInv, TypeOK, Login, Inserted
<1>3. CASE CreatePlayer(c)
  <2>1. lastPid' \in Pid
    BY <1>3, ConstantsAssumption DEF IInv, TypeOK, CreatePlayer, Pid
  <2> QED
    BY <1>1, <1>3, <2>1 DEF CreatePlayer, Inserted
<1>4. CASE Respawn(c)
  BY <1>1, <1>4 DEF Respawn, Inserted
<1> QED
  BY <1>2, <1>3, <1>4 DEF StartOf

\* The place that a login or a spawn reports is the one that the new record has.
LEMMA StartPlaces ==
  ASSUME IInv, IInv', ReportTypeOK, PlacesKnown, NEW c \in Controller, StartOf(c),
         plugin = "loaded",
         at' = Places(c, linked'[c]), known' = SetPos(c, linked'[c]),
         \A p \in Pid : shown[p] = Unnamed /\ p # linked'[c] => shown'[p] = Unnamed
  PROVE  /\ at' \in [Pid -> Place \cup {Nowhere}]
         /\ known' \in [Pid -> Place \cup {Nowhere}]
         /\ PlacesKnown'
<1> DEFINE id == linked'[c]
<1>1. pos[c] \in Place /\ id \in Pid \cup {0} /\ 0 \notin Pid
  BY StartChanges DEF ReportTypeOK, Pid
<1>2. /\ at' \in [Pid -> Place \cup {Nowhere}]
      /\ known' \in [Pid -> Place \cup {Nowhere}]
  <2>1. \A p \in Pid : at[p] \in Place \cup {Nowhere}
    BY DEF ReportTypeOK
  <2>2. at' \in [Pid -> Place \cup {Nowhere}]
    BY <1>1, <2>1 DEF Places
  <2>3. known' \in [Pid -> Place \cup {Nowhere}]
    BY <1>1 DEF ReportTypeOK, SetPos
  <2> QED
    BY <2>2, <2>3
<1>3. ASSUME NEW p \in Pid, playerIdMap'[p] # NoInfo
      PROVE  known'[p] = at'[p] \/ (known'[p] = Nowhere /\ shown'[p] = Unnamed)
  <2>1. CASE p = id
    <3>1. MakesRecord(c, id)
      BY <1>1, <2>1, Survivors
    <3> QED
      BY <1>1, <1>3, <2>1, <3>1 DEF ReportTypeOK, Places, SetPos
  <2>2. CASE p # id
    <3>1. playerIdMap[p] # NoInfo
      BY <1>3, <2>2, Survivors
    <3>2. at'[p] = at[p] /\ known'[p] = known[p]
      BY <1>1, <1>3, <2>2 DEF ReportTypeOK, Places, SetPos
    <3> QED
      BY <2>2, <3>1, <3>2 DEF PlacesKnown
  <2> QED
    BY <2>1, <2>2
<1> QED
  BY <1>2, <1>3 DEF PlacesKnown

\* A login or the creation of a character shows the player, and no longer the character
\* that the account had before (M_player_common_activity.cpp 108-127).
LEMMA NamedStartShown ==
  ASSUME IInv, IInv', ReaderInv, NEW c \in Controller, Login(c) \/ CreatePlayer(c),
         plugin = "loaded", shown' = ShowLogin(SteamOf[c], linked'[c]),
         untold' = untold \ {c}
  PROVE  shown' \in [Pid -> Steam \cup {Unnamed, Off}] /\ ShownOwner' /\ OnlineShown'
<1> DEFINE id == linked'[c]
           s == SteamOf[c]
<1>1. /\ s \in Steam /\ id \in Pid \cup {0} /\ plugin' = plugin
      /\ \A d \in Controller \ {c} : linked'[d] = linked[d] /\ conn'[d] = conn[d]
      /\ conn'[c] = "in" /\ overlapped \subseteq overlapped'
  BY StartChanges DEF StartOf
<1>2. shown \in [Pid -> Steam \cup {Unnamed, Off}] /\ Off \notin Steam
      /\ Unnamed \notin Steam /\ Off # Unnamed /\ 0 \notin Pid
  BY PlaceAssumption DEF ReaderInv, ReportTypeOK, Pid
<1>3. \A p \in Pid : shown'[p] =
        IF p = id THEN s ELSE IF shown[p] = s THEN Off ELSE shown[p]
  BY DEF ShowLogin
<1>4. shown' \in [Pid -> Steam \cup {Unnamed, Off}]
  BY <1>1, <1>2 DEF ShowLogin
<1>5. ShownOwner'
  <2> SUFFICES ASSUME NEW p \in Pid, NEW d \in Controller,
                      linked'[d] = p, shown'[p] \in Steam
               PROVE  shown'[p] = SteamOf[d]
    BY DEF ShownOwner
  <2>1. CASE p = id
    BY <1>2, <1>3, <2>1 DEF IInv, PidOwner
  <2>2. CASE p # id
    BY <1>1, <1>2, <1>3, <2>2 DEF ReaderInv, ShownOwner
  <2> QED
    BY <2>1, <2>2
<1>6. OnlineShown'
  <2> SUFFICES ASSUME NEW p \in Pid, ~ Overlapped(p)'
               PROVE  /\ Playing(p)' => shown'[p] # Off \/ Untold(p)'
                      /\ shown'[p] # Off =>
                           \/ Playing(p)'
                           \/ shown'[p] = Unnamed /\ \A t \in Steam : character'[t] # p
    BY <1>1 DEF OnlineShown
  <2>1. CASE p = id
    BY <1>1, <1>2, <1>3, <2>1 DEF Playing, Online
  <2>2. CASE p # id
    <3>1. ASSUME NEW d \in Controller, d # c, linked[d] = p, conn[d] = "in"
          PROVE  /\ SteamOf[d] # s /\ ~ Overlapped(p) /\ Playing(p)
      <4>1. SteamOf[d] # s
        <5> SUFFICES ASSUME SteamOf[d] = s PROVE FALSE
          OBVIOUS
        <5>1. d \in Online' /\ c \in Online'
          BY <1>1, <3>1 DEF Online
        <5>2. s \in overlapped'
          BY <3>1, <5>1 DEF IInv, OverlapSeen
        <5> QED
          BY <1>1, <3>1, <5>2 DEF Overlapped
      <4>2. ASSUME NEW e \in Controller, linked[e] = p, SteamOf[e] \in overlapped
            PROVE  FALSE
        <5>1. SteamOf[e] = SteamOf[d]
          BY <1>2, <3>1, <4>2 DEF IInv, PidOwner
        <5> QED
          BY <1>1, <3>1, <4>2, <5>1 DEF Overlapped
      <4> QED
        BY <3>1, <4>1, <4>2 DEF Overlapped, Playing, Online
    <3>2. ASSUME Playing(p)', ~ Untold(p)'
          PROVE  shown'[p] # Off
      <4>1. PICK d \in Controller : d # c /\ linked[d] = p /\ conn[d] = "in"
        BY <1>1, <2>2, <3>2 DEF Playing, Online
      <4>4. ~ Untold(p)
        <5>1. linked[c] # p
          BY <1>2, <3>1, <4>1 DEF IInv, PidOwner
        <5> QED
          BY <1>1, <3>2, <5>1 DEF Untold, ReaderInv, ReportTypeOK
      <4>2. shown[p] # Off /\ SteamOf[d] # s
        BY <3>1, <4>1, <4>4 DEF ReaderInv, OnlineShown
      <4>3. shown[p] # s
        BY <1>1, <4>1, <4>2 DEF ReaderInv, ShownOwner
      <4> QED
        BY <1>3, <2>2, <4>2, <4>3
    <3>3. ASSUME shown'[p] # Off
          PROVE  \/ Playing(p)'
                 \/ shown'[p] = Unnamed /\ \A t \in Steam : character'[t] # p
      <4>1. shown'[p] = shown[p] /\ shown[p] # Off /\ shown[p] # s
        BY <1>3, <2>2, <3>3
      <4>2. \A t \in Steam : character'[t] # character[t] => character'[t] = id
        BY <1>1 DEF Login, CreatePlayer, Inserted, IInv, TypeOK
      <4>3. CASE linked[c] = p
        <5>1. CreatePlayer(c)
          BY <1>2, <4>3 DEF Login, ReaderInv, NewUnlinked
        <5>2. shown[p] = Unnamed
          BY <1>2, <4>1, <4>3 DEF ReaderInv, ShownOwner
        <5>3. ASSUME NEW t \in Steam, character'[t] = p
              PROVE  FALSE
          <6>1. character[t] = p
            BY <2>2, <4>2, <5>3
          <6>2. t = s
            BY <1>2, <4>3, <6>1 DEF IInv, PidOwner
          <6>3. character'[s] = id
            BY <1>1, <5>1 DEF CreatePlayer, Inserted, IInv, TypeOK
          <6> QED
            BY <2>2, <5>3, <6>2, <6>3
        <5> QED
          BY <4>1, <5>2, <5>3
      <4>4. CASE linked[c] # p
        <5>1. ~ Overlapped(p)
          BY <1>1, <4>4 DEF Overlapped
        <5>2. \/ Playing(p)
              \/ shown[p] = Unnamed /\ \A t \in Steam : character[t] # p
          BY <4>1, <5>1 DEF ReaderInv, OnlineShown
        <5>3. Playing(p) => Playing(p)'
          BY <1>1, <4>4 DEF Playing, Online
        <5> QED
          BY <2>2, <4>1, <4>2, <5>2, <5>3
      <4> QED
        BY <4>3, <4>4
    <3> QED
      BY <3>2, <3>3
  <2> QED
    BY <2>1, <2>2
<1> QED
  BY <1>4, <1>5, <1>6


\* A login, a creation and a respawn keep what the reader knows true.  The message of a
\* respawn changes nothing but the place.
LEMMA StartReader ==
  ASSUME IInv, IInv', ReaderInv, NEW c \in Controller,
         PlayerLogin(c) \/ PlayerCreate(c) \/ PlayerRespawn(c)
  PROVE  ReaderInv'
<1>1. StartOf(c) /\ pos' = pos
  BY DEF StartOf, PlayerLogin, PlayerCreate, PlayerRespawn, ReportStart
<1>2. NewUnlinked'
  BY <1>1, StartChanges DEF ReaderInv, NewUnlinked
<1>3. CASE plugin = "unloaded"
  <2>1. UNCHANGED <<pos, at, known, shown, untold>> /\ plugin' = "unloaded"
    BY <1>1, <1>3, StartChanges
    DEF PlayerLogin, PlayerCreate, PlayerRespawn, ReportStart, readerVars
  <2> QED
    BY <1>2, <2>1
    DEF ReaderInv, ReportTypeOK, ShownOwner, PlacesKnown, OnlineShown
<1>4. CASE plugin = "loaded"
  <2>1. /\ at' = Places(c, linked'[c]) /\ known' = SetPos(c, linked'[c])
        /\ \/ /\ Login(c) \/ CreatePlayer(c)
              /\ shown' = ShowLogin(SteamOf[c], linked'[c]) /\ untold' = untold \ {c}
           \/ Respawn(c) /\ UNCHANGED <<shown, untold>>
    BY <1>4 DEF PlayerLogin, PlayerCreate, PlayerRespawn, ReportStart
  <2>2. \A p \in Pid : shown[p] = Unnamed /\ p # linked'[c] => shown'[p] = Unnamed
    BY <1>1, <2>1, StartChanges, PlaceAssumption DEF ShowLogin
  <2>3. /\ at' \in [Pid -> Place \cup {Nowhere}]
        /\ known' \in [Pid -> Place \cup {Nowhere}]
        /\ PlacesKnown'
    BY <1>1, <1>4, <2>1, <2>2, StartPlaces DEF ReaderInv
  <2>4. shown' \in [Pid -> Steam \cup {Unnamed, Off}] /\ ShownOwner' /\ OnlineShown'
    <3>1. CASE Respawn(c) /\ UNCHANGED <<shown, untold>>
      <4>1. /\ linked' = linked /\ conn' = conn /\ character' = character
            /\ overlapped' = overlapped /\ plugin' = plugin
        BY <3>1 DEF Respawn, Inserted, IInv, TypeOK
      <4> QED
        BY <3>1, <4>1
        DEF ReaderInv, ReportTypeOK, ShownOwner, OnlineShown, Playing, Untold, Overlapped,
            Online
    <3>2. CASE /\ Login(c) \/ CreatePlayer(c)
               /\ shown' = ShowLogin(SteamOf[c], linked'[c]) /\ untold' = untold \ {c}
      BY <1>4, <3>2, NamedStartShown
    <3> QED
      BY <2>1, <3>1, <3>2
  <2> QED
    BY <1>1, <1>2, <2>1, <2>3, <2>4 DEF ReaderInv, ReportTypeOK
<1> QED
  BY <1>1, <1>3, <1>4, StartChanges

\* A logout ends what the reader shows of the account
\* (M_player_common_activity.cpp 55-67).
LEMMA LogoutReader ==
  ASSUME IInv, IInv', ReaderInv, NEW c \in Controller, PlayerLogout(c)
  PROVE  ReaderInv'
<1> DEFINE id == linked[c]
           s == SteamOf[c]
<1>1. /\ s \in Steam /\ id \in Pid \cup {0} /\ linked' = linked /\ plugin' = plugin
      /\ character' = character /\ overlapped' = overlapped /\ pos' = pos
      /\ conn[c] = "in" /\ conn' = [conn EXCEPT ![c] = "destroyed"]
      /\ conn \in [Controller -> {"new", "in", "destroyed"}]
      /\ plugin \in {"unloaded", "loaded"} /\ 0 \notin Pid
  <2>1. 0 \notin Pid
    BY DEF Pid
  <2> QED
    BY <2>1, ConstantsAssumption DEF IInv, TypeOK, PlayerLogout, Logout
<1>2. NewUnlinked'
  BY <1>1 DEF ReaderInv, NewUnlinked
<1>3. at' \in [Pid -> Place \cup {Nowhere}]
  BY DEF ReaderInv, ReportTypeOK, PlayerLogout, PlacesLeft
<1>4. CASE plugin = "unloaded"
  <2>1. UNCHANGED <<known, shown, untold>>
    BY <1>4 DEF PlayerLogout, readerVars
  <2> QED
    BY <1>1, <1>2, <1>3, <1>4, <2>1
    DEF ReaderInv, ReportTypeOK, ShownOwner, PlacesKnown, OnlineShown
<1>5. CASE plugin = "loaded"
  <2>1. /\ known' = SetPos(c, id) /\ at' = PlacesLeft
        /\ playerIdMap' = Erase(playerIdMap, id)
        /\ \A p \in Pid : shown'[p] = IF p = id \/ shown[p] = s THEN Off ELSE shown[p]
        /\ shown' \in [Pid -> Steam \cup {Unnamed, Off}] /\ untold' = untold \ {c}
    BY <1>5 DEF PlayerLogout, Logout, ShowLogout, ReaderInv, ReportTypeOK
  <2>2. known' \in [Pid -> Place \cup {Nowhere}]
    BY <1>1, <2>1 DEF ReaderInv, ReportTypeOK, SetPos
  <2>3. PlacesKnown'
    <3> SUFFICES ASSUME NEW p \in Pid, playerIdMap'[p] # NoInfo
                 PROVE  \/ known'[p] = at'[p]
                        \/ known'[p] = Nowhere /\ shown'[p] = Unnamed
      BY DEF PlacesKnown
    <3>1. p # id /\ playerIdMap[p] # NoInfo
      BY <2>1 DEF Erase
    <3>2. at'[p] = at[p] /\ known'[p] = known[p]
      BY <1>1, <2>1, <3>1 DEF PlacesLeft, SetPos, ReaderInv, ReportTypeOK
    <3>3. shown[p] = Unnamed => shown'[p] = Unnamed
      BY <1>1, <2>1, <3>1, PlaceAssumption
    <3> QED
      BY <1>5, <3>1, <3>2, <3>3 DEF ReaderInv, PlacesKnown
  <2>4. ShownOwner'
    BY <1>1, <1>5, <2>1, PlaceAssumption DEF ReaderInv, ShownOwner
  <2>5. OnlineShown'
    <3> SUFFICES ASSUME NEW p \in Pid, ~ Overlapped(p)'
                 PROVE  /\ Playing(p)' => shown'[p] # Off \/ Untold(p)'
                        /\ shown'[p] # Off =>
                             \/ Playing(p)'
                             \/ shown'[p] = Unnamed /\ \A t \in Steam : character'[t] # p
      BY DEF OnlineShown
    <3>1. ~ Overlapped(p)
      BY <1>1 DEF Overlapped
    <3>2. ASSUME Playing(p)', ~ Untold(p)'
          PROVE  shown'[p] # Off
      <4>1. PICK d \in Controller : d # c /\ linked[d] = p /\ conn[d] = "in"
        BY <1>1, <3>2 DEF Playing, Online
      <4>6. ~ Untold(p)
        <5>1. SteamOf[d] # s
          BY <1>1, <3>1, <4>1 DEF IInv, OverlapSeen, Online, Overlapped
        <5>2. linked[c] # p
          BY <1>1, <4>1, <5>1 DEF IInv, PidOwner
        <5> QED
          BY <1>1, <2>1, <3>2, <5>2 DEF Untold, ReaderInv, ReportTypeOK
      <4>2. shown[p] # Off
        BY <1>5, <3>1, <4>1, <4>6 DEF ReaderInv, OnlineShown, Playing, Online
      <4>3. SteamOf[d] # s
        BY <1>1, <3>1, <4>1 DEF IInv, OverlapSeen, Online, Overlapped
      <4>4. p # id
        BY <1>1, <4>1, <4>3 DEF IInv, PidOwner
      <4>5. shown[p] # s
        BY <1>1, <1>5, <4>1, <4>3 DEF ReaderInv, ShownOwner
      <4> QED
        BY <2>1, <4>2, <4>4, <4>5
    <3>3. ASSUME shown'[p] # Off
          PROVE  \/ Playing(p)'
                 \/ shown'[p] = Unnamed /\ \A t \in Steam : character'[t] # p
      <4>1. p # id /\ shown'[p] = shown[p] /\ shown[p] # Off
        BY <2>1, <3>3
      <4>2. Playing(p) => Playing(p)'
        BY <1>1, <4>1 DEF Playing, Online
      <4> QED
        BY <1>1, <1>5, <3>1, <4>1, <4>2 DEF ReaderInv, OnlineShown
    <3> QED
      BY <3>2, <3>3
  <2> QED
    BY <1>1, <1>2, <1>3, <2>1, <2>2, <2>3, <2>4, <2>5 DEF ReaderInv, ReportTypeOK
<1> QED
  BY <1>1, <1>4, <1>5

\* The start of the server and the messages that follow it name all who play, but for
\* their accounts (ExtendedEventLog.cpp 245-271); before it the reader has nothing to be
\* true of, for the plugin is not there.
LEMMA PluginReader ==
  ASSUME IInv, IInv', ReaderInv,
         \/ PlayersLoad \/ PlayersConstructEnds \/ PlayersLoaded \/ PlayersUnload
         \/ \E c \in Controller : PlayersConstruct(c)
  PROVE  ReaderInv'
<1>1. UNCHANGED <<pos, conn, linked, character, overlapped>>
  BY DEF PlayersLoad, PlayersLoaded, PlayersUnload, PlayersConstruct,
     PlayersConstructEnds, Load, Loaded, Unload, Construct, ConstructEnds, gameVars, reportVars
<1>2. NewUnlinked'
  BY <1>1 DEF ReaderInv, NewUnlinked
<1>3. CASE PlayersLoaded
  <2>1. /\ plugin = "starting" /\ todo = {} /\ UNCHANGED <<playerIdMap, at>>
        /\ untold' = missed /\ missed \subseteq Controller
        /\ \A p \in Pid : known'[p] = Nowhere
        /\ \A p \in Pid : shown'[p] = IF playerIdMap[p] = NoInfo THEN Off ELSE Unnamed
    BY <1>3 DEF PlayersLoaded, Loaded, IInv, TypeOK
  <2>2. ReportTypeOK'
    <3>1. /\ known' = [p \in Pid |-> Nowhere]
          /\ shown' = [p \in Pid |-> IF playerIdMap[p] = NoInfo THEN Off ELSE Unnamed]
      BY <1>3 DEF PlayersLoaded
    <3> QED
      BY <1>1, <2>1, <3>1 DEF ReaderInv, ReportTypeOK
  <2>3. PlacesKnown' /\ ShownOwner'
    BY <2>1, PlaceAssumption DEF PlacesKnown, ShownOwner
  <2>4. OnlineShown'
    <3> SUFFICES ASSUME NEW p \in Pid, ~ Overlapped(p)'
                 PROVE  /\ (shown'[p] # Off) => Playing(p)'
                        /\ Playing(p)' => shown'[p] # Off \/ Untold(p)'
      BY DEF OnlineShown
    <3>1. playerIdMap[p] # NoInfo => Playing(p)'
      <4> SUFFICES ASSUME playerIdMap[p] # NoInfo
                   PROVE  Playing(p)'
        OBVIOUS
      <4>1. LET o == playerIdMap[p].shooterPlayer
            IN  o \in Controller /\ conn[o] = "in" /\ linked[o] = p
        BY DEF IInv, TypeOK, LivePointers, Info
      <4> QED
        BY <1>1, <4>1 DEF Playing, Online
    <3>2. Playing(p)' => playerIdMap[p] # NoInfo \/ Untold(p)'
      <4> SUFFICES ASSUME NEW d \in Controller, conn[d] = "in", linked[d] = p
                   PROVE  playerIdMap[p] # NoInfo \/ Untold(p)'
        BY <1>1 DEF Playing, Online
      <4>1. SteamOf[d] \notin overlapped /\ p # 0
        BY <1>1 DEF Overlapped, Pid
      <4>2. d \in missed \/ playerIdMap[p] # NoInfo
        BY <2>1, <4>1 DEF IInv, Seen, Online
      <4> QED
        BY <1>1, <2>1, <4>2 DEF Untold
    <3> QED
      BY <2>1, <3>1, <3>2, PlaceAssumption
  <2> QED
    BY <1>2, <2>2, <2>3, <2>4 DEF ReaderInv
<1>4. CASE ~ PlayersLoaded
  <2>1. /\ plugin' # "loaded" /\ UNCHANGED <<known, shown>>
        /\ untold' \subseteq untold
    BY <1>4 DEF PlayersLoad, PlayersUnload, PlayersConstruct, PlayersConstructEnds, Load,
       Unload, Construct, ConstructEnds, gameVars, readerVars, reportVars
  <2>2. at' \in [Pid -> Place \cup {Nowhere}]
    <3>1. \A p \in Pid : at[p] \in Place \cup {Nowhere}
      BY DEF ReaderInv, ReportTypeOK
    <3>2. ASSUME NEW c \in Controller, PlayersConstruct(c)
          PROVE  at' \in [Pid -> Place \cup {Nowhere}]
      <4>1. pos[c] \in Place
        BY DEF ReaderInv, ReportTypeOK
      <4> QED
        BY <3>1, <3>2, <4>1 DEF PlayersConstruct, Places
    <3>3. CASE PlayersLoad \/ PlayersUnload
      BY <3>1, <3>3 DEF PlayersLoad, PlayersUnload, PlacesLeft
    <3>4. CASE PlayersConstructEnds
      BY <3>1, <3>4 DEF PlayersConstructEnds, reportVars, ReaderInv, ReportTypeOK
    <3> QED
      BY <1>4, <3>2, <3>3, <3>4
  <2> QED
    BY <1>1, <1>2, <2>1, <2>2
    DEF ReaderInv, ReportTypeOK, ShownOwner, PlacesKnown, OnlineShown
<1> QED
  BY <1>3, <1>4

\* A move changes nothing that the reader has; the timer tells it the place that it puts
\* into the record (M_online_players.cpp 212-234).
LEMMA MoveReader ==
  ASSUME IInv, ReaderInv, Collect \/ \E c \in Controller, place \in Place : Move(c, place)
  PROVE  ReaderInv'
<1>1. UNCHANGED <<vars, shown, untold>>
  BY DEF Collect, Move, readerVars
<1>2. NewUnlinked' /\ ShownOwner' /\ OnlineShown'
  BY <1>1 DEF vars, gameVars, ReaderInv, NewUnlinked, ShownOwner, OnlineShown, Playing,
     Untold, Overlapped, Online
<1>3. CASE Collect
  <2>1. ASSUME NEW p \in Pid, playerIdMap[p] # NoInfo
        PROVE  Where(p) \in Place
    BY <2>1 DEF IInv, TypeOK, Info, ReaderInv, ReportTypeOK, Where
  <2>2. ReportTypeOK'
    BY <1>1, <1>3, <2>1 DEF Collect, ReaderInv, ReportTypeOK
  <2>3. PlacesKnown'
    BY <1>1, <1>3 DEF Collect, ReaderInv, PlacesKnown, vars
  <2> QED
    BY <1>2, <2>2, <2>3 DEF ReaderInv
<1>4. CASE \E c \in Controller, place \in Place : Move(c, place)
  <2>1. UNCHANGED <<at, known>> /\ pos' \in [Controller -> Place]
    BY <1>4 DEF Move, readerVars, ReaderInv, ReportTypeOK
  <2> QED
    BY <1>1, <1>2, <2>1 DEF ReaderInv, ReportTypeOK, PlacesKnown, vars
<1> QED
  BY <1>3, <1>4


\* The records of DinoCredit keep the invariant of OnlinePlayers.
LEMMA RecordsInvariance == CreditSpec => []IInv
  BY CreditImplementsPlayers, Invariance, PTL

\* What the reader knows is true in every behaviour.
LEMMA ReaderInvariance == CreditSpec => []ReaderInv
<1>1. CreditInit => ReaderInv
  BY DEF CreditInit, ReportInit, Init, ReaderInv, ReportTypeOK, NewUnlinked, ShownOwner,
     PlacesKnown, OnlineShown
<1>2. ASSUME IInv, IInv', ReaderInv, [CreditNext]_creditVars
      PROVE  ReaderInv'
  <2>1. ASSUME NEW c \in Controller, Starts(c)
        PROVE  ReaderInv'
    BY <1>2, <2>1, StartReader DEF Starts
  <2>2. ASSUME NEW c \in Controller, Leaves(c)
        PROVE  ReaderInv'
    BY <1>2, <2>2, LogoutReader DEF Leaves
  <2>3. CASE Reloads \/ ConstructsEnd \/ \E c \in Controller : Constructs(c)
    BY <1>2, <2>3, PluginReader DEF Reloads, ConstructsEnd, Constructs
  <2>4. CASE Elsewhere
    BY <1>2, <2>4, MoveReader DEF Elsewhere
  <2>5. CASE UNCHANGED playerVars
    <3>1. UNCHANGED <<plugin, playerIdMap, conn, linked, character, overlapped,
                      pos, at, known, shown, untold>>
      BY <2>5 DEF playerVars, vars, gameVars, reportVars, readerVars
    <3> QED
      BY <1>2, <3>1 DEF ReaderInv, ReportTypeOK, NewUnlinked, ShownOwner, PlacesKnown,
         OnlineShown, Playing, Untold, Overlapped, Online
  <2>6. ASSUME NEW a \in Address,
               \/ Spawn(a) \/ KnockedOut(a) \/ Wakes(a) \/ Tamed(a) \/ Destroyed(a)
               \/ \E c \in Controller : Hit(c, a)
        PROVE  UNCHANGED playerVars
    BY <2>6 DEF Spawn, KnockedOut, Wakes, Tamed, Destroyed, Hit, Same
  <2> QED
    BY <1>2, <2>1, <2>2, <2>3, <2>4, <2>5, <2>6 DEF CreditNext, creditVars
<1> QED
  BY <1>1, <1>2, RecordsInvariance, PTL DEF CreditSpec

\* What a reader of the log knows of who is online, and where, is true, for any number of
\* players and reloads, but for players whom the constructor left out (M_online_players.cpp 107-138, 217-234; ExtendedEventLog.cpp
\* 247-271; M_player_common_activity.cpp 55-67, 108-139).
THEOREM ReaderIsTrue == CreditSpec => []ReaderTrue
  BY ReaderInvariance, PTL DEF ReaderInv, ReaderTrue

-----------------------------------------------------------------------------
(* The credit for a dino is true.                                           *)

Claimed(p, a) == p \in claims[a] \cup haunts[a]

\* An address in a record was put there by a hit of which the history knows, or the
\* player's account overlapped.
HitsKnown ==
  \A p \in Pid, a \in Address : lastHitDino[p] = a =>
    /\ plugin = "loaded" /\ playerIdMap[p] # NoInfo
    /\ Claimed(p, a) \/ Overlapped(p)

\* Who has a claim has the address in the record.
ClaimsKnown ==
  \A p \in Pid, a \in Address : Claimed(p, a) =>
    /\ plugin = "loaded" /\ playerIdMap[p] # NoInfo /\ lastHitDino[p] = a
    /\ ~ Overlapped(p)

CreditInv == CreditTypeOK /\ HitsKnown /\ ClaimsKnown /\ CreditTrue

\* Who has made no new hit, and is in no claim that is given up, keeps all: what is to be
\* shown is only that his record is still there, and his account no worse.
LEMMA ClaimsKept ==
  ASSUME CreditInv, NEW ps \in SUBSET Pid, GiveUp(ps),
         plugin = "loaded" => plugin' = "loaded" \/ ps = Pid,
         lastHitDino' \in [Pid -> Address \cup {Null}],
         \A p \in Pid : lastHitDino'[p] # Null => lastHitDino'[p] = lastHitDino[p],
         \A p \in Pid : lastHitDino'[p] # Null =>
           /\ plugin' = "loaded" /\ playerIdMap'[p] # NoInfo
           /\ p \in ps => Overlapped(p)'
           /\ Overlapped(p) => Overlapped(p)',
         \A p \in Pid \ ps : lastHitDino[p] # Null =>
           /\ lastHitDino'[p] = lastHitDino[p]
           /\ ~ Overlapped(p) => ~ Overlapped(p)'
  PROVE  HitsKnown' /\ ClaimsKnown'
<1>1. \A p \in Pid, a \in Address : Claimed(p, a)' <=> Claimed(p, a) /\ p \notin ps
  BY DEF GiveUp, Without, Claimed
<1>2. Null \notin Address /\ \A p \in Pid : lastHitDino[p] \in Address \cup {Null}
  BY DinoAssumption DEF CreditInv, CreditTypeOK
<1>3. HitsKnown'
  <2> SUFFICES ASSUME NEW p \in Pid, NEW a \in Address, lastHitDino'[p] = a
               PROVE  /\ plugin' = "loaded" /\ playerIdMap'[p] # NoInfo
                      /\ Claimed(p, a)' \/ Overlapped(p)'
    BY DEF HitsKnown
  <2>1. lastHitDino'[p] # Null /\ lastHitDino[p] = a
    BY <1>2
  <2>2. Claimed(p, a) \/ Overlapped(p)
    BY <2>1 DEF CreditInv, HitsKnown
  <2>3. Claimed(p, a)' <=> Claimed(p, a) /\ p \notin ps
    BY <1>1
  <2> QED
    BY <2>1, <2>2, <2>3
<1>4. ClaimsKnown'
  <2> SUFFICES ASSUME NEW p \in Pid, NEW a \in Address, Claimed(p, a)'
               PROVE  /\ plugin' = "loaded" /\ playerIdMap'[p] # NoInfo
                      /\ lastHitDino'[p] = a /\ ~ Overlapped(p)'
    BY DEF ClaimsKnown
  <2>1. Claimed(p, a) /\ p \notin ps
    BY <1>1
  <2>2. lastHitDino[p] = a /\ ~ Overlapped(p)
    BY <2>1 DEF CreditInv, ClaimsKnown
  <2>3. lastHitDino'[p] = a /\ ~ Overlapped(p)' /\ a # Null
    BY <1>2, <2>1, <2>2
  <2> QED
    BY <2>3
<1> QED
  BY <1>3, <1>4


\* A login or a spawn gives up the claims of the account: its old record goes, and the new
\* one has hit nothing (M_online_players.h 36-53, M_online_players.cpp 107-142).
LEMMA StartClaims ==
  ASSUME IInv, IInv', CreditInv, NEW c \in Controller, Starts(c)
  PROVE  /\ lastHitDino' \in [Pid -> Address \cup {Null}]
         /\ HitsKnown' /\ ClaimsKnown'
<1>1. StartOf(c) /\ Null \notin Address
  BY DinoAssumption DEF StartOf, Starts, PlayerLogin, PlayerCreate, PlayerRespawn
<1>2. PICK ps \in SUBSET Pid : ps = PidsOf(SteamOf[c])
  BY DEF PidsOf
<1>3. GiveUp(ps) /\ lastHitDino \in [Pid -> Address \cup {Null}]
  BY <1>2 DEF Starts, CreditInv, CreditTypeOK
<1>4. plugin \in {"unloaded", "loaded"} /\ plugin' = plugin
  BY <1>1, StartChanges
<1>5. lastHitDino' \in [Pid -> Address \cup {Null}]
  BY <1>3 DEF Starts, Hits
<1>6. CASE plugin = "unloaded"
  <2>1. \A p \in Pid : lastHitDino[p] = Null
    BY <1>3, <1>6 DEF CreditInv, HitsKnown
  <2>2. lastHitDino' = lastHitDino
    BY <1>6 DEF Starts
  <2> QED
    BY <1>2, <1>3, <1>4, <1>5, <1>6, <2>1, <2>2, ClaimsKept
<1>7. CASE plugin = "loaded"
  <2>1. \A p \in Pid : lastHitDino'[p] =
          IF playerIdMap'[p] = NoInfo \/ (p = linked'[c] /\ MakesRecord(c, linked'[c]))
          THEN Null ELSE lastHitDino[p]
    BY <1>7 DEF Starts, Hits
  <2>2. \A p \in Pid : playerIdMap[p] # NoInfo =>
          IF p \in ps
          THEN playerIdMap'[p] # NoInfo => p = linked'[c] /\ MakesRecord(c, linked'[c])
          ELSE playerIdMap'[p] # NoInfo /\ p # linked'[c]
    <3>1. \A p \in Pid : p # 0
      BY DEF Pid
    <3> QED
      BY <1>1, <1>2, <1>7, <3>1, Survivors
  <2>3. \A p \in Pid : lastHitDino[p] # Null => playerIdMap[p] # NoInfo
    BY <1>3 DEF CreditInv, HitsKnown
  <2>4. ASSUME NEW p \in Pid, p \notin ps
        PROVE  Overlapped(p) <=> Overlapped(p)'
    <3>1. \A d \in Controller : SteamOf[d] = SteamOf[c] =>
            linked[d] # p /\ linked'[d] # p
      BY <1>2, <2>4 DEF PidsOf
    <3>2. /\ \A d \in Controller : SteamOf[d] # SteamOf[c] => linked'[d] = linked[d]
          /\ \A t : t # SteamOf[c] => (t \in overlapped <=> t \in overlapped')
      BY <1>1, StartChanges
    <3> QED
      BY <3>1, <3>2 DEF Overlapped
  <2>5. \A p \in Pid : lastHitDino'[p] # Null =>
          lastHitDino'[p] = lastHitDino[p] /\ playerIdMap'[p] # NoInfo /\ p \notin ps
    BY <2>1, <2>2, <2>3
  <2>6. \A p \in Pid \ ps : lastHitDino[p] # Null => lastHitDino'[p] = lastHitDino[p]
    BY <2>1, <2>2, <2>3
  <2> QED
    BY <1>3, <1>4, <1>5, <1>7, <2>4, <2>5, <2>6, ClaimsKept
<1> QED
  BY <1>4, <1>5, <1>6, <1>7

\* A logout gives up the claims of the account; whoever still has a record of it had two
\* controllers (M_player_common_activity.cpp 55-67).
LEMMA LeaveClaims ==
  ASSUME IInv, IInv', CreditInv, NEW c \in Controller, Leaves(c)
  PROVE  /\ lastHitDino' \in [Pid -> Address \cup {Null}]
         /\ HitsKnown' /\ ClaimsKnown'
<1>1. /\ Null \notin Address /\ plugin \in {"unloaded", "loaded"} /\ plugin' = plugin
      /\ linked' = linked /\ overlapped' = overlapped /\ conn[c] = "in"
  BY DinoAssumption DEF Leaves, PlayerLogout, Logout, IInv, TypeOK
<1>2. PICK ps \in SUBSET Pid : ps = PidsOf(SteamOf[c])
  BY DEF PidsOf
<1>3. GiveUp(ps) /\ lastHitDino \in [Pid -> Address \cup {Null}]
  BY <1>2 DEF Leaves, CreditInv, CreditTypeOK
<1>4. lastHitDino' \in [Pid -> Address \cup {Null}]
  BY <1>3 DEF Leaves, HitsLeft
<1>5. \A p \in Pid : Overlapped(p) <=> Overlapped(p)'
  BY <1>1 DEF Overlapped
<1>6. \A p \in Pid : lastHitDino'[p] =
        IF playerIdMap'[p] = NoInfo THEN Null ELSE lastHitDino[p]
  BY DEF Leaves, HitsLeft
<1>7. \A p \in Pid : lastHitDino[p] # Null => playerIdMap[p] # NoInfo /\ plugin = "loaded"
  BY <1>3 DEF CreditInv, HitsKnown
<1>8. \A p \in Pid : plugin = "loaded" =>
        playerIdMap'[p] = IF p = linked[c] THEN NoInfo ELSE playerIdMap[p]
  BY DEF Leaves, PlayerLogout, Logout, Erase
<1>9. ASSUME NEW p \in ps, lastHitDino'[p] # Null
      PROVE  Overlapped(p)'
  <2>1. playerIdMap'[p] # NoInfo /\ playerIdMap[p] # NoInfo /\ p # linked[c] /\ p # 0
    <3>1. p \in Pid /\ 0 \notin Pid
      BY DEF Pid
    <3> QED
      BY <1>6, <1>7, <1>8, <1>9, <3>1
  <2> DEFINE o == playerIdMap[p].shooterPlayer
  <2>2. o \in Controller /\ conn[o] = "in" /\ linked[o] = p
    BY <2>1, p \in Pid DEF IInv, TypeOK, LivePointers, Info
  <2>3. PICK d \in Controller : SteamOf[d] = SteamOf[c] /\ linked[d] = p
    BY <1>1, <1>2 DEF PidsOf
  <2>4. SteamOf[o] = SteamOf[c]
    BY <2>1, <2>2, <2>3 DEF IInv, PidOwner
  <2>5. SteamOf[c] \in overlapped
    BY <1>1, <2>1, <2>2, <2>4 DEF IInv, OverlapSeen, Online
  <2> QED
    BY <1>5, <2>2, <2>4, <2>5 DEF Overlapped
<1>10. ASSUME NEW p \in Pid \ ps
       PROVE  p # linked[c]
  BY <1>2 DEF PidsOf
<1>11. \A p \in Pid \ ps : lastHitDino[p] # Null => lastHitDino'[p] = lastHitDino[p]
  BY <1>6, <1>7, <1>8, <1>10
<1>12. \A p \in Pid : lastHitDino'[p] # Null =>
         lastHitDino'[p] = lastHitDino[p] /\ plugin' = "loaded" /\ playerIdMap'[p] # NoInfo
  BY <1>1, <1>6, <1>7
<1> QED
  BY <1>1, <1>3, <1>4, <1>5, <1>9, <1>11, <1>12, ClaimsKept

\* Loading and unloading end all claims, and all records with them.
LEMMA PluginClaims ==
  ASSUME IInv, CreditInv,
         Reloads \/ ConstructsEnd \/ \E c \in Controller : Constructs(c)
  PROVE  /\ lastHitDino' \in [Pid -> Address \cup {Null}]
         /\ HitsKnown' /\ ClaimsKnown'
<1>1. Null \notin Address /\ lastHitDino \in [Pid -> Address \cup {Null}]
  BY DinoAssumption DEF CreditInv, CreditTypeOK
<1>2. CASE PlayersUnload /\ Reloads
  <2>1. plugin = "loaded" /\ playerIdMap' = Nobody /\ GiveUp(Pid)
    BY <1>2 DEF Reloads, PlayersLoad, PlayersLoaded, PlayersUnload, Load, Loaded, Unload
  <2>2. \A p \in Pid : lastHitDino'[p] = Null
    BY <1>2, <2>1 DEF Reloads, HitsLeft, Nobody
  <2>3. lastHitDino' \in [Pid -> Address \cup {Null}]
    BY <1>1, <1>2 DEF Reloads, HitsLeft
  <2> QED
    BY <1>1, <2>1, <2>2, <2>3, ClaimsKept
<1>3. CASE ~ PlayersUnload
  <2>1. plugin # "loaded" /\ UNCHANGED claimVars
    BY <1>3 DEF Reloads, Constructs, ConstructsEnd, PlayersLoad, PlayersLoaded,
       PlayersConstruct, PlayersConstructEnds, Load, Loaded, Construct, ConstructEnds
  <2>2. \A p \in Pid : lastHitDino[p] = Null
    BY <1>1, <2>1 DEF CreditInv, HitsKnown
  <2>3. lastHitDino' \in [Pid -> Address \cup {Null}]
    BY <1>1 DEF Reloads, Constructs, ConstructsEnd, HitsLeft, Hits
  <2>4. \A p \in Pid : lastHitDino'[p] = Null
    BY <2>2 DEF Reloads, Constructs, ConstructsEnd, HitsLeft, Hits
  <2>5. \A p \in Pid, a \in Address : ~ Claimed(p, a)'
    BY <2>1 DEF CreditInv, ClaimsKnown, Claimed, claimVars
  <2> QED
    BY <1>1, <2>3, <2>4, <2>5 DEF HitsKnown, ClaimsKnown
<1> QED
  BY <1>2, <1>3 DEF Constructs, ConstructsEnd, PlayersUnload, PlayersConstruct,
     PlayersConstructEnds, Unload, Construct, ConstructEnds


\* A hit claims the dino and gives up what the player claimed before
\* (M_tribe.cpp 580-590).
LEMMA HitClaims ==
  ASSUME IInv, CreditInv, NEW c \in Controller, NEW a \in Address, Hit(c, a)
  PROVE  CreditTypeOK' /\ HitsKnown' /\ ClaimsKnown'
<1>1. /\ Null \notin Address /\ UNCHANGED <<subject, playerVars, dino>>
      /\ conn[c] = "in" /\ linked[c] \in Pid /\ plugin \in {"unloaded", "loaded"}
      /\ credited' = Null
  BY DinoAssumption DEF Hit, Same, Around, IInv, TypeOK
<1>2. UNCHANGED <<plugin, playerIdMap, linked, overlapped, conn, pos, at, known, shown,
                  untold>>
  BY <1>1 DEF playerVars, vars, gameVars, reportVars, readerVars
<1>3. \A p \in Pid : Overlapped(p) <=> Overlapped(p)'
  BY <1>2 DEF Overlapped
<1>4. CASE plugin = "unloaded"
  <2>1. UNCHANGED <<lastHitDino, claims, haunts>>
    BY <1>4 DEF Hit, claimVars
  <2> QED
    BY <1>1, <1>2, <1>3, <2>1
    DEF CreditInv, CreditTypeOK, ReportTypeOK, HitsKnown, ClaimsKnown, Claimed
<1>5. CASE plugin = "loaded"
  <2> DEFINE h == linked[c]
  <2>1. /\ lastHitDino' = IF playerIdMap[h] = NoInfo THEN lastHitDino
                          ELSE [lastHitDino EXCEPT ![h] = a]
        /\ claims' = IF SteamOf[c] \in overlapped \/ c \in missed THEN claims
                     ELSE [Without(claims, {h}) EXCEPT ![a] = @ \cup {h}]
        /\ haunts' = Without(haunts, {h})
    BY <1>5 DEF Hit
  <2>2. /\ lastHitDino \in [Pid -> Address \cup {Null}]
        /\ claims \in [Address -> SUBSET Pid] /\ haunts \in [Address -> SUBSET Pid]
    BY DEF CreditInv, CreditTypeOK
  <2>3. Overlapped(h) <=> SteamOf[c] \in overlapped
    <3>1. \A d \in Controller : linked[d] = h => SteamOf[d] = SteamOf[c]
      BY <1>1 DEF IInv, PidOwner, Pid
    <3> QED
      BY <3>1 DEF Overlapped
  <2>4. ~ Overlapped(h) => (playerIdMap[h] # NoInfo <=> c \notin missed)
    <3>1. h # 0
      BY <1>1 DEF Pid
    <3>2. ~ Overlapped(h) /\ c \notin missed => playerIdMap[h] # NoInfo
      BY <1>1, <1>5, <2>3, <3>1 DEF IInv, Seen, Online
    <3>3. ASSUME ~ Overlapped(h), playerIdMap[h] # NoInfo
          PROVE  c \notin missed
      <4> DEFINE o == playerIdMap[h].shooterPlayer
      <4>1. o \in Controller /\ conn[o] = "in" /\ linked[o] = h /\ o \notin missed
        BY <1>1, <3>3 DEF IInv, TypeOK, LivePointers, MissedOut, Info
      <4>2. SteamOf[o] = SteamOf[c]
        BY <1>1, <3>1, <4>1 DEF IInv, PidOwner
      <4>3. o = c
        BY <1>1, <2>3, <3>3, <4>1, <4>2 DEF IInv, OverlapSeen, Online
      <4> QED
        BY <4>1, <4>3
    <3> QED
      BY <3>2, <3>3
  <2>5. \A b \in Address : Overlapped(h) \/ c \in missed => ~ Claimed(h, b)
    BY <1>1, <2>4 DEF CreditInv, ClaimsKnown
  <2>6. \A p \in Pid, b \in Address :
          Claimed(p, b)' <=> IF p = h THEN b = a /\ ~ Overlapped(h) /\ c \notin missed
                             ELSE Claimed(p, b)
    BY <1>1, <2>1, <2>2, <2>3, <2>5 DEF Claimed, Without
  <2>7. \A p \in Pid : lastHitDino'[p] =
          IF p = h /\ playerIdMap[h] # NoInfo THEN a ELSE lastHitDino[p]
    BY <2>1, <2>2
  <2>8. HitsKnown'
    BY <1>1, <1>2, <1>3, <1>5, <2>4, <2>6, <2>7 DEF CreditInv, HitsKnown
  <2>9. ClaimsKnown'
    BY <1>1, <1>2, <1>3, <1>5, <2>4, <2>6, <2>7 DEF CreditInv, ClaimsKnown
  <2>10. CreditTypeOK'
    <3>1. /\ lastHitDino' \in [Pid -> Address \cup {Null}]
          /\ haunts' \in [Address -> SUBSET Pid]
      BY <2>1, <2>2 DEF Without
    <3>2. claims' \in [Address -> SUBSET Pid]
      BY <1>1, <2>1, <2>2 DEF Without
    <3> QED
      BY <1>1, <1>2, <3>1, <3>2 DEF CreditInv, CreditTypeOK, ReportTypeOK
  <2> QED
    BY <2>8, <2>9, <2>10
<1> QED
  BY <1>1, <1>4, <1>5

\* A report names the first record with the address, or nobody if there is none
\* (M_online_players.h 95-105, M_tribe.cpp 657-698).
LEMMA ReportsTruth ==
  ASSUME IInv, CreditInv, NEW a \in Address, ReportsOn(a) \/ credited' = Null,
         UNCHANGED <<playerVars, lastHitDino, claimVars>>
  PROVE  credited' \in Credit \cup {Null} /\ CreditTrue'
<1>1. UNCHANGED <<plugin, playerIdMap, linked, overlapped, claims, haunts, lastHitDino>>
  BY DEF playerVars, vars, gameVars, claimVars
<1>2. \A p \in Pid : Overlapped(p) <=> Overlapped(p)'
  BY <1>1 DEF Overlapped
<1>3. CASE credited' = Null
  BY <1>3 DEF CreditTrue
<1>4. CASE ReportsOn(a) /\ credited' # Null
  <2>1. CASE ByDinoDamage(a) = {}
    <3>1. credited' = [dino |-> a, to |-> 0]
      BY <1>4, <2>1 DEF ReportsOn
    <3>2. \A p \in Pid : ~ Claimed(p, a)
      BY <2>1 DEF CreditInv, ClaimsKnown, ByDinoDamage
    <3>3. claims[a] \cup haunts[a] = {}
      BY <3>2 DEF Claimed, CreditInv, CreditTypeOK
    <3>4. claims'[a] \cup haunts'[a] = {}
      BY <1>1, <3>3
    <3> QED
      BY <3>1, <3>4 DEF Credit, CreditTrue
  <2>2. CASE ByDinoDamage(a) # {}
    <3>1. ByDinoDamage(a) \in SUBSET Nat /\ ByDinoDamage(a) \subseteq Pid
      BY DEF ByDinoDamage, Pid
    <3>2. PICK m \in ByDinoDamage(a) :
            m = CHOOSE p \in ByDinoDamage(a) : \A q \in ByDinoDamage(a) : p <= q
      BY <2>2, <3>1, Smallest
    <3>3. credited' = [dino |-> a, to |-> m] /\ m \in Pid /\ m # 0
      <4>1. credited' = [dino |-> a, to |-> m]
        BY <1>4, <2>2, <3>2 DEF ReportsOn
      <4>2. m \in Pid /\ m # 0
        BY <3>1 DEF Pid
      <4> QED
        BY <4>1, <4>2
    <3>4. Claimed(m, a) \/ Overlapped(m)
      BY <3>1, <3>2 DEF CreditInv, HitsKnown, ByDinoDamage
    <3>5. m \in claims'[a] \cup haunts'[a] \/ Overlapped(m)'
      BY <1>1, <1>2, <3>3, <3>4 DEF Claimed
    <3> QED
      BY <3>3, <3>5 DEF Credit, CreditTrue
  <2> QED
    BY <2>1, <2>2
<1> QED
  BY <1>3, <1>4


\* What players do keeps the types and names nobody.
LEMMA PlayersCredit ==
  ASSUME IInv, IInv', ReportTypeOK', CreditInv,
         \/ \E c \in Controller : Starts(c) \/ Leaves(c) \/ Constructs(c)
         \/ ConstructsEnd \/ Reloads \/ Elsewhere
  PROVE  CreditInv'
<1>1. credited' = Null /\ UNCHANGED <<subject, dino>>
  BY DEF Starts, Leaves, Constructs, ConstructsEnd, Reloads, Elsewhere, Quiet
<1>2. /\ lastHitDino' \in [Pid -> Address \cup {Null}]
      /\ HitsKnown' /\ ClaimsKnown'
  <2>1. CASE Elsewhere
    <3>1. UNCHANGED <<plugin, playerIdMap, linked, overlapped, claims, haunts, lastHitDino>>
      BY <2>1 DEF Elsewhere, Collect, Move, vars, gameVars, claimVars
    <3> QED
      BY <3>1 DEF CreditInv, CreditTypeOK, HitsKnown, ClaimsKnown, Claimed, Overlapped
  <2> QED
    BY <2>1, StartClaims, LeaveClaims, PluginClaims
<1>3. claims' \in [Address -> SUBSET Pid] /\ haunts' \in [Address -> SUBSET Pid]
  <2>1. UNCHANGED claimVars \/ \E ps : GiveUp(ps)
    BY DEF Starts, Leaves, Constructs, ConstructsEnd, Reloads, Elsewhere
  <2>2. claims \in [Address -> SUBSET Pid] /\ haunts \in [Address -> SUBSET Pid]
    BY DEF CreditInv, CreditTypeOK
  <2>3. ASSUME NEW ps, GiveUp(ps)
        PROVE  claims' \in [Address -> SUBSET Pid] /\ haunts' \in [Address -> SUBSET Pid]
    BY <2>2, <2>3 DEF GiveUp, Without
  <2> QED
    BY <2>1, <2>2, <2>3 DEF claimVars
<1>4. CreditTypeOK'
  BY <1>1, <1>2, <1>3 DEF CreditInv, CreditTypeOK
<1>5. CreditTrue'
  BY <1>1 DEF CreditTrue
<1> QED
  BY <1>2, <1>4, <1>5 DEF CreditInv

\* What becomes of a dino leaves the records alone; if it goes, the claims on it haunt its
\* address (M_tribe.cpp 580-590, 637-702).
LEMMA DinosCredit ==
  ASSUME IInv, ReportTypeOK', CreditInv, NEW a \in Address,
         \/ Spawn(a) \/ KnockedOut(a) \/ Wakes(a) \/ Tamed(a) \/ Destroyed(a)
         \/ \E c \in Controller : Hit(c, a)
  PROVE  CreditInv'
<1>1. CASE \E c \in Controller : Hit(c, a)
  <2>1. credited' = Null
    BY <1>1 DEF Hit
  <2> QED
    BY <1>1, <2>1, HitClaims DEF CreditInv, CreditTrue
<1>2. CASE Spawn(a) \/ KnockedOut(a) \/ Wakes(a) \/ Tamed(a) \/ Destroyed(a)
  <2>1. /\ UNCHANGED <<subject, playerVars, lastHitDino>>
        /\ dino' \in [Address -> {"none", "wild", "down", "tame"}]
    BY <1>2 DEF Spawn, KnockedOut, Wakes, Tamed, Destroyed, Same, Becomes, CreditInv,
       CreditTypeOK
  <2>2. UNCHANGED <<plugin, playerIdMap, linked, overlapped, lastHitDino>>
    BY <2>1 DEF playerVars, vars, gameVars
  <2>3. /\ claims' \in [Address -> SUBSET Pid] /\ haunts' \in [Address -> SUBSET Pid]
        /\ \A p \in Pid, b \in Address : Claimed(p, b)' <=> Claimed(p, b)
    <3>1. claims \in [Address -> SUBSET Pid] /\ haunts \in [Address -> SUBSET Pid]
      BY DEF CreditInv, CreditTypeOK
    <3>2. CASE Destroyed(a)
      BY <3>1, <3>2 DEF Destroyed, Claimed
    <3>3. CASE UNCHANGED claimVars
      BY <3>1, <3>3 DEF claimVars, Claimed
    <3> QED
      BY <1>2, <3>2, <3>3 DEF Spawn, KnockedOut, Wakes, Tamed
  <2>4. HitsKnown' /\ ClaimsKnown'
    BY <2>2, <2>3 DEF CreditInv, HitsKnown, ClaimsKnown, Overlapped
  <2>5. credited' \in Credit \cup {Null} /\ CreditTrue'
    <3>1. CASE KnockedOut(a) \/ Tamed(a)
      BY <2>1, <3>1, ReportsTruth DEF KnockedOut, Tamed
    <3>2. CASE credited' = Null
      BY <3>2 DEF CreditTrue
    <3> QED
      BY <1>2, <3>1, <3>2 DEF Spawn, Wakes, Destroyed
  <2>6. CreditTypeOK'
    BY <2>1, <2>3, <2>5 DEF CreditInv, CreditTypeOK
  <2> QED
    BY <2>4, <2>5, <2>6 DEF CreditInv
<1> QED
  BY <1>1, <1>2

\* Hits, claims and reports agree in every behaviour.
LEMMA CreditInvariance == CreditSpec => []CreditInv
<1>1. CreditInit => CreditInv
  <2> SUFFICES ASSUME CreditInit
               PROVE  CreditInv
    OBVIOUS
  <2>1. CreditTypeOK
    BY DEF CreditInit, ReportInit, CreditTypeOK, ReportTypeOK
  <2>2. HitsKnown /\ ClaimsKnown /\ CreditTrue
    BY DinoAssumption DEF CreditInit, HitsKnown, ClaimsKnown, Claimed, CreditTrue
  <2> QED
    BY <2>1, <2>2 DEF CreditInv
<1>2. ASSUME IInv, IInv', ReaderInv', CreditInv, [CreditNext]_creditVars
      PROVE  CreditInv'
  <2>1. ReportTypeOK'
    BY <1>2 DEF ReaderInv
  <2>2. CASE CreditNext
    <3>1. CASE \/ \E c \in Controller : Starts(c) \/ Leaves(c) \/ Constructs(c)
               \/ ConstructsEnd \/ Reloads \/ Elsewhere
      BY <1>2, <2>1, <3>1, PlayersCredit
    <3>2. ASSUME NEW a \in Address,
                 \/ Spawn(a) \/ KnockedOut(a) \/ Wakes(a) \/ Tamed(a) \/ Destroyed(a)
                 \/ \E c \in Controller : Hit(c, a)
          PROVE  CreditInv'
      BY <1>2, <2>1, <3>2, DinosCredit
    <3> QED
      BY <2>2, <3>1, <3>2 DEF CreditNext
  <2>3. CASE UNCHANGED creditVars
    <3>1. UNCHANGED <<subject, plugin, playerIdMap, linked, overlapped, lastHitDino, dino,
                      credited, claims, haunts>>
      BY <2>3 DEF creditVars, playerVars, vars, gameVars, dinoVars, claimVars
    <3> QED
      BY <1>2, <2>1, <3>1 DEF CreditInv, CreditTypeOK, HitsKnown, ClaimsKnown, Claimed,
         CreditTrue, Overlapped
  <2> QED
    BY <1>2, <2>2, <2>3
<1> QED
  BY <1>1, <1>2, RecordsInvariance, ReaderInvariance, PTL DEF CreditSpec

\* The log names for a knock-out or a tame only who has hit that dino, or one that was at
\* its address before, and somebody whenever there is one, for any number of players and
\* dinos, and whatever other players do; but for accounts that have had two controllers and
\* players whom the constructor left out
\* (M_tribe.cpp 580-590, 657-698; M_online_players.h 95-105).
THEOREM CreditIsTrue == CreditSpec => []CreditTrue
  BY CreditInvariance, PTL DEF CreditInv

\* Types, and at most one record for each account (M_online_players.cpp 109-120).
THEOREM PlayersInvariant == CreditSpec => []PlayersInv
<1>1. IInv /\ CreditInv => PlayersInv
  BY DEF IInv, Inv, CreditInv, PlayersInv
<1> QED
  BY <1>1, RecordsInvariance, CreditInvariance, PTL

=============================================================================
