------------------------------- MODULE Messages -------------------------------
(***************************************************************************)
(* The messages of the event log (Messages.cpp), as EventMessage encodes   *)
(* them, and a reader of the log.                                          *)
(*                                                                         *)
(* A message begins with the number of its values, which the function that *)
(* makes the message works out before it pushes them, and their type; what *)
(* the others are is known from these two alone.                           *)
(*                                                                         *)
(* A message of no function, of any values, stands for what EventMessage   *)
(* may be asked to encode by others.                                       *)
(***************************************************************************)
EXTENDS EventMessage

CONSTANTS
  Values,      \* values that are pushed by others
  MaxValues,   \* bound: how many of them
  Stats,       \* the lists of points that a status component may have
  MaxReq       \* bound: resources that an item requires

\* The level is the sum of the points.
Level(p) == FoldLeft(LAMBDA a, b : a + b, 0, p)

\* Values are of the types of the parameters; a level is a number of 32 bits; and no
\* function makes a message of 2^24 values.
ASSUME MessagesAssumption ==
  /\ Values \subseteq Value /\ MaxValues \in Nat
  /\ \A p \in Stats : /\ p \in Seq(0 .. Word - 1) /\ Level(p) \in 0 .. Word - 1
                     /\ 2 * Len(p) + 10 < Base * Base * Base
  /\ MaxReq \in Nat /\ 2 * MaxReq + 16 < Base * Base * Base

VARIABLES
  todo,    \* what the function has still to push
  type,    \* history: the type of the message, "none" if it is of no function
  points   \* history: the points that it reports

messagesVars == <<encoding, todo, type, points>>

\* The numbers of the types that are sent, of MessageTypes.
MessageTypes ==
  [server_start |-> 2, stop_work |-> 3, player_online |-> 4, server_config_param |-> 5,
   player_create |-> 16, player_login |-> 17, player_logout |-> 18, build_structure |-> 19,
   player_set_pos |-> 20, player_pasive_online |-> 22, player_set_pos_and_activity |-> 23,
   player_update_inventory |-> 24, server_ping |-> 25, player_die |-> 26,
   player_learn_engram |-> 27, player_update_inventory_with_quality |-> 28,
   player_harvest2 |-> 29, player_update_inventory2 |-> 30,
   tribe_create |-> 31, tribe_remove |-> 32, tribe_add_player |-> 33,
   tribe_remove_player |-> 34, tribe_set_owner |-> 35, tribe_log |-> 38,
   tribe_change_name |-> 39, player_all_stats |-> 40, player_level_up |-> 41,
   dino_knockdown |-> 42, dino_wake |-> 43, dino_tame |-> 44, dino_die |-> 45,
   dino_level_up |-> 46, dino_spawn_wild |-> 47, dino_change_name |-> 48]

MessageType == DOMAIN MessageTypes

MessagesTypeOK ==
  /\ EncodingTypeOK
  /\ todo \in Seq(Value)
  /\ type \in MessageType \cup {"none"} /\ points \in Stats \cup {<<>>}

-----------------------------------------------------------------------------
(* The values.  Of most the value does not matter.                          *)

Uint(i)   == [kind |-> "uint", value |-> i]
Header(n) == [kind |-> "array", value |-> n]
TypeValue(t)  == Uint(MessageTypes[t])
Un == Uint(1)
In == [kind |-> "int", value |-> -1]
Fl == [kind |-> "float", value |-> <<0, 1, 0, 1>>]
St == [kind |-> "string", value |-> <<1, 1>>]
Nm == [kind |-> "name"]
Time == Un

Pos == <<Fl, Fl, Fl>>

\* n times the same values.
Times(n, values) == FlattenSeq([i \in 1 .. n |-> values])

\* push_string_to_message: a name is its number in the library, or itself.
Named(values, given) == [i \in DOMAIN values |-> IF values[i].kind = "name" THEN given ELSE values[i]]

\* A new message, with the number of its values, its type and the values.
MakePoints(n, t, values, p) ==
  /\ type = "none" /\ pushed = <<>> /\ ~closed
  /\ \E given \in {St, [kind |-> "string_lib", value |-> 1]} :
       todo' = <<Header(n), TypeValue(t)>> \o Named(values, given)
  /\ type' = t /\ points' = p
  /\ UNCHANGED encoding

Make(n, t, values) == MakePoints(n, t, values, <<>>)

-----------------------------------------------------------------------------
(* Players.                                                                 *)

PlayerDie         == Make(3, "player_die", <<Time, Un>>)
PlayerLearnEngram == Make(4, "player_learn_engram", <<Time, Un, Nm>>)

\* Mistake: of each requirement only the name is counted.
PlayerUpdateInventory2Short(req) ==
  Make(7 + 8 + 1 + req, "player_update_inventory2",
       <<Time, Un, Nm, In, Un, Un>> \o Times(8, <<In>>) \o <<Uint(req)>> \o Times(req, <<In, Nm>>))

PlayerUpdateInventory2(req) ==
  Make(7 + 8 + 1 + req * 2, "player_update_inventory2",
       <<Time, Un, Nm, In, Un, Un>> \o Times(8, <<In>>) \o <<Uint(req)>> \o Times(req, <<In, Nm>>))

PlayerUpdateInventoryWithQuality ==
  Make(9, "player_update_inventory_with_quality", <<Time, Un, Nm, Un, Nm, Un, Nm, In>>)
PlayerUpdateInventory == Make(7, "player_update_inventory", <<Time, Un, Nm, In, Un, Un>>)
PlayerHarvest2        == Make(6, "player_harvest2", <<Time, Un, Nm, Un, Un>>)
BuildStructure        == Make(7, "build_structure", <<Time, Un, Nm>> \o Pos)
PlayerSetPos          == Make(6, "player_set_pos", <<Time, Un>> \o Pos)
PlayerLogout          == Make(6, "player_logout", <<Time, Un, St, Un, St>>)

\* The caller's type is that of a stop of the server if a player is started
\* without a login and without a new character.
PlayerLogin ==
  \E t \in {"player_login", "player_create", "stop_work"} : Make(6, t, <<Time, Un, St, Un, St>>)

ServerPing         == Make(3, "server_ping", <<Time, Un>>)
PlayerPasiveOnline == Make(4, "player_pasive_online", <<Time, Un, Un>>)
PlayerSetPosAndActivity == Make(8, "player_set_pos_and_activity", <<Time, Un>> \o Pos \o <<Un, Un>>)
PlayerLevelUp      == Make(6, "player_level_up", <<Time, Un, Un, Un, Fl>>)

\* Points and value of each stat, and the sum of the points.
StatsOf(p) ==
  FlattenSeq([i \in DOMAIN p |-> <<Uint(p[i]), Fl>>])
    \o <<Uint(Level(p))>>

PlayerAllStats(p) ==
  MakePoints(4 + Len(p) * 2, "player_all_stats", <<Time, Un>> \o StatsOf(p), p)

-----------------------------------------------------------------------------
(* Tribes.                                                                  *)

TribeCreate       == Make(5, "tribe_create", <<Time, Un, Un, St>>)
TribeRemove       == Make(3, "tribe_remove", <<Time, Un>>)
TribeLog          == Make(4, "tribe_log", <<Time, Un, St>>)
TribeRemovePlayer == Make(4, "tribe_remove_player", <<Time, Un, Un>>)
TribeAddPlayer    == Make(4, "tribe_add_player", <<Time, Un, Un>>)
TribeChangeName   == Make(4, "tribe_change_name", <<Time, Un, St>>)
TribeSetOwner     == Make(4, "tribe_set_owner", <<Time, Un, Un>>)

-----------------------------------------------------------------------------
(* Dinos.                                                                   *)

DinoKnockdown(p) ==
  MakePoints(10 + Len(p) * 2, "dino_knockdown",
             <<Time, Un, Un, Un, Nm>> \o Pos \o StatsOf(p), p)

DinoTame(p) ==
  MakePoints(6 + Len(p) * 2, "dino_tame",
             <<Time, Un, Un, Un>> \o StatsOf(p), p)

DinoWake    == Make(3, "dino_wake", <<Time, Un>>)
DinoDie     == Make(3, "dino_die", <<Time, Un>>)
DinoLevelUp == Make(7, "dino_level_up", <<Time, Un, Un, Un, Un, Fl>>)

DinoSpawnWild(p) ==
  MakePoints(8 + Len(p) * 2, "dino_spawn_wild",
             <<Time, Un, Nm>> \o Pos \o StatsOf(p), p)

DinoChangeName == Make(4, "dino_change_name", <<Time, Un, St>>)

-----------------------------------------------------------------------------
(* The server.                                                              *)

\* One of the parameters that are sent if there is a game mode, without a time.
ServerConfig == Make(3, "server_config_param", <<St, Fl>>)

\* The end of Load: the start, and each player who is on the server.
ServerStart  == Make(1, "server_start", <<>>)
PlayerOnline == Make(2, "player_online", <<Un>>)

Function ==
  \/ PlayerDie \/ PlayerLearnEngram
  \/ \E req \in 0 .. MaxReq : PlayerUpdateInventory2(req)
  \/ PlayerUpdateInventoryWithQuality \/ PlayerUpdateInventory \/ PlayerHarvest2
  \/ BuildStructure \/ PlayerSetPos \/ PlayerLogout \/ PlayerLogin \/ ServerPing
  \/ PlayerPasiveOnline \/ PlayerSetPosAndActivity \/ PlayerLevelUp
  \/ TribeCreate \/ TribeRemove \/ TribeLog \/ TribeRemovePlayer \/ TribeAddPlayer
  \/ TribeChangeName \/ TribeSetOwner
  \/ \E p \in Stats :
       PlayerAllStats(p) \/ DinoKnockdown(p) \/ DinoTame(p) \/ DinoSpawnWild(p)
  \/ DinoWake \/ DinoDie \/ DinoLevelUp \/ DinoChangeName
  \/ ServerConfig \/ ServerStart \/ PlayerOnline

-----------------------------------------------------------------------------
(* The making of a message.                                                 *)

MessagesInit == EncodingInit /\ todo = <<>> /\ type = "none" /\ points = <<>>

PushNext ==
  /\ todo # <<>>
  /\ PushValue(Head(todo)) /\ todo' = Tail(todo)
  /\ UNCHANGED <<type, points>>

PushAny(v) ==
  /\ type = "none" /\ Len(pushed) < MaxValues
  /\ PushValue(v)
  /\ UNCHANGED <<todo, type, points>>

PushBytes == PushMemory /\ UNCHANGED <<todo, type, points>>

Close == todo = <<>> /\ SetSize /\ UNCHANGED <<todo, type, points>>

Another == NewMessage /\ type' = "none" /\ points' = <<>> /\ UNCHANGED todo

MessagesNext ==
  \/ Function \/ PushNext \/ \E v \in Values : PushAny(v)
  \/ PushBytes \/ Close \/ Another

MessagesSpec == MessagesInit /\ [][MessagesNext]_messagesVars

-----------------------------------------------------------------------------
(* The reader.                                                              *)

HasStats == {"player_all_stats", "dino_knockdown", "dino_tame", "dino_spawn_wild"}

\* How many values come before the stats, in the messages that have any.
Before(t) ==
  CASE t = "player_all_stats" -> 3 [] t = "dino_knockdown" -> 9
    [] t = "dino_tame" -> 5 [] t = "dino_spawn_wild" -> 7

\* The number of values tells how many stats there are.
PointsRead(values, t) ==
  LET b == Before(t) + 1
  IN  [i \in 1 .. (Head(values).value - b) \div 2 |-> values[b + 2 * i - 1].value]

\* A closed message of a function, as its bytes are read, begins with the number of the
\* values that follow, and with its type; whatever is required or measured
\* (Messages.cpp; ExtendedEventLog.cpp 245-265).
AtHeader ==
  closed /\ type # "none" =>
    LET read == Decoded(Written)
    IN  /\ read[1] = [kind |-> "array", value |-> Len(read) - 1]
        /\ read[2] = [kind |-> "number", value |-> MessageTypes[type]]

\* From the number of values alone a reader knows how many stats a player or a dino
\* has, and it finds their points, the sum of which is the level (Messages.cpp
\* 362-390, 410-490, 546-584).
StatsUnderstood ==
  closed /\ type \in HasStats =>
    LET read == Decoded(Written)
    IN  /\ PointsRead(read, type) = points
        /\ Last(read).value = Level(points)

\* After each call of push_memory the buffers are within their limits and their
\* sizes add up; and a reader of the bytes knows from the number and the type what
\* the values are, and understands the stats in them.
MessagesInv == MessagesTypeOK /\ PartsFit /\ SizeExact /\ AtHeader /\ StatsUnderstood

=============================================================================
