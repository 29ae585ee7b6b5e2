------------------------------- MODULE Commands -------------------------------
(***************************************************************************)
(* The remote command that hands a dino to a player (TPDinoIdToPlayerId of *)
(* ExtendedEventLog.cpp).  It gives the dino the tribe that is in the      *)
(* player's record.  insertPlayer (M_online_players.cpp) has put it there  *)
(* when the player logged in or spawned last, or when the plugin was       *)
(* loaded; since then the player may have changed tribes.                  *)
(*                                                                         *)
(* The other command, GetTribeIdFromPlayerId, changes nothing.             *)
(***************************************************************************)
EXTENDS TribeMembers

CONSTANTS
  Visitor,    \* the players that may be online
  NoTribe,    \* 0
  NoRecord    \* the player has no record

ASSUME CommandAssumption ==
  /\ Visitor \subseteq Player
  /\ NoTribe # NoRecord /\ {NoTribe, NoRecord} \cap Tribe = {}

VARIABLES
  tid,     \* the tribe in the record of each player
  given,   \* the player and the tribe to which the last step handed a dino, if it did
  moved    \* history: players whose tribe has changed since their record was made

commandVars == <<vars, tid, given, moved>>

CommandInit ==
  /\ Init
  /\ tid = [p \in Visitor |-> NoRecord]
  /\ given = {} /\ moved = {}

-----------------------------------------------------------------------------

\* What insertPlayer reads: a player without a state has no tribe.
ReadTid(p) == {t \in Tribe : p \in tribes[t].members} \cup {NoTribe}

Movers ==
  {p \in Visitor : \E t \in Tribe : ~(p \in tribes[t].members <=> p \in tribes'[t].members)}

TribesChange ==
  /\ Calls \/ Read
  /\ moved' = moved \cup Movers
  /\ given' = {} /\ UNCHANGED tid

\* The constructor reads the tribes of all who are online before it has the server
\* remove tribes.
Constructs ==
  /\ Loads
  /\ \E online \in SUBSET Visitor :
       /\ tid' \in [Visitor -> Tribe \cup {NoTribe, NoRecord}]
       /\ \A p \in Visitor :
            IF p \in online THEN tid'[p] \in ReadTid(p) ELSE tid'[p] = NoRecord
  /\ moved' = Movers
  /\ given' = {}

Destructs ==
  /\ Unload
  /\ tid' = [p \in Visitor |-> NoRecord] /\ moved' = {}
  /\ given' = {}

\* The server calls nothing else while it changes a tribe.
Outside == leaving = <<>> /\ log = <<>> /\ UNCHANGED vars

\* Mistake: a record that is there is kept.
InsertPlayerKeeps(p) ==
  /\ Outside /\ hooked
  /\ \E t \in ReadTid(p) : tid' = [tid EXCEPT ![p] = IF @ = NoRecord THEN t ELSE @]
  /\ moved' = moved \ {p} /\ given' = {}

\* A player logs in or spawns: the record is made anew.
InsertPlayer(p) ==
  /\ Outside /\ hooked
  /\ \E t \in ReadTid(p) : tid' = [tid EXCEPT ![p] = t]
  /\ moved' = moved \ {p} /\ given' = {}

\* A player logs out, or the account logs in with another character.
Erase(p) ==
  /\ Outside /\ tid[p] # NoRecord
  /\ tid' = [tid EXCEPT ![p] = NoRecord]
  /\ moved' = moved \ {p} /\ given' = {}

\* The command, for a dino that is there; one for a player who has no record does nothing.
TPDinoIdToPlayerId(p) ==
  /\ Outside /\ tid[p] # NoRecord
  /\ given' = {[player |-> p, tribe |-> tid[p]]}
  /\ UNCHANGED <<tid, moved>>

CommandNext ==
  \/ TribesChange \/ Constructs \/ Destructs
  \/ \E p \in Visitor : InsertPlayer(p) \/ Erase(p) \/ TPDinoIdToPlayerId(p)

CommandSpec == CommandInit /\ [][CommandNext]_commandVars

-----------------------------------------------------------------------------

\* A dino is handed to no tribe but the player's own, unless that has changed since the
\* player spawned last; and if it has, or if the constructor had the tribe removed, the
\* log has told the reader so (M_online_players.cpp 107-146; ExtendedEventLog.cpp 64-80).
TeamTrue ==
  \A g \in given : g.tribe # NoTribe =>
    \/ g.player \in tribes[g.tribe].members
    \/ /\ g.player \in moved
       /\ g.tribe \notin unseen => g.player \notin view[g.tribe].members

=============================================================================
