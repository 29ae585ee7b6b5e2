----------------------------- MODULE TribeMembers -----------------------------
(***************************************************************************)
(* The tribes, as the hooks of M_tribe.cpp report them, and as a reader of *)
(* the log sees them.                                                      *)
(*                                                                         *)
(* The server calls UpdateTribeData with what a tribe will be; the hook    *)
(* compares that with what the server has, and logs the differences before *)
(* the call goes on.  That a player is missing is no difference: this is   *)
(* reported by the hook of RemovePlayerFromTribe after the server's own    *)
(* function, within which UpdateTribeData or RemoveTribe are called (the   *)
(* order is that of the trace in the source, M_tribe.cpp 778-811).         *)
(***************************************************************************)
EXTENDS Naturals, Sequences, SequencesExt, FiniteSets

CONSTANTS
  Tribe, Player, Name,
  NoPlayer      \* the owner of a tribe that has just been made

ASSUME TribeAssumption == NoPlayer \notin Player /\ IsFiniteSet(Player)

VARIABLES
  tribes,  \* the server: its tribes
  leaving, \* calls of RemovePlayerFromTribe that have not returned
  log,     \* the messages that the reader has not read
  view,    \* the tribes as the reader sees them
  hooked,  \* is the plugin loaded?
  unseen   \* history: tribes that have changed while it was not

vars == <<tribes, leaving, log, view, hooked, unseen>>

Absent == [members |-> {}, owner |-> NoPlayer, name |-> "none"]

Data == [members : SUBSET Player, owner : Player \cup {NoPlayer}, name : Name]

TypeOK ==
  /\ tribes \in [Tribe -> Data \cup {Absent}]
  /\ leaving \in Seq(Tribe \X Player)
  /\ {m.tribe : m \in ToSet(log)} \subseteq Tribe
  /\ \A t \in Tribe : view[t] # Absent =>
       view[t].members \subseteq Player /\ view[t].owner \in Player /\ view[t].name \in Name
  /\ hooked \in BOOLEAN /\ unseen \subseteq Tribe

Init ==
  /\ tribes = [t \in Tribe |-> Absent] /\ view = tribes
  /\ leaving = <<>> /\ log = <<>>
  /\ hooked = TRUE /\ unseen = {}

-----------------------------------------------------------------------------
(* The messages.                                                            *)

Create(t, p, n)     == [type |-> "tribe_create", tribe |-> t, player |-> p, name |-> n]
RemoveMessage(t)    == [type |-> "tribe_remove", tribe |-> t]
ChangeName(t, n)    == [type |-> "tribe_change_name", tribe |-> t, name |-> n]
AddPlayer(t, p)     == [type |-> "tribe_add_player", tribe |-> t, player |-> p]
RemovePlayer(t, p)  == [type |-> "tribe_remove_player", tribe |-> t, player |-> p]
SetOwner(t, p)      == [type |-> "tribe_set_owner", tribe |-> t, player |-> p]

When(condition, messages) == IF condition THEN messages ELSE <<>>

Renamed(t, new) == When(tribes[t].name # new.name, <<ChangeName(t, new.name)>>)
Joined(t, players) == [i \in DOMAIN players |-> AddPlayer(t, players[i])]
NewOwner(t, new) == When(tribes[t].owner # new.owner, <<SetOwner(t, new.owner)>>)

IsCreated(t, new) == tribes[t].members = {} /\ Cardinality(new.members) = 1

\* Mistake: the owner comes before the players.
DifferencesOwnerFirst(t, new, joined) ==
  IF IsCreated(t, new)
  THEN <<Create(t, CHOOSE p \in new.members : TRUE, new.name)>>
  ELSE Renamed(t, new) \o NewOwner(t, new) \o Joined(t, joined)

\* What the hook of UpdateTribeData logs, with the players who join in the order of
\* the new list.
Differences(t, new, joined) ==
  IF IsCreated(t, new)
  THEN <<Create(t, CHOOSE p \in new.members : TRUE, new.name)>>
  ELSE Renamed(t, new) \o Joined(t, joined) \o NewOwner(t, new)

\* Without the plugin nothing is logged, and the reader does not see the change.
Logged(t, messages) ==
  IF hooked THEN log' = messages /\ UNCHANGED unseen
  ELSE unseen' = unseen \cup {t} /\ UNCHANGED log

-----------------------------------------------------------------------------
(* The server.  It does not go on before the reader has read, which makes   *)
(* no difference to what the reader reads.                                  *)

\* AddNewTribe makes an empty tribe, and then calls UpdateTribeData.
AddNewTribe(t) ==
  /\ log = <<>> /\ leaving = <<>> /\ tribes[t] = Absent
  /\ \E n \in Name :
       tribes' = [tribes EXCEPT ![t] = [members |-> {}, owner |-> NoPlayer, name |-> n]]
  /\ Logged(t, <<>>)
  /\ UNCHANGED <<leaving, view, hooked>>

\* The server's calls: the first player, more players, another owner or name, or
\* the leave of a player, who is taken out by nothing else.
MayBecome(t, members) ==
  IF leaving # <<>>
  THEN LET call == Last(leaving)
       IN  t = call[1] /\ members = tribes[t].members \ {call[2]}
  ELSE /\ tribes[t].members \subseteq members
       /\ tribes[t].members = {} => Cardinality(members) = 1

UpdateTribeData(t, new) ==
  /\ log = <<>> /\ tribes[t] # Absent /\ new # tribes[t]
  /\ new.owner \in new.members /\ MayBecome(t, new.members)
  /\ \E joined \in SetToSeqs(new.members \ tribes[t].members) :
       Logged(t, Differences(t, new, joined))
  /\ tribes' = [tribes EXCEPT ![t] = new]
  /\ UNCHANGED <<leaving, view, hooked>>

\* A tribe without a player is removed.
RemoveTribe(t) ==
  /\ log = <<>> /\ tribes[t] # Absent
  /\ leaving # <<>> => Last(leaving)[1] = t /\ tribes[t].members \subseteq {Last(leaving)[2]}
  /\ tribes' = [tribes EXCEPT ![t] = Absent]
  /\ Logged(t, <<RemoveMessage(t)>>)
  /\ UNCHANGED <<leaving, view, hooked>>

RemovePlayerFromTribe(t, p) ==
  /\ log = <<>> /\ leaving = <<>> /\ p \in tribes[t].members
  /\ leaving' = <<(<<t, p>>)>>
  /\ UNCHANGED <<tribes, log, view, hooked, unseen>>

\* Mistake: only a player who is still there is reported.
RemovePlayerReturnsLate ==
  /\ log = <<>> /\ leaving # <<>>
  /\ LET call == Last(leaving)
     IN  /\ call[2] \notin tribes[call[1]].members
         /\ Logged(call[1], When(call[2] \in tribes[call[1]].members,
                                 <<RemovePlayer(call[1], call[2])>>))
  /\ leaving' = Front(leaving)
  /\ UNCHANGED <<tribes, view, hooked>>

RemovePlayerReturns ==
  /\ log = <<>> /\ leaving # <<>>
  /\ LET call == Last(leaving)
     IN  /\ call[2] \notin tribes[call[1]].members
         /\ Logged(call[1], <<RemovePlayer(call[1], call[2])>>)
  /\ leaving' = Front(leaving)
  /\ UNCHANGED <<tribes, view, hooked>>

Unload ==
  /\ hooked /\ log = <<>> /\ leaving = <<>>
  /\ hooked' = FALSE
  /\ UNCHANGED <<tribes, leaving, log, view, unseen>>

\* OnlinePlayers is constructed before the hooks of M_tribe.cpp are registered,
\* and has the server remove tribes and players.
LoadRemoves(t) ==
  /\ ~hooked /\ leaving = <<>> /\ tribes[t] # Absent
  /\ tribes' = [tribes EXCEPT ![t] = Absent]
  /\ Logged(t, <<RemoveMessage(t)>>)
  /\ hooked' = TRUE
  /\ UNCHANGED <<leaving, view>>

Load ==
  /\ ~hooked /\ leaving = <<>>
  /\ hooked' = TRUE
  /\ UNCHANGED <<tribes, leaving, log, view, unseen>>

-----------------------------------------------------------------------------
(* The reader.  It knows nothing of a tribe before it is created.           *)

Told(m) ==
  LET t == m.tribe
      known == view[t] # Absent
  IN  CASE m.type = "tribe_create" ->
             [view EXCEPT ![t] = [members |-> {m.player}, owner |-> m.player, name |-> m.name]]
        [] m.type = "tribe_remove" -> [view EXCEPT ![t] = Absent]
        [] m.type = "tribe_change_name" /\ known -> [view EXCEPT ![t].name = m.name]
        [] m.type = "tribe_add_player" /\ known ->
             [view EXCEPT ![t].members = @ \cup {m.player}]
        [] m.type = "tribe_remove_player" /\ known ->
             [view EXCEPT ![t].members = @ \ {m.player}]
        [] m.type = "tribe_set_owner" /\ known -> [view EXCEPT ![t].owner = m.player]
        [] OTHER -> view

\* With its removal a tribe is again what the reader takes it for.
Read ==
  /\ log # <<>>
  /\ view' = Told(Head(log))
  /\ unseen' = IF Head(log).type = "tribe_remove" THEN unseen \ {Head(log).tribe} ELSE unseen
  /\ log' = Tail(log)
  /\ UNCHANGED <<tribes, leaving, hooked>>

Calls ==
  \/ \E t \in Tribe :
       \/ AddNewTribe(t) \/ RemoveTribe(t)
       \/ \E new \in Data : UpdateTribeData(t, new)
       \/ \E p \in Player : RemovePlayerFromTribe(t, p)
  \/ RemovePlayerReturns

Loads == Load \/ \E t \in Tribe : LoadRemoves(t)

Next == Calls \/ Loads \/ Unload \/ Read

Spec == Init /\ [][Next]_vars

-----------------------------------------------------------------------------

\* When all is read and no call is under way, the reader sees the players, the
\* owner and the name of each tribe as the server has them, if the tribe has not
\* changed without the plugin (M_tribe.cpp 831-903).
Replayed ==
  log = <<>> /\ leaving = <<>> =>
    \A t \in Tribe \ unseen :
      IF tribes[t].members = {} THEN view[t] = Absent ELSE view[t] = tribes[t]

\* After every single message the owner of a tribe is one of its players, also
\* while an owner leaves (M_tribe.cpp 852, 881-895).
OwnerIsMember ==
  \A t \in Tribe \ unseen : view[t] # Absent => view[t].owner \in view[t].members

\* No player is added who is there, and no name or owner is set again, whatever
\* calls the server nests (M_tribe.cpp 868-896).
OnlyNews ==
  log # <<>> =>
    LET m == Head(log)
    IN  m.tribe \notin unseen =>
          CASE m.type = "tribe_add_player" -> m.player \notin view[m.tribe].members
            [] m.type = "tribe_set_owner" -> m.player # view[m.tribe].owner
            [] m.type = "tribe_change_name" -> m.name # view[m.tribe].name
            [] OTHER -> TRUE

\* Each message makes sense to a reader that has applied those before it.
Inv == TypeOK /\ OwnerIsMember /\ OnlyNews

=============================================================================
