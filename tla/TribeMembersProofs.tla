-------------------------- MODULE TribeMembersProofs --------------------------
(***************************************************************************)
(* Proofs about M_tribe.cpp.  For every number of tribes, players and      *)
(* names: a reader of the log sees the tribes that the server has          *)
(* (TribeMembers), and whose dinos are whose (Commands).  For every number *)
(* of dinos and restarts: a tame is reported, and a dino keeps the folders *)
(* with its levels (TamedFolders).                                         *)
(***************************************************************************)
EXTENDS Commands, TamedFolders, ProofFacts, FiniteSetTheorems

(* What a reader may take a tribe for, and what it is told.                 *)
Seen == [members : SUBSET Player, owner : Player, name : Name]

Message ==
  [type : {"tribe_create"}, tribe : Tribe, player : Player, name : Name]
    \cup [type : {"tribe_remove"}, tribe : Tribe]
    \cup [type : {"tribe_change_name"}, tribe : Tribe, name : Name]
    \cup [type : {"tribe_add_player", "tribe_remove_player", "tribe_set_owner"},
          tribe : Tribe, player : Player]

\* The types of the differences that UpdateTribeData logs.
Changes == {"tribe_change_name", "tribe_add_player", "tribe_set_owner"}

(* What the invariants need to be inductive.                                *)
Types ==
  /\ tribes \in [Tribe -> Data \cup {Absent}]
  /\ leaving \in Seq(Tribe \X Player) /\ Len(leaving) <= 1
  /\ log \in Seq(Message)
  /\ view \in [Tribe -> Seen \cup {Absent}]
  /\ hooked \in BOOLEAN /\ unseen \subseteq Tribe

\* The log is what one call has said: about one tribe, and either one message or
\* differences, the name first and the owner last, with no player twice.
OneCall ==
  \A i, j \in 1 .. Len(log) :
    /\ log[i].tribe = log[j].tribe
    /\ log[i].type \notin Changes => Len(log) = 1
    /\ log[i].type = "tribe_change_name" => i = 1
    /\ log[i].type = "tribe_set_owner" => i = Len(log)
    /\ log[i].type = "tribe_add_player" /\ log[j].type = "tribe_add_player" /\ i # j =>
         log[i].player # log[j].player

\* The server removes a tribe, and a tribe with players has one of them as its owner.
ServerKeeps ==
  /\ \A i \in 1 .. Len(log) :
       log[i].type = "tribe_remove" => tribes[log[i].tribe] = Absent
  /\ \A t \in Tribe : tribes[t].members # {} => tribes[t].owner \in tribes[t].members

\* The player whose leave has not been reported; until then the reader has him.
Staying(t) == {p \in Player : leaving # << >> /\ leaving[1] = <<t, p>>}

\* The players whose joining the reader has not read.
Upcoming ==
  {log[i].player : i \in {j \in 1 .. Len(log) : log[j].type = "tribe_add_player"}}

With(t, players) ==
  [members |-> tribes[t].members \cup players, owner |-> tribes[t].owner,
   name |-> tribes[t].name]

\* What the reader has of a tribe about which it has read everything,
Settled(t, players) ==
  IF tribes[t].members = {} THEN view[t] = Absent ELSE view[t] = With(t, players)

\* and what it lacks of one about which the log has messages.
Created(t) ==
  log[1].type = "tribe_create" =>
    /\ view[t] = Absent /\ leaving = << >>
    /\ tribes[t] = [members |-> {log[1].player}, owner |-> log[1].player,
                    name |-> log[1].name]

HasLeft(t) ==
  log[1].type = "tribe_remove_player" =>
    /\ leaving = << >> /\ log[1].player \notin tribes[t].members
    /\ Settled(t, {log[1].player})

Changed(t) ==
  log[1].type \in Changes =>
    /\ view[t] # Absent /\ tribes[t].members # {}
    /\ view[t].members \cup Upcoming = tribes[t].members \cup Staying(t)
    /\ view[t].members \cap Upcoming = {}
    /\ IF log[1].type = "tribe_change_name"
       THEN log[1].name = tribes[t].name /\ view[t].name # tribes[t].name
       ELSE view[t].name = tribes[t].name
    /\ IF log[Len(log)].type = "tribe_set_owner"
       THEN log[Len(log)].player = tribes[t].owner /\ view[t].owner # tribes[t].owner
       ELSE view[t].owner = tribes[t].owner

About(t) == \E i \in 1 .. Len(log) : log[i].tribe = t

Followed(t) ==
  IF About(t) THEN Created(t) /\ HasLeft(t) /\ Changed(t) ELSE Settled(t, Staying(t))

IInv == /\ Types /\ OneCall /\ ServerKeeps /\ OwnerIsMember
        /\ \A t \in Tribe \ unseen : Followed(t)

-----------------------------------------------------------------------------
(* What the hook of UpdateTribeData logs.                                   *)

\* The new players are each said once (SetToSeqs).
LEMMA EachJoins ==
  ASSUME NEW S \in SUBSET Player, NEW joined \in SetToSeqs(S)
  PROVE  /\ joined \in Seq(Player) /\ Len(joined) \in Nat
         /\ \A i \in 1 .. Len(joined) : joined[i] \in S
         /\ \A i, j \in 1 .. Len(joined) : i # j => joined[i] # joined[j]
         /\ \A p \in S : \E i \in 1 .. Len(joined) : joined[i] = p
<1>1. IsFiniteSet(S)
  BY FS_Subset, TribeAssumption
<1>2. Cardinality(S) \in Nat
  BY <1>1, FS_CardinalityType
<1>3. /\ joined \in [1 .. Cardinality(S) -> S]
      /\ \A i, j \in 1 .. Cardinality(S) : i # j => joined[i] # joined[j]
  BY DEF SetToSeqs
<1>4. joined \in Seq(Player) /\ Len(joined) = Cardinality(S)
  <2>1. joined \in [1 .. Cardinality(S) -> Player]
    BY <1>3
  <2> QED
    BY <1>2, <1>3, <2>1
<1>5. joined \in Surjection(1 .. Cardinality(S), S)
  <2>1. joined \in Injection(1 .. Cardinality(S), S)
    BY <1>3 DEF Injection, IsInjective
  <2>2. IsFiniteSet(1 .. Cardinality(S)) /\ Cardinality(1 .. Cardinality(S)) = Cardinality(S)
    BY <1>2, FS_Interval
  <2> QED
    BY <1>1, <2>1, <2>2, FS_Injection
<1> QED
  BY <1>2, <1>3, <1>4, <1>5 DEF Surjection

\* What three sequences of r, k and o messages are one after the other.
InParts(d, a, b, c, r, k, o) ==
  /\ d \in Seq(Message) /\ Len(d) = r + k + o
  /\ \A i \in 1 .. r + k + o :
       \/ i \in 1 .. r /\ d[i] = a[i]
       \/ i - r \in 1 .. k /\ d[i] = b[i - r]
       \/ i - (r + k) \in 1 .. o /\ d[i] = c[i - (r + k)]
  /\ \A i \in 1 .. r : d[i] = a[i]
  /\ \A i \in 1 .. k : d[i + r] = b[i]
  /\ \A i \in 1 .. o : d[i + (r + k)] = c[i]

LEMMA ThreeParts ==
  ASSUME NEW a \in Seq(Message), NEW b \in Seq(Message), NEW c \in Seq(Message),
         NEW r \in Nat, NEW k \in Nat, NEW o \in Nat,
         r = Len(a), k = Len(b), o = Len(c)
  PROVE  InParts((a \o b) \o c, a, b, c, r, k, o)
<1> DEFINE ab == a \o b
           d == ab \o c
<1>1. /\ ab \in Seq(Message) /\ Len(ab) = r + k
      /\ \A i \in 1 .. r + k : ab[i] = IF i <= r THEN a[i] ELSE b[i - r]
  BY ConcatProperties
<1> HIDE DEF ab
<1>2. /\ d \in Seq(Message) /\ Len(d) = r + k + o
      /\ \A i \in 1 .. r + k + o : d[i] = IF i <= r + k THEN ab[i] ELSE c[i - (r + k)]
  <2>1. /\ d \in Seq(Message) /\ Len(d) = (r + k) + o
        /\ \A i \in 1 .. (r + k) + o : d[i] = IF i <= r + k THEN ab[i] ELSE c[i - (r + k)]
    <3>1. /\ ab \o c \in Seq(Message) /\ Len(ab \o c) = Len(ab) + Len(c)
          /\ \A i \in 1 .. Len(ab) + Len(c) :
               (ab \o c)[i] = IF i <= Len(ab) THEN ab[i] ELSE c[i - Len(ab)]
      <4>1. ab \in Seq(Message)
        BY <1>1
      <4> QED
        BY ONLY <4>1, c \in Seq(Message), ConcatProperties
    <3> QED
      BY <1>1, <3>1
  <2> QED
    BY <2>1
<1> HIDE DEF d
<1>3. ASSUME NEW i \in 1 .. r + k + o
      PROVE  \/ i \in 1 .. r /\ d[i] = a[i]
             \/ i - r \in 1 .. k /\ d[i] = b[i - r]
             \/ i - (r + k) \in 1 .. o /\ d[i] = c[i - (r + k)]
  BY ONLY <1>1, <1>2, <1>3, r \in Nat, k \in Nat, o \in Nat
<1>4. ASSUME NEW i \in 1 .. r
      PROVE  d[i] = a[i]
  BY ONLY <1>1, <1>2, <1>4, r \in Nat, k \in Nat, o \in Nat
<1>5. ASSUME NEW i \in 1 .. k
      PROVE  d[i + r] = b[i]
  <2>1. i + r \in 1 .. r + k /\ i + r \in 1 .. r + k + o /\ ~ (i + r <= r) /\ i + r - r = i
    BY ONLY <1>5, r \in Nat, k \in Nat, o \in Nat
  <2> QED
    BY ONLY <1>1, <1>2, <2>1, r \in Nat, k \in Nat
<1>6. ASSUME NEW i \in 1 .. o
      PROVE  d[i + (r + k)] = c[i]
  <2>1. /\ i + (r + k) \in 1 .. r + k + o /\ ~ (i + (r + k) <= r + k)
        /\ i + (r + k) - (r + k) = i
    BY ONLY <1>6, r \in Nat, k \in Nat, o \in Nat
  <2> QED
    BY ONLY <1>2, <2>1, r \in Nat, k \in Nat
<1> QED
  BY <1>2, <1>3, <1>4, <1>5, <1>6 DEF d, ab, InParts

\* The differences, one by one: the name first, then the players, and the owner last.
LEMMA DifferencesAre ==
  ASSUME Types, NEW t \in Tribe, NEW new \in Data, new.owner \in new.members,
         ~IsCreated(t, new),
         NEW joined \in SetToSeqs(new.members \ tribes[t].members)
  PROVE  LET d == Differences(t, new, joined)
         IN  /\ d \in Seq(Message) /\ Len(d) \in Nat
             /\ \A i \in 1 .. Len(d) :
                  /\ d[i].tribe = t /\ d[i].type \in Changes
                  /\ d[i].type = "tribe_change_name" =>
                       i = 1 /\ d[i].name = new.name /\ tribes[t].name # new.name
                  /\ d[i].type = "tribe_set_owner" =>
                       /\ i = Len(d) /\ d[i].player = new.owner
                       /\ tribes[t].owner # new.owner
                  /\ d[i].type = "tribe_add_player" =>
                       d[i].player \in new.members \ tribes[t].members
                  /\ \A j \in 1 .. Len(d) :
                       /\ d[i].type = "tribe_add_player" /\ d[j].type = "tribe_add_player"
                       /\ i # j
                       => d[i].player # d[j].player
             /\ \A p \in new.members \ tribes[t].members : \E i \in 1 .. Len(d) :
                  d[i].type = "tribe_add_player" /\ d[i].player = p
             /\ tribes[t].name # new.name =>
                  Len(d) > 0 /\ d[1].type = "tribe_change_name"
             /\ tribes[t].owner # new.owner =>
                  Len(d) > 0 /\ d[Len(d)].type = "tribe_set_owner"
<1> DEFINE a == Renamed(t, new)
           b == Joined(t, joined)
           c == NewOwner(t, new)
           d == Differences(t, new, joined)
           renamed == tribes[t].name # new.name
           owned == tribes[t].owner # new.owner
<1>1. d = (a \o b) \o c
  <2>1. d = a \o b \o c
    BY DEF Differences
  <2> QED
    BY <2>1
<1>2. /\ new.members \in SUBSET Player /\ new.owner \in Player /\ new.name \in Name
  BY DEF Data
<1>3. /\ a \in Seq(Message) /\ Len(a) = (IF renamed THEN 1 ELSE 0)
      /\ renamed => a[1] = ChangeName(t, new.name)
  <2>1. ChangeName(t, new.name) \in Message
    BY <1>2 DEF ChangeName, Message
  <2> QED
    BY <2>1 DEF Renamed, When
<1>4. /\ c \in Seq(Message) /\ Len(c) = (IF owned THEN 1 ELSE 0)
      /\ owned => c[1] = SetOwner(t, new.owner)
  <2>1. SetOwner(t, new.owner) \in Message
    BY <1>2 DEF SetOwner, Message
  <2> QED
    BY <2>1 DEF NewOwner, When
<1>5. /\ joined \in Seq(Player) /\ Len(joined) \in Nat
      /\ \A i \in 1 .. Len(joined) : joined[i] \in new.members \ tribes[t].members
      /\ \A i, j \in 1 .. Len(joined) : i # j => joined[i] # joined[j]
      /\ \A p \in new.members \ tribes[t].members : \E i \in 1 .. Len(joined) : joined[i] = p
  <2>1. new.members \ tribes[t].members \in SUBSET Player
    BY <1>2
  <2> QED
    BY <2>1, EachJoins
<1>6. /\ b \in Seq(Message) /\ Len(b) = Len(joined)
      /\ \A i \in 1 .. Len(joined) : b[i] = AddPlayer(t, joined[i])
  <2>1. DOMAIN joined = 1 .. Len(joined)
    BY <1>5
  <2>2. \A i \in 1 .. Len(joined) : AddPlayer(t, joined[i]) \in Message
    BY <1>5 DEF AddPlayer, Message
  <2>3. b \in [1 .. Len(joined) -> Message]
    BY <2>1, <2>2 DEF Joined
  <2> QED
    BY <1>5, <2>1, <2>3 DEF Joined
<1>7. PICK r \in 0 .. 1 : r = Len(a) /\ r = (IF renamed THEN 1 ELSE 0)
  BY <1>3
<1>8. PICK o \in 0 .. 1 : o = Len(c) /\ o = (IF owned THEN 1 ELSE 0)
  BY <1>4
<1>9. PICK k \in Nat : k = Len(joined)
  BY <1>5
<1>10. /\ d \in Seq(Message) /\ Len(d) = r + k + o /\ Len(d) \in Nat
       /\ \A i \in 1 .. r + k + o :
            \/ i \in 1 .. r /\ d[i] = a[i]
            \/ i - r \in 1 .. k /\ d[i] = b[i - r]
            \/ i - (r + k) \in 1 .. o /\ d[i] = c[i - (r + k)]
       /\ \A i \in 1 .. r : d[i] = a[i]
       /\ \A i \in 1 .. k : d[i + r] = b[i]
       /\ \A i \in 1 .. o : d[i + (r + k)] = c[i]
  <2> HIDE DEF a, b, c, d
  <2>1. r \in Nat /\ o \in Nat /\ k = Len(b)
    BY <1>6, <1>9
  <2>2. InParts((a \o b) \o c, a, b, c, r, k, o)
    <3>1. a \in Seq(Message) /\ b \in Seq(Message) /\ c \in Seq(Message)
      BY <1>3, <1>4, <1>6
    <3>2. r = Len(a) /\ k = Len(b) /\ o = Len(c)
      BY <1>7, <1>8, <2>1
    <3> QED
      BY ONLY <2>1, <3>1, <3>2, k \in Nat, ThreeParts
  <2>3. r + k + o \in Nat
    OBVIOUS
  <2> QED
    BY ONLY <1>1, <2>2, <2>3 DEF InParts
<1> HIDE DEF a, b, c, d, renamed, owned
<1>11. ASSUME NEW i \in 1 .. Len(d)
       PROVE  \/ i = 1 /\ renamed /\ d[i] = ChangeName(t, new.name)
              \/ i - r \in 1 .. k /\ d[i] = AddPlayer(t, joined[i - r])
              \/ i = Len(d) /\ owned /\ d[i] = SetOwner(t, new.owner)
  <2>1. CASE i \in 1 .. r /\ d[i] = a[i]
    <3>1. i = 1 /\ renamed
      BY ONLY <1>7, <2>1
    <3> QED
      BY <1>3, <2>1, <3>1
  <2>2. CASE i - r \in 1 .. k /\ d[i] = b[i - r]
    BY <1>6, <1>9, <2>2
  <2>3. CASE i - (r + k) \in 1 .. o /\ d[i] = c[i - (r + k)]
    <3>1. i - (r + k) = 1 /\ owned /\ o = 1
      BY ONLY <1>8, <2>3, r \in 0 .. 1, k \in Nat, i \in 1 .. Len(d), <1>10
    <3>2. i = Len(d)
      BY ONLY <3>1, r \in 0 .. 1, k \in Nat, i \in 1 .. Len(d), <1>10
    <3> QED
      BY <1>4, <2>3, <3>1, <3>2
  <2> QED
    BY <1>10, <2>1, <2>2, <2>3
<1>12. ASSUME NEW i \in 1 .. Len(d)
       PROVE  /\ d[i].tribe = t /\ d[i].type \in Changes
              /\ d[i].type = "tribe_change_name" => i = 1 /\ d[i].name = new.name /\ renamed
              /\ d[i].type = "tribe_set_owner" =>
                   i = Len(d) /\ d[i].player = new.owner /\ owned
              /\ d[i].type = "tribe_add_player" =>
                   i - r \in 1 .. k /\ d[i].player = joined[i - r]
  <2>1. CASE i = 1 /\ renamed /\ d[i] = ChangeName(t, new.name)
    BY ONLY <2>1 DEF ChangeName, Changes
  <2>2. CASE i - r \in 1 .. k /\ d[i] = AddPlayer(t, joined[i - r])
    BY ONLY <2>2 DEF AddPlayer, Changes
  <2>3. CASE i = Len(d) /\ owned /\ d[i] = SetOwner(t, new.owner)
    BY ONLY <2>3 DEF SetOwner, Changes
  <2> QED
    BY <1>11, <2>1, <2>2, <2>3
<1>13. renamed => Len(d) > 0 /\ d[1].type = "tribe_change_name"
  <2> SUFFICES ASSUME renamed PROVE Len(d) > 0 /\ d[1].type = "tribe_change_name"
    OBVIOUS
  <2>1. r = 1 /\ 1 \in 1 .. r /\ Len(d) > 0
    BY ONLY renamed, <1>7, <1>10, k \in Nat, o \in 0 .. 1
  <2>2. d[1] = ChangeName(t, new.name)
    BY <1>3, <1>10, <2>1
  <2> QED
    BY <2>1, <2>2 DEF ChangeName
<1>14. owned => Len(d) > 0 /\ d[Len(d)].type = "tribe_set_owner"
  <2> SUFFICES ASSUME owned PROVE Len(d) > 0 /\ d[Len(d)].type = "tribe_set_owner"
    OBVIOUS
  <2>1. o = 1 /\ 1 \in 1 .. o /\ Len(d) > 0 /\ Len(d) = 1 + (r + k)
    BY ONLY owned, <1>8, <1>10, k \in Nat, r \in 0 .. 1
  <2>2. d[Len(d)] = SetOwner(t, new.owner)
    BY <1>4, <1>10, <2>1
  <2> QED
    BY <2>1, <2>2 DEF SetOwner
<1>15. ASSUME NEW i \in 1 .. Len(d), NEW j \in 1 .. Len(d), i # j,
              d[i].type = "tribe_add_player", d[j].type = "tribe_add_player"
       PROVE  d[i].player # d[j].player
  <2>1. i - r # j - r /\ i - r \in 1 .. k /\ j - r \in 1 .. k
    BY <1>12, <1>15
  <2>2. d[i].player = joined[i - r] /\ d[j].player = joined[j - r]
    BY <1>12, <1>15
  <2> QED
    BY <1>5, <1>9, <2>1, <2>2
<1>16. ASSUME NEW p \in new.members \ tribes[t].members
       PROVE  \E i \in 1 .. Len(d) : d[i].type = "tribe_add_player" /\ d[i].player = p
  <2>1. PICK i \in 1 .. k : joined[i] = p
    BY <1>5, <1>9
  <2>2. i + r \in 1 .. Len(d)
    BY ONLY <1>10, i \in 1 .. k, r \in 0 .. 1, o \in 0 .. 1, k \in Nat
  <2>3. d[i + r] = AddPlayer(t, p)
    <3>1. b[i] = AddPlayer(t, joined[i])
      BY <1>6, <1>9, <2>1
    <3> QED
      BY <1>10, <2>1, <3>1
  <2> QED
    BY <2>2, <2>3 DEF AddPlayer
<1>17. \A i \in 1 .. Len(d) :
         d[i].type = "tribe_add_player" => d[i].player \in new.members \ tribes[t].members
  <2> SUFFICES ASSUME NEW i \in 1 .. Len(d), d[i].type = "tribe_add_player"
               PROVE  d[i].player \in new.members \ tribes[t].members
    OBVIOUS
  <2>1. i - r \in 1 .. Len(joined) /\ d[i].player = joined[i - r]
    BY <1>9, <1>12
  <2> QED
    BY <1>5, <2>1
<1>18. \A i \in 1 .. Len(d) :
         /\ d[i].tribe = t /\ d[i].type \in Changes
         /\ d[i].type = "tribe_change_name" => i = 1 /\ d[i].name = new.name /\ renamed
         /\ d[i].type = "tribe_set_owner" => i = Len(d) /\ d[i].player = new.owner /\ owned
         /\ d[i].type = "tribe_add_player" =>
              d[i].player \in new.members \ tribes[t].members
         /\ \A j \in 1 .. Len(d) :
              /\ d[i].type = "tribe_add_player" /\ d[j].type = "tribe_add_player" /\ i # j
              => d[i].player # d[j].player
  <2> SUFFICES ASSUME NEW i \in 1 .. Len(d)
               PROVE  /\ d[i].tribe = t /\ d[i].type \in Changes
                      /\ d[i].type = "tribe_change_name" =>
                           i = 1 /\ d[i].name = new.name /\ renamed
                      /\ d[i].type = "tribe_set_owner" =>
                           i = Len(d) /\ d[i].player = new.owner /\ owned
                      /\ d[i].type = "tribe_add_player" =>
                           d[i].player \in new.members \ tribes[t].members
                      /\ \A j \in 1 .. Len(d) :
                           /\ d[i].type = "tribe_add_player"
                           /\ d[j].type = "tribe_add_player" /\ i # j
                           => d[i].player # d[j].player
    OBVIOUS
  <2> QED
    BY <1>12, <1>15, <1>17
<1> QED
  BY ONLY <1>10, <1>13, <1>14, <1>16, <1>18 DEF d, renamed, owned

-----------------------------------------------------------------------------
(* The invariant holds initially and is preserved by every action.          *)

\* There is no tribe at first, and nothing has been said.
LEMMA InitInv == Init => IInv
<1> SUFFICES ASSUME Init PROVE IInv
  OBVIOUS
<1>1. log = << >> /\ leaving = << >> /\ Len(log) = 0 /\ Len(leaving) = 0
  BY DEF Init
<1>2. \A t \in Tribe : tribes[t] = Absent /\ view[t] = Absent /\ tribes[t].members = {}
  BY DEF Init, Absent
<1>3. Types
  <2>1. << >> \in Seq(Message) /\ << >> \in Seq(Tribe \X Player)
    BY EmptySeq
  <2> QED
    BY <1>1, <2>1 DEF Init, Types
<1>4. OneCall /\ ServerKeeps /\ OwnerIsMember
  BY <1>1, <1>2 DEF OneCall, ServerKeeps, OwnerIsMember
<1>5. \A t \in Tribe : Followed(t)
  BY <1>1, <1>2 DEF Followed, About, Settled
<1> QED
  BY <1>3, <1>4, <1>5 DEF IInv

\* The parts of the types.
LEMMA Parts ==
  ASSUME Types
  PROVE  /\ \A t \in Tribe : /\ tribes[t] \in Data \/ tribes[t] = Absent
                             /\ tribes[t].members \in SUBSET Player
                             /\ view[t] \in Seen \/ view[t] = Absent
                             /\ view[t] # Absent => view[t] \in Seen
         /\ Absent.members = {} /\ Absent \notin Seen
         /\ Len(log) \in Nat /\ \A i \in 1 .. Len(log) : log[i] \in Message
         /\ log = << >> <=> Len(log) = 0
         /\ leaving # << >> => Len(leaving) = 1 /\ leaving[1] \in Tribe \X Player
<1>1. Absent.members = {} /\ Absent \notin Seen
  BY TribeAssumption DEF Absent, Seen
<1>2. ASSUME NEW t \in Tribe
      PROVE  /\ tribes[t] \in Data \/ tribes[t] = Absent
             /\ tribes[t].members \in SUBSET Player
             /\ view[t] \in Seen \/ view[t] = Absent
  <2>1. /\ tribes[t] \in Data \/ tribes[t] = Absent
        /\ view[t] \in Seen \/ view[t] = Absent
    BY DEF Types
  <2> QED
    BY <1>1, <2>1 DEF Data
<1>3. Len(log) \in Nat /\ (log = << >> <=> Len(log) = 0)
  BY LenProperties, EmptySeq DEF Types
<1>4. \A i \in 1 .. Len(log) : log[i] \in Message
  BY DEF Types
<1>5. leaving # << >> => Len(leaving) = 1 /\ leaving[1] \in Tribe \X Player
  <2>1. leaving \in Seq(Tribe \X Player) /\ Len(leaving) <= 1
    BY DEF Types
  <2>2. Len(leaving) \in Nat /\ (leaving = << >> <=> Len(leaving) = 0)
    BY <2>1, LenProperties, EmptySeq
  <2>3. leaving # << >> => Len(leaving) = 1 /\ 1 \in 1 .. Len(leaving)
    <3>1. ASSUME NEW n \in Nat, n <= 1, n # 0
          PROVE  n = 1 /\ 1 \in 1 .. n
      BY <3>1
    <3>2. leaving # << >> => Len(leaving) # 0
      BY <2>2, Zenon
    <3> QED
      BY <2>1, <2>2, <3>1, <3>2, Zenon
  <2> QED
    BY <2>1, <2>3, ElementOfSeq
<1> QED
  BY <1>1, <1>2, <1>3, <1>4, <1>5

\* While the reader has nothing to read it has every tribe as it is.
LEMMA AllSettled ==
  ASSUME IInv, log = << >>, NEW t \in Tribe, t \notin unseen
  PROVE  Settled(t, Staying(t))
<1>1. ~About(t)
  BY Parts DEF IInv, About
<1> QED
  BY <1>1 DEF IInv, Followed

\* A call about one tribe leaves the others.
LEMMA OthersFollowed ==
  ASSUME IInv, log = << >>, view' = view,
         NEW t \in Tribe, \A i \in 1 .. Len(log') : log'[i].tribe = t,
         NEW u \in Tribe, u # t, u \notin unseen,
         tribes'[u] = tribes[u], Staying(u)' = Staying(u)
  PROVE  Followed(u)'
<1>1. Settled(u, Staying(u))
  BY AllSettled
<1>2. ~About(u)'
  BY DEF About
<1>3. Settled(u, Staying(u))'
  BY <1>1 DEF Settled, With
<1> QED
  BY <1>2, <1>3 DEF Followed

\* What is left to show of a call of the server about one tribe: its types, what it logs,
\* and that the reader will follow.
LEMMA CallInvariant ==
  ASSUME IInv, log = << >>, view' = view, Types', NEW t \in Tribe,
         \A i \in 1 .. Len(log') : log'[i].tribe = t,
         \A u \in Tribe : u # t => tribes'[u] = tribes[u] /\ Staying(u)' = Staying(u),
         tribes'[t].members # {} => tribes'[t].owner \in tribes'[t].members,
         \A i \in 1 .. Len(log') : log'[i].type = "tribe_remove" => tribes'[t] = Absent,
         unseen \subseteq unseen', OneCall', t \in unseen' \/ Followed(t)'
  PROVE  IInv'
<1>1. ServerKeeps'
  BY DEF IInv, ServerKeeps
<1>2. OwnerIsMember'
  BY DEF IInv, OwnerIsMember
<1>3. ASSUME NEW u \in Tribe \ unseen'
      PROVE  Followed(u)'
  BY OthersFollowed
<1> QED
  BY <1>1, <1>2, <1>3 DEF IInv

\* The server makes a tribe without players.
LEMMA AddNewTribeInvariant ==
  ASSUME IInv, NEW t \in Tribe, AddNewTribe(t)
  PROVE  IInv'
<1>1. PICK n \in Name :
        tribes' = [tribes EXCEPT ![t] = [members |-> {}, owner |-> NoPlayer, name |-> n]]
  BY DEF AddNewTribe
<1>2. /\ log = << >> /\ log' = << >> /\ UNCHANGED <<leaving, view, hooked>>
      /\ unseen' = unseen \/ unseen' = unseen \cup {t}
      /\ tribes[t] = Absent
  BY DEF AddNewTribe, Logged
<1>3. /\ tribes'[t] = [members |-> {}, owner |-> NoPlayer, name |-> n]
      /\ \A u \in Tribe : u # t => tribes'[u] = tribes[u]
  BY <1>1 DEF IInv, Types
<1>4. Types'
  <2>1. [members |-> {}, owner |-> NoPlayer, name |-> n] \in Data
    BY DEF Data
  <2> QED
    BY <1>1, <1>2, <2>1 DEF IInv, Types
<1>5. OneCall' /\ Len(log') = 0
  BY <1>2 DEF OneCall
<1>6. \A u \in Tribe : Staying(u)' = Staying(u)
  BY <1>2 DEF Staying
<1>7. ASSUME t \notin unseen
      PROVE  Followed(t)'
  <2>1. view[t] = Absent
    BY <1>2, <1>7, AllSettled, Parts DEF Settled, IInv
  <2> QED
    BY <1>2, <1>3, <1>5, <2>1 DEF Followed, About, Settled
<1> QED
  BY <1>2, <1>3, <1>4, <1>5, <1>6, <1>7, CallInvariant

\* A player's leave begins: he is still there.
LEMMA RemovePlayerInvariant ==
  ASSUME IInv, NEW t \in Tribe, NEW p \in Player, RemovePlayerFromTribe(t, p)
  PROVE  IInv'
<1>1. /\ log = << >> /\ leaving = << >> /\ p \in tribes[t].members
      /\ leaving' = <<(<<t, p>>)>> /\ UNCHANGED <<tribes, log, view, hooked, unseen>>
  BY DEF RemovePlayerFromTribe
<1>2. Types'
  <2>1. leaving' \in Seq(Tribe \X Player) /\ Len(leaving') <= 1
    BY <1>1
  <2> QED
    BY <1>1, <2>1 DEF IInv, Types
<1>3. OneCall' /\ Len(log') = 0
  BY <1>1 DEF OneCall
<1>4. /\ \A u \in Tribe : u # t => Staying(u)' = Staying(u)
      /\ Staying(t)' = {p} /\ Staying(t) = {}
  BY <1>1 DEF Staying
<1>5. ASSUME t \notin unseen
      PROVE  Followed(t)'
  <2>1. view[t] = With(t, {})
    BY <1>1, <1>4, <1>5, AllSettled DEF Settled
  <2>2. With(t, {}) = With(t, {p})
    BY <1>1 DEF With
  <2>3. Settled(t, {p})
    BY <1>1, <2>1, <2>2 DEF Settled
  <2>4. Settled(t, Staying(t))'
    BY <1>1, <1>4, <2>3 DEF Settled, With
  <2> QED
    BY <1>3, <2>4 DEF Followed, About
<1> QED
  BY <1>1, <1>2, <1>3, <1>4, <1>5, CallInvariant DEF IInv, ServerKeeps

\* What the reader has of a tribe depends on nothing else.
LEMMA FollowedStays ==
  ASSUME NEW u \in Tribe, Followed(u), tribes'[u] = tribes[u], UNCHANGED <<log, view, leaving>>
  PROVE  Followed(u)'
<1>1. /\ About(u)' <=> About(u)
      /\ Staying(u)' = Staying(u) /\ Upcoming' = Upcoming
  BY DEF About, Staying, Upcoming
<1>2. Created(u) => Created(u)'
  BY DEF Created
<1>3. ASSUME NEW players
      PROVE  Settled(u, players) => Settled(u, players)'
  BY DEF Settled, With
<1>4. HasLeft(u) => HasLeft(u)'
  BY <1>3 DEF HasLeft
<1>5. Changed(u) => Changed(u)'
  BY <1>1 DEF Changed
<1>6. Settled(u, Staying(u)) => Settled(u, Staying(u))'
  BY <1>1 DEF Settled, With
<1> QED
  BY <1>1, <1>2, <1>4, <1>5, <1>6 DEF Followed

\* The plugin goes, comes back, or comes back when a tribe is removed.
LEMMA LoadInvariant ==
  ASSUME IInv, \/ Unload \/ Load \/ \E t \in Tribe : LoadRemoves(t)
  PROVE  IInv'
<1>1. CASE Unload \/ Load
  <2>1. Types'
    BY <1>1 DEF IInv, Types, Unload, Load
  <2>2. UNCHANGED <<tribes, leaving, log, view, unseen>>
    BY <1>1 DEF Unload, Load
  <2>3. OneCall' /\ ServerKeeps' /\ OwnerIsMember'
    BY <2>2 DEF IInv, OneCall, ServerKeeps, OwnerIsMember
  <2>4. \A u \in Tribe \ unseen' : Followed(u)'
    BY <2>2, FollowedStays DEF IInv
  <2> QED
    BY <2>1, <2>3, <2>4 DEF IInv
<1>2. ASSUME NEW t \in Tribe, LoadRemoves(t)
      PROVE  IInv'
  <2>1. /\ tribes' = [tribes EXCEPT ![t] = Absent] /\ hooked' = TRUE
        /\ UNCHANGED <<leaving, view, log>> /\ unseen' = unseen \cup {t}
    BY <1>2 DEF LoadRemoves, Logged
  <2>2. Types'
    BY <2>1 DEF IInv, Types
  <2>3. tribes'[t] = Absent /\ \A u \in Tribe : u # t => tribes'[u] = tribes[u]
    BY <2>1 DEF IInv, Types
  <2>4. /\ OneCall' /\ ServerKeeps' /\ OwnerIsMember'
    BY <2>1, <2>3, Parts DEF IInv, OneCall, ServerKeeps, OwnerIsMember
  <2>5. ASSUME NEW u \in Tribe \ unseen'
        PROVE  Followed(u)'
    <3>1. Followed(u) /\ tribes'[u] = tribes[u]
      BY <2>1, <2>3 DEF IInv
    <3> QED
      BY <2>1, <3>1, FollowedStays
  <2> QED
    BY <2>2, <2>4, <2>5 DEF IInv
<1> QED
  BY <1>1, <1>2

\* One message, or none.
LEMMA OneMessage ==
  ASSUME NEW m \in Message, NEW s, s = <<m>> \/ s = << >>
  PROVE  s \in Seq(Message) /\ \A i \in 1 .. Len(s) : i = 1 /\ Len(s) = 1 /\ s[i] = m
<1>1. CASE s = <<m>>
  <2>1. s \in Seq(Message) /\ Len(s) = 1 /\ s[1] = m
    BY <1>1
  <2> QED
    BY <2>1
<1>2. CASE s = << >>
  <2>1. s \in Seq(Message) /\ Len(s) = 0
    BY <1>2, EmptySeq
  <2> QED
    BY <2>1
<1> QED
  BY <1>1, <1>2

\* A tribe is removed: whatever the reader had of it, it will have nothing.
LEMMA RemoveTribeInvariant ==
  ASSUME IInv, NEW t \in Tribe, RemoveTribe(t)
  PROVE  IInv'
<1> DEFINE m == RemoveMessage(t)
<1>1. /\ log = << >> /\ tribes' = [tribes EXCEPT ![t] = Absent]
      /\ UNCHANGED <<leaving, view, hooked>>
      /\ \/ log' = <<m>> /\ unseen' = unseen
         \/ log' = << >> /\ unseen' = unseen \cup {t}
  BY DEF RemoveTribe, Logged
<1>2. m \in Message /\ m.tribe = t /\ m.type = "tribe_remove"
  BY DEF RemoveMessage, Message
<1> HIDE DEF m
<1>3. log' \in Seq(Message) /\ \A i \in 1 .. Len(log') : i = 1 /\ Len(log') = 1 /\ log'[i] = m
  BY <1>1, <1>2, OneMessage
<1>4. tribes'[t] = Absent /\ \A u \in Tribe : u # t => tribes'[u] = tribes[u]
  BY <1>1 DEF IInv, Types
<1>5. Types'
  <2>1. unseen' \subseteq Tribe
    BY <1>1 DEF IInv, Types
  <2> QED
    BY <1>1, <1>3, <2>1 DEF IInv, Types
<1>6. OneCall'
  BY <1>2, <1>3 DEF OneCall
<1>7. \A u \in Tribe : Staying(u)' = Staying(u)
  BY <1>1 DEF Staying
<1>8. t \in unseen' \/ Followed(t)'
  <2> SUFFICES ASSUME log' = <<m>>
               PROVE  Followed(t)'
    BY <1>1
  <2>1. log'[1].type = "tribe_remove" /\ Len(log') = 1 /\ log'[1].tribe = t
    BY <1>2
  <2> QED
    BY <2>1 DEF Followed, About, Created, HasLeft, Changed, Changes
<1>9. \A i \in 1 .. Len(log') : log'[i].tribe = t
  BY <1>2, <1>3
<1>10. tribes'[t].members = {} /\ unseen \subseteq unseen'
  BY <1>1, <1>4 DEF Absent
<1> QED
  BY <1>1, <1>4, <1>5, <1>6, <1>7, <1>8, <1>9, <1>10, CallInvariant

\* The leave of a player has returned, and is said.
LEMMA ReturnInvariant ==
  ASSUME IInv, RemovePlayerReturns
  PROVE  IInv'
<1>1. leaving # << >> /\ Len(leaving) = 1 /\ leaving[1] \in Tribe \X Player
  BY Parts DEF IInv, RemovePlayerReturns
<1>2. PICK t \in Tribe, p \in Player : leaving[1] = <<t, p>>
  BY <1>1
<1>3. Last(leaving) = <<t, p>> /\ leaving' = << >>
  <2>1. Last(leaving) = leaving[1]
    BY <1>1 DEF Last
  <2>2. Front(leaving) = << >>
    BY <1>1 DEF Front
  <2> QED
    BY <1>2, <2>1, <2>2 DEF RemovePlayerReturns
<1> DEFINE m == RemovePlayer(t, p)
<1>4. /\ log = << >> /\ p \notin tribes[t].members /\ UNCHANGED <<tribes, view, hooked>>
      /\ \/ log' = <<m>> /\ unseen' = unseen
         \/ log' = << >> /\ unseen' = unseen \cup {t}
  BY <1>3 DEF RemovePlayerReturns, Logged
<1>5. m \in Message /\ m.tribe = t /\ m.type = "tribe_remove_player" /\ m.player = p
  BY DEF RemovePlayer, Message
<1> HIDE DEF m
<1>6. log' \in Seq(Message) /\ \A i \in 1 .. Len(log') : i = 1 /\ Len(log') = 1 /\ log'[i] = m
  BY <1>4, <1>5, OneMessage
<1>7. Types'
  <2>1. leaving' \in Seq(Tribe \X Player) /\ Len(leaving') <= 1
    BY <1>3, EmptySeq
  <2>2. unseen' \subseteq Tribe
    BY <1>4 DEF IInv, Types
  <2> QED
    BY <1>4, <1>6, <2>1, <2>2 DEF IInv, Types
<1>8. OneCall'
  BY <1>5, <1>6 DEF OneCall
<1>9. /\ \A u \in Tribe : u # t => Staying(u)' = Staying(u)
      /\ Staying(t) = {p}
  BY <1>1, <1>2, <1>3 DEF Staying
<1>10. t \in unseen' \/ Followed(t)'
  <2> SUFFICES ASSUME log' = <<m>>, t \notin unseen
               PROVE  Followed(t)'
    BY <1>4
  <2>1. /\ log'[1].type = "tribe_remove_player" /\ Len(log') = 1 /\ log'[1].tribe = t
        /\ log'[1].player = p
    BY <1>5
  <2>2. Settled(t, {p})
    BY <1>4, <1>9, AllSettled
  <2>3. Settled(t, {log[1].player})'
    BY <1>4, <2>1, <2>2 DEF Settled, With
  <2>4. About(t)' /\ HasLeft(t)'
    BY <1>3, <1>4, <2>1, <2>3 DEF About, HasLeft
  <2>5. Created(t)' /\ Changed(t)'
    BY <2>1 DEF Created, Changed, Changes
  <2> QED
    BY <2>4, <2>5 DEF Followed
<1>11. \A i \in 1 .. Len(log') : log'[i].tribe = t /\ log'[i].type # "tribe_remove"
  BY <1>5, <1>6
<1>12. /\ tribes'[t].members # {} => tribes'[t].owner \in tribes'[t].members
       /\ unseen \subseteq unseen'
  BY <1>4 DEF IInv, ServerKeeps
<1> QED
  BY <1>4, <1>7, <1>8, <1>9, <1>10, <1>11, <1>12, CallInvariant

\* The first player of a tribe makes it for the reader.
LEMMA FirstPlayer ==
  ASSUME Types, NEW t \in Tribe, NEW new \in Data, IsCreated(t, new)
  PROVE  \E p \in Player : /\ new.members = {p}
                           /\ (CHOOSE q \in new.members : TRUE) = p
<1>1. new.members \in SUBSET Player /\ Cardinality(new.members) = 1
  BY DEF IsCreated, Data
<1>2. IsFiniteSet(new.members)
  BY <1>1, FS_Subset, TribeAssumption
<1>3. PICK p : new.members = {p}
  BY <1>1, <1>2, FS_Singleton
<1> QED
  BY <1>1, <1>3

\* A call on a tribe that has players leaves those who stay and adds those who come.
LEMMA ServerCalls ==
  ASSUME IInv, log = << >>, NEW t \in Tribe, NEW new \in Data, new.owner \in new.members,
         MayBecome(t, new.members)
  PROVE  /\ IsCreated(t, new) => leaving = << >>
         /\ ~IsCreated(t, new) =>
              /\ tribes[t].members # {}
              /\ new.members \cup Staying(t)
                   = tribes[t].members \cup Staying(t) \cup (new.members \ tribes[t].members)
              /\ (new.members \ tribes[t].members) \cap Staying(t) = {}
<1>1. CASE leaving = << >>
  <2>1. Staying(t) = {}
    BY <1>1 DEF Staying
  <2> QED
    BY <1>1, <2>1 DEF MayBecome, IsCreated
<1>2. CASE leaving # << >>
  <2>1. Len(leaving) = 1 /\ leaving[1] \in Tribe \X Player /\ Last(leaving) = leaving[1]
    BY <1>2, Parts DEF IInv, Last
  <2>2. /\ t = leaving[1][1]
        /\ new.members = tribes[t].members \ {leaving[1][2]}
    BY <1>2, <2>1 DEF MayBecome
  <2>3. Staying(t) = {leaving[1][2]}
    BY <1>2, <2>1, <2>2 DEF Staying
  <2>4. tribes[t].members # {}
    BY <2>2
  <2> QED
    BY <2>2, <2>3, <2>4 DEF IsCreated
<1> QED
  BY <1>1, <1>2

\* The reader will follow a creation,
LEMMA CreateFollowed ==
  ASSUME IInv, log = << >>, NEW t \in Tribe, t \notin unseen, NEW new \in Data,
         new.owner \in new.members, MayBecome(t, new.members), IsCreated(t, new),
         log' = Differences(t, new, <<>>), tribes'[t] = new, UNCHANGED <<leaving, view>>
  PROVE  Followed(t)'
<1>1. PICK p \in Player : /\ new.members = {p}
                          /\ (CHOOSE q \in new.members : TRUE) = p
  BY FirstPlayer DEF IInv
<1>2. log' = <<Create(t, p, new.name)>>
  BY <1>1 DEF Differences
<1>3. /\ log'[1].type = "tribe_create" /\ log'[1].tribe = t /\ Len(log') = 1
      /\ log'[1].player = p /\ log'[1].name = new.name
  BY <1>2 DEF Create
<1>4. view[t] = Absent
  BY AllSettled DEF Settled, IsCreated
<1>5. new = [members |-> {p}, owner |-> p, name |-> new.name]
  BY <1>1 DEF Data
<1>6. Created(t)'
  BY <1>3, <1>4, <1>5, ServerCalls DEF Created
<1>7. HasLeft(t)' /\ Changed(t)' /\ About(t)'
  BY <1>3 DEF HasLeft, Changed, Changes, About
<1> QED
  BY <1>6, <1>7 DEF Followed

\* and it will follow any other change.
LEMMA ChangeFollowed ==
  ASSUME IInv, log = << >>, NEW t \in Tribe, t \notin unseen, NEW new \in Data,
         new.owner \in new.members, MayBecome(t, new.members), ~IsCreated(t, new),
         NEW joined \in SetToSeqs(new.members \ tribes[t].members),
         log' = Differences(t, new, joined), tribes'[t] = new, UNCHANGED <<leaving, view>>
  PROVE  Followed(t)'
<1> DEFINE S == new.members \ tribes[t].members
<1>1. /\ Len(log') \in Nat
      /\ \A i \in 1 .. Len(log') :
           /\ log'[i].tribe = t /\ log'[i].type \in Changes
           /\ log'[i].type = "tribe_change_name" =>
                i = 1 /\ log'[i].name = new.name /\ tribes[t].name # new.name
           /\ log'[i].type = "tribe_set_owner" =>
                /\ i = Len(log') /\ log'[i].player = new.owner
                /\ tribes[t].owner # new.owner
           /\ log'[i].type = "tribe_add_player" => log'[i].player \in S
      /\ \A p \in S : \E i \in 1 .. Len(log') :
           log'[i].type = "tribe_add_player" /\ log'[i].player = p
      /\ tribes[t].name # new.name => Len(log') > 0 /\ log'[1].type = "tribe_change_name"
      /\ tribes[t].owner # new.owner =>
           Len(log') > 0 /\ log'[Len(log')].type = "tribe_set_owner"
  BY DifferencesAre DEF IInv
<1>2. /\ tribes[t].members # {}
      /\ new.members \cup Staying(t) = tribes[t].members \cup Staying(t) \cup S
      /\ S \cap Staying(t) = {}
  BY ServerCalls
<1>3. view[t] = With(t, Staying(t)) /\ Staying(t)' = Staying(t) /\ view'[t] = view[t]
  BY <1>2, AllSettled DEF Settled, Staying
<1>4. Upcoming' = S
  BY <1>1 DEF Upcoming
<1>5. /\ view[t].members = tribes[t].members \cup Staying(t)
      /\ view[t].owner = tribes[t].owner /\ view[t].name = tribes[t].name
  BY <1>3 DEF With
<1>6. CASE Len(log') = 0
  <2>1. ~About(t)'
    BY <1>6 DEF About
  <2>2. tribes[t].name = new.name /\ tribes[t].owner = new.owner /\ S = {}
    BY <1>1, <1>6
  <2>3. With(t, Staying(t))' = With(t, Staying(t))
    BY <1>2, <1>3, <2>2 DEF With
  <2>4. Settled(t, Staying(t))'
    BY <1>3, <2>3 DEF Settled
  <2> QED
    BY <2>1, <2>4 DEF Followed
<1>7. CASE Len(log') > 0
  <2>1. 1 \in 1 .. Len(log') /\ Len(log') \in 1 .. Len(log')
    BY <1>1, <1>7
  <2>2. About(t)' /\ Created(t)' /\ HasLeft(t)'
    BY <1>1, <2>1 DEF About, Created, HasLeft, Changes
  <2>3. view[t] # Absent
    BY <1>2, <1>5 DEF Absent
  <2>4. /\ view'[t].members \cup Upcoming' = new.members \cup Staying(t)
        /\ view'[t].members \cap Upcoming' = {}
    BY <1>2, <1>3, <1>4, <1>5
  <2>5. IF log'[1].type = "tribe_change_name"
        THEN log'[1].name = new.name /\ view'[t].name # new.name
        ELSE view'[t].name = new.name
    BY <1>1, <1>3, <1>5, <2>1
  <2>6. IF log'[Len(log')].type = "tribe_set_owner"
        THEN log'[Len(log')].player = new.owner /\ view'[t].owner # new.owner
        ELSE view'[t].owner = new.owner
    BY <1>1, <1>3, <1>5, <2>1
  <2>7. Changed(t)'
    BY <1>3, <2>3, <2>4, <2>5, <2>6 DEF Changed
  <2> QED
    BY <2>2, <2>7 DEF Followed
<1> QED
  BY <1>1, <1>6, <1>7

\* The server gives a tribe its first player, more players, or another owner or name.
LEMMA UpdateInvariant ==
  ASSUME IInv, NEW t \in Tribe, NEW new \in Data, UpdateTribeData(t, new)
  PROVE  IInv'
<1>1. PICK joined \in SetToSeqs(new.members \ tribes[t].members) :
        Logged(t, Differences(t, new, joined))
  BY DEF UpdateTribeData
<1> DEFINE d == Differences(t, new, joined)
<1>2. /\ log = << >> /\ new.owner \in new.members /\ MayBecome(t, new.members)
      /\ tribes' = [tribes EXCEPT ![t] = new] /\ UNCHANGED <<leaving, view, hooked>>
      /\ \/ log' = d /\ unseen' = unseen
         \/ log' = << >> /\ unseen' = unseen \cup {t}
  BY <1>1 DEF UpdateTribeData, Logged
<1>3. tribes'[t] = new /\ \A u \in Tribe : u # t => tribes'[u] = tribes[u]
  BY <1>2 DEF IInv, Types
<1>4. CASE log' = << >>
  <2>1. OneCall' /\ Len(log') = 0
    BY <1>4 DEF OneCall
  <2>2. Types'
    BY <1>2, <1>4, EmptySeq DEF IInv, Types
  <2>3. \A u \in Tribe : Staying(u)' = Staying(u)
    BY <1>2 DEF Staying
  <2>4. t \in unseen' \/ Followed(t)'
    <3> SUFFICES ASSUME log' = d, t \notin unseen
                 PROVE  Followed(t)'
      BY <1>2
    <3>1. ~IsCreated(t, new)
      <4> SUFFICES ASSUME IsCreated(t, new) PROVE FALSE
        OBVIOUS
      <4>1. d = <<Create(t, CHOOSE p \in new.members : TRUE, new.name)>>
        BY DEF Differences
      <4> HIDE DEF d
      <4>2. Len(d) = 1 /\ Len(<< >>) = 0
        BY <4>1
      <4> QED
        BY <1>4, <4>2
    <3> QED
      BY <1>2, <1>3, <3>1, ChangeFollowed
  <2> QED
    BY <1>2, <1>3, <2>1, <2>2, <2>3, <2>4, CallInvariant
<1>5. CASE log' = d /\ unseen' = unseen /\ IsCreated(t, new)
  <2>1. PICK p \in Player : /\ new.members = {p}
                            /\ (CHOOSE q \in new.members : TRUE) = p
    BY <1>5, FirstPlayer DEF IInv
  <2> DEFINE m == Create(t, p, new.name)
  <2>2. log' = <<m>> /\ log' = Differences(t, new, <<>>)
    BY <1>5, <2>1 DEF Differences
  <2>3. m \in Message /\ m.tribe = t /\ m.type = "tribe_create"
    BY DEF Create, Message, Data
  <2> HIDE DEF m
  <2>4. log' \in Seq(Message) /\ \A i \in 1 .. Len(log') : i = 1 /\ Len(log') = 1 /\ log'[i] = m
    BY <2>2, <2>3, OneMessage
  <2>5. OneCall'
    BY <2>3, <2>4 DEF OneCall
  <2>6. Types'
    BY <1>2, <1>5, <2>4 DEF IInv, Types
  <2>7. \A u \in Tribe : Staying(u)' = Staying(u)
    BY <1>2 DEF Staying
  <2>8. t \in unseen' \/ Followed(t)'
    BY <1>2, <1>3, <1>5, <2>2, CreateFollowed
  <2>9. \A i \in 1 .. Len(log') : log'[i].tribe = t /\ log'[i].type # "tribe_remove"
    BY <2>3, <2>4
  <2> QED
    BY <1>2, <1>3, <1>5, <2>5, <2>6, <2>7, <2>8, <2>9, CallInvariant
<1>6. CASE log' = d /\ unseen' = unseen /\ ~IsCreated(t, new)
  <2>1. /\ d \in Seq(Message)
        /\ \A i \in 1 .. Len(d) :
             /\ d[i].tribe = t /\ d[i].type \in Changes
             /\ d[i].type = "tribe_change_name" => i = 1
             /\ d[i].type = "tribe_set_owner" => i = Len(d)
             /\ \A j \in 1 .. Len(d) :
                  d[i].type = "tribe_add_player" /\ d[j].type = "tribe_add_player" /\ i # j
                  => d[i].player # d[j].player
    BY <1>2, <1>6, DifferencesAre DEF IInv
  <2> HIDE DEF d
  <2>2. OneCall'
    BY <1>6, <2>1 DEF OneCall
  <2>3. Types'
    BY <1>2, <1>6, <2>1 DEF IInv, Types
  <2>4. \A u \in Tribe : Staying(u)' = Staying(u)
    BY <1>2 DEF Staying
  <2>5. t \in unseen' \/ Followed(t)'
    BY <1>2, <1>3, <1>6, ChangeFollowed DEF d
  <2>6. \A i \in 1 .. Len(log') : log'[i].tribe = t /\ log'[i].type # "tribe_remove"
    BY <1>6, <2>1 DEF Changes
  <2> QED
    BY <1>2, <1>3, <1>6, <2>2, <2>3, <2>4, <2>5, <2>6, CallInvariant
<1> QED
  BY <1>2, <1>4, <1>5, <1>6

-----------------------------------------------------------------------------
(* The reader.                                                              *)

\* What the first message tells of its tribe, and that it tells nothing of others.
LEMMA ToldIs ==
  ASSUME Types, log # << >>, view' = Told(log[1]), NEW t \in Tribe, t = log[1].tribe
  PROVE  LET m == log[1]
             known == view[t] # Absent
         IN  /\ view' \in [Tribe -> Seen \cup {Absent}]
             /\ \A u \in Tribe : u # t => view'[u] = view[u]
             /\ m.type = "tribe_create" =>
                  view'[t] = [members |-> {m.player}, owner |-> m.player, name |-> m.name]
             /\ m.type = "tribe_remove" => view'[t] = Absent
             /\ m.type = "tribe_change_name" /\ known =>
                  view'[t] = [members |-> view[t].members, owner |-> view[t].owner,
                              name |-> m.name]
             /\ m.type = "tribe_add_player" /\ known =>
                  view'[t] = [members |-> view[t].members \cup {m.player},
                              owner |-> view[t].owner, name |-> view[t].name]
             /\ m.type = "tribe_remove_player" /\ known =>
                  view'[t] = [members |-> view[t].members \ {m.player},
                              owner |-> view[t].owner, name |-> view[t].name]
             /\ m.type = "tribe_set_owner" /\ known =>
                  view'[t] = [members |-> view[t].members, owner |-> m.player,
                              name |-> view[t].name]
             /\ ~known /\ m.type \notin {"tribe_create", "tribe_remove"} => view'[t] = Absent
<1> DEFINE m == log[1]
           known == view[t] # Absent
<1>1. m \in Message
  <2>1. 1 \in 1 .. Len(log)
    BY Parts
  <2> QED
    BY <2>1, Parts
<1>2. view \in [Tribe -> Seen \cup {Absent}] /\ (known => view[t] \in Seen)
  BY Parts DEF Types
<1>3. CASE m.type = "tribe_create"
  <2>1. m.player \in Player /\ m.name \in Name
    BY <1>1, <1>3 DEF Message
  <2>2. view' = [view EXCEPT ![t] = [members |-> {m.player}, owner |-> m.player,
                                     name |-> m.name]]
    BY <1>3 DEF Told
  <2> QED
    BY <1>2, <1>3, <2>1, <2>2 DEF Seen
<1>4. CASE m.type = "tribe_remove"
  <2>1. view' = [view EXCEPT ![t] = Absent]
    BY <1>4 DEF Told
  <2> QED
    BY <1>2, <1>4, <2>1
<1>5. CASE m.type = "tribe_change_name" /\ known
  <2>1. m.name \in Name
    BY <1>1, <1>5 DEF Message
  <2>2. view' = [view EXCEPT ![t].name = m.name]
    BY <1>5 DEF Told
  <2> QED
    BY <1>2, <1>5, <2>1, <2>2 DEF Seen
<1>6. CASE m.type = "tribe_add_player" /\ known
  <2>1. m.player \in Player
    BY <1>1, <1>6 DEF Message
  <2>2. view' = [view EXCEPT ![t].members = @ \cup {m.player}]
    BY <1>6 DEF Told
  <2>3. PICK players \in SUBSET Player : players = view[t].members \cup {m.player}
    BY <1>2, <1>6, <2>1 DEF Seen
  <2>4. view' = [view EXCEPT ![t].members = players]
    BY <1>2, <1>6, <2>2, <2>3
  <2>5. view'[t] = [members |-> players, owner |-> view[t].owner, name |-> view[t].name]
    BY <1>2, <1>6, <2>4 DEF Seen
  <2>6. view'[t] \in Seen
    BY <1>2, <1>6, <2>5 DEF Seen
  <2> QED
    BY <1>2, <1>6, <2>3, <2>4, <2>5, <2>6
<1>7. CASE m.type = "tribe_remove_player" /\ known
  <2>1. view' = [view EXCEPT ![t].members = @ \ {m.player}]
    BY <1>7 DEF Told
  <2>2. PICK players \in SUBSET Player : players = view[t].members \ {m.player}
    BY <1>2, <1>7 DEF Seen
  <2>3. view' = [view EXCEPT ![t].members = players]
    BY <1>2, <1>7, <2>1, <2>2
  <2>4. view'[t] = [members |-> players, owner |-> view[t].owner, name |-> view[t].name]
    BY <1>2, <1>7, <2>3 DEF Seen
  <2>5. view'[t] \in Seen
    BY <1>2, <1>7, <2>4 DEF Seen
  <2> QED
    BY <1>2, <1>7, <2>2, <2>3, <2>4, <2>5
<1>8. CASE m.type = "tribe_set_owner" /\ known
  <2>1. m.player \in Player
    BY <1>1, <1>8 DEF Message
  <2>2. view' = [view EXCEPT ![t].owner = m.player]
    BY <1>8 DEF Told
  <2> QED
    BY <1>2, <1>8, <2>1, <2>2 DEF Seen
<1>9. CASE ~known /\ m.type \notin {"tribe_create", "tribe_remove"}
  <2>1. view' = view
    BY <1>9 DEF Told
  <2> QED
    BY <1>2, <1>9, <2>1
<1>10. m.type \in {"tribe_create", "tribe_remove", "tribe_change_name", "tribe_add_player",
                   "tribe_remove_player", "tribe_set_owner"}
  BY <1>1 DEF Message
<1> QED
  BY <1>3, <1>4, <1>5, <1>6, <1>7, <1>8, <1>9, <1>10

\* The log without its first message.
LEMMA Rest ==
  ASSUME IInv, Read
  PROVE  /\ log # << >> /\ Len(log) \in Nat /\ Len(log) > 0 /\ 1 \in 1 .. Len(log)
         /\ Head(log) = log[1] /\ log[1] \in Message
         /\ log' \in Seq(Message) /\ Len(log') = Len(log) - 1 /\ Len(log') \in Nat
         /\ \A i \in 1 .. Len(log') : i + 1 \in 1 .. Len(log) /\ log'[i] = log[i + 1]
         /\ \A i \in 1 .. Len(log) : log[i].tribe = log[1].tribe
<1>1. log # << >> /\ log \in Seq(Message) /\ log' = Tail(log)
  BY DEF IInv, Types, Read
<1>2. Len(log) \in Nat /\ Len(log) > 0 /\ 1 \in 1 .. Len(log)
  BY <1>1
<1>3. Head(log) = log[1] /\ log[1] \in Message
  BY <1>1, <1>2
<1>4. log' \in Seq(Message) /\ Len(log') = Len(log) - 1 /\ Len(log') \in Nat
  BY <1>1, <1>2
<1>5. \A i \in 1 .. Len(log') : i + 1 \in 1 .. Len(log) /\ log'[i] = log[i + 1]
  BY <1>1, <1>2, <1>4
<1> QED
  BY <1>1, <1>2, <1>3, <1>4, <1>5 DEF IInv, OneCall

\* One of several differences is read.
LEMMA ChangeRead ==
  ASSUME IInv, Read, NEW t \in Tribe, t = log[1].tribe, t \notin unseen,
         log[1].type \in Changes
  PROVE  Followed(t)' /\ (view'[t] # Absent => view'[t].owner \in view'[t].members)
<1> DEFINE m == log[1]
           n == Len(log)
<1>1. /\ log # << >> /\ n \in Nat /\ n > 0 /\ 1 \in 1 .. n /\ n \in 1 .. n
      /\ Head(log) = m /\ m \in Message
      /\ Len(log') = n - 1 /\ Len(log') \in Nat
      /\ \A i \in 1 .. Len(log') : i + 1 \in 1 .. n /\ log'[i] = log[i + 1]
      /\ \A i \in 1 .. n : log[i].tribe = t
  BY Rest
<1>2. view' = Told(m) /\ UNCHANGED <<tribes, leaving>>
  BY <1>1 DEF Read
<1>3. Changed(t)
  BY <1>1 DEF IInv, Followed, About
<1>4. /\ view[t] # Absent /\ tribes[t].members # {}
      /\ view[t].members \cup Upcoming = tribes[t].members \cup Staying(t)
      /\ view[t].members \cap Upcoming = {}
      /\ m.type = "tribe_change_name" => m.name = tribes[t].name
      /\ m.type # "tribe_change_name" => view[t].name = tribes[t].name
      /\ log[n].type = "tribe_set_owner" =>
           log[n].player = tribes[t].owner /\ view[t].owner # tribes[t].owner
      /\ log[n].type # "tribe_set_owner" => view[t].owner = tribes[t].owner
  BY <1>3 DEF Changed
<1>5. /\ m.type = "tribe_change_name" =>
           view'[t] = [members |-> view[t].members, owner |-> view[t].owner, name |-> m.name]
      /\ m.type = "tribe_add_player" =>
           view'[t] = [members |-> view[t].members \cup {m.player},
                       owner |-> view[t].owner, name |-> view[t].name]
      /\ m.type = "tribe_set_owner" =>
           view'[t] = [members |-> view[t].members, owner |-> m.player,
                       name |-> view[t].name]
  BY <1>1, <1>2, <1>4, ToldIs DEF IInv
<1>6. m.type \in {"tribe_change_name", "tribe_add_player", "tribe_set_owner"}
  BY DEF Changes
<1>7. /\ \A i \in 1 .. n : log[i].type = "tribe_change_name" => i = 1
      /\ \A i \in 1 .. n : log[i].type = "tribe_set_owner" => i = n
      /\ \A i, j \in 1 .. n :
           log[i].type = "tribe_add_player" /\ log[j].type = "tribe_add_player" /\ i # j =>
             log[i].player # log[j].player
      /\ \A i \in 1 .. n : log[i].type \notin Changes => n = 1
  BY DEF IInv, OneCall
<1> HIDE DEF m, n
<1>8. Upcoming = Upcoming' \cup (IF m.type = "tribe_add_player" THEN {m.player} ELSE {})
  <2>1. ASSUME NEW p \in Upcoming
        PROVE  p \in Upcoming' \/ (m.type = "tribe_add_player" /\ p = m.player)
    <3>1. PICK i \in 1 .. n : log[i].type = "tribe_add_player" /\ log[i].player = p
      BY DEF Upcoming, n
    <3>2. CASE i = 1
      BY <3>1, <3>2 DEF m
    <3>3. CASE i # 1
      <4>1. i - 1 \in 1 .. Len(log') /\ (i - 1) + 1 = i
        BY <1>1, <3>3
      <4>2. log'[i - 1] = log[i]
        BY <1>1, <4>1
      <4> QED
        BY <3>1, <4>1, <4>2 DEF Upcoming
    <3> QED
      BY <3>2, <3>3
  <2>2. ASSUME NEW p \in Upcoming'
        PROVE  p \in Upcoming
    <3>1. PICK i \in 1 .. Len(log') : log'[i].type = "tribe_add_player" /\ log'[i].player = p
      BY DEF Upcoming
    <3> QED
      BY <1>1, <3>1 DEF Upcoming, n
  <2>3. m.type = "tribe_add_player" => m.player \in Upcoming
    BY <1>1 DEF Upcoming, m, n
  <2> QED
    BY <2>1, <2>2, <2>3
<1>9. m.type = "tribe_add_player" => m.player \notin Upcoming'
  <2> SUFFICES ASSUME m.type = "tribe_add_player", m.player \in Upcoming'
               PROVE  FALSE
    OBVIOUS
  <2>1. PICK i \in 1 .. Len(log') :
          log'[i].type = "tribe_add_player" /\ log'[i].player = m.player
    BY DEF Upcoming
  <2>2. i + 1 \in 1 .. n /\ i + 1 # 1 /\ log'[i] = log[i + 1]
    BY <1>1, <2>1
  <2> QED
    BY <1>1, <1>7, <2>1, <2>2 DEF m
<1>10. m.type = "tribe_set_owner" =>
         n = 1 /\ m.player = tribes[t].owner /\ Upcoming' = {} /\ Upcoming = {}
  <2> SUFFICES ASSUME m.type = "tribe_set_owner"
               PROVE  n = 1 /\ m.player = tribes[t].owner /\ Upcoming' = {} /\ Upcoming = {}
    OBVIOUS
  <2>1. n = 1
    BY <1>1, <1>7 DEF m
  <2>2. log[n] = m
    BY <2>1 DEF m
  <2>3. Len(log') = 0
    BY <1>1, <2>1
  <2>4. Upcoming' = {}
    BY <2>3 DEF Upcoming
  <2> QED
    BY <1>4, <1>8, <2>1, <2>2, <2>4
<1>11. tribes[t].owner \in tribes[t].members
  BY <1>4 DEF IInv, ServerKeeps
<1>12. view[t].owner \in view[t].members
  BY <1>4 DEF IInv, OwnerIsMember
<1>13. /\ view'[t].members \cup Upcoming' = tribes[t].members \cup Staying(t)
       /\ view'[t].members \cap Upcoming' = {}
       /\ view'[t].name = tribes[t].name
       /\ view'[t].owner \in view'[t].members
       /\ view'[t] = [members |-> view'[t].members, owner |-> view'[t].owner,
                      name |-> view'[t].name]
  <2>1. CASE m.type = "tribe_change_name"
    BY <1>4, <1>5, <1>8, <1>12, <2>1
  <2>2. CASE m.type = "tribe_add_player"
    BY <1>4, <1>5, <1>8, <1>9, <1>12, <2>2
  <2>3. CASE m.type = "tribe_set_owner"
    BY <1>4, <1>5, <1>8, <1>10, <1>11, <2>3
  <2> QED
    BY <1>6, <2>1, <2>2, <2>3
<1>14. view'[t] # Absent
  BY <1>13 DEF Absent
<1>15. Staying(t)' = Staying(t)
  BY <1>2 DEF Staying
<1>16. CASE n = 1
  <2>1. ~About(t)' /\ Upcoming' = {}
    BY <1>1, <1>16 DEF About, Upcoming
  <2>2. view'[t].owner = tribes[t].owner
    <3>1. log[n] = m
      BY <1>16 DEF m
    <3> QED
      BY <1>4, <1>5, <1>6, <3>1
  <2>3. view'[t] = With(t, Staying(t))
    BY <1>13, <2>1, <2>2 DEF With
  <2>4. Settled(t, Staying(t))'
    BY <1>2, <1>4, <1>15, <2>3 DEF Settled, With
  <2> QED
    BY <1>13, <2>1, <2>4 DEF Followed
<1>17. CASE n > 1
  <2>1. /\ 1 \in 1 .. Len(log') /\ Len(log') \in 1 .. Len(log')
        /\ 2 \in 1 .. n /\ n \in 1 .. n /\ Len(log') + 1 = n /\ 1 + 1 = 2
    BY <1>1, <1>17
  <2>2. /\ log'[1] = log[2] /\ log'[Len(log')] = log[n]
    BY <1>1, <2>1
  <2>3. log'[1].type \in Changes /\ log'[1].type # "tribe_change_name"
    BY <1>7, <1>17, <2>1, <2>2
  <2>4. m.type # "tribe_set_owner" /\ view'[t].owner = view[t].owner
    BY <1>5, <1>6, <1>10, <1>17
  <2>5. About(t)' /\ Created(t)' /\ HasLeft(t)'
    BY <1>1, <2>1, <2>2, <2>3 DEF About, Created, HasLeft, Changes
  <2>6. Changed(t)'
    BY <1>2, <1>4, <1>13, <1>14, <1>15, <2>2, <2>3, <2>4 DEF Changed
  <2> QED
    BY <1>13, <2>5, <2>6 DEF Followed
<1> QED
  BY <1>1, <1>16, <1>17

\* A message is read.
LEMMA ReadInvariant ==
  ASSUME IInv, Read
  PROVE  IInv'
<1> DEFINE m == log[1]
<1> PICK t \in Tribe : t = m.tribe
  BY Rest DEF Message
<1>1. /\ log # << >> /\ Len(log) \in Nat /\ Len(log) > 0 /\ 1 \in 1 .. Len(log)
      /\ Head(log) = m /\ m \in Message
      /\ log' \in Seq(Message) /\ Len(log') = Len(log) - 1 /\ Len(log') \in Nat
      /\ \A i \in 1 .. Len(log') : i + 1 \in 1 .. Len(log) /\ log'[i] = log[i + 1]
      /\ \A i \in 1 .. Len(log) : log[i].tribe = t
  BY Rest
<1>2. /\ view' = Told(m) /\ UNCHANGED <<tribes, leaving, hooked>>
      /\ m.type = "tribe_remove" => unseen' = unseen \ {t}
      /\ m.type # "tribe_remove" => unseen' = unseen
  BY <1>1 DEF Read
<1>3. /\ view' \in [Tribe -> Seen \cup {Absent}]
      /\ \A u \in Tribe : u # t => view'[u] = view[u]
      /\ m.type = "tribe_create" =>
           view'[t] = [members |-> {m.player}, owner |-> m.player, name |-> m.name]
      /\ m.type = "tribe_remove" => view'[t] = Absent
      /\ m.type = "tribe_remove_player" /\ view[t] # Absent =>
           view'[t] = [members |-> view[t].members \ {m.player},
                       owner |-> view[t].owner, name |-> view[t].name]
      /\ m.type = "tribe_remove_player" /\ view[t] = Absent => view'[t] = Absent
  BY <1>1, <1>2, ToldIs DEF IInv
<1>4. Types'
  <2>1. unseen' \subseteq Tribe
    BY <1>2 DEF IInv, Types
  <2> QED
    BY <1>1, <1>2, <1>3, <2>1 DEF IInv, Types
<1>5. OneCall'
  <2> SUFFICES ASSUME NEW i \in 1 .. Len(log'), NEW j \in 1 .. Len(log')
               PROVE  /\ log'[i].tribe = log'[j].tribe
                      /\ log'[i].type \notin Changes => Len(log') = 1
                      /\ log'[i].type = "tribe_change_name" => i = 1
                      /\ log'[i].type = "tribe_set_owner" => i = Len(log')
                      /\ log'[i].type = "tribe_add_player" /\ log'[j].type = "tribe_add_player"
                         /\ i # j => log'[i].player # log'[j].player
    BY DEF OneCall
  <2>1. /\ i + 1 \in 1 .. Len(log) /\ log'[i] = log[i + 1] /\ i + 1 # 1
        /\ j + 1 \in 1 .. Len(log) /\ log'[j] = log[j + 1]
        /\ i # j => i + 1 # j + 1
        /\ Len(log) # 1 /\ (i + 1 = Len(log) => i = Len(log'))
    BY <1>1
  <2> QED
    BY <2>1 DEF IInv, OneCall
<1>6. ServerKeeps'
  BY <1>1, <1>2 DEF IInv, ServerKeeps
<1>7. ASSUME NEW u \in Tribe \ unseen', u # t
      PROVE  Followed(u)' /\ (view'[u] # Absent => view'[u].owner \in view'[u].members)
  <2>1. u \notin unseen /\ view'[u] = view[u]
    BY <1>2, <1>3, <1>7
  <2>2. ~About(u) /\ ~About(u)'
    BY <1>1, <1>7 DEF About
  <2>3. Settled(u, Staying(u))
    BY <2>1, <2>2 DEF IInv, Followed
  <2>4. Settled(u, Staying(u))'
    BY <1>2, <2>1, <2>3 DEF Settled, With, Staying
  <2> QED
    BY <2>1, <2>2, <2>4 DEF IInv, Followed, OwnerIsMember
<1>8. ASSUME t \notin unseen'
      PROVE  Followed(t)' /\ (view'[t] # Absent => view'[t].owner \in view'[t].members)
  <2>1. CASE m.type \in Changes
    <3>1. t \notin unseen
      BY <1>2, <1>8, <2>1 DEF Changes
    <3> QED
      BY <2>1, <3>1, ChangeRead
  <2>2. CASE m.type \notin Changes
    <3>1. Len(log) = 1 /\ Len(log') = 0
      BY <1>1, <2>2 DEF IInv, OneCall
    <3>2. ~About(t)'
      BY <3>1 DEF About
    <3>3. SUFFICES /\ Settled(t, Staying(t))'
                   /\ view'[t] # Absent => view'[t].owner \in view'[t].members
      BY <3>2 DEF Followed
    <3>4. CASE m.type = "tribe_remove"
      <4>1. tribes'[t].members = {}
        BY <1>1, <1>2, <3>4 DEF IInv, ServerKeeps, Absent
      <4> QED
        BY <1>3, <3>4, <4>1 DEF Settled
    <3>5. CASE m.type = "tribe_create"
      <4>1. Created(t)
        BY <1>1, <1>2, <1>8, <3>5 DEF IInv, Followed, About
      <4>2. /\ leaving = << >>
            /\ tribes[t] = [members |-> {m.player}, owner |-> m.player, name |-> m.name]
        BY <3>5, <4>1 DEF Created
      <4>3. Staying(t)' = {}
        BY <1>2, <4>2 DEF Staying
      <4>4. /\ tribes'[t].members = {m.player}
            /\ With(t, {})' = [members |-> {m.player}, owner |-> m.player, name |-> m.name]
        BY <1>2, <4>2 DEF With
      <4> QED
        BY <1>3, <3>5, <4>3, <4>4 DEF Settled
    <3>6. CASE m.type = "tribe_remove_player"
      <4>1. HasLeft(t) /\ t \notin unseen
        BY <1>1, <1>2, <1>8, <3>6 DEF IInv, Followed, About
      <4>2. /\ leaving = << >> /\ m.player \notin tribes[t].members
            /\ Settled(t, {m.player})
        BY <3>6, <4>1 DEF HasLeft
      <4>3. Staying(t)' = {}
        BY <1>2, <4>2 DEF Staying
      <4>4. CASE tribes[t].members = {}
        BY <1>2, <1>3, <3>6, <4>2, <4>4 DEF Settled
      <4>5. CASE tribes[t].members # {}
        <5>1. view[t] = With(t, {m.player}) /\ view[t] # Absent
          BY <4>2, <4>5 DEF Settled, With, Absent
        <5>2. view[t].members \ {m.player} = tribes[t].members
          <6>1. view[t].members = tribes[t].members \cup {m.player}
            BY <5>1 DEF With
          <6>2. m.player \notin tribes[t].members
            BY <4>2
          <6> HIDE DEF m
          <6> QED
            BY <6>1, <6>2
        <5>3. view'[t] = With(t, {})
          <6>1. view'[t] = [members |-> view[t].members \ {m.player},
                            owner |-> view[t].owner, name |-> view[t].name]
            BY <1>3, <3>6, <5>1
          <6>2. view[t].owner = tribes[t].owner /\ view[t].name = tribes[t].name
            BY <5>1 DEF With
          <6>3. tribes[t].members \cup {} = tribes[t].members
            OBVIOUS
          <6> HIDE DEF m
          <6> QED
            BY <5>2, <6>1, <6>2, <6>3 DEF With
        <5>4. With(t, {})' = With(t, {})
          BY <1>2 DEF With
        <5>5. tribes[t].owner \in tribes[t].members
          BY <4>5 DEF IInv, ServerKeeps
        <5> QED
          BY <1>2, <4>3, <4>5, <5>3, <5>4, <5>5 DEF Settled, With
      <4> QED
        BY <4>4, <4>5
    <3>7. m.type \in {"tribe_create", "tribe_remove", "tribe_remove_player"}
      BY <1>1, <2>2 DEF Message, Changes
    <3> QED
      BY <3>4, <3>5, <3>6, <3>7
  <2> QED
    BY <2>1, <2>2
<1>9. OwnerIsMember'
  BY <1>7, <1>8 DEF OwnerIsMember
<1> QED
  BY <1>4, <1>5, <1>6, <1>7, <1>8, <1>9 DEF IInv

-----------------------------------------------------------------------------
(* The theorems.                                                            *)

\* Every step preserves the invariant.
LEMMA StepInvariant == IInv /\ [Next]_vars => IInv'
<1> SUFFICES ASSUME IInv, [Next]_vars PROVE IInv'
  OBVIOUS
<1>1. CASE UNCHANGED vars
  <2>1. UNCHANGED <<tribes, leaving, log, view, hooked, unseen>>
    BY <1>1 DEF vars
  <2>2. Types' /\ OneCall' /\ ServerKeeps' /\ OwnerIsMember'
    BY <2>1 DEF IInv, Types, OneCall, ServerKeeps, OwnerIsMember
  <2>3. \A u \in Tribe \ unseen' : Followed(u)'
    BY <2>1, FollowedStays DEF IInv
  <2> QED
    BY <2>2, <2>3 DEF IInv
<1>2. CASE Next
  BY <1>2, AddNewTribeInvariant, RemoveTribeInvariant, LoadInvariant, UpdateInvariant,
     RemovePlayerInvariant, ReturnInvariant, ReadInvariant DEF Next, Calls, Loads
<1> QED
  BY <1>1, <1>2

\* Each message makes sense to a reader that has applied those before it: an owner is a
\* player of his tribe, no player is added twice, and nothing is set to what it is
\* (M_tribe.cpp 831-903).
THEOREM InvariantHolds == Spec => []Inv
<1>1. IInv => Inv
  <2> SUFFICES ASSUME IInv PROVE TypeOK /\ OnlyNews
    BY DEF Inv, IInv
  <2>1. TypeOK
    <3>1. {m.tribe : m \in ToSet(log)} \subseteq Tribe
      <4>1. \A i \in DOMAIN log : log[i].tribe \in Tribe
        BY DEF IInv, Types, Message
      <4> QED
        BY <4>1 DEF ToSet
    <3>2. \A t \in Tribe : view[t] # Absent => view[t] \in Seen
      BY DEF IInv, Types
    <3> QED
      BY <3>1, <3>2 DEF IInv, Types, TypeOK, Seen
  <2>2. OnlyNews
    <3> SUFFICES ASSUME log # << >>, log[1].tribe \notin unseen
                 PROVE  /\ log[1].type = "tribe_add_player" =>
                             log[1].player \notin view[log[1].tribe].members
                        /\ log[1].type = "tribe_set_owner" =>
                             log[1].player # view[log[1].tribe].owner
                        /\ log[1].type = "tribe_change_name" =>
                             log[1].name # view[log[1].tribe].name
      <4>1. Head(log) = log[1]
        BY DEF IInv, Types
      <4> QED
        BY <4>1 DEF OnlyNews
    <3>1. 1 \in 1 .. Len(log) /\ log[1] \in Message
      BY Parts DEF IInv
    <3>2. log[1].tribe \in Tribe
      BY <3>1 DEF Message
    <3> DEFINE t == log[1].tribe
    <3>3. Changed(t)
      BY <3>1, <3>2 DEF IInv, Followed, About
    <3>4. log[1].type = "tribe_set_owner" => log[Len(log)] = log[1]
      BY <3>1 DEF IInv, OneCall
    <3>5. log[1].type = "tribe_add_player" => log[1].player \in Upcoming
      BY <3>1 DEF Upcoming
    <3> QED
      BY <3>3, <3>4, <3>5 DEF Changed, Changes
  <2> QED
    BY <2>1, <2>2
<1> QED
  BY <1>1, InitInv, StepInvariant, PTL DEF Spec

\* What the invariant says when there is nothing left to read.
LEMMA ReadAll == IInv => Replayed
<1> SUFFICES ASSUME IInv, log = << >>, leaving = << >>, NEW t \in Tribe \ unseen
             PROVE  IF tribes[t].members = {} THEN view[t] = Absent
                    ELSE view[t] = tribes[t]
  BY DEF Replayed
<1>1. Settled(t, Staying(t)) /\ Staying(t) = {}
  BY AllSettled DEF Staying
<1>2. tribes[t].members # {} => tribes[t] \in Data
  BY DEF IInv, Types, Absent
<1>3. tribes[t].members # {} => With(t, {}) = tribes[t]
  BY <1>2 DEF With, Data
<1> QED
  BY <1>1, <1>3 DEF Settled

\* When all is read and no call is under way, the reader has the players, the owner and
\* the name of each tribe as the server has them, if the tribe has not changed without
\* the plugin (M_tribe.cpp 831-903).
THEOREM ReaderSeesTribes == Spec => []Replayed
  BY ReadAll, InitInv, StepInvariant, PTL DEF Spec

-----------------------------------------------------------------------------
(* The command.                                                             *)

TidType == tid \in [Visitor -> Tribe \cup {NoTribe, NoRecord}]

\* The tribe in a record is the player's, or that has changed since.
RecordsKnown ==
  \A p \in Visitor : tid[p] \in Tribe => p \in tribes[tid[p]].members \/ p \in moved

CommandInv == TidType /\ RecordsKnown /\ TeamTrue

\* Logins, hand-overs and records are nothing that a tribe sees.
THEOREM CommandsImplementTribes == CommandSpec => Spec
<1>1. CommandInit => Init
  BY DEF CommandInit
<1>2. [CommandNext]_commandVars => [Next]_vars
  BY DEF CommandNext, commandVars, TribesChange, Constructs, Destructs, InsertPlayer, Erase,
         TPDinoIdToPlayerId, Outside, Next
<1> QED
  BY <1>1, <1>2, PTL DEF CommandSpec, Spec

\* What the constructor and insertPlayer read is a tribe of the player, or none.
LEMMA TidRead ==
  ASSUME NEW p \in Visitor, NEW t \in ReadTid(p), t \in Tribe
  PROVE  p \in tribes[t].members
  BY CommandAssumption DEF ReadTid

\* Who is in no step's changes stays where he is.
LEMMA Stays ==
  ASSUME NEW p \in Visitor, p \notin Movers, NEW t \in Tribe, p \in tribes[t].members
  PROVE  p \in tribes'[t].members
  BY DEF Movers

\* Every step preserves the invariant of the records.
LEMMA CommandStep ==
  ASSUME CommandInv, IInv, [CommandNext]_commandVars
  PROVE  CommandInv'
<1>1. CASE TribesChange
  <2>1. TidType' /\ TeamTrue'
    BY <1>1 DEF TribesChange, CommandInv, TidType, TeamTrue
  <2>2. ASSUME NEW p \in Visitor, tid'[p] \in Tribe, p \notin moved'
        PROVE  p \in tribes'[tid'[p]].members
    <3>1. tid[p] \in Tribe /\ tid' = tid /\ p \notin moved /\ p \notin Movers
      BY <1>1, <2>2 DEF TribesChange
    <3>2. p \in tribes[tid[p]].members
      BY <3>1 DEF CommandInv, RecordsKnown
    <3> QED
      BY <3>1, <3>2, Stays
  <2> QED
    BY <2>1, <2>2 DEF CommandInv, RecordsKnown
<1>2. CASE Constructs
  <2>1. PICK online \in SUBSET Visitor :
          /\ tid' \in [Visitor -> Tribe \cup {NoTribe, NoRecord}]
          /\ \A p \in Visitor :
               IF p \in online THEN tid'[p] \in ReadTid(p) ELSE tid'[p] = NoRecord
    BY <1>2 DEF Constructs
  <2>2. TidType' /\ TeamTrue'
    BY <1>2, <2>1 DEF Constructs, TidType, TeamTrue
  <2>3. ASSUME NEW p \in Visitor, tid'[p] \in Tribe, p \notin moved'
        PROVE  p \in tribes'[tid'[p]].members
    <3>1. tid'[p] \in ReadTid(p)
      BY <2>1, <2>3, CommandAssumption
    <3>2. p \in tribes[tid'[p]].members
      BY <2>3, <3>1, TidRead
    <3>3. p \notin Movers
      BY <1>2, <2>3 DEF Constructs
    <3> QED
      BY <2>3, <3>2, <3>3, Stays
  <2> QED
    BY <2>2, <2>3 DEF CommandInv, RecordsKnown
<1>3. CASE Destructs
  BY <1>3, CommandAssumption DEF Destructs, CommandInv, TidType, RecordsKnown, TeamTrue
<1>4. ASSUME NEW p \in Visitor, InsertPlayer(p)
      PROVE  CommandInv'
  <2>1. PICK t \in ReadTid(p) : tid' = [tid EXCEPT ![p] = t]
    BY <1>4 DEF InsertPlayer
  <2>2. t \in Tribe \cup {NoTribe}
    BY DEF ReadTid
  <2>3. TidType' /\ TeamTrue'
    BY <1>4, <2>1, <2>2 DEF InsertPlayer, CommandInv, TidType, TeamTrue
  <2>4. ASSUME NEW q \in Visitor, tid'[q] \in Tribe, q \notin moved'
        PROVE  q \in tribes'[tid'[q]].members
    <3>1. tribes' = tribes /\ moved' = moved \ {p}
      BY <1>4 DEF InsertPlayer, Outside, vars
    <3>2. CASE q = p
      BY <2>1, <2>4, <3>1, <3>2, TidRead DEF CommandInv, TidType
    <3>3. CASE q # p
      BY <2>1, <2>4, <3>1, <3>3 DEF CommandInv, TidType, RecordsKnown
    <3> QED
      BY <3>2, <3>3
  <2> QED
    BY <2>3, <2>4 DEF CommandInv, RecordsKnown
<1>5. ASSUME NEW p \in Visitor, Erase(p)
      PROVE  CommandInv'
  <2>1. tribes' = tribes /\ moved' = moved \ {p} /\ tid' = [tid EXCEPT ![p] = NoRecord]
    BY <1>5 DEF Erase, Outside, vars
  <2>2. TidType' /\ TeamTrue'
    BY <1>5, <2>1 DEF Erase, CommandInv, TidType, TeamTrue
  <2>3. RecordsKnown'
    BY <2>1, CommandAssumption DEF CommandInv, TidType, RecordsKnown
  <2> QED
    BY <2>2, <2>3 DEF CommandInv
<1>6. ASSUME NEW p \in Visitor, TPDinoIdToPlayerId(p)
      PROVE  CommandInv'
  <2>1. /\ UNCHANGED <<tribes, view, unseen, tid, moved>>
        /\ log = << >> /\ leaving = << >> /\ tid[p] # NoRecord
        /\ given' = {[player |-> p, tribe |-> tid[p]]}
    BY <1>6 DEF TPDinoIdToPlayerId, Outside, vars
  <2>2. TidType' /\ RecordsKnown'
    BY <2>1 DEF CommandInv, TidType, RecordsKnown
  <2>3. TeamTrue'
    <3>1. SUFFICES ASSUME tid[p] # NoTribe, p \notin tribes[tid[p]].members
                   PROVE  p \in moved /\ (tid[p] \notin unseen => p \notin view[tid[p]].members)
      BY <2>1 DEF TeamTrue
    <3>2. tid[p] \in Tribe
      BY <2>1, <3>1 DEF CommandInv, TidType
    <3>3. p \in moved
      BY <3>1, <3>2 DEF CommandInv, RecordsKnown
    <3>4. ASSUME tid[p] \notin unseen
          PROVE  p \notin view[tid[p]].members
      <4>1. IF tribes[tid[p]].members = {} THEN view[tid[p]] = Absent
            ELSE view[tid[p]] = tribes[tid[p]]
        BY <2>1, <3>2, <3>4, ReadAll DEF Replayed
      <4> QED
        BY <3>1, <4>1 DEF Absent
    <3> QED
      BY <3>3, <3>4
  <2> QED
    BY <2>2, <2>3 DEF CommandInv
<1>7. CASE UNCHANGED commandVars
  BY <1>7 DEF commandVars, vars, CommandInv, TidType, RecordsKnown, TeamTrue
<1> QED
  BY <1>1, <1>2, <1>3, <1>4, <1>5, <1>6, <1>7 DEF CommandNext

\* A dino is handed to no tribe but the player's own, unless the player has changed
\* tribes since his record was made, and then the log has told so
\* (M_online_players.cpp 107-146; ExtendedEventLog.cpp 64-80).
THEOREM DinosHandedOver == CommandSpec => []TeamTrue
<1>1. CommandInit => IInv /\ CommandInv
  <2>1. CommandInit => IInv
    BY InitInv DEF CommandInit
  <2>2. CommandInit => CommandInv
    BY CommandAssumption DEF CommandInit, CommandInv, TidType, RecordsKnown, TeamTrue
  <2> QED
    BY <2>1, <2>2
<1>2. IInv /\ CommandInv /\ [CommandNext]_commandVars => (IInv /\ CommandInv)'
  <2>1. [CommandNext]_commandVars => [Next]_vars
    BY DEF CommandNext, commandVars, TribesChange, Constructs, Destructs, InsertPlayer, Erase,
           TPDinoIdToPlayerId, Outside, Next
  <2> QED
    BY <2>1, StepInvariant, CommandStep
<1>3. CommandInv => TeamTrue
  BY DEF CommandInv
<1> QED
  BY <1>1, <1>2, <1>3, PTL DEF CommandSpec

-----------------------------------------------------------------------------
(* The folders of tamed dinos, and their reports: TamedFolders.             *)

TamedTypes ==
  /\ TamedTypeOK /\ past \subseteq Folders
  /\ (cursor # 0 => cursor \in tamed_queue)
  /\ \A d \in Dino : cut[d] <= restarts

Listings(d) == reports[d] + (IF d \in tamed_queue THEN 1 ELSE 0)
Losses(d)   == Credits(d) + cut[d] + (IF d \in relisted THEN 1 ELSE 0)

\* A dino that a check may list again has had a loss, or its credit, for each time that
\* it was listed.
Budget(d) ==
  /\ Listings(d) <= 1 + Losses(d)
  /\ ~GotFolder(d) /\ (body[d] = "alive" \/ d \in relisted) => Listings(d) <= Losses(d)

\* A dino that was never listed has had no folders with levels but those of players.
Listed(d) == reports[d] > Credits(d) \/ d \in tamed_queue \/ d \in unqueued
Unlisted(d) ==
  /\ Credits(d) <= reports[d]
  /\ ~Listed(d) => \A f \in past : f[d]["hp"] + f[d]["oxy"] <= named[d]

\* A living dino loses no folders within a session, and has two after a check.
Grown(d) ==
  body[d] = "alive" =>
    /\ d \notin relisted
    /\ d \in checked => GotFolder(d)
    /\ \A f \in past : f[d]["hp"] <= dinoFolder[d]["hp"] /\ f[d]["oxy"] <= dinoFolder[d]["oxy"]

\* What folders it may have as long as restarts have not twice cost it any, nor players
\* given it two of the plugin's names, nor both once.
Stats(f, d) == <<f[d]["hp"], f[d]["oxy"]>>

Whole(d) ==
  body[d] = "alive" =>
    /\ cut[d] = 0 /\ named[d] = 0 =>
         /\ Stats(dinoFolder, d) \in {<<0, 0>>, <<1, 1>>}
         /\ \A f \in past : Stats(f, d) \in {<<0, 0>>, <<1, 0>>, <<1, 1>>}
    /\ cut[d] = 1 /\ named[d] = 0 =>
         Stats(dinoFolder, d) \in {<<0, 0>>, <<1, 0>>, <<1, 1>>, <<2, 1>>}
    /\ cut[d] = 0 /\ named[d] = 1 =>
         Stats(dinoFolder, d) \in {<<1, 0>>, <<0, 1>>, <<2, 1>>, <<1, 2>>}

DinoInv(d) == Budget(d) /\ Unlisted(d) /\ Grown(d) /\ Whole(d)

TamedIInv == TamedTypes /\ \A d \in Dino : DinoInv(d)

\* A finite set of numbers has a greatest one.
LEMMA FiniteMax ==
  ASSUME NEW S \in SUBSET Nat, IsFiniteSet(S), S # {}
  PROVE  Max(S) \in S
<1> DEFINE HasMax(T) == \E x \in T : \A y \in T : x >= y
           P == {n \in Nat : \A T \in SUBSET S :
                               IsFiniteSet(T) /\ T # {} /\ Cardinality(T) = n => HasMax(T)}
<1>1. 0 \in P
  BY FS_EmptySet
<1>2. ASSUME NEW k \in Nat, k \in P PROVE k + 1 \in P
  <2> SUFFICES ASSUME NEW T \in SUBSET S, IsFiniteSet(T), T # {}, Cardinality(T) = k + 1
               PROVE  HasMax(T)
    OBVIOUS
  <2>1. PICK x \in T : TRUE
    OBVIOUS
  <2>2. IsFiniteSet(T \ {x}) /\ Cardinality(T \ {x}) = k
    <3>1. IsFiniteSet(T \ {x}) /\ Cardinality(T \ {x}) = Cardinality(T) - 1
      BY <2>1, FS_RemoveElement
    <3> QED
      BY <3>1
  <2>3. CASE T \ {x} = {}
    BY <2>1, <2>3
  <2>4. CASE T \ {x} # {}
    <3>1. HasMax(T \ {x})
      BY <1>2, <2>2, <2>4
    <3>2. PICK z \in T \ {x} : \A y \in T \ {x} : z >= y
      BY <3>1
    <3>3. CASE z >= x
      BY <3>2, <3>3
    <3>4. CASE x >= z
      BY <2>1, <3>2, <3>4
    <3> QED
      BY <3>3, <3>4
  <2> QED
    BY <2>3, <2>4
<1>3. Cardinality(S) \in Nat
  BY FS_CardinalityType
<1>4. Cardinality(S) \in P
  <2>1. \A k \in 0 .. Cardinality(S) : k \in P
    <3>1. \A k \in 0 .. Cardinality(S) - 1 : k \in P => k + 1 \in P
      BY <1>2, <1>3
    <3> HIDE DEF P
    <3> QED
      BY <1>1, <1>3, <3>1, Stepwise
  <2> QED
    BY <1>3, <2>1
<1>5. HasMax(S)
  BY <1>4
<1> QED
  BY <1>5 DEF Max

\* Dinos are numbered by natural numbers.
LEMMA DinosAreNumbers ==
  ASSUME bound \in Bounds
  PROVE  Dino \subseteq Nat
<1> DEFINE S == {b.dinos : b \in Bounds}
<1>1. S \in SUBSET Nat /\ S # {}
  BY BoundsAssumption DEF Bound
<1>2. IsFiniteSet(S)
  <2> DEFINE g == [b \in Bounds |-> b.dinos]
  <2>1. g \in Surjection(Bounds, S)
    BY DEF Surjection
  <2> QED
    BY <2>1, BoundsAssumption, FS_Surjection
<1>3. Max(S) \in Nat
  BY <1>1, <1>2, FiniteMax
<1> QED
  BY <1>3 DEF Dino

\* The element after one is of the set, if it is not the end.
LEMMA AfterIn ==
  ASSUME bound \in Bounds, NEW S \in SUBSET Dino, NEW d
  PROVE  After(S, d) = End \/ After(S, d) \in S
<1> DEFINE later == {e \in S : e > d}
<1>1. CASE later = {}
  BY <1>1 DEF After
<1>2. CASE later # {}
  <2>1. later \in SUBSET Nat
    BY DinosAreNumbers
  <2>2. \E m \in later : \A k \in later : m <= k
    <3> HIDE DEF later
    <3> QED
      BY <1>2, <2>1, Smallest
  <2>3. (CHOOSE e \in later : \A f \in later : e <= f) \in later
    BY <2>2
  <2> QED
    BY <1>2, <2>3 DEF After
<1> QED
  BY <1>1, <1>2

\* What a new folder changes.
LEMMA FolderAdded ==
  ASSUME NEW map \in [Dino -> [Kind -> Nat]], NEW d \in Dino, NEW k \in Kind
  PROVE  /\ AddFolder(map, d, k) \in [Dino -> [Kind -> Nat]]
         /\ AddFolder(map, d, k)[d][k] = map[d][k] + 1
         /\ \A j \in Kind : j # k => AddFolder(map, d, k)[d][j] = map[d][j]
         /\ \A e \in Dino : e # d => AddFolder(map, d, k)[e] = map[e]
<1>1. map[d] \in [Kind -> Nat]
  OBVIOUS
<1>2. [map[d] EXCEPT ![k] = @ + 1] \in [Kind -> Nat]
  BY <1>1
<1>3. AddFolder(map, d, k) = [map EXCEPT ![d] = [map[d] EXCEPT ![k] = @ + 1]]
  BY DEF AddFolder
<1> QED
  BY <1>1, <1>2, <1>3

\* What the types say of the variables.
LEMMA TamedTypesAre ==
  ASSUME TamedTypes
  PROVE  /\ bound \in Bounds /\ bound.restarts \in Nat /\ bound.named \in Nat
         /\ owner \in [Dino -> {"wild", "auto", "player", "tribe"}]
         /\ body \in [Dino -> {"alive", "dead", "destroyed"}]
         /\ past \subseteq Folders /\ dinoFolder \in past /\ dinoFolder \in Folders
         /\ tamed_queue \subseteq Dino /\ cursor \in {0} \cup Dino
         /\ (cursor # 0 => cursor \in tamed_queue)
         /\ reports \in [Dino -> Nat] /\ cut \in [Dino -> 0 .. bound.restarts]
         /\ restarts \in 0 .. bound.restarts /\ (\A d \in Dino : cut[d] <= restarts)
         /\ checked \subseteq Dino /\ relisted \subseteq Dino /\ unqueued \subseteq Dino
         /\ credited \subseteq Dino /\ named \in [Dino -> 0 .. bound.named]
BY BoundsAssumption DEF TamedTypes, TamedTypeOK, Bound

\* The types hold again if the values are of them.
LEMMA TamedTypesHold ==
  ASSUME bound \in Bounds, bound' = bound,
         owner' \in [Dino -> {"wild", "auto", "player", "tribe"}],
         body' \in [Dino -> {"alive", "dead", "destroyed"}],
         past' \subseteq Folders, dinoFolder' \in past',
         tamed_queue' \subseteq Dino, cursor' \in {0} \cup tamed_queue',
         reports' \in [Dino -> Nat], cut' \in [Dino -> 0 .. bound.restarts],
         restarts' \in 0 .. bound.restarts, \A d \in Dino : cut'[d] <= restarts',
         checked' \subseteq Dino, relisted' \subseteq Dino, unqueued' \subseteq Dino,
         credited' \subseteq Dino, named' \in [Dino -> 0 .. bound.named]
  PROVE  TamedTypes'
<1>1. Folders' = Folders
  BY DEF Folders
<1>2. TamedTypeOK'
  BY <1>1 DEF TamedTypeOK
<1> QED
  BY <1>1, <1>2 DEF TamedTypes

\* A dino about which nothing changes; the map had its folders before.
LEMMA DinoKept ==
  ASSUME NEW e \in Dino, DinoInv(e),
         body'[e] = body[e], cut'[e] = cut[e], reports'[e] = reports[e],
         e \in credited' <=> e \in credited, named'[e] = named[e],
         e \in tamed_queue' <=> e \in tamed_queue, e \in relisted' <=> e \in relisted,
         e \in checked' => e \in checked, e \in unqueued => e \in unqueued',
         dinoFolder'[e]["hp"] = dinoFolder[e]["hp"], dinoFolder'[e]["oxy"] = dinoFolder[e]["oxy"],
         \A f \in past' : \E g \in past : /\ f[e]["hp"] = g[e]["hp"]
                                          /\ f[e]["oxy"] = g[e]["oxy"]
  PROVE  DinoInv(e)'
<1>1. GotFolder(e)' <=> GotFolder(e)
  BY DEF GotFolder
<1>2. Budget(e)'
  BY <1>1 DEF DinoInv, Budget, Listings, Losses, Credits
<1>3. Unlisted(e)'
  BY DEF DinoInv, Unlisted, Listed, Credits
<1>4. Grown(e)'
  BY <1>1 DEF DinoInv, Grown
<1>5. Whole(e)'
  <2>1. ASSUME NEW f \in past' PROVE \E g \in past : Stats(f, e) = Stats(g, e)
    BY DEF Stats
  <2>2. Stats(dinoFolder, e)' = Stats(dinoFolder, e)
    BY DEF Stats
  <2> QED
    BY <2>1, <2>2 DEF DinoInv, Whole, Stats
<1> QED
  BY <1>2, <1>3, <1>4, <1>5 DEF DinoInv

\* The players' folders change, and nothing else that is said of dinos.
LEMMA FoldersKept ==
  ASSUME TamedIInv, NEW m \in Folders,
         Stored(<<m>>) \/ UNCHANGED folderVars,
         \A e \in Dino : m[e]["hp"] = dinoFolder[e]["hp"] /\ m[e]["oxy"] = dinoFolder[e]["oxy"],
         UNCHANGED <<body, cut, reports, tamed_queue, checked, relisted, unqueued, credited, named>>
  PROVE  /\ past' \subseteq Folders /\ dinoFolder' \in past'
         /\ \A e \in Dino : DinoInv(e)'
<1>1. past \subseteq Folders /\ dinoFolder \in past
  BY TamedTypesAre DEF TamedIInv
<1>2. /\ dinoFolder' \in past' /\ (dinoFolder' = m \/ dinoFolder' = dinoFolder)
      /\ \A f \in past' : f \in past \/ f = m
  <2>1. CASE UNCHANGED folderVars
    BY <1>1, <2>1 DEF folderVars
  <2>2. CASE Stored(<<m>>)
    <3>1. Len(<<m>>) = 1 /\ <<m>>[1] = m /\ (\A i \in 1 .. 1 : <<m>>[i] = m) /\ 1 \in 1 .. 1
      OBVIOUS
    <3>2. /\ dinoFolder' = m
          /\ past' = {dinoFolder'} \/ past' = past \cup {<<m>>[i] : i \in 1 .. 1}
      BY <2>2, <3>1 DEF Stored
    <3> QED
      BY <3>1, <3>2
  <2> QED
    BY <2>1, <2>2
<1>3. ASSUME NEW e \in Dino PROVE DinoInv(e)'
  <2>1. DinoInv(e)
    BY DEF TamedIInv
  <2>2. dinoFolder'[e]["hp"] = dinoFolder[e]["hp"] /\ dinoFolder'[e]["oxy"] = dinoFolder[e]["oxy"]
    BY <1>2
  <2>3. ASSUME NEW f \in past'
        PROVE  \E g \in past : f[e]["hp"] = g[e]["hp"] /\ f[e]["oxy"] = g[e]["oxy"]
    BY <1>1, <1>2
  <2> QED
    BY <2>1, <2>2, <2>3, DinoKept
<1> QED
  BY <1>1, <1>2, <1>3

\* A check of a dino that has both folders, or two of a kind.
LEMMA CheckFinds ==
  ASSUME TamedIInv, NEW d \in Dino, Check(d), body[d] # "destroyed", GotFolder(d),
         UNCHANGED <<body, cut, reports, unqueued, credited, named>>
  PROVE  \A e \in Dino : DinoInv(e)'
<1>1. /\ UNCHANGED <<dinoFolder, past, tamed_queue>>
      /\ IF body[d] = "alive"
         THEN checked' = checked \cup {d} /\ UNCHANGED relisted
         ELSE relisted' = relisted \cup {d} /\ UNCHANGED checked
  BY DEF Check, folderVars
<1>2. ASSUME NEW e \in Dino, e # d PROVE DinoInv(e)'
  <2>1. DinoInv(e)
    BY DEF TamedIInv
  <2>2. /\ e \in tamed_queue' <=> e \in tamed_queue
        /\ e \in relisted' <=> e \in relisted
        /\ e \in checked' => e \in checked
    BY <1>1, <1>2
  <2> QED
    BY <1>1, <2>1, <2>2, DinoKept
<1>3. DinoInv(d)'
  <2>1. DinoInv(d) /\ GotFolder(d)'
    BY <1>1 DEF TamedIInv, GotFolder
  <2>2. /\ reports[d] \in Nat /\ cut[d] \in Nat
    BY TamedTypesAre DEF TamedIInv
  <2>3. Budget(d)'
    <3>1. Credits(d) \in Nat /\ Credits(d)' = Credits(d)
      BY DEF Credits
    <3> QED
      BY <1>1, <2>1, <2>2, <3>1 DEF DinoInv, Budget, Listings, Losses
  <2>4. Unlisted(d)'
    BY <1>1, <2>1 DEF DinoInv, Unlisted, Listed, Credits
  <2>5. Grown(d)'
    BY <1>1, <2>1 DEF DinoInv, Grown
  <2>6. Whole(d)'
    BY <1>1, <2>1 DEF DinoInv, Whole, Stats
  <2> QED
    BY <2>3, <2>4, <2>5, <2>6 DEF DinoInv
<1> QED
  BY <1>2, <1>3

\* A check of a dino that has not: it gets a folder of each kind, and is listed.
LEMMA CheckGives ==
  ASSUME TamedIInv, NEW d \in Dino, Check(d), body[d] # "destroyed", ~GotFolder(d),
         UNCHANGED <<body, cut, reports, unqueued, credited, named>>
  PROVE  /\ past' \subseteq Folders /\ dinoFolder' \in past'
         /\ \A e \in Dino : DinoInv(e)'
<1> DEFINE h == AddFolder(dinoFolder, d, "hp")
           o == AddFolder(h, d, "oxy")
<1>1. /\ Stored(<<h, o>>) /\ tamed_queue' = tamed_queue \cup {d}
      /\ IF body[d] = "alive"
         THEN checked' = checked \cup {d} /\ UNCHANGED relisted
         ELSE relisted' = relisted \cup {d} /\ UNCHANGED checked
  BY DEF Check
<1>2. /\ dinoFolder' = o /\ dinoFolder' \in past'
      /\ \A f \in past' : f \in past \/ f = h \/ f = o
  <2> HIDE DEF h, o
  <2>1. Len(<<h, o>>) = 2 /\ <<h, o>>[2] = o /\ \A i \in 1 .. 2 : <<h, o>>[i] \in {h, o}
    OBVIOUS
  <2>2. /\ dinoFolder' = o
        /\ \/ past' = {dinoFolder'}
           \/ past' = past \cup {<<h, o>>[i] : i \in 1 .. 2}
    BY <1>1, <2>1 DEF Stored
  <2>3. 2 \in 1 .. 2
    OBVIOUS
  <2> QED
    BY <2>1, <2>2, <2>3
<1>3. /\ past \subseteq Folders /\ dinoFolder \in past /\ dinoFolder \in Folders
      /\ body[d] \in {"alive", "dead", "destroyed"} /\ reports[d] \in Nat /\ cut[d] \in Nat
      /\ named[d] \in Nat
  BY TamedTypesAre DEF TamedIInv
<1>4. dinoFolder \in [Dino -> [Kind -> Nat]]
  BY <1>3 DEF Folders
<1>5. "hp" \in Kind /\ "oxy" \in Kind /\ "other" \in Kind
  BY DEF Kind
<1>6. /\ h \in [Dino -> [Kind -> Nat]] /\ h[d]["hp"] = dinoFolder[d]["hp"] + 1
      /\ h[d]["oxy"] = dinoFolder[d]["oxy"] /\ h[d]["other"] = dinoFolder[d]["other"]
      /\ \A e \in Dino : e # d => h[e] = dinoFolder[e]
  <2>1. /\ h \in [Dino -> [Kind -> Nat]] /\ h[d]["hp"] = dinoFolder[d]["hp"] + 1
        /\ \A j \in Kind : j # "hp" => h[d][j] = dinoFolder[d][j]
        /\ \A e \in Dino : e # d => h[e] = dinoFolder[e]
    BY <1>4, <1>5, FolderAdded
  <2> QED
    BY <1>5, <2>1
<1> HIDE DEF h
<1>7. /\ o \in [Dino -> [Kind -> Nat]] /\ o[d]["hp"] = h[d]["hp"]
      /\ o[d]["oxy"] = h[d]["oxy"] + 1 /\ o[d]["other"] = h[d]["other"]
      /\ \A e \in Dino : e # d => o[e] = h[e]
  <2>1. /\ o \in [Dino -> [Kind -> Nat]] /\ o[d]["oxy"] = h[d]["oxy"] + 1
        /\ \A j \in Kind : j # "oxy" => o[d][j] = h[d][j]
        /\ \A e \in Dino : e # d => o[e] = h[e]
    BY <1>5, <1>6, FolderAdded
  <2> QED
    BY <1>5, <2>1
<1> HIDE DEF o
<1>8. PICK a \in Nat, b \in Nat : a = dinoFolder[d]["hp"] /\ b = dinoFolder[d]["oxy"]
  BY <1>4, <1>5
<1>9. a + b <= 1
  BY <1>8 DEF GotFolder
<1>10. past' \subseteq Folders
  BY <1>2, <1>3, <1>6, <1>7 DEF Folders
<1>11. ASSUME NEW e \in Dino, e # d PROVE DinoInv(e)'
  <2>1. DinoInv(e)
    BY DEF TamedIInv
  <2>2. /\ e \in tamed_queue' <=> e \in tamed_queue
        /\ e \in relisted' <=> e \in relisted
        /\ e \in checked' => e \in checked
    BY <1>1, <1>11
  <2>3. dinoFolder'[e]["hp"] = dinoFolder[e]["hp"] /\ dinoFolder'[e]["oxy"] = dinoFolder[e]["oxy"]
    BY <1>2, <1>6, <1>7, <1>11
  <2>4. ASSUME NEW f \in past'
        PROVE  \E g \in past : f[e]["hp"] = g[e]["hp"] /\ f[e]["oxy"] = g[e]["oxy"]
    BY <1>2, <1>3, <1>6, <1>7, <1>11
  <2> QED
    BY <2>1, <2>2, <2>3, <2>4, DinoKept
<1>12. DinoInv(d)'
  <2>1. Budget(d) /\ Unlisted(d) /\ Grown(d) /\ Whole(d)
    BY DEF TamedIInv, DinoInv
  <2>2. /\ h[d]["hp"] = a + 1 /\ h[d]["oxy"] = b
        /\ o[d]["hp"] = a + 1 /\ o[d]["oxy"] = b + 1
        /\ dinoFolder'[d]["hp"] = a + 1 /\ dinoFolder'[d]["oxy"] = b + 1
    BY <1>2, <1>6, <1>7, <1>8
  <2>3. GotFolder(d)'
    BY <2>2 DEF GotFolder
  <2>4. Budget(d)'
    <3>1. /\ Listings(d) \in Nat /\ Losses(d) \in Nat /\ Listings(d) <= 1 + Losses(d)
          /\ body[d] = "alive" \/ d \in relisted => Listings(d) <= Losses(d)
      <4>1. Credits(d) \in Nat
        BY DEF Credits
      <4> QED
        BY <1>3, <2>1, <4>1 DEF Budget, Listings, Losses
    <3>2. Listings(d)' \in Nat /\ Listings(d)' <= Listings(d) + 1
      BY <1>1, <1>3 DEF Listings
    <3>3. CASE body[d] = "alive" \/ d \in relisted
      <4>1. Losses(d)' \in Nat /\ Losses(d)' >= Losses(d)
        BY <1>1, <1>3, <3>3 DEF Losses, Credits
      <4> QED
        BY <2>3, <3>1, <3>2, <3>3, <4>1 DEF Budget
    <3>4. CASE ~(body[d] = "alive" \/ d \in relisted)
      <4>1. Losses(d)' = Losses(d) + 1
        BY <1>1, <1>3, <3>4 DEF Losses, Credits
      <4> QED
        BY <2>3, <3>1, <3>2, <4>1 DEF Budget
    <3> QED
      BY <3>3, <3>4
  <2>5. Unlisted(d)'
    BY <1>1, <2>1 DEF Unlisted, Listed, Credits
  <2>6. Grown(d)'
    <3> SUFFICES ASSUME body[d] = "alive"
                 PROVE  /\ d \notin relisted'
                        /\ \A f \in past' : f[d]["hp"] <= a + 1 /\ f[d]["oxy"] <= b + 1
      BY <2>2, <2>3 DEF Grown
    <3>1. d \notin relisted'
      BY <1>1, <2>1 DEF Grown
    <3>2. ASSUME NEW f \in past PROVE f[d]["hp"] <= a + 1 /\ f[d]["oxy"] <= b + 1
      <4>1. f[d]["hp"] \in Nat /\ f[d]["oxy"] \in Nat /\ f[d]["hp"] <= a /\ f[d]["oxy"] <= b
        BY <1>3, <1>5, <1>8, <2>1 DEF Grown, Folders
      <4> QED
        BY <4>1
    <3> QED
      BY <1>2, <2>2, <3>1, <3>2
  <2>7. Whole(d)'
    <3> SUFFICES ASSUME body[d] = "alive" PROVE Whole(d)'
      BY DEF Whole
    <3>1. Stats(dinoFolder, d) = <<a, b>>
      BY <1>8 DEF Stats
    <3>2. /\ Stats(dinoFolder, d)' = <<a + 1, b + 1>> /\ Stats(o, d) = <<a + 1, b + 1>>
          /\ Stats(h, d) = <<a + 1, b>>
      BY <2>2 DEF Stats
    <3>3. CASE cut[d] = 0 /\ named[d] = 0
      <4>1. a = 0 /\ b = 0
        BY <1>9, <2>1, <3>1, <3>3 DEF Whole
      <4>2. \A f \in past' : Stats(f, d) \in {<<0, 0>>, <<1, 0>>, <<1, 1>>}
        BY <1>2, <2>1, <3>2, <3>3, <4>1 DEF Whole
      <4> QED
        BY <3>2, <3>3, <4>1, <4>2 DEF Whole, Stats
    <3>4. CASE cut[d] = 1 /\ named[d] = 0
      <4>1. (a = 0 /\ b = 0) \/ (a = 1 /\ b = 0)
        BY <1>9, <2>1, <3>1, <3>4 DEF Whole
      <4> QED
        BY <3>2, <3>4, <4>1 DEF Whole, Stats
    <3>5. CASE cut[d] = 0 /\ named[d] = 1
      <4>1. (a = 1 /\ b = 0) \/ (a = 0 /\ b = 1)
        BY <1>9, <2>1, <3>1, <3>5 DEF Whole
      <4> QED
        BY <3>2, <3>5, <4>1 DEF Whole, Stats
    <3>6. CASE ~(\/ cut[d] = 0 /\ named[d] = 0
                 \/ cut[d] = 1 /\ named[d] = 0
                 \/ cut[d] = 0 /\ named[d] = 1)
      BY <3>6 DEF Whole
    <3> QED
      BY <3>3, <3>4, <3>5, <3>6
  <2> QED
    BY <2>4, <2>5, <2>6, <2>7 DEF DinoInv
<1> QED
  BY <1>2, <1>10, <1>11, <1>12

\* A check, of whatever dino that is not destroyed.
LEMMA CheckKeeps ==
  ASSUME TamedIInv, NEW d \in Dino, Check(d), body[d] # "destroyed",
         UNCHANGED <<body, cut, reports, unqueued, credited, named>>
  PROVE  /\ past' \subseteq Folders /\ dinoFolder' \in past'
         /\ tamed_queue' \subseteq Dino /\ tamed_queue \subseteq tamed_queue'
         /\ checked' \subseteq Dino /\ relisted' \subseteq Dino
         /\ \A e \in Dino : DinoInv(e)'
<1>1. /\ past \subseteq Folders /\ dinoFolder \in past /\ tamed_queue \subseteq Dino
      /\ checked \subseteq Dino /\ relisted \subseteq Dino
  BY TamedTypesAre DEF TamedIInv
<1>2. CASE GotFolder(d)
  <2>1. UNCHANGED <<dinoFolder, past, tamed_queue>>
    BY <1>2 DEF Check, folderVars
  <2>2. checked' \subseteq checked \cup {d} /\ relisted' \subseteq relisted \cup {d}
    BY DEF Check
  <2>3. \A e \in Dino : DinoInv(e)'
    BY <1>2, CheckFinds
  <2> QED
    BY <1>1, <2>1, <2>2, <2>3
<1>3. CASE ~GotFolder(d)
  <2>1. tamed_queue' = tamed_queue \cup {d}
    BY <1>3 DEF Check
  <2>2. checked' \subseteq checked \cup {d} /\ relisted' \subseteq relisted \cup {d}
    BY DEF Check
  <2>3. /\ past' \subseteq Folders /\ dinoFolder' \in past'
        /\ \A e \in Dino : DinoInv(e)'
    BY <1>3, CheckGives
  <2> QED
    BY <1>1, <2>1, <2>2, <2>3
<1> QED
  BY <1>2, <1>3

\* A tame that the server sets up, and a look into an inventory.
LEMMA ChecksKeep ==
  ASSUME TamedIInv, bound' = bound, NEW d \in Dino,
         View(d) \/ \E o \in {"wild", "auto", "player", "tribe"} : SetupTamed(d, o)
  PROVE  TamedIInv'
<1>1. TamedTypes
  BY DEF TamedIInv
<1>2. CASE View(d)
  <2>1. /\ Check(d) /\ body[d] # "destroyed"
        /\ UNCHANGED <<owner, body, cursor, reports, restarts, cut, unqueued, credited, named>>
    BY <1>2 DEF View
  <2>2. /\ past' \subseteq Folders /\ dinoFolder' \in past'
        /\ tamed_queue' \subseteq Dino /\ tamed_queue \subseteq tamed_queue'
        /\ checked' \subseteq Dino /\ relisted' \subseteq Dino
        /\ \A e \in Dino : DinoInv(e)'
    BY <2>1, CheckKeeps
  <2>3. TamedTypes'
    BY <1>1, <2>1, <2>2, TamedTypesAre, TamedTypesHold
  <2> QED
    BY <2>2, <2>3 DEF TamedIInv
<1>3. ASSUME NEW o \in {"wild", "auto", "player", "tribe"}, SetupTamed(d, o)
      PROVE  TamedIInv'
  <2>1. /\ body[d] = "alive" /\ owner' = [owner EXCEPT ![d] = o]
        /\ UNCHANGED <<body, cursor, reports, restarts, cut, unqueued, credited, named>>
    BY <1>3 DEF SetupTamed
  <2>2. owner' \in [Dino -> {"wild", "auto", "player", "tribe"}]
    BY <1>1, <2>1, TamedTypesAre
  <2>3. CASE Check(d)
    <3>1. /\ past' \subseteq Folders /\ dinoFolder' \in past'
          /\ tamed_queue' \subseteq Dino /\ tamed_queue \subseteq tamed_queue'
          /\ checked' \subseteq Dino /\ relisted' \subseteq Dino
          /\ \A e \in Dino : DinoInv(e)'
      BY <2>1, <2>3, CheckKeeps
    <3>2. TamedTypes'
      BY <1>1, <2>1, <2>2, <3>1, TamedTypesAre, TamedTypesHold
    <3> QED
      BY <3>1, <3>2 DEF TamedIInv
  <2>4. CASE UNCHANGED <<folderVars, tamed_queue, checked, relisted>>
    <3>1. UNCHANGED <<dinoFolder, past, tamed_queue, checked, relisted>>
      BY <2>4 DEF folderVars
    <3>2. TamedTypes'
      BY <1>1, <2>1, <2>2, <3>1, TamedTypesAre, TamedTypesHold
    <3>3. ASSUME NEW e \in Dino PROVE DinoInv(e)'
      BY <2>1, <3>1, DinoKept DEF TamedIInv
    <3> QED
      BY <3>2, <3>3 DEF TamedIInv
  <2> QED
    BY <1>3, <2>3, <2>4 DEF SetupTamed
<1> QED
  BY <1>2, <1>3

\* What a folder with one of the plugin's names, which a player has added, changes.
LEMMA NamedFolder ==
  ASSUME TamedIInv, bound' = bound, NEW d \in Dino, NEW k \in {"hp", "oxy"},
         AddCustomFolder(d, k)
  PROVE  /\ past' \subseteq Folders /\ dinoFolder' \in past'
         /\ named' \in [Dino -> 0 .. bound.named]
         /\ \A e \in Dino : DinoInv(e)'
<1> DEFINE m == AddFolder(dinoFolder, d, k)
<1>1. /\ Stored(<<m>>) /\ named[d] < bound.named /\ named' = [named EXCEPT ![d] = @ + 1]
      /\ UNCHANGED <<body, tamed_queue, reports, checked, cut, relisted, unqueued, credited>>
  BY DEF AddCustomFolder
<1>2. /\ past \subseteq Folders /\ dinoFolder \in past /\ dinoFolder \in [Dino -> [Kind -> Nat]]
      /\ named \in [Dino -> 0 .. bound.named] /\ bound.named \in Nat
      /\ reports[d] \in Nat /\ cut[d] \in Nat
  BY TamedTypesAre DEF TamedIInv, Folders
<1>3. "hp" \in Kind /\ "oxy" \in Kind /\ k \in Kind
  BY DEF Kind
<1>4. /\ m \in [Dino -> [Kind -> Nat]] /\ m[d][k] = dinoFolder[d][k] + 1
      /\ \A j \in Kind : j # k => m[d][j] = dinoFolder[d][j]
      /\ \A e \in Dino : e # d => m[e] = dinoFolder[e]
  BY <1>2, <1>3, FolderAdded
<1> HIDE DEF m
<1>5. /\ dinoFolder' = m /\ dinoFolder' \in past'
      /\ \A f \in past' : f \in past \/ f = m
  <2>1. Len(<<m>>) = 1 /\ <<m>>[1] = m /\ (\A i \in 1 .. 1 : <<m>>[i] = m) /\ 1 \in 1 .. 1
    OBVIOUS
  <2>2. /\ dinoFolder' = m
        /\ past' = {dinoFolder'} \/ past' = past \cup {<<m>>[i] : i \in 1 .. 1}
    BY <1>1, <2>1 DEF Stored
  <2> QED
    BY <2>1, <2>2
<1>6. past' \subseteq Folders
  BY <1>2, <1>4, <1>5 DEF Folders
<1>7. named[d] \in Nat /\ named'[d] = named[d] + 1 /\ named' \in [Dino -> 0 .. bound.named]
  BY <1>1, <1>2
<1>8. ASSUME NEW e \in Dino, e # d PROVE DinoInv(e)'
  <2>1. DinoInv(e) /\ named'[e] = named[e]
    BY <1>1, <1>2, <1>8 DEF TamedIInv
  <2>2. dinoFolder'[e]["hp"] = dinoFolder[e]["hp"] /\ dinoFolder'[e]["oxy"] = dinoFolder[e]["oxy"]
    BY <1>4, <1>5, <1>8
  <2>3. ASSUME NEW f \in past'
        PROVE  \E g \in past : f[e]["hp"] = g[e]["hp"] /\ f[e]["oxy"] = g[e]["oxy"]
    BY <1>2, <1>4, <1>5, <1>8
  <2> QED
    BY <1>1, <2>1, <2>2, <2>3, DinoKept
<1>9. DinoInv(d)'
  <2>1. Budget(d) /\ Unlisted(d) /\ Grown(d) /\ Whole(d)
    BY DEF TamedIInv, DinoInv
  <2>2. PICK a \in Nat, b \in Nat : a = dinoFolder[d]["hp"] /\ b = dinoFolder[d]["oxy"]
    BY <1>2, <1>3
  <2>3. PICK p \in Nat, q \in Nat : p = m[d]["hp"] /\ q = m[d]["oxy"]
    BY <1>3, <1>4
  <2>4. (p = a + 1 /\ q = b) \/ (p = a /\ q = b + 1)
    BY <1>3, <1>4, <2>2, <2>3
  <2>5. GotFolder(d) => GotFolder(d)'
    BY <1>5, <2>2, <2>3, <2>4 DEF GotFolder
  <2>6. Budget(d)'
    BY <1>1, <2>1, <2>5 DEF Budget, Listings, Losses, Credits
  <2>7. Unlisted(d)'
    <3>1. Credits(d)' = Credits(d)
      BY <1>1 DEF Credits
    <3>2. ASSUME ~Listed(d)', NEW f \in past' PROVE f[d]["hp"] + f[d]["oxy"] <= named'[d]
      <4>1. ~Listed(d)
        BY <1>1, <3>1, <3>2 DEF Listed
      <4>2. ASSUME NEW g \in past PROVE g[d]["hp"] + g[d]["oxy"] <= named[d]
        BY <2>1, <4>1 DEF Unlisted
      <4>3. CASE f \in past
        <5>1. f[d]["hp"] \in Nat /\ f[d]["oxy"] \in Nat
          BY <1>2, <1>3, <4>3 DEF Folders
        <5>2. PICK x \in Nat, y \in Nat : x = f[d]["hp"] /\ y = f[d]["oxy"]
          BY <5>1
        <5> QED
          BY <1>7, <4>2, <4>3, <5>2
      <4>4. CASE f = m
        <5>1. a + b <= named[d]
          BY <1>2, <2>2, <4>2
        <5>2. p + q = (a + b) + 1
          BY ONLY <2>4, a \in Nat, b \in Nat
        <5>3. p + q <= named'[d]
          BY ONLY <1>7, <5>1, <5>2, a \in Nat, b \in Nat
        <5> QED
          BY <2>3, <4>4, <5>3
      <4> QED
        BY <1>5, <3>2, <4>3, <4>4
    <3> QED
      BY <1>1, <2>1, <3>1, <3>2 DEF Unlisted
  <2>8. Grown(d)'
    <3> SUFFICES ASSUME body[d] = "alive" PROVE Grown(d)'
      BY <1>1 DEF Grown
    <3>1. ASSUME NEW f \in past PROVE f[d]["hp"] <= p /\ f[d]["oxy"] <= q
      <4>1. f[d]["hp"] \in Nat /\ f[d]["oxy"] \in Nat /\ f[d]["hp"] <= a /\ f[d]["oxy"] <= b
        BY <1>2, <1>3, <2>1, <2>2 DEF Grown, Folders
      <4>2. PICK x \in Nat, y \in Nat : x = f[d]["hp"] /\ y = f[d]["oxy"]
        BY <4>1
      <4>3. x <= a /\ y <= b
        BY <4>1, <4>2
      <4>4. x <= p /\ y <= q
        BY ONLY <2>4, <4>3, a \in Nat, b \in Nat, x \in Nat, y \in Nat
      <4> QED
        BY <4>2, <4>4
    <3>2. \A f \in past' : f[d]["hp"] <= p /\ f[d]["oxy"] <= q
      BY <1>5, <2>3, <3>1
    <3> QED
      BY <1>1, <1>5, <2>1, <2>3, <2>5, <3>2 DEF Grown
  <2>9. Whole(d)'
    <3> SUFFICES ASSUME body[d] = "alive" PROVE Whole(d)'
      BY <1>1 DEF Whole
    <3>1. CASE cut[d] = 0 /\ named[d] = 0
      <4>1. Stats(dinoFolder, d) = <<a, b>> /\ Stats(dinoFolder, d)' = <<p, q>>
        BY <1>5, <2>2, <2>3 DEF Stats
      <4>2. (a = 0 /\ b = 0) \/ (a = 1 /\ b = 1)
        BY <2>1, <3>1, <4>1 DEF Whole
      <4>3. <<p, q>> \in {<<1, 0>>, <<0, 1>>, <<2, 1>>, <<1, 2>>}
        BY <2>4, <4>2
      <4>4. named'[d] = 1
        BY <1>7, <3>1
      <4> QED
        BY <4>1, <4>3, <4>4 DEF Whole
    <3>2. CASE ~(cut[d] = 0 /\ named[d] = 0)
      <4>1. named'[d] # 0
        BY <1>7
      <4>2. ~(cut'[d] = 0 /\ named'[d] = 1)
        <5>1. cut' = cut
          BY <1>1
        <5> QED
          BY <1>7, <3>2, <5>1
      <4> QED
        BY <4>1, <4>2 DEF Whole
    <3> QED
      BY <3>1, <3>2
  <2> QED
    BY <2>6, <2>7, <2>8, <2>9 DEF DinoInv
<1> QED
  BY <1>5, <1>6, <1>7, <1>8, <1>9

\* The players' own folders come and go.
LEMMA CustomFoldersKeep ==
  ASSUME TamedIInv, bound' = bound, NEW d \in Dino, NEW k \in Kind,
         AddCustomFolder(d, k) \/ DeleteCustomFolder(d, k)
  PROVE  TamedIInv'
<1>1. TamedTypes
  BY DEF TamedIInv
<1>2. dinoFolder \in [Dino -> [Kind -> Nat]]
  BY <1>1, TamedTypesAre DEF Folders
<1>3. "hp" \in Kind /\ "oxy" \in Kind /\ "other" \in Kind
  BY DEF Kind
<1>4. UNCHANGED <<owner, body, tamed_queue, cursor, reports, restarts, checked, cut, relisted,
                  unqueued, credited>>
  BY DEF AddCustomFolder, DeleteCustomFolder, history
<1>5. ASSUME NEW m \in Folders, Stored(<<m>>) \/ UNCHANGED folderVars, named' = named,
             \A e \in Dino : m[e]["hp"] = dinoFolder[e]["hp"] /\ m[e]["oxy"] = dinoFolder[e]["oxy"]
      PROVE  TamedIInv'
  <2>1. past' \subseteq Folders /\ dinoFolder' \in past' /\ \A e \in Dino : DinoInv(e)'
    BY <1>4, <1>5, FoldersKept
  <2>2. TamedTypes'
    BY <1>1, <1>4, <1>5, <2>1, TamedTypesAre, TamedTypesHold
  <2> QED
    BY <2>1, <2>2 DEF TamedIInv
<1>6. CASE AddCustomFolder(d, k) /\ k = "other"
  <2> DEFINE m == AddFolder(dinoFolder, d, "other")
  <2>1. Stored(<<m>>) /\ named' = named
    BY <1>6 DEF AddCustomFolder
  <2>2. /\ m \in [Dino -> [Kind -> Nat]]
        /\ \A j \in Kind : j # "other" => m[d][j] = dinoFolder[d][j]
        /\ \A e \in Dino : e # d => m[e] = dinoFolder[e]
    BY <1>2, <1>3, FolderAdded
  <2> HIDE DEF m
  <2>3. m[d]["hp"] = dinoFolder[d]["hp"] /\ m[d]["oxy"] = dinoFolder[d]["oxy"]
    BY <1>3, <2>2
  <2>4. m \in Folders
    BY <2>2 DEF Folders
  <2> QED
    BY <1>5, <2>1, <2>2, <2>3, <2>4
<1>7. CASE AddCustomFolder(d, k) /\ k \in {"hp", "oxy"}
  <2>1. /\ past' \subseteq Folders /\ dinoFolder' \in past'
        /\ named' \in [Dino -> 0 .. bound.named]
        /\ \A e \in Dino : DinoInv(e)'
    BY <1>7, NamedFolder
  <2>2. TamedTypes'
    BY <1>1, <1>4, <2>1, TamedTypesAre, TamedTypesHold
  <2> QED
    BY <2>1, <2>2 DEF TamedIInv
<1>8. CASE DeleteCustomFolder(d, k)
  <2>1. named' = named
    BY <1>8 DEF DeleteCustomFolder, history
  <2>2. CASE UNCHANGED folderVars
    BY <1>2, <1>5, <2>1, <2>2 DEF Folders
  <2>3. CASE k = "other" /\ dinoFolder[d][k] > 0
             /\ Stored(<<[dinoFolder EXCEPT ![d][k] = @ - 1]>>)
    <3> DEFINE c == [dinoFolder[d] EXCEPT !["other"] = @ - 1]
               m == [dinoFolder EXCEPT ![d] = c]
    <3>1. dinoFolder[d] \in [Kind -> Nat]
      BY <1>2
    <3>2. dinoFolder[d]["other"] \in Nat /\ dinoFolder[d]["other"] > 0
      BY <1>3, <2>3, <3>1
    <3>3. c \in [Kind -> Nat] /\ c["hp"] = dinoFolder[d]["hp"] /\ c["oxy"] = dinoFolder[d]["oxy"]
      BY <1>3, <3>1, <3>2
    <3>4. Stored(<<m>>)
      BY <2>3
    <3> HIDE DEF c
    <3>5. /\ m \in [Dino -> [Kind -> Nat]] /\ m[d] = c
          /\ \A e \in Dino : e # d => m[e] = dinoFolder[e]
      BY <1>2, <3>3
    <3> HIDE DEF m
    <3>6. m \in Folders
      BY <3>5 DEF Folders
    <3> QED
      BY <1>5, <2>1, <3>3, <3>4, <3>5, <3>6
  <2> QED
    BY <1>8, <2>2, <2>3 DEF DeleteCustomFolder, MayDelete
<1>9. k = "other" \/ k \in {"hp", "oxy"}
  BY DEF Kind
<1> QED
  BY <1>6, <1>7, <1>8, <1>9

\* A player has the credit for a tame, which is reported.
LEMMA CreditedTameKeeps ==
  ASSUME TamedIInv, bound' = bound, NEW d \in Dino, NEW o \in {"player", "tribe"},
         CreditedTame(d, o)
  PROVE  TamedIInv'
<1>1. TamedTypes
  BY DEF TamedIInv
<1>2. /\ d \notin credited /\ owner' = [owner EXCEPT ![d] = o]
      /\ reports' = [reports EXCEPT ![d] = @ + 1] /\ credited' = credited \cup {d}
      /\ UNCHANGED <<body, dinoFolder, past, tamed_queue, cursor, restarts, checked, cut,
                     relisted, unqueued, named>>
  BY DEF CreditedTame, folderVars
<1>3. /\ reports \in [Dino -> Nat] /\ owner \in [Dino -> {"wild", "auto", "player", "tribe"}]
      /\ cut[d] \in Nat /\ credited \subseteq Dino
  BY <1>1, TamedTypesAre
<1>4. /\ reports' \in [Dino -> Nat] /\ owner' \in [Dino -> {"wild", "auto", "player", "tribe"}]
      /\ credited' \subseteq Dino
  BY <1>2, <1>3
<1>5. TamedTypes'
  BY <1>1, <1>2, <1>4, TamedTypesAre, TamedTypesHold
<1>6. ASSUME NEW e \in Dino, e # d PROVE DinoInv(e)'
  <2>1. DinoInv(e) /\ reports'[e] = reports[e] /\ (e \in credited' <=> e \in credited)
    BY <1>2, <1>3, <1>6 DEF TamedIInv
  <2> QED
    BY <1>2, <2>1, DinoKept
<1>7. DinoInv(d)'
  <2>1. Budget(d) /\ Unlisted(d) /\ Grown(d) /\ Whole(d)
    BY DEF TamedIInv, DinoInv
  <2>2. reports[d] \in Nat /\ reports'[d] = reports[d] + 1
    BY <1>2, <1>3
  <2>3. Credits(d) = 0 /\ Credits(d)' = 1
    BY <1>2 DEF Credits
  <2>4. GotFolder(d)' <=> GotFolder(d)
    BY <1>2 DEF GotFolder
  <2>5. /\ Listings(d) \in Nat /\ Losses(d) \in Nat
        /\ Listings(d)' = Listings(d) + 1 /\ Losses(d)' = Losses(d) + 1
    BY <1>2, <1>3, <2>2, <2>3 DEF Listings, Losses
  <2>6. Budget(d)'
    BY <1>2, <2>1, <2>4, <2>5 DEF Budget
  <2>7. Unlisted(d)'
    <3>1. Listed(d)' <=> Listed(d)
      BY <1>2, <2>2, <2>3 DEF Listed
    <3> QED
      BY <1>2, <2>1, <2>2, <2>3, <3>1 DEF Unlisted
  <2>8. Grown(d)' /\ Whole(d)'
    BY <1>2, <2>1, <2>4 DEF Grown, Whole, Stats
  <2> QED
    BY <2>6, <2>7, <2>8 DEF DinoInv
<1> QED
  BY <1>5, <1>6, <1>7 DEF TamedIInv

\* A dino dies with its folders.
LEMMA DieKeeps ==
  ASSUME TamedIInv, bound' = bound, NEW d \in Dino, Die(d)
  PROVE  TamedIInv'
<1>1. TamedTypes
  BY DEF TamedIInv
<1> DEFINE m == [dinoFolder EXCEPT ![d] = None[d]]
<1>2. /\ body[d] = "alive" /\ body' = [body EXCEPT ![d] = "dead"] /\ Stored(<<m>>)
      /\ UNCHANGED <<owner, tamed_queue, cursor, reports, restarts, checked, cut, relisted,
                     unqueued, credited, named>>
  BY DEF Die, history
<1>3. /\ past \subseteq Folders /\ dinoFolder \in past /\ dinoFolder \in Folders
      /\ body \in [Dino -> {"alive", "dead", "destroyed"}] /\ named[d] \in Nat
  BY <1>1, TamedTypesAre
<1>4. None[d] \in [Kind -> Nat] /\ None[d]["hp"] = 0 /\ None[d]["oxy"] = 0
  BY DEF None, Kind
<1>5. /\ m \in Folders /\ m[d] = None[d]
      /\ \A e \in Dino : e # d => m[e] = dinoFolder[e]
  BY <1>3, <1>4 DEF Folders
<1> HIDE DEF m
<1>6. /\ dinoFolder' = m /\ dinoFolder' \in past'
      /\ \A f \in past' : f \in past \/ f = m
  <2>1. Len(<<m>>) = 1 /\ <<m>>[1] = m /\ (\A i \in 1 .. 1 : <<m>>[i] = m) /\ 1 \in 1 .. 1
    OBVIOUS
  <2>2. /\ dinoFolder' = m
        /\ past' = {dinoFolder'} \/ past' = past \cup {<<m>>[i] : i \in 1 .. 1}
    BY <1>2, <2>1 DEF Stored
  <2> QED
    BY <2>1, <2>2
<1>7. TamedTypes'
  <2>1. body' \in [Dino -> {"alive", "dead", "destroyed"}] /\ past' \subseteq Folders
    BY <1>2, <1>3, <1>5, <1>6
  <2> QED
    BY <1>1, <1>2, <1>6, <2>1, TamedTypesAre, TamedTypesHold
<1>8. ASSUME NEW e \in Dino, e # d PROVE DinoInv(e)'
  <2>1. DinoInv(e) /\ body'[e] = body[e]
    BY <1>2, <1>3, <1>8 DEF TamedIInv
  <2>2. dinoFolder'[e]["hp"] = dinoFolder[e]["hp"] /\ dinoFolder'[e]["oxy"] = dinoFolder[e]["oxy"]
    BY <1>5, <1>6, <1>8
  <2>3. ASSUME NEW f \in past'
        PROVE  \E g \in past : f[e]["hp"] = g[e]["hp"] /\ f[e]["oxy"] = g[e]["oxy"]
    BY <1>3, <1>5, <1>6, <1>8
  <2> QED
    BY <1>2, <2>1, <2>2, <2>3, DinoKept
<1>9. DinoInv(d)'
  <2>1. Budget(d) /\ Unlisted(d) /\ d \notin relisted
    BY <1>2 DEF TamedIInv, DinoInv, Grown
  <2>2. body'[d] = "dead"
    BY <1>2, <1>3
  <2>3. Budget(d)'
    BY <1>2, <2>1, <2>2 DEF Budget, Listings, Losses, Credits
  <2>4. Unlisted(d)'
    <3>1. m[d]["hp"] + m[d]["oxy"] <= named[d]
      BY <1>3, <1>4, <1>5
    <3>2. (Listed(d)' <=> Listed(d)) /\ Credits(d)' = Credits(d)
      BY <1>2 DEF Listed, Credits
    <3> QED
      BY <1>2, <1>6, <2>1, <3>1, <3>2 DEF Unlisted
  <2>5. Grown(d)' /\ Whole(d)'
    BY <2>2 DEF Grown, Whole
  <2> QED
    BY <2>3, <2>4, <2>5 DEF DinoInv
<1> QED
  BY <1>7, <1>8, <1>9 DEF TamedIInv

\* A dino is claimed, or destroyed.
LEMMA ClaimKeeps ==
  ASSUME TamedIInv, bound' = bound, NEW d \in Dino,
         Destroy(d) \/ \E o \in {"player", "tribe"} : Claim(d, o)
  PROVE  TamedIInv'
<1>1. TamedTypes
  BY DEF TamedIInv
<1>2. UNCHANGED <<dinoFolder, past, tamed_queue, cursor, reports, restarts, checked, cut, relisted,
                  unqueued, credited, named>>
  BY DEF Destroy, Claim, folderVars, history
<1>3. /\ body \in [Dino -> {"alive", "dead", "destroyed"}]
      /\ owner \in [Dino -> {"wild", "auto", "player", "tribe"}]
  BY <1>1, TamedTypesAre
<1>4. /\ body' = body \/ body' = [body EXCEPT ![d] = "destroyed"]
      /\ owner' \in [Dino -> {"wild", "auto", "player", "tribe"}]
  BY <1>3 DEF Destroy, Claim
<1>5. /\ body' \in [Dino -> {"alive", "dead", "destroyed"}]
      /\ \A e \in Dino : body'[e] = body[e] \/ (e = d /\ body'[e] = "destroyed")
  BY <1>3, <1>4
<1>6. TamedTypes'
  BY <1>1, <1>2, <1>4, <1>5, TamedTypesAre, TamedTypesHold
<1>7. ASSUME NEW e \in Dino PROVE DinoInv(e)'
  <2>1. DinoInv(e)
    BY DEF TamedIInv
  <2>2. CASE body'[e] = body[e]
    BY <1>2, <2>1, <2>2, DinoKept
  <2>3. CASE body'[e] = "destroyed"
    <3>1. Budget(e)'
      BY <1>2, <2>1, <2>3 DEF DinoInv, Budget, Listings, Losses, Credits, GotFolder
    <3>2. Unlisted(e)'
      BY <1>2, <2>1 DEF DinoInv, Unlisted, Listed, Credits
    <3>3. Grown(e)' /\ Whole(e)'
      BY <2>3 DEF Grown, Whole
    <3> QED
      BY <3>1, <3>2, <3>3 DEF DinoInv
  <2> QED
    BY <1>5, <2>2, <2>3
<1> QED
  BY <1>6, <1>7 DEF TamedIInv

\* Where the timer goes.
LEMMA ToIn ==
  ASSUME NEW S, NEW x, To(x), x = End \/ x \in S
  PROVE  cursor' \in {0} \cup S
BY DEF To

\* The timer begins, or passes a dino.
LEMMA TimerPassKeeps ==
  ASSUME TamedIInv, bound' = bound, TimerBegins \/ TimerPasses
  PROVE  TamedIInv'
<1>1. TamedTypes
  BY DEF TamedIInv
<1>2. UNCHANGED <<owner, body, dinoFolder, past, tamed_queue, reports, restarts, checked, cut,
                  relisted, unqueued, credited, named>>
  BY DEF TimerBegins, TimerPasses, folderVars, history
<1>3. bound \in Bounds /\ tamed_queue \in SUBSET Dino
  BY <1>1, TamedTypesAre
<1>4. PICK x : To(x) /\ (x = After(tamed_queue, 0) \/ x = After(tamed_queue, cursor))
  BY DEF TimerBegins, TimerPasses
<1>5. x = End \/ x \in tamed_queue
  BY <1>3, <1>4, AfterIn
<1>6. cursor' \in {0} \cup tamed_queue'
  BY <1>2, <1>4, <1>5, ToIn
<1>7. TamedTypes'
  BY <1>1, <1>2, <1>6, TamedTypesAre, TamedTypesHold
<1>8. ASSUME NEW e \in Dino PROVE DinoInv(e)'
  BY <1>2, DinoKept DEF TamedIInv
<1> QED
  BY <1>7, <1>8 DEF TamedIInv

\* The timer reports a dino, and takes it from the queue.
LEMMA TimerReportKeeps ==
  ASSUME TamedIInv, bound' = bound, TimerReports
  PROVE  TamedIInv'
<1>1. TamedTypes
  BY DEF TamedIInv
<1>2. /\ cursor # 0 /\ reports' = [reports EXCEPT ![cursor] = @ + 1]
      /\ tamed_queue' = tamed_queue \ {cursor}
      /\ UNCHANGED <<owner, body, dinoFolder, past, restarts, checked, cut, relisted, unqueued,
                     credited, named>>
  BY DEF TimerReports, folderVars, history
<1>3. /\ bound \in Bounds /\ tamed_queue \in SUBSET Dino /\ cursor \in tamed_queue
      /\ cursor \in Dino /\ reports \in [Dino -> Nat]
  BY <1>1, <1>2, TamedTypesAre
<1>4. cursor' \in {0} \cup tamed_queue'
  <2> DEFINE next == After(tamed_queue', cursor)
  <2>1. IF next # End THEN To(After(tamed_queue', next))
        ELSE \E e \in tamed_queue' \cup {End} : To(e)
    BY DEF TimerReports
  <2>2. tamed_queue' \in SUBSET Dino
    BY <1>2, <1>3
  <2>3. After(tamed_queue', next) = End \/ After(tamed_queue', next) \in tamed_queue'
    BY <1>3, <2>2, AfterIn
  <2>4. CASE next # End
    BY <2>1, <2>3, <2>4, ToIn
  <2>5. CASE next = End
    <3>1. PICK e \in tamed_queue' \cup {End} : To(e)
      BY <2>1, <2>5
    <3> QED
      BY <3>1, ToIn
  <2> QED
    BY <2>4, <2>5
<1>5. TamedTypes'
  <2>1. reports' \in [Dino -> Nat] /\ tamed_queue' \subseteq Dino
    BY <1>2, <1>3
  <2> QED
    BY <1>1, <1>2, <1>4, <2>1, TamedTypesAre, TamedTypesHold
<1>6. ASSUME NEW e \in Dino PROVE DinoInv(e)'
  <2>1. DinoInv(e)
    BY DEF TamedIInv
  <2>2. CASE e # cursor
    <3>1. reports'[e] = reports[e] /\ (e \in tamed_queue' <=> e \in tamed_queue)
      BY <1>2, <1>3, <2>2
    <3> QED
      BY <1>2, <2>1, <3>1, DinoKept
  <2>3. CASE e = cursor
    <3>1. reports'[e] = reports[e] + 1 /\ e \notin tamed_queue' /\ e \in tamed_queue
          /\ reports[e] \in Nat
      BY <1>2, <1>3, <2>3
    <3>2. Listings(e)' = Listings(e) /\ Losses(e)' = Losses(e) /\ Credits(e)' = Credits(e)
      BY <1>2, <3>1 DEF Listings, Losses, Credits
    <3>3. GotFolder(e)' <=> GotFolder(e)
      BY <1>2 DEF GotFolder
    <3>4. Budget(e)'
      BY <1>2, <2>1, <3>2, <3>3 DEF DinoInv, Budget
    <3>5. Unlisted(e)'
      <4>1. Credits(e) \in Nat /\ Credits(e) <= reports[e]
        BY <2>1 DEF DinoInv, Unlisted, Credits
      <4>2. reports'[e] > Credits(e)'
        BY <3>1, <3>2, <4>1
      <4> QED
        BY <3>1, <3>2, <4>1, <4>2 DEF Unlisted, Listed
    <3>6. Grown(e)' /\ Whole(e)'
      BY <1>2, <2>1, <3>3 DEF DinoInv, Grown, Whole, Stats
    <3> QED
      BY <3>4, <3>5, <3>6 DEF DinoInv
  <2> QED
    BY <2>2, <2>3
<1> QED
  BY <1>5, <1>6 DEF TamedIInv

\* The plugin starts again, and finds the folders as they were at some time.
LEMMA RestartKeeps ==
  ASSUME TamedIInv, bound' = bound, Restart
  PROVE  TamedIInv'
<1>1. TamedTypes
  BY DEF TamedIInv
<1>2. PICK found \in past :
        /\ dinoFolder' = found /\ past' = {found}
        /\ cut' = [d \in Dino |-> IF Fewer(found[d], dinoFolder[d]) THEN cut[d] + 1 ELSE cut[d]]
  BY DEF Restart
<1>3. /\ cursor = 0 /\ restarts < bound.restarts /\ restarts' = restarts + 1
      /\ tamed_queue' = {} /\ checked' = {} /\ unqueued' = unqueued \cup tamed_queue
      /\ UNCHANGED <<owner, body, cursor, reports, relisted, credited, named>>
  BY DEF Restart
<1>4. /\ past \subseteq Folders /\ dinoFolder \in Folders
      /\ cut \in [Dino -> 0 .. bound.restarts] /\ (\A d \in Dino : cut[d] <= restarts)
      /\ bound.restarts \in Nat /\ restarts \in 0 .. bound.restarts
      /\ reports \in [Dino -> Nat] /\ unqueued \subseteq Dino /\ tamed_queue \subseteq Dino
  BY <1>1, TamedTypesAre
<1>5. \A d \in Dino : /\ cut[d] \in Nat /\ cut[d] <= restarts
                      /\ cut'[d] = IF Fewer(found[d], dinoFolder[d]) THEN cut[d] + 1 ELSE cut[d]
  BY <1>2, <1>4
<1>6. TamedTypes'
  <2>1. \A d \in Dino : cut'[d] \in Nat /\ cut'[d] <= restarts'
    BY <1>3, <1>4, <1>5
  <2>2. restarts' \in 0 .. bound.restarts
    BY <1>3, <1>4
  <2>3. \A d \in Dino : cut'[d] \in 0 .. bound.restarts
    BY <1>4, <2>1, <2>2
  <2>4. cut' \in [Dino -> 0 .. bound.restarts]
    BY <1>2, <2>3
  <2>5. past' \subseteq Folders /\ dinoFolder' \in past'
    BY <1>2, <1>4
  <2> QED
    BY <1>1, <1>3, <1>4, <2>1, <2>2, <2>4, <2>5, TamedTypesAre, TamedTypesHold
<1>7. ASSUME NEW d \in Dino PROVE DinoInv(d)'
  <2>1. Budget(d) /\ Unlisted(d) /\ Grown(d) /\ Whole(d)
    BY DEF TamedIInv, DinoInv
  <2>2. /\ found[d]["hp"] \in Nat /\ found[d]["oxy"] \in Nat
        /\ dinoFolder[d]["hp"] \in Nat /\ dinoFolder[d]["oxy"] \in Nat
    BY <1>4 DEF Folders, Kind
  <2>3. Losses(d) \in Nat /\ Listings(d) \in Nat /\ Listings(d)' \in Nat
        /\ Listings(d)' <= Listings(d) /\ Listings(d) <= 1 + Losses(d)
    <3>1. Credits(d) \in Nat
      BY DEF Credits
    <3> QED
      BY <1>3, <1>4, <1>5, <2>1, <3>1 DEF Losses, Listings, Budget
  <2>4. ASSUME Fewer(found[d], dinoFolder[d]) PROVE Budget(d)' /\ Whole(d)'
    <3>1. cut'[d] = cut[d] + 1 /\ cut[d] \in Nat
      BY <1>5, <2>4
    <3>2. Budget(d)'
      <4>1. Losses(d)' = Losses(d) + 1
        <5>1. Credits(d) \in Nat /\ Credits(d)' = Credits(d)
          BY <1>3 DEF Credits
        <5> QED
          BY <1>3, <3>1, <5>1 DEF Losses
      <4>2. Listings(d)' <= Losses(d)' /\ Losses(d)' \in Nat
        BY ONLY <2>3, <4>1
      <4>3. Listings(d)' <= 1 + Losses(d)'
        BY ONLY <2>3, <4>2
      <4> QED
        BY <4>2, <4>3 DEF Budget
    <3>3. Whole(d)'
      <4>1. body'[d] = "alive" /\ cut'[d] = 1 /\ named'[d] = 0 =>
              Stats(found, d) \in {<<0, 0>>, <<1, 0>>, <<1, 1>>}
        BY <1>2, <1>3, <2>1, <3>1 DEF Whole
      <4>2. Stats(dinoFolder', d) = Stats(found, d)
        BY <1>2 DEF Stats
      <4>3. cut'[d] # 0
        BY <3>1
      <4> QED
        BY <4>1, <4>2, <4>3 DEF Whole
    <3> QED
      BY <3>2, <3>3
  <2>5. ASSUME ~Fewer(found[d], dinoFolder[d]) PROVE Budget(d)' /\ Whole(d)'
    <3>1. /\ cut'[d] = cut[d]
          /\ found[d]["hp"] >= dinoFolder[d]["hp"] /\ found[d]["oxy"] >= dinoFolder[d]["oxy"]
      BY <1>5, <2>2, <2>5 DEF Fewer
    <3>2. Budget(d)'
      <4>1. Losses(d)' = Losses(d)
        BY <1>3, <3>1 DEF Losses, Credits
      <4>2. GotFolder(d) => GotFolder(d)'
        BY <1>2, <2>2, <3>1 DEF GotFolder
      <4>3. Listings(d)' <= 1 + Losses(d)'
        BY ONLY <2>3, <4>1
      <4>4. Listings(d) <= Losses(d) => Listings(d)' <= Losses(d)'
        BY ONLY <2>3, <4>1
      <4> QED
        BY <1>3, <2>1, <4>2, <4>3, <4>4 DEF Budget
    <3>3. Whole(d)'
      <4> SUFFICES ASSUME body[d] = "alive" PROVE Whole(d)'
        BY <1>3 DEF Whole
      <4>1. found[d]["hp"] = dinoFolder[d]["hp"] /\ found[d]["oxy"] = dinoFolder[d]["oxy"]
        BY <1>2, <2>1, <2>2, <3>1 DEF Grown
      <4>2. Stats(dinoFolder', d) = Stats(dinoFolder, d) /\ Stats(found, d) = Stats(dinoFolder, d)
        BY <1>2, <4>1 DEF Stats
      <4>3. /\ cut[d] = 0 /\ named[d] = 0 => Stats(dinoFolder, d) \in {<<0, 0>>, <<1, 1>>}
            /\ cut[d] = 1 /\ named[d] = 0 =>
                 Stats(dinoFolder, d) \in {<<0, 0>>, <<1, 0>>, <<1, 1>>, <<2, 1>>}
            /\ cut[d] = 0 /\ named[d] = 1 =>
                 Stats(dinoFolder, d) \in {<<1, 0>>, <<0, 1>>, <<2, 1>>, <<1, 2>>}
        BY <2>1 DEF Whole
      <4>4. named' = named
        BY <1>3
      <4>5. \A f \in past' : Stats(f, d) = Stats(dinoFolder, d)
        BY <1>2, <4>1 DEF Stats
      <4> QED
        BY <3>1, <4>2, <4>3, <4>4, <4>5 DEF Whole, Stats
    <3> QED
      BY <3>2, <3>3
  <2>6. Unlisted(d)'
    <3>1. Credits(d)' = Credits(d) /\ (~Listed(d)' => ~Listed(d))
      BY <1>3 DEF Listed, Credits
    <3> QED
      BY <1>2, <1>3, <2>1, <3>1 DEF Unlisted
  <2>7. Grown(d)'
    BY <1>2, <1>3, <2>1, <2>2 DEF Grown
  <2> QED
    BY <2>4, <2>5, <2>6, <2>7 DEF DinoInv
<1> QED
  BY <1>6, <1>7 DEF TamedIInv

\* No dino has folders at first.
LEMMA TamedInitHolds ==
  ASSUME TamedInit
  PROVE  TamedIInv
<1>1. None \in Folders
  BY DEF None, Folders
<1>2. \A d \in Dino : None[d]["hp"] = 0 /\ None[d]["oxy"] = 0
  BY DEF None, Kind
<1>3. bound.restarts \in Nat /\ bound.named \in Nat
  BY BoundsAssumption DEF TamedInit, Bound
<1>4. named \in [Dino -> 0 .. bound.named] /\ \A d \in Dino : named[d] = 0
  BY <1>3 DEF TamedInit
<1>5. TamedTypes
  BY <1>1, <1>3, <1>4 DEF TamedTypes, TamedTypeOK, TamedInit
<1>6. ASSUME NEW d \in Dino PROVE DinoInv(d)
  <2>1. /\ dinoFolder = None /\ past = {None} /\ reports[d] = 0 /\ cut[d] = 0
        /\ d \notin tamed_queue /\ d \notin relisted /\ d \notin checked /\ Credits(d) = 0
    BY DEF TamedInit, Credits
  <2>2. Budget(d)
    BY <2>1 DEF Budget, Listings, Losses
  <2>3. Unlisted(d) /\ Grown(d)
    BY <1>2, <1>4, <2>1 DEF Unlisted, Grown
  <2>4. Stats(None, d) = <<0, 0>>
    BY <1>2 DEF Stats
  <2>5. Whole(d)
    BY <1>4, <2>1, <2>4 DEF Whole
  <2> QED
    BY <2>2, <2>3, <2>5 DEF DinoInv
<1> QED
  BY <1>5, <1>6 DEF TamedIInv

\* Every step keeps what the proofs need.
LEMMA TamedStep ==
  ASSUME TamedIInv, [TamedNext]_tamedVars
  PROVE  TamedIInv'
<1>1. CASE UNCHANGED tamedVars
  <2>1. UNCHANGED <<bound, owner, body, dinoFolder, past, tamed_queue, cursor, reports, restarts,
                    checked, cut, relisted, unqueued, credited, named>>
    BY <1>1 DEF tamedVars, folderVars, history
  <2>2. TamedTypes'
    BY <2>1, TamedTypesAre, TamedTypesHold DEF TamedIInv
  <2>3. \A e \in Dino : DinoInv(e)'
    BY <2>1, DinoKept DEF TamedIInv
  <2> QED
    BY <2>2, <2>3 DEF TamedIInv
<1>2. CASE TamedNext
  <2>1. bound' = bound
    BY <1>2 DEF TamedNext
  <2>2. ASSUME NEW d \in Dino,
               \/ View(d) \/ Die(d) \/ Destroy(d)
               \/ \E o \in {"wild", "auto", "player", "tribe"} : SetupTamed(d, o)
               \/ \E o \in {"player", "tribe"} : Claim(d, o) \/ CreditedTame(d, o)
               \/ \E k \in Kind : AddCustomFolder(d, k) \/ DeleteCustomFolder(d, k)
        PROVE  TamedIInv'
    BY <2>1, <2>2, ChecksKeep, CustomFoldersKeep, CreditedTameKeeps, DieKeeps, ClaimKeeps
  <2>3. CASE TimerBegins \/ TimerPasses
    BY <2>1, <2>3, TimerPassKeeps
  <2>4. CASE TimerReports
    BY <2>1, <2>4, TimerReportKeeps
  <2>5. CASE Restart
    BY <2>1, <2>5, RestartKeeps
  <2> QED
    BY <1>2, <2>2, <2>3, <2>4, <2>5 DEF TamedNext
<1> QED
  BY <1>1, <1>2

LEMMA TamedAlways == TamedSpec => []TamedIInv
<1>1. TamedInit => TamedIInv
  BY TamedInitHolds
<1>2. TamedIInv /\ [TamedNext]_tamedVars => TamedIInv'
  BY TamedStep
<1> QED
  BY <1>1, <1>2, PTL DEF TamedSpec

\* A living dino that was checked in this session has both folders, unless two
\* restarts that lost some of them, or two folders that players gave the plugin's names,
\* or one of each, came together: LevelsKept.
THEOREM TamedInvariant == TamedSpec => []TamedInv
<1>1. TamedIInv => TamedInv
  <2> SUFFICES ASSUME TamedIInv PROVE TamedInv
    OBVIOUS
  <2>1. TamedTypeOK /\ checked \subseteq Dino /\ dinoFolder \in Folders
        /\ cut \in [Dino -> 0 .. bound.restarts] /\ bound.restarts \in Nat
        /\ named \in [Dino -> 0 .. bound.named] /\ bound.named \in Nat
    BY TamedTypesAre DEF TamedIInv, TamedTypes
  <2>2. ASSUME NEW d \in checked, body[d] = "alive", cut[d] + named[d] < 2
        PROVE  dinoFolder[d]["hp"] > 0 /\ dinoFolder[d]["oxy"] > 0
    <3>1. d \in Dino
      BY <2>1
    <3>2. Grown(d) /\ Whole(d)
      BY <3>1 DEF TamedIInv, DinoInv
    <3>3. dinoFolder[d]["hp"] + dinoFolder[d]["oxy"] > 1
      BY <2>2, <3>2 DEF Grown, GotFolder
    <3>4. \/ cut[d] = 0 /\ named[d] = 0
          \/ cut[d] = 1 /\ named[d] = 0
          \/ cut[d] = 0 /\ named[d] = 1
      <4>1. cut[d] \in Nat /\ named[d] \in Nat
        BY <2>1, <3>1
      <4> QED
        BY <2>2, <4>1
    <3>5. Stats(dinoFolder, d)
            \in {<<0, 0>>, <<1, 0>>, <<0, 1>>, <<1, 1>>, <<2, 1>>, <<1, 2>>}
      BY <2>2, <3>2, <3>4 DEF Whole
    <3>6. PICK p \in Nat, q \in Nat : dinoFolder[d]["hp"] = p /\ dinoFolder[d]["oxy"] = q
      BY <2>1, <3>1 DEF Folders, Kind
    <3>7. <<p, q>> \in {<<0, 0>>, <<1, 0>>, <<0, 1>>, <<1, 1>>, <<2, 1>>, <<1, 2>>}
      BY <3>5, <3>6 DEF Stats
    <3> QED
      BY <3>3, <3>6, <3>7
  <2> QED
    BY <2>1, <2>2 DEF TamedInv, LevelsKept
<1> QED
  BY <1>1, TamedAlways, PTL

\* Over restarts, deaths, lost folders and folders of players, a tame is reported, and no
\* more often than its credit and what was lost account for: ReportedOnce and TameKept.
THEOREM TamesAreReported == TamedSpec => []TamesReported
<1>1. TamedIInv => TamesReported
  <2> SUFFICES ASSUME TamedIInv PROVE TamesReported
    OBVIOUS
  <2>1. /\ reports \in [Dino -> Nat] /\ cut \in [Dino -> 0 .. bound.restarts]
        /\ named \in [Dino -> 0 .. bound.named]
        /\ dinoFolder \in past /\ dinoFolder \in Folders
    BY TamedTypesAre DEF TamedIInv
  <2>2. ASSUME NEW d \in Dino
        PROVE  reports[d] <= 1 + Credits(d) + cut[d] + (IF d \in relisted THEN 1 ELSE 0)
    <3>1. Listings(d) <= 1 + Losses(d)
      BY DEF TamedIInv, DinoInv, Budget
    <3>2. reports[d] \in Nat /\ cut[d] \in Nat /\ Credits(d) \in Nat
      BY <2>1 DEF Credits
    <3> QED
      BY <3>1, <3>2 DEF Listings, Losses
  <2>3. ASSUME NEW d \in Dino, dinoFolder[d]["hp"] > 0, dinoFolder[d]["oxy"] > 0
        PROVE  reports[d] > Credits(d) \/ d \in tamed_queue \/ d \in unqueued \/ named[d] > 1
    <3>1. Unlisted(d)
      BY DEF TamedIInv, DinoInv
    <3>2. PICK p \in Nat, q \in Nat : dinoFolder[d]["hp"] = p /\ dinoFolder[d]["oxy"] = q
      BY <2>1 DEF Folders, Kind
    <3>3. ~Listed(d) => p + q <= named[d]
      BY <2>1, <3>1, <3>2 DEF Unlisted
    <3>4. named[d] \in Nat /\ p > 0 /\ q > 0
      BY <2>1, <2>3, <3>2
    <3>5. ~Listed(d) => named[d] > 1
      BY <3>3, <3>4
    <3> QED
      BY <3>5 DEF Listed
  <2> QED
    BY <2>2, <2>3 DEF TamesReported, ReportedOnce, TameKept
<1> QED
  BY <1>1, TamedAlways, PTL

=============================================================================
