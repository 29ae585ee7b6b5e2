------------------------------ MODULE DinoCredit ------------------------------
(***************************************************************************)
(* Whom the log names when a dino is knocked out or tamed (M_tribe.cpp):   *)
(* each hit of a player leaves the dino's address in the player's record,  *)
(* and the first record with the address has the credit.  The records are  *)
(* those of OnlinePlayers; a dino that is gone may leave its address to    *)
(* another.                                                                *)
(***************************************************************************)
EXTENDS PlayerReports

CONSTANTS
  Address,   \* where the server keeps dinos
  Null,      \* no address, and no report
  Subjects   \* bound: what a behaviour follows, "places" or "dinos"

ASSUME DinoAssumption ==
  Null \notin Address /\ Subjects \subseteq {"places", "dinos"}

VARIABLES
  subject,      \* the bound of this behaviour
  dino,         \* the dino at each address: "none", "wild", "down" or "tame"
  lastHitDino,  \* of each record
  credited,     \* what the last call reported: a dino and a player, or nobody (0)
  claims,       \* history: who, unless a reconnect overlapped or the constructor had left
                \* the player out, has hit the dino that is there, and hit no other and
                \* neither spawned nor left since
  haunts        \* history: who had such a claim on a dino that was there before

dinoVars == <<dino, lastHitDino>>
claimVars == <<claims, haunts>>
creditVars == <<subject, playerVars, dinoVars, credited, claimVars>>

Credit == [dino : Address, to : Pid \cup {0}]

CreditTypeOK ==
  /\ ReportTypeOK /\ subject \in Subjects
  /\ dino \in [Address -> {"none", "wild", "down", "tame"}]
  /\ lastHitDino \in [Pid -> Address \cup {Null}]
  /\ credited \in Credit \cup {Null}
  /\ {claims, haunts} \subseteq [Address -> SUBSET Pid]

CreditInit ==
  /\ Init /\ ReportInit
  /\ subject \in Subjects
  /\ subject = "dinos" => \A c, d \in Controller : pos[c] = pos[d]
  /\ dino = [a \in Address |-> "none"]
  /\ lastHitDino = [p \in Pid |-> Null] /\ credited = Null
  /\ claims = [a \in Address |-> {}] /\ haunts = claims

-----------------------------------------------------------------------------
(* The records come and go.                                                 *)

\* Mistake: the record of an account that is there is taken over, with its dino.
HitsKept(c, id) ==
  [p \in Pid |-> IF playerIdMap'[p] = NoInfo THEN Null ELSE lastHitDino[p]]

\* A new record has hit nothing.
Hits(c, id) ==
  [p \in Pid |-> IF playerIdMap'[p] = NoInfo \/ (p = id /\ MakesRecord(c, id)) THEN Null
                 ELSE lastHitDino[p]]

HitsLeft == [p \in Pid |-> IF playerIdMap'[p] = NoInfo THEN Null ELSE lastHitDino[p]]

Without(of, ps) == [a \in Address |-> of[a] \ ps]

GiveUp(ps) == claims' = Without(claims, ps) /\ haunts' = Without(haunts, ps)

\* The characters that controllers of the account have played.
PidsOf(s) == {p \in Pid : \E c \in Controller : SteamOf[c] = s /\ linked'[c] = p}
               \cup {p \in Pid : \E c \in Controller : SteamOf[c] = s /\ linked[c] = p}

Quiet == credited' = Null /\ UNCHANGED <<subject, dino>>

Starts(c) ==
  /\ PlayerLogin(c) \/ PlayerCreate(c) \/ PlayerRespawn(c)
  /\ lastHitDino' = IF plugin = "loaded" THEN Hits(c, linked'[c]) ELSE lastHitDino
  /\ GiveUp(PidsOf(SteamOf[c])) /\ Quiet

Leaves(c) ==
  /\ PlayerLogout(c)
  /\ lastHitDino' = HitsLeft
  /\ GiveUp(PidsOf(SteamOf[c])) /\ Quiet

Constructs(c) ==
  /\ PlayersConstruct(c)
  /\ lastHitDino' = Hits(c, linked[c])
  /\ UNCHANGED claimVars /\ Quiet

ConstructsEnd ==
  PlayersConstructEnds /\ UNCHANGED <<lastHitDino, claimVars>> /\ Quiet

Reloads ==
  /\ PlayersLoad \/ PlayersLoaded \/ PlayersUnload
  /\ lastHitDino' = HitsLeft
  /\ IF plugin = "loaded" THEN GiveUp(Pid) ELSE UNCHANGED claimVars
  /\ Quiet

Elsewhere ==
  /\ subject = "places"
  /\ Collect \/ \E c \in Controller, place \in Place : Move(c, place)
  /\ UNCHANGED <<lastHitDino, claimVars>> /\ Quiet

-----------------------------------------------------------------------------
(* The dinos.                                                               *)

Around == subject = "dinos" /\ plugin # "starting"
Same == UNCHANGED <<subject, playerVars>>

Becomes(a, state) == dino' = [dino EXCEPT ![a] = state]

Spawn(a) ==
  /\ Around /\ dino[a] = "none"
  /\ Becomes(a, "wild") /\ credited' = Null
  /\ UNCHANGED <<lastHitDino, claimVars>> /\ Same

\* AdjustDamage, if the cause is the character of a player itself.
Hit(c, a) ==
  /\ Around /\ conn[c] = "in" /\ linked[c] # 0 /\ dino[a] # "none"
  /\ LET p == linked[c]
     IN  IF plugin = "loaded"
         THEN /\ lastHitDino' = IF playerIdMap[p] = NoInfo THEN lastHitDino
                                ELSE [lastHitDino EXCEPT ![p] = a]
              /\ claims' = IF SteamOf[c] \in overlapped \/ c \in missed THEN claims
                           ELSE [Without(claims, {p}) EXCEPT ![a] = @ \cup {p}]
              /\ haunts' = Without(haunts, {p})
         ELSE UNCHANGED <<lastHitDino, claimVars>>
  /\ credited' = Null
  /\ UNCHANGED dino /\ Same

\* Mistake: the record of any player who has hit a dino.
ByDinoDamageAny(a) == {p \in Pid : lastHitDino[p] # Null}

\* getByDinoDamage goes through the records by number.
ByDinoDamage(a) == {p \in Pid : playerIdMap[p] # NoInfo /\ lastHitDino[p] = a}

\* A knock-out or a tame that nobody has the credit for is not reported.
ReportsOn(a) ==
  credited' =
    IF plugin # "loaded" THEN Null
    ELSE [dino |-> a,
          to |-> IF ByDinoDamage(a) = {} THEN 0
                 ELSE CHOOSE p \in ByDinoDamage(a) : \A q \in ByDinoDamage(a) : p <= q]

\* SetCharacterStatusTameable: the dino goes down, wakes up, which names nobody, or is
\* tamed.  Reported are knock-outs of dinos of two teams, and tames for a player or a tribe
\* but not for a player of a tribe.
KnockedOut(a) ==
  /\ Around /\ dino[a] = "wild" /\ Becomes(a, "down")
  /\ ReportsOn(a) \/ credited' = Null
  /\ UNCHANGED <<lastHitDino, claimVars>> /\ Same

Wakes(a) ==
  /\ Around /\ dino[a] = "down" /\ Becomes(a, "wild")
  /\ credited' = Null
  /\ UNCHANGED <<lastHitDino, claimVars>> /\ Same

Tamed(a) ==
  /\ Around /\ dino[a] = "down" /\ Becomes(a, "tame")
  /\ ReportsOn(a) \/ credited' = Null
  /\ UNCHANGED <<lastHitDino, claimVars>> /\ Same

\* A dino is gone, and with it nothing that the plugin has of it.
Destroyed(a) ==
  /\ Around /\ dino[a] # "none"
  /\ Becomes(a, "none") /\ credited' = Null
  /\ haunts' = [haunts EXCEPT ![a] = @ \cup claims[a]]
  /\ claims' = [claims EXCEPT ![a] = {}]
  /\ UNCHANGED lastHitDino /\ Same

CreditNext ==
  \/ \E c \in Controller : Starts(c) \/ Leaves(c) \/ Constructs(c)
  \/ ConstructsEnd \/ Reloads \/ Elsewhere
  \/ \E a \in Address :
       \/ Spawn(a)
       \/ \E c \in Controller : Hit(c, a)
       \/ KnockedOut(a) \/ Wakes(a) \/ Tamed(a) \/ Destroyed(a)

CreditSpec == CreditInit /\ [][CreditNext]_creditVars

-----------------------------------------------------------------------------

\* The credit goes to one who has a claim, or had one on a dino that was at the same
\* address before, or whose reconnect has overlapped; and if there is such a claim it goes
\* to somebody, whatever other players do (M_tribe.cpp 580-590, 657-698,
\* M_online_players.h 95-105).
CreditTrue ==
  credited # Null =>
    LET a == credited.dino
        p == credited.to
    IN  IF p = 0 THEN claims[a] \cup haunts[a] = {}
        ELSE p \in claims[a] \cup haunts[a] \/ Overlapped(p)

\* Types, and at most one record for each account, whatever hits, moves and reports come
\* between.
PlayersInv == Inv /\ CreditTypeOK

=============================================================================
