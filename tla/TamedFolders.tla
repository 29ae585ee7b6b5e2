----------------------------- MODULE TamedFolders -----------------------------
(***************************************************************************)
(* The folders with the wild levels of a dino, and the report that it has  *)
(* been tamed (M_tribe.cpp).  A tamed dino that has not got its two        *)
(* folders gets them, and is put in a queue; a timer looks through the     *)
(* queue and reports the dinos that have an owner.  The same message is    *)
(* pushed when the dino is tamed, if a player has the credit for it.       *)
(*                                                                         *)
(* The folders are kept by M_storage.cpp.  What a restart finds of them is *)
(* what Storage promises (PointInTime): a value that the map has had in    *)
(* the session before.  The queue is kept nowhere.                         *)
(***************************************************************************)
EXTENDS Naturals, Sequences, FiniteSets, FiniteSetsExt

CONSTANTS
  Bounds   \* bounds of a behaviour: dinos, restarts of the plugin, folders of other
           \* names that a dino has at a time, folders with the plugin's names that
           \* players ever give a dino, and dinos whose tame a player has the credit for

Bound == [dinos : Nat, restarts : Nat, other : Nat, named : Nat, credited : Nat]

ASSUME BoundsAssumption == Bounds \subseteq Bound /\ IsFiniteSet(Bounds)

\* Dinos are numbered by their ids, in the order of the map.
Dino == 1 .. Max({b.dinos : b \in Bounds})
End  == Max({b.dinos : b \in Bounds}) + 1

VARIABLES
  bound,       \* the bounds of this behaviour
  owner,       \* who owns a dino: "wild", "auto" (nobody yet), "player", "tribe"
  body,        \* "alive", "dead" or "destroyed"
  dinoFolder,  \* how many folders of each kind the map has
  past,        \* the values that it has had in this session
  tamed_queue, \* the dinos to be reported
  cursor,      \* the timer's iterator; 0 if the timer is not running
  reports,     \* how often a dino was reported, by the timer or with the credit
  restarts,    \* how often the plugin has been restarted
  checked,     \* history: dinos that were checked alive in this session
  cut,         \* history: restarts that cost a dino one or more of its folders
  relisted,    \* history: dead dinos that were given folders
  unqueued,    \* history: dinos that were in the queue at a restart
  credited,    \* history: dinos for whose tame a player had the credit
  named        \* history: how many folders with the plugin's names players have
               \* given a dino

folderVars == <<dinoFolder, past>>
history == <<checked, cut, relisted, unqueued, credited, named>>
tamedVars == <<bound, owner, body, folderVars, tamed_queue, cursor, reports, restarts,
               history>>

\* The two folders of the plugin begin with #hp- and #oxy-; players may give theirs such
\* names too.
Kind == {"hp", "oxy", "other"}
Folders == [Dino -> [Kind -> Nat]]

TamedTypeOK ==
  /\ bound \in Bounds
  /\ owner \in [Dino -> {"wild", "auto", "player", "tribe"}]
  /\ body \in [Dino -> {"alive", "dead", "destroyed"}]
  /\ dinoFolder \in Folders /\ dinoFolder \in past
  /\ tamed_queue \subseteq Dino
  /\ cursor \in {0} \cup Dino
  /\ reports \in [Dino -> Nat] /\ cut \in [Dino -> 0 .. bound.restarts]
  /\ restarts \in 0 .. bound.restarts
  /\ {checked, relisted, unqueued, credited} \in SUBSET SUBSET Dino
  /\ named \in [Dino -> 0 .. bound.named]

None == [d \in Dino |-> [k \in Kind |-> 0]]

TamedInit ==
  /\ bound \in Bounds
  /\ owner = [d \in Dino |-> "wild"]
  /\ body = [d \in Dino |-> IF d <= bound.dinos THEN "alive" ELSE "destroyed"]
  /\ dinoFolder = None /\ past = {None}
  /\ tamed_queue = {} /\ cursor = 0
  /\ reports = [d \in Dino |-> 0] /\ restarts = 0
  /\ checked = {} /\ cut = [d \in Dino |-> 0] /\ relisted = {} /\ unqueued = {}
  /\ credited = {} /\ named = cut

-----------------------------------------------------------------------------

\* storage_write changes the map at once, and queues the command.  When there
\* is no restart to come, what the map was is not kept.
Stored(maps) ==
  /\ dinoFolder' = maps[Len(maps)]
  /\ past' = IF restarts = bound.restarts THEN {dinoFolder'}
             ELSE past \cup {maps[i] : i \in 1 .. Len(maps)}

AddFolder(map, d, k) == [map EXCEPT ![d][k] = @ + 1]

\* Mistake: one folder is taken for both.
GotFolderOne(d) == dinoFolder[d]["hp"] + dinoFolder[d]["oxy"] > 0

\* Any two stat folders are taken for the two that the plugin adds.
GotFolder(d) == dinoFolder[d]["hp"] + dinoFolder[d]["oxy"] > 1

\* Mistake: the dino is queued whatever folders it has.
CheckQueues(d) ==
  /\ IF GotFolder(d)
     THEN UNCHANGED folderVars
     ELSE LET hp == AddFolder(dinoFolder, d, "hp")
          IN  Stored(<<hp, AddFolder(hp, d, "oxy")>>)
  /\ tamed_queue' = tamed_queue \cup {d}
  /\ IF body[d] = "alive"
     THEN checked' = checked \cup {d} /\ UNCHANGED relisted
     ELSE relisted' = relisted \cup {d} /\ UNCHANGED checked

\* __check_for_tamed_folders
Check(d) ==
  /\ IF GotFolder(d)
     THEN UNCHANGED <<folderVars, tamed_queue>>
     ELSE /\ tamed_queue' = tamed_queue \cup {d}
          /\ LET hp == AddFolder(dinoFolder, d, "hp")
             IN  Stored(<<hp, AddFolder(hp, d, "oxy")>>)
  /\ IF body[d] = "alive"
     THEN checked' = checked \cup {d} /\ UNCHANGED relisted
     ELSE relisted' = relisted \cup {d} /\ UNCHANGED checked

\* SetupTamed: when a dino is tamed, and for a tame that the server loads.
SetupTamed(d, o) ==
  /\ cursor = 0 /\ body[d] = "alive"
  /\ o = owner[d] \/ owner[d] = "wild"
  /\ owner' = [owner EXCEPT ![d] = o]
  /\ IF o # "wild" THEN Check(d)
     ELSE UNCHANGED <<folderVars, tamed_queue, checked, relisted>>
  /\ UNCHANGED <<body, cursor, reports, restarts, cut, unqueued, credited, named>>

\* SetCharacterStatusTameable, which the server calls once for a tame, before or after
\* SetupTamed: if a player has the credit, the tame is reported at once.
CreditedTame(d, o) ==
  /\ cursor = 0 /\ body[d] = "alive"
  /\ d \notin credited /\ Cardinality(credited) < bound.credited
  /\ o = owner[d] \/ owner[d] = "wild"
  /\ owner' = [owner EXCEPT ![d] = o]
  /\ reports' = [reports EXCEPT ![d] = @ + 1] /\ credited' = credited \cup {d}
  /\ UNCHANGED <<body, folderVars, tamed_queue, cursor, restarts, checked, cut, relisted,
                 unqueued, named>>

\* ServerViewRemoteInventory: also of a corpse.
View(d) ==
  /\ cursor = 0 /\ body[d] # "destroyed" /\ owner[d] # "wild"
  /\ Check(d)
  /\ UNCHANGED <<owner, body, cursor, reports, restarts, cut, unqueued, credited, named>>

\* A player adds a folder of any name, or deletes any: the hook keeps those that
\* have names of the plugin.
AddCustomFolder(d, k) ==
  /\ cursor = 0 /\ body[d] # "destroyed"
  /\ IF k = "other" THEN dinoFolder[d][k] < bound.other ELSE named[d] < bound.named
  /\ Stored(<<AddFolder(dinoFolder, d, k)>>)
  /\ named' = IF k = "other" THEN named ELSE [named EXCEPT ![d] = @ + 1]
  /\ UNCHANGED <<owner, body, tamed_queue, cursor, reports, restarts, checked, cut,
                 relisted, unqueued, credited>>

MayDelete(k) == k = "other"

DeleteCustomFolder(d, k) ==
  /\ cursor = 0 /\ body[d] # "destroyed"
  /\ IF MayDelete(k) /\ dinoFolder[d][k] > 0
     THEN Stored(<<[dinoFolder EXCEPT ![d][k] = @ - 1]>>)
     ELSE UNCHANGED folderVars
  /\ UNCHANGED <<owner, body, tamed_queue, cursor, reports, restarts, history>>

Die(d) ==
  /\ cursor = 0 /\ body[d] = "alive"
  /\ body' = [body EXCEPT ![d] = "dead"]
  /\ Stored(<<[dinoFolder EXCEPT ![d] = None[d]]>>)
  /\ UNCHANGED <<owner, tamed_queue, cursor, reports, restarts, history>>

\* The server: a dino without an owner gets one; a dino is destroyed, and the
\* pointer in the queue stays.
Claim(d, o) ==
  /\ cursor = 0 /\ body[d] = "alive" /\ owner[d] = "auto"
  /\ owner' = [owner EXCEPT ![d] = o]
  /\ UNCHANGED <<body, folderVars, tamed_queue, cursor, reports, restarts, history>>

Destroy(d) ==
  /\ cursor = 0 /\ body[d] # "destroyed"
  /\ body' = [body EXCEPT ![d] = "destroyed"]
  /\ UNCHANGED <<owner, folderVars, tamed_queue, cursor, reports, restarts, history>>

-----------------------------------------------------------------------------
(* The timer, _t_check_tamed_dinos, an element of the queue at a time; it   *)
(* runs on the game thread, and nothing else runs with it.                  *)

After(set, d) ==
  LET later == {e \in set : e > d}
  IN  IF later = {} THEN End ELSE CHOOSE e \in later : \A f \in later : e <= f

To(d) == cursor' = IF d = End THEN 0 ELSE d

TimerBegins ==
  /\ cursor = 0 /\ tamed_queue # {}
  /\ To(After(tamed_queue, 0))
  /\ UNCHANGED <<owner, body, folderVars, tamed_queue, reports, restarts, history>>

\* Mistake: a dino of a tribe is not reported.
OwnedByPlayer(d) == IF body[d] = "destroyed" THEN BOOLEAN ELSE {owner[d] = "player"}

\* What the timer may read of the owner: anything if the dino is destroyed.
Owned(d) ==
  IF body[d] = "destroyed" THEN BOOLEAN ELSE {owner[d] \in {"player", "tribe"}}

\* Mistake: a dino is taken from the queue whether it has an owner or not.
TimerPassesErases ==
  /\ cursor # 0 /\ FALSE \in Owned(cursor)
  /\ tamed_queue' = tamed_queue \ {cursor}
  /\ To(After(tamed_queue, cursor))
  /\ UNCHANGED <<owner, body, folderVars, reports, restarts, history>>

TimerPasses ==
  /\ cursor # 0 /\ FALSE \in Owned(cursor)
  /\ To(After(tamed_queue, cursor))
  /\ UNCHANGED <<owner, body, folderVars, tamed_queue, reports, restarts, history>>

\* erase() returns the next element, and the loop skips it.  If there is none
\* the loop goes beyond the end: there it stays, or it finds another element.
TimerReports ==
  /\ cursor # 0 /\ TRUE \in Owned(cursor)
  /\ reports' = [reports EXCEPT ![cursor] = @ + 1]
  /\ tamed_queue' = tamed_queue \ {cursor}
  /\ LET next == After(tamed_queue', cursor)
     IN  IF next # End THEN To(After(tamed_queue', next))
         ELSE \E e \in tamed_queue' \cup {End} : To(e)
  /\ UNCHANGED <<owner, body, folderVars, restarts, history>>

-----------------------------------------------------------------------------

Fewer(f, g) == \E k \in {"hp", "oxy"} : f[k] < g[k]

\* The plugin, or the server and the plugin, end in any way and start again.
Restart ==
  /\ cursor = 0 /\ restarts < bound.restarts
  /\ restarts' = restarts + 1
  /\ \E found \in past :
       /\ dinoFolder' = found /\ past' = {found}
       /\ cut' = [d \in Dino |-> IF Fewer(found[d], dinoFolder[d]) THEN cut[d] + 1
                                 ELSE cut[d]]
  /\ tamed_queue' = {} /\ checked' = {}
  /\ unqueued' = unqueued \cup tamed_queue
  /\ UNCHANGED <<owner, body, cursor, reports, relisted, credited, named>>

TamedNext ==
  /\ \/ \E d \in Dino :
          \/ View(d) \/ Die(d) \/ Destroy(d)
          \/ \E o \in {"wild", "auto", "player", "tribe"} : SetupTamed(d, o)
          \/ \E o \in {"player", "tribe"} : Claim(d, o) \/ CreditedTame(d, o)
          \/ \E k \in Kind : AddCustomFolder(d, k) \/ DeleteCustomFolder(d, k)
     \/ TimerBegins \/ TimerPasses \/ TimerReports \/ Restart
  /\ UNCHANGED bound

\* The server calls the timer again and again, and the timer goes on.
Timer == (TimerBegins \/ TimerPasses \/ TimerReports) /\ UNCHANGED bound

Fairness == WF_tamedVars(Timer)

TamedSpec == TamedInit /\ [][TamedNext]_tamedVars /\ Fairness

-----------------------------------------------------------------------------

Credits(d) == IF d \in credited THEN 1 ELSE 0

\* A tamed dino is reported once, and once more if a player has the credit for
\* its tame; again only if a restart lost some of its folders, or if its corpse
\* was given folders (M_tribe.cpp 438-460, 506-509, 657-676, 934-936).
ReportedOnce ==
  \A d \in Dino :
    reports[d] <= 1 + Credits(d) + cut[d] + (IF d \in relisted THEN 1 ELSE 0)

\* A living dino that was checked in this session has both folders, unless two
\* restarts that lost some of them, or two folders that players have given the
\* plugin's names, or one of each, came together: two folders that are the same
\* are then taken for the two that are wanted (M_tribe.cpp 367-388, 442-448).
LevelsKept ==
  \A d \in checked :
    body[d] = "alive" /\ cut[d] + named[d] < 2 =>
      dinoFolder[d]["hp"] > 0 /\ dinoFolder[d]["oxy"] > 0

\* A tame is forgotten only by a restart, or by players: a dino that has both
\* folders was reported by the timer, is in the queue, was in the queue at a
\* restart, after which no check puts it there again, or has been given two
\* folders with the plugin's names by players, as no check then puts it there
\* (M_tribe.cpp 367-388, 442-460, 929).
TameKept ==
  \A d \in Dino :
    dinoFolder[d]["hp"] > 0 /\ dinoFolder[d]["oxy"] > 0 =>
      reports[d] > Credits(d) \/ d \in tamed_queue \/ d \in unqueued \/ named[d] > 1

\* Over restarts, deaths, lost folders and folders of players, a tame is reported, and no
\* more often than its credit and what was lost account for.
TamesReported == ReportedOnce /\ TameKept

\* A dino that is in the queue and has an owner is reported, although the loop
\* skips the element after each that it reports, unless the plugin restarts or
\* the dino is destroyed first (M_tribe.cpp 928-938).
QueueServed ==
  \A d \in Dino :
    d \in tamed_queue /\ owner[d] \in {"player", "tribe"}
      ~> d \notin tamed_queue \/ body[d] = "destroyed"

\* Over all restarts a dino that is looked after has the folders with its levels.
TamedInv == TamedTypeOK /\ LevelsKept

=============================================================================
