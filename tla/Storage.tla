------------------------------- MODULE Storage -------------------------------
(***************************************************************************)
(* The folders that players and the plugin give to dinos (M_storage.cpp):  *)
(* a map in memory that the game thread reads and changes at once, and a   *)
(* database that a StorageWriter thread brings up to date by the commands  *)
(* that the game thread queues.  A session begins with M_storage_init,     *)
(* which loads the map from the database, and ends with M_storage_done or  *)
(* with a crash; the database outlives the session.                        *)
(*                                                                         *)
(* The constructor of StorageWriter starts the thread and initialises      *)
(* nothing: exitFlag, running and queue_mutex hold arbitrary values until  *)
(* the thread itself sets them.                                            *)
(***************************************************************************)
EXTENDS Integers, Sequences, SequencesExt

CONSTANTS
  Dino,         \* identifiers of dinos
  Folder,       \* names of folders
  Faults,       \* the database calls that may fail
  MaxCommands,  \* bound: commands in all sessions together
  MaxSessions   \* bound: sessions

ASSUME StorageAssumption ==
  /\ Faults \subseteq {"read", "write"}
  /\ MaxCommands \in Nat /\ MaxSessions \in Nat

VARIABLES
  db,         \* table custom_folders: the rows of each dino, oldest first
  dinoFolder, \* the map in memory; a dino that is not in it has no folders
  cmds,       \* the queue of commands
  inHand,     \* the command that push() holds: none, or a sequence of one
  mutex,      \* "none" before the thread creates queue_mutex, else its owner
  exitFlag, running, queueSize,
  gpc,        \* where the game thread is
  wpc,        \* where the writer thread is
  issued,     \* how many commands there have been
  sessions,   \* how many sessions there have been
  unlocked,   \* history: the push under way found no mutex
  dropped,    \* history: a command of this session was refused or failed
  doubled,    \* history: a dino got, or was loaded with, a folder that it already had
  timedOut,   \* history: the destructor gave up waiting for the thread
  unread,     \* history: the folders of a dino that the last load left in the table
  past        \* history: the values dinoFolder has had in this session

queueVars == <<cmds, inHand, mutex>>
flagVars  == <<exitFlag, running, queueSize>>
history   == <<issued, sessions, unlocked, dropped, doubled, timedOut,
               unread, past>>
vars == <<db, dinoFolder, queueVars, flagVars, gpc, wpc, history>>

Command == [op : {"AddFolder", "DelFolder"}, did : Dino, folder : Folder]
             \cup [op : {"DinoDie"}, did : Dino]

Table == [Dino -> Seq(Folder)]

\* Mistake: del leaves the rows in the table.
Write2StorageKeeps(table, c) ==
  [table EXCEPT ![c.did] =
     CASE c.op = "AddFolder" -> Append(@, c.folder)
       [] c.op = "DelFolder" -> @
       [] c.op = "DinoDie"   -> << >>]

\* The rows without those of a folder.
Without(rows, folder) ==
  FoldLeft(LAMBDA kept, row : IF row = folder THEN kept ELSE Append(kept, row), << >>, rows)

\* What a command does to the table: del removes every row of the folder.
Write2Storage(table, c) ==
  [table EXCEPT ![c.did] =
     CASE c.op = "AddFolder" -> Append(@, c.folder)
       [] c.op = "DelFolder" -> Without(@, c.folder)
       [] c.op = "DinoDie"   -> << >>]

\* What it does to the map: del removes the first entry of the folder.
Write2Memory(map, c) ==
  [map EXCEPT ![c.did] =
     CASE c.op = "AddFolder" -> Append(@, c.folder)
       [] c.op = "DelFolder" -> IF Contains(@, c.folder)
                                THEN RemoveFirst(@, c.folder) ELSE @
       [] c.op = "DinoDie"   -> << >>]

\* The table after a list of commands.
Replay(table, list) == FoldLeft(Write2Storage, table, list)

\* Is s what remains of t when some elements are left out?
SubsequenceOf(s, t) ==
  \E at \in [DOMAIN s -> DOMAIN t] :
    /\ \A i, j \in DOMAIN s : i < j => at[i] < at[j]
    /\ \A i \in DOMAIN s : s[i] = t[at[i]]

Pending == cmds \o inHand
Loaded  == gpc \in {"idle", "wait", "pushing", "stopping"}
Freed   == gpc \in {"gone", "unloaded"}

Empty == [d \in Dino |-> << >>]

Init ==
  /\ db = Empty /\ dinoFolder = Empty
  /\ cmds = << >> /\ inHand = << >> /\ mutex = "none"
  /\ exitFlag = FALSE /\ running = FALSE /\ queueSize = 0
  /\ gpc = "unloaded" /\ wpc = "none"
  /\ issued = 0 /\ sessions = 0
  /\ unlocked = FALSE /\ dropped = FALSE /\ doubled = FALSE
  /\ timedOut = FALSE /\ past = {}
  /\ unread = [d \in Dino |-> {}]

-----------------------------------------------------------------------------
(* The game thread.                                                        *)

\* The rows of the table that are not in the map.
Left(rows, taken) == ToSet(SubSeq(rows, Len(taken) + 1, Len(rows)))

\* M_storage_init: the map is what was read from the table, and the thread is
\* created; the flags hold whatever the memory of the new object held.
LoadMap(map) ==
  /\ gpc = "unloaded" /\ sessions < MaxSessions
  /\ dinoFolder' = map /\ past' = {map}
  /\ unread' = [d \in Dino |-> Left(db[d], map[d])]
  /\ cmds' = << >> /\ inHand' = << >> /\ mutex' = "none"
  /\ exitFlag' \in BOOLEAN /\ running' \in BOOLEAN /\ queueSize' = 0
  /\ gpc' = "idle" /\ wpc' = "unstarted"
  /\ sessions' = sessions + 1
  /\ unlocked' = FALSE /\ dropped' = FALSE /\ timedOut' = FALSE
  /\ doubled' = (doubled \/ \E d \in Dino : ~IsInjective(db[d]))
  /\ UNCHANGED <<db, issued>>

Load == LoadMap(db)

\* The SELECT hands over the rows dino by dino.  When it fails, the exception is
\* logged and the session goes on with the rows that it had handed over.
LoadCutOff ==
  /\ "read" \in Faults
  /\ \E before \in SUBSET Dino, d \in Dino :
       \E n \in 0 .. Len(db[d]) :
         LoadMap([x \in Dino |-> IF x = d THEN SubSeq(db[x], 1, n)
                                ELSE IF x \in before THEN db[x] ELSE << >>])

\* push() changes the map first, then looks at exitFlag, and drops the
\* command if the flag is set.
Push(c) ==
  /\ gpc = "idle" /\ issued < MaxCommands
  /\ dinoFolder' = Write2Memory(dinoFolder, c)
  /\ past' = past \cup {dinoFolder'}
  /\ issued' = issued + 1
  /\ doubled' = \/ doubled
                \/ c.op = "AddFolder" /\ Contains(dinoFolder[c.did], c.folder)
  /\ IF exitFlag
     THEN dropped' = TRUE /\ UNCHANGED <<inHand, gpc>>
     ELSE inHand' = <<c>> /\ gpc' = "wait" /\ UNCHANGED dropped
  /\ UNCHANGED <<db, cmds, mutex, flagVars, wpc, sessions, unlocked, timedOut,
                 unread>>

\* A wait for a handle that is not one fails at once, and push() goes on
\* without the lock.
PushAcquire ==
  /\ gpc = "wait" /\ mutex \in {"none", "free"}
  /\ mutex' = IF mutex = "free" THEN "game" ELSE mutex
  /\ unlocked' = (mutex = "none")
  /\ gpc' = "pushing"
  /\ UNCHANGED <<db, dinoFolder, cmds, inHand, flagVars, wpc, issued,
                 sessions, dropped, doubled, timedOut, unread, past>>

\* An unsynchronised push that meets the writer in the queue may be lost.
PushRelease ==
  /\ gpc = "pushing"
  /\ \/ cmds' = Pending /\ UNCHANGED dropped
     \/ unlocked /\ wpc = "drain" /\ dropped' = TRUE /\ UNCHANGED cmds
  /\ inHand' = << >>
  /\ mutex' = IF mutex = "game" THEN "free" ELSE mutex
  /\ unlocked' = FALSE
  /\ gpc' = "idle"
  /\ UNCHANGED <<db, dinoFolder, flagVars, wpc, issued, sessions, doubled,
                 timedOut, unread, past>>

\* M_storage_done; the writer is destroyed, and waits for its thread.
StopBegin ==
  /\ gpc = "idle"
  /\ exitFlag' = TRUE /\ gpc' = "stopping"
  /\ UNCHANGED <<db, dinoFolder, queueVars, running, queueSize, wpc, history>>

\* The wait ends because running is cleared (or was never set), or after five
\* seconds; the commands that are left are deleted.
StopEnd ==
  /\ gpc = "stopping"
  /\ cmds' = << >>
  /\ timedOut' = running
  /\ gpc' = "gone"
  /\ UNCHANGED <<db, dinoFolder, inHand, mutex, flagVars, wpc, issued,
                 sessions, unlocked, dropped, doubled, unread, past>>

\* The library is unloaded once its thread has ended; the map is deleted.
Unloaded ==
  /\ gpc = "gone" /\ wpc = "stopped"
  /\ gpc' = "unloaded" /\ wpc' = "none"
  /\ dinoFolder' = Empty /\ past' = {}
  /\ UNCHANGED <<db, queueVars, flagVars, issued, sessions, unlocked, dropped,
                 doubled, timedOut, unread>>

\* The process dies; only the database is left.
Crash ==
  /\ gpc # "unloaded"
  /\ gpc' = "unloaded" /\ wpc' = "none"
  /\ dinoFolder' = Empty /\ past' = {}
  /\ cmds' = << >> /\ inHand' = << >> /\ mutex' = "none"
  /\ UNCHANGED <<db, flagVars, issued, sessions, unlocked, dropped, doubled,
                 timedOut, unread>>

-----------------------------------------------------------------------------
(* The writer thread.  Its steps on a freed object may end in a crash of   *)
(* the process, which is the action Crash, or in a failing wait.           *)

Start ==
  /\ wpc = "unstarted" /\ ~Freed
  /\ exitFlag' = FALSE /\ running' = TRUE /\ queueSize' = 1
  /\ mutex' = "free"
  /\ wpc' = "top"
  /\ UNCHANGED <<db, dinoFolder, cmds, inHand, gpc, history>>

\* Mistake: the thread ends when it finds the queue empty.
CheckExitIdle ==
  /\ wpc = "top" /\ ~Freed
  /\ wpc' = IF queueSize < 1 THEN "exit" ELSE "wait"
  /\ UNCHANGED <<db, dinoFolder, queueVars, flagVars, gpc, history>>

CheckExit ==
  /\ wpc = "top" /\ ~Freed
  /\ wpc' = IF exitFlag /\ queueSize < 1 THEN "exit" ELSE "wait"
  /\ UNCHANGED <<db, dinoFolder, queueVars, flagVars, gpc, history>>

\* Mistake: the thread goes on when its wait times out.
AcquireTimedOut ==
  /\ wpc = "wait" /\ ~Freed
  /\ mutex' = "writer" /\ wpc' = "drain"
  /\ UNCHANGED <<db, dinoFolder, cmds, inHand, flagVars, gpc, history>>

Acquire ==
  /\ wpc = "wait" /\ ~Freed /\ mutex = "free"
  /\ mutex' = "writer" /\ wpc' = "drain"
  /\ UNCHANGED <<db, dinoFolder, cmds, inHand, flagVars, gpc, history>>

\* The handle is closed.
AcquireFails ==
  /\ wpc \in {"top", "wait"} /\ gpc = "gone"
  /\ wpc' = "exit"
  /\ UNCHANGED <<db, dinoFolder, queueVars, flagVars, gpc, history>>

Apply ==
  /\ wpc = "drain" /\ ~Freed /\ cmds # << >>
  /\ db' = Write2Storage(db, Head(cmds))
  /\ cmds' = Tail(cmds)
  /\ UNCHANGED <<dinoFolder, inHand, mutex, flagVars, gpc, wpc, history>>

\* An exception of the database is logged, and the command deleted.
ApplyFails ==
  /\ wpc = "drain" /\ ~Freed /\ cmds # << >> /\ "write" \in Faults
  /\ cmds' = Tail(cmds) /\ dropped' = TRUE
  /\ UNCHANGED <<db, dinoFolder, inHand, mutex, flagVars, gpc, wpc, issued,
                 sessions, unlocked, doubled, timedOut, unread, past>>

\* Mistake: the thread pauses before it has emptied the queue, and forgets
\* that it has not.
ReleaseEarly ==
  /\ wpc = "drain" /\ ~Freed
  /\ queueSize' = 0 /\ mutex' = "free" /\ wpc' = "sleep"
  /\ UNCHANGED <<db, dinoFolder, cmds, inHand, exitFlag, running, gpc,
                 history>>

Release ==
  /\ wpc = "drain" /\ ~Freed /\ cmds = << >>
  /\ queueSize' = 0 /\ mutex' = "free" /\ wpc' = "sleep"
  /\ UNCHANGED <<db, dinoFolder, cmds, inHand, exitFlag, running, gpc,
                 history>>

Wake ==
  /\ wpc = "sleep"
  /\ wpc' = "top"
  /\ UNCHANGED <<db, dinoFolder, queueVars, flagVars, gpc, history>>

Exit ==
  /\ wpc = "exit"
  /\ running' = FALSE /\ wpc' = "stopped"
  /\ UNCHANGED <<db, dinoFolder, queueVars, exitFlag, queueSize, gpc, history>>

-----------------------------------------------------------------------------
\* All sessions are over.
Done == gpc = "unloaded" /\ sessions = MaxSessions /\ UNCHANGED vars

Game == \/ Load \/ LoadCutOff
        \/ \E c \in Command : Push(c)
        \/ PushAcquire \/ PushRelease
        \/ StopBegin \/ StopEnd \/ Unloaded

Writer == \/ Start \/ CheckExit
          \/ Acquire \/ AcquireFails
          \/ Apply \/ ApplyFails \/ Release
          \/ Wake \/ Exit

Next == Game \/ Writer \/ Crash \/ Done

Spec == Init /\ [][Next]_vars

(* The scheduler runs both threads and the mutex is granted in turn.        *)
FairSpec ==
  /\ Spec
  /\ WF_vars(Writer) /\ SF_vars(Acquire)
  /\ SF_vars(PushAcquire) /\ WF_vars(PushRelease) /\ WF_vars(StopEnd)

-----------------------------------------------------------------------------
TypeOK ==
  /\ db \in Table /\ dinoFolder \in Table
  /\ cmds \in Seq(Command) /\ inHand \in Seq(Command)
  /\ mutex \in {"none", "free", "game", "writer"}
  /\ exitFlag \in BOOLEAN /\ running \in BOOLEAN /\ queueSize \in Nat
  /\ gpc \in {"unloaded", "idle", "wait", "pushing", "stopping", "gone"}
  /\ wpc \in {"none", "unstarted", "top", "wait", "drain", "sleep", "exit",
              "stopped"}
  /\ issued \in 0 .. MaxCommands /\ sessions \in 0 .. MaxSessions
  /\ unlocked \in BOOLEAN /\ dropped \in BOOLEAN
  /\ doubled \in BOOLEAN /\ timedOut \in BOOLEAN
  /\ unread \in [Dino -> SUBSET Folder]
  /\ past \subseteq Table

\* Does a table have what the map has?  Of a dino whose rows were all read it has the
\* same folders; if a dino has had a folder twice, then the map may keep folders that
\* the table has lost (its del removes one entry, the table's all rows), but never the
\* other way round.  Of a dino of which rows were left it has no folder more than those,
\* and lacks none that the map has.
Matches(table, map, left, twice) ==
  \A d \in Dino :
    IF left[d] = {}
    THEN /\ SubsequenceOf(table[d], map[d])
         /\ ~twice => table[d] = map[d]
    ELSE /\ ToSet(table[d]) \subseteq ToSet(map[d]) \cup left[d]
         /\ ~twice => SubsequenceOf(map[d], table[d])

\* If no command was dropped, the table lags behind the map exactly by the
\* commands that are still queued.
Mirror == Loaded /\ ~dropped => Matches(Replay(db, Pending), dinoFolder, unread, doubled)

\* Whenever the process dies, the next session starts from folders that this
\* session has had at some moment, not from a mixture of moments (the dinos that it
\* did not read in full aside).
PointInTime ==
  Loaded /\ ~dropped /\ ~doubled =>
    \E map \in past : \A d \in Dino : unread[d] = {} => db[d] = map[d]

\* What the table has, now and whenever the process dies (M_storage.cpp 259-330).
TableTrue == Mirror /\ PointInTime

\* Both threads are in the queue at once only if the push began before the
\* thread had created the mutex.
RaceOnlyAtStart == gpc = "pushing" /\ wpc = "drain" => unlocked

\* A push returns, even if the writer has died or the mutex does not exist.
PushReturns == gpc \in {"wait", "pushing"} ~> gpc \notin {"wait", "pushing"}

\* While a session lasts, what is queued is brought to the table.
QueueDrains == cmds # << >> ~> cmds = << >>

\* If the destructor finds the thread about to look at the queue, and does not
\* give up waiting for it, then it deletes no command: all are in the table.
AwakeExitApplies ==
  \A n \in 1 .. MaxSessions :
    [](sessions = n /\ gpc = "stopping" /\ wpc \in {"wait", "drain"} =>
         [](/\ sessions = n /\ gpc = "gone"
            /\ ~timedOut /\ ~dropped
            => Matches(db, dinoFolder, unread, doubled)))

\* A push returns and the queue drains, whatever has failed.
Progress == PushReturns /\ QueueDrains

\* However the threads are scheduled, flags and queue hold what they can hold,
\* and the threads exclude each other but before the mutex exists.
Inv == TypeOK /\ RaceOnlyAtStart

=============================================================================
