# A verification project for the ExtendedEventLog plugin

The plugin is a DLL loaded into an ARK game server.  It hooks functions of the
server, turns what it sees into events (players, inventories, harvest, tames,
tribes, deaths), and writes them to binary files that other programs read.  On
the side it keeps custom inventory folders of tamed dinos in an SQLite table,
and drives a console in which an operator follows what happens.

This directory holds TLA+ modules of the parts that carry the plugin's own
logic, TLC configurations that check them on small instances, and proofs that
TLAPS checks for every value of the constants.

## 1. Inventory

The server calls every hook and every timer from one thread, the *game thread*.
The plugin adds three threads: one writer of the event log, one writer of the
string log (both are `EventWriter` objects), one writer of the database
(`StorageWriter`), and, when the console is enabled, the console's.

| component | state | operations | called by |
| --- | --- | --- | --- |
| EventWriter (`M_event_writer.cpp`) | queue, mutex, exit flags, packet of 1024\*128 bytes, file and its size | `push`, destructor, `thread` | all hooks, unload |
| string library (`M_event_writer.cpp`) | map `stringLibrary` from strings to numbers, `stringId` | constructor reads the string files, `push_string_to_message` | every message with a string |
| Storage (`M_storage.cpp`) | table `custom_folders`, map `dinoFolder`, queue of commands | `storage_write` (`push`), `get_dino_folders`, `M_storage_init`, `M_storage_done`, `thread` | Tribe |
| Storage schema (`M_storage.cpp`) | table `schema` of versions | `initSchema`, `getTableVersion`, `installTable` | Storage |
| OnlinePlayers (`M_online_players.cpp`) | vector of records, maps by steam id and by controller; position, flags | `insertPlayer`, `erase`, the position timer | PlayerCommonActivity, Inventory, Tribe |
| PlayerCommonActivity (`M_player_common_activity.cpp`) | none of its own | hooks of login, logout, spawn, death | the server |
| InventoryAndHarvest (`M_inventory_and_harvest.cpp`) | flags in the records of OnlinePlayers | nested hooks of item transfers, splits, harvest | the server |
| Tribe (`M_tribe.cpp`) | `tamed_queue` of dinos to be checked | hooks of taming, dying, folders, tribes | the server, a timer |
| EventMessage (`EventMessage.cpp`, `Messages.cpp`) | a buffer per message | `push_int`, `push_uint`, `push_string`, ... | every event |
| Timer (`M_timer.cpp`) | list of callbacks, `cur_time`, `__timestamp`, `next_time` | `addTimer`, `__Timer`, `___timestamp` | OnlinePlayers, Tribe |
| Console (`ConsoleHelper.cpp`, `CHElement.cpp`, `M_console_helper.cpp`) | lists of elements and of redraws with a lock each, the element under the mouse, lines of each section, scroll bar | `addElement`, `delElement`, `clear`, `thread`, `pushLine`, `popLine`, scrolling | the game thread and its own |
| Lifecycle (`ExtendedEventLog.cpp`, `M_hook_helper.cpp`) | list of modules, list of hooks | `Load`, `Unload` | the loader |
| Commands (`ExtendedEventLog.cpp`) | none of their own | `TPDinoIdToPlayerId`, `GetTribeIdFromPlayerId` | the operator, through the server |
| ConfigReader, Utils, Structures, HarvestMarker | little | helpers, structures added and destroyed | the others |

The rest of the repository is vendored (`sqlite3.*`, `shell.c`, `json.hpp`,
`fmt`, `hdr`) or a demonstration (`console.cpp`).

**How the components meet.**  Hooks run on the game thread.  They build an
`EventMessage`, replace its strings by numbers of the string library, and push
it to the event writer, whose thread writes it later.  Tribe hooks read the
folders of a dino from the map and push commands to the storage writer.  Login
and logout change the records of OnlinePlayers; the inventory hooks find the
record of a controller there, and pass flags to each other through it, because
one call of the server runs several of the hooked functions inside each other.
Damage to a dino leaves the dino's address in the record of the player, where the
Tribe hooks look for whom to name when it is knocked out or tamed.  The record also
keeps the player's tribe, which a remote command gives to a dino.  A section of
the console gets its lines from the game thread while the console's thread
scrolls and paints them.

**What is hard.**
- *Shutdown*.  The destructors of both writers raise a flag and wait up to five
  seconds; the threads look at their flags with what they knew before their last
  pause.
- *Failure*.  A failing `open`, `write` or rotation ends the event writer's
  thread, and nothing else notices.  An exception of the database is logged, and
  the command is dropped or the rest of the table not read; one in the constructor
  of OnlinePlayers is logged, and the rest of the players have no record.  The
  server may refuse what has been reported before.  The process may die anywhere.
- *Restart*.  The string library is rebuilt from files that were cut off at
  a different point from the event log that uses its numbers, perhaps within a
  record, to which the next session then appends.
- *Nesting*.  Hooked functions call each other; flags set for the inner call
  must be gone when the outer call returns.
- *Staleness*.  Records and queues keep raw pointers to objects of the server
  between calls; the objects may be gone at the next, or others be in their place.
- *Two threads in the console*.  Elements are found under a lock and used after
  it; the console's instance is tested and then read again, without one; lines have no lock; `clear` gives back a lock that it has not taken.

What makes each component correct is stated by the properties of its module
(section 4); `PROJECT.json` lists every hazard at its line with the properties
that would catch it.

## 2. Plan

Modules are ordered by what would hurt most if it went wrong: first that events
reach the disk, then that they can be read, then that they are true.

| step | modules | state |
| --- | --- | --- |
| 1. events reach the disk | `EventLog` (abstract), `EventWriter` (implements it), `Storage`, `SchemaInstall` | done |
| 2. events can be read | `StringLibrary` (two `EventLog`s side by side), `EventMessage`, `Messages` (composed with it) | done |
| 3. events are true | `OnlinePlayers`, `OnlineTime` (extends `Timer`), `InventoryHarvest`, `TamedFolders`, `TribeMembers` | done |
| 4. the whole comes and goes | `Lifecycle`, and `Plugin`, which composes it with `SchemaInstall` and lets the process die | done |
| 5. the console | `Console` (elements, locks, both threads), `LinesBox` (lines, box and scroll bar) | done |
| 6. what the log and the records tell of players and dinos | `PlayerReports` and `DinoCredit`, over `OnlinePlayers`; `Commands`, over `TribeMembers` | done |
| 7. proofs | `EventWriter`, `OnlinePlayers`, `SchemaInstall`, `Plugin` with `Lifecycle`, `DinoCredit`, `StringLibrary`, `TribeMembers`, `Storage`, `InventoryHarvest`, `OnlineTime` with `Timer`, `TamedFolders`, `Console`, `LinesBox`, `Messages` with `EventMessage` | done |
| 8. `Storage` as an abstract table | what it promises to `TamedFolders` (a restart finds a past value of the map) as a specification of its own | open |

Modules are written to be proved about: parameters are `CONSTANTS` with named
assumptions, every operation is an action, and no module declares a `RECURSIVE`
operator.  Lists are worked on by folds of the community modules.  What such a fold
computes for a list of any length is provable, although the library's induction
theorems cannot be used: a fold is a function on the subsets of positions, which
`ProofFacts` shows to exist, and induction over numbers is taken as a fact about
the smallest element of a set (section 5).

## 3. Modules and code

An action stands for a stretch of code between two points at which another
thread, another call or a crash can be seen; names are the source's where there
is one.  `PROJECT.json` ("map") gives the lines of every definition.  Definitions
that a comment calls *Mistake* are not used by the specifications: each is a
plausible bug, with which one of the properties fails (`PROJECT.json`,
"mutants").

**EventLog.**  What an event log promises: the files are a prefix of what was
pushed; after it has stopped they do not grow.

**EventWriter** (`M_event_writer.cpp` 116-131, 231-406).  `gpc` is the game
thread in `push` or the destructor; `wpc` the thread in `thread`, from opening
the last file through the wait for the mutex, the packing of messages, the write
and the pause.  `open`, the rotation and `write` may fail each (`Faults`);
`WriteShort` writes any part of a packet.  `queueSize` is the copy that decides
about the pause and the exit.  `timedOut` and `failed` remember that the destructor gave up
and that a call failed.  After the destructor has given up the object is
freed, and `UseFreed` is the thread's next step in it.

**Storage** (`M_storage.cpp` 186-359, 371-418).  `dinoFolder` is the map, `db`
the table as sequences of folders, `cmds` the queue.  Each command changes the
map at once and the table later (`Write2Memory`, `Write2Storage`), in the two
ways of the code.  The thread's first step sets the flags and creates the mutex;
until then they are arbitrary, and `PushAcquire` goes on without one.  `dropped`
remembers that a command was refused or failed, `doubled` that a dino was given a
folder that it had, or loaded with one twice.  Sessions
follow each other over the same table, after an unload or a crash.  The SELECT that
fills the map may fail after any row: `dumpCustomFolders` catches the exception, and the
session goes on with the rows that it has (`LoadCutOff`); `unread` remembers the
folders of a dino that were left, which the map does not have and the table does.

**SchemaInstall** (`M_storage.cpp` 38-124, 164-169, 371-389).  Each statement is
a transaction; any may throw, and the process may die between any two.  The code
has one updater of two statements; the module is about any table of updaters,
and any sequence of older and newer plugins, for which `installTable` is
written.

**StringLibrary** (`M_event_writer.cpp` 12-36, 75-229, 296-370).  The logs are sequences
of definitions and uses; each loses an arbitrary end of its queue when a session
ends.  `stringLog` is what the constructor makes of the string files, right or
wrong.  When the record that is written last is cut off (`EndCutOff`, `cut`), the next
session appends to the same file unless it is full, and the reader takes the size of
the cut-off record from its header and the rest from what follows: each append then
yields any definitions at all (`Misread`, at most `MaxWrong`), none of them those that
were meant, until the reader falls into step by chance or a new file begins
(`FlushBehindCut`, `FlushStrings`); `garbled` remembers that there were any.  `ReadId` is what the
reader makes of a number: those from `IdLimit` on are read as `DefaultId`.  A session
reads any part of the definitions, and `unread` remembers that it was not all.  The event
log's own definitions are exact: its readers are not part of the repository.

**EventMessage** (`EventMessage.cpp`).  A value is encoded to the calls of
`push_memory` that the code makes; each call is a step that copies into the last
buffer or adds one.  `Decoded` is a reader, written from the formats.

**Messages** (`Messages.cpp`) extends `EventMessage`: each function is the sequence
of values that it pushes, and the number that it declares, and each value goes
through the encoding byte by byte.  What comes out is read back by one who knows
only the number of the values and the type.  Messages of no function push any
values at the limits of the encoding.

**OnlinePlayers** (`M_online_players.cpp`, `M_player_common_activity.cpp`).  Three
actions are calls of `StartNewShooterPlayer` (login, creation, respawn), `Logout`
is the hook of the logout, and the constructor looks at one player after another
(`Construct`) while the server waits.  An exception there is caught and ends the list
(`ConstructEnds`); `missed` remembers the controllers that were left out, until one is
inserted or destroyed.  A controller of an account that is online
may log in before the old one has been logged out.

**Timer, OnlineTime** (`M_timer.cpp`, `M_online_players.cpp` 205-315).  The clock
moves in parts of a millisecond, so that rounding is seen, and may be set back.
`OnlineTime` reports the time since a player's last report in two steps, between
which an attack may move `cur_time`.  The log follows any selection of the
messages, which stands for logs of all lengths.

**InventoryHarvest** (`M_inventory_and_harvest.cpp`).  `stack` is the stack of
hooked calls, `oi` the flags of the player's record.  A call pushes a frame and
sets its flags; what the server does within it is any nesting of further calls
and any distribution of units; its return clears what the code clears.  A removal is
reported before the server is asked, which may refuse it (`RemoveRefused`); `unseen` counts
what the messages are behind by for that and for items that no message is about.

**TamedFolders** (`M_tribe.cpp` 428-510, 700-760, 924-1022).  A dino's folders
are counts of three kinds (two for levels, and all others).  A restart finds any
value that the map has had in the session, which is what `Storage` shows
(`PointInTime`).  Players may give folders any names, the plugin's among them, which the
checks count and nobody deletes (`AddCustomFolder`, `named`).  The message of a tame is
pushed by the timer and, when a player has the credit, at once (`CreditedTame`,
`credited`).  `bound` fixes the bounds of a behaviour, so that one run covers
several small cases.  A destroyed dino that is still in the queue reads as anything.

**TribeMembers** (`M_tribe.cpp` 828-903, `M_online_players.cpp` 49).  The server's
tribe is changed by calls that nest as in the trace in the source (778-811);
`log` holds the messages that the reader has not applied to its `view`.

**Commands** (`ExtendedEventLog.cpp` 33-103, `M_online_players.cpp` 107-146) adds to
`TribeMembers` the tribe in the record of each player that may be online, which
`insertPlayer` reads at a login or spawn and nothing refreshes, and the command
that gives it to a dino.  The constructor reads it before it has the server remove
tribes.  `moved` remembers whose tribe has changed since.

**PlayerReports** (`M_player_common_activity.cpp`, `M_online_players.cpp` 205-240,
`ExtendedEventLog.cpp` 242-271) adds to each action of `OnlinePlayers` the message
that the code logs with it, and to the state what a reader makes of the messages:
who is online, by which account, and where (`shown`, `known`).  `untold` remembers the
players whom the start of the log has left out with the constructor.

**DinoCredit** (`M_tribe.cpp` 560-700, `M_online_players.h` 95-105) adds the dinos.
`lastHitDino` is the bare address in a record; a destroyed dino may leave its
address to another.  `claims` and `haunts` remember, independently of the records,
who has hit the dino that is there and who one that was there before.

**Lifecycle** (`ExtendedEventLog.cpp`, `M_hook_helper.cpp`, the `_init` and `_done`
of all modules).  `modulesList` is the code's order; `at` is the position in it.
A thread that is created begins only when `DllMain` has returned.  The module has
the actions; `Plugin` says when they happen.

**Plugin** extends `SchemaInstall` and instantiates `Lifecycle`.  The
initialisation of the module `Storage` is a session of the installer: its
statements are steps of `Load`, its exception ends the process, and its failure
to open the database is the failure of the module.  The process may be killed
anywhere; the next one finds nothing but the database.

**Console** (`ConsoleHelper.cpp`, menus and titles of `CHElement.cpp`,
`M_console_helper.cpp`).  Each thread has an `agenda` of tasks, which is cut where
the other thread may come between.  `elements` and `needRedraw` are the lists;
`screen` is what the operator sees as it is.  `ghosts` counts how often a deleted
element is painted.  Where the code tests `ConsoleHelper::instance` and reads it again to
use it (`add`, `update`, `_getElement`), the test and the use are two steps (`Tested`,
`NullUsed`), between which the game thread may unload the plugin; `early` remembers that an
event was read before that.  A list that is changed while `clear` goes through it
leaves `phase` at "torn", after which nothing is said.  A click that opens a section
adds its box before the items of the menu are changed (`Setup`), so that there is a
box to be drawn.

**LinesBox** (`LinesHolder`, `CHBoxVScroll`, `VScroll` of `CHElement.cpp`).  A line
is its place; `total`, `pos`, `visible` and `regions` are the scroll bar's, and
`boxPos` is the line in the first row.
The thumb is rounded up from floating quotients: one that should be whole may become the
next (`FloatCeil`; 63 rows, 549 lines and place 486 do).  The number of lines is compared
as an unsigned number (`SizeAbove`, `SizeBelow`).  Pushing, erasing, clearing and scrolling
are cut into the assignments that the other thread may see; `undefined` stands for
both threads in the vector at a time, and `crossed` for two operations that were
under way at a time.  `ConsoleThreads` names the two threads for both modules.

**How modules are composed.**  By extension: `Messages` of `EventMessage`,
`OnlineTime` of `Timer`, `Commands` of `TribeMembers`, `DinoCredit` of `PlayerReports` of `OnlinePlayers`,
`Plugin` of `SchemaInstall`.  By instance: `EventWriter` and `StringLibrary` of
`EventLog`, `Plugin` of `Lifecycle`.  By assumption and promise: `StringLibrary`
uses what `EventLog` promises and `EventWriter` implements; `TamedFolders` uses
what `Storage` keeps; `TribeMembers` and `DinoCredit` have their messages read in
the order in which they are pushed, which `EventLog` promises.

## 4. Runs

| run | question | bounds |
| --- | --- | --- |
| `EventWriter` | Is anything lost, overrun or reordered, whatever fails and whenever the destructor gives up?  Does the writer implement `EventLog`?  Do pushes and unloads return, and does everything reach the files? | 3 pushes of 3 sizes, one too large for any packet; packets of 2 messages or 4 bytes, files of 6 bytes |
| `Storage` | Does the table follow the map, over crashes, unloads and failing statements?  Do pushes return, do commands arrive, what does an unload lose? | 1 dino, 2 folders, 4 commands, 2 sessions; failing reads and writes |
| `StringLibrary` | Are numbers unique and kept over sessions that are cut off and cannot read, or misread, the files; can each use be resolved? | 3 strings, 2 uses, 3 sessions, 1 readable number, 1 wrong definition for each append |
| `Messages` | Are buffers kept and sizes exact; is each function's message read back as it was meant? | bytes of 4 values, buffers of 8 bytes, 3 values of no function, lists of up to 2 stats, 2 requirements |
| `DinoCredit` | Are pointers live, records single, players tracked; does a reader know who is online and where; does the credit go to one who has hit the dino? | 2 accounts, 3 controllers, 3 characters; 2 places or 2 dinos at 2 addresses |
| `OnlineTime` | Are callbacks paced, time stamps ordered, times added up? | 1 player, 8 parts of time, 1 set-back, 2 timer calls, 2 messages |
| `InventoryHarvest` | Do the flags mirror the calls; are harvests and inventories reported right, and where removals are refused? | 3 units, calls 3 deep |
| `TamedFolders` | Is a tame reported once and not forgotten; does the queue serve all? | 3 dinos without a restart, 2 with one, 1 with three and a credit; 1 with two and a folder of a plugin's name, 1 with one and two such |
| `TribeMembers` | Does a reader of the messages see the tribes that the server has; to which tribe is a dino handed? | 1 tribe, 4 players of whom one comes and goes, 2 names |
| `Plugin` | Is nothing left behind; are modules ready for their hooks; what does a recorded version mean after faults, upgrades and deaths of the process; do load and unload end? | 3 loads, 2 updaters, 2 faults |
| `Console` | Is every element painted; are locks returned; when does the console die; does the unload end? | one element of each kind, 1 event between two paintings |
| `LinesBox` | Does the bar know the lines; does the operator see the new ones? | 8 lines, heights 1, 3 and 6 |

The largest, `OnlineTime`, `DinoCredit` and `LinesBox`, have 2.9, 1.3 and 0.6 million
distinct states; each run takes at most a few minutes.

**What the properties are made of.**  Each module states its invariant `Inv` as a
conjunction of named parts, of which the type invariant `TypeOK` is one, and has a
definition of its own for what takes a history of several steps to violate.

| module | `Inv` is `TypeOK` and | the run's other properties |
| --- | --- | --- |
| `EventWriter` | `PacketFits`, `FilesFit`, `LockHeld`, `CrashNeedsTimeout` | `NoneLost`, `PacketSizeExact`, `LogSpec`, `Progress` (`PushReturns`, `UnloadReturns`, `ThreadEnds`, `Flushed`), `AwakeExitWaits` |
| `Storage` | `RaceOnlyAtStart` | `TableTrue` (`Mirror`, `PointInTime`), `Progress` (`PushReturns`, `QueueDrains`), `AwakeExitApplies` |
| `StringLibrary` | `IdsUnique`, `LibraryInjective` (`LibraryInv`) | `DefinedForGood` (`KeepsId`, `NeverRedefined`), `Resolvable` |
| `Messages`, `EventMessage` | `PartsFit`, `SizeExact`, `AtHeader` (the number declared), `StatsUnderstood` (`MessagesInv`) | `RoundTrip` |
| `DinoCredit`, `PlayerReports`, `OnlinePlayers` | `OneRecordPerPlayer` (`PlayersInv`) | `LivePointers`, `Tracked`, `ReaderTrue` (`PlacesKnown`, `OnlineShown`), `CreditTrue` |
| `OnlineTime`, `Timer` | `OutOfOrderOnlyInTick`, `NeverOverstated` (`OnlineTimeInv`) | `ReportsAddUp`, `ElapsedPace` |
| `InventoryHarvest` | `FlagsMatchStack` | `ReportsTrue` (`HandHarvestTrue`, `DinoHarvestOnce`, `InventoryReplay`) |
| `TamedFolders` | `LevelsKept` (`TamedInv`) | `TamesReported` (`ReportedOnce`, `TameKept`), `QueueServed` |
| `TribeMembers`, `Commands` | `OwnerIsMember`, `OnlyNews` | `Replayed`, `TeamTrue` |
| `Plugin`, `Lifecycle`, `SchemaInstall` | `NothingLeft`, `HooksReady`, `FailureReturns`, `RecordedIsApplied` (`PluginInv`) | `CleanLoadInstalls`, `AheadForGood`, `Progress` (`UnloadEnds`, `LoadReturns`) |
| `Console` | `LocksReturned`, `FreedAlone`, `CrashCause` | `ScreenTrue` (`NoneForgotten`, `GhostsBounded`), `Progress` (`Repainted`, `UnloadEnds`, `ExitHeard`) |
| `LinesBox` | `TotalTrue`, `PosInRange` (`LinesInv`) | `LinesShown` (`FollowsEnd`, `UnseenLastRow`) |

**Why the bounds are enough.**  Each is the least at which the case that the
properties are about occurs with room for another beside it.  Packets fill up by
count and by size, and files rotate within a run; numbers leave the readable
range while strings are still new; buffers are shorter than a number of 64 bits,
so that one is split, and bytes of four values keep every limit between widths
within reach of a small number; a reconnect overlaps with another; an `AddItem`
runs inside an `AddItem` inside a transfer; a third restart finds what two have
lost; a third load finds what an upgrade and a death have left; the box has a
single row, rows without a thumb's place, or nearly all lines in it, and lines are
erased, or it becomes larger than the lines that are left; a third character has the
number between those of two records.  One wrong definition is enough to take a string, a
number, or both from what is defined later, and a reader that is still out of step finds
another with the next append.  The thumb may end in the last row, not only above it, from ten
rows on; that was tried with heights 1 and 10 and 16 lines, and is proved for all.  Commands on different dinos do not touch each other's rows, so one dino is
enough for `Storage`; in `OnlineTime`, `Elsewhere` stands for the other players.
`DinoCredit` follows places or dinos in a behaviour (`Subjects`), since neither
reads what the other writes, and leaves the reader's places out of the view of a state in
behaviours about dinos.  Strings, the players of a tribe, and places and
dinos' addresses are interchangeable and are reduced by symmetry
(`StringLibrary`, `TribeMembers`, `DinoCredit`), only in runs without liveness
properties.

**What the runs show of the code.**  The properties say what holds, with the
exceptions that the code makes:
- The exit flag stops `EventWriter`'s thread only out of its pause.  What was pushed
  during that pause is lost by a clean unload; a thread that the flag finds at work
  goes on without a pause, and the destructor waits its whole five seconds for it,
  unless a call fails (`AwakeExitWaits`).
- The queue of `Storage` has been applied after an unload only if the flag found the
  thread at work, nothing failed and the destructor did not give up
  (`AwakeExitApplies`).
- A message that fits in no packet stays at the head of the queue, and all behind
  it (`Flushed` excepts it).
- The thread uses the freed object only after the five seconds
  (`CrashNeedsTimeout`).
- The table is a past value of the map as long as no statement failed and no
  folder was given twice, for the dinos of which a session has read all rows
  (`PointInTime`); of the others it has the session's folders and at most the rows that
  the failing SELECT left (`Mirror`).  A deletion that fails is enough for the
  second: the table keeps the row, the folder is given again, and from the next
  start on the dino has it twice, so that its deletion removes one entry of the map
  and both rows.
- The table keeps no row that the map has lost, but loses rows that the map keeps,
  if a dino has had a folder twice (`Mirror`).
- The queue of commands is unprotected until its thread has begun, and never after
  (`RaceOnlyAtStart`).
- Unreadable string files, and what stands behind a record that was cut off, make
  numbers ambiguous across sessions, but never within the event log as it is read
  session by session, by a reader that misreads the string files as the session did
  (`Resolvable`).  Numbers are given out twice, and strings lose theirs, only then
  (`IdsUnique`, `KeepsId`; `Intact`).
- Strings from the 65536th on share one number after a restart
  (`LibraryInjective`).
- A player whose connections overlapped may be online without a record
  (`Tracked`); and so may all players that were online when the plugin was loaded, from
  the one on whose account number the constructor fails, until each spawns again or makes a
  character.  The log does not show such a player before a login or a new character, even
  when a spawn has made the record (`OnlineShown`), and the player's hits have no credit
  (`CreditTrue`).
- The inventory that the messages tell lacks what a refused removal has left there
  (`InventoryReplay`).
- A tame is forgotten if a restart falls between its folders and its owner, or if players
  have given the dino two folders with the plugin's names (`TameKept`); two such folders, or
  one and a restart that loses another, leave a dino without one of the plugin's
  (`LevelsKept`).
- A tame for which a player has the credit is reported twice, by the hook and by the timer
  (`ReportedOnce`).
- An install of the schema that was cut off is never taken up again
  (`AheadForGood`).
- A failed load comes back only if the console was not created
  (`FailureReturns`, `LoadReturns`).
- A character that was there when the plugin was loaded, and was replaced by
  another, is shown as online until the next start: its account was never named
  (`OnlineShown`).  The message of a respawn has the type of an end of work, which
  the reader must take for it.
- A knock-out or a tame may be credited to one who has hit a dino that was at the
  same address before; of several the lowest number has it (`CreditTrue`).
- The remote command hands a dino to the tribe of which the player was when he
  spawned last.  If he has left it since, the log has told so, but the record does
  not follow (`TeamTrue`).
- The console dies of a null pointer only while the plugin is unloaded, by a click on a
  menu, which nothing tests for, or by an event that was read before and is past a test of
  the instance; the game thread never does (`CrashCause`); a deleted element is painted at most twice more
  (`GhostsBounded`).
- Erasing the oldest line leaves the box one line too far, so that its last row is
  empty, and a box of one row shows nothing (`FollowsEnd`, `UnseenLastRow`).
- A box that has become larger than its lines begins before the first one; what is pushed
  then is not painted until the box is moved, in whatever row it stands (`UnseenLastRow`).
- The thumb ends within the box, but may reach into the row of the arrow, which is painted
  over it (`PosInRange`).

**Fairness.**  `EventWriter` and `Storage`: both threads are scheduled (weak), and
Windows serves the waiters of a mutex in turn, so that a thread which asks for it
again and again gets it (strong fairness of the two acquisitions).  Nothing makes
the game push or unload.  `TamedFolders`: the server calls its timer again and
again.  `Plugin`: `DllMain` goes on, five seconds pass, and the console's thread,
the only one that is waited for without a limit, begins when it may and ends;
nothing attaches or detaches the library, makes a module fail or kills the
process.  `Console`: its thread is scheduled (weak); the game thread gets a lock
that the console's thread has again and again, and the server calls the timer
whatever else it calls (strong); nothing makes the operator or the game do
anything.

**Deadlock** is checked in all runs but two.  In `TamedFolders` a dino that was
destroyed with no restart left has nothing more to do.  `Plugin` stops after its
last load, and in a rollback that waits for a thread which cannot begin — the case
that `FailureReturns` is about.

## 5. Proofs

TLAPS proves, for every value of the constants that meets the named assumptions:

**EventLogProofs**, first part — all safety properties of `EventWriter`, `AwakeExitWaits`
among them, and that `EventWriter` implements `EventLog`.  The inductive
invariant `IInv` adds to the properties what the code keeps at each label: that
the packet is empty outside of packing and writing, how the packet's size and
the file's are related to the limits when the thread has passed the rotation, and
that an object is freed under a thread only after the timeout.
`PacketSizeExact` needs what the fold over the packet's messages gives when one is
appended (`BytesGrow`); `AwakeExitWaits`, that a thread which the flag has found at
work stays there (`AtWork`).  The refinement maps each step to an acceptance, a
commit of the oldest pending messages, a stop, or a stutter.  Assumed: sizes are
positive, a file has room for a packet, and the folder holds files within the limit.

**EventLogProofs**, second part — all properties of `StringLibrary`.  The invariant looks at
each log together with its queue, so that it does not matter which end is lost
later: a string is defined once and its number given once (`Unique`), and the
session knows what is defined (`Known`); what a session uses it has from the
string files or has defined before (`Sourced`), and its own definitions stay in
force (`AllInForce`), from which `Resolvable` follows.
`Resolvable` and `NeverRedefined` are about what a reader finds, so that they do not need to
know whether it is right; that the file only grows (`FilesGrow`), and that what a session has
read of it stays where it was (`ReadAlready`), carries them over any misreading.  What is
unique is so while the files are intact, and a misreading that finds anything ends that
(`MisreadFiles`).

**EventLogProofs**, third part — both properties of `Messages`, for a byte of any
number of values, a buffer of any size from four bytes on, and values of all types
and sizes.  The invariant of the encoding (`EncodingInv`) is that the bytes in the
buffers, followed by those that are still to be pushed, are four bytes and then the
bytes of the values, one after the other (`BytesKept`); it does not see where a
buffer ends, so that it does not matter where a value is split.  That such bytes are
read back (`DecodedIs`) goes value by value: a number of each width is what its
bytes add up to (`NumberRead`), the types tell the widths apart (`Types`), and the
reader stands behind the bytes of each value once it has read it (`PlaceOf`).  The
least number of 64 bits, which is its own negation and so below every limit, is
encoded in one byte, which is zero (`LeastIsZero`).  The invariant of the messages
(`MessagesKept`) is that what a function has pushed and what it is still to push are
together a message that declares its own length, at any time; each of the functions
is shown to begin one (`FunctionMade`), with any number of stats and requirements.
Assumed: bytes have two values or more; points and levels are numbers of 32 bits;
and no function makes a message of as many values as three bytes can count.

**PluginProofs**, first part — all properties of `SchemaInstall`, the temporal
`AheadForGood` included, and `RecordedGrows`, that no load lowers the version,
which no run checks.  The key is that the objects in the database are a prefix of
what the updaters create (`Prefix`), and that a loop which began below the recorded
version, because that could not be read, stands at an object that exists
(`LoopInv`); hence it throws before it could record anything.  `Stuck`,
which every step preserves, then gives `AheadForGood`, and `Clean` what holds
without faults and crashes.

**PluginProofs**, second part — that `Plugin`, for the database, implements
`SchemaInstall`: whatever the loader and the process do maps to a step of the
installer or leaves its variables alone; a death maps to a crash, or to an unload
where the storage is open and idle.  The properties of `SchemaInstall` then hold in
the plugin.  What it takes from `Lifecycle` (`PluginInvariant`) rests on `LifeInv`:
at each place of a load or unload, the hooks and timers that the server has belong
to modules that stand (`Standing`, `HooksKnown`, `CallbacksKnown`), and a rollback
does not get past the console, whose thread cannot begin before `DllMain` returns
(`ConsoleWaits`).

**PluginProofs**, third part — the three properties of `OnlineTime`, for any number of
players.  The invariant (`ClockInv`) adds to what the properties say of players
between two reports what holds within one: the record is counted to `cur_time`
while its dino attacks (`Upto`), an attack moves `cur_time` and `moved` alike, and
each player is reported once in a run of the timer (`OncePerRun`), which bounds the
reports by the calls.  The time is then a multiple of a millisecond and one rounding
for each report (`AddsUp`), in whole numbers, and the remainder of the multiple is
what was reported.  While the clock is not set back, everything that was read of it
is of the past (`OfThePast`), so that no report is negative and none is rounded up
(`RoundedDown`).  That needs a width which can count the time there is (`Countable`:
with 32 bits and real milliseconds, seven weeks), and is the only assumption;
`ReportsAddUp` and `ElapsedPace` do not need it.  For the pace, a run is due an
interval after the last one (`Paced`).

**StorageProofs** — all safety properties of `Storage`, with `AwakeExitApplies`.  The
invariant says that the map is among the maps of the session (`PastInv`), and that
wherever the queue is cut off, the commands before the cut lead from the table to
one of them (`LagInv`), where the rows that a load has left are set aside; so each step of
the writer stays within the past.  It needs
that a deletion by rows and one by the first entry agree where no folder occurs
twice (`DeletionsAgree`), and keep one list a part of the other where one does
(`SubsequenceDelete`): facts about two folds and about `RemoveFirst`, for lists of
any length.  `Emptying`, which every step preserves, gives `AwakeExitApplies`.

**DinoCreditProofs**, first part — `LivePointers`, `OneRecordPerPlayer` and `Tracked`
of `OnlinePlayers`.
The invariant adds that characters belong to one account each and are numbered
in their order (`PidOwner`), that two connections of an account are remembered
(`OverlapSeen`), and what the constructor has already looked at or left out (`Seen`).
`InsertPlayerMap` says once what `insertPlayer` does to a map in which no account
has two records; all three hooks use it.

**DinoCreditProofs**, second part — that `DinoCredit` implements `OnlinePlayers`, so that
`LivePointers`, `Tracked` and single records hold in the composition; `ReaderTrue`
and `CreditTrue`.  For the reader the invariant adds that a new connection has no
character shown (`NewUnlinked`) and that a character is shown under the account
that has it (`ShownOwner`); for the credit, that the address in a record is
explained by a claim, a former claim or an overlap (`HitsKnown`) and that a claim
has its record (`ClaimsKnown`).  That `getByDinoDamage` finds the lowest number uses
`Smallest`.

**TribeMembersProofs** — both properties of `TribeMembers`, and that `Commands`
implements it and keeps `TeamTrue`.  What the reader has,
and what it has not read yet, make up what the server has (`Followed`), with one
case for each kind of message that the log may begin with; at a time, the log
holds the messages of one call (`OneCall`).  Assumed: there are finitely many
players.

Its last part proves both properties of `TamedFolders`, for every number of dinos,
restarts and folders of the players.  `LevelsKept` is not inductive: whether the
two folders that a check finds are of two kinds depends on what the restarts before
it have cost.  `Whole` lists which folders a living dino can have while fewer than
two restarts have cost it any, now and in the past of the session that the next
restart may bring back; `Grown` says that within a session a living dino's folders
only become more.  What players have named counts there like a folder that is lost (`named`).  For
`ReportedOnce`, `Budget` weighs each time that a dino was put
in the queue, and its credit, against the losses that let a check put it there again; for
`TameKept`, a dino that was never put there has no folders in this session but those that
players have named (`Unlisted`).  What follows next in the queue is an element of it because a set of
natural numbers has a least one (`AfterIn`), and dinos are natural numbers because
there are finitely many bounds (`FiniteMax`).

**InventoryHarvestProofs** — both properties of `InventoryHarvest`, for calls nested
to any bound and any number of units.  Neither is inductive: a flag is set and
cleared by each call of `AddItem`, and a report is made long after the amounts in it
have changed.  The invariant therefore says which calls may stand above which
(`Above`, `Shape`), so that the innermost call tells what every flag must be
(`FlagsTell`: what is reset when it returns is what the one around it expects), and
accounts for every unit: what the calls under way have still to place belongs to
what was asked for (`Placing`, `Conserved`), what they have made of new items and what was
not removed although it was reported is what the messages are behind by (`Behind`), and what the calls for a dino may still
report is no more than was harvested (`Reportable`).  The amounts are sums over
the stack, of any depth (`LeftAll`, `MadeAll`); `SumsOfAppend` and `SumsOfLast` say
what a call, a return and a change of the innermost call do to them.

**ConsoleProofs**, first part — both safety properties of `Console`, for any finite set of
controls.  The invariant is about the agendas.  A thread's calls are nested, so the
first task may be anywhere and the others have not begun; which tasks may follow which
is said once for the game (`GameTasks`) and once for the console (`ConsoleTasks`), and
tells who has the locks (`LockHeld`, `DeleteHeld`: that `clear` gives back a lock that
it has not taken does no harm because the game never has that one, and the console
clears only where a key is no longer handled).  Whatever is to be drawn is in the list
of elements, but for the title that is deleted (`Listed`), of which `Haunting` counts
what may still paint it.  `NoneForgotten` needs no more than that.  For `CrashCause`, the game thread
is never between a test and a use when the plugin is unloaded, and the console's thread is there
with the plugin gone only for an event that it read before (`UsedEarly`).  The proof has a
lemma for each way in which an agenda goes on (`GoesOn`, `Becomes`, `Finishes`) and one
for each action.

**ConsoleProofs**, second part — both properties of `LinesBox`, for any number of lines
and any heights.  Both speak of a box at rest; the invariant says what is so wherever
the two threads are in between: what `total` counts before and after each assignment
(`Counted`), where the bar may be and whether its thumb is there (`Ranged`), what a push
has found of a box that showed the end (`LinesFollow`), and which lines have been painted
(`Unseen`).  Once two operations have crossed little of it holds; `Alone` says which of
it comes back first, `NoMore` and `EmptyBox` what never goes.  That the thumb does not
end below the box is arithmetic about two quotients, each rounded up, and perhaps by one too
many (`RoundedParts`, `ThumbFits`).

**ProofFacts** — lemmas that several of these use: about sequences and numbers; the
induction that the prover accepts (`Stepwise`: a set of numbers that has 0, and the
next of each that it has, has all); that a fold over a list goes through a path
of values, one for each prefix (`FoldExists`, `PathExists`, `FoldIsPath`); the
sum of a list of numbers (`TotalProperties`); and division, whose quotient and
remainder are the only ones (`Quotient`).

Each proof has the form: the initial states satisfy the invariant, every action
preserves it, and it implies the property; the last step is temporal.

**Only model-checked**: liveness, which the prover does not reach (`Progress` of
four modules, `QueueServed`).

## 6. What is not modelled

- The vendored libraries, which are about 98 of 100 lines of the repository (SQLite
  and its shell, the JSON and formatting headers): the plugin's own code is some
  7,000 lines, of which the modules cover more than half; the rest is declarations,
  commented code, colours and places of the console, and hooks without state.  SQLite is
  modelled by the statements that the plugin executes and by their failing.
- `GetRandomBaseLevel`, structures, engrams, level-ups, names, crafting, deaths of
  players: they keep no state of their own.  Those that
  log make one message, whose form is in `Messages`.
- `HarvestMarker`: `Lifecycle` has its place in the list of modules, but its
  initialisation only makes an empty map, and its two functions have no callers; and
  `console.cpp`, a demonstration that is not part of the plugin.
- `ConfigReader` and `Utils`: one file read once, whose failure is in `Plugin`, and
  formatting.
- Colours, places and texts of the console.
- An event file that ends within a message that was cut off, as its reader sees it:
  `EventLog` is the log of one session, and the readers of events are not part of the
  repository.  The string files, which the plugin reads itself, are in `StringLibrary`; a
  misread size that does not fit the reader's buffer, which would end the process, is there
  a session that never begins.
- Players without a record whose stacks are split or merged: the hooks use the record
  without a look (`M_inventory_and_harvest.cpp` 672-673, 699-700) and the process ends.
  `Tracked` says which players those are; `InventoryHarvest` is about one with a record.
- A failing `GetOrLoadTribeData` in the hook of `UpdateTribeData` (`M_tribe.cpp` 864),
  after which nothing is logged of that change.
- A restart of the whole server from an earlier save of the world: in `TamedFolders`
  a restart is one of the plugin, over dinos that stay as they are, or one whose save is
  the latest.
- The server beyond what the hooks see of it: it may call any hook at any time on
  the game thread, and nests calls only as the sources show.
- The C library, SQLite and Windows beyond success, failure and the guarantees
  named under *Fairness*; the configuration; formatting.
