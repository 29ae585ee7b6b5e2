---------------------------- MODULE SchemaInstall ----------------------------
(***************************************************************************)
(* The tables of the plugin's database and the versions recorded of them:  *)
(* initSchema, getTableVersion and installTable of M_storage.cpp, with     *)
(* every statement a transaction of its own.                               *)
(*                                                                         *)
(* The table of updaters has one entry today (custom_folders_versions),    *)
(* and installTable is written for more: a load may be of any plugin       *)
(* version, older ones than the last included.  A statement of an updater  *)
(* creates an object (a table, an index) and throws when it is there.      *)
(***************************************************************************)
EXTENDS Integers

CONSTANTS
  Updaters,     \* how many entries the table of updaters has
  Statements,   \* how many statements each of them executes
  MaxLoads,     \* bound: how often the plugin is loaded
  MaxFaults     \* bound: how many statements fail (a locked or full database)

ASSUME UpdatersAssumption == Updaters \in Nat \ {0}
ASSUME StatementsAssumption == Statements \in [0..Updaters - 1 -> Nat \ {0}]
ASSUME BoundsAssumption == MaxLoads \in Nat /\ MaxFaults \in Nat

NoRow == -1

Object(v, k) == <<v, k>>
Objects == {o \in (0..Updaters - 1) \X Nat : o[2] \in 1..Statements[o[1]]}

VARIABLES
  schema,     \* does the table "schema" exist?
  recorded,   \* the version in its row for custom_folders
  objects,    \* what the updaters have created
  pc,         \* where M_storage_init is
  target,     \* the argument "version" of installTable
  current,    \* its variable currentVersion
  statement,  \* the statement of the updater that comes next
  loads,      \* how often the plugin was loaded
  faults,     \* how many statements failed
  crashes     \* how often the process died in M_storage_init

database == <<schema, recorded, objects>>
install == <<target, current, statement>>
counters == <<loads, faults, crashes>>
vars == <<database, pc, install, counters>>

PC == {"off", "initSchema", "getTableVersion", "update", "record", "ready"}

TypeOK ==
  /\ schema \in BOOLEAN
  /\ recorded \in {NoRow} \cup 0..Updaters
  /\ objects \subseteq Objects
  /\ pc \in PC
  /\ target \in 1..Updaters
  /\ current \in 0..Updaters
  /\ statement \in Nat \ {0}
  /\ loads \in 0..MaxLoads
  /\ faults \in 0..MaxFaults
  /\ crashes \in 0..MaxLoads

Init ==
  /\ schema = FALSE /\ recorded = NoRow /\ objects = {}
  /\ pc = "off"
  /\ target = 1 /\ current = 0 /\ statement = 1
  /\ loads = 0 /\ faults = 0 /\ crashes = 0

Fault == faults < MaxFaults /\ faults' = faults + 1

-----------------------------------------------------------------------------
(* M_storage_init opens the database for writing.                          *)
Load(version) ==
  /\ pc = "off" /\ loads < MaxLoads
  /\ loads' = loads + 1
  /\ target' = version /\ current' = 0 /\ statement' = 1
  /\ pc' = "initSchema"
  /\ UNCHANGED <<database, faults, crashes>>

(* It cannot be opened: M_storage_init returns false.                      *)
OpenFails ==
  /\ pc = "off" /\ loads < MaxLoads
  /\ loads' = loads + 1
  /\ Fault
  /\ UNCHANGED <<database, pc, install, crashes>>

(* Storage::initSchema creates the table of versions when it is missing.   *)
InitSchema ==
  /\ pc = "initSchema"
  /\ schema' = TRUE
  /\ pc' = "getTableVersion"
  /\ UNCHANGED <<recorded, objects, install, counters>>

(* Its exception clears "inited", which only the destructor reads from     *)
(* here on: the load goes on with no table of versions.                    *)
InitSchemaThrows ==
  /\ pc = "initSchema"
  /\ Fault
  /\ pc' = "getTableVersion"
  /\ UNCHANGED <<database, install, loads, crashes>>

(* Mistake: the loop starts at the version after the recorded one.         *)
StartFromNext(version) ==
  /\ current' = version + 1
  /\ pc' = IF version + 1 < target THEN "update" ELSE "ready"
  /\ UNCHANGED <<target, statement>>

(* installTable starts from the version it was told, if that is too low.   *)
StartFrom(version) ==
  /\ current' = version
  /\ pc' = IF version < target THEN "update" ELSE "ready"
  /\ UNCHANGED <<target, statement>>

(* Storage::getTableVersion: a table with no row gets one, of version 0.   *)
GetTableVersion ==
  /\ pc = "getTableVersion" /\ schema
  /\ recorded' = IF recorded = NoRow THEN 0 ELSE recorded
  /\ StartFrom(recorded')
  /\ UNCHANGED <<schema, objects, counters>>

(* An exception is version 0 too, whatever the row says.                   *)
VersionUnknown ==
  /\ StartFrom(0)
  /\ UNCHANGED <<database, loads, crashes>>

GetTableVersionThrows ==
  /\ pc = "getTableVersion"
  /\ VersionUnknown
  /\ \/ ~schema /\ UNCHANGED faults
     \/ schema /\ Fault

-----------------------------------------------------------------------------
(* The loop of installTable, one statement of an updater at a time.        *)
Update ==
  /\ pc = "update"
  /\ Object(current, statement) \notin objects
  /\ objects' = objects \cup {Object(current, statement)}
  /\ IF statement < Statements[current]
     THEN statement' = statement + 1 /\ UNCHANGED <<current, pc>>
     ELSE /\ statement' = 1
          /\ current' = current + 1
          /\ pc' = IF current + 1 < target THEN "update" ELSE "record"
  /\ UNCHANGED <<schema, recorded, target, counters>>

(* Mistake: the handler logs, and the loop is left for the record.         *)
GiveUpRecords ==
  /\ pc' = "record"
  /\ UNCHANGED <<database, install, loads, crashes>>

(* An updater that throws ends installTable: the updaters before it stay   *)
(* applied and unrecorded.                                                 *)
GiveUp ==
  /\ pc' = "ready"
  /\ UNCHANGED <<database, install, loads, crashes>>

UpdateThrows ==
  /\ pc = "update"
  /\ GiveUp
  /\ \/ Object(current, statement) \in objects /\ UNCHANGED faults
     \/ Object(current, statement) \notin objects /\ Fault

(* The new version is recorded last; a table with no row has none to       *)
(* update.                                                                 *)
Record ==
  /\ pc = "record" /\ schema
  /\ recorded' = IF recorded = NoRow THEN NoRow ELSE target
  /\ pc' = "ready"
  /\ UNCHANGED <<schema, objects, install, counters>>

(* Nothing catches the exception of the last statement, and the load ends. *)
RecordThrows ==
  /\ pc = "record"
  /\ pc' = "off"
  /\ UNCHANGED <<database, install, loads, crashes>>
  /\ \/ ~schema /\ UNCHANGED faults
     \/ schema /\ Fault

-----------------------------------------------------------------------------
(* M_storage_done.                                                         *)
Unload ==
  /\ pc = "ready"
  /\ pc' = "off"
  /\ UNCHANGED <<database, install, counters>>

(* The process dies between two statements.                                *)
Crash ==
  /\ pc \notin {"off", "ready"}
  /\ pc' = "off"
  /\ crashes' = crashes + 1
  /\ UNCHANGED <<database, install, loads, faults>>

Next ==
  \/ \E version \in 1..Updaters : Load(version)
  \/ OpenFails
  \/ InitSchema
  \/ InitSchemaThrows
  \/ GetTableVersion
  \/ GetTableVersionThrows
  \/ Update
  \/ UpdateThrows
  \/ Record
  \/ RecordThrows
  \/ Unload
  \/ Crash

Spec == Init /\ [][Next]_vars

-----------------------------------------------------------------------------
Applied(version) ==
  \A v \in 0..version - 1 : \A k \in 1..Statements[v] : Object(v, k) \in objects

(* A recorded version is never ahead of what was applied, through failing  *)
(* statements, crashes and plugin versions that come and go: the code that *)
(* trusts the number finds every table it implies.                         *)
RecordedIsApplied == Applied(recorded)

(* Neither an older plugin nor a version that cannot be read lowers the    *)
(* recorded version.                                                       *)
RecordedGrows == [][recorded' >= recorded]_vars

(* If no statement ever failed and no process died, a load that is through *)
(* has applied and recorded at least what it was asked for.                *)
CleanLoadInstalls ==
  (pc = "ready" /\ faults = 0 /\ crashes = 0) =>
    /\ recorded >= target
    /\ Applied(target)

(* Something was created that no recorded version stands for.              *)
Ahead == \E o \in objects : o[1] >= recorded

(* There is no recovery: an install cut off between an updater and its     *)
(* record is found ahead by every later load, whose first statement throws *)
(* on the object that is there, so no version is recorded again.           *)
AheadForGood == [](pc = "off" /\ Ahead => []Ahead)

(* The installer's state is one that it can be in, and a recorded version  *)
(* stands for tables that are there.                                       *)
Inv == TypeOK /\ RecordedIsApplied

=============================================================================
