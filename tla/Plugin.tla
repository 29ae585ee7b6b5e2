-------------------------------- MODULE Plugin --------------------------------
(***************************************************************************)
(* The plugin in its process: Lifecycle, whose initialisation of the       *)
(* storage is a session of SchemaInstall over a database that outlives the *)
(* process.                                                                *)
(***************************************************************************)
EXTENDS SchemaInstall, Sequences

VARIABLES phase, at, part, activeHooks, hooks, callbacks, threads, freed, attached, failed

L == INSTANCE Lifecycle
       WITH loads <- attached, MayFail <- {"ConfigReader", "Storage"}

process == <<phase, at, part, activeHooks, hooks, callbacks, threads, freed, attached, failed>>
pluginVars == <<vars, process>>

PluginInit == Init /\ L!Init

-----------------------------------------------------------------------------
(* Load.                                                                    *)

Attach == pc = "off" /\ L!Attach /\ UNCHANGED vars

AtStorage == phase = "loading" /\ L!modulesList[at] = "Storage"

\* M_storage_init installs the tables with a connection of its own; the others have no
\* part in the database.
StorageOpens   == \E version \in 1..Updaters : Load(version)
StorageInstall ==
  \/ InitSchema \/ InitSchemaThrows \/ GetTableVersion \/ GetTableVersionThrows
  \/ Update \/ UpdateThrows \/ Record

InitStorage == AtStorage /\ (StorageOpens \/ StorageInstall) /\ UNCHANGED process

StorageReady == AtStorage /\ pc = "ready" /\ L!InitModule /\ UNCHANGED vars

InitModule == ~AtStorage /\ L!InitModule /\ UNCHANGED vars

StorageFails == AtStorage /\ OpenFails /\ L!InitFails

InitFails == ~AtStorage /\ L!InitFails /\ UNCHANGED vars

-----------------------------------------------------------------------------
(* Unload, the rollback, and the threads.                                   *)

DoneStorage == at > 0 /\ L!modulesList[at] = "Storage"

\* The connection of the storage is closed before its thread is waited for.
DoneModule ==
  /\ L!DoneModule
  /\ IF DoneStorage THEN Unload ELSE UNCHANGED vars

Others ==
  /\ \/ L!Detach \/ L!DetachFailed \/ L!ThreadSeen \/ L!ThreadTimeout \/ L!DllMainReturns
     \/ \E t \in L!Thread : L!ThreadBegins(t) \/ L!ThreadEnds(t)
  /\ UNCHANGED vars

-----------------------------------------------------------------------------
(* The end of the process; another one has nothing but the database.        *)

ProcessEnds ==
  /\ phase' = "absent" /\ at' = 0 /\ part' = "begin"
  /\ activeHooks' = {} /\ hooks' = {} /\ callbacks' = {}
  /\ threads' = [t \in L!Thread |-> "none"] /\ freed' = {}
  /\ failed' = "none" /\ UNCHANGED attached

\* An exception that nothing catches.
StorageThrows == RecordThrows /\ ProcessEnds

Killed ==
  /\ phase # "absent" /\ ProcessEnds
  /\ IF pc = "off" THEN UNCHANGED vars ELSE Crash \/ Unload

PluginNext ==
  \/ Attach \/ InitStorage \/ StorageReady \/ InitModule \/ StorageFails \/ InitFails
  \/ DoneModule \/ Others \/ StorageThrows \/ Killed

\* DllMain goes on, five seconds pass, and the thread of the console runs, which is the only
\* one that is waited for without end; nothing makes the library be attached or detached.
DllMain ==
  \/ InitStorage \/ StorageReady \/ StorageThrows \/ InitModule \/ DoneModule
  \/ (L!ThreadSeen \/ L!ThreadTimeout \/ L!DllMainReturns) /\ UNCHANGED vars

PluginFairness ==
  /\ WF_pluginVars(DllMain)
  /\ WF_pluginVars((L!ThreadBegins("console") \/ L!ThreadEnds("console")) /\ UNCHANGED vars)

PluginSpec == PluginInit /\ [][PluginNext]_pluginVars /\ PluginFairness

-----------------------------------------------------------------------------

\* What Lifecycle and SchemaInstall keep each, kept together: through every order of
\* loads, failures, unloads and deaths of the process.
PluginInv == L!Inv /\ Inv

\* The detached library is left, and a load comes back, whatever fails in the database;
\* but for a rollback that has a thread of the console to wait for
\* (ExtendedEventLog.cpp 219-240, 275-284; ConsoleHelper.cpp 299-304).
LoadReturns ==
  phase = "loading" ~>
    phase \in {"absent", "loaded", "failed"} \/ (phase = "rollback" /\ part = "console")

Progress == L!UnloadEnds /\ LoadReturns

=============================================================================
