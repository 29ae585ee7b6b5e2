------------------------------- MODULE Lifecycle -------------------------------
(***************************************************************************)
(* The plugin as a whole: ExtendedEventLog.cpp initialises its modules one *)
(* after another when the library is attached, undoes them if one fails,   *)
(* and undoes all when the library is detached.  The modules leave hooks,  *)
(* timers and commands with the server, and start threads.                 *)
(*                                                                         *)
(* Load and Unload run in DllMain.  While DllMain runs the process holds   *)
(* the loader lock, and a thread that has been created does not begin      *)
(* before the lock is free.                                                *)
(***************************************************************************)
EXTENDS Naturals, Sequences, FiniteSets

CONSTANTS
  MayFail,    \* the modules whose initialisation may fail
  MaxLoads    \* bound: how often the library is attached

VARIABLES
  phase,        \* of the library
  at,           \* the module that Load or Unload is at
  part,         \* of done(): "begin", or the thread that is waited for
  activeHooks,  \* the plugin's list of hooks: names, and whose hooks they are
  hooks,        \* the server: hooks
  callbacks,    \* the server: timers and commands
  threads,      \* the threads of the plugin
  freed,        \* threads whose object has been deleted
  loads,        \* how often the library has been attached
  failed        \* history: the module that failed

server == <<activeHooks, hooks, callbacks>>
vars == <<phase, at, part, server, threads, freed, loads, failed>>

-----------------------------------------------------------------------------
(* The modules.                                                             *)

modulesList ==
  <<"ConfigReader", "EventWriter", "HookHelper", "ConsoleHelper", "Timer", "Storage",
    "HarvestMarker", "OnlinePlayers", "PlayerCommonActivity", "Structures",
    "InventoryAndHarvest", "Tribe">>

Place == DOMAIN modulesList
Module == {modulesList[i] : i \in Place}

Of(entity, methods) == {<<entity, m>> : m \in methods}

HooksOf(m) ==
  CASE m = "ConsoleHelper" -> Of("UWorld", {"InitWorld"})
    [] m = "PlayerCommonActivity" ->
         Of("AShooterCharacter", {"Die", "BeginPlay"})
           \cup Of("AShooterGameMode", {"StartNewShooterPlayer", "Logout"})
    [] m = "Structures" -> Of("APrimalStructure", {"FinalStructurePlacement"})
    [] m = "InventoryAndHarvest" ->
         Of("UPrimalInventoryComponent",
            {"AddItem", "NotifyItemQuantityUpdated", "RemoveItem",
             "ServerForceMergeItemStack_Implementation",
             "ServerSplitItemStack_Implementation"})
           \cup Of("AShooterPlayerController",
                   {"ServerTransferFromRemoteInventory_Implementation",
                    "ServerTransferAllFromRemoteInventory_Implementation"})
           \cup Of("APrimalCharacter", {"NotifyItemAdded", "NotifyItemQuantityUpdated"})
    [] m = "Tribe" ->
         Of("AShooterGameMode", {"RemoveTribe", "RemovePlayerFromTribe",
                                 "UpdateTribeData", "AddToTribeLog"})
           \cup Of("APrimalDinoCharacter",
                   {"SetupTamed", "SetCharacterStatusTameable", "AdjustDamage",
                    "GetRandomBaseLevel", "Die", "BeginPlay",
                    "NetUpdateDinoNameStrings_Implementation"})
           \cup Of("UPrimalInventoryComponent",
                   {"ServerViewRemoteInventory", "AddCustomFolder", "InitializeInventory"})
           \cup Of("AShooterPlayerController",
                   {"ServerDeleteCustomFolder_Implementation",
                    "ServerRequestLevelUp_Implementation"})
           \cup Of("UPrimalItem", {"AddNewItem"})
    [] OTHER -> {}

TimersOf(m) ==
  CASE m = "ConsoleHelper" -> {"__Timer2"} [] m = "Timer" -> {"__Timer"} [] OTHER -> {}

Commands == {"GetTribeIdFromPlayerId", "TPDinoIdToPlayerId"}

\* In the order in which they are waited for.
ThreadsOf(m) ==
  CASE m = "EventWriter" -> <<"strings", "events">>
    [] m = "ConsoleHelper" -> <<"console">>
    [] m = "Storage" -> <<"storage">>
    [] OTHER -> <<>>

Thread == {"strings", "events", "console", "storage"}

\* Which modules the functions, hooks and timers of a module use without asking
\* whether they are there.
Uses(m) ==
  CASE m = "EventWriter" -> {"ConfigReader"}
    [] m = "ConsoleHelper" -> {"ConfigReader", "EventWriter", "HookHelper"}
    [] m = "Storage" -> {"ConfigReader"}
    [] m = "OnlinePlayers" -> {"EventWriter", "Timer"}
    [] m = "PlayerCommonActivity" -> {"EventWriter", "HookHelper", "Timer"}
    [] m = "Structures" -> {"EventWriter", "HookHelper", "Timer"}
    [] m = "InventoryAndHarvest" -> {"EventWriter", "HookHelper", "Timer", "OnlinePlayers"}
    [] m = "Tribe" -> {"EventWriter", "HookHelper", "Timer", "Storage"}
    [] OTHER -> {}

Owners(hs) == {h.owner : h \in hs}

TypeOK ==
  /\ phase \in {"absent", "loading", "rollback", "failed", "loaded", "unloading"}
  /\ at \in 0 .. Len(modulesList)
  /\ part \in {"begin"} \cup Thread
  /\ Owners(activeHooks \cup hooks) \subseteq Module
  /\ callbacks \subseteq {"__Timer", "__Timer2"} \cup Commands
  /\ threads \in [Thread -> {"none", "created", "running", "stopped", "crashed"}]
  /\ freed \subseteq Thread /\ loads \in 0 .. MaxLoads
  /\ failed \in Module \cup {"none"}

Init ==
  /\ phase = "absent" /\ at = 0 /\ part = "begin"
  /\ activeHooks = {} /\ hooks = {} /\ callbacks = {}
  /\ threads = [t \in Thread |-> "none"] /\ freed = {}
  /\ loads = 0 /\ failed = "none"

-----------------------------------------------------------------------------
(* Hooks (M_hook_helper).                                                   *)

\* Mistake: the list knows the method, and not the entity.
RegisterMethod(m) ==
  LET new == [name : HooksOf(m), owner : {m}]
  IN  /\ activeHooks' = activeHooks
                          \cup {h \in new : \A g \in activeHooks : g.name[2] # h.name[2]}
      /\ hooks' = hooks \cup new

\* The list keeps the first hook of a name.
Register(m) ==
  LET new == [name : HooksOf(m), owner : {m}]
  IN  /\ activeHooks' = activeHooks
                          \cup {h \in new : \A g \in activeHooks : g.name # h.name}
      /\ hooks' = hooks \cup new

Unregister(m) ==
  LET old == {h \in activeHooks : h.name \in HooksOf(m)}
  IN  activeHooks' = activeHooks \ old /\ hooks' = hooks \ old

-----------------------------------------------------------------------------
(* Load and Unload.                                                         *)

LoaderLock == phase \in {"loading", "rollback", "unloading"}

Attach ==
  /\ phase = "absent" /\ loads < MaxLoads
  /\ \A t \in Thread : threads[t] \in {"none", "stopped"}
  /\ phase' = "loading" /\ at' = 1 /\ loads' = loads + 1
  /\ threads' = [t \in Thread |-> "none"] /\ freed' = {} /\ failed' = "none"
  /\ UNCHANGED <<part, server>>

Created(m) ==
  [t \in Thread |-> IF \E i \in DOMAIN ThreadsOf(m) : ThreadsOf(m)[i] = t
                    THEN "created" ELSE threads[t]]

\* After the last module the commands are registered, and DllMain returns.
InitModule ==
  /\ phase = "loading"
  /\ Register(modulesList[at])
  /\ threads' = Created(modulesList[at])
  /\ IF at < Len(modulesList)
     THEN /\ at' = at + 1 /\ phase' = phase
          /\ callbacks' = callbacks \cup TimersOf(modulesList[at])
     ELSE /\ at' = 0 /\ phase' = "loaded"
          /\ callbacks' = callbacks \cup TimersOf(modulesList[at]) \cup Commands
  /\ UNCHANGED <<part, freed, loads, failed>>

\* The modules before the one that failed are undone.
InitFails ==
  /\ phase = "loading" /\ modulesList[at] \in MayFail
  /\ failed' = modulesList[at]
  /\ at' = at - 1
  /\ phase' = IF at = 1 THEN "failed" ELSE "rollback"
  /\ UNCHANGED <<part, server, threads, freed, loads>>

Detach ==
  /\ phase = "loaded"
  /\ phase' = "unloading" /\ at' = Len(modulesList)
  /\ UNCHANGED <<part, server, threads, freed, loads, failed>>

\* The hooks and timers of the module are taken back; the list of hooks takes
\* back what is left in it, and the commands.
DoneModule ==
  /\ phase \in {"rollback", "unloading"} /\ at > 0 /\ part = "begin"
  /\ LET m == modulesList[at]
     IN  /\ IF m = "HookHelper"
            THEN activeHooks' = {} /\ hooks' = hooks \ activeHooks
            ELSE Unregister(m)
         /\ callbacks' = callbacks \ (TimersOf(m) \cup IF m = "HookHelper" THEN Commands ELSE {})
         /\ IF ThreadsOf(m) = <<>>
            THEN at' = at - 1 /\ part' = part
            ELSE at' = at /\ part' = Head(ThreadsOf(m))
  /\ UNCHANGED <<phase, threads, freed, loads, failed>>

Waited ==
  /\ freed' = freed \cup {part}
  /\ LET ts == ThreadsOf(modulesList[at])
     IN  IF part # ts[Len(ts)]
         THEN at' = at /\ part' = ts[Len(ts)]
         ELSE at' = at - 1 /\ part' = "begin"
  /\ UNCHANGED <<phase, server, threads, loads, failed>>

ThreadSeen ==
  /\ part # "begin" /\ threads[part] \in {"stopped", "crashed"}
  /\ Waited

\* The writers are given five seconds, the console as long as it takes.
GivenUp == part \in Thread \ {"console"}

ThreadTimeout ==
  /\ GivenUp /\ threads[part] \notin {"stopped", "crashed"}
  /\ Waited

\* Nothing is done when a library is detached that has not been initialised.
DetachFailed ==
  /\ phase = "failed"
  /\ phase' = "absent"
  /\ UNCHANGED <<at, part, server, threads, freed, loads, failed>>

DllMainReturns ==
  /\ phase \in {"rollback", "unloading"} /\ at = 0
  /\ phase' = IF phase = "rollback" THEN "failed" ELSE "absent"
  /\ UNCHANGED <<at, part, server, threads, freed, loads, failed>>

-----------------------------------------------------------------------------
(* The threads.                                                             *)

\* A thread that begins, or goes on, with an object that has been deleted.
Becomes(t, state) ==
  /\ threads' = [threads EXCEPT ![t] = IF t \in freed THEN "crashed" ELSE state]
  /\ UNCHANGED <<phase, at, part, server, freed, loads, failed>>

ThreadBegins(t) == threads[t] = "created" /\ ~LoaderLock /\ Becomes(t, "running")

\* Mistake: the thread looks at the wrong flag.
ThreadEndsLate(t) == threads[t] = "running" /\ t \in freed /\ Becomes(t, "stopped")

\* The destructor has told the thread to end, or has gone on without it.
ThreadEnds(t) == threads[t] = "running" /\ (part = t \/ t \in freed) /\ Becomes(t, "stopped")

-----------------------------------------------------------------------------

\* The modules that are initialised, or are being undone.
Alive ==
  CASE phase = "loading" -> {modulesList[i] : i \in 1 .. at - 1}
    [] phase = "loaded" -> Module
    [] phase \in {"rollback", "unloading"} -> {modulesList[i] : i \in 1 .. at}
    [] OTHER -> {}

\* The server has no hook, timer or command of a plugin that it has detached or that
\* has failed to load (ExtendedEventLog.cpp 231-240, 276-284; M_hook_helper.cpp 15-39).
NothingLeft == phase \in {"absent", "failed"} => hooks = {} /\ callbacks = {}

\* Whenever the server may call a hook, all modules that the hook uses are
\* initialised: also while a module is initialised or undone, for those functions
\* call the server (M_online_players.cpp 49; ExtendedEventLog.cpp 189-216).
HooksReady == UNION {{m} \cup Uses(m) : m \in Owners(hooks)} \subseteq Alive

\* Load comes back from a failure only if no thread of the console was created: the
\* rollback of a storage that cannot be opened waits without end for the console's
\* thread, which cannot begin before DllMain returns (ConsoleHelper.cpp 301-304;
\* ExtendedEventLog.cpp 231-240, 286-288; M_storage.cpp 378-386).
FailureReturns == phase = "failed" => failed = "ConfigReader"

\* The detached library is left, if the thread of the console had begun, whatever
\* the others do (ExtendedEventLog.cpp 275-284; ConsoleHelper.cpp 299-304).
UnloadEnds == phase = "unloading" /\ threads["console"] = "running" ~> phase = "absent"

\* Through every order of loads, failures and unloads, the server never calls what
\* is not ready or has been left behind, and a load returns unless the console's
\* thread keeps it.
Inv == TypeOK /\ NothingLeft /\ HooksReady /\ FailureReturns

=============================================================================
