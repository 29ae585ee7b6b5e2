----------------------------- MODULE PluginProofs -----------------------------
(***************************************************************************)
(* The plugin, whatever the number of loads, updaters, failing statements  *)
(* and deaths of the process.                                              *)
(*                                                                         *)
(* First the installer: the recorded version is never ahead of what was    *)
(* applied, it never falls, and an install that was cut off is never       *)
(* caught up with.  Then that the plugin implements it: the database sees  *)
(* sessions of the installer, so that all of this holds of the plugin.     *)
(* Then the modules' hooks, timers and threads.  Last what the timer does  *)
(* for the players that are online, whatever their number, the interval,   *)
(* the width of the numbers and the clock: their reported times add up.    *)
(***************************************************************************)
EXTENDS Plugin, OnlineTime, ProofFacts

-----------------------------------------------------------------------------
(* The installer (SchemaInstall).                                           *)


(* The objects are a prefix of what the updaters create, in their order.   *)
Prefix ==
  \A o \in objects : \A p \in Objects :
    (p[1] < o[1] \/ (p[1] = o[1] /\ p[2] < o[2])) => p \in objects

(* In the loop everything before the statement is there; and a recorded    *)
(* version ahead of the loop, which then started at 0 because the version  *)
(* could not be read, means that the statement throws.                     *)
LoopInv ==
  pc = "update" =>
    /\ current < target
    /\ statement \in 1..Statements[current]
    /\ \A k \in 1..statement - 1 : Object(current, k) \in objects
    /\ Applied(current)
    /\ recorded <= current \/ Object(current, statement) \in objects

RecordInv == pc = "record" => Applied(target) /\ recorded <= target

StartInv == pc \in {"initSchema", "getTableVersion"} => statement = 1

(* A process dies in a load of its own.                                    *)
CrashInv == crashes <= loads /\ (pc # "off" => crashes < loads)

IInv == TypeOK /\ Prefix /\ RecordedIsApplied /\ LoopInv /\ RecordInv /\ StartInv
        /\ CrashInv

(* An updater has a first statement.                                       *)
LEMMA FirstStatement ==
  ASSUME NEW v \in 0..Updaters - 1
  PROVE  /\ Statements[v] \in Nat \ {0}
         /\ Object(v, 1) \in Objects
  BY UpdatersAssumption, StatementsAssumption DEF Object, Objects

\* The invariant holds when the first process begins.
LEMMA InitInvariant == Init => IInv
  <1> SUFFICES ASSUME Init PROVE IInv
    OBVIOUS
  <1>1. TypeOK
    <2>1. schema \in BOOLEAN /\ recorded \in {NoRow} \cup 0..Updaters /\ objects \subseteq Objects
      BY DEF Init
    <2>2. pc \in PC
      BY DEF Init, PC
    <2>3. target \in 1..Updaters /\ current \in 0..Updaters /\ statement \in Nat \ {0}
      BY UpdatersAssumption DEF Init
    <2>4. loads \in 0..MaxLoads /\ faults \in 0..MaxFaults /\ crashes \in 0..MaxLoads
      BY BoundsAssumption DEF Init
    <2> QED
      BY <2>1, <2>2, <2>3, <2>4 DEF TypeOK
  <1>2. RecordedIsApplied
    BY DEF Init, RecordedIsApplied, Applied, NoRow
  <1> QED
    BY <1>1, <1>2 DEF Init, IInv, Prefix, LoopInv, RecordInv, StartInv, CrashInv

(* The loop begins at a version: what a load needs of it.                  *)
LEMMA LoopBegins ==
  ASSUME IInv, UNCHANGED <<objects, target, statement>>, pc = "getTableVersion",
         NEW v \in 0..Updaters, StartFrom(v),
         recorded' = -1 \/ recorded' \in 0..Updaters,
         RecordedIsApplied', Applied(v),
         recorded' <= v \/ (Applied(recorded') /\ v = 0)
  PROVE  LoopInv' /\ RecordInv' /\ StartInv'
  <1>1. CASE v < target
    <2>1. pc' = "update" /\ current' = v /\ statement' = 1 /\ target' = target
      BY <1>1 DEF StartFrom, IInv, StartInv
    <2>2. v \in 0..Updaters - 1
      BY <1>1, UpdatersAssumption DEF IInv, TypeOK
    <2>3. Statements[v] \in Nat \ {0}
      BY <2>2, FirstStatement
    <2>4. recorded' <= v \/ Object(v, 1) \in objects
      <3>1. CASE recorded' <= v
        BY <3>1
      <3>2. CASE ~(recorded' <= v)
        <4>1. v \in 0..recorded' - 1 /\ Applied(recorded')
          BY <3>2, <2>2, recorded' = -1 \/ recorded' \in 0..Updaters, UpdatersAssumption
        <4>2. 1 \in 1..Statements[v]
          BY <2>3
        <4> QED
          BY <4>1, <4>2 DEF Applied
      <3> QED
        BY <3>1, <3>2
    <2>5. Applied(v)'
      BY DEF Applied
    <2> QED
      BY <1>1, <2>1, <2>3, <2>4, <2>5 DEF LoopInv, RecordInv, StartInv, Applied, Object
  <1>2. CASE ~(v < target)
    BY <1>2 DEF StartFrom, LoopInv, RecordInv, StartInv
  <1> QED
    BY <1>1, <1>2

\* A process dies at most once in a load, after any step.
LEMMA CrashInvariant == IInv /\ Next => CrashInv'
<1> SUFFICES ASSUME IInv, Next PROVE CrashInv'
  OBVIOUS
<1>1. loads \in Nat /\ crashes \in Nat /\ crashes <= loads /\ (pc # "off" => crashes < loads)
  BY BoundsAssumption DEF IInv, TypeOK, CrashInv
<1>2. CASE (\E version \in 1..Updaters : Load(version)) \/ OpenFails
  BY <1>1, <1>2 DEF Load, OpenFails, CrashInv
<1>3. CASE Crash
  BY <1>1, <1>3 DEF Crash, CrashInv
<1>4. CASE RecordThrows \/ Unload
  BY <1>1, <1>4 DEF RecordThrows, Unload, CrashInv, counters
<1>5. CASE InitSchema \/ InitSchemaThrows \/ GetTableVersion \/ GetTableVersionThrows
           \/ Update \/ UpdateThrows \/ Record
  <2>1. pc # "off" /\ loads' = loads /\ crashes' = crashes
    BY <1>5 DEF InitSchema, InitSchemaThrows, GetTableVersion, GetTableVersionThrows,
                VersionUnknown, Update, UpdateThrows, GiveUp, Record, counters
  <2> QED
    BY <1>1, <2>1 DEF CrashInv
<1> QED
  BY <1>2, <1>3, <1>4, <1>5 DEF Next

\* A statement of an updater extends the prefix of objects.
LEMMA UpdateInvariant == IInv /\ Update => IInv'
  <1> SUFFICES ASSUME IInv, Update PROVE IInv'
    OBVIOUS
  <1> DEFINE new == Object(current, statement)
  <1>0. /\ pc = "update" /\ new \notin objects /\ objects' = objects \cup {new}
        /\ recorded' = recorded /\ target' = target
    BY DEF Update
  <1>a. recorded = -1 \/ recorded \in 0..Updaters
    BY DEF IInv, TypeOK, NoRow
  <1>b. /\ current < target /\ target \in 1..Updaters /\ current \in 0..Updaters - 1
        /\ statement \in 1..Statements[current] /\ recorded <= current
    BY <1>0, UpdatersAssumption DEF IInv, LoopInv, TypeOK
  <1>c. CrashInv'
    BY CrashInvariant DEF Next
  <1>1. /\ pc = "update" /\ new \notin objects /\ objects' = objects \cup {new}
        /\ recorded' = recorded /\ target' = target
        /\ current < target /\ target \in 1..Updaters /\ current \in 0..Updaters - 1
        /\ statement \in 1..Statements[current] /\ recorded <= current
        /\ (recorded = -1 \/ recorded \in 0..Updaters)
    BY <1>0, <1>a, <1>b
  <1>2. Statements[current] \in Nat \ {0}
    BY <1>1, FirstStatement
  <1>3. new \in Objects
    BY <1>1, <1>2 DEF Object, Objects
  <1>4. /\ \A k \in 1..statement - 1 : Object(current, k) \in objects
        /\ Applied(current)
    BY <1>1 DEF IInv, LoopInv
  <1>5. Prefix'
    <2> SUFFICES ASSUME NEW o \in objects', NEW p \in Objects,
                        p[1] < o[1] \/ (p[1] = o[1] /\ p[2] < o[2])
                 PROVE  p \in objects'
      BY DEF Prefix, Objects
    <2>1. CASE o \in objects
      BY <2>1, <1>1 DEF IInv, Prefix
    <2>2. CASE o = new
      <3>1. o[1] = current /\ o[2] = statement
        BY <2>2 DEF Object
      <3>2. p = Object(p[1], p[2]) /\ p[1] \in 0..Updaters - 1 /\ p[2] \in 1..Statements[p[1]]
        BY DEF Objects, Object
      <3>3. Statements[p[1]] \in Nat \ {0}
        BY <3>2, FirstStatement
      <3>4. CASE p[1] < current
        BY <3>2, <3>4, <1>1, <1>4 DEF Applied
      <3>5. CASE p[1] = current /\ p[2] < statement
        <4>1. p[2] \in 1..statement - 1
          BY <3>2, <3>3, <3>5, <1>1, <1>2
        <4> QED
          BY <4>1, <3>2, <3>5, <1>1, <1>4
      <3> QED
        BY <3>1, <3>4, <3>5
    <2> QED
      BY <2>1, <2>2, <1>1
  <1>6. RecordedIsApplied'
    BY <1>1 DEF IInv, RecordedIsApplied, Applied, Object
  <1>7. StartInv'
    BY DEF Update, StartInv, IInv, LoopInv
  <1>8. CASE statement < Statements[current]
    <2>1. statement' = statement + 1 /\ current' = current /\ pc' = "update"
      BY <1>8, <1>1 DEF Update
    <2>2. LoopInv'
      <3>1. \A k \in 1..statement' - 1 : Object(current, k) \in objects'
        BY <2>1, <1>1, <1>2, <1>4
      <3>2. Applied(current)'
        BY <1>1, <1>4, <2>1 DEF Applied, Object
      <3> QED
        BY <1>1, <1>2, <1>8, <2>1, <3>1, <3>2 DEF LoopInv, Object
    <2> QED
      BY <1>c, <1>1, <1>2, <1>3, <1>5, <1>6, <1>7, <2>1, <2>2
      DEF Update, IInv, TypeOK, RecordInv, counters
  <1>9. CASE ~(statement < Statements[current])
    <2>1. /\ statement' = 1 /\ current' = current + 1
          /\ pc' = IF current + 1 < target THEN "update" ELSE "record"
          /\ statement = Statements[current]
      BY <1>9, <1>1, <1>2 DEF Update
    <2>2. Applied(current)'
      <3>0. 0..current' - 1 = 0..current
        BY <2>1, <1>1
      <3> SUFFICES ASSUME NEW v \in 0..current, NEW k \in 1..Statements[v]
                   PROVE  Object(v, k) \in objects'
        BY <3>0 DEF Applied, Object
      <3>1. CASE v = current
        <4>1. k = statement \/ k \in 1..statement - 1
          BY <3>1, <2>1, <1>1, <1>2
        <4> QED
          BY <4>1, <3>1, <1>1, <1>4
      <3>2. CASE v \in 0..current - 1
        BY <3>2, <1>1, <1>4 DEF Applied
      <3> QED
        BY <3>1, <3>2, <1>1
    <2>3. CASE current + 1 < target
      <3>1. Statements[current + 1] \in Nat \ {0}
        <4> current + 1 \in 0..Updaters - 1
          BY <2>3, <1>1, UpdatersAssumption
        <4> QED
          BY FirstStatement
      <3>2. LoopInv'
        <4>1. recorded' <= current' /\ current' < target' /\ statement' \in 1..Statements[current']
          BY <2>1, <2>3, <3>1, <1>1
        <4>2. \A k \in 1..statement' - 1 : Object(current', k) \in objects'
          BY <2>1
        <4> QED
          BY <2>2, <4>1, <4>2 DEF LoopInv, Object
      <3>3. TypeOK'
        <4>1. pc' = "update" /\ current' \in 0..Updaters /\ statement' = 1
          BY <2>1, <2>3, <1>1, UpdatersAssumption
        <4> QED
          BY <4>1, <1>1, <1>3 DEF Update, IInv, TypeOK, counters, PC
      <3> QED
        BY <1>c, <1>5, <1>6, <1>7, <2>1, <2>3, <3>2, <3>3 DEF IInv, RecordInv
    <2>4. CASE ~(current + 1 < target)
      <3>1. current + 1 = target /\ pc' = "record"
        BY <2>1, <2>4, <1>1
      <3>2. RecordInv'
        BY <3>1, <2>1, <2>2, <1>1 DEF RecordInv, Applied, Object
      <3> QED
        BY <1>c, <1>1, <1>3, <1>5, <1>6, <1>7, <2>1, <3>1, <3>2
        DEF Update, IInv, TypeOK, LoopInv, counters, PC
    <2> QED
      BY <2>3, <2>4
  <1> QED
    BY <1>8, <1>9

\* Every step preserves the invariant.
LEMMA StepInvariant == IInv /\ [Next]_vars => IInv'
<1> SUFFICES ASSUME IInv, [Next]_vars PROVE IInv'
  OBVIOUS
<1> USE DEF IInv
<1>0. Next => CrashInv'
  BY CrashInvariant
<1>1. CASE \E version \in 1..Updaters : Load(version)
  <2>1. PICK version \in 1..Updaters : Load(version)
    BY <1>1
  <2>2. TypeOK'
    BY <2>1, UpdatersAssumption, BoundsAssumption DEF Load, CrashInv, TypeOK, PC, database
  <2> QED
    BY <1>0, <1>1, <2>1, <2>2 DEF Next, Load, database, Prefix, RecordedIsApplied, Applied, LoopInv,
                      RecordInv, StartInv
<1>2. CASE OpenFails
  BY <1>0, <1>2, BoundsAssumption DEF Next, OpenFails, Fault, TypeOK, PC, database, install, Prefix,
              RecordedIsApplied, Applied, LoopInv, RecordInv, StartInv
<1>3. CASE InitSchema \/ InitSchemaThrows
  <2>1. TypeOK'
    <3>1. CASE InitSchema
      BY <3>1 DEF InitSchema, TypeOK, PC, install, counters
    <3>2. CASE InitSchemaThrows
      BY <3>2, BoundsAssumption DEF InitSchemaThrows, Fault, TypeOK, PC, database, install
    <3> QED
      BY <1>3, <3>1, <3>2
  <2> QED
    BY <1>0, <1>3, <2>1 DEF Next, InitSchema, InitSchemaThrows, database, install, Prefix,
                      RecordedIsApplied, Applied, LoopInv, RecordInv, StartInv
<1>4. CASE GetTableVersion
  <2>1. /\ UNCHANGED <<objects, target, statement, schema, counters>>
        /\ pc = "getTableVersion" /\ StartFrom(recorded')
        /\ recorded' = IF recorded = NoRow THEN 0 ELSE recorded
    BY <1>4 DEF GetTableVersion, StartFrom
  <2>2. recorded' \in 0..Updaters
    BY <2>1, UpdatersAssumption DEF TypeOK
  <2>3. RecordedIsApplied' /\ Applied(recorded')
    BY <2>1, <2>2 DEF RecordedIsApplied, Applied, NoRow
  <2>4. LoopInv' /\ RecordInv' /\ StartInv'
    BY <2>1, <2>2, <2>3, LoopBegins
  <2>5. TypeOK'
    BY <2>1, <2>2 DEF TypeOK, StartFrom, PC, counters
  <2> QED
    BY <1>0, <1>4, <2>1, <2>3, <2>4, <2>5 DEF Next, Prefix
<1>5. CASE GetTableVersionThrows
  <2>1. /\ UNCHANGED <<objects, target, statement, schema, recorded, loads, crashes>>
        /\ pc = "getTableVersion" /\ StartFrom(0)
        /\ faults' \in 0..MaxFaults
    BY <1>5, BoundsAssumption
       DEF GetTableVersionThrows, VersionUnknown, StartFrom, Fault, TypeOK, database
  <2>2. recorded' = -1 \/ recorded' \in 0..Updaters
    BY <2>1 DEF TypeOK, NoRow
  <2>3. RecordedIsApplied' /\ Applied(0) /\ Applied(recorded')
    BY <2>1 DEF RecordedIsApplied, Applied
  <2>4. 0 \in 0..Updaters
    BY UpdatersAssumption
  <2>5. LoopInv' /\ RecordInv' /\ StartInv'
    BY <2>1, <2>2, <2>3, <2>4, LoopBegins
  <2>6. TypeOK'
    BY <2>1, <2>4 DEF TypeOK, StartFrom, PC
  <2> QED
    BY <1>0, <1>5, <2>1, <2>3, <2>5, <2>6 DEF Next, Prefix
<1>6. CASE Update
  BY <1>6, UpdateInvariant
<1>7. CASE UpdateThrows
  <2>1. TypeOK'
    BY <1>7, BoundsAssumption DEF UpdateThrows, GiveUp, Fault, TypeOK, PC, database, install
  <2> QED
    BY <1>0, <1>7, <2>1 DEF Next, UpdateThrows, GiveUp, database, install, Prefix,
                      RecordedIsApplied, Applied, LoopInv, RecordInv, StartInv
<1>8. CASE Record
  <2>1. TypeOK'
    BY <1>8, UpdatersAssumption DEF Record, TypeOK, PC, install, counters
  <2>2. RecordedIsApplied'
    BY <1>8 DEF Record, RecordInv, RecordedIsApplied, Applied, NoRow
  <2> QED
    BY <1>0, <1>8, <2>1, <2>2 DEF Next, Record, Prefix, LoopInv, RecordInv, StartInv
<1>9. CASE RecordThrows \/ Unload \/ Crash
  <2>1. TypeOK'
    <3>1. CASE RecordThrows
      BY <3>1, BoundsAssumption DEF RecordThrows, Fault, TypeOK, PC, database, install
    <3>2. CASE Unload
      BY <3>2 DEF Unload, TypeOK, PC, database, install, counters
    <3>3. CASE Crash
      BY <3>3, BoundsAssumption DEF Crash, CrashInv, TypeOK, PC, database, install
    <3> QED
      BY <1>9, <3>1, <3>2, <3>3
  <2> QED
    BY <1>0, <1>9, <2>1 DEF Next, RecordThrows, Unload, Crash, database, install, Prefix,
                      RecordedIsApplied, Applied, LoopInv, RecordInv, StartInv
<1>10. CASE UNCHANGED vars
  BY <1>10 DEF vars, CrashInv, database, install, counters, TypeOK, Prefix, RecordedIsApplied,
               Applied, LoopInv, RecordInv, StartInv
<1> QED
  BY <1>1, <1>2, <1>3, <1>4, <1>5, <1>6, <1>7, <1>8, <1>9, <1>10 DEF Next

\* So it always holds.
LEMMA Invariance == Spec => []IInv
  BY InitInvariant, StepInvariant, PTL DEF Spec

-----------------------------------------------------------------------------
(* Versions, counters and objects keep their types for any table of        *)
(* updaters (M_storage.cpp 60-124).                                        *)
THEOREM TypeCorrect == Spec => []TypeOK
  BY Invariance, PTL DEF IInv

(* A recorded version is never ahead of what was applied: installTable     *)
(* records after its loop, and starts from 0 without harm because the      *)
(* first updater then throws.                                              *)
THEOREM VersionsAreApplied == Spec => []RecordedIsApplied
  BY Invariance, PTL DEF IInv

(* Types and versions together: what the run checks as Inv, for any table  *)
(* of updaters.                                                            *)
THEOREM InvariantHolds == Spec => []Inv
  BY TypeCorrect, VersionsAreApplied, PTL DEF Inv

(* No load lowers the recorded version, an older plugin's included.        *)
THEOREM VersionsGrow == Spec => RecordedGrows
<1>1. IInv /\ [Next]_vars => [recorded' >= recorded]_vars
  <2> SUFFICES ASSUME IInv, Next PROVE recorded' >= recorded
    BY DEF vars
  <2>1. recorded = -1 \/ recorded \in 0..Updaters
    BY DEF IInv, TypeOK, NoRow
  <2>2. CASE GetTableVersion
    BY <2>1, <2>2 DEF GetTableVersion, NoRow
  <2>3. CASE Record
    BY <2>1, <2>3 DEF Record, NoRow, IInv, RecordInv, TypeOK
  <2>4. CASE ~GetTableVersion /\ ~Record
    <3>1. recorded' = recorded
      BY <2>4 DEF Next, Load, OpenFails, InitSchema, InitSchemaThrows, VersionUnknown,
                  GetTableVersionThrows, Update, UpdateThrows, GiveUp, RecordThrows,
                  Unload, Crash, database
    <3> QED
      BY <3>1, <2>1
  <2> QED
    BY <2>2, <2>3, <2>4
<1> QED
  BY <1>1, Invariance, PTL DEF Spec, RecordedGrows

-----------------------------------------------------------------------------
(* What is found ahead stays ahead: the loop, if it begins, stands at an   *)
(* object that is there.                                                   *)
Stuck ==
  /\ Ahead
  /\ pc # "record"
  /\ pc = "update" => Object(current, statement) \in objects

\* No step ends it.
LEMMA StuckStays == IInv /\ Stuck /\ [Next]_vars => Stuck'
<1> SUFFICES ASSUME IInv, Stuck, [Next]_vars PROVE Stuck'
  OBVIOUS
<1> USE DEF Stuck
<1>1. recorded = -1 \/ recorded \in 0..Updaters
  BY DEF IInv, TypeOK, NoRow
<1>2. ASSUME NEW v \in 0..Updaters - 1, v <= recorded \/ v = 0
      PROVE  Object(v, 1) \in objects
  <2>1. PICK o \in objects : o[1] >= recorded
    BY DEF Ahead
  <2>2. o[1] \in 0..Updaters - 1 /\ o[2] \in 1..Statements[o[1]] /\ o = <<o[1], o[2]>>
    BY DEF IInv, TypeOK, Objects
  <2>3. Object(v, 1) \in Objects /\ Object(v, 1)[1] = v /\ Object(v, 1)[2] = 1
    BY FirstStatement DEF Object
  <2>4. Statements[o[1]] \in Nat
    BY <2>2, FirstStatement
  <2>5. v < o[1] \/ (v = o[1] /\ (1 < o[2] \/ o[2] = 1))
    BY <1>1, <1>2, <2>1, <2>2, <2>4, UpdatersAssumption
  <2>6. CASE v = o[1] /\ o[2] = 1
    BY <2>2, <2>6 DEF Object
  <2> QED
    BY <2>2, <2>3, <2>5, <2>6 DEF IInv, Prefix
<1>3. CASE GetTableVersion
  <2>1. /\ objects' = objects /\ target' = target /\ statement' = statement
        /\ StartFrom(recorded') /\ statement = 1
        /\ recorded' = IF recorded = NoRow THEN 0 ELSE recorded
    BY <1>3 DEF GetTableVersion, StartFrom, IInv, StartInv
  <2>2. Ahead'
    <3>1. \A o \in objects : o[1] \in 0..Updaters - 1
      BY DEF IInv, TypeOK, Objects
    <3> QED
      BY <2>1, <3>1, <1>1 DEF Ahead, NoRow
  <2>3. CASE recorded' < target
    <3>1. recorded' \in 0..Updaters - 1 /\ (recorded' <= recorded \/ recorded' = 0)
      BY <2>1, <2>3, <1>1, UpdatersAssumption DEF NoRow, IInv, TypeOK
    <3> QED
      BY <2>1, <2>2, <2>3, <3>1, <1>2 DEF StartFrom, Object
  <2> QED
    BY <2>1, <2>2, <2>3 DEF StartFrom
<1>4. CASE GetTableVersionThrows
  <2>1. /\ objects' = objects /\ recorded' = recorded /\ statement' = 1
        /\ StartFrom(0)
    BY <1>4 DEF GetTableVersionThrows, VersionUnknown, StartFrom, IInv, StartInv, database
  <2>2. 0 \in 0..Updaters - 1
    BY UpdatersAssumption
  <2> QED
    BY <2>1, <2>2, <1>2 DEF StartFrom, Object, Ahead
<1>5. CASE ~GetTableVersion /\ ~GetTableVersionThrows
  BY <1>5 DEF Next, Load, OpenFails, InitSchema, InitSchemaThrows, Update, UpdateThrows,
              GiveUp, Record, RecordThrows, Unload, Crash, vars, database, install,
              counters, Ahead, Object
<1> QED
  BY <1>3, <1>4, <1>5

(* An install that was cut off between an updater and its record is never  *)
(* caught up with: no updater of the code can be run twice.                *)
THEOREM NoRecovery == Spec => AheadForGood
<1>1. pc = "off" /\ Ahead => Stuck
  BY DEF Stuck
<1>2. Stuck => Ahead
  BY DEF Stuck
<1> QED
  BY <1>1, <1>2, StuckStays, Invariance, PTL DEF Spec, AheadForGood

-----------------------------------------------------------------------------
(* With no fault and no crash, what exists outside the loop is what the    *)
(* recorded version stands for, and inside it what the loop has done.      *)
Clean ==
  (faults = 0 /\ crashes = 0) =>
    /\ pc \notin {"update", "record"} => \A o \in objects : o[1] < recorded
    /\ pc \notin {"off", "initSchema"} => schema
    /\ pc \in {"update", "record"} => recorded # NoRow
    /\ pc = "update" =>
         \A o \in objects : o[1] < current \/ (o[1] = current /\ o[2] < statement)
    /\ pc = "record" => \A o \in objects : o[1] < target
    /\ pc = "ready" => recorded >= target

\* Every step preserves it.
LEMMA CleanStep == IInv /\ Clean /\ [Next]_vars => Clean'
<1> SUFFICES ASSUME IInv, Clean, [Next]_vars, faults' = 0, crashes' = 0 PROVE Clean'
  BY DEF Clean
<1>1. /\ faults \in Nat /\ crashes \in Nat
      /\ recorded = -1 \/ recorded \in 0..Updaters
      /\ target \in 1..Updaters /\ current \in 0..Updaters /\ statement \in Nat
      /\ \A o \in objects : o[1] \in 0..Updaters - 1 /\ o[2] \in Nat
  BY BoundsAssumption DEF IInv, TypeOK, NoRow, Objects
<1>2. faults = 0 /\ crashes = 0 /\ ~Fault /\ ~Crash
  BY <1>1 DEF Next, Load, OpenFails, Fault, InitSchema, InitSchemaThrows, VersionUnknown,
              GetTableVersion, GetTableVersionThrows, Update, UpdateThrows, GiveUp,
              Record, RecordThrows, Unload, Crash, vars, counters
<1> USE <1>1, <1>2 DEF Clean
<1>3. CASE \E version \in 1..Updaters : Load(version)
  BY <1>3 DEF Load, database
<1>4. CASE OpenFails \/ InitSchemaThrows
  BY <1>4 DEF OpenFails, InitSchemaThrows
<1>12. CASE InitSchema
  BY <1>12 DEF InitSchema, install, counters
<1>5. CASE GetTableVersion
  <2>1. /\ objects' = objects /\ schema' = schema /\ schema /\ target' = target
        /\ StartFrom(recorded') /\ pc = "getTableVersion" /\ statement = 1
        /\ recorded' = IF recorded = NoRow THEN 0 ELSE recorded
        /\ statement' = statement
    BY <1>5 DEF GetTableVersion, StartFrom, IInv, StartInv
  <2>2. recorded' \in Nat /\ \A o \in objects' : o[1] < recorded'
    BY <2>1, UpdatersAssumption DEF NoRow
  <2>3. recorded' # NoRow
    BY <2>2 DEF NoRow
  <2> QED
    BY <2>1, <2>2, <2>3 DEF StartFrom
<1>6. CASE GetTableVersionThrows
  BY <1>6 DEF GetTableVersionThrows
<1>7. CASE Update
  <2>1. /\ objects' = objects \cup {Object(current, statement)} /\ recorded' = recorded
        /\ target' = target /\ schema' = schema /\ pc = "update"
    BY <1>7 DEF Update
  <2>2. Object(current, statement)[1] = current /\ Object(current, statement)[2] = statement
    BY DEF Object
  <2>3. current < target
    BY <2>1 DEF IInv, LoopInv
  <2>4. CASE statement < Statements[current]
    <3>1. statement' = statement + 1 /\ current' = current /\ pc' = "update"
      BY <1>7, <2>4, <2>1 DEF Update
    <3>2. \A o \in objects' : o[1] < current' \/ (o[1] = current' /\ o[2] < statement')
      BY <2>1, <2>2, <3>1
    <3> QED
      BY <2>1, <3>1, <3>2
  <2>5. CASE ~(statement < Statements[current])
    <3>1. statement' = 1 /\ current' = current + 1
          /\ pc' = IF current + 1 < target THEN "update" ELSE "record"
      BY <1>7, <2>5 DEF Update
    <3>2. \A o \in objects' : o[1] < current' /\ o[1] < target'
      BY <2>1, <2>2, <2>3, <3>1
    <3> QED
      BY <2>1, <3>1, <3>2
  <2> QED
    BY <2>4, <2>5
<1>8. CASE UpdateThrows
  <2>1. pc = "update" /\ Object(current, statement) \in objects
    BY <1>8 DEF UpdateThrows
  <2>2. Object(current, statement)[1] = current /\ Object(current, statement)[2] = statement
    BY DEF Object
  <2> QED
    BY <2>1, <2>2
<1>9. CASE Record
  <2>1. /\ recorded' = target /\ objects' = objects /\ pc' = "ready" /\ target' = target
        /\ schema' = schema /\ pc = "record"
    BY <1>9 DEF Record, install
  <2> QED
    BY <2>1
<1>13. CASE RecordThrows
  BY <1>13 DEF RecordThrows
<1>10. CASE Unload
  BY <1>10 DEF Unload, database, install
<1>11. CASE UNCHANGED vars
  BY <1>11 DEF vars, database, install, counters
<1> QED
  BY <1>3, <1>4, <1>5, <1>6, <1>7, <1>8, <1>9, <1>10, <1>11, <1>12, <1>13 DEF Next

(* If no statement fails and no process dies, every load that is through   *)
(* has applied and recorded the version it was asked for.                  *)
THEOREM CleanLoads == Spec => []CleanLoadInstalls
<1>1. Init => Clean
  BY DEF Init, Clean
<1>2. IInv /\ Clean => CleanLoadInstalls
  <2> SUFFICES ASSUME IInv, Clean, pc = "ready", faults = 0, crashes = 0
               PROVE  recorded >= target /\ Applied(target)
    BY DEF CleanLoadInstalls
  <2>1. recorded >= target /\ target \in Nat /\ (recorded = -1 \/ recorded \in Nat)
    BY UpdatersAssumption DEF Clean, IInv, TypeOK, NoRow
  <2>2. 0..target - 1 \subseteq 0..recorded - 1
    BY <2>1
  <2> QED
    BY <2>1, <2>2 DEF IInv, RecordedIsApplied, Applied
<1> QED
  BY <1>1, <1>2, CleanStep, Invariance, PTL DEF Spec


-----------------------------------------------------------------------------
(* The plugin implements it.                                                *)


\* What M_storage_init does, as the module's part of Load.
LEMMA LoadRefines ==
  ASSUME InitStorage \/ StorageReady \/ StorageFails \/ StorageThrows
  PROVE  [Next]_vars
<1>1. ASSUME InitStorage PROVE Next
  BY <1>1 DEF InitStorage, StorageOpens, StorageInstall, Next
<1>2. ASSUME StorageFails PROVE Next
  BY <1>2 DEF StorageFails, Next
<1>3. ASSUME StorageThrows PROVE Next
  BY <1>3 DEF StorageThrows, Next
<1> QED
  BY <1>1, <1>2, <1>3 DEF StorageReady

\* The ways in which a session ends, and the steps that are none of the storage's.
LEMMA RestRefines ==
  ASSUME Attach \/ InitModule \/ InitFails \/ DoneModule \/ Others \/ Killed
  PROVE  [Next]_vars
<1>1. ASSUME DoneModule PROVE [Next]_vars
  BY <1>1 DEF DoneModule, Next
<1>2. ASSUME Killed PROVE [Next]_vars
  BY <1>2 DEF Killed, Next
<1> QED
  BY <1>1, <1>2 DEF Attach, InitModule, InitFails, Others

\* Every behaviour of the plugin is one of the installer: a load that fails, is killed or
\* throws is a session that ends at a point where a session may end
\* (ExtendedEventLog.cpp 221-292, M_storage.cpp 371-418).
THEOREM PluginImplementsInstall == PluginSpec => Spec
<1>1. PluginInit => Init
  BY DEF PluginInit
<1>2. [PluginNext]_pluginVars => [Next]_vars
  BY LoadRefines, RestRefines DEF PluginNext, pluginVars
<1> QED
  BY <1>1, <1>2, PTL DEF PluginSpec, Spec

\* Whatever loads, fails and dies around the installer, a recorded version stands for
\* tables that are there (M_storage.cpp 106-124).
THEOREM PluginVersionsApplied == PluginSpec => []Inv
BY PluginImplementsInstall, InvariantHolds, PTL

\* If no statement has failed and no process died in it, a load that is through has
\* applied and recorded its version, in the plugin as in the installer alone
\* (M_storage.cpp 371-391).
THEOREM PluginCleanLoads == PluginSpec => []CleanLoadInstalls
BY PluginImplementsInstall, CleanLoads, PTL

\* No unload, rollback or restart of the plugin repairs an install that was cut off
\* (M_storage.cpp 106-124).
THEOREM PluginNoRecovery == PluginSpec => AheadForGood
BY PluginImplementsInstall, NoRecovery, PTL

-----------------------------------------------------------------------------
(* What Lifecycle keeps, with the database beside it.                       *)

Index == 1 .. 12

\* The modules that have their hooks and timers with the server: one that is being undone
\* has taken them back before its threads are waited for.
Standing == {i \in Index :
  CASE phase = "loading" -> i < at
    [] phase = "loaded" -> TRUE
    [] phase \in {"rollback", "unloading"} -> i < at \/ (i = at /\ part = "begin")
    [] OTHER -> FALSE}

\* The plugin's list is what the server has, and these are hooks of the standing modules.
HooksKnown ==
  /\ activeHooks = hooks
  /\ \A h \in hooks :
       \E i \in Standing : h.owner = L!modulesList[i] /\ h.name \in L!HooksOf(h.owner)

\* The commands stay until the list of hooks, the third module, is undone.
CallbacksKnown ==
  \A c \in callbacks :
    \/ \E i \in Standing : c \in L!TimersOf(L!modulesList[i])
    \/ c \in L!Commands /\ phase \in {"loaded", "unloading"} /\ 3 \in Standing

\* Where Load and Unload are.
Position ==
  /\ phase \in {"absent", "failed", "loaded"} => at = 0
  /\ phase = "loading" => at > 0
  /\ part # "begin" =>
       /\ phase \in {"rollback", "unloading"} /\ at > 0
       /\ \E k \in DOMAIN L!ThreadsOf(L!modulesList[at]) : part = L!ThreadsOf(L!modulesList[at])[k]

\* The console's thread cannot begin while DllMain runs, so a rollback of the storage
\* never gets past the console, the fourth module.
ConsoleWaits ==
  /\ (phase = "loading" /\ at > 4) \/ phase = "rollback" => threads["console"] = "created"
  /\ phase = "rollback" => at \in 4 .. 5 /\ failed = "Storage"
  /\ phase = "failed" => failed = "ConfigReader"

LifeInv == L!TypeOK /\ HooksKnown /\ CallbacksKnown /\ Position /\ ConsoleWaits

\* The list of modules, spelled out.
LEMMA Modules ==
  /\ DOMAIN L!modulesList = Index /\ Len(L!modulesList) = 12
  /\ L!modulesList[1] = "ConfigReader" /\ L!modulesList[2] = "EventWriter"
  /\ L!modulesList[3] = "HookHelper" /\ L!modulesList[4] = "ConsoleHelper"
  /\ L!modulesList[5] = "Timer" /\ L!modulesList[6] = "Storage"
  /\ L!modulesList[7] = "HarvestMarker" /\ L!modulesList[8] = "OnlinePlayers"
  /\ L!modulesList[9] = "PlayerCommonActivity" /\ L!modulesList[10] = "Structures"
  /\ L!modulesList[11] = "InventoryAndHarvest" /\ L!modulesList[12] = "Tribe"
BY DEF L!modulesList, Index

\* A module uses modules before it only.
LEMMA UsesBelow ==
  ASSUME NEW i \in Index, NEW m \in L!Uses(L!modulesList[i])
  PROVE  \E j \in Index : j < i /\ m = L!modulesList[j]
<1>1. L!modulesList[i] \in {"EventWriter", "ConsoleHelper", "Storage", "OnlinePlayers",
        "PlayerCommonActivity", "Structures", "InventoryAndHarvest", "Tribe"}
  BY DEF L!Uses
<1>2. i \in {2, 4, 6, 8, 9, 10, 11, 12}
  BY <1>1, Modules DEF Index
<1>3. m \in {"ConfigReader", "EventWriter", "HookHelper", "Timer", "OnlinePlayers", "Storage"}
  BY <1>1 DEF L!Uses
<1>4. CASE i \in {2, 4}
  BY <1>4, Modules DEF L!Uses, Index
<1>5. CASE i \in {6, 8, 9, 10}
  BY <1>5, Modules DEF L!Uses, Index
<1>6. CASE i \in {11, 12}
  BY <1>6, Modules DEF L!Uses, Index
<1> QED
  BY <1>2, <1>4, <1>5, <1>6

\* A hook is of one module.
LEMMA OneOwner ==
  ASSUME NEW i \in Index, NEW j \in Index, NEW n,
         n \in L!HooksOf(L!modulesList[i]), n \in L!HooksOf(L!modulesList[j])
  PROVE  i = j
<1>1. ASSUME NEW k \in Index, n \in L!HooksOf(L!modulesList[k])
      PROVE  k \in {4, 9, 10, 11, 12}
  <2>1. L!modulesList[k] \in {"ConsoleHelper", "PlayerCommonActivity", "Structures",
          "InventoryAndHarvest", "Tribe"}
    BY <1>1 DEF L!HooksOf
  <2> QED
    BY <2>1, Modules DEF Index
<1>2. n \in L!HooksOf("ConsoleHelper") => n[2] = "InitWorld"
  BY DEF L!HooksOf, L!Of
<1>3. n \in L!HooksOf("Structures") => n[2] = "FinalStructurePlacement"
  BY DEF L!HooksOf, L!Of
<1>4. n \in L!HooksOf("PlayerCommonActivity") =>
        n[1] = "AShooterCharacter" \/ n[2] \in {"StartNewShooterPlayer", "Logout"}
  BY DEF L!HooksOf, L!Of
<1>5. n \in L!HooksOf("InventoryAndHarvest") =>
        n[2] \in {"AddItem", "NotifyItemQuantityUpdated", "RemoveItem",
                  "ServerForceMergeItemStack_Implementation",
                  "ServerSplitItemStack_Implementation",
                  "ServerTransferFromRemoteInventory_Implementation",
                  "ServerTransferAllFromRemoteInventory_Implementation",
                  "NotifyItemAdded"}
  BY DEF L!HooksOf, L!Of
<1>6. n \in L!HooksOf("Tribe") =>
        /\ n[1] # "AShooterCharacter"
        /\ n[2] \in {"RemoveTribe", "RemovePlayerFromTribe", "UpdateTribeData",
                     "AddToTribeLog", "SetupTamed", "SetCharacterStatusTameable",
                     "AdjustDamage", "GetRandomBaseLevel", "Die", "BeginPlay",
                     "NetUpdateDinoNameStrings_Implementation",
                     "ServerViewRemoteInventory", "AddCustomFolder",
                     "InitializeInventory", "ServerDeleteCustomFolder_Implementation",
                     "ServerRequestLevelUp_Implementation", "AddNewItem"}
  BY DEF L!HooksOf, L!Of
<1>7. n \in L!HooksOf("PlayerCommonActivity") =>
        n[2] \in {"Die", "BeginPlay", "StartNewShooterPlayer", "Logout"}
  BY DEF L!HooksOf, L!Of
<1>8. i \in {4, 9, 10, 11, 12} /\ j \in {4, 9, 10, 11, 12}
  BY <1>1
<1>9. CASE i = 4
  BY <1>2, <1>3, <1>5, <1>6, <1>7, <1>8, <1>9, Modules
<1>10. CASE i = 9
  BY <1>2, <1>3, <1>4, <1>5, <1>6, <1>7, <1>8, <1>10, Modules
<1>11. CASE i = 10
  BY <1>2, <1>3, <1>5, <1>6, <1>7, <1>8, <1>11, Modules
<1>12. CASE i = 11
  BY <1>2, <1>3, <1>5, <1>6, <1>7, <1>8, <1>12, Modules
<1>13. CASE i = 12
  BY <1>2, <1>3, <1>4, <1>5, <1>6, <1>7, <1>8, <1>13, Modules
<1> QED
  BY <1>8, <1>9, <1>10, <1>11, <1>12, <1>13

\* A timer is of one module, and no command.
LEMMA OneTimer ==
  ASSUME NEW i \in Index, NEW j \in Index, NEW c \in L!TimersOf(L!modulesList[i])
  PROVE  /\ c \in L!TimersOf(L!modulesList[j]) => i = j
         /\ c \notin L!Commands
<1>1. c \in L!TimersOf(L!modulesList[j]) => i = j
  BY Modules DEF L!TimersOf, Index
<1>2. c \notin L!Commands
  BY DEF L!TimersOf, L!Commands
<1> QED
  BY <1>1, <1>2

\* The threads of a module, in the order in which they are waited for.
LEMMA ThreadLists ==
  ASSUME NEW i \in Index
  PROVE  /\ i = 2 => L!ThreadsOf(L!modulesList[i]) = <<"strings", "events">>
         /\ i = 4 => L!ThreadsOf(L!modulesList[i]) = <<"console">>
         /\ i = 6 => L!ThreadsOf(L!modulesList[i]) = <<"storage">>
         /\ i \notin {2, 4, 6} => L!ThreadsOf(L!modulesList[i]) = <<>>
BY Modules DEF L!ThreadsOf, Index

\* No module stands when the library is absent or has failed to load.
LEMMA Ended ==
  ASSUME LifeInv, phase \in {"absent", "failed"}
  PROVE  /\ at = 0 /\ part = "begin" /\ Standing = {}
         /\ hooks = {} /\ activeHooks = {} /\ callbacks = {}
<1>1. Standing = {}
  BY DEF Standing
<1> QED
  BY <1>1 DEF LifeInv, HooksKnown, CallbacksKnown, Position

\* The process begins without the library.
LEMMA InitLife == L!Init => LifeInv
<1> SUFFICES ASSUME L!Init PROVE LifeInv
  OBVIOUS
<1>1. L!TypeOK
  BY BoundsAssumption, Modules DEF L!Init, L!TypeOK, L!Owners
<1> QED
  BY <1>1 DEF L!Init, LifeInv, HooksKnown, CallbacksKnown, Position, ConsoleWaits

\* A load begins with nothing of an earlier one at the server.
LEMMA AttachLife == LifeInv /\ L!Attach => LifeInv'
<1> SUFFICES ASSUME LifeInv, L!Attach PROVE LifeInv'
  OBVIOUS
<1>1. hooks = {} /\ activeHooks = {} /\ callbacks = {} /\ part = "begin"
  BY Ended DEF L!Attach
<1>2. /\ phase' = "loading" /\ at' = 1 /\ part' = "begin"
      /\ hooks' = {} /\ activeHooks' = {} /\ callbacks' = {}
  BY <1>1 DEF L!Attach, L!server
<1>3. L!TypeOK'
  BY <1>2, Modules, BoundsAssumption DEF L!Attach, LifeInv, L!TypeOK, L!Owners, L!Thread
<1> QED
  BY <1>2, <1>3 DEF LifeInv, HooksKnown, CallbacksKnown, Position, ConsoleWaits

\* Init of the next module: its hooks are none of a module before it, so that the list of
\* hooks knows all that the server gets.
LEMMA InitModuleLife == LifeInv /\ L!InitModule => LifeInv'
<1> SUFFICES ASSUME LifeInv, L!InitModule PROVE LifeInv'
  OBVIOUS
<1> DEFINE m == L!modulesList[at]
           new == [name : L!HooksOf(m), owner : {m}]
<1>1. /\ phase = "loading" /\ at \in Index /\ part = "begin" /\ part' = part
      /\ UNCHANGED <<freed, attached, failed>>
  BY Modules DEF LifeInv, L!TypeOK, Position, L!InitModule, Index
<1>2. /\ at < 12 => at' = at + 1 /\ phase' = "loading"
      /\ at = 12 => at' = 0 /\ phase' = "loaded"
  BY <1>1, Modules DEF L!InitModule, Index
<1>3. Standing = {i \in Index : i < at} /\ Standing' = Standing \cup {at}
  BY <1>1, <1>2 DEF Standing, Index
<1>4. HooksKnown'
  <2>1. hooks' = hooks \cup new
    BY DEF L!InitModule, L!Register
  <2>2. ASSUME NEW h \in new, NEW g \in activeHooks PROVE g.name # h.name
    <3>1. PICK i \in Standing : g.owner = L!modulesList[i] /\ g.name \in L!HooksOf(g.owner)
      BY DEF LifeInv, HooksKnown
    <3>2. h.name \in L!HooksOf(m)
      OBVIOUS
    <3> QED
      BY <1>1, <1>3, <3>1, <3>2, OneOwner DEF Index
  <2>3. activeHooks' = activeHooks \cup {h \in new : \A g \in activeHooks : g.name # h.name}
    BY DEF L!InitModule, L!Register
  <2>4. activeHooks' = hooks'
    BY <2>1, <2>2, <2>3 DEF LifeInv, HooksKnown
  <2>5. \A h \in new : h.owner = L!modulesList[at] /\ h.name \in L!HooksOf(h.owner)
    OBVIOUS
  <2> QED
    BY <1>3, <2>1, <2>4, <2>5 DEF LifeInv, HooksKnown
<1>5. CallbacksKnown'
  <2>1. /\ at < 12 => callbacks' = callbacks \cup L!TimersOf(m)
        /\ at = 12 => callbacks' = callbacks \cup L!TimersOf(m) \cup L!Commands
    BY <1>1, Modules DEF L!InitModule, Index
  <2>2. ASSUME NEW c \in callbacks PROVE \E i \in Standing : c \in L!TimersOf(L!modulesList[i])
    BY <1>1 DEF LifeInv, CallbacksKnown
  <2>3. CASE at < 12
    BY <1>3, <2>1, <2>2, <2>3 DEF CallbacksKnown
  <2>4. CASE at = 12
    BY <1>2, <1>3, <2>1, <2>2, <2>4 DEF CallbacksKnown, Index
  <2> QED
    BY <1>1, <2>3, <2>4 DEF Index
<1>6. threads' = L!Created(m)
  BY DEF L!InitModule
<1>7. L!TypeOK'
  <2>1. threads' \in [L!Thread -> {"none", "created", "running", "stopped", "crashed"}]
    BY <1>6 DEF LifeInv, L!TypeOK, L!Created
  <2>2. L!Owners(activeHooks \cup hooks)' \subseteq L!Module
    BY <1>3, <1>4, <1>1, Modules DEF HooksKnown, L!Owners, L!Module, L!Place, Index
  <2>3. callbacks' \subseteq {"__Timer", "__Timer2"} \cup L!Commands
    BY <1>5 DEF CallbacksKnown, L!TimersOf
  <2>4. at' \in 0 .. 12 /\ phase' \in {"loading", "loaded"}
    BY <1>1, <1>2 DEF Index
  <2> QED
    BY <1>1, <2>1, <2>2, <2>3, <2>4, Modules DEF LifeInv, L!TypeOK
<1>8. ConsoleWaits'
  <2>1. at = 4 => threads'["console"] = "created"
    BY <1>6, Modules DEF L!Created, L!ThreadsOf, L!Thread
  <2>2. at > 4 => threads'["console"] = "created"
    BY <1>1, <1>6 DEF LifeInv, ConsoleWaits, L!Created, L!Thread
  <2> QED
    BY <1>1, <1>2, <2>1, <2>2 DEF ConsoleWaits, Index
<1> QED
  BY <1>1, <1>2, <1>4, <1>5, <1>7, <1>8 DEF LifeInv, Position, Index

\* The modules that stand are those before the one that failed.
LEMMA InitFailsLife == LifeInv /\ L!InitFails => LifeInv'
<1> SUFFICES ASSUME LifeInv, L!InitFails PROVE LifeInv'
  OBVIOUS
<1>1. /\ phase = "loading" /\ at \in Index /\ part = "begin"
      /\ at' = at - 1 /\ failed' = L!modulesList[at]
      /\ phase' = IF at = 1 THEN "failed" ELSE "rollback"
      /\ UNCHANGED <<part, activeHooks, hooks, callbacks, threads, freed, attached>>
  BY Modules DEF LifeInv, L!TypeOK, Position, L!InitFails, L!server, Index
<1>2. at \in {1, 6}
  BY <1>1, Modules DEF L!InitFails, Index
<1>3. Standing' = Standing
  BY <1>1 DEF Standing, Index
<1>4. HooksKnown' /\ CallbacksKnown'
  BY <1>1, <1>3 DEF LifeInv, HooksKnown, CallbacksKnown
<1>5. L!TypeOK'
  BY <1>1, <1>2, Modules DEF LifeInv, L!TypeOK, L!Owners, L!Module, L!Place, Index
<1>6. ConsoleWaits'
  BY <1>1, <1>2, Modules DEF LifeInv, ConsoleWaits
<1> QED
  BY <1>1, <1>2, <1>4, <1>5, <1>6 DEF LifeInv, Position

\* The library is detached, or what DllMain has left to do is done.
LEMMA EndsLife == LifeInv /\ (L!Detach \/ L!DetachFailed \/ L!DllMainReturns) => LifeInv'
<1> SUFFICES ASSUME LifeInv, L!Detach \/ L!DetachFailed \/ L!DllMainReturns PROVE LifeInv'
  OBVIOUS
<1>1. UNCHANGED <<part, activeHooks, hooks, callbacks, threads, freed, attached, failed>>
  BY DEF L!Detach, L!DetachFailed, L!DllMainReturns, L!server
<1>2. CASE L!Detach
  <2>1. /\ phase = "loaded" /\ phase' = "unloading" /\ at' = 12 /\ part = "begin"
    BY <1>2, Modules DEF L!Detach, LifeInv, Position
  <2>2. Standing = Index /\ Standing' = Index
    BY <1>1, <2>1 DEF Standing, Index
  <2>3. L!TypeOK'
    BY <1>1, <2>1, Modules DEF LifeInv, L!TypeOK, L!Owners
  <2> QED
    BY <1>1, <2>1, <2>2, <2>3
    DEF LifeInv, HooksKnown, CallbacksKnown, Position, ConsoleWaits, Index
<1>3. CASE L!DetachFailed
  <2>1. /\ phase = "failed" /\ phase' = "absent" /\ at' = at
    BY <1>3 DEF L!DetachFailed
  <2>2. L!TypeOK'
    BY <1>1, <2>1 DEF LifeInv, L!TypeOK
  <2> QED
    BY <1>1, <2>1, <2>2, Ended
    DEF LifeInv, HooksKnown, CallbacksKnown, Position, ConsoleWaits
<1>4. CASE L!DllMainReturns
  <2>1. /\ phase = "unloading" /\ phase' = "absent" /\ at = 0 /\ at' = 0
    BY <1>4 DEF L!DllMainReturns, LifeInv, ConsoleWaits
  <2>2. Standing = {} /\ part = "begin"
    BY <2>1 DEF Standing, LifeInv, Position, Index
  <2>3. hooks = {} /\ activeHooks = {} /\ callbacks = {}
    BY <2>2 DEF LifeInv, HooksKnown, CallbacksKnown
  <2>4. L!TypeOK'
    BY <1>1, <2>1 DEF LifeInv, L!TypeOK
  <2> QED
    BY <1>1, <2>1, <2>2, <2>3, <2>4
    DEF LifeInv, HooksKnown, CallbacksKnown, Position, ConsoleWaits
<1> QED
  BY <1>2, <1>3, <1>4

\* Done of a module takes back its own hooks, timers and, with the list of hooks, the commands.
LEMMA DoneModuleLife == LifeInv /\ L!DoneModule => LifeInv'
<1> SUFFICES ASSUME LifeInv, L!DoneModule PROVE LifeInv'
  OBVIOUS
<1> DEFINE m == L!modulesList[at]
<1>1. /\ phase \in {"rollback", "unloading"} /\ at \in Index /\ part = "begin"
      /\ UNCHANGED <<phase, threads, freed, attached, failed>>
  BY Modules DEF LifeInv, L!TypeOK, L!DoneModule, Index
<1>2. \/ at' = at - 1 /\ part' = "begin" /\ at \notin {2, 4, 6}
      \/ at' = at /\ part' = L!ThreadsOf(m)[1] /\ part' \in L!Thread /\ at \in {2, 4, 6}
           /\ 1 \in DOMAIN L!ThreadsOf(m)
  <2>1. IF L!ThreadsOf(m) = <<>> THEN at' = at - 1 /\ part' = part
        ELSE at' = at /\ part' = Head(L!ThreadsOf(m))
    BY DEF L!DoneModule
  <2> QED
    BY <1>1, <2>1, ThreadLists DEF L!Thread, Index
<1>3. Standing' = Standing \ {at} /\ at \in Standing
  BY <1>1, <1>2 DEF Standing, Index, L!Thread
<1>4. HooksKnown'
  <2>1. CASE at = 3
    BY <2>1, Modules DEF L!DoneModule, HooksKnown, LifeInv
  <2>2. CASE at # 3
    <3>1. m # "HookHelper"
      BY <1>1, <2>2, Modules DEF Index
    <3>2. LET old == {h \in activeHooks : h.name \in L!HooksOf(m)}
          IN  activeHooks' = activeHooks \ old /\ hooks' = hooks \ old
      BY <3>1 DEF L!DoneModule, L!Unregister
    <3>3. activeHooks' = hooks'
      BY <3>2 DEF LifeInv, HooksKnown
    <3>4. ASSUME NEW h \in hooks'
          PROVE  \E i \in Standing' : h.owner = L!modulesList[i] /\ h.name \in L!HooksOf(h.owner)
      <4>1. h \in hooks /\ h.name \notin L!HooksOf(m)
        BY <3>2 DEF LifeInv, HooksKnown
      <4>2. PICK i \in Standing : h.owner = L!modulesList[i] /\ h.name \in L!HooksOf(h.owner)
        BY <4>1 DEF LifeInv, HooksKnown
      <4> QED
        BY <1>3, <4>1, <4>2
    <3> QED
      BY <3>3, <3>4 DEF HooksKnown
  <2> QED
    BY <2>1, <2>2
<1>5. CallbacksKnown'
  <2>1. callbacks' = callbacks \ (L!TimersOf(m) \cup
                                  IF m = "HookHelper" THEN L!Commands ELSE {})
    BY DEF L!DoneModule
  <2>2. m = "HookHelper" <=> at = 3
    BY <1>1, Modules DEF Index
  <2>3. ASSUME NEW c \in callbacks'
        PROVE  \/ \E i \in Standing' : c \in L!TimersOf(L!modulesList[i])
               \/ c \in L!Commands /\ phase \in {"loaded", "unloading"} /\ 3 \in Standing'
    <3>1. c \in callbacks /\ c \notin L!TimersOf(m) /\ (at = 3 => c \notin L!Commands)
      BY <2>1, <2>2
    <3> QED
      BY <1>3, <3>1 DEF LifeInv, CallbacksKnown
  <2> QED
    BY <1>1, <2>3 DEF CallbacksKnown
<1>6. L!TypeOK'
  <2>1. L!Owners(activeHooks \cup hooks)' \subseteq L!Module
    BY <1>3, <1>4, Modules DEF HooksKnown, L!Owners, L!Module, L!Place, Standing
  <2>2. callbacks' \subseteq {"__Timer", "__Timer2"} \cup L!Commands
    BY DEF L!DoneModule, LifeInv, L!TypeOK
  <2>3. at' \in 0 .. 12 /\ part' \in {"begin"} \cup L!Thread
    BY <1>1, <1>2 DEF Index
  <2> QED
    BY <1>1, <2>1, <2>2, <2>3, Modules DEF LifeInv, L!TypeOK
<1>7. Position'
  BY <1>1, <1>2 DEF Position, Index
<1>8. ConsoleWaits'
  BY <1>1, <1>2 DEF LifeInv, ConsoleWaits
<1> QED
  BY <1>4, <1>5, <1>6, <1>7, <1>8 DEF LifeInv

\* Only an unload gets past a thread: a rollback waits for the console's.
LEMMA WaitedLife == LifeInv /\ (L!ThreadSeen \/ L!ThreadTimeout) => LifeInv'
<1> SUFFICES ASSUME LifeInv, L!ThreadSeen \/ L!ThreadTimeout PROVE LifeInv'
  OBVIOUS
<1>1. part # "begin" /\ L!Waited
  BY DEF L!ThreadSeen, L!ThreadTimeout, L!GivenUp, L!Thread
<1>2. /\ phase \in {"rollback", "unloading"} /\ at \in {2, 4, 6} /\ at \in Index
      /\ part \in L!Thread /\ (at = 4 => part = "console")
  BY <1>1, ThreadLists, Modules DEF LifeInv, L!TypeOK, Position, Index
<1>3. phase = "unloading"
  BY <1>2 DEF LifeInv, ConsoleWaits, L!ThreadSeen, L!ThreadTimeout, L!GivenUp
<1>4. /\ freed' = freed \cup {part}
      /\ UNCHANGED <<phase, activeHooks, hooks, callbacks, threads, attached, failed>>
  BY <1>1 DEF L!Waited, L!server
<1>5. \/ at' = at - 1 /\ part' = "begin"
      \/ at' = at /\ part' = "events" /\ at = 2
  <2> DEFINE ts == L!ThreadsOf(L!modulesList[at])
  <2>1. IF part # ts[Len(ts)] THEN at' = at /\ part' = ts[Len(ts)]
        ELSE at' = at - 1 /\ part' = "begin"
    BY <1>1 DEF L!Waited
  <2>2. CASE at = 2
    BY <2>1, <2>2, <1>2, ThreadLists
  <2>3. CASE at = 4
    BY <2>1, <2>3, <1>2, ThreadLists
  <2>4. CASE at = 6
    <3>1. ts = <<"storage">> /\ part = "storage"
      BY <2>4, <1>1, <1>2, ThreadLists DEF LifeInv, Position
    <3> QED
      BY <2>1, <3>1
  <2> QED
    BY <1>2, <2>2, <2>3, <2>4
<1>6. Standing' = Standing
  BY <1>1, <1>2, <1>3, <1>4, <1>5 DEF Standing, Index
<1>7. HooksKnown' /\ CallbacksKnown'
  BY <1>4, <1>6 DEF LifeInv, HooksKnown, CallbacksKnown
<1>8. L!TypeOK'
  BY <1>2, <1>4, <1>5, Modules DEF LifeInv, L!TypeOK, L!Owners, Index, L!Thread
<1>9. Position'
  BY <1>2, <1>3, <1>4, <1>5, ThreadLists DEF Position, Index
<1>10. ConsoleWaits'
  BY <1>3, <1>4 DEF ConsoleWaits
<1> QED
  BY <1>7, <1>8, <1>9, <1>10 DEF LifeInv

\* A thread that begins or ends leaves the console's alone while DllMain runs.
LEMMA ThreadLife ==
  ASSUME LifeInv, NEW t \in L!Thread, L!ThreadBegins(t) \/ L!ThreadEnds(t)
  PROVE  LifeInv'
<1>1. /\ UNCHANGED <<phase, at, part, activeHooks, hooks, callbacks, freed, attached, failed>>
      /\ \E s \in {"running", "stopped", "crashed"} : threads' = [threads EXCEPT ![t] = s]
  BY DEF L!ThreadBegins, L!ThreadEnds, L!Becomes, L!server
<1>2. L!TypeOK'
  BY <1>1 DEF LifeInv, L!TypeOK
<1>3. HooksKnown' /\ CallbacksKnown' /\ Position'
  BY <1>1 DEF LifeInv, HooksKnown, CallbacksKnown, Position, Standing
<1>4. L!LoaderLock /\ threads["console"] = "created" => threads'["console"] = "created"
  BY <1>1 DEF L!ThreadBegins, L!ThreadEnds, LifeInv, L!TypeOK
<1>5. ConsoleWaits'
  BY <1>1, <1>4 DEF LifeInv, ConsoleWaits, L!LoaderLock
<1> QED
  BY <1>2, <1>3, <1>5 DEF LifeInv

\* A process that dies leaves nothing at the server.
LEMMA ProcessEndsLife == LifeInv /\ ProcessEnds => LifeInv'
<1> SUFFICES ASSUME LifeInv, ProcessEnds PROVE LifeInv'
  OBVIOUS
<1>1. L!TypeOK'
  BY Modules DEF ProcessEnds, LifeInv, L!TypeOK, L!Owners
<1> QED
  BY <1>1 DEF ProcessEnds, LifeInv, HooksKnown, CallbacksKnown, Position, ConsoleWaits

\* Steps of the installer.
LEMMA StillLife == LifeInv /\ UNCHANGED process => LifeInv'
BY DEF process, LifeInv, L!TypeOK, HooksKnown, CallbacksKnown, Position, ConsoleWaits, Standing

\* Every step of the plugin keeps the invariant.
LEMMA LifeStep == LifeInv /\ [PluginNext]_pluginVars => LifeInv'
<1> SUFFICES ASSUME LifeInv, [PluginNext]_pluginVars PROVE LifeInv'
  OBVIOUS
<1>1. CASE Attach \/ StorageReady \/ InitModule
  BY <1>1, AttachLife, InitModuleLife DEF Attach, StorageReady, InitModule
<1>2. CASE StorageFails \/ InitFails
  BY <1>2, InitFailsLife DEF StorageFails, InitFails
<1>3. CASE DoneModule
  BY <1>3, DoneModuleLife DEF DoneModule
<1>4. CASE Others
  BY <1>4, EndsLife, WaitedLife, ThreadLife DEF Others
<1>5. CASE StorageThrows \/ Killed
  BY <1>5, ProcessEndsLife DEF StorageThrows, Killed
<1>6. CASE InitStorage \/ UNCHANGED pluginVars
  BY <1>6, StillLife DEF InitStorage, pluginVars
<1> QED
  BY <1>1, <1>2, <1>3, <1>4, <1>5, <1>6 DEF PluginNext

\* Whatever the server has of the plugin is of a module that stands, and so are all modules
\* that it uses.
LEMMA LifeInvImplies == LifeInv => L!Inv
<1> SUFFICES ASSUME LifeInv PROVE L!Inv
  OBVIOUS
<1>1. L!NothingLeft
  BY Ended DEF L!NothingLeft
<1>2. ASSUME NEW i \in Standing, NEW j \in Index, j <= i PROVE L!modulesList[j] \in L!Alive
  BY <1>2, Modules DEF Standing, L!Alive, L!Module, L!Place, Index, LifeInv, L!TypeOK
<1>3. L!HooksReady
  <2> SUFFICES ASSUME NEW h \in hooks, NEW m \in {h.owner} \cup L!Uses(h.owner)
               PROVE  m \in L!Alive
    BY DEF L!HooksReady, L!Owners
  <2>1. PICK i \in Standing : h.owner = L!modulesList[i]
    BY DEF LifeInv, HooksKnown
  <2>2. i \in Index
    BY DEF Standing
  <2> QED
    BY <1>2, <2>1, <2>2, UsesBelow DEF Index
<1>4. L!FailureReturns
  BY DEF LifeInv, ConsoleWaits, L!FailureReturns
<1> QED
  BY <1>1, <1>3, <1>4 DEF L!Inv, LifeInv

\* Through every order of loads, failures, unloads and deaths, the server never calls what
\* is not ready or has been left behind, and a load that comes back in failure is one
\* whose configuration was missing: no rollback of the storage returns
\* (ExtendedEventLog.cpp 189-292, ConsoleHelper.cpp 299-304).
THEOREM PluginInvariant == PluginSpec => []PluginInv
<1>1. PluginInit => LifeInv
  BY InitLife DEF PluginInit
<1>2. PluginSpec => []LifeInv
  BY <1>1, LifeStep, PTL DEF PluginSpec
<1> QED
  BY <1>2, PluginVersionsApplied, LifeInvImplies, PTL DEF PluginInv

-----------------------------------------------------------------------------
(* The time that players are reported online: OnlineTime.                   *)

\* The times that there are can be counted by an unsigned int.
Countable == MaxTime < W * Ms

\* The player reports are of this record, up to the time that it has been counted to.
Upto(p)  == IF p \in attack THEN cur_time ELSE last_time[p]
Exact(p) == Upto(p) - born[p] - moved[p]

\* A time is, up to n roundings, a number of milliseconds that is s modulo W.
AddsUp(x, n, s) ==
  \E k \in Int, r \in -(n * (Ms - 1)) .. n * (Ms - 1) : x = k * Ms + r /\ k % W = s

\* It is s milliseconds, or more by n roundings.
RoundedDown(x, n, s) == s * Ms <= x /\ x <= s * Ms + n * (Ms - 1)

\* The types; one player's dino attacks at a time, within its report.
ClockTypes ==
  /\ OnlineTimeTypeOK /\ attack \subseteq todo
  /\ \A p, q \in attack : p = q

\* A player is reported once in each run of the timer.
OncePerRun ==
  \A p \in Player :
    /\ reports[p] <= calls
    /\ p \in todo /\ p \notin attack => reports[p] + 1 <= calls

\* The next run is due an interval after the last one.
Paced == ~firstTime => next_time = last_treat_timer + Interval * Ms

\* What has been read of the clock is of the past, while it is not set back.
RecordOfThePast(p) ==
  /\ born[p] <= last_time[p] /\ last_time[p] <= now
  /\ inTimer => last_time[p] <= cur_time

LogOfThePast ==
  \A i \in DOMAIN log :
    /\ log[i].ms <= now \div Ms
    /\ log[i].ms <= __timestamp \/ (log[i].immediate /\ log[i].calls = calls)

OfThePast ==
  /\ cur_time <= now /\ __timestamp <= now \div Ms
  /\ \A p \in Online : RecordOfThePast(p)
  /\ LogOfThePast

CountOf(p)     == AddsUp(Exact(p), reports[p], reported[p])
CountDownOf(p) == moved[p] >= 0 /\ RoundedDown(Exact(p), reports[p], reported[p])

Counted     == \A p \in Online : CountOf(p)
CountedDown == \A p \in Online : CountDownOf(p)

ClockInv ==
  /\ ClockTypes /\ OncePerRun /\ Paced
  /\ setBacks = 0 => OfThePast
  /\ OutOfOrderOnlyInTick
  /\ Counted
  /\ Countable /\ setBacks = 0 => CountedDown

\* Milliseconds rounds towards zero.
LEMMA MillisecondsRound ==
  ASSUME NEW d \in Int
  PROVE  /\ Milliseconds(d) \in Int
         /\ \E r \in -(Ms - 1) .. Ms - 1 : d = Milliseconds(d) * Ms + r
         /\ d >= 0 => /\ Milliseconds(d) >= 0
                      /\ \E r \in 0 .. Ms - 1 : d = Milliseconds(d) * Ms + r
<1>1. Ms \in Nat \ {0}
  BY TimerAssumption
<1>2. CASE d >= 0
  <2> DEFINE m == d \div Ms
             r == d % Ms
  <2>1. m \in Int /\ r \in 0 .. Ms - 1 /\ d = m * Ms + r /\ r \in -(Ms - 1) .. Ms - 1
    BY <1>1, Division
  <2>2. Milliseconds(d) = m
    BY <1>2 DEF Milliseconds
  <2> HIDE DEF m, r
  <2>3. m >= 0
    <3> SUFFICES ASSUME m <= -1 PROVE FALSE
      BY <2>1
    <3>1. m * Ms <= (-1) * Ms
      BY <1>1, <2>1, Scaled
    <3>2. m * Ms \in Int /\ (-1) * Ms = -Ms
      BY <1>1, <2>1
    <3> QED
      BY ONLY <1>1, <1>2, <2>1, <3>1, <3>2
  <2> QED
    BY <2>1, <2>2, <2>3
<1>3. CASE ~(d >= 0)
  <2> DEFINE m == (-d) \div Ms
             r == (-d) % Ms
  <2>1. m \in Int /\ r \in 0 .. Ms - 1 /\ -d = m * Ms + r
    BY <1>1, Division
  <2>2. Milliseconds(d) = -m
    BY <1>3 DEF Milliseconds
  <2> HIDE DEF m, r
  <2>3. (-m) * Ms = -(m * Ms) /\ m * Ms \in Int /\ -m \in Int
    BY <1>1, <2>1
  <2>4. d = (-m) * Ms + (-r) /\ -r \in -(Ms - 1) .. Ms - 1
    BY ONLY <1>1, <2>1, <2>3, d \in Int
  <2> QED
    BY <1>3, <2>2, <2>3, <2>4
<1> QED
  BY <1>2, <1>3

\* One more report, of a time d.
LEMMA AddsUpMore ==
  ASSUME NEW x \in Int, NEW n \in Nat, NEW s, AddsUp(x, n, s), NEW d \in Int
  PROVE  AddsUp(x + d, n + 1, (s + Milliseconds(d)) % W)
<1>1. Ms \in Nat \ {0} /\ W \in Nat \ {0} /\ Ms - 1 \in Nat
  BY TimerAssumption, WidthAssumption
<1>2. PICK k \in Int, r \in -(n * (Ms - 1)) .. n * (Ms - 1) : x = k * Ms + r /\ k % W = s
  BY DEF AddsUp
<1>3. PICK m \in Int : m = Milliseconds(d)
  BY MillisecondsRound
<1>4. PICK e \in -(Ms - 1) .. Ms - 1 : d = m * Ms + e
  BY <1>3, MillisecondsRound
<1>5. (n + 1) * (Ms - 1) = n * (Ms - 1) + (Ms - 1) /\ n * (Ms - 1) \in Nat
  BY <1>1
<1>6. r + e \in -((n + 1) * (Ms - 1)) .. (n + 1) * (Ms - 1)
  BY ONLY <1>1, <1>2, <1>4, <1>5
<1>7. (k + m) * Ms = k * Ms + m * Ms /\ k * Ms \in Int /\ m * Ms \in Int /\ k + m \in Int
  BY <1>1
<1>8. x + d = (k + m) * Ms + (r + e)
  <2>1. r \in Int /\ e \in Int
    BY <1>1, <1>5
  <2> QED
    BY ONLY <1>2, <1>4, <1>7, <2>1, x \in Int, d \in Int
<1>9. (k + m) % W = (s + m) % W
  BY <1>1, <1>2, AddedUp
<1> QED
  BY <1>3, <1>6, <1>7, <1>8, <1>9 DEF AddsUp

\* The same, of a time that has passed: the sum is the number itself.
LEMMA RoundedDownMore ==
  ASSUME Countable, NEW x \in Int, NEW n \in Nat, NEW s \in Nat,
         RoundedDown(x, n, s), NEW d \in Nat, x + d <= MaxTime
  PROVE  RoundedDown(x + d, n + 1, (s + Milliseconds(d)) % W)
<1>1. Ms \in Nat \ {0} /\ W \in Nat \ {0} /\ Ms - 1 \in Nat /\ MaxTime \in Nat
  BY TimerAssumption, WidthAssumption
<1>2. PICK m \in Nat : m = Milliseconds(d)
  BY MillisecondsRound
<1>3. PICK e \in 0 .. Ms - 1 : d = m * Ms + e
  BY <1>2, MillisecondsRound
<1>4. (n + 1) * (Ms - 1) = n * (Ms - 1) + (Ms - 1) /\ n * (Ms - 1) \in Nat
  BY <1>1
<1>5. (s + m) * Ms = s * Ms + m * Ms /\ s * Ms \in Nat /\ m * Ms \in Nat /\ s + m \in Nat
  BY <1>1
<1>6. /\ s * Ms <= x /\ x <= s * Ms + n * (Ms - 1)
  BY DEF RoundedDown
<1>7. /\ (s + m) * Ms <= x + d
      /\ x + d <= (s + m) * Ms + (n + 1) * (Ms - 1)
  BY ONLY <1>1, <1>3, <1>4, <1>5, <1>6, x \in Int, d \in Nat
<1>8. s + m < W
  <2> SUFFICES ASSUME W <= s + m PROVE FALSE
    BY <1>1, <1>5
  <2>1. W * Ms <= (s + m) * Ms
    BY <1>1, <1>5, Scaled
  <2>2. W * Ms \in Nat /\ (s + m) * Ms \in Nat
    BY <1>1, <1>5
  <2> QED
    BY ONLY <1>1, <1>7, <2>1, <2>2, x + d <= MaxTime, x \in Int, d \in Nat, Countable
       DEF Countable
<1>9. (s + m) % W = s + m
  <2>1. PICK q \in Int : q = 0
    OBVIOUS
  <2>2. s + m = q * W + (s + m) /\ s + m \in 0 .. W - 1
    BY <1>1, <1>5, <1>8, <2>1
  <2> QED
    BY ONLY <1>1, <1>5, <2>2, q \in Int, Quotient
<1> QED
  BY <1>2, <1>7, <1>9 DEF RoundedDown

\* The types of what is read.
LEMMA ClockTypesAre ==
  ASSUME ClockTypes
  PROVE  /\ Ms \in Nat \ {0} /\ Interval \in Nat \ {0} /\ MaxTime \in Nat /\ W \in Nat \ {0}
         /\ now \in 0 .. MaxTime /\ cur_time \in 0 .. MaxTime /\ last_treat_timer \in 0 .. MaxTime
         /\ __timestamp \in Nat /\ next_time \in Nat /\ calls \in 0 .. MaxCalls
         /\ calls \in Nat /\ MaxCalls \in Nat
         /\ now \div Ms \in Nat
         /\ \A p \in Player :
              /\ last_time[p] \in 0 .. MaxTime \cup {-1} /\ last_time[p] \in Int
              /\ born[p] \in 0 .. MaxTime /\ reported[p] \in 0 .. W - 1
              /\ reports[p] \in Nat /\ moved[p] \in Int /\ Upto(p) \in Int /\ Exact(p) \in Int
<1>1. /\ Ms \in Nat \ {0} /\ Interval \in Nat \ {0} /\ MaxTime \in Nat /\ W \in Nat \ {0}
      /\ MaxCalls \in Nat
  BY TimerAssumption, WidthAssumption
<1>2. /\ now \in 0 .. MaxTime /\ cur_time \in 0 .. MaxTime /\ last_treat_timer \in 0 .. MaxTime
      /\ __timestamp \in Nat /\ next_time \in Nat /\ calls \in 0 .. MaxCalls
  BY DEF ClockTypes, OnlineTimeTypeOK, TimerTypeOK, Time
<1>3. now \div Ms \in Nat
  BY <1>1, <1>2, DivisionNat
<1>4. ASSUME NEW p \in Player
      PROVE  /\ last_time[p] \in 0 .. MaxTime \cup {-1} /\ last_time[p] \in Int
             /\ born[p] \in 0 .. MaxTime /\ reported[p] \in 0 .. W - 1
             /\ reports[p] \in 0 .. MaxCalls /\ reports[p] \in Nat /\ moved[p] \in Int
  <2>1. /\ last_time[p] \in 0 .. MaxTime \cup {-1}
        /\ born[p] \in 0 .. MaxTime /\ reported[p] \in 0 .. W - 1
        /\ reports[p] \in 0 .. MaxCalls /\ moved[p] \in Int
    BY DEF ClockTypes, OnlineTimeTypeOK, Time
  <2> QED
    BY <1>1, <2>1
<1>5. ASSUME NEW p \in Player PROVE Upto(p) \in Int /\ Exact(p) \in Int
  <2>1. Upto(p) \in Int
    BY <1>1, <1>2, <1>4 DEF Upto
  <2> QED
    BY <1>4, <2>1 DEF Exact
<1> QED
  BY <1>1, <1>2, <1>3, <1>4, <1>5

\* The count of a player that is not reported, and whose time is as before.
LEMMA CountKept ==
  ASSUME ClockInv, setBacks' = 0 => setBacks = 0, NEW p \in Online,
         Exact(p)' = Exact(p), reports'[p] = reports[p], reported'[p] = reported[p],
         moved'[p] = moved[p] \/ (setBacks = 0 /\ moved[p] >= 0 => moved'[p] >= 0)
  PROVE  CountOf(p)' /\ (Countable /\ setBacks' = 0 => CountDownOf(p)')
<1>1. CountOf(p) /\ (Countable /\ setBacks = 0 => CountDownOf(p))
  BY DEF ClockInv, Counted, CountedDown
<1> QED
  BY <1>1 DEF CountOf, CountDownOf

\* A player that is not online is as one that has just come.
LEMMA CountBegins ==
  AddsUp(0, 0, 0) /\ RoundedDown(0, 0, 0)
<1>1. Ms \in Nat \ {0} /\ W \in Nat \ {0}
  BY TimerAssumption, WidthAssumption
<1>2. 0 \in Int /\ 0 \in -(0 * (Ms - 1)) .. 0 * (Ms - 1) /\ 0 = 0 * Ms + 0 /\ 0 % W = 0
  <2>1. PICK z \in Int : z = 0
    OBVIOUS
  <2>2. z = z * W + z /\ z \in 0 .. W - 1
    BY <1>1, <2>1
  <2>3. z % W = z
    BY ONLY <1>1, <2>2, z \in Int, Quotient
  <2> QED
    BY <1>1, <2>1, <2>3
<1> QED
  BY <1>1, <1>2 DEF AddsUp, RoundedDown

\* At first there are no records and no messages.
LEMMA ClockInit == OnlineTimeInit => ClockInv
<1> SUFFICES ASSUME OnlineTimeInit PROVE ClockInv
  OBVIOUS
<1> USE DEF OnlineTimeInit, TimerInit
<1>1. /\ Ms \in Nat \ {0} /\ Interval \in Nat \ {0} /\ MaxTime \in Nat /\ W \in Nat \ {0}
      /\ MaxCalls \in Nat /\ MaxSetBacks \in Nat
      /\ Ms <= MaxTime
  BY TimerAssumption, WidthAssumption
<1>2. Online = {} /\ todo = {} /\ attack = {}
  BY DEF Online
<1>0. now \in 0 .. MaxTime /\ now \in Int /\ Interval * Ms \in Nat
  BY <1>1
<1>a. now \div Ms \in Nat
  BY <1>0, <1>1, DivisionNat
<1>3. ClockTypes
  <2>1. TimerTypeOK
    <3>1. {now, cur_time, last_treat_timer} \subseteq Time
      BY <1>0, <1>1 DEF Time
    <3>2. __timestamp \in Nat /\ next_time \in Nat /\ calls \in 0 .. MaxCalls
      BY <1>0, <1>1, <1>a
    <3>3. /\ firstTime \in BOOLEAN /\ inTimer \in BOOLEAN /\ elapsed_ms \in Int
          /\ log \in Seq(Stamp) /\ (setBacks > 0 => log = <<>>)
          /\ setBacks \in 0 .. MaxSetBacks
      <4>1. setBacks = 0 /\ firstTime = TRUE /\ inTimer = FALSE /\ elapsed_ms = -1 /\ log = <<>>
        OBVIOUS
      <4>2. log \in Seq(Stamp)
        BY ONLY <4>1
      <4>3. setBacks \in 0 .. MaxSetBacks /\ elapsed_ms \in Int /\ ~(setBacks > 0)
        BY ONLY <1>1, <4>1
      <4> QED
        BY ONLY <4>1, <4>2, <4>3
    <3> QED
      BY <3>1, <3>2, <3>3 DEF TimerTypeOK
  <2>2. OnlineTimeTypeOK
    BY <1>0, <1>1, <1>2, <2>1 DEF OnlineTimeTypeOK, Time, Zero
  <2> QED
    BY <1>2, <2>2 DEF ClockTypes
<1>4. OncePerRun
  BY <1>1, <1>2 DEF OncePerRun, Zero
<1>5. Paced
  BY DEF Paced
<1>6. OfThePast
  BY <1>0, <1>2, <1>a DEF OfThePast, LogOfThePast
<1>7. OutOfOrderOnlyInTick
  BY DEF OutOfOrderOnlyInTick
<1>8. Counted /\ CountedDown
  BY <1>2 DEF Counted, CountedDown
<1> QED
  BY <1>3, <1>4, <1>5, <1>6, <1>7, <1>8 DEF ClockInv

\* A message that comes into the log.
LEMMA MessageKept ==
  ASSUME ClockInv, NEW ms \in Nat, NEW immediate \in BOOLEAN,
         Message(ms, immediate),
         ms = IF immediate THEN now \div Ms ELSE __timestamp,
         UNCHANGED <<now, __timestamp, calls, setBacks>>
  PROVE  /\ log' \in Seq(Stamp) /\ (setBacks > 0 => log' = <<>>)
         /\ setBacks = 0 => LogOfThePast'
         /\ OutOfOrderOnlyInTick'
<1>1. log \in Seq(Stamp) /\ (setBacks > 0 => log = <<>>) /\ setBacks \in Nat
  BY TimerAssumption DEF ClockInv, ClockTypes, OnlineTimeTypeOK, TimerTypeOK
<1>2. /\ calls \in 0 .. MaxCalls /\ now \div Ms \in Nat /\ __timestamp \in Nat
  BY ClockTypesAre DEF ClockInv
<1>3. OutOfOrderOnlyInTick
  BY DEF ClockInv
<1>4. CASE log' = log
  BY <1>1, <1>3, <1>4 DEF ClockInv, OfThePast, LogOfThePast, OutOfOrderOnlyInTick
<1>5. ASSUME NEW e, e = [ms |-> ms, immediate |-> immediate, calls |-> calls],
             setBacks = 0, log' = Append(log, e)
      PROVE  /\ log' \in Seq(Stamp) /\ LogOfThePast' /\ OutOfOrderOnlyInTick'
  <2>1. e \in Stamp
    BY <1>2, <1>5 DEF Stamp
  <2>2. e.ms = ms /\ e.immediate = immediate /\ e.calls = calls
    BY <1>5
  <2>3. log' \in Seq(Stamp)
    BY <1>1, <1>5, <2>1
  <2>4. Len(log) \in Nat /\ DOMAIN log = 1 .. Len(log) /\ DOMAIN log' = 1 .. Len(log) + 1
    BY <1>1, <1>5, <2>1
  <2>5. /\ \A i \in DOMAIN log : log'[i] = log[i]
        /\ log'[Len(log) + 1] = e
    BY <1>1, <1>5, <2>1
  <2>6. ASSUME NEW i \in DOMAIN log
        PROVE  /\ log[i].ms \in Nat /\ log[i].ms <= now \div Ms
               /\ log[i].ms <= __timestamp \/ (log[i].immediate /\ log[i].calls = calls)
    <3>1. log[i] \in Stamp
      BY <1>1
    <3> QED
      BY <1>5, <3>1 DEF ClockInv, OfThePast, LogOfThePast, Stamp
  <2>7. __timestamp <= now \div Ms
    BY <1>5 DEF ClockInv, OfThePast
  <2>8. \A i \in DOMAIN log' : i \in DOMAIN log \/ i = Len(log) + 1
    BY <2>4
  <2>9. LogOfThePast'
    <3> SUFFICES ASSUME NEW i \in DOMAIN log'
                 PROVE  /\ log'[i].ms <= now \div Ms
                        /\ \/ log'[i].ms <= __timestamp
                           \/ log'[i].immediate /\ log'[i].calls = calls
      BY DEF LogOfThePast
    <3>1. CASE i \in DOMAIN log
      BY <2>5, <2>6, <3>1
    <3>2. CASE i = Len(log) + 1
      BY <1>2, <2>2, <2>5, <2>7, <3>2
    <3> QED
      BY <2>8, <3>1, <3>2
  <2>10. ASSUME NEW i \in DOMAIN log', NEW j \in DOMAIN log', i < j, log'[i].ms > log'[j].ms
         PROVE  log'[i].immediate /\ ~log'[j].immediate /\ log'[i].calls = log'[j].calls
    <3>1. i \in DOMAIN log
      BY <2>4, <2>10
    <3>2. CASE j \in DOMAIN log
      BY <1>3, <2>5, <2>10, <3>1, <3>2 DEF OutOfOrderOnlyInTick
    <3>3. CASE j = Len(log) + 1
      <4>1. log'[i] = log[i] /\ log'[j] = e
        BY <2>5, <3>1, <3>3
      <4>2. log[i].ms > ms
        BY <2>2, <2>10, <4>1
      <4>3. ~immediate /\ ms = __timestamp
        BY <1>2, <2>6, <3>1, <4>2
      <4>4. log[i].immediate /\ log[i].calls = calls
        BY <1>2, <2>6, <3>1, <4>2, <4>3
      <4> QED
        BY <2>2, <4>1, <4>3, <4>4
    <3> QED
      BY <2>8, <3>2, <3>3
  <2>11. OutOfOrderOnlyInTick'
    BY <2>10 DEF OutOfOrderOnlyInTick
  <2> QED
    BY <2>3, <2>9, <2>11
<1>6. \/ log' = log
      \/ setBacks = 0 /\ log' = Append(log, [ms |-> ms, immediate |-> immediate, calls |-> calls])
  BY DEF Message
<1> QED
  BY <1>1, <1>3, <1>4, <1>5, <1>6

\* The log and the period of the timer are as before.
LEMMA TimerStays ==
  ASSUME ClockInv, UNCHANGED <<next_time, last_treat_timer, firstTime, log>>
  PROVE  Paced' /\ OutOfOrderOnlyInTick'
BY DEF ClockInv, Paced, OutOfOrderOnlyInTick

\* The parts of the types that the steps leave.
LEMMA TypesAgain ==
  ASSUME TimerTypeOK',
         last_time' \in [Player -> Time \cup {-1}], todo' \subseteq Online',
         attack' \subseteq todo', todo' # {} => inTimer', \A p, q \in attack' : p = q,
         born' \in [Player -> Time], reported' \in [Player -> 0 .. W - 1],
         reports' \in [Player -> 0 .. MaxCalls], moved' \in [Player -> Int]
  PROVE  ClockTypes'
BY DEF ClockTypes, OnlineTimeTypeOK, Time

\* What the types say of the functions.
LEMMA ClockFunctions ==
  ASSUME ClockTypes
  PROVE  /\ last_time \in [Player -> Time \cup {-1}] /\ todo \subseteq Online
         /\ Online \subseteq Player
         /\ attack \subseteq todo /\ (todo # {} => inTimer) /\ (\A p, q \in attack : p = q)
         /\ born \in [Player -> Time] /\ reported \in [Player -> 0 .. W - 1]
         /\ reports \in [Player -> 0 .. MaxCalls] /\ moved \in [Player -> Int]
         /\ TimerTypeOK
BY DEF ClockTypes, OnlineTimeTypeOK, Online

\* TimerTypeOK speaks of the variables of the timer alone.
LEMMA TimerTypesStay ==
  ASSUME TimerTypeOK, UNCHANGED timerVars
  PROVE  TimerTypeOK'
BY DEF TimerTypeOK, timerVars, clockVars, periodVars, Stamp,
       Time

\* A player comes, with a record of now.
LEMMA LoginCounts ==
  ASSUME ClockInv, NEW p \in Player, Login(p)
  PROVE  ClockInv'
<1>1. ClockTypes /\ OncePerRun
  BY DEF ClockInv
<1>2. /\ ~inTimer /\ last_time[p] < 0
      /\ last_time' = [last_time EXCEPT ![p] = now] /\ born' = [born EXCEPT ![p] = now]
      /\ reported' = [reported EXCEPT ![p] = 0] /\ reports' = [reports EXCEPT ![p] = 0]
      /\ moved' = [moved EXCEPT ![p] = 0]
      /\ UNCHANGED <<now, cur_time, __timestamp, next_time, last_treat_timer, firstTime, inTimer,
                     elapsed_ms, log, calls, setBacks, todo, attack>>
      /\ UNCHANGED timerVars
  BY DEF Login, timerVars, clockVars, periodVars
<1>3. todo = {} /\ attack = {}
  BY <1>1, <1>2, ClockFunctions
<1>4. now \in Time /\ now \in 0 .. MaxTime /\ W \in Nat \ {0} /\ MaxCalls \in Nat
      /\ calls \in Nat /\ MaxTime \in Nat
  BY <1>1, ClockTypesAre DEF Time
<1>5. \A q \in Online' : q = p \/ (q # p /\ q \in Online)
  BY <1>1, <1>2, ClockFunctions DEF Online
<1>6. ClockTypes'
  <2>1. /\ last_time' \in [Player -> Time \cup {-1}]
        /\ born' \in [Player -> Time]
    BY <1>1, <1>2, <1>4, ClockFunctions
  <2>2. /\ reported' \in [Player -> 0 .. W - 1] /\ reports' \in [Player -> 0 .. MaxCalls]
        /\ moved' \in [Player -> Int]
    BY <1>1, <1>2, <1>4, ClockFunctions
  <2>3. TimerTypeOK'
    BY <1>1, <1>2, ClockFunctions, TimerTypesStay
  <2> QED
    BY <1>2, <1>3, <2>1, <2>2, <2>3, TypesAgain
<1>7. \A q \in Player : IF q = p
                        THEN /\ last_time'[q] = now /\ born'[q] = now /\ reported'[q] = 0
                             /\ reports'[q] = 0 /\ moved'[q] = 0
                        ELSE /\ last_time'[q] = last_time[q] /\ born'[q] = born[q]
                             /\ reported'[q] = reported[q] /\ reports'[q] = reports[q]
                             /\ moved'[q] = moved[q]
  BY <1>1, <1>2, ClockFunctions
<1>8. OncePerRun'
  BY <1>1, <1>2, <1>3, <1>4, <1>7 DEF OncePerRun
<1>9. ASSUME setBacks' = 0 PROVE OfThePast'
  <2>1. OfThePast
    BY <1>2, <1>9 DEF ClockInv
  <2>2. LogOfThePast'
    BY <1>2, <2>1 DEF OfThePast, LogOfThePast
  <2>3. ASSUME NEW q \in Online' PROVE RecordOfThePast(q)'
    BY <1>1, <1>2, <1>4, <1>5, <1>7, <2>1, ClockFunctions DEF OfThePast, RecordOfThePast
  <2> QED
    BY <1>2, <2>1, <2>2, <2>3 DEF OfThePast
<1>10. ASSUME NEW q \in Online'
       PROVE  CountOf(q)' /\ (Countable /\ setBacks' = 0 => CountDownOf(q)')
  <2>1. CASE q = p
    <3>1. Exact(q)' = 0 /\ reports'[q] = 0 /\ reported'[q] = 0 /\ moved'[q] = 0
      BY <1>2, <1>3, <1>4, <1>7, <2>1 DEF Exact, Upto
    <3> QED
      BY <3>1, CountBegins DEF CountOf, CountDownOf
  <2>2. CASE q # p /\ q \in Online
    <3>1. q \in Player
      BY <2>2 DEF Online
    <3>2. Exact(q)' = Exact(q)
      BY <1>2, <1>7, <2>2, <3>1 DEF Exact, Upto
    <3> QED
      BY <1>2, <1>7, <2>2, <3>1, <3>2, CountKept
  <2> QED
    BY <1>5, <2>1, <2>2
<1>11. Paced' /\ OutOfOrderOnlyInTick'
  BY <1>2, TimerStays
<1> QED
  BY <1>6, <1>8, <1>9, <1>10, <1>11 DEF ClockInv, Counted, CountedDown

\* A player goes, and its record with it.
LEMMA LogoutCounts ==
  ASSUME ClockInv, NEW p \in Player, Logout(p)
  PROVE  ClockInv'
<1>1. ClockTypes /\ OncePerRun
  BY DEF ClockInv
<1>2. /\ ~inTimer /\ last_time' = [last_time EXCEPT ![p] = -1]
      /\ UNCHANGED <<born, reported, reports, moved, now, cur_time, __timestamp, next_time,
                     last_treat_timer, firstTime, inTimer, elapsed_ms, log, calls, setBacks, todo,
                     attack>>
      /\ UNCHANGED timerVars
  BY DEF Logout, timerVars, clockVars, periodVars, history
<1>3. todo = {} /\ attack = {}
  BY <1>1, <1>2, ClockFunctions
<1>4. \A q \in Online' : q # p /\ q \in Online /\ last_time'[q] = last_time[q]
  BY <1>1, <1>2, ClockFunctions DEF Online
<1>5. ClockTypes'
  <2>1. last_time' \in [Player -> Time \cup {-1}]
    BY <1>1, <1>2, ClockFunctions
  <2>2. TimerTypeOK'
    BY <1>1, <1>2, ClockFunctions, TimerTypesStay
  <2> QED
    BY <1>1, <1>2, <1>3, <2>1, <2>2, ClockFunctions, TypesAgain
<1>6. OncePerRun'
  BY <1>1, <1>2 DEF OncePerRun
<1>7. ASSUME setBacks' = 0 PROVE OfThePast'
  BY <1>2, <1>4, <1>7 DEF ClockInv, OfThePast, RecordOfThePast, LogOfThePast
<1>8. ASSUME NEW q \in Online'
      PROVE  CountOf(q)' /\ (Countable /\ setBacks' = 0 => CountDownOf(q)')
  <2>1. Exact(q)' = Exact(q) /\ q \in Online
    BY <1>2, <1>3, <1>4 DEF Exact, Upto
  <2> QED
    BY <1>2, <2>1, CountKept
<1>9. Paced' /\ OutOfOrderOnlyInTick'
  BY <1>2, TimerStays
<1> QED
  BY <1>5, <1>6, <1>7, <1>8, <1>9 DEF ClockInv, Counted, CountedDown

\* A player is reported: what has passed since its last report is added.
LEMMA ReportCounts ==
  ASSUME ClockInv, NEW p \in Player, Report(p)
  PROVE  ClockInv'
<1> DEFINE d == cur_time - last_time[p]
           s == (reported[p] + Milliseconds(d)) % W
<1>1. ClockTypes /\ OncePerRun
  BY DEF ClockInv
<1>2. /\ p \in todo /\ attack = {} /\ attack' = {p}
      /\ reported' = [reported EXCEPT ![p] = s] /\ reports' = [reports EXCEPT ![p] = @ + 1]
      /\ UNCHANGED <<last_time, born, moved, now, cur_time, __timestamp, next_time,
                     last_treat_timer, firstTime, inTimer, elapsed_ms, log, calls, setBacks, todo>>
      /\ UNCHANGED timerVars
  BY DEF Report, ReportedMs, timerVars, clockVars, periodVars
<1>3. /\ cur_time \in 0 .. MaxTime /\ W \in Nat \ {0} /\ MaxCalls \in Nat /\ MaxTime \in Nat
      /\ calls \in 0 .. MaxCalls /\ calls \in Nat
      /\ \A q \in Player :
           /\ last_time[q] \in Int /\ born[q] \in 0 .. MaxTime /\ reported[q] \in 0 .. W - 1
           /\ reports[q] \in Nat /\ moved[q] \in Int /\ Exact(q) \in Int
  BY <1>1, ClockTypesAre
<1>4. inTimer /\ p \in Online /\ Online' = Online /\ Online \subseteq Player
  BY <1>1, <1>2, ClockFunctions DEF Online
<1>5. d \in Int /\ Milliseconds(d) \in Int
  BY <1>3, MillisecondsRound
<1> HIDE DEF d
<1>6. s \in 0 .. W - 1 /\ reported[p] \in Nat
  <2>1. PICK m \in Int : m = Milliseconds(d)
    BY <1>5
  <2>2. reported[p] + m \in Int /\ reported[p] \in Nat
    BY <1>3, <2>1
  <2>3. (reported[p] + m) % W \in 0 .. W - 1
    BY <1>3, <2>2, Division
  <2> QED
    BY <2>1, <2>2, <2>3
<1> HIDE DEF s
<1>7. \A q \in Player : /\ q # p => reported'[q] = reported[q] /\ reports'[q] = reports[q]
                        /\ q = p => reported'[q] = s /\ reports'[q] = reports[q] + 1
  BY <1>1, <1>2, ClockFunctions
<1>8. reports[p] + 1 <= calls
  BY <1>1, <1>2 DEF OncePerRun
<1>9. ClockTypes'
  <2>1. reported' \in [Player -> 0 .. W - 1]
    BY <1>1, <1>2, <1>6, ClockFunctions
  <2>2. reports[p] + 1 \in 0 .. MaxCalls
    BY <1>3, <1>8
  <2>3. reports' \in [Player -> 0 .. MaxCalls]
    BY <1>1, <1>2, <2>2, ClockFunctions
  <2>4. TimerTypeOK'
    BY <1>1, <1>2, ClockFunctions, TimerTypesStay
  <2>5. /\ last_time' \in [Player -> Time \cup {-1}] /\ todo' \subseteq Online'
        /\ attack' \subseteq todo' /\ (todo' # {} => inTimer') /\ (\A x, y \in attack' : x = y)
        /\ born' \in [Player -> Time] /\ moved' \in [Player -> Int]
    BY <1>1, <1>2, <1>4, ClockFunctions
  <2> QED
    BY <2>1, <2>3, <2>4, <2>5, TypesAgain
<1>10. OncePerRun'
  BY <1>1, <1>2, <1>7, <1>8 DEF OncePerRun
<1>11. ASSUME setBacks' = 0 PROVE OfThePast'
  BY <1>2, <1>4, <1>11 DEF ClockInv, OfThePast, RecordOfThePast, LogOfThePast
<1>12. CountOf(p)' /\ (Countable /\ setBacks' = 0 => CountDownOf(p)')
  <2>1. Exact(p)' = Exact(p) + d
    <3>1. Exact(p)' = cur_time - born[p] - moved[p] /\ Exact(p) = last_time[p] - born[p] - moved[p]
      BY <1>2 DEF Exact, Upto
    <3> QED
      BY <1>3, <3>1 DEF d
  <2>2. CountOf(p) /\ (Countable /\ setBacks = 0 => CountDownOf(p))
    BY <1>4 DEF ClockInv, Counted, CountedDown
  <2>3. CountOf(p)'
    <3>1. AddsUp(Exact(p) + d, reports[p] + 1, s)
      BY <1>3, <1>5, <2>2, AddsUpMore DEF CountOf, s
    <3> QED
      BY <1>7, <2>1, <3>1 DEF CountOf, AddsUp
  <2>4. ASSUME Countable, setBacks = 0 PROVE CountDownOf(p)'
    <3>1. RecordOfThePast(p)
      BY <1>4, <2>4 DEF ClockInv, OfThePast
    <3>2. d \in Nat
      BY <1>3, <1>4, <3>1 DEF d, RecordOfThePast
    <3>3. moved[p] >= 0 /\ RoundedDown(Exact(p), reports[p], reported[p])
      BY <2>2, <2>4 DEF CountDownOf
    <3>4. Exact(p) + d <= MaxTime
      <4>1. Exact(p) + d = cur_time - born[p] - moved[p]
        BY <1>2, <2>1 DEF Exact, Upto
      <4> QED
        BY <1>3, <3>3, <4>1
    <3>5. RoundedDown(Exact(p) + d, reports[p] + 1, s)
      BY <1>3, <1>6, <2>4, <3>2, <3>3, <3>4, RoundedDownMore DEF s
    <3> QED
      BY <1>2, <1>7, <2>1, <3>3, <3>5 DEF CountDownOf, RoundedDown
  <2> QED
    BY <1>2, <2>3, <2>4
<1>13. ASSUME NEW q \in Online'
       PROVE  CountOf(q)' /\ (Countable /\ setBacks' = 0 => CountDownOf(q)')
  <2>1. CASE q # p
    <3>1. Exact(q)' = Exact(q) /\ q \in Online /\ q \in Player
      BY <1>2, <1>4, <2>1 DEF Exact, Upto
    <3> QED
      BY <1>2, <1>7, <2>1, <3>1, CountKept
  <2> QED
    BY <1>12, <2>1
<1>14. Paced' /\ OutOfOrderOnlyInTick'
  BY <1>2, TimerStays
<1> QED
  BY <1>9, <1>10, <1>11, <1>13, <1>14 DEF ClockInv, Counted, CountedDown

\* A hook reads the clock for a message.
LEMMA ClockRead ==
  ASSUME ClockInv, MessageNow
  PROVE  /\ cur_time' = now /\ TimerTypeOK' /\ OutOfOrderOnlyInTick'
         /\ UNCHANGED <<now, __timestamp, next_time, last_treat_timer, firstTime, elapsed_ms,
                        inTimer, calls, setBacks>>
         /\ setBacks = 0 => LogOfThePast'
<1>1. /\ Message(now \div Ms, TRUE) /\ cur_time' = now
      /\ UNCHANGED <<now, __timestamp, next_time, last_treat_timer, firstTime, elapsed_ms,
                     inTimer, calls, setBacks>>
  BY DEF MessageNow, ReadClock, periodVars
<1>2. now \div Ms \in Nat
  BY ClockTypesAre DEF ClockInv
<1>3. /\ log' \in Seq(Stamp) /\ (setBacks > 0 => log' = <<>>)
      /\ setBacks = 0 => LogOfThePast'
      /\ OutOfOrderOnlyInTick'
  BY <1>1, <1>2, MessageKept
<1>4. TimerTypeOK'
  <2>1. TimerTypeOK
    BY ClockFunctions DEF ClockInv
  <2> QED
    BY <1>1, <1>3, <2>1 DEF TimerTypeOK, Stamp, Time
<1> QED
  BY <1>1, <1>3, <1>4

\* The records stay, and those that attack have their times counted to now.
LEMMA RecordsStay ==
  ASSUME ClockTypes, TimerTypeOK', inTimer' = inTimer, calls' = calls,
         UNCHANGED <<last_time, todo, attack, born, reported, reports>>,
         moved' \in [Player -> Int]
  PROVE  ClockTypes' /\ (OncePerRun => OncePerRun') /\ Online' = Online
         /\ Online \subseteq Player
<1>1. Online' = Online
  BY DEF Online
<1>2. ClockTypes'
  BY <1>1, ClockFunctions, TypesAgain
<1> QED
  BY <1>1, <1>2, ClockFunctions DEF OncePerRun

\* What an attack moves cur_time by is not reported.
LEMMA AttackCounts ==
  ASSUME ClockInv, NEW p \in Player, Attacked(p)
  PROVE  ClockInv'
<1>1. ClockTypes /\ OncePerRun
  BY DEF ClockInv
<1>2. /\ p \in attack /\ MessageNow
      /\ moved' = [moved EXCEPT ![p] = @ + now - cur_time]
      /\ UNCHANGED <<last_time, todo, attack, born, reported, reports>>
  BY DEF Attacked, recordVars
<1>3. /\ cur_time' = now /\ TimerTypeOK' /\ OutOfOrderOnlyInTick'
      /\ UNCHANGED <<now, __timestamp, next_time, last_treat_timer, firstTime, elapsed_ms,
                     inTimer, calls, setBacks>>
      /\ setBacks = 0 => LogOfThePast'
  BY <1>2, ClockRead
<1>4. /\ cur_time \in 0 .. MaxTime /\ now \in 0 .. MaxTime /\ MaxTime \in Nat
      /\ \A q \in Player : last_time[q] \in Int /\ born[q] \in 0 .. MaxTime /\ moved[q] \in Int
  BY <1>1, ClockTypesAre
<1>5. cur_time \in Int /\ now \in Int
  BY <1>4
<1>6. /\ moved' \in [Player -> Int]
      /\ moved'[p] = moved[p] + now - cur_time
      /\ \A q \in Player : q # p => moved'[q] = moved[q]
  BY <1>1, <1>2, <1>4, <1>5, ClockFunctions
<1>7. ClockTypes' /\ OncePerRun' /\ Online' = Online /\ Online \subseteq Player
  BY <1>1, <1>2, <1>3, <1>6, RecordsStay
<1>8. Paced'
  BY <1>3 DEF ClockInv, Paced
<1>9. ASSUME setBacks' = 0 PROVE OfThePast'
  <2>1. OfThePast /\ setBacks = 0
    BY <1>3, <1>9 DEF ClockInv
  <2>2. cur_time' <= now' /\ __timestamp' <= (now \div Ms)'
    BY <1>3, <1>5, <2>1 DEF OfThePast
  <2>3. ASSUME NEW q \in Online' PROVE RecordOfThePast(q)'
    BY <1>2, <1>3, <1>7, <2>1 DEF OfThePast, RecordOfThePast
  <2> QED
    BY <1>3, <2>1, <2>2, <2>3 DEF OfThePast
<1>10. ASSUME NEW q \in Online'
       PROVE  CountOf(q)' /\ (Countable /\ setBacks' = 0 => CountDownOf(q)')
  <2>1. q \in Online /\ q \in Player
    BY <1>7
  <2>2. CASE q = p
    <3>1. /\ Exact(q)' = now - born[q] - moved'[q]
          /\ Exact(q) = cur_time - born[q] - moved[q]
      BY <1>2, <1>3, <2>2 DEF Exact, Upto
    <3>2. Exact(q)' = Exact(q)
      BY <1>4, <1>5, <1>6, <2>1, <2>2, <3>1
    <3>3. setBacks = 0 /\ moved[q] >= 0 => moved'[q] >= 0
      BY <1>4, <1>5, <1>6, <2>1, <2>2 DEF ClockInv, OfThePast
    <3> QED
      BY <1>2, <1>3, <2>1, <3>2, <3>3, CountKept
  <2>3. CASE q # p
    <3>1. q \notin attack
      BY <1>1, <1>2, <2>3, ClockFunctions
    <3>2. Exact(q)' = Exact(q)
      BY <1>2, <1>6, <2>1, <2>3, <3>1 DEF Exact, Upto
    <3> QED
      BY <1>2, <1>3, <1>6, <2>1, <2>3, <3>2, CountKept
  <2> QED
    BY <2>2, <2>3
<1> QED
  BY <1>3, <1>7, <1>8, <1>9, <1>10 DEF ClockInv, Counted, CountedDown

\* The report ends with the time that it has been counted to.
LEMMA ReportedCounts ==
  ASSUME ClockInv, NEW p \in Player, Reported(p)
  PROVE  ClockInv'
<1>1. ClockTypes /\ OncePerRun
  BY DEF ClockInv
<1>2. /\ p \in attack /\ last_time' = [last_time EXCEPT ![p] = cur_time]
      /\ todo' = todo \ {p} /\ attack' = {}
      /\ UNCHANGED <<born, reported, reports, moved, now, cur_time, __timestamp, next_time,
                     last_treat_timer, firstTime, inTimer, elapsed_ms, log, calls, setBacks>>
      /\ UNCHANGED timerVars
  BY DEF Reported, timerVars, clockVars, periodVars, history
<1>3. cur_time \in 0 .. MaxTime /\ cur_time \in Time /\ cur_time >= 0 /\ cur_time \in Int
  BY <1>1, ClockTypesAre DEF Time
<1>4. attack = {p} /\ p \in todo /\ p \in Online /\ inTimer
  BY <1>1, <1>2, ClockFunctions
<1>5. /\ \A q \in Player : q # p => last_time'[q] = last_time[q]
      /\ last_time'[p] = cur_time
  BY <1>1, <1>2, ClockFunctions
<1>6. Online' = Online /\ Online \subseteq Player
  BY <1>3, <1>4, <1>5 DEF Online
<1>7. ClockTypes'
  <2>1. last_time' \in [Player -> Time \cup {-1}]
    BY <1>1, <1>2, <1>3, ClockFunctions
  <2>2. TimerTypeOK'
    BY <1>1, <1>2, ClockFunctions, TimerTypesStay
  <2>3. /\ born' \in [Player -> Time] /\ reported' \in [Player -> 0 .. W - 1]
        /\ reports' \in [Player -> 0 .. MaxCalls] /\ moved' \in [Player -> Int]
    BY <1>1, <1>2, ClockFunctions
  <2>4. /\ todo' \subseteq Online' /\ attack' \subseteq todo' /\ (todo' # {} => inTimer')
        /\ \A x, y \in attack' : x = y
    BY <1>1, <1>2, <1>4, <1>6, ClockFunctions
  <2> QED
    BY <2>1, <2>2, <2>3, <2>4, TypesAgain
<1>8. OncePerRun'
  BY <1>1, <1>2, <1>4 DEF OncePerRun
<1>9. ASSUME setBacks' = 0 PROVE OfThePast'
  <2>1. OfThePast
    BY <1>2, <1>9 DEF ClockInv
  <2>2. LogOfThePast'
    BY <1>2, <2>1 DEF OfThePast, LogOfThePast
  <2>3. ASSUME NEW q \in Online' PROVE RecordOfThePast(q)'
    <3>1. q \in Online /\ q \in Player /\ RecordOfThePast(q)
      BY <1>6, <2>1 DEF OfThePast
    <3>2. CASE q = p
      <4>1. born[p] \in Int /\ last_time[p] \in Int
        BY <1>1, <3>1, <3>2, ClockTypesAre
      <4>2. born[p] <= last_time[p] /\ last_time[p] <= cur_time /\ cur_time <= now
        BY <1>4, <2>1, <3>1, <3>2 DEF OfThePast, RecordOfThePast
      <4> QED
        BY <1>2, <1>3, <1>5, <3>2, <4>1, <4>2 DEF RecordOfThePast
    <3>3. CASE q # p
      BY <1>2, <1>5, <3>1, <3>3 DEF RecordOfThePast
    <3> QED
      BY <3>2, <3>3
  <2> QED
    BY <1>2, <2>1, <2>2, <2>3 DEF OfThePast
<1>10. ASSUME NEW q \in Online'
       PROVE  CountOf(q)' /\ (Countable /\ setBacks' = 0 => CountDownOf(q)')
  <2>1. q \in Online /\ q \in Player
    BY <1>6
  <2>2. Exact(q)' = Exact(q)
    <3>1. CASE q = p
      BY <1>2, <1>5, <3>1 DEF Exact, Upto
    <3>2. CASE q # p
      BY <1>2, <1>4, <1>5, <2>1, <3>2 DEF Exact, Upto
    <3> QED
      BY <3>1, <3>2
  <2> QED
    BY <1>2, <2>1, <2>2, CountKept
<1>11. Paced' /\ OutOfOrderOnlyInTick'
  BY <1>2, TimerStays
<1> QED
  BY <1>7, <1>8, <1>9, <1>10, <1>11 DEF ClockInv, Counted, CountedDown

\* The timer is called: those that are online will be reported if its time is over.
LEMMA CallbacksBeginCounts ==
  ASSUME ClockInv, CallbacksBegin
  PROVE  ClockInv'
<1>1. ClockTypes /\ OncePerRun
  BY DEF ClockInv
<1>2. /\ ~inTimer /\ calls < MaxCalls
      /\ cur_time' = now /\ __timestamp' = now \div Ms /\ calls' = calls + 1
      /\ UNCHANGED <<now, log, setBacks, last_time, attack, born, reported, reports, moved>>
  BY DEF CallbacksBegin, TimerCall, history
<1>3. \/ /\ next_time' = now + Interval * Ms /\ last_treat_timer' = now /\ inTimer' = TRUE
         /\ firstTime' = FALSE
         /\ elapsed_ms' = IF firstTime THEN 0 ELSE Milliseconds(now - last_treat_timer)
      \/ /\ UNCHANGED <<next_time, last_treat_timer, firstTime, elapsed_ms>> /\ inTimer' = FALSE
  BY DEF CallbacksBegin, TimerCall, NextTime, periodVars
<1>4. todo' = IF inTimer' THEN Online ELSE {}
  <2>1. todo' = IF inTimer' THEN Online ELSE {}
    BY DEF CallbacksBegin
  <2> QED
    BY <2>1
<1>5. todo = {} /\ attack = {}
  BY <1>1, <1>2, ClockFunctions
<1>6. Online' = Online /\ Online \subseteq Player
  BY <1>1, <1>2, ClockFunctions DEF Online
<1>7. /\ Ms \in Nat \ {0} /\ Interval \in Nat \ {0} /\ MaxTime \in Nat /\ MaxCalls \in Nat
      /\ now \in 0 .. MaxTime /\ last_treat_timer \in 0 .. MaxTime /\ next_time \in Nat
      /\ calls \in Nat /\ now \div Ms \in Nat /\ cur_time \in 0 .. MaxTime
      /\ \A q \in Player : reports[q] \in Nat /\ last_time[q] \in Int
  BY <1>1, ClockTypesAre
<1>8. TimerTypeOK'
  <2>1. TimerTypeOK
    BY <1>1, ClockFunctions
  <2>2. Interval * Ms \in Nat /\ Milliseconds(now - last_treat_timer) \in Int
    BY <1>7, MillisecondsRound
  <2>3. /\ {now, cur_time, last_treat_timer}' \subseteq Time
    BY <1>2, <1>3, <1>7 DEF Time
  <2>4. next_time' \in Nat
    BY <1>3, <1>7, <2>2
  <2>5. elapsed_ms' \in Int
    BY <1>3, <2>1, <2>2 DEF TimerTypeOK
  <2>6. firstTime' \in BOOLEAN /\ inTimer' \in BOOLEAN
    BY <1>3, <2>1 DEF TimerTypeOK
  <2>7. __timestamp' \in Nat /\ calls' \in 0 .. MaxCalls
    BY <1>2, <1>7
  <2>8. /\ log' \in Seq(Stamp) /\ (setBacks' > 0 => log' = <<>>)
        /\ setBacks' \in 0 .. MaxSetBacks
    BY <1>2, <2>1 DEF TimerTypeOK, Stamp
  <2> QED
    BY <2>3, <2>4, <2>5, <2>6, <2>7, <2>8 DEF TimerTypeOK, Stamp, Time
<1>9. ClockTypes'
  <2>1. todo' \subseteq Online' /\ (todo' # {} => inTimer')
    BY <1>4, <1>6
  <2>2. attack' \subseteq todo' /\ (\A p, q \in attack' : p = q)
    BY <1>2, <1>5
  <2>3. /\ last_time' \in [Player -> Time \cup {-1}] /\ born' \in [Player -> Time]
        /\ reported' \in [Player -> 0 .. W - 1] /\ reports' \in [Player -> 0 .. MaxCalls]
        /\ moved' \in [Player -> Int]
    BY <1>1, <1>2, ClockFunctions
  <2> QED
    BY <1>8, <2>1, <2>2, <2>3, TypesAgain
<1>10. OncePerRun'
  <2> SUFFICES ASSUME NEW q \in Player PROVE reports'[q] <= calls' /\ reports'[q] + 1 <= calls'
    BY DEF OncePerRun
  <2>1. reports[q] <= calls /\ reports[q] \in Nat
    BY <1>1, <1>7 DEF OncePerRun
  <2> QED
    BY <1>2, <1>7, <2>1
<1>11. Paced'
  <2>1. CASE next_time' = now + Interval * Ms /\ last_treat_timer' = now
    BY <2>1 DEF Paced
  <2>2. CASE UNCHANGED <<next_time, last_treat_timer, firstTime>>
    BY <2>2 DEF ClockInv, Paced
  <2> QED
    BY <1>3, <2>1, <2>2
<1>12. ASSUME setBacks' = 0 PROVE OfThePast'
  <2>1. OfThePast
    BY <1>2, <1>12 DEF ClockInv
  <2>2. LogOfThePast'
    BY <1>2, <2>1 DEF OfThePast, LogOfThePast
  <2>3. ASSUME NEW q \in Online' PROVE RecordOfThePast(q)'
    BY <1>2, <1>6, <2>1 DEF OfThePast, RecordOfThePast
  <2> QED
    BY <1>2, <1>7, <2>2, <2>3 DEF OfThePast
<1>13. ASSUME NEW q \in Online'
       PROVE  CountOf(q)' /\ (Countable /\ setBacks' = 0 => CountDownOf(q)')
  <2>1. Exact(q)' = Exact(q) /\ q \in Online
    BY <1>2, <1>5, <1>6 DEF Exact, Upto
  <2> QED
    BY <1>2, <2>1, CountKept
<1>14. OutOfOrderOnlyInTick'
  BY <1>2 DEF ClockInv, OutOfOrderOnlyInTick
<1> QED
  BY <1>9, <1>10, <1>11, <1>12, <1>13, <1>14 DEF ClockInv, Counted, CountedDown

\* The records and the times in them stay, and no dino has attacked.
LEMMA CountsStay ==
  ASSUME ClockInv, setBacks' = 0 => setBacks = 0, attack = {} \/ cur_time' = cur_time,
         UNCHANGED <<last_time, attack, born, reported, reports, moved>>
  PROVE  Counted' /\ (Countable /\ setBacks' = 0 => CountedDown')
<1>1. ASSUME NEW q \in Online'
      PROVE  CountOf(q)' /\ (Countable /\ setBacks' = 0 => CountDownOf(q)')
  <2>1. Exact(q)' = Exact(q) /\ q \in Online
    BY DEF Exact, Upto, Online
  <2> QED
    BY <2>1, CountKept
<1> QED
  BY <1>1 DEF Counted, CountedDown

\* The timer ends.
LEMMA CallbacksEndCounts ==
  ASSUME ClockInv, CallbacksEnd
  PROVE  ClockInv'
<1>1. ClockTypes /\ OncePerRun
  BY DEF ClockInv
<1>2. /\ todo = {} /\ inTimer' = FALSE
      /\ UNCHANGED <<last_time, todo, attack, born, reported, reports, moved, now, cur_time,
                     __timestamp, next_time, last_treat_timer, firstTime, elapsed_ms, log, calls,
                     setBacks>>
  BY DEF CallbacksEnd, TimerEnds, clockVars, periodVars,
         recordVars, history
<1>3. Online' = Online
  BY <1>2 DEF Online
<1>4. ClockTypes'
  <2>1. TimerTypeOK'
    <3>1. TimerTypeOK
      BY <1>1, ClockFunctions
    <3> QED
      BY <1>2, <3>1 DEF TimerTypeOK, Stamp, Time
  <2>2. /\ last_time' \in [Player -> Time \cup {-1}] /\ todo' \subseteq Online'
        /\ attack' \subseteq todo' /\ todo' = {} /\ (\A p, q \in attack' : p = q)
        /\ born' \in [Player -> Time] /\ reported' \in [Player -> 0 .. W - 1]
        /\ reports' \in [Player -> 0 .. MaxCalls] /\ moved' \in [Player -> Int]
    BY <1>1, <1>2, <1>3, ClockFunctions
  <2> QED
    BY <2>1, <2>2, TypesAgain
<1>5. OncePerRun'
  BY <1>1, <1>2 DEF OncePerRun
<1>6. ASSUME setBacks' = 0 PROVE OfThePast'
  BY <1>2, <1>3, <1>6 DEF ClockInv, OfThePast, RecordOfThePast, LogOfThePast
<1>7. Counted' /\ (Countable /\ setBacks' = 0 => CountedDown')
  BY <1>2, CountsStay
<1>8. Paced' /\ OutOfOrderOnlyInTick'
  BY <1>2, TimerStays
<1> QED
  BY <1>4, <1>5, <1>6, <1>7, <1>8 DEF ClockInv

\* A message of another module.
LEMMA ElsewhereCounts ==
  ASSUME ClockInv, Elsewhere
  PROVE  ClockInv'
<1>1. ClockTypes /\ OncePerRun
  BY DEF ClockInv
<1>2. UNCHANGED <<last_time, todo, attack, born, reported, reports, moved>>
  BY DEF Elsewhere, recordVars, history
<1>3. /\ TimerTypeOK' /\ OutOfOrderOnlyInTick'
      /\ UNCHANGED <<now, __timestamp, next_time, last_treat_timer, firstTime, inTimer, calls,
                     setBacks>>
      /\ setBacks = 0 => LogOfThePast'
      /\ cur_time' = cur_time \/ (attack = {} /\ cur_time' = now)
  <2>1. CASE MessageCached
    <3>1. /\ Message(__timestamp, FALSE)
          /\ UNCHANGED <<now, cur_time, __timestamp, next_time, last_treat_timer, firstTime,
                         elapsed_ms, inTimer, calls, setBacks>>
      BY <2>1 DEF MessageCached, clockVars, periodVars
    <3>2. __timestamp \in Nat
      BY <1>1, ClockTypesAre
    <3>3. /\ log' \in Seq(Stamp) /\ (setBacks > 0 => log' = <<>>)
          /\ setBacks = 0 => LogOfThePast'
          /\ OutOfOrderOnlyInTick'
      BY <3>1, <3>2, MessageKept
    <3>4. TimerTypeOK
      BY <1>1, ClockFunctions
    <3>5. TimerTypeOK'
      BY <3>1, <3>3, <3>4 DEF TimerTypeOK, Stamp, Time
    <3> QED
      BY <3>1, <3>3, <3>5
  <2>2. CASE attack = {} /\ MessageNow
    BY <2>2, ClockRead
  <2> QED
    BY <2>1, <2>2 DEF Elsewhere
<1>4. ClockTypes' /\ OncePerRun' /\ Online' = Online /\ Online \subseteq Player
  <2>1. moved' \in [Player -> Int]
    BY <1>1, <1>2, ClockFunctions
  <2> QED
    BY <1>1, <1>2, <1>3, <2>1, RecordsStay
<1>5. ASSUME setBacks' = 0 PROVE OfThePast'
  <2>1. OfThePast
    BY <1>3, <1>5 DEF ClockInv
  <2>2. now \in Int /\ now \div Ms \in Nat
    BY <1>1, ClockTypesAre
  <2>3. cur_time' <= now' /\ __timestamp' <= (now \div Ms)'
    BY <1>3, <2>1, <2>2 DEF OfThePast
  <2>4. ASSUME NEW q \in Online' PROVE RecordOfThePast(q)'
    BY <1>2, <1>3, <1>4, <2>1 DEF OfThePast, RecordOfThePast
  <2> QED
    BY <1>3, <1>5, <2>3, <2>4 DEF OfThePast
<1>6. Counted' /\ (Countable /\ setBacks' = 0 => CountedDown')
  BY <1>2, <1>3, CountsStay
<1>7. Paced'
  BY <1>3 DEF ClockInv, Paced
<1> QED
  BY <1>3, <1>4, <1>5, <1>6, <1>7 DEF ClockInv

\* Time passes, or the clock is set back.
LEMMA TimePassesCounts ==
  ASSUME ClockInv, TimePasses
  PROVE  ClockInv'
<1>1. ClockTypes /\ OncePerRun
  BY DEF ClockInv
<1>2. UNCHANGED <<last_time, todo, attack, born, reported, reports, moved, cur_time, __timestamp,
                  next_time, last_treat_timer, firstTime, elapsed_ms, inTimer, calls>>
  BY DEF TimePasses, Advance, SetBack, clockVars, periodVars,
         recordVars, history
<1>3. /\ now \in 0 .. MaxTime /\ MaxTime \in Nat /\ __timestamp \in Nat /\ cur_time \in Int
      /\ Ms \in Nat \ {0} /\ now \div Ms \in Nat
      /\ \A q \in Player : last_time[q] \in Int
  BY <1>1, ClockTypesAre
<1>4. /\ setBacks \in 0 .. MaxSetBacks /\ log \in Seq(Stamp) /\ MaxSetBacks \in Nat
      /\ (setBacks > 0 => log = <<>>)
  BY <1>1, ClockFunctions, TimerAssumption DEF TimerTypeOK
<1>5. /\ now' \in 0 .. MaxTime /\ setBacks' \in 0 .. MaxSetBacks
      /\ \/ now' = now + 1 /\ log' = log /\ setBacks' = setBacks
         \/ log' = <<>> /\ setBacks' = setBacks + 1 /\ setBacks' # 0
  <2>1. CASE Advance
    BY <1>3, <1>4, <2>1 DEF Advance
  <2>2. ASSUME NEW t \in Time, SetBack(t)
        PROVE  /\ now' \in 0 .. MaxTime /\ setBacks' \in 0 .. MaxSetBacks
               /\ log' = <<>> /\ setBacks' = setBacks + 1 /\ setBacks' # 0
    BY <1>4, <2>2 DEF SetBack, Time
  <2> QED
    BY <2>1, <2>2 DEF TimePasses
<1>6. log' \in Seq(Stamp) /\ (setBacks' > 0 => log' = <<>>)
  <2>1. CASE log' = log /\ setBacks' = setBacks
    BY <1>4, <2>1
  <2>2. CASE log' = <<>>
    BY <2>2
  <2> QED
    BY <1>5, <2>1, <2>2
<1>7. TimerTypeOK'
  <2>1. TimerTypeOK
    BY <1>1, ClockFunctions
  <2> QED
    BY <1>2, <1>5, <1>6, <2>1 DEF TimerTypeOK, Stamp, Time
<1>8. ClockTypes' /\ OncePerRun' /\ Online' = Online /\ Online \subseteq Player
  <2>1. moved' \in [Player -> Int]
    BY <1>1, <1>2, ClockFunctions
  <2> QED
    BY <1>1, <1>2, <1>7, <2>1, RecordsStay
<1>9. Paced'
  BY <1>2 DEF ClockInv, Paced
<1>10. ASSUME setBacks' = 0 PROVE OfThePast'
  <2>1. now' = now + 1 /\ log' = log /\ setBacks = 0
    BY <1>5, <1>10
  <2>2. OfThePast
    BY <2>1 DEF ClockInv
  <2>3. (now \div Ms)' \in Nat /\ now \div Ms <= (now \div Ms)'
    <3>1. now' \div Ms \in Nat
      <4>1. now' \in Nat
        BY <1>3, <1>5
      <4> QED
        BY <1>3, <4>1, DivisionNat
    <3>2. now \in Int /\ now' \in Int /\ now <= now'
      BY <1>3, <2>1
    <3>3. now \div Ms <= now' \div Ms
      BY <1>3, <3>2, LaterDivides
    <3> QED
      BY <3>1, <3>3
  <2>4. cur_time' <= now' /\ __timestamp' <= (now \div Ms)'
    BY <1>2, <1>3, <2>1, <2>2, <2>3 DEF OfThePast
  <2>5. ASSUME NEW q \in Online' PROVE RecordOfThePast(q)'
    BY <1>2, <1>3, <1>8, <2>1, <2>2 DEF OfThePast, RecordOfThePast
  <2>6. LogOfThePast'
    <3> SUFFICES ASSUME NEW i \in DOMAIN log
                 PROVE  /\ log[i].ms <= (now \div Ms)'
                        /\ log[i].ms <= __timestamp \/ (log[i].immediate /\ log[i].calls = calls)
      BY <1>2, <2>1 DEF LogOfThePast
    <3>1. log[i].ms \in Nat
      <4>1. log[i] \in Stamp
        BY <1>4
      <4> QED
        BY <4>1 DEF Stamp
    <3>2. /\ log[i].ms <= now \div Ms
          /\ log[i].ms <= __timestamp \/ (log[i].immediate /\ log[i].calls = calls)
      BY <2>2 DEF OfThePast, LogOfThePast
    <3> QED
      BY <1>3, <2>3, <3>1, <3>2
  <2> QED
    BY <2>4, <2>5, <2>6 DEF OfThePast
<1>11. OutOfOrderOnlyInTick'
  <2>1. CASE log' = log
    BY <2>1 DEF ClockInv, OutOfOrderOnlyInTick
  <2>2. CASE log' = <<>>
    BY <2>2 DEF OutOfOrderOnlyInTick
  <2> QED
    BY <1>5, <2>1, <2>2
<1>12. Counted' /\ (Countable /\ setBacks' = 0 => CountedDown')
  <2>1. setBacks' = 0 => setBacks = 0
    BY <1>5
  <2> QED
    BY <1>2, <2>1, CountsStay
<1> QED
  BY <1>8, <1>9, <1>10, <1>11, <1>12 DEF ClockInv

\* The plugin begins again, with records of now.
LEMMA LoadAgainCounts ==
  ASSUME ClockInv, LoadAgain
  PROVE  ClockInv'
<1>1. ClockTypes /\ OncePerRun
  BY DEF ClockInv
<1>2. /\ ~inTimer /\ cur_time' = now /\ __timestamp' = now \div Ms
      /\ next_time' = now + Interval * Ms /\ firstTime' = TRUE /\ log' = <<>> /\ calls' = 0
      /\ UNCHANGED <<now, last_treat_timer, inTimer, elapsed_ms, setBacks, todo, attack>>
      /\ todo = {}
  BY DEF LoadAgain, Reload
<1>3. /\ last_time' = [p \in Player |-> IF p \in Online THEN now ELSE -1]
      /\ born' = [p \in Player |-> IF p \in Online THEN now ELSE born[p]]
      /\ reported' = Zero /\ reports' = Zero /\ moved' = Zero
  BY DEF LoadAgain
<1>4. /\ now \in 0 .. MaxTime /\ MaxTime \in Nat /\ W \in Nat \ {0} /\ Ms \in Nat \ {0}
      /\ Interval \in Nat \ {0} /\ MaxCalls \in Nat /\ now \div Ms \in Nat
      /\ \A q \in Player : born[q] \in 0 .. MaxTime
  BY <1>1, ClockTypesAre
<1>5. attack = {}
  BY <1>1, <1>2, ClockFunctions
<1>6. \A q \in Player : /\ last_time'[q] = IF q \in Online THEN now ELSE -1
                        /\ born'[q] = IF q \in Online THEN now ELSE born[q]
                        /\ reported'[q] = 0 /\ reports'[q] = 0 /\ moved'[q] = 0
  BY <1>3 DEF Zero
<1>7. Online' = Online /\ Online \subseteq Player
  <2>1. \A q \in Player : last_time'[q] >= 0 <=> q \in Online
    BY <1>4, <1>6
  <2> QED
    BY <2>1 DEF Online
<1>8. TimerTypeOK'
  <2>1. TimerTypeOK
    BY <1>1, ClockFunctions
  <2>2. next_time' \in Nat
    BY <1>2, <1>4
  <2>3. log' \in Seq(Stamp) /\ calls' \in 0 .. MaxCalls /\ __timestamp' \in Nat
    BY <1>2, <1>4
  <2>4. {now, cur_time, last_treat_timer}' \subseteq Time
    BY <1>2, <2>1 DEF TimerTypeOK
  <2>5. /\ firstTime' \in BOOLEAN /\ inTimer' \in BOOLEAN /\ elapsed_ms' \in Int
        /\ (setBacks' > 0 => log' = <<>>) /\ setBacks' \in 0 .. MaxSetBacks
    BY <1>2, <2>1 DEF TimerTypeOK
  <2> QED
    BY <2>2, <2>3, <2>4, <2>5 DEF TimerTypeOK, Stamp, Time
<1>9. ClockTypes'
  <2>1. last_time' \in [Player -> Time \cup {-1}] /\ born' \in [Player -> Time]
    BY <1>3, <1>4 DEF Time
  <2>2. /\ reported' \in [Player -> 0 .. W - 1] /\ reports' \in [Player -> 0 .. MaxCalls]
        /\ moved' \in [Player -> Int]
    BY <1>3, <1>4 DEF Zero
  <2>3. todo' = {} /\ attack' = {}
    BY <1>2, <1>5
  <2> QED
    BY <1>8, <2>1, <2>2, <2>3, TypesAgain
<1>10. OncePerRun'
  BY <1>2, <1>6 DEF OncePerRun
<1>11. Paced'
  BY <1>2 DEF Paced
<1>12. OfThePast'
  <2>1. LogOfThePast'
    BY <1>2 DEF LogOfThePast
  <2>2. ASSUME NEW q \in Online' PROVE RecordOfThePast(q)'
    BY <1>2, <1>4, <1>6, <1>7 DEF RecordOfThePast
  <2> QED
    BY <1>2, <1>4, <2>1, <2>2 DEF OfThePast
<1>13. OutOfOrderOnlyInTick'
  BY <1>2 DEF OutOfOrderOnlyInTick
<1>14. ASSUME NEW q \in Online' PROVE CountOf(q)' /\ CountDownOf(q)'
  <2>1. Exact(q)' = 0 /\ reports'[q] = 0 /\ reported'[q] = 0 /\ moved'[q] = 0
    BY <1>2, <1>4, <1>5, <1>6, <1>7 DEF Exact, Upto
  <2> QED
    BY <2>1, CountBegins DEF CountOf, CountDownOf
<1> QED
  BY <1>9, <1>10, <1>11, <1>12, <1>13, <1>14 DEF ClockInv, Counted, CountedDown

\* The calls of the hooks, the timer and the clock keep the counts.
LEMMA ClockStep ==
  ASSUME ClockInv, [OnlineTimeNext]_onlineTimeVars
  PROVE  ClockInv'
<1>1. ASSUME NEW p \in Player,
             Login(p) \/ Logout(p) \/ Report(p) \/ Attacked(p)
               \/ Reported(p)
      PROVE  ClockInv'
  BY <1>1, LoginCounts, LogoutCounts, ReportCounts, AttackCounts, ReportedCounts
<1>2. CASE CallbacksBegin \/ CallbacksEnd \/ Elsewhere \/ TimePasses
             \/ LoadAgain
  BY <1>2, CallbacksBeginCounts, CallbacksEndCounts, ElsewhereCounts, TimePassesCounts,
     LoadAgainCounts
<1>3. CASE UNCHANGED onlineTimeVars
  <2>1. /\ UNCHANGED <<last_time, todo, attack, born, reported, reports, moved, now, cur_time,
                       __timestamp, next_time, last_treat_timer, firstTime, inTimer, elapsed_ms,
                       log, calls, setBacks>>
        /\ UNCHANGED timerVars
    BY <1>3 DEF onlineTimeVars, timerVars, clockVars, periodVars,
                recordVars, history
  <2>2. ClockTypes' /\ OncePerRun' /\ Online' = Online
    <3>1. TimerTypeOK' /\ moved' \in [Player -> Int]
      BY <2>1, ClockFunctions, TimerTypesStay DEF ClockInv
    <3> QED
      BY <2>1, <3>1, RecordsStay DEF ClockInv
  <2>3. Paced' /\ OutOfOrderOnlyInTick'
    BY <2>1, TimerStays
  <2>4. setBacks' = 0 => OfThePast'
    BY <2>1, <2>2 DEF ClockInv, OfThePast, RecordOfThePast, LogOfThePast
  <2>5. Counted' /\ (Countable /\ setBacks' = 0 => CountedDown')
    BY <2>1, CountsStay
  <2> QED
    BY <2>2, <2>3, <2>4, <2>5 DEF ClockInv
<1> QED
  BY <1>1, <1>2, <1>3 DEF OnlineTimeNext

\* ClockInv is an invariant.
LEMMA ClockInvariant ==
  OnlineTimeSpec => []ClockInv
<1>1. OnlineTimeInit => ClockInv
  BY ClockInit
<1>2. ClockInv /\ [OnlineTimeNext]_onlineTimeVars => ClockInv'
  BY ClockStep
<1> QED
  BY <1>1, <1>2, PTL DEF OnlineTimeSpec

\* As long as the clock is not set back, a player's reported times are not more than the
\* time since its record was made, and not less by more than the roundings and its attacks;
\* the types hold, and messages are out of order only within a call of the timer
\* (M_online_players.cpp 214-215, 236-257, 312, M_timer.cpp 138-155).
THEOREM OnlineTimeTrue ==
  ASSUME Countable
  PROVE  OnlineTimeSpec => []OnlineTimeInv
<1>1. ClockInv => OnlineTimeInv
  <2> SUFFICES ASSUME ClockInv PROVE OnlineTimeInv
    OBVIOUS
  <2>1. OnlineTimeTypeOK /\ OutOfOrderOnlyInTick
    BY DEF ClockInv, ClockTypes
  <2>2. ASSUME NEW p \in Online \ attack, setBacks = 0
        PROVE  /\ reported[p] * Ms <= last_time[p] - born[p]
               /\ last_time[p] - born[p] <= reported[p] * Ms + moved[p] + reports[p] * (Ms - 1)
    <3>1. moved[p] >= 0 /\ RoundedDown(last_time[p] - born[p] - moved[p], reports[p], reported[p])
      BY <2>2 DEF ClockInv, CountedDown, CountDownOf, Exact, Upto
    <3>2. /\ reported[p] * Ms <= last_time[p] - born[p] - moved[p]
          /\ last_time[p] - born[p] - moved[p] <= reported[p] * Ms + reports[p] * (Ms - 1)
      BY <3>1 DEF RoundedDown
    <3>3. /\ last_time[p] \in Int /\ born[p] \in 0 .. MaxTime /\ reported[p] \in 0 .. W - 1
          /\ reports[p] \in Nat /\ moved[p] \in Int /\ Ms \in Nat \ {0} /\ W \in Nat
          /\ MaxTime \in Nat
      BY ClockTypesAre DEF ClockInv, Online
    <3>4. /\ last_time[p] \in Int /\ born[p] \in Int /\ moved[p] \in Int
          /\ reported[p] * Ms \in Int /\ reports[p] * (Ms - 1) \in Int
      BY <3>3
    <3> QED
      BY ONLY <3>1, <3>2, <3>4
  <2> QED
    BY <2>1, <2>2 DEF OnlineTimeInv, NeverOverstated
<1>2. OnlineTimeSpec => []ClockInv
  BY ClockInvariant
<1> QED
  BY <1>1, <1>2, PTL

\* However the clock is set, a player's reported times add up to the time of its record
\* modulo the width of an unsigned int, but for the roundings and its attacks
\* (M_online_players.cpp 214-215, 312).
THEOREM ReportsAlwaysAddUp ==
  OnlineTimeSpec => []ReportsAddUp
<1>1. ClockInv => ReportsAddUp
  <2> SUFFICES ASSUME ClockInv, NEW p \in Online \ attack
               PROVE  \E r \in -(reports[p] * (Ms - 1)) .. reports[p] * (Ms - 1) :
                        /\ (last_time[p] - born[p] - moved[p] - r) % Ms = 0
                        /\ ((last_time[p] - born[p] - moved[p] - r) \div Ms) % W = reported[p]
    BY DEF ReportsAddUp
  <2>1. Ms \in Nat \ {0} /\ W \in Nat \ {0} /\ Exact(p) \in Int /\ reports[p] \in Nat
    BY ClockTypesAre DEF ClockInv, Online
  <2>2. Exact(p) = last_time[p] - born[p] - moved[p]
    BY DEF Exact, Upto
  <2>3. PICK k \in Int, r \in -(reports[p] * (Ms - 1)) .. reports[p] * (Ms - 1) :
               Exact(p) = k * Ms + r /\ k % W = reported[p]
    BY DEF ClockInv, Counted, CountOf, AddsUp
  <2>4. (Exact(p) - r) \div Ms = k /\ (Exact(p) - r) % Ms = 0
    <3>1. PICK z \in Int : z = 0
      OBVIOUS
    <3>2. k * Ms \in Int /\ r \in Int /\ z \in 0 .. Ms - 1
      BY <2>1, <3>1
    <3>3. Exact(p) - r = k * Ms + z /\ Exact(p) - r \in Int
      BY ONLY <2>1, <2>3, <3>1, <3>2
    <3>4. (Exact(p) - r) \div Ms = k /\ (Exact(p) - r) % Ms = z
      BY ONLY <2>1, <3>2, <3>3, k \in Int, z \in Int, Quotient
    <3> QED
      BY <3>1, <3>4
  <2> QED
    BY <2>2, <2>3, <2>4
<1>2. OnlineTimeSpec => []ClockInv
  BY ClockInvariant
<1> QED
  BY <1>1, <1>2, PTL

\* The callbacks are never told of less than their interval, less the millisecond that
\* rounding takes (M_timer.cpp 158-166).
THEOREM CallbacksPaced ==
  OnlineTimeSpec => ElapsedPace
<1>1. ASSUME ClockInv, [OnlineTimeNext]_onlineTimeVars,
             ~firstTime, ~inTimer, inTimer'
      PROVE  elapsed_ms' >= Interval - 1
  <2>1. CallbacksBegin
    <3>1. ~(UNCHANGED onlineTimeVars)
      BY <1>1 DEF onlineTimeVars, timerVars
    <3>2. ~CallbacksEnd /\ ~Elsewhere /\ ~TimePasses /\ ~LoadAgain
      BY <1>1 DEF CallbacksEnd, TimerEnds, Elsewhere, MessageCached,
                  MessageNow, ReadClock, TimePasses, Advance,
                  SetBack, LoadAgain, Reload
    <3>3. ASSUME NEW p \in Player
          PROVE  /\ ~Login(p) /\ ~Logout(p) /\ ~Report(p) /\ ~Attacked(p)
                 /\ ~Reported(p)
      BY <1>1 DEF Login, Logout, Report, Attacked, Reported,
                  MessageNow, ReadClock, timerVars
    <3> QED
      BY <1>1, <3>1, <3>2, <3>3 DEF OnlineTimeNext
  <2> DEFINE d == now - last_treat_timer
             k == Milliseconds(d)
             m == Milliseconds(next_time - now)
  <2>2. m <= 0 /\ elapsed_ms' = k
    BY <1>1, <2>1 DEF CallbacksBegin, TimerCall
  <2>3. next_time = last_treat_timer + Interval * Ms
    BY <1>1 DEF ClockInv, Paced
  <2>4. /\ Ms \in Nat \ {0} /\ Interval \in Nat \ {0} /\ now \in Int /\ last_treat_timer \in Int
        /\ next_time \in Int
    BY <1>1, ClockTypesAre DEF ClockInv
  <2>5. /\ k \in Int /\ m \in Int /\ d \in Int
        /\ \E e \in -(Ms - 1) .. Ms - 1 : next_time - now = m * Ms + e
        /\ \E e \in -(Ms - 1) .. Ms - 1 : d = k * Ms + e
        /\ d >= 0 => \E e \in 0 .. Ms - 1 : d = k * Ms + e
    <3>1. d \in Int /\ next_time - now \in Int
      BY <2>4
    <3> HIDE DEF d
    <3> QED
      BY <3>1, MillisecondsRound
  <2> HIDE DEF k, m
  <2>6. /\ Interval * Ms \in Nat /\ m * Ms \in Int /\ k * Ms \in Int /\ (Interval - 1) * Ms \in Nat
        /\ (Interval - 1) * Ms = Interval * Ms - Ms
    BY <2>4, <2>5
  <2>7. m * Ms <= 0
    <3>1. m * Ms <= 0 * Ms
      BY <2>2, <2>4, <2>5, Scaled
    <3> QED
      BY <2>4, <3>1
  <2>8. d >= (Interval - 1) * Ms + 1
    <3>1. PICK e \in -(Ms - 1) .. Ms - 1 : next_time - now = m * Ms + e
      BY <2>5
    <3> QED
      BY ONLY <2>3, <2>4, <2>6, <2>7, <3>1
  <2>9. PICK e \in 0 .. Ms - 1 : d = k * Ms + e
    BY <2>5, <2>6, <2>8
  <2> HIDE DEF d
  <2>10. ~(k + 1 <= Interval - 1)
    <3> SUFFICES ASSUME k + 1 <= Interval - 1 PROVE FALSE
      OBVIOUS
    <3>1. (k + 1) * Ms <= (Interval - 1) * Ms
      BY <2>4, <2>5, Scaled
    <3>2. (k + 1) * Ms = k * Ms + Ms
      BY <2>4, <2>5
    <3> QED
      BY ONLY <2>4, <2>5, <2>6, <2>8, <2>9, <3>1, <3>2
  <2> QED
    BY <2>2, <2>4, <2>5, <2>10
<1>2. ClockInv /\ [OnlineTimeNext]_onlineTimeVars
        => [~firstTime /\ ~inTimer /\ inTimer' => elapsed_ms' >= Interval - 1]_timerVars
  BY <1>1
<1>3. OnlineTimeSpec => []ClockInv
  BY ClockInvariant
<1> QED
  BY <1>2, <1>3, PTL DEF ElapsedPace, OnlineTimeSpec

=============================================================================
