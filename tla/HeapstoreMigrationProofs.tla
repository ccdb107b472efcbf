---------------------- MODULE HeapstoreMigrationProofs ----------------------
(***************************************************************************)
(* Invariants of the migration for every set of targets, stamps and rows:  *)
(* the version file is never torn, the registry is opened under a version  *)
(* that is current, a failed migration leaves the version it read; and,    *)
(* for targets that are versions of the step table, the version never      *)
(* says more than the schema has.                                          *)
(***************************************************************************)
EXTENDS HeapstoreMigration, TLAPS

USE DEF call, versionFiles, database

Stamping == {"stamping", "writing", "replacing"}

(* What each point of the control implies: for whom it is reached, what is *)
(* left to do, and which files are complete there.                         *)
Control ==
  /\ pc \in {"down", "up"} => op = "none"
  /\ pc = "opening" => op \in {"check", "start"}
  /\ pc \in {"stepping", "altering"} => op \in {"start", "forward"}
  /\ pc \in Stamping => op # "none"
  /\ pc \notin {"stepping", "altering"} => todo = {}
  /\ pc = "altering" => todo # {} /\ backup \in Contents
  /\ pc = "replacing" => tmp = goal
  /\ op \in {"check", "start"} => pc = "opening" \/ goal = CURRENT
  /\ pc = "up" \/ op \in {"forward", "set"} => version \in Nat
  /\ pc = "opening" => version \in Nat /\ version >= CURRENT
  /\ op = "forward" => current = version

Core == TypeOK /\ VersionNeverTorn /\ Control

-----------------------------------------------------------------------------
(* The step table: two steps, in order. *)
LEMMA StepTable ==
  /\ StepIds = {1, 2}
  /\ ForwardSteps[1].from = 10000 /\ ForwardSteps[1].to = 10100
  /\ ForwardSteps[2].from = 10100 /\ ForwardSteps[2].to = 20000
  /\ \A s \in StepIds : /\ Len(ForwardSteps[s].columns) \in Nat
                        /\ StepColumns(s) \subseteq Columns
                        /\ \A i \in 1..Len(ForwardSteps[s].columns) :
                             ForwardSteps[s].columns[i] \in StepColumns(s)
<1>1. Len(ForwardSteps) = 2
  BY DEF ForwardSteps
<1>2. StepIds = {1, 2}
  BY <1>1 DEF StepIds
<1>3. /\ Len(ForwardSteps[1].columns) = 2
      /\ Len(ForwardSteps[2].columns) = 1
  BY DEF ForwardSteps
<1>4. /\ ForwardSteps[1].from = 10000 /\ ForwardSteps[1].to = 10100
      /\ ForwardSteps[2].from = 10100 /\ ForwardSteps[2].to = 20000
  BY DEF ForwardSteps
<1>5. ASSUME NEW s \in StepIds
      PROVE  /\ Len(ForwardSteps[s].columns) \in Nat
             /\ StepColumns(s) \subseteq Columns
             /\ \A i \in 1..Len(ForwardSteps[s].columns) :
                  ForwardSteps[s].columns[i] \in StepColumns(s)
  <2>1. Len(ForwardSteps[s].columns) \in Nat
    BY <1>2, <1>3
  <2>2. StepColumns(s) \subseteq Columns
    BY DEF Columns
  <2>3. \A i \in 1..Len(ForwardSteps[s].columns) :
          ForwardSteps[s].columns[i] \in StepColumns(s)
    BY DEF StepColumns
  <2>4. QED
    BY <2>1, <2>2, <2>3
<1>6. QED
  BY <1>2, <1>4, <1>5

(* The step in progress is one of those left. *)
LEMMA StepIsLeft ==
  ASSUME todo \subseteq StepIds, todo # {}
  PROVE  step \in todo /\ step \in StepIds
<1>1. \E s \in todo : \A r \in todo : s <= r
  <2>1. todo \subseteq {1, 2}
    BY StepTable
  <2>2. CASE 1 \in todo
    BY <2>1, <2>2
  <2>3. CASE 1 \notin todo
    <3>1. todo = {2}
      BY <2>1, <2>3
    <3>2. QED
      BY <3>1
  <2>4. QED
    BY <2>2, <2>3
<1>2. QED
  BY <1>1 DEF step

(* The initial states. *)
LEMMA CoreInit == Init => Core
<1> SUFFICES ASSUME Init PROVE Core
  OBVIOUS
<1>1. /\ version \in Nat \cup {NoFile}
      /\ version # Partial
  BY VersionsAssumption DEF Init, CURRENT
<1>2. TypeOK
  <2>1. {} \in Contents
    BY DEF Contents
  <2>2. /\ pc \in Locations /\ op \in Operations /\ registry \in Connections
        /\ result \in {"SUCCESS", "INTERNAL"}
    BY DEF Init, Locations, Operations, Connections
  <2>3. /\ current \in Nat /\ goal \in Nat /\ column \in Nat \ {0}
        /\ todo \subseteq StepIds /\ acknowledged \subseteq Rows
    BY DEF Init
  <2>4. main \in Contents /\ wal \in Contents
    BY <2>1 DEF Init
  <2>5. tmp = NoFile /\ backup = NoFile
    BY DEF Init
  <2>6. exists \in BOOLEAN /\ restored \in BOOLEAN
    BY Zenon DEF Init
  <2>7. QED
    BY <1>1, <2>2, <2>3, <2>4, <2>5, <2>6 DEF TypeOK
<1>3. Control
  BY DEF Init, Control, Stamping
<1>4. QED
  BY <1>1, <1>2, <1>3 DEF Core, VersionNeverTorn

(* What heapstore_init finds, and leaves alone, when it checks the version. *)
LEMMA InitCheckKeeps ==
  ASSUME InitCheck
  PROVE  /\ pc = "down" /\ version # Partial
         /\ UNCHANGED <<column, result, version, tmp, exists, main, wal, backup, registry,
                        restored, acknowledged>>
         /\ \/ DiskVersion = 0 /\ StartStamp("check", CURRENT) /\ current' = current
            \/ DiskVersion \in 1..CURRENT - 1 /\ StartSteps("start", CURRENT)
            \/ /\ DiskVersion >= CURRENT /\ pc' = "opening" /\ op' = "check"
               /\ UNCHANGED <<current, goal, todo>>
<1>1. /\ pc = "down" /\ version # Partial
      /\ \/ DiskVersion = 0 /\ StartStamp("check", CURRENT) /\ current' = current
         \/ DiskVersion \in 1..CURRENT - 1 /\ StartSteps("start", CURRENT)
         \/ /\ DiskVersion >= CURRENT /\ pc' = "opening" /\ op' = "check"
            /\ UNCHANGED <<current, goal, todo>>
  BY Zenon DEF InitCheck
<1>2. UNCHANGED <<column, result, versionFiles, database, backup, registry, restored,
                  acknowledged>>
  BY Zenon DEF InitCheck
<1>3. QED
  BY <1>1, <1>2

(* Each way on from there. *)
LEMMA CoreCheck ==
  ASSUME Core, InitCheck
  PROVE  Core'
<1>1. /\ pc = "down" /\ version # Partial
      /\ UNCHANGED <<column, result, version, tmp, exists, main, wal, backup, registry,
                     restored, acknowledged>>
  BY InitCheckKeeps
<1>2. op = "none" /\ todo = {} /\ version \in Nat \cup {NoFile}
  BY <1>1 DEF Core, TypeOK, Control, Stamping
<1>3. ASSUME /\ pc' \in Locations /\ op' \in Operations /\ current' \in Nat
             /\ goal' \in Nat /\ todo' \subseteq StepIds
      PROVE  TypeOK' /\ VersionNeverTorn'
  BY <1>1, <1>3 DEF Core, TypeOK, VersionNeverTorn
<1>4. ASSUME DiskVersion = 0, StartStamp("check", CURRENT), current' = current
      PROVE  Core'
  <2>1. pc' = "stamping" /\ op' = "check" /\ goal' = CURRENT /\ todo' = {}
    BY <1>2, <1>4 DEF StartStamp
  <2>2. TypeOK' /\ VersionNeverTorn'
    BY <1>3, <1>4, <2>1 DEF Core, TypeOK, Locations, Operations, CURRENT
  <2>3. Control'
    BY <1>1, <2>1 DEF Control, Stamping
  <2>4. QED
    BY <2>2, <2>3 DEF Core
<1>5. ASSUME DiskVersion \in 1..CURRENT - 1, StartSteps("start", CURRENT)
      PROVE  Core'
  <2>1. version \in Nat /\ current' = version
    BY <1>2, <1>5 DEF StartSteps, DiskVersion, CURRENT
  <2>2. pc' = "stepping" /\ op' = "start" /\ goal' = CURRENT /\ todo' \subseteq StepIds
    BY <1>5 DEF StartSteps, Applicable
  <2>3. TypeOK' /\ VersionNeverTorn'
    BY <1>3, <2>1, <2>2 DEF Locations, Operations, CURRENT
  <2>4. Control'
    BY <2>2 DEF Control, Stamping
  <2>5. QED
    BY <2>3, <2>4 DEF Core
<1>6. ASSUME DiskVersion >= CURRENT, pc' = "opening", op' = "check",
             UNCHANGED <<current, goal, todo>>
      PROVE  Core'
  <2>1. version \in Nat /\ version >= CURRENT
    BY <1>2, <1>6 DEF DiskVersion, CURRENT
  <2>2. TypeOK' /\ VersionNeverTorn'
    BY <1>3, <1>6 DEF Core, TypeOK, Locations, Operations
  <2>3. Control'
    BY <1>1, <1>2, <1>6, <2>1 DEF Control, Stamping
  <2>4. QED
    BY <2>2, <2>3 DEF Core
<1>7. QED
  BY <1>4, <1>5, <1>6, InitCheckKeeps

(* heapstore_init and the calls that begin a migration or a stamp. *)
LEMMA CoreBegin ==
  ASSUME Core, InitCheck \/ CallForward \/ CallSetVersion
  PROVE  Core'
<1> USE VersionsAssumption
    DEF Core, TypeOK, VersionNeverTorn, Control, Locations, Operations,
        Connections, CURRENT, Stamping, DiskVersion
<1>1. CASE InitCheck
  BY <1>1, CoreCheck
<1>2. CASE CallForward
  BY <1>2 DEF CallForward, StartSteps, Applicable
<1>3. CASE CallSetVersion
  <2>1. PICK v \in Stamps : op' = "set" /\ goal' = v /\ pc' = "stamping" /\ todo' = todo
    BY <1>3 DEF CallSetVersion, StartStamp
  <2>2. v \in Nat
    BY <2>1
  <2>3. TypeOK'
    BY <1>3, <2>1, <2>2 DEF CallSetVersion
  <2>4. Control'
    BY <1>3, <2>1, <2>2 DEF CallSetVersion
  <2>5. QED
    BY <1>3, <2>3, <2>4 DEF CallSetVersion
<1>4. QED
  BY <1>1, <1>2, <1>3

(* The steps of a migration. *)
LEMMA CoreStep ==
  ASSUME Core, \/ StepBackup \/ StepBackupFails \/ AddColumn \/ StepFails
               \/ StepDone \/ StepsDone
  PROVE  Core'
<1> USE VersionsAssumption
    DEF Core, TypeOK, VersionNeverTorn, Control, Locations, Operations,
        Connections, CURRENT, Stamping
<1>1. CASE StepBackup
  BY <1>1 DEF StepBackup
<1>2. CASE StepBackupFails
  BY <1>2 DEF StepBackupFails, Fail
<1>3. CASE AddColumn
  <2>1. step \in StepIds
    BY <1>3, StepIsLeft DEF AddColumn
  <2>2. ForwardSteps[step].columns[column] \in Columns
    BY <1>3, <2>1, StepTable DEF AddColumn
  <2>3. wal' \in Contents
    BY <1>3, <2>2 DEF AddColumn, Contents
  <2>4. QED
    BY <1>3, <2>3 DEF AddColumn, Contents
<1>4. CASE StepFails
  <2>1. main' \in Contents
    BY <1>4 DEF StepFails
  <2>2. backup' \in Contents \cup {Partial, NoFile}
    <3>1. backup' = NoFile \/ backup' = backup
      BY <1>4 DEF StepFails
    <3>2. QED
      BY <3>1
  <2>3. registry' \in Connections
    <3>1. registry' \in {"closed", "detached", registry}
      BY <1>4 DEF StepFails
    <3>2. QED
      BY <3>1
  <2>4. restored' \in BOOLEAN
    <3>1. restored' = TRUE \/ restored' = restored
      BY <1>4 DEF StepFails
    <3>2. restored \in BOOLEAN
      OBVIOUS
    <3>3. QED
      BY ONLY <3>1, <3>2
  <2>5. QED
    BY <1>4, <2>1, <2>2, <2>3, <2>4 DEF StepFails, Fail
<1>5. CASE StepDone
  BY <1>5 DEF StepDone
<1>6. CASE StepsDone
  BY <1>6 DEF StepsDone
<1>7. QED
  BY <1>1, <1>2, <1>3, <1>4, <1>5, <1>6

(* The version file. *)
LEMMA CoreStamp ==
  ASSUME Core, StampOpen \/ StampWrite \/ StampReplace \/ StampFails
  PROVE  Core'
<1> USE VersionsAssumption
    DEF Core, TypeOK, VersionNeverTorn, Control, Locations, Operations,
        Connections, Contents, CURRENT, Stamping
<1>1. CASE StampOpen
  BY <1>1 DEF StampOpen
<1>2. CASE StampWrite
  BY <1>2 DEF StampWrite
<1>3. CASE StampReplace
  BY <1>3 DEF StampReplace, Succeed
<1>4. CASE StampFails
  BY <1>4 DEF StampFails, Fail
<1>5. QED
  BY <1>1, <1>2, <1>3, <1>4

(* The registry, the end of the process, and what goes on meanwhile. *)
LEMMA CoreRest ==
  ASSUME Core, \/ OpenRegistry \/ OpenRegistryFails
               \/ Insert \/ Checkpoint \/ Shutdown \/ Crash
  PROVE  Core'
<1> USE VersionsAssumption
    DEF Core, TypeOK, VersionNeverTorn, Control, Locations, Operations,
        Connections, Contents, CURRENT, Stamping
<1>1. CASE OpenRegistry
  BY <1>1 DEF OpenRegistry
<1>2. CASE OpenRegistryFails
  BY <1>2 DEF OpenRegistryFails, Fail
<1>3. CASE Insert
  BY <1>3 DEF Insert
<1>4. CASE Checkpoint
  BY <1>4 DEF Checkpoint, Stored
<1>5. CASE Shutdown
  BY <1>5 DEF Shutdown, Stored
<1>6. CASE Crash
  BY <1>6 DEF Crash
<1>7. QED
  BY <1>1, <1>2, <1>3, <1>4, <1>5, <1>6

(* Every step preserves the core. *)
LEMMA CoreInductive == Core /\ [Next]_vars => Core'
<1> SUFFICES ASSUME Core, [Next]_vars PROVE Core'
  OBVIOUS
<1>1. CASE UNCHANGED vars
  BY <1>1 DEF vars, Core, TypeOK, VersionNeverTorn, Control
<1>2. QED
  BY <1>1, CoreBegin, CoreStep, CoreStamp, CoreRest DEF Next

(* Types, and the version file is never found empty or cut short           *)
(* (migration.c:453-455), wherever a crash or a failure falls.             *)
THEOREM TypeCorrect == Spec => [](TypeOK /\ VersionNeverTorn)
<1>1. Core => TypeOK /\ VersionNeverTorn
  BY DEF Core
<1>2. QED
  BY CoreInit, CoreInductive, <1>1, PTL DEF Spec

(* heapstore_init opens the registry only under a version that is current  *)
(* (core.c:222, "Fail closed").                                            *)
THEOREM InitFailsClosed == Spec => []FailClosed
<1>1. Core => FailClosed
  BY DEF Core, Control, FailClosed
<1>2. QED
  BY CoreInit, CoreInductive, <1>1, PTL DEF Spec

(* A forward migration that fails leaves the version it read               *)
(* (heapstore_migration.h:118).                                            *)
THEOREM FailureKeepsVersion == Spec => VersionUntouchedOnFailure
<1>1. ASSUME Core, [Next]_vars, op = "forward", op' = "none", pc' = "up",
             result' = "INTERNAL"
      PROVE  version' = current
  <2>1. CASE UNCHANGED vars
    BY <1>1, <2>1 DEF vars
  <2>2. CASE StepBackupFails \/ StepFails \/ StampFails
    BY <1>1, <2>2 DEF StepBackupFails, StepFails, StampFails, Core, Control
  <2>3. CASE StampReplace
    BY <1>1, <2>3 DEF StampReplace, Succeed
  <2>4. CASE InitCheck \/ CallForward \/ CallSetVersion
    BY <1>1, <2>4 DEF InitCheck, CallForward, CallSetVersion, Core, Control
  <2>5. CASE StepBackup \/ AddColumn \/ StepDone \/ StepsDone \/ StampOpen \/ StampWrite
    BY <1>1, <2>5 DEF StepBackup, AddColumn, StepDone, StepsDone, StampOpen, StampWrite
  <2>6. CASE OpenRegistry \/ OpenRegistryFails \/ Shutdown \/ Crash
    BY <1>1, <2>6 DEF OpenRegistry, OpenRegistryFails, Shutdown, Crash, Core, Control
  <2>7. CASE Insert \/ Checkpoint
    BY <1>1, <2>7 DEF Insert, Checkpoint
  <2>8. QED
    BY <1>1, <2>1, <2>2, <2>3, <2>4, <2>5, <2>6, <2>7 DEF Next
<1>2. Core /\ [Next]_vars =>
        [op = "forward" /\ op' = "none" /\ pc' = "up" /\ result' = "INTERNAL"
           => version' = current]_vars
  BY <1>1
<1>3. QED
  BY CoreInit, CoreInductive, <1>2, PTL DEF Spec, VersionUntouchedOnFailure

-----------------------------------------------------------------------------
(* The calls the step table has a path for: targets that are ends of its   *)
(* steps, and stamps that promise no step.  A target between two ends runs *)
(* no step, is stamped all the same and has the step that spans it skipped *)
(* for ever (heapstore_migration.c:535): MCHeapstoreMigrationBetween shows *)
(* that the theorem fails without this assumption.                         *)
OnPath ==
  /\ Targets \subseteq {0, 10000, 10100, 20000}
  /\ Stamps \subseteq 0..CURRENT

Boundaries == 0..CURRENT \cup {10100, 20000}

(* What makes SchemaMatchesVersion inductive: the versions lie on the      *)
(* boundaries, a stamp without steps promises none, and a migration under  *)
(* way has the columns of the steps it need not run or has run, and those  *)
(* it has added of the step in progress.                                   *)
Progress ==
  /\ version \in Boundaries \cup {NoFile}
  /\ goal \in Boundaries
  /\ op \in {"check", "set"} /\ pc # "opening" => goal <= CURRENT
  /\ registry = "detached" => restored

StepsTaken ==
  ~restored /\ op \in {"start", "forward"} /\ pc # "opening" =>
    \A s \in StepIds \ todo :
      ForwardSteps[s].to <= goal => StepColumns(s) \subseteq Stored

ColumnsTaken ==
  ~restored /\ pc = "altering" =>
    \A i \in 1..Len(ForwardSteps[step].columns) :
      i < column => ForwardSteps[step].columns[i] \in Stored

Schema == Progress /\ SchemaMatchesVersion /\ StepsTaken /\ ColumnsTaken

(* The schema still matches when nothing is taken out of the database.     *)
LEMMA SchemaKept ==
  ASSUME SchemaMatchesVersion, version' = version, restored' = restored,
         ~restored => Stored \subseteq Stored'
  PROVE  SchemaMatchesVersion'
BY DEF SchemaMatchesVersion

LEMMA StepEnds ==
  \A s \in StepIds :
    \/ ForwardSteps[s].from = 10000 /\ ForwardSteps[s].to = 10100
    \/ ForwardSteps[s].from = 10100 /\ ForwardSteps[s].to = 20000
BY StepTable

(* No step leads to CURRENT or less. *)
LEMMA NoStepToCurrent ==
  ASSUME NEW v, v \in 0..CURRENT
  PROVE  \A s \in StepIds : ~(ForwardSteps[s].to <= v)
<1>1. v \in Nat /\ v <= 10000
  BY DEF CURRENT
<1>2. QED
  BY <1>1, StepEnds

(* What a migration that starts need not run is there. *)
LEMMA NotApplicable ==
  ASSUME Schema, ~restored, version # Partial, NEW target \in Boundaries,
         NEW s \in StepIds \ Applicable(DiskVersion, target),
         ForwardSteps[s].to <= target
  PROVE  StepColumns(s) \subseteq Stored
<1> USE VersionsAssumption
<1>1. ~(ForwardSteps[s].from >= DiskVersion)
  BY DEF Applicable
<1>2. version \in Boundaries /\ DiskVersion = version
  BY <1>1, StepTable DEF Schema, Progress, DiskVersion
<1>3. version \in Nat /\ (version <= 10000 \/ version = 10100 \/ version = 20000)
  BY <1>2 DEF Boundaries, CURRENT
<1>4. ForwardSteps[s].to <= version
  BY <1>1, <1>2, <1>3, StepEnds
<1>5. QED
  BY <1>3, <1>4 DEF Schema, SchemaMatchesVersion

LEMMA SchemaBegin ==
  ASSUME OnPath, Core, Schema, InitCheck \/ CallForward \/ CallSetVersion
  PROVE  Schema'
<1> USE VersionsAssumption
<1>1. SchemaMatchesVersion'
  BY SchemaKept DEF InitCheck, CallForward, CallSetVersion, Schema, Stored
<1>2. ColumnsTaken'
  BY DEF InitCheck, CallForward, CallSetVersion, StartStamp, StartSteps, ColumnsTaken
<1>3. Progress'
  <2>1. goal' \in Boundaries /\ (op' \in {"check", "set"} /\ pc' # "opening" => goal' <= CURRENT)
    <3>1. CASE InitCheck
      <4>1. CURRENT \in Boundaries /\ CURRENT <= CURRENT
        BY DEF CURRENT, Boundaries
      <4>2. goal' = CURRENT \/ (goal' = goal /\ pc' = "opening")
        BY <3>1 DEF InitCheck, StartStamp, StartSteps
      <4>3. QED
        BY <4>1, <4>2 DEF Schema, Progress
    <3>2. CASE CallForward
      BY <3>2 DEF CallForward, StartSteps, OnPath, Boundaries, CURRENT
    <3>3. CASE CallSetVersion
      BY <3>3 DEF CallSetVersion, StartStamp, OnPath, Boundaries, CURRENT
    <3>4. QED
      BY <3>1, <3>2, <3>3
  <2>2. QED
    BY <2>1 DEF InitCheck, CallForward, CallSetVersion, Schema, Progress
<1>4. StepsTaken'
  <2> SUFFICES ASSUME ~restored', op' \in {"start", "forward"}, pc' # "opening",
                      NEW s \in StepIds \ todo', ForwardSteps[s].to <= goal'
               PROVE  StepColumns(s) \subseteq Stored'
    BY DEF StepsTaken
  <2>1. PICK o, target : StartSteps(o, target)
    BY DEF InitCheck, CallForward, CallSetVersion, StartStamp
  <2>2. goal' = target /\ todo' = Applicable(DiskVersion, target)
    BY <2>1 DEF StartSteps
  <2>3. restored' = restored /\ Stored' = Stored
    BY DEF InitCheck, CallForward, CallSetVersion, Stored
  <2>4. target \in Boundaries /\ version # Partial
    BY <1>3, <2>2 DEF Progress, Core, VersionNeverTorn
  <2>5. StepColumns(s) \subseteq Stored
    BY <2>2, <2>3, <2>4, NotApplicable
  <2>6. QED
    BY <2>3, <2>5
<1>5. QED
  BY <1>1, <1>2, <1>3, <1>4 DEF Schema

LEMMA SchemaStep ==
  ASSUME Core, Schema, \/ StepBackup \/ StepBackupFails \/ AddColumn
                       \/ StepFails \/ StepDone \/ StepsDone
  PROVE  Schema'
<1>1. CASE StepBackup
  <2>1. /\ UNCHANGED <<op, goal, todo, version, registry, restored, Stored>>
        /\ column' = 1 /\ pc = "stepping" /\ pc' = "altering"
    BY <1>1 DEF StepBackup, Stored
  <2>2. Progress' /\ StepsTaken'
    BY <2>1 DEF Schema, Progress, StepsTaken
  <2>3. ColumnsTaken'
    BY <2>1 DEF ColumnsTaken
  <2>4. QED
    BY <2>1, <2>2, <2>3, SchemaKept DEF Schema
<1>2. CASE StepBackupFails
  BY <1>2, SchemaKept
     DEF StepBackupFails, Fail, Schema, Progress, StepsTaken, ColumnsTaken, Stored
<1>3. CASE AddColumn
  <2>1. /\ UNCHANGED <<pc, op, goal, todo, version, registry, restored>>
        /\ pc = "altering" /\ column \in Nat /\ column' = column + 1
        /\ column <= Len(ForwardSteps[step].columns)
    BY <1>3 DEF AddColumn, Core, TypeOK
  <2>2. /\ Stored \subseteq Stored'
        /\ ForwardSteps[step].columns[column] \in Stored'
    BY <1>3 DEF AddColumn, Stored
  <2>3. Progress'
    BY <2>1 DEF Schema, Progress
  <2>4. StepsTaken'
    BY <2>1, <2>2 DEF Schema, StepsTaken
  <2>5. ColumnsTaken'
    <3> SUFFICES ASSUME ~restored', NEW i \in 1..Len(ForwardSteps[step].columns),
                        i < column'
                 PROVE  ForwardSteps[step].columns[i] \in Stored'
      BY <2>1 DEF ColumnsTaken, step
    <3>1. CASE i < column
      BY <3>1, <2>1, <2>2 DEF Schema, ColumnsTaken
    <3>2. CASE ~(i < column)
      <4>1. i = column
        BY <3>2, <2>1
      <4>2. QED
        BY <4>1, <2>2
    <3>3. QED
      BY <3>1, <3>2
  <2>6. QED
    BY <2>1, <2>2, <2>3, <2>4, <2>5, SchemaKept DEF Schema
<1>4. CASE StepFails
  <2>1. Progress' /\ StepsTaken' /\ ColumnsTaken'
    BY <1>4 DEF StepFails, Fail, Schema, Progress, StepsTaken, ColumnsTaken
  <2>2. SchemaMatchesVersion'
    <3>1. CASE restored'
      BY <3>1 DEF SchemaMatchesVersion
    <3>2. CASE ~restored'
      BY <3>2, <1>4, SchemaKept DEF StepFails, Schema, Stored
    <3>3. QED
      BY <3>1, <3>2
  <2>3. QED
    BY <2>1, <2>2 DEF Schema
<1>5. CASE StepDone
  <2>1. /\ UNCHANGED <<op, goal, version, registry, restored, Stored>>
        /\ pc = "altering" /\ pc' = "stepping" /\ todo' = todo \ {step}
        /\ column > Len(ForwardSteps[step].columns)
    BY <1>5 DEF StepDone, Stored
  <2>2. step \in StepIds
    BY <2>1, StepIsLeft DEF Core, TypeOK, Control
  <2>3. Len(ForwardSteps[step].columns) \in Nat /\ column \in Nat
    BY <2>2, StepTable DEF Core, TypeOK
  <2>4. ~restored => StepColumns(step) \subseteq Stored
    BY <2>1, <2>3 DEF Schema, ColumnsTaken, StepColumns
  <2>5. StepsTaken'
    BY <2>1, <2>4 DEF Schema, StepsTaken
  <2>6. Progress' /\ ColumnsTaken'
    BY <2>1 DEF Schema, Progress, ColumnsTaken
  <2>7. QED
    BY <2>1, <2>5, <2>6, SchemaKept DEF Schema
<1>6. CASE StepsDone
  BY <1>6, SchemaKept
     DEF StepsDone, Schema, Progress, StepsTaken, ColumnsTaken, Stored
<1>7. QED
  BY <1>1, <1>2, <1>3, <1>4, <1>5, <1>6

LEMMA SchemaStamp ==
  ASSUME Core, Schema, StampOpen \/ StampWrite \/ StampReplace \/ StampFails
  PROVE  Schema'
<1>1. CASE StampOpen \/ StampWrite
  BY <1>1, SchemaKept
     DEF StampOpen, StampWrite, Schema, Progress, StepsTaken, ColumnsTaken, Stored
<1>2. CASE StampReplace
  <2>1. /\ version' = goal /\ goal \in Boundaries /\ todo = {}
        /\ op \in {"check", "set", "start", "forward"} /\ pc = "replacing"
    BY <1>2 DEF StampReplace, Core, TypeOK, Control, Operations, Stamping,
                Schema, Progress
  <2>2. UNCHANGED <<goal, todo, registry, restored, Stored>>
    BY <1>2 DEF StampReplace, Stored
  <2>3. pc' = "opening" \/ (op' = "none" /\ pc' = "up")
    BY <1>2 DEF StampReplace, Succeed
  <2>4. Progress' /\ StepsTaken' /\ ColumnsTaken'
    BY <2>1, <2>2, <2>3 DEF Schema, Progress, StepsTaken, ColumnsTaken
  <2>5. SchemaMatchesVersion'
    <3>1. CASE op \in {"check", "set"}
      <4>1. goal \in 0..CURRENT
        <5>1. goal <= CURRENT
          BY <3>1, <2>1 DEF Schema, Progress
        <5>2. goal \in Nat
          BY DEF Core, TypeOK
        <5>3. QED
          BY ONLY <5>1, <5>2 DEF CURRENT
      <4>2. \A s \in StepIds : ~(ForwardSteps[s].to <= version')
        BY ONLY <4>1, <2>1, NoStepToCurrent
      <4>3. QED
        BY ONLY <4>2 DEF SchemaMatchesVersion
    <3>2. CASE op \in {"start", "forward"}
      BY <3>2, <2>1, <2>2 DEF Schema, StepsTaken, SchemaMatchesVersion
    <3>3. QED
      BY <2>1, <3>1, <3>2
  <2>6. QED
    BY <2>4, <2>5 DEF Schema
<1>3. CASE StampFails
  BY <1>3, SchemaKept
     DEF StampFails, Fail, Schema, Progress, StepsTaken, ColumnsTaken, Stored
<1>4. QED
  BY <1>1, <1>2, <1>3

LEMMA SchemaRest ==
  ASSUME Core, Schema, \/ OpenRegistry \/ OpenRegistryFails
                       \/ Insert \/ Checkpoint \/ Shutdown \/ Crash
  PROVE  Schema'
<1>1. CASE OpenRegistry
  <2>1. Progress' /\ StepsTaken' /\ ColumnsTaken'
    BY <1>1 DEF OpenRegistry, Schema, Progress, StepsTaken, ColumnsTaken
  <2>2. version' = version /\ restored' = restored
    BY <1>1 DEF OpenRegistry
  <2>3. SchemaMatchesVersion'
    <3>1. CASE exists
      BY <3>1, <1>1, <2>2, SchemaKept DEF OpenRegistry, Schema, Stored
    <3>2. CASE ~exists
      <4>1. Columns \subseteq Stored'
        BY <3>2, <1>1 DEF OpenRegistry, Stored
      <4>2. \A s \in StepIds : StepColumns(s) \subseteq Columns
        BY StepTable
      <4>3. QED
        BY <4>1, <4>2 DEF SchemaMatchesVersion
    <3>3. QED
      BY <3>1, <3>2
  <2>4. QED
    BY <2>1, <2>3 DEF Schema
<1>2. CASE OpenRegistryFails
  BY <1>2, SchemaKept
     DEF OpenRegistryFails, Fail, Schema, Progress, StepsTaken, ColumnsTaken, Stored
<1>3. CASE Insert
  <2>1. /\ UNCHANGED <<call, version, registry, restored>>
        /\ Stored \subseteq Stored'
    BY <1>3 DEF Insert, Stored
  <2>2. QED
    BY <2>1, SchemaKept DEF Schema, Progress, StepsTaken, ColumnsTaken, step
<1>4. CASE Checkpoint
  <2>1. /\ UNCHANGED <<call, version, registry, restored>>
        /\ ~restored => Stored \subseteq Stored'
    BY <1>4 DEF Checkpoint, Stored, Schema, Progress
  <2>2. QED
    BY <2>1, SchemaKept DEF Schema, Progress, StepsTaken, ColumnsTaken, step
<1>5. CASE Shutdown
  <2>1. Stored' = Stored /\ op = "none"
    BY <1>5 DEF Shutdown, Stored, Core, Control
  <2>2. QED
    BY <1>5, <2>1, SchemaKept DEF Shutdown, Schema, Progress, StepsTaken, ColumnsTaken
<1>6. CASE Crash
  BY <1>6, SchemaKept
     DEF Crash, Schema, Progress, StepsTaken, ColumnsTaken, Stored
<1>7. QED
  BY <1>1, <1>2, <1>3, <1>4, <1>5, <1>6

LEMMA SchemaInit == Init => Schema
<1> SUFFICES ASSUME Init PROVE Schema
  OBVIOUS
<1>1. version = NoFile \/ version = CURRENT
  BY DEF Init
<1>2. CURRENT \in 0..CURRENT
  BY DEF CURRENT
<1>3. SchemaMatchesVersion
  BY <1>1, <1>2, NoStepToCurrent, VersionsAssumption DEF SchemaMatchesVersion
<1>4. Progress /\ StepsTaken /\ ColumnsTaken
  BY <1>1, <1>2 DEF Init, Progress, StepsTaken, ColumnsTaken, Boundaries, CURRENT
<1>5. QED
  BY <1>3, <1>4 DEF Schema

LEMMA SchemaInductive == OnPath /\ Core /\ Schema /\ [Next]_vars => Schema'
<1> SUFFICES ASSUME OnPath, Core, Schema, [Next]_vars PROVE Schema'
  OBVIOUS
<1>1. CASE UNCHANGED vars
  BY <1>1 DEF vars, Schema, Progress, SchemaMatchesVersion, StepsTaken,
              ColumnsTaken, Stored, step
<1>2. QED
  BY <1>1, SchemaBegin, SchemaStep, SchemaStamp, SchemaRest DEF Next

(* The version never says more than the schema has ("the version is bumped *)
(* only after success", heapstore_migration.h:108), through failing steps, *)
(* crashes and repeated migrations, for every set of targets and stamps    *)
(* the step table has a path for.                                          *)
THEOREM SchemaNeverBehind ==
  ASSUME OnPath
  PROVE  Spec => []SchemaMatchesVersion
<1>1. Init => Core /\ Schema
  BY CoreInit, SchemaInit
<1>2. Core /\ Schema /\ [Next]_vars => (Core /\ Schema)'
  BY OnPath, CoreInductive, SchemaInductive
<1>3. Core /\ Schema => SchemaMatchesVersion
  BY DEF Schema
<1>4. QED
  BY <1>1, <1>2, <1>3, PTL DEF Spec
-----------------------------------------------------------------------------
(* What makes LostOnlyByRestore inductive: until a backup has been put in  *)
(* the database's place every acknowledged row is in one of its two files, *)
(* the registry's connection is to that database, and only a database that *)
(* exists has been opened or has rows.                                     *)
RowsKept ==
  /\ ~restored => acknowledged \subseteq Stored
  /\ registry = "detached" => restored
  /\ registry # "closed" \/ acknowledged # {} => exists

LEMMA RowsInductive == RowsKept /\ [Next]_vars => RowsKept'
<1> SUFFICES ASSUME RowsKept, [Next]_vars PROVE RowsKept'
  OBVIOUS
<1>1. CASE UNCHANGED <<main, wal, registry, restored, acknowledged, exists>>
  BY <1>1 DEF RowsKept, Stored
<1>2. CASE AddColumn \/ Insert
  <2>1. UNCHANGED <<exists, registry, restored>> /\ main' = main
    BY <1>2 DEF AddColumn, Insert, versionFiles
  <2>2. wal \subseteq wal'
    BY <1>2 DEF AddColumn, Insert
  <2>3. acknowledged' \subseteq acknowledged \cup wal'
    BY <1>2 DEF AddColumn, Insert
  <2>4. acknowledged' # {} => registry # "closed" \/ acknowledged # {}
    BY <1>2 DEF AddColumn, Insert
  <2>5. QED
    BY <2>1, <2>2, <2>3, <2>4 DEF RowsKept, Stored
<1>3. CASE StepFails
  <2>1. \/ restored' /\ registry' \in {"closed", "detached"}
           /\ (registry' # "closed" => registry # "closed")
        \/ UNCHANGED <<main, registry, restored>>
    BY <1>3 DEF StepFails
  <2>2. UNCHANGED <<exists, wal, acknowledged>>
    BY <1>3 DEF StepFails
  <2>3. QED
    BY <2>1, <2>2 DEF RowsKept, Stored
<1>4. CASE OpenRegistry
  <2>1. /\ exists' /\ registry' = "attached"
        /\ UNCHANGED <<main, restored, acknowledged>>
        /\ exists => wal' = wal
    BY <1>4 DEF OpenRegistry
  <2>2. QED
    BY <2>1 DEF RowsKept, Stored
<1>5. CASE Checkpoint
  <2>1. UNCHANGED <<exists, registry, restored, acknowledged>>
    BY <1>5 DEF Checkpoint
  <2>2. ~restored => Stored' = Stored
    BY <1>5 DEF Checkpoint, RowsKept, Stored
  <2>3. QED
    BY <2>1, <2>2 DEF RowsKept
<1>6. CASE Shutdown
  <2>1. UNCHANGED <<exists, restored, acknowledged>> /\ registry' = "closed"
    BY <1>6 DEF Shutdown
  <2>2. Stored' = Stored
    BY <1>6 DEF Shutdown, Stored
  <2>3. QED
    BY <2>1, <2>2 DEF RowsKept
<1>7. CASE Crash
  BY <1>7 DEF Crash, database, RowsKept, Stored
<1>8. QED
  <2>1. CASE InitCheck \/ CallForward \/ CallSetVersion
    BY <1>1, <2>1 DEF InitCheck, CallForward, CallSetVersion, database
  <2>2. CASE StepBackup \/ StepBackupFails \/ StepDone \/ StepsDone
    BY <1>1, <2>2 DEF StepBackup, StepBackupFails, StepDone, StepsDone, database
  <2>3. CASE StampOpen \/ StampWrite \/ StampReplace \/ StampFails
    BY <1>1, <2>3 DEF StampOpen, StampWrite, StampReplace, StampFails, database
  <2>4. CASE OpenRegistryFails \/ UNCHANGED vars
    BY <1>1, <2>4 DEF OpenRegistryFails, database, vars
  <2>5. QED
    BY <1>2, <1>3, <1>4, <1>5, <1>6, <1>7, <2>1, <2>2, <2>3, <2>4 DEF Next

(* No acknowledged row is lost between two processes ("original data is    *)
(* preserved", heapstore_migration.h:108), through failing steps, crashes  *)
(* and checkpoints, but by a failed step's restore.                        *)
THEOREM RowsOutliveCrashes == Spec => []LostOnlyByRestore
<1>1. Init => RowsKept
  BY DEF Init, RowsKept
<1>2. RowsKept => LostOnlyByRestore
  BY DEF RowsKept, LostOnlyByRestore
<1>3. QED
  BY <1>1, <1>2, RowsInductive, PTL DEF Spec
=============================================================================
