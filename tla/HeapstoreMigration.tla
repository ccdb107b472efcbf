------------------------- MODULE HeapstoreMigration -------------------------
(***************************************************************************)
(* Schema versions and migration (src/src/heapstore_migration.c,           *)
(* heapstore_migration_forward.c), with the part of heapstore_init that    *)
(* drives them.                                                            *)
(*                                                                         *)
(* Three files: the version file, replaced by a rename; registry.db with   *)
(* its write-ahead log; a backup of registry.db alone.  A migration runs   *)
(* steps, each a list of columns to add on a connection of its own, while  *)
(* the registry's connection stays open and other threads write through    *)
(* it; the version is stamped after the last step.  The process may crash  *)
(* between any two of these actions and be started again.                  *)
(*                                                                         *)
(* SQLite is external.  A database is the set of the columns added and the *)
(* rows stored; a commit goes to the log, a checkpoint moves the log into  *)
(* registry.db, the last connection to close does so too, and whoever      *)
(* opens the database sees both.  A connection whose file was replaced     *)
(* under its name goes on with the old one, which nobody else can open.    *)
(***************************************************************************)
EXTENDS Naturals, Sequences

CONSTANTS Targets,  \* the arguments of heapstore_migration_forward
          Stamps,   \* direct calls of heapstore_migration_set_version
          Rows,     \* what other threads store in the registry
          NoFile,   \* the file does not exist
          Partial   \* the file is empty or cut short

CURRENT == 10000    \* HEAPSTORE_SCHEMA_VERSION_CURRENT

(* g_forward_steps *)
ForwardSteps ==
  << [from |-> 10000, to |-> 10100, columns |-> <<"priority", "tags">>],
     [from |-> 10100, to |-> 20000, columns |-> <<"metadata">>] >>
StepIds == 1..Len(ForwardSteps)
StepColumns(s) ==
  {ForwardSteps[s].columns[i] : i \in 1..Len(ForwardSteps[s].columns)}
Columns == UNION {StepColumns(s) : s \in StepIds}

ASSUME VersionsAssumption ==
  /\ Targets \subseteq Nat /\ Stamps \subseteq Nat
  /\ NoFile \notin Nat /\ Partial \notin Nat /\ NoFile # Partial
ASSUME RowsAssumption == Rows \cap Columns = {}

VARIABLES
  pc,            \* where the thread that starts or migrates the store is
  op,            \* for whom: "check" and "start" are parts of heapstore_init
  current,       \* current_version, as read at the entry
  goal,          \* the version to stamp
  todo,          \* the applicable steps that have not succeeded yet
  column,        \* which column of the step in progress comes next
  result,        \* what the last call returned
  version,       \* .schema_version: a number, Partial or NoFile
  tmp,           \* .schema_version.tmp, likewise
  exists,        \* registry.db exists
  main,          \* what registry.db holds
  wal,           \* what only its write-ahead log holds
  backup,        \* registry.db.pre_migration_bak: contents, Partial, NoFile
  registry,      \* the registry's connection
  restored,      \* history: a backup has replaced registry.db
  acknowledged   \* history: the rows whose insert returned SUCCESS

call == <<pc, op, current, goal, todo, column, result>>
versionFiles == <<version, tmp>>
database == <<exists, main, wal>>
vars == <<call, versionFiles, database, backup, registry, restored,
          acknowledged>>

(* The registry's connection: attached to the file of that name, or        *)
(* detached, when registry.db was replaced under it.                       *)
Connections == {"closed", "attached", "detached"}
Locations == {"down", "stepping", "altering", "stamping", "writing",
              "replacing", "opening", "up"}
Operations == {"none", "check", "start", "forward", "set"}
Stored == main \cup wal

(* A store of an older build, or none yet. *)
Init ==
  /\ pc = "down"
  /\ op = "none"
  /\ current = 0
  /\ goal = 0
  /\ todo = {}
  /\ column = 1
  /\ result = "SUCCESS"
  /\ exists \in BOOLEAN
  /\ version \in IF exists THEN {NoFile, CURRENT} ELSE {NoFile}
  /\ tmp = NoFile
  /\ main = {}
  /\ wal = {}
  /\ backup = NoFile
  /\ registry = "closed"
  /\ restored = FALSE
  /\ acknowledged = {}

-----------------------------------------------------------------------------
(* A missing version file is version 0. *)
DiskVersion == IF version = NoFile THEN 0 ELSE version

(* mig_run_steps: the steps that lie between the two versions. *)
Applicable(from, target) ==
  {s \in StepIds : ForwardSteps[s].from >= from /\ ForwardSteps[s].to <= target}

StartSteps(o, target) ==
  /\ op' = o
  /\ current' = DiskVersion
  /\ goal' = target
  /\ todo' = Applicable(DiskVersion, target)
  /\ pc' = "stepping"

StartStamp(o, v) ==
  /\ op' = o
  /\ goal' = v
  /\ pc' = "stamping"
  /\ UNCHANGED todo

(* heapstore_init: heapstore_migration_check, then forward(0) when the     *)
(* version is behind.  A version file that cannot be parsed fails it.      *)
InitCheck ==
  /\ pc = "down"
  /\ version # Partial
  /\ \/ DiskVersion = 0 /\ StartStamp("check", CURRENT) /\ UNCHANGED current
     \/ DiskVersion \in 1..CURRENT - 1 /\ StartSteps("start", CURRENT)
     \/ /\ DiskVersion >= CURRENT
        /\ pc' = "opening" /\ op' = "check"
        /\ UNCHANGED <<current, goal, todo>>
  /\ UNCHANGED <<column, result, versionFiles, database, backup, registry,
                 restored, acknowledged>>

(* heapstore_migration_forward; nothing to do when the version is there.   *)
CallForward ==
  /\ pc = "up"
  /\ \E target \in Targets :
       LET wanted == IF target = 0 THEN CURRENT ELSE target
       IN  DiskVersion < wanted /\ StartSteps("forward", wanted)
  /\ UNCHANGED <<column, result, versionFiles, database, backup, registry,
                 restored, acknowledged>>

CallSetVersion ==
  /\ pc = "up"
  /\ \E v \in Stamps : StartStamp("set", v)
  /\ UNCHANGED <<current, column, result, versionFiles, database, backup,
                 registry, restored, acknowledged>>

Succeed ==
  /\ result' = "SUCCESS"
  /\ IF op \in {"check", "start"}
     THEN pc' = "opening" /\ UNCHANGED op
     ELSE pc' = "up" /\ op' = "none"

(* heapstore_init gives up when the check or the migration fails.          *)
Fail ==
  /\ result' = "INTERNAL"
  /\ pc' = IF op \in {"check", "start"} THEN "down" ELSE "up"
  /\ op' = "none"
  /\ todo' = {}

-----------------------------------------------------------------------------
(* Mutant: the file is renamed to its backup, not copied.                  *)
StepBackup_Moves ==
  /\ pc = "stepping" /\ todo # {}
  /\ backup' = main /\ main' = {}
  /\ column' = 1
  /\ pc' = "altering"
  /\ UNCHANGED <<op, current, goal, todo, result, versionFiles, exists, wal,
                 registry, restored, acknowledged>>

(* mig_apply_cols: the backup of registry.db, without its log.  There is a *)
(* database whenever steps are left, so its absence is not a case here.    *)
StepBackup ==
  /\ pc = "stepping" /\ todo # {}
  /\ backup' = main
  /\ column' = 1
  /\ pc' = "altering"
  /\ UNCHANGED <<op, current, goal, todo, result, versionFiles, database,
                 registry, restored, acknowledged>>

StepBackupFails ==
  /\ pc = "stepping" /\ todo # {}
  /\ backup' \in {backup, Partial}
  /\ Fail
  /\ UNCHANGED <<current, goal, column, versionFiles, database, registry,
                 restored, acknowledged>>

(* The step in progress: the first one left. *)
step == CHOOSE s \in todo : \A r \in todo : s <= r

(* mig_add_column: each ALTER commits alone, on the migration's own        *)
(* connection; a column that is there is passed over.                      *)
AddColumn ==
  /\ pc = "altering"
  /\ column <= Len(ForwardSteps[step].columns)
  /\ wal' = wal \cup ({ForwardSteps[step].columns[column]} \ main)
  /\ column' = column + 1
  /\ UNCHANGED <<pc, op, current, goal, todo, result, versionFiles, exists,
                 main, backup, registry, restored, acknowledged>>

(* Mutant: a column that cannot be added is passed over.                   *)
StepFails_Ignored ==
  /\ pc = "altering"
  /\ column <= Len(ForwardSteps[step].columns)
  /\ column' = column + 1
  /\ UNCHANGED <<pc, op, current, goal, todo, result, versionFiles, database,
                 backup, registry, restored, acknowledged>>

(* The database does not open, or a column cannot be added (another        *)
(* connection is writing, say): the backup is renamed over registry.db.    *)
(* The rename's failure is not looked at.                                  *)
StepFails ==
  /\ pc = "altering"
  /\ column <= Len(ForwardSteps[step].columns)
  /\ \/ /\ main' = backup
        /\ backup' = NoFile
        /\ registry' = IF registry = "closed" THEN "closed" ELSE "detached"
        /\ restored' = TRUE
     \/ UNCHANGED <<main, backup, registry, restored>>
  /\ Fail
  /\ UNCHANGED <<current, goal, column, versionFiles, exists, wal, acknowledged>>

(* Mutant: the version is stamped after each step.                         *)
StepDone_StampsEach ==
  /\ pc = "altering"
  /\ column > Len(ForwardSteps[step].columns)
  /\ backup' = NoFile
  /\ version' = ForwardSteps[step].to
  /\ todo' = todo \ {step}
  /\ pc' = "stepping"
  /\ UNCHANGED <<op, current, goal, column, result, tmp, database, registry,
                 restored, acknowledged>>

StepDone ==
  /\ pc = "altering"
  /\ column > Len(ForwardSteps[step].columns)
  /\ backup' = NoFile
  /\ todo' = todo \ {step}
  /\ pc' = "stepping"
  /\ UNCHANGED <<op, current, goal, column, result, versionFiles, database,
                 registry, restored, acknowledged>>

StepsDone ==
  /\ pc = "stepping" /\ todo = {}
  /\ pc' = "stamping"
  /\ UNCHANGED <<op, current, goal, todo, column, result, versionFiles,
                 database, backup, registry, restored, acknowledged>>

-----------------------------------------------------------------------------
(* Mutant: the version file itself is opened for writing.                  *)
StampOpen_InPlace ==
  /\ pc = "stamping"
  /\ version' = Partial
  /\ pc' = "writing"
  /\ UNCHANGED <<op, current, goal, todo, column, result, tmp, database,
                 backup, registry, restored, acknowledged>>

(* heapstore_migration_set_version: the temporary file is created, ...     *)
StampOpen ==
  /\ pc = "stamping"
  /\ tmp' = Partial
  /\ pc' = "writing"
  /\ UNCHANGED <<op, current, goal, todo, column, result, version, database,
                 backup, registry, restored, acknowledged>>

(* ... written, synced and closed, ...                                     *)
StampWrite ==
  /\ pc = "writing"
  /\ tmp' = goal
  /\ pc' = "replacing"
  /\ UNCHANGED <<op, current, goal, todo, column, result, version, database,
                 backup, registry, restored, acknowledged>>

(* ... and renamed over the version file.                                  *)
StampReplace ==
  /\ pc = "replacing"
  /\ version' = tmp
  /\ tmp' = NoFile
  /\ Succeed
  /\ UNCHANGED <<current, goal, todo, column, database, backup, registry,
                 restored, acknowledged>>

(* Mutant: heapstore_init goes on although the check failed.               *)
StampFails_InitGoesOn ==
  /\ pc \in {"stamping", "writing", "replacing"}
  /\ tmp' = IF pc = "stamping" THEN tmp ELSE NoFile
  /\ Succeed
  /\ UNCHANGED <<current, goal, todo, column, version, database, backup,
                 registry, restored, acknowledged>>

(* Each of the three may fail; what there is of the temporary is removed.  *)
StampFails ==
  /\ pc \in {"stamping", "writing", "replacing"}
  /\ tmp' = IF pc = "stamping" THEN tmp ELSE NoFile
  /\ Fail
  /\ UNCHANGED <<current, goal, column, version, database, backup, registry,
                 restored, acknowledged>>

-----------------------------------------------------------------------------
(* heapstore_registry_init: a new database has all the columns.            *)
OpenRegistry ==
  /\ pc = "opening"
  /\ exists' = TRUE
  /\ wal' = IF exists THEN wal ELSE Columns
  /\ registry' = "attached"
  /\ pc' = "up" /\ op' = "none"
  /\ UNCHANGED <<current, goal, todo, column, result, versionFiles, main,
                 backup, restored, acknowledged>>

OpenRegistryFails ==
  /\ pc = "opening"
  /\ Fail
  /\ UNCHANGED <<current, goal, column, versionFiles, database, backup,
                 registry, restored, acknowledged>>

(* Another thread's insert: a commit goes to the log. *)
Insert ==
  /\ registry # "closed"
  /\ \E row \in Rows \ acknowledged :
       /\ acknowledged' = acknowledged \cup {row}
       /\ wal' = wal \cup {row}
  /\ UNCHANGED <<call, versionFiles, exists, main, backup, registry, restored>>

(* SQLite moves the log into registry.db at a time of its own.  A detached *)
(* connection moves it into the file it holds, which has no name any more; *)
(* the migration's own connection, the last one to the new file when it    *)
(* closes, moves it into that.                                             *)
Checkpoint ==
  /\ registry # "closed" /\ wal # {}
  /\ main' \in {Stored} \cup (IF registry = "detached" THEN {main} ELSE {})
  /\ wal' = {}
  /\ UNCHANGED <<call, versionFiles, exists, backup, registry, restored,
                 acknowledged>>

(* heapstore_shutdown; closing the last connection empties the log, unless *)
(* its file is not the one of that name any more.                          *)
Shutdown ==
  /\ pc = "up"
  /\ pc' = "down"
  /\ IF registry = "attached" THEN main' = Stored /\ wal' = {}
                              ELSE UNCHANGED <<main, wal>>
  /\ registry' = "closed"
  /\ UNCHANGED <<op, current, goal, todo, column, result, versionFiles, exists,
                 backup, restored, acknowledged>>

(* The process dies; the files stay as they are.                           *)
Crash ==
  /\ pc # "down"
  /\ pc' = "down" /\ op' = "none"
  /\ todo' = {}
  /\ registry' = "closed"
  /\ UNCHANGED <<current, goal, column, result, versionFiles, database, backup,
                 restored, acknowledged>>

Next ==
  \/ InitCheck \/ CallForward \/ CallSetVersion
  \/ StepBackup \/ StepBackupFails \/ AddColumn \/ StepFails \/ StepDone
  \/ StepsDone \/ StampOpen \/ StampWrite \/ StampReplace \/ StampFails
  \/ OpenRegistry \/ OpenRegistryFails
  \/ Insert \/ Checkpoint \/ Shutdown \/ Crash

Spec == Init /\ [][Next]_vars

-----------------------------------------------------------------------------
Contents == SUBSET (Columns \cup Rows)

(* Every variable holds a value of its type.                               *)
TypeOK ==
  /\ pc \in Locations
  /\ op \in Operations
  /\ current \in Nat
  /\ goal \in Nat
  /\ todo \subseteq StepIds
  /\ column \in Nat \ {0}
  /\ result \in {"SUCCESS", "INTERNAL"}
  /\ version \in Nat \cup {Partial, NoFile}
  /\ tmp \in Nat \cup {Partial, NoFile}
  /\ exists \in BOOLEAN
  /\ main \in Contents
  /\ wal \in Contents
  /\ backup \in Contents \cup {Partial, NoFile}
  /\ registry \in Connections
  /\ restored \in BOOLEAN
  /\ acknowledged \subseteq Rows

(* "A crash mid-update must never leave an empty or partially written      *)
(* version file behind" (migration.c:453-455), whenever it happens.        *)
VersionNeverTorn == version # Partial

(* The version never says more than the schema has: every column of every  *)
(* step up to it is there for whoever opens the database, through failing  *)
(* steps, crashes and repeated migrations ("the version is bumped only     *)
(* after success", heapstore_migration.h:108, by a migration that "adds    *)
(* fields", :107), as long as no backup has been put in the place of the   *)
(* database the registry has open.  It holds for targets that are ends of  *)
(* steps; after a target between two ends it does not.                     *)
SchemaMatchesVersion ==
  ~restored /\ version \in Nat =>
    \A s \in StepIds : ForwardSteps[s].to <= version => StepColumns(s) \subseteq Stored

(* "Fail closed" (core.c:222): the registry is opened only under a version *)
(* that was read or has been stamped, and is not an older one.             *)
FailClosed == pc = "opening" => version \in Nat /\ version >= CURRENT

(* "The version is untouched on failure" (heapstore_migration.h:118): a    *)
(* forward migration that reports an error leaves the version it read.     *)
VersionUntouchedOnFailure ==
  [][op = "forward" /\ op' = "none" /\ pc' = "up" /\ result' = "INTERNAL"
       => version' = current]_vars

(* "Original data is preserved" (heapstore_migration.h:108): a row whose   *)
(* insert was acknowledged is found by the next process to open the        *)
(* registry, through failing steps, crashes at any point and checkpoints,  *)
(* unless a failed step has put a backup in the place of the database      *)
(* (heapstore_migration.c:364).                                            *)
LostOnlyByRestore == pc = "down" /\ ~restored => acknowledged \subseteq Stored
=============================================================================
