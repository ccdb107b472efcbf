# heapstore: a verification development

heapstore is the storage layer of an agent runtime: a C library, linked into a
daemon, that keeps logs, a registry of agents, skills and sessions, trace
spans, memory records and batched writes under one data root. This directory
holds TLA+ models of it, the TLC configurations that check them on small
instances, and TLAPS proofs for every value of the constants.

Source paths below are relative to the repository's `src/` (the C files) and
`include/` (the headers); bare line numbers refer to the file a section is
about.

## 1. The system

One process, any number of caller threads. Every engine is a set of static
variables behind one mutex; no engine has a thread of its own, no call waits
for anything but a mutex and the file system. The hard behaviours therefore
come from three places: *tests made outside the lock* (`s_initialized`, a
capacity, the breaker's state), *operations of several steps that may fail or
die in the middle* (a batch, a flush, a rotation, a migration), and *files
that outlive the process*.

```
 callers -> integration.c -> core.c / core_write.c / core_circuit.c / core_metrics.c
                                 |           |            |
                                 v           v            v
                  registry (SQLite | memory)  trace     log     memory records
                       ^        ^
                  core_batch.c  migration.c (registry.db, its backup, the version file)
```

| component | state | operations | interacts with | hard behaviours | what makes it correct |
|---|---|---|---|---|---|
| **trace store** `heapstore_trace.c` | span buffer and count, heap copies of attributes, span files named by the second | `write_span`, `write_spans_batch`, `flush`, `cleanup`, `init`, `shutdown`; queries and the JSON export read | file helpers (`dir_clean`); called by core flush and cleanup and by integration | threads on one buffer; an allocation that fails in the middle of a batch; ignored results of `fputs`/`fclose`; two flushes in a second; a crash during a flush | no accepted span disappears in silence, is exported twice or is torn from its batch; no slot carries memory the caller owns; no path keeps the lock |
| **batch context** `heapstore_core_batch.c` | capacity, count, a linked list, a lock | `begin`, `add_session`, `commit`, `context_destroy`, `get_count` | `heapstore_registry_add_session`, once per item | the capacity is tested outside the lock, twice; adds run while a commit walks the list it detached; a record in the middle is refused | count = length of the list; each accepted item ends in exactly one place; commit's result tells what was stored; no stream of adds keeps a commit going |
| **registry, SQLite** `heapstore_registry_sqlite*.c` | one connection `s_registry.db` and its transaction, `s_registry.lock`, the tables | add/get/update/delete for agents, skills, sessions; batch inserts; queries and iterators; `vacuum`, `init`, `shutdown` | SQLite (external); core init; batch; integration; migration opens the same file on a connection of its own | a failure in the middle of a transaction, a COMMIT that fails, a crash, an iterator that steps without the lock | it implements an atomic durable table (`HeapstoreRegistrySpec`) |
| **registry, in memory** `heapstore_registry.c` | three linked lists, no lock | the same interface without SQLite | the same | duplicate in the middle of a batch; an iterator over a deleted node; two unlocked adds | while callers take turns: ids stay unique, iterations are complete, inserts only add |
| **schema migration** `heapstore_migration.c`, `_forward.c` | `registry.db`, `registry.db.pre_migration_bak`, the version file | `get_version`, `set_version`, `check`, `forward`, with backup, column changes and restore | the registry's database, in WAL mode; core init runs `check` and `forward(0)` | a crash between ALTERs, between schema and version; a restore under an open connection; a target between two steps | the version never says more than the schema has; a failed migration changes nothing; a restarted one finishes |
| **log store** `heapstore_log.c` | main file, up to 32 service files, one lock | `log_write`, `rotate`, `cleanup`, `set_level`, `init`, `shutdown` | core cleanup unlinks its files; rotation | a rename that fails, a line that is written in part, two rotations in a second, an unlink of an open file, the 33rd service | a written line is in a file that has a name, until a cleanup says otherwise |
| **circuit breaker adapter** `heapstore_core_circuit.c` | `s_cb`, its lock, `s_cb_lock_ready` | `circuit_init`, `circ_stop`, `record_success`, `record_failure`, `circuit_open`, `apply_config`, `reset`, `get_state` | the commons breaker (external); write path, health check, reload | a state read and acted on later; probes in HALF_OPEN; re-arming while callers are inside | the live breaker follows the configuration callers see; openings are counted once |
| **guarded write path** `heapstore_core_write.c` | none of its own | `log_write_fast`, `log_write_slow`, `cleanup`, `get_stats` | ready flag, breaker, log, metrics | an init that fails between its two readiness tests; failures that are never recorded; `dry_run` | every admitted write is counted once; its outcome ought to reach the breaker (section 5, last note); a cleanup removes and reports by one configuration in force |
| **metrics** `heapstore_core_metrics.c` | C11 atomics | `update`, `trip`, `get`, `reset` | write path, breaker | lock-free peak by compare-and-swap, reset against update | the peak is a maximum; counters add up |
| **memory records** `heapstore_memory.c` | two tables of bounded size, one lock | record/get/update/free, `stats` | integration | a full table; a freed record that is never removed | a table holds exactly the acknowledged records, and every answer is about them |
| **core life cycle** `heapstore_core.c` | `s_initialized`, the configuration | `init` (with its unwinding), `shutdown`, `reload_config`, `flush`, `health_check` | starts and stops all of the above | the flag is set before the engines start; a failure half way; a health check that consumes a probe | outside init and shutdown the flag says whether all engines are up or none; a SUCCESS of a health check or a cleanup means that all are |
| **integration facade** `heapstore_integration.c` | one flag, one mutex | `init`, `shutdown`, `session_save`, `session_delete`, `trace_save`, `trace_export`, `logging_write` | core life cycle, registry, trace, log | the flag is read without the mutex | its flag implies a started core, unless the core is stopped behind its back |
| **file helpers** `utils.c`, `private.h` | none | `dir_size`, `dir_clean`, `pre_clean`, `path_clean`, `ident_safe`, `atomic_replace` | trace, log, migration | a file that vanishes during a scan | the files it removes are those before the cutoff |

The token engine that `README.md` of the repository lists
(`heapstore_token.c`) is not in the tree and no build file names it. The SQL
scripts under `migrations/` are loaded by nothing; the scripts under `scripts/`
are build tooling. `PROJECT.json` lists every component with its status, and
under `hazards` each place in the code where something can go wrong that a
test would hardly reach, with the properties that cover it or the reason why
none does yet.

## 2. The modules

| module | models | abstract or composed with |
|---|---|---|
| `HeapstoreTraceSpec` | what the trace store promises of the spans it accepted | implemented by the next |
| `HeapstoreTrace` | the span buffer, its files, crashes | `Ledger == INSTANCE HeapstoreTraceSpec WITH pending <- Pending, exported <- Exported \ Pending` |
| `HeapstoreTraceProofs` | theorems about it, the refinement among them | EXTENDS it |
| `HeapstoreBatch` | a batch context with the sessions table it commits to | |
| `HeapstoreBatchProofs` | theorems about it | EXTENDS it |
| `HeapstoreRegistrySpec` | what the registry promises | implemented by the next |
| `HeapstoreRegistry` | the SQLite backend with its iterators | `Registry == INSTANCE HeapstoreRegistrySpec WITH table <- disk` |
| `HeapstoreRegistryNodes` | the linked list of the in-memory backend and an iterator over it, and what must be true of the two | |
| `HeapstoreRegistryList` | the in-memory backend: the operations on them | EXTENDS it |
| `HeapstoreRegistryProofs` | theorems about both backends, the refinement of the first among them | EXTENDS `HeapstoreRegistry` and `HeapstoreRegistryNodes`, `List == INSTANCE HeapstoreRegistryList` |
| `HeapstoreMigration` | versions, migration steps, the files they work on, and `heapstore_init` as far as it drives them | |
| `HeapstoreMigrationProofs` | theorems about it | EXTENDS it |
| `HeapstoreLog` | the log files, their open handles, rotation, cleanup, crashes | |
| `HeapstoreLogProofs` | theorems about it | EXTENDS it |
| `HeapstoreCircuit` | guarded writes, the breaker adapter and the counters over an external breaker | |
| `HeapstoreCircuitProofs` | theorems about it | EXTENDS it |
| `HeapstoreMemory` | the tables of pools and allocations | |
| `HeapstoreMemoryProofs` | theorems about it | EXTENDS it |
| `HeapstoreCore` | the life cycle over the four engines, retention cleanup, reload, health check, and the facade | the engines are up or down; what they do is in the modules above |
| `HeapstoreCoreProofs` | theorems about it | EXTENDS it |
| `MC...` | the small instances TLC checks | EXTENDS the module of its name |

Conventions. State keeps the source's names (`s_span_count`, `s_trace_lock`,
`transaction` for the connection's open transaction, ...). `pc[t]` says where a
thread is in its call, and one action is one stretch of code between two points
at which another thread, a failure or a crash can show: the unlocked test of
`s_initialized` is an action, taking the lock is another, the body of a critical
section is one action per outcome, and it is cut further only where the code
touches a file or the database in between. A definition whose name has a suffix
(`FlushClose_NoReset`) is a mutant: a plausible bug that a property must
detect; no specification uses it. Variables marked *history* exist for the
properties only.

### HeapstoreTraceSpec and HeapstoreTrace

`HeapstoreTraceSpec` is a ledger of the accepted spans in three columns,
`pending`, `exported` and `lost`. A write enters one span or a whole batch
(`Write`); the pending spans leave *together*, each for the exports or for the losses
(`Settle`); an exported span may be lost later (`Discard`), and nothing ever comes back.
`HeapstoreTrace` implements it, although its flush takes a step per span. The mapping
is `pending <- Pending`, the counted slots of the buffer, and
`exported <- Exported \ Pending`: a span is pending until the flush that writes it closes its
file, so the writing of the file stutters and `FlushClose` is the `Settle`. A
crash is a `Settle` too (what stdio has passed on counts as exported), and so is a
shutdown that loses what was pending; a cleanup and the truncation of a file of
the same second are a `Discard`.

In `HeapstoreTrace`, `s_span_buffer`, `s_span_count`, `s_trace_lock` and `s_initialized` are the
statics of `heapstore_trace.c`. A span is a model value: the store never looks
into one except to copy its `attributes`, so a slot holds the span and whether
its `attributes` is NULL, the caller's pointer or the store's heap copy (`heap`
is the set of copies). `files` maps the second in a file's name to what the
file holds; `clock` is `time(NULL)`, advanced by `Tick`. `out` is the flush in
progress. `accepted` and `lost` are history: what callers were told SUCCESS
for, and what a *named* cause has removed since.

| code | actions |
|---|---|
| `heapstore_trace_init`, `_shutdown` | `TraceInit`, `TraceShutdown`; both only while no thread is in a call (heapstore_trace.h:37,49) |
| `heapstore_trace_write_span` | `CallWriteSpan`, `Lock`, then `SpanRejectedFull`, `SpanRejectedNoMemory` or `SpanAccepted` |
| `heapstore_trace_write_spans_batch` | `CallWriteBatch`, `Lock`, then `BatchRejectedFull`, `BatchRejectedNoMemory` or `BatchAccepted` |
| `heapstore_trace_flush` | `CallFlush`, `Lock`, then `FlushNothing`, `FlushOpenFails`, or `FlushOpen` followed by one `FlushWriteSpan` or `FlushWriteFails` per slot and `FlushClose` |
| `heapstore_trace_cleanup` with `heapstore_dir_clean` | `CallCleanup`, `Lock`, `Cleanup` |
| the process dies | `Crash`: memory is gone, files stay; stdio has passed on a prefix of the file being written |

### HeapstoreBatch

`capacity`, `count`, `list` and `lock` are the fields of the context. `pc`
separates the two unlocked capacity tests (`batch_item_new`, then
`batch_append_item`) from each other and from the linking under the lock
(`AddAllocate`, `AddChecked` or `AddRefused`, `AddLink`, `AddCount`). A commit
detaches list and count in one critical section (`CommitDetach`) and then, with
no lock of its own, hands one record after the other to
`heapstore_registry_add_session`, which takes the registry's lock
(`CommitLock`), stores or refuses the record and releases it (`CommitStore`,
`CommitReject`). `sessions` is that table as the commit sees it: a primary key
stores one record. An item that a commit refused or that was discarded may
be added again as a new one, so that the adds never run out.
`heapstore_batch_context_destroy` frees the context, so it is called by its
owner when no other thread uses it (`Destroy`).

### HeapstoreRegistrySpec and HeapstoreRegistry

`HeapstoreRegistrySpec` is what a caller may rely on: a table that survives the
process, calls that take effect at one moment between their beginning and their
return or not at all, and a batch that inserts all its records or none.

`HeapstoreRegistry` is the SQLite backend: one connection shared by all
threads, `view` (the table as that connection sees it), `disk` (what a
restarted process would find) and `transaction` (BEGIN was executed). Every
operation tests `s_registry.initialized` without the lock (`CallBegin`), takes
`s_registry.lock` (`Lock`) and runs. A single statement commits by itself unless
a transaction is open (`Execute`), which is how an unfinished batch would
swallow other calls' writes. A batch is `BatchBegin`, a `BatchInsertRow` per
record, `BatchInsertFails` (ROLLBACK) or `BatchCommit`. The refinement mapping is
`table <- disk`: the abstract change happens when the statement or the COMMIT
reaches the file, everything else stutters. The agents, skills and sessions
tables share the connection, the lock and the transaction and are used alike,
so one table stands for the three.

SQLite is external and modelled by what the code relies on: the connection sees
its own uncommitted rows; what was committed survives a crash of the *process*
(the code sets `journal_mode=WAL` and `synchronous=NORMAL`, which do not promise
as much for a loss of power); an open transaction is rolled back by `close` and
by recovery; a statement that fails changes nothing. A COMMIT may fail in two
ways, with the transaction rolled back or left open (SQLite documents
`SQLITE_BUSY` and some I/O errors for the second): the constant
`CommitOutcomes` says which of them an instance allows.

An iterator is a statement that stays open. `registry_query_open` prepares it
under the lock (`IterOpen`); `iter_next` steps it without the lock (`IterNext`,
`IterEnd`), on the connection a batch of another thread may be using. Which row
comes next is SQLite's affair, so the state of an iterator is only `open`,
`stepped` or `ended`; what the next step may show is the connection's `view`. A
shutdown with an iterator open leaks the connection (`leaked`), because
`sqlite3_close` refuses and its result is not looked at.

### HeapstoreRegistryNodes and HeapstoreRegistryList

The backend for builds without SQLite: a linked list per kind of record, no
lock. `list` is the sequence of nodes from the head on; each node has a serial
number in place of its address, which is what an iterator keeps (`cursor`). `due`
and `got` of the iterator and `before` are history. There are two
specifications: `Spec` lets inserts of several threads interleave, as the header
allows and the code does not support (finding 2); `SerialSpec` has the callers take turns, so
that nobody calls before an insert has returned. What the backend gets right, it gets right
there.

| code | actions |
|---|---|
| `heapstore_registry_init`, `_shutdown` | `RegistryInit` (it clears the pointers and frees nothing, so a second call loses the list), `RegistryShutdown` |
| `reg_batch`, `reg_add` | `CallInsert`, then per record `AddFound`, `AddNoMemory`, or `AddAllocate`, `AddReadHead`, `AddLink` |
| `reg_update`, `reg_delete`, `reg_get` | `Update`, `Delete`, `Get` |
| `reg_query`, `iter_next`, `iter_destroy` | `Query`, `IterNext`, `IterEnd`, `IterDestroy`; `IterNextFreed` when the node was freed, whose answer is undefined |

### HeapstoreMemory

`s_pools` and `s_allocations` are one function `slots` of the kind of table, with
`count` for the two counts: the functions for pools and those for allocations
are the same code twice. A record is its id and its content, the usage of a pool
or whether an allocation is freed. `acked` is history: what callers were told is
stored. `CallBegin` is the test of `s_initialized` before the lock; a `record` is
cut between its search and its store; every other call is one action per
outcome (`Change`, `Get`, `NotFound`, `Stats`, `RecordRefused`).

### HeapstoreCore

`s_initialized`, the set of `engines` that are up, the retention part of
`s_config` with its mutex, the facade's flag and mutex, and the `files` of the two
directories retention looks at, as their ages in days. What an engine answers is
chosen: one that is down refuses, one that is up may.

| code | actions |
|---|---|
| `heapstore_init` | `CallInit`, `InitConfig`, `InitDirectories` (which sets the flag) or `InitDirectoriesFail`, `InitMigrate` or `InitMigrateFails`, per engine `StartEngine` or `StartEngineFails`, then `InitDone`, or `Unwind` per engine and `Unwound` |
| `heapstore_shutdown` | `CallShutdown`, `StopEngine` per engine, `StopDone` |
| `heapstore_integration_init`, `_shutdown` | `CallFacade`, then `FacadeInit` or `FacadeInitAgain`, `FacadeShutdown`; in between the steps of the two above |
| the five calls of the facade | `CallSyscall`, `Forward` |
| `heapstore_health_check`, `heapstore_flush` | `CallHealth`, four times `AskEngine` (`Healthy`: the log is not while a rotation has left it without its main file), `AskBreaker`; `CallFlush` |
| `heapstore_reload_config` | `CallReload`, `ReloadLog`, `ReloadTrace`, `ReloadDone`: one action per field, under the mutex |
| `heapstore_cleanup` | `CallCleanup`, `Snapshot`, `CleanLog`, `CleanTrace`, `Report` |

`MayEnter` is what the headers ask of callers. `heapstore_init` and
`heapstore_shutdown` start only when no other thread is inside a call. The
facade's two are ordered by a mutex in the code, so two of them may overlap, and
nothing else starts while one shuts down or while two wait for each other. All
other calls may start during an init: `heapstore_ready` is thread safe, and says
yes from line 216 on. `heapstore_reload_config` is documented as not thread safe
(heapstore.h:326), but it takes the mutex that a cleanup takes, and is allowed
to run beside one here.

### HeapstoreMigration

Three files outlive the process: `version` (with `tmp`, its temporary),
`registry.db` with its write-ahead log, and `backup`. A database is the set of
what was added to it: the columns of the step table, by name, and the rows of
other threads. `main` is what `registry.db` itself holds, `wal` what only the
log holds; `Stored`, their union, is what whoever opens the database sees. The
distinction matters because `mig_backup_data_file` copies `registry.db` alone
and `mig_restore_data_file` renames that copy over a file the registry's
connection holds open in WAL mode: from then on `registry` is `"detached"`.
`ForwardSteps` is `g_forward_steps` with its real version numbers, since which
steps apply is arithmetic on them.

| code | actions |
|---|---|
| `heapstore_init`: `migration_check`, `forward(0)` | `InitCheck`, which goes on to a stamp, to the steps, or to the registry |
| `heapstore_migration_forward` | `CallForward`, then per step `StepBackup` (or `StepBackupFails`), an `AddColumn` per column, `StepDone` or `StepFails` (restore), and `StepsDone` |
| `heapstore_migration_set_version` | `CallSetVersion`; for it and for the two above `StampOpen`, `StampWrite`, `StampReplace`, or `StampFails` at any of them |
| `heapstore_registry_init`, `_shutdown` | `OpenRegistry`, `OpenRegistryFails`, `Shutdown` |
| other threads, SQLite | `Insert`, `Checkpoint` |
| the process dies | `Crash`, between any two of these |

`exists` means that the tables are there; `mig_apply_cols` does nothing without
a database, a case the state space has not: a version below `CURRENT` other than
0 is stamped by a store that is up. With today's table no step ends at or below
`CURRENT`, so `forward(0)` in `heapstore_init` finds none to run and only stamps;
the steps run in calls with a later target.

### HeapstoreLog

`s_main_log_file` and `s_service_logs` (the array with `s_service_log_count`, as
a function from service to handle) are the open `FILE*`s. What matters of a
handle is which file it writes to, so it *is* the name that file has now:
`rename` carries the handle along to the archive's name, `unlink` makes it
`Unlinked`, and what is written then is lost although the call succeeds.
`files` maps a name to the lines in it and its modification time; archives are
named by the second, `ArchiveName`. `Lines` are calls of `heapstore_log_write`,
each made once. `written` and `fate` are history: the order of the writes, and
what became of each line, with a name for each way to lose one.

| code | actions |
|---|---|
| `heapstore_log_init`, `_shutdown` | `LogInit`, `LogShutdown`; both only while no thread is in a call (heapstore_log.h:60,72). An init that cannot open its file changes nothing |
| `heapstore_log_set_level` | `SetLevel` |
| `heapstore_log_write` | `CallWrite` (the tests before the lock), `GetLogFile` or `GetLogFileFails` (which stands for a service name that is refused, too), `WriteLine` or `WriteLineFails` (its results are not looked at; a part of the line may have reached the file and changed its time) |
| `heapstore_log_rotate` | `CallRotate` (lock and close), `RotateRename` or `RotateRenameFails`, `RotateReopen` or `RotateReopenFails` |
| `heapstore_log_cleanup` | `CallCleanup`, then per file `CleanupStat` and `CleanupUnlink`, and `CleanupDone`; no lock anywhere |
| clock, process death | `Tick`, `Crash` |

`heapstore_log_write` nests `s_service_lock` in `s_log_lock` and nobody takes it
otherwise, so one lock stands for both. A tick of `clock` is both the second of
an archive's name and the unit of the retention; only whether two instants are
equal, or further apart than `Keep`, matters. `Tick` never goes back, while the
archive's name is local time, which does at the end of summer time:
`Chronological` is about the rest of the year.

### HeapstoreCircuit

One write passes three components: `write_dispatch` asks the adapter, calls the
log, tells the adapter the result and updates the counters. `s_cb` is the
breaker of the commons library, `NoBreaker` when it is NULL; `mirror` stands for
`s_cb_threshold` and `s_cb_timeout_sec`. Each function of the adapter is one
critical section of `s_cb_lock` and one action; only a failure that opens the
breaker is cut in two, because its note goes to a counter other threads reset
without that lock (`Report`, `NoteTrip`). The counters are C11 atomics, so
`heapstore_core_metrics_update` is one action per atomic operation, the
compare-and-swap loop included, and `heapstore_reset_metrics` one per store.

| code | actions |
|---|---|
| `heapstore_init`, `heapstore_shutdown` (their part here) | `CoreInit` and `CoreInitReturns`, or `CoreInitRefused`; `CoreShutdown`. They begin only while no thread is in a call (heapstore.h:158,172); from `CoreInit` on, calls are let in |
| `write_dispatch`, `heapstore_circuit_open` | `AdmitWrite` and the second readiness test, `CheckReady`; or `RejectWrite` and `ReturnRejected` |
| `heapstore_log_write` seen from outside, `record_success` | `RecordSuccess` |
| `heapstore_core_metrics_update` | `UpdateTotal`, `UpdateEnter`, `UpdatePeakLoad`, `UpdatePeakSwap`, `UpdateLeave`, `UpdatePath`, `UpdateFailed` |
| `heapstore_reset_metrics` | `ResetMetrics`, five times `ResetStore` |
| `record_failure`, `note_circuit_trip` | `FailWrite` in a write, `RecordFailure` called directly; `NoteTrip` |
| `heapstore_health_check`, `heapstore_reset_circuit`, `heapstore_reload_config` | `HealthCheck`, `ResetCircuit`, `ReloadConfig` |

The external breaker does what the adapter and `tests/test_heapstore_circuit.c`
rely on: it opens at the threshold, answers `cb_allow_request` with HALF_OPEN when
its timeout has elapsed, admits `half_open_max_calls` in that state, closes after
`success_threshold` successes and opens again on a failure. What cannot be told
from here (whether a failure reported while it is open restarts the timeout) may
go either way. The library reports a failure (`FailWrite`) where a write was let in by
the flag that `heapstore_init` sets early and finds it cleared again, because an
engine did not start (`heapstore_core_write.c:150`): `starting` is the time between the
two, and such a write counts as an operation and as failed. `RecordFailure` is there
because the tests call it. The operation time is left out: it is always 0.
`heapstore_init` without a root path keeps the breaker configuration of the
previous life although it resets the store's own to the defaults;
`mirror' \in Configs` covers both.

## 3. What the runs check

| run | instance | shows |
|---|---|---|
| `trace` | 2 threads, 4 spans (3 with attributes, 2 forming a batch), 2 slots, 2 seconds; 165 616 states | `OwnedAttributes`, `Conservation`, `ExportedOnce`, `BatchAtomic`, `FlushComplete`, `LockReleased`, the refinement `ImplementsLedger` |
| `trace_overwrite` | the same | finding: `ExportsSurviveFlush` is violated |
| `batch` | 2 threads, 4 items that may be added again once they were refused, 2 with the same id, requested sizes 0, 1 and 5, maximum 2; 198 653 states | `CountMatchesList`, `ExactlyOnePlace`, `OvershootBounded`, `CommitTruthful`, `CommitTerminates` |
| `registry` | 2 threads, one with an iterator, 2 keys, 2 values, 1 batch of both keys, COMMIT succeeds or rolls back; 2 495 016 states | `NoOpenTransaction`, the refinement `ImplementsRegistry` |
| `registry_list` | 2 threads that take turns (`SerialSpec`), 3 ids, 2 values, single inserts and a batch of three, at most 3 nodes; 3 502 856 states | `UniqueIds`, `IterationComplete`, `InsertsAdd` |
| `registry_list_threads` | the same two threads, their inserts overlapping (`Spec`) | finding: `InsertLosesNothing` is violated |
| `migration` | targets 0, 10100 and 20000, a direct stamp of 9999, 1 row of another thread; 577 275 states | `VersionNeverTorn`, `SchemaMatchesVersion`, `FailClosed`, `LostOnlyByRestore`, `VersionUntouchedOnFailure` |
| `migration_between` | targets 10050, which lies within a step, and 10100 | finding: `SchemaMatchesVersion` is violated |
| `log` | 2 writers, 1 cleaner, 3 lines (2 services, and none), room for 1 service, retention 1, 3 instants; 2 432 199 states, writers symmetric | `LinesConserved`, `HandlesMatch`, `Chronological`, `OnlyExpiredRemoved` |
| `circuit` | 2 threads, 2 writes, 2 reported failures, thresholds 1 and 2, timeout 1, 2 instants; inits that fail under the calls they let in; 2 108 335 states | `ConfigInForce`, `TripsCounted`, `ConcurrentOpsMatch`, `PeakSeen`, `TotalsAgree` |
| `memory` | 2 threads, 2 ids, room for 2 pools and 1 allocation, 2 usages; 152 321 states | `TableIsAcknowledged`, `AnswersTruthful` |
| `core` | 2 threads, symmetric, retentions of 1 or 2 days, files of every age; 387 277 states | `EnginesFollowFlag`, `SuccessMeansServing`, `FacadeServes`, `CleanupHonest` |

The type invariants are theorems (section 4), those of the breaker, of the life
cycle and of the in-memory registry as a part of an invariant proved there. For each property of a passing run
`PROJECT.json` names a mutant of one mapped definition that makes TLC report
that property.

**Bounds.** Two threads suffice for every race the code has, because each
operation interferes with another through one unlocked test or one critical
section; `OvershootBounded`, the one property that counts threads, is proved for
any number of them. The buffer and the context are smaller than what the
threads offer, so full, exactly full and overfull all occur, and the batch of
two spans does not fit after a single one. Two seconds of `clock` (`MaxClock`)
give flushes of the same and of different seconds and files older than a
cutoff. `Spans` bounds the behaviours: each stands for one accepted
write, so a span is offered until it is accepted and not again. `Items` bounds what is
under way at one time only: adds go on for ever, which `CommitTerminates` needs to say anything. Two keys and
two values let a batch collide with single inserts, updates and deletes on
either of its rows. The migration's targets are the versions of the step table
and 0; the stamp 9999 is the only way to a start that calls `forward(0)`; one row
is enough to be lost, and columns are repeated, skipped and half added without
it. In `log` two services compete for one place of the table,
so that two of the three lines can meet in the main file and its archives, and
three instants with a retention of one let a file expire, be replaced within a
second and be rotated twice. In `circuit` two writes overlap each other, a reset of the
counters and two failures, which is what a lost peak, a wrapped count, or a trip
noted late needs; a second instant lets the timeout of the first opening elapse
and that of the second not. In `registry_list` two threads share one
list and one iterator in turns, which is all the backend is made for; three ids and three nodes let an iterator
stand at, before and behind a node that is deleted, added or updated, and a batch stop
at its first, second or third record; the lists of a second init and of a shutdown differ in whether
the iterator's node survives. In `memory` one table holds one record and the other
two, so that a full table is asked for a known id and for a new one, and two
threads can record the same id at once. In `core` two threads let each call overlap an
init, an unwinding, a reload or another facade call, two days of retention
make an old and a new configuration disagree about a file in both directories.
A simulation of `core` with three threads found nothing further. No module has a state constraint; every bound is a constant in a guard
(`MaxClock`, `MaxCalls`, `MaxFailures`, `MaxNodes`) or a finite set (`Spans`, `Items`, `Ids`, `Targets`, `Stamps`,
`Rows`, `Lines`).

**Fairness.** Only what the operating system's scheduler gives:
`WF_vars(Holding(t))` in the trace store, a thread that holds a mutex is scheduled
again, and `WF_vars(CommitRun(t))` in the batch context, a thread in the loop of a
commit that waits for no mutex keeps running. Taking a mutex is *not* fair (POSIX
mutexes are not), nor is calling an operation, so nothing is claimed about
callers that starve. `LockReleased` says that every path through every critical
section ends in an unlock. `CommitTerminates` says that adds cannot keep a
commit going: it returns, or it waits from some time on for the registry's lock, which
the records of other commits, or the daemon's other calls, may take again and again
(`CommitLock` is not fair). The other modules assume no
fairness: that no path keeps a lock is for `HeapstoreLog`, `HeapstoreMemory` and
`HeapstoreCircuit` a matter of their invariants (an idle thread holds none), and for
all of them of the deadlock check, which is on in every run.

## 4. What is proved

TLAPS proves, for every set of threads, of spans and of batches, every buffer
size and every duration, every set of targets, stamps and rows (of those
`OnPath` admits where it is named), every set of keys, values and records, every
capacity of the memory tables and of the table of service files, every set of
services and lines, every set of breaker configurations, and every retention:

| theorem | states |
|---|---|
| `HeapstoreTraceProofs!TypeCorrect` | `Spec => []TypeOK`, with the bound `s_span_count <= MaxSpans` |
| `HeapstoreTraceProofs!AttributesOwned` | `Spec => []OwnedAttributes` |
| `HeapstoreTraceProofs!SpansConserved` | `Spec => []Conservation` |
| `HeapstoreTraceProofs!SpansExportedOnce` | `Spec => []ExportedOnce` |
| `HeapstoreTraceProofs!FlushesComplete` | `Spec => FlushComplete`, an action property |
| `HeapstoreTraceProofs!BatchesAreWhole` | `Spec => []BatchAtomic` |
| `HeapstoreTraceProofs!StoreRefinesLedger` | `Spec => ImplementsLedger`, the refinement |
| `HeapstoreBatchProofs!TypeCorrect` | `Spec => []TypeOK` |
| `HeapstoreBatchProofs!CountAgrees` | `Spec => []CountMatchesList` |
| `HeapstoreBatchProofs!OvershootIsBounded` | `Spec => []OvershootBounded` |
| `HeapstoreBatchProofs!ItemsHaveOnePlace` | `Spec => []ExactlyOnePlace` |
| `HeapstoreBatchProofs!CommitsTellTheTruth` | `Spec => CommitTruthful`, an action property |
| `HeapstoreMigrationProofs!TypeCorrect` | `Spec => [](TypeOK /\ VersionNeverTorn)` |
| `HeapstoreMigrationProofs!InitFailsClosed` | `Spec => []FailClosed` |
| `HeapstoreMigrationProofs!FailureKeepsVersion` | `Spec => VersionUntouchedOnFailure`, an action property |
| `HeapstoreMigrationProofs!SchemaNeverBehind` | `OnPath` implies `Spec => []SchemaMatchesVersion` |
| `HeapstoreMigrationProofs!RowsOutliveCrashes` | `Spec => []LostOnlyByRestore` |
| `HeapstoreRegistryProofs!TypeCorrect` | `CommitSettles` implies `Spec => []TypeOK` |
| `HeapstoreRegistryProofs!TransactionsEnd` | `CommitSettles` implies `Spec => []NoOpenTransaction` |
| `HeapstoreRegistryProofs!BackendRefines` | `CommitSettles` implies `Spec => ImplementsRegistry`, the refinement |
| `HeapstoreRegistryProofs!ListUniqueIds` | `List!SerialSpec => []UniqueIds` |
| `HeapstoreRegistryProofs!ListIterationComplete` | `List!SerialSpec => []IterationComplete` |
| `HeapstoreRegistryProofs!ListInsertsAdd` | `List!SerialSpec => List!InsertsAdd`, an action property |
| `HeapstoreMemoryProofs!TypeCorrect` | `Spec => []TypeOK` |
| `HeapstoreMemoryProofs!TablesExact` | `Spec => []TableIsAcknowledged` |
| `HeapstoreMemoryProofs!AnswersAreTruthful` | `Spec => AnswersTruthful`, an action property |
| `HeapstoreLogProofs!LockFollowsSections` | `Spec => []TypeOK`, with the bound of the table of service files and the holder of `s_log_lock` |
| `HeapstoreLogProofs!LinesAreConserved` | `Spec => []LinesConserved` |
| `HeapstoreLogProofs!HandlesAreTheirOwn` | `Spec => []HandlesMatch` |
| `HeapstoreLogProofs!ArchivesAreInOrder` | `Spec => []Chronological` |
| `HeapstoreLogProofs!RetentionIsKept` | `Spec => OnlyExpiredRemoved`, an action property |
| `HeapstoreCircuitProofs!ConfigFollowed` | `Spec => []ConfigInForce` |
| `HeapstoreCircuitProofs!TripsAreCounted` | `Spec => []TripsCounted` |
| `HeapstoreCircuitProofs!ConcurrentOpsAgree` | `Spec => []ConcurrentOpsMatch` |
| `HeapstoreCircuitProofs!PeakIsSeen` | `Spec => []PeakSeen` |
| `HeapstoreCircuitProofs!TotalsAdd` | `Spec => []TotalsAgree` |
| `HeapstoreCoreProofs!FlagIsTrue` | `Spec => []EnginesFollowFlag` |
| `HeapstoreCoreProofs!SuccessIsMeant` | `Spec => []SuccessMeansServing` |
| `HeapstoreCoreProofs!FacadeIsServed` | `Spec => []FacadeServes` |
| `HeapstoreCoreProofs!CleanupIsHonest` | `Spec => []CleanupHonest` |

Assumptions are the named `ASSUME`s of the modules: the buffer has a slot,
`NoThread` and `NoSpan` are not elements of the sets they are compared with, a
span belongs to at most one batch (a span stands for *one* write), the set of
threads is finite where the code counts threads (batch context, counters) and,
for the batch context, not empty. In the log store services, the main file and
the archives have names that differ, which is what the code's three name formats
give, and the marks for no file, a closed handle and an unlinked one are none of
them; services and lines are finite sets, for the bound of the table. In the
breaker thresholds and timeouts are positive: the code keeps the setting it has
when it is asked for a 0 (`heapstore_core_circuit.c:167`). Timeouts are taken to
be shorter than 49 days, from where `s_cb_timeout_sec * 1000u` wraps.

*Trace store.* `TypeOK` is not inductive: the count is bounded only because
each critical section tests it and nobody else runs meanwhile. `Core` adds
`Protocol` (the holder of `s_trace_lock` is the one thread inside a critical
section, and each thread's argument fits its operation) and `Filled` (counted
slots hold spans, an open flush's index is in range). `Owned` then adds that a
span being written is not in the buffer, which makes two slots with one copy
impossible. `Kept` relates `accepted`, the buffer, the files and `lost` at every
point of a flush: what the loop has passed is in the file or in `out.dropped`,
what it has not reached is in no file. `Conservation`, `ExportedOnce` and
`FlushComplete` follow from it. Each lemma has a step per action. `BatchAtomic`
is inductive next to these three: an accepted batch lies in consecutive new slots
under one lock; while a flush is open what it has passed is in its file and what it
has not is still counted, so nothing is claimed of that file; closing it leaves a
batch in the file whole, less what `out.dropped` names; and a crash turns what
was in memory, and the tail of the file, into `lost`. The lemmas `WriteSpanPends`,
`WriteBatchPends` and `NothingMoves` say what a write adds to the pending spans and
serve all the proofs about this store. The refinement (`StoreRefinesLedger`) needs no new invariant:
`Kept` already says which pending spans the open file has, so the mapping
`exported <- Exported \ Pending` leaves the loop of a flush without effect on the
ledger, one lemma per kind of step (`LedgerAccept` to `LedgerOutside`) says which
abstract action the others are, and `LedgerStep` joins them.

*Batch context.* `Core` is `TypeOK` with `Locking`: `count` is the length of
`list`, one less while the lock holder has linked an item and not counted it.
`Overshoot` counts the threads between the test and the link (`Appending`):
`count` plus those is at most `capacity - 1` plus the number of threads, since a
thread enters `Appending` only when it saw `count < capacity`. `Walking` (who holds the
registry's lock is in the loop of a commit, at a record) belongs to it. For the two properties
of the records the invariant is `Places`: each thread between allocation and
count holds an item nobody else has (`Held`); the list, what each commit has
still ahead, and what is stored, refused or dropped are pairwise disjoint and
repeat nothing (`Apart`); together they are exactly what was linked (`Placed`); and
what a commit has passed is stored or refused, with SUCCESS so far exactly when
nothing of it was refused (`Told`). `ExactlyOnePlace` *counts* the places of an
item, so the step from `Places` to it is about cardinalities of sets of at most one
element.

*Migration.* `Core` adds `Control` to the types: what each point of the control
implies for the operation, the steps left, the backup and the temporary (it is
complete before the rename), and that a forward migration leaves the version
alone until its stamp. The first three theorems follow. `Schema` adds what makes
`SchemaMatchesVersion` inductive: all versions lie on `Boundaries` (up to
`CURRENT`, or the end of a step), the steps a migration need not run or has run
have all their columns (`StepsTaken`), and so does the part of the step in
progress that is behind `column` (`ColumnsTaken`). `OnPath` (targets are 0 or
ends of steps, stamps are at most `CURRENT`) is a hypothesis because the property
fails without it: a target between two steps loses the step that spans it
(finding 3). `SchemaMatchesVersion` itself excludes executions in which a backup
was restored; `RowsOutliveCrashes` says that a restore is also the only way to
lose an acknowledged row: `main` and `wal` together hold every row, and no step
but the restore takes one from both.

*SQLite registry.* `CommitSettles` says that a COMMIT either succeeds or rolls
back; without it the theorems fail (section 5). The invariant says who is inside
the lock and that `transaction` holds exactly while the lock's holder is inserting;
elsewhere `view = disk`. With it every step of the backend is a step of
`HeapstoreRegistrySpec` or a stutter: `Lock`, `BatchBegin` and each insert stutter, a
statement and a COMMIT are the abstract effect, a failure the abstract failure.

*Memory records.* The invariant adds to the types that the lock's holder is the
one thread past `Lock`, and that a thread between its search and its store has
found the place that belongs to its id: the slot that holds it, or the first
free one, which exists since the capacity was tested in the same section.
`AnswersTruthful` then needs that the number of acknowledged ids is the count,
a bijection between slots and ids.

*In-memory registry.* The theorems are about `SerialSpec`, callers that take turns, and hold for
any number of them, any sets of ids and values, any arrays of records and any `MaxNodes`. They
assume `ListAssumption`: no record and no address is the null pointer, and an array
that is inserted is not empty (`reg_batch` refuses one, heapstore_registry.c:173). `UniqueIds` and
`IterationComplete` rest on one observation: nodes are allocated with rising serial numbers and linked
at the head, so along a list the numbers *fall* (`Chain`). An iterator moves towards
smaller ones: what it has still to return is at or below its cursor (`Below`), what it has
returned is above, and what is added later is above too and never seen. Deleting and updating
leave the rest of a chain as it was. `OnCourse` says this of the list and of the one a second init leaked,
which is why `ListShape` has the two disjoint. For the inserts `Adding` says that
while one runs, the list holds what was there when it began and the records it has passed,
and that the head it has read *is* the head. That is where taking turns is
needed: under `Spec` another insert may have moved it, and linking then drops a
node (finding 2, `InsertLosesNothing`). The deleting thread's `RemoveAt` and the cursor's `SubSeq` are reasoned about
position by position, in lemmas of their own (`NodeFacts` and those after it).

*Log store.* `TypeOK` ties the lock to the critical sections. `Sections` says what
a thread relies on where it is: a writer's line has the fate `"writing"` and its
handle is open, a rotation has closed the main file, a cleanup's cutoff is not in
the future. `OwnLines` (a line is written by one call) keeps two writers from
putting one line in two files, and `Named` (a handle on a name is a handle on a
file that exists) makes a write reach a file. With `Recorded` (no file is older
than a line in it) and `ArchivesPast` (no archive is named after a second to come) a
rotation puts the main file's lines behind those of every other archive, which
is `Chronological`. `Doomed` is needed because a cleanup looks at a file and unlinks it
later, with no lock: the lines it may find there by then are those it saw expired,
or were written after its cutoff, or the name is an archive's that a rotation took
over at or after that cutoff. It has to survive every write and rename of other
threads; with it `OnlyExpiredRemoved` is a fact about one step.

*Circuit breaker and counters.* The five invariants are nearly inductive together.
`Operands` says that a thread about to swap the peak has seen a lower one, which
is why a swap never lowers it; `Resetting` says which counters a reset that
overlaps no update has zeroed so far. What carries the proof is one lemma about
counting, `CountFollows`: when one thread moves, the number of threads at a set of
locations changes by one or not at all. The counters are integers here, and that
`current_concurrent_ops` never wraps is a consequence of `ConcurrentOpsMatch`.
A write that fails is one more thread at the locations `TotalsAgree` counts, and
one more that may hold the lock for the note of a trip.

*Life cycle and facade.* What the headers ask of callers becomes `Apart`: beside a
life-cycle call there is only another call of the facade, or, beside an init,
calls that use the store. `MutexHeld` makes the facade's mutex the holder of the one
life-cycle call under way, so `Phases` can say which engines are up at each
point of it, the unwinding and the shutdown order included; outside of it that is
`EnginesFollowFlag`. `AskedWhileUp` and `Serving` give `SuccessMeansServing`: the engine an
init starts last, the log, is among those asked; it is up only when all are, and
once it is up the init cannot unwind any more. `FacadeFlag`
places the facade's flag beside the calls that set it. `ConfigHeld` and `Cleaned`
follow a cleanup: its snapshot is a configuration that was in force while it
ran, never a half-written one, and what it has removed so far is older than
that allows and is what its total counts.

Model-checked only, because it is out of the prover's reach: liveness under fairness
(`LockReleased`, `CommitTerminates`). No proof uses `ENABLED`, and no model needs
a recursive definition. Every other property of a passing run is the subject of a theorem above. The
three findings are TLC's counterexamples.

## 5. Findings

1. **A flush within the same second erases the previous one**
   (`heapstore_trace.c:336`, run `trace_overwrite`). The file is named
   `spans_<second>.json` and opened with `"w"`; the first flush's spans have
   already left the buffer. The header promises "Force-export pending trace data"
   (heapstore_trace.h:143).
2. **Inserts into the in-memory registry lose each other**
   (`heapstore_registry.c:102`, run `registry_list_threads`). `reg_add` reads the
   head of the list and writes it with no lock between; of two inserts that
   overlap, both of which return SUCCESS, one record is gone.
   heapstore_registry.h:70 says "@threadsafe yes".
3. **A migration to a version between two steps loses the step that spans it**
   (`heapstore_migration.c:535`, run `migration_between`). A step applies when it begins at
   or above the version on disk: after `forward(10050)`, which runs nothing and
   stamps 10050, `forward(10100)` skips the step from 10000, stamps 10100 without its
   columns and returns SUCCESS, and no later call makes up for it.
   heapstore_migration.h:105-108 says of the call "forward-compatible migration
   (v_from -> v_to)" and "the version is bumped only after success".

### Noted without a run

Met while modelling, and either visible in a definition of the module, by one
change of a constant, or left to the reader of the line:

- *A dry run deletes* (`heapstore_core_write.c:216`). `heapstore_cleanup` runs the
  deleting cleanups whatever `dry_run` says and then reports no freed bytes;
  heapstore.h:295 says "If true, only report what would be cleaned without
  deleting". Every cleanup with `dry_run` shows it, so it has no run; `FreedAddsUp`
  does not ask a dry run for the report the code gives.
- *A COMMIT that fails is not rolled back* (`heapstore_registry_sqlite.c:287`),
  unlike the migration's (`heapstore_migration.c:303`). Where SQLite leaves the
  transaction open, the rows of the failed batch are visible to all later calls,
  whose writes join the transaction; heapstore_registry.h:303 says "All records
  insert or all roll back (atomic)". With `left_open` in `CommitOutcomes`
  `NoOpenTransaction` and `ImplementsRegistry` fail.
- *A batch of the in-memory registry that fails keeps what it inserted*
  (`heapstore_registry.c:178`), against the same lines (heapstore_registry.h:303, 334,
  352). `InsertsAdd` does not claim that it should: it holds of a batch that rolls
  back, too. A second
  `heapstore_registry_init` forgets every record (`:187`, `RegistryInit`); and this
  backend answers NOT_FOUND to the update or delete of an unknown id, which the SQLite
  backend answers with SUCCESS.
- *A cleanup unlinks files that are open* (`heapstore_log.c:408`): the file of a service
  that was silent for longer than the retention goes while its handle stays in use,
  and what the service writes then is lost at the end of the process (fate `lost`).
  A line that is appended between the stat and the unlink goes with the file
  (`utils.c:185-190`), one of the exceptions of `OnlyExpiredRemoved`, although
  heapstore_log.h:150,157 speak of expired files and of a thread-safe call.
- *Two rotations within a second* leave the archive of the first replaced by the
  second's (`heapstore_log.c:376`, fate `replaced`).
- *A reload closes an open breaker* (`heapstore_core_circuit.c:177-180`):
  `heapstore_reload_config` "does not touch initialized resources" (heapstore.h:329),
  but a changed threshold or timeout destroys the live breaker and arms a new one
  (`ReloadConfig`); `ConfigInForce` is about what it is armed with.
- *The facade is not told*: after a direct `heapstore_shutdown` its flag stays, its
  calls fail in the engines and its next init answers SUCCESS over a store that is
  down (`heapstore_integration.c:87`), where heapstore_integration.h:50 says
  "Automatically initializes all subsystems"; this is the exception `bypassed` in
  `FacadeServes`. `heapstore_logging_write` answers SUCCESS in any case.
- *A failed migration can lose acknowledged rows* (`heapstore_migration.c:364`): the
  backup is renamed over `registry.db` while the registry has it open.
  heapstore_migration.h:108 says "Original data is preserved"; `LostOnlyByRestore`
  confines the loss to this case.
- *The severity filter is upside down* (`heapstore_log.c:270`): `level > s_log_level`
  drops a line, and severities grow with their number
  (heapstore_log.h:26-30). tests/test_heapstore_log.c:63 says of a WARN under
  ERROR "This should NOT appear" and does not look. `CallWrite` does what the code
  does.
- *No write that fails opens the breaker* (`heapstore_core_write.c:150-155`):
  `heapstore_log_write` returns nothing and a success is recorded whatever became
  of the line; the one `record_failure` of the library needs an init that fails
  around the call (`FailWrite`).
- *Ready means under way*: `heapstore_ready` says yes from the moment the
  directories exist (`heapstore_core.c:216`), so a caller may meet engines that are
  not up, or about to be unwound. `SuccessMeansServing` says what its answers are
  still worth.
- *A registry shut down with an iterator open* leaks its connection, and `vacuum`
  fails under an open statement; neither is reported. An iterator may also return
  rows of a batch in progress, which are not committed yet (`iter_next` takes no lock).
- *Flush* flushes the trace store only (`heapstore_core.c:398`), where heapstore.h:334
  says "Force-flush all pending data".
- *A full memory table refuses the update of an id it holds*
  (`heapstore_memory.c:129`); `AnswersTruthful` states it.
- *A batch context may hold more items than its capacity*, because both capacity tests
  are made before its lock is taken (`heapstore_core_batch.c:21`;
  tests/test_heapstore_batch.c:182 expects "overflow should return error");
  `OvershootBounded` says by how much.
- The repository's `README.md:40` speaks of transactional batch writes, but
  `heapstore_batch_commit` stores its records one by one and goes on after an error;
  `README.md:44` lists schema rollback, for which there is no entry point.

## 6. What could follow

Every component that changes state has a module, and every safety property the
runs check is a theorem. What would add to this:

- an abstract specification for the log store in the manner of
  `HeapstoreTraceSpec`; `LinesConserved` and `Chronological` are the substance of its refinement;
- liveness by hand: `CommitTerminates` has a measure, the length of what a commit has detached;
- the registry's callers: a batch context commits to a `sessions` set of its own here, where
  composing `HeapstoreBatch` with `HeapstoreRegistrySpec` would have it share the table with
  other writers.

## 7. Not modelled, and why

- Queries of the trace store and the log, statistics, disk usage and the JSON export
  only read, under the lock of their engine; what they could see is what the invariants describe.
- `heapstore_trace_config_exporter` stores a structure nothing reads.
- `vacuum` rewrites the database file and changes no row.
- Path and identifier sanitising, path tables and error strings are stateless
  string handling.
- `heapstore_token.c`, the SQL scripts and the maintenance scripts: see section 1.
- `mig_drop_columns` has no caller, and the migration report is data handed to the
  caller; neither is an action of `HeapstoreMigration`.
- The in-memory backend under concurrent calls is undefined behaviour as soon as
  one of them deletes; only the two inserts of finding 2 are cut against each other.
- `heapstore_health_check` logs a line for an engine that is not healthy through
  the guarded write path, and the breaker and the counters see that write; in
  `HeapstoreCircuit` a health check finds the engines healthy.
- The arithmetic of the facade (microseconds to nanoseconds, unsigned) and the byte
  totals of statistics and memory pools are data no property is about.
- The Windows branches of the sources do the same under other names.
