-------------------------- MODULE HeapstoreRegistry -------------------------
(***************************************************************************)
(* The SQLite backend of the registry (src/src/heapstore_registry_sqlite*  *)
(* .c).  One connection, s_registry.db, is shared by all threads; every    *)
(* operation tests s_registry.initialized without the lock, then works     *)
(* under s_registry.lock.  A batch runs in an explicit transaction, every  *)
(* other statement commits by itself unless a transaction is open.         *)
(*                                                                         *)
(* SQLite is external, modelled by what the code relies on: the connection *)
(* sees its own uncommitted rows, what was committed survives a crash of   *)
(* the process (journal_mode=WAL), an open transaction does not, and a     *)
(* statement may fail and change nothing.  A COMMIT that fails either has  *)
(* rolled the transaction back or leaves it open: CommitOutcomes.          *)
(*                                                                         *)
(* The agents, skills and sessions tables are used alike; one table stands *)
(* for them, since they share the connection and its transaction.          *)
(*                                                                         *)
(* An iterator is a statement left open on the connection: opened under    *)
(* the lock, stepped and finalized without it.  Which rows are ahead of it *)
(* is up to SQLite: a step hands some row the statement sees to its        *)
(* caller, which leaves no trace here, or ends.  Closing a connection with *)
(* an open statement fails and leaks it: the iterator lives on, over what  *)
(* was committed by then.                                                  *)
(***************************************************************************)
EXTENDS Naturals, Sequences

CONSTANTS Threads,         \* the threads that call the API
          Ids,             \* primary keys
          Values,          \* what a record holds beside its key
          Batches,         \* sequences of records for the batch insert
          CommitOutcomes,  \* what a COMMIT may do
          Readers,         \* the threads that use iterators
          NoThread,        \* s_registry.lock is free
          NoRow            \* no record with that key

ASSUME CommitOutcomesAssumption ==
  CommitOutcomes \subseteq {"committed", "rolled_back", "left_open"}
ASSUME RegistryAssumption == NoThread \notin Threads /\ NoRow \notin Values
ASSUME ReadersAssumption == Readers \subseteq Threads

VARIABLES
  initialized,  \* s_registry.initialized, with s_registry.db open
  lock,         \* the holder of s_registry.lock, or NoThread
  disk,         \* the committed table
  view,         \* the table as the connection sees it
  transaction,  \* BEGIN was executed and neither COMMIT nor ROLLBACK since
  pc,           \* where each thread is in its call
  call,         \* the call each thread is in
  next,         \* the record the batch in progress inserts next
  reply,        \* what each thread's last call returned
  iter          \* the iterator of each thread that uses them

db == <<disk, view, transaction>>
frames == <<pc, call, next, reply>>
vars == <<initialized, lock, db, frames, iter>>

Registry == INSTANCE HeapstoreRegistrySpec WITH table <- disk

ASSUME BatchesAssumption == Batches \subseteq Seq(Registry!Record)

Idle == Registry!Idle
Locations == {"idle", "waiting", "locked", "inserting"}
EmptyTable == [id \in Ids |-> NoRow]

Quiescent == \A t \in Threads : pc[t] = "idle"
NoIterator == [state |-> "none", leaked |-> FALSE]

Init ==
  /\ initialized = FALSE
  /\ lock = NoThread
  /\ disk = EmptyTable
  /\ view = EmptyTable
  /\ transaction = FALSE
  /\ pc = [t \in Threads |-> "idle"]
  /\ call = [t \in Threads |-> Idle]
  /\ next = 1
  /\ reply = [t \in Threads |-> "SUCCESS"]
  /\ iter = [t \in Readers |-> NoIterator]

-----------------------------------------------------------------------------
(* init and shutdown are documented as not safe for concurrent calls       *)
(* (heapstore_registry.h:43,55).                                           *)
RegistryInit ==
  /\ ~initialized /\ Quiescent
  /\ initialized' = TRUE
  /\ lock' = NoThread
  /\ view' = disk
  /\ transaction' = FALSE
  /\ UNCHANGED <<disk, frames, iter>>

(* sqlite3_close rolls an open transaction back; with a statement still     *)
(* open it fails, which nobody notices, and the connection is lost.         *)
RegistryShutdown ==
  /\ initialized /\ Quiescent
  /\ initialized' = FALSE
  /\ view' = disk
  /\ transaction' = FALSE
  /\ iter' = [t \in Readers |-> [iter[t] EXCEPT !.leaked = (iter[t].state # "none")]]
  /\ UNCHANGED <<lock, disk, frames>>

(* The process dies; WAL recovery leaves what was committed.               *)
Crash ==
  /\ initialized
  /\ initialized' = FALSE
  /\ lock' = NoThread
  /\ view' = disk
  /\ transaction' = FALSE
  /\ pc' = [t \in Threads |-> "idle"]
  /\ call' = [t \in Threads |-> Idle]
  /\ next' = 1
  /\ reply' = [t \in Threads |-> "SUCCESS"]
  /\ iter' = [t \in Readers |-> NoIterator]
  /\ UNCHANGED disk

-----------------------------------------------------------------------------
(* session_begin: the unlocked test, then the lock.                        *)
CallBegin(t) ==
  /\ initialized /\ pc[t] = "idle"
  /\ \E r \in Registry!Requests : call' = [call EXCEPT ![t] = r]
  /\ pc' = [pc EXCEPT ![t] = "waiting"]
  /\ UNCHANGED <<initialized, lock, db, next, reply, iter>>

Lock(t) ==
  /\ pc[t] = "waiting"
  /\ lock = NoThread
  /\ lock' = t
  /\ pc' = [pc EXCEPT ![t] = "locked"]
  /\ UNCHANGED <<initialized, db, call, next, reply, iter>>

(* Finalize, unlock, return. *)
Return(t, code) ==
  /\ lock' = NoThread
  /\ pc' = [pc EXCEPT ![t] = "idle"]
  /\ call' = [call EXCEPT ![t] = Idle]
  /\ reply' = [reply EXCEPT ![t] = code]

(* A statement of its own changes the view, and the file too unless a      *)
(* transaction is open.                                                    *)
Execute(T) ==
  /\ view' = T
  /\ disk' = IF transaction THEN disk ELSE T
  /\ UNCHANGED transaction

Running(t, o) == pc[t] = "locked" /\ call[t].op = o

(* INSERT: a key that is taken fails the statement (see StatementFails).   *)
Add(t) ==
  /\ Running(t, "add")
  /\ view[call[t].record.id] = NoRow
  /\ Execute(Registry!Put(view, call[t].record))
  /\ Return(t, "SUCCESS")
  /\ UNCHANGED <<initialized, next, iter>>

(* UPDATE ... WHERE id = ?: no such row is a success as well.              *)
Update(t) ==
  /\ Running(t, "update")
  /\ LET r == call[t].record
     IN  Execute(IF view[r.id] = NoRow THEN view ELSE Registry!Put(view, r))
  /\ Return(t, "SUCCESS")
  /\ UNCHANGED <<initialized, next, iter>>

Delete(t) ==
  /\ Running(t, "delete")
  /\ Execute([view EXCEPT ![call[t].id] = NoRow])
  /\ Return(t, "SUCCESS")
  /\ UNCHANGED <<initialized, next, iter>>

(* registry_query_one *)
Get(t) ==
  /\ Running(t, "get")
  /\ LET v == view[call[t].id]
     IN  Return(t, IF v = NoRow THEN "NOT_FOUND" ELSE v)
  /\ UNCHANGED <<initialized, db, next, iter>>

(* Any statement may fail to prepare or to run, BEGIN too, which always    *)
(* does when a transaction is open.                                        *)
StatementFails(t) ==
  /\ pc[t] = "locked"
  /\ Return(t, "DB_QUERY_FAILED")
  /\ UNCHANGED <<initialized, db, next, iter>>

-----------------------------------------------------------------------------
(* batch_exec_locked: BEGIN, the inserts, then COMMIT, or ROLLBACK at the  *)
(* first insert that fails.                                                *)
BatchBegin(t) ==
  /\ Running(t, "batch")
  /\ ~transaction
  /\ transaction' = TRUE
  /\ next' = 1
  /\ pc' = [pc EXCEPT ![t] = "inserting"]
  /\ UNCHANGED <<initialized, lock, disk, view, call, reply, iter>>

BatchInsertRow(t) ==
  /\ pc[t] = "inserting"
  /\ next <= Len(call[t].records)
  /\ LET r == call[t].records[next]
     IN  /\ view[r.id] = NoRow
         /\ view' = Registry!Put(view, r)
  /\ next' = next + 1
  /\ UNCHANGED <<initialized, lock, disk, transaction, pc, call, reply, iter>>

(* Mutant: the loop stops at the failure and commits what it has.          *)
BatchInsertFails_Commits(t) ==
  /\ pc[t] = "inserting"
  /\ next <= Len(call[t].records)
  /\ disk' = view
  /\ transaction' = FALSE
  /\ Return(t, "DB_QUERY_FAILED")
  /\ UNCHANGED <<initialized, view, next, iter>>

(* Mutant: the error path forgets the ROLLBACK.                            *)
BatchInsertFails_NoRollback(t) ==
  /\ pc[t] = "inserting"
  /\ next <= Len(call[t].records)
  /\ Return(t, "DB_QUERY_FAILED")
  /\ UNCHANGED <<initialized, db, next, iter>>

(* A key of the batch is taken, or the statement fails.                    *)
BatchInsertFails(t) ==
  /\ pc[t] = "inserting"
  /\ next <= Len(call[t].records)
  /\ view' = disk
  /\ transaction' = FALSE
  /\ Return(t, "DB_QUERY_FAILED")
  /\ UNCHANGED <<initialized, disk, next, iter>>

(* The result of a COMMIT that failed is reported, nothing else is done.   *)
BatchCommit(t) ==
  /\ pc[t] = "inserting"
  /\ next > Len(call[t].records)
  /\ \E outcome \in CommitOutcomes :
       /\ disk' = IF outcome = "committed" THEN view ELSE disk
       /\ view' = IF outcome = "rolled_back" THEN disk ELSE view
       /\ transaction' = (outcome = "left_open")
       /\ Return(t, IF outcome = "committed" THEN "SUCCESS" ELSE "DB_QUERY_FAILED")
  /\ UNCHANGED <<initialized, next, iter>>

-----------------------------------------------------------------------------
(* registry_query_open: the statement is prepared under the lock and kept   *)
(* open.  The caller may do as it likes between two steps of its iterator.  *)
IterOpen(t) ==
  /\ initialized /\ pc[t] = "idle" /\ lock = NoThread
  /\ iter[t].state = "none"
  /\ iter' = [iter EXCEPT ![t].state = "open"]
  /\ UNCHANGED <<initialized, lock, db, frames>>

(* iter_next, without the lock and whether or not the registry is open.     *)
IterNext(t) ==
  /\ pc[t] = "idle" /\ iter[t].state \in {"open", "stepped"}
  /\ iter[t].leaked \/ view # EmptyTable
  /\ iter' = [iter EXCEPT ![t].state = "stepped"]
  /\ UNCHANGED <<initialized, lock, db, frames>>

(* No row, or an error: has_more = 0, the statement stays open until        *)
(* iter_destroy finalizes it.                                               *)
IterEnd(t) ==
  /\ pc[t] = "idle" /\ iter[t].state \in {"open", "stepped"}
  /\ iter' = [iter EXCEPT ![t].state = "ended"]
  /\ UNCHANGED <<initialized, lock, db, frames>>

IterDestroy(t) ==
  /\ pc[t] = "idle" /\ iter[t].state # "none"
  /\ iter' = [iter EXCEPT ![t] = NoIterator]
  /\ UNCHANGED <<initialized, lock, db, frames>>

Iterate(t) == IterOpen(t) \/ IterNext(t) \/ IterEnd(t) \/ IterDestroy(t)

(* The steps a thread takes while it holds s_registry.lock. *)
Holding(t) ==
  \/ Add(t) \/ Update(t) \/ Delete(t) \/ Get(t) \/ StatementFails(t)
  \/ BatchBegin(t) \/ BatchInsertRow(t) \/ BatchInsertFails(t) \/ BatchCommit(t)

Next ==
  \/ RegistryInit \/ RegistryShutdown \/ Crash
  \/ \E t \in Threads : CallBegin(t) \/ Lock(t) \/ Holding(t)
  \/ \E t \in Readers : Iterate(t)

Spec == Init /\ [][Next]_vars

-----------------------------------------------------------------------------
Table == [Ids -> Values \cup {NoRow}]

(* Every variable holds a value of its type.                               *)
TypeOK ==
  /\ initialized \in BOOLEAN
  /\ lock \in Threads \cup {NoThread}
  /\ disk \in Table
  /\ view \in Table
  /\ transaction \in BOOLEAN
  /\ pc \in [Threads -> Locations]
  /\ call \in [Threads -> Registry!Requests \cup {Idle}]
  /\ next \in Nat \ {0}
  /\ reply \in [Threads -> Registry!Replies]
  /\ iter \in [Readers ->
       [state : {"none", "open", "stepped", "ended"}, leaked : BOOLEAN]]

(* No transaction outlives the call that began it: whenever the lock is    *)
(* free, what the connection sees is what a restarted process would find.  *)
NoOpenTransaction == lock = NoThread => ~transaction /\ view = disk

(* The registry keeps its promise: calls are atomic, a batch inserts all   *)
(* of its records or none (heapstore_registry.h:303-304), and what was     *)
(* acknowledged survives a crash.                                          *)
ImplementsRegistry == Registry!Spec
=============================================================================
