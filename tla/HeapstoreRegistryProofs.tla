----------------------- MODULE HeapstoreRegistryProofs ----------------------
(***************************************************************************)
(* The two backends of the registry.                                       *)
(*                                                                         *)
(* The SQLite backend implements the registry's promise, for every set of  *)
(* threads, ids, values and batches, provided a COMMIT that fails has      *)
(* rolled its transaction back: batch_exec_locked returns the failure and  *)
(* does nothing else about it (heapstore_registry_sqlite.c:287).           *)
(***************************************************************************)
EXTENDS HeapstoreRegistry, HeapstoreRegistryNodes, FiniteSetTheorems, TLAPS

CommitSettles == CommitOutcomes \subseteq {"committed", "rolled_back"}

(* The lock is held exactly by the thread that is past it, and a thread is *)
(* in a call exactly when it is not idle.                                  *)
Locking ==
  /\ \A t \in Threads : pc[t] \in {"locked", "inserting"} <=> lock = t
  /\ \A t \in Threads : pc[t] = "idle" <=> call[t] = Idle

(* Outside a batch no transaction is open and the connection sees the      *)
(* committed table.                                                        *)
Settled == (\A t \in Threads : pc[t] # "inserting") => ~transaction /\ view = disk

(* Inside a batch the connection sees the committed table with the records *)
(* inserted so far, none of whose ids was taken.                           *)
Inserted(b, n) ==
  /\ \A i \in 1..Len(b) : i < n => /\ disk[b[i].id] = NoRow
                                   /\ view[b[i].id] = b[i].value
  /\ \A id \in Ids : view[id] # disk[id] => \E i \in 1..Len(b) : i < n /\ b[i].id = id

Progress ==
  \A t \in Threads : pc[t] = "inserting" =>
    call[t].op = "batch" /\ Inserted(call[t].records, next)

IInv == TypeOK /\ Locking /\ Settled /\ Progress

(* The values of iter. *)
Iterators ==
  [Readers -> [state : {"none", "open", "stepped", "ended"}, leaked : BOOLEAN]]

USE DEF Registry!Idle, Idle

-----------------------------------------------------------------------------
(* What the fields of a request are. *)
LEMMA RequestFacts ==
  ASSUME NEW c \in Registry!Requests
  PROVE  /\ c # Idle
         /\ c.op \in {"add", "update"} => c.record \in Registry!Record
         /\ c.op \in {"delete", "get"} => c.id \in Ids
         /\ c.op = "batch" => c.records \in Seq(Registry!Record)
<1>1. CASE c \in [op : {"add", "update"}, record : Registry!Record]
  BY <1>1
<1>2. CASE c \in [op : {"delete", "get"}, id : Ids]
  BY <1>2
<1>3. CASE c \in [op : {"batch"}, records : Batches]
  BY <1>3, BatchesAssumption
<1>4. QED
  BY <1>1, <1>2, <1>3 DEF Registry!Requests

(* A record put in a table. *)
LEMMA PutFacts ==
  ASSUME NEW T \in Table, NEW r \in Registry!Record
  PROVE  /\ Registry!Put(T, r) \in Table
         /\ Registry!Put(T, r)[r.id] = r.value
         /\ \A id \in Ids : id # r.id => Registry!Put(T, r)[id] = T[id]
         /\ r.id \in Ids /\ r.value \in Values
BY DEF Table, Registry!Put, Registry!Record

(* The variables a call in progress depends on. *)
LEMMA ReturnFacts ==
  ASSUME IInv, NEW t \in Threads, NEW code \in Registry!Replies,
         pc[t] \in {"locked", "inserting"}, Return(t, code),
         disk' \in Table, view' = disk', transaction' = FALSE,
         UNCHANGED initialized, next' = next, iter' = iter
  PROVE  IInv'
<1>1. TypeOK'
  BY DEF IInv, TypeOK, Return, Locations
<1>2. \A u \in Threads : u # t => pc[u] \notin {"locked", "inserting"}
  BY DEF IInv, Locking
<1>3. Locking'
  BY <1>2, RegistryAssumption DEF IInv, TypeOK, Locking, Return
<1>4. Settled' /\ Progress'
  BY <1>2 DEF IInv, TypeOK, Settled, Progress, Return
<1>5. QED
  BY <1>1, <1>3, <1>4 DEF IInv

LEMMA IInvInit == Init => IInv
<1> SUFFICES ASSUME Init PROVE IInv
  OBVIOUS
<1>1. TypeOK
  <2>1. disk \in Table /\ view \in Table
    BY DEF Init, Table, EmptyTable
  <2>2. iter \in Iterators
    BY DEF Init, NoIterator, Iterators
  <2>3. "SUCCESS" \in Registry!Replies
    BY DEF Registry!Replies
  <2>4. call \in [Threads -> Registry!Requests \cup {Idle}]
    BY DEF Init
  <2>5. /\ pc \in [Threads -> Locations]
        /\ reply \in [Threads -> Registry!Replies]
    BY <2>3 DEF Init, Locations
  <2>6. initialized \in BOOLEAN /\ transaction \in BOOLEAN
    BY DEF Init
  <2>7. lock \in Threads \cup {NoThread} /\ next \in Nat \ {0}
    BY DEF Init
  <2>8. QED
    BY <2>1, <2>2, <2>4, <2>5, <2>6, <2>7 DEF TypeOK, Iterators
<1>2. Locking /\ Settled /\ Progress
  BY RegistryAssumption DEF Init, Locking, Settled, Progress
<1>3. QED
  BY <1>1, <1>2 DEF IInv

(* The statements that commit by themselves. *)
LEMMA IInvStatement ==
  ASSUME IInv, NEW t \in Threads,
         Add(t) \/ Update(t) \/ Delete(t) \/ Get(t) \/ StatementFails(t)
  PROVE  IInv'
<1>1. /\ pc[t] = "locked" /\ call[t] \in Registry!Requests
      /\ transaction = FALSE /\ view = disk /\ disk \in Table
  <2>1. pc[t] = "locked"
    BY DEF Add, Update, Delete, Get, StatementFails, Running
  <2>2. \A u \in Threads : pc[u] # "inserting"
    BY <2>1 DEF IInv, Locking
  <2>3. QED
    BY <2>1, <2>2 DEF IInv, TypeOK, Locking, Settled
<1>2. "SUCCESS" \in Registry!Replies /\ "DB_QUERY_FAILED" \in Registry!Replies
  BY DEF Registry!Replies
<1>3. CASE Add(t)
  <2>1. call[t].record \in Registry!Record
    BY <1>1, <1>3, RequestFacts DEF Add, Running
  <2>2. disk' \in Table /\ view' = disk' /\ transaction' = FALSE
    BY <1>1, <1>3, <2>1, PutFacts DEF Add, Execute
  <2>3. QED
    BY <1>1, <1>2, <1>3, <2>2, ReturnFacts DEF Add
<1>4. CASE Update(t)
  <2>1. call[t].record \in Registry!Record
    BY <1>1, <1>4, RequestFacts DEF Update, Running
  <2>2. disk' \in Table /\ view' = disk' /\ transaction' = FALSE
    BY <1>1, <1>4, <2>1, PutFacts DEF Update, Execute
  <2>3. QED
    BY <1>1, <1>2, <1>4, <2>2, ReturnFacts DEF Update
<1>5. CASE Delete(t)
  <2>1. [disk EXCEPT ![call[t].id] = NoRow] \in Table
    BY <1>1 DEF Table
  <2>2. disk' \in Table /\ view' = disk' /\ transaction' = FALSE
    BY <1>1, <1>5, <2>1 DEF Delete, Execute
  <2>3. QED
    BY <1>1, <1>2, <1>5, <2>2, ReturnFacts DEF Delete
<1>6. CASE Get(t)
  <2>1. call[t].id \in Ids
    BY <1>1, <1>6, RequestFacts DEF Get, Running
  <2>2. PICK code \in Registry!Replies : Return(t, code)
    BY <1>1, <1>6, <2>1 DEF Get, Table, Registry!Replies
  <2>3. UNCHANGED <<initialized, disk, view, transaction, next, iter>>
    BY <1>6 DEF Get, db
  <2>4. QED
    BY <1>1, <2>2, <2>3, ReturnFacts
<1>7. CASE StatementFails(t)
  <2>1. UNCHANGED <<initialized, disk, view, transaction, next, iter>>
    BY <1>7 DEF StatementFails, db
  <2>2. QED
    BY <1>1, <1>2, <1>7, <2>1, ReturnFacts DEF StatementFails
<1>8. QED
  BY <1>3, <1>4, <1>5, <1>6, <1>7

LEMMA IInvBatch ==
  ASSUME CommitSettles, IInv, NEW t \in Threads,
         BatchBegin(t) \/ BatchInsertRow(t) \/ BatchInsertFails(t) \/ BatchCommit(t)
  PROVE  IInv'
<1>1. pc[t] \in {"locked", "inserting"} /\ call[t] \in Registry!Requests
  BY DEF BatchBegin, BatchInsertRow, BatchInsertFails, BatchCommit, Running,
         IInv, TypeOK, Locking
<1>2. \A u \in Threads : u # t => pc[u] \notin {"locked", "inserting"}
  BY <1>1 DEF IInv, Locking
<1>3. "SUCCESS" \in Registry!Replies /\ "DB_QUERY_FAILED" \in Registry!Replies
  BY DEF Registry!Replies
<1>4. CASE BatchBegin(t)
  <2>1. TypeOK'
    BY <1>4 DEF BatchBegin, IInv, TypeOK, Locations
  <2>2. Locking'
    BY <1>4 DEF BatchBegin, Running, IInv, TypeOK, Locking
  <2>3. view = disk
    BY <1>2, <1>4 DEF BatchBegin, Running, IInv, Settled
  <2>4. Settled' /\ Progress'
    BY <1>2, <1>4, <2>3
       DEF BatchBegin, Running, IInv, TypeOK, Settled, Progress, Inserted
  <2>5. QED
    BY <2>1, <2>2, <2>4 DEF IInv
<1>5. CASE BatchInsertRow(t)
  <2> DEFINE b == call[t].records
             r == b[next]
  <2>1. /\ call[t].op = "batch" /\ b \in Seq(Registry!Record)
        /\ Inserted(b, next) /\ next \in 1..Len(b) /\ next \in Nat
    BY <1>1, <1>5, RequestFacts DEF BatchInsertRow, IInv, TypeOK, Progress
  <2>2. r \in Registry!Record /\ view \in Table /\ disk \in Table
    BY <2>1 DEF IInv, TypeOK
  <2>3. view' = Registry!Put(view, r) /\ disk' = disk /\ view[r.id] = NoRow
    BY <1>5 DEF BatchInsertRow
  <2>4. UNCHANGED <<initialized, lock, transaction, pc, call, reply, iter>>
    BY <1>5 DEF BatchInsertRow
  <2>5. next' = next + 1
    BY <1>5 DEF BatchInsertRow
  <2>6. /\ view' \in Table /\ view'[r.id] = r.value
        /\ \A id \in Ids : id # r.id => view'[id] = view[id]
        /\ r.id \in Ids /\ r.value \in Values
    BY <2>2, <2>3, PutFacts
  <2>7. TypeOK'
    BY <2>1, <2>3, <2>4, <2>5, <2>6 DEF IInv, TypeOK
  <2>8. Locking' /\ Settled'
    BY <1>5, <2>4 DEF BatchInsertRow, IInv, Locking, Settled
  <2>9. Inserted(b, next)'
    <3>1. \A i \in 1..Len(b) : b[i].id \in Ids /\ b[i].value \in Values
      <4>1. \A i \in 1..Len(b) : b[i] \in Registry!Record
        BY <2>1
      <4>2. QED
        BY <4>1 DEF Registry!Record
    <3>2. disk[r.id] = NoRow
      BY <2>1, <2>3, <2>6, <3>1, RegistryAssumption DEF Inserted
    <3>3. ASSUME NEW i \in 1..Len(b), i < next'
          PROVE  disk[b[i].id] = NoRow /\ view'[b[i].id] = b[i].value
      <4>1. CASE i = next
        BY <4>1, <2>6, <3>2
      <4>2. CASE i < next
        <5>1. disk[b[i].id] = NoRow /\ view[b[i].id] = b[i].value
          BY <4>2, <2>1 DEF Inserted
        <5>2. b[i].id # r.id
          BY <5>1, <2>3, <3>1, RegistryAssumption
        <5>3. QED
          BY <5>1, <5>2, <2>6, <3>1
      <4>3. QED
        BY <3>3, <4>1, <4>2, <2>1, <2>5
    <3>4. ASSUME NEW id \in Ids, view'[id] # disk[id]
          PROVE  \E i \in 1..Len(b) : i < next' /\ b[i].id = id
      <4>1. CASE id = r.id
        BY <4>1, <2>1, <2>5
      <4>2. CASE id # r.id
        <5>1. PICK i \in 1..Len(b) : i < next /\ b[i].id = id
          BY <4>2, <3>4, <2>1, <2>6 DEF Inserted
        <5>2. QED
          BY <5>1, <2>1, <2>5
      <4>3. QED
        BY <4>1, <4>2
    <3>5. QED
      BY <2>3, <2>4, <3>3, <3>4 DEF Inserted
  <2>10. Progress'
    BY <1>2, <2>1, <2>4, <2>9 DEF Progress
  <2>11. QED
    BY <2>7, <2>8, <2>10 DEF IInv
<1>6. CASE BatchInsertFails(t)
  BY <1>1, <1>3, <1>6, ReturnFacts DEF BatchInsertFails, IInv, TypeOK
<1>7. CASE BatchCommit(t)
  <2>1. PICK outcome \in {"committed", "rolled_back"} :
           /\ disk' = IF outcome = "committed" THEN view ELSE disk
           /\ view' = IF outcome = "rolled_back" THEN disk ELSE view
           /\ transaction' = FALSE
           /\ Return(t, IF outcome = "committed" THEN "SUCCESS" ELSE "DB_QUERY_FAILED")
    BY <1>7 DEF BatchCommit, CommitSettles
  <2>2. disk' \in Table /\ view' = disk'
    BY <2>1 DEF IInv, TypeOK
  <2>3. UNCHANGED <<initialized, next, iter>>
    BY <1>7 DEF BatchCommit
  <2>4. PICK code \in Registry!Replies : Return(t, code)
    BY <1>3, <2>1
  <2>5. QED
    BY <1>1, <2>1, <2>2, <2>3, <2>4, ReturnFacts
<1>8. QED
  BY <1>4, <1>5, <1>6, <1>7

LEMMA IInvRest ==
  ASSUME IInv,
         \/ RegistryInit \/ RegistryShutdown \/ Crash
         \/ \E t \in Threads : CallBegin(t) \/ Lock(t)
         \/ \E t \in Readers : Iterate(t)
  PROVE  IInv'
<1>1. CASE RegistryInit
  <2>1. Settled
    BY DEF IInv
  <2>2. QED
    BY <1>1, RegistryAssumption
       DEF RegistryInit, Quiescent, frames, IInv, TypeOK, Locking, Settled, Progress
<1>2. CASE RegistryShutdown
  <2>1. iter' \in Iterators
    BY <1>2 DEF RegistryShutdown, IInv, TypeOK, Iterators
  <2>2. QED
    BY <1>2, <2>1
       DEF Iterators, RegistryShutdown, Quiescent, frames, IInv, TypeOK, Locking, Settled, Progress
<1>3. CASE Crash
  <2>1. TypeOK'
    <3>1. iter' \in Iterators
      BY <1>3 DEF Crash, NoIterator, Iterators
    <3>2. "SUCCESS" \in Registry!Replies
      BY DEF Registry!Replies
    <3>3. call' \in [Threads -> Registry!Requests \cup {Idle}]
      BY <1>3 DEF Crash
    <3>4. /\ pc' \in [Threads -> Locations]
          /\ reply' \in [Threads -> Registry!Replies]
      BY <1>3, <3>2 DEF Crash, Locations
    <3>5. initialized' \in BOOLEAN /\ transaction' \in BOOLEAN
      BY <1>3 DEF Crash
    <3>6. /\ lock' \in Threads \cup {NoThread} /\ next' \in Nat \ {0}
          /\ disk' \in Table /\ view' \in Table
      BY <1>3 DEF Crash, IInv, TypeOK
    <3>7. QED
      BY <3>1, <3>3, <3>4, <3>5, <3>6 DEF TypeOK, Iterators
  <2>2. Locking' /\ Settled' /\ Progress'
    BY <1>3, RegistryAssumption DEF Crash, IInv, TypeOK, Locking, Settled, Progress
  <2>3. QED
    BY <2>1, <2>2 DEF IInv
<1>4. CASE \E t \in Threads : CallBegin(t)
  <2>1. PICK t \in Threads : CallBegin(t)
    BY <1>4
  <2>2. PICK r \in Registry!Requests : call' = [call EXCEPT ![t] = r]
    BY <2>1 DEF CallBegin
  <2>3. r # Idle
    BY RequestFacts
  <2>4. TypeOK' /\ Locking'
    BY <2>1, <2>2, <2>3 DEF CallBegin, db, IInv, TypeOK, Locking, Locations
  <2>5. \A u \in Threads : pc'[u] = "inserting" <=> (u # t /\ pc[u] = "inserting")
    BY <2>1 DEF CallBegin, IInv, TypeOK
  <2>6. Settled'
    BY <2>1, <2>5 DEF CallBegin, db, IInv, Settled
  <2>7. Progress'
    BY <2>1, <2>2, <2>5 DEF CallBegin, db, IInv, TypeOK, Progress, Inserted
  <2>8. QED
    BY <2>4, <2>6, <2>7 DEF IInv
<1>5. CASE \E t \in Threads : Lock(t)
  <2>1. PICK t \in Threads : Lock(t)
    BY <1>5
  <2>2. TypeOK' /\ Locking'
    BY <2>1, RegistryAssumption DEF Lock, db, IInv, TypeOK, Locking, Locations
  <2>3. \A u \in Threads : pc[u] # "inserting" /\ pc'[u] # "inserting"
    BY <2>1, RegistryAssumption DEF Lock, IInv, TypeOK, Locking
  <2>4. Settled' /\ Progress'
    BY <2>1, <2>3 DEF Lock, db, IInv, Settled, Progress
  <2>5. QED
    BY <2>2, <2>4 DEF IInv
<1>6. CASE \E t \in Readers : Iterate(t)
  <2>1. PICK t \in Readers : Iterate(t)
    BY <1>6
  <2>2. UNCHANGED <<initialized, lock, db, frames>>
    BY <2>1 DEF Iterate, IterOpen, IterNext, IterEnd, IterDestroy
  <2>3. iter' \in Iterators
    <3>1. /\ iter \in Iterators
          /\ \/ \E s \in {"open", "stepped", "ended"} : iter' = [iter EXCEPT ![t].state = s]
             \/ iter' = [iter EXCEPT ![t] = NoIterator]
      BY <2>1 DEF Iterate, IterOpen, IterNext, IterEnd, IterDestroy, IInv, TypeOK, Iterators
    <3>2. CASE iter' = [iter EXCEPT ![t] = NoIterator]
      <4>1. NoIterator \in [state : {"none", "open", "stepped", "ended"}, leaked : BOOLEAN]
        BY DEF NoIterator
      <4>2. QED
        BY <3>1, <3>2, <4>1 DEF Iterators
    <3>3. QED
      BY <3>1, <3>2 DEF Iterators
  <2>4. QED
    BY <2>2, <2>3 DEF Iterators, db, frames, IInv, TypeOK, Locking, Settled, Progress, Inserted
<1>7. QED
  BY <1>1, <1>2, <1>3, <1>4, <1>5, <1>6

LEMMA IInvInductive == CommitSettles /\ IInv /\ [Next]_vars => IInv'
<1> SUFFICES ASSUME CommitSettles, IInv, [Next]_vars PROVE IInv'
  OBVIOUS
<1>1. CASE UNCHANGED vars
  BY <1>1 DEF vars, db, frames, IInv, TypeOK, Locking, Settled, Progress, Inserted
<1>2. CASE \E t \in Threads : Holding(t)
  BY <1>2, IInvStatement, IInvBatch DEF Holding
<1>3. QED
  BY <1>1, <1>2, IInvRest DEF Next

-----------------------------------------------------------------------------
(* Every variable holds a value of its type.                               *)
THEOREM TypeCorrect ==
  ASSUME CommitSettles
  PROVE  Spec => []TypeOK
<1>1. IInv => TypeOK
  BY DEF IInv
<1>2. IInv /\ [Next]_vars => IInv'
  BY CommitSettles, IInvInductive
<1>3. QED
  BY <1>1, <1>2, IInvInit, PTL DEF Spec

(* No transaction outlives the call that began it: batch_exec_locked       *)
(* commits or rolls back before it unlocks.                                *)
THEOREM TransactionsEnd ==
  ASSUME CommitSettles
  PROVE  Spec => []NoOpenTransaction
<1>1. IInv => NoOpenTransaction
  BY RegistryAssumption DEF IInv, NoOpenTransaction, Locking, Settled
<1>2. IInv /\ [Next]_vars => IInv'
  BY CommitSettles, IInvInductive
<1>3. QED
  BY <1>1, <1>2, IInvInit, PTL DEF Spec

-----------------------------------------------------------------------------
(* Every step of the backend is a step of the promise, or none.            *)
LEMMA ReturnRefines ==
  ASSUME NEW t, NEW code, Return(t, code)
  PROVE  Registry!Return(t, code)
BY DEF Return, Registry!Return

LEMMA StatementRefines ==
  ASSUME IInv, NEW t \in Threads,
         Add(t) \/ Update(t) \/ Delete(t) \/ Get(t) \/ StatementFails(t)
  PROVE  Registry!Next
<1>1. pc[t] = "locked" /\ call[t] # Idle /\ ~transaction /\ view = disk
  <2>1. pc[t] = "locked"
    BY DEF Add, Update, Delete, Get, StatementFails, Running
  <2>2. \A u \in Threads : pc[u] # "inserting"
    BY <2>1 DEF IInv, Locking
  <2>3. QED
    BY <2>1, <2>2 DEF IInv, Locking, Settled
<1>2. CASE Add(t)
  <2>1. Registry!Add(t)
    BY <1>1, <1>2, ReturnRefines DEF Add, Running, Execute, Registry!Add
  <2>2. QED
    BY <2>1 DEF Registry!Next
<1>3. CASE Update(t)
  <2>1. Registry!Update(t)
    BY <1>1, <1>3, ReturnRefines DEF Update, Running, Execute, Registry!Update
  <2>2. QED
    BY <2>1 DEF Registry!Next
<1>4. CASE Delete(t)
  <2>1. Registry!Delete(t)
    BY <1>1, <1>4, ReturnRefines DEF Delete, Running, Execute, Registry!Delete
  <2>2. QED
    BY <2>1 DEF Registry!Next
<1>5. CASE Get(t)
  <2>1. Registry!Get(t)
    BY <1>1, <1>5, ReturnRefines DEF Get, Running, db, Registry!Get
  <2>2. QED
    BY <2>1 DEF Registry!Next
<1>6. CASE StatementFails(t)
  <2>1. Registry!Fail(t)
    BY <1>1, <1>6, ReturnRefines DEF StatementFails, db, Registry!Fail
  <2>2. QED
    BY <2>1 DEF Registry!Next
<1>7. QED
  BY <1>2, <1>3, <1>4, <1>5, <1>6

(* A batch takes effect at its COMMIT. *)
LEMMA BatchRefines ==
  ASSUME CommitSettles, IInv, NEW t \in Threads,
         BatchBegin(t) \/ BatchInsertRow(t) \/ BatchInsertFails(t) \/ BatchCommit(t)
  PROVE  Registry!Next \/ UNCHANGED Registry!vars
<1>1. CASE BatchBegin(t) \/ BatchInsertRow(t)
  BY <1>1 DEF BatchBegin, BatchInsertRow, Registry!vars
<1>2. pc[t] = "inserting" => call[t] # Idle /\ call[t] \in Registry!Requests
  BY DEF IInv, Locking, TypeOK
<1>3. CASE BatchInsertFails(t)
  <2>1. Registry!Fail(t)
    BY <1>2, <1>3, ReturnRefines DEF BatchInsertFails, Registry!Fail
  <2>2. QED
    BY <2>1 DEF Registry!Next
<1>4. CASE BatchCommit(t)
  <2>1. PICK outcome \in {"committed", "rolled_back"} :
           /\ disk' = IF outcome = "committed" THEN view ELSE disk
           /\ Return(t, IF outcome = "committed" THEN "SUCCESS" ELSE "DB_QUERY_FAILED")
    BY <1>4 DEF BatchCommit, CommitSettles
  <2>2. CASE outcome = "rolled_back"
    <3>1. Registry!Fail(t)
      BY <1>2, <1>4, <2>1, <2>2, ReturnRefines DEF BatchCommit, Registry!Fail
    <3>2. QED
      BY <3>1 DEF Registry!Next
  <2>3. CASE outcome = "committed"
    <3> DEFINE b == call[t].records
    <3>1. /\ call[t].op = "batch" /\ b \in Seq(Registry!Record)
          /\ Inserted(b, next) /\ next \in Nat /\ next > Len(b)
      BY <1>2, <1>4, RequestFacts DEF BatchCommit, IInv, TypeOK, Progress
    <3>2. \A i \in 1..Len(b) : i < next
      BY <3>1
    <3>3. \A i \in 1..Len(b) : disk[b[i].id] = NoRow /\ view[b[i].id] = b[i].value
      BY <3>1, <3>2 DEF Inserted
    <3>4. view = Registry!PutAll(disk, b)
      <4>1. ASSUME NEW id \in Ids
            PROVE  view[id] = Registry!PutAll(disk, b)[id]
        <5>1. CASE \E i \in 1..Len(b) : b[i].id = id
          BY <3>3, <5>1 DEF Registry!PutAll
        <5>2. CASE ~ \E i \in 1..Len(b) : b[i].id = id
          BY <3>1, <5>2 DEF Inserted, Registry!PutAll
        <5>3. QED
          BY <5>1, <5>2
      <4>2. view \in Table
        BY DEF IInv, TypeOK
      <4>3. QED
        BY <4>1, <4>2 DEF Table, Registry!PutAll
    <3>5. Registry!BatchInsert(t)
      BY <2>1, <2>3, <3>1, <3>3, <3>4, ReturnRefines DEF Registry!BatchInsert
    <3>6. QED
      BY <3>5 DEF Registry!Next
  <2>4. QED
    BY <2>1, <2>2, <2>3
<1>5. QED
  BY <1>1, <1>3, <1>4

LEMMA StepRefines ==
  ASSUME CommitSettles, IInv, [Next]_vars
  PROVE  Registry!Next \/ UNCHANGED Registry!vars
<1>1. CASE RegistryInit \/ RegistryShutdown \/ UNCHANGED vars
  BY <1>1 DEF RegistryInit, RegistryShutdown, vars, db, frames, Registry!vars
<1>2. CASE Crash
  <2>1. Registry!Crash
    BY <1>2 DEF Crash, Registry!Crash
  <2>2. QED
    BY <2>1 DEF Registry!Next
<1>3. CASE \E t \in Threads : CallBegin(t)
  <2>1. PICK t \in Threads : CallBegin(t)
    BY <1>3
  <2>2. Registry!Begin(t)
    BY <2>1 DEF CallBegin, db, IInv, Locking, Registry!Begin
  <2>3. QED
    BY <2>2 DEF Registry!Next
<1>4. CASE \E t \in Threads : Lock(t)
  BY <1>4 DEF Lock, db, Registry!vars
<1>5. CASE \E t \in Threads : Holding(t)
  BY <1>5, StatementRefines, BatchRefines DEF Holding
<1>6. CASE \E t \in Readers : Iterate(t)
  BY <1>6 DEF Iterate, IterOpen, IterNext, IterEnd, IterDestroy, db, frames, Registry!vars
<1>7. QED
  BY <1>1, <1>2, <1>3, <1>4, <1>5, <1>6 DEF Next

(* The backend keeps the registry's promise: calls are atomic, a batch     *)
(* inserts all of its records or none (heapstore_registry.h:303), and what *)
(* was acknowledged survives a crash.                                      *)
THEOREM BackendRefines ==
  ASSUME CommitSettles
  PROVE  Spec => ImplementsRegistry
<1>1. Init => Registry!Init
  BY DEF Init, EmptyTable, Registry!Init
<1>2. IInv /\ [Next]_vars => [Registry!Next]_Registry!vars
  BY CommitSettles, StepRefines
<1>3. IInv /\ [Next]_vars => IInv'
  BY CommitSettles, IInvInductive
<1>4. QED
  BY <1>1, <1>2, <1>3, IInvInit, PTL DEF Spec, ImplementsRegistry, Registry!Spec

-----------------------------------------------------------------------------
(***************************************************************************)
(* The in-memory backend keeps ids unique, its iterations complete and the *)
(* prefixes of its batches, for every set of ids and values, any number of *)
(* nodes and any number of threads, provided the callers take turns        *)
(* (SerialSpec): no operation of it takes a lock.  A build has one of the  *)
(* two backends; what both have, such as the calls of the threads and the  *)
(* flag, goes by the same names here.                                      *)
(*                                                                         *)
(* The argument rests on the order of a list.  New nodes go to its head,   *)
(* so the serial numbers fall along it, and the nodes from a cursor on are *)
(* those up to its serial number: what iter_next has still to return is    *)
(* below the cursor and what it has returned is above.                     *)
(***************************************************************************)
CONSTANTS Inserts, MaxNodes
VARIABLES nodes, insert, head, before

List == INSTANCE HeapstoreRegistryList

LNode == [serial : Nat \ {0}, id : Ids, value : Values]

(* The nodes of a list fall in age, and no id is in it twice.              *)
Chain(s) ==
  /\ s \in Seq(LNode)
  /\ \A i, j \in 1..Len(s) : i < j => s[i].serial > s[j].serial
  /\ \A i, j \in 1..Len(s) : s[i].id = s[j].id => i = j

(* The serial numbers ahead of a cursor in a list. *)
Below(s, cursor) ==
  {x \in List!Serials(s) : cursor \in List!Serials(s) /\ x <= cursor}

-----------------------------------------------------------------------------
(* What the nodes of a list are.                                           *)
LEMMA NodeFacts ==
  ASSUME NEW s \in Seq(LNode)
  PROVE  /\ DOMAIN s = 1..Len(s)
         /\ \A i \in 1..Len(s) : /\ s[i] \in LNode
                                 /\ s[i].serial \in Nat /\ s[i].serial # 0
                                 /\ s[i].id \in Ids /\ s[i].value \in Values
<1>1. DOMAIN s = 1..Len(s) /\ \A i \in 1..Len(s) : s[i] \in LNode
  OBVIOUS
<1>2. \A n \in LNode : /\ n.serial \in Nat /\ n.serial # 0
                      /\ n.id \in Ids /\ n.value \in Values
  BY DEF LNode
<1>3. QED
  BY <1>1, <1>2

(* Which serial numbers and which ids a list holds.                        *)
LEMMA SerialIn ==
  ASSUME NEW s \in Seq(LNode)
  PROVE  /\ \A x : x \in List!Serials(s) <=> \E i \in 1..Len(s) : s[i].serial = x
         /\ List!Serials(s) \subseteq Nat
<1>1. DOMAIN s = 1..Len(s)
  OBVIOUS
<1>2. \A x : x \in List!Serials(s) <=> \E i \in 1..Len(s) : s[i].serial = x
  BY <1>1 DEF List!Serials
<1>3. QED
  BY <1>2, NodeFacts

LEMMA IdIn ==
  ASSUME NEW S, NEW s \in Seq(S)
  PROVE  \A x : x \in List!IdsOf(s) <=> \E i \in 1..Len(s) : s[i].id = x
<1>1. DOMAIN s = 1..Len(s)
  OBVIOUS
<1>2. QED
  BY <1>1 DEF List!IdsOf

(* The nodes from a cursor on: none if it stands on no node of the list,   *)
(* or a suffix of the list, whose serial numbers are those up to its own.  *)
LEMMA FromNothing ==
  ASSUME NEW s \in Seq(LNode), NEW c, c \notin List!Serials(s)
  PROVE  List!From(s, c) = <<>>
BY NodeFacts DEF List!From, List!Serials

LEMMA FromAt ==
  ASSUME NEW s, Chain(s), NEW i \in 1..Len(s)
  PROVE  List!From(s, s[i].serial) = SubSeq(s, i, Len(s))
<1>1. {j \in DOMAIN s : s[j].serial = s[i].serial} = {i}
  BY NodeFacts DEF Chain
<1>2. (CHOOSE j \in {i} : TRUE) = i
  OBVIOUS
<1>3. QED
  BY <1>1, <1>2 DEF List!From

LEMMA FromBelow ==
  ASSUME NEW s, Chain(s), NEW c \in Nat \cup {None}
  PROVE  List!Serials(List!From(s, c)) = Below(s, c)
<1>1. s \in Seq(LNode)
  BY DEF Chain
<1>2. CASE c \notin List!Serials(s)
  <2>1. List!Serials(<<>>) = {}
    BY DEF List!Serials
  <2>2. QED
    BY <1>1, <1>2, <2>1, FromNothing DEF Below
<1>3. CASE c \in List!Serials(s)
  <2>1. PICK i \in 1..Len(s) : s[i].serial = c
    BY <1>1, <1>3, SerialIn
  <2>2. List!From(s, c) = SubSeq(s, i, Len(s))
    BY <2>1, FromAt
  <2>3. List!Serials(SubSeq(s, i, Len(s))) = {s[j].serial : j \in i..Len(s)}
    <3> DEFINE u == SubSeq(s, i, Len(s))
    <3>1. u \in Seq(LNode) /\ Len(u) = Len(s) - i + 1 /\ \A j \in 1..Len(u) : u[j] = s[i + j - 1]
      BY <1>1
    <3>2. {u[j].serial : j \in 1..Len(u)} = {s[j].serial : j \in i..Len(s)}
      <4>1. ASSUME NEW j \in 1..Len(u) PROVE u[j].serial \in {s[k].serial : k \in i..Len(s)}
        <5>1. i + j - 1 \in i..Len(s)
          BY <1>1, <3>1
        <5>2. QED
          BY <3>1, <5>1
      <4>2. ASSUME NEW k \in i..Len(s) PROVE s[k].serial \in {u[j].serial : j \in 1..Len(u)}
        <5>1. k - i + 1 \in 1..Len(u) /\ i + (k - i + 1) - 1 = k
          BY <1>1, <3>1
        <5>2. u[k - i + 1] = s[k]
          BY <3>1, <5>1
        <5>3. QED
          BY <5>1, <5>2
      <4>3. QED
        BY <4>1, <4>2
    <3>3. QED
      BY <3>1, <3>2, SerialIn
  <2>4. {s[j].serial : j \in i..Len(s)} = Below(s, c)
    <3>1. ASSUME NEW j \in i..Len(s) PROVE s[j].serial \in Below(s, c)
      <4>1. j \in 1..Len(s) /\ (j = i \/ i < j)
        BY <1>1
      <4>2. s[j].serial \in Nat /\ s[i].serial \in Nat /\ s[j].serial <= s[i].serial
        BY <1>1, <4>1, NodeFacts DEF Chain
      <4>3. QED
        BY <1>1, <1>3, <2>1, <4>1, <4>2, SerialIn DEF Below
    <3>2. ASSUME NEW x \in Below(s, c) PROVE x \in {s[j].serial : j \in i..Len(s)}
      <4>1. PICK j \in 1..Len(s) : s[j].serial = x
        BY <1>1, SerialIn DEF Below
      <4>2. s[j].serial <= s[i].serial /\ s[j].serial \in Nat /\ s[i].serial \in Nat
        BY <1>1, <2>1, <4>1, NodeFacts DEF Below
      <4>3. ~(j < i)
        BY <4>2 DEF Chain
      <4>4. QED
        BY <1>1, <4>1, <4>3
    <3>3. QED
      BY <3>1, <3>2
  <2>5. QED
    BY <2>2, <2>3, <2>4
<1>4. QED
  BY <1>2, <1>3

LEMMA FromSeq ==
  ASSUME NEW s, Chain(s), NEW c \in Nat \cup {None}
  PROVE  List!From(s, c) \in Seq(LNode)
<1>1. s \in Seq(LNode)
  BY DEF Chain
<1>2. CASE c \notin List!Serials(s)
  <2>1. <<>> \in Seq(LNode)
    OBVIOUS
  <2>2. QED
    BY <1>1, <1>2, <2>1, FromNothing
<1>3. CASE c \in List!Serials(s)
  <2>1. PICK i \in 1..Len(s) : s[i].serial = c
    BY <1>1, <1>3, SerialIn
  <2>2. SubSeq(s, i, Len(s)) \in Seq(LNode)
    BY <1>1
  <2>3. List!From(s, s[i].serial) \in Seq(LNode)
    BY <2>2, FromAt
  <2>4. QED
    BY <2>1, <2>3
<1>4. QED
  BY <1>2, <1>3

LEMMA ConcatSerials ==
  ASSUME NEW s \in Seq(LNode), NEW u \in Seq(LNode)
  PROVE  List!Serials(s \o u) = List!Serials(s) \cup List!Serials(u)
<1> DEFINE w == s \o u
<1>1. w \in Seq(LNode) /\ Len(w) = Len(s) + Len(u)
  OBVIOUS
<1>2. /\ \A i \in 1..Len(s) : w[i] = s[i]
      /\ \A i \in 1..Len(u) : w[Len(s) + i] = u[i]
  OBVIOUS
<1>3. ASSUME NEW i \in 1..Len(w) PROVE w[i].serial \in List!Serials(s) \cup List!Serials(u)
  <2>1. CASE i \in 1..Len(s)
    BY <1>2, <2>1, SerialIn
  <2>2. CASE i \notin 1..Len(s)
    <3>1. i - Len(s) \in 1..Len(u) /\ Len(s) + (i - Len(s)) = i
      BY <1>1, <2>2
    <3>2. w[i] = u[i - Len(s)]
      BY <1>2, <3>1
    <3>3. QED
      BY <3>1, <3>2, SerialIn
  <2>3. QED
    BY <2>1, <2>2
<1>4. ASSUME NEW i \in 1..Len(s) PROVE s[i].serial \in List!Serials(w)
  <2>1. i \in 1..Len(w)
    BY <1>1
  <2>2. QED
    BY <1>1, <1>2, <2>1, SerialIn
<1>5. ASSUME NEW i \in 1..Len(u) PROVE u[i].serial \in List!Serials(w)
  <2>1. Len(s) + i \in 1..Len(w)
    BY <1>1
  <2>2. QED
    BY <1>1, <1>2, <2>1, SerialIn
<1>6. \A x : x \in List!Serials(w) => x \in List!Serials(s) \cup List!Serials(u)
  <2>1. SUFFICES ASSUME NEW x \in List!Serials(w)
                 PROVE  x \in List!Serials(s) \cup List!Serials(u)
    OBVIOUS
  <2>2. PICK i \in 1..Len(w) : w[i].serial = x
    BY <1>1, SerialIn
  <2>3. QED
    BY <1>3, <2>2
<1>7. \A x : x \in List!Serials(s) => x \in List!Serials(w)
  BY <1>4, SerialIn
<1>8. \A x : x \in List!Serials(u) => x \in List!Serials(w)
  BY <1>5, SerialIn
<1>9. QED
  BY <1>6, <1>7, <1>8

(* What a new node at the head changes. *)
LEMMA ConsFacts ==
  ASSUME NEW s, Chain(s), NEW n \in LNode,
         \A i \in 1..Len(s) : s[i].serial < n.serial,
         n.id \notin List!IdsOf(s)
  PROVE  /\ Chain(<<n>> \o s)
         /\ List!Serials(<<n>> \o s) = List!Serials(s) \cup {n.serial}
         /\ List!IdsOf(<<n>> \o s) = List!IdsOf(s) \cup {n.id}
<1> DEFINE w == <<n>> \o s
<1>0. s \in Seq(LNode)
  BY DEF Chain
<1>1. w \in Seq(LNode) /\ Len(w) = Len(s) + 1 /\ w[1] = n
  BY <1>0
<1>2. \A i \in 1..Len(w) : i = 1 \/ (i - 1 \in 1..Len(s) /\ w[i] = s[i - 1])
  BY <1>0
<1>3. \A i \in 1..Len(s) : i + 1 \in 1..Len(w) /\ w[i + 1] = s[i]
  BY <1>0
<1>4. \A i, j \in 1..Len(w) : i < j => w[i].serial > w[j].serial
  <2>1. SUFFICES ASSUME NEW i \in 1..Len(w), NEW j \in 1..Len(w), i < j
                 PROVE  w[i].serial > w[j].serial
    OBVIOUS
  <2>2. j - 1 \in 1..Len(s) /\ w[j] = s[j - 1]
    BY <1>2, <2>1
  <2>3. CASE i = 1
    BY <1>1, <2>2, <2>3, <1>0, NodeFacts DEF LNode
  <2>4. CASE i # 1
    <3>1. i - 1 \in 1..Len(s) /\ w[i] = s[i - 1]
      BY <1>2, <2>4
    <3>2. i - 1 < j - 1
      BY <2>1
    <3>3. QED
      BY <2>2, <3>1, <3>2 DEF Chain
  <2>5. QED
    BY <2>3, <2>4
<1>5. \A i, j \in 1..Len(w) : w[i].id = w[j].id => i = j
  <2>1. SUFFICES ASSUME NEW i \in 1..Len(w), NEW j \in 1..Len(w), i < j
                 PROVE  w[i].id # w[j].id
    BY <1>1
  <2>2. j - 1 \in 1..Len(s) /\ w[j] = s[j - 1]
    BY <1>2, <2>1
  <2>3. CASE i = 1
    BY <1>1, <2>2, <2>3, <1>0, IdIn
  <2>4. CASE i # 1
    <3>1. i - 1 \in 1..Len(s) /\ w[i] = s[i - 1] /\ i - 1 # j - 1
      BY <1>2, <2>1, <2>4
    <3>3. QED
      BY <2>2, <3>1 DEF Chain
  <2>5. QED
    BY <2>3, <2>4
<1>6. 1 \in 1..Len(w)
  BY <1>1, <1>0
<1>7. List!Serials(w) = List!Serials(s) \cup {n.serial}
  <2>1. ASSUME NEW x PROVE (\E i \in 1..Len(w) : w[i].serial = x)
                             <=> x = n.serial \/ \E i \in 1..Len(s) : s[i].serial = x
    BY <1>1, <1>2, <1>3, <1>6
  <2>2. QED
    BY <1>0, <1>1, <2>1, SerialIn
<1>8. List!IdsOf(w) = List!IdsOf(s) \cup {n.id}
  <2>1. ASSUME NEW x PROVE (\E i \in 1..Len(w) : w[i].id = x)
                             <=> x = n.id \/ \E i \in 1..Len(s) : s[i].id = x
    BY <1>1, <1>2, <1>3, <1>6
  <2>2. QED
    <3>1. \A x : x \in List!IdsOf(w) <=> \E i \in 1..Len(w) : w[i].id = x
      BY <1>1, IdIn
    <3>2. \A x : x \in List!IdsOf(s) <=> \E i \in 1..Len(s) : s[i].id = x
      BY <1>0, IdIn
    <3>3. \A x : x \in List!IdsOf(w) <=> x \in List!IdsOf(s) \cup {n.id}
      BY <2>1, <3>1, <3>2
    <3>4. QED
      BY <3>3
<1>9. QED
  BY <1>1, <1>4, <1>5, <1>7, <1>8 DEF Chain

(* An update changes the value of a node and nothing else. *)
LEMMA UpdateFacts ==
  ASSUME NEW s, Chain(s), NEW k \in 1..Len(s), NEW v \in Values
  PROVE  /\ Chain([s EXCEPT ![k].value = v])
         /\ List!Serials([s EXCEPT ![k].value = v]) = List!Serials(s)
         /\ List!IdsOf([s EXCEPT ![k].value = v]) = List!IdsOf(s)
<1> DEFINE w == [s EXCEPT ![k].value = v]
<1>1. s \in Seq(LNode)
  BY DEF Chain
<1>2. /\ DOMAIN w = 1..Len(s)
      /\ \A i \in 1..Len(s) : w[i] = IF i = k THEN [s[i] EXCEPT !.value = v] ELSE s[i]
  BY <1>1
<1>3. \A i \in 1..Len(s) : [s[i] EXCEPT !.value = v] \in LNode
  BY <1>1, NodeFacts DEF LNode
<1>4. \A i \in 1..Len(s) : w[i] \in LNode
  BY <1>1, <1>2, <1>3, NodeFacts
<1>5. w \in [1..Len(s) -> LNode] /\ Len(s) \in Nat
  BY <1>1, <1>2, <1>4
<1> HIDE DEF w
<1>6. w \in Seq(LNode) /\ Len(w) = Len(s)
  BY <1>5
<1>7. \A i \in 1..Len(s) : w[i].serial = s[i].serial /\ w[i].id = s[i].id
  <2>1. \A n \in LNode : /\ [n EXCEPT !.value = v].serial = n.serial
                        /\ [n EXCEPT !.value = v].id = n.id
    BY DEF LNode
  <2>2. QED
    BY <1>1, <1>2, <2>1, NodeFacts
<1>8. Chain(w)
  BY <1>6, <1>7 DEF Chain
<1>9. List!Serials(w) = List!Serials(s)
  <2>1. \A x : x \in List!Serials(w) <=> x \in List!Serials(s)
    BY <1>1, <1>6, <1>7, SerialIn
  <2>2. QED
    BY <2>1
<1>10. List!IdsOf(w) = List!IdsOf(s)
  <2>1. \A x : x \in List!IdsOf(w) <=> x \in List!IdsOf(s)
    BY <1>1, <1>6, <1>7, IdIn
  <2>2. QED
    BY <2>1
<1>11. QED
  BY <1>8, <1>9, <1>10 DEF w

(* A node is unlinked. *)
LEMMA RemoveFacts ==
  ASSUME NEW s, Chain(s), NEW k \in 1..Len(s)
  PROVE  /\ Chain(List!RemoveAt(s, k))
         /\ List!Serials(List!RemoveAt(s, k)) = List!Serials(s) \ {s[k].serial}
<1> DEFINE w == List!RemoveAt(s, k)
           from(i) == IF i < k THEN i ELSE i + 1
<1>1. s \in Seq(LNode)
  BY DEF Chain
<1> DEFINE a == SubSeq(s, 1, k - 1)
           b == SubSeq(s, k + 1, Len(s))
<1>a. a \in Seq(LNode) /\ Len(a) = k - 1 /\ \A i \in 1..k - 1 : a[i] = s[i]
  BY <1>1
<1>b. b \in Seq(LNode) /\ Len(b) = Len(s) - k /\ \A i \in 1..Len(s) - k : b[i] = s[k + i]
  BY <1>1
<1>c. w = a \o b
  BY DEF List!RemoveAt
<1> HIDE DEF a, b
<1>2. w \in Seq(LNode) /\ Len(w) = Len(s) - 1
  BY <1>1, <1>a, <1>b, <1>c
<1>3. \A i \in 1..Len(w) : from(i) \in 1..Len(s) /\ from(i) # k /\ w[i] = s[from(i)]
  <2>1. SUFFICES ASSUME NEW i \in 1..Len(w)
                 PROVE  from(i) \in 1..Len(s) /\ from(i) # k /\ w[i] = s[from(i)]
    OBVIOUS
  <2>2. CASE i < k
    BY <1>1, <1>2, <1>a, <1>b, <1>c, <2>2
  <2>3. CASE ~(i < k)
    <3>1. i - (k - 1) \in 1..Len(s) - k /\ k + (i - (k - 1)) = i + 1
      BY <1>1, <1>2, <2>3
    <3>2. (a \o b)[i] = b[i - (k - 1)]
      BY <1>1, <1>2, <1>a, <1>b, <2>3
    <3>3. QED
      BY <1>1, <1>2, <1>b, <1>c, <2>3, <3>1, <3>2
  <2>4. QED
    BY <2>2, <2>3
<1>4. \A i \in 1..Len(s) : i # k => \E j \in 1..Len(w) : w[j] = s[i]
  <2>1. SUFFICES ASSUME NEW i \in 1..Len(s), i # k
                 PROVE  \E j \in 1..Len(w) : w[j] = s[i]
    OBVIOUS
  <2>2. CASE i < k
    <3>1. i \in 1..Len(w) /\ from(i) = i
      BY <1>1, <1>2, <2>2
    <3>2. QED
      BY <1>3, <3>1
  <2>3. CASE ~(i < k)
    <3>1. i - 1 \in 1..Len(w) /\ from(i - 1) = i
      BY <1>1, <1>2, <2>1, <2>3
    <3>2. QED
      BY <1>3, <3>1
  <2>4. QED
    BY <2>2, <2>3
<1>5. \A i, j \in 1..Len(w) : i < j => from(i) < from(j)
  BY <1>2
<1>6. \A i, j \in 1..Len(w) : from(i) = from(j) => i = j
  BY <1>2
<1> HIDE DEF w, from
<1>7. Chain(w)
  BY <1>2, <1>3, <1>5, <1>6 DEF Chain
<1>8. \A i \in 1..Len(s) : i # k => s[i].serial # s[k].serial
  BY <1>1, NodeFacts DEF Chain
<1>9. List!Serials(w) = List!Serials(s) \ {s[k].serial}
  <2>1. ASSUME NEW x PROVE (\E j \in 1..Len(w) : w[j].serial = x)
                             <=> x # s[k].serial /\ \E i \in 1..Len(s) : s[i].serial = x
    BY <1>3, <1>4, <1>8
  <2>2. \A x : x \in List!Serials(w) <=> x \in List!Serials(s) \ {s[k].serial}
    BY <1>1, <1>2, <2>1, SerialIn
  <2>3. QED
    BY <2>2
<1>10. QED
  BY <1>7, <1>9 DEF w

(* The record that is inserted next joins the prefix that is in the list.  *)
LEMMA PrefixIds ==
  ASSUME NEW S, NEW s \in Seq(S), NEW n \in 1..Len(s)
  PROVE  List!IdsOf(SubSeq(s, 1, n)) = List!IdsOf(SubSeq(s, 1, n - 1)) \cup {s[n].id}
<1> DEFINE a == SubSeq(s, 1, n)
           b == SubSeq(s, 1, n - 1)
<1>1. a \in Seq(S) /\ Len(a) = n /\ \A i \in 1..n : a[i] = s[i]
  OBVIOUS
<1>2. b \in Seq(S) /\ Len(b) = n - 1 /\ \A i \in 1..n - 1 : b[i] = s[i]
  OBVIOUS
<1> HIDE DEF a, b
<1>3. \A x : (\E i \in 1..Len(a) : a[i].id = x)
               <=> x = s[n].id \/ \E i \in 1..Len(b) : b[i].id = x
  BY <1>1, <1>2
<1>4. \A x : x \in List!IdsOf(a) <=> \E i \in 1..Len(a) : a[i].id = x
  BY <1>1, IdIn
<1>5. \A x : x \in List!IdsOf(b) <=> \E i \in 1..Len(b) : b[i].id = x
  BY <1>2, IdIn
<1>6. \A x : x \in List!IdsOf(a) <=> x \in List!IdsOf(b) \cup {s[n].id}
  BY <1>3, <1>4, <1>5
<1>7. List!IdsOf(a) = List!IdsOf(b) \cup {s[n].id}
  BY <1>6
<1>8. QED
  BY <1>7 DEF a, b

(* A batch that has inserted nothing yet.                                  *)
LEMMA EmptyPrefix ==
  ASSUME NEW S, NEW s \in Seq(S)
  PROVE  List!IdsOf(SubSeq(s, 1, 0)) = {}
<1>1. DOMAIN SubSeq(s, 1, 0) = {}
  OBVIOUS
<1>2. QED
  BY <1>1 DEF List!IdsOf

(* Where a search for an id ends. *)
LEMMA PositionFacts ==
  ASSUME Chain(list), NEW id
  PROVE  /\ List!Positions(id) \subseteq 1..Len(list)
         /\ \A i, j \in List!Positions(id) : i = j
         /\ \A i \in List!Positions(id) : list[i].id = id
         /\ List!Positions(id) = {} <=> id \notin List!IdsOf(list)
         /\ List!Positions(id) # {} => List!Min(List!Positions(id)) \in List!Positions(id)
<1> DEFINE P == List!Positions(id)
<1>1. list \in Seq(LNode) /\ DOMAIN list = 1..Len(list)
  BY DEF Chain
<1>2. \A i : i \in P <=> i \in 1..Len(list) /\ list[i].id = id
  BY <1>1 DEF List!Positions
<1>3. \A i, j \in P : i = j
  BY <1>2 DEF Chain
<1>4. P = {} <=> id \notin List!IdsOf(list)
  <2>1. \A x : x \in List!IdsOf(list) <=> \E i \in 1..Len(list) : list[i].id = x
    BY <1>1, IdIn
  <2>2. QED
    BY <1>2, <2>1
<1> HIDE DEF P
<1>5. ASSUME P # {} PROVE List!Min(P) \in P
  <2>1. PICK n : n \in P
    BY <1>5
  <2>2. n \in P /\ \A y \in P : n =< y
    BY <1>1, <1>2, <1>3, <2>1
  <2>3. \E x \in P : \A y \in P : x =< y
    BY <2>2
  <2>4. (CHOOSE x \in P : \A y \in P : x =< y) \in P
    BY <2>3
  <2>5. QED
    BY <2>4 DEF List!Min
<1>6. QED
  BY <1>2, <1>3, <1>4, <1>5 DEF P

-----------------------------------------------------------------------------
(* The cursor. *)
(* Empty lists, and cursors that stand nowhere.                            *)
LEMMA BelowNothing ==
  ASSUME NEW s, NEW c, c \notin List!Serials(s)
  PROVE  Below(s, c) = {}
BY DEF Below

LEMMA EmptySerials == List!Serials(<<>>) = {}
BY DEF List!Serials

LEMMA EmptyIds == List!IdsOf(<<>>) = {}
BY DEF List!IdsOf

LEMMA EmptyChain == Chain(<<>>)
BY DEF Chain

(* The cursor stands on node i of a list, and moves to the next.           *)
LEMMA NextInChain ==
  ASSUME NEW s, Chain(s), None \notin Nat, NEW i \in 1..Len(s),
         NEW d, d = List!HeadOf(Tail(SubSeq(s, i, Len(s))))
  PROVE  /\ d \in List!Serials(s) \cup {None}
         /\ d # None => d < s[i].serial
         /\ Below(s, s[i].serial) \ {s[i].serial} = Below(s, d)
<1>1. s \in Seq(LNode)
  BY DEF Chain
<1>2. \A x : x \in List!Serials(s) <=> \E j \in 1..Len(s) : s[j].serial = x
  BY <1>1, SerialIn
<1>3. \A j \in 1..Len(s) : s[j].serial \in Nat
  BY <1>1, NodeFacts
<1>4. \A j \in 1..Len(s) : s[j].serial < s[i].serial => i < j
  <2>1. SUFFICES ASSUME NEW j \in 1..Len(s), s[j].serial < s[i].serial, ~(i < j)
                 PROVE  FALSE
    OBVIOUS
  <2>2. j = i \/ j < i
    BY <1>1, <2>1
  <2>3. s[j].serial >= s[i].serial
    BY <1>3, <2>2 DEF Chain
  <2>4. QED
    BY <1>3, <2>1, <2>3
<1>5. CASE i = Len(s)
  <2>1. Tail(SubSeq(s, i, Len(s))) = <<>>
    BY <1>1, <1>5
  <2>2. d = None
    BY <2>1 DEF List!HeadOf
  <2>3. d \notin List!Serials(s)
    BY <1>1, <2>2, SerialIn
  <2>4. \A x \in Below(s, s[i].serial) : x = s[i].serial
    <3>1. SUFFICES ASSUME NEW x \in Below(s, s[i].serial) PROVE x = s[i].serial
      OBVIOUS
    <3>2. PICK j \in 1..Len(s) : s[j].serial = x
      BY <1>2 DEF Below
    <3>3. s[j].serial <= s[i].serial
      BY <3>2 DEF Below
    <3>4. ~(i < j)
      BY <1>1, <1>5
    <3>5. QED
      BY <1>3, <1>4, <3>2, <3>3, <3>4
  <2>5. QED
    BY <2>2, <2>3, <2>4, BelowNothing
<1>6. CASE i # Len(s)
  <2>1. i + 1 \in 1..Len(s)
    BY <1>1, <1>6
  <2>2. /\ Tail(SubSeq(s, i, Len(s))) # <<>>
        /\ Tail(SubSeq(s, i, Len(s)))[1] = s[i + 1]
    <3> DEFINE v == SubSeq(s, i, Len(s))
    <3>1. v \in Seq(LNode) /\ Len(v) > 1 /\ v[2] = s[i + 1]
      BY <1>1, <1>6
    <3> HIDE DEF v
    <3>2. Tail(v) \in Seq(LNode) /\ Len(Tail(v)) = Len(v) - 1
      BY <3>1
    <3>3. \A j \in 1..Len(v) - 1 : Tail(v)[j] = v[j + 1]
      BY <3>1
    <3>4. 1 \in 1..Len(v) - 1 /\ 1 + 1 = 2
      BY <3>1
    <3>5. Tail(v)[1] = v[2]
      BY <3>3, <3>4
    <3>6. Tail(v) # <<>>
      <4>1. Len(Tail(v)) # 0
        BY <3>1, <3>2
      <4>2. Len(<<>>) = 0
        OBVIOUS
      <4>3. QED
        BY <4>1, <4>2
    <3>7. QED
      BY <3>1, <3>5, <3>6 DEF v
  <2>3. d = s[i + 1].serial
    BY <2>2 DEF List!HeadOf
  <2>4. d < s[i].serial
    BY <1>3, <2>1, <2>3 DEF Chain
  <2>5. d \in List!Serials(s) /\ s[i].serial \in List!Serials(s)
    BY <1>2, <2>1, <2>3
  <2>6. \A j \in 1..Len(s) : i < j => s[j].serial <= d
    <3>1. SUFFICES ASSUME NEW j \in 1..Len(s), i < j PROVE s[j].serial <= d
      OBVIOUS
    <3>2. j = i + 1 \/ i + 1 < j
      BY <1>1, <3>1
    <3>3. QED
      BY <1>3, <2>1, <2>3, <3>2 DEF Chain
  <2>7. \A j \in 1..Len(s) : s[j].serial <= s[i].serial /\ s[j].serial # s[i].serial
                               <=> s[j].serial <= d
    BY <1>3, <1>4, <2>1, <2>3, <2>4, <2>6
  <2>8. \A x : x \in Below(s, s[i].serial) \ {s[i].serial} <=> x \in Below(s, d)
    BY <1>2, <2>5, <2>7 DEF Below
  <2>9. QED
    BY <2>4, <2>5, <2>8
<1>7. QED
  BY <1>5, <1>6

(* The cursor moves over the list or the leaked list it stands in.         *)
LEMMA NextCursor ==
  ASSUME NEW s, Chain(s), NEW u, Chain(u), None \notin Nat,
         List!Serials(s) \cap List!Serials(u) = {},
         NEW c \in Nat \cup {None},
         NEW d, d = List!HeadOf(Tail(List!From(s, c) \o List!From(u, c))),
         List!From(s, c) \o List!From(u, c) # <<>>
  PROVE  /\ c \in Nat
         /\ d \in Nat \cup {None}
         /\ d # None => d < c
         /\ (Below(s, c) \cup Below(u, c)) \ {c} = Below(s, d) \cup Below(u, d)
<1>1. s \in Seq(LNode) /\ u \in Seq(LNode)
  BY DEF Chain
<1>2. List!Serials(s) \subseteq Nat /\ List!Serials(u) \subseteq Nat
  BY <1>1, SerialIn
<1>3. CASE c \in List!Serials(s)
  <2>1. PICK i \in 1..Len(s) : s[i].serial = c
    BY <1>1, <1>3, SerialIn
  <2>2. c \notin List!Serials(u)
    BY <1>3
  <2>3. List!From(u, c) = <<>>
    BY <1>1, <2>2, FromNothing
  <2>4. List!From(s, c) = SubSeq(s, i, Len(s))
    BY <2>1, FromAt
  <2>5. SubSeq(s, i, Len(s)) \o <<>> = SubSeq(s, i, Len(s))
    BY <1>1
  <2>6. d = List!HeadOf(Tail(SubSeq(s, i, Len(s))))
    BY <2>3, <2>4, <2>5
  <2>7. /\ d \in List!Serials(s) \cup {None}
        /\ d # None => d < c
        /\ Below(s, c) \ {c} = Below(s, d)
    BY <2>1, <2>6, NextInChain
  <2>8. d \notin List!Serials(u)
    BY <1>2, <2>7
  <2>9. Below(u, c) = {} /\ Below(u, d) = {}
    BY <2>2, <2>8, BelowNothing
  <2>10. QED
    BY <1>2, <1>3, <2>7, <2>9
<1>4. CASE c \in List!Serials(u)
  <2>1. PICK i \in 1..Len(u) : u[i].serial = c
    BY <1>1, <1>4, SerialIn
  <2>2. c \notin List!Serials(s)
    BY <1>4
  <2>3. List!From(s, c) = <<>>
    BY <1>1, <2>2, FromNothing
  <2>4. List!From(u, c) = SubSeq(u, i, Len(u))
    BY <2>1, FromAt
  <2>5. <<>> \o SubSeq(u, i, Len(u)) = SubSeq(u, i, Len(u))
    BY <1>1
  <2>6. d = List!HeadOf(Tail(SubSeq(u, i, Len(u))))
    BY <2>3, <2>4, <2>5
  <2>7. /\ d \in List!Serials(u) \cup {None}
        /\ d # None => d < c
        /\ Below(u, c) \ {c} = Below(u, d)
    BY <2>1, <2>6, NextInChain
  <2>8. d \notin List!Serials(s)
    BY <1>2, <2>7
  <2>9. Below(s, c) = {} /\ Below(s, d) = {}
    BY <2>2, <2>8, BelowNothing
  <2>10. QED
    BY <1>2, <1>4, <2>7, <2>9
<1>5. CASE c \notin List!Serials(s) /\ c \notin List!Serials(u)
  <2>1. List!From(s, c) = <<>> /\ List!From(u, c) = <<>>
    BY <1>1, <1>5, FromNothing
  <2>2. <<>> \o <<>> = <<>>
    OBVIOUS
  <2>3. QED
    BY <2>1, <2>2
<1>6. QED
  BY <1>3, <1>4, <1>5

(* What the iterator has ahead of it. *)
LEMMA AheadSerials ==
  ASSUME Chain(list), Chain(leaked), iterator.cursor \in Nat \cup {None}
  PROVE  List!Serials(List!Ahead) = Below(list, iterator.cursor) \cup Below(leaked, iterator.cursor)
<1>1. /\ List!From(list, iterator.cursor) \in Seq(LNode)
      /\ List!From(leaked, iterator.cursor) \in Seq(LNode)
  BY FromSeq
<1>2. /\ List!Serials(List!From(list, iterator.cursor)) = Below(list, iterator.cursor)
      /\ List!Serials(List!From(leaked, iterator.cursor)) = Below(leaked, iterator.cursor)
  BY FromBelow
<1>3. QED
  BY <1>1, <1>2, ConcatSerials DEF List!Ahead

(* A query puts the cursor at the head: everything is ahead. *)
LEMMA HeadFacts ==
  ASSUME NEW s, Chain(s), None \notin Nat
  PROVE  /\ List!HeadOf(s) \in List!Serials(s) \cup {None}
         /\ Below(s, List!HeadOf(s)) = List!Serials(s)
         /\ List!From(s, List!HeadOf(s)) = s
<1>1. s \in Seq(LNode)
  BY DEF Chain
<1>2. CASE s = <<>>
  <2>1. List!HeadOf(s) = None /\ List!Serials(s) = {}
    BY <1>2, EmptySerials DEF List!HeadOf
  <2>2. QED
    BY <1>1, <1>2, <2>1, FromNothing, BelowNothing
<1>3. CASE s # <<>>
  <2>1. 1 \in 1..Len(s) /\ List!HeadOf(s) = s[1].serial
    BY <1>1, <1>3 DEF List!HeadOf
  <2>2. List!From(s, s[1].serial) = SubSeq(s, 1, Len(s))
    BY <2>1, FromAt
  <2>3. SubSeq(s, 1, Len(s)) = s
    BY <1>1
  <2>4. s[1].serial \in Nat /\ s[1].serial \in List!Serials(s)
    BY <1>1, <2>1, NodeFacts, SerialIn
  <2>5. List!Serials(s) = Below(s, s[1].serial)
    BY <2>2, <2>3, <2>4, FromBelow
  <2>6. QED
    BY <2>1, <2>2, <2>3, <2>4, <2>5
<1>4. QED
  BY <1>2, <1>3

-----------------------------------------------------------------------------
Record == [id : Ids, value : Values]

ListTyped ==
  /\ pc \in [Threads -> {"idle", "searching", "allocated", "reading"}]
  /\ insert \in [Threads -> Seq(Record)]
  /\ next \in [Threads -> Nat]
  /\ head \in [Threads -> Nat \cup {None}]
  /\ before \in [Threads -> SUBSET Ids]
  /\ reply \in [Threads -> Values \cup {None, "SUCCESS", "NOT_FOUND",
                                        "ALREADY_INITIALIZED", "OUT_OF_MEMORY"}]

(* Both lists are chains of the nodes allocated so far, with none in common. *)
ListShape ==
  /\ nodes \in Nat
  /\ Chain(list) /\ Chain(leaked)
  /\ \A x \in List!Serials(list) \cup List!Serials(leaked) : x <= nodes
  /\ List!Serials(list) \cap List!Serials(leaked) = {}

OneInCall == \A t, u \in Threads : pc[t] # "idle" /\ pc[u] # "idle" => t = u

(* What is in the list while a thread inserts. *)
Adding(t) ==
  /\ pc[t] = "idle" => next[t] = 1
  /\ pc[t] # "idle" =>
       /\ next[t] \in 1..Len(insert[t])
       /\ List!IdsOf(list) = before[t] \cup List!IdsOf(SubSeq(insert[t], 1, next[t] - 1))
  /\ pc[t] \in {"allocated", "reading"} => insert[t][next[t]].id \notin List!IdsOf(list)
  /\ pc[t] = "reading" => head[t] = List!HeadOf(list)

(* What is due is ahead of the cursor, and what was returned is above it.  *)
OnCourse(it) ==
  /\ it.due \subseteq Below(list, it.cursor) \cup Below(leaked, it.cursor)
  /\ \A i, j \in 1..Len(it.got) : it.got[i] = it.got[j] => i = j
  /\ it.cursor # None => \A i \in 1..Len(it.got) : it.got[i] > it.cursor

Tracked(it) ==
  /\ it \in [cursor : Nat \cup {None}, due : SUBSET Nat, got : Seq(Nat), dangling : BOOLEAN]
  /\ it.cursor # None => it.cursor <= nodes
  /\ ~it.dangling => OnCourse(it)

ListInv ==
  /\ ListTyped /\ ListShape /\ OneInCall
  /\ \A t \in Threads : Adding(t)
  /\ iterator # None => Tracked(iterator)

(* The registry before it is initialised.                                  *)
LEMMA ListInitially ==
  ASSUME List!ListAssumption, List!Init
  PROVE  ListInv
<1>1. ListTyped
  BY DEF List!Init, ListTyped
<1>2. ListShape
  BY EmptyChain, EmptySerials DEF List!Init, ListShape
<1>3. QED
  BY <1>1, <1>2 DEF List!Init, ListInv, OneInCall, Adding

(* The steps that leave the lists alone. *)
Still(t) ==
  \/ List!CallInsert(t) \/ List!AddFound(t) \/ List!AddNoMemory(t)
  \/ List!AddAllocate(t) \/ List!AddReadHead(t) \/ List!Get(t) \/ List!Iterate(t)

LEMMA StillKeeps ==
  ASSUME NEW t \in Threads, Still(t)
  PROVE  UNCHANGED <<list, leaked, nodes>>
BY DEF Still, List!CallInsert, List!AddFound, List!AddNoMemory, List!AddAllocate,
       List!AddReadHead, List!Get, List!Iterate, List!Query, List!IterNext,
       List!IterNextFreed, List!IterEnd, List!IterDestroy

(* The cases of a step that the proofs tell apart.                         *)
LEMMA ListSteps ==
  ASSUME List!SerialNext
  PROVE  \/ List!RegistryInit
         \/ List!RegistryShutdown
         \/ \E t \in Threads :
              /\ List!Alone(t)
              /\ Still(t) \/ List!AddLink(t) \/ List!Update(t) \/ List!Delete(t)
BY DEF List!SerialNext, List!Step, List!Insert, Still

(* The node a thread links. *)
LEMMA LinkFacts ==
  ASSUME List!ListAssumption, ListInv, NEW t \in Threads, List!AddLink(t)
  PROVE  /\ insert[t][next[t]] \in Record /\ next[t] \in 1..Len(insert[t])
         /\ nodes' = nodes + 1 /\ leaked' = leaked /\ iterator' = iterator
         /\ Chain(list')
         /\ List!Serials(list') = List!Serials(list) \cup {nodes + 1}
         /\ List!IdsOf(list') = List!IdsOf(list) \cup {insert[t][next[t]].id}
<1> DEFINE r == insert[t][next[t]]
           n == [serial |-> nodes + 1, id |-> r.id, value |-> r.value]
<1>1. pc[t] = "reading" /\ list' = List!Linked(t)
  BY DEF List!AddLink
<1>2. /\ next[t] \in 1..Len(insert[t])
      /\ r.id \notin List!IdsOf(list)
      /\ head[t] = List!HeadOf(list)
  BY <1>1 DEF ListInv, Adding
<1>3. r \in Record
  BY <1>2 DEF ListInv, ListTyped
<1>4. nodes \in Nat /\ Chain(list) /\ \A x \in List!Serials(list) : x <= nodes
  BY DEF ListInv, ListShape
<1>5. n \in LNode
  BY <1>3, <1>4 DEF LNode, Record
<1>6. list' = <<n>> \o list
  BY <1>1, <1>2, <1>4, HeadFacts DEF List!Linked, List!ListAssumption
<1>7. \A i \in 1..Len(list) : list[i].serial < n.serial
  <2>1. list \in Seq(LNode)
    BY <1>4 DEF Chain
  <2>2. \A i \in 1..Len(list) : list[i].serial \in List!Serials(list) /\ list[i].serial \in Nat
    BY <2>1, SerialIn, NodeFacts
  <2>3. QED
    BY <1>4, <2>2
<1>8. n.id = r.id /\ n.serial = nodes + 1
  OBVIOUS
<1> HIDE DEF n
<1>9. /\ Chain(<<n>> \o list)
      /\ List!Serials(<<n>> \o list) = List!Serials(list) \cup {n.serial}
      /\ List!IdsOf(<<n>> \o list) = List!IdsOf(list) \cup {n.id}
  BY <1>2, <1>4, <1>5, <1>7, <1>8, ConsFacts
<1>10. nodes' = nodes + 1 /\ leaked' = leaked /\ iterator' = iterator
  BY DEF List!AddLink
<1>11. QED
  BY <1>2, <1>3, <1>6, <1>8, <1>9, <1>10

(* An update, which leaves the ids and the order of the nodes alone.       *)
LEMMA ListUpdateFacts ==
  ASSUME ListInv, NEW t \in Threads, List!Update(t)
  PROVE  /\ UNCHANGED <<initialized, leaked, nodes, pc, insert, next, head, before, iterator>>
         /\ pc[t] = "idle"
         /\ Chain(list')
         /\ List!Serials(list') = List!Serials(list)
         /\ List!IdsOf(list') = List!IdsOf(list)
<1>1. Chain(list)
  BY DEF ListInv, ListShape
<1>2. PICK id \in Ids, value \in Values :
        IF List!Positions(id) = {}
        THEN List!Answer(t, "NOT_FOUND") /\ UNCHANGED list
        ELSE /\ list' = [list EXCEPT ![List!Min(List!Positions(id))].value = value]
             /\ List!Answer(t, "SUCCESS")
  BY DEF List!Update
<1>3. /\ UNCHANGED <<initialized, leaked, nodes, pc, insert, next, head, before, iterator>>
      /\ pc[t] = "idle"
  BY DEF List!Update, List!calls
<1>4. CASE List!Positions(id) = {}
  BY <1>1, <1>2, <1>3, <1>4
<1>5. CASE List!Positions(id) # {}
  <2>1. List!Min(List!Positions(id)) \in 1..Len(list)
    BY <1>1, <1>5, PositionFacts
  <2>2. QED
    BY <1>1, <1>2, <1>3, <1>5, <2>1, UpdateFacts
<1>6. QED
  BY <1>4, <1>5

(* A delete that finds nothing, or that frees the node x. *)
LEMMA DeleteFacts ==
  ASSUME ListInv, NEW t \in Threads, List!Delete(t)
  PROVE  /\ UNCHANGED <<initialized, leaked, nodes, pc, insert, next, head, before>>
         /\ pc[t] = "idle"
         /\ \/ UNCHANGED <<list, iterator>>
            \/ \E x \in List!Serials(list) :
                 /\ Chain(list')
                 /\ List!Serials(list') = List!Serials(list) \ {x}
                 /\ List!Freed({x})
<1>1. Chain(list)
  BY DEF ListInv, ListShape
<1>2. PICK id \in Ids :
        IF List!Positions(id) = {}
        THEN List!Answer(t, "NOT_FOUND") /\ UNCHANGED <<list, iterator>>
        ELSE LET i == List!Min(List!Positions(id))
             IN  /\ list' = List!RemoveAt(list, i)
                 /\ List!Freed({list[i].serial})
                 /\ List!Answer(t, "SUCCESS")
  BY DEF List!Delete
<1>3. /\ UNCHANGED <<initialized, leaked, nodes, pc, insert, next, head, before>>
      /\ pc[t] = "idle"
  BY DEF List!Delete, List!calls
<1>4. CASE List!Positions(id) = {}
  BY <1>2, <1>3, <1>4
<1>5. CASE List!Positions(id) # {}
  <2> DEFINE i == List!Min(List!Positions(id))
  <2>1. i \in 1..Len(list)
    BY <1>1, <1>5, PositionFacts
  <2>2. list' = List!RemoveAt(list, i) /\ List!Freed({list[i].serial})
    BY <1>2, <1>5
  <2> HIDE DEF i
  <2>3. /\ Chain(list')
        /\ List!Serials(list') = List!Serials(list) \ {list[i].serial}
    BY <1>1, <2>1, <2>2, RemoveFacts
  <2>4. list[i].serial \in List!Serials(list)
    BY <1>1, <2>1, SerialIn DEF Chain
  <2>5. QED
    BY <1>3, <2>2, <2>3, <2>4
<1>6. QED
  BY <1>4, <1>5

-----------------------------------------------------------------------------
(* No step brings a node into two lists or links one out of order.         *)
LEMMA ShapeStep ==
  ASSUME List!ListAssumption, ListInv, List!SerialNext
  PROVE  ListShape'
<1>1. ListShape
  BY DEF ListInv
<1>2. CASE List!RegistryInit
  <2>1. list' = <<>> /\ nodes' = nodes /\ (leaked' = leaked \/ leaked' = list)
    BY <1>2 DEF List!RegistryInit
  <2>2. QED
    BY <1>1, <2>1, EmptyChain, EmptySerials DEF ListShape
<1>3. CASE List!RegistryShutdown
  <2>1. list' = <<>> /\ nodes' = nodes /\ leaked' = leaked
    BY <1>3 DEF List!RegistryShutdown
  <2>2. QED
    BY <1>1, <2>1, EmptyChain, EmptySerials DEF ListShape
<1>4. ASSUME NEW t \in Threads, Still(t) PROVE ListShape'
  BY <1>1, <1>4, StillKeeps DEF ListShape
<1>5. ASSUME NEW t \in Threads, List!AddLink(t) PROVE ListShape'
  <2>1. /\ nodes' = nodes + 1 /\ leaked' = leaked
        /\ Chain(list')
        /\ List!Serials(list') = List!Serials(list) \cup {nodes + 1}
    BY <1>5, LinkFacts
  <2>2. List!Serials(leaked) \subseteq Nat /\ List!Serials(list) \subseteq Nat
    BY <1>1, SerialIn DEF ListShape, Chain
  <2>3. nodes + 1 \notin List!Serials(leaked)
    BY <1>1, <2>2 DEF ListShape
  <2>4. QED
    BY <1>1, <2>1, <2>2, <2>3 DEF ListShape
<1>6. ASSUME NEW t \in Threads, List!Update(t) PROVE ListShape'
  BY <1>1, <1>6, ListUpdateFacts DEF ListShape
<1>7. ASSUME NEW t \in Threads, List!Delete(t) PROVE ListShape'
  BY <1>1, <1>7, DeleteFacts DEF ListShape
<1>8. QED
  BY <1>2, <1>3, <1>4, <1>5, <1>6, <1>7, ListSteps

(* Every variable of the calls keeps its type.                             *)
LEMMA TypedStep ==
  ASSUME List!ListAssumption, ListInv, List!SerialNext
  PROVE  ListTyped'
<1>1. ListTyped /\ Chain(list) /\ nodes \in Nat
  BY DEF ListInv, ListShape
<1>2. CASE List!RegistryInit \/ List!RegistryShutdown
  BY <1>1, <1>2 DEF List!RegistryInit, List!RegistryShutdown, List!calls, ListTyped
<1>3. ASSUME NEW t \in Threads PROVE List!CallInsert(t) => ListTyped'
  <2>1. SUFFICES ASSUME List!CallInsert(t) PROVE ListTyped'
    OBVIOUS
  <2>2. PICK records \in Inserts : insert' = [insert EXCEPT ![t] = records]
    BY <2>1 DEF List!CallInsert
  <2>3. records \in Seq(Record)
    BY DEF List!ListAssumption, Record
  <2>4. List!IdsOf(list) \subseteq Ids
    BY <1>1, IdIn, NodeFacts DEF Chain
  <2>5. QED
    BY <1>1, <2>1, <2>2, <2>3, <2>4 DEF List!CallInsert, ListTyped
<1>4. ASSUME NEW t \in Threads, NEW code \in {"SUCCESS", "ALREADY_INITIALIZED", "OUT_OF_MEMORY"},
             List!Return(t, code)
      PROVE  ListTyped'
  <2>1. <<>> \in Seq(Record)
    OBVIOUS
  <2>2. QED
    BY <1>1, <1>4, <2>1 DEF List!Return, List!Answer, ListTyped
<1>5. ASSUME NEW t \in Threads PROVE List!AddFound(t) \/ List!AddNoMemory(t) => ListTyped'
  BY <1>4 DEF List!AddFound, List!AddNoMemory
<1>6. ASSUME NEW t \in Threads PROVE List!AddAllocate(t) => ListTyped'
  BY <1>1 DEF List!AddAllocate, ListTyped
<1>7. ASSUME NEW t \in Threads PROVE List!AddReadHead(t) => ListTyped'
  <2>1. List!HeadOf(list) \in Nat \cup {None}
    BY <1>1, HeadFacts, SerialIn DEF Chain, List!ListAssumption
  <2>2. QED
    BY <1>1, <2>1 DEF List!AddReadHead, ListTyped
<1>8. ASSUME NEW t \in Threads, List!AddLink(t) PROVE ListTyped'
  <2>1. List!Continue(t)
    BY <1>8 DEF List!AddLink
  <2>2. CASE next[t] < Len(insert[t])
    <3>1. /\ next' = [next EXCEPT ![t] = next[t] + 1]
          /\ pc' = [pc EXCEPT ![t] = "searching"]
          /\ head' = [head EXCEPT ![t] = None]
          /\ UNCHANGED <<insert, before, reply>>
      BY <2>1, <2>2 DEF List!Continue
    <3>2. next[t] + 1 \in Nat
      BY <1>1 DEF ListTyped
    <3>3. QED
      BY <1>1, <3>1, <3>2 DEF ListTyped
  <2>3. CASE ~(next[t] < Len(insert[t]))
    BY <1>4, <2>1, <2>3 DEF List!Continue
  <2>4. QED
    BY <2>2, <2>3
<1>9. ASSUME NEW t \in Threads, NEW code \in Values \cup {"SUCCESS", "NOT_FOUND"},
             List!Answer(t, code), UNCHANGED <<pc, insert, next, head, before>>
      PROVE  ListTyped'
  BY <1>1, <1>9 DEF List!Answer, ListTyped
<1>10. ASSUME NEW t \in Threads, List!Update(t) PROVE ListTyped'
  <2>1. List!Answer(t, "SUCCESS") \/ List!Answer(t, "NOT_FOUND")
    BY <1>10 DEF List!Update
  <2>2. QED
    BY <1>9, <1>10, <2>1 DEF List!Update, List!calls
<1>11. ASSUME NEW t \in Threads, List!Delete(t) PROVE ListTyped'
  <2>1. List!Answer(t, "SUCCESS") \/ List!Answer(t, "NOT_FOUND")
    BY <1>11 DEF List!Delete
  <2>2. QED
    BY <1>9, <1>11, <2>1 DEF List!Delete, List!calls
<1>12. ASSUME NEW t \in Threads PROVE List!Get(t) => ListTyped'
  <2>1. SUFFICES ASSUME List!Get(t) PROVE ListTyped'
    OBVIOUS
  <2>2. PICK id \in Ids :
          List!Answer(t, IF List!Positions(id) = {} THEN "NOT_FOUND"
                         ELSE list[List!Min(List!Positions(id))].value)
    BY <2>1 DEF List!Get
  <2>3. CASE List!Positions(id) = {}
    BY <1>9, <2>1, <2>2, <2>3 DEF List!Get, List!calls
  <2>4. CASE List!Positions(id) # {}
    <3>1. List!Min(List!Positions(id)) \in 1..Len(list)
      BY <1>1, <2>4, PositionFacts
    <3>2. list[List!Min(List!Positions(id))].value \in Values
      BY <1>1, <3>1, NodeFacts DEF Chain
    <3>3. QED
      BY <1>9, <2>1, <2>2, <2>4, <3>2 DEF List!Get, List!calls
  <2>5. QED
    BY <2>3, <2>4
<1>13. ASSUME NEW t \in Threads PROVE List!Iterate(t) => ListTyped'
  <2>1. ASSUME List!IterDestroy(t) PROVE ListTyped'
    BY <1>1, <2>1 DEF List!IterDestroy, List!calls, ListTyped
  <2>2. ASSUME List!Query(t) \/ List!IterNext(t) \/ List!IterNextFreed(t) \/ List!IterEnd(t)
        PROVE  ListTyped'
    <3>1. /\ UNCHANGED <<pc, insert, next, head, before>>
          /\ List!Answer(t, "SUCCESS") \/ List!Answer(t, "NOT_FOUND")
      BY <2>2 DEF List!Query, List!IterNext, List!IterNextFreed, List!IterEnd, List!calls
    <3>2. QED
      BY <1>9, <3>1
  <2>3. QED
    BY <2>1, <2>2 DEF List!Iterate
<1>14. QED
  BY <1>2, <1>3, <1>5, <1>6, <1>7, <1>8, <1>10, <1>11, <1>12, <1>13, ListSteps DEF Still

(* Only the caller whose turn it is leaves the idle state. *)
LEMMA TurnStep ==
  ASSUME ListInv, List!SerialNext
  PROVE  OneInCall'
<1>1. OneInCall /\ ListTyped
  BY DEF ListInv
<1>2. CASE List!RegistryInit \/ List!RegistryShutdown
  BY <1>1, <1>2 DEF List!RegistryInit, List!RegistryShutdown, List!calls, OneInCall
<1>3. ASSUME NEW t \in Threads, List!Alone(t),
             \A u \in Threads \ {t} : pc'[u] = pc[u]
      PROVE  OneInCall'
  BY <1>3 DEF List!Alone, OneInCall
<1>4. ASSUME NEW t \in Threads,
             Still(t) \/ List!AddLink(t) \/ List!Update(t) \/ List!Delete(t)
      PROVE  \A u \in Threads \ {t} : pc'[u] = pc[u]
  <2>1. UNCHANGED pc \/ \E location : pc' = [pc EXCEPT ![t] = location]
    BY <1>4 DEF Still, List!CallInsert, List!AddFound, List!AddNoMemory, List!AddAllocate,
       List!AddReadHead, List!Get, List!Iterate, List!Query, List!IterNext, List!IterNextFreed,
       List!IterEnd, List!IterDestroy, List!AddLink, List!Continue, List!Return, List!Update,
       List!Delete, List!calls
  <2>2. QED
    BY <1>1, <2>1 DEF ListTyped
<1>5. QED
  BY <1>2, <1>3, <1>4, ListSteps

(* How an insert stands to the list, over the steps of the thread itself.  *)
LEMMA AddingStep ==
  ASSUME List!ListAssumption, ListInv, List!SerialNext
  PROVE  \A u \in Threads : Adding(u)'
<1>1. ListTyped /\ Chain(list) /\ \A u \in Threads : Adding(u)
  BY DEF ListInv, ListShape
<1>2. ASSUME \A u \in Threads : pc[u] = "idle", UNCHANGED <<pc, next>>
      PROVE  \A u \in Threads : Adding(u)'
  BY <1>1, <1>2 DEF Adding
<1>3. CASE List!RegistryInit \/ List!RegistryShutdown
  BY <1>2, <1>3 DEF List!RegistryInit, List!RegistryShutdown, List!calls, List!Quiet
<1>4. ASSUME NEW t \in Threads, List!Alone(t), Adding(t)',
             \A u \in Threads \ {t} : pc'[u] = pc[u] /\ next'[u] = next[u]
      PROVE  \A u \in Threads : Adding(u)'
  <2>1. \A u \in Threads \ {t} : pc'[u] = "idle" /\ next'[u] = 1
    BY <1>1, <1>4 DEF List!Alone, Adding
  <2>2. \A u \in Threads \ {t} : Adding(u)'
    BY <2>1 DEF Adding
  <2>3. QED
    BY <1>4, <2>2
<1>5. ASSUME NEW t \in Threads,
             \/ UNCHANGED <<pc, next>>
             \/ \E location : pc' = [pc EXCEPT ![t] = location] /\ UNCHANGED next
             \/ \E location, n : /\ pc' = [pc EXCEPT ![t] = location]
                                 /\ next' = [next EXCEPT ![t] = n]
      PROVE  \A u \in Threads \ {t} : pc'[u] = pc[u] /\ next'[u] = next[u]
  BY <1>1, <1>5 DEF ListTyped
<1>6. ASSUME NEW t \in Threads, List!Alone(t), List!CallInsert(t)
      PROVE  \A u \in Threads : Adding(u)'
  <2>1. PICK records \in Inserts : insert' = [insert EXCEPT ![t] = records]
    BY <1>6 DEF List!CallInsert
  <2>2. records \in Seq(Record) /\ records # <<>>
    BY DEF List!ListAssumption, Record
  <2>3. /\ pc[t] = "idle" /\ pc' = [pc EXCEPT ![t] = "searching"]
        /\ before' = [before EXCEPT ![t] = List!IdsOf(list)]
        /\ next' = next /\ list' = list
    BY <1>6 DEF List!CallInsert
  <2>4. /\ pc'[t] = "searching" /\ insert'[t] = records /\ next'[t] = 1
        /\ before'[t] = List!IdsOf(list)
    BY <1>1, <2>1, <2>3 DEF ListTyped, Adding
  <2>5. 1 \in 1..Len(records) /\ 1 - 1 = 0
    BY <2>2
  <2>6. List!IdsOf(SubSeq(records, 1, 0)) = {}
    BY <2>2, EmptyPrefix
  <2>7. Adding(t)'
    BY <2>3, <2>4, <2>5, <2>6 DEF Adding
  <2>8. QED
    BY <1>4, <1>5, <1>6, <2>3, <2>7
<1>7. ASSUME NEW t \in Threads, List!Alone(t), NEW code, List!Return(t, code)
      PROVE  \A u \in Threads : Adding(u)'
  <2>1. pc' = [pc EXCEPT ![t] = "idle"] /\ next' = [next EXCEPT ![t] = 1]
    BY <1>7 DEF List!Return
  <2>2. pc'[t] = "idle" /\ next'[t] = 1
    BY <1>1, <2>1 DEF ListTyped
  <2>3. Adding(t)'
    BY <2>2 DEF Adding
  <2>4. QED
    BY <1>4, <1>5, <1>7, <2>1, <2>3
<1>8. ASSUME NEW t \in Threads, List!Alone(t), List!AddFound(t) \/ List!AddNoMemory(t)
      PROVE  \A u \in Threads : Adding(u)'
  BY <1>7, <1>8 DEF List!AddFound, List!AddNoMemory
<1>9. ASSUME NEW t \in Threads, List!Alone(t), List!AddAllocate(t)
      PROVE  \A u \in Threads : Adding(u)'
  <2>1. /\ pc[t] = "searching" /\ pc' = [pc EXCEPT ![t] = "allocated"]
        /\ UNCHANGED <<list, insert, next, before>>
        /\ insert[t][next[t]].id \notin List!IdsOf(list)
    BY <1>1, <1>9, PositionFacts DEF List!AddAllocate
  <2>2. pc'[t] = "allocated"
    BY <1>1, <2>1 DEF ListTyped
  <2>3. Adding(t)'
    BY <1>1, <2>1, <2>2 DEF Adding
  <2>4. QED
    BY <1>4, <1>5, <1>9, <2>1, <2>3
<1>10. ASSUME NEW t \in Threads, List!Alone(t), List!AddReadHead(t)
       PROVE  \A u \in Threads : Adding(u)'
  <2>1. /\ pc[t] = "allocated" /\ pc' = [pc EXCEPT ![t] = "reading"]
        /\ UNCHANGED <<list, insert, next, before>>
        /\ head' = [head EXCEPT ![t] = List!HeadOf(list)]
    BY <1>10 DEF List!AddReadHead
  <2>2. pc'[t] = "reading" /\ head'[t] = List!HeadOf(list)
    BY <1>1, <2>1 DEF ListTyped
  <2>3. Adding(t)'
    BY <1>1, <2>1, <2>2 DEF Adding
  <2>4. QED
    BY <1>4, <1>5, <1>10, <2>1, <2>3
<1>11. ASSUME NEW t \in Threads, List!Alone(t), List!AddLink(t)
       PROVE  \A u \in Threads : Adding(u)'
  <2>1. pc[t] = "reading" /\ List!Continue(t)
    BY <1>11 DEF List!AddLink
  <2>2. CASE ~(next[t] < Len(insert[t]))
    BY <1>7, <1>11, <2>1, <2>2 DEF List!Continue
  <2>3. CASE next[t] < Len(insert[t])
    <3>1. /\ next' = [next EXCEPT ![t] = next[t] + 1]
          /\ pc' = [pc EXCEPT ![t] = "searching"]
          /\ UNCHANGED <<insert, before>>
      BY <2>1, <2>3 DEF List!Continue
    <3>2. pc'[t] = "searching" /\ next'[t] = next[t] + 1
      BY <1>1, <3>1 DEF ListTyped
    <3>3. List!IdsOf(list') = List!IdsOf(list) \cup {insert[t][next[t]].id}
      BY <1>11, LinkFacts
    <3>4. /\ next[t] \in 1..Len(insert[t])
          /\ List!IdsOf(list) = before[t] \cup List!IdsOf(SubSeq(insert[t], 1, next[t] - 1))
      BY <1>1, <2>1 DEF Adding
    <3>5. insert[t] \in Seq(Record)
      BY <1>1 DEF ListTyped
    <3>6. List!IdsOf(SubSeq(insert[t], 1, next[t]))
            = List!IdsOf(SubSeq(insert[t], 1, next[t] - 1)) \cup {insert[t][next[t]].id}
      BY <3>4, <3>5, PrefixIds
    <3>7. next[t] + 1 \in 1..Len(insert[t]) /\ (next[t] + 1) - 1 = next[t]
      BY <2>3, <3>4, <3>5
    <3>8. List!IdsOf(list') = before[t] \cup List!IdsOf(SubSeq(insert[t], 1, next[t]))
      BY <3>3, <3>4, <3>6
    <3>9. Adding(t)'
      BY <3>1, <3>2, <3>7, <3>8 DEF Adding
    <3>10. QED
      BY <1>4, <1>5, <1>11, <3>1, <3>9
  <2>4. QED
    BY <2>2, <2>3
<1>12. ASSUME NEW t \in Threads, List!Alone(t), pc[t] = "idle", UNCHANGED <<pc, next>>
       PROVE  \A u \in Threads : Adding(u)'
  BY <1>2, <1>12 DEF List!Alone
<1>13. ASSUME NEW t \in Threads, List!Alone(t),
              List!Update(t) \/ List!Delete(t) \/ List!Get(t) \/ List!Iterate(t)
       PROVE  \A u \in Threads : Adding(u)'
  BY <1>12, <1>13 DEF List!Update, List!Delete, List!Get, List!Iterate, List!Query,
       List!IterNext, List!IterNextFreed, List!IterEnd, List!IterDestroy, List!calls
<1>14. QED
  BY <1>3, <1>6, <1>8, <1>9, <1>10, <1>11, <1>13, ListSteps DEF Still

-----------------------------------------------------------------------------
(* NodeFacts are freed: an iterator that does not stand on one of them still   *)
(* has the others ahead of it.                                             *)
LEMMA TrackedFreed ==
  ASSUME iterator # None, Tracked(iterator), NEW D, List!Freed(D),
         List!Serials(list') = List!Serials(list) \ D,
         leaked' = leaked, nodes' = nodes
  PROVE  Tracked(iterator)'
<1>1. /\ iterator \in [cursor : Nat \cup {None}, due : SUBSET Nat, got : Seq(Nat),
                   dangling : BOOLEAN]
      /\ iterator.cursor # None => iterator.cursor <= nodes
      /\ ~iterator.dangling => OnCourse(iterator)
  BY DEF Tracked
<1>2. iterator' = [iterator EXCEPT !.due = iterator.due \ D,
                           !.dangling = iterator.dangling \/ iterator.cursor \in D]
  BY DEF List!Freed
<1>3. /\ iterator'.cursor = iterator.cursor /\ iterator'.got = iterator.got /\ iterator'.due = iterator.due \ D
      /\ iterator'.dangling <=> iterator.dangling \/ iterator.cursor \in D
  BY <1>1, <1>2
<1>4. iterator' \in [cursor : Nat \cup {None}, due : SUBSET Nat, got : Seq(Nat),
                 dangling : BOOLEAN]
  BY <1>1, <1>2
<1>5. ASSUME ~iterator'.dangling PROVE OnCourse(iterator)'
  <2>1. OnCourse(iterator) /\ iterator.cursor \notin D
    BY <1>1, <1>3, <1>5
  <2>2. \A x \in Below(list, iterator.cursor) : x \notin D => x \in Below(list', iterator.cursor)
    BY <2>1 DEF Below
  <2>3. iterator'.due \subseteq Below(list', iterator'.cursor) \cup Below(leaked', iterator'.cursor)
    BY <1>3, <2>1, <2>2 DEF OnCourse
  <2>4. QED
    BY <1>3, <2>1, <2>3 DEF OnCourse
<1>6. QED
  BY <1>1, <1>3, <1>4, <1>5 DEF Tracked

(* An iterator nobody touched, over lists that lost nothing. *)
LEMMA TrackedKept ==
  ASSUME Tracked(iterator), iterator' = iterator, nodes \in Nat, nodes' \in Nat, nodes <= nodes',
         iterator.cursor # None =>
           Below(list, iterator.cursor) \cup Below(leaked, iterator.cursor)
             \subseteq Below(list', iterator.cursor) \cup Below(leaked', iterator.cursor),
         Below(list, None) = {} /\ Below(leaked, None) = {}
  PROVE  Tracked(iterator)'
<1>1. /\ iterator \in [cursor : Nat \cup {None}, due : SUBSET Nat, got : Seq(Nat),
                   dangling : BOOLEAN]
      /\ iterator.cursor # None => iterator.cursor <= nodes
      /\ ~iterator.dangling => OnCourse(iterator)
  BY DEF Tracked
<1>2. iterator.cursor # None => iterator'.cursor <= nodes'
  BY <1>1
<1>3. ASSUME ~iterator.dangling PROVE OnCourse(iterator)'
  <2>1. OnCourse(iterator)
    BY <1>1, <1>3
  <2>2. iterator.due \subseteq Below(list', iterator.cursor) \cup Below(leaked', iterator.cursor)
    BY <2>1 DEF OnCourse
  <2>3. QED
    BY <2>1, <2>2 DEF OnCourse
<1>4. QED
  BY <1>1, <1>2, <1>3 DEF Tracked

(* A cursor past the end has nothing ahead of it.                          *)
LEMMA NothingBelowNone ==
  ASSUME List!ListAssumption, ListShape
  PROVE  /\ List!Serials(list) \subseteq Nat /\ List!Serials(leaked) \subseteq Nat
         /\ Below(list, None) = {} /\ Below(leaked, None) = {}
<1>1. List!Serials(list) \subseteq Nat /\ List!Serials(leaked) \subseteq Nat
  BY SerialIn DEF ListShape, Chain
<1>2. None \notin Nat
  BY DEF List!ListAssumption
<1>3. QED
  BY <1>1, <1>2, BelowNothing

(* iter_next takes the node under the cursor out of those ahead and        *)
(* returns it; what it returned before is younger.                         *)
LEMMA NextStep ==
  ASSUME List!ListAssumption, ListInv, NEW t \in Threads, List!IterNext(t)
  PROVE  Tracked(iterator)'
<1>1. /\ iterator # None /\ ~iterator.dangling /\ List!Ahead # <<>>
      /\ iterator' = [iterator EXCEPT !.cursor = List!HeadOf(Tail(List!Ahead)),
                              !.got = Append(iterator.got, iterator.cursor),
                              !.due = iterator.due \ {iterator.cursor}]
      /\ UNCHANGED <<list, leaked, nodes>>
  BY DEF List!IterNext
<1>2. /\ iterator \in [cursor : Nat \cup {None}, due : SUBSET Nat, got : Seq(Nat),
                   dangling : BOOLEAN]
      /\ iterator.cursor # None => iterator.cursor <= nodes
      /\ OnCourse(iterator)
  BY <1>1 DEF ListInv, Tracked
<1>3. nodes \in Nat /\ None \notin Nat
  BY DEF ListInv, ListShape, List!ListAssumption
<1> DEFINE c == iterator.cursor
           d == List!HeadOf(Tail(List!Ahead))
<1>4. /\ c \in Nat
      /\ d \in Nat \cup {None}
      /\ d # None => d < c
      /\ (Below(list, c) \cup Below(leaked, c)) \ {c} = Below(list, d) \cup Below(leaked, d)
  <2>1. List!Ahead = List!From(list, c) \o List!From(leaked, c)
    BY DEF List!Ahead
  <2>2. /\ Chain(list) /\ Chain(leaked)
        /\ List!Serials(list) \cap List!Serials(leaked) = {}
    BY DEF ListInv, ListShape
  <2>3. c \in Nat \cup {None}
    BY <1>2
  <2>4. QED
    BY <1>1, <1>3, <2>1, <2>2, <2>3, NextCursor
<1>5. iterator' = [iterator EXCEPT !.cursor = d, !.got = Append(iterator.got, c), !.due = iterator.due \ {c}]
  BY <1>1
<1> HIDE DEF d
<1>6. /\ iterator'.cursor = d /\ iterator'.got = Append(iterator.got, c) /\ iterator'.due = iterator.due \ {c}
      /\ iterator'.dangling = iterator.dangling
  BY <1>2, <1>5
<1>7. iterator.got \in Seq(Nat)
  BY <1>2
<1>8. Append(iterator.got, c) \in Seq(Nat)
  BY <1>4, <1>7
<1>9. iterator' \in [cursor : Nat \cup {None}, due : SUBSET Nat, got : Seq(Nat),
                 dangling : BOOLEAN]
  BY <1>2, <1>4, <1>5, <1>8
<1>10. d # None => d <= nodes'
  BY <1>1, <1>2, <1>3, <1>4
<1>11. iterator.due \ {c} \subseteq Below(list, d) \cup Below(leaked, d)
  BY <1>2, <1>4 DEF OnCourse
<1>12. \A i \in 1..Len(iterator.got) : iterator.got[i] > c /\ iterator.got[i] \in Nat
  BY <1>2, <1>3, <1>4, <1>7 DEF OnCourse
<1> DEFINE g == Append(iterator.got, c)
<1>13. /\ Len(g) = Len(iterator.got) + 1 /\ g[Len(g)] = c
       /\ \A i \in 1..Len(iterator.got) : g[i] = iterator.got[i]
  BY <1>4, <1>7
<1>14. \A i \in 1..Len(g) : i = Len(g) \/ i \in 1..Len(iterator.got)
  BY <1>7, <1>13
<1> HIDE DEF g
<1>15. \A i, j \in 1..Len(g) : g[i] = g[j] => i = j
  <2>1. \A i, j \in 1..Len(iterator.got) : iterator.got[i] = iterator.got[j] => i = j
    BY <1>2 DEF OnCourse
  <2>2. \A i \in 1..Len(iterator.got) : g[i] # c
    BY <1>4, <1>12, <1>13
  <2>3. QED
    BY <1>13, <1>14, <2>1, <2>2
<1>16. d # None => \A i \in 1..Len(g) : g[i] > d
  BY <1>4, <1>12, <1>13, <1>14
<1>17. OnCourse(iterator)'
  <2>1. iterator'.got = g
    BY <1>6 DEF g
  <2>2. iterator'.due \subseteq Below(list', iterator'.cursor) \cup Below(leaked', iterator'.cursor)
    BY <1>1, <1>6, <1>11
  <2>3. iterator'.cursor # None => \A i \in 1..Len(iterator'.got) : iterator'.got[i] > iterator'.cursor
    BY <1>6, <1>16, <2>1
  <2>4. \A i, j \in 1..Len(iterator'.got) : iterator'.got[i] = iterator'.got[j] => i = j
    BY <1>15, <2>1
  <2>5. QED
    BY <2>2, <2>3, <2>4 DEF OnCourse
<1>18. QED
  BY <1>6, <1>9, <1>10, <1>17 DEF Tracked

(* A new iterator has the whole list ahead of it.                          *)
LEMMA QueryStep ==
  ASSUME List!ListAssumption, ListInv, NEW t \in Threads, List!Query(t)
  PROVE  Tracked(iterator)'
<1>1. /\ iterator' = [cursor |-> List!HeadOf(list), due |-> List!Serials(list),
                  got |-> <<>>, dangling |-> FALSE]
      /\ UNCHANGED <<list, leaked, nodes>>
  BY DEF List!Query, List!Iterator
<1>2. /\ List!HeadOf(list) \in List!Serials(list) \cup {None}
      /\ Below(list, List!HeadOf(list)) = List!Serials(list)
      /\ List!Serials(list) \subseteq Nat
  BY HeadFacts, NothingBelowNone DEF ListInv, ListShape, List!ListAssumption
<1>3. \A x \in List!Serials(list) : x <= nodes
  BY DEF ListInv, ListShape
<1>4. <<>> \in Seq(Nat) /\ 1..Len(<<>>) = {}
  OBVIOUS
<1>5. /\ iterator'.cursor = List!HeadOf(list) /\ iterator'.due = List!Serials(list)
      /\ iterator'.got = <<>> /\ iterator'.dangling = FALSE
  BY <1>1
<1>6. iterator' \in [cursor : Nat \cup {None}, due : SUBSET Nat, got : Seq(Nat),
                 dangling : BOOLEAN]
  BY <1>1, <1>2, <1>4
<1>7. iterator'.cursor # None => iterator'.cursor <= nodes'
  BY <1>1, <1>2, <1>3, <1>5
<1>8. OnCourse(iterator)'
  BY <1>1, <1>2, <1>4, <1>5 DEF OnCourse
<1>9. QED
  BY <1>6, <1>7, <1>8 DEF Tracked

(* No step leads an iterator astray.                                       *)
LEMMA IteratingStep ==
  ASSUME List!ListAssumption, ListInv, List!SerialNext, iterator' # None
  PROVE  Tracked(iterator)'
<1>1. /\ ListShape /\ nodes \in Nat
      /\ Below(list, None) = {} /\ Below(leaked, None) = {}
  BY NothingBelowNone DEF ListInv, ListShape
<1>2. iterator # None => Tracked(iterator)
  BY DEF ListInv
<1>3. CASE List!RegistryInit
  <2>1. /\ iterator # None /\ iterator' = [iterator EXCEPT !.due = {}] /\ nodes' = nodes
    BY <1>3 DEF List!RegistryInit
  <2>2. /\ iterator \in [cursor : Nat \cup {None}, due : SUBSET Nat, got : Seq(Nat),
                     dangling : BOOLEAN]
        /\ iterator.cursor # None => iterator.cursor <= nodes
        /\ ~iterator.dangling => OnCourse(iterator)
    BY <1>2, <2>1 DEF Tracked
  <2>3. /\ iterator'.cursor = iterator.cursor /\ iterator'.got = iterator.got /\ iterator'.due = {}
        /\ iterator'.dangling = iterator.dangling
    BY <2>1, <2>2
  <2>4. iterator' \in [cursor : Nat \cup {None}, due : SUBSET Nat, got : Seq(Nat),
                   dangling : BOOLEAN]
    BY <2>1, <2>2
  <2>5. ~iterator'.dangling => OnCourse(iterator)'
    BY <2>2, <2>3 DEF OnCourse
  <2>6. QED
    BY <2>1, <2>2, <2>3, <2>4, <2>5 DEF Tracked
<1>4. CASE List!RegistryShutdown
  <2>1. /\ list' = <<>> /\ leaked' = leaked /\ nodes' = nodes
        /\ List!Freed(List!Serials(list))
    BY <1>4 DEF List!RegistryShutdown
  <2>2. iterator # None
    BY <2>1 DEF List!Freed
  <2>3. List!Serials(list') = List!Serials(list) \ List!Serials(list)
    BY <2>1, EmptySerials
  <2>4. QED
    BY <1>2, <2>1, <2>2, <2>3, TrackedFreed
<1>5. ASSUME NEW t \in Threads, List!AddLink(t) PROVE Tracked(iterator)'
  <2>1. /\ nodes' = nodes + 1 /\ leaked' = leaked /\ iterator' = iterator
        /\ List!Serials(list') = List!Serials(list) \cup {nodes + 1}
    BY <1>5, LinkFacts
  <2>2. Below(list, iterator.cursor) \subseteq Below(list', iterator.cursor)
    BY <2>1 DEF Below
  <2>3. nodes' \in Nat /\ nodes <= nodes'
    BY <1>1, <2>1
  <2>4. QED
    BY <1>1, <1>2, <2>1, <2>2, <2>3, TrackedKept
<1>6. ASSUME NEW t \in Threads, List!Update(t) PROVE Tracked(iterator)'
  <2>1. /\ nodes' = nodes /\ leaked' = leaked /\ iterator' = iterator
        /\ List!Serials(list') = List!Serials(list)
    BY <1>6, ListUpdateFacts
  <2>2. Below(list', iterator.cursor) = Below(list, iterator.cursor)
    BY <2>1 DEF Below
  <2>3. QED
    BY <1>1, <1>2, <2>1, <2>2, TrackedKept
<1>7. ASSUME NEW t \in Threads, UNCHANGED <<list, leaked, nodes, iterator>>
      PROVE  Tracked(iterator)'
  BY <1>1, <1>2, <1>7, TrackedKept
<1>8. ASSUME NEW t \in Threads, List!Delete(t) PROVE Tracked(iterator)'
  <2>1. leaked' = leaked /\ nodes' = nodes
    BY <1>8, DeleteFacts
  <2>2. CASE UNCHANGED <<list, iterator>>
    BY <1>7, <1>8, <2>1, <2>2
  <2>3. ASSUME NEW x \in List!Serials(list), List!Freed({x}),
               List!Serials(list') = List!Serials(list) \ {x}
        PROVE  Tracked(iterator)'
    <3>1. iterator # None
      BY <2>3 DEF List!Freed
    <3>2. QED
      BY <1>2, <2>1, <2>3, <3>1, TrackedFreed
  <2>4. QED
    BY <1>8, <2>2, <2>3, DeleteFacts
<1>9. ASSUME NEW t \in Threads, Still(t) PROVE Tracked(iterator)'
  <2>1. CASE List!Query(t)
    BY <2>1, QueryStep
  <2>2. CASE List!IterNext(t)
    BY <2>2, NextStep
  <2>3. CASE List!IterDestroy(t)
    BY <2>3 DEF List!IterDestroy
  <2>4. CASE ~(List!Query(t) \/ List!IterNext(t) \/ List!IterDestroy(t))
    <3>1. iterator' = iterator
      BY <1>9, <2>4 DEF Still, List!CallInsert, List!AddFound, List!AddNoMemory,
         List!AddAllocate, List!AddReadHead, List!Get, List!Iterate, List!IterNextFreed,
         List!IterEnd
    <3>2. QED
      BY <1>7, <1>9, <3>1, StillKeeps
  <2>5. QED
    BY <2>1, <2>2, <2>3, <2>4
<1>10. QED
  BY <1>3, <1>4, <1>5, <1>6, <1>8, <1>9, ListSteps

-----------------------------------------------------------------------------
(* The invariant is inductive.                                             *)
LEMMA ListInvStep ==
  ASSUME List!ListAssumption, ListInv, [List!SerialNext]_(List!vars)
  PROVE  ListInv'
<1>1. CASE List!SerialNext
  BY <1>1, ShapeStep, TypedStep, TurnStep, AddingStep, IteratingStep DEF ListInv
<1>2. CASE UNCHANGED List!vars
  BY <1>2 DEF List!vars, List!calls, ListInv, ListTyped, ListShape, OneInCall, Adding,
     Tracked, OnCourse
<1>3. QED
  BY <1>1, <1>2

(* It holds in every state of callers that take turns.                     *)
THEOREM ListInvariant == ASSUME List!ListAssumption PROVE List!SerialSpec => []ListInv
<1>1. List!Init => ListInv
  BY ListInitially
<1>2. ListInv /\ [List!SerialNext]_(List!vars) => ListInv'
  BY ListInvStep
<1>3. QED
  BY <1>1, <1>2, PTL DEF List!SerialSpec

(* No id is in the list twice: reg_add searches before it links.           *)
THEOREM ListUniqueIds ==
  ASSUME List!ListAssumption
  PROVE  List!SerialSpec => []UniqueIds
<1>1. ASSUME ListInv PROVE UniqueIds
  <2>1. Chain(list)
    BY <1>1 DEF ListInv, ListShape
  <2>2. DOMAIN list = 1..Len(list)
    BY <2>1, NodeFacts DEF Chain
  <2>3. QED
    BY <2>1, <2>2 DEF Chain, UniqueIds
<1>2. QED
  BY <1>1, ListInvariant, PTL

(* iter_next misses and repeats none of the records that were there when   *)
(* the query was made, whatever is added, updated or deleted between two   *)
(* calls of it, as long as its own node is not freed.                      *)
THEOREM ListIterationComplete ==
  ASSUME List!ListAssumption
  PROVE  List!SerialSpec => []IterationComplete
<1>1. ASSUME ListInv PROVE IterationComplete
  <2>1. SUFFICES ASSUME iterator # None, ~iterator.dangling
                 PROVE  /\ iterator.due \subseteq Serials(Ahead)
                        /\ \A i, j \in DOMAIN iterator.got :
                             iterator.got[i] = iterator.got[j] => i = j
                        /\ \A i \in DOMAIN iterator.got :
                             iterator.got[i] \notin Serials(Ahead)
    BY DEF IterationComplete
  <2>2. /\ OnCourse(iterator) /\ iterator.cursor \in Nat \cup {None} /\ iterator.got \in Seq(Nat)
    BY <1>1, <2>1 DEF ListInv, Tracked
  <2>3. Serials(Ahead) = Below(list, iterator.cursor) \cup Below(leaked, iterator.cursor)
    <3>1. List!Serials(List!Ahead)
            = Below(list, iterator.cursor) \cup Below(leaked, iterator.cursor)
      BY <1>1, <2>2, AheadSerials DEF ListInv, ListShape
    <3>2. Ahead = List!Ahead
      BY DEF Ahead, List!Ahead, From, List!From
    <3>3. QED
      BY <3>1, <3>2 DEF Serials, List!Serials
  <2>4. /\ List!Serials(list) \subseteq Nat /\ List!Serials(leaked) \subseteq Nat
        /\ Below(list, None) = {} /\ Below(leaked, None) = {}
    BY <1>1, NothingBelowNone DEF ListInv
  <2>5. DOMAIN iterator.got = 1..Len(iterator.got) /\ \A i \in 1..Len(iterator.got) : iterator.got[i] \in Nat
    BY <2>2
  <2>6. ASSUME NEW i \in 1..Len(iterator.got)
        PROVE  iterator.got[i] \notin Below(list, iterator.cursor) \cup Below(leaked, iterator.cursor)
    <3>1. CASE iterator.cursor = None
      BY <2>4, <3>1
    <3>2. CASE iterator.cursor # None
      <4>1. iterator.cursor \in Nat /\ iterator.got[i] > iterator.cursor /\ iterator.got[i] \in Nat
        BY <2>2, <2>5, <3>2 DEF OnCourse
      <4>2. QED
        BY <4>1 DEF Below
    <3>3. QED
      BY <3>1, <3>2
  <2>7. QED
    BY <2>2, <2>3, <2>5, <2>6 DEF OnCourse
<1>2. QED
  BY <1>1, ListInvariant, PTL

(* An insert that returns SUCCESS has added all of its records to those    *)
(* that were there, and one that stops has taken none of them out: reg_add *)
(* links every node in front of the list it found.                         *)
THEOREM ListInsertsAdd ==
  ASSUME List!ListAssumption
  PROVE  List!SerialSpec => List!InsertsAdd
<1> DEFINE Done(t) == IF reply'[t] = "SUCCESS" THEN next[t] ELSE next[t] - 1
           Kept(t) == List!IdsOf(list') = before[t] \cup List!IdsOf(SubSeq(insert[t], 1, Done(t)))
           Added(t) == /\ before[t] \subseteq List!IdsOf(list')
                       /\ List!IdsOf(list') \subseteq before[t] \cup List!IdsOf(insert[t])
                       /\ reply'[t] = "SUCCESS"
                            => List!IdsOf(list') = before[t] \cup List!IdsOf(insert[t])
           Returns(t) == pc[t] # "idle" /\ pc'[t] = "idle"
<1>1. ASSUME ListInv, [List!SerialNext]_(List!vars), NEW t \in Threads, Returns(t)
      PROVE  Added(t)
  <2>1. ListTyped /\ Adding(t)
    BY <1>1 DEF ListInv
  <2>2. List!SerialNext
    BY <1>1 DEF List!vars, List!calls
  <2>3. PICK u \in Threads : List!AddFound(u) \/ List!AddNoMemory(u) \/ List!AddLink(u)
    <3>1. ~(List!RegistryInit \/ List!RegistryShutdown)
      BY <1>1 DEF List!RegistryInit, List!RegistryShutdown, List!calls
    <3>2. ASSUME NEW u \in Threads,
                 \/ List!CallInsert(u) \/ List!AddAllocate(u) \/ List!AddReadHead(u)
          PROVE  FALSE
      <4>1. \E location \in {"searching", "allocated", "reading"} :
               pc' = [pc EXCEPT ![u] = location]
        BY <3>2 DEF List!CallInsert, List!AddAllocate, List!AddReadHead
      <4>2. QED
        BY <1>1, <2>1, <4>1 DEF ListTyped
    <3>3. ASSUME NEW u \in Threads,
                 \/ List!Update(u) \/ List!Delete(u) \/ List!Get(u) \/ List!Iterate(u)
          PROVE  FALSE
      BY <1>1, <3>3 DEF List!Update, List!Delete, List!Get, List!Iterate, List!Query,
         List!IterNext, List!IterNextFreed, List!IterEnd, List!IterDestroy, List!calls
    <3>4. QED
      BY <2>2, <3>1, <3>2, <3>3, ListSteps DEF Still
  <2>4. t = u
    <3>1. \E location : pc' = [pc EXCEPT ![u] = location]
      BY <2>3 DEF List!AddFound, List!AddNoMemory, List!AddLink, List!Continue, List!Return
    <3>2. QED
      BY <1>1, <2>1, <3>1 DEF ListTyped
  <2>5. /\ next[t] \in 1..Len(insert[t])
        /\ List!IdsOf(list) = before[t] \cup List!IdsOf(SubSeq(insert[t], 1, next[t] - 1))
    BY <1>1, <2>1 DEF Adding
  <2>6. ASSUME NEW code \in {"ALREADY_INITIALIZED", "OUT_OF_MEMORY"},
               List!Return(t, code), list' = list
        PROVE  Kept(t) /\ reply'[t] # "SUCCESS"
    <3>1. reply'[t] = code
      BY <2>1, <2>6 DEF List!Return, List!Answer, ListTyped
    <3>2. Done(t) = next[t] - 1
      BY <3>1
    <3>3. QED
      BY <2>5, <2>6, <3>1, <3>2
  <2>7. List!IdsOf(SubSeq(insert[t], 1, next[t] - 1)) \subseteq List!IdsOf(insert[t])
    <3>1. /\ insert[t] \in Seq(Record)
          /\ SubSeq(insert[t], 1, next[t] - 1) \in Seq(Record)
          /\ \A i \in 1..Len(SubSeq(insert[t], 1, next[t] - 1)) :
                /\ i \in 1..Len(insert[t])
                /\ SubSeq(insert[t], 1, next[t] - 1)[i] = insert[t][i]
      BY <2>1, <2>5 DEF ListTyped
    <3>2. QED
      BY <3>1 DEF List!IdsOf
  <2>8. CASE List!AddFound(t) \/ List!AddNoMemory(t)
    <3>1. Kept(t) /\ reply'[t] # "SUCCESS"
      BY <2>6, <2>8 DEF List!AddFound, List!AddNoMemory
    <3>2. Done(t) = next[t] - 1
      BY <3>1
    <3>3. QED
      BY <2>7, <3>1, <3>2
  <2>9. CASE List!AddLink(t)
    <3>1. List!Return(t, "SUCCESS")
      <4>1. List!Continue(t)
        BY <2>9 DEF List!AddLink
      <4>2. ~(next[t] < Len(insert[t]))
        BY <1>1, <2>1, <4>1 DEF List!Continue, ListTyped
      <4>3. QED
        BY <4>1, <4>2 DEF List!Continue
    <3>2. next[t] = Len(insert[t])
      BY <1>1, <2>1, <2>5, <2>9 DEF List!AddLink, List!Continue, ListTyped
    <3>3. SubSeq(insert[t], 1, next[t]) = insert[t]
      BY <2>1, <3>2 DEF ListTyped
    <3>4. List!IdsOf(list') = List!IdsOf(list) \cup {insert[t][next[t]].id}
      BY <1>1, <2>9, LinkFacts
    <3>5. insert[t] \in Seq(Record)
      BY <2>1 DEF ListTyped
    <3>6. List!IdsOf(SubSeq(insert[t], 1, next[t]))
            = List!IdsOf(SubSeq(insert[t], 1, next[t] - 1)) \cup {insert[t][next[t]].id}
      BY <2>5, <3>5, PrefixIds
    <3>7. QED
      BY <2>5, <3>3, <3>4, <3>6
  <2>10. QED
    BY <2>3, <2>4, <2>8, <2>9
<1>2. ListInv /\ [List!SerialNext]_(List!vars)
        => [\A t \in Threads : Returns(t) => Added(t)]_(List!vars)
  BY <1>1
<1>3. QED
  BY <1>2, ListInvariant, PTL DEF List!SerialSpec, List!InsertsAdd
=============================================================================
