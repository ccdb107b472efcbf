------------------------ MODULE HeapstoreRegistrySpec -----------------------
(***************************************************************************)
(* What the registry promises its callers (include/heapstore_registry.h):  *)
(* a durable table of records by id.  A call takes effect at one moment    *)
(* between its beginning and its return, or not at all; a batch inserts    *)
(* all of its records or none; what was acknowledged survives a crash.     *)
(* This is the one place where the promise is written; the SQLite backend  *)
(* is shown to implement it in HeapstoreRegistry.                          *)
(***************************************************************************)
EXTENDS Naturals, Sequences

CONSTANTS Threads, Ids, Values, Batches, NoRow

VARIABLES
  table,  \* id -> its value, or NoRow: what a restarted process finds
  call,   \* the call each thread is in, or Idle
  reply   \* what each thread's last call returned

vars == <<table, call, reply>>

Record == [id : Ids, value : Values]
Idle == [op |-> "none"]
Requests ==
  [op : {"add", "update"}, record : Record]
    \cup [op : {"delete", "get"}, id : Ids]
    \cup [op : {"batch"}, records : Batches]
Replies == {"SUCCESS", "DB_QUERY_FAILED", "NOT_FOUND"} \cup Values

Put(T, r) == [T EXCEPT ![r.id] = r.value]
PutAll(T, b) ==
  [id \in Ids |-> IF \E i \in 1..Len(b) : b[i].id = id
                  THEN b[CHOOSE i \in 1..Len(b) : b[i].id = id].value
                  ELSE T[id]]

Init ==
  /\ table = [id \in Ids |-> NoRow]
  /\ call = [t \in Threads |-> Idle]
  /\ reply = [t \in Threads |-> "SUCCESS"]

Begin(t) ==
  /\ call[t] = Idle
  /\ \E r \in Requests : call' = [call EXCEPT ![t] = r]
  /\ UNCHANGED <<table, reply>>

Return(t, code) ==
  /\ reply' = [reply EXCEPT ![t] = code]
  /\ call' = [call EXCEPT ![t] = Idle]

Add(t) ==
  /\ call[t].op = "add"
  /\ table[call[t].record.id] = NoRow
  /\ table' = Put(table, call[t].record)
  /\ Return(t, "SUCCESS")

Update(t) ==
  /\ call[t].op = "update"
  /\ LET r == call[t].record
     IN  table' = IF table[r.id] = NoRow THEN table ELSE Put(table, r)
  /\ Return(t, "SUCCESS")

Delete(t) ==
  /\ call[t].op = "delete"
  /\ table' = [table EXCEPT ![call[t].id] = NoRow]
  /\ Return(t, "SUCCESS")

Get(t) ==
  /\ call[t].op = "get"
  /\ LET v == table[call[t].id]
     IN  Return(t, IF v = NoRow THEN "NOT_FOUND" ELSE v)
  /\ UNCHANGED table

(* All the records, none of whose ids is taken, in one step.               *)
BatchInsert(t) ==
  /\ call[t].op = "batch"
  /\ LET b == call[t].records
     IN  /\ \A i \in 1..Len(b) : table[b[i].id] = NoRow
         /\ table' = PutAll(table, b)
  /\ Return(t, "SUCCESS")

(* A call that reports an error has changed nothing.                       *)
Fail(t) ==
  /\ call[t] # Idle
  /\ Return(t, "DB_QUERY_FAILED")
  /\ UNCHANGED table

(* The process dies: its calls never return, the table stays.              *)
Crash ==
  /\ call' = [t \in Threads |-> Idle]
  /\ reply' = [t \in Threads |-> "SUCCESS"]
  /\ UNCHANGED table

Next ==
  \/ Crash
  \/ \E t \in Threads :
       \/ Begin(t) \/ Fail(t)
       \/ Add(t) \/ Update(t) \/ Delete(t) \/ Get(t) \/ BatchInsert(t)

Spec == Init /\ [][Next]_vars
=============================================================================
