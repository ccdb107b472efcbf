--------------------------- MODULE HeapstoreMemory --------------------------
(***************************************************************************)
(* The memory records (src/src/heapstore_memory.c): a table of pools and a *)
(* table of allocations, fixed arrays with a count each, behind one lock,  *)
(* s_memory_lock.  The calls test s_initialized without the lock.  The two *)
(* tables are filled by the same code (heapstore_memory_record_pool and    *)
(* heapstore_mem_record), so one action stands for both.                   *)
(*                                                                         *)
(* A record is its id and its content: of a pool the usage, of an          *)
(* allocation whether it is freed.  Nothing is ever written to the         *)
(* directories heapstore_memory_init creates.                              *)
(***************************************************************************)
EXTENDS Naturals, FiniteSets

CONSTANTS Threads,         \* the threads that call the API
          NoThread,        \* s_memory_lock is free
          Ids,             \* pool_id, allocation_id
          Usages,          \* used_size and free_block_count of a pool
          MaxPools,        \* heapstore_MEMORY_MAX_POOLS
          MaxAllocations,  \* heapstore_MEMORY_MAX_ALLOCATIONS
          NoRecord         \* no record of an id; a slot that was never filled

ASSUME MemoryAssumption ==
  /\ NoThread \notin Threads
  /\ NoRecord \notin Usages \cup {"active", "freed"}
  /\ MaxPools \in Nat \ {0} /\ MaxAllocations \in Nat \ {0}

VARIABLES
  s_initialized,  \* tested without the lock
  s_memory_lock,  \* who holds it
  slots,          \* s_pools and s_allocations
  count,          \* s_pool_count and s_allocation_count
  pc,             \* where each thread is in its call
  call,           \* the call it is in
  place,          \* the slot its search ended at
  reply,          \* what its last call returned, while it is in none
  acked           \* history: the content last acknowledged, by table and id

tables == <<slots, count, acked>>
vars == <<s_initialized, s_memory_lock, tables, pc, call, place, reply>>

Kinds == {"pools", "allocations"}
Max == [k \in Kinds |-> IF k = "pools" THEN MaxPools ELSE MaxAllocations]
Contents(k) == IF k = "pools" THEN Usages ELSE {"active", "freed"}

Records(k) == [id : Ids, content : Contents(k)]
RecordCalls ==
  UNION {[op : {"record"}, kind : {k}, id : Ids, content : Contents(k)] : k \in Kinds}
Calls ==
  RecordCalls
    \cup [op : {"get"}, kind : Kinds, id : Ids]
    \cup [op : {"usage"}, kind : {"pools"}, id : Ids, content : Usages]
    \cup [op : {"free"}, kind : {"allocations"}, id : Ids, content : {"freed"}]
    \cup [op : {"stats"}]

Empty == [k \in Kinds |-> [i \in 1..Max[k] |-> NoRecord]]
Nothing == [k \in Kinds |-> [id \in Ids |-> NoRecord]]

(* The slots a search looks at, and those among them that hold the id.     *)
Filled(k) == 1..count[k]
Holding(k, id) == {i \in Filled(k) : slots[k][i].id = id}

Init ==
  /\ s_initialized = FALSE
  /\ s_memory_lock = NoThread
  /\ slots = Empty /\ count = [k \in Kinds |-> 0]
  /\ pc = [t \in Threads |-> "idle"]
  /\ call = [t \in Threads |-> NoRecord]
  /\ place = [t \in Threads |-> 0]
  /\ reply = [t \in Threads |-> "SUCCESS"]
  /\ acked = Nothing

-----------------------------------------------------------------------------
(* init and shutdown are not thread safe (heapstore_memory.h:31,45).       *)
Quiet == \A t \in Threads : pc[t] = "idle"

(* A directory that cannot be created fails the call before the tables are *)
(* cleared: nothing changes.                                               *)
MemoryInit ==
  /\ Quiet /\ ~s_initialized
  /\ slots' = Empty /\ count' = [k \in Kinds |-> 0]
  /\ s_initialized' = TRUE
  /\ acked' = Nothing
  /\ UNCHANGED <<s_memory_lock, pc, call, place, reply>>

MemoryShutdown ==
  /\ Quiet /\ s_initialized
  /\ slots' = Empty /\ count' = [k \in Kinds |-> 0]
  /\ s_initialized' = FALSE
  /\ acked' = Nothing
  /\ UNCHANGED <<s_memory_lock, pc, call, place, reply>>

-----------------------------------------------------------------------------
(* The test without the lock.                                              *)
CallBegin(t) ==
  /\ pc[t] = "idle" /\ s_initialized
  /\ \E c \in Calls : call' = [call EXCEPT ![t] = c]
  /\ pc' = [pc EXCEPT ![t] = "waiting"]
  /\ reply' = [reply EXCEPT ![t] = "SUCCESS"]
  /\ UNCHANGED <<s_initialized, s_memory_lock, tables, place>>

(* Mutant: the search runs before the lock is taken.                       *)
Lock_NotTaken(t) ==
  /\ pc[t] = "waiting"
  /\ s_memory_lock' = t
  /\ pc' = [pc EXCEPT ![t] = "locked"]
  /\ UNCHANGED <<s_initialized, tables, call, place, reply>>

Lock(t) ==
  /\ pc[t] = "waiting" /\ s_memory_lock = NoThread
  /\ s_memory_lock' = t
  /\ pc' = [pc EXCEPT ![t] = "locked"]
  /\ UNCHANGED <<s_initialized, tables, call, place, reply>>

Return(t, code) ==
  /\ s_memory_lock' = NoThread
  /\ pc' = [pc EXCEPT ![t] = "idle"]
  /\ call' = [call EXCEPT ![t] = NoRecord]
  /\ place' = [place EXCEPT ![t] = 0]
  /\ reply' = [reply EXCEPT ![t] = code]
  /\ UNCHANGED s_initialized

Running(t, o) == pc[t] = "locked" /\ call[t].op = o

(* The capacity is tested before the search: a full table refuses the ids  *)
(* it holds as well as new ones.                                           *)
RecordRefused(t) ==
  /\ Running(t, "record")
  /\ count[call[t].kind] >= Max[call[t].kind]
  /\ Return(t, "OUT_OF_MEMORY")
  /\ UNCHANGED tables

RecordSearch(t) ==
  /\ Running(t, "record")
  /\ LET k == call[t].kind
         found == Holding(k, call[t].id)
     IN  /\ count[k] < Max[k]
         /\ place' = [place EXCEPT ![t] =
              IF found = {} THEN count[k] + 1 ELSE CHOOSE i \in found : TRUE]
  /\ pc' = [pc EXCEPT ![t] = "placing"]
  /\ UNCHANGED <<s_initialized, s_memory_lock, tables, call, reply>>

Put(k, i, id, content) ==
  /\ slots' = [slots EXCEPT ![k][i] = [id |-> id, content |-> content]]
  /\ acked' = [acked EXCEPT ![k][id] = content]

(* Mutant: the last slot is taken over when the record is new.             *)
RecordStore_Overwrites(t) ==
  /\ pc[t] = "placing"
  /\ LET c == call[t]
     IN  /\ Put(c.kind, IF place[t] > count[c.kind] /\ count[c.kind] > 0
                        THEN count[c.kind] ELSE place[t], c.id, c.content)
         /\ count' = [count EXCEPT ![c.kind] = IF @ = 0 THEN 1 ELSE @]
  /\ Return(t, "SUCCESS")

RecordStore(t) ==
  /\ pc[t] = "placing"
  /\ LET c == call[t]
     IN  /\ Put(c.kind, place[t], c.id, c.content)
         /\ count' = [count EXCEPT ![c.kind] = IF place[t] > @ THEN place[t] ELSE @]
  /\ Return(t, "SUCCESS")

(* heapstore_memory_update_pool_usage and heapstore_memory_free_allocation *)
(* change the record in its slot: a freed allocation keeps it.             *)
Change(t) ==
  /\ Running(t, "usage") \/ Running(t, "free")
  /\ \E i \in Holding(call[t].kind, call[t].id) :
       Put(call[t].kind, i, call[t].id, call[t].content)
  /\ UNCHANGED count
  /\ Return(t, "SUCCESS")

Get(t) ==
  /\ Running(t, "get")
  /\ \E i \in Holding(call[t].kind, call[t].id) :
       Return(t, slots[call[t].kind][i].content)
  /\ UNCHANGED tables

NotFound(t) ==
  /\ Running(t, "get") \/ Running(t, "usage") \/ Running(t, "free")
  /\ Holding(call[t].kind, call[t].id) = {}
  /\ Return(t, "NOT_FOUND")
  /\ UNCHANGED tables

Stats(t) ==
  /\ Running(t, "stats")
  /\ Return(t, count)
  /\ UNCHANGED tables

(* The steps of a thread that holds the lock. *)
Inside(t) ==
  \/ RecordRefused(t) \/ RecordSearch(t) \/ RecordStore(t)
  \/ Change(t) \/ Get(t) \/ NotFound(t) \/ Stats(t)

Next ==
  \/ MemoryInit \/ MemoryShutdown
  \/ \E t \in Threads : CallBegin(t) \/ Lock(t) \/ Inside(t)

Spec == Init /\ [][Next]_vars

-----------------------------------------------------------------------------
Known(k) == {id \in Ids : acked[k][id] # NoRecord}

(* Every variable holds a value of its type; the filled slots of a table   *)
(* hold records, and no slot is written beyond its array.                  *)
TypeOK ==
  /\ s_initialized \in BOOLEAN
  /\ s_memory_lock \in Threads \cup {NoThread}
  /\ DOMAIN slots = Kinds /\ DOMAIN acked = Kinds
  /\ count \in [Kinds -> Nat]
  /\ \A k \in Kinds : /\ count[k] \in 0..Max[k]
                      /\ slots[k] \in [1..Max[k] -> Records(k) \cup {NoRecord}]
                      /\ \A i \in Filled(k) : slots[k][i] \in Records(k)
                      /\ acked[k] \in [Ids -> Contents(k) \cup {NoRecord}]
  /\ pc \in [Threads -> {"idle", "waiting", "locked", "placing"}]
  /\ call \in [Threads -> Calls \cup {NoRecord}]
  /\ \A t \in Threads : pc[t] # "idle" => call[t] \in Calls
  /\ place \in [Threads -> Nat]
  /\ DOMAIN reply = Threads

(* A table holds exactly the records that were acknowledged, each once and *)
(* with the content acknowledged last: two threads that record one new id  *)
(* at once do not make two records of it, and no record replaces another.  *)
TableIsAcknowledged ==
  \A k \in Kinds :
    /\ \A id \in Ids : Cardinality(Holding(k, id)) = IF id \in Known(k) THEN 1 ELSE 0
    /\ \A i \in Filled(k) : slots[k][i].content = acked[k][slots[k][i].id]

(* A query answers with what was acknowledged last before it returned; the *)
(* statistics count every acknowledged record; and a record is refused for *)
(* want of memory only when its table has no slot left.                    *)
AnswersTruthful ==
  [][\A t \in Threads : pc[t] # "idle" /\ pc'[t] = "idle" =>
       CASE call[t].op = "get" ->
              reply'[t] = IF call[t].id \in Known(call[t].kind)
                          THEN acked[call[t].kind][call[t].id] ELSE "NOT_FOUND"
         [] call[t].op = "stats" ->
              reply'[t] = [k \in Kinds |-> Cardinality(Known(k))]
         [] call[t].op = "record" ->
              reply'[t] = IF Cardinality(Known(call[t].kind)) = Max[call[t].kind]
                          THEN "OUT_OF_MEMORY" ELSE "SUCCESS"
         [] OTHER ->
              reply'[t] = IF call[t].id \in Known(call[t].kind)
                          THEN "SUCCESS" ELSE "NOT_FOUND"]_vars
=============================================================================
