------------------------ MODULE HeapstoreMemoryProofs -----------------------
(***************************************************************************)
(* The memory tables hold what was acknowledged and the calls answer from  *)
(* it, for every set of threads and ids and every capacity.                *)
(***************************************************************************)
EXTENDS HeapstoreMemory, FiniteSetTheorems, TLAPS

(* The lock is held exactly by the thread that is past it.                 *)
Locking ==
  \A t \in Threads : pc[t] \in {"locked", "placing"} <=> s_memory_lock = t

(* No id fills two slots, a filled slot holds what was acknowledged last,  *)
(* and every acknowledged id fills one.                                    *)
Exact(k) ==
  /\ \A i, j \in Filled(k) : slots[k][i].id = slots[k][j].id => i = j
  /\ \A i \in Filled(k) : slots[k][i].content = acked[k][slots[k][i].id]
  /\ \A id \in Known(k) : \E i \in Filled(k) : slots[k][i].id = id

(* The search of a record that is being placed is still right: the lock    *)
(* has been held since.                                                    *)
Placed(t) ==
  LET k == call[t].kind
  IN  /\ call[t].op = "record"
      /\ count[k] < Max[k]
      /\ \/ place[t] \in Holding(k, call[t].id)
         \/ place[t] = count[k] + 1 /\ Holding(k, call[t].id) = {}
Placing == \A t \in Threads : pc[t] = "placing" => Placed(t)

IInv == TypeOK /\ Locking /\ (\A k \in Kinds : Exact(k)) /\ Placing

-----------------------------------------------------------------------------
(* What the fields of a call are. *)
LEMMA CallFacts ==
  ASSUME NEW c \in Calls, c.op # "stats"
  PROVE  /\ c.op \in {"record", "get", "usage", "free"}
         /\ c.kind \in Kinds /\ c.id \in Ids
         /\ c.op # "get" => c.content \in Contents(c.kind)
<1>1. ASSUME NEW k \in Kinds,
             c \in [op : {"record"}, kind : {k}, id : Ids, content : Contents(k)]
      PROVE  /\ c.op = "record" /\ c.kind \in Kinds /\ c.id \in Ids
             /\ c.content \in Contents(c.kind)
  BY <1>1
<1>2. CASE c \in [op : {"get"}, kind : Kinds, id : Ids]
  BY <1>2
<1>3. CASE c \in [op : {"usage"}, kind : {"pools"}, id : Ids, content : Usages]
  BY <1>3 DEF Contents, Kinds
<1>4. CASE c \in [op : {"free"}, kind : {"allocations"}, id : Ids, content : {"freed"}]
  BY <1>4 DEF Contents, Kinds
<1>5. CASE c \in [op : {"stats"}]
  BY <1>5
<1>6. CASE c \in RecordCalls
  <2>1. PICK k \in Kinds :
          c \in [op : {"record"}, kind : {k}, id : Ids, content : Contents(k)]
    BY <1>6 DEF RecordCalls
  <2>2. QED
    BY <2>1, <1>1
<1>7. QED
  BY <1>2, <1>3, <1>4, <1>5, <1>6 DEF Calls

LEMMA MaxFacts == \A k \in Kinds : Max[k] \in Nat \ {0}
  BY MemoryAssumption DEF Max, Kinds

LEMMA ContentFacts == \A k \in Kinds : NoRecord \notin Contents(k)
  BY MemoryAssumption DEF Contents

(* A record written to a slot. *)
LEMMA PutFacts ==
  ASSUME TypeOK, NEW k \in Kinds, NEW i \in 1..Max[k], NEW id \in Ids,
         NEW content \in Contents(k), Put(k, i, id, content)
  PROVE  /\ DOMAIN slots' = Kinds /\ DOMAIN acked' = Kinds
         /\ \A l \in Kinds : l # k => slots'[l] = slots[l] /\ acked'[l] = acked[l]
         /\ slots'[k] \in [1..Max[k] -> Records(k) \cup {NoRecord}]
         /\ slots'[k][i] = [id |-> id, content |-> content]
         /\ slots'[k][i] \in Records(k)
         /\ \A j \in 1..Max[k] : j # i => slots'[k][j] = slots[k][j]
         /\ acked'[k] \in [Ids -> Contents(k) \cup {NoRecord}]
         /\ acked'[k][id] = content
         /\ \A other \in Ids : other # id => acked'[k][other] = acked[k][other]
<1>1. /\ DOMAIN slots = Kinds /\ DOMAIN acked = Kinds
      /\ slots[k] \in [1..Max[k] -> Records(k) \cup {NoRecord}]
      /\ acked[k] \in [Ids -> Contents(k) \cup {NoRecord}]
  BY DEF TypeOK
<1> DEFINE r == [id |-> id, content |-> content]
<1>2. r \in Records(k)
  BY DEF Records
<1>3. slots' = [slots EXCEPT ![k] = [slots[k] EXCEPT ![i] = r]]
  BY DEF Put
<1>4. acked' = [acked EXCEPT ![k] = [acked[k] EXCEPT ![id] = content]]
  BY DEF Put
<1> HIDE DEF r
<1>5. /\ DOMAIN slots' = Kinds
      /\ \A l \in Kinds : l # k => slots'[l] = slots[l]
      /\ slots'[k] = [slots[k] EXCEPT ![i] = r]
  BY <1>1, <1>3
<1>6. /\ DOMAIN acked' = Kinds
      /\ \A l \in Kinds : l # k => acked'[l] = acked[l]
      /\ acked'[k] = [acked[k] EXCEPT ![id] = content]
  BY <1>1, <1>4
<1>7. /\ slots'[k] \in [1..Max[k] -> Records(k) \cup {NoRecord}]
      /\ slots'[k][i] = r
      /\ \A j \in 1..Max[k] : j # i => slots'[k][j] = slots[k][j]
  BY <1>1, <1>2, <1>5
<1>8. /\ acked'[k] \in [Ids -> Contents(k) \cup {NoRecord}]
      /\ acked'[k][id] = content
      /\ \A other \in Ids : other # id => acked'[k][other] = acked[k][other]
  BY <1>1, <1>6
<1>9. QED
  BY <1>2, <1>5, <1>6, <1>7, <1>8 DEF r

(* The slot a record is written to keeps the table exact: it is the one    *)
(* that holds the id, or the first free one when none does.                *)
LEMMA PutExact ==
  ASSUME TypeOK, NEW k \in Kinds, Exact(k), NEW id \in Ids,
         NEW content \in Contents(k), NEW i \in 1..Max[k], Put(k, i, id, content),
         \/ i \in Holding(k, id) /\ count' = count
         \/ /\ i = count[k] + 1 /\ Holding(k, id) = {}
            /\ count' = [count EXCEPT ![k] = i]
  PROVE  /\ \A j \in Filled(k)' : slots'[k][j] \in Records(k)
         /\ Exact(k)'
<1>1. count[k] \in 0..Max[k] /\ Max[k] \in Nat /\ count \in [Kinds -> Nat]
  BY MaxFacts DEF TypeOK
<1>2. \A j \in Filled(k) : j \in 1..Max[k] /\ slots[k][j] \in Records(k)
  BY <1>1 DEF TypeOK, Filled
<1>3. /\ i \in Filled(k)' /\ Filled(k)' = Filled(k) \cup {i}
  BY <1>1 DEF Filled, Holding
<1>4. \A j \in Filled(k) : slots[k][j].id = id => j = i
  BY DEF Exact, Holding
<1>5. /\ slots'[k][i] = [id |-> id, content |-> content] /\ slots'[k][i] \in Records(k)
      /\ \A j \in Filled(k) : j # i => slots'[k][j] = slots[k][j]
      /\ acked'[k][id] = content
      /\ \A other \in Ids : other # id => acked'[k][other] = acked[k][other]
  BY <1>2, PutFacts
<1>6. \A j \in Filled(k)' : slots'[k][j] \in Records(k)
  BY <1>2, <1>3, <1>5
<1>7. \A j \in Filled(k) : j # i => slots'[k][j].id # id
  BY <1>4, <1>5
<1>8. \A m, j \in Filled(k)' : slots'[k][m].id = slots'[k][j].id => m = j
  BY <1>3, <1>5, <1>7 DEF Exact
<1>9. \A j \in Filled(k)' : slots'[k][j].content = acked'[k][slots'[k][j].id]
  BY <1>2, <1>3, <1>5, <1>7 DEF Exact, Records
<1>10. ASSUME NEW other \in Known(k)'
       PROVE  \E j \in Filled(k)' : slots'[k][j].id = other
  <2>1. CASE other = id
    BY <2>1, <1>3, <1>5
  <2>2. CASE other # id
    <3>1. other \in Known(k)
      BY <2>2, <1>5 DEF Known
    <3>2. PICK j \in Filled(k) : slots[k][j].id = other
      BY <3>1 DEF Exact
    <3>3. j # i
      BY <3>2, <2>2, <1>1 DEF Holding, Filled
    <3>4. QED
      BY <3>2, <3>3, <1>3, <1>5
  <2>3. QED
    BY <2>1, <2>2
<1>11. QED
  BY <1>6, <1>8, <1>9, <1>10 DEF Exact

-----------------------------------------------------------------------------
LEMMA EmptyFacts ==
  /\ DOMAIN Empty = Kinds /\ DOMAIN Nothing = Kinds
  /\ \A k \in Kinds : /\ Empty[k] \in [1..Max[k] -> Records(k) \cup {NoRecord}]
                      /\ Nothing[k] \in [Ids -> Contents(k) \cup {NoRecord}]
                      /\ \A id \in Ids : Nothing[k][id] = NoRecord
BY DEF Empty, Nothing

(* The tables as init and shutdown leave them. *)
LEMMA ClearedFacts ==
  ASSUME slots = Empty, acked = Nothing, count = [k \in Kinds |-> 0]
  PROVE  /\ count \in [Kinds -> Nat]
         /\ \A k \in Kinds : count[k] \in 0..Max[k] /\ Filled(k) = {} /\ Exact(k)
<1>1. count \in [Kinds -> Nat] /\ \A k \in Kinds : count[k] = 0
  OBVIOUS
<1>2. \A k \in Kinds : count[k] \in 0..Max[k] /\ Filled(k) = {}
  BY <1>1, MaxFacts DEF Filled
<1>3. \A k \in Kinds : Known(k) = {}
  BY EmptyFacts DEF Known
<1>4. QED
  BY <1>1, <1>2, <1>3 DEF Exact

LEMMA IInvInit == Init => IInv
<1> SUFFICES ASSUME Init PROVE IInv
  OBVIOUS
<1>1. /\ count \in [Kinds -> Nat]
      /\ \A k \in Kinds : count[k] \in 0..Max[k] /\ Filled(k) = {} /\ Exact(k)
  BY ClearedFacts DEF Init
<1>2. TypeOK
  <2>1. s_initialized \in BOOLEAN
    BY DEF Init
  <2>2. QED
    BY <1>1, <2>1, EmptyFacts DEF Init, TypeOK
<1>3. Locking /\ Placing
  BY MemoryAssumption DEF Init, Locking, Placing
<1>4. QED
  BY <1>1, <1>2, <1>3 DEF IInv

LEMMA IInvCleared ==
  ASSUME IInv, MemoryInit \/ MemoryShutdown
  PROVE  IInv'
<1>1. /\ slots' = Empty /\ acked' = Nothing /\ count' = [k \in Kinds |-> 0]
      /\ UNCHANGED <<s_memory_lock, pc, call, place, reply>>
      /\ \A t \in Threads : pc[t] = "idle"
  BY DEF MemoryInit, MemoryShutdown, Quiet
<1>2. s_initialized' \in BOOLEAN
  BY DEF MemoryInit, MemoryShutdown
<1>3. count' \in [Kinds -> Nat] /\ \A k \in Kinds : count'[k] = 0
  BY <1>1
<1>4. \A k \in Kinds : count'[k] \in 0..Max[k] /\ Filled(k)' = {}
  BY <1>3, MaxFacts DEF Filled
<1>5. \A k \in Kinds : Known(k)' = {}
  BY <1>1, EmptyFacts DEF Known
<1>6. \A k \in Kinds : Exact(k)'
  BY <1>4, <1>5 DEF Exact
<1>7. TypeOK'
  BY <1>1, <1>2, <1>3, <1>4, EmptyFacts DEF IInv, TypeOK
<1>8. QED
  BY <1>1, <1>6, <1>7 DEF IInv, Locking, Placing

(* A step that leaves the tables alone. *)
LEMMA TablesKept ==
  ASSUME IInv, UNCHANGED tables
  PROVE  \A k \in Kinds : Filled(k)' = Filled(k) /\ Exact(k)'
BY DEF IInv, tables, Filled, Exact, Known

LEMMA IInvEnter ==
  ASSUME IInv, NEW t \in Threads, CallBegin(t) \/ Lock(t)
  PROVE  IInv'
<1>1. \A k \in Kinds : Filled(k)' = Filled(k) /\ Exact(k)'
  BY TablesKept DEF CallBegin, Lock
<1>2. UNCHANGED <<s_initialized, tables, place>>
  BY DEF CallBegin, Lock
<1>3. \A u \in Threads : /\ pc'[u] # "placing" \/ u # t
                         /\ u # t => pc'[u] = pc[u] /\ call'[u] = call[u]
  BY DEF IInv, TypeOK, CallBegin, Lock
<1>4. pc'[t] # "placing"
  BY DEF IInv, TypeOK, CallBegin, Lock
<1>5. Placing'
  BY <1>2, <1>3, <1>4 DEF IInv, Placing, Placed, Holding, Filled, tables
<1>6. TypeOK' /\ Locking'
  <2>1. CASE CallBegin(t)
    BY <2>1, <1>1, <1>2 DEF CallBegin, IInv, TypeOK, tables, Locking
  <2>2. CASE Lock(t)
    BY <2>2, <1>1, <1>2, MemoryAssumption DEF Lock, IInv, TypeOK, tables, Locking
  <2>3. QED
    BY <2>1, <2>2
<1>7. QED
  BY <1>1, <1>5, <1>6 DEF IInv

(* A call that returns, whatever it did to the tables. *)
LEMMA ReturnFacts ==
  ASSUME IInv, NEW t \in Threads, pc[t] \in {"locked", "placing"},
         NEW code, Return(t, code)
  PROVE  /\ Locking' /\ Placing' /\ s_memory_lock' \in Threads \cup {NoThread}
         /\ pc' \in [Threads -> {"idle", "waiting", "locked", "placing"}]
         /\ call' \in [Threads -> Calls \cup {NoRecord}]
         /\ \A u \in Threads : pc'[u] # "idle" => call'[u] \in Calls
         /\ place' \in [Threads -> Nat]
         /\ DOMAIN reply' = Threads /\ reply'[t] = code
         /\ pc'[t] = "idle" /\ \A u \in Threads : u # t => pc'[u] = pc[u]
<1>1. \A u \in Threads : u # t => pc[u] \notin {"locked", "placing"}
  BY DEF IInv, Locking
<1>2. Locking'
  BY <1>1, MemoryAssumption DEF IInv, TypeOK, Locking, Return
<1>3. Placing'
  BY <1>1 DEF IInv, TypeOK, Placing, Return
<1>4. QED
  BY <1>2, <1>3 DEF IInv, TypeOK, Return

(* The calls that only read. *)
LEMMA IInvRead ==
  ASSUME IInv, NEW t \in Threads,
         RecordRefused(t) \/ Get(t) \/ NotFound(t) \/ Stats(t)
  PROVE  IInv'
<1>1. pc[t] \in {"locked", "placing"} /\ UNCHANGED tables
  BY DEF RecordRefused, Get, NotFound, Stats, Running
<1>2. PICK code : Return(t, code)
  BY DEF RecordRefused, Get, NotFound, Stats
<1>3. \A k \in Kinds : Filled(k)' = Filled(k) /\ Exact(k)'
  BY <1>1, TablesKept
<1>4. UNCHANGED s_initialized
  BY <1>2 DEF Return
<1>5. TypeOK'
  BY <1>1, <1>2, <1>3, <1>4, ReturnFacts DEF IInv, TypeOK, tables
<1>6. QED
  BY <1>1, <1>2, <1>3, <1>5, ReturnFacts DEF IInv

LEMMA IInvSearch ==
  ASSUME IInv, NEW t \in Threads, RecordSearch(t)
  PROVE  IInv'
<1> DEFINE k == call[t].kind
           found == Holding(k, call[t].id)
<1>1. /\ pc[t] = "locked" /\ call[t].op = "record" /\ count[k] < Max[k]
      /\ place' = [place EXCEPT ![t] =
            IF found = {} THEN count[k] + 1 ELSE CHOOSE i \in found : TRUE]
      /\ pc' = [pc EXCEPT ![t] = "placing"]
      /\ UNCHANGED <<s_initialized, s_memory_lock, tables, call, reply>>
  BY DEF RecordSearch, Running
<1>2. call[t] \in Calls /\ k \in Kinds
  BY <1>1, CallFacts DEF IInv, TypeOK
<1>3. count[k] \in Nat /\ place \in [Threads -> Nat] /\ found \subseteq Nat
  BY <1>2 DEF IInv, TypeOK, Holding, Filled
<1>4. /\ place'[t] \in Nat
      /\ place'[t] \in found \/ (place'[t] = count[k] + 1 /\ found = {})
  BY <1>1, <1>3
<1>5. \A l \in Kinds : Filled(l)' = Filled(l) /\ Exact(l)'
  BY <1>1, TablesKept
<1>6. \A u \in Threads : u # t => pc[u] \notin {"locked", "placing"}
  BY <1>1 DEF IInv, Locking
<1>7. Placed(t)'
  BY <1>1, <1>4 DEF Placed, Holding, Filled, tables
<1>8. Placing' /\ Locking'
  BY <1>1, <1>6, <1>7 DEF IInv, TypeOK, Placing, Locking
<1>9. place' \in [Threads -> Nat]
  BY <1>1, <1>3, <1>4
<1>10. TypeOK'
  BY <1>1, <1>2, <1>5, <1>9 DEF IInv, TypeOK, tables
<1>11. QED
  BY <1>5, <1>8, <1>10 DEF IInv

(* The calls that write a slot. *)
LEMMA IInvWrite ==
  ASSUME IInv, NEW t \in Threads, RecordStore(t) \/ Change(t)
  PROVE  IInv'
<1> DEFINE c == call[t]
<1>1. pc[t] \in {"locked", "placing"} /\ c \in Calls /\ c.op \in {"record", "usage", "free"}
  BY DEF RecordStore, Change, Running, IInv, TypeOK, Placing, Placed
<1>2. PICK k \in Kinds : k = c.kind /\ c.id \in Ids /\ c.content \in Contents(k)
  BY <1>1, CallFacts
<1>3. count \in [Kinds -> Nat] /\ count[k] \in 0..Max[k] /\ Max[k] \in Nat
  BY <1>2, MaxFacts DEF IInv, TypeOK
<1>4. PICK i \in 1..Max[k] :
        /\ Put(k, i, c.id, c.content)
        /\ \/ i \in Holding(k, c.id) /\ count' = count
           \/ /\ i = count[k] + 1 /\ Holding(k, c.id) = {}
              /\ count' = [count EXCEPT ![k] = i]
  <2>1. Holding(k, c.id) \subseteq 1..count[k]
    BY DEF Holding, Filled
  <2>2. CASE RecordStore(t)
    <3>1. Placed(t)
      BY <2>2 DEF RecordStore, IInv, Placing
    <3>2. /\ Put(k, place[t], c.id, c.content)
          /\ count' = [count EXCEPT ![k] = IF place[t] > @ THEN place[t] ELSE @]
      BY <2>2, <1>2 DEF RecordStore
    <3>3. CASE place[t] \in Holding(k, c.id)
      <4>1. place[t] \in 1..Max[k] /\ ~(place[t] > count[k])
        BY <3>3, <2>1, <1>3
      <4>2. count' = count
        BY <4>1, <3>2, <1>3
      <4>3. QED
        BY <3>2, <3>3, <4>1, <4>2
    <3>4. CASE place[t] = count[k] + 1 /\ Holding(k, c.id) = {}
      <4>1. place[t] \in 1..Max[k] /\ place[t] > count[k]
        BY <3>1, <3>4, <1>2, <1>3 DEF Placed
      <4>2. QED
        BY <3>2, <3>4, <4>1, <1>3
    <3>5. QED
      BY <3>1, <3>3, <3>4, <1>2 DEF Placed
  <2>3. CASE Change(t)
    <3>1. PICK i \in Holding(k, c.id) : Put(k, i, c.id, c.content)
      BY <2>3, <1>2 DEF Change
    <3>2. i \in 1..Max[k] /\ count' = count
      BY <2>1, <2>3, <1>3 DEF Change
    <3>3. QED
      BY <3>1, <3>2
  <2>4. QED
    BY <2>2, <2>3
<1>5. PICK code : Return(t, code)
  BY DEF RecordStore, Change
<1>6. TypeOK /\ Exact(k)
  BY <1>2 DEF IInv
<1>7. (\A j \in Filled(k)' : slots'[k][j] \in Records(k)) /\ Exact(k)'
  BY <1>2, <1>4, <1>6, PutExact
<1>8. /\ DOMAIN slots' = Kinds /\ DOMAIN acked' = Kinds
      /\ \A l \in Kinds : l # k => slots'[l] = slots[l] /\ acked'[l] = acked[l]
      /\ slots'[k] \in [1..Max[k] -> Records(k) \cup {NoRecord}]
      /\ acked'[k] \in [Ids -> Contents(k) \cup {NoRecord}]
  BY <1>2, <1>4, <1>6, PutFacts
<1>9. /\ count' \in [Kinds -> Nat] /\ count'[k] \in 0..Max[k]
      /\ \A l \in Kinds : l # k => count'[l] = count[l]
  BY <1>2, <1>3, <1>4
<1>10. ASSUME NEW l \in Kinds, l # k
       PROVE  Filled(l)' = Filled(l) /\ Exact(l)'
  BY <1>8, <1>9, <1>10 DEF IInv, Filled, Exact, Known
<1>11. UNCHANGED s_initialized
  BY <1>5 DEF Return
<1>12. ASSUME NEW l \in Kinds
       PROVE  /\ count'[l] \in 0..Max[l]
              /\ slots'[l] \in [1..Max[l] -> Records(l) \cup {NoRecord}]
              /\ \A j \in Filled(l)' : slots'[l][j] \in Records(l)
              /\ acked'[l] \in [Ids -> Contents(l) \cup {NoRecord}]
  <2>1. CASE l = k
    BY <2>1, <1>7, <1>8, <1>9
  <2>2. CASE l # k
    BY <2>2, <1>6, <1>8, <1>9, <1>10 DEF TypeOK
  <2>3. QED
    BY <2>1, <2>2
<1>13. TypeOK'
  BY <1>1, <1>5, <1>6, <1>8, <1>9, <1>11, <1>12, ReturnFacts DEF TypeOK
<1>14. QED
  BY <1>1, <1>5, <1>7, <1>10, <1>13, ReturnFacts DEF IInv

LEMMA IInvInductive == IInv /\ [Next]_vars => IInv'
<1> SUFFICES ASSUME IInv, [Next]_vars PROVE IInv'
  OBVIOUS
<1>1. CASE UNCHANGED vars
  BY <1>1, TablesKept
     DEF vars, tables, IInv, TypeOK, Locking, Placing, Placed, Holding, Filled
<1>2. CASE \E t \in Threads : Inside(t)
  BY <1>2, IInvRead, IInvSearch, IInvWrite DEF Inside
<1>3. QED
  BY <1>1, <1>2, IInvCleared, IInvEnter DEF Next

-----------------------------------------------------------------------------
(* Every variable holds a value of its type, and no slot is written beyond *)
(* its array.                                                              *)
THEOREM TypeCorrect == Spec => []TypeOK
<1>1. IInv => TypeOK
  BY DEF IInv
<1>2. QED
  BY <1>1, IInvInit, IInvInductive, PTL DEF Spec

(* The ids that are known are as many as the slots filled. *)
LEMMA KnownCounted ==
  ASSUME TypeOK, NEW k \in Kinds, Exact(k)
  PROVE  IsFiniteSet(Known(k)) /\ Cardinality(Known(k)) = count[k]
<1> DEFINE f == [i \in 1..count[k] |-> slots[k][i].id]
<1>1. count[k] \in Nat
  BY DEF TypeOK
<1>2. IsFiniteSet(1..count[k]) /\ Cardinality(1..count[k]) = count[k]
  BY <1>1, FS_Interval
<1>3. \A i \in 1..count[k] : slots[k][i] \in Records(k)
  BY DEF TypeOK, Filled
<1>4. \A i \in 1..count[k] : f[i] \in Known(k)
  BY <1>3, ContentFacts DEF Exact, Filled, Known, Records
<1>5. \A id \in Known(k) : \E i \in 1..count[k] : f[i] = id
  BY DEF Exact, Filled
<1>6. \A i, j \in 1..count[k] : f[i] = f[j] => i = j
  BY DEF Exact, Filled
<1>7. f \in Bijection(1..count[k], Known(k))
  BY <1>4, <1>5, <1>6 DEF Bijection, Injection, Surjection, IsInjective
<1>8. ExistsBijection(1..count[k], Known(k))
  BY <1>7 DEF ExistsBijection
<1>9. QED
  BY <1>2, <1>8, FS_Bijection

(* The tables hold exactly the records that were acknowledged: two threads *)
(* that record one new id at once do not make two records of it, and no    *)
(* record replaces another (heapstore_memory.c:117-148).                   *)
THEOREM TablesExact == Spec => []TableIsAcknowledged
<1>1. IInv => TableIsAcknowledged
  <2> SUFFICES ASSUME IInv, NEW k \in Kinds
               PROVE  /\ \A id \in Ids : Cardinality(Holding(k, id))
                                           = IF id \in Known(k) THEN 1 ELSE 0
                      /\ \A i \in Filled(k) :
                           slots[k][i].content = acked[k][slots[k][i].id]
    BY DEF TableIsAcknowledged
  <2>1. TypeOK /\ Exact(k)
    BY DEF IInv
  <2>2. ASSUME NEW id \in Ids
        PROVE  Cardinality(Holding(k, id)) = IF id \in Known(k) THEN 1 ELSE 0
    <3>1. CASE id \in Known(k)
      <4>1. PICK i \in Filled(k) : slots[k][i].id = id
        BY <2>1, <3>1 DEF Exact
      <4>2. Holding(k, id) = {i}
        BY <2>1, <4>1 DEF Exact, Holding
      <4>3. QED
        BY <3>1, <4>2, FS_Singleton
    <3>2. CASE id \notin Known(k)
      <4>1. ASSUME NEW i \in Holding(k, id) PROVE FALSE
        <5>1. /\ i \in Filled(k) /\ slots[k][i].id = id
              /\ slots[k][i] \in Records(k)
          BY <2>1 DEF Holding, TypeOK
        <5>2. acked[k][id] \in Contents(k)
          BY <2>1, <5>1 DEF Exact, Records
        <5>3. QED
          BY <3>2, <5>2, ContentFacts DEF Known
      <4>2. Holding(k, id) = {}
        BY <4>1
      <4>3. QED
        BY <3>2, <4>2, FS_EmptySet
    <3>3. QED
      BY <3>1, <3>2
  <2>3. QED
    BY <2>1, <2>2 DEF Exact
<1>2. QED
  BY <1>1, IInvInit, IInvInductive, PTL DEF Spec

(* A call that ends in this step is the one whose thread takes it.         *)
LEMMA OnlyActorReturns ==
  ASSUME IInv, [Next]_vars, NEW t \in Threads, pc[t] # "idle", pc'[t] = "idle"
  PROVE  RecordRefused(t) \/ RecordStore(t) \/ Change(t) \/ Get(t)
           \/ NotFound(t) \/ Stats(t)
<1>1. pc \in [Threads -> {"idle", "waiting", "locked", "placing"}]
  BY DEF IInv, TypeOK
<1>2. ~UNCHANGED vars /\ ~MemoryInit /\ ~MemoryShutdown
  BY DEF vars, MemoryInit, MemoryShutdown
<1>3. PICK u \in Threads : CallBegin(u) \/ Lock(u) \/ Inside(u)
  BY <1>2 DEF Next
<1>4. ~CallBegin(u) /\ ~Lock(u) /\ ~RecordSearch(u)
  BY <1>1 DEF CallBegin, Lock, RecordSearch
<1>5. PICK code : Return(u, code)
  BY <1>3, <1>4 DEF Inside, RecordRefused, RecordStore, Change, Get, NotFound, Stats
<1>6. u = t
  BY <1>1, <1>5 DEF Return
<1>7. QED
  BY <1>3, <1>4, <1>6 DEF Inside

(* A query answers with what was acknowledged last, the statistics count   *)
(* every acknowledged record, and a record is refused only when its table  *)
(* has no slot left (heapstore_memory.c:117-198, 237-313).                 *)
THEOREM AnswersAreTruthful == Spec => AnswersTruthful
<1> DEFINE Truthful(t) ==
       CASE call[t].op = "get" ->
              reply'[t] = IF call[t].id \in Known(call[t].kind)
                          THEN acked[call[t].kind][call[t].id] ELSE "NOT_FOUND"
         [] call[t].op = "stats" ->
              reply'[t] = [k \in Kinds |-> Cardinality(Known(k))]
         [] call[t].op = "record" ->
              reply'[t] = IF Cardinality(Known(call[t].kind)) = Max[call[t].kind]
                          THEN "OUT_OF_MEMORY" ELSE "SUCCESS"
         [] OTHER ->
              reply'[t] = IF call[t].id \in Known(call[t].kind)
                          THEN "SUCCESS" ELSE "NOT_FOUND"
<1>1. ASSUME IInv, [Next]_vars, NEW t \in Threads, pc[t] # "idle", pc'[t] = "idle"
      PROVE  Truthful(t)
  <2>1. RecordRefused(t) \/ RecordStore(t) \/ Change(t) \/ Get(t) \/ NotFound(t) \/ Stats(t)
    BY <1>1, OnlyActorReturns
  <2>2. TypeOK /\ \A k \in Kinds : Exact(k)
    BY <1>1 DEF IInv
  <2>3. call[t] \in Calls /\ pc[t] \in {"locked", "placing"}
    BY <1>1, <2>1
       DEF IInv, TypeOK, RecordRefused, RecordStore, Change, Get, NotFound, Stats, Running
  <2>4. \A code : Return(t, code) => reply'[t] = code
    BY <2>2 DEF Return, TypeOK
  <2>5. CASE Stats(t)
    <3>1. call[t].op = "stats" /\ reply'[t] = count
      BY <2>4, <2>5 DEF Stats, Running
    <3>2. count = [k \in Kinds |-> Cardinality(Known(k))]
      BY <2>2, KnownCounted DEF TypeOK
    <3>3. QED
      BY <3>1, <3>2
  <2>6. CASE ~Stats(t)
    <3>1. call[t].op \in {"record", "get", "usage", "free"}
      BY <1>1, <2>1, <2>6
         DEF RecordRefused, RecordStore, Change, Get, NotFound, Running, IInv,
             Placing, Placed
    <3>2. PICK k \in Kinds : k = call[t].kind /\ call[t].id \in Ids
      BY <2>3, <3>1, CallFacts
    <3>3. call[t].id \in Known(k) <=> Holding(k, call[t].id) # {}
      <4>1. ASSUME NEW i \in Holding(k, call[t].id)
            PROVE  call[t].id \in Known(k)
        <5>1. slots[k][i] \in Records(k) /\ slots[k][i].id = call[t].id
              /\ slots[k][i].content = acked[k][slots[k][i].id]
          BY <2>2, <4>1 DEF Holding, TypeOK, Exact
        <5>2. QED
          BY <5>1, <3>2, ContentFacts DEF Records, Known
      <4>2. QED
        BY <4>1, <2>2 DEF Exact, Holding
    <3>4. Cardinality(Known(k)) = count[k] /\ count[k] \in 0..Max[k] /\ Max[k] \in Nat
      BY <2>2, KnownCounted, MaxFacts DEF TypeOK
    <3>5. CASE RecordRefused(t)
      <4>1. call[t].op = "record" /\ count[k] = Max[k] /\ reply'[t] = "OUT_OF_MEMORY"
        BY <2>4, <3>2, <3>4, <3>5 DEF RecordRefused, Running
      <4>2. QED
        BY <4>1, <3>2, <3>4
    <3>6. CASE RecordStore(t)
      <4>1. call[t].op = "record" /\ count[k] # Max[k] /\ reply'[t] = "SUCCESS"
        BY <1>1, <2>4, <3>2, <3>4, <3>6 DEF RecordStore, IInv, Placing, Placed
      <4>2. QED
        BY <4>1, <3>2, <3>4
    <3>7. CASE Change(t)
      <4>1. /\ call[t].op \in {"usage", "free"} /\ reply'[t] = "SUCCESS"
            /\ Holding(k, call[t].id) # {}
        BY <2>4, <3>2, <3>7 DEF Change, Running
      <4>2. QED
        BY <4>1, <3>2, <3>3
    <3>8. CASE Get(t)
      <4>1. PICK i \in Holding(k, call[t].id) : reply'[t] = slots[k][i].content
        BY <2>4, <3>2, <3>8 DEF Get
      <4>2. slots[k][i].content = acked[k][call[t].id]
        BY <2>2 DEF Exact, Holding
      <4>3. QED
        BY <4>1, <4>2, <3>2, <3>3, <3>8 DEF Get, Running
    <3>9. CASE NotFound(t)
      <4>1. /\ call[t].op \in {"get", "usage", "free"} /\ reply'[t] = "NOT_FOUND"
            /\ Holding(k, call[t].id) = {}
        BY <2>4, <3>2, <3>9 DEF NotFound, Running
      <4>2. QED
        BY <4>1, <3>2, <3>3
    <3>10. QED
      BY <2>1, <2>6, <3>5, <3>6, <3>7, <3>8, <3>9
  <2>7. QED
    BY <2>5, <2>6
<1>2. IInv /\ [Next]_vars =>
        [\A t \in Threads : pc[t] # "idle" /\ pc'[t] = "idle" => Truthful(t)]_vars
  BY <1>1
<1>3. QED
  BY <1>2, IInvInit, IInvInductive, PTL DEF Spec, AnswersTruthful
=============================================================================
