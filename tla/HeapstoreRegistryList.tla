------------------------- MODULE HeapstoreRegistryList ----------------------
(***************************************************************************)
(* The in-memory backend of the registry (src/src/heapstore_registry.c),   *)
(* built where SQLite is missing: a linked list per kind of record, new    *)
(* nodes at its head.  No operation takes a lock.  The three lists are     *)
(* used alike and share only the flag; one list stands for them.           *)
(*                                                                         *)
(* A node is told from every other by a serial number, since an iterator   *)
(* keeps the address of a node.  A batch inserts record by record with     *)
(* reg_add, so a single insert is a batch of one.  An insert is cut where  *)
(* two threads can meet without touching freed memory: after the search,   *)
(* and between reading the head and writing it.  The other races of        *)
(* concurrent calls (a search that meets a node being freed) are left out; *)
(* they are undefined behaviour that can only do worse.                    *)
(***************************************************************************)
EXTENDS HeapstoreRegistryNodes, SequencesExt

CONSTANTS Threads,   \* the threads that call the API
          Ids,       \* the ids of the records
          Values,    \* what a record holds beside its id
          Inserts,   \* the arrays of records callers insert
          MaxNodes   \* bound: how many nodes are allocated

ASSUME ListAssumption ==
  /\ MaxNodes \in Nat
  /\ None \notin Values \cup Nat
  /\ \A records \in Inserts : records \in Seq([id : Ids, value : Values]) \ {<<>>}

VARIABLES
  initialized,  \* s_registry.initialized
  nodes,        \* how many nodes were allocated
  pc,           \* where each thread is in its insert
  insert,       \* the array each thread inserts
  next,         \* the record of it that reg_add is at
  head,         \* the head each insert has read
  reply,        \* what each thread's last call returned
  before        \* history: the ids in the list when the insert began

calls == <<pc, insert, next, head, before>>
vars == <<initialized, list, leaked, nodes, calls, iterator, reply>>

Node == [serial : 1..MaxNodes, id : Ids, value : Values]
Positions(id) == {i \in DOMAIN list : list[i].id = id}

Init ==
  /\ initialized = FALSE
  /\ list = <<>> /\ leaked = <<>> /\ nodes = 0
  /\ pc = [t \in Threads |-> "idle"]
  /\ insert = [t \in Threads |-> <<>>]
  /\ next = [t \in Threads |-> 1]
  /\ head = [t \in Threads |-> None]
  /\ iterator = None
  /\ reply = [t \in Threads |-> None]
  /\ before = [t \in Threads |-> {}]

Answer(t, code) == reply' = [reply EXCEPT ![t] = code]

-----------------------------------------------------------------------------
(* Nodes are freed: the iterator that stands on one of them dangles.       *)
Freed(serials) ==
  iterator' = IF iterator = None THEN None
              ELSE [iterator EXCEPT !.due = @ \ serials,
                                !.dangling = @ \/ iterator.cursor \in serials]

(* init and shutdown are not thread safe (heapstore_registry.h:43,55).     *)
Quiet == \A t \in Threads : pc[t] = "idle"

(* The list is forgotten, not freed: a second init loses every record, and *)
(* an iterator goes on over the nodes it leaks.                            *)
RegistryInit ==
  /\ Quiet
  /\ initialized' = TRUE
  /\ list' = <<>>
  /\ leaked' = IF iterator # None /\ iterator.cursor \in Serials(list)
               THEN list ELSE leaked
  /\ iterator' = IF iterator = None THEN None ELSE [iterator EXCEPT !.due = {}]
  /\ UNCHANGED <<nodes, calls, reply>>

RegistryShutdown ==
  /\ Quiet
  /\ initialized' = FALSE
  /\ list' = <<>>
  /\ Freed(Serials(list))
  /\ UNCHANGED <<leaked, nodes, calls, reply>>

-----------------------------------------------------------------------------
(* reg_batch and reg_add *)
CallInsert(t) ==
  /\ pc[t] = "idle" /\ initialized
  /\ \E records \in Inserts : insert' = [insert EXCEPT ![t] = records]
  /\ pc' = [pc EXCEPT ![t] = "searching"]
  /\ before' = [before EXCEPT ![t] = IdsOf(list)]
  /\ UNCHANGED <<initialized, list, leaked, nodes, next, head, iterator, reply>>

Return(t, code) ==
  /\ pc' = [pc EXCEPT ![t] = "idle"]
  /\ insert' = [insert EXCEPT ![t] = <<>>]
  /\ next' = [next EXCEPT ![t] = 1]
  /\ head' = [head EXCEPT ![t] = None]
  /\ before' = [before EXCEPT ![t] = {}]
  /\ Answer(t, code)

AddFound(t) ==
  /\ pc[t] = "searching"
  /\ Positions(insert[t][next[t]].id) # {}
  /\ Return(t, "ALREADY_INITIALIZED")
  /\ UNCHANGED <<initialized, list, leaked, nodes, iterator>>

AddNoMemory(t) ==
  /\ pc[t] = "searching"
  /\ Positions(insert[t][next[t]].id) = {}
  /\ Return(t, "OUT_OF_MEMORY")
  /\ UNCHANGED <<initialized, list, leaked, nodes, iterator>>

(* The bound on the nodes counts those that are not linked yet.            *)
RoomForNode ==
  nodes + Cardinality({t \in Threads : pc[t] \in {"allocated", "reading"}}) < MaxNodes

(* Mutant: the search for the id is left out.                              *)
AddAllocate_NoSearch(t) ==
  /\ pc[t] = "searching" /\ RoomForNode
  /\ pc' = [pc EXCEPT ![t] = "allocated"]
  /\ UNCHANGED <<initialized, list, leaked, nodes, insert, next, head, before,
                 iterator, reply>>

AddAllocate(t) ==
  /\ pc[t] = "searching" /\ RoomForNode
  /\ Positions(insert[t][next[t]].id) = {}
  /\ pc' = [pc EXCEPT ![t] = "allocated"]
  /\ UNCHANGED <<initialized, list, leaked, nodes, insert, next, head, before,
                 iterator, reply>>

(* node->next = *d->head                                                   *)
AddReadHead(t) ==
  /\ pc[t] = "allocated"
  /\ head' = [head EXCEPT ![t] = HeadOf(list)]
  /\ pc' = [pc EXCEPT ![t] = "reading"]
  /\ UNCHANGED <<initialized, list, leaked, nodes, insert, next, before,
                 iterator, reply>>

(* Mutant: the next pointer of the new node is left null.                  *)
Linked_NextNull(t) ==
  LET r == insert[t][next[t]]
  IN  <<[serial |-> nodes + 1, id |-> r.id, value |-> r.value]>>

Linked(t) ==
  LET r == insert[t][next[t]]
  IN  <<[serial |-> nodes + 1, id |-> r.id, value |-> r.value]>>
        \o From(list, head[t])

(* The loop of reg_batch goes on with the next record or returns.          *)
Continue(t) ==
  IF next[t] < Len(insert[t])
  THEN /\ next' = [next EXCEPT ![t] = @ + 1]
       /\ pc' = [pc EXCEPT ![t] = "searching"]
       /\ head' = [head EXCEPT ![t] = None]
       /\ UNCHANGED <<insert, before, reply>>
  ELSE Return(t, "SUCCESS")

(* *d->head = node: what other threads linked before the head this one has *)
(* read is lost.                                                           *)
AddLink(t) ==
  /\ pc[t] = "reading"
  /\ list' = Linked(t)
  /\ nodes' = nodes + 1
  /\ Continue(t)
  /\ UNCHANGED <<initialized, leaked, iterator>>

-----------------------------------------------------------------------------
Update(t) ==
  /\ pc[t] = "idle" /\ initialized
  /\ \E id \in Ids, value \in Values :
       IF Positions(id) = {}
       THEN Answer(t, "NOT_FOUND") /\ UNCHANGED list
       ELSE /\ list' = [list EXCEPT ![Min(Positions(id))].value = value]
            /\ Answer(t, "SUCCESS")
  /\ UNCHANGED <<initialized, leaked, nodes, calls, iterator>>

(* The first node with the id is unlinked and freed.                       *)
Delete(t) ==
  /\ pc[t] = "idle" /\ initialized
  /\ \E id \in Ids :
       IF Positions(id) = {}
       THEN Answer(t, "NOT_FOUND") /\ UNCHANGED <<list, iterator>>
       ELSE LET i == Min(Positions(id))
            IN  /\ list' = RemoveAt(list, i)
                /\ Freed({list[i].serial})
                /\ Answer(t, "SUCCESS")
  /\ UNCHANGED <<initialized, leaked, nodes, calls>>

Get(t) ==
  /\ pc[t] = "idle" /\ initialized
  /\ \E id \in Ids :
       Answer(t, IF Positions(id) = {} THEN "NOT_FOUND"
                 ELSE list[Min(Positions(id))].value)
  /\ UNCHANGED <<initialized, list, leaked, nodes, calls, iterator>>

-----------------------------------------------------------------------------
(* reg_query.  The filters of the queries are ignored.                     *)
Query(t) ==
  /\ pc[t] = "idle" /\ initialized /\ iterator = None
  /\ iterator' = Iterator(HeadOf(list), Serials(list))
  /\ Answer(t, "SUCCESS")
  /\ UNCHANGED <<initialized, list, leaked, nodes, calls>>

(* Mutant: the cursor is moved before the record is copied.                *)
IterNext_Skips(t) ==
  /\ pc[t] = "idle" /\ iterator # None /\ ~iterator.dangling
  /\ Len(Ahead) > 1
  /\ iterator' = [iterator EXCEPT !.cursor = Ahead[2].serial,
                              !.got = Append(@, Ahead[2].serial),
                              !.due = @ \ {Ahead[2].serial}]
  /\ Answer(t, "SUCCESS")
  /\ UNCHANGED <<initialized, list, leaked, nodes, calls>>

IterNext(t) ==
  /\ pc[t] = "idle" /\ iterator # None /\ ~iterator.dangling
  /\ Ahead # <<>>
  /\ iterator' = [iterator EXCEPT !.cursor = HeadOf(Tail(Ahead)),
                              !.got = Append(@, iterator.cursor),
                              !.due = @ \ {iterator.cursor}]
  /\ Answer(t, "SUCCESS")
  /\ UNCHANGED <<initialized, list, leaked, nodes, calls>>

(* The node was freed: what is read is undefined, and the cursor with it.  *)
IterNextFreed(t) ==
  /\ pc[t] = "idle" /\ iterator # None /\ iterator.dangling
  /\ \E code \in {"SUCCESS", "NOT_FOUND"} : Answer(t, code)
  /\ UNCHANGED <<initialized, list, leaked, nodes, calls, iterator>>

IterEnd(t) ==
  /\ pc[t] = "idle" /\ iterator # None
  /\ ~iterator.dangling /\ iterator.cursor = None
  /\ Answer(t, "NOT_FOUND")
  /\ UNCHANGED <<initialized, list, leaked, nodes, calls, iterator>>

IterDestroy(t) ==
  /\ pc[t] = "idle" /\ iterator # None
  /\ iterator' = None
  /\ UNCHANGED <<initialized, list, leaked, nodes, calls, reply>>

Insert(t) ==
  \/ CallInsert(t) \/ AddFound(t) \/ AddNoMemory(t)
  \/ AddAllocate(t) \/ AddReadHead(t) \/ AddLink(t)

Iterate(t) == Query(t) \/ IterNext(t) \/ IterNextFreed(t) \/ IterEnd(t) \/ IterDestroy(t)

Step(t) == Insert(t) \/ Update(t) \/ Delete(t) \/ Get(t) \/ Iterate(t)

Next == RegistryInit \/ RegistryShutdown \/ \E t \in Threads : Step(t)

Spec == Init /\ [][Next]_vars

(* The callers take turns: nobody calls before an insert has returned.     *)
Alone(t) == \A u \in Threads \ {t} : pc[u] = "idle"

SerialNext ==
  RegistryInit \/ RegistryShutdown \/ \E t \in Threads : Alone(t) /\ Step(t)

SerialSpec == Init /\ [][SerialNext]_vars

-----------------------------------------------------------------------------
Locations == {"idle", "searching", "allocated", "reading"}

(* Every variable holds a value of its type, and no node is linked twice:  *)
(* the list is free of cycles.                                             *)
TypeOK ==
  /\ initialized \in BOOLEAN
  /\ \A i \in DOMAIN list : list[i] \in Node
  /\ Cardinality(Serials(list)) = Len(list)
  /\ ~initialized => list = <<>>
  /\ nodes \in 0..MaxNodes
  /\ pc \in [Threads -> Locations]
  /\ \A t \in Threads : pc[t] # "idle" => next[t] \in DOMAIN insert[t]
  /\ iterator # None => iterator.due \subseteq 1..nodes

(* An insert that returns SUCCESS has added all of its records to those    *)
(* that were there; one that stops has taken none of those out and put in  *)
(* nothing but records of its own (heapstore_registry.c:170-183).          *)
InsertsAdd ==
  [][\A t \in Threads : pc[t] # "idle" /\ pc'[t] = "idle" =>
       /\ before[t] \subseteq IdsOf(list')
       /\ IdsOf(list') \subseteq before[t] \cup IdsOf(insert[t])
       /\ reply'[t] = "SUCCESS" => IdsOf(list') = before[t] \cup IdsOf(insert[t])]_vars

(* An insert takes no record out of the registry: the inserts are          *)
(* "@threadsafe yes" (heapstore_registry.h:70).                            *)
InsertLosesNothing ==
  [][\A t \in Threads : pc[t] = "reading" /\ pc'[t] # "reading" =>
       IdsOf(list) \subseteq IdsOf(list')]_vars
=============================================================================
