--------------------------- MODULE HeapstoreBatch ---------------------------
(***************************************************************************)
(* A batch-write context (src/src/heapstore_core_batch.c): threads add     *)
(* session records to a bounded list and commit it to the session registry *)
(* record by record.  The capacity is tested twice, both times WITHOUT the *)
(* context lock; the list and its count change under the lock.             *)
(*                                                                         *)
(* An item is one allocation of batch_item_new; SessionId names the record *)
(* it carries, and two items may carry the same id.  A record that was     *)
(* refused or dropped can be added again, so adds never run out.           *)
(***************************************************************************)
EXTENDS Naturals, Sequences, FiniteSets

CONSTANTS Threads,     \* the threads that share the context
          Items,       \* the items they add
          SessionIds,  \* primary keys of the sessions table
          SessionId,   \* item -> the id of its record
          BatchSizes,  \* the arguments of heapstore_batch_begin
          MaxItems,    \* HEAPSTORE_BATCH_MAX_ITEMS
          NoThread,    \* the context lock is free
          NoItem       \* the thread holds no item; the id is not stored

ASSUME ThreadsAssumption ==
  IsFiniteSet(Threads) /\ Threads # {} /\ NoThread \notin Threads
ASSUME ItemsAssumption == /\ SessionId \in [Items -> SessionIds]
                          /\ NoItem \notin Items
ASSUME BatchSizesAssumption == BatchSizes \subseteq Nat /\ MaxItems \in Nat \ {0}

VARIABLES
  live,      \* the context is allocated
  capacity,  \* ctx->capacity
  count,     \* ctx->count
  list,      \* ctx->head .. ctx->tail
  lock,      \* the holder of ctx->lock, or NoThread
  pc,        \* where each thread is in its call
  item,      \* the item a thread's add has allocated
  taken,     \* the items a thread's commit has detached
  pos,       \* how far that commit is
  result,    \* that commit's return code
  sessions,  \* the sessions table: id -> the item that stored it
  registryLock,  \* the holder of s_registry.lock, or NoThread
  added,     \* history: items whose last add returned SUCCESS
  rejected,  \* history: items the registry refused since
  discarded  \* history: items dropped by destroy since

ctx == <<live, capacity, count, list, lock>>
commit == <<taken, pos, result>>
registry == <<sessions, registryLock>>
history == <<added, rejected, discarded>>
vars == <<ctx, pc, item, commit, registry, history>>

Codes == {"SUCCESS", "DB_QUERY_FAILED"}
Locations == {"idle", "allocated", "appending", "linked", "committing"}
Quiescent == \A t \in Threads : pc[t] = "idle"
Stored == {sessions[id] : id \in SessionIds} \ {NoItem}

Elements(s) == {s[i] : i \in 1..Len(s)}

Init ==
  /\ live = FALSE
  /\ capacity = 0
  /\ count = 0
  /\ list = <<>>
  /\ lock = NoThread
  /\ pc = [t \in Threads |-> "idle"]
  /\ item = [t \in Threads |-> NoItem]
  /\ taken = [t \in Threads |-> <<>>]
  /\ pos = [t \in Threads |-> 1]
  /\ result = [t \in Threads |-> "SUCCESS"]
  /\ sessions = [id \in SessionIds |-> NoItem]
  /\ registryLock = NoThread
  /\ added = {}
  /\ rejected = {}
  /\ discarded = {}

-----------------------------------------------------------------------------
(* heapstore_batch_begin: 0 means the maximum, more is cut to it.          *)
BatchBegin ==
  /\ ~live
  /\ \E size \in BatchSizes :
       capacity' = IF size > 0 /\ size <= MaxItems THEN size ELSE MaxItems
  /\ live' = TRUE
  /\ count' = 0
  /\ list' = <<>>
  /\ UNCHANGED <<lock, pc, item, commit, registry, history>>

(* heapstore_batch_context_destroy frees the context: its owner calls it   *)
(* when no other thread uses it.  batch_discard drops what is queued.      *)
Destroy ==
  /\ live /\ Quiescent
  /\ discarded' = discarded \cup Elements(list)
  /\ list' = <<>>
  /\ count' = 0
  /\ live' = FALSE
  /\ UNCHANGED <<capacity, lock, pc, item, commit, registry, added, rejected>>

-----------------------------------------------------------------------------
(* Mutant: the test is off by one.                                         *)
HasRoom_OffByOne == count <= capacity

(* The test of both batch_item_new and batch_append_item.                  *)
HasRoom == count < capacity

(* Every add allocates an item of its own: none that is queued, in a       *)
(* commit, stored, or held by another add.                                 *)
InUse == (UNION {Elements(taken[t]) : t \in Threads}) \cup Elements(list)
           \cup Stored \cup {item[t] : t \in Threads}

(* heapstore_batch_add_session: batch_item_new tests the capacity, without *)
(* the lock, and allocates.  Both refusals return OUT_OF_MEMORY and change *)
(* nothing.  What became of the item before is forgotten.                  *)
AddAllocate(t) ==
  /\ live /\ pc[t] = "idle"
  /\ HasRoom
  /\ \E i \in Items \ InUse :
       /\ item' = [item EXCEPT ![t] = i]
       /\ added' = added \ {i}
       /\ rejected' = rejected \ {i}
       /\ discarded' = discarded \ {i}
  /\ pc' = [pc EXCEPT ![t] = "allocated"]
  /\ UNCHANGED <<ctx, commit, registry>>

(* batch_append_item tests it again, still without the lock, and frees the *)
(* item when the list has filled up meanwhile.                             *)
AddRefused(t) ==
  /\ pc[t] = "allocated"
  /\ ~HasRoom
  /\ pc' = [pc EXCEPT ![t] = "idle"]
  /\ item' = [item EXCEPT ![t] = NoItem]
  /\ UNCHANGED <<ctx, commit, registry, history>>

AddChecked(t) ==
  /\ pc[t] = "allocated"
  /\ HasRoom
  /\ pc' = [pc EXCEPT ![t] = "appending"]
  /\ UNCHANGED <<ctx, item, commit, registry, history>>

(* Under the lock: link at the tail ...                                    *)
AddLink(t) ==
  /\ pc[t] = "appending"
  /\ lock = NoThread
  /\ lock' = t
  /\ list' = Append(list, item[t])
  /\ pc' = [pc EXCEPT ![t] = "linked"]
  /\ UNCHANGED <<live, capacity, count, item, commit, registry, history>>

(* ... count it, unlock and return SUCCESS.                                *)
AddCount(t) ==
  /\ pc[t] = "linked"
  /\ count' = count + 1
  /\ lock' = NoThread
  /\ added' = added \cup {item[t]}
  /\ item' = [item EXCEPT ![t] = NoItem]
  /\ pc' = [pc EXCEPT ![t] = "idle"]
  /\ UNCHANGED <<live, capacity, list, commit, registry, rejected, discarded>>

-----------------------------------------------------------------------------
(* Mutant: the count is cleared when the commit ends, not when it detaches *)
(* (the fault the comment at lines 135-136 says it avoids).                *)
CommitDetach_CountKept(t) ==
  /\ live /\ pc[t] = "idle"
  /\ lock = NoThread
  /\ taken' = [taken EXCEPT ![t] = list]
  /\ list' = <<>>
  /\ pos' = [pos EXCEPT ![t] = 1]
  /\ result' = [result EXCEPT ![t] = "SUCCESS"]
  /\ pc' = [pc EXCEPT ![t] = "committing"]
  /\ UNCHANGED <<live, capacity, count, lock, item, registry, history>>

(* Mutant: the context keeps the head of the list the commit walks.        *)
CommitDetach_HeadKept(t) ==
  /\ live /\ pc[t] = "idle"
  /\ lock = NoThread
  /\ taken' = [taken EXCEPT ![t] = list]
  /\ pos' = [pos EXCEPT ![t] = 1]
  /\ result' = [result EXCEPT ![t] = "SUCCESS"]
  /\ pc' = [pc EXCEPT ![t] = "committing"]
  /\ UNCHANGED <<ctx, item, registry, history>>

(* heapstore_batch_commit: the whole list is detached under the lock.      *)
CommitDetach(t) ==
  /\ live /\ pc[t] = "idle"
  /\ lock = NoThread
  /\ taken' = [taken EXCEPT ![t] = list]
  /\ list' = <<>>
  /\ count' = 0
  /\ pos' = [pos EXCEPT ![t] = 1]
  /\ result' = [result EXCEPT ![t] = "SUCCESS"]
  /\ pc' = [pc EXCEPT ![t] = "committing"]
  /\ UNCHANGED <<live, capacity, lock, item, registry, history>>

(* heapstore_registry_add_session for the next item: session_begin waits   *)
(* for the lock of the registry.                                           *)
CommitLock(t) ==
  /\ pc[t] = "committing"
  /\ pos[t] <= Len(taken[t])
  /\ registryLock = NoThread
  /\ registryLock' = t
  /\ UNCHANGED <<ctx, pc, item, commit, sessions, history>>

(* Mutant: the code of the last record is returned, not the first error.   *)
CommitStore_ResultOfLast(t) ==
  /\ pc[t] = "committing" /\ registryLock = t
  /\ LET i == taken[t][pos[t]]
     IN  /\ sessions[SessionId[i]] = NoItem
         /\ sessions' = [sessions EXCEPT ![SessionId[i]] = i]
  /\ result' = [result EXCEPT ![t] = "SUCCESS"]
  /\ pos' = [pos EXCEPT ![t] = @ + 1]
  /\ registryLock' = NoThread
  /\ UNCHANGED <<ctx, pc, item, taken, history>>

(* The INSERT succeeds, the registry is unlocked and the item is freed ... *)
CommitStore(t) ==
  /\ pc[t] = "committing" /\ registryLock = t
  /\ LET i == taken[t][pos[t]]
     IN  /\ sessions[SessionId[i]] = NoItem
         /\ sessions' = [sessions EXCEPT ![SessionId[i]] = i]
  /\ pos' = [pos EXCEPT ![t] = @ + 1]
  /\ registryLock' = NoThread
  /\ UNCHANGED <<ctx, pc, item, taken, result, history>>

(* ... or fails (the id is taken, the statement fails): the first error is *)
(* kept, the loop goes on, the item is freed all the same.                 *)
CommitReject(t) ==
  /\ pc[t] = "committing" /\ registryLock = t
  /\ rejected' = rejected \cup {taken[t][pos[t]]}
  /\ result' = [result EXCEPT ![t] = "DB_QUERY_FAILED"]
  /\ pos' = [pos EXCEPT ![t] = @ + 1]
  /\ registryLock' = NoThread
  /\ UNCHANGED <<ctx, pc, item, taken, sessions, added, discarded>>

(* Mutant: the walk follows the live list: what was added meanwhile is     *)
(* committed too before the call returns.                                  *)
CommitReturn_Drains(t) ==
  /\ pc[t] = "committing"
  /\ pos[t] > Len(taken[t])
  /\ lock = NoThread
  /\ taken' = [taken EXCEPT ![t] = list]
  /\ list' = <<>>
  /\ count' = 0
  /\ pos' = [pos EXCEPT ![t] = 1]
  /\ pc' = [pc EXCEPT ![t] = IF list = <<>> THEN "idle" ELSE @]
  /\ UNCHANGED <<live, capacity, lock, item, result, registry, history>>

CommitReturn(t) ==
  /\ pc[t] = "committing"
  /\ pos[t] > Len(taken[t])
  /\ pc' = [pc EXCEPT ![t] = "idle"]
  /\ taken' = [taken EXCEPT ![t] = <<>>]
  /\ pos' = [pos EXCEPT ![t] = 1]
  /\ UNCHANGED <<ctx, item, result, registry, history>>

Add(t) ==
  \/ AddAllocate(t) \/ AddRefused(t) \/ AddChecked(t) \/ AddLink(t) \/ AddCount(t)
CommitRun(t) == CommitStore(t) \/ CommitReject(t) \/ CommitReturn(t)
CommitStep(t) == CommitLock(t) \/ CommitRun(t)

Next ==
  \/ BatchBegin \/ Destroy
  \/ \E t \in Threads : Add(t) \/ CommitDetach(t) \/ CommitStep(t)

Spec == Init /\ [][Next]_vars

(* Fairness: a thread that waits for no lock keeps running.  The locks are *)
(* not fair: CommitLock may never get its turn.                            *)
FairSpec == Spec /\ \A t \in Threads : WF_vars(CommitRun(t))

-----------------------------------------------------------------------------
(* Every variable holds a value of its type.                               *)
TypeOK ==
  /\ live \in BOOLEAN
  /\ capacity \in 0..MaxItems
  /\ count \in Nat
  /\ list \in Seq(Items)
  /\ lock \in Threads \cup {NoThread}
  /\ pc \in [Threads -> Locations]
  /\ item \in [Threads -> Items \cup {NoItem}]
  /\ taken \in [Threads -> Seq(Items)]
  /\ pos \in [Threads -> Nat \ {0}]
  /\ result \in [Threads -> Codes]
  /\ sessions \in [SessionIds -> Items \cup {NoItem}]
  /\ registryLock \in Threads \cup {NoThread}
  /\ added \subseteq Items
  /\ rejected \subseteq Items
  /\ discarded \subseteq Items

(* Whenever the lock is free the count is the length of the list, also for *)
(* the adds that overlap a commit (lines 135-136).                         *)
CountMatchesList == lock = NoThread => count = Len(list)

(* An item whose add returned SUCCESS is in exactly one place: queued,     *)
(* detached by one commit and not reached yet, stored, refused, or         *)
(* discarded.  No two commits share it and none of them loses it.          *)
Unreached(t) == {i \in DOMAIN taken[t] : i >= pos[t]}
ExactlyOnePlace ==
  \A i \in added :
    Cardinality({n \in DOMAIN list : list[n] = i})
      + Cardinality({p \in Threads \X UNION {DOMAIN taken[t] : t \in Threads} :
                       p[2] \in Unreached(p[1]) /\ taken[p[1]][p[2]] = i})
      + Cardinality({id \in SessionIds : sessions[id] = i})
      + (IF i \in rejected THEN 1 ELSE 0)
      + (IF i \in discarded THEN 1 ELSE 0) = 1

(* The capacity is exceeded by the threads that passed the test together,  *)
(* and by no more: one item per thread but the first.                      *)
OvershootBounded == count <= capacity + Cardinality(Threads) - 1

(* commit returns SUCCESS exactly when every record it detached is stored, *)
(* and when it returns an error it has still tried all of them.            *)
CommitTruthful ==
  [][\A t \in Threads :
       pc[t] = "committing" /\ pc'[t] = "idle" =>
         /\ Elements(taken[t]) \subseteq Stored \cup rejected
         /\ result[t] = "SUCCESS" <=> Elements(taken[t]) \cap rejected = {}]_vars

(* A commit ends whatever the other threads add meanwhile, adds that never *)
(* stop included: it works on the list it detached.  Only the registry can *)
(* hold it up, by never giving it the lock it waits for.                   *)
CommitTerminates ==
  \A t \in Threads :
    \/ []<>(pc[t] # "committing")
    \/ <>[](pos[t] <= Len(taken[t]) /\ registryLock # t)
=============================================================================
