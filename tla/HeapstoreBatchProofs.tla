------------------------ MODULE HeapstoreBatchProofs ------------------------
(***************************************************************************)
(* Invariants of the batch context for every number of threads and items   *)
(* and every capacity: the count agrees with the list, and the unlocked    *)
(* capacity test lets the list grow past the capacity by at most one item  *)
(* per thread but the first.                                               *)
(***************************************************************************)
EXTENDS HeapstoreBatch, FiniteSetTheorems, TLAPS

(* The threads that have passed the second capacity test and whose item is *)
(* not counted yet.                                                        *)
Appending == {t \in Threads : pc[t] \in {"appending", "linked"}}

(* The lock is held exactly between the link and the count of an add, and  *)
(* only then does the count trail the list.  Without a context nothing is  *)
(* queued and no thread is inside a call on it.                            *)
Locking ==
  /\ \A t \in Threads : pc[t] = "linked" <=> lock = t
  /\ \A t \in Threads :
       pc[t] \in {"allocated", "appending", "linked"} => item[t] \in Items
  /\ count = IF lock = NoThread THEN Len(list) ELSE Len(list) - 1
  /\ ~live => Quiescent

(* An item is counted from the moment its thread has passed the test.      *)
Overshoot ==
  /\ live => /\ capacity > 0
             /\ count + Cardinality(Appending)
                  <= capacity + Cardinality(Threads) - 1
  /\ ~live => count = 0

Core == TypeOK /\ Locking

(* A commit holds the registry's lock while it has a record to store.      *)
Walking ==
  \A t \in Threads :
    registryLock = t => pc[t] = "committing" /\ pos[t] <= Len(taken[t])

USE DEF ctx, commit, registry, history

-----------------------------------------------------------------------------
(* The list grows by one item at its tail.                                 *)
LEMMA AppendFacts ==
  ASSUME NEW s \in Seq(Items), NEW i \in Items
  PROVE  /\ Append(s, i) \in Seq(Items)
         /\ Len(Append(s, i)) = Len(s) + 1
         /\ Len(s) \in Nat
  OBVIOUS

(* The empty list. *)
LEMMA EmptyFacts == <<>> \in Seq(Items) /\ Len(<<>>) = 0
  OBVIOUS

(* Before the first begin.                                                 *)
LEMMA CoreInit == Init => Core
<1> SUFFICES ASSUME Init PROVE Core
  OBVIOUS
<1>1. TypeOK
  <2>1. capacity \in 0..MaxItems /\ count \in Nat
    BY BatchSizesAssumption DEF Init
  <2>2. /\ list \in Seq(Items)
        /\ taken \in [Threads -> Seq(Items)]
    BY EmptyFacts DEF Init
  <2>3. /\ pc \in [Threads -> Locations]
        /\ result \in [Threads -> Codes]
        /\ pos \in [Threads -> Nat \ {0}]
    BY DEF Init, Locations, Codes
  <2>4. QED
    BY <2>1, <2>2, <2>3 DEF Init, TypeOK
<1>2. Locking
  BY EmptyFacts, ThreadsAssumption DEF Init, Locking, Quiescent
<1>3. QED
  BY <1>1, <1>2 DEF Core

(* begin and destroy: the context is empty and no thread is in a call.     *)
LEMMA CoreContext ==
  ASSUME Core, BatchBegin \/ Destroy
  PROVE  Core'
<1>1. capacity' \in 0..MaxItems
  BY BatchSizesAssumption DEF Core, TypeOK, BatchBegin, Destroy
<1>2. discarded' \subseteq Items
  <2>1. Elements(list) \subseteq Items
    BY DEF Core, TypeOK, Elements
  <2>2. CASE BatchBegin
    BY <2>2 DEF Core, TypeOK, BatchBegin
  <2>3. CASE Destroy
    BY <2>1, <2>3 DEF Core, TypeOK, Destroy
  <2>4. QED
    BY <2>2, <2>3
<1>3. TypeOK'
  <2>1. live' \in BOOLEAN /\ count' = 0 /\ list' = <<>>
    BY DEF BatchBegin, Destroy
  <2>2. /\ UNCHANGED <<lock, pc, item, taken, pos, result>>
        /\ UNCHANGED <<sessions, registryLock, added, rejected>>
    BY DEF BatchBegin, Destroy
  <2>3. count' \in Nat /\ list' \in Seq(Items)
    BY <2>1, EmptyFacts
  <2>4. QED
    BY <1>1, <1>2, <2>1, <2>2, <2>3 DEF Core, TypeOK
<1>4. Quiescent /\ Quiescent' /\ lock = NoThread
  BY DEF Core, TypeOK, Locking, BatchBegin, Destroy, Quiescent
<1>5. Locking'
  BY <1>4, EmptyFacts DEF Core, Locking, BatchBegin, Destroy, Quiescent
<1>6. QED
  BY <1>3, <1>5 DEF Core

(* The steps of an add.                                                    *)
LEMMA CoreAdd ==
  ASSUME Core, NEW t \in Threads, Add(t)
  PROVE  Core'
<1> USE DEF Core
<1>1. CASE AddAllocate(t)
  <2>1. TypeOK'
    BY <1>1 DEF AddAllocate, TypeOK, Locations
  <2>2. Locking'
    BY <1>1 DEF AddAllocate, Locking, TypeOK
  <2>3. QED
    BY <2>1, <2>2
<1>2. CASE AddRefused(t)
  <2>1. TypeOK'
    BY <1>2 DEF AddRefused, TypeOK, Locations
  <2>2. Locking'
    BY <1>2 DEF AddRefused, Locking, TypeOK, Quiescent
  <2>3. QED
    BY <2>1, <2>2
<1>3. CASE AddChecked(t)
  <2>1. TypeOK'
    BY <1>3 DEF AddChecked, TypeOK, Locations
  <2>2. Locking'
    BY <1>3 DEF AddChecked, Locking, TypeOK, Quiescent
  <2>3. QED
    BY <2>1, <2>2
<1>4. CASE AddLink(t)
  <2>1. item[t] \in Items /\ live
    BY <1>4 DEF AddLink, Locking, Quiescent
  <2>2. list' \in Seq(Items) /\ Len(list') = Len(list) + 1 /\ Len(list) \in Nat
    BY <1>4, <2>1, AppendFacts DEF AddLink, TypeOK
  <2>3. TypeOK'
    BY <1>4, <2>2 DEF AddLink, TypeOK, Locations
  <2>4. Locking'
    BY <1>4, <2>1, <2>2, ThreadsAssumption DEF AddLink, Locking, TypeOK
  <2>5. QED
    BY <2>3, <2>4
<1>5. CASE AddCount(t)
  <2>1. item[t] \in Items /\ live /\ lock = t
    BY <1>5 DEF AddCount, Locking, Quiescent
  <2>2. count = Len(list) - 1 /\ count \in Nat
    BY <2>1, ThreadsAssumption DEF Locking, TypeOK
  <2>3. TypeOK'
    BY <1>5, <2>1, <2>2 DEF AddCount, TypeOK, Locations
  <2>4. Locking'
    BY <1>5, <2>1, <2>2, ThreadsAssumption DEF AddCount, Locking, TypeOK
  <2>5. QED
    BY <2>3, <2>4
<1>6. QED
  BY <1>1, <1>2, <1>3, <1>4, <1>5 DEF Add

(* The steps of a commit, which leave the lock free.                       *)
LEMMA CoreCommit ==
  ASSUME Core, Walking, NEW t \in Threads, CommitDetach(t) \/ CommitStep(t)
  PROVE  Core'
<1> USE DEF Core
<1>1. CASE CommitDetach(t)
  <2>1. TypeOK'
    BY <1>1, EmptyFacts DEF CommitDetach, TypeOK, Locations, Codes
  <2>2. Locking'
    BY <1>1, EmptyFacts DEF CommitDetach, Locking, TypeOK
  <2>3. QED
    BY <2>1, <2>2
<1>2. ASSUME CommitStore(t) \/ CommitReject(t)
      PROVE  Core'
  <2>1. taken[t] \in Seq(Items) /\ pos[t] \in 1..Len(taken[t])
    BY <1>2 DEF CommitStore, CommitReject, TypeOK, Walking
  <2>2. taken[t][pos[t]] \in Items
    BY <2>1
  <2>3. /\ UNCHANGED <<live, capacity, count, list, lock, pc, item, taken>>
        /\ UNCHANGED <<added, discarded>>
    BY <1>2 DEF CommitStore, CommitReject
  <2>4. /\ sessions' \in [SessionIds -> Items \cup {NoItem}]
        /\ registryLock' \in Threads \cup {NoThread}
        /\ rejected' \subseteq Items
        /\ result' \in [Threads -> Codes]
    BY <1>2, <2>2 DEF CommitStore, CommitReject, TypeOK, Codes
  <2>5. pos' \in [Threads -> Nat \ {0}]
    BY <1>2 DEF CommitStore, CommitReject, TypeOK
  <2>6. TypeOK'
    BY <2>3, <2>4, <2>5 DEF TypeOK
  <2>7. Locking'
    BY <1>2 DEF CommitStore, CommitReject, Locking, Quiescent
  <2>8. QED
    BY <2>6, <2>7
<1>3. CASE CommitReturn(t)
  <2>1. TypeOK'
    BY <1>3, EmptyFacts DEF CommitReturn, TypeOK, Locations
  <2>2. Locking'
    BY <1>3 DEF CommitReturn, Locking, TypeOK, Quiescent
  <2>3. QED
    BY <2>1, <2>2
<1>4. CASE CommitLock(t)
  <2>1. TypeOK'
    BY <1>4 DEF CommitLock, TypeOK
  <2>2. Locking'
    BY <1>4 DEF CommitLock, Locking, Quiescent
  <2>3. QED
    BY <2>1, <2>2
<1>5. QED
  BY <1>1, <1>2, <1>3, <1>4 DEF CommitStep, CommitRun

(* Only a commit that has a record to store holds the registry's lock.     *)
LEMMA WalkingInductive ==
  ASSUME Core, Walking, [Next]_vars
  PROVE  Walking'
<1> USE DEF Walking
<1>1. /\ pc \in [Threads -> Locations] /\ taken \in [Threads -> Seq(Items)]
      /\ pos \in [Threads -> Nat \ {0}] /\ NoThread \notin Threads
  BY ThreadsAssumption DEF Core, TypeOK
<1>2. CASE UNCHANGED vars
  BY <1>2 DEF vars
<1>3. CASE BatchBegin \/ Destroy
  BY <1>3 DEF BatchBegin, Destroy
<1>4. ASSUME NEW t \in Threads, Add(t)
      PROVE  Walking'
  <2>1. /\ pc[t] # "committing" /\ UNCHANGED <<taken, pos, registryLock>>
        /\ \E l : pc' = [pc EXCEPT ![t] = l]
    BY <1>4 DEF Add, AddAllocate, AddRefused, AddChecked, AddLink, AddCount
  <2>2. QED
    BY <1>1, <2>1
<1>5. ASSUME NEW t \in Threads, CommitDetach(t)
      PROVE  Walking'
  BY <1>1, <1>5 DEF CommitDetach
<1>6. ASSUME NEW t \in Threads, CommitLock(t)
      PROVE  Walking'
  BY <1>1, <1>6 DEF CommitLock
<1>7. ASSUME NEW t \in Threads, CommitStore(t) \/ CommitReject(t)
      PROVE  Walking'
  BY <1>1, <1>7 DEF CommitStore, CommitReject
<1>8. ASSUME NEW t \in Threads, CommitReturn(t)
      PROVE  Walking'
  <2>1. registryLock # t
    BY <1>1, <1>8 DEF CommitReturn
  <2>2. QED
    BY <1>1, <1>8, <2>1 DEF CommitReturn
<1>9. QED
  BY <1>2, <1>3, <1>4, <1>5, <1>6, <1>7, <1>8 DEF Next, CommitStep, CommitRun

(* Types and the lock discipline are preserved by every step.              *)
LEMMA CoreStep == Core /\ Walking /\ [Next]_vars => Core'
<1> SUFFICES ASSUME Core, Walking, [Next]_vars PROVE Core'
  OBVIOUS
<1>1. CASE UNCHANGED vars
  BY <1>1 DEF vars, Core, TypeOK, Locking, Quiescent
<1>2. QED
  BY <1>1, CoreContext, CoreAdd, CoreCommit DEF Next

(* Types, the lock discipline and the holder of the registry's lock, as    *)
(* one inductive invariant.                                                *)
LEMMA CoreAlways == Spec => [](Core /\ Walking)
<1>1. Init => Walking
  BY ThreadsAssumption DEF Init, Walking
<1>2. Core /\ Walking /\ [Next]_vars => Walking'
  BY WalkingInductive
<1>3. QED
  BY CoreInit, CoreStep, <1>1, <1>2, PTL DEF Spec

(* The types of the batch context.                                         *)
THEOREM TypeCorrect == Spec => []TypeOK
<1>1. Core => TypeOK
  BY DEF Core
<1>2. QED
  BY CoreAlways, <1>1, PTL

(* The count never drifts away from the list, also when adds overlap a     *)
(* commit.                                                                 *)
THEOREM CountAgrees == Spec => []CountMatchesList
<1>1. Core => CountMatchesList
  BY DEF Core, Locking, CountMatchesList
<1>2. QED
  BY CoreAlways, <1>1, PTL

-----------------------------------------------------------------------------
(* The sizes of the sets of threads are numbers.                           *)
LEMMA ThreadCounts ==
  ASSUME NEW S \in SUBSET Threads
  PROVE  /\ IsFiniteSet(S)
         /\ Cardinality(S) \in Nat
         /\ Cardinality(S) <= Cardinality(Threads)
         /\ Cardinality(Threads) \in Nat \ {0}
<1>1. IsFiniteSet(S) /\ Cardinality(S) <= Cardinality(Threads)
  BY ThreadsAssumption, FS_Subset
<1>2. Cardinality(S) \in Nat /\ Cardinality(Threads) \in Nat
  BY <1>1, ThreadsAssumption, FS_CardinalityType
<1>3. Cardinality(Threads) # 0
  BY ThreadsAssumption, FS_EmptySet
<1>4. QED
  BY <1>1, <1>2, <1>3

(* Without a context there is nothing to bound.                            *)
LEMMA OvershootInit == Init => Overshoot
  BY DEF Init, Overshoot

(* A new context is empty and no thread is in a call on it.                *)
LEMMA OvershootContext ==
  ASSUME Core, Overshoot, BatchBegin \/ Destroy
  PROVE  Overshoot'
<1>1. Quiescent' /\ count' = 0
  BY DEF Core, Locking, BatchBegin, Destroy, Quiescent
<1>2. Appending' = {}
  BY <1>1 DEF Quiescent, Appending
<1>3. Cardinality(Appending') = 0
  BY <1>2, FS_EmptySet
<1>4. CASE BatchBegin
  <2>1. live' /\ capacity' \in Nat \ {0}
    BY <1>4, BatchSizesAssumption DEF BatchBegin
  <2>2. Cardinality(Threads) \in Nat \ {0}
    BY ThreadCounts
  <2>3. QED
    BY <1>1, <1>3, <2>1, <2>2 DEF Overshoot
<1>5. CASE Destroy
  BY <1>1, <1>5 DEF Destroy, Overshoot
<1>6. QED
  BY <1>4, <1>5

(* The second test admits a thread while there is room for one more item;  *)
(* linking and counting it moves it from the threads to the count.         *)
LEMMA OvershootAdd ==
  ASSUME Core, Overshoot, NEW t \in Threads, Add(t)
  PROVE  Overshoot'
<1>1. live /\ UNCHANGED <<live, capacity>>
  BY DEF Core, Locking, Quiescent, Add, AddAllocate, AddRefused, AddChecked,
         AddLink, AddCount
<1>2. /\ Appending \subseteq Threads /\ Appending' \subseteq Threads
      /\ count \in Nat /\ capacity \in Nat /\ pc \in [Threads -> Locations]
  BY DEF Appending, Core, TypeOK
<1>3. /\ IsFiniteSet(Appending)
      /\ Cardinality(Appending) \in Nat
      /\ Cardinality(Appending') \in Nat
      /\ Cardinality(Appending') <= Cardinality(Threads)
      /\ Cardinality(Threads) \in Nat
  BY <1>2, ThreadCounts
<1>4. CASE AddAllocate(t) \/ AddRefused(t) \/ AddLink(t)
  <2>1. Appending' = Appending
    BY <1>2, <1>4 DEF Appending, AddAllocate, AddRefused, AddLink
  <2>2. UNCHANGED count
    BY <1>4 DEF AddAllocate, AddRefused, AddLink
  <2>3. QED
    BY <1>1, <2>1, <2>2 DEF Overshoot
<1>5. CASE AddChecked(t)
  <2>1. count < capacity /\ UNCHANGED count
    BY <1>5 DEF AddChecked, HasRoom
  <2>2. count + Cardinality(Appending') <= capacity + Cardinality(Threads) - 1
    BY <1>2, <1>3, <2>1
  <2>3. QED
    BY <1>1, <2>1, <2>2 DEF Overshoot
<1>6. CASE AddCount(t)
  <2>1. t \in Appending /\ Appending' = Appending \ {t}
    BY <1>2, <1>6 DEF Appending, AddCount
  <2>2. Cardinality(Appending') = Cardinality(Appending) - 1
    BY <1>3, <2>1, FS_RemoveElement
  <2>3. count' = count + 1
    BY <1>6 DEF AddCount
  <2>4. QED
    BY <1>1, <1>2, <1>3, <2>2, <2>3 DEF Overshoot
<1>7. QED
  BY <1>4, <1>5, <1>6 DEF Add

(* A commit empties the list; every thread may then add one item.          *)
LEMMA OvershootCommit ==
  ASSUME Core, Overshoot, NEW t \in Threads, CommitDetach(t) \/ CommitStep(t)
  PROVE  Overshoot'
<1>1. /\ Appending \subseteq Threads
      /\ capacity \in Nat /\ pc \in [Threads -> Locations]
  BY DEF Appending, Core, TypeOK
<1>2. UNCHANGED <<live, capacity>>
  BY DEF CommitDetach, CommitStep, CommitLock, CommitRun, CommitStore, CommitReject,
         CommitReturn
<1>3. Appending' = Appending
  BY <1>1 DEF Appending, CommitDetach, CommitStep, CommitLock,
              CommitRun, CommitStore, CommitReject, CommitReturn
<1>4. CASE CommitDetach(t)
  <2>1. live /\ count' = 0
    BY <1>4 DEF CommitDetach
  <2>2. /\ Cardinality(Appending) \in Nat
        /\ Cardinality(Appending) <= Cardinality(Threads)
        /\ Cardinality(Threads) \in Nat
    BY <1>1, ThreadCounts
  <2>3. QED
    BY <1>1, <1>2, <1>3, <2>1, <2>2 DEF Overshoot
<1>5. CASE CommitStep(t)
  <2>1. UNCHANGED count
    BY <1>5 DEF CommitStep, CommitLock, CommitRun, CommitStore, CommitReject, CommitReturn
  <2>2. QED
    BY <1>2, <1>3, <2>1 DEF Overshoot
<1>6. QED
  BY <1>4, <1>5

(* The overshoot bound is preserved by every step.                         *)
LEMMA OvershootInductive == Core /\ Overshoot /\ [Next]_vars => Overshoot'
<1> SUFFICES ASSUME Core, Overshoot, [Next]_vars PROVE Overshoot'
  OBVIOUS
<1>1. CASE UNCHANGED vars
  BY <1>1 DEF vars, Overshoot, Appending
<1>2. QED
  BY <1>1, OvershootContext, OvershootAdd, OvershootCommit DEF Next

(* The capacity, tested outside the lock, is exceeded by fewer items than  *)
(* there are threads, however many commits and adds overlap.               *)
THEOREM OvershootIsBounded == Spec => []OvershootBounded
<1>1. Core /\ Overshoot => OvershootBounded
  <2> SUFFICES ASSUME Core, Overshoot PROVE OvershootBounded
    OBVIOUS
  <2>1. /\ Appending \subseteq Threads
        /\ count \in Nat /\ capacity \in Nat
    BY DEF Appending, Core, TypeOK
  <2>2. Cardinality(Appending) \in Nat /\ Cardinality(Threads) \in Nat \ {0}
    BY <2>1, ThreadCounts
  <2>3. QED
    BY <2>1, <2>2 DEF Overshoot, OvershootBounded
<1>2. QED
  BY CoreAlways, OvershootInit, OvershootInductive, <1>1, PTL DEF Spec

-----------------------------------------------------------------------------
(* Where an item can be: queued, ahead of the commit that detached it, or   *)
(* gone, into the table, refused or dropped.                               *)
Ahead(t) == {taken[t][n] : n \in Unreached(t)}
Gone == Stored \cup rejected \cup discarded
Linked == {item[t] : t \in {u \in Threads : pc[u] = "linked"}}

(* A thread holds an item of its own between its allocation and its count. *)
Held ==
  /\ \A t \in Threads :
       /\ pc[t] \in {"idle", "committing"} => item[t] = NoItem
       /\ item[t] \notin added
       /\ pc[t] # "committing" => taken[t] = <<>>
       /\ pc[t] = "linked" => Len(list) > 0 /\ list[Len(list)] = item[t]
  /\ \A t, u \in Threads : item[t] = item[u] /\ item[t] # NoItem => t = u
  /\ \A id \in SessionIds : sessions[id] # NoItem => SessionId[sessions[id]] = id
  /\ ~live => list = <<>>

(* No item is in two places, or twice in one.                              *)
Apart ==
  /\ \A m, n \in 1..Len(list) : list[m] = list[n] => m = n
  /\ \A t \in Threads :
       /\ \A m, n \in Unreached(t) : taken[t][m] = taken[t][n] => m = n
       /\ Ahead(t) \cap Elements(list) = {} /\ Ahead(t) \cap Gone = {}
       /\ \A u \in Threads \ {t} : Ahead(t) \cap Ahead(u) = {}
  /\ Elements(list) \cap Gone = {}
  /\ Stored \cap rejected = {} /\ (Stored \cup rejected) \cap discarded = {}

(* An item is in a place exactly when it was linked.                       *)
Placed ==
  added \cup Linked = Elements(list) \cup (UNION {Ahead(t) : t \in Threads}) \cup Gone

(* What a commit has passed is stored or refused, and its result tells.    *)
PassedBy(t) == {taken[t][n] : n \in {m \in DOMAIN taken[t] : m < pos[t]}}
Told ==
  \A t \in Threads : pc[t] = "committing" =>
    /\ PassedBy(t) \subseteq Stored \cup rejected
    /\ (result[t] = "SUCCESS") <=> PassedBy(t) \cap rejected = {}

Places == Held /\ Apart /\ Placed /\ Told

(* A step that moves no item between places.                               *)
LEMMA StillPlaced ==
  ASSUME Places, UNCHANGED <<list, taken, pos, result, sessions, rejected, discarded>>,
         added' \cup Linked' = added \cup Linked,
         \A t \in Threads : pc'[t] = "committing" => pc[t] = "committing"
  PROVE  Apart' /\ Placed' /\ Told'
<1>1. /\ Elements(list)' = Elements(list) /\ Stored' = Stored /\ Gone' = Gone
      /\ \A t \in Threads : Ahead(t)' = Ahead(t) /\ Unreached(t)' = Unreached(t)
      /\ \A t \in Threads : PassedBy(t)' = PassedBy(t)
  BY DEF Elements, Stored, Gone, Ahead, Unreached, PassedBy
<1>2. Apart' /\ Placed'
  BY <1>1 DEF Places, Apart, Placed
<1>3. Told'
  BY <1>1 DEF Places, Told
<1>4. QED
  BY <1>2, <1>3

(* An item taken again is nowhere, and nothing is told of it any more.     *)
LEMMA PlacesAllocate ==
  ASSUME Core, Places, NEW t \in Threads, AddAllocate(t)
  PROVE  Places'
<1>1. PICK i \in Items \ InUse :
        /\ item' = [item EXCEPT ![t] = i]
        /\ added' = added \ {i} /\ rejected' = rejected \ {i} /\ discarded' = discarded \ {i}
  BY DEF AddAllocate
<1>2. /\ pc \in [Threads -> Locations] /\ item \in [Threads -> Items \cup {NoItem}]
      /\ taken \in [Threads -> Seq(Items)] /\ i # NoItem /\ NoItem \notin added
      /\ pc[t] = "idle" /\ pc' = [pc EXCEPT ![t] = "allocated"]
      /\ UNCHANGED <<live, list, taken, pos, result, sessions>>
  BY ItemsAssumption DEF Core, TypeOK, AddAllocate
<1>3. /\ pc'[t] = "allocated" /\ item'[t] = i
      /\ \A u \in Threads \ {t} : pc'[u] = pc[u] /\ item'[u] = item[u]
  BY <1>1, <1>2
<1>4. /\ i \notin Elements(list) /\ i \notin Stored
      /\ \A u \in Threads : i \notin Elements(taken[u]) /\ item[u] # i
  BY DEF InUse
<1>5. \A u \in Threads : i \notin Ahead(u) /\ i \notin PassedBy(u)
  <2>1. \A u \in Threads : DOMAIN taken[u] = 1..Len(taken[u])
    BY <1>2
  <2>2. QED
    BY <1>4, <2>1 DEF Ahead, PassedBy, Unreached, Elements
<1>6. /\ Elements(list)' = Elements(list) /\ Stored' = Stored /\ Linked' = Linked
      /\ Gone' = Gone \ {i} /\ i \notin Linked
      /\ \A u \in Threads : /\ Ahead(u)' = Ahead(u) /\ Unreached(u)' = Unreached(u)
                            /\ PassedBy(u)' = PassedBy(u)
  <2>1. /\ Elements(list)' = Elements(list) /\ Stored' = Stored
        /\ \A u \in Threads : /\ Ahead(u)' = Ahead(u) /\ Unreached(u)' = Unreached(u)
                              /\ PassedBy(u)' = PassedBy(u)
    BY <1>2 DEF Elements, Stored, Ahead, Unreached, PassedBy
  <2>2. Linked' = Linked /\ i \notin Linked
    BY <1>2, <1>3, <1>4 DEF Linked
  <2>3. Gone' = Gone \ {i}
    BY <1>1, <1>4, <2>1 DEF Gone
  <2>4. QED
    BY <2>1, <2>2, <2>3
<1>7. Apart'
  BY <1>1, <1>2, <1>6 DEF Places, Apart
<1>8. Placed'
  <2>1. i \notin UNION {Ahead(u) : u \in Threads}
    BY <1>5
  <2>2. QED
    BY <1>1, <1>4, <1>6, <2>1 DEF Places, Placed
<1>9. Told'
  BY <1>1, <1>2, <1>3, <1>5, <1>6 DEF Places, Told
<1>10. Held'
  <2>1. ASSUME NEW u \in Threads
        PROVE  /\ pc'[u] \in {"idle", "committing"} => item'[u] = NoItem
               /\ item'[u] \notin added'
               /\ pc'[u] # "committing" => taken[u] = <<>>
               /\ pc'[u] = "linked" => Len(list) > 0 /\ list[Len(list)] = item'[u]
    BY <1>1, <1>2, <1>3 DEF Places, Held
  <2>2. ASSUME NEW u \in Threads, NEW v \in Threads, item'[u] = item'[v], item'[u] # NoItem
        PROVE  u = v
    BY <1>3, <1>4, <2>2 DEF Places, Held
  <2>3. QED
    BY <1>2, <2>1, <2>2 DEF Places, Held
<1>11. QED
  BY <1>7, <1>8, <1>9, <1>10 DEF Places

LEMMA PlacesAddQuiet ==
  ASSUME Core, Places, NEW t \in Threads, AddRefused(t) \/ AddChecked(t)
  PROVE  Places'
<1>1. /\ pc \in [Threads -> Locations] /\ item \in [Threads -> Items \cup {NoItem}]
      /\ UNCHANGED <<live, list, taken, pos, result, sessions, added, rejected, discarded>>
  BY DEF Core, TypeOK, AddRefused, AddChecked
<1>2. PICK l \in {"idle", "appending"} :
        /\ pc[t] = "allocated" /\ pc' = [pc EXCEPT ![t] = l]
        /\ \/ item' = item /\ l = "appending"
           \/ item' = [item EXCEPT ![t] = NoItem] /\ l = "idle"
  BY DEF AddRefused, AddChecked
<1>3. /\ pc'[t] = l /\ \A u \in Threads \ {t} : pc'[u] = pc[u] /\ item'[u] = item[u]
      /\ \/ item'[t] = item[t] /\ l = "appending"
         \/ item'[t] = NoItem /\ l = "idle"
  BY <1>1, <1>2
<1>4. Linked' = Linked
  BY <1>2, <1>3 DEF Linked
<1>5. Held'
  <2>1. ASSUME NEW u \in Threads
        PROVE  /\ pc'[u] \in {"idle", "committing"} => item'[u] = NoItem
               /\ item'[u] \notin added
               /\ pc'[u] # "committing" => taken[u] = <<>>
               /\ pc'[u] = "linked" => Len(list) > 0 /\ list[Len(list)] = item'[u]
    <3>1. NoItem \notin added
      BY ItemsAssumption DEF Core, TypeOK
    <3>2. QED
      BY <1>2, <1>3, <3>1 DEF Places, Held
  <2>2. ASSUME NEW u \in Threads, NEW v \in Threads, item'[u] = item'[v], item'[u] # NoItem
        PROVE  u = v
    BY <1>3, <2>2 DEF Places, Held
  <2>3. QED
    BY <1>1, <2>1, <2>2 DEF Places, Held
<1>6. QED
  BY <1>1, <1>2, <1>3, <1>4, <1>5, StillPlaced DEF Places

(* Waiting for the registry's lock and taking it moves no item.            *)
LEMMA PlacesLock ==
  ASSUME Places, NEW t \in Threads, CommitLock(t)
  PROVE  Places'
<1>1. UNCHANGED <<live, list, taken, pos, result, sessions, added, rejected, discarded, pc, item>>
  BY DEF CommitLock
<1>2. Linked' = Linked
  BY <1>1 DEF Linked
<1>3. Held'
  BY <1>1 DEF Places, Held
<1>4. QED
  BY <1>1, <1>2, <1>3, StillPlaced DEF Places

LEMMA PlacesAddCount ==
  ASSUME Core, Places, NEW t \in Threads, AddCount(t)
  PROVE  Places'
<1>1. /\ pc \in [Threads -> Locations] /\ item \in [Threads -> Items \cup {NoItem}]
      /\ pc[t] = "linked" /\ pc' = [pc EXCEPT ![t] = "idle"] /\ item' = [item EXCEPT ![t] = NoItem]
      /\ added' = added \cup {item[t]}
      /\ UNCHANGED <<live, list, taken, pos, result, sessions, rejected, discarded>>
  BY DEF Core, TypeOK, AddCount
<1>2. /\ pc'[t] = "idle" /\ item'[t] = NoItem /\ item[t] \in Items
      /\ \A u \in Threads \ {t} : pc'[u] = pc[u] /\ item'[u] = item[u]
  BY <1>1 DEF Core, Locking
<1>3. added' \cup Linked' = added \cup Linked
  BY <1>1, <1>2 DEF Linked
<1>4. Held'
  <2>1. ASSUME NEW u \in Threads
        PROVE  /\ pc'[u] \in {"idle", "committing"} => item'[u] = NoItem
               /\ item'[u] \notin added'
               /\ pc'[u] # "committing" => taken[u] = <<>>
               /\ pc'[u] = "linked" => Len(list) > 0 /\ list[Len(list)] = item'[u]
    <3>1. NoItem \notin added'
      BY <1>1, <1>2, ItemsAssumption DEF Core, TypeOK
    <3>2. QED
      BY <1>1, <1>2, <3>1, ItemsAssumption DEF Places, Held
  <2>2. QED
    BY <1>1, <1>2, <2>1 DEF Places, Held
<1>5. QED
  BY <1>1, <1>2, <1>3, <1>4, StillPlaced DEF Places

(* The item that is linked was in no place.                                *)
LEMMA PlacesAddLink ==
  ASSUME Core, Places, NEW t \in Threads, AddLink(t)
  PROVE  Places'
<1> DEFINE i == item[t]
           n == Len(list)
<1>1. /\ pc \in [Threads -> Locations] /\ list \in Seq(Items) /\ lock = NoThread
      /\ pc[t] = "appending" /\ pc' = [pc EXCEPT ![t] = "linked"] /\ list' = Append(list, i)
      /\ UNCHANGED <<live, item, taken, pos, result, sessions, added, rejected, discarded>>
  BY DEF Core, TypeOK, AddLink
<1>2. /\ pc'[t] = "linked" /\ i \in Items /\ live
      /\ \A u \in Threads \ {t} : pc'[u] = pc[u]
  BY <1>1 DEF Core, Locking, Quiescent
<1>3. /\ n \in Nat /\ Len(list') = n + 1 /\ list'[n + 1] = i
      /\ \A m \in 1..n : list'[m] = list[m]
  BY <1>1, <1>2
<1>4. \A u \in Threads : pc[u] # "linked"
  BY <1>1, ThreadsAssumption DEF Core, Locking
<1>5. Linked = {} /\ Linked' = {i}
  BY <1>1, <1>2, <1>4 DEF Linked
<1>6. i \notin added \cup Linked
  BY <1>5 DEF Places, Held
<1>7. /\ i \notin Elements(list) /\ i \notin Gone
      /\ \A u \in Threads : i \notin Ahead(u)
  BY <1>6 DEF Places, Placed
<1>8. Elements(list)' = Elements(list) \cup {i}
  <2>1. Elements(list)' = {list'[m] : m \in 1..n + 1}
    BY <1>3 DEF Elements
  <2>2. 1..n + 1 = 1..n \cup {n + 1}
    BY <1>3
  <2>3. QED
    BY <1>3, <2>1, <2>2 DEF Elements
<1>9. /\ Stored' = Stored /\ Gone' = Gone
      /\ \A u \in Threads : Ahead(u)' = Ahead(u) /\ Unreached(u)' = Unreached(u)
      /\ \A u \in Threads : PassedBy(u)' = PassedBy(u)
  BY <1>1 DEF Stored, Gone, Ahead, Unreached, PassedBy
<1>10. Apart'
  <2>1. ASSUME NEW m \in 1..n + 1, NEW k \in 1..n + 1, list'[m] = list'[k]
        PROVE  m = k
    <3>1. \A x \in 1..n : list'[x] # i
      BY <1>3, <1>7 DEF Elements
    <3>2. \A x \in 1..n + 1 : x \in 1..n \/ x = n + 1
      BY <1>3
    <3>3. QED
      BY <1>3, <2>1, <3>1, <3>2 DEF Places, Apart
  <2>2. QED
    BY <1>1, <1>3, <1>7, <1>8, <1>9, <2>1 DEF Places, Apart
<1>11. Placed'
  BY <1>1, <1>5, <1>8, <1>9 DEF Places, Placed
<1>12. Told'
  BY <1>1, <1>2, <1>9 DEF Places, Told
<1>13. Held'
  <2>1. \A u \in Threads : pc'[u] = "linked" => u = t
    BY <1>2, <1>4
  <2>2. QED
    BY <1>1, <1>2, <1>3, <2>1 DEF Places, Held
<1>14. QED
  BY <1>10, <1>11, <1>12, <1>13 DEF Places

(* What a commit detaches lies ahead of it, all of it.                      *)
LEMMA PlacesDetach ==
  ASSUME Core, Places, NEW t \in Threads, CommitDetach(t)
  PROVE  Places'
<1>1. /\ pc \in [Threads -> Locations] /\ list \in Seq(Items) /\ lock = NoThread
      /\ taken \in [Threads -> Seq(Items)] /\ pos \in [Threads -> Nat \ {0}]
      /\ result \in [Threads -> Codes]
      /\ pc[t] = "idle" /\ pc' = [pc EXCEPT ![t] = "committing"]
      /\ taken' = [taken EXCEPT ![t] = list] /\ list' = <<>>
      /\ pos' = [pos EXCEPT ![t] = 1] /\ result' = [result EXCEPT ![t] = "SUCCESS"]
      /\ UNCHANGED <<live, item, sessions, added, rejected, discarded>>
  BY DEF Core, TypeOK, CommitDetach
<1>2. /\ pc'[t] = "committing" /\ taken'[t] = list /\ pos'[t] = 1 /\ result'[t] = "SUCCESS"
      /\ \A u \in Threads \ {t} : /\ pc'[u] = pc[u] /\ taken'[u] = taken[u]
                                 /\ pos'[u] = pos[u] /\ result'[u] = result[u]
  BY <1>1
<1>3. \A u \in Threads : pc[u] # "linked" /\ pc'[u] # "linked"
  BY <1>1, <1>2, ThreadsAssumption DEF Core, Locking
<1>4. Linked = {} /\ Linked' = {}
  BY <1>3 DEF Linked
<1>5. Elements(list)' = {} /\ Len(list') = 0 /\ DOMAIN list = 1..Len(list)
  BY <1>1 DEF Elements
<1>6. Ahead(t) = {}
  BY <1>1 DEF Places, Held, Ahead, Unreached
<1>7. Unreached(t)' = 1..Len(list) /\ Ahead(t)' = Elements(list) /\ PassedBy(t)' = {}
  <2>1. Unreached(t)' = 1..Len(list)
    BY <1>2, <1>5 DEF Unreached
  <2>2. Ahead(t)' = Elements(list)
    BY <1>2, <2>1 DEF Ahead, Elements
  <2>3. PassedBy(t)' = {}
    BY <1>2, <1>5 DEF PassedBy
  <2>4. QED
    BY <2>1, <2>2, <2>3
<1>8. /\ Stored' = Stored /\ Gone' = Gone
      /\ \A u \in Threads \ {t} : /\ Ahead(u)' = Ahead(u) /\ Unreached(u)' = Unreached(u)
                                 /\ PassedBy(u)' = PassedBy(u)
  BY <1>1, <1>2 DEF Stored, Gone, Ahead, Unreached, PassedBy
<1>9. Apart'
  BY <1>1, <1>2, <1>5, <1>7, <1>8 DEF Places, Apart
<1>10. Placed'
  <2>1. UNION {Ahead(u)' : u \in Threads}
          = Elements(list) \cup (UNION {Ahead(u) : u \in Threads})
    BY <1>6, <1>7, <1>8
  <2>2. QED
    BY <1>1, <1>4, <1>5, <1>8, <2>1 DEF Places, Placed
<1>11. Told'
  BY <1>1, <1>2, <1>7, <1>8 DEF Places, Told
<1>12. Held'
  BY <1>1, <1>2, <1>3 DEF Places, Held
<1>13. QED
  BY <1>9, <1>10, <1>11, <1>12 DEF Places

(* A commit passes one item: it is stored or refused from then on.          *)
LEMMA PlacesPass ==
  ASSUME Core, Places, NEW t \in Threads, NEW i, pc[t] = "committing", pos[t] <= Len(taken[t]),
         i = taken[t][pos[t]], pos' = [pos EXCEPT ![t] = pos[t] + 1],
         UNCHANGED <<live, list, pc, item, taken, added, discarded>>,
         result' \in [Threads -> Codes], \A u \in Threads \ {t} : result'[u] = result[u],
         \/ /\ Stored' = Stored \cup {i} /\ rejected' = rejected /\ result'[t] = result[t]
         \/ /\ Stored' = Stored /\ rejected' = rejected \cup {i}
            /\ result'[t] = "DB_QUERY_FAILED"
  PROVE  Apart' /\ Placed' /\ Told'
<1> DEFINE p == pos[t]
<1>1. /\ taken[t] \in Seq(Items) /\ pos \in [Threads -> Nat \ {0}] /\ result \in [Threads -> Codes]
      /\ p \in Nat \ {0} /\ p \in 1..Len(taken[t]) /\ DOMAIN taken[t] = 1..Len(taken[t])
  BY DEF Core, TypeOK
<1>2. pos'[t] = p + 1 /\ \A u \in Threads \ {t} : pos'[u] = pos[u]
  BY <1>1
<1>3. /\ Unreached(t) = Unreached(t)' \cup {p} /\ p \notin Unreached(t)'
      /\ \A n \in DOMAIN taken[t] : n < p + 1 <=> n < p \/ n = p
  BY <1>1, <1>2 DEF Unreached
<1>4. i \in Ahead(t) /\ Ahead(t)' = Ahead(t) \ {i} /\ PassedBy(t)' = PassedBy(t) \cup {i}
  <2>1. i \in Ahead(t)
    BY <1>3 DEF Ahead
  <2>2. \A n \in Unreached(t)' : taken[t][n] # i
    BY <1>3 DEF Places, Apart
  <2>3. Ahead(t)' = Ahead(t) \ {i}
    BY <1>3, <2>2 DEF Ahead
  <2>4. PassedBy(t)' = PassedBy(t) \cup {i}
    BY <1>1, <1>2, <1>3 DEF PassedBy
  <2>5. QED
    BY <2>1, <2>3, <2>4
<1>5. /\ Elements(list)' = Elements(list) /\ Linked' = Linked
      /\ \A u \in Threads \ {t} : /\ Ahead(u)' = Ahead(u) /\ Unreached(u)' = Unreached(u)
                                 /\ PassedBy(u)' = PassedBy(u)
  BY <1>2 DEF Elements, Linked, Ahead, Unreached, PassedBy
<1>6. Gone' = Gone \cup {i}
  BY DEF Gone
<1>7. /\ i \notin Gone /\ i \notin Elements(list)
      /\ \A u \in Threads \ {t} : i \notin Ahead(u)
  BY <1>4 DEF Places, Apart
<1>8. Apart'
  <2>1. \A u \in Threads : \A m, n \in Unreached(u)' : taken'[u][m] = taken'[u][n] => m = n
    BY <1>3, <1>5 DEF Places, Apart
  <2>2. \A u \in Threads : /\ Ahead(u)' \cap Elements(list)' = {} /\ Ahead(u)' \cap Gone' = {}
                           /\ \A v \in Threads \ {u} : Ahead(u)' \cap Ahead(v)' = {}
    BY <1>4, <1>5, <1>6, <1>7 DEF Places, Apart
  <2>3. /\ Elements(list)' \cap Gone' = {}
        /\ Stored' \cap rejected' = {} /\ (Stored' \cup rejected') \cap discarded' = {}
    BY <1>5, <1>6, <1>7 DEF Places, Apart, Gone
  <2>4. QED
    BY <2>1, <2>2, <2>3 DEF Places, Apart
<1>9. Placed'
  <2>1. (UNION {Ahead(u)' : u \in Threads}) \cup Gone'
          = (UNION {Ahead(u) : u \in Threads}) \cup Gone
    BY <1>4, <1>5, <1>6
  <2>2. QED
    BY <1>5, <2>1 DEF Places, Placed
<1>10. Told'
  <2>1. ASSUME NEW u \in Threads \ {t}, pc[u] = "committing"
        PROVE  /\ PassedBy(u)' \subseteq Stored' \cup rejected'
               /\ (result'[u] = "SUCCESS") <=> PassedBy(u)' \cap rejected' = {}
    <3>1. /\ PassedBy(u) \subseteq Stored \cup rejected
          /\ (result[u] = "SUCCESS") <=> PassedBy(u) \cap rejected = {}
      BY <2>1 DEF Places, Told
    <3>2. i \notin PassedBy(u)
      BY <1>7, <3>1 DEF Gone
    <3>3. QED
      BY <1>5, <3>1, <3>2
  <2>2. /\ PassedBy(t)' \subseteq Stored' \cup rejected'
        /\ (result'[t] = "SUCCESS") <=> PassedBy(t)' \cap rejected' = {}
    <3>1. /\ PassedBy(t) \subseteq Stored \cup rejected
          /\ (result[t] = "SUCCESS") <=> PassedBy(t) \cap rejected = {}
      BY DEF Places, Told
    <3>2. i \notin rejected
      BY <1>7 DEF Gone
    <3>3. QED
      BY <1>4, <3>1, <3>2
  <2>3. QED
    BY <2>1, <2>2 DEF Told
<1>11. QED
  BY <1>8, <1>9, <1>10

LEMMA PlacesCommit ==
  ASSUME Core, Walking, Places, NEW t \in Threads, CommitStore(t) \/ CommitReject(t)
  PROVE  Places'
<1>1. PICK i : i = taken[t][pos[t]]
  OBVIOUS
<1>2. /\ pc[t] = "committing" /\ pos[t] <= Len(taken[t]) /\ pos' = [pos EXCEPT ![t] = pos[t] + 1]
      /\ UNCHANGED <<live, list, pc, item, taken, added, discarded>>
  BY DEF CommitStore, CommitReject, Walking
<1>3. i \in Items /\ i # NoItem
  BY <1>1, <1>2, ItemsAssumption DEF Core, TypeOK
<1>4. /\ sessions \in [SessionIds -> Items \cup {NoItem}] /\ SessionId[i] \in SessionIds
      /\ result \in [Threads -> Codes]
  BY <1>3, ItemsAssumption DEF Core, TypeOK
<1>5. /\ \/ /\ sessions[SessionId[i]] = NoItem /\ sessions' = [sessions EXCEPT ![SessionId[i]] = i]
            /\ rejected' = rejected /\ result' = result
         \/ /\ sessions' = sessions /\ rejected' = rejected \cup {i}
            /\ result' = [result EXCEPT ![t] = "DB_QUERY_FAILED"]
  BY <1>1 DEF CommitStore, CommitReject
<1>6. \/ /\ Stored' = Stored \cup {i} /\ rejected' = rejected /\ result'[t] = result[t]
      \/ /\ Stored' = Stored /\ rejected' = rejected \cup {i} /\ result'[t] = "DB_QUERY_FAILED"
  <2>1. CASE sessions[SessionId[i]] = NoItem /\ sessions' = [sessions EXCEPT ![SessionId[i]] = i]
             /\ rejected' = rejected /\ result' = result
    <3>1. /\ sessions'[SessionId[i]] = i
          /\ \A id \in SessionIds \ {SessionId[i]} : sessions'[id] = sessions[id]
      BY <1>4, <2>1
    <3>2. Stored' = Stored \cup {i}
      BY <1>3, <1>4, <2>1, <3>1 DEF Stored
    <3>3. QED
      BY <2>1, <3>2
  <2>2. CASE sessions' = sessions /\ rejected' = rejected \cup {i}
             /\ result' = [result EXCEPT ![t] = "DB_QUERY_FAILED"]
    BY <1>4, <2>2 DEF Stored
  <2>3. QED
    BY <1>5, <2>1, <2>2
<1>7. /\ result' \in [Threads -> Codes]
      /\ \A u \in Threads \ {t} : result'[u] = result[u]
  BY <1>4, <1>5 DEF Codes
<1>8. Apart' /\ Placed' /\ Told'
  BY <1>1, <1>2, <1>6, <1>7, PlacesPass
<1>9. \A id \in SessionIds : sessions'[id] # NoItem => SessionId[sessions'[id]] = id
  BY <1>4, <1>5 DEF Places, Held
<1>10. Held'
  BY <1>2, <1>9 DEF Places, Held
<1>11. QED
  BY <1>8, <1>10 DEF Places

LEMMA PlacesReturn ==
  ASSUME Core, Places, NEW t \in Threads, CommitReturn(t)
  PROVE  Places'
<1>1. /\ taken \in [Threads -> Seq(Items)] /\ pos \in [Threads -> Nat \ {0}]
      /\ pc \in [Threads -> Locations]
      /\ pc[t] = "committing" /\ pos[t] > Len(taken[t]) /\ pc' = [pc EXCEPT ![t] = "idle"]
      /\ taken' = [taken EXCEPT ![t] = <<>>] /\ pos' = [pos EXCEPT ![t] = 1]
      /\ UNCHANGED <<live, list, item, result, sessions, added, rejected, discarded>>
  BY DEF Core, TypeOK, CommitReturn
<1>2. /\ pc'[t] = "idle" /\ taken'[t] = <<>>
      /\ \A u \in Threads \ {t} : pc'[u] = pc[u] /\ taken'[u] = taken[u] /\ pos'[u] = pos[u]
  BY <1>1
<1>3. Unreached(t) = {} /\ Unreached(t)' = {} /\ Ahead(t) = {} /\ Ahead(t)' = {}
  <2>1. DOMAIN taken[t] = 1..Len(taken[t]) /\ pos[t] \in Nat /\ Len(taken[t]) \in Nat
    BY <1>1
  <2>2. Unreached(t) = {} /\ Unreached(t)' = {}
    BY <1>1, <1>2, <2>1 DEF Unreached
  <2>3. QED
    BY <2>2 DEF Ahead
<1>4. /\ Elements(list)' = Elements(list) /\ Stored' = Stored /\ Gone' = Gone /\ Linked' = Linked
      /\ \A u \in Threads : Ahead(u)' = Ahead(u) /\ Unreached(u)' = Unreached(u)
      /\ \A u \in Threads \ {t} : PassedBy(u)' = PassedBy(u)
  BY <1>1, <1>2, <1>3 DEF Elements, Stored, Gone, Linked, Ahead, Unreached, PassedBy
<1>5. Apart' /\ Placed'
  <2>1. \A u \in Threads : \A m, n \in Unreached(u)' : taken'[u][m] = taken'[u][n] => m = n
    BY <1>2, <1>3, <1>4 DEF Places, Apart
  <2>2. QED
    BY <1>1, <1>4, <2>1 DEF Places, Apart, Placed
<1>6. Told'
  BY <1>1, <1>2, <1>4 DEF Places, Told
<1>7. Held'
  BY <1>1, <1>2 DEF Places, Held
<1>8. QED
  BY <1>5, <1>6, <1>7 DEF Places

(* The owner's calls: a context begins empty, and its destruction drops     *)
(* what is queued.                                                         *)
LEMMA PlacesContext ==
  ASSUME Core, Places, BatchBegin \/ Destroy
  PROVE  Places'
<1>1. /\ list' = <<>> /\ Quiescent
      /\ UNCHANGED <<pc, item, taken, pos, result, sessions, added, rejected>>
  BY DEF BatchBegin, Destroy, Core, Locking
<1>2. /\ Stored' = Stored /\ Linked' = Linked /\ Elements(list)' = {} /\ Elements(<<>>) = {}
      /\ \A u \in Threads : /\ Ahead(u)' = Ahead(u) /\ Unreached(u)' = Unreached(u)
                           /\ Ahead(u) = {} /\ PassedBy(u)' = PassedBy(u)
  BY <1>1 DEF Stored, Linked, Elements, Ahead, Unreached, PassedBy, Quiescent, Places, Held
<1>3. discarded' = discarded \cup Elements(list)
  <2>1. CASE BatchBegin
    BY <1>2, <2>1 DEF BatchBegin, Places, Held
  <2>2. CASE Destroy
    BY <2>2 DEF Destroy
  <2>3. QED
    BY <2>1, <2>2
<1>4. Gone' = Gone \cup Elements(list)
  BY <1>1, <1>2, <1>3 DEF Gone
<1>5. Apart'
  <2>1. \A u \in Threads : \A m, n \in Unreached(u)' : taken'[u][m] = taken'[u][n] => m = n
    BY <1>1, <1>2 DEF Places, Apart
  <2>2. /\ Stored' \cap rejected' = {} /\ (Stored' \cup rejected') \cap discarded' = {}
    BY <1>1, <1>2, <1>3 DEF Places, Apart, Gone
  <2>3. Len(list') = 0
    BY <1>1
  <2>4. QED
    BY <1>2, <2>1, <2>2, <2>3 DEF Places, Apart
<1>6. Placed'
  BY <1>1, <1>2, <1>4 DEF Places, Placed
<1>7. Told' /\ Held'
  BY <1>1, <1>2 DEF Places, Told, Held, Quiescent
<1>8. QED
  BY <1>5, <1>6, <1>7 DEF Places

LEMMA PlacesInit ==
  ASSUME Init
  PROVE  Places
<1>1. /\ Stored = {} /\ Linked = {} /\ Elements(list) = {} /\ Gone = {}
      /\ \A u \in Threads : Ahead(u) = {} /\ Unreached(u) = {}
  BY DEF Init, Stored, Linked, Elements, Ahead, Unreached, Gone
<1>2. Apart /\ Placed
  BY <1>1 DEF Init, Apart, Placed
<1>3. Told /\ Held
  BY DEF Init, Told, Held
<1>4. QED
  BY <1>2, <1>3 DEF Places

LEMMA PlacesInductive ==
  ASSUME Core, Walking, Places, [Next]_vars
  PROVE  Places'
<1>1. CASE UNCHANGED vars
  <2>1. UNCHANGED <<live, list, taken, pos, result, sessions, added, rejected, discarded, pc, item>>
    BY <1>1 DEF vars
  <2>2. Linked' = Linked
    BY <2>1 DEF Linked
  <2>3. Held'
    BY <2>1 DEF Places, Held
  <2>4. QED
    BY <2>1, <2>2, <2>3, StillPlaced DEF Places
<1>2. QED
  BY <1>1, PlacesContext, PlacesAllocate, PlacesAddQuiet, PlacesAddLink, PlacesAddCount,
     PlacesDetach, PlacesLock, PlacesCommit, PlacesReturn DEF Next, Add, CommitStep, CommitRun

(* A set of one element at most.                                           *)
LEMMA AtMostOne ==
  ASSUME NEW S, \A x, y \in S : x = y
  PROVE  Cardinality(S) = IF S = {} THEN 0 ELSE 1
<1>1. CASE S = {}
  BY <1>1, FS_EmptySet
<1>2. CASE S # {}
  <2>1. PICK x \in S : S = {x}
    BY <1>2
  <2>2. QED
    BY <2>1, FS_Singleton
<1>3. QED
  BY <1>1, <1>2

LEMMA PlacesCount ==
  ASSUME Core, Places
  PROVE  ExactlyOnePlace
<1>1. SUFFICES ASSUME NEW i \in added
               PROVE  Cardinality({n \in DOMAIN list : list[n] = i})
                        + Cardinality({p \in Threads \X UNION {DOMAIN taken[t] : t \in Threads} :
                                         p[2] \in Unreached(p[1]) /\ taken[p[1]][p[2]] = i})
                        + Cardinality({id \in SessionIds : sessions[id] = i})
                        + (IF i \in rejected THEN 1 ELSE 0)
                        + (IF i \in discarded THEN 1 ELSE 0) = 1
  BY DEF ExactlyOnePlace
<1> DEFINE Q == {n \in DOMAIN list : list[n] = i}
           D == {p \in Threads \X UNION {DOMAIN taken[t] : t \in Threads} :
                   p[2] \in Unreached(p[1]) /\ taken[p[1]][p[2]] = i}
           S == {id \in SessionIds : sessions[id] = i}
<1>2. i \in Items /\ i # NoItem /\ DOMAIN list = 1..Len(list)
  BY <1>1, ItemsAssumption DEF Core, TypeOK
<1>3. Cardinality(Q) = IF i \in Elements(list) THEN 1 ELSE 0
  <2>1. \A x, y \in Q : x = y
    BY <1>2 DEF Places, Apart
  <2>2. Q = {} <=> i \notin Elements(list)
    BY <1>2 DEF Elements
  <2>3. QED
    BY <2>1, <2>2, AtMostOne
<1>4. Cardinality(D) = IF \E t \in Threads : i \in Ahead(t) THEN 1 ELSE 0
  <2>1. ASSUME NEW p \in D, NEW q \in D
        PROVE  p = q
    <3>1. /\ p[1] \in Threads /\ q[1] \in Threads /\ p = <<p[1], p[2]>> /\ q = <<q[1], q[2]>>
          /\ p[2] \in Unreached(p[1]) /\ q[2] \in Unreached(q[1])
          /\ taken[p[1]][p[2]] = i /\ taken[q[1]][q[2]] = i
      OBVIOUS
    <3>2. p[1] = q[1]
      BY <3>1 DEF Places, Apart, Ahead
    <3>3. p[2] = q[2]
      BY <3>1, <3>2 DEF Places, Apart
    <3>4. QED
      BY <3>1, <3>2, <3>3
  <2>2. D = {} <=> ~ \E t \in Threads : i \in Ahead(t)
    <3>1. ASSUME NEW t \in Threads, i \in Ahead(t)
          PROVE  D # {}
      <4>1. PICK n \in Unreached(t) : taken[t][n] = i
        BY <3>1 DEF Ahead
      <4>2. n \in DOMAIN taken[t]
        BY DEF Unreached
      <4>3. <<t, n>> \in D
        BY <4>1, <4>2
      <4>4. QED
        BY <4>3
    <3>2. ASSUME NEW p \in D
          PROVE  \E t \in Threads : i \in Ahead(t)
      BY DEF Ahead
    <3>3. QED
      BY <3>1, <3>2
  <2>3. QED
    BY <2>1, <2>2, AtMostOne
<1>5. Cardinality(S) = IF i \in Stored THEN 1 ELSE 0
  <2>1. \A x, y \in S : x = y
    BY <1>2 DEF Places, Held
  <2>2. S = {} <=> i \notin Stored
    BY <1>2 DEF Stored
  <2>3. QED
    BY <2>1, <2>2, AtMostOne
<1>6. /\ \/ i \in Elements(list) \/ \E t \in Threads : i \in Ahead(t)
         \/ i \in Stored \/ i \in rejected \/ i \in discarded
      /\ ~(i \in Elements(list) /\ \E t \in Threads : i \in Ahead(t))
      /\ i \in Elements(list) => i \notin Stored /\ i \notin rejected /\ i \notin discarded
      /\ (\E t \in Threads : i \in Ahead(t))
           => i \notin Stored /\ i \notin rejected /\ i \notin discarded
      /\ i \in Stored => i \notin rejected /\ i \notin discarded
      /\ i \in rejected => i \notin discarded
  BY <1>1 DEF Places, Placed, Apart, Gone
<1> HIDE DEF Q, D, S
<1>7. Cardinality(Q) + Cardinality(D) + Cardinality(S)
        + (IF i \in rejected THEN 1 ELSE 0) + (IF i \in discarded THEN 1 ELSE 0) = 1
  BY <1>3, <1>4, <1>5, <1>6
<1>8. QED
  BY <1>7 DEF Q, D, S

(* An item whose add returned SUCCESS is in exactly one place, whatever     *)
(* adds and commits overlap: heapstore_batch_commit takes the list as a    *)
(* whole under the lock, and no two commits walk the same item.            *)
THEOREM ItemsHaveOnePlace == Spec => []ExactlyOnePlace
<1>1. Init => Places
  BY PlacesInit
<1>2. Core /\ Walking /\ Places /\ [Next]_vars => Places'
  BY PlacesInductive
<1>3. Core /\ Places => ExactlyOnePlace
  BY PlacesCount
<1>4. QED
  BY CoreAlways, <1>1, <1>2, <1>3, PTL DEF Spec

(* The answer of heapstore_batch_commit is true: it tried every record it   *)
(* detached, and SUCCESS means that each of them is stored.                *)
THEOREM CommitsTellTheTruth == Spec => CommitTruthful
<1> DEFINE Truthful(t) == pc[t] = "committing" /\ pc'[t] = "idle" =>
             /\ Elements(taken[t]) \subseteq Stored \cup rejected
             /\ (result[t] = "SUCCESS") <=> Elements(taken[t]) \cap rejected = {}
<1>1. ASSUME Core, Places, [Next]_vars, NEW t \in Threads
      PROVE  Truthful(t)
  <2>1. SUFFICES ASSUME pc[t] = "committing", pc'[t] = "idle"
                 PROVE  CommitReturn(t)
    <3>1. ASSUME pc[t] = "committing", CommitReturn(t)
          PROVE  Elements(taken[t]) = PassedBy(t)
      <4>1. /\ DOMAIN taken[t] = 1..Len(taken[t]) /\ pos[t] \in Nat /\ pos[t] > Len(taken[t])
            /\ Len(taken[t]) \in Nat
        BY <1>1, <3>1 DEF CommitReturn, Core, TypeOK
      <4>2. {m \in DOMAIN taken[t] : m < pos[t]} = 1..Len(taken[t])
        BY <4>1
      <4>3. QED
        BY <4>2 DEF Elements, PassedBy
    <3>2. QED
      BY <1>1, <3>1 DEF Places, Told
  <2>2. pc \in [Threads -> Locations]
    BY <1>1 DEF Core, TypeOK
  <2>3. CASE BatchBegin \/ Destroy \/ UNCHANGED vars
    BY <2>1, <2>3 DEF BatchBegin, Destroy, vars
  <2>4. ASSUME NEW u \in Threads, Add(u) \/ CommitDetach(u) \/ CommitStep(u)
        PROVE  CommitReturn(t)
    <3>1. CASE CommitReturn(u)
      BY <2>1, <2>2, <3>1 DEF CommitReturn
    <3>2. CASE CommitLock(u) \/ CommitStore(u) \/ CommitReject(u)
      BY <2>1, <3>2 DEF CommitLock, CommitStore, CommitReject
    <3>3. CASE Add(u) \/ CommitDetach(u)
      <4>1. pc[u] # "committing" /\ \E l : pc' = [pc EXCEPT ![u] = l]
        BY <3>3 DEF Add, AddAllocate, AddRefused, AddChecked, AddLink, AddCount, CommitDetach
      <4>2. QED
        BY <2>1, <2>2, <4>1
    <3>4. QED
      BY <2>4, <3>1, <3>2, <3>3 DEF CommitStep, CommitRun
  <2>5. QED
    BY <1>1, <2>3, <2>4 DEF Next
<1>2. Core /\ Places /\ [Next]_vars => [\A t \in Threads : Truthful(t)]_vars
  BY <1>1
<1>3. [\A t \in Threads : Truthful(t)]_vars
        => [\A t \in Threads :
              pc[t] = "committing" /\ pc'[t] = "idle" =>
                /\ Elements(taken[t]) \subseteq Stored \cup rejected
                /\ result[t] = "SUCCESS" <=> Elements(taken[t]) \cap rejected = {}]_vars
  OBVIOUS
<1>4. Init => Places
  BY PlacesInit
<1>5. Core /\ Walking /\ Places /\ [Next]_vars => Places'
  BY PlacesInductive
<1> HIDE DEF Truthful
<1>6. QED
  BY CoreAlways, <1>2, <1>3, <1>4, <1>5, PTL DEF Spec, CommitTruthful

=============================================================================
