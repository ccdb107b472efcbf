------------------------ MODULE HeapstoreCircuitProofs ------------------------
(***************************************************************************)
(* The breaker follows the configuration it mirrors, and the counters add  *)
(* up however updates, resets and trips of several threads interleave: for *)
(* every set of threads and configurations and every bound.                *)
(***************************************************************************)
EXTENDS HeapstoreCircuit, FiniteSetTheorems, TLAPS

Locations ==
  {"idle", "admitted", "record", "failing", "rejected", "fail", "reset", "trip"}
    \cup Updating

ABreaker ==
  [state : {"CLOSED", "OPEN", "HALF_OPEN"}, failures : Nat, since : Nat, probes : Nat,
   successes : Nat, threshold : Nat \ {0}, timeout : Nat \ {0}]

ACall == [slow : BOOLEAN, failed : BOOLEAN, ops : Int, peak : Int, stores : 0..6]

AMetrics ==
  [total : Int, failed : Int, fast : Int, slow : Int, trips : Int, peak : Int,
   current : Int]

(* The types; the counters are not bounded here, for TLC bounds them only  *)
(* to stay finite.                                                         *)
Types ==
  /\ s_cb # NoBreaker => s_cb \in ABreaker
  /\ mirror \in Configs
  /\ s_metrics \in AMetrics
  /\ clock \in Nat
  /\ pc \in [Threads -> Locations]
  /\ call \in [Threads -> ACall]
  /\ opens \in Int /\ seen \in Int /\ overlapped \in BOOLEAN

(* A thread in the loop of the compare-and-swap has seen a lower peak than *)
(* its own, and one in a reset has a store to make.                        *)
Operands ==
  \A t \in Threads :
    /\ pc[t] = "swap" => call[t].ops > call[t].peak
    /\ pc[t] = "reset" => call[t].stores # 0

(* A reset that overlapped no update is alone, nothing is counted and not  *)
(* yet in a path, and the counters it has passed are zero.                 *)
Resetting ==
  ~overlapped =>
    \A t \in Threads : pc[t] = "reset" =>
      /\ \A u \in Threads : pc[u] \notin Counted /\ (pc[u] = "reset" => u = t)
      /\ call[t].stores > 1 => s_metrics.total = 0
      /\ call[t].stores > 3 => s_metrics.fast = 0
      /\ call[t].stores > 4 => s_metrics.slow = 0

IInv ==
  /\ Types /\ Operands /\ Resetting
  /\ ConfigInForce /\ TripsCounted /\ ConcurrentOpsMatch /\ PeakSeen /\ TotalsAgree

-----------------------------------------------------------------------------
(* How many threads are at one of these locations.                         *)
Count(p, S) == Cardinality({u \in Threads : p[u] \in S})

(* The count follows the one thread that moves.                            *)
LEMMA CountFollows ==
  ASSUME NEW S, NEW t \in Threads,
         \A u \in Threads : u # t => pc'[u] = pc[u]
  PROVE  /\ Count(pc, S) \in Nat /\ Count(pc', S) \in Nat
         /\ (pc[t] \in S <=> pc'[t] \in S) => Count(pc', S) = Count(pc, S)
         /\ pc[t] \notin S /\ pc'[t] \in S => Count(pc', S) = Count(pc, S) + 1
         /\ pc[t] \in S /\ pc'[t] \notin S => Count(pc', S) = Count(pc, S) - 1
<1> DEFINE P == {u \in Threads : pc[u] \in S}
           Q == {u \in Threads : pc'[u] \in S}
<1>1. IsFiniteSet(P) /\ IsFiniteSet(Q)
  <2>1. IsFiniteSet(Threads)
    BY ConfigsAssumption
  <2>2. P \subseteq Threads /\ Q \subseteq Threads
    OBVIOUS
  <2>3. QED
    BY <2>1, <2>2, FS_Subset
<1>2. Cardinality(P) \in Nat /\ Cardinality(Q) \in Nat
  BY <1>1, FS_CardinalityType
<1>3. CASE pc[t] \in S <=> pc'[t] \in S
  <2>1. P = Q
    BY <1>3
  <2>2. QED
    BY <1>2, <1>3, <2>1 DEF Count
<1>4. CASE pc[t] \notin S /\ pc'[t] \in S
  <2>1. Q = P \cup {t} /\ t \notin P
    BY <1>4
  <2>2. Cardinality(Q) = Cardinality(P) + 1
    BY <1>1, <2>1, FS_AddElement
  <2>3. QED
    BY <1>2, <1>4, <2>2 DEF Count
<1>5. CASE pc[t] \in S /\ pc'[t] \notin S
  <2>1. Q = P \ {t} /\ t \in P
    BY <1>5
  <2>2. Cardinality(Q) = Cardinality(P) - 1
    BY <1>1, <2>1, FS_RemoveElement
  <2>3. QED
    BY <1>2, <1>5, <2>2 DEF Count
<1>6. QED
  BY <1>3, <1>4, <1>5

LEMMA CountNobody ==
  ASSUME NEW p, NEW S, \A u \in Threads : p[u] \notin S
  PROVE  Count(p, S) = 0
<1>1. {u \in Threads : p[u] \in S} = {}
  OBVIOUS
<1>2. QED
  BY <1>1, FS_EmptySet DEF Count

(* The counters that the invariants speak of, as counts.                   *)
LEMMA CountsAre ==
  /\ Noting = Count(pc, {"trip"}) /\ Noting' = Count(pc', {"trip"})
  /\ Cardinality({t \in Threads : pc[t] \in Concurrent}) = Count(pc, Concurrent)
  /\ Cardinality({t \in Threads : pc'[t] \in Concurrent}) = Count(pc', Concurrent)
  /\ Cardinality({t \in Threads : pc[t] \in Counted}) = Count(pc, Counted)
  /\ Cardinality({t \in Threads : pc'[t] \in Counted}) = Count(pc', Counted)
<1>1. /\ {t \in Threads : pc[t] = "trip"} = {t \in Threads : pc[t] \in {"trip"}}
      /\ {t \in Threads : pc'[t] = "trip"} = {t \in Threads : pc'[t] \in {"trip"}}
  OBVIOUS
<1>2. QED
  BY <1>1 DEF Noting, Count

-----------------------------------------------------------------------------
(* The breakers the adapter makes and the library returns. *)
LEMMA Breakers_New ==
  ASSUME NEW c \in Configs
  PROVE  /\ NewBreaker(c) \in ABreaker
         /\ NewBreaker(c).threshold = c.threshold /\ NewBreaker(c).timeout = c.timeout
         /\ NewBreaker(c).state = "CLOSED" /\ NewBreaker(c).failures = 0
         /\ c.threshold \in Nat \ {0}
         /\ [threshold |-> NewBreaker(c).threshold, timeout |-> NewBreaker(c).timeout] = c
<1>1. c \in [threshold : Nat \ {0}, timeout : Nat \ {0}]
  BY ConfigsAssumption
<1>2. QED
  BY <1>1 DEF NewBreaker, ABreaker

(* What the breaker may become keeps its configuration, and a closed       *)
(* breaker below its threshold.                                            *)
Follows(b) ==
  /\ b \in ABreaker
  /\ b.threshold = s_cb.threshold /\ b.timeout = s_cb.timeout
  /\ (s_cb.state = "CLOSED" => s_cb.failures < s_cb.threshold) =>
       (b.state = "CLOSED" => b.failures < b.threshold)

LEMMA BreakerSteps ==
  ASSUME Types, s_cb # NoBreaker
  PROVE  /\ Follows(Closed) /\ Follows(Succeeded) /\ Follows(Asked)
         /\ \A b \in Failed : Follows(b)
<1>1. s_cb \in ABreaker /\ clock \in Nat
  BY DEF Types
<1>2. Follows(Closed)
  BY <1>1 DEF Follows, Closed, NewBreaker, ABreaker
<1>3. Follows(Succeeded)
  BY <1>1, <1>2 DEF Follows, Succeeded, SuccessThreshold, ABreaker
<1>4. Follows(Asked)
  <2>1. CASE s_cb.state = "CLOSED"
    BY <1>1, <2>1 DEF Follows, Asked
  <2>2. CASE s_cb.state # "CLOSED"
    <3> DEFINE n == IF s_cb.state = "OPEN" THEN 1 ELSE s_cb.probes + 1
    <3>1. n \in Nat
      BY <1>1 DEF ABreaker
    <3>2. Asked = [s_cb EXCEPT !.state = "HALF_OPEN", !.successes = 0, !.since = 0,
                               !.probes = n]
      BY <2>2 DEF Asked
    <3> HIDE DEF n
    <3>3. QED
      BY <1>1, <3>1, <3>2 DEF Follows, ABreaker
  <2>3. QED
    BY <2>1, <2>2
<1>5. Follows(Opened)
  BY <1>1 DEF Follows, Opened, ABreaker
<1>6. \A b \in Failed : Follows(b)
  <2>1. CASE s_cb.state = "OPEN"
    <3>1. Failed = {s_cb, [s_cb EXCEPT !.since = clock]}
      BY <2>1 DEF Failed
    <3>2. QED
      BY <1>1, <3>1 DEF Follows, ABreaker
  <2>2. CASE s_cb.state = "HALF_OPEN"
    <3>1. Failed = {Opened}
      BY <2>2 DEF Failed
    <3>2. QED
      BY <1>5, <3>1
  <2>3. CASE s_cb.state = "CLOSED"
    <3>1. Failed = {IF s_cb.failures + 1 < s_cb.threshold
                    THEN [s_cb EXCEPT !.failures = @ + 1] ELSE Opened}
      BY <2>3 DEF Failed
    <3>2. QED
      BY <1>1, <1>5, <3>1 DEF Follows, ABreaker
  <2>4. QED
    BY <1>1, <2>1, <2>2, <2>3 DEF ABreaker
<1>7. QED
  BY <1>2, <1>3, <1>4, <1>6

(* Every step either leaves the breaker and the mirror, or arms a new      *)
(* breaker with the new mirror, or leaves none, or is a step of the        *)
(* library's breaker.                                                      *)
LEMMA BreakerMoves ==
  ASSUME Types, [Next]_vars
  PROVE  /\ mirror' \in Configs
         /\ \/ s_cb' = NoBreaker
            \/ s_cb' = s_cb /\ mirror' = mirror
            \/ s_cb' = NewBreaker(mirror')
            \/ s_cb # NoBreaker /\ Follows(s_cb') /\ mirror' = mirror
<1>1. mirror \in Configs
  BY DEF Types
<1>2. CASE UNCHANGED vars
  BY <1>1, <1>2 DEF vars, adapter
<1>3. CASE CoreInit \/ CoreInitRefused
  BY <1>1, <1>3 DEF CoreInit, CoreInitRefused
<1>4. CASE CoreInitReturns \/ CoreShutdown
  BY <1>1, <1>4 DEF CoreInitReturns, CoreShutdown, adapter
<1>5. CASE Tick
  BY <1>1, <1>5 DEF Tick, adapter
<1>6. ASSUME NEW t \in Threads, Inside(t)
      PROVE  /\ mirror' = mirror
             /\ s_cb' = s_cb \/ (s_cb # NoBreaker /\ Follows(s_cb'))
  <2>1. CASE RecordSuccess(t)
    BY <2>1, BreakerSteps DEF RecordSuccess
  <2>2. CASE NoteTrip(t) \/ FailWrite(t)
    BY <2>2, BreakerSteps DEF NoteTrip, FailWrite, Report
  <2>3. CASE UpdatePeakSwap(t)
    BY <2>3 DEF UpdatePeakSwap, Step, adapter
  <2>4. QED
    BY <1>6, <2>1, <2>2, <2>3
    DEF Inside, ReturnRejected, CheckReady, UpdateTotal, UpdateEnter, UpdatePeakLoad,
        UpdateLeave, UpdatePath, UpdateFailed, ResetStore, Step, adapter
<1>7. ASSUME NEW t \in Threads, Call(t)
      PROVE  /\ mirror' \in Configs
             /\ \/ s_cb' = NoBreaker
                \/ s_cb' = s_cb /\ mirror' = mirror
                \/ s_cb' = NewBreaker(mirror')
                \/ s_cb # NoBreaker /\ Follows(s_cb') /\ mirror' = mirror
  <2>1. CASE AdmitWrite(t)
    BY <1>1, <2>1, BreakerSteps DEF AdmitWrite, AskBreaker
  <2>2. CASE RejectWrite(t)
    BY <1>1, <2>2 DEF RejectWrite, adapter
  <2>3. CASE ResetMetrics(t)
    BY <1>1, <2>3 DEF ResetMetrics, adapter
  <2>4. CASE RecordFailure(t)
    BY <1>1, <2>4, BreakerSteps DEF RecordFailure, Report
  <2>5. CASE HealthCheck(t)
    BY <1>1, <2>5, BreakerSteps DEF HealthCheck, AskBreaker
  <2>6. CASE ResetCircuit(t)
    BY <1>1, <2>6, BreakerSteps DEF ResetCircuit
  <2>7. CASE ReloadConfig(t)
    BY <2>7 DEF ReloadConfig
  <2>8. QED
    BY <1>7, <2>1, <2>2, <2>3, <2>4, <2>5, <2>6, <2>7 DEF Call
<1>8. QED
  BY <1>1, <1>2, <1>3, <1>4, <1>5, <1>6, <1>7 DEF Next

(* A step keeps the live breaker on the mirrored configuration.            *)
LEMMA ConfigStep ==
  ASSUME Types, ConfigInForce, [Next]_vars
  PROVE  /\ mirror' \in Configs
         /\ s_cb' # NoBreaker => s_cb' \in ABreaker
         /\ ConfigInForce'
<1>1. mirror' \in Configs
  BY BreakerMoves
<1>2. CASE s_cb' = s_cb /\ mirror' = mirror
  BY <1>1, <1>2 DEF Types, ConfigInForce
<1>3. CASE s_cb' = NewBreaker(mirror')
  BY <1>1, <1>3, Breakers_New DEF ConfigInForce
<1>4. CASE s_cb # NoBreaker /\ Follows(s_cb') /\ mirror' = mirror
  BY <1>1, <1>4 DEF Types, ConfigInForce, Follows
<1>5. QED
  BY <1>1, <1>2, <1>3, <1>4, BreakerMoves DEF ConfigInForce

-----------------------------------------------------------------------------
(* The counters.  Every step moves one thread: what that does to the three *)
(* counts the invariants speak of depends only on where from and where to. *)
Uncounted == {"idle", "admitted", "record", "failing", "rejected", "total", "fail"}

One(at, S) == IF at \in S THEN 1 ELSE 0

Weigh(from, to, trips, concurrent, counted) ==
  /\ trips = One(to, {"trip"}) - One(from, {"trip"})
  /\ concurrent = One(to, Concurrent) - One(from, Concurrent)
  /\ counted = One(to, Counted) - One(from, Counted)

LEMMA Places ==
  /\ Locations = Uncounted \cup {"reset", "trip"} \cup Counted
  /\ \A l, m \in Uncounted \cup {"reset"} : Weigh(l, m, 0, 0, 0)
  /\ Weigh("total", "enter", 0, 0, 1)
  /\ Weigh("enter", "peak", 0, 1, 0)
  /\ \A l \in {"peak", "swap"}, m \in {"swap", "leave"} : Weigh(l, m, 0, 0, 0)
  /\ Weigh("leave", "path", 0, -1, 0)
  /\ \A m \in Uncounted : Weigh("path", m, 0, 0, -1)
  /\ \A l \in Uncounted : Weigh(l, "trip", 1, 0, 0)
  /\ \A m \in Uncounted : Weigh("trip", m, -1, 0, 0)
<1>1. Locations = Uncounted \cup {"reset", "trip"} \cup Counted
  BY DEF Uncounted, Counted, Locations, Updating
<1>2. QED
  BY <1>1 DEF Weigh, One, Uncounted, Concurrent, Counted

Moved(t, to, trips, concurrent, counted) ==
  /\ pc' \in [Threads -> Locations] /\ pc'[t] = to
  /\ \A u \in Threads : u # t => pc'[u] = pc[u]
  /\ Noting \in Int /\ Noting' = Noting + trips
  /\ Count(pc, Concurrent) \in Int
  /\ Count(pc', Concurrent) = Count(pc, Concurrent) + concurrent
  /\ Count(pc, Counted) \in Int
  /\ Count(pc', Counted) = Count(pc, Counted) + counted

LEMMA Move ==
  ASSUME pc \in [Threads -> Locations], NEW t \in Threads, NEW to \in Locations,
         pc' = [pc EXCEPT ![t] = to],
         NEW trips, NEW concurrent, NEW counted,
         Weigh(pc[t], to, trips, concurrent, counted)
  PROVE  Moved(t, to, trips, concurrent, counted)
<1>1. /\ pc' \in [Threads -> Locations] /\ pc'[t] = to
      /\ \A u \in Threads : u # t => pc'[u] = pc[u]
  OBVIOUS
<1>2. ASSUME NEW S
      PROVE  /\ Count(pc, S) \in Int
             /\ Count(pc', S) = Count(pc, S) + (One(to, S) - One(pc[t], S))
  <2>1. /\ Count(pc, S) \in Nat /\ Count(pc', S) \in Nat
        /\ (pc[t] \in S <=> to \in S) => Count(pc', S) = Count(pc, S)
        /\ pc[t] \notin S /\ to \in S => Count(pc', S) = Count(pc, S) + 1
        /\ pc[t] \in S /\ to \notin S => Count(pc', S) = Count(pc, S) - 1
    BY <1>1, CountFollows
  <2>2. QED
    BY <2>1 DEF One
<1>3. QED
  BY <1>1, <1>2, CountsAre DEF Moved, Weigh

(* The part of the invariant that is about the counters.                   *)
CounterTypes ==
  /\ s_metrics \in AMetrics
  /\ pc \in [Threads -> Locations]
  /\ call \in [Threads -> ACall]
  /\ opens \in Int /\ seen \in Int /\ overlapped \in BOOLEAN

Counters ==
  /\ CounterTypes /\ Operands /\ Resetting
  /\ TripsCounted /\ ConcurrentOpsMatch /\ PeakSeen /\ TotalsAgree

(* A move between places where nothing is counted, nothing reset.          *)
LEMMA CountersUncounted ==
  ASSUME Counters, NEW t \in Threads, NEW to \in Uncounted, pc[t] \in Uncounted,
         pc' = [pc EXCEPT ![t] = to],
         call' \in [Threads -> ACall], \A u \in Threads : u # t => call'[u] = call[u],
         UNCHANGED <<s_metrics, opens, seen, overlapped>>
  PROVE  Counters'
<1>1. Moved(t, to, 0, 0, 0)
  BY Places, Move DEF Counters, CounterTypes
<1>2. CounterTypes'
  BY <1>1 DEF Counters, CounterTypes, Moved
<1>3. Operands'
  BY <1>1 DEF Counters, Operands, Uncounted, Moved
<1>4. Resetting'
  BY <1>1 DEF Counters, Resetting, Uncounted, Counted, Moved
<1>5. TripsCounted' /\ PeakSeen'
  BY <1>1 DEF Counters, TripsCounted, PeakSeen, Moved
<1>6. ConcurrentOpsMatch'
  BY <1>1, CountsAre DEF Counters, ConcurrentOpsMatch, Moved
<1>7. TotalsAgree'
  <2>1. (\A u \in Threads : pc'[u] # "reset") => (\A u \in Threads : pc[u] # "reset")
    BY <1>1 DEF Uncounted, Moved
  <2>2. QED
    BY <1>1, <2>1, CountsAre DEF Counters, TotalsAgree, Moved
<1>8. QED
  BY <1>2, <1>3, <1>4, <1>5, <1>6, <1>7 DEF Counters

LEMMA CountersUpdateTotal ==
  ASSUME Counters, NEW t \in Threads, UpdateTotal(t)
  PROVE  Counters'
<1>1. /\ pc[t] = "total" /\ pc' = [pc EXCEPT ![t] = "enter"]
      /\ s_metrics' = [s_metrics EXCEPT !.total = @ + 1]
      /\ overlapped' = (overlapped \/ \E u \in Threads : pc[u] = "reset")
      /\ UNCHANGED <<call, seen, opens>>
  BY DEF UpdateTotal, Step, Goto
<1>2. Moved(t, "enter", 0, 0, 1)
  BY <1>1, Places, Move DEF Counters, CounterTypes, Counted
<1>3. CounterTypes'
  BY <1>1, <1>2 DEF Counters, CounterTypes, AMetrics, Moved
<1>4. Operands'
  BY <1>1, <1>2 DEF Counters, Operands, Moved
<1>5. Resetting'
  BY <1>1, <1>2 DEF Counters, Resetting, Moved
<1>6. TripsCounted' /\ PeakSeen'
  BY <1>1, <1>2 DEF Counters, CounterTypes, AMetrics, TripsCounted, PeakSeen, Moved
<1>7. ConcurrentOpsMatch'
  BY <1>1, <1>2, CountsAre DEF Counters, CounterTypes, AMetrics, ConcurrentOpsMatch, Moved
<1>8. TotalsAgree'
  <2>1. ~overlapped' => ~overlapped /\ (\A u \in Threads : pc[u] # "reset")
    BY <1>1
  <2>2. QED
    BY <1>1, <1>2, <2>1, CountsAre DEF Counters, CounterTypes, AMetrics, TotalsAgree, Moved
<1>9. QED
  BY <1>3, <1>4, <1>5, <1>6, <1>7, <1>8 DEF Counters

LEMMA CountersUpdateEnter ==
  ASSUME Counters, NEW t \in Threads, UpdateEnter(t)
  PROVE  Counters'
<1>1. /\ pc[t] = "enter" /\ pc' = [pc EXCEPT ![t] = "peak"]
      /\ s_metrics' = [s_metrics EXCEPT !.current = @ + 1]
      /\ call' = [call EXCEPT ![t].ops = s_metrics.current + 1]
      /\ UNCHANGED <<overlapped, seen, opens>>
  BY DEF UpdateEnter, Step, Goto
<1>2. Moved(t, "peak", 0, 1, 0)
  BY <1>1, Places, Move DEF Counters, CounterTypes, Counted
<1>3. CounterTypes'
  BY <1>1, <1>2 DEF Counters, CounterTypes, AMetrics, Moved, ACall
<1>4. Operands'
  BY <1>1, <1>2 DEF Counters, CounterTypes, Operands, Moved, ACall
<1>5. Resetting'
  BY <1>1, <1>2 DEF Counters, CounterTypes, AMetrics, Resetting, Counted, Moved
<1>6. TripsCounted'
  BY <1>1, <1>2 DEF Counters, CounterTypes, AMetrics, TripsCounted, Moved
<1>7. PeakSeen'
  BY <1>1, <1>2 DEF Counters, CounterTypes, AMetrics, PeakSeen, Operands, Moved, ACall
<1>8. ConcurrentOpsMatch'
  BY <1>1, <1>2, CountsAre DEF Counters, CounterTypes, AMetrics, ConcurrentOpsMatch, Moved
<1>9. TotalsAgree'
  <2>1. (\A u \in Threads : pc'[u] # "reset") => (\A u \in Threads : pc[u] # "reset")
    BY <1>1, <1>2 DEF Moved
  <2>2. QED
    BY <1>1, <1>2, <2>1, CountsAre DEF Counters, CounterTypes, AMetrics, TotalsAgree, Moved
<1>10. QED
  BY <1>3, <1>4, <1>5, <1>6, <1>7, <1>8, <1>9 DEF Counters

LEMMA CountersUpdateLeave ==
  ASSUME Counters, NEW t \in Threads, UpdateLeave(t)
  PROVE  Counters'
<1>1. /\ pc[t] = "leave" /\ pc' = [pc EXCEPT ![t] = "path"]
      /\ s_metrics' = [s_metrics EXCEPT !.current = @ - 1]
      /\ call' = [call EXCEPT ![t].ops = 0, ![t].peak = 0]
      /\ UNCHANGED <<overlapped, seen, opens>>
  BY DEF UpdateLeave, Step, Goto
<1>2. Moved(t, "path", 0, -1, 0)
  BY <1>1, Places, Move DEF Counters, CounterTypes, Counted
<1>3. CounterTypes'
  <2>1. call[t] \in ACall
    BY DEF Counters, CounterTypes, AMetrics
  <2> DEFINE middle == [call[t] EXCEPT !.ops = 0]
             left == [middle EXCEPT !.peak = 0]
  <2>2. call' = [call EXCEPT ![t] = left]
    BY <1>1
  <2>3. left \in ACall
    <3>1. middle \in ACall
      BY <2>1 DEF ACall
    <3> HIDE DEF middle
    <3>2. QED
      BY <3>1 DEF ACall
  <2> HIDE DEF left
  <2>4. call' \in [Threads -> ACall]
    BY <2>2, <2>3 DEF Counters, CounterTypes, AMetrics
  <2>5. QED
    BY <1>1, <1>2, <2>4 DEF Counters, CounterTypes, AMetrics, Moved
<1>4. Operands'
  BY <1>1, <1>2 DEF Counters, CounterTypes, Operands, Moved, ACall
<1>5. Resetting'
  BY <1>1, <1>2 DEF Counters, CounterTypes, AMetrics, Resetting, Counted, Moved
<1>6. TripsCounted'
  BY <1>1, <1>2 DEF Counters, CounterTypes, AMetrics, TripsCounted, Moved
<1>7. PeakSeen'
  BY <1>1, <1>2 DEF Counters, CounterTypes, AMetrics, PeakSeen, Operands, Moved, ACall
<1>8. ConcurrentOpsMatch'
  BY <1>1, <1>2, CountsAre DEF Counters, CounterTypes, AMetrics, ConcurrentOpsMatch, Moved
<1>9. TotalsAgree'
  <2>1. (\A u \in Threads : pc'[u] # "reset") => (\A u \in Threads : pc[u] # "reset")
    BY <1>1, <1>2 DEF Moved
  <2>2. QED
    BY <1>1, <1>2, <2>1, CountsAre DEF Counters, CounterTypes, AMetrics, TotalsAgree, Moved
<1>10. QED
  BY <1>3, <1>4, <1>5, <1>6, <1>7, <1>8, <1>9 DEF Counters

LEMMA CountersUpdatePath ==
  ASSUME Counters, NEW t \in Threads, UpdatePath(t)
  PROVE  Counters'
<1> DEFINE to == IF call[t].failed THEN "fail" ELSE "idle"
<1>1. /\ pc[t] = "path" /\ pc' = [pc EXCEPT ![t] = to] /\ to \in Uncounted
      /\ \/ s_metrics' = [s_metrics EXCEPT !.fast = @ + 1]
         \/ s_metrics' = [s_metrics EXCEPT !.slow = @ + 1]
      /\ call' = call \/ call' = [call EXCEPT ![t] = Idle]
      /\ UNCHANGED <<overlapped, seen, opens>>
  BY DEF UpdatePath, Step, Goto, Uncounted
<1> HIDE DEF to
<1>2. Moved(t, to, 0, 0, -1)
  BY <1>1, Places, Move DEF Counters, CounterTypes, Locations, Uncounted
<1>3. CounterTypes'
  <2>1. s_metrics' \in AMetrics
    BY <1>1 DEF Counters, CounterTypes, AMetrics
  <2>2. Idle \in ACall
    BY DEF ACall, Idle
  <2>3. call' \in [Threads -> ACall]
    BY <1>1, <2>2 DEF Counters, CounterTypes
  <2>4. QED
    BY <1>1, <1>2, <2>1, <2>3 DEF Counters, CounterTypes, Moved
<1>4. Operands'
  BY <1>1, <1>2 DEF Counters, CounterTypes, Operands, Moved, ACall, Uncounted
<1>5. Resetting'
  BY <1>1, <1>2 DEF Counters, CounterTypes, AMetrics, Resetting, Counted, Moved, Uncounted
<1>6. TripsCounted'
  BY <1>1, <1>2 DEF Counters, CounterTypes, AMetrics, TripsCounted, Moved
<1>7. PeakSeen'
  BY <1>1, <1>2 DEF Counters, CounterTypes, AMetrics, PeakSeen, Operands, Moved, ACall
<1>8. ConcurrentOpsMatch'
  BY <1>1, <1>2, CountsAre DEF Counters, CounterTypes, AMetrics, ConcurrentOpsMatch, Moved
<1>9. TotalsAgree'
  <2>1. (\A u \in Threads : pc'[u] # "reset") => (\A u \in Threads : pc[u] # "reset")
    BY <1>1, <1>2 DEF Moved
  <2>2. QED
    BY <1>1, <1>2, <2>1, CountsAre DEF Counters, CounterTypes, AMetrics, TotalsAgree, Moved
<1>10. QED
  BY <1>3, <1>4, <1>5, <1>6, <1>7, <1>8, <1>9 DEF Counters

(* The failed operations are counted last; no invariant speaks of them.    *)
LEMMA CountersUpdateFailed ==
  ASSUME Counters, NEW t \in Threads, UpdateFailed(t)
  PROVE  Counters'
<1>1. /\ pc[t] = "fail" /\ pc' = [pc EXCEPT ![t] = "idle"]
      /\ s_metrics' = [s_metrics EXCEPT !.failed = @ + 1]
      /\ call' = [call EXCEPT ![t] = Idle]
      /\ UNCHANGED <<overlapped, seen, opens>>
  BY DEF UpdateFailed, Step, Goto
<1>2. Moved(t, "idle", 0, 0, 0)
  BY <1>1, Places, Move DEF Counters, CounterTypes, Locations, Uncounted
<1>3. CounterTypes'
  BY <1>1, <1>2 DEF Counters, CounterTypes, AMetrics, Moved, ACall, AMetrics, Idle
<1>4. Operands'
  BY <1>1, <1>2 DEF Counters, CounterTypes, Operands, Moved, ACall
<1>5. Resetting'
  BY <1>1, <1>2 DEF Counters, CounterTypes, AMetrics, Resetting, Counted, Moved
<1>6. TripsCounted' /\ PeakSeen'
  BY <1>1, <1>2 DEF Counters, CounterTypes, AMetrics, TripsCounted, PeakSeen, Moved
<1>7. ConcurrentOpsMatch'
  BY <1>1, <1>2, CountsAre
  DEF Counters, CounterTypes, AMetrics, ConcurrentOpsMatch, Moved
<1>8. TotalsAgree'
  <2>1. (\A u \in Threads : pc'[u] # "reset") => (\A u \in Threads : pc[u] # "reset")
    BY <1>1, <1>2 DEF Moved
  <2>2. QED
    BY <1>1, <1>2, <2>1, CountsAre
    DEF Counters, CounterTypes, AMetrics, TotalsAgree, Moved
<1>9. QED
  BY <1>3, <1>4, <1>5, <1>6, <1>7, <1>8 DEF Counters

LEMMA CountersNoteTrip ==
  ASSUME Counters, NEW t \in Threads, NoteTrip(t)
  PROVE  Counters'
<1> DEFINE to == IF call[t].failed THEN "total" ELSE "idle"
<1>1. /\ pc[t] = "trip" /\ pc' = [pc EXCEPT ![t] = to] /\ to \in Uncounted
      /\ s_metrics' = [s_metrics EXCEPT !.trips = @ + 1]
      /\ UNCHANGED <<call, overlapped, seen, opens>>
  BY DEF NoteTrip, Goto, history, Uncounted
<1> HIDE DEF to
<1>2. Moved(t, to, -1, 0, 0)
  BY <1>1, Places, Move DEF Counters, CounterTypes, Locations, Uncounted
<1>3. CounterTypes'
  BY <1>1, <1>2 DEF Counters, CounterTypes, AMetrics, Moved, ACall, Idle
<1>4. Operands'
  BY <1>1, <1>2 DEF Counters, CounterTypes, Operands, Moved, ACall, Uncounted
<1>5. Resetting'
  BY <1>1, <1>2 DEF Counters, CounterTypes, AMetrics, Resetting, Counted, Moved, Uncounted
<1>6. TripsCounted'
  BY <1>1, <1>2 DEF Counters, CounterTypes, AMetrics, TripsCounted, Moved
<1>7. PeakSeen'
  BY <1>1, <1>2 DEF Counters, CounterTypes, AMetrics, PeakSeen, Operands, Moved, ACall
<1>8. ConcurrentOpsMatch'
  BY <1>1, <1>2, CountsAre DEF Counters, CounterTypes, AMetrics, ConcurrentOpsMatch, Moved
<1>9. TotalsAgree'
  <2>1. (\A u \in Threads : pc'[u] # "reset") => (\A u \in Threads : pc[u] # "reset")
    BY <1>1, <1>2 DEF Moved
  <2>2. QED
    BY <1>1, <1>2, <2>1, CountsAre DEF Counters, CounterTypes, AMetrics, TotalsAgree, Moved
<1>10. QED
  BY <1>3, <1>4, <1>5, <1>6, <1>7, <1>8, <1>9 DEF Counters

(* The compare-and-swap loop: the thread goes on while its operand is      *)
(* higher than the peak it met.                                            *)
LEMMA CountersPeak ==
  ASSUME Counters, NEW t \in Threads, UpdatePeakLoad(t) \/ UpdatePeakSwap(t)
  PROVE  Counters'
<1> DEFINE to == pc'[t]
<1>1. /\ pc[t] \in {"peak", "swap"} /\ to \in {"swap", "leave"}
      /\ pc' = [pc EXCEPT ![t] = to]
      /\ \/ /\ call' = [call EXCEPT ![t].peak = s_metrics.peak]
            /\ to = "swap" <=> call[t].ops > s_metrics.peak
            /\ IF to = "swap" THEN seen' = seen ELSE seen' = Max2(seen, call[t].ops)
            /\ s_metrics' = s_metrics
         \/ /\ pc[t] = "swap" /\ to = "leave" /\ call[t].peak = s_metrics.peak
            /\ s_metrics' = [s_metrics EXCEPT !.peak = call[t].ops]
            /\ call' = call
            /\ seen' = Max2(seen, call[t].ops)
      /\ UNCHANGED <<overlapped, opens>>
  BY DEF UpdatePeakLoad, UpdatePeakSwap, Step, Goto, Higher, Witness, Counters,
         CounterTypes
<1>2. Moved(t, to, 0, 0, 0)
  BY <1>1, Places, Move DEF Counters, CounterTypes, Counted
<1>3. CounterTypes'
  BY <1>1, <1>2 DEF Counters, CounterTypes, AMetrics, Moved, ACall, Max2
<1>4. Operands'
  BY <1>1, <1>2 DEF Counters, CounterTypes, Operands, Moved, ACall, Max2
<1>5. Resetting'
  BY <1>1, <1>2 DEF Counters, CounterTypes, AMetrics, Resetting, Counted, Moved
<1>6. TripsCounted'
  BY <1>1, <1>2 DEF Counters, CounterTypes, AMetrics, TripsCounted, Moved
<1>7. PeakSeen'
  BY <1>1, <1>2 DEF Counters, CounterTypes, AMetrics, PeakSeen, Operands, Moved, ACall, Max2
<1>8. ConcurrentOpsMatch'
  BY <1>1, <1>2, CountsAre DEF Counters, CounterTypes, AMetrics, ConcurrentOpsMatch, Moved
<1>9. TotalsAgree'
  <2>1. (\A u \in Threads : pc'[u] # "reset") => (\A u \in Threads : pc[u] # "reset")
    BY <1>1, <1>2 DEF Moved
  <2>2. QED
    BY <1>1, <1>2, <2>1, CountsAre DEF Counters, CounterTypes, AMetrics, TotalsAgree, Moved
<1>10. QED
  BY <1>3, <1>4, <1>5, <1>6, <1>7, <1>8, <1>9 DEF Counters

(* A reset that begins while nothing is updated or reset is alone.         *)
LEMMA CountersResetMetrics ==
  ASSUME Counters, NEW t \in Threads, ResetMetrics(t)
  PROVE  Counters'
<1>1. /\ pc[t] = "idle" /\ pc' = [pc EXCEPT ![t] = "reset"]
      /\ call' = [call EXCEPT ![t].stores = 1]
      /\ overlapped' = \E u \in Threads : pc[u] \in Updating \cup {"reset"}
      /\ UNCHANGED <<s_metrics, seen, opens>>
  BY DEF ResetMetrics, Goto
<1>2. Moved(t, "reset", 0, 0, 0)
  BY <1>1, Places, Move DEF Counters, CounterTypes, Locations, Uncounted
<1>3. CounterTypes'
  BY <1>1, <1>2 DEF Counters, CounterTypes, AMetrics, Moved, ACall
<1>4. Operands'
  BY <1>1, <1>2 DEF Counters, CounterTypes, Operands, Moved, ACall
<1>5. Resetting'
  <2>1. SUFFICES ASSUME ~overlapped', NEW v \in Threads, pc'[v] = "reset"
                 PROVE  /\ v = t /\ call'[v].stores = 1
                        /\ \A u \in Threads : pc'[u] \notin Counted /\ (pc'[u] = "reset" => u = v)
    BY DEF Resetting
  <2>2. \A u \in Threads : pc[u] \notin Updating \cup {"reset"}
    BY <1>1, <2>1
  <2>3. v = t
    BY <1>2, <2>1, <2>2 DEF Moved
  <2>4. call'[v].stores = 1
    BY <1>1, <2>3 DEF Counters, CounterTypes, ACall
  <2>5. QED
    BY <1>2, <2>2, <2>3, <2>4 DEF Moved, Updating, Counted
<1>6. TripsCounted'
  BY <1>1, <1>2 DEF Counters, CounterTypes, AMetrics, TripsCounted, Moved
<1>7. PeakSeen'
  BY <1>1 DEF Counters, PeakSeen
<1>8. ConcurrentOpsMatch'
  BY <1>1, <1>2, CountsAre DEF Counters, CounterTypes, AMetrics, ConcurrentOpsMatch, Moved
<1>9. TotalsAgree'
  BY <1>2 DEF TotalsAgree, Moved
<1>10. QED
  BY <1>3, <1>4, <1>5, <1>6, <1>7, <1>8, <1>9 DEF Counters

(* The stores of a reset, one by one.  After the last one of a reset that  *)
(* overlapped nothing the totals are zero, and so is what they count.      *)
LEMMA CountersResetStore ==
  ASSUME Counters, NEW t \in Threads, ResetStore(t)
  PROVE  Counters'
<1> DEFINE i == call[t].stores
           to == IF i = 6 THEN "idle" ELSE "reset"
<1>1. pc[t] = "reset" /\ i \in 1..6
  BY DEF ResetStore, Counters, CounterTypes, Operands, ACall
<1>2. /\ pc' = [pc EXCEPT ![t] = to]
      /\ call' = [call EXCEPT ![t] = IF i = 6 THEN Idle ELSE [call[t] EXCEPT !.stores = i + 1]]
      /\ s_metrics' = [s_metrics EXCEPT ![ResetFields[i]] = 0]
      /\ opens' = IF i = 5 THEN Noting ELSE opens
      /\ seen' = IF i = 6 THEN 0 ELSE seen
      /\ UNCHANGED overlapped
  BY <1>1 DEF ResetStore, ResetFields, Return, Goto, Counters, CounterTypes
<1>3. /\ i = 1 => s_metrics' = [s_metrics EXCEPT !.total = 0]
      /\ i = 2 => s_metrics' = [s_metrics EXCEPT !.failed = 0]
      /\ i = 3 => s_metrics' = [s_metrics EXCEPT !.fast = 0]
      /\ i = 4 => s_metrics' = [s_metrics EXCEPT !.slow = 0]
      /\ i = 5 => s_metrics' = [s_metrics EXCEPT !.trips = 0]
      /\ i = 6 => s_metrics' = [s_metrics EXCEPT !.peak = 0]
  <2>1. /\ ResetFields[1] = "total" /\ ResetFields[2] = "failed" /\ ResetFields[3] = "fast"
        /\ ResetFields[4] = "slow" /\ ResetFields[5] = "trips" /\ ResetFields[6] = "peak"
    BY DEF ResetFields
  <2>2. /\ i = 1 => ResetFields[i] = "total"
        /\ i = 2 => ResetFields[i] = "failed"
        /\ i = 3 => ResetFields[i] = "fast"
        /\ i = 4 => ResetFields[i] = "slow"
        /\ i = 5 => ResetFields[i] = "trips"
        /\ i = 6 => ResetFields[i] = "peak"
    BY <2>1
  <2>3. s_metrics' = [s_metrics EXCEPT ![ResetFields[i]] = 0]
    BY <1>2
  <2> HIDE DEF i
  <2>4. QED
    BY <2>2, <2>3
<1>4. Moved(t, to, 0, 0, 0)
  BY <1>1, <1>2, Places, Move DEF Counters, CounterTypes, Locations, Uncounted
<1>5. CounterTypes'
  <2>1. call' \in [Threads -> ACall]
    BY <1>1, <1>2 DEF Counters, CounterTypes, ACall, Idle
  <2>2. s_metrics' \in AMetrics
    BY <1>1, <1>3 DEF Counters, CounterTypes, AMetrics
  <2>3. QED
    BY <1>2, <1>4, <2>1, <2>2 DEF Counters, CounterTypes, AMetrics, Moved
<1>6. Operands'
  BY <1>1, <1>2, <1>4 DEF Counters, CounterTypes, Operands, Moved, ACall, Idle
<1>7. Resetting'
  <2>1. SUFFICES ASSUME ~overlapped', NEW v \in Threads, pc'[v] = "reset"
                 PROVE  /\ \A u \in Threads : pc'[u] \notin Counted /\ (pc'[u] = "reset" => u = v)
                        /\ call'[v].stores > 1 => s_metrics'.total = 0
                        /\ call'[v].stores > 3 => s_metrics'.fast = 0
                        /\ call'[v].stores > 4 => s_metrics'.slow = 0
    BY DEF Resetting
  <2>2. \A u \in Threads : pc[u] \notin Counted /\ (pc[u] = "reset" => u = t)
    BY <1>1, <1>2, <2>1 DEF Counters, Resetting
  <2>3. v = t /\ to = "reset" /\ i # 6
    BY <1>4, <2>1, <2>2 DEF Moved
  <2>4. call'[t].stores = i + 1
    BY <1>1, <1>2, <2>3 DEF Counters, CounterTypes, ACall
  <2>5. \A u \in Threads : pc'[u] \notin Counted /\ (pc'[u] = "reset" => u = v)
    BY <1>4, <2>2, <2>3 DEF Moved, Counted
  <2>6. /\ i > 1 => s_metrics.total = 0
        /\ i > 3 => s_metrics.fast = 0
        /\ i > 4 => s_metrics.slow = 0
    BY <1>1, <1>2, <2>1 DEF Counters, Resetting
  <2>7. QED
    BY <1>1, <1>3, <2>3, <2>4, <2>5, <2>6 DEF Counters, CounterTypes, AMetrics
<1>8. TripsCounted'
  BY <1>1, <1>2, <1>3, <1>4 DEF Counters, CounterTypes, AMetrics, TripsCounted, Moved
<1>9. PeakSeen'
  BY <1>1, <1>2, <1>3 DEF Counters, CounterTypes, AMetrics, PeakSeen
<1>10. ConcurrentOpsMatch'
  <2>1. s_metrics'.current = s_metrics.current
    BY <1>1, <1>3 DEF Counters, CounterTypes, AMetrics
  <2>2. QED
    BY <1>4, <2>1, CountsAre DEF Counters, ConcurrentOpsMatch, Moved
<1>11. TotalsAgree'
  <2>1. SUFFICES ASSUME ~overlapped', \A u \in Threads : pc'[u] # "reset"
                 PROVE  s_metrics'.total
                          = s_metrics'.fast + s_metrics'.slow + Count(pc', Counted)
    BY CountsAre DEF TotalsAgree
  <2>2. i = 6
    BY <1>4, <2>1 DEF Moved
  <2>3. s_metrics'.total = 0 /\ s_metrics'.fast = 0 /\ s_metrics'.slow = 0
    BY <1>1, <1>2, <1>3, <2>1, <2>2 DEF Counters, CounterTypes, AMetrics, Resetting
  <2>4. \A u \in Threads : pc'[u] \notin Counted
    BY <1>1, <1>2, <1>4, <2>1, <2>2 DEF Counters, Resetting, Moved, Counted
  <2>5. Count(pc', Counted) = 0
    BY <2>4, CountNobody
  <2>6. QED
    BY <2>3, <2>5
<1>12. QED
  BY <1>5, <1>6, <1>7, <1>8, <1>9, <1>10, <1>11 DEF Counters

(* A failure reported by a test or by a write that met a store no longer   *)
(* ready: an opening moves the thread to its note.                         *)
LEMMA CountersReport ==
  ASSUME Counters, NEW t \in Threads, NEW next \in Uncounted, pc[t] \in Uncounted,
         Report(t, next),
         call' \in [Threads -> ACall], \A u \in Threads : u # t => call'[u] = call[u]
  PROVE  Counters'
<1>1. CASE s_cb # NoBreaker /\ Trips(s_cb, s_cb')
  <2>1. /\ pc' = [pc EXCEPT ![t] = "trip"]
        /\ opens' = opens + 1
        /\ UNCHANGED <<s_metrics, seen, overlapped>>
    BY <1>1 DEF Report, Trips, Goto
  <2>2. Moved(t, "trip", 1, 0, 0)
    BY <2>1, Places, Move DEF Counters, CounterTypes
  <2>3. CounterTypes'
    BY <2>1, <2>2 DEF Counters, CounterTypes, Moved
  <2>4. Operands'
    BY <2>1, <2>2 DEF Counters, Operands, Moved
  <2>5. Resetting'
    BY <2>1, <2>2 DEF Counters, Resetting, Counted, Moved
  <2>6. TripsCounted'
    BY <2>1, <2>2 DEF Counters, CounterTypes, AMetrics, TripsCounted, Moved
  <2>7. PeakSeen'
    BY <2>1 DEF Counters, PeakSeen
  <2>8. ConcurrentOpsMatch'
    BY <2>1, <2>2, CountsAre DEF Counters, ConcurrentOpsMatch, Moved
  <2>9. TotalsAgree'
    <3>1. (\A u \in Threads : pc'[u] # "reset") => (\A u \in Threads : pc[u] # "reset")
      BY <2>1, <2>2 DEF Moved, Uncounted
    <3>2. QED
      BY <2>1, <2>2, <3>1, CountsAre DEF Counters, TotalsAgree, Moved
  <2>10. QED
    BY <2>3, <2>4, <2>5, <2>6, <2>7, <2>8, <2>9 DEF Counters
<1>2. CASE ~(s_cb # NoBreaker /\ Trips(s_cb, s_cb'))
  <2>1. /\ pc' = [pc EXCEPT ![t] = next]
        /\ UNCHANGED <<s_metrics, opens, seen, overlapped>>
    BY <1>2 DEF Report, Trips, Goto
  <2>2. QED
    BY <2>1, CountersUncounted
<1>3. QED
  BY <1>1, <1>2

LEMMA CountersFailure ==
  ASSUME Counters, NEW t \in Threads, RecordFailure(t) \/ FailWrite(t)
  PROVE  Counters'
<1>1. CASE RecordFailure(t)
  <2>1. pc[t] \in Uncounted /\ "idle" \in Uncounted
    BY <1>1 DEF RecordFailure, Uncounted
  <2>2. Report(t, "idle") /\ call' = call
    BY <1>1 DEF RecordFailure
  <2>3. QED
    BY <2>1, <2>2, CountersReport DEF Counters, CounterTypes
<1>2. CASE FailWrite(t)
  <2>1. pc[t] \in Uncounted /\ "total" \in Uncounted
    BY <1>2 DEF FailWrite, Uncounted
  <2>2. Report(t, "total") /\ call' = [call EXCEPT ![t].failed = TRUE]
    BY <1>2 DEF FailWrite
  <2>3. call' \in [Threads -> ACall] /\ \A u \in Threads : u # t => call'[u] = call[u]
    BY <2>2 DEF Counters, CounterTypes, ACall
  <2>4. QED
    BY <2>1, <2>2, <2>3, CountersReport
<1>3. QED
  BY <1>1, <1>2

(* heapstore_init zeroes the counters while nobody is in a call.           *)
LEMMA CountersCoreInit ==
  ASSUME Counters, CoreInit
  PROVE  Counters'
<1>1. /\ \A t \in Threads : pc[t] = "idle"
      /\ s_metrics' = Zero /\ opens' = 0 /\ seen' = 0 /\ overlapped' = FALSE
      /\ UNCHANGED <<pc, call>>
  BY DEF CoreInit, Quiet
<1>2. /\ Count(pc', {"trip"}) = 0 /\ Count(pc', Concurrent) = 0
      /\ Count(pc', Counted) = 0
  <2>1. /\ \A t \in Threads : pc'[t] \notin {"trip"}
        /\ \A t \in Threads : pc'[t] \notin Concurrent
        /\ \A t \in Threads : pc'[t] \notin Counted
    BY <1>1 DEF Concurrent, Counted
  <2>2. QED
    BY <2>1, CountNobody
<1>3. CounterTypes' /\ Operands' /\ Resetting'
  <2>1. Zero \in AMetrics
    BY DEF Zero, AMetrics
  <2>2. overlapped' \in BOOLEAN
    BY <1>1, Zenon
  <2>3. CounterTypes'
    BY <1>1, <2>1, <2>2 DEF Counters, CounterTypes
  <2>4. Operands' /\ Resetting'
    BY <1>1 DEF Operands, Resetting
  <2>5. QED
    BY <2>3, <2>4
<1>4. TripsCounted' /\ ConcurrentOpsMatch' /\ PeakSeen' /\ TotalsAgree'
  BY <1>1, <1>2, CountsAre DEF TripsCounted, ConcurrentOpsMatch, PeakSeen, TotalsAgree, Zero
<1>5. QED
  BY <1>3, <1>4 DEF Counters

LEMMA CountersStep ==
  ASSUME Counters, [Next]_vars
  PROVE  Counters'
<1>1. ASSUME UNCHANGED <<s_metrics, pc, call, opens, seen, overlapped>>
      PROVE  Counters'
  <2>1. CounterTypes' /\ Operands' /\ Resetting' /\ PeakSeen'
    BY <1>1 DEF Counters, CounterTypes, Operands, Resetting, PeakSeen
  <2>2. TripsCounted' /\ ConcurrentOpsMatch' /\ TotalsAgree'
    BY <1>1 DEF Counters, TripsCounted, Noting, ConcurrentOpsMatch, TotalsAgree
  <2>3. QED
    BY <2>1, <2>2 DEF Counters
<1>2. CASE UNCHANGED vars
  BY <1>1, <1>2 DEF vars, history
<1>3. CASE CoreInitRefused \/ CoreInitReturns \/ CoreShutdown \/ Tick
  BY <1>1, <1>3 DEF CoreInitRefused, CoreInitReturns, CoreShutdown, Tick, history
<1>4. CASE CoreInit
  BY <1>4, CountersCoreInit
<1>5. ASSUME NEW t \in Threads, Inside(t)
      PROVE  Counters'
  <2>1. CASE ReturnRejected(t)
    <3>1. pc[t] = "rejected" /\ pc' = [pc EXCEPT ![t] = "idle"]
      BY <2>1 DEF ReturnRejected, Return, Goto
    <3>2. /\ call' \in [Threads -> ACall]
          /\ \A u \in Threads : u # t => call'[u] = call[u]
      BY <2>1 DEF ReturnRejected, Return, Counters, CounterTypes, ACall, Idle
    <3>3. UNCHANGED <<s_metrics, opens, seen, overlapped>>
      BY <2>1 DEF ReturnRejected, history
    <3>4. QED
      BY <3>1, <3>2, <3>3, CountersUncounted DEF Uncounted
  <2>2. CASE RecordSuccess(t)
    <3>1. /\ pc[t] = "record" /\ pc' = [pc EXCEPT ![t] = "total"]
          /\ UNCHANGED <<s_metrics, call, opens, seen, overlapped>>
      BY <2>2 DEF RecordSuccess, Goto
    <3>2. QED
      BY <3>1, CountersUncounted DEF Uncounted, Counters, CounterTypes
  <2>3. CASE CheckReady(t)
    <3> DEFINE to == IF s_initialized THEN "record" ELSE "failing"
    <3>1. /\ pc[t] = "admitted" /\ pc' = [pc EXCEPT ![t] = to]
          /\ UNCHANGED <<s_metrics, call, opens, seen, overlapped>>
      BY <2>3 DEF CheckReady, Goto, history
    <3>2. pc[t] \in Uncounted /\ to \in Uncounted
      BY <3>1 DEF Uncounted
    <3> HIDE DEF to
    <3>3. QED
      BY <3>1, <3>2, CountersUncounted DEF Counters, CounterTypes
  <2>4. QED
    BY <1>5, <2>1, <2>2, <2>3, CountersUpdateTotal, CountersUpdateEnter, CountersPeak,
       CountersUpdateLeave, CountersUpdatePath, CountersUpdateFailed, CountersResetStore,
       CountersNoteTrip, CountersFailure
    DEF Inside
<1>6. ASSUME NEW t \in Threads, Call(t)
      PROVE  Counters'
  <2>1. CASE AdmitWrite(t)
    <3>1. pc[t] = "idle" /\ pc' = [pc EXCEPT ![t] = "admitted"]
      BY <2>1 DEF AdmitWrite, CallWrite, Goto
    <3>2. /\ call' \in [Threads -> ACall]
          /\ \A u \in Threads : u # t => call'[u] = call[u]
      <4>1. PICK slow \in BOOLEAN : call' = [call EXCEPT ![t].slow = slow]
        BY <2>1 DEF AdmitWrite
      <4>2. QED
        BY <4>1 DEF Counters, CounterTypes, ACall
    <3>3. UNCHANGED <<s_metrics, opens, seen, overlapped>>
      BY <2>1 DEF AdmitWrite, history
    <3>4. QED
      BY <3>1, <3>2, <3>3, CountersUncounted DEF Uncounted
  <2>2. CASE RejectWrite(t)
    <3>1. /\ pc[t] = "idle" /\ pc' = [pc EXCEPT ![t] = "rejected"]
          /\ UNCHANGED <<s_metrics, call, opens, seen, overlapped>>
      BY <2>2 DEF RejectWrite, CallWrite, Goto, history
    <3>2. QED
      BY <3>1, CountersUncounted DEF Uncounted, Counters, CounterTypes
  <2>3. CASE HealthCheck(t) \/ ResetCircuit(t) \/ ReloadConfig(t)
    BY <1>1, <2>3 DEF HealthCheck, ResetCircuit, ReloadConfig, history
  <2>4. QED
    BY <1>6, <2>1, <2>2, <2>3, CountersResetMetrics, CountersFailure DEF Call
<1>7. QED
  BY <1>2, <1>3, <1>4, <1>5, <1>6 DEF Next

-----------------------------------------------------------------------------
LEMMA InvInit == Init => IInv
<1> SUFFICES ASSUME Init PROVE IInv
  OBVIOUS
<1>1. \A t \in Threads : pc[t] = "idle"
  BY DEF Init
<1>2. Noting = 0 /\ Count(pc, Concurrent) = 0 /\ Count(pc, Counted) = 0
  <2>1. /\ \A t \in Threads : pc[t] \notin {"trip"}
        /\ \A t \in Threads : pc[t] \notin Concurrent
        /\ \A t \in Threads : pc[t] \notin Counted
    BY <1>1 DEF Concurrent, Counted
  <2>2. QED
    BY <2>1, CountNobody, CountsAre
<1>3. Types
  <2>1. Idle \in ACall
    BY DEF Idle, ACall
  <2>2. Zero \in AMetrics
    BY DEF Zero, AMetrics
  <2>3. "idle" \in Locations
    BY DEF Locations
  <2>4. overlapped \in BOOLEAN
    BY Zenon DEF Init
  <2>5. /\ mirror \in Configs /\ clock \in Nat /\ opens \in Int /\ seen \in Int
        /\ s_cb = NoBreaker /\ s_metrics = Zero
        /\ pc = [t \in Threads |-> "idle"] /\ call = [t \in Threads |-> Idle]
    BY DEF Init
  <2>6. QED
    BY <2>1, <2>2, <2>3, <2>4, <2>5 DEF Types
<1>4. Operands /\ Resetting /\ ConfigInForce /\ PeakSeen
  BY DEF Init, Operands, Resetting, ConfigInForce, PeakSeen, Zero
<1>5. TripsCounted /\ ConcurrentOpsMatch /\ TotalsAgree
  BY <1>2, CountsAre DEF Init, TripsCounted, ConcurrentOpsMatch, TotalsAgree, Zero
<1>6. QED
  BY <1>3, <1>4, <1>5 DEF IInv

LEMMA InvStep == IInv /\ [Next]_vars => IInv'
<1> SUFFICES ASSUME IInv, [Next]_vars PROVE IInv'
  OBVIOUS
<1>1. Types /\ ConfigInForce /\ Counters
  BY DEF IInv, Types, Counters, CounterTypes
<1>2. Counters'
  BY <1>1, CountersStep
<1>3. /\ mirror' \in Configs
      /\ s_cb' # NoBreaker => s_cb' \in ABreaker
      /\ ConfigInForce'
  BY <1>1, ConfigStep
<1>4. clock' \in Nat
  <2>1. clock \in Nat
    BY <1>1 DEF Types
  <2>2. clock' = clock \/ clock' = clock + 1
    BY DEF Next, vars, CoreInit, CoreInitRefused, CoreInitReturns, CoreShutdown, Tick,
       Inside, Call, ReturnRejected, CheckReady, RecordSuccess, FailWrite, Report,
       UpdateFailed, UpdateTotal, UpdateEnter, UpdatePeakLoad, UpdatePeakSwap,
       UpdateLeave, UpdatePath, ResetStore, NoteTrip, Step, AdmitWrite, RejectWrite,
       ResetMetrics, RecordFailure, HealthCheck, ResetCircuit, ReloadConfig
  <2>3. QED
    BY <2>1, <2>2
<1>5. QED
  BY <1>2, <1>3, <1>4 DEF IInv, Types, Counters, CounterTypes

LEMMA Invariant == Spec => []IInv
BY InvInit, InvStep, PTL DEF Spec

(* The live breaker follows the mirrored configuration and, while it is    *)
(* closed, has fewer failures than that allows, through reloads            *)
(* (heapstore_core_circuit.c).                                             *)
THEOREM ConfigFollowed == Spec => []ConfigInForce
<1>1. IInv => ConfigInForce
  BY DEF IInv
<1>2. QED
  BY <1>1, Invariant, PTL

(* circuit_breaker_trips counts every opening once, whatever resets fall   *)
(* between an opening and its note.                                        *)
THEOREM TripsAreCounted == Spec => []TripsCounted
<1>1. IInv => TripsCounted
  BY DEF IInv
<1>2. QED
  BY <1>1, Invariant, PTL

(* current_concurrent_ops is the number of updates between their increment *)
(* and their decrement, resets included.                                   *)
THEOREM ConcurrentOpsAgree == Spec => []ConcurrentOpsMatch
<1>1. IInv => ConcurrentOpsMatch
  BY DEF IInv
<1>2. QED
  BY <1>1, Invariant, PTL

(* No interleaving of the compare-and-swap loops, and of resets with them, *)
(* leaves the peak below a concurrency that an update has dealt with.      *)
THEOREM PeakIsSeen == Spec => []PeakSeen
<1>1. IInv => PeakSeen
  BY DEF IInv
<1>2. QED
  BY <1>1, Invariant, PTL

(* The total is what the two paths and the updates on their way add up to, *)
(* unless a reset has overlapped an update.                                *)
THEOREM TotalsAdd == Spec => []TotalsAgree
<1>1. IInv => TotalsAgree
  BY DEF IInv
<1>2. QED
  BY <1>1, Invariant, PTL

=============================================================================
