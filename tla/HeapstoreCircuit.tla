-------------------------- MODULE HeapstoreCircuit --------------------------
(***************************************************************************)
(* The guarded write path: write_dispatch (heapstore_core_write.c), the    *)
(* circuit breaker adapter (heapstore_core_circuit.c) and the counters     *)
(* (heapstore_core_metrics.c).                                             *)
(*                                                                         *)
(* The breaker itself belongs to the commons library.  It is external and  *)
(* modelled by what the adapter asks of it.  Where its own code would be   *)
(* needed to decide (a failure reported while it is OPEN), both outcomes   *)
(* are possible.  Each call of the adapter is one critical section of      *)
(* s_cb_lock; the counters are single atomic operations.                   *)
(***************************************************************************)
EXTENDS Integers, FiniteSets

CONSTANTS Threads,
          NoThread,
          NoBreaker,     \* s_cb is NULL
          Configs,       \* the configurations in use: [threshold, timeout]
          MaxCalls,      \* bound of the guarded writes
          MaxFailures,   \* bound of the failures reported
          MaxClock       \* bound of the clock

ASSUME ConfigsAssumption ==
  /\ Configs \subseteq [threshold : Nat \ {0}, timeout : Nat \ {0}]
  /\ Configs # {} /\ IsFiniteSet(Threads) /\ NoThread \notin Threads
  /\ MaxCalls \in Nat /\ MaxFailures \in Nat /\ MaxClock \in Nat

VARIABLES
  s_initialized,  \* heapstore_ready()
  starting,       \* heapstore_init has set it and not returned
  s_cb_lock,      \* who holds it
  s_cb,           \* the breaker
  mirror,         \* s_cb_threshold and s_cb_timeout_sec
  s_metrics,
  clock,
  pc,             \* where each thread is
  call,           \* its path, its result, its operand of the peak, its store of a reset
  calls,          \* how many guarded writes began
  reported,       \* how many failures were reported
  opens,          \* history: openings of the breaker since trips was reset
  seen,           \* history: the greatest concurrency seen since peak was reset
  overlapped      \* history: a reset and an update ran at the same time

flags == <<s_initialized, starting>>
adapter == <<s_cb_lock, s_cb, mirror>>
counts == <<calls, reported>>
history == <<opens, seen, overlapped>>
vars == <<flags, adapter, s_metrics, clock, pc, call, counts, history>>

Idle == [slow |-> FALSE, failed |-> FALSE, ops |-> 0, peak |-> 0, stores |-> 0]
Zero == [total |-> 0, failed |-> 0, fast |-> 0, slow |-> 0, trips |-> 0, peak |-> 0,
         current |-> 0]

Counted == {"enter", "peak", "swap", "leave", "path"}   \* in total, not in a path yet
Concurrent == {"peak", "swap", "leave"}
Updating == {"total"} \cup Counted

Max2(m, n) == IF m > n THEN m ELSE n

-----------------------------------------------------------------------------
(* The breaker of the commons library.                                     *)

(* cb_config_build: half_open_max_calls and success_threshold.             *)
HalfOpenMaxCalls == 1

SuccessThreshold == 1

(* cb_arm: a new breaker with the mirrored configuration.                  *)
NewBreaker(config) ==
  [state |-> "CLOSED", failures |-> 0, since |-> 0, probes |-> 0, successes |-> 0,
   threshold |-> config.threshold, timeout |-> config.timeout]

InTimeout == clock < s_cb.since + s_cb.timeout

(* cb_allow_request of an OPEN breaker whose timeout has elapsed, and of a *)
(* HALF_OPEN one.                                                          *)
Allowed ==
  \/ s_cb.state = "CLOSED"
  \/ s_cb.state = "OPEN" /\ ~InTimeout
  \/ s_cb.state = "HALF_OPEN" /\ s_cb.probes < HalfOpenMaxCalls

Asked ==
  IF s_cb.state = "CLOSED" THEN s_cb
  ELSE [s_cb EXCEPT !.state = "HALF_OPEN", !.successes = 0, !.since = 0,
                    !.probes = IF s_cb.state = "OPEN" THEN 1 ELSE @ + 1]

Closed == NewBreaker([threshold |-> s_cb.threshold, timeout |-> s_cb.timeout])

Succeeded ==
  IF s_cb.state # "HALF_OPEN" THEN [s_cb EXCEPT !.failures = 0]
  ELSE IF s_cb.successes + 1 < SuccessThreshold THEN [s_cb EXCEPT !.successes = @ + 1]
  ELSE Closed

Opened ==
  [s_cb EXCEPT !.state = "OPEN", !.since = clock, !.failures = 0, !.probes = 0]

Failed ==
  CASE s_cb.state = "OPEN" -> {s_cb, [s_cb EXCEPT !.since = clock]}
    [] s_cb.state = "HALF_OPEN" -> {Opened}
    [] OTHER -> {IF s_cb.failures + 1 < s_cb.threshold
                 THEN [s_cb EXCEPT !.failures = @ + 1] ELSE Opened}

-----------------------------------------------------------------------------
Init ==
  /\ s_initialized = FALSE /\ starting = FALSE
  /\ s_cb_lock = NoThread
  /\ s_cb = NoBreaker
  /\ mirror \in Configs
  /\ s_metrics = Zero
  /\ clock = 0
  /\ pc = [t \in Threads |-> "idle"]
  /\ call = [t \in Threads |-> Idle]
  /\ calls = 0 /\ reported = 0
  /\ opens = 0 /\ seen = 0 /\ overlapped = FALSE

Goto(t, location) == pc' = [pc EXCEPT ![t] = location]

Return(t) ==
  /\ Goto(t, "idle")
  /\ call' = [call EXCEPT ![t] = Idle]

(* heapstore_init and heapstore_shutdown are not thread safe               *)
(* (heapstore.h:158,172): no call is under way when they begin.            *)
Quiet == (\A t \in Threads : pc[t] = "idle") /\ ~starting

(* heapstore_init up to the flag.  The configuration is that of the call,  *)
(* or, when the call names no root, the one mirrored before.  Arming may   *)
(* fail and leave no breaker.                                              *)
CoreInit ==
  /\ Quiet /\ ~s_initialized
  /\ mirror' \in Configs
  /\ s_cb' \in {NewBreaker(mirror'), NoBreaker}
  /\ s_metrics' = Zero
  /\ s_initialized' = TRUE /\ starting' = TRUE
  /\ opens' = 0 /\ seen' = 0 /\ overlapped' = FALSE
  /\ UNCHANGED <<s_cb_lock, clock, pc, call, counts>>

(* The directories cannot be created: a breaker that an earlier failure    *)
(* left armed may have been re-armed with the new configuration.           *)
CoreInitRefused ==
  /\ Quiet /\ ~s_initialized
  /\ mirror' \in Configs
  /\ s_cb' \in CASE s_cb = NoBreaker -> {NoBreaker}
               [] mirror' = mirror -> {s_cb}
               [] OTHER -> {NewBreaker(mirror'), NoBreaker}
  /\ UNCHANGED <<flags, s_cb_lock, s_metrics, clock, pc, call, counts, history>>

(* Every engine has started, or one has failed and the flag is cleared,    *)
(* under the calls that saw it set; the breaker stays armed.               *)
CoreInitReturns ==
  /\ starting /\ starting' = FALSE
  /\ s_initialized' \in BOOLEAN
  /\ UNCHANGED <<adapter, s_metrics, clock, pc, call, counts, history>>

CoreShutdown ==
  /\ Quiet /\ s_initialized
  /\ s_cb' = NoBreaker
  /\ s_initialized' = FALSE
  /\ UNCHANGED <<starting, s_cb_lock, mirror, s_metrics, clock, pc, call, counts, history>>

-----------------------------------------------------------------------------
(* heapstore_circuit_open: only an OPEN breaker is asked.                  *)
Blocked == s_cb # NoBreaker /\ s_cb.state = "OPEN" /\ ~Allowed

AskBreaker ==
  s_cb' = IF s_cb # NoBreaker /\ s_cb.state = "OPEN" /\ ~Blocked THEN Asked ELSE s_cb

(* write_dispatch: the first readiness test and the question to the        *)
(* breaker.                                                                *)
CallWrite(t) ==
  /\ pc[t] = "idle" /\ s_initialized /\ s_cb_lock = NoThread
  /\ calls < MaxCalls /\ calls' = calls + 1

AdmitWrite(t) ==
  /\ CallWrite(t) /\ ~Blocked
  /\ AskBreaker
  /\ \E slow \in BOOLEAN : call' = [call EXCEPT ![t].slow = slow]
  /\ Goto(t, "admitted")
  /\ UNCHANGED <<flags, s_cb_lock, mirror, s_metrics, clock, reported, history>>

RejectWrite(t) ==
  /\ CallWrite(t) /\ Blocked
  /\ Goto(t, "rejected")
  /\ UNCHANGED <<flags, adapter, s_metrics, clock, call, reported, history>>

ReturnRejected(t) ==
  /\ pc[t] = "rejected"
  /\ Return(t)
  /\ UNCHANGED <<flags, adapter, s_metrics, clock, counts, history>>

(* The second readiness test: a failing heapstore_init may have cleared    *)
(* the flag since the first.                                               *)
CheckReady(t) ==
  /\ pc[t] = "admitted"
  /\ Goto(t, IF s_initialized THEN "record" ELSE "failing")
  /\ UNCHANGED <<flags, adapter, s_metrics, clock, call, counts, history>>

(* heapstore_log_write returns nothing: stored or not, a success is        *)
(* recorded.                                                               *)
RecordSuccess(t) ==
  /\ pc[t] = "record" /\ s_cb_lock = NoThread
  /\ s_cb' = IF s_cb = NoBreaker THEN s_cb ELSE Succeeded
  /\ Goto(t, "total")
  /\ UNCHANGED <<flags, s_cb_lock, mirror, s_metrics, clock, call, counts,
                 opens, seen, overlapped>>

-----------------------------------------------------------------------------
(* heapstore_core_metrics_update, one atomic operation after the other.    *)
Step(t, from, to) ==
  /\ pc[t] = from
  /\ Goto(t, to)
  /\ UNCHANGED <<flags, adapter, clock, counts, opens>>

UpdateTotal(t) ==
  /\ Step(t, "total", "enter")
  /\ s_metrics' = [s_metrics EXCEPT !.total = @ + 1]
  /\ overlapped' = (overlapped \/ \E u \in Threads : pc[u] = "reset")
  /\ UNCHANGED <<call, seen>>

UpdateEnter(t) ==
  /\ Step(t, "enter", "peak")
  /\ s_metrics' = [s_metrics EXCEPT !.current = @ + 1]
  /\ call' = [call EXCEPT ![t].ops = s_metrics.current + 1]
  /\ UNCHANGED <<seen, overlapped>>

Higher(t) == call[t].ops > s_metrics.peak

Witness(t) == seen' = Max2(seen, call[t].ops)

UpdatePeakLoad(t) ==
  /\ Step(t, "peak", IF Higher(t) THEN "swap" ELSE "leave")
  /\ call' = [call EXCEPT ![t].peak = s_metrics.peak]
  /\ IF Higher(t) THEN UNCHANGED seen ELSE Witness(t)
  /\ UNCHANGED <<s_metrics, overlapped>>

(* Mutant: the peak is stored without comparing.                           *)
UpdatePeakSwap_Store(t) ==
  /\ Step(t, "swap", "leave")
  /\ s_metrics' = [s_metrics EXCEPT !.peak = call[t].ops]
  /\ Witness(t)
  /\ UNCHANGED <<call, overlapped>>

(* A compare-and-swap that fails loads the peak it met and tries again     *)
(* while that is still lower.                                              *)
UpdatePeakSwap(t) ==
  \/ /\ call[t].peak = s_metrics.peak
     /\ Step(t, "swap", "leave")
     /\ s_metrics' = [s_metrics EXCEPT !.peak = call[t].ops]
     /\ Witness(t)
     /\ UNCHANGED <<call, overlapped>>
  \/ /\ call[t].peak # s_metrics.peak
     /\ Step(t, "swap", IF Higher(t) THEN "swap" ELSE "leave")
     /\ call' = [call EXCEPT ![t].peak = s_metrics.peak]
     /\ IF Higher(t) THEN UNCHANGED seen ELSE Witness(t)
     /\ UNCHANGED <<s_metrics, overlapped>>

UpdateLeave(t) ==
  /\ Step(t, "leave", "path")
  /\ s_metrics' = [s_metrics EXCEPT !.current = @ - 1]
  /\ call' = [call EXCEPT ![t].ops = 0, ![t].peak = 0]
  /\ UNCHANGED <<seen, overlapped>>

(* slow is passed for is_fast_path (heapstore_core_write.c:158).           *)
UpdatePath(t) ==
  /\ Step(t, "path", IF call[t].failed THEN "fail" ELSE "idle")
  /\ s_metrics' = IF call[t].slow THEN [s_metrics EXCEPT !.fast = @ + 1]
                  ELSE [s_metrics EXCEPT !.slow = @ + 1]
  /\ call' = IF call[t].failed THEN call ELSE [call EXCEPT ![t] = Idle]
  /\ UNCHANGED <<seen, overlapped>>

UpdateFailed(t) ==
  /\ Step(t, "fail", "idle")
  /\ s_metrics' = [s_metrics EXCEPT !.failed = @ + 1]
  /\ call' = [call EXCEPT ![t] = Idle]
  /\ UNCHANGED <<seen, overlapped>>

-----------------------------------------------------------------------------
(* Mutant: the number of operations in progress is reset, too.             *)
ResetFields_WithCurrent == <<"total", "failed", "fast", "slow", "trips", "peak",
                             "current">>

(* Mutant: the slow path is forgotten.                                     *)
ResetFields_WithoutSlow == <<"total", "failed", "fast", "trips", "peak">>

(* heapstore_reset_metrics: one store after the other.                     *)
ResetFields == <<"total", "failed", "fast", "slow", "trips", "peak">>

ResetMetrics(t) ==
  /\ pc[t] = "idle" /\ s_initialized
  /\ Goto(t, "reset")
  /\ call' = [call EXCEPT ![t].stores = 1]
  /\ overlapped' = \E u \in Threads : pc[u] \in Updating \cup {"reset"}
  /\ UNCHANGED <<flags, adapter, s_metrics, clock, counts, opens, seen>>

Noting == Cardinality({t \in Threads : pc[t] = "trip"})

ResetStore(t) ==
  /\ pc[t] = "reset"
  /\ LET i == call[t].stores
         field == ResetFields[i]
     IN  /\ s_metrics' = [s_metrics EXCEPT ![field] = 0]
         /\ opens' = IF field = "trips" THEN Noting ELSE opens
         /\ seen' = IF field = "peak" THEN 0 ELSE seen
         /\ IF i + 1 \in DOMAIN ResetFields
            THEN call' = [call EXCEPT ![t].stores = i + 1] /\ UNCHANGED pc
            ELSE Return(t)
  /\ UNCHANGED <<flags, adapter, clock, counts, overlapped>>

-----------------------------------------------------------------------------
(* Mutant: every failure of an open breaker is noted as a trip.            *)
Trips_EveryFailure(before, after) == after.state = "OPEN"

Trips(before, after) == before.state # "OPEN" /\ after.state = "OPEN"

(* heapstore_core_circuit_record_failure, in one critical section: without *)
(* a breaker it does nothing, with an opening to note it keeps the lock.   *)
Report(t, next) ==
  /\ s_cb_lock = NoThread
  /\ IF s_cb = NoBreaker THEN s_cb' = s_cb ELSE s_cb' \in Failed
  /\ IF s_cb # NoBreaker /\ Trips(s_cb, s_cb')
     THEN s_cb_lock' = t /\ Goto(t, "trip")
     ELSE UNCHANGED s_cb_lock /\ Goto(t, next)
  /\ opens' = IF s_cb # NoBreaker /\ s_cb.state # "OPEN" /\ s_cb'.state = "OPEN"
              THEN opens + 1 ELSE opens
  /\ UNCHANGED <<flags, mirror, s_metrics, clock, calls, seen, overlapped>>

(* tests/test_heapstore_circuit.c reports failures directly.               *)
RecordFailure(t) ==
  /\ pc[t] = "idle"
  /\ Report(t, "idle")
  /\ reported < MaxFailures /\ reported' = reported + 1
  /\ UNCHANGED call

(* write_dispatch reports the write that met a store no longer ready.      *)
FailWrite(t) ==
  /\ pc[t] = "failing"
  /\ Report(t, "total")
  /\ call' = [call EXCEPT ![t].failed = TRUE]
  /\ UNCHANGED reported

(* heapstore_core_metrics_note_circuit_trip, still under s_cb_lock.        *)
NoteTrip(t) ==
  /\ pc[t] = "trip"
  /\ s_metrics' = [s_metrics EXCEPT !.trips = @ + 1]
  /\ s_cb_lock' = NoThread
  /\ Goto(t, IF call[t].failed THEN "total" ELSE "idle")
  /\ UNCHANGED <<flags, s_cb, mirror, clock, call, counts, history>>

(* heapstore_health_check asks the breaker, too, and may take the probe.   *)
HealthCheck(t) ==
  /\ pc[t] = "idle" /\ s_initialized /\ s_cb_lock = NoThread
  /\ AskBreaker
  /\ UNCHANGED <<flags, s_cb_lock, mirror, s_metrics, clock, pc, call, counts,
                 history>>

(* heapstore_reset_circuit *)
ResetCircuit(t) ==
  /\ pc[t] = "idle" /\ s_initialized /\ s_cb_lock = NoThread
  /\ s_cb # NoBreaker
  /\ s_cb' = Closed
  /\ UNCHANGED <<flags, s_cb_lock, mirror, s_metrics, clock, pc, call, counts,
                 opens, seen, overlapped>>

(* Mutant: the live breaker keeps the configuration it was created with.   *)
ReloadConfig_NotArmed(t) ==
  /\ pc[t] = "idle" /\ s_initialized /\ s_cb_lock = NoThread
  /\ mirror' \in Configs \ {mirror}
  /\ UNCHANGED <<flags, s_cb_lock, s_cb, s_metrics, clock, pc, call, counts,
                 history>>

(* heapstore_reload_config, heapstore_core_circuit_apply_config: values    *)
(* that differ arm a new breaker, which may fail; the same values change   *)
(* nothing.                                                                *)
ReloadConfig(t) ==
  /\ pc[t] = "idle" /\ s_initialized /\ s_cb_lock = NoThread
  /\ mirror' \in Configs \ {mirror}
  /\ s_cb' \in {NewBreaker(mirror'), NoBreaker}
  /\ UNCHANGED <<flags, s_cb_lock, s_metrics, clock, pc, call, counts, opens, seen,
                 overlapped>>

Tick ==
  /\ clock < MaxClock
  /\ clock' = clock + 1
  /\ UNCHANGED <<flags, adapter, s_metrics, pc, call, counts, history>>

Inside(t) ==
  \/ ReturnRejected(t) \/ CheckReady(t) \/ RecordSuccess(t) \/ FailWrite(t)
  \/ UpdateTotal(t) \/ UpdateEnter(t) \/ UpdatePeakLoad(t) \/ UpdatePeakSwap(t)
  \/ UpdateLeave(t) \/ UpdatePath(t) \/ UpdateFailed(t)
  \/ ResetStore(t) \/ NoteTrip(t)

Call(t) ==
  \/ AdmitWrite(t) \/ RejectWrite(t) \/ ResetMetrics(t) \/ RecordFailure(t)
  \/ HealthCheck(t) \/ ResetCircuit(t) \/ ReloadConfig(t)

Next ==
  \/ CoreInit \/ CoreInitRefused \/ CoreInitReturns \/ CoreShutdown \/ Tick
  \/ \E t \in Threads : Inside(t) \/ Call(t)

Spec == Init /\ [][Next]_vars

-----------------------------------------------------------------------------
Counter == 0..MaxCalls
Breakers ==
  [state : {"CLOSED", "OPEN", "HALF_OPEN"}, failures : Nat,
   since : 0..MaxClock, probes : 0..HalfOpenMaxCalls, successes : 0..1,
   threshold : {c.threshold : c \in Configs}, timeout : {c.timeout : c \in Configs}]

(* Every variable holds a value of its type; a half-open breaker counts no *)
(* more probes than its configuration admits.                              *)
TypeOK ==
  /\ s_initialized \in BOOLEAN /\ starting \in BOOLEAN
  /\ s_cb_lock \in Threads \cup {NoThread}
  /\ s_cb \in Breakers \cup {NoBreaker}
  /\ mirror \in Configs
  /\ s_metrics \in [total : Counter, failed : Counter, fast : Counter, slow : Counter,
                    trips : 0..MaxFailures + MaxCalls, peak : Counter, current : Counter]
  /\ clock \in 0..MaxClock
  /\ pc \in [Threads -> {"idle", "admitted", "record", "failing", "rejected", "fail", "reset",
                        "trip"} \cup Updating]
  /\ call \in [Threads -> [slow : BOOLEAN, failed : BOOLEAN, ops : Counter, peak : Counter,
                        stores : Nat]]
  /\ calls \in Counter /\ reported \in 0..MaxFailures
  /\ \A t \in Threads : pc[t] = "trip" <=> s_cb_lock = t

(* The mirror reported to callers is the configuration the live breaker    *)
(* follows, and a closed breaker is below its threshold, reloads included: *)
(* a lowered threshold never leaves a breaker that should have opened.     *)
ConfigInForce ==
  s_cb # NoBreaker =>
    /\ [threshold |-> s_cb.threshold, timeout |-> s_cb.timeout] = mirror
    /\ s_cb.state = "CLOSED" => s_cb.failures < mirror.threshold

(* circuit_breaker_trips counts each opening once, however resets of the   *)
(* counters and of the breaker fall between an opening and its note.       *)
TripsCounted == s_metrics.trips + Noting = opens

(* current_concurrent_ops is the number of updates between their increment *)
(* and their decrement: it never wraps below zero, resets of the counters  *)
(* in the middle of updates included.                                      *)
ConcurrentOpsMatch ==
  s_metrics.current = Cardinality({t \in Threads : pc[t] \in Concurrent})

(* The peak is not below any concurrency an update has dealt with since    *)
(* the peak was reset, whatever the races of the compare-and-swap loops.   *)
PeakSeen == s_metrics.peak >= seen

(* After a reset that overlapped no update, and until one does, every      *)
(* counted operation is in one of the two paths or about to be.            *)
TotalsAgree ==
  ~overlapped /\ (\A t \in Threads : pc[t] # "reset") =>
    s_metrics.total = s_metrics.fast + s_metrics.slow
                        + Cardinality({t \in Threads : pc[t] \in Counted})
=============================================================================
