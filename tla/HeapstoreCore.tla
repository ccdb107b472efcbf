---------------------------- MODULE HeapstoreCore ----------------------------
(***************************************************************************)
(* The life cycle of the store (src/src/heapstore_core.c), the retention    *)
(* cleanup (src/src/heapstore_core_write.c) and the facade the system call  *)
(* layer uses (src/src/heapstore_integration.c).                            *)
(*                                                                         *)
(* heapstore_init starts four engines one after the other and undoes the   *)
(* ones it started when a later one fails; the flag heapstore_ready reads   *)
(* is set before the first of them.  The facade keeps a flag of its own     *)
(* over the same store.  What an engine does is modelled in its own module; *)
(* here it is up or down, its answers are chosen, and the files that        *)
(* retention looks at are their ages in days.  Of an answer only SUCCESS    *)
(* or FAILURE is kept, whatever the code.                                   *)
(*                                                                         *)
(* Calls documented as not thread safe start only when no other thread is   *)
(* inside a call; the facade's two, which the code orders by a mutex, may   *)
(* wait for each other, as long as nothing else is called meanwhile.  The   *)
(* other calls may start at any moment at which no shutdown is under way,   *)
(* while heapstore_init runs included: heapstore_ready is thread safe and   *)
(* already says yes.                                                        *)
(***************************************************************************)
EXTENDS Naturals, FiniteSets, Sequences

CONSTANTS
  Threads,    \* callers
  MaxDays,    \* retentions are 1..MaxDays days
  Requests,   \* the configurations callers pass; a field that is 0 is not set
  NoThread    \* not a thread: a free mutex

ASSUME ThreadsAssumption == IsFiniteSet(Threads) /\ NoThread \notin Threads
ASSUME DaysAssumption    == MaxDays \in Nat \ {0}
ASSUME RequestsAssumption ==
  Requests \subseteq [auto : BOOLEAN, log : 0..MaxDays, trace : 0..MaxDays]

VARIABLES
  s_initialized,             \* the flag of the core
  engines,                   \* the engines that are up
  s_config,                  \* retention settings
  s_config_lock,             \* holder of the configuration mutex
  g_integration_initialized, \* the flag of the facade
  g_integration_mutex,       \* holder of the facade's mutex
  files,                     \* the ages of the files of each retained directory
  pc, at,                    \* where a thread is, and at which engine or field
  call, arg,                 \* its call and the argument
  result,                    \* the answer of its last call, or so far
  snapshot,                  \* the settings a cleanup works with
  total,                     \* total_freed of a cleanup, and what it reports
  removed,                   \* history: the ages a cleanup removed, by directory
  in_force,                  \* history: settings in force since the call began
  bypassed                   \* history: the core was stopped under the facade

core   == <<s_initialized, engines>>
config == <<s_config, s_config_lock>>
facade == <<g_integration_initialized, g_integration_mutex, bypassed>>
frame  == <<pc, at, call, arg, result>>
cleaning == <<snapshot, total, removed, in_force>>
vars   == <<core, config, facade, files, frame, cleaning>>

StartOrder  == <<"registry", "trace", "memory", "log">>
StopOrder   == <<"log", "trace", "memory", "registry">>
HealthOrder == <<"registry", "trace", "log", "memory">>
Engines     == {"registry", "trace", "memory", "log"}

Directories == {"log", "trace"}
Days        == 1..MaxDays
Ages        == 1..(MaxDays + 1)
Configs     == [auto : BOOLEAN, log : Days, trace : Days]
DefaultConfig == [auto |-> TRUE, log |-> MaxDays, trace |-> 1]

Exclusive   == {"init", "shutdown"}
Ordered     == {"facade_init", "facade_shutdown"}
Stopping    == {"shutdown", "facade_shutdown"}
FacadeCalls == {"session_save", "session_delete", "trace_save", "trace_export",
                "logging_write"}
EngineOf(c) == CASE c \in {"session_save", "session_delete"} -> "registry"
                 [] c \in {"trace_save", "trace_export"}     -> "trace"
                 [] OTHER                                    -> "log"

NoArgument == [nothing |-> TRUE]
DryRun(dry_run) == [dry_run |-> dry_run]
NoFiles == [d \in Directories |-> {}]
InCall(t) == pc[t] # "idle"

(* The settings a request leaves: a field that is not positive is ignored.  *)
Field(old, new) == IF new > 0 THEN new ELSE old
Configured(c, r) ==
  [auto |-> r.auto, log |-> Field(c.log, r.log), trace |-> Field(c.trace, r.trace)]

Init ==
  /\ s_initialized = FALSE /\ engines = {}
  /\ s_config = DefaultConfig /\ s_config_lock = NoThread
  /\ g_integration_initialized = FALSE /\ g_integration_mutex = NoThread
  /\ bypassed = FALSE
  /\ files = [d \in Directories |-> Ages]
  /\ pc = [t \in Threads |-> "idle"] /\ at = [t \in Threads |-> 0]
  /\ call = [t \in Threads |-> "none"] /\ arg = [t \in Threads |-> NoArgument]
  /\ result = [t \in Threads |-> "SUCCESS"]
  /\ snapshot = [t \in Threads |-> DefaultConfig]
  /\ total = [t \in Threads |-> 0]
  /\ removed = [t \in Threads |-> NoFiles]
  /\ in_force = [t \in Threads |-> {}]

-----------------------------------------------------------------------------
(* Entering a call and returning from it.  MayEnter is what the headers ask *)
(* of the caller.                                                           *)

InsideOthers(t) == {call[u] : u \in {v \in Threads \ {t} : InCall(v)}}
Waiting == \E u, v \in Threads : u # v /\ {call[u], call[v]} \subseteq Ordered
MayEnter(t, c) ==
  /\ ~InCall(t)
  /\ CASE c \in Exclusive -> InsideOthers(t) = {}
       [] c \in Ordered   -> InsideOthers(t) \subseteq Ordered
       [] OTHER           -> InsideOthers(t) \cap Stopping = {} /\ ~Waiting

Enter(t, c, a, p) ==
  /\ MayEnter(t, c)
  /\ pc' = [pc EXCEPT ![t] = p] /\ at' = [at EXCEPT ![t] = 1]
  /\ call' = [call EXCEPT ![t] = c] /\ arg' = [arg EXCEPT ![t] = a]
  /\ result' = [result EXCEPT ![t] = "SUCCESS"]
  /\ in_force' = [in_force EXCEPT ![t] = IF c = "cleanup" /\ s_config_lock = NoThread
                                         THEN {s_config} ELSE {}]
  /\ UNCHANGED <<files, snapshot, total, removed>>

(* A call that is answered at once.                                         *)
Answer(t, c, r) ==
  /\ MayEnter(t, c)
  /\ result' = [result EXCEPT ![t] = r]
  /\ UNCHANGED <<core, config, facade, files, pc, at, call, arg, cleaning>>

GoOn(t, p, i) ==
  /\ pc' = [pc EXCEPT ![t] = p] /\ at' = [at EXCEPT ![t] = i]
  /\ UNCHANGED <<call, arg, result>>

Return(t, r) ==
  /\ pc' = [pc EXCEPT ![t] = "idle"] /\ at' = [at EXCEPT ![t] = 1]
  /\ call' = [call EXCEPT ![t] = "none"] /\ arg' = [arg EXCEPT ![t] = NoArgument]
  /\ result' = [result EXCEPT ![t] = r]

(* Mutant: the facade sets its flag whatever heapstore_init returned.       *)
InitReturns_AnyResult(t, r) ==
  \/ /\ call[t] = "init"
     /\ Return(t, r)
     /\ UNCHANGED <<g_integration_initialized, g_integration_mutex>>
  \/ /\ call[t] = "facade_init"
     /\ Return(t, r)
     /\ g_integration_initialized' = TRUE
     /\ g_integration_mutex' = NoThread

(* heapstore_init returns r to its caller: to the facade, which on success  *)
(* sets its flag (any failure is EIO), and releases its mutex.              *)
InitReturns(t, r) ==
  \/ /\ call[t] = "init"
     /\ Return(t, r)
     /\ UNCHANGED <<g_integration_initialized, g_integration_mutex>>
  \/ /\ call[t] = "facade_init"
     /\ Return(t, r)
     /\ g_integration_initialized' = (r = "SUCCESS")
     /\ g_integration_mutex' = NoThread

-----------------------------------------------------------------------------
(* heapstore_init.                                                          *)

CallInit(t) ==
  \/ ~s_initialized /\ Enter(t, "init", NoArgument, "config") /\ UNCHANGED <<core, config, facade>>
  \/ s_initialized /\ Answer(t, "init", "FAILURE")

(* Defaults, and over them what the request sets; the facade sends the      *)
(* defaults, and a request without a root is ignored.                       *)
InitConfig(t) ==
  /\ pc[t] = "config"
  /\ \/ s_config' = DefaultConfig
     \/ /\ call[t] = "init"
        /\ \E r \in Requests : s_config' = Configured(DefaultConfig, r)
  /\ s_config_lock' = NoThread
  /\ GoOn(t, "directories", 1)
  /\ UNCHANGED <<core, facade, files, cleaning>>

(* Before the flag is set: a failure leaves everything down.                *)
InitDirectoriesFail(t) ==
  /\ pc[t] = "directories"
  /\ InitReturns(t, "FAILURE")
  /\ UNCHANGED <<core, config, bypassed, files, cleaning>>

(* The directories, the breaker and the counters; then the flag, before the *)
(* schema is checked and before any engine is up.                           *)
InitDirectories(t) ==
  /\ pc[t] = "directories"
  /\ s_initialized' = TRUE
  /\ GoOn(t, "migrate", 1)
  /\ UNCHANGED <<engines, config, facade, files, cleaning>>

InitMigrate(t) ==
  /\ pc[t] = "migrate"
  /\ GoOn(t, "start", 1)
  /\ UNCHANGED <<core, config, facade, files, cleaning>>

InitMigrateFails(t) ==
  /\ pc[t] = "migrate"
  /\ s_initialized' = FALSE
  /\ InitReturns(t, "FAILURE")
  /\ UNCHANGED <<engines, config, bypassed, files, cleaning>>

StartEngine(t) ==
  /\ pc[t] = "start" /\ at[t] <= Len(StartOrder)
  /\ engines' = engines \cup {StartOrder[at[t]]}
  /\ GoOn(t, "start", at[t] + 1)
  /\ UNCHANGED <<s_initialized, config, facade, files, cleaning>>

(* Mutant: the unwinding begins one engine too low.                         *)
StartEngineFails_OneLeftUp(t) ==
  /\ pc[t] = "start" /\ at[t] <= Len(StartOrder)
  /\ GoOn(t, "unwind", IF at[t] > 1 THEN at[t] - 2 ELSE 0)
  /\ UNCHANGED <<core, config, facade, files, cleaning>>

StartEngineFails(t) ==
  /\ pc[t] = "start" /\ at[t] <= Len(StartOrder)
  /\ GoOn(t, "unwind", at[t] - 1)
  /\ UNCHANGED <<core, config, facade, files, cleaning>>

(* The engines that were started are stopped, the last one first.           *)
Unwind(t) ==
  /\ pc[t] = "unwind" /\ at[t] > 0
  /\ engines' = engines \ {StartOrder[at[t]]}
  /\ GoOn(t, "unwind", at[t] - 1)
  /\ UNCHANGED <<s_initialized, config, facade, files, cleaning>>

Unwound(t) ==
  /\ pc[t] = "unwind" /\ at[t] = 0
  /\ s_initialized' = FALSE
  /\ InitReturns(t, "FAILURE")
  /\ UNCHANGED <<engines, config, bypassed, files, cleaning>>

InitDone(t) ==
  /\ pc[t] = "start" /\ at[t] > Len(StartOrder)
  /\ InitReturns(t, "SUCCESS")
  /\ bypassed' = FALSE
  /\ UNCHANGED <<core, config, files, cleaning>>

-----------------------------------------------------------------------------
(* heapstore_shutdown: the engines one by one, then the flag.               *)

CallShutdown(t) ==
  \/ /\ s_initialized /\ Enter(t, "shutdown", NoArgument, "stop")
     /\ bypassed' = g_integration_initialized
     /\ UNCHANGED <<core, config, g_integration_initialized, g_integration_mutex>>
  \/ ~s_initialized /\ Answer(t, "shutdown", "SUCCESS")

StopEngine(t) ==
  /\ pc[t] = "stop" /\ s_initialized /\ at[t] <= Len(StopOrder)
  /\ engines' = engines \ {StopOrder[at[t]]}
  /\ GoOn(t, "stop", at[t] + 1)
  /\ UNCHANGED <<s_initialized, config, facade, files, cleaning>>

(* Under a store that is already down heapstore_shutdown does nothing; the  *)
(* facade clears its flag all the same.                                     *)
StopDone(t) ==
  /\ pc[t] = "stop" /\ (s_initialized => at[t] > Len(StopOrder))
  /\ s_initialized' = FALSE
  /\ Return(t, "SUCCESS")
  /\ IF call[t] = "facade_shutdown"
     THEN /\ g_integration_initialized' = FALSE
          /\ g_integration_mutex' = NoThread
          /\ bypassed' = FALSE
     ELSE UNCHANGED facade
  /\ UNCHANGED <<engines, config, files, cleaning>>

-----------------------------------------------------------------------------
(* The facade.  Its two life-cycle calls hold g_integration_mutex           *)
(* throughout; the others read its flag without it.                         *)

CallFacade(t) ==
  /\ \E c \in Ordered : Enter(t, c, NoArgument, "mutex")
  /\ UNCHANGED <<core, config, facade>>

FacadeInit(t) ==
  /\ pc[t] = "mutex" /\ call[t] = "facade_init" /\ g_integration_mutex = NoThread
  /\ ~g_integration_initialized /\ ~s_initialized
  /\ g_integration_mutex' = t
  /\ GoOn(t, "config", 1)
  /\ UNCHANGED <<core, config, g_integration_initialized, bypassed, files, cleaning>>

(* The flag says it is done; or heapstore_init refuses a store that was     *)
(* initialized without the facade.                                          *)
FacadeInitAgain(t) ==
  /\ pc[t] = "mutex" /\ call[t] = "facade_init" /\ g_integration_mutex = NoThread
  /\ g_integration_initialized \/ s_initialized
  /\ Return(t, IF g_integration_initialized THEN "SUCCESS" ELSE "FAILURE")
  /\ UNCHANGED <<core, config, facade, files, cleaning>>

FacadeShutdown(t) ==
  /\ pc[t] = "mutex" /\ call[t] = "facade_shutdown" /\ g_integration_mutex = NoThread
  /\ \/ /\ g_integration_initialized
        /\ g_integration_mutex' = t /\ GoOn(t, "stop", 1)
     \/ /\ ~g_integration_initialized
        /\ Return(t, "SUCCESS") /\ UNCHANGED g_integration_mutex
  /\ UNCHANGED <<core, config, g_integration_initialized, bypassed, files, cleaning>>

CallSyscall(t) ==
  \E c \in FacadeCalls :
    \/ g_integration_initialized /\ Enter(t, c, NoArgument, "forward") /\ UNCHANGED <<core, config, facade>>
    \/ ~g_integration_initialized /\ Answer(t, c, "FAILURE")

(* An engine that is down refuses, one that is up may.  Logging has no      *)
(* answer: SUCCESS whatever became of the line.                             *)
Forward(t) ==
  /\ pc[t] = "forward"
  /\ \/ call[t] = "logging_write" /\ Return(t, "SUCCESS")
     \/ call[t] # "logging_write" /\ EngineOf(call[t]) \in engines /\ Return(t, "SUCCESS")
     \/ call[t] # "logging_write" /\ Return(t, "FAILURE")
  /\ UNCHANGED <<core, config, facade, files, cleaning>>

-----------------------------------------------------------------------------
(* heapstore_health_check asks the engines in turn, then whether the        *)
(* breaker is open (HeapstoreCircuit).  result[t] is all_healthy so far.    *)

CallHealth(t) ==
  \/ s_initialized /\ Enter(t, "health", NoArgument, "health") /\ UNCHANGED <<core, config, facade>>
  \/ ~s_initialized /\ Answer(t, "health", "FAILURE")

(* An engine that is down is not healthy; the log is not either while a     *)
(* rotation has left it without its main file (heapstore_log.c:513).        *)
Healthy(e) ==
  {h \in BOOLEAN : IF h THEN e \in engines ELSE e \notin engines \/ e = "log"}

(* Mutant: what one engine said is overwritten by the next.                 *)
AskEngine_LastCounts(t) ==
  /\ pc[t] = "health" /\ at[t] <= Len(HealthOrder)
  /\ at' = [at EXCEPT ![t] = @ + 1]
  /\ \E healthy \in Healthy(HealthOrder[at[t]]) :
       result' = [result EXCEPT ![t] = IF healthy THEN "SUCCESS" ELSE "FAILURE"]
  /\ UNCHANGED <<pc, call, arg, core, config, facade, files, cleaning>>

AskEngine(t) ==
  /\ pc[t] = "health" /\ at[t] <= Len(HealthOrder)
  /\ at' = [at EXCEPT ![t] = @ + 1]
  /\ \E healthy \in Healthy(HealthOrder[at[t]]) :
       result' = [result EXCEPT ![t] = IF healthy THEN @ ELSE "FAILURE"]
  /\ UNCHANGED <<pc, call, arg, core, config, facade, files, cleaning>>

AskBreaker(t) ==
  /\ pc[t] = "health" /\ at[t] > Len(HealthOrder)
  /\ \E open \in BOOLEAN : Return(t, IF open THEN "FAILURE" ELSE result[t])
  /\ UNCHANGED <<core, config, facade, files, cleaning>>

(* heapstore_flush: only the trace store has something to flush.            *)
CallFlush(t) ==
  \/ /\ s_initialized
     /\ \E r \in {"SUCCESS", "FAILURE"} :
          Answer(t, "flush", IF "trace" \in engines THEN r ELSE "FAILURE")
  \/ ~s_initialized /\ Answer(t, "flush", "FAILURE")

-----------------------------------------------------------------------------
(* heapstore_reload_config: field by field, under the configuration mutex.  *)

CallReload(t) ==
  \/ /\ s_initialized
     /\ \E r \in Requests : Enter(t, "reload", r, "reload")
     /\ UNCHANGED <<core, config, facade>>
  \/ ~s_initialized /\ Answer(t, "reload", "FAILURE")

ReloadLog(t) ==
  /\ pc[t] = "reload" /\ at[t] = 1 /\ s_config_lock = NoThread
  /\ s_config_lock' = t
  /\ s_config' = [s_config EXCEPT !.log = Field(@, arg[t].log)]
  /\ GoOn(t, "reload", 2)
  /\ UNCHANGED <<core, facade, files, cleaning>>

ReloadTrace(t) ==
  /\ pc[t] = "reload" /\ at[t] = 2
  /\ s_config' = [s_config EXCEPT !.trace = Field(@, arg[t].trace)]
  /\ GoOn(t, "reload", 3)
  /\ UNCHANGED <<core, s_config_lock, facade, files, cleaning>>

ReloadDone(t) ==
  /\ pc[t] = "reload" /\ at[t] = 3
  /\ s_config' = [s_config EXCEPT !.auto = arg[t].auto]
  /\ s_config_lock' = NoThread
  /\ in_force' = [u \in Threads |->
       IF call[u] = "cleanup" THEN in_force[u] \cup {s_config'} ELSE in_force[u]]
  /\ Return(t, "SUCCESS")
  /\ UNCHANGED <<core, facade, files, snapshot, total, removed>>

-----------------------------------------------------------------------------
(* heapstore_cleanup, with or without dry_run.                                 *)

CallCleanup(t) ==
  \/ /\ s_initialized
     /\ \E dry_run \in BOOLEAN : Enter(t, "cleanup", DryRun(dry_run), "snapshot")
     /\ UNCHANGED <<core, config, facade>>
  \/ ~s_initialized /\ Answer(t, "cleanup", "FAILURE")

(* Mutant: the settings are read without the configuration mutex.           *)
Snapshot_NoLock(t) ==
  /\ pc[t] = "snapshot"
  /\ snapshot' = [snapshot EXCEPT ![t] = s_config]
  /\ GoOn(t, IF s_config.auto THEN "clean_log" ELSE "report", 1)
  /\ UNCHANGED <<core, config, facade, files, total, removed, in_force>>

Snapshot(t) ==
  /\ pc[t] = "snapshot" /\ s_config_lock = NoThread
  /\ snapshot' = [snapshot EXCEPT ![t] = s_config]
  /\ GoOn(t, IF s_config.auto THEN "clean_log" ELSE "report", 1)
  /\ UNCHANGED <<core, config, facade, files, total, removed, in_force>>

(* The files of directory d that are older than days.                       *)
Old(d, days) == {a \in files[d] : a > days}

(* One engine cleans its directory if it is up.                             *)
Clean(t, d) ==
  LET old == IF d \in engines THEN Old(d, snapshot[t][d]) ELSE {}
  IN  /\ files' = [files EXCEPT ![d] = @ \ old]
      /\ removed' = [removed EXCEPT ![t][d] = old]

CleanLog(t) ==
  /\ pc[t] = "clean_log"
  /\ Clean(t, "log")
  /\ total' = [total EXCEPT ![t] = Cardinality(removed'[t]["log"])]
  /\ pc' = [pc EXCEPT ![t] = "clean_trace"]
  /\ result' = [result EXCEPT ![t] = IF "log" \in engines THEN "SUCCESS" ELSE "FAILURE"]
  /\ UNCHANGED <<core, config, facade, at, call, arg, snapshot, in_force>>

(* What a cleanup reports: nothing of a dry run, which has removed the      *)
(* files like any other.                                                    *)
Reported(t, freed) == IF arg[t] = DryRun(TRUE) THEN 0 ELSE freed

(* The second engine runs whatever the first one answered; one failure is   *)
(* enough for the call to fail.                                             *)
CleanTrace(t) ==
  /\ pc[t] = "clean_trace"
  /\ Clean(t, "trace")
  /\ total' = [total EXCEPT ![t] = Reported(t, @ + Cardinality(removed'[t]["trace"]))]
  /\ pc' = [pc EXCEPT ![t] = "report"]
  /\ result' = [result EXCEPT ![t] = IF "trace" \in engines THEN @ ELSE "FAILURE"]
  /\ UNCHANGED <<core, config, facade, at, call, arg, snapshot, in_force>>

Report(t) ==
  /\ pc[t] = "report"
  /\ Return(t, result[t])
  /\ snapshot' = [snapshot EXCEPT ![t] = DefaultConfig]
  /\ total' = [total EXCEPT ![t] = 0]
  /\ removed' = [removed EXCEPT ![t] = NoFiles]
  /\ in_force' = [in_force EXCEPT ![t] = {}]
  /\ UNCHANGED <<core, config, facade, files>>

(* As days pass, files of every age are there again.                        *)
DaysPass ==
  /\ files' = [d \in Directories |-> Ages]
  /\ files' # files
  /\ UNCHANGED <<core, config, facade, frame, cleaning>>

-----------------------------------------------------------------------------
LifeCycle(t) ==
  \/ CallInit(t) \/ InitConfig(t) \/ InitDirectories(t) \/ InitDirectoriesFail(t)
  \/ InitMigrate(t) \/ InitMigrateFails(t) \/ StartEngine(t) \/ StartEngineFails(t)
  \/ Unwind(t) \/ Unwound(t) \/ InitDone(t)
  \/ CallShutdown(t) \/ StopEngine(t) \/ StopDone(t)
Facade(t) ==
  \/ CallFacade(t) \/ FacadeInit(t) \/ FacadeInitAgain(t) \/ FacadeShutdown(t)
  \/ CallSyscall(t) \/ Forward(t)
Service(t) ==
  \/ CallHealth(t) \/ AskEngine(t) \/ AskBreaker(t) \/ CallFlush(t)
  \/ CallReload(t) \/ ReloadLog(t) \/ ReloadTrace(t) \/ ReloadDone(t)
  \/ CallCleanup(t) \/ Snapshot(t) \/ CleanLog(t) \/ CleanTrace(t) \/ Report(t)

Next == DaysPass \/ \E t \in Threads : LifeCycle(t) \/ Facade(t) \/ Service(t)
Spec == Init /\ [][Next]_vars

(* The types, and who may hold a mutex.                                     *)
TypeOK ==
  /\ s_initialized \in BOOLEAN /\ engines \subseteq Engines
  /\ s_config \in Configs /\ s_config_lock \in Threads \cup {NoThread}
  /\ g_integration_initialized \in BOOLEAN /\ bypassed \in BOOLEAN
  /\ g_integration_mutex \in Threads \cup {NoThread}
  /\ files \in [Directories -> SUBSET Ages]
  /\ pc \in [Threads -> {"idle", "config", "directories", "migrate", "start", "unwind",
                          "stop", "mutex", "forward", "health", "reload", "snapshot",
                          "clean_log", "clean_trace", "report"}]
  /\ at \in [Threads -> 0..5]
  /\ snapshot \in [Threads -> Configs]
  /\ total \in [Threads -> Nat]
  /\ removed \in [Threads -> [Directories -> SUBSET Ages]]
  /\ in_force \in [Threads -> SUBSET Configs]

InLifeCycle(t) ==
  pc[t] \in {"config", "directories", "migrate", "start", "unwind", "stop"}

(* Whenever no life-cycle call is under way, the store is all up or all     *)
(* down, and its flag says which: every failure of heapstore_init, at       *)
(* whichever engine, undoes exactly what was started                        *)
(* (heapstore_core.c:216-285).                                              *)
EnginesFollowFlag ==
  (\A t \in Threads : ~InLifeCycle(t)) =>
    engines = IF s_initialized THEN Engines ELSE {}

(* A health check or a cleanup that is about to answer SUCCESS speaks of a  *)
(* store that is up altogether, although it asked one engine after the      *)
(* other and may have begun while heapstore_init was starting, or           *)
(* unwinding, them (heapstore_core.c:431-468, heapstore_core_write.c:196).  *)
SuccessMeansServing ==
  \A t \in Threads :
    /\ \/ pc[t] = "health" /\ at[t] > Len(HealthOrder)
       \/ pc[t] = "report" /\ snapshot[t].auto
    /\ result[t] = "SUCCESS"
    => engines = Engines

(* Under the flag of the facade the store is up, and a forwarded call finds *)
(* its engine up, unless heapstore_shutdown was called behind the facade's  *)
(* back (heapstore_integration.c:87,165): the flag of the facade is not     *)
(* told, and the next heapstore_integration_init would answer SUCCESS.      *)
FacadeServes ==
  /\ \A t \in Threads : pc[t] = "forward" => EngineOf(call[t]) \in engines \/ bypassed
  /\ g_integration_initialized /\ ~bypassed =>
       \/ s_initialized /\ engines = Engines
       \/ \E t \in Threads : pc[t] = "stop" /\ call[t] = "facade_shutdown"

(* A cleanup is honest about what it does.  It removes only files that are *)
(* older than the retention of their directory in one configuration, the   *)
(* same for both, that was in force while the cleanup ran: never a new     *)
(* retention for one and an old one for the other (heapstore_core.c:       *)
(* 331-345, 350-375).  And what it reports freed is what it removed, an    *)
(* engine that refused included (heapstore_core_write.c:196-217).  A dry   *)
(* run is held to the retention, too, but not to its report: it should     *)
(* remove nothing and report what it would remove (heapstore.h:295-296),   *)
(* and does neither.                                                       *)
RetentionHonoured ==
  \A t \in Threads : \A d \in Directories : removed[t][d] # {} =>
    \E c \in in_force[t] :
      /\ c.auto
      /\ \A e \in Directories : \A a \in removed[t][e] : a > c[e]

FreedAddsUp ==
  \A t \in Threads : pc[t] = "report" /\ arg[t] = DryRun(FALSE) =>
    total[t] = Cardinality(removed[t]["log"]) + Cardinality(removed[t]["trace"])

CleanupHonest == RetentionHonoured /\ FreedAddsUp
=============================================================================
