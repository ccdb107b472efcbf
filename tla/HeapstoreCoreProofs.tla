------------------------- MODULE HeapstoreCoreProofs -------------------------
(***************************************************************************)
(* The life cycle of the store keeps its promises for any number of        *)
(* callers, any retentions and any requests: the engines follow the flag,  *)
(* an answer SUCCESS speaks of a store that is up, the facade serves, and  *)
(* a cleanup removes only what one configuration in force lets it remove.  *)
(***************************************************************************)
EXTENDS HeapstoreCore, FiniteSetTheorems, TLAPS

Starting == {"config", "directories", "migrate", "start", "unwind"}
Cleaning == {"snapshot", "clean_log", "clean_trace", "report"}
Locations ==
  {"idle", "stop", "mutex", "forward", "health", "reload"} \cup Starting \cup Cleaning

(* The calls that need a store that is up when they are made.              *)
Asking == {"health", "reload", "cleanup"}
Plain  == Asking \cup FacadeCalls
Calls  == {"none"} \cup Exclusive \cup Ordered \cup Plain

Types ==
  /\ s_initialized \in BOOLEAN /\ engines \subseteq Engines
  /\ s_config \in Configs /\ s_config_lock \in Threads \cup {NoThread}
  /\ g_integration_initialized \in BOOLEAN /\ bypassed \in BOOLEAN
  /\ g_integration_mutex \in Threads \cup {NoThread}
  /\ files \in [Directories -> SUBSET Ages]
  /\ pc \in [Threads -> Locations] /\ at \in [Threads -> 0..5]
  /\ call \in [Threads -> Calls] /\ DOMAIN arg = Threads
  /\ result \in [Threads -> {"SUCCESS", "FAILURE"}]
  /\ snapshot \in [Threads -> Configs]
  /\ DOMAIN total = Threads
  /\ removed \in [Threads -> [Directories -> SUBSET Ages]]
  /\ in_force \in [Threads -> SUBSET Configs]

(* Where a thread is follows from what it called, and a reload has its     *)
(* request.                                                                *)
Control ==
  \A t \in Threads :
    /\ pc[t] = "idle" <=> call[t] = "none"
    /\ pc[t] \in Starting => call[t] \in {"init", "facade_init"}
    /\ pc[t] = "stop" => call[t] \in Stopping
    /\ pc[t] = "mutex" => call[t] \in Ordered
    /\ call[t] \in Exclusive \cup Ordered => pc[t] \in Starting \cup {"stop", "mutex"}
    /\ pc[t] = "forward" <=> call[t] \in FacadeCalls
    /\ pc[t] = "health" <=> call[t] = "health"
    /\ pc[t] = "reload" <=> call[t] = "reload"
    /\ pc[t] = "reload" => arg[t] \in Requests /\ at[t] \in 1..3
    /\ pc[t] \in Cleaning <=> call[t] = "cleanup"

(* What the callers keep apart: beside a life-cycle call there is only     *)
(* another call of the facade, or, beside an initialization, calls that    *)
(* use the store; and never both.                                          *)
Apart ==
  \A t, u \in Threads : t # u /\ call[u] # "none" =>
    /\ call[t] \in Exclusive \cup Ordered =>
         \/ call[t] \in Ordered /\ call[u] \in Ordered
         \/ call[t] \in {"init", "facade_init"} /\ call[u] \in Plain
    /\ call[t] \in Ordered /\ call[u] \in Ordered =>
         \A v \in Threads : call[v] \in Ordered \cup {"none"}

MutexHeld ==
  \A t \in Threads : g_integration_mutex = t <=> call[t] \in Ordered /\ InLifeCycle(t)

(* The engines that are up at each point of a life-cycle call.             *)
Up(n) == {StartOrder[i] : i \in 1..n}
LeftUp(n) == Engines \ {StopOrder[i] : i \in 1..n}
Phase(t) ==
  /\ pc[t] \in {"config", "directories"} => ~s_initialized /\ engines = {}
  /\ pc[t] = "migrate" => s_initialized /\ engines = {}
  /\ pc[t] = "start" => s_initialized /\ at[t] \in 1..5 /\ engines = Up(at[t] - 1)
  /\ pc[t] = "unwind" => s_initialized /\ at[t] \in 0..3 /\ engines = Up(at[t])
  /\ pc[t] = "stop" => at[t] \in 1..5 /\ engines = IF s_initialized THEN LeftUp(at[t] - 1) ELSE {}
Phases == EnginesFollowFlag /\ \A t \in Threads : Phase(t)

(* While the flag is down nobody asks the store, or an initialization is   *)
(* being undone; a call of the facade that waits has found it up.          *)
AskedWhileUp ==
  \A t, u \in Threads : call[u] \in Asking =>
    /\ pc[t] \notin {"config", "directories"}
    /\ pc[t] = "mutex" => s_initialized

(* The flag of the facade beside the calls that set it and rely on it.     *)
FacadeFlag ==
  \A t \in Threads :
    /\ pc[t] = "forward" => g_integration_initialized
    /\ call[t] = "facade_init" /\ InLifeCycle(t) => ~g_integration_initialized
    /\ call[t] = "shutdown" => (g_integration_initialized => bypassed)

(* An engine that is started last was asked and said yes.                  *)
Serving ==
  \A t \in Threads :
    /\ \/ pc[t] = "health" /\ at[t] >= 4
       \/ pc[t] = "clean_trace"
       \/ pc[t] = "report" /\ snapshot[t].auto
    /\ result[t] = "SUCCESS"
    => engines = Engines

(* The mutex of the configuration is held by a reload under way; while it  *)
(* is free the settings are in force for every cleanup that has begun.     *)
ConfigHeld ==
  /\ \A t \in Threads : s_config_lock = t <=> pc[t] = "reload" /\ at[t] # 1
  /\ s_config_lock = NoThread =>
       \A t \in Threads : call[t] = "cleanup" => s_config \in in_force[t]

(* How far a cleanup is, and what it has removed so far, by the settings   *)
(* it took.                                                                *)
Cleaned ==
  \A t \in Threads :
    /\ pc[t] \notin {"clean_trace", "report"} => removed[t] = NoFiles /\ total[t] = 0
    /\ pc[t] \in {"clean_log", "clean_trace", "report"} => snapshot[t] \in in_force[t]
    /\ pc[t] \in {"clean_log", "clean_trace"} => snapshot[t].auto
    /\ pc[t] = "clean_trace" =>
         total[t] = Cardinality(removed[t]["log"]) /\ removed[t]["trace"] = {}
    /\ \A d \in Directories : removed[t][d] # {} => snapshot[t].auto
    /\ \A d \in Directories : \A a \in removed[t][d] : a > snapshot[t][d]

IInv ==
  /\ Types /\ Control /\ Apart /\ MutexHeld /\ Phases /\ AskedWhileUp
  /\ FacadeFlag /\ FacadeServes /\ Serving /\ ConfigHeld /\ Cleaned /\ FreedAddsUp

-----------------------------------------------------------------------------
(* How a step moves the thread that takes it; the others stay where they   *)
(* are.                                                                    *)
FrameTypes ==
  /\ pc \in [Threads -> Locations] /\ at \in [Threads -> 0..5]
  /\ call \in [Threads -> Calls] /\ DOMAIN arg = Threads
  /\ result \in [Threads -> {"SUCCESS", "FAILURE"}]

Moves(t, p, i, c, a, r) ==
  /\ FrameTypes'
  /\ pc'[t] = p /\ at'[t] = i /\ call'[t] = c /\ arg'[t] = a /\ result'[t] = r
  /\ \A u \in Threads \ {t} :
       /\ pc'[u] = pc[u] /\ at'[u] = at[u] /\ call'[u] = call[u]
       /\ arg'[u] = arg[u] /\ result'[u] = result[u]

LEMMA EnterMoves ==
  ASSUME Types, NEW t \in Threads, NEW c \in Calls, NEW a, NEW p \in Locations,
         Enter(t, c, a, p)
  PROVE  Moves(t, p, 1, c, a, "SUCCESS") /\ MayEnter(t, c) /\ pc[t] = "idle"
BY DEF Types, FrameTypes, Enter, Moves, MayEnter, InCall

LEMMA AnswerMoves ==
  ASSUME Types, NEW t \in Threads, NEW c, NEW r \in {"SUCCESS", "FAILURE"}, Answer(t, c, r)
  PROVE  /\ Moves(t, "idle", at[t], call[t], arg[t], r) /\ pc[t] = "idle"
         /\ UNCHANGED <<core, config, facade, files, cleaning>>
BY DEF Types, FrameTypes, Answer, Moves, MayEnter, InCall

LEMMA GoOnMoves ==
  ASSUME Types, NEW t \in Threads, NEW p \in Locations, NEW i \in 0..5, GoOn(t, p, i)
  PROVE  Moves(t, p, i, call[t], arg[t], result[t])
BY DEF Types, FrameTypes, GoOn, Moves

LEMMA ReturnMoves ==
  ASSUME Types, NEW t \in Threads, NEW r \in {"SUCCESS", "FAILURE"}, Return(t, r)
  PROVE  Moves(t, "idle", 1, "none", NoArgument, r)
BY DEF Types, FrameTypes, Return, Moves, Locations, Calls

LEMMA InitReturnsMoves ==
  ASSUME Types, NEW t \in Threads, NEW r \in {"SUCCESS", "FAILURE"}, InitReturns(t, r)
  PROVE  /\ Moves(t, "idle", 1, "none", NoArgument, r)
         /\ \/ call[t] = "init" /\ UNCHANGED <<g_integration_initialized, g_integration_mutex>>
            \/ /\ call[t] = "facade_init" /\ g_integration_mutex' = NoThread
               /\ g_integration_initialized' = (r = "SUCCESS")
BY ReturnMoves DEF InitReturns

(* A call of the facade is neither of the other kinds.                     *)
LEMMA KindsOfCalls ==
  /\ Exclusive \cap Ordered = {} /\ Exclusive \cap Plain = {} /\ Ordered \cap Plain = {}
  /\ Asking \cap FacadeCalls = {} /\ "none" \notin Exclusive \cup Ordered \cup Plain
  /\ "cleanup" \notin FacadeCalls /\ "health" \notin FacadeCalls /\ "reload" \notin FacadeCalls
BY DEF Exclusive, Ordered, Plain, Asking, FacadeCalls

(* One life-cycle call at a time is past its entry.                        *)
LEMMA OneLifeCycle ==
  ASSUME Types, Control, Apart, MutexHeld,
         NEW t \in Threads, NEW u \in Threads, InLifeCycle(t), InLifeCycle(u)
  PROVE  t = u
<1>1. call[t] \in Exclusive \cup Ordered /\ call[u] \in Exclusive \cup Ordered
  BY DEF Control, InLifeCycle, Starting, Exclusive, Ordered, Stopping
<1>2. CASE call[t] \in Ordered /\ call[u] \in Ordered
  BY <1>2 DEF MutexHeld
<1>3. CASE t # u /\ (call[t] \in Exclusive \/ call[u] \in Exclusive)
  BY <1>1, <1>3, KindsOfCalls DEF Apart
<1>4. QED
  BY <1>1, <1>2, <1>3

(* Whom a thread finds inside when it enters.                              *)
LEMMA EnterAlone ==
  ASSUME Types, Control, NEW t \in Threads, NEW c \in Calls, MayEnter(t, c)
  PROVE  /\ c \in Exclusive => \A u \in Threads \ {t} : call[u] = "none"
         /\ c \in Ordered => \A u \in Threads \ {t} : call[u] \in Ordered \cup {"none"}
         /\ c \in Plain =>
              /\ \A u \in Threads \ {t} : call[u] \notin Stopping
              /\ \A u, v \in Threads : u # v => ~(call[u] \in Ordered /\ call[v] \in Ordered)
<1>1. \A u \in Threads \ {t} : call[u] # "none" => call[u] \in InsideOthers(t)
  BY DEF InsideOthers, InCall, Control
<1>2. CASE c \in Exclusive
  BY <1>1, <1>2, KindsOfCalls DEF MayEnter
<1>3. CASE c \in Ordered
  BY <1>1, <1>3, KindsOfCalls DEF MayEnter
<1>4. CASE c \in Plain
  <2>1. InsideOthers(t) \cap Stopping = {} /\ ~Waiting
    BY <1>4, KindsOfCalls DEF MayEnter
  <2>2. "none" \notin Stopping
    BY DEF Stopping
  <2>3. QED
    BY <1>1, <1>4, <2>1, <2>2, KindsOfCalls DEF Waiting
<1>5. QED
  BY <1>2, <1>3, <1>4

-----------------------------------------------------------------------------
(* A call that is answered at once moves nobody.                           *)
LEMMA AnswerKeeps ==
  ASSUME IInv, NEW t \in Threads, NEW c, NEW r \in {"SUCCESS", "FAILURE"}, Answer(t, c, r)
  PROVE  IInv'
<1>1. /\ Moves(t, "idle", at[t], call[t], arg[t], r) /\ pc[t] = "idle"
      /\ UNCHANGED <<core, config, facade, files, cleaning>>
  BY AnswerMoves DEF IInv
<1>2. pc' = pc /\ at' = at /\ call' = call /\ arg' = arg
  BY DEF Answer
<1> USE DEF core, config, facade, cleaning
<1>3. Types'
  BY <1>1 DEF IInv, Types, Moves, FrameTypes
<1>4. Control' /\ Apart' /\ MutexHeld' /\ AskedWhileUp' /\ FacadeFlag'
  BY <1>1, <1>2 DEF IInv, Control, Apart, MutexHeld, InLifeCycle, AskedWhileUp, FacadeFlag
<1>5. Phases'
  BY <1>1, <1>2 DEF IInv, Phases, Phase, EnginesFollowFlag, InLifeCycle
<1>6. FacadeServes' /\ ConfigHeld' /\ Cleaned' /\ FreedAddsUp'
  BY <1>1, <1>2 DEF IInv, FacadeServes, ConfigHeld, Cleaned, FreedAddsUp
<1>7. Serving'
  BY <1>1, <1>2 DEF IInv, Serving, Moves
<1>8. QED
  BY <1>3, <1>4, <1>5, <1>6, <1>7 DEF IInv

(* The calls, where they begin, and what they find.                        *)
Opens(c, a, p) ==
  \/ c = "init" /\ p = "config" /\ ~s_initialized
  \/ c = "shutdown" /\ p = "stop" /\ s_initialized
  \/ c \in Ordered /\ p = "mutex"
  \/ c \in FacadeCalls /\ p = "forward" /\ g_integration_initialized
  \/ c = "health" /\ p = "health" /\ s_initialized
  \/ c = "reload" /\ p = "reload" /\ s_initialized /\ a \in Requests
  \/ c = "cleanup" /\ p = "snapshot" /\ s_initialized

LEMMA OpensKinds ==
  ASSUME NEW c, NEW a, NEW p, Opens(c, a, p)
  PROVE  /\ c \in Calls /\ c # "none" /\ p \in Locations /\ p # "idle"
         /\ c \in Asking => s_initialized
BY DEF Opens, Calls, Locations, Starting, Cleaning, Exclusive, Ordered, Plain, Asking, FacadeCalls

LEMMA EnterKeeps ==
  ASSUME IInv, NEW t \in Threads, NEW c, NEW a, NEW p, Enter(t, c, a, p), Opens(c, a, p),
         UNCHANGED <<core, config, g_integration_initialized, g_integration_mutex>>,
         bypassed' = IF c = "shutdown" THEN g_integration_initialized ELSE bypassed
  PROVE  IInv'
<1> USE DEF core, config
<1>1. /\ c \in Calls /\ c # "none" /\ p \in Locations /\ p # "idle"
      /\ c \in Asking => s_initialized
  BY OpensKinds
<1>2. Types /\ Control /\ Apart /\ MutexHeld
  BY DEF IInv
<1>3. Moves(t, p, 1, c, a, "SUCCESS") /\ MayEnter(t, c) /\ pc[t] = "idle"
  BY <1>1, <1>2, EnterMoves
<1>4. /\ UNCHANGED <<files, snapshot, total, removed>>
      /\ in_force' = [in_force EXCEPT ![t] = IF c = "cleanup" /\ s_config_lock = NoThread
                                             THEN {s_config} ELSE {}]
  BY DEF Enter
<1>5. call[t] = "none"
  BY <1>2, <1>3 DEF Control
<1>6. /\ c \in Exclusive => \A u \in Threads \ {t} : call[u] = "none"
      /\ c \in Ordered => \A u \in Threads \ {t} : call[u] \in Ordered \cup {"none"}
      /\ c \in Plain =>
           /\ \A u \in Threads \ {t} : call[u] \notin Stopping
           /\ \A u, v \in Threads : u # v => ~(call[u] \in Ordered /\ call[v] \in Ordered)
  BY <1>1, <1>2, <1>3, EnterAlone
<1>7. Types'
  <2>1. bypassed' \in BOOLEAN
    BY <1>2 DEF Types
  <2>2. in_force' \in [Threads -> SUBSET Configs]
    BY <1>2, <1>4 DEF Types
  <2>3. QED
    BY <1>2, <1>3, <1>4, <2>1, <2>2 DEF Types, Moves, FrameTypes
<1>8. Control'
  <2>1. \A u \in Threads \ {t} : Control!(u)'
    BY <1>2, <1>3 DEF Control, Moves
  <2>2. Control!(t)'
    BY <1>3 DEF Moves, Opens, Starting, Cleaning, Exclusive, Ordered, FacadeCalls, Stopping
  <2>3. QED
    BY <2>1, <2>2 DEF Control
<1>9. Apart'
  <2>1. c \in Exclusive \/ c \in Ordered \/ c \in Plain
    BY <1>1 DEF Calls
  <2>2. CASE c \in Exclusive
    BY <1>3, <1>6, <2>2, KindsOfCalls DEF Apart, Moves
  <2>3. CASE c \in Ordered
    BY <1>3, <1>6, <2>3, KindsOfCalls DEF Apart, Moves
  <2>4. CASE c \in Plain
    <3>1. \A u \in Threads \ {t} : call[u] \in Exclusive \cup Ordered =>
                                     call[u] \in {"init", "facade_init"}
      BY <1>6, <2>4 DEF Exclusive, Ordered, Stopping
    <3>2. QED
      BY <1>2, <1>3, <1>6, <2>4, <3>1, KindsOfCalls DEF Apart, Moves
  <2>5. QED
    BY <2>1, <2>2, <2>3, <2>4
<1>10. /\ ~InLifeCycle(t)
       /\ \A u \in Threads : InLifeCycle(u)' <=> InLifeCycle(u) \/ (u = t /\ p \in {"config", "stop"})
  <2>1. p \in Starting \cup {"stop"} <=> p \in {"config", "stop"}
    BY DEF Opens, Starting
  <2>2. QED
    BY <1>3, <2>1 DEF InLifeCycle, Moves, Starting
<1>11. MutexHeld'
  <2>1. ~(c \in Ordered /\ p \in {"config", "stop"})
    BY KindsOfCalls DEF Opens, Exclusive, Ordered
  <2>2. g_integration_mutex # t
    BY <1>2, <1>5, KindsOfCalls DEF MutexHeld
  <2>3. SUFFICES ASSUME NEW u \in Threads
                 PROVE  g_integration_mutex' = u <=> call'[u] \in Ordered /\ InLifeCycle(u)'
    BY DEF MutexHeld
  <2>4. CASE u = t
    BY <1>3, <1>5, <1>10, <2>1, <2>2, <2>4, KindsOfCalls DEF Moves
  <2>5. CASE u # t
    BY <1>2, <1>3, <1>10, <2>5 DEF MutexHeld, Moves
  <2>6. QED
    BY <2>4, <2>5
<1>12. Phases'
  <2>1. \A u \in Threads \ {t} : Phase(u)'
    BY <1>3 DEF IInv, Phases, Phase, Moves
  <2>2. CASE p \notin {"config", "stop"}
    <3>1. Phase(t)'
      BY <1>3, <2>2 DEF Phase, Moves, Opens, Ordered, FacadeCalls
    <3>2. EnginesFollowFlag'
      BY <1>10, <2>2 DEF IInv, Phases, EnginesFollowFlag
    <3>3. QED
      BY <2>1, <3>1, <3>2 DEF Phases
  <2>3. CASE p \in {"config", "stop"}
    <3>1. c \in Exclusive
      BY <2>3 DEF Opens, Exclusive
    <3>2. \A u \in Threads : ~InLifeCycle(u)
      BY <1>2, <1>5, <1>6, <3>1 DEF Control, InLifeCycle
    <3>3. engines = IF s_initialized THEN Engines ELSE {}
      BY <3>2 DEF IInv, Phases, EnginesFollowFlag
    <3>4. LeftUp(0) = Engines
      BY DEF LeftUp
    <3>5. Phase(t)'
      BY <1>3, <2>3, <3>3, <3>4 DEF Phase, Moves, Opens, FacadeCalls
    <3>6. EnginesFollowFlag'
      BY <1>10, <2>3 DEF EnginesFollowFlag
    <3>7. QED
      BY <2>1, <3>5, <3>6 DEF Phases
  <2>4. QED
    BY <2>2, <2>3
<1>13. AskedWhileUp'
  <2>1. \A u, v \in Threads \ {t} : AskedWhileUp!(u, v)'
    BY <1>3 DEF IInv, AskedWhileUp, Moves
  <2>2. ASSUME c \in Asking, NEW u \in Threads \ {t}
        PROVE  pc[u] \notin {"config", "directories"}
    BY <1>1, <2>2 DEF IInv, Phases, Phase
  <2>3. ASSUME c \in Exclusive \cup Ordered, NEW u \in Threads \ {t}
        PROVE  call[u] \notin Asking
    BY <1>6, <2>3, KindsOfCalls DEF Plain
  <2>4. c \notin Exclusive \cup Ordered => p \notin {"config", "directories", "mutex"}
    BY DEF Opens, Exclusive, FacadeCalls
  <2>5. c \in Asking => p \notin {"config", "directories", "mutex"}
    BY <2>4, KindsOfCalls DEF Plain
  <2>6. c \in Asking => c \notin Exclusive \cup Ordered
    BY KindsOfCalls DEF Plain
  <2>7. QED
    BY <1>1, <1>3, <2>1, <2>2, <2>3, <2>4, <2>5, <2>6 DEF AskedWhileUp, Moves
<1>14. FacadeFlag'
  <2>1. CASE c = "shutdown"
    BY <1>3, <1>6, <1>10, <2>1 DEF IInv, FacadeFlag, Control, Moves, Exclusive, Opens, Ordered, FacadeCalls
  <2>2. CASE c # "shutdown"
    <3>1. c = "facade_init" => p = "mutex"
      BY DEF Opens, FacadeCalls
    <3>2. p = "forward" => g_integration_initialized
      BY DEF Opens, FacadeCalls
    <3>3. SUFFICES ASSUME NEW u \in Threads
                   PROVE  FacadeFlag!(u)'
      BY DEF FacadeFlag
    <3>4. CASE u = t
      BY <1>3, <1>10, <2>2, <3>1, <3>2, <3>4 DEF Moves
    <3>5. CASE u # t
      BY <1>3, <1>10, <2>2, <3>5 DEF IInv, FacadeFlag, Moves
    <3>6. QED
      BY <3>4, <3>5
  <2>3. QED
    BY <2>1, <2>2
<1>15. FacadeServes'
  <2>1. CASE c = "shutdown"
    <3>1. \A u \in Threads : pc'[u] # "forward"
      BY <1>2, <1>3, <1>6, <2>1, KindsOfCalls DEF Control, Moves, Exclusive, Opens, Plain, FacadeCalls
    <3>2. ~(g_integration_initialized /\ ~bypassed')
      BY <2>1
    <3>3. QED
      BY <3>1, <3>2 DEF FacadeServes
  <2>2. CASE c # "shutdown"
    <3>1. \A u \in Threads : pc[u] = "stop" /\ call[u] = "facade_shutdown"
                               => pc'[u] = "stop" /\ call'[u] = "facade_shutdown"
      BY <1>3 DEF Moves
    <3>2. \A u \in Threads \ {t} : pc'[u] = "forward" => EngineOf(call'[u]) \in engines \/ bypassed
      BY <1>3 DEF IInv, FacadeServes, Moves
    <3>3. p = "forward" => EngineOf(c) \in engines \/ bypassed
      <4>1. SUFFICES ASSUME p = "forward", ~bypassed
                     PROVE  EngineOf(c) \in engines
        OBVIOUS
      <4>2. c \in FacadeCalls /\ g_integration_initialized
        BY <4>1 DEF Opens
      <4>3. \A u \in Threads : call[u] # "facade_shutdown"
        BY <1>5, <1>6, <4>2 DEF Plain, Stopping
      <4>4. engines = Engines
        BY <4>1, <4>2, <4>3 DEF IInv, FacadeServes
      <4>5. QED
        BY <4>4 DEF EngineOf, Engines
    <3>4. QED
      BY <1>3, <2>2, <3>1, <3>2, <3>3 DEF IInv, FacadeServes, Moves
  <2>3. QED
    BY <2>1, <2>2
<1>16. Serving'
  <2>1. p \notin {"clean_trace", "report"}
    BY DEF Opens, FacadeCalls
  <2>2. QED
    BY <1>3, <1>4, <2>1 DEF IInv, Serving, Moves
<1>17. ConfigHeld'
  <2>1. \A u \in Threads : s_config_lock' = u <=> pc'[u] = "reload" /\ at'[u] # 1
    BY <1>3 DEF IInv, ConfigHeld, Moves
  <2>2. ASSUME s_config_lock = NoThread, NEW u \in Threads, call'[u] = "cleanup"
        PROVE  s_config \in in_force'[u]
    BY <1>2, <1>3, <1>4, <2>2 DEF IInv, ConfigHeld, Moves, Types
  <2>3. QED
    BY <2>1, <2>2 DEF ConfigHeld
<1>18. Cleaned' /\ FreedAddsUp'
  <2>1. p \notin {"clean_log", "clean_trace", "report"}
    BY DEF Opens, FacadeCalls
  <2>2. removed[t] = NoFiles
    BY <1>3 DEF IInv, Cleaned
  <2>3. \A u \in Threads \ {t} : in_force'[u] = in_force[u]
    BY <1>2, <1>4 DEF Types
  <2>4. Cleaned'
    BY <1>3, <1>4, <2>1, <2>3 DEF IInv, Cleaned, Moves
  <2>5. FreedAddsUp'
    BY <1>3, <1>4, <2>1 DEF IInv, FreedAddsUp, Moves
  <2>6. QED
    BY <2>4, <2>5
<1>19. QED
  BY <1>7, <1>8, <1>9, <1>11, <1>12, <1>13, <1>14, <1>15, <1>16, <1>17, <1>18 DEF IInv

-----------------------------------------------------------------------------
(* The order in which the engines are started and stopped.                 *)
LEMMA EngineOrder ==
  /\ Up(0) = {} /\ Up(4) = Engines /\ LeftUp(0) = Engines /\ LeftUp(4) = {}
  /\ \A i \in 1..4 : Up(i) = Up(i - 1) \cup {StartOrder[i]} /\ Up(i - 1) = Up(i) \ {StartOrder[i]}
  /\ \A i \in 1..4 : LeftUp(i) = LeftUp(i - 1) \ {StopOrder[i]}
  /\ \A i \in 0..3 : Up(i) # Engines /\ "log" \notin Up(i)
<1>1. /\ Up(0) = {}
      /\ Up(1) = {"registry"} /\ Up(2) = {"registry", "trace"}
      /\ Up(3) = {"registry", "trace", "memory"} /\ Up(4) = Engines
  <2>1. 1..0 = {} /\ 1..1 = {1} /\ 1..2 = {1, 2} /\ 1..3 = {1, 2, 3} /\ 1..4 = {1, 2, 3, 4}
    OBVIOUS
  <2>2. QED
    BY <2>1 DEF Up, StartOrder, Engines
<1>2. /\ LeftUp(0) = Engines
      /\ LeftUp(1) = {"trace", "memory", "registry"} /\ LeftUp(2) = {"memory", "registry"}
      /\ LeftUp(3) = {"registry"} /\ LeftUp(4) = {}
  <2>1. 1..0 = {} /\ 1..1 = {1} /\ 1..2 = {1, 2} /\ 1..3 = {1, 2, 3} /\ 1..4 = {1, 2, 3, 4}
    OBVIOUS
  <2>2. QED
    BY <2>1 DEF LeftUp, StopOrder, Engines
<1>3. \A i \in 1..4 : Up(i) = Up(i - 1) \cup {StartOrder[i]} /\ Up(i - 1) = Up(i) \ {StartOrder[i]}
  <2>1. \A i \in 1..4 : i = 1 \/ i = 2 \/ i = 3 \/ i = 4
    OBVIOUS
  <2>2. QED
    BY <1>1, <2>1 DEF StartOrder, Engines
<1>4. \A i \in 1..4 : LeftUp(i) = LeftUp(i - 1) \ {StopOrder[i]}
  <2>1. \A i \in 1..4 : i = 1 \/ i = 2 \/ i = 3 \/ i = 4
    OBVIOUS
  <2>2. QED
    BY <1>2, <2>1 DEF StopOrder, Engines
<1>5. \A i \in 0..3 : Up(i) # Engines /\ "log" \notin Up(i)
  <2>1. \A i \in 0..3 : i = 0 \/ i = 1 \/ i = 2 \/ i = 3
    OBVIOUS
  <2>2. QED
    BY <1>1, <2>1 DEF Engines
<1>6. QED
  BY <1>1, <1>2, <1>3, <1>4, <1>5

LEMMA OrderLengths == Len(StartOrder) = 4 /\ Len(StopOrder) = 4 /\ Len(HealthOrder) = 4
BY DEF StartOrder, StopOrder, HealthOrder

(* A step of a thread inside a call of the life cycle or the facade, on    *)
(* its way or back to its caller.                                          *)
OnTheWay(t, p, c) ==
  /\ pc[t] \in Starting \cup {"stop", "mutex", "forward"}
  /\ \/ p = "idle" /\ c = "none"
     \/ p \in Starting /\ c = call[t] /\ c \in {"init", "facade_init"}
     \/ p = "stop" /\ c = call[t] /\ c \in Stopping

(* What such a step leaves alone.                                          *)
LEMMA OnTheWayKeeps ==
  ASSUME IInv, NEW t \in Threads, NEW p, NEW i, NEW c, NEW a, NEW r,
         Moves(t, p, i, c, a, r), OnTheWay(t, p, c), UNCHANGED <<files, cleaning>>
  PROVE  /\ Control' /\ Apart' /\ Cleaned' /\ FreedAddsUp'
         /\ UNCHANGED config => ConfigHeld'
         /\ (engines = Engines => engines' = Engines \/ \A u \in Threads : call[u] \notin Asking)
              => Serving'
<1>1. Types /\ Control /\ Apart
  BY DEF IInv
<1>2. Control'
  <2>1. \A u \in Threads \ {t} : Control!(u)'
    BY <1>1 DEF Control, Moves
  <2>2. Control!(t)'
    BY <1>1 DEF Control, Moves, OnTheWay, Starting, Cleaning, Exclusive, Ordered, FacadeCalls,
       Stopping
  <2>3. QED
    BY <2>1, <2>2 DEF Control
<1>3. Apart'
  <2>1. \A u \in Threads : call'[u] = call[u] \/ call'[u] = "none"
    BY DEF Moves, OnTheWay
  <2>2. "none" \notin Exclusive \cup Ordered \cup Plain
    BY DEF Exclusive, Ordered, Plain, Asking, FacadeCalls
  <2>3. SUFFICES ASSUME NEW u \in Threads, NEW v \in Threads, u # v, call'[v] # "none"
                 PROVE  Apart!(u, v)!2'
    BY DEF Apart
  <2>4. call'[v] = call[v]
    BY <2>1, <2>3
  <2>5. CASE call'[u] = "none"
    BY <2>2, <2>5
  <2>6. CASE call'[u] = call[u]
    BY <1>1, <2>1, <2>3, <2>4, <2>6 DEF Apart
  <2>7. QED
    BY <2>1, <2>5, <2>6
<1>4. /\ p \notin {"clean_log", "clean_trace", "report", "snapshot", "health", "reload"}
      /\ pc[t] \notin {"clean_log", "clean_trace", "report", "snapshot", "health", "reload"}
      /\ c # "cleanup"
  BY <1>1 DEF OnTheWay, Starting, Control, Stopping, Cleaning
<1>5. Cleaned' /\ FreedAddsUp'
  <2>1. removed[t] = NoFiles /\ total[t] = 0
    BY <1>4 DEF IInv, Cleaned
  <2>2. Cleaned'
    BY <1>4, <2>1 DEF IInv, Cleaned, Moves, cleaning
  <2>3. FreedAddsUp'
    BY <1>4 DEF IInv, FreedAddsUp, Moves, cleaning
  <2>4. QED
    BY <2>2, <2>3
<1>6. ASSUME UNCHANGED config
      PROVE  ConfigHeld'
  BY <1>4, <1>6 DEF IInv, ConfigHeld, Moves, config, cleaning
<1>7. ASSUME engines = Engines => engines' = Engines \/ \A u \in Threads : call[u] \notin Asking
      PROVE  Serving'
  <2>1. SUFFICES ASSUME NEW u \in Threads, Serving!(u)!1'
                 PROVE  engines' = Engines
    BY DEF Serving
  <2>2. u # t
    BY <1>4, <2>1 DEF Moves
  <2>3. Serving!(u)!1
    BY <2>1, <2>2 DEF Moves, cleaning
  <2>4. call[u] \in Asking
    BY <1>1, <2>3 DEF Control, Cleaning, Asking
  <2>5. QED
    BY <1>7, <2>3, <2>4 DEF IInv, Serving
<1>8. QED
  BY <1>2, <1>3, <1>5, <1>6, <1>7

(* Beside a life-cycle call nobody who asks the store finds a call of the  *)
(* facade that waits.                                                      *)
LEMMA NoWaiters ==
  ASSUME Types, Control, Apart, NEW t \in Threads, InLifeCycle(t),
         NEW u \in Threads, pc[u] = "mutex", NEW v \in Threads, call[v] \in Asking
  PROVE  FALSE
<1>1. call[t] \in Exclusive \cup Ordered /\ call[u] \in Ordered /\ pc[t] # "mutex"
  BY DEF Control, InLifeCycle, Starting, Exclusive, Ordered, Stopping
<1>2. call[v] \notin Exclusive \cup Ordered \cup {"none"} /\ call[u] \notin {"none"} \cup Plain
  BY <1>1, KindsOfCalls DEF Plain
<1>3. t # u /\ t # v /\ u # v
  BY <1>1, <1>2
<1>4. CASE call[t] \in Ordered
  BY <1>1, <1>2, <1>3, <1>4 DEF Apart
<1>5. CASE call[t] \notin Ordered
  BY <1>1, <1>2, <1>3, <1>5 DEF Apart
<1>6. QED
  BY <1>4, <1>5

(* A store that is not up altogether was stopped under the facade's flag,  *)
(* if that is set, and nobody is told that it serves.                      *)
LEMMA StoppedUnderFlag ==
  ASSUME IInv, NEW t \in Threads, pc[t] \in Starting, engines # Engines
  PROVE  g_integration_initialized => bypassed
<1>1. InLifeCycle(t) /\ pc[t] # "stop"
  BY DEF InLifeCycle, Starting
<1>2. \A u \in Threads : InLifeCycle(u) => u = t
  BY <1>1, OneLifeCycle DEF IInv
<1>3. \A u \in Threads : pc[u] # "stop"
  BY <1>1, <1>2 DEF InLifeCycle
<1>4. QED
  BY <1>3 DEF IInv, FacadeServes

(* What a step of a life-cycle call that is past its entry must do for the *)
(* invariant to hold after it.                                             *)
LEMMA LifeCycleKeeps ==
  ASSUME IInv, NEW t \in Threads, NEW p, NEW i, NEW c, NEW a, NEW r,
         Moves(t, p, i, c, a, r), OnTheWay(t, p, c), InLifeCycle(t),
         UNCHANGED <<files, cleaning>>,
         s_initialized' \in BOOLEAN, engines' \subseteq Engines,
         s_config' \in Configs, s_config_lock' \in Threads \cup {NoThread},
         g_integration_initialized' \in BOOLEAN, bypassed' \in BOOLEAN,
         g_integration_mutex' = IF p = "idle" /\ call[t] \in Ordered THEN NoThread
                                ELSE g_integration_mutex,
         p # "idle" => Phase(t)',
         p = "idle" => engines' = IF s_initialized' THEN Engines ELSE {},
         p \in {"config", "directories"} => pc[t] \in {"config", "directories"},
         p # "idle" => UNCHANGED <<g_integration_initialized, bypassed>>,
         \/ UNCHANGED g_integration_initialized
         \/ call[t] = "facade_init" /\ g_integration_initialized'
         \/ call[t] = "facade_shutdown",
         \/ g_integration_initialized' => bypassed'
         \/ s_initialized' /\ engines' = Engines
         \/ p = "stop" /\ call[t] = "facade_shutdown",
         ConfigHeld',
         engines = Engines => engines' = Engines \/ \A u \in Threads : call[u] \notin Asking
  PROVE  IInv'
<1>1. Types /\ Control /\ Apart /\ MutexHeld
  BY DEF IInv
<1>2. Control' /\ Apart' /\ Cleaned' /\ FreedAddsUp' /\ Serving'
  BY OnTheWayKeeps
<1>3. /\ \A u \in Threads \ {t} : ~InLifeCycle(u) /\ ~InLifeCycle(u)'
      /\ InLifeCycle(t)' <=> p # "idle"
      /\ pc[t] # "idle" /\ call[t] # "none"
  <2>1. \A u \in Threads \ {t} : ~InLifeCycle(u)
    BY <1>1, OneLifeCycle
  <2>2. InLifeCycle(t)' <=> p # "idle"
    BY DEF InLifeCycle, Moves, OnTheWay, Starting
  <2>3. QED
    BY <1>1, <2>1, <2>2 DEF InLifeCycle, Moves, Control
<1>4. call[t] \in Exclusive \cup Ordered
  BY <1>1 DEF Control, InLifeCycle, Starting, Exclusive, Ordered, Stopping
<1>5. \A u \in Threads \ {t} : call[u] # "shutdown"
  BY <1>1, <1>3, <1>4, KindsOfCalls DEF Apart, Exclusive
<1>6. ASSUME NEW u \in Threads \ {t}, pc[u] = "forward"
      PROVE  call[t] \in {"init", "facade_init"} /\ pc[t] \in Starting /\ call[u] \in FacadeCalls
  <2>1. call[u] \in FacadeCalls /\ call[u] # "none" /\ call[u] \notin Ordered
    BY <1>1, <1>6, KindsOfCalls DEF Control, Plain
  <2>2. call[t] \in {"init", "facade_init"}
    BY <1>1, <1>4, <2>1 DEF Apart
  <2>3. QED
    BY <1>1, <2>1, <2>2 DEF Control, InLifeCycle, Stopping, Starting
<1>7. Types'
  BY <1>1 DEF Types, Moves, FrameTypes, cleaning
<1>8. MutexHeld'
  <2>1. SUFFICES ASSUME NEW u \in Threads
                 PROVE  g_integration_mutex' = u <=> call'[u] \in Ordered /\ InLifeCycle(u)'
    BY DEF MutexHeld
  <2>2. g_integration_mutex = t <=> call[t] \in Ordered
    BY <1>1 DEF MutexHeld
  <2>3. CASE u = t
    <3>1. CASE p = "idle"
      BY <1>3, <2>2, <2>3, <3>1, ThreadsAssumption
    <3>2. CASE p # "idle"
      BY <1>3, <2>2, <2>3, <3>2 DEF Moves, OnTheWay
    <3>3. QED
      BY <3>1, <3>2
  <2>4. CASE u # t
    BY <1>1, <1>3, <2>4, ThreadsAssumption DEF MutexHeld
  <2>5. QED
    BY <2>3, <2>4
<1>9. Phases'
  <2>1. \A u \in Threads \ {t} : Phase(u)'
    BY <1>3 DEF Phase, InLifeCycle
  <2>2. CASE p = "idle"
    <3>1. Phase(t)'
      BY <2>2 DEF Phase, Moves
    <3>2. QED
      BY <2>1, <2>2, <3>1 DEF Phases, EnginesFollowFlag
  <2>3. CASE p # "idle"
    BY <1>3, <2>1, <2>3 DEF Phases, EnginesFollowFlag
  <2>4. QED
    BY <2>2, <2>3
<1>10. AskedWhileUp'
  <2>1. SUFFICES ASSUME NEW u \in Threads, NEW v \in Threads, call'[v] \in Asking
                 PROVE  /\ pc'[u] \notin {"config", "directories"}
                        /\ pc'[u] = "mutex" => s_initialized'
    BY DEF AskedWhileUp
  <2>2. call[v] \in Asking
    BY <2>1, KindsOfCalls DEF Moves, OnTheWay, Plain
  <2>3. pc'[u] \notin {"config", "directories"}
    <3>1. pc[u] \notin {"config", "directories"}
      BY <2>2 DEF IInv, AskedWhileUp
    <3>2. QED
      BY <3>1 DEF Moves
  <2>4. pc'[u] # "mutex"
    <3>1. p # "mutex"
      BY DEF OnTheWay, Starting
    <3>2. CASE u # t
      BY <1>1, <2>2, <3>2, NoWaiters DEF Moves
    <3>3. QED
      BY <3>1, <3>2 DEF Moves
  <2>5. QED
    BY <2>3, <2>4
<1>11. FacadeFlag'
  <2>1. SUFFICES ASSUME NEW u \in Threads
                 PROVE  FacadeFlag!(u)'
    BY DEF FacadeFlag
  <2>2. CASE u = t
    <3>1. p # "forward" /\ (p = "idle" => c = "none") /\ (p # "idle" => c = call[t])
      BY DEF OnTheWay, Starting
    <3>2. QED
      BY <1>3, <2>2, <3>1 DEF IInv, FacadeFlag, Moves
  <2>3. CASE u # t
    <3>1. pc'[u] = "forward" => g_integration_initialized'
      BY <1>6, <2>3 DEF IInv, FacadeFlag, Moves
    <3>2. QED
      BY <1>3, <1>5, <2>3, <3>1 DEF Moves
  <2>4. QED
    BY <2>2, <2>3
<1>12. FacadeServes'
  <2>1. ASSUME NEW u \in Threads, pc'[u] = "forward"
        PROVE  EngineOf(call'[u]) \in engines' \/ bypassed'
    <3>1. u # t
      BY <2>1 DEF Moves, OnTheWay, Starting
    <3>2. call[t] \in {"init", "facade_init"} /\ call'[u] \in FacadeCalls
      BY <1>6, <2>1, <3>1 DEF Moves
    <3>3. g_integration_initialized'
      BY <1>11, <2>1 DEF FacadeFlag
    <3>4. bypassed' \/ engines' = Engines
      BY <3>2, <3>3
    <3>5. EngineOf(call'[u]) \in Engines
      BY DEF EngineOf, Engines
    <3>6. QED
      BY <3>4, <3>5
  <2>2. ASSUME g_integration_initialized', ~bypassed'
        PROVE  \/ s_initialized' /\ engines' = Engines
               \/ \E u \in Threads : pc'[u] = "stop" /\ call'[u] = "facade_shutdown"
    BY <2>2 DEF Moves, OnTheWay
  <2>3. QED
    BY <2>1, <2>2 DEF FacadeServes
<1>13. QED
  BY <1>2, <1>7, <1>8, <1>9, <1>10, <1>11, <1>12 DEF IInv

-----------------------------------------------------------------------------
(* The steps of heapstore_init.                                            *)
LEMMA ConfiguredType ==
  ASSUME NEW r \in Requests
  PROVE  DefaultConfig \in Configs /\ Configured(DefaultConfig, r) \in Configs
<1>1. MaxDays \in Days /\ 1 \in Days
  BY DaysAssumption DEF Days
<1>2. r.auto \in BOOLEAN /\ r.log \in 0..MaxDays /\ r.trace \in 0..MaxDays
  BY RequestsAssumption
<1>3. Field(MaxDays, r.log) \in Days /\ Field(1, r.trace) \in Days
  BY <1>1, <1>2 DEF Field, Days
<1>4. QED
  BY <1>1, <1>2, <1>3 DEF Configured, DefaultConfig, Configs

LEMMA DefaultType == DefaultConfig \in Configs
BY DaysAssumption DEF DefaultConfig, Configs, Days

LEMMA InitConfigKeeps ==
  ASSUME IInv, NEW t \in Threads, InitConfig(t)
  PROVE  IInv'
<1> USE DEF core, facade
<1>1. /\ pc[t] = "config" /\ GoOn(t, "directories", 1) /\ s_config_lock' = NoThread
      /\ UNCHANGED <<core, facade, files, cleaning>>
  BY DEF InitConfig
<1>2. Types /\ Control
  BY DEF IInv
<1>3. Moves(t, "directories", 1, call[t], arg[t], result[t])
  BY <1>1, <1>2, GoOnMoves DEF Locations, Starting
<1>4. InLifeCycle(t) /\ OnTheWay(t, "directories", call[t])
  BY <1>1, <1>2 DEF InLifeCycle, OnTheWay, Control, Starting
<1>5. s_config' \in Configs
  BY DefaultType, ConfiguredType DEF InitConfig
<1>6. Phase(t)'
  BY <1>1, <1>3 DEF IInv, Phases, Phase, Moves
<1>7. engines = {} /\ engines # Engines
  BY <1>1 DEF IInv, Phases, Phase, Engines
<1>8. g_integration_initialized' => bypassed'
  BY <1>1, <1>7, StoppedUnderFlag DEF Starting
<1>9. ConfigHeld'
  <2>1. \A u \in Threads : call[u] \notin Asking
    BY <1>1 DEF IInv, AskedWhileUp
  <2>2. \A u \in Threads : pc'[u] # "reload" /\ call'[u] # "cleanup"
    BY <1>1, <1>2, <1>3, <2>1 DEF Moves, Control, Asking
  <2>3. QED
    BY <1>1, <2>2, ThreadsAssumption DEF ConfigHeld
<1>10. QED
  BY <1>1, <1>2, <1>3, <1>4, <1>5, <1>6, <1>7, <1>8, <1>9, LifeCycleKeeps DEF Types

(* heapstore_init returns before or after the store was brought up.        *)
LEMMA InitReturnsKeeps ==
  ASSUME IInv, NEW t \in Threads, NEW r \in {"SUCCESS", "FAILURE"}, InitReturns(t, r),
         pc[t] \in Starting, UNCHANGED <<config, files, cleaning>>,
         s_initialized' = (r = "SUCCESS"), engines' = engines,
         engines = (IF r = "SUCCESS" THEN Engines ELSE {}),
         bypassed' = (r # "SUCCESS" /\ bypassed)
  PROVE  IInv'
<1> USE DEF config
<1>1. Types /\ Control
  BY DEF IInv
<1>2. /\ Moves(t, "idle", 1, "none", NoArgument, r)
      /\ \/ call[t] = "init" /\ UNCHANGED <<g_integration_initialized, g_integration_mutex>>
         \/ /\ call[t] = "facade_init" /\ g_integration_mutex' = NoThread
            /\ g_integration_initialized' = (r = "SUCCESS")
  BY <1>1, InitReturnsMoves
<1>3. InLifeCycle(t) /\ OnTheWay(t, "idle", "none")
  BY DEF InLifeCycle, OnTheWay, Starting
<1>4. g_integration_mutex' = IF "idle" = "idle" /\ call[t] \in Ordered THEN NoThread
                             ELSE g_integration_mutex
  BY <1>2 DEF Ordered
<1>5. /\ g_integration_initialized' \in BOOLEAN
      /\ \/ UNCHANGED g_integration_initialized
         \/ call[t] = "facade_init" /\ g_integration_initialized'
  <2>1. CASE call[t] = "init"
    BY <1>1, <1>2, <2>1 DEF Types
  <2>2. CASE call[t] = "facade_init"
    <3>1. g_integration_initialized = FALSE
      BY <1>1, <1>3, <2>2 DEF IInv, FacadeFlag, Types
    <3>2. QED
      BY <1>2, <2>2, <3>1
  <2>3. QED
    BY <1>2, <2>1, <2>2
<1>6. s_initialized' \in BOOLEAN /\ bypassed' \in BOOLEAN
  OBVIOUS
<1>7. \/ g_integration_initialized' => bypassed'
      \/ s_initialized' /\ engines' = Engines
  <2>1. CASE r = "SUCCESS"
    BY <2>1
  <2>2. CASE r # "SUCCESS"
    <3>1. engines # Engines
      BY <2>2 DEF Engines
    <3>2. g_integration_initialized => bypassed
      BY <3>1, StoppedUnderFlag
    <3>3. QED
      BY <1>2, <2>2, <3>2
  <2>3. QED
    BY <2>1, <2>2
<1>8. ConfigHeld'
  BY <1>2, <1>3, OnTheWayKeeps
<1>9. engines' = IF s_initialized' THEN Engines ELSE {}
  OBVIOUS
<1>10. QED
  BY <1>1, <1>2, <1>3, <1>4, <1>5, <1>6, <1>7, <1>8, <1>9, LifeCycleKeeps DEF Types

LEMMA InitEndsKeeps ==
  ASSUME IInv, NEW t \in Threads,
         InitDirectoriesFail(t) \/ InitMigrateFails(t) \/ Unwound(t) \/ InitDone(t)
  PROVE  IInv'
<1>1. Types /\ Phase(t)
  BY DEF IInv, Phases
<1> USE DEF core
<1>2. CASE InitDirectoriesFail(t)
  <2>1. /\ pc[t] = "directories" /\ InitReturns(t, "FAILURE")
        /\ UNCHANGED <<core, config, bypassed, files, cleaning>>
    BY <1>2 DEF InitDirectoriesFail
  <2>2. s_initialized' = FALSE /\ engines = {} /\ engines' = engines /\ bypassed' = bypassed
    BY <1>1, <2>1 DEF Phase, Types
  <2>3. QED
    BY <1>1, <2>1, <2>2, InitReturnsKeeps DEF Starting, Types
<1>3. CASE InitMigrateFails(t)
  <2>1. /\ pc[t] = "migrate" /\ InitReturns(t, "FAILURE") /\ s_initialized' = FALSE
        /\ UNCHANGED <<engines, config, bypassed, files, cleaning>>
    BY <1>3 DEF InitMigrateFails
  <2>2. engines = {}
    BY <1>1, <2>1 DEF Phase
  <2>3. QED
    BY <1>1, <2>1, <2>2, InitReturnsKeeps DEF Starting, Types
<1>4. CASE Unwound(t)
  <2>1. /\ pc[t] = "unwind" /\ at[t] = 0 /\ InitReturns(t, "FAILURE") /\ s_initialized' = FALSE
        /\ UNCHANGED <<engines, config, bypassed, files, cleaning>>
    BY <1>4 DEF Unwound
  <2>2. engines = {}
    BY <1>1, <2>1, EngineOrder DEF Phase
  <2>3. QED
    BY <1>1, <2>1, <2>2, InitReturnsKeeps DEF Starting, Types
<1>5. CASE InitDone(t)
  <2>1. /\ pc[t] = "start" /\ at[t] > 4 /\ InitReturns(t, "SUCCESS") /\ bypassed' = FALSE
        /\ UNCHANGED <<core, config, files, cleaning>>
    BY <1>5, OrderLengths DEF InitDone
  <2>2. at[t] - 1 = 4
    BY <1>1, <2>1 DEF Phase
  <2>3. s_initialized /\ engines = Up(4)
    BY <1>1, <2>1, <2>2 DEF Phase
  <2>4. s_initialized' = TRUE /\ engines = Engines
    BY <1>1, <2>1, <2>3, EngineOrder DEF Types
  <2>5. QED
    BY <1>1, <2>1, <2>4, InitReturnsKeeps DEF Starting
<1>6. QED
  BY <1>2, <1>3, <1>4, <1>5

(* The steps on the way up, and on the way down again after a failure.     *)
LEMMA InitGoesOnKeeps ==
  ASSUME IInv, NEW t \in Threads, NEW p \in {"migrate", "start", "unwind"}, NEW i \in 0..5,
         GoOn(t, p, i), pc[t] \in Starting, Phase(t)', engines # Engines,
         engines' \subseteq Engines, s_initialized' = TRUE,
         UNCHANGED <<config, facade, files, cleaning>>
  PROVE  IInv'
<1> USE DEF config, facade
<1>1. Types /\ Control
  BY DEF IInv
<1>2. Moves(t, p, i, call[t], arg[t], result[t])
  BY <1>1, GoOnMoves DEF Locations, Starting
<1>3. InLifeCycle(t) /\ OnTheWay(t, p, call[t])
  BY <1>1 DEF InLifeCycle, OnTheWay, Control, Starting
<1>4. g_integration_initialized' => bypassed'
  BY StoppedUnderFlag
<1>5. ConfigHeld'
  BY <1>2, <1>3, OnTheWayKeeps
<1>6. QED
  BY <1>1, <1>2, <1>3, <1>4, <1>5, LifeCycleKeeps DEF Types

LEMMA InitStepsKeep ==
  ASSUME IInv, NEW t \in Threads,
         \/ InitDirectories(t) \/ InitMigrate(t) \/ StartEngine(t) \/ StartEngineFails(t)
         \/ Unwind(t)
  PROVE  IInv'
<1>1. Types /\ Phase(t)
  BY DEF IInv, Phases
<1> USE DEF core
<1>2. CASE InitDirectories(t)
  <2>1. /\ pc[t] = "directories" /\ s_initialized' = TRUE /\ GoOn(t, "migrate", 1)
        /\ UNCHANGED <<engines, config, facade, files, cleaning>>
    BY <1>2 DEF InitDirectories
  <2>2. engines = {}
    BY <1>1, <2>1 DEF Phase
  <2>3. Phase(t)'
    BY <1>1, <2>1, <2>2 DEF Phase, GoOn, Types
  <2>4. QED
    BY <1>1, <2>1, <2>2, <2>3, InitGoesOnKeeps DEF Starting, Engines
<1>3. CASE InitMigrate(t)
  <2>1. /\ pc[t] = "migrate" /\ GoOn(t, "start", 1)
        /\ UNCHANGED <<core, config, facade, files, cleaning>>
    BY <1>3 DEF InitMigrate
  <2>2. engines = {} /\ s_initialized
    BY <1>1, <2>1 DEF Phase
  <2>3. Phase(t)'
    BY <1>1, <2>1, <2>2, EngineOrder DEF Phase, GoOn, Types
  <2>4. s_initialized' = TRUE
    BY <1>1, <2>1, <2>2 DEF Types
  <2>5. QED
    BY <1>1, <2>1, <2>2, <2>3, <2>4, InitGoesOnKeeps DEF Starting, Engines
<1>4. CASE StartEngine(t)
  <2>1. /\ pc[t] = "start" /\ at[t] <= 4 /\ engines' = engines \cup {StartOrder[at[t]]}
        /\ GoOn(t, "start", at[t] + 1)
        /\ UNCHANGED <<s_initialized, config, facade, files, cleaning>>
    BY <1>4, OrderLengths DEF StartEngine
  <2>2. s_initialized /\ at[t] \in 1..4 /\ engines = Up(at[t] - 1)
    BY <1>1, <2>1 DEF Phase
  <2>3. engines' = Up(at[t])
    BY <2>1, <2>2, EngineOrder
  <2>4. engines # Engines
    BY <2>2, EngineOrder
  <2>5. pc'[t] = "start" /\ at'[t] = at[t] + 1
    BY <1>1, <2>1 DEF GoOn, Types
  <2>6. Phase(t)'
    <3>1. at'[t] \in 1..5 /\ at'[t] - 1 = at[t]
      BY <2>2, <2>5
    <3>2. QED
      BY <2>1, <2>2, <2>3, <2>5, <3>1 DEF Phase
  <2>7. s_initialized' = TRUE /\ engines' \subseteq Engines
    <3>1. at[t] = 1 \/ at[t] = 2 \/ at[t] = 3 \/ at[t] = 4
      BY <2>2
    <3>2. StartOrder[at[t]] \in Engines
      BY <3>1 DEF StartOrder, Engines
    <3>3. QED
      BY <1>1, <2>1, <2>2, <3>2 DEF Types
  <2>8. at[t] + 1 \in 0..5
    BY <2>2
  <2>9. QED
    BY <2>1, <2>4, <2>6, <2>7, <2>8, InitGoesOnKeeps DEF Starting
<1>5. CASE StartEngineFails(t)
  <2>1. /\ pc[t] = "start" /\ at[t] <= 4 /\ GoOn(t, "unwind", at[t] - 1)
        /\ UNCHANGED <<core, config, facade, files, cleaning>>
    BY <1>5, OrderLengths DEF StartEngineFails
  <2>2. s_initialized /\ at[t] \in 1..4 /\ engines = Up(at[t] - 1)
    BY <1>1, <2>1 DEF Phase
  <2>3. engines # Engines
    BY <2>2, EngineOrder
  <2>4. pc'[t] = "unwind" /\ at'[t] = at[t] - 1
    BY <1>1, <2>1 DEF GoOn, Types
  <2>5. Phase(t)'
    BY <2>1, <2>2, <2>4 DEF Phase
  <2>6. s_initialized' = TRUE /\ engines' \subseteq Engines /\ at[t] - 1 \in 0..5
    BY <1>1, <2>1, <2>2 DEF Types
  <2>7. QED
    BY <2>1, <2>3, <2>5, <2>6, InitGoesOnKeeps DEF Starting
<1>6. CASE Unwind(t)
  <2>1. /\ pc[t] = "unwind" /\ at[t] > 0 /\ engines' = engines \ {StartOrder[at[t]]}
        /\ GoOn(t, "unwind", at[t] - 1)
        /\ UNCHANGED <<s_initialized, config, facade, files, cleaning>>
    BY <1>6 DEF Unwind
  <2>2. s_initialized /\ at[t] \in 1..3 /\ engines = Up(at[t])
    BY <1>1, <2>1 DEF Phase
  <2>3. engines' = Up(at[t] - 1) /\ engines # Engines
    BY <2>1, <2>2, EngineOrder
  <2>4. pc'[t] = "unwind" /\ at'[t] = at[t] - 1
    BY <1>1, <2>1 DEF GoOn, Types
  <2>5. Phase(t)'
    BY <2>1, <2>2, <2>3, <2>4 DEF Phase
  <2>6. s_initialized' = TRUE /\ engines' \subseteq Engines /\ at[t] - 1 \in 0..5
    BY <1>1, <2>1, <2>2 DEF Types
  <2>7. QED
    BY <2>1, <2>3, <2>5, <2>6, InitGoesOnKeeps DEF Starting
<1>7. QED
  BY <1>2, <1>3, <1>4, <1>5, <1>6

-----------------------------------------------------------------------------
(* heapstore_shutdown, called by itself or by the facade.                  *)
LEMMA NobodyAsksStopping ==
  ASSUME Types, Control, Apart, NEW t \in Threads, pc[t] = "stop"
  PROVE  \A u \in Threads : call[u] \notin Asking
<1>1. call[t] \in Stopping
  BY DEF Control
<1>2. ASSUME NEW u \in Threads, call[u] \in Asking
      PROVE  FALSE
  <2>1. call[u] \notin Exclusive \cup Ordered \cup {"none"} /\ call[t] \in Exclusive \cup Ordered
    BY <1>1, <1>2, KindsOfCalls DEF Plain, Stopping, Exclusive, Ordered
  <2>2. t # u /\ call[t] \notin {"init", "facade_init"}
    BY <1>1, <2>1 DEF Stopping
  <2>3. QED
    BY <2>1, <2>2 DEF Apart
<1>3. QED
  BY <1>2

LEMMA StopEngineKeeps ==
  ASSUME IInv, NEW t \in Threads, StopEngine(t)
  PROVE  IInv'
<1> USE DEF config, facade
<1>1. /\ pc[t] = "stop" /\ s_initialized /\ at[t] <= 4
      /\ engines' = engines \ {StopOrder[at[t]]} /\ GoOn(t, "stop", at[t] + 1)
      /\ UNCHANGED <<s_initialized, config, facade, files, cleaning>>
  BY OrderLengths DEF StopEngine
<1>2. Types /\ Control /\ Apart /\ Phase(t)
  BY DEF IInv, Phases
<1>3. at[t] \in 1..4 /\ engines = LeftUp(at[t] - 1)
  BY <1>1, <1>2 DEF Phase
<1>4. at[t] + 1 \in 0..5
  BY <1>3
<1>5. Moves(t, "stop", at[t] + 1, call[t], arg[t], result[t])
  BY <1>1, <1>2, <1>4, GoOnMoves DEF Locations
<1>6. InLifeCycle(t) /\ OnTheWay(t, "stop", call[t]) /\ call[t] \in Stopping
  BY <1>1, <1>2 DEF InLifeCycle, OnTheWay, Control
<1>7. Phase(t)'
  <2>1. engines' = LeftUp(at[t])
    BY <1>1, <1>3, EngineOrder
  <2>2. pc'[t] = "stop" /\ at'[t] \in 1..5 /\ at'[t] - 1 = at[t] /\ s_initialized'
    BY <1>1, <1>3, <1>5 DEF Moves
  <2>3. QED
    BY <2>1, <2>2 DEF Phase
<1>8. \A u \in Threads : call[u] \notin Asking
  BY <1>1, <1>2, NobodyAsksStopping
<1>9. ConfigHeld'
  BY <1>1, <1>5, <1>6, OnTheWayKeeps
<1>10. \/ g_integration_initialized' => bypassed'
       \/ call[t] = "facade_shutdown"
  BY <1>1, <1>6 DEF IInv, FacadeFlag, Stopping
<1>11. engines' \subseteq Engines
  BY <1>1, <1>2 DEF Types
<1>12. QED
  BY <1>1, <1>2, <1>5, <1>6, <1>7, <1>8, <1>9, <1>10, <1>11, LifeCycleKeeps DEF Types

LEMMA StopDoneKeeps ==
  ASSUME IInv, NEW t \in Threads, StopDone(t)
  PROVE  IInv'
<1> USE DEF config, facade
<1>1. /\ pc[t] = "stop" /\ (s_initialized => at[t] > 4) /\ s_initialized' = FALSE
      /\ Return(t, "SUCCESS") /\ UNCHANGED <<engines, config, files, cleaning>>
  BY OrderLengths DEF StopDone
<1>2. Types /\ Control /\ Apart /\ Phase(t)
  BY DEF IInv, Phases
<1>3. Moves(t, "idle", 1, "none", NoArgument, "SUCCESS")
  BY <1>1, <1>2, ReturnMoves
<1>4. InLifeCycle(t) /\ OnTheWay(t, "idle", "none") /\ call[t] \in Stopping
  BY <1>1, <1>2 DEF InLifeCycle, OnTheWay, Control
<1>5. engines = {}
  <2>1. CASE s_initialized
    <3>1. at[t] - 1 = 4
      BY <1>1, <1>2, <2>1 DEF Phase
    <3>2. engines = LeftUp(4)
      BY <1>1, <1>2, <2>1, <3>1 DEF Phase
    <3>3. QED
      BY <3>2, EngineOrder
  <2>2. CASE ~s_initialized
    BY <1>1, <1>2, <2>2 DEF Phase
  <2>3. QED
    BY <2>1, <2>2
<1>6. \A u \in Threads : call[u] \notin Asking
  BY <1>1, <1>2, NobodyAsksStopping
<1>7. ConfigHeld'
  BY <1>1, <1>3, <1>4, OnTheWayKeeps
<1>8. CASE call[t] = "facade_shutdown"
  <2>1. /\ g_integration_initialized' = FALSE /\ g_integration_mutex' = NoThread
        /\ bypassed' = FALSE
    BY <1>8 DEF StopDone
  <2>2. call[t] \in Ordered
    BY <1>8 DEF Ordered
  <2>3. /\ g_integration_initialized' \in BOOLEAN /\ bypassed' \in BOOLEAN
        /\ ~g_integration_initialized'
    BY <2>1
  <2>4. s_initialized' \in BOOLEAN /\ ~s_initialized'
    BY <1>1
  <2>5. QED
    BY <1>1, <1>2, <1>3, <1>4, <1>5, <1>6, <1>7, <1>8, <2>1, <2>2, <2>3, <2>4, LifeCycleKeeps DEF Types
<1>9. CASE call[t] # "facade_shutdown"
  <2>1. UNCHANGED <<g_integration_initialized, g_integration_mutex, bypassed>>
    BY <1>9 DEF StopDone
  <2>2. call[t] = "shutdown" /\ call[t] \notin Ordered
    BY <1>4, <1>9 DEF Stopping, Ordered
  <2>3. g_integration_initialized' => bypassed'
    BY <2>1, <2>2 DEF IInv, FacadeFlag
  <2>4. s_initialized' \in BOOLEAN /\ ~s_initialized'
    BY <1>1
  <2>5. QED
    BY <1>1, <1>2, <1>3, <1>4, <1>5, <1>6, <1>7, <2>1, <2>2, <2>3, <2>4, LifeCycleKeeps DEF Types
<1>10. QED
  BY <1>8, <1>9

-----------------------------------------------------------------------------
(* The facade's calls, once they have the mutex or its flag.               *)
LEMMA FacadeMoveKeeps ==
  ASSUME IInv, NEW t \in Threads, NEW p \in {"idle", "config", "stop"}, NEW c, NEW a, NEW r,
         Moves(t, p, 1, c, a, r), OnTheWay(t, p, c), pc[t] \in {"mutex", "forward"},
         UNCHANGED <<core, config, g_integration_initialized, bypassed, files, cleaning>>,
         p # "idle" => pc[t] = "mutex" /\ g_integration_mutex = NoThread,
         p = "config" => ~s_initialized /\ ~g_integration_initialized,
         p = "stop" => c = "facade_shutdown",
         g_integration_mutex' = IF p = "idle" THEN g_integration_mutex ELSE t
  PROVE  IInv'
<1> USE DEF core
<1>1. Types /\ Control /\ Apart /\ MutexHeld
  BY DEF IInv
<1>2. Control' /\ Apart' /\ Cleaned' /\ FreedAddsUp' /\ Serving' /\ ConfigHeld'
  BY OnTheWayKeeps
<1>3. /\ ~InLifeCycle(t)
      /\ InLifeCycle(t)' <=> p # "idle"
      /\ \A u \in Threads \ {t} : InLifeCycle(u)' <=> InLifeCycle(u)
  BY DEF InLifeCycle, Moves
<1>4. p # "idle" => c = call[t] /\ c \in Ordered
  BY <1>1 DEF OnTheWay, Control, Starting
<1>5. ASSUME p # "idle", NEW u \in Threads
      PROVE  ~InLifeCycle(u)
  <2>1. call[t] \in Ordered /\ call[t] # "none" /\ call[t] \notin Plain /\ call[t] \notin Exclusive
    BY <1>4, <1>5, KindsOfCalls
  <2>2. CASE call[u] \in Ordered
    BY <1>1, <1>5, <2>2, ThreadsAssumption DEF MutexHeld
  <2>3. CASE call[u] \notin Ordered
    <3>1. call[u] \notin Exclusive
      BY <1>1, <2>1, <2>3 DEF Apart
    <3>2. QED
      BY <1>1, <2>3, <3>1 DEF Control, InLifeCycle, Starting, Exclusive, Ordered, Stopping
  <2>4. QED
    BY <2>2, <2>3
<1>6. Types'
  BY <1>1 DEF Types, Moves, FrameTypes, config, cleaning
<1>7. MutexHeld'
  <2>1. SUFFICES ASSUME NEW u \in Threads
                 PROVE  g_integration_mutex' = u <=> call'[u] \in Ordered /\ InLifeCycle(u)'
    BY DEF MutexHeld
  <2>2. CASE p = "idle"
    BY <1>1, <1>3, <2>2 DEF MutexHeld, Moves
  <2>3. CASE p # "idle"
    BY <1>3, <1>4, <1>5, <2>3 DEF Moves
  <2>4. QED
    BY <2>2, <2>3
<1>8. Phases'
  <2>1. \A u \in Threads \ {t} : Phase(u)'
    BY DEF IInv, Phases, Phase, Moves
  <2>2. CASE p = "idle"
    <3>1. Phase(t)'
      BY <2>2 DEF Phase, Moves
    <3>2. EnginesFollowFlag'
      BY <1>3, <2>2 DEF IInv, Phases, EnginesFollowFlag
    <3>3. QED
      BY <2>1, <3>1, <3>2 DEF Phases
  <2>3. CASE p # "idle"
    <3>1. engines = IF s_initialized THEN Engines ELSE {}
      BY <1>5, <2>3 DEF IInv, Phases, EnginesFollowFlag
    <3>2. Phase(t)'
      BY <2>3, <3>1, EngineOrder DEF Phase, Moves
    <3>3. EnginesFollowFlag'
      BY <1>3, <2>3 DEF EnginesFollowFlag
    <3>4. QED
      BY <2>1, <3>2, <3>3 DEF Phases
  <2>4. QED
    BY <2>2, <2>3
<1>9. AskedWhileUp'
  <2>1. SUFFICES ASSUME NEW u \in Threads, NEW v \in Threads, call'[v] \in Asking
                 PROVE  /\ pc'[u] \notin {"config", "directories"}
                        /\ pc'[u] = "mutex" => s_initialized
    BY DEF AskedWhileUp
  <2>2. call[v] \in Asking
    BY <2>1, KindsOfCalls DEF Moves, OnTheWay, Plain
  <2>3. CASE u # t
    BY <2>2, <2>3 DEF IInv, AskedWhileUp, Moves
  <2>4. CASE u = t
    BY <2>2, <2>4 DEF IInv, AskedWhileUp, Moves
  <2>5. QED
    BY <2>3, <2>4
<1>10. FacadeFlag'
  <2>1. SUFFICES ASSUME NEW u \in Threads
                 PROVE  FacadeFlag!(u)'
    BY DEF FacadeFlag
  <2>2. CASE u # t
    BY <1>3, <2>2 DEF IInv, FacadeFlag, Moves
  <2>3. CASE u = t
    <3>1. c # "shutdown"
      BY <1>4 DEF OnTheWay, Ordered
    <3>2. call'[t] = "facade_init" /\ p # "idle" => p = "config"
      BY DEF Moves
    <3>3. QED
      BY <1>3, <2>3, <3>1, <3>2 DEF Moves
  <2>4. QED
    BY <2>2, <2>3
<1>11. FacadeServes'
  <2>1. ASSUME NEW u \in Threads, pc'[u] = "forward"
        PROVE  EngineOf(call'[u]) \in engines \/ bypassed
    BY <2>1 DEF IInv, FacadeServes, Moves
  <2>2. \A u \in Threads : pc[u] = "stop" => pc'[u] = "stop" /\ call'[u] = call[u]
    BY DEF Moves
  <2>3. QED
    BY <2>1, <2>2 DEF IInv, FacadeServes
<1>12. QED
  BY <1>2, <1>6, <1>7, <1>8, <1>9, <1>10, <1>11 DEF IInv

LEMMA FacadeStepsKeep ==
  ASSUME IInv, NEW t \in Threads,
         FacadeInit(t) \/ FacadeInitAgain(t) \/ FacadeShutdown(t) \/ Forward(t)
  PROVE  IInv'
<1>1. Types /\ Control
  BY DEF IInv
<1> USE DEF facade
<1>2. CASE FacadeInit(t)
  <2>1. /\ pc[t] = "mutex" /\ call[t] = "facade_init" /\ g_integration_mutex = NoThread
        /\ ~g_integration_initialized /\ ~s_initialized /\ g_integration_mutex' = t
        /\ GoOn(t, "config", 1)
        /\ UNCHANGED <<core, config, g_integration_initialized, bypassed, files, cleaning>>
    BY <1>2 DEF FacadeInit
  <2>2. Moves(t, "config", 1, call[t], arg[t], result[t])
    BY <1>1, <2>1, GoOnMoves DEF Locations, Starting
  <2>3. OnTheWay(t, "config", call[t])
    BY <2>1 DEF OnTheWay, Starting
  <2>4. QED
    BY <2>1, <2>2, <2>3, FacadeMoveKeeps
<1>3. ASSUME NEW r \in {"SUCCESS", "FAILURE"}, Return(t, r), pc[t] \in {"mutex", "forward"},
             UNCHANGED <<core, config, facade, files, cleaning>>
      PROVE  IInv'
  <2>1. Moves(t, "idle", 1, "none", NoArgument, r)
    BY <1>1, <1>3, ReturnMoves
  <2>2. OnTheWay(t, "idle", "none")
    BY <1>3 DEF OnTheWay
  <2>3. QED
    BY <1>3, <2>1, <2>2, FacadeMoveKeeps
<1>4. CASE FacadeInitAgain(t)
  BY <1>3, <1>4 DEF FacadeInitAgain
<1>5. CASE FacadeShutdown(t)
  <2>1. /\ pc[t] = "mutex" /\ call[t] = "facade_shutdown" /\ g_integration_mutex = NoThread
        /\ UNCHANGED <<core, config, g_integration_initialized, bypassed, files, cleaning>>
    BY <1>5 DEF FacadeShutdown
  <2>2. CASE g_integration_mutex' = t /\ GoOn(t, "stop", 1)
    <3>1. Moves(t, "stop", 1, call[t], arg[t], result[t])
      BY <1>1, <2>2, GoOnMoves DEF Locations
    <3>2. OnTheWay(t, "stop", call[t])
      BY <2>1 DEF OnTheWay, Stopping
    <3>3. QED
      BY <2>1, <2>2, <3>1, <3>2, FacadeMoveKeeps
  <2>3. CASE Return(t, "SUCCESS") /\ UNCHANGED g_integration_mutex
    BY <1>3, <2>1, <2>3
  <2>4. QED
    BY <1>5, <2>2, <2>3 DEF FacadeShutdown
<1>6. CASE Forward(t)
  BY <1>3, <1>6 DEF Forward
<1>7. QED
  BY <1>2, <1>4, <1>5, <1>6

-----------------------------------------------------------------------------
(* Calls that use the store: they leave it, and who is where, as it was.   *)
Working == {"health", "reload"} \cup Cleaning

OnItsWork(t, p, c, a, i) ==
  /\ pc[t] \in Working
  /\ \/ p = "idle" /\ c = "none"
     \/ p \in {"health", "reload"} /\ p = pc[t] /\ c = call[t]
     \/ p \in Cleaning /\ pc[t] \in Cleaning /\ c = call[t]
  /\ p = "reload" => a = arg[t] /\ i \in 1..3

LEMMA WorkKeeps ==
  ASSUME IInv, NEW t \in Threads, NEW p, NEW i, NEW c, NEW a, NEW r,
         Moves(t, p, i, c, a, r), OnItsWork(t, p, c, a, i), UNCHANGED <<core, facade>>
  PROVE  /\ Control' /\ Apart' /\ MutexHeld' /\ Phases' /\ AskedWhileUp'
         /\ FacadeFlag' /\ FacadeServes'
<1> USE DEF core, facade
<1>1. Types /\ Control /\ Apart
  BY DEF IInv
<1>2. /\ call[t] \in Asking
      /\ p \notin Starting \cup {"stop", "mutex", "forward"}
      /\ pc[t] \notin Starting \cup {"stop", "mutex", "forward"}
  BY <1>1 DEF OnItsWork, Working, Control, Asking, Starting, Cleaning
<1>3. call[t] \notin Exclusive \cup Ordered \cup {"none"} \cup FacadeCalls
  BY <1>2, KindsOfCalls DEF Plain
<1>4. \A u \in Threads : call'[u] = call[u] \/ call'[u] = "none"
  BY DEF Moves, OnItsWork
<1>5. Control'
  <2>1. \A u \in Threads \ {t} : Control!(u)'
    BY <1>1 DEF Control, Moves
  <2>2. Control!(t)'
    <3>1. c \notin Exclusive \cup Ordered \cup FacadeCalls
      BY <1>3, KindsOfCalls DEF OnItsWork, Plain
    <3>2. /\ p = "idle" <=> c = "none"
          /\ p = "health" <=> c = "health"
          /\ p = "reload" <=> c = "reload"
          /\ p \in Cleaning <=> c = "cleanup"
          /\ p = "reload" => a \in Requests
      BY <1>1 DEF OnItsWork, Working, Control, Cleaning
    <3>3. QED
      BY <1>2, <3>1, <3>2 DEF Moves, OnItsWork
  <2>3. QED
    BY <2>1, <2>2 DEF Control
<1>6. Apart'
  <2>1. SUFFICES ASSUME NEW u \in Threads, NEW v \in Threads, u # v, call'[v] # "none"
                 PROVE  Apart!(u, v)!2'
    BY DEF Apart
  <2>2. call'[v] = call[v]
    BY <1>4, <2>1
  <2>3. CASE call'[u] = "none"
    BY <2>3, KindsOfCalls
  <2>4. CASE call'[u] = call[u]
    BY <1>1, <1>4, <2>1, <2>2, <2>4 DEF Apart
  <2>5. QED
    BY <1>4, <2>3, <2>4
<1>7. \A u \in Threads : InLifeCycle(u)' <=> InLifeCycle(u)
  BY <1>2 DEF InLifeCycle, Moves, Starting
<1>8. MutexHeld'
  <2>1. \A u \in Threads : call'[u] \in Ordered <=> call[u] \in Ordered
    BY <1>3, KindsOfCalls DEF Moves, OnItsWork
  <2>2. QED
    BY <1>7, <2>1 DEF IInv, MutexHeld
<1>9. Phases'
  <2>1. \A u \in Threads \ {t} : Phase(u)'
    BY DEF IInv, Phases, Phase, Moves
  <2>2. Phase(t)'
    BY <1>2 DEF Phase, Moves, Starting
  <2>3. EnginesFollowFlag'
    BY <1>7 DEF IInv, Phases, EnginesFollowFlag
  <2>4. QED
    BY <2>1, <2>2, <2>3 DEF Phases
<1>10. AskedWhileUp'
  <2>1. SUFFICES ASSUME NEW u \in Threads, NEW v \in Threads, call'[v] \in Asking
                 PROVE  /\ pc'[u] \notin {"config", "directories"}
                        /\ pc'[u] = "mutex" => s_initialized
    BY DEF AskedWhileUp
  <2>2. call[v] \in Asking
    BY <1>4, <2>1, KindsOfCalls DEF Plain
  <2>3. QED
    BY <1>2, <2>2 DEF IInv, AskedWhileUp, Moves, Starting
<1>11. FacadeFlag'
  <2>1. SUFFICES ASSUME NEW u \in Threads
                 PROVE  FacadeFlag!(u)'
    BY DEF FacadeFlag
  <2>2. CASE u # t
    BY <1>7, <2>2 DEF IInv, FacadeFlag, Moves
  <2>3. CASE u = t
    BY <1>2, <1>3, <1>4, <2>3, KindsOfCalls DEF Moves, Exclusive, Ordered
  <2>4. QED
    BY <2>2, <2>3
<1>12. FacadeServes'
  BY <1>2 DEF IInv, FacadeServes, Moves
<1>13. QED
  BY <1>5, <1>6, <1>8, <1>9, <1>10, <1>11, <1>12

(* The log engine is started last and stopped first.                       *)
LEMMA LogIsLast ==
  ASSUME IInv, NEW t \in Threads, pc[t] \in Working, "log" \in engines
  PROVE  engines = Engines
<1>1. Types /\ Control /\ Apart /\ EnginesFollowFlag /\ \A u \in Threads : Phase(u)
  BY DEF IInv, Phases
<1>2. call[t] \in Asking
  BY <1>1 DEF Working, Control, Asking, Cleaning
<1>3. CASE \A u \in Threads : ~InLifeCycle(u)
  BY <1>1, <1>3 DEF EnginesFollowFlag
<1>4. ASSUME NEW u \in Threads, InLifeCycle(u)
      PROVE  engines = Engines
  <2>1. pc[u] # "stop"
    BY <1>1, <1>2, NobodyAsksStopping
  <2>2. pc[u] \in {"start", "unwind"}
    BY <1>1, <1>4, <2>1 DEF InLifeCycle, Phase
  <2>3. CASE pc[u] = "unwind"
    BY <1>1, <2>3, EngineOrder DEF Phase
  <2>4. CASE pc[u] = "start" /\ at[u] = 5
    <3>1. at[u] - 1 = 4
      BY <2>4
    <3>2. QED
      BY <1>1, <2>4, <3>1, EngineOrder DEF Phase
  <2>5. CASE pc[u] = "start" /\ at[u] # 5
    <3>1. at[u] - 1 \in 0..3 /\ engines = Up(at[u] - 1)
      BY <1>1, <2>5 DEF Phase
    <3>2. QED
      BY <3>1, EngineOrder
  <2>6. QED
    BY <2>2, <2>3, <2>4, <2>5
<1>5. QED
  BY <1>3, <1>4

(* The health check.                                                       *)
LEMMA HealthKeeps ==
  ASSUME IInv, NEW t \in Threads, AskEngine(t) \/ AskBreaker(t)
  PROVE  IInv'
<1> USE DEF core, facade, config, cleaning
<1>1. Types /\ Control
  BY DEF IInv
<1>2. /\ pc[t] = "health" /\ call[t] = "health"
      /\ UNCHANGED <<core, facade, config, files, cleaning>>
  BY <1>1 DEF AskEngine, AskBreaker, Control
<1>3. PICK p, i, c, a, r :
        /\ Moves(t, p, i, c, a, r)
        /\ \/ p = "idle" /\ c = "none"
           \/ p = "health" /\ c = "health"
        /\ p = "health" /\ i >= 4 /\ r = "SUCCESS" => engines = Engines
  <2>1. CASE AskEngine(t)
    <3>1. /\ at[t] <= 4 /\ at' = [at EXCEPT ![t] = @ + 1] /\ UNCHANGED <<pc, call, arg>>
          /\ \E healthy \in Healthy(HealthOrder[at[t]]) :
               result' = [result EXCEPT ![t] = IF healthy THEN @ ELSE "FAILURE"]
      BY <2>1, OrderLengths DEF AskEngine
    <3>2. at[t] + 1 \in 0..5 /\ at[t] \in 0..5
      BY <1>1, <3>1 DEF Types
    <3>3. at' \in [Threads -> 0..5] /\ at'[t] = at[t] + 1 /\ \A u \in Threads \ {t} : at'[u] = at[u]
      BY <1>1, <3>1, <3>2 DEF Types
    <3>4. /\ result' \in [Threads -> {"SUCCESS", "FAILURE"}]
          /\ result'[t] = "SUCCESS" => result[t] = "SUCCESS" /\ HealthOrder[at[t]] \in engines
          /\ \A u \in Threads \ {t} : result'[u] = result[u]
      <4>1. PICK healthy \in Healthy(HealthOrder[at[t]]) :
              result' = [result EXCEPT ![t] = IF healthy THEN @ ELSE "FAILURE"]
        BY <3>1
      <4>2. healthy => HealthOrder[at[t]] \in engines
        BY <4>1 DEF Healthy
      <4> DEFINE answer == IF healthy THEN result[t] ELSE "FAILURE"
      <4>3. result' = [result EXCEPT ![t] = answer]
        BY <4>1
      <4>4. /\ answer \in {"SUCCESS", "FAILURE"}
            /\ answer = "SUCCESS" => result[t] = "SUCCESS" /\ HealthOrder[at[t]] \in engines
        BY <1>1, <4>2 DEF Types
      <4> HIDE DEF answer
      <4>5. QED
        BY <1>1, <4>3, <4>4 DEF Types
    <3>5. Moves(t, "health", at[t] + 1, "health", arg[t], result'[t])
      BY <1>1, <1>2, <3>1, <3>3, <3>4 DEF Types, FrameTypes, Moves
    <3>6. ASSUME at[t] + 1 >= 4, result'[t] = "SUCCESS"
          PROVE  engines = Engines
      <4>1. at[t] = 3 \/ at[t] = 4
        BY <3>1, <3>2, <3>6
      <4>2. CASE at[t] = 3
        BY <1>2, <3>4, <3>6, <4>2, LogIsLast DEF HealthOrder, Working
      <4>3. CASE at[t] = 4
        BY <1>2, <3>4, <3>6, <4>3 DEF IInv, Serving
      <4>4. QED
        BY <4>1, <4>2, <4>3
    <3>7. QED
      BY <3>5, <3>6
  <2>2. CASE AskBreaker(t)
    <3>1. PICK r \in {"SUCCESS", "FAILURE"} : Return(t, r)
      BY <1>1, <2>2 DEF AskBreaker, Types
    <3>2. Moves(t, "idle", 1, "none", NoArgument, r)
      BY <1>1, <3>1, ReturnMoves
    <3>3. QED
      BY <3>2
  <2>3. QED
    BY <2>1, <2>2
<1>4. OnItsWork(t, p, c, a, i)
  BY <1>2, <1>3 DEF OnItsWork, Working
<1>5. Control' /\ Apart' /\ MutexHeld' /\ Phases' /\ AskedWhileUp' /\ FacadeFlag' /\ FacadeServes'
  BY <1>2, <1>3, <1>4, WorkKeeps
<1>6. Types'
  BY <1>1, <1>2, <1>3 DEF Types, Moves, FrameTypes
<1>7. Serving'
  BY <1>2, <1>3 DEF IInv, Serving, Moves
<1>8. ConfigHeld'
  BY <1>2, <1>3 DEF IInv, ConfigHeld, Moves
<1>9. Cleaned'
  BY <1>2, <1>3 DEF IInv, Cleaned, Moves
<1>10. FreedAddsUp'
  BY <1>2, <1>3 DEF IInv, FreedAddsUp, Moves
<1>11. QED
  BY <1>5, <1>6, <1>7, <1>8, <1>9, <1>10 DEF IInv

(* The reload of the settings, under their mutex.                          *)
LEMMA FieldType ==
  ASSUME NEW old \in Days, NEW new \in 0..MaxDays
  PROVE  Field(old, new) \in Days
BY DaysAssumption DEF Field, Days

LEMMA ReloadFrame ==
  ASSUME IInv, NEW t \in Threads, NEW p, NEW i, NEW c, NEW a, NEW r,
         Moves(t, p, i, c, a, r), pc[t] = "reload",
         \/ p = "idle" /\ c = "none"
         \/ p = "reload" /\ c = call[t] /\ a = arg[t] /\ i \in 1..3,
         UNCHANGED <<core, facade, files, snapshot, total, removed>>,
         s_config' \in Configs, s_config_lock' \in Threads \cup {NoThread},
         in_force' \in [Threads -> SUBSET Configs],
         \A u \in Threads : call[u] = "cleanup" => in_force[u] \subseteq in_force'[u]
  PROVE  ConfigHeld' => IInv'
<1> USE DEF core, facade
<1>1. Types /\ Control
  BY DEF IInv
<1>2. OnItsWork(t, p, c, a, i)
  BY DEF OnItsWork, Working
<1>3. Control' /\ Apart' /\ MutexHeld' /\ Phases' /\ AskedWhileUp' /\ FacadeFlag' /\ FacadeServes'
  BY <1>2, WorkKeeps
<1>4. Types'
  BY <1>1 DEF Types, Moves, FrameTypes
<1>5. Serving'
  BY DEF IInv, Serving, Moves
<1>6. Cleaned'
  <2>1. SUFFICES ASSUME NEW u \in Threads
                 PROVE  Cleaned!(u)'
    BY DEF Cleaned
  <2>2. pc'[u] \in Cleaning => pc[u] \in Cleaning /\ in_force[u] \subseteq in_force'[u]
    BY <1>1 DEF Moves, Control, Cleaning
  <2>3. CASE u = t
    BY <2>3 DEF IInv, Cleaned, Moves
  <2>4. CASE u # t
    BY <2>2, <2>4 DEF IInv, Cleaned, Moves, Cleaning
  <2>5. QED
    BY <2>3, <2>4
<1>7. FreedAddsUp'
  BY DEF IInv, FreedAddsUp, Moves
<1>8. QED
  BY <1>3, <1>4, <1>5, <1>6, <1>7 DEF IInv

LEMMA ReloadKeeps ==
  ASSUME IInv, NEW t \in Threads, ReloadLog(t) \/ ReloadTrace(t) \/ ReloadDone(t)
  PROVE  IInv'
<1> USE DEF config, cleaning
<1>1. Types /\ Control /\ ConfigHeld /\ NoThread \notin Threads
  BY ThreadsAssumption DEF IInv
<1>2. pc[t] = "reload" /\ call[t] = "reload" /\ arg[t] \in Requests
  BY <1>1 DEF ReloadLog, ReloadTrace, ReloadDone, Control
<1>3. arg[t].log \in 0..MaxDays /\ arg[t].trace \in 0..MaxDays /\ arg[t].auto \in BOOLEAN
  BY <1>2, RequestsAssumption
<1>4. /\ s_config = [auto |-> s_config.auto, log |-> s_config.log, trace |-> s_config.trace]
      /\ s_config.auto \in BOOLEAN /\ s_config.log \in Days /\ s_config.trace \in Days
  BY <1>1 DEF Types, Configs
<1>5. CASE ReloadLog(t)
  <2>1. /\ at[t] = 1 /\ s_config_lock = NoThread /\ s_config_lock' = t /\ GoOn(t, "reload", 2)
        /\ s_config' = [s_config EXCEPT !.log = Field(@, arg[t].log)]
        /\ UNCHANGED <<core, facade, files, cleaning>>
    BY <1>5 DEF ReloadLog
  <2>2. Moves(t, "reload", 2, call[t], arg[t], result[t])
    BY <1>1, <2>1, GoOnMoves DEF Locations
  <2>3. s_config' \in Configs
    BY <1>3, <1>4, <2>1, FieldType DEF Configs
  <2>4. ConfigHeld'
    BY <1>1, <2>1, <2>2 DEF ConfigHeld, Moves
  <2>5. s_config_lock' \in Threads \cup {NoThread} /\ in_force' \in [Threads -> SUBSET Configs]
    BY <1>1, <2>1 DEF Types
  <2>6. 2 \in 1..3 /\ \A u \in Threads : in_force[u] \subseteq in_force'[u]
    BY <2>1
  <2>7. QED
    BY <1>2, <2>1, <2>2, <2>3, <2>4, <2>5, <2>6, ReloadFrame
<1>6. CASE ReloadTrace(t)
  <2>1. /\ at[t] = 2 /\ GoOn(t, "reload", 3)
        /\ s_config' = [s_config EXCEPT !.trace = Field(@, arg[t].trace)]
        /\ UNCHANGED <<core, s_config_lock, facade, files, cleaning>>
    BY <1>6 DEF ReloadTrace
  <2>2. Moves(t, "reload", 3, call[t], arg[t], result[t])
    BY <1>1, <2>1, GoOnMoves DEF Locations
  <2>3. s_config' \in Configs
    BY <1>3, <1>4, <2>1, FieldType DEF Configs
  <2>4. s_config_lock = t
    BY <1>1, <1>2, <2>1 DEF ConfigHeld
  <2>5. ConfigHeld'
    BY <1>1, <1>2, <2>1, <2>2, <2>4 DEF ConfigHeld, Moves
  <2>6. s_config_lock' \in Threads \cup {NoThread} /\ in_force' \in [Threads -> SUBSET Configs]
    BY <1>1, <2>1 DEF Types
  <2>7. 3 \in 1..3 /\ \A u \in Threads : in_force[u] \subseteq in_force'[u]
    BY <2>1
  <2>8. QED
    BY <1>2, <2>1, <2>2, <2>3, <2>5, <2>6, <2>7, ReloadFrame
<1>7. CASE ReloadDone(t)
  <2>1. /\ at[t] = 3 /\ Return(t, "SUCCESS") /\ s_config_lock' = NoThread
        /\ s_config' = [s_config EXCEPT !.auto = arg[t].auto]
        /\ in_force' = [u \in Threads |->
             IF call[u] = "cleanup" THEN in_force[u] \cup {s_config'} ELSE in_force[u]]
        /\ UNCHANGED <<core, facade, files, snapshot, total, removed>>
    BY <1>7 DEF ReloadDone
  <2>2. Moves(t, "idle", 1, "none", NoArgument, "SUCCESS")
    BY <1>1, <2>1, ReturnMoves
  <2>3. s_config' \in Configs
    BY <1>3, <1>4, <2>1 DEF Configs
  <2>4. in_force' \in [Threads -> SUBSET Configs]
    BY <1>1, <2>1, <2>3 DEF Types
  <2>5. s_config_lock = t
    BY <1>1, <1>2, <2>1 DEF ConfigHeld
  <2>6. ConfigHeld'
    <3>1. \A u \in Threads : ~(pc'[u] = "reload" /\ at'[u] # 1)
      BY <1>1, <2>2, <2>5 DEF ConfigHeld, Moves
    <3>2. \A u \in Threads : call'[u] = "cleanup" => s_config' \in in_force'[u]
      BY <2>1, <2>2 DEF Moves
    <3>3. QED
      BY <1>1, <2>1, <3>1, <3>2 DEF ConfigHeld
  <2>7. QED
    BY <1>2, <2>1, <2>2, <2>3, <2>4, <2>6, ReloadFrame
<1>8. QED
  BY <1>5, <1>6, <1>7

(* The cleanup, which touches the files and what it notes of itself.       *)
LEMMA CleanFrame ==
  ASSUME IInv, NEW t \in Threads, NEW p, NEW i, NEW c, NEW a, NEW r,
         Moves(t, p, i, c, a, r), pc[t] \in Cleaning,
         \/ p = "idle" /\ c = "none"
         \/ p \in Cleaning /\ c = call[t] /\ in_force'[t] = in_force[t],
         UNCHANGED <<core, config, facade>>,
         files' \in [Directories -> SUBSET Ages], snapshot' \in [Threads -> Configs],
         DOMAIN total' = Threads, removed' \in [Threads -> [Directories -> SUBSET Ages]],
         in_force' \in [Threads -> SUBSET Configs],
         \A u \in Threads \ {t} :
           /\ snapshot'[u] = snapshot[u] /\ total'[u] = total[u]
           /\ removed'[u] = removed[u] /\ in_force'[u] = in_force[u],
         Serving!(t)', Cleaned!(t)', FreedAddsUp!(t)'
  PROVE  IInv'
<1> USE DEF core, config, facade
<1>1. Types /\ Control
  BY DEF IInv
<1>2. OnItsWork(t, p, c, a, i) /\ p # "reload" /\ pc[t] # "reload"
  BY DEF OnItsWork, Working, Cleaning
<1>3. Control' /\ Apart' /\ MutexHeld' /\ Phases' /\ AskedWhileUp' /\ FacadeFlag' /\ FacadeServes'
  BY <1>2, WorkKeeps
<1>4. Types'
  BY <1>1 DEF Types, Moves, FrameTypes
<1>5. Serving'
  <2>1. \A u \in Threads \ {t} : Serving!(u)'
    BY DEF IInv, Serving, Moves
  <2>2. QED
    BY <2>1 DEF Serving
<1>6. ConfigHeld'
  <2>1. \A u \in Threads : s_config_lock = u <=> pc'[u] = "reload" /\ at'[u] # 1
    BY <1>2 DEF IInv, ConfigHeld, Moves
  <2>2. \A u \in Threads : call'[u] = "cleanup" =>
                             call[u] = "cleanup" /\ in_force'[u] = in_force[u]
    BY DEF Moves
  <2>3. QED
    BY <2>1, <2>2 DEF IInv, ConfigHeld
<1>7. Cleaned'
  <2>1. \A u \in Threads \ {t} : Cleaned!(u)'
    BY DEF IInv, Cleaned, Moves
  <2>2. QED
    BY <2>1 DEF Cleaned
<1>8. FreedAddsUp'
  <2>1. ASSUME NEW u \in Threads \ {t}
        PROVE  FreedAddsUp!(u)'
    <3>1. pc'[u] = pc[u] /\ arg'[u] = arg[u] /\ total'[u] = total[u] /\ removed'[u] = removed[u]
      BY DEF Moves
    <3>2. FreedAddsUp!(u)
      BY DEF IInv, FreedAddsUp
    <3>3. QED
      BY <3>1, <3>2
  <2>2. QED
    BY <2>1 DEF FreedAddsUp
<1>9. QED
  BY <1>3, <1>4, <1>5, <1>6, <1>7, <1>8 DEF IInv

(* What one engine's cleaning does to the files, and to the notes.         *)
LEMMA CleanDoes ==
  ASSUME Types, NEW t \in Threads, NEW d \in Directories, Clean(t, d)
  PROVE  /\ files' \in [Directories -> SUBSET Ages]
         /\ removed' \in [Threads -> [Directories -> SUBSET Ages]]
         /\ \A a \in removed'[t][d] : a > snapshot[t][d]
         /\ \A e \in Directories \ {d} : removed'[t][e] = removed[t][e]
         /\ \A u \in Threads \ {t} : removed'[u] = removed[u]
<1> DEFINE old == IF d \in engines THEN Old(d, snapshot[t][d]) ELSE {}
<1>1. old \subseteq files[d] /\ \A a \in old : a > snapshot[t][d]
  BY DEF Old
<1>2. /\ files' = [files EXCEPT ![d] = @ \ old]
      /\ removed' = [removed EXCEPT ![t][d] = old]
  BY DEF Clean
<1> HIDE DEF old
<1>3. files' \in [Directories -> SUBSET Ages] /\ old \subseteq Ages
  BY <1>1, <1>2 DEF Types
<1>4. DEFINE mine == [removed[t] EXCEPT ![d] = old]
<1>5. /\ mine \in [Directories -> SUBSET Ages] /\ mine[d] = old
      /\ \A e \in Directories \ {d} : mine[e] = removed[t][e]
  BY <1>3 DEF Types
<1>6. removed' = [removed EXCEPT ![t] = mine]
  BY <1>2
<1> HIDE DEF mine
<1>7. /\ removed' \in [Threads -> [Directories -> SUBSET Ages]] /\ removed'[t] = mine
      /\ \A u \in Threads \ {t} : removed'[u] = removed[u]
  BY <1>5, <1>6 DEF Types
<1>8. QED
  BY <1>1, <1>3, <1>5, <1>7

LEMMA SnapshotKeeps ==
  ASSUME IInv, NEW t \in Threads, Snapshot(t)
  PROVE  IInv'
<1>1. Types /\ Control /\ Cleaned
  BY DEF IInv
<1>2. /\ pc[t] = "snapshot" /\ s_config_lock = NoThread
      /\ snapshot' = [snapshot EXCEPT ![t] = s_config]
      /\ GoOn(t, IF s_config.auto THEN "clean_log" ELSE "report", 1)
      /\ UNCHANGED <<core, config, facade, files, total, removed, in_force>>
  BY DEF Snapshot
<1> DEFINE p == IF s_config.auto THEN "clean_log" ELSE "report"
<1>3. /\ p \in {"clean_log", "report"}
      /\ p = "clean_log" => s_config.auto
      /\ p = "report" => ~s_config.auto
  OBVIOUS
<1>4. GoOn(t, p, 1)
  BY <1>2
<1> HIDE DEF p
<1>5. p \in Locations /\ p \in Cleaning /\ pc[t] \in Cleaning
  BY <1>2, <1>3 DEF Locations, Cleaning
<1>6. Moves(t, p, 1, call[t], arg[t], result[t])
  BY <1>1, <1>4, <1>5, GoOnMoves
<1>7. /\ snapshot' \in [Threads -> Configs] /\ snapshot'[t] = s_config
      /\ \A u \in Threads \ {t} : snapshot'[u] = snapshot[u]
  BY <1>1, <1>2 DEF Types
<1>8. /\ removed[t] = NoFiles /\ total[t] = 0 /\ s_config \in in_force[t]
      /\ \A d \in Directories : removed[t][d] = {}
  <2>1. removed[t] = NoFiles /\ total[t] = 0
    BY <1>1, <1>2 DEF Cleaned
  <2>2. call[t] = "cleanup"
    BY <1>1, <1>2 DEF Control, Cleaning
  <2>3. s_config \in in_force[t]
    BY <1>2, <2>2 DEF IInv, ConfigHeld
  <2>4. QED
    BY <2>1, <2>3 DEF NoFiles
<1>9. Serving!(t)'
  BY <1>3, <1>6, <1>7 DEF Moves
<1>10. Cleaned!(t)'
  BY <1>2, <1>3, <1>6, <1>7, <1>8 DEF Moves
<1>11. FreedAddsUp!(t)'
  <2>1. Cardinality(removed[t]["log"]) = 0 /\ Cardinality(removed[t]["trace"]) = 0
    BY <1>8, FS_EmptySet DEF Directories
  <2>2. QED
    BY <1>2, <1>8, <2>1
<1>12. QED
  BY <1>1, <1>2, <1>5, <1>6, <1>7, <1>9, <1>10, <1>11, CleanFrame DEF Types

LEMMA CleanLogKeeps ==
  ASSUME IInv, NEW t \in Threads, CleanLog(t)
  PROVE  IInv'
<1>1. Types /\ Control
  BY DEF IInv
<1>2. /\ pc[t] = "clean_log" /\ Clean(t, "log") /\ pc' = [pc EXCEPT ![t] = "clean_trace"]
      /\ total' = [total EXCEPT ![t] = Cardinality(removed'[t]["log"])]
      /\ result' = [result EXCEPT ![t] = IF "log" \in engines THEN "SUCCESS" ELSE "FAILURE"]
      /\ UNCHANGED <<core, config, facade, at, call, arg, snapshot, in_force>>
  BY DEF CleanLog
<1>3. "log" \in Directories /\ "trace" \in Directories \ {"log"}
  BY DEF Directories
<1>4. /\ files' \in [Directories -> SUBSET Ages]
      /\ removed' \in [Threads -> [Directories -> SUBSET Ages]]
      /\ \A a \in removed'[t]["log"] : a > snapshot[t]["log"]
      /\ removed'[t]["trace"] = removed[t]["trace"]
      /\ \A u \in Threads \ {t} : removed'[u] = removed[u]
  BY <1>1, <1>2, <1>3, CleanDoes
<1>5. /\ result' \in [Threads -> {"SUCCESS", "FAILURE"}]
      /\ result'[t] = "SUCCESS" => "log" \in engines
      /\ \A u \in Threads \ {t} : result'[u] = result[u]
  BY <1>1, <1>2 DEF Types
<1>6. Moves(t, "clean_trace", at[t], call[t], arg[t], result'[t])
  BY <1>1, <1>2, <1>5 DEF Types, Moves, FrameTypes, Locations, Cleaning
<1>7. /\ DOMAIN total' = Threads /\ total'[t] = Cardinality(removed'[t]["log"])
      /\ \A u \in Threads \ {t} : total'[u] = total[u]
  BY <1>1, <1>2 DEF Types
<1>8. "clean_trace" \in Cleaning /\ pc[t] \in Cleaning
  BY <1>2 DEF Cleaning
<1>9. Serving!(t)'
  BY <1>2, <1>5, <1>8, LogIsLast DEF Working, core
<1>10. Cleaned!(t)'
  <2>1. snapshot[t] \in in_force[t] /\ snapshot[t].auto /\ removed[t] = NoFiles
    BY <1>2 DEF IInv, Cleaned
  <2>2. removed'[t]["trace"] = {}
    BY <1>3, <1>4, <2>1 DEF NoFiles
  <2>3. \A d \in Directories : \A a \in removed'[t][d] : a > snapshot[t][d]
    BY <1>4, <2>2 DEF Directories
  <2>4. QED
    BY <1>2, <1>6, <1>7, <2>1, <2>2, <2>3 DEF Moves
<1>11. FreedAddsUp!(t)'
  BY <1>6 DEF Moves
<1>12. /\ snapshot' \in [Threads -> Configs] /\ in_force' \in [Threads -> SUBSET Configs]
       /\ \A u \in Threads : snapshot'[u] = snapshot[u] /\ in_force'[u] = in_force[u]
  BY <1>1, <1>2 DEF Types
<1>13. QED
  BY <1>2, <1>4, <1>6, <1>7, <1>8, <1>9, <1>10, <1>11, <1>12, CleanFrame

LEMMA CleanTraceKeeps ==
  ASSUME IInv, NEW t \in Threads, CleanTrace(t)
  PROVE  IInv'
<1>1. Types /\ Control
  BY DEF IInv
<1>2. /\ pc[t] = "clean_trace" /\ Clean(t, "trace") /\ pc' = [pc EXCEPT ![t] = "report"]
      /\ total' = [total EXCEPT ![t] = Reported(t, @ + Cardinality(removed'[t]["trace"]))]
      /\ result' = [result EXCEPT ![t] = IF "trace" \in engines THEN @ ELSE "FAILURE"]
      /\ UNCHANGED <<core, config, facade, at, call, arg, snapshot, in_force>>
  BY DEF CleanTrace
<1>3. "trace" \in Directories /\ "log" \in Directories \ {"trace"}
  BY DEF Directories
<1>4. /\ files' \in [Directories -> SUBSET Ages]
      /\ removed' \in [Threads -> [Directories -> SUBSET Ages]]
      /\ \A a \in removed'[t]["trace"] : a > snapshot[t]["trace"]
      /\ removed'[t]["log"] = removed[t]["log"]
      /\ \A u \in Threads \ {t} : removed'[u] = removed[u]
  BY <1>1, <1>2, <1>3, CleanDoes
<1>5. /\ result' \in [Threads -> {"SUCCESS", "FAILURE"}]
      /\ result'[t] = "SUCCESS" => result[t] = "SUCCESS"
      /\ \A u \in Threads \ {t} : result'[u] = result[u]
  BY <1>1, <1>2 DEF Types
<1>6. Moves(t, "report", at[t], call[t], arg[t], result'[t])
  BY <1>1, <1>2, <1>5 DEF Types, Moves, FrameTypes, Locations, Cleaning
<1>7. /\ DOMAIN total' = Threads
      /\ total'[t] = Reported(t, total[t] + Cardinality(removed'[t]["trace"]))
      /\ \A u \in Threads \ {t} : total'[u] = total[u]
  BY <1>1, <1>2 DEF Types
<1>8. "report" \in Cleaning /\ pc[t] \in Cleaning
  BY <1>2 DEF Cleaning
<1>9. Serving!(t)'
  BY <1>2, <1>5 DEF IInv, Serving, core
<1>10. /\ snapshot[t] \in in_force[t] /\ snapshot[t].auto
       /\ total[t] = Cardinality(removed[t]["log"])
       /\ \A a \in removed[t]["log"] : a > snapshot[t]["log"]
  BY <1>2, <1>3 DEF IInv, Cleaned
<1>11. Cleaned!(t)'
  <2>1. \A d \in Directories : \A a \in removed'[t][d] : a > snapshot[t][d]
    BY <1>4, <1>10 DEF Directories
  <2>2. QED
    BY <1>2, <1>6, <1>10, <2>1 DEF Moves
<1>12. FreedAddsUp!(t)'
  <2>1. total[t] = Cardinality(removed'[t]["log"])
    BY <1>4, <1>10
  <2>2. SUFFICES ASSUME arg[t] = DryRun(FALSE)
                 PROVE  total'[t] = Cardinality(removed'[t]["log"])
                                      + Cardinality(removed'[t]["trace"])
    BY <1>2
  <2>3. DryRun(FALSE) # DryRun(TRUE)
    <3>1. DryRun(FALSE).dry_run = FALSE /\ DryRun(TRUE).dry_run = TRUE
      BY DEF DryRun
    <3>2. QED
      BY <3>1
  <2>4. QED
    BY <1>7, <2>1, <2>2, <2>3 DEF Reported
<1>13. /\ snapshot' \in [Threads -> Configs] /\ in_force' \in [Threads -> SUBSET Configs]
       /\ \A u \in Threads : snapshot'[u] = snapshot[u] /\ in_force'[u] = in_force[u]
  BY <1>1, <1>2 DEF Types
<1>14. QED
  BY <1>2, <1>4, <1>6, <1>7, <1>8, <1>9, <1>11, <1>12, <1>13, CleanFrame

LEMMA ReportKeeps ==
  ASSUME IInv, NEW t \in Threads, Report(t)
  PROVE  IInv'
<1>1. Types
  BY DEF IInv
<1>2. /\ pc[t] = "report" /\ Return(t, result[t])
      /\ snapshot' = [snapshot EXCEPT ![t] = DefaultConfig]
      /\ total' = [total EXCEPT ![t] = 0] /\ removed' = [removed EXCEPT ![t] = NoFiles]
      /\ in_force' = [in_force EXCEPT ![t] = {}]
      /\ UNCHANGED <<core, config, facade, files>>
  BY DEF Report
<1>3. result[t] \in {"SUCCESS", "FAILURE"}
  BY <1>1 DEF Types
<1>4. Moves(t, "idle", 1, "none", NoArgument, result[t])
  BY <1>1, <1>2, <1>3, ReturnMoves
<1>5. NoFiles \in [Directories -> SUBSET Ages] /\ \A d \in Directories : NoFiles[d] = {}
  BY DEF NoFiles
<1>6. /\ files' \in [Directories -> SUBSET Ages] /\ snapshot' \in [Threads -> Configs]
      /\ DOMAIN total' = Threads /\ removed' \in [Threads -> [Directories -> SUBSET Ages]]
      /\ in_force' \in [Threads -> SUBSET Configs]
      /\ \A u \in Threads \ {t} :
           /\ snapshot'[u] = snapshot[u] /\ total'[u] = total[u]
           /\ removed'[u] = removed[u] /\ in_force'[u] = in_force[u]
      /\ removed'[t] = NoFiles /\ total'[t] = 0
  BY <1>1, <1>2, <1>5, DefaultType DEF Types
<1>7. Serving!(t)' /\ FreedAddsUp!(t)'
  BY <1>4 DEF Moves
<1>8. Cleaned!(t)'
  BY <1>4, <1>5, <1>6 DEF Moves
<1>9. pc[t] \in Cleaning
  BY <1>2 DEF Cleaning
<1>10. QED
  BY <1>2, <1>4, <1>6, <1>7, <1>8, <1>9, CleanFrame

(* Days pass for the files only.                                           *)
LEMMA DaysPassKeeps ==
  ASSUME IInv, DaysPass
  PROVE  IInv'
<1>1. /\ files' \in [Directories -> SUBSET Ages]
      /\ UNCHANGED <<core, config, facade, frame, cleaning>>
  BY DEF DaysPass
<1> USE DEF core, config, facade, frame, cleaning
<1>2. Types' /\ Control' /\ Apart' /\ MutexHeld' /\ AskedWhileUp' /\ FacadeFlag'
  BY <1>1 DEF IInv, Types, Control, Apart, MutexHeld, InLifeCycle, AskedWhileUp, FacadeFlag
<1>3. Phases' /\ FacadeServes' /\ Serving'
  BY <1>1 DEF IInv, Phases, Phase, EnginesFollowFlag, InLifeCycle, FacadeServes, Serving
<1>4. ConfigHeld' /\ Cleaned' /\ FreedAddsUp'
  BY <1>1 DEF IInv, ConfigHeld, Cleaned, FreedAddsUp
<1>5. QED
  BY <1>2, <1>3, <1>4 DEF IInv

LEMMA StutterKeeps ==
  ASSUME IInv, UNCHANGED vars
  PROVE  IInv'
<1> USE DEF vars, core, config, facade, frame, cleaning
<1>1. Types' /\ Control' /\ Apart' /\ MutexHeld' /\ AskedWhileUp' /\ FacadeFlag'
  BY DEF IInv, Types, Control, Apart, MutexHeld, InLifeCycle, AskedWhileUp, FacadeFlag
<1>2. Phases' /\ FacadeServes' /\ Serving'
  BY DEF IInv, Phases, Phase, EnginesFollowFlag, InLifeCycle, FacadeServes, Serving
<1>3. ConfigHeld' /\ Cleaned' /\ FreedAddsUp'
  BY DEF IInv, ConfigHeld, Cleaned, FreedAddsUp
<1>4. QED
  BY <1>1, <1>2, <1>3 DEF IInv

(* Every call begins with the whole store up, or is answered at once.      *)
LEMMA CallsKeep ==
  ASSUME IInv, NEW t \in Threads,
         \/ CallInit(t) \/ CallShutdown(t) \/ CallFacade(t) \/ CallSyscall(t)
         \/ CallHealth(t) \/ CallFlush(t) \/ CallReload(t) \/ CallCleanup(t)
  PROVE  IInv'
<1> USE DEF facade
<1>1. CASE CallInit(t)
  <2>1. CASE s_initialized
    BY <1>1, <2>1, AnswerKeeps DEF CallInit
  <2>2. CASE ~s_initialized
    <3>1. Enter(t, "init", NoArgument, "config") /\ UNCHANGED <<core, config, facade>>
      BY <1>1, <2>2 DEF CallInit
    <3>2. Opens("init", NoArgument, "config")
      BY <2>2 DEF Opens
    <3>3. QED
      BY <3>1, <3>2, EnterKeeps
  <2>3. QED
    BY <2>1, <2>2
<1>2. CASE CallShutdown(t)
  <2>1. CASE ~s_initialized
    BY <1>2, <2>1, AnswerKeeps DEF CallShutdown
  <2>2. CASE s_initialized
    <3>1. /\ Enter(t, "shutdown", NoArgument, "stop")
          /\ bypassed' = g_integration_initialized
          /\ UNCHANGED <<core, config, g_integration_initialized, g_integration_mutex>>
      BY <1>2, <2>2 DEF CallShutdown
    <3>2. Opens("shutdown", NoArgument, "stop")
      BY <2>2 DEF Opens
    <3>3. QED
      BY <3>1, <3>2, EnterKeeps
  <2>3. QED
    BY <2>1, <2>2
<1>3. CASE CallFacade(t)
  <2>1. PICK c \in Ordered : Enter(t, c, NoArgument, "mutex")
    BY <1>3 DEF CallFacade
  <2>2. Opens(c, NoArgument, "mutex") /\ c # "shutdown"
    BY DEF Opens, Ordered
  <2>3. QED
    BY <1>3, <2>1, <2>2, EnterKeeps DEF CallFacade
<1>4. CASE CallSyscall(t)
  <2>1. PICK c \in FacadeCalls :
          \/ /\ g_integration_initialized /\ Enter(t, c, NoArgument, "forward")
             /\ UNCHANGED <<core, config, facade>>
          \/ Answer(t, c, "FAILURE")
    BY <1>4 DEF CallSyscall
  <2>2. c # "shutdown"
    BY DEF FacadeCalls
  <2>3. CASE Answer(t, c, "FAILURE")
    BY <2>3, AnswerKeeps
  <2>4. CASE /\ g_integration_initialized /\ Enter(t, c, NoArgument, "forward")
             /\ UNCHANGED <<core, config, facade>>
    <3>1. Opens(c, NoArgument, "forward")
      BY <2>4 DEF Opens
    <3>2. QED
      BY <2>2, <2>4, <3>1, EnterKeeps
  <2>5. QED
    BY <2>1, <2>3, <2>4
<1>5. CASE CallHealth(t)
  <2>1. CASE ~s_initialized
    BY <1>5, <2>1, AnswerKeeps DEF CallHealth
  <2>2. CASE s_initialized
    <3>1. Enter(t, "health", NoArgument, "health") /\ UNCHANGED <<core, config, facade>>
      BY <1>5, <2>2 DEF CallHealth
    <3>2. Opens("health", NoArgument, "health")
      BY <2>2 DEF Opens
    <3>3. QED
      BY <3>1, <3>2, EnterKeeps
  <2>3. QED
    BY <2>1, <2>2
<1>6. CASE CallFlush(t)
  <2>1. PICK r \in {"SUCCESS", "FAILURE"} : Answer(t, "flush", r)
    BY <1>6 DEF CallFlush
  <2>2. QED
    BY <2>1, AnswerKeeps
<1>7. CASE CallReload(t)
  <2>1. CASE ~s_initialized
    BY <1>7, <2>1, AnswerKeeps DEF CallReload
  <2>2. CASE s_initialized
    <3>1. PICK r \in Requests : Enter(t, "reload", r, "reload")
      BY <1>7, <2>2 DEF CallReload
    <3>2. Opens("reload", r, "reload")
      BY <2>2 DEF Opens
    <3>3. UNCHANGED <<core, config, facade>>
      BY <1>7, <2>2 DEF CallReload
    <3>4. QED
      BY <3>1, <3>2, <3>3, EnterKeeps
  <2>3. QED
    BY <2>1, <2>2
<1>8. CASE CallCleanup(t)
  <2>1. CASE ~s_initialized
    BY <1>8, <2>1, AnswerKeeps DEF CallCleanup
  <2>2. CASE s_initialized
    <3>1. PICK dry_run \in BOOLEAN : Enter(t, "cleanup", DryRun(dry_run), "snapshot")
      BY <1>8, <2>2 DEF CallCleanup
    <3>2. Opens("cleanup", DryRun(dry_run), "snapshot")
      BY <2>2 DEF Opens
    <3>3. UNCHANGED <<core, config, facade>>
      BY <1>8, <2>2 DEF CallCleanup
    <3>4. QED
      BY <3>1, <3>2, <3>3, EnterKeeps
  <2>3. QED
    BY <2>1, <2>2
<1>9. QED
  BY <1>1, <1>2, <1>3, <1>4, <1>5, <1>6, <1>7, <1>8

-----------------------------------------------------------------------------
LEMMA InvInit == Init => IInv
<1> SUFFICES ASSUME Init PROVE IInv
  OBVIOUS
<1> USE DEF Init
<1>1. /\ \A t \in Threads : /\ pc[t] = "idle" /\ call[t] = "none" /\ removed[t] = NoFiles
                            /\ total[t] = 0
      /\ \A d \in Directories : NoFiles[d] = {}
      /\ NoThread \notin Threads
  BY ThreadsAssumption DEF NoFiles
<1>2. Types
  <2>1. NoFiles \in [Directories -> SUBSET Ages]
    BY DEF NoFiles
  <2>2. /\ pc \in [Threads -> Locations] /\ call \in [Threads -> Calls] /\ DOMAIN arg = Threads
        /\ at \in [Threads -> 0..5]
    BY DEF Calls, Locations
  <2>3. /\ snapshot \in [Threads -> Configs] /\ DOMAIN total = Threads
        /\ removed \in [Threads -> [Directories -> SUBSET Ages]]
        /\ in_force \in [Threads -> SUBSET Configs]
    BY <2>1, DefaultType
  <2>4. files \in [Directories -> SUBSET Ages] /\ result \in [Threads -> {"SUCCESS", "FAILURE"}]
    OBVIOUS
  <2>5. /\ s_initialized \in BOOLEAN /\ engines \subseteq Engines
        /\ s_config \in Configs /\ s_config_lock \in Threads \cup {NoThread}
        /\ g_integration_initialized \in BOOLEAN /\ bypassed \in BOOLEAN
        /\ g_integration_mutex \in Threads \cup {NoThread}
    BY DefaultType
  <2>6. QED
    BY <2>2, <2>3, <2>4, <2>5 DEF Types
<1>3. Control
  <2>1. "idle" \notin Starting \cup Cleaning
    BY DEF Starting, Cleaning
  <2>2. \A t \in Threads : pc[t] = "idle" /\ call[t] = "none"
    BY <1>1
  <2>3. QED
    BY <2>1, <2>2, KindsOfCalls DEF Control, Plain
<1>4. Apart
  BY <1>1 DEF Apart
<1>5. MutexHeld /\ FacadeFlag /\ Phases
  BY <1>1, KindsOfCalls DEF MutexHeld, FacadeFlag, InLifeCycle, Phases, EnginesFollowFlag, Phase
<1>6. AskedWhileUp /\ Serving /\ FacadeServes
  BY <1>1, KindsOfCalls DEF AskedWhileUp, Serving, Plain, FacadeServes
<1>7. ConfigHeld /\ FreedAddsUp
  BY <1>1 DEF ConfigHeld, FreedAddsUp
<1>8. Cleaned
  BY <1>1 DEF Cleaned
<1>9. QED
  BY <1>2, <1>3, <1>4, <1>5, <1>6, <1>7, <1>8 DEF IInv

LEMMA InvStep == IInv /\ [Next]_vars => IInv'
<1> SUFFICES ASSUME IInv, [Next]_vars PROVE IInv'
  OBVIOUS
<1>1. CASE DaysPass
  BY <1>1, DaysPassKeeps
<1>2. ASSUME NEW t \in Threads, LifeCycle(t)
      PROVE  IInv'
  BY <1>2, CallsKeep, InitConfigKeeps, InitEndsKeeps, InitStepsKeep, StopEngineKeeps,
     StopDoneKeeps DEF LifeCycle
<1>3. ASSUME NEW t \in Threads, Facade(t)
      PROVE  IInv'
  BY <1>3, CallsKeep, FacadeStepsKeep DEF Facade
<1>4. ASSUME NEW t \in Threads, Service(t)
      PROVE  IInv'
  BY <1>4, CallsKeep, HealthKeeps, ReloadKeeps, SnapshotKeeps, CleanLogKeeps, CleanTraceKeeps,
     ReportKeeps DEF Service
<1>5. CASE UNCHANGED vars
  BY <1>5, StutterKeeps
<1>6. QED
  BY <1>1, <1>2, <1>3, <1>4, <1>5 DEF Next

LEMMA Invariant == Spec => []IInv
BY InvInit, InvStep, PTL DEF Spec

(* Whenever no life-cycle call is under way the store is all up or all     *)
(* down, and its flag says which (heapstore_core.c:216-285).               *)
THEOREM FlagIsTrue == Spec => []EnginesFollowFlag
<1>1. IInv => EnginesFollowFlag
  BY DEF IInv, Phases
<1>2. QED
  BY <1>1, Invariant, PTL

(* A health check or a cleanup that is about to answer SUCCESS speaks of   *)
(* a store that is up altogether (heapstore_core.c:431-468,                *)
(* heapstore_core_write.c:196-217).                                        *)
THEOREM SuccessIsMeant == Spec => []SuccessMeansServing
<1>1. IInv => SuccessMeansServing
  <2>1. SUFFICES ASSUME IInv, NEW t \in Threads, SuccessMeansServing!(t)!1
                 PROVE  engines = Engines
    BY DEF SuccessMeansServing
  <2>2. at[t] > 4 => at[t] >= 4
    <3>1. at[t] \in 0..5
      BY <2>1 DEF IInv, Types
    <3>2. QED
      BY <3>1
  <2>3. QED
    BY <2>1, <2>2, OrderLengths DEF IInv, Serving
<1>2. QED
  BY <1>1, Invariant, PTL

(* Under the flag of the facade the store is up, and a forwarded call      *)
(* finds its engine, unless the store was stopped behind the facade's      *)
(* back (heapstore_integration.c:87,165).                                  *)
THEOREM FacadeIsServed == Spec => []FacadeServes
<1>1. IInv => FacadeServes
  BY DEF IInv
<1>2. QED
  BY <1>1, Invariant, PTL

(* A cleanup removes only what one configuration in force while it ran     *)
(* lets it remove, and reports what it removed                             *)
(* (heapstore_core_write.c:196-217).                                       *)
THEOREM CleanupIsHonest == Spec => []CleanupHonest
<1>1. IInv => RetentionHonoured
  <2>1. SUFFICES ASSUME IInv, NEW t \in Threads, NEW d \in Directories, removed[t][d] # {}
                 PROVE  \E c \in in_force[t] :
                          /\ c.auto
                          /\ \A e \in Directories : \A a \in removed[t][e] : a > c[e]
    BY DEF RetentionHonoured
  <2>2. pc[t] \in {"clean_trace", "report"}
    BY <2>1 DEF IInv, Cleaned, NoFiles
  <2>3. /\ snapshot[t] \in in_force[t] /\ snapshot[t].auto
        /\ \A e \in Directories : \A a \in removed[t][e] : a > snapshot[t][e]
    BY <2>1, <2>2 DEF IInv, Cleaned
  <2>4. QED
    BY <2>3
<1>2. IInv => CleanupHonest
  BY <1>1 DEF IInv, CleanupHonest
<1>3. QED
  BY <1>2, Invariant, PTL

=============================================================================
