------------------------- MODULE HeapstoreLogProofs -------------------------
(***************************************************************************)
(* The log store keeps its lines, their order and its handles for any       *)
(* number of writers and cleaners, any services and lines, any size of the *)
(* table, and any retention.                                               *)
(***************************************************************************)
EXTENDS HeapstoreLog, FiniteSetTheorems, TLAPS

Locations == {"idle", "lock", "scan", "unlink"} \cup InSection
Writing == {"lock", "write"}
WriteCalls == [op : {"write"}, line : Lines]
CleanupCalls == [op : {"cleanup"}, since : 0..MaxClock, file : Names \cup {NoFile}]

(* What a thread relies on where it is.                                    *)
Sections ==
  \A t \in Threads :
    /\ pc[t] # "idle" => s_initialized
    /\ pc[t] \in Writing => call[t] \in WriteCalls /\ fate[call[t].line] = "writing"
    /\ pc[t] \in {"scan", "unlink"} => call[t] \in CleanupCalls /\ call[t].since <= clock
    /\ pc[t] = "unlink" => call[t].file \in Names
    /\ pc[t] \in {"rename", "reopen"} => s_main_log_file = Closed
    /\ pc[t] = "write" => Handle(LogOf(t)) # Closed

(* A line is written by one call.                                          *)
OwnLines ==
  \A t, u \in Threads :
    t # u /\ pc[t] \in Writing /\ pc[u] \in Writing => call[t].line # call[u].line

(* A handle on a name is a handle on a file.                               *)
Named ==
  /\ s_main_log_file = Main => files[Main] # NoFile
  /\ \A s \in DOMAIN s_service_logs : s_service_logs[s] = s => files[s] # NoFile

(* The history: what was written is past, and no file is older than a line *)
(* in it, or named after a second to come.                                 *)
Records == [line : Lines, at : 0..MaxClock]
Recorded ==
  /\ written \in Seq(Records)
  /\ \A i \in 1..Len(written) :
       /\ written[i].at <= clock
       /\ fate[written[i].line] \notin {"new", "writing"}
       /\ \A n \in Names : written[i].line \in Contents(n) => written[i].at <= files[n].mtime
ArchivesPast == \A k \in Archives : files[k] # NoFile => k <= clock

(* The lines a cleanup may remove under the name it is about to unlink.    *)
MayGo(since, i) == written[i].at + Keep < since \/ written[i].at >= since
Doomed ==
  \A t \in Threads : pc[t] = "unlink" =>
    \/ call[t].file \in Archives /\ call[t].file >= call[t].since
    \/ \A i \in 1..Len(written) :
         written[i].line \in Contents(call[t].file) => MayGo(call[t].since, i)

IInv ==
  /\ TypeOK /\ Sections /\ OwnLines /\ Named /\ OwnHandles
  /\ Recorded /\ ArchivesPast /\ LinesConserved /\ Chronological /\ Doomed

-----------------------------------------------------------------------------
(* Steps that leave what the files hold as it was.                         *)
LEMMA OpenedKeepsContents ==
  ASSUME TypeOK, NEW n \in Names, files' = Opened(n)
  PROVE  /\ files' \in [Names -> Files \cup {NoFile}] /\ files'[n] # NoFile
         /\ \A m \in Names :
              /\ Contents(m)' = Contents(m)
              /\ files[m] # NoFile => files'[m] = files[m]
              /\ m # n => files'[m] = files[m]
<1> DEFINE new == [lines |-> {}, mtime |-> clock]
<1>1. new \in Files /\ new.lines = {} /\ new # NoFile
  BY NamesAssumption DEF TypeOK, Files
<1>2. /\ files[n] # NoFile => files' = files
      /\ files[n] = NoFile => files' = [files EXCEPT ![n] = new]
  BY DEF Opened
<1> HIDE DEF new
<1>3. files \in [Names -> Files \cup {NoFile}]
  BY DEF TypeOK
<1>4. CASE files[n] # NoFile
  BY <1>2, <1>3, <1>4 DEF Contents
<1>5. CASE files[n] = NoFile
  <2>1. files' = [files EXCEPT ![n] = new]
    BY <1>2, <1>5
  <2>2. files'[n] = new /\ \A m \in Names \ {n} : files'[m] = files[m]
    BY <1>3, <2>1
  <2>3. files' \in [Names -> Files \cup {NoFile}]
    BY <1>1, <1>3, <2>1
  <2>4. \A m \in Names : Contents(m)' = Contents(m)
    BY <1>1, <1>5, <2>2 DEF Contents
  <2>5. QED
    BY <1>1, <1>5, <2>2, <2>3, <2>4
<1>6. QED
  BY <1>4, <1>5

LEMMA ContentsAreLines ==
  ASSUME TypeOK, NEW n \in Names
  PROVE  Contents(n) \subseteq Lines
BY DEF TypeOK, Contents, Files

LEMMA WrittenType ==
  ASSUME Recorded, NEW i \in 1..Len(written)
  PROVE  written[i].line \in Lines /\ written[i].at \in 0..MaxClock
<1>1. written[i] \in Records
  BY DEF Recorded
<1>2. QED
  BY <1>1 DEF Records

(* A file may be touched: its time becomes the present.                    *)
SameContents ==
  \A m \in Names :
    /\ Contents(m)' = Contents(m)
    /\ files[m] # NoFile => \/ files'[m] = files[m]
                            \/ files'[m] # NoFile /\ files'[m].mtime = clock
    /\ m \in Archives => files'[m] = files[m]

(* What became of a line that was written stays; a line may begin to be    *)
(* written, or be lost on the way.                                         *)
OnlyBegun ==
  /\ fate' \in [Lines -> Fates]
  /\ \A l \in Lines : \/ fate'[l] = fate[l]
                      \/ fate[l] \in {"new", "writing"} /\ fate'[l] \in {"writing", "lost"}

LEMMA DataKept ==
  ASSUME IInv, SameContents, OnlyBegun, written' = written, clock' \in Nat, clock <= clock'
  PROVE  Recorded' /\ ArchivesPast' /\ LinesConserved' /\ Chronological'
<1>1. TypeOK /\ Recorded
  BY DEF IInv
<1>2. \A i \in 1..Len(written) : /\ written[i].line \in Lines /\ written[i].at \in 0..MaxClock
                                 /\ written[i].at <= clock
  BY <1>1, WrittenType DEF Recorded
<1>3. clock \in Nat /\ MaxClock \in Nat
  BY <1>1, BoundsAssumption DEF TypeOK
<1>4. Recorded'
  <2>1. \A i \in 1..Len(written) : written[i].at <= clock'
    BY <1>2, <1>3
  <2>2. \A i \in 1..Len(written) : fate'[written[i].line] \notin {"new", "writing"}
    BY <1>1, <1>2 DEF Recorded, OnlyBegun
  <2>3. \A i \in 1..Len(written), n \in Names :
          written[i].line \in Contents(n)' => written[i].at <= files'[n].mtime
    <3>1. SUFFICES ASSUME NEW i \in 1..Len(written), NEW n \in Names,
                          written[i].line \in Contents(n)
                   PROVE  written[i].at <= files'[n].mtime
      BY DEF SameContents
    <3>2. files'[n] = files[n] \/ files'[n].mtime = clock
      BY <3>1 DEF Contents, SameContents
    <3>3. QED
      BY <1>1, <3>1, <3>2 DEF Recorded
  <2>4. QED
    BY <1>1, <2>1, <2>2, <2>3 DEF Recorded
<1>5. ArchivesPast'
  <2>1. SUFFICES ASSUME NEW k \in Archives, files'[k] # NoFile
                 PROVE  k <= clock'
    BY DEF ArchivesPast
  <2>2. k <= clock /\ k \in Nat
    BY <1>3, <2>1 DEF IInv, ArchivesPast, SameContents, Names, Archives
  <2>3. QED
    BY <1>3, <2>2
<1>6. LinesConserved'
  <2>1. \A l \in Lines : fate'[l] = "stored" => fate[l] = "stored"
    BY DEF OnlyBegun
  <2>2. \A l \in Lines : fate[l] = "stored" => fate'[l] = "stored"
    BY DEF OnlyBegun
  <2>3. \A n \in Names : Contents(n) \subseteq Lines
    BY <1>1, ContentsAreLines
  <2>4. QED
    BY <2>1, <2>2, <2>3 DEF IInv, LinesConserved, SameContents
<1>7. Chronological'
  <2>1. {Main} \cup Archives \subseteq Names
    BY DEF Names
  <2>2. QED
    BY <2>1 DEF IInv, Chronological, SameContents
<1>8. QED
  BY <1>4, <1>5, <1>6, <1>7

LEMMA DoomedKept ==
  ASSUME IInv, SameContents, written' = written,
         \A t \in Threads : pc'[t] = "unlink" =>
           (pc[t] = "unlink" /\ call'[t] = call[t]) \/ Doomed!(t)'
  PROVE  Doomed'
<1>1. SUFFICES ASSUME NEW t \in Threads, pc'[t] = "unlink", pc[t] = "unlink", call'[t] = call[t]
               PROVE  Doomed!(t)!2'
  BY DEF Doomed
<1>2. call[t].file \in Names
  BY <1>1 DEF IInv, Sections
<1>3. Doomed!(t)!2
  BY <1>1 DEF IInv, Doomed
<1>4. Contents(call[t].file)' = Contents(call[t].file)
  BY <1>1, <1>2 DEF SameContents
<1>5. QED
  BY <1>1, <1>3, <1>4 DEF MayGo

-----------------------------------------------------------------------------
(* A step of one thread, for the others.                                   *)
Moves(t, p, c) ==
  /\ pc' \in [Threads -> Locations] /\ call' \in [Threads -> Calls]
  /\ pc'[t] = p /\ call'[t] = c
  /\ \A u \in Threads \ {t} : pc'[u] = pc[u] /\ call'[u] = call[u]

(* The lock is taken, kept or released as the thread enters, stays in or   *)
(* leaves a critical section.                                              *)
LockFollows(t, p) ==
  \/ p \in InSection /\ s_log_lock' = t /\ (s_log_lock = NoThread \/ pc[t] \in InSection)
  \/ p \notin InSection /\ pc[t] \in InSection /\ s_log_lock' = NoThread
  \/ p \notin InSection /\ pc[t] \notin InSection /\ s_log_lock' = s_log_lock

(* The handles that are open stay so, except in a critical section.        *)
HandlesFollow(t, p) ==
  \/ p \in InSection \/ pc[t] \in InSection
  \/ /\ DOMAIN s_service_logs' = DOMAIN s_service_logs
     /\ s_main_log_file = Closed <=> s_main_log_file' = Closed
     /\ \A s \in DOMAIN s_service_logs : s_service_logs'[s] = Closed => s_service_logs[s] = Closed

LEMMA OthersKept ==
  ASSUME IInv, NEW t \in Threads, NEW p, NEW c, Moves(t, p, c), LockFollows(t, p),
         HandlesFollow(t, p), s_initialized, s_initialized' = TRUE, clock' = clock,
         s_log_level' = s_log_level, OwnHandles', DOMAIN s_service_logs' \subseteq Services,
         Cardinality(DOMAIN s_service_logs') <= MaxServices,
         files' \in [Names -> Files \cup {NoFile}], fate' \in [Lines -> Fates],
         \A l \in Lines : fate[l] = "writing" => \/ fate'[l] = fate[l]
                                                 \/ pc[t] \in Writing /\ l = call[t].line,
         p \in Writing => \A u \in Threads \ {t} : pc[u] \in Writing => call[u].line # c.line,
         Sections!(t)'
  PROVE  TypeOK' /\ Sections' /\ OwnLines'
<1>1. TypeOK /\ Sections /\ OwnLines
  BY DEF IInv
<1>2. s_log_lock' \in Threads \cup {NoThread} /\ \A u \in Threads : s_log_lock' = u <=> pc'[u] \in InSection
  <2>1. \A u \in Threads : s_log_lock = u <=> pc[u] \in InSection
    BY <1>1 DEF TypeOK
  <2>2. s_log_lock \in Threads \cup {NoThread} /\ NoThread \notin Threads
    BY <1>1, NamesAssumption DEF TypeOK
  <2>3. QED
    BY <2>1, <2>2 DEF LockFollows, Moves
<1>3. TypeOK'
  <2>1. s_main_log_file' \in Names \cup {Closed, Unlinked}
    BY DEF OwnHandles, Names
  <2>2. \A s \in DOMAIN s_service_logs' : s_service_logs'[s] \in Names \cup {Closed, Unlinked}
    BY DEF OwnHandles, Names
  <2>3. QED
    BY <1>1, <1>2, <2>1, <2>2 DEF TypeOK, Moves, Locations
<1>4. Sections'
  <2>1. SUFFICES ASSUME NEW u \in Threads \ {t}
                 PROVE  Sections!(u)'
    BY DEF Sections
  <2>2. pc'[u] = pc[u] /\ call'[u] = call[u] /\ Sections!(u)
    BY <1>1 DEF Moves, Sections
  <2>3. pc[u] \in Writing => call[u] \in WriteCalls /\ fate'[call[u].line] = "writing"
    <3>1. SUFFICES ASSUME pc[u] \in Writing PROVE fate'[call[u].line] = "writing"
      BY <2>2
    <3>2. call[u].line \in Lines /\ fate[call[u].line] = "writing"
      BY <2>2, <3>1 DEF WriteCalls
    <3>3. pc[t] \in Writing => call[u].line # call[t].line
      BY <1>1, <3>1 DEF OwnLines
    <3>4. QED
      BY <3>2, <3>3
  <2>4. pc[u] \in InSection => p \notin InSection /\ pc[t] \notin InSection
    BY <1>1, NamesAssumption DEF TypeOK, LockFollows
  <2>5. pc[u] \in {"rename", "reopen"} => s_main_log_file' = Closed
    BY <2>2, <2>4 DEF HandlesFollow, InSection
  <2>6. pc[u] = "write" => Handle(LogOf(u))' # Closed
    <3>1. SUFFICES ASSUME pc[u] = "write" PROVE Handle(LogOf(u))' # Closed
      OBVIOUS
    <3>2. /\ DOMAIN s_service_logs' = DOMAIN s_service_logs
          /\ s_main_log_file = Closed <=> s_main_log_file' = Closed
          /\ \A s \in DOMAIN s_service_logs : s_service_logs'[s] = Closed => s_service_logs[s] = Closed
      BY <2>4, <3>1 DEF HandlesFollow, InSection
    <3>3. LogOf(u)' = LogOf(u)
      BY <2>2, <3>2 DEF LogOf
    <3>4. Handle(LogOf(u)) # Closed
      BY <2>2, <3>1
    <3>5. QED
      BY <3>2, <3>3, <3>4 DEF Handle
  <2>7. QED
    BY <2>2, <2>3, <2>5, <2>6
<1>5. OwnLines'
  BY <1>1 DEF OwnLines, Moves
<1>6. QED
  BY <1>3, <1>4, <1>5

LEMMA GotoMoves ==
  ASSUME TypeOK, NEW t \in Threads, NEW p \in Locations, Goto(t, p), call' = call
  PROVE  Moves(t, p, call[t])
BY DEF TypeOK, Locations, Goto, Moves

LEMMA CallMoves ==
  ASSUME TypeOK, NEW t \in Threads, NEW p \in Locations, NEW c \in Calls, Goto(t, p),
         call' = [call EXCEPT ![t] = c]
  PROVE  Moves(t, p, c)
BY DEF TypeOK, Locations, Goto, Moves

LEMMA ReturnMoves ==
  ASSUME TypeOK, NEW t \in Threads, Return(t)
  PROVE  Moves(t, "idle", Idle)
BY CallMoves DEF Return, Locations, Calls

LEMMA FatedDoes ==
  ASSUME TypeOK, NEW lines, NEW f \in Fates, fate' = Fated(lines, f)
  PROVE  /\ fate' \in [Lines -> Fates]
         /\ \A l \in Lines : fate'[l] = IF l \in lines THEN f ELSE fate[l]
BY DEF TypeOK, Fated

(* A step that changes where its thread is, at most the fate of its own    *)
(* line, and nothing that a file holds.                                    *)
LEMMA MoveKeeps ==
  ASSUME IInv, NEW t \in Threads, NEW p, NEW c, Moves(t, p, c), LockFollows(t, p), OnlyBegun,
         s_initialized,
         UNCHANGED <<s_initialized, s_log_level, handles, clock, written>>,
         files' \in [Names -> Files \cup {NoFile}], SameContents,
         \A l \in Lines : fate[l] = "writing" => \/ fate'[l] = fate[l]
                                                 \/ pc[t] \in Writing /\ l = call[t].line,
         p \in Writing => \A u \in Threads \ {t} : pc[u] \in Writing => call[u].line # c.line,
         Sections!(t)', Doomed!(t)'
  PROVE  IInv'
<1> USE DEF handles
<1>1. TypeOK /\ OwnHandles /\ Named
  BY DEF IInv
<1>2. OwnHandles' /\ Named'
  <2>1. Main \in Names /\ DOMAIN s_service_logs \subseteq Names
    BY <1>1 DEF TypeOK, Names
  <2>2. \A m \in Names : files[m] # NoFile => files'[m] # NoFile
    BY DEF SameContents
  <2>3. QED
    BY <1>1, <2>1, <2>2 DEF OwnHandles, Named
<1>3. SameContents
  OBVIOUS
<1>4. clock \in Nat
  BY <1>1, BoundsAssumption DEF TypeOK
<1>5. Recorded' /\ ArchivesPast' /\ LinesConserved' /\ Chronological'
  BY <1>3, <1>4, DataKept
<1>6. TypeOK' /\ Sections' /\ OwnLines'
  <2>1. HandlesFollow(t, p)
    BY DEF HandlesFollow
  <2>2. /\ s_initialized' = TRUE
        /\ DOMAIN s_service_logs' \subseteq Services
        /\ Cardinality(DOMAIN s_service_logs') <= MaxServices
        /\ files' \in [Names -> Files \cup {NoFile}] /\ fate' \in [Lines -> Fates]
    BY <1>1 DEF TypeOK, OnlyBegun
  <2>3. QED
    BY <1>2, <2>1, <2>2, OthersKept
<1>7. Doomed'
  <2>1. \A u \in Threads : pc'[u] = "unlink" =>
          (pc[u] = "unlink" /\ call'[u] = call[u]) \/ Doomed!(u)'
    BY DEF Moves
  <2>2. QED
    BY <1>3, <2>1, DoomedKept
<1>8. QED
  BY <1>2, <1>5, <1>6, <1>7 DEF IInv

LEMMA PlainMoveKeeps ==
  ASSUME IInv, NEW t \in Threads, NEW p, NEW c, Moves(t, p, c), LockFollows(t, p), OnlyBegun,
         s_initialized,
         UNCHANGED <<s_initialized, s_log_level, handles, files, clock, written>>,
         \A l \in Lines : fate[l] = "writing" => \/ fate'[l] = fate[l]
                                                 \/ pc[t] \in Writing /\ l = call[t].line,
         p \in Writing => \A u \in Threads \ {t} : pc[u] \in Writing => call[u].line # c.line,
         Sections!(t)', Doomed!(t)'
  PROVE  IInv'
<1>1. files' \in [Names -> Files \cup {NoFile}]
  BY DEF IInv, TypeOK
<1>2. SameContents
  BY DEF SameContents, Contents
<1>3. QED
  BY <1>1, <1>2, MoveKeeps

-----------------------------------------------------------------------------
(* The calls of heapstore_log_write.                                       *)
LEMMA CallWriteKeeps ==
  ASSUME IInv, NEW t \in Threads, CallWrite(t)
  PROVE  IInv'
<1>1. TypeOK /\ Sections
  BY DEF IInv
<1>2. PICK l \in Lines :
        /\ fate[l] = "new" /\ fate' = Fated({l}, "writing")
        /\ call' = [call EXCEPT ![t] = [op |-> "write", line |-> l]]
  BY DEF CallWrite
<1>3. /\ pc[t] = "idle" /\ s_initialized /\ Goto(t, "lock")
      /\ UNCHANGED <<s_initialized, s_log_level, s_log_lock, handles, files, clock, written>>
  BY DEF CallWrite
<1> DEFINE c == [op |-> "write", line |-> l]
<1>4. c \in WriteCalls /\ c.line = l /\ c \in Calls
  BY DEF WriteCalls, Calls
<1>5. call' = [call EXCEPT ![t] = c]
  BY <1>2
<1> HIDE DEF c
<1>6. Moves(t, "lock", c)
  BY <1>1, <1>3, <1>4, <1>5, CallMoves DEF Locations
<1>7. LockFollows(t, "lock")
  BY <1>3 DEF LockFollows, InSection
<1>8. /\ fate' \in [Lines -> Fates]
      /\ \A k \in Lines : fate'[k] = IF k = l THEN "writing" ELSE fate[k]
  BY <1>1, <1>2, FatedDoes DEF Fates
<1>9. OnlyBegun
  BY <1>2, <1>8 DEF OnlyBegun
<1>10. \A u \in Threads \ {t} : pc[u] \in Writing => call[u].line # c.line
  BY <1>1, <1>2, <1>4 DEF Sections
<1>11. Sections!(t)'
  BY <1>3, <1>4, <1>6, <1>8 DEF Moves
<1>12. Doomed!(t)'
  BY <1>6 DEF Moves
<1>13. \A k \in Lines : fate[k] = "writing" => fate'[k] = fate[k]
  BY <1>8
<1>14. QED
  BY <1>3, <1>6, <1>7, <1>9, <1>10, <1>11, <1>12, <1>13, PlainMoveKeeps

(* A rotation that fails.                                                  *)
LEMMA RotationFailsKeeps ==
  ASSUME IInv, NEW t \in Threads, RotateRenameFails(t) \/ RotateReopenFails(t)
  PROVE  IInv'
<1>1. TypeOK /\ Sections
  BY DEF IInv
<1>2. /\ pc[t] \in {"rename", "reopen"} /\ UnlockAndReturn(t)
      /\ UNCHANGED <<s_initialized, s_log_level, handles, files, clock, written, fate>>
  BY DEF RotateRenameFails, RotateReopenFails, history
<1>3. s_initialized /\ pc[t] \in InSection
  BY <1>1, <1>2 DEF Sections, InSection
<1>4. Moves(t, "idle", Idle) /\ s_log_lock' = NoThread
  BY <1>1, <1>2, ReturnMoves DEF UnlockAndReturn
<1>5. LockFollows(t, "idle")
  BY <1>3, <1>4 DEF LockFollows, InSection
<1>6. OnlyBegun
  BY <1>1, <1>2 DEF OnlyBegun, TypeOK
<1>7. Sections!(t)' /\ Doomed!(t)' /\ "idle" \notin Writing
  BY <1>4 DEF Moves, Writing
<1>8. QED
  BY <1>2, <1>3, <1>4, <1>5, <1>6, <1>7, PlainMoveKeeps

(* The scan of a cleanup.                                                  *)
LEMMA ScanKeeps ==
  ASSUME IInv, NEW t \in Threads, NEW p \in {"scan", "idle"}, NEW c \in Calls,
         Moves(t, p, c), pc[t] \in {"idle", "scan"}, s_initialized,
         p = "scan" => c \in CleanupCalls /\ c.since <= clock,
         UNCHANGED <<s_initialized, s_log_level, s_log_lock, handles, files, clock, history>>
  PROVE  IInv'
<1>1. TypeOK
  BY DEF IInv
<1>2. LockFollows(t, p)
  BY DEF LockFollows, InSection
<1>3. OnlyBegun /\ UNCHANGED <<written, fate>>
  BY <1>1 DEF OnlyBegun, TypeOK, history
<1>4. Sections!(t)' /\ Doomed!(t)' /\ p \notin Writing
  BY DEF Moves, Writing
<1>5. QED
  BY <1>2, <1>3, <1>4, PlainMoveKeeps

LEMMA CleanupCallKeeps ==
  ASSUME IInv, NEW t \in Threads, CallCleanup(t) \/ CleanupDone(t)
  PROVE  IInv'
<1>1. TypeOK /\ Sections
  BY DEF IInv
<1>2. CASE CallCleanup(t)
  <2> DEFINE c == [op |-> "cleanup", since |-> clock, file |-> NoFile]
  <2>1. /\ pc[t] = "idle" /\ s_initialized /\ Goto(t, "scan") /\ call' = [call EXCEPT ![t] = c]
        /\ UNCHANGED <<s_initialized, s_log_level, s_log_lock, handles, files, clock, history>>
    BY <1>2 DEF CallCleanup
  <2>2. c \in CleanupCalls /\ c \in Calls /\ c.since = clock /\ clock \in Nat
    BY <1>1, BoundsAssumption DEF CleanupCalls, Calls, TypeOK
  <2> HIDE DEF c
  <2>3. Moves(t, "scan", c)
    BY <1>1, <2>1, <2>2, CallMoves DEF Locations
  <2>4. c.since <= clock
    BY <2>2
  <2>5. QED
    BY <2>1, <2>2, <2>3, <2>4, ScanKeeps
<1>3. CASE CleanupDone(t)
  <2>1. /\ pc[t] = "scan" /\ Return(t)
        /\ UNCHANGED <<s_initialized, s_log_level, s_log_lock, handles, files, clock, history>>
    BY <1>3 DEF CleanupDone
  <2>2. Moves(t, "idle", Idle) /\ Idle \in Calls /\ s_initialized
    BY <1>1, <2>1, ReturnMoves DEF Calls, Sections
  <2>3. QED
    BY <2>1, <2>2, ScanKeeps
<1>4. QED
  BY <1>2, <1>3

(* What is expired when it is looked at was written before the retention.  *)
LEMMA CleanupStatKeeps ==
  ASSUME IInv, NEW t \in Threads, CleanupStat(t)
  PROVE  IInv'
<1>1. TypeOK /\ Sections /\ Recorded
  BY DEF IInv
<1>2. PICK n \in Names : Expired(n, call[t].since) /\ call' = [call EXCEPT ![t].file = n]
  BY DEF CleanupStat
<1>3. /\ pc[t] = "scan" /\ Goto(t, "unlink")
      /\ UNCHANGED <<s_initialized, s_log_level, s_log_lock, handles, files, clock, history>>
  BY DEF CleanupStat
<1>4. call[t] \in CleanupCalls /\ call[t].since <= clock /\ s_initialized
  BY <1>1, <1>3 DEF Sections
<1> DEFINE c == [call[t] EXCEPT !.file = n]
<1>5. c \in CleanupCalls /\ c.since = call[t].since /\ c.file = n
  BY <1>4 DEF CleanupCalls
<1>6. call' = [call EXCEPT ![t] = c]
  BY <1>2
<1> HIDE DEF c
<1>7. Moves(t, "unlink", c)
  BY <1>1, <1>3, <1>5, <1>6, CallMoves DEF Locations, Calls, CleanupCalls
<1>8. LockFollows(t, "unlink")
  BY <1>3 DEF LockFollows, InSection
<1>9. OnlyBegun /\ UNCHANGED <<written, fate>>
  BY <1>1, <1>3 DEF OnlyBegun, TypeOK, history
<1>10. Sections!(t)'
  BY <1>3, <1>4, <1>5, <1>7 DEF Moves, Writing
<1>11. Doomed!(t)'
  <2>1. SUFFICES ASSUME NEW i \in 1..Len(written), written[i].line \in Contents(n)
                 PROVE  written[i].at + Keep < call[t].since
    <3>1. Contents(n)' = Contents(n)
      BY <1>3 DEF Contents
    <3>2. QED
      BY <1>5, <1>7, <1>9, <2>1, <3>1 DEF Moves, MayGo
  <2>2. files[n] # NoFile /\ files[n].mtime + Keep < call[t].since
    BY <1>2 DEF Expired
  <2>3. files[n].mtime \in Nat /\ call[t].since \in Nat /\ Keep \in Nat /\ written[i].at \in Nat
    BY <1>1, <1>4, <2>2, BoundsAssumption, WrittenType DEF TypeOK, Files, CleanupCalls
  <2>4. written[i].at <= files[n].mtime
    BY <1>1, <2>1 DEF Recorded
  <2>5. QED
    BY <2>2, <2>3, <2>4
<1>12. "unlink" \notin Writing
  BY DEF Writing
<1>13. QED
  BY <1>3, <1>4, <1>7, <1>8, <1>9, <1>10, <1>11, <1>12, PlainMoveKeeps

-----------------------------------------------------------------------------
(* Steps that open or close a file in a critical section.                  *)
LEMMA NamesApart ==
  /\ Main \in Names /\ Services \subseteq Names /\ Archives \subseteq Names
  /\ Main \notin Services /\ Main \notin Archives /\ Services \cap Archives = {}
  /\ Closed \notin Names /\ Unlinked \notin Names /\ Closed # Unlinked
  /\ NoService \notin Services /\ NoThread \notin Threads
<1>1. Archives \subseteq Nat
  BY BoundsAssumption DEF Archives
<1>2. QED
  BY <1>1, NamesAssumption DEF Names

LEMMA OpenMoveKeeps ==
  ASSUME IInv, NEW t \in Threads, NEW p, Moves(t, p, IF p = "idle" THEN Idle ELSE call[t]),
         LockFollows(t, p), p \in InSection \/ pc[t] \in InSection, s_initialized,
         UNCHANGED <<s_initialized, s_log_level, clock, history>>,
         \/ files' = files
         \/ \E n \in {Main} \cup Services : files' = Opened(n),
         OwnHandles', Named', DOMAIN s_service_logs' \subseteq Services,
         Cardinality(DOMAIN s_service_logs') <= MaxServices,
         p \in {"idle", "write", "rename"}, p = "write" => pc[t] = "lock", Sections!(t)'
  PROVE  IInv'
<1>1. TypeOK /\ OwnLines
  BY DEF IInv
<1>2. files' \in [Names -> Files \cup {NoFile}] /\ SameContents
  <2>1. CASE files' = files
    BY <1>1, <2>1 DEF TypeOK, SameContents, Contents
  <2>2. CASE \E n \in {Main} \cup Services : files' = Opened(n)
    <3>1. PICK n \in {Main} \cup Services : files' = Opened(n)
      BY <2>2
    <3>2. n \in Names /\ n \notin Archives
      BY NamesApart
    <3>3. QED
      BY <1>1, <3>1, <3>2, OpenedKeepsContents DEF SameContents
  <2>3. QED
    BY <2>1, <2>2
<1>3. OnlyBegun /\ UNCHANGED <<written, fate>>
  BY <1>1 DEF OnlyBegun, TypeOK, history
<1>4. clock \in Nat
  BY <1>1, BoundsAssumption DEF TypeOK
<1>5. Recorded' /\ ArchivesPast' /\ LinesConserved' /\ Chronological'
  BY <1>2, <1>3, <1>4, DataKept
<1>6. TypeOK' /\ Sections' /\ OwnLines'
  <2>1. HandlesFollow(t, p) /\ s_initialized' = TRUE
    BY <1>1 DEF HandlesFollow, TypeOK
  <2>2. p \in Writing => \A u \in Threads \ {t} : pc[u] \in Writing => call[u].line # call[t].line
    BY <1>1 DEF OwnLines, Writing
  <2>3. fate' \in [Lines -> Fates]
    BY <1>3 DEF OnlyBegun
  <2>4. p \in Writing => p = "write" /\ p # "idle"
    BY DEF Writing
  <2>5. QED
    BY <1>2, <1>3, <2>1, <2>2, <2>3, <2>4, OthersKept
<1>7. Doomed'
  <2>1. \A u \in Threads : pc'[u] = "unlink" => pc[u] = "unlink" /\ call'[u] = call[u]
    BY DEF Moves
  <2>2. QED
    BY <1>2, <1>3, <2>1, DoomedKept
<1>8. QED
  BY <1>5, <1>6, <1>7 DEF IInv

LEMMA LogOfType ==
  ASSUME TypeOK, NEW t \in Threads, call[t] \in WriteCalls
  PROVE  /\ LogOf(t) \in {Main} \cup Services
         /\ LogOf(t) # Main => \/ LogOf(t) \in DOMAIN s_service_logs
                               \/ Cardinality(DOMAIN s_service_logs) < MaxServices
<1>1. ServiceOf[call[t].line] \in Services \cup {NoService}
  BY BoundsAssumption DEF WriteCalls
<1>2. QED
  BY <1>1 DEF LogOf

LEMMA GetLogFileKeeps ==
  ASSUME IInv, NEW t \in Threads, GetLogFile(t)
  PROVE  IInv'
<1> DEFINE n == LogOf(t)
<1>1. TypeOK /\ Sections /\ OwnLines /\ OwnHandles /\ Named
  BY DEF IInv
<1>2. /\ pc[t] = "lock" /\ s_log_lock = NoThread /\ s_log_lock' = t /\ Goto(t, "write")
      /\ UNCHANGED <<s_initialized, s_log_level, clock, call, history>>
  BY DEF GetLogFile
<1>3. call[t] \in WriteCalls /\ fate[call[t].line] = "writing" /\ s_initialized
  BY <1>1, <1>2 DEF Sections, Writing
<1>4. Moves(t, "write", call[t])
  BY <1>1, <1>2, GotoMoves DEF Locations, InSection
<1>5. LockFollows(t, "write")
  BY <1>2 DEF LockFollows, InSection
<1>6. /\ n \in {Main} \cup Services
      /\ n # Main => \/ n \in DOMAIN s_service_logs
                     \/ Cardinality(DOMAIN s_service_logs) < MaxServices
  BY <1>1, <1>3, LogOfType
<1>7. call'[t] = call[t] /\ pc'[t] = "write" /\ fate' = fate /\ written' = written
  BY <1>2, <1>4 DEF Moves, history
<1>8. Handle(LogOf(t))' # Closed => Sections!(t)'
  BY <1>2, <1>3, <1>7
<1>9. CASE Handle(n) # Closed /\ UNCHANGED <<files, handles>>
  <2>1. Handle(LogOf(t))' # Closed
    BY <1>7, <1>9 DEF Handle, LogOf, handles
  <2>2. OnlyBegun
    BY <1>1, <1>7 DEF OnlyBegun, TypeOK
  <2>3. \A u \in Threads \ {t} : pc[u] \in Writing => call[u].line # call[t].line
    BY <1>1, <1>2 DEF OwnLines, Writing
  <2>4. Doomed!(t)'
    BY <1>7
  <2>5. QED
    BY <1>2, <1>3, <1>4, <1>5, <1>7, <1>8, <1>9, <2>1, <2>2, <2>3, <2>4, PlainMoveKeeps
<1>10. CASE /\ Handle(n) = Closed /\ files' = Opened(n)
            /\ n = Main /\ s_main_log_file' = Main /\ UNCHANGED s_service_logs
  <2>1. LogOf(t)' = n
    BY <1>7, <1>10 DEF LogOf
  <2>2. Handle(LogOf(t))' # Closed
    BY <1>10, <2>1, NamesApart DEF Handle
  <2>3. OwnHandles'
    BY <1>1, <1>2, <1>3, <1>10 DEF OwnHandles
  <2>4. Named'
    BY <1>1, <1>10, OpenedKeepsContents, NamesApart DEF Named, TypeOK
  <2>5. /\ DOMAIN s_service_logs' \subseteq Services
        /\ Cardinality(DOMAIN s_service_logs') <= MaxServices
    BY <1>1, <1>10 DEF TypeOK
  <2>6. QED
    BY <1>2, <1>3, <1>4, <1>5, <1>6, <1>8, <1>10, <2>2, <2>3, <2>4, <2>5, OpenMoveKeeps DEF InSection
<1>11. CASE /\ Handle(n) = Closed /\ files' = Opened(n) /\ n # Main
            /\ s_service_logs' = [s \in DOMAIN s_service_logs \cup {n} |->
                                    IF s = n THEN n ELSE s_service_logs[s]]
            /\ UNCHANGED s_main_log_file
  <2>1. n \in Services /\ n \in Names
    BY <1>6, <1>11, NamesApart
  <2>2. n \notin DOMAIN s_service_logs
    BY <1>1, <1>11, <2>1, NamesApart DEF Handle, OwnHandles
  <2>3. /\ DOMAIN s_service_logs' = DOMAIN s_service_logs \cup {n}
        /\ s_service_logs'[n] = n
        /\ \A s \in DOMAIN s_service_logs : s_service_logs'[s] = s_service_logs[s]
    BY <1>11, <2>2
  <2>4. /\ DOMAIN s_service_logs' \subseteq Services
        /\ Cardinality(DOMAIN s_service_logs') <= MaxServices
    <3>1. DOMAIN s_service_logs \subseteq Services /\ IsFiniteSet(DOMAIN s_service_logs)
      BY <1>1, BoundsAssumption, FS_Subset DEF TypeOK
    <3>2. Cardinality(DOMAIN s_service_logs \cup {n}) = Cardinality(DOMAIN s_service_logs) + 1
      BY <2>2, <3>1, FS_AddElement
    <3>3. Cardinality(DOMAIN s_service_logs) < MaxServices
      BY <1>6, <1>11, <2>2
    <3>4. Cardinality(DOMAIN s_service_logs) \in Nat
      BY <3>1, FS_CardinalityType
    <3>5. QED
      BY <2>1, <2>3, <3>1, <3>2, <3>3, <3>4, BoundsAssumption
  <2>5. LogOf(t)' = n
    <3>1. n = ServiceOf[call[t].line] /\ n # NoService
      BY <1>11, <2>1, NamesApart DEF LogOf
    <3>2. QED
      BY <1>7, <2>3, <3>1 DEF LogOf
  <2>6. Handle(LogOf(t))' # Closed
    BY <1>11, <2>1, <2>3, <2>5, NamesApart DEF Handle
  <2>7. OwnHandles'
    BY <1>1, <1>2, <1>3, <1>11, <2>3 DEF OwnHandles
  <2>8. Named'
    <3>1. /\ files'[n] # NoFile
          /\ \A m \in Names : files[m] # NoFile => files'[m] = files[m]
      BY <1>1, <1>11, <2>1, OpenedKeepsContents
    <3>2. DOMAIN s_service_logs \subseteq Names /\ Main \in Names
      BY <1>1, NamesApart DEF TypeOK
    <3>3. QED
      BY <1>1, <1>11, <2>3, <3>1, <3>2 DEF Named
  <2>9. QED
    BY <1>2, <1>3, <1>4, <1>5, <1>6, <1>8, <1>11, <2>4, <2>6, <2>7, <2>8, OpenMoveKeeps DEF InSection
<1>12. QED
  BY <1>9, <1>10, <1>11 DEF GetLogFile

LEMMA CallRotateKeeps ==
  ASSUME IInv, NEW t \in Threads, CallRotate(t)
  PROVE  IInv'
<1>1. TypeOK /\ Sections /\ OwnHandles /\ Named
  BY DEF IInv
<1>2. /\ pc[t] = "idle" /\ s_initialized /\ s_log_lock = NoThread /\ s_log_lock' = t
      /\ s_main_log_file' = Closed /\ Goto(t, "rename")
      /\ UNCHANGED <<s_initialized, s_log_level, s_service_logs, files, clock, call, history>>
  BY DEF CallRotate
<1>3. Moves(t, "rename", call[t])
  BY <1>1, <1>2, GotoMoves DEF Locations, InSection
<1>4. LockFollows(t, "rename")
  BY <1>2 DEF LockFollows, InSection
<1>5. OwnHandles' /\ Named'
  BY <1>1, <1>2, NamesApart DEF OwnHandles, Named
<1>6. /\ DOMAIN s_service_logs' \subseteq Services
      /\ Cardinality(DOMAIN s_service_logs') <= MaxServices
  BY <1>1, <1>2 DEF TypeOK
<1>7. Sections!(t)'
  BY <1>2, <1>3 DEF Moves, Writing
<1>8. QED
  BY <1>2, <1>3, <1>4, <1>5, <1>6, <1>7, OpenMoveKeeps DEF InSection

LEMMA RotateReopenKeeps ==
  ASSUME IInv, NEW t \in Threads, RotateReopen(t)
  PROVE  IInv'
<1>1. TypeOK /\ Sections /\ OwnHandles /\ Named
  BY DEF IInv
<1>2. /\ pc[t] = "reopen" /\ files' = Opened(Main) /\ s_main_log_file' = Main
      /\ UnlockAndReturn(t)
      /\ UNCHANGED <<s_initialized, s_log_level, s_service_logs, clock, history>>
  BY DEF RotateReopen
<1>3. Moves(t, "idle", Idle) /\ s_log_lock' = NoThread
  BY <1>1, <1>2, ReturnMoves DEF UnlockAndReturn
<1>4. LockFollows(t, "idle")
  BY <1>2, <1>3 DEF LockFollows, InSection
<1>5. s_initialized
  BY <1>1, <1>2 DEF Sections
<1>6. OwnHandles'
  BY <1>1, <1>2, <1>5 DEF OwnHandles
<1>7. Named'
  <2>1. /\ files'[Main] # NoFile
        /\ \A m \in Names : files[m] # NoFile => files'[m] = files[m]
    BY <1>1, <1>2, OpenedKeepsContents, NamesApart
  <2>2. DOMAIN s_service_logs \subseteq Names
    BY <1>1, NamesApart DEF TypeOK
  <2>3. QED
    BY <1>1, <1>2, <2>1, <2>2 DEF Named
<1>8. /\ DOMAIN s_service_logs' \subseteq Services
      /\ Cardinality(DOMAIN s_service_logs') <= MaxServices
  BY <1>1, <1>2 DEF TypeOK
<1>9. Sections!(t)'
  BY <1>3 DEF Moves, Writing
<1>10. QED
  BY <1>2, <1>3, <1>4, <1>5, <1>6, <1>7, <1>8, <1>9, OpenMoveKeeps DEF InSection

-----------------------------------------------------------------------------
(* A line is stored.                                                       *)
Added(h, l) == [lines |-> files[h].lines \cup {l}, mtime |-> clock]
Entry(l) == [line |-> l, at |-> clock]

LEMMA StoreKeepsData ==
  ASSUME IInv, NEW h \in {Main} \cup Services, NEW l \in Lines, files[h] # NoFile,
         fate[l] = "writing",
         files' = [files EXCEPT ![h] = Added(h, l)], written' = Append(written, Entry(l)),
         fate' \in [Lines -> Fates], clock' = clock,
         \A k \in Lines : fate'[k] = IF k = l THEN "stored" ELSE fate[k]
  PROVE  /\ files' \in [Names -> Files \cup {NoFile}]
         /\ \A n \in Names : files[n] # NoFile => files'[n] # NoFile
         /\ Recorded' /\ ArchivesPast' /\ LinesConserved' /\ Chronological'
         /\ \A i \in 1..Len(written) :
              /\ written'[i] = written[i]
              /\ \A n \in Names : written[i].line \in Contents(n)' => written[i].line \in Contents(n)
         /\ Len(written') = Len(written) + 1 /\ Len(written) \in Nat
         /\ written'[Len(written) + 1].at = clock
<1>1. TypeOK /\ Recorded /\ LinesConserved
  BY DEF IInv
<1>2. h \in Names /\ h \notin Archives /\ clock \in 0..MaxClock /\ clock \in Nat
  BY <1>1, NamesApart, BoundsAssumption DEF TypeOK
<1> DEFINE new == Added(h, l)
           entry == Entry(l)
<1>3. new \in Files /\ new.lines = Contents(h) \cup {l} /\ new.mtime = clock /\ new # NoFile
  BY <1>1, <1>2, NamesAssumption DEF TypeOK, Files, Contents, Added
<1>4. entry \in Records /\ entry.line = l /\ entry.at = clock
  BY <1>2 DEF Records, Entry
<1>5. files' = [files EXCEPT ![h] = new] /\ written' = Append(written, entry)
  OBVIOUS
<1> HIDE DEF new, entry
<1>6. /\ files' \in [Names -> Files \cup {NoFile}] /\ files'[h] = new
      /\ \A n \in Names \ {h} : files'[n] = files[n]
  BY <1>1, <1>2, <1>3, <1>5 DEF TypeOK
<1>7. /\ Contents(h)' = Contents(h) \cup {l}
      /\ \A n \in Names \ {h} : Contents(n)' = Contents(n)
  BY <1>2, <1>3, <1>6 DEF Contents
<1>8. /\ written' \in Seq(Records) /\ Len(written') = Len(written) + 1 /\ Len(written) \in Nat
      /\ \A i \in 1..Len(written) : written'[i] = written[i]
      /\ written'[Len(written) + 1] = entry
  BY <1>1, <1>4, <1>5 DEF Recorded
<1>9. /\ fate' \in [Lines -> Fates]
      /\ \A k \in Lines : fate'[k] = IF k = l THEN "stored" ELSE fate[k]
  OBVIOUS
<1>10. \A n \in Names : l \notin Contents(n)
  BY <1>1 DEF LinesConserved
<1>11. \A i \in 1..Len(written) : written[i].line \in Lines /\ written[i].line # l
  BY <1>1, WrittenType DEF Recorded
<1>12. \A i \in 1..Len(written), n \in Names :
         written[i].line \in Contents(n)' => written[i].line \in Contents(n)
  BY <1>7, <1>11
<1>13. \A i \in 1..Len(written') : i \in 1..Len(written) \/ i = Len(written) + 1
  BY <1>8
<1>14. Recorded'
  <2>1. ASSUME NEW i \in 1..Len(written)
        PROVE  /\ written[i].at <= clock /\ fate'[written[i].line] \notin {"new", "writing"}
               /\ \A n \in Names : written[i].line \in Contents(n)' => written[i].at <= files'[n].mtime
    <3>1. written[i].at <= clock /\ fate'[written[i].line] \notin {"new", "writing"}
      BY <1>1, <1>9, <1>11 DEF Recorded
    <3>2. \A n \in Names : written[i].line \in Contents(n)' => written[i].at <= files'[n].mtime
      BY <1>1, <1>3, <1>6, <1>12, <3>1 DEF Recorded
    <3>3. QED
      BY <3>1, <3>2
  <2>2. /\ clock <= clock /\ fate'[l] \notin {"new", "writing"}
        /\ \A n \in Names : l \in Contents(n)' => clock <= files'[n].mtime
    <3>1. clock <= clock /\ fate'[l] = "stored"
      BY <1>2, <1>9
    <3>2. \A n \in Names : l \in Contents(n)' => n = h
      BY <1>7, <1>10
    <3>3. clock <= files'[h].mtime
      BY <1>3, <1>6, <3>1
    <3>4. QED
      BY <3>1, <3>2, <3>3
  <2>3. \A i \in 1..Len(written') :
          /\ written'[i].at <= clock' /\ fate'[written'[i].line] \notin {"new", "writing"}
          /\ \A n \in Names : written'[i].line \in Contents(n)' => written'[i].at <= files'[n].mtime
    BY <1>4, <1>8, <1>13, <2>1, <2>2
  <2>4. QED
    BY <1>8, <2>3 DEF Recorded
<1>15. ArchivesPast'
  BY <1>2, <1>6, NamesApart DEF IInv, ArchivesPast
<1>16. LinesConserved'
  <2>1. ASSUME NEW k \in Lines, fate'[k] = "stored"
        PROVE  \E n \in Names : k \in Contents(n)'
    <3>1. CASE k = l
      BY <1>2, <1>7, <3>1
    <3>2. CASE k # l
      <4>1. PICK n \in Names : k \in Contents(n)
        BY <1>1, <1>9, <2>1, <3>2 DEF LinesConserved
      <4>2. QED
        BY <1>7, <4>1
    <3>3. QED
      BY <3>1, <3>2
  <2>2. ASSUME NEW m \in Names, NEW n \in Names, NEW k \in Contents(m)' \cap Contents(n)'
        PROVE  m = n /\ fate'[k] = "stored"
    <3>1. CASE k = l
      BY <1>7, <1>9, <1>10, <2>2, <3>1
    <3>2. CASE k # l
      <4>1. k \in Contents(m) \cap Contents(n)
        BY <1>7, <2>2, <3>2
      <4>2. k \in Lines
        BY <1>1, <4>1, ContentsAreLines
      <4>3. QED
        BY <1>1, <1>9, <3>2, <4>1, <4>2 DEF LinesConserved
    <3>3. QED
      BY <3>1, <3>2
  <2>3. QED
    BY <2>1, <2>2 DEF LinesConserved
<1>17. Chronological'
  <2>1. SUFFICES ASSUME NEW i \in 1..Len(written'), NEW j \in 1..Len(written'), i < j,
                        NEW m \in {Main} \cup Archives, NEW n \in {Main} \cup Archives,
                        written'[i].line \in Contents(m)', written'[j].line \in Contents(n)'
                 PROVE  m = n \/ n = Main \/ (m \in Archives /\ m < n)
    BY DEF Chronological
  <2>2. m \in Names /\ n \in Names
    BY NamesApart
  <2>3. i \in 1..Len(written)
    BY <1>8, <1>13, <2>1
  <2>4. CASE j = Len(written) + 1
    <3>1. n = h
      BY <1>4, <1>7, <1>8, <1>10, <2>1, <2>2, <2>4
    <3>2. QED
      BY <1>2, <3>1
  <2>5. CASE j \in 1..Len(written)
    <3>1. written[i].line \in Contents(m) /\ written[j].line \in Contents(n)
      BY <1>8, <1>12, <2>1, <2>2, <2>3, <2>5
    <3>2. QED
      BY <2>1, <2>3, <2>5, <3>1 DEF IInv, Chronological
  <2>6. QED
    BY <1>13, <2>4, <2>5
<1>18. QED
  BY <1>3, <1>4, <1>6, <1>8, <1>9, <1>12, <1>14, <1>15, <1>16, <1>17

(* A line that is lost on the way, its file touched or not.            *)
LEMMA TouchedKeepsContents ==
  ASSUME TypeOK, NEW h \in Names, h \notin Archives, files[h] # NoFile,
         files' = [files EXCEPT ![h].mtime = clock]
  PROVE  files' \in [Names -> Files \cup {NoFile}] /\ SameContents
<1> DEFINE new == [files[h] EXCEPT !.mtime = clock]
<1>1. files \in [Names -> Files \cup {NoFile}] /\ files[h] \in Files /\ clock \in 0..MaxClock
  BY DEF TypeOK
<1>2. new \in Files /\ new.lines = files[h].lines /\ new.mtime = clock /\ new # NoFile
  BY <1>1, NamesAssumption DEF Files
<1>3. files' = [files EXCEPT ![h] = new]
  OBVIOUS
<1> HIDE DEF new
<1>4. files'[h] = new /\ \A m \in Names \ {h} : files'[m] = files[m]
  BY <1>1, <1>3
<1>5. files' \in [Names -> Files \cup {NoFile}]
  BY <1>1, <1>2, <1>3
<1>6. SameContents
  BY <1>2, <1>4 DEF SameContents, Contents
<1>7. QED
  BY <1>5, <1>6

LEMMA LinesEndKeep ==
  ASSUME IInv, NEW t \in Threads, GetLogFileFails(t) \/ WriteLineFails(t)
  PROVE  IInv'
<1> DEFINE h == Handle(LogOf(t))
<1>1. TypeOK /\ Sections /\ OwnHandles /\ Named
  BY DEF IInv
<1>2. /\ (pc[t] = "lock" /\ s_log_lock = NoThread) \/ pc[t] = "write"
      /\ fate' = Fated({call[t].line}, "lost")
      /\ UnlockAndReturn(t)
      /\ UNCHANGED <<s_initialized, s_log_level, handles, clock, written>>
      /\ \/ UNCHANGED files
         \/ pc[t] = "write" /\ h # Unlinked /\ files' = [files EXCEPT ![h].mtime = clock]
  BY DEF GetLogFileFails, WriteLineFails
<1>3. call[t] \in WriteCalls /\ s_initialized /\ fate[call[t].line] = "writing"
  BY <1>1, <1>2 DEF Sections, Writing
<1>4. Moves(t, "idle", Idle) /\ s_log_lock' = NoThread
  BY <1>1, <1>2, ReturnMoves DEF UnlockAndReturn
<1>5. LockFollows(t, "idle")
  BY <1>2, <1>4 DEF LockFollows, InSection
<1>6. /\ fate' \in [Lines -> Fates]
      /\ \A l \in Lines : fate'[l] = IF l = call[t].line THEN "lost" ELSE fate[l]
  BY <1>1, <1>2, FatedDoes DEF Fates
<1>7. OnlyBegun
  BY <1>3, <1>6 DEF OnlyBegun
<1>8. Sections!(t)' /\ Doomed!(t)' /\ "idle" \notin Writing
  BY <1>4 DEF Moves, Writing
<1>9. files' \in [Names -> Files \cup {NoFile}] /\ SameContents
  <2>1. CASE UNCHANGED files
    BY <1>1, <2>1 DEF TypeOK, SameContents, Contents
  <2>2. CASE pc[t] = "write" /\ h # Unlinked /\ files' = [files EXCEPT ![h].mtime = clock]
    <3>1. LogOf(t) \in {Main} \cup Services /\ h # Closed
      BY <1>1, <1>3, <2>2, LogOfType DEF Sections
    <3>2. h \in {Main} \cup Services /\ files[h] # NoFile
      <4>1. CASE LogOf(t) = Main
        BY <1>1, <2>2, <3>1, <4>1 DEF Handle, OwnHandles, Named
      <4>2. CASE LogOf(t) # Main
        BY <1>1, <2>2, <3>1, <4>2 DEF Handle, OwnHandles, Named
      <4>3. QED
        BY <4>1, <4>2
    <3>3. h \in Names /\ h \notin Archives
      BY <3>2, NamesApart
    <3> HIDE DEF h
    <3>4. QED
      BY <1>1, <2>2, <3>2, <3>3, TouchedKeepsContents
  <2>3. QED
    BY <1>2, <2>1, <2>2
<1>10. \A l \in Lines : fate[l] = "writing" => \/ fate'[l] = fate[l]
                                               \/ pc[t] \in Writing /\ l = call[t].line
  BY <1>2, <1>6 DEF Writing
<1>11. QED
  BY <1>2, <1>3, <1>4, <1>5, <1>7, <1>8, <1>9, <1>10, MoveKeeps

LEMMA WriteLineKeeps ==
  ASSUME IInv, NEW t \in Threads, WriteLine(t)
  PROVE  IInv'
<1> DEFINE h == Handle(LogOf(t))
           l == call[t].line
<1>1. TypeOK /\ Sections /\ OwnHandles /\ Named /\ OwnLines
  BY DEF IInv
<1>2. /\ pc[t] = "write" /\ UnlockAndReturn(t)
      /\ UNCHANGED <<s_initialized, s_log_level, handles, clock>>
      /\ \/ /\ h = Unlinked /\ fate' = Fated({l}, "lost") /\ UNCHANGED <<files, written>>
         \/ /\ h # Unlinked
            /\ files' = [files EXCEPT ![h] = [lines |-> @.lines \cup {l}, mtime |-> clock]]
            /\ written' = Append(written, [line |-> l, at |-> clock])
            /\ fate' = Fated({l}, "stored")
  BY DEF WriteLine
<1>3. call[t] \in WriteCalls /\ fate[l] = "writing" /\ s_initialized /\ h # Closed
  BY <1>1, <1>2 DEF Sections, Writing
<1>4. Moves(t, "idle", Idle) /\ s_log_lock' = NoThread
  BY <1>1, <1>2, ReturnMoves DEF UnlockAndReturn
<1>5. LockFollows(t, "idle") /\ l \in Lines
  BY <1>2, <1>3, <1>4 DEF LockFollows, InSection, WriteCalls
<1>6. Sections!(t)' /\ Doomed!(t)' /\ "idle" \notin Writing
  BY <1>4 DEF Moves, Writing
<1> HIDE DEF h, l
<1>7. CASE h = Unlinked /\ fate' = Fated({l}, "lost") /\ UNCHANGED <<files, written>>
  <2>1. /\ fate' \in [Lines -> Fates]
        /\ \A k \in Lines : fate'[k] = IF k = l THEN "lost" ELSE fate[k]
    BY <1>1, <1>7, FatedDoes DEF Fates
  <2>2. OnlyBegun
    BY <1>3, <2>1 DEF OnlyBegun
  <2>3. \A k \in Lines : fate[k] = "writing" => \/ fate'[k] = fate[k]
                                                \/ pc[t] \in Writing /\ k = call[t].line
    BY <1>2, <2>1 DEF Writing, l
  <2>4. QED
    BY <1>2, <1>3, <1>4, <1>5, <1>6, <1>7, <2>2, <2>3, PlainMoveKeeps
<1>8. CASE /\ h # Unlinked
           /\ files' = [files EXCEPT ![h] = [lines |-> @.lines \cup {l}, mtime |-> clock]]
           /\ written' = Append(written, [line |-> l, at |-> clock])
           /\ fate' = Fated({l}, "stored")
  <2>1. h \in {Main} \cup Services /\ files[h] # NoFile
    <3>1. LogOf(t) \in {Main} \cup Services
      BY <1>1, <1>3, LogOfType
    <3>2. CASE LogOf(t) = Main
      BY <1>1, <1>3, <1>8, <3>2 DEF h, Handle, OwnHandles, Named
    <3>3. CASE LogOf(t) # Main
      BY <1>1, <1>3, <1>8, <3>1, <3>3 DEF h, Handle, OwnHandles, Named
    <3>4. QED
      BY <3>2, <3>3
  <2>2. /\ files' \in [Names -> Files \cup {NoFile}] /\ fate' \in [Lines -> Fates]
        /\ \A k \in Lines : fate'[k] = IF k = l THEN "stored" ELSE fate[k]
        /\ \A n \in Names : files[n] # NoFile => files'[n] # NoFile
        /\ Recorded' /\ ArchivesPast' /\ LinesConserved' /\ Chronological'
        /\ \A i \in 1..Len(written) :
             /\ written'[i] = written[i]
             /\ \A n \in Names : written[i].line \in Contents(n)' => written[i].line \in Contents(n)
        /\ Len(written') = Len(written) + 1 /\ Len(written) \in Nat
        /\ written'[Len(written) + 1].at = clock
    <3>1. files' = [files EXCEPT ![h] = Added(h, l)] /\ written' = Append(written, Entry(l))
      BY <1>8 DEF Added, Entry
    <3>2. /\ clock' = clock /\ fate' \in [Lines -> Fates]
          /\ \A k \in Lines : fate'[k] = IF k = l THEN "stored" ELSE fate[k]
      <4>1. clock' = clock /\ fate' = Fated({l}, "stored")
        BY <1>2, <1>8
      <4>2. TypeOK /\ "stored" \in Fates
        BY <1>1 DEF Fates
      <4>3. /\ fate' \in [Lines -> Fates]
            /\ \A k \in Lines : fate'[k] = IF k \in {l} THEN "stored" ELSE fate[k]
        BY <4>1, <4>2, FatedDoes
      <4>4. QED
        BY <4>1, <4>3
    <3>3. QED
      BY <1>3, <1>5, <2>1, <3>1, <3>2, StoreKeepsData
  <2>3. OwnHandles' /\ HandlesFollow(t, "idle")
    BY <1>1, <1>2 DEF OwnHandles, HandlesFollow, handles
  <2>4. Named'
    <3>1. DOMAIN s_service_logs \subseteq Names /\ Main \in Names
      BY <1>1, NamesApart DEF TypeOK
    <3>2. QED
      BY <1>1, <1>2, <2>2, <3>1 DEF Named, handles
  <2>5. TypeOK' /\ Sections' /\ OwnLines'
    <3>1. /\ DOMAIN s_service_logs' \subseteq Services
          /\ Cardinality(DOMAIN s_service_logs') <= MaxServices
          /\ s_initialized' = TRUE
      BY <1>1, <1>2, <1>3 DEF TypeOK, handles
    <3>2. \A k \in Lines : fate[k] = "writing" => \/ fate'[k] = fate[k]
                                                  \/ pc[t] \in Writing /\ k = call[t].line
      BY <1>2, <2>2 DEF Writing, l
    <3>3. QED
      BY <1>2, <1>3, <1>4, <1>5, <1>6, <2>2, <2>3, <3>1, <3>2, OthersKept
  <2>6. Doomed'
    <3>1. SUFFICES ASSUME NEW u \in Threads, pc'[u] = "unlink"
                   PROVE  Doomed!(u)!2'
      BY DEF Doomed
    <3>2. u # t /\ pc[u] = "unlink" /\ call'[u] = call[u]
      BY <1>4, <3>1 DEF Moves
    <3>3. call[u].file \in Names /\ call[u].since <= clock /\ Doomed!(u)!2
      BY <1>1, <3>2 DEF IInv, Sections, Doomed
    <3>4. CASE call[u].file \in Archives /\ call[u].file >= call[u].since
      BY <3>2, <3>4
    <3>5. CASE \A i \in 1..Len(written) :
                 written[i].line \in Contents(call[u].file) => MayGo(call[u].since, i)
      <4>1. ASSUME NEW i \in 1..Len(written'), written'[i].line \in Contents(call[u].file)'
            PROVE  MayGo(call[u].since, i)'
        <5> call'[u] = call[u]
          BY <3>2
        <5>1. CASE i \in 1..Len(written)
          BY <2>2, <3>3, <3>5, <4>1, <5>1 DEF MayGo
        <5>2. CASE i = Len(written) + 1
          <6>1. call[u].since \in Nat /\ clock \in Nat
            BY <1>1, <3>2, BoundsAssumption DEF Sections, CleanupCalls, TypeOK
          <6>2. QED
            BY <2>2, <3>3, <5>2, <6>1 DEF MayGo
        <5>3. QED
          BY <2>2, <4>1, <5>1, <5>2
      <4>2. QED
        BY <3>2, <4>1
    <3>6. QED
      BY <3>3, <3>4, <3>5
  <2>7. QED
    BY <2>2, <2>3, <2>4, <2>5, <2>6 DEF IInv
<1>9. QED
  BY <1>2, <1>7, <1>8

-----------------------------------------------------------------------------
(* The main file becomes an archive, in the place of one of the same       *)
(* second.                                                                 *)
LEMMA RenameKeepsData ==
  ASSUME IInv, files[Main] # NoFile,
         files' = [files EXCEPT ![clock] = files[Main], ![Main] = NoFile],
         fate' = Fated(Contents(clock), "replaced"), written' = written, clock' = clock
  PROVE  /\ files' \in [Names -> Files \cup {NoFile}] /\ fate' \in [Lines -> Fates]
         /\ \A l \in Lines : fate[l] = "writing" => fate'[l] = fate[l]
         /\ Recorded' /\ ArchivesPast' /\ LinesConserved' /\ Chronological'
         /\ \A n \in Names \ {Main, clock} : files'[n] = files[n]
         /\ Contents(Main)' = {} /\ clock \in Archives
<1>1. TypeOK /\ Recorded /\ LinesConserved
  BY DEF IInv
<1>2. clock \in Archives /\ clock \in Nat /\ clock \in Names /\ Main \in Names /\ clock # Main
  BY <1>1, NamesApart, BoundsAssumption DEF TypeOK, Archives
<1>3. /\ files' \in [Names -> Files \cup {NoFile}]
      /\ files'[Main] = NoFile /\ files'[clock] = files[Main]
      /\ \A n \in Names \ {Main, clock} : files'[n] = files[n]
  BY <1>1, <1>2 DEF TypeOK
<1>4. /\ Contents(Main)' = {} /\ Contents(clock)' = Contents(Main)
      /\ \A n \in Names \ {Main, clock} : Contents(n)' = Contents(n)
  BY <1>2, <1>3 DEF Contents
<1>5. /\ fate' \in [Lines -> Fates]
      /\ \A l \in Lines : fate'[l] = IF l \in Contents(clock) THEN "replaced" ELSE fate[l]
  <2>1. "replaced" \in Fates
    BY DEF Fates
  <2>2. QED
    BY <1>1, <2>1, FatedDoes
<1>6. \A l \in Lines : l \in Contents(clock) => fate[l] = "stored"
  BY <1>1, <1>2 DEF LinesConserved
<1>7. \A n \in Names, l \in Lines : l \in Contents(n)' =>
        \E m \in Names : /\ l \in Contents(m) /\ m # clock /\ files'[n] = files[m]
                         /\ n = IF m = Main THEN clock ELSE m
  BY <1>2, <1>3, <1>4
<1>8. Recorded'
  <2>1. SUFFICES ASSUME NEW i \in 1..Len(written)
                 PROVE  /\ fate'[written[i].line] \notin {"new", "writing"}
                        /\ \A n \in Names : written[i].line \in Contents(n)' =>
                                              written[i].at <= files'[n].mtime
    BY <1>1 DEF Recorded
  <2>2. written[i].line \in Lines
    BY <1>1, WrittenType
  <2>3. fate'[written[i].line] \notin {"new", "writing"}
    BY <1>1, <1>5, <2>2 DEF Recorded
  <2>4. \A n \in Names : written[i].line \in Contents(n)' => written[i].at <= files'[n].mtime
    BY <1>1, <1>7, <2>2 DEF Recorded
  <2>5. QED
    BY <2>3, <2>4
<1>9. ArchivesPast'
  BY <1>2, <1>3, NamesApart DEF IInv, ArchivesPast
<1>10. LinesConserved'
  <2>1. ASSUME NEW l \in Lines, fate'[l] = "stored"
        PROVE  \E n \in Names : l \in Contents(n)'
    <3>1. fate[l] = "stored" /\ l \notin Contents(clock)
      BY <1>5, <2>1
    <3>2. PICK n \in Names : l \in Contents(n)
      BY <1>1, <3>1 DEF LinesConserved
    <3>3. QED
      BY <1>2, <1>4, <3>1, <3>2
  <2>2. ASSUME NEW m \in Names, NEW n \in Names, NEW l \in Contents(m)' \cap Contents(n)'
        PROVE  m = n /\ fate'[l] = "stored"
    <3>1. \A k \in Names : Contents(k) \subseteq Lines
      BY <1>1, ContentsAreLines
    <3>2. l \in Lines
      BY <1>2, <1>4, <3>1, <2>2
    <3>3. PICK k \in Names : l \in Contents(k) /\ k # clock /\ m = IF k = Main THEN clock ELSE k
      BY <1>7, <3>2, <2>2
    <3>4. PICK j \in Names : l \in Contents(j) /\ j # clock /\ n = IF j = Main THEN clock ELSE j
      BY <1>7, <3>2, <2>2
    <3>5. k = j /\ fate[l] = "stored"
      BY <1>1, <3>3, <3>4 DEF LinesConserved
    <3>6. l \notin Contents(clock)
      BY <1>1, <1>2, <3>3 DEF LinesConserved
    <3>7. QED
      BY <1>5, <3>2, <3>3, <3>4, <3>5, <3>6
  <2>3. QED
    BY <2>1, <2>2 DEF LinesConserved
<1>11. Chronological'
  <2>1. SUFFICES ASSUME NEW i \in 1..Len(written), NEW j \in 1..Len(written), i < j,
                        NEW m \in {Main} \cup Archives, NEW n \in {Main} \cup Archives,
                        written[i].line \in Contents(m)', written[j].line \in Contents(n)'
                 PROVE  m = n \/ n = Main \/ (m \in Archives /\ m < n)
    BY DEF Chronological
  <2>2. m \in Names /\ n \in Names /\ m # Main /\ n # Main
    BY <1>4, <2>1, NamesApart
  <2>3. m \in Archives /\ n \in Archives
    BY <2>2
  <2>4. CASE m = clock \/ n = clock
    <3>1. CASE m = clock /\ n # clock
      <4>1. written[i].line \in Contents(Main) /\ written[j].line \in Contents(n)
        BY <1>4, <2>1, <2>2, <3>1
      <4>2. QED
        BY <2>1, <2>2, <4>1, NamesApart DEF IInv, Chronological
    <3>2. CASE n = clock /\ m # clock
      <4>1. files[m] # NoFile
        BY <1>4, <2>1, <2>2, <3>2 DEF Contents
      <4>2. m <= clock
        BY <2>3, <4>1 DEF IInv, ArchivesPast
      <4>3. m \in Nat
        BY <2>3, BoundsAssumption DEF Archives
      <4>4. QED
        BY <1>2, <2>3, <3>2, <4>2, <4>3
    <3>3. QED
      BY <2>4, <3>1, <3>2
  <2>5. CASE m # clock /\ n # clock
    BY <1>4, <2>1, <2>2, <2>5 DEF IInv, Chronological
  <2>6. QED
    BY <2>4, <2>5
<1>12. \A l \in Lines : fate[l] = "writing" => fate'[l] = fate[l]
  BY <1>5, <1>6
<1>13. QED
  BY <1>2, <1>3, <1>4, <1>5, <1>8, <1>9, <1>10, <1>11, <1>12

LEMMA RotateRenameKeeps ==
  ASSUME IInv, NEW t \in Threads, RotateRename(t)
  PROVE  IInv'
<1>1. TypeOK /\ Sections /\ OwnHandles /\ Named
  BY DEF IInv
<1>2. /\ pc[t] = "rename" /\ files[Main] # NoFile /\ Goto(t, "reopen")
      /\ s_main_log_file' = Renamed(s_main_log_file)
      /\ UNCHANGED <<s_initialized, s_log_level, s_log_lock, s_service_logs, clock, call, written>>
  BY DEF RotateRename
<1>3. /\ files' = [files EXCEPT ![clock] = files[Main], ![Main] = NoFile]
      /\ fate' = Fated(Contents(clock), "replaced")
  BY DEF RotateRename, ArchiveName
<1>4. /\ files' \in [Names -> Files \cup {NoFile}] /\ fate' \in [Lines -> Fates]
      /\ \A l \in Lines : fate[l] = "writing" => fate'[l] = fate[l]
      /\ Recorded' /\ ArchivesPast' /\ LinesConserved' /\ Chronological'
      /\ \A n \in Names \ {Main, clock} : files'[n] = files[n]
      /\ Contents(Main)' = {} /\ clock \in Archives
  BY <1>2, <1>3, RenameKeepsData
<1>5. s_main_log_file = Closed /\ s_main_log_file' = Closed /\ s_initialized /\ s_log_lock = t
  <2>1. s_main_log_file = Closed /\ s_initialized /\ s_log_lock = t
    BY <1>1, <1>2 DEF Sections, TypeOK, InSection
  <2>2. Closed # Main /\ Closed # clock
    BY <1>4, NamesApart
  <2>3. QED
    BY <1>2, <2>1, <2>2 DEF Renamed, ArchiveName
<1>6. Moves(t, "reopen", call[t])
  BY <1>1, <1>2, GotoMoves DEF Locations, InSection
<1>7. LockFollows(t, "reopen") /\ HandlesFollow(t, "reopen") /\ "reopen" \notin Writing
  BY <1>2, <1>5 DEF LockFollows, HandlesFollow, InSection, Writing
<1>8. OwnHandles'
  BY <1>1, <1>2, <1>5 DEF OwnHandles
<1>9. Named'
  <2>1. \A s \in DOMAIN s_service_logs : files'[s] = files[s]
    BY <1>1, <1>4, NamesApart DEF TypeOK
  <2>2. QED
    BY <1>1, <1>2, <1>5, <2>1, NamesApart DEF Named
<1>10. TypeOK' /\ Sections' /\ OwnLines'
  <2>1. Sections!(t)'
    BY <1>2, <1>5, <1>6 DEF Moves, Writing
  <2>2. /\ DOMAIN s_service_logs' \subseteq Services
        /\ Cardinality(DOMAIN s_service_logs') <= MaxServices /\ s_initialized' = TRUE
    BY <1>1, <1>2, <1>5 DEF TypeOK
  <2>3. s_log_level' = s_log_level /\ clock' = clock
    BY <1>2
  <2>4. QED
    BY <1>4, <1>5, <1>6, <1>7, <1>8, <2>1, <2>2, <2>3, OthersKept
<1>11. Doomed'
  <2>1. SUFFICES ASSUME NEW u \in Threads, pc'[u] = "unlink"
                 PROVE  Doomed!(u)!2'
    BY DEF Doomed
  <2>2. pc[u] = "unlink" /\ call'[u] = call[u]
    BY <1>6, <2>1 DEF Moves
  <2>3. call[u].file \in Names /\ call[u].since <= clock /\ Doomed!(u)!2
    BY <1>1, <2>2 DEF IInv, Sections, Doomed
  <2>4. CASE call[u].file = Main
    BY <1>2, <1>4, <2>2, <2>4
  <2>5. CASE call[u].file = clock
    <3>1. call[u].since \in Nat /\ clock \in Nat
      BY <1>1, <2>2, BoundsAssumption DEF Sections, CleanupCalls, TypeOK
    <3>2. QED
      BY <1>4, <2>2, <2>3, <2>5, <3>1
  <2>6. CASE call[u].file \notin {Main, clock}
    <3>1. Contents(call[u].file)' = Contents(call[u].file)
      BY <1>4, <2>2, <2>3, <2>6 DEF Contents
    <3>2. QED
      BY <1>2, <2>2, <2>3, <3>1 DEF MayGo
  <2>7. QED
    BY <2>4, <2>5, <2>6
<1>12. QED
  BY <1>4, <1>8, <1>9, <1>10, <1>11 DEF IInv

-----------------------------------------------------------------------------
(* A cleanup removes a name and what it holds.                             *)
LEMMA UnlinkKeepsData ==
  ASSUME IInv, NEW n \in Names, files' = [files EXCEPT ![n] = NoFile],
         fate' = Fated(Contents(n), "expired"), written' = written, clock' = clock
  PROVE  /\ files' \in [Names -> Files \cup {NoFile}] /\ fate' \in [Lines -> Fates]
         /\ \A l \in Lines : fate[l] = "writing" => fate'[l] = fate[l]
         /\ \A l \in Lines : fate'[l] # fate[l] => l \in Contents(n)
         /\ Recorded' /\ ArchivesPast' /\ LinesConserved' /\ Chronological'
         /\ Contents(n)' = {} /\ \A m \in Names \ {n} : files'[m] = files[m]
<1>1. TypeOK /\ Recorded /\ LinesConserved
  BY DEF IInv
<1>2. /\ files' \in [Names -> Files \cup {NoFile}] /\ files'[n] = NoFile
      /\ \A m \in Names \ {n} : files'[m] = files[m]
  BY <1>1 DEF TypeOK
<1>3. /\ Contents(n)' = {}
      /\ \A m \in Names \ {n} : Contents(m)' = Contents(m)
  BY <1>2 DEF Contents
<1>4. /\ fate' \in [Lines -> Fates]
      /\ \A l \in Lines : fate'[l] = IF l \in Contents(n) THEN "expired" ELSE fate[l]
  <2>1. "expired" \in Fates
    BY DEF Fates
  <2>2. QED
    BY <1>1, <2>1, FatedDoes
<1>5. \A l \in Lines : l \in Contents(n) => fate[l] = "stored"
  BY <1>1 DEF LinesConserved
<1>6. \A m \in Names : \A l \in Contents(m)' : l \in Contents(m) /\ m # n
  BY <1>3
<1>7. Recorded'
  <2>1. SUFFICES ASSUME NEW i \in 1..Len(written)
                 PROVE  /\ fate'[written[i].line] \notin {"new", "writing"}
                        /\ \A m \in Names : written[i].line \in Contents(m)' =>
                                              written[i].at <= files'[m].mtime
    BY <1>1 DEF Recorded
  <2>2. fate'[written[i].line] \notin {"new", "writing"}
    BY <1>1, <1>4, WrittenType DEF Recorded
  <2>3. \A m \in Names : written[i].line \in Contents(m)' => written[i].at <= files'[m].mtime
    BY <1>1, <1>2, <1>6 DEF Recorded
  <2>4. QED
    BY <2>2, <2>3
<1>8. ArchivesPast'
  BY <1>2, NamesApart DEF IInv, ArchivesPast
<1>9. LinesConserved'
  <2>1. ASSUME NEW l \in Lines, fate'[l] = "stored"
        PROVE  \E m \in Names : l \in Contents(m)'
    <3>1. fate[l] = "stored" /\ l \notin Contents(n)
      BY <1>4, <2>1
    <3>2. PICK m \in Names : l \in Contents(m)
      BY <1>1, <3>1 DEF LinesConserved
    <3>3. QED
      BY <1>3, <3>1, <3>2
  <2>2. ASSUME NEW m \in Names, NEW k \in Names, NEW l \in Contents(m)' \cap Contents(k)'
        PROVE  m = k /\ fate'[l] = "stored"
    <3>1. l \in Contents(m) \cap Contents(k) /\ m # n
      BY <1>6, <2>2
    <3>2. m = k /\ fate[l] = "stored" /\ l \in Lines
      BY <1>1, <3>1, ContentsAreLines DEF LinesConserved
    <3>3. l \notin Contents(n)
      BY <1>1, <3>1 DEF LinesConserved
    <3>4. QED
      BY <1>4, <3>2, <3>3
  <2>3. QED
    BY <2>1, <2>2 DEF LinesConserved
<1>10. Chronological'
  BY <1>6, NamesApart DEF IInv, Chronological
<1>11. \A l \in Lines : fate[l] = "writing" => fate'[l] = fate[l]
  BY <1>4, <1>5
<1>12. QED
  BY <1>2, <1>3, <1>4, <1>7, <1>8, <1>9, <1>10, <1>11

LEMMA CleanupUnlinkKeeps ==
  ASSUME IInv, NEW t \in Threads, CleanupUnlink(t)
  PROVE  IInv'
<1>1. pc[t] = "unlink" /\ call[t].file \in Names
  BY DEF CleanupUnlink, IInv, Sections
<1> DEFINE c == [call[t] EXCEPT !.file = NoFile]
<1>2. PICK n \in Names : n = call[t].file
  BY <1>1
<1>3. TypeOK /\ Sections /\ OwnHandles /\ Named
  BY DEF IInv
<1>4. /\ pc[t] = "unlink" /\ Goto(t, "scan") /\ call' = [call EXCEPT ![t] = c]
      /\ s_main_log_file' = Detached(s_main_log_file, n)
      /\ s_service_logs' = [s \in DOMAIN s_service_logs |-> Detached(s_service_logs[s], n)]
      /\ UNCHANGED <<s_initialized, s_log_level, s_log_lock, clock, written>>
  BY <1>2 DEF CleanupUnlink
<1>5. files' = [files EXCEPT ![n] = NoFile] /\ fate' = Fated(Contents(n), "expired")
  BY <1>2 DEF CleanupUnlink
<1>6. call[t] \in CleanupCalls /\ call[t].since <= clock /\ s_initialized
  BY <1>3, <1>4 DEF Sections
<1>7. c \in CleanupCalls /\ c \in Calls /\ c.since = call[t].since
  BY <1>6 DEF CleanupCalls, Calls
<1> HIDE DEF c
<1>8. /\ files' \in [Names -> Files \cup {NoFile}] /\ fate' \in [Lines -> Fates]
      /\ \A l \in Lines : fate[l] = "writing" => fate'[l] = fate[l]
      /\ Recorded' /\ ArchivesPast' /\ LinesConserved' /\ Chronological'
      /\ Contents(n)' = {} /\ \A m \in Names \ {n} : files'[m] = files[m]
  <2>1. written' = written /\ clock' = clock
    BY <1>4
  <2>2. fate' = Fated(Contents(n), "expired")
    BY <1>5
  <2>3. files' = [files EXCEPT ![n] = NoFile]
    BY <1>5
  <2>4. QED
    BY <2>1, <2>2, <2>3, UnlinkKeepsData
<1>9. Moves(t, "scan", c)
  BY <1>3, <1>4, <1>7, CallMoves DEF Locations
<1>10. LockFollows(t, "scan") /\ "scan" \notin Writing
  BY <1>4 DEF LockFollows, InSection, Writing
<1>11. \A h \in Names \cup {Closed, Unlinked} :
        /\ Detached(h, n) \in {h, Unlinked} /\ (h = n => Detached(h, n) = Unlinked)
        /\ Detached(h, n) = Closed <=> h = Closed
  BY <1>6, NamesApart DEF Detached
<1>12. /\ s_main_log_file \in Names \cup {Closed, Unlinked}
       /\ \A s \in DOMAIN s_service_logs : s_service_logs[s] \in Names \cup {Closed, Unlinked}
       /\ DOMAIN s_service_logs \subseteq Services
  BY <1>3 DEF TypeOK
<1>13. /\ DOMAIN s_service_logs' = DOMAIN s_service_logs
       /\ \A s \in DOMAIN s_service_logs : s_service_logs'[s] = Detached(s_service_logs[s], n)
  BY <1>4
<1>14. HandlesFollow(t, "scan")
  BY <1>4, <1>11, <1>12, <1>13 DEF HandlesFollow
<1>15. OwnHandles'
  BY <1>3, <1>4, <1>6, <1>11, <1>12, <1>13 DEF OwnHandles
<1>16. Named'
  <2>1. s_main_log_file' = Main => files'[Main] # NoFile
    BY <1>3, <1>4, <1>8, <1>11, <1>12, NamesApart DEF Named
  <2>2. ASSUME NEW s \in DOMAIN s_service_logs, s_service_logs'[s] = s
        PROVE  files'[s] # NoFile
    <3>1. s \in Names /\ s # Unlinked
      BY <1>12, NamesApart
    <3>2. s_service_logs[s] = s /\ s # n
      BY <1>11, <1>12, <1>13, <2>2, <3>1
    <3>3. QED
      BY <1>3, <1>8, <3>1, <3>2 DEF Named
  <2>3. QED
    BY <1>13, <2>1, <2>2 DEF Named
<1>17. TypeOK' /\ Sections' /\ OwnLines'
  <2>1. Sections!(t)'
    BY <1>4, <1>6, <1>7, <1>9 DEF Moves, Writing
  <2>2. /\ DOMAIN s_service_logs' \subseteq Services
        /\ Cardinality(DOMAIN s_service_logs') <= MaxServices /\ s_initialized' = TRUE
    BY <1>3, <1>4, <1>6, <1>13 DEF TypeOK
  <2>3. s_log_level' = s_log_level /\ clock' = clock
    BY <1>4
  <2>4. QED
    BY <1>6, <1>8, <1>9, <1>10, <1>14, <1>15, <2>1, <2>2, <2>3, OthersKept
<1>18. Doomed'
  <2>1. SUFFICES ASSUME NEW u \in Threads, pc'[u] = "unlink"
                 PROVE  Doomed!(u)!2'
    BY DEF Doomed
  <2>2. pc[u] = "unlink" /\ call'[u] = call[u] /\ call[u].file \in Names /\ Doomed!(u)!2
    BY <1>3, <1>9, <2>1 DEF Moves, IInv, Sections, Doomed
  <2>3. Contents(call[u].file)' \subseteq Contents(call[u].file)
    <3>1. call'[u] = call[u] /\ call[u].file \in Names
      BY <2>2
    <3>2. CASE call[u].file = n
      BY <1>8, <3>1, <3>2
    <3>3. CASE call[u].file # n
      <4>1. files'[call[u].file] = files[call[u].file]
        BY <1>8, <3>1, <3>3
      <4>2. QED
        BY <3>1, <4>1 DEF Contents
    <3>4. QED
      BY <3>2, <3>3
  <2>4. written' = written
    BY <1>4
  <2>5. QED
    BY <2>2, <2>3, <2>4 DEF MayGo
<1>19. QED
  BY <1>8, <1>15, <1>16, <1>17, <1>18 DEF IInv

-----------------------------------------------------------------------------
(* The steps of the whole store.                                           *)
LEMMA QuietKeeps ==
  ASSUME IInv, \A t \in Threads : pc'[t] = "idle", pc' \in [Threads -> Locations],
         call' \in [Threads -> Calls], SameContents, OnlyBegun,
         s_log_lock' = NoThread, OwnHandles', Named', s_initialized' \in BOOLEAN,
         s_log_level' \in Levels, files' \in [Names -> Files \cup {NoFile}],
         DOMAIN s_service_logs' \subseteq Services,
         Cardinality(DOMAIN s_service_logs') <= MaxServices,
         UNCHANGED <<clock, written>>
  PROVE  IInv'
<1>1. TypeOK
  BY DEF IInv
<1>2. Sections' /\ OwnLines' /\ Doomed'
  BY DEF Sections, OwnLines, Doomed, Writing
<1>3. clock \in Nat
  BY <1>1, BoundsAssumption DEF TypeOK
<1>4. Recorded' /\ ArchivesPast' /\ LinesConserved' /\ Chronological'
  BY <1>3, DataKept
<1>5. TypeOK'
  <2>1. /\ s_main_log_file' \in Names \cup {Closed, Unlinked}
        /\ \A s \in DOMAIN s_service_logs' : s_service_logs'[s] \in Names \cup {Closed, Unlinked}
    BY DEF OwnHandles, Names
  <2>2. \A t \in Threads : s_log_lock' = t <=> pc'[t] \in InSection
    BY NamesApart DEF InSection
  <2>3. QED
    BY <1>1, <2>1, <2>2 DEF TypeOK, Locations, OnlyBegun
<1>6. QED
  BY <1>2, <1>4, <1>5 DEF IInv

LEMMA NoHandles ==
  ASSUME TypeOK
  PROVE  /\ DOMAIN <<>> = {} /\ Cardinality({}) = 0
         /\ s_main_log_file' = Closed /\ s_service_logs' = <<>> =>
              /\ OwnHandles' /\ Named'
              /\ DOMAIN s_service_logs' \subseteq Services
              /\ Cardinality(DOMAIN s_service_logs') <= MaxServices
<1>1. DOMAIN <<>> = {} /\ Cardinality({}) = 0
  BY FS_EmptySet
<1>2. QED
  BY <1>1, NamesApart, BoundsAssumption DEF OwnHandles, Named

LEMMA LogInitKeeps ==
  ASSUME IInv, LogInit
  PROVE  IInv'
<1>1. TypeOK /\ OwnHandles
  BY DEF IInv
<1>2. /\ Quiet /\ ~s_initialized /\ files' = Opened(Main) /\ s_main_log_file' = Main
      /\ s_initialized' = TRUE /\ s_log_level' = 1
      /\ UNCHANGED <<s_log_lock, s_service_logs, clock, pc, call, written, fate>>
  BY DEF LogInit, history
<1>3. /\ files' \in [Names -> Files \cup {NoFile}] /\ files'[Main] # NoFile /\ SameContents
  BY <1>1, <1>2, OpenedKeepsContents, NamesApart DEF SameContents
<1>4. OwnHandles' /\ Named'
  BY <1>1, <1>2, <1>3 DEF OwnHandles, Named
<1>5. OnlyBegun
  BY <1>1, <1>2 DEF OnlyBegun, TypeOK
<1>6. s_log_lock' = NoThread
  BY <1>1, <1>2 DEF TypeOK, Quiet, InSection
<1>7. /\ DOMAIN s_service_logs' \subseteq Services
      /\ Cardinality(DOMAIN s_service_logs') <= MaxServices
      /\ s_log_level' \in Levels /\ s_initialized' \in BOOLEAN
      /\ pc' \in [Threads -> Locations] /\ call' \in [Threads -> Calls]
  BY <1>1, <1>2, BoundsAssumption DEF TypeOK, Locations
<1>8. QED
  BY <1>2, <1>3, <1>4, <1>5, <1>6, <1>7, QuietKeeps DEF Quiet

LEMMA LogShutdownKeeps ==
  ASSUME IInv, LogShutdown
  PROVE  IInv'
<1>1. TypeOK
  BY DEF IInv
<1>2. /\ Quiet /\ s_main_log_file' = Closed /\ s_service_logs' = <<>> /\ s_initialized' = FALSE
      /\ UNCHANGED <<s_log_level, s_log_lock, files, clock, pc, call, written, fate>>
  BY DEF LogShutdown, history
<1>3. SameContents /\ OnlyBegun
  BY <1>1, <1>2 DEF SameContents, Contents, OnlyBegun, TypeOK
<1>4. s_log_lock' = NoThread
  BY <1>1, <1>2 DEF TypeOK, Quiet, InSection
<1>5. /\ s_log_level' \in Levels /\ s_initialized' \in BOOLEAN
      /\ pc' \in [Threads -> Locations] /\ call' \in [Threads -> Calls]
      /\ files' \in [Names -> Files \cup {NoFile}]
  BY <1>1, <1>2 DEF TypeOK, Locations
<1>6. QED
  BY <1>1, <1>2, <1>3, <1>4, <1>5, NoHandles, QuietKeeps DEF Quiet

LEMMA CrashKeeps ==
  ASSUME IInv, Crash
  PROVE  IInv'
<1>1. TypeOK
  BY DEF IInv
<1>2. /\ s_main_log_file' = Closed /\ s_service_logs' = <<>> /\ s_initialized' = FALSE
      /\ s_log_lock' = NoThread
      /\ pc' = [t \in Threads |-> "idle"] /\ call' = [t \in Threads |-> Idle]
      /\ UNCHANGED <<s_log_level, files, clock, written>>
  BY DEF Crash
<1>3. fate' = Fated({l \in Lines : fate[l] = "writing"}, "lost")
  BY DEF Crash
<1>4. OnlyBegun
  <2>1. "lost" \in Fates
    BY DEF Fates
  <2>2. /\ fate' \in [Lines -> Fates]
        /\ \A l \in Lines : fate'[l] = IF fate[l] = "writing" THEN "lost" ELSE fate[l]
    BY <1>1, <1>3, <2>1, FatedDoes
  <2>3. QED
    BY <2>2 DEF OnlyBegun
<1>5. SameContents
  BY <1>2 DEF SameContents, Contents
<1>6. /\ s_log_level' \in Levels /\ s_initialized' \in BOOLEAN
      /\ pc' \in [Threads -> Locations] /\ call' \in [Threads -> Calls]
      /\ files' \in [Names -> Files \cup {NoFile}] /\ \A t \in Threads : pc'[t] = "idle"
  BY <1>1, <1>2 DEF TypeOK, Locations, Calls
<1>7. QED
  BY <1>1, <1>2, <1>4, <1>5, <1>6, NoHandles, QuietKeeps

LEMMA SetLevelKeeps ==
  ASSUME IInv, SetLevel \/ UNCHANGED vars
  PROVE  IInv'
<1>1. /\ s_log_level' \in Levels
      /\ UNCHANGED <<s_initialized, s_log_lock, s_main_log_file, s_service_logs, files, clock,
                     pc, call, written, fate>>
  BY DEF SetLevel, vars, handles, history, IInv, TypeOK
<1>2. TypeOK' /\ OwnHandles' /\ Named'
  BY <1>1 DEF IInv, TypeOK, OwnHandles, Named
<1>3. Sections' /\ OwnLines'
  BY <1>1 DEF IInv, Sections, OwnLines, Handle, LogOf
<1>4. Recorded' /\ ArchivesPast' /\ LinesConserved' /\ Chronological' /\ Doomed'
  BY <1>1 DEF IInv, Recorded, ArchivesPast, LinesConserved, Chronological, Doomed, MayGo, Contents
<1>5. QED
  BY <1>2, <1>3, <1>4 DEF IInv

LEMMA TickKeeps ==
  ASSUME IInv, Tick
  PROVE  IInv'
<1>1. TypeOK /\ Sections
  BY DEF IInv
<1>2. /\ clock < MaxClock /\ clock' = clock + 1
      /\ UNCHANGED <<s_initialized, s_log_level, s_log_lock, s_main_log_file, s_service_logs, files,
                     pc, call, written, fate>>
  BY DEF Tick, handles, history
<1>3. clock \in Nat /\ clock' \in 0..MaxClock /\ clock <= clock' /\ clock' \in Nat
  BY <1>1, <1>2, BoundsAssumption DEF TypeOK
<1>4. TypeOK' /\ OwnHandles' /\ Named'
  BY <1>2, <1>3 DEF IInv, TypeOK, OwnHandles, Named
<1>5. Sections'
  <2>1. SUFFICES ASSUME NEW t \in Threads
                 PROVE  Sections!(t)'
    BY DEF Sections
  <2>2. Sections!(t)
    BY <1>1 DEF Sections
  <2>3. pc[t] \in {"scan", "unlink"} => call[t].since <= clock'
    <3>1. SUFFICES ASSUME pc[t] \in {"scan", "unlink"} PROVE call[t].since <= clock'
      OBVIOUS
    <3>2. call[t].since \in Nat /\ call[t].since <= clock
      BY <2>2, <3>1, BoundsAssumption DEF CleanupCalls
    <3>3. QED
      BY <1>3, <3>2
  <2>4. LogOf(t)' = LogOf(t)
    BY <1>2 DEF LogOf
  <2>5. Handle(LogOf(t))' = Handle(LogOf(t))
    BY <1>2, <2>4 DEF Handle
  <2>6. QED
    BY <1>2, <2>2, <2>3, <2>5
<1>6. OwnLines' /\ Doomed'
  BY <1>2 DEF IInv, OwnLines, Doomed, MayGo, Contents
<1>7. SameContents /\ OnlyBegun
  BY <1>1, <1>2 DEF SameContents, Contents, OnlyBegun, TypeOK
<1>8. Recorded' /\ ArchivesPast' /\ LinesConserved' /\ Chronological'
  BY <1>2, <1>3, <1>7, DataKept
<1>9. QED
  BY <1>4, <1>5, <1>6, <1>8 DEF IInv

LEMMA InvInit ==
  ASSUME Init
  PROVE  IInv
<1>1. DOMAIN <<>> = {} /\ Cardinality({}) = 0 /\ <<>> \in Seq(Records) /\ Len(<<>>) = 0
  BY FS_EmptySet
<1>2. \A n \in Names : files[n] = NoFile /\ Contents(n) = {}
  BY DEF Init, Contents
<1>3. OwnHandles /\ Named
  BY <1>1, NamesApart DEF Init, OwnHandles, Named
<1>4. TypeOK
  <2>1. /\ pc \in [Threads -> {"idle", "lock", "scan", "unlink"} \cup InSection]
        /\ call \in [Threads -> Calls]
        /\ \A t \in Threads : s_log_lock = t <=> pc[t] \in InSection
    BY NamesApart DEF Init, Calls, InSection
  <2>2. files \in [Names -> Files \cup {NoFile}] /\ fate \in [Lines -> Fates]
    BY DEF Init, Fates
  <2>3. /\ DOMAIN s_service_logs \subseteq Services
        /\ Cardinality(DOMAIN s_service_logs) <= MaxServices
        /\ \A s \in DOMAIN s_service_logs :
             s_service_logs[s] \in Names \cup {Closed, Unlinked}
    BY <1>1, BoundsAssumption DEF Init
  <2>4. /\ s_initialized \in BOOLEAN /\ s_log_level \in Levels /\ clock \in 0..MaxClock
        /\ s_log_lock \in Threads \cup {NoThread}
        /\ s_main_log_file \in Names \cup {Closed, Unlinked}
    <3>1. /\ s_initialized = FALSE /\ s_log_level = 1 /\ clock = 0
          /\ s_log_lock = NoThread /\ s_main_log_file = Closed
      BY DEF Init
    <3>2. s_log_level \in Levels /\ clock \in 0..MaxClock
      BY <3>1, BoundsAssumption
    <3>3. s_initialized \in BOOLEAN
      BY <3>1
    <3>4. QED
      BY <3>1, <3>2, <3>3
  <2>5. QED
    BY <2>1, <2>2, <2>3, <2>4 DEF TypeOK
<1>5. Sections /\ OwnLines /\ Doomed
  BY DEF Init, Sections, OwnLines, Doomed, Writing
<1>6. Recorded /\ Chronological
  BY <1>1 DEF Init, Recorded, Chronological
<1>7. ArchivesPast /\ LinesConserved
  BY <1>2, NamesApart DEF Init, ArchivesPast, LinesConserved
<1>8. QED
  BY <1>3, <1>4, <1>5, <1>6, <1>7 DEF IInv

LEMMA InvStep ==
  ASSUME IInv, [Next]_vars
  PROVE  IInv'
<1>1. ASSUME NEW t \in Threads, Write(t)
      PROVE  IInv'
  BY <1>1, CallWriteKeeps, GetLogFileKeeps, LinesEndKeep, CallRotateKeeps, WriteLineKeeps,
     RotateRenameKeeps, RotationFailsKeeps, RotateReopenKeeps DEF Write, Section
<1>2. ASSUME NEW t \in Threads, Clean(t)
      PROVE  IInv'
  BY <1>2, CleanupCallKeeps, CleanupStatKeeps, CleanupUnlinkKeeps DEF Clean
<1>3. QED
  BY <1>1, <1>2, LogInitKeeps, LogShutdownKeeps, SetLevelKeeps, TickKeeps, CrashKeeps
     DEF Next, Threads

LEMMA Invariant == Spec => []IInv
<1>1. Init => IInv
  BY InvInit
<1>2. IInv /\ [Next]_vars => IInv'
  BY InvStep
<1>3. QED
  BY <1>1, <1>2, PTL DEF Spec

-----------------------------------------------------------------------------
(* The types, the bound of the table of service files, and the lock: it is *)
(* held exactly inside the critical sections, so each way out of a write   *)
(* or of a rotation that fails half-way unlocks it                         *)
(* (heapstore_log.c, heapstore_log_write and heapstore_log_rotate).        *)
THEOREM LockFollowsSections == Spec => []TypeOK
<1>1. IInv => TypeOK
  BY DEF IInv
<1>2. QED
  BY <1>1, Invariant, PTL

(* A stored line is in exactly one file until that file is removed or      *)
(* replaced, whatever the order of writes, rotations, cleanups and crashes *)
(* (heapstore_log_write, heapstore_log_rotate, heapstore_log_cleanup).     *)
THEOREM LinesAreConserved == Spec => []LinesConserved
<1>1. IInv => LinesConserved
  BY DEF IInv
<1>2. QED
  BY <1>1, Invariant, PTL

(* A handle is on the file its owner means or on a file without a name,    *)
(* and the table, never overfull, holds no closed one                      *)
(* (get_service_log_file).                                                 *)
THEOREM HandlesAreTheirOwn == Spec => []HandlesMatch
<1>1. IInv => HandlesMatch
  BY DEF IInv, TypeOK, HandlesMatch
<1>2. QED
  BY <1>1, Invariant, PTL

(* The archives and the main file tell the lines in the order of their     *)
(* writes: each archive of heapstore_log_rotate ends before the next one   *)
(* begins.                                                                 *)
THEOREM ArchivesAreInOrder == Spec => []Chronological
<1>1. IInv => Chronological
  BY DEF IInv
<1>2. QED
  BY <1>1, Invariant, PTL

-----------------------------------------------------------------------------
Retains(t) ==
  pc[t] = "unlink" /\ pc'[t] = "scan" =>
    \/ call[t].file \in Archives /\ call[t].file >= call[t].since
    \/ \A i \in 1..Len(written) :
         fate'[written[i].line] # fate[written[i].line] => MayGo(call[t].since, i)

LEMMA UnlinkRetains ==
  ASSUME IInv, NEW t \in Threads, CleanupUnlink(t)
  PROVE  Retains(t)
<1>1. TypeOK /\ Recorded /\ pc[t] = "unlink"
  BY DEF IInv, CleanupUnlink
<1>2. PICK n \in Names : n = call[t].file
  BY <1>1 DEF IInv, Sections
<1>3. fate' = Fated(Contents(n), "expired")
  BY <1>2 DEF CleanupUnlink
<1>4. \A l \in Lines : fate'[l] # fate[l] => l \in Contents(n)
  <2>1. "expired" \in Fates
    BY DEF Fates
  <2>2. QED
    BY <1>1, <1>3, <2>1, FatedDoes
<1>5. Doomed!(t)!2
  BY <1>1 DEF IInv, Doomed
<1>6. \A i \in 1..Len(written) : written[i].line \in Lines
  BY <1>1, WrittenType
<1>7. QED
  BY <1>2, <1>4, <1>5, <1>6 DEF Retains

(* Every other step leaves a thread that is about to unlink there, or ends *)
(* its call in a crash.                                                    *)
LEMMA StepRetains ==
  ASSUME IInv, Next, NEW t \in Threads
  PROVE  Retains(t)
<1>1. SUFFICES ASSUME pc[t] = "unlink", pc'[t] = "scan", ~CleanupUnlink(t)
               PROVE  FALSE
  BY UnlinkRetains DEF Retains
<1>2. pc \in [Threads -> Locations]
  BY DEF IInv, TypeOK, Locations
<1>3. ASSUME NEW u \in Threads, NEW p, Goto(u, p), pc[u] # "unlink" \/ p # "scan"
      PROVE  FALSE
  BY <1>1, <1>2, <1>3 DEF Goto
<1>4. ASSUME NEW u \in Threads, Write(u)
      PROVE  FALSE
  <2>1. PICK p : Goto(u, p) /\ p # "scan"
    BY <1>4 DEF Write, CallWrite, GetLogFile, GetLogFileFails, CallRotate, Section, WriteLine,
       WriteLineFails, RotateRename, RotateRenameFails, RotateReopen, RotateReopenFails,
       UnlockAndReturn, Return
  <2>2. QED
    BY <1>3, <2>1
<1>5. ASSUME NEW u \in Threads, Clean(u)
      PROVE  FALSE
  <2>1. CASE CleanupUnlink(u)
    <3>1. u # t /\ Goto(u, "scan")
      BY <1>1, <2>1 DEF CleanupUnlink
    <3>2. QED
      BY <1>1, <1>2, <3>1 DEF Goto
  <2>2. CASE CallCleanup(u)
    BY <1>3, <2>2 DEF CallCleanup
  <2>3. CASE CleanupStat(u)
    BY <1>3, <2>3 DEF CleanupStat
  <2>4. CASE CleanupDone(u)
    BY <1>3, <2>4 DEF CleanupDone, Return
  <2>5. QED
    BY <1>5, <2>1, <2>2, <2>3, <2>4 DEF Clean
<1>6. CASE Crash
  BY <1>1, <1>6 DEF Crash
<1>7. CASE LogInit \/ LogShutdown \/ SetLevel \/ Tick
  BY <1>1, <1>7 DEF LogInit, LogShutdown, SetLevel, Tick
<1>8. QED
  BY <1>4, <1>5, <1>6, <1>7 DEF Next, Threads

(* A cleanup removes no line within the retention, except what was written *)
(* or rotated into its way after its cutoff: the file it unlinks is the    *)
(* one it looked at, and no older line can have come under that name       *)
(* (heapstore_log_cleanup, heapstore_dir_clean).                           *)
THEOREM RetentionIsKept == Spec => OnlyExpiredRemoved
<1>1. ASSUME IInv, [Next]_vars
      PROVE  [\A t \in Cleaners : Retains(t)]_vars
  <2>1. CASE Next
    BY <1>1, <2>1, StepRetains DEF Threads
  <2>2. QED
    BY <1>1, <2>1
<1>2. [\A t \in Cleaners : Retains(t)]_vars
        => [\A t \in Cleaners : pc[t] = "unlink" /\ pc'[t] = "scan" =>
              \/ call[t].file \in Archives /\ call[t].file >= call[t].since
              \/ \A i \in 1..Len(written) :
                   fate'[written[i].line] # fate[written[i].line] =>
                     \/ written[i].at + Keep < call[t].since
                     \/ written[i].at >= call[t].since]_vars
  BY DEF Retains, MayGo
<1>3. QED
  BY <1>1, <1>2, Invariant, PTL DEF Spec, OnlyExpiredRemoved

=============================================================================
