---------------------------- MODULE HeapstoreLog ----------------------------
(***************************************************************************)
(* The log store (src/src/heapstore_log.c) with the directory scan of its  *)
(* cleanup (heapstore_dir_clean, src/src/utils.c).                         *)
(*                                                                         *)
(* Writers and rotations share s_log_lock; a cleanup takes no lock.  A     *)
(* line goes to the file of its service while the table of open service    *)
(* files has room, and to the main file otherwise.  A rotation renames the *)
(* main file to an archive named by the second.                            *)
(*                                                                         *)
(* An open file is known by the name its contents have now: a rename takes *)
(* the handle along and an unlink leaves it without a name.  A line stands *)
(* for one call of heapstore_log_write.                                    *)
(***************************************************************************)
EXTENDS Naturals, Sequences, FiniteSets

CONSTANTS Writers,      \* the threads that write and rotate
          Cleaners,     \* the threads that clean up
          NoThread,
          Services,     \* the services that log
          NoService,    \* no service name: the main file
          MaxServices,  \* heapstore_LOG_MAX_SERVICES
          Lines,        \* the calls of heapstore_log_write, each made once
          ServiceOf,    \* the service of each line, or NoService
          LevelOf,      \* its level
          Levels,       \* the thresholds in use
          Keep,         \* days_to_keep, in whole units of the clock
          MaxClock,     \* bound of the clock
          Main,         \* kernel/agentrt.log
          NoFile,       \* no file of that name
          Closed,       \* a FILE* that is NULL
          Unlinked      \* a FILE* whose file has no name any more

Threads == Writers \cup Cleaners
Archives == 0..MaxClock
Names == {Main} \cup Services \cup Archives
Files == [lines : SUBSET Lines, mtime : 0..MaxClock]

ASSUME NamesAssumption ==
  /\ Main \notin Services \cup Nat
  /\ Services \cap Nat = {}
  /\ {NoFile, Closed, Unlinked} \cap Names = {}
  /\ Closed # Unlinked /\ NoFile \notin Files
  /\ NoService \notin Services /\ NoThread \notin Threads
ASSUME BoundsAssumption ==
  /\ MaxServices \in Nat /\ MaxClock \in Nat /\ Keep \in Nat
  /\ Levels \subseteq 0..4 /\ 1 \in Levels
  /\ ServiceOf \in [Lines -> Services \cup {NoService}] /\ LevelOf \in [Lines -> 0..4]
  /\ IsFiniteSet(Services) /\ IsFiniteSet(Lines)

VARIABLES
  s_initialized,
  s_log_level,      \* the threshold
  s_log_lock,       \* who holds it
  s_main_log_file,  \* the main file's handle
  s_service_logs,   \* the table of open service files: service -> handle
  files,            \* the directory: name -> NoFile or its lines and mtime
  clock,            \* time(NULL)
  pc,               \* where each thread is
  call,             \* what it was called with, and how far its scan is
  written,          \* history: the lines in the order of their writes
  fate              \* history: what became of each line

handles == <<s_main_log_file, s_service_logs>>
history == <<written, fate>>
vars == <<s_initialized, s_log_level, s_log_lock, handles, files, clock, pc,
          call, history>>

Idle == [op |-> "none"]
InSection == {"write", "rename", "reopen"}
Fates == {"new", "writing", "stored",
          "lost",        \* its name was refused, its file could not be opened
                         \* or written, or had no name any more when it was
          "replaced",    \* its archive was replaced by one of the same second
          "expired"}     \* its file was removed by a cleanup

Init ==
  /\ s_initialized = FALSE
  /\ s_log_level = 1
  /\ s_log_lock = NoThread
  /\ s_main_log_file = Closed
  /\ s_service_logs = <<>>
  /\ files = [n \in Names |-> NoFile]
  /\ clock = 0
  /\ pc = [t \in Threads |-> "idle"]
  /\ call = [t \in Threads |-> Idle]
  /\ written = <<>>
  /\ fate = [l \in Lines |-> "new"]

-----------------------------------------------------------------------------
Contents(n) == IF files[n] = NoFile THEN {} ELSE files[n].lines

(* Mutant: the file is opened with "w".                                    *)
Opened_Truncated(n) == [files EXCEPT ![n] = [lines |-> {}, mtime |-> clock]]

(* fopen(name, "a"): the file is created when it is not there.             *)
Opened(n) ==
  IF files[n] # NoFile THEN files
  ELSE [files EXCEPT ![n] = [lines |-> {}, mtime |-> clock]]

Fated(lines, f) == [l \in Lines |-> IF l \in lines THEN f ELSE fate[l]]

Goto(t, location) == pc' = [pc EXCEPT ![t] = location]

Return(t) ==
  /\ Goto(t, "idle")
  /\ call' = [call EXCEPT ![t] = Idle]

UnlockAndReturn(t) ==
  /\ s_log_lock' = NoThread
  /\ Return(t)

(* Init and shutdown are not thread safe (heapstore_log.h:60,72): they run *)
(* while nobody is in a call.                                              *)
Quiet == \A t \in Threads : pc[t] = "idle"

LogInit ==
  /\ Quiet /\ ~s_initialized
  /\ files' = Opened(Main)
  /\ s_main_log_file' = Main
  /\ s_initialized' = TRUE
  /\ s_log_level' = 1
  /\ UNCHANGED <<s_log_lock, s_service_logs, clock, pc, call, history>>

LogShutdown ==
  /\ Quiet /\ s_initialized
  /\ s_main_log_file' = Closed
  /\ s_service_logs' = <<>>
  /\ s_initialized' = FALSE
  /\ UNCHANGED <<s_log_level, s_log_lock, files, clock, pc, call, history>>

SetLevel ==
  /\ s_log_level' \in Levels
  /\ UNCHANGED <<s_initialized, s_log_lock, handles, files, clock, pc, call,
                 history>>

-----------------------------------------------------------------------------
(* heapstore_log_write: the tests before the lock.                         *)
CallWrite(t) ==
  /\ pc[t] = "idle" /\ s_initialized
  /\ \E l \in Lines :
       /\ fate[l] = "new"
       /\ LevelOf[l] <= s_log_level
       /\ call' = [call EXCEPT ![t] = [op |-> "write", line |-> l]]
       /\ fate' = Fated({l}, "writing")
  /\ Goto(t, "lock")
  /\ UNCHANGED <<s_initialized, s_log_level, s_log_lock, handles, files, clock,
                 written>>

(* get_service_log_file: which file a call writes to.                      *)
LogOf(t) ==
  LET s == ServiceOf[call[t].line]
      known == DOMAIN s_service_logs
  IN  IF s # NoService /\ (s \in known \/ Cardinality(known) < MaxServices)
      THEN s ELSE Main

Handle(n) ==
  IF n = Main THEN s_main_log_file
  ELSE IF n \in DOMAIN s_service_logs THEN s_service_logs[n]
  ELSE Closed

(* Under the lock: the file is open, or is opened now: the main file after *)
(* a rotation that failed, a service's on its first line, which also fills *)
(* the table.  A service found in the table with no file is not reopened.  *)
GetLogFile(t) ==
  /\ pc[t] = "lock" /\ s_log_lock = NoThread
  /\ s_log_lock' = t
  /\ LET n == LogOf(t)
     IN  \/ /\ Handle(n) # Closed
            /\ UNCHANGED <<files, handles>>
         \/ /\ Handle(n) = Closed /\ n \notin DOMAIN s_service_logs
            /\ files' = Opened(n)
            /\ IF n = Main
               THEN s_main_log_file' = Main /\ UNCHANGED s_service_logs
               ELSE /\ s_service_logs' = [s \in DOMAIN s_service_logs \cup {n} |->
                                            IF s = n THEN n ELSE s_service_logs[s]]
                    /\ UNCHANGED s_main_log_file
  /\ Goto(t, "write")
  /\ UNCHANGED <<s_initialized, s_log_level, clock, call, history>>

(* The file cannot be opened, or heapstore_path_clean refuses the name.    *)
(* What is wrong with a name is left out: it may be any service's.         *)
GetLogFileFails(t) ==
  /\ pc[t] = "lock" /\ s_log_lock = NoThread
  /\ ServiceOf[call[t].line] # NoService \/ Handle(LogOf(t)) = Closed
  /\ fate' = Fated({call[t].line}, "lost")
  /\ UnlockAndReturn(t)
  /\ UNCHANGED <<s_initialized, s_log_level, handles, files, clock, written>>

(* The line is written and flushed; a file without a name takes it too.    *)
WriteLine(t) ==
  /\ pc[t] = "write"
  /\ LET h == Handle(LogOf(t))
         l == call[t].line
     IN  IF h = Unlinked
         THEN fate' = Fated({l}, "lost") /\ UNCHANGED <<files, written>>
         ELSE /\ files' = [files EXCEPT ![h] =
                             [lines |-> @.lines \cup {l}, mtime |-> clock]]
              /\ written' = Append(written, [line |-> l, at |-> clock])
              /\ fate' = Fated({l}, "stored")
  /\ UnlockAndReturn(t)
  /\ UNCHANGED <<s_initialized, s_log_level, handles, clock>>

(* The results of fputs, vfprintf and fflush are not looked at.  What has  *)
(* reached the file of a line that is not all there has changed its time.  *)
WriteLineFails(t) ==
  /\ pc[t] = "write"
  /\ LET h == Handle(LogOf(t))
     IN  \/ UNCHANGED files
         \/ h # Unlinked /\ files' = [files EXCEPT ![h].mtime = clock]
  /\ fate' = Fated({call[t].line}, "lost")
  /\ UnlockAndReturn(t)
  /\ UNCHANGED <<s_initialized, s_log_level, handles, clock, written>>

-----------------------------------------------------------------------------
(* Mutant: the main file is renamed while it is open.                      *)
CallRotate_LeftOpen(t) ==
  /\ pc[t] = "idle" /\ s_initialized /\ s_log_lock = NoThread
  /\ s_log_lock' = t
  /\ Goto(t, "rename")
  /\ UNCHANGED <<s_initialized, s_log_level, handles, files, clock, call, history>>

(* heapstore_log_rotate: the main file is closed, ...  Nothing it reads    *)
(* changes while it waits for the lock, so a call begins with having it.   *)
CallRotate(t) ==
  /\ pc[t] = "idle" /\ s_initialized /\ s_log_lock = NoThread
  /\ s_log_lock' = t
  /\ s_main_log_file' = Closed
  /\ Goto(t, "rename")
  /\ UNCHANGED <<s_initialized, s_log_level, s_service_logs, files, clock, call,
                 history>>

(* Mutant: the name of an archive leaves the date out.                    *)
ArchiveName_OfDay == clock % 2

ArchiveName == clock

Renamed(h) ==
  CASE h = Main -> ArchiveName [] h = ArchiveName -> Unlinked [] OTHER -> h

(* ... renamed, over an archive of the same second if there is one, ...    *)
RotateRename(t) ==
  /\ pc[t] = "rename" /\ files[Main] # NoFile
  /\ files' = [files EXCEPT ![ArchiveName] = files[Main], ![Main] = NoFile]
  /\ s_main_log_file' = Renamed(s_main_log_file)
  /\ fate' = Fated(Contents(ArchiveName), "replaced")
  /\ Goto(t, "reopen")
  /\ UNCHANGED <<s_initialized, s_log_level, s_log_lock, s_service_logs, clock,
                 call, written>>

(* ... which leaves it closed when it fails, for the next write to reopen, *)
RotateRenameFails(t) ==
  /\ pc[t] = "rename"
  /\ UnlockAndReturn(t)
  /\ UNCHANGED <<s_initialized, s_log_level, handles, files, clock, history>>

(* ... and opened again.                                                   *)
RotateReopen(t) ==
  /\ pc[t] = "reopen"
  /\ files' = Opened(Main)
  /\ s_main_log_file' = Main
  /\ UnlockAndReturn(t)
  /\ UNCHANGED <<s_initialized, s_log_level, s_service_logs, clock, history>>

RotateReopenFails(t) ==
  /\ pc[t] = "reopen"
  /\ UnlockAndReturn(t)
  /\ UNCHANGED <<s_initialized, s_log_level, handles, files, clock, history>>

-----------------------------------------------------------------------------
(* heapstore_log_cleanup: the cutoff is taken once, then the entries of the *)
(* directories are looked at.                                              *)
CallCleanup(t) ==
  /\ pc[t] = "idle" /\ s_initialized
  /\ call' = [call EXCEPT ![t] =
       [op |-> "cleanup", since |-> clock, file |-> NoFile]]
  /\ Goto(t, "scan")
  /\ UNCHANGED <<s_initialized, s_log_level, s_log_lock, handles, files, clock,
                 history>>

(* Mutant: a file of the cutoff's own age is taken for expired.            *)
Expired_OffByOne(n, since) == files[n] # NoFile /\ files[n].mtime + Keep <= since

Expired(n, since) == files[n] # NoFile /\ files[n].mtime + Keep < since

CleanupStat(t) ==
  /\ pc[t] = "scan"
  /\ \E n \in Names :
       /\ Expired(n, call[t].since)
       /\ call' = [call EXCEPT ![t].file = n]
  /\ Goto(t, "unlink")
  /\ UNCHANGED <<s_initialized, s_log_level, s_log_lock, handles, files, clock,
                 history>>

Detached(h, n) == IF h = n THEN Unlinked ELSE h

(* Between the stat and the unlink the name may have got another file, or  *)
(* its file another line.                                                  *)
CleanupUnlink(t) ==
  /\ pc[t] = "unlink"
  /\ LET n == call[t].file
     IN  /\ files' = [files EXCEPT ![n] = NoFile]
         /\ s_main_log_file' = Detached(s_main_log_file, n)
         /\ s_service_logs' = [s \in DOMAIN s_service_logs |->
                                 Detached(s_service_logs[s], n)]
         /\ fate' = Fated(Contents(n), "expired")
  /\ call' = [call EXCEPT ![t].file = NoFile]
  /\ Goto(t, "scan")
  /\ UNCHANGED <<s_initialized, s_log_level, s_log_lock, clock, written>>

(* An expired file may be left: its unlink failed, which changes nothing,  *)
(* or the directory was read before it came there.                         *)
CleanupDone(t) ==
  /\ pc[t] = "scan"
  /\ Return(t)
  /\ UNCHANGED <<s_initialized, s_log_level, s_log_lock, handles, files, clock,
                 history>>

-----------------------------------------------------------------------------
Tick ==
  /\ clock < MaxClock
  /\ clock' = clock + 1
  /\ UNCHANGED <<s_initialized, s_log_level, s_log_lock, handles, files, pc,
                 call, history>>

(* The process dies and its files stay; a line on its way is not written.  *)
Crash ==
  /\ s_initialized
  /\ s_initialized' = FALSE
  /\ s_log_lock' = NoThread
  /\ s_main_log_file' = Closed
  /\ s_service_logs' = <<>>
  /\ pc' = [t \in Threads |-> "idle"]
  /\ call' = [t \in Threads |-> Idle]
  /\ fate' = Fated({l \in Lines : fate[l] = "writing"}, "lost")
  /\ UNCHANGED <<s_log_level, files, clock, written>>

Section(t) ==
  \/ WriteLine(t) \/ WriteLineFails(t)
  \/ RotateRename(t) \/ RotateRenameFails(t) \/ RotateReopen(t) \/ RotateReopenFails(t)

Write(t) ==
  \/ CallWrite(t) \/ GetLogFile(t) \/ GetLogFileFails(t)
  \/ CallRotate(t)
  \/ Section(t)
Clean(t) == CallCleanup(t) \/ CleanupStat(t) \/ CleanupUnlink(t) \/ CleanupDone(t)

Next ==
  \/ LogInit \/ LogShutdown \/ SetLevel \/ Tick \/ Crash
  \/ \E t \in Writers : Write(t)
  \/ \E t \in Cleaners : Clean(t)

Spec == Init /\ [][Next]_vars

-----------------------------------------------------------------------------
Calls ==
  {Idle}
  \cup [op : {"write"}, line : Lines]
  \cup [op : {"cleanup"}, since : 0..MaxClock, file : Names \cup {NoFile}]

(* Every variable holds a value of its type, the table of service files    *)
(* keeps its bound, restarts included, and the lock is held exactly inside *)
(* the critical sections: every way out of one unlocks, those of a         *)
(* rotation that cannot rename or reopen included.                         *)
TypeOK ==
  /\ s_initialized \in BOOLEAN
  /\ s_log_level \in Levels
  /\ s_log_lock \in Threads \cup {NoThread}
  /\ s_main_log_file \in Names \cup {Closed, Unlinked}
  /\ DOMAIN s_service_logs \subseteq Services
  /\ Cardinality(DOMAIN s_service_logs) <= MaxServices
  /\ \A s \in DOMAIN s_service_logs : s_service_logs[s] \in Names \cup {Closed, Unlinked}
  /\ files \in [Names -> Files \cup {NoFile}]
  /\ clock \in 0..MaxClock
  /\ pc \in [Threads -> {"idle", "lock", "scan", "unlink"} \cup InSection]
  /\ call \in [Threads -> Calls]
  /\ fate \in [Lines -> Fates]
  /\ \A t \in Threads : s_log_lock = t <=> pc[t] \in InSection

(* No line disappears in silence or is found twice: a line that was stored *)
(* is in one file, until a cleanup removes that file or a rotation of the  *)
(* same second replaces it.                                                *)
LinesConserved ==
  /\ \A l \in Lines : fate[l] = "stored" => \E n \in Names : l \in Contents(n)
  /\ \A m, n \in Names : \A l \in Contents(m) \cap Contents(n) :
       m = n /\ fate[l] = "stored"

OwnHandles ==
  /\ s_main_log_file \in {Main, Closed, Unlinked}
  /\ \A s \in DOMAIN s_service_logs : s_service_logs[s] \in {s, Unlinked}
  /\ ~s_initialized => s_main_log_file = Closed /\ DOMAIN s_service_logs = {}

(* An open file is the one its owner means: the main handle is never left  *)
(* on an archive, and while the store runs the table, which is never over- *)
(* full, names no closed file (a closed one would swallow the service's    *)
(* lines for good).                                                        *)
HandlesMatch ==
  OwnHandles /\ Cardinality(DOMAIN s_service_logs) <= MaxServices

(* The archives in the order of their names, and the main file after them, *)
(* tell the lines in the order in which they were written, through         *)
(* rotations that fail, cleanups and restarts, while the local time does   *)
(* not go back.                                                            *)
Chronological ==
  \A i, j \in 1..Len(written) : i < j =>
    \A m, n \in {Main} \cup Archives :
      written[i].line \in Contents(m) /\ written[j].line \in Contents(n) =>
        m = n \/ n = Main \/ (m \in Archives /\ m < n)

(* A cleanup removes no line that is within the retention, whatever is    *)
(* written and rotated during its scan ("Clean up expired log files",       *)
(* heapstore_log.h:150).  Two things are not promised: a line written after *)
(* the cutoff was taken may go with the file it was appended to, and so may *)
(* an archive that a rotation of the same second put in the place of an    *)
(* expired one.                                                            *)
OnlyExpiredRemoved ==
  [][\A t \in Cleaners : pc[t] = "unlink" /\ pc'[t] = "scan" =>
       \/ call[t].file \in Archives /\ call[t].file >= call[t].since
       \/ \A i \in 1..Len(written) :
            fate'[written[i].line] # fate[written[i].line] =>
              \/ written[i].at + Keep < call[t].since
              \/ written[i].at >= call[t].since]_vars
=============================================================================
