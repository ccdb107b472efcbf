--------------------------- MODULE HeapstoreTrace ---------------------------
(***************************************************************************)
(* The span buffer of the trace store (src/src/heapstore_trace.c).         *)
(*                                                                         *)
(* Writer threads append spans, one at a time or in batches, to a buffer   *)
(* of MaxSpans slots; a flush writes the counted slots to a file named by  *)
(* the current second and resets the count; a cleanup removes old files.   *)
(* Every operation tests s_initialized WITHOUT the lock, then takes        *)
(* s_trace_lock for the rest of its work.  The process may crash at any    *)
(* step and be started again.                                              *)
(*                                                                         *)
(* A span is a model value; a caller writes a span until a write of it     *)
(* returned SUCCESS.  HasAttributes are the spans whose attributes pointer *)
(* is not NULL: the store keeps a heap copy of those.                      *)
(***************************************************************************)
EXTENDS Naturals, Sequences

CONSTANTS Threads,        \* the threads that call the API
          Spans,          \* the spans they write
          HasAttributes,  \* the spans with a non-NULL attributes pointer
          Batches,        \* the arguments of heapstore_trace_write_spans_batch
          MaxSpans,       \* heapstore_TRACE_MAX_SPANS
          MaxClock,       \* bound: the last second of the behaviour
          NoThread,       \* s_trace_lock is free
          NoSpan          \* what a slot holds before its first use

ASSUME MaxSpansAssumption == MaxSpans \in Nat \ {0}
ASSUME MaxClockAssumption == MaxClock \in Nat
ASSUME SpansAssumption == HasAttributes \subseteq Spans /\ NoSpan \notin Spans
(* A span stands for one write: it belongs to one batch or to none.        *)
ASSUME BatchesAssumption ==
  /\ \A b \in Batches : b \in Seq(Spans) /\ Len(b) > 0
  /\ \A b, c \in Batches : \A i \in 1..Len(b), j \in 1..Len(c) :
       b[i] = c[j] => b = c /\ i = j
ASSUME ThreadsAssumption == NoThread \notin Threads

VARIABLES
  s_initialized,   \* the module flag every operation reads without the lock
  s_trace_lock,    \* the holder of the mutex, or NoThread
  s_span_buffer,   \* slot -> [span, attributes]
  s_span_count,    \* how many slots are in use
  heap,            \* the spans whose attribute copy is allocated
  files,           \* second in the file name -> [spans, mtime]
  clock,           \* time(NULL); a Tick is a lapse of a second or more
  pc,              \* where each thread is in its call
  op,              \* which operation that call is
  arg,             \* the spans a thread's write call carries
  out,             \* the flush in progress: its file, loop index, failed writes
  accepted,        \* history: spans whose write returned SUCCESS
  lost             \* history: accepted spans that are no longer stored

store == <<s_span_buffer, s_span_count, heap>>
vars == <<s_initialized, s_trace_lock, store, files, clock, pc, op, arg, out,
          accepted, lost>>

(* attributes of a slot: NULL, the caller's pointer, or the store's copy.  *)
Slot == [span : Spans \cup {NoSpan}, attributes : {"null", "caller", "copy"}]
File == [spans : SUBSET Spans, mtime : 0..MaxClock]
Output == [name : 0..MaxClock, next : 1..MaxSpans + 1, dropped : SUBSET Spans]
Slots == 1..MaxSpans

(* idle: outside a call; waiting: past the unlocked test, before the lock; *)
(* locked: inside the critical section; exporting: its flush file is open. *)
Locations == {"idle", "waiting", "locked", "exporting"}
Operations == {"none", "write_span", "write_spans_batch", "flush", "cleanup"}

EmptyBuffer == [i \in Slots |-> [span |-> NoSpan, attributes |-> "null"]]
Pending == {s_span_buffer[i].span : i \in 1..s_span_count}
Exported == UNION {files[f].spans : f \in DOMAIN files}
InCall == UNION {{arg[t][i] : i \in 1..Len(arg[t])} : t \in Threads}

Init ==
  /\ s_initialized = FALSE
  /\ s_trace_lock = NoThread
  /\ s_span_buffer = EmptyBuffer
  /\ s_span_count = 0
  /\ heap = {}
  /\ files = [f \in {} |-> [spans |-> {}, mtime |-> 0]]
  /\ clock = 0
  /\ pc = [t \in Threads |-> "idle"]
  /\ op = [t \in Threads |-> "none"]
  /\ arg = [t \in Threads |-> <<>>]
  /\ out = [name |-> 0, next |-> 1, dropped |-> {}]
  /\ accepted = {}
  /\ lost = {}

-----------------------------------------------------------------------------
(* init and shutdown are documented as not safe for concurrent calls       *)
(* (heapstore_trace.h:37,49): they run while no thread is inside a call.   *)
Quiescent == \A t \in Threads : pc[t] = "idle"
Exporting == \E t \in Threads : pc[t] = "exporting"

TraceInit ==
  /\ Quiescent /\ ~s_initialized
  /\ s_initialized' = TRUE
  /\ s_trace_lock' = NoThread
  /\ s_span_buffer' = EmptyBuffer
  /\ s_span_count' = 0
  /\ UNCHANGED <<heap, files, clock, pc, op, arg, out, accepted, lost>>

(* shutdown frees the copies of the counted slots and the buffer: what was *)
(* not flushed is gone.                                                    *)
TraceShutdown ==
  /\ Quiescent /\ s_initialized
  /\ heap' = heap \ {s_span_buffer[i].span :
                       i \in {j \in 1..s_span_count :
                                s_span_buffer[j].attributes = "copy"}}
  /\ lost' = lost \cup (Pending \ Exported)
  /\ s_span_buffer' = EmptyBuffer
  /\ s_span_count' = 0
  /\ s_initialized' = FALSE
  /\ UNCHANGED <<s_trace_lock, files, clock, pc, op, arg, out, accepted>>

-----------------------------------------------------------------------------
(* The head of every operation: s_initialized is read without the lock.    *)
Enter(t, o, spans) ==
  /\ pc[t] = "idle" /\ s_initialized
  /\ pc' = [pc EXCEPT ![t] = "waiting"]
  /\ op' = [op EXCEPT ![t] = o]
  /\ arg' = [arg EXCEPT ![t] = spans]
  /\ UNCHANGED <<s_initialized, s_trace_lock, store, files, clock, out,
                 accepted, lost>>

(* A caller submits a span that no write has accepted or is carrying.      *)
Fresh(s) == s \in Spans \ (accepted \cup InCall)

Singles == Spans \ UNION {{b[i] : i \in 1..Len(b)} : b \in Batches}

CallWriteSpan(t) == \E s \in Singles : Fresh(s) /\ Enter(t, "write_span", <<s>>)
CallWriteBatch(t) ==
  \E b \in Batches : /\ \A i \in 1..Len(b) : Fresh(b[i])
                     /\ Enter(t, "write_spans_batch", b)
CallFlush(t) == Enter(t, "flush", <<>>)
CallCleanup(t) == Enter(t, "cleanup", <<>>)

(* airy_mtx_lock(&s_trace_lock) *)
Lock(t) ==
  /\ pc[t] = "waiting"
  /\ s_trace_lock = NoThread
  /\ s_trace_lock' = t
  /\ pc' = [pc EXCEPT ![t] = "locked"]
  /\ UNCHANGED <<s_initialized, store, files, clock, op, arg, out, accepted,
                 lost>>

(* airy_mtx_unlock(&s_trace_lock) and return *)
UnlockAndReturn(t) ==
  /\ s_trace_lock' = NoThread
  /\ pc' = [pc EXCEPT ![t] = "idle"]
  /\ op' = [op EXCEPT ![t] = "none"]
  /\ arg' = [arg EXCEPT ![t] = <<>>]

InSection(t, o) == pc[t] = "locked" /\ op[t] = o

-----------------------------------------------------------------------------
(* heapstore_trace_write_span, under the lock.                             *)
(* Mutant: the slot keeps the pointer the caller passed.                   *)
OwnCopy_Shallow(s) ==
  [span |-> s, attributes |-> IF s \in HasAttributes THEN "caller" ELSE "null"]

OwnCopy(s) == [span |-> s,
               attributes |-> IF s \in HasAttributes THEN "copy" ELSE "null"]

SpanRejectedFull(t) ==
  /\ InSection(t, "write_span")
  /\ s_span_count >= MaxSpans
  /\ UnlockAndReturn(t)
  /\ UNCHANGED <<s_initialized, store, files, clock, out, accepted, lost>>

(* AIRY_STRDUP of the attributes fails: the slot was overwritten but is    *)
(* not counted.                                                            *)
SpanRejectedNoMemory(t) ==
  /\ InSection(t, "write_span")
  /\ s_span_count < MaxSpans
  /\ arg[t][1] \in HasAttributes
  /\ s_span_buffer' = [s_span_buffer EXCEPT ![s_span_count + 1] =
                         [span |-> arg[t][1], attributes |-> "null"]]
  /\ UnlockAndReturn(t)
  /\ UNCHANGED <<s_initialized, s_span_count, heap, files, clock, out,
                 accepted, lost>>

SpanAccepted(t) ==
  /\ InSection(t, "write_span")
  /\ s_span_count < MaxSpans
  /\ s_span_buffer' = [s_span_buffer EXCEPT ![s_span_count + 1] = OwnCopy(arg[t][1])]
  /\ heap' = heap \cup ({arg[t][1]} \cap HasAttributes)
  /\ s_span_count' = s_span_count + 1
  /\ accepted' = accepted \cup {arg[t][1]}
  /\ UnlockAndReturn(t)
  /\ UNCHANGED <<s_initialized, files, clock, out, lost>>

-----------------------------------------------------------------------------
(* heapstore_trace_write_spans_batch, under the lock.  The raw records are *)
(* copied first, caller pointers included; slotOf says what each becomes.  *)
FillSlots(batch, slotOf(_, _)) ==
  [i \in Slots |->
     IF i \in s_span_count + 1 .. s_span_count + Len(batch)
     THEN slotOf(i - s_span_count, batch[i - s_span_count])
     ELSE s_span_buffer[i]]

BatchRejectedFull(t) ==
  /\ InSection(t, "write_spans_batch")
  /\ s_span_count + Len(arg[t]) > MaxSpans
  /\ UnlockAndReturn(t)
  /\ UNCHANGED <<s_initialized, store, files, clock, out, accepted, lost>>

(* Mutant: the elements copied before the failure stay counted.            *)
BatchRejectedNoMemory_Prefix(t) ==
  /\ InSection(t, "write_spans_batch")
  /\ s_span_count + Len(arg[t]) <= MaxSpans
  /\ \E k \in 1..Len(arg[t]) :
       /\ s_span_buffer' = FillSlots(arg[t], LAMBDA i, s : OwnCopy(s))
       /\ s_span_count' = s_span_count + (k - 1)
  /\ UnlockAndReturn(t)
  /\ UNCHANGED <<s_initialized, heap, files, clock, out, accepted, lost>>

(* The copy for element k fails: the copies of the elements before it are  *)
(* freed, those after it still carry the caller's pointer; none is counted.*)
BatchRejectedNoMemory(t) ==
  /\ InSection(t, "write_spans_batch")
  /\ s_span_count + Len(arg[t]) <= MaxSpans
  /\ \E k \in 1..Len(arg[t]) :
       /\ arg[t][k] \in HasAttributes
       /\ s_span_buffer' =
            FillSlots(arg[t], LAMBDA i, s :
                [span |-> s,
                 attributes |-> IF i > k /\ s \in HasAttributes
                                THEN "caller" ELSE "null"])
  /\ UnlockAndReturn(t)
  /\ UNCHANGED <<s_initialized, s_span_count, heap, files, clock, out,
                 accepted, lost>>

BatchAccepted(t) ==
  /\ InSection(t, "write_spans_batch")
  /\ s_span_count + Len(arg[t]) <= MaxSpans
  /\ LET new == {arg[t][i] : i \in 1..Len(arg[t])}
     IN  /\ s_span_buffer' = FillSlots(arg[t], LAMBDA i, s : OwnCopy(s))
         /\ heap' = heap \cup (new \cap HasAttributes)
         /\ s_span_count' = s_span_count + Len(arg[t])
         /\ accepted' = accepted \cup new
  /\ UnlockAndReturn(t)
  /\ UNCHANGED <<s_initialized, files, clock, out, lost>>

-----------------------------------------------------------------------------
(* heapstore_trace_flush, under the lock.                                  *)
FlushNothing(t) ==
  /\ InSection(t, "flush")
  /\ s_span_count = 0
  /\ UnlockAndReturn(t)
  /\ UNCHANGED <<s_initialized, store, files, clock, out, accepted, lost>>

(* Mutant: the early return leaves s_trace_lock held.                      *)
FlushOpenFails_KeepsLock(t) ==
  /\ InSection(t, "flush")
  /\ s_span_count > 0
  /\ pc' = [pc EXCEPT ![t] = "idle"]
  /\ op' = [op EXCEPT ![t] = "none"]
  /\ UNCHANGED <<s_initialized, s_trace_lock, store, files, clock, arg, out,
                 accepted, lost>>

(* Mutant: the pending spans are given up with the file.                   *)
FlushOpenFails_Resets(t) ==
  /\ InSection(t, "flush")
  /\ s_span_count > 0
  /\ s_span_count' = 0
  /\ UnlockAndReturn(t)
  /\ UNCHANGED <<s_initialized, s_span_buffer, heap, files, clock, out, accepted, lost>>

FlushOpenFails(t) ==
  /\ InSection(t, "flush")
  /\ s_span_count > 0
  /\ UnlockAndReturn(t)
  /\ UNCHANGED <<s_initialized, store, files, clock, out, accepted, lost>>

(* fopen(spans_<second>.json, "w") truncates a file of the same second.    *)
SetFile(f, spans) ==
  [g \in DOMAIN files \cup {f} |->
     IF g = f THEN [spans |-> spans, mtime |-> clock] ELSE files[g]]
Elsewhere(f) == UNION {files[g].spans : g \in DOMAIN files \ {f}}

FlushOpen(t) ==
  /\ InSection(t, "flush")
  /\ s_span_count > 0
  /\ files' = SetFile(clock, {})
  /\ lost' = lost \cup (Exported \ (Elsewhere(clock) \cup Pending))
  /\ out' = [name |-> clock, next |-> 1, dropped |-> {}]
  /\ pc' = [pc EXCEPT ![t] = "exporting"]
  /\ UNCHANGED <<s_initialized, s_trace_lock, store, clock, op, arg, accepted>>

FlushWriteSpan(t) ==
  /\ pc[t] = "exporting"
  /\ out.next <= s_span_count
  /\ files' = SetFile(out.name, files[out.name].spans
                                  \cup {s_span_buffer[out.next].span})
  /\ out' = [out EXCEPT !.next = @ + 1]
  /\ UNCHANGED <<s_initialized, s_trace_lock, store, clock, pc, op, arg,
                 accepted, lost>>

(* The results of fputs and fclose are not looked at: a span that does not *)
(* reach the disk, at either, is passed over like any other.               *)
FlushWriteFails(t) ==
  /\ pc[t] = "exporting"
  /\ out.next <= s_span_count
  /\ out' = [out EXCEPT !.next = @ + 1,
                        !.dropped = @ \cup {s_span_buffer[out.next].span}]
  /\ UNCHANGED <<s_initialized, s_trace_lock, store, files, clock, pc, op, arg,
                 accepted, lost>>

(* Mutant: the count is not reset.                                         *)
FlushClose_NoReset(t) ==
  /\ pc[t] = "exporting"
  /\ out.next > s_span_count
  /\ lost' = lost \cup out.dropped
  /\ UnlockAndReturn(t)
  /\ UNCHANGED <<s_initialized, store, files, clock, out, accepted>>

(* Mutant: the loop stops one span early.                                  *)
FlushClose_OneEarly(t) ==
  /\ pc[t] = "exporting"
  /\ out.next >= s_span_count
  /\ s_span_count' = 0
  /\ lost' = lost \cup out.dropped
  /\ UnlockAndReturn(t)
  /\ UNCHANGED <<s_initialized, s_span_buffer, heap, files, clock, out,
                 accepted>>

(* fclose; s_span_count = 0 (the attribute copies are not freed).          *)
FlushClose(t) ==
  /\ pc[t] = "exporting"
  /\ out.next > s_span_count
  /\ s_span_count' = 0
  /\ lost' = lost \cup out.dropped
  /\ UnlockAndReturn(t)
  /\ UNCHANGED <<s_initialized, s_span_buffer, heap, files, clock, out,
                 accepted>>

-----------------------------------------------------------------------------
(* heapstore_trace_cleanup, under the lock: dir_clean unlinks the files    *)
(* whose mtime is before the cutoff (days_to_keep = 0 never gets here).    *)
Cleanup(t) ==
  /\ InSection(t, "cleanup")
  /\ \E cutoff \in 0..clock :
       LET kept == {f \in DOMAIN files : files[f].mtime >= cutoff}
           removed == UNION {files[f].spans : f \in DOMAIN files \ kept}
       IN  /\ files' = [f \in kept |-> files[f]]
           /\ lost' = lost \cup removed
  /\ UnlockAndReturn(t)
  /\ UNCHANGED <<s_initialized, store, clock, out, accepted>>

-----------------------------------------------------------------------------
Tick ==
  /\ clock < MaxClock
  /\ clock' = clock + 1
  /\ UNCHANGED <<s_initialized, s_trace_lock, store, files, pc, op, arg, out,
                 accepted, lost>>

(* What a crash leaves of the files: of the one that is being written,     *)
(* stdio has passed on the spans up to some slot k.                        *)
Survivors(k) ==
  [f \in DOMAIN files |->
     IF Exporting /\ f = out.name
     THEN [files[f] EXCEPT !.spans = @ \cap {s_span_buffer[i].span : i \in 1..k}]
     ELSE files[f]]

(* The process dies: memory and the lock are gone, the files stay.         *)
Crash ==
  /\ s_initialized
  /\ \E k \in 0..s_span_count : files' = Survivors(k)
  /\ lost' = lost \cup (Pending \ Exported')
  /\ s_initialized' = FALSE
  /\ s_trace_lock' = NoThread
  /\ s_span_buffer' = EmptyBuffer
  /\ s_span_count' = 0
  /\ heap' = {}
  /\ pc' = [t \in Threads |-> "idle"]
  /\ op' = [t \in Threads |-> "none"]
  /\ arg' = [t \in Threads |-> <<>>]
  /\ UNCHANGED <<clock, out, accepted>>

Call(t) ==
  \/ CallWriteSpan(t) \/ CallWriteBatch(t) \/ CallFlush(t) \/ CallCleanup(t)

(* The steps a thread takes while it holds s_trace_lock. *)
Holding(t) ==
  \/ SpanRejectedFull(t) \/ SpanRejectedNoMemory(t) \/ SpanAccepted(t)
  \/ BatchRejectedFull(t) \/ BatchRejectedNoMemory(t) \/ BatchAccepted(t)
  \/ FlushNothing(t) \/ FlushOpenFails(t) \/ FlushOpen(t)
  \/ FlushWriteSpan(t) \/ FlushWriteFails(t) \/ FlushClose(t)
  \/ Cleanup(t)

Next ==
  \/ TraceInit \/ TraceShutdown \/ Tick \/ Crash
  \/ \E t \in Threads : Call(t) \/ Lock(t) \/ Holding(t)

Spec == Init /\ [][Next]_vars

(* Fairness: a thread that holds the lock is scheduled.                    *)
FairSpec == Spec /\ \A t \in Threads : WF_vars(Holding(t))

-----------------------------------------------------------------------------
(* Every variable holds a value of its type: the count never exceeds the   *)
(* buffer, whatever the writers do between their test and their lock.      *)
TypeOK ==
  /\ s_initialized \in BOOLEAN
  /\ s_trace_lock \in Threads \cup {NoThread}
  /\ s_span_buffer \in [Slots -> Slot]
  /\ s_span_count \in 0..MaxSpans
  /\ heap \subseteq HasAttributes
  /\ DOMAIN files \subseteq 0..clock
  /\ \A f \in DOMAIN files : files[f] \in File
  /\ clock \in 0..MaxClock
  /\ pc \in [Threads -> Locations]
  /\ op \in [Threads -> Operations]
  /\ arg \in [Threads -> Seq(Spans)]
  /\ out \in Output
  /\ accepted \subseteq Spans
  /\ lost \subseteq Spans

(* Every slot a query, a flush or the shutdown may read or free carries the *)
(* store's own, still allocated copy of the span's attributes: never the   *)
(* caller's pointer, which the caller may free (trace.c:118-119), and no   *)
(* copy is shared by two slots, which would free it twice.                 *)
OwnedAttributes ==
  /\ \A i \in 1..s_span_count :
       /\ s_span_buffer[i].span \in Spans
       /\ s_span_buffer[i].attributes =
            IF s_span_buffer[i].span \in HasAttributes THEN "copy" ELSE "null"
       /\ s_span_buffer[i].span \in HasAttributes => s_span_buffer[i].span \in heap
  /\ \A i, j \in 1..s_span_count :
       s_span_buffer[i].span = s_span_buffer[j].span => i = j

(* The spans the callers were told SUCCESS for are exactly those that are  *)
(* in the buffer, in a span file, or lost to a named cause (a crash, a     *)
(* shutdown, a cleanup, a flush of the same second, a failed fputs): no    *)
(* error path keeps a rejected span, no race drops an accepted one.        *)
Conservation ==
  /\ accepted = Pending \cup Exported \cup lost
  /\ lost \cap (Pending \cup Exported) = {}

(* A span is exported once: in one file at most, and it is no longer in    *)
(* the buffer when the flush that wrote it has returned.                   *)
ExportedOnce ==
  /\ \A f, g \in DOMAIN files :
       f # g => files[f].spans \cap files[g].spans = {}
  /\ (\A t \in Threads : pc[t] # "exporting") => Pending \cap Exported = {}

(* A batch is accepted whole or not at all, and stays whole: no reader of  *)
(* the buffer and no closed span file ever holds a part of one             *)
(* (trace.c:154-155, "keeps the batch submission atomic"), but for a file  *)
(* the process died writing, when the rest of the batch is lost.           *)
BatchAtomic ==
  \A b \in Batches :
    LET batch == {b[i] : i \in 1..Len(b)}
    IN  /\ batch \cap Pending \in {{}, batch}
        /\ \A f \in DOMAIN files :
             \/ \E t \in Threads : pc[t] = "exporting" /\ out.name = f
             \/ lost \cap batch # {}
             \/ batch \cap files[f].spans \in {{}, batch}

(* The holder of the lock is the one thread in a critical section; the     *)
(* buffer is never changed by two threads at once.                         *)
MutualExclusion ==
  \A t \in Threads : pc[t] \in {"locked", "exporting"} <=> s_trace_lock = t

(* A flush that returns with its file closed leaves every span it found    *)
(* pending in that file, those apart whose fputs failed.                   *)
FlushComplete ==
  [][\A t \in Threads :
       pc[t] = "exporting" /\ pc'[t] = "idle" /\ s_initialized'
         => Pending \subseteq files'[out.name].spans \cup out.dropped]_vars

(* A span in a closed file stays there until a cleanup removes the file:   *)
(* what flush exported ("Force-export pending trace data",                 *)
(* heapstore_trace.h:143) is not undone by a later flush.                  *)
ExportsSurviveFlush ==
  [][\A t \in Threads :
       pc[t] = "locked" /\ op[t] = "flush" => Exported \subseteq Exported']_vars

(* The store keeps its ledger: a span is pending until the flush that      *)
(* writes it closes its file.                                              *)
Ledger == INSTANCE HeapstoreTraceSpec WITH pending <- Pending, exported <- Exported \ Pending
ImplementsLedger == Ledger!Spec

(* Every critical section ends: no early return keeps s_trace_lock.        *)
LockReleased == \A t \in Threads : (s_trace_lock = t) ~> (s_trace_lock # t)
=============================================================================
