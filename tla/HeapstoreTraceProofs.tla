------------------------ MODULE HeapstoreTraceProofs ------------------------
(***************************************************************************)
(* Invariants of the span buffer for every number of threads, spans and    *)
(* slots.  Protocol says where a thread can be and what its call carries;  *)
(* with TypeOK it is inductive.  The later theorems strengthen their       *)
(* invariant on top of it.                                                 *)
(***************************************************************************)
EXTENDS HeapstoreTrace, TLAPS

(* The lock is held exactly by the thread in the critical section, every   *)
(* call carries what its operation was given, and the file a flush writes  *)
(* is there.                                                               *)
Protocol ==
  /\ MutualExclusion
  /\ \A t \in Threads :
       /\ pc[t] = "idle" <=> op[t] = "none"
       /\ op[t] \in {"none", "flush", "cleanup"} => arg[t] = <<>>
       /\ op[t] = "write_span" => \E s \in Singles : arg[t] = <<s>>
       /\ op[t] = "write_spans_batch" => arg[t] \in Batches
       /\ pc[t] = "exporting" => op[t] = "flush" /\ out.name \in DOMAIN files

(* A counted slot was filled by a write.                                    *)
Filled == \A i \in 1..s_span_count : s_span_buffer[i].span \in Spans

Core == TypeOK /\ Protocol /\ Filled

USE DEF store

-----------------------------------------------------------------------------
(* The length of a sequence of spans and the elements it holds.            *)
LEMMA SeqFacts ==
  ASSUME NEW b \in Seq(Spans)
  PROVE  /\ Len(b) \in Nat
         /\ \A i \in 1..Len(b) : b[i] \in Spans
  OBVIOUS

(* A call that carries no span. *)
LEMMA EmptyIsSeq == <<>> \in Seq(Spans)
  OBVIOUS

(* What an accepted span leaves in its slot. *)
LEMMA CopiesAreSlots ==
  ASSUME NEW s \in Spans
  PROVE  OwnCopy(s) \in Slot
  BY DEF OwnCopy, Slot

(* The initial state. *)
LEMMA CoreInit == Init => Core
<1> SUFFICES ASSUME Init PROVE Core
  OBVIOUS
<1>1. EmptyBuffer \in [Slots -> Slot]
  BY DEF EmptyBuffer, Slot
<1>2. TypeOK
  <2>1. DOMAIN files = {}
    BY DEF Init
  <2>2. pc \in [Threads -> Locations] /\ op \in [Threads -> Operations]
    BY DEF Init, Locations, Operations
  <2>3. arg \in [Threads -> Seq(Spans)]
    BY EmptyIsSeq DEF Init
  <2>4. s_span_count \in 0..MaxSpans /\ clock \in 0..MaxClock /\ out \in Output
    BY MaxSpansAssumption, MaxClockAssumption DEF Init, Output
  <2>5. QED
    BY <1>1, <2>1, <2>2, <2>3, <2>4 DEF Init, TypeOK
<1>3. Protocol
  BY ThreadsAssumption DEF Init, Protocol, MutualExclusion
<1>4. Filled
  BY DEF Init, Filled
<1>5. QED
  BY <1>2, <1>3, <1>4 DEF Core

(* A call begins: what it carries is a sequence of spans. *)
LEMMA CoreCall ==
  ASSUME Core, NEW t \in Threads, Call(t)
  PROVE  Core'
<1> USE DEF Core
<1>1. Filled'
  BY DEF Call, CallWriteSpan, CallWriteBatch, CallFlush, CallCleanup, Enter, Filled
<1>2. CASE CallWriteSpan(t)
  <2>1. PICK s \in Singles : Enter(t, "write_span", <<s>>)
    BY <1>2 DEF CallWriteSpan
  <2>2. s \in Spans /\ <<s>> \in Seq(Spans)
    BY DEF Singles
  <2>3. TypeOK'
    BY <2>1, <2>2 DEF Enter, TypeOK, Locations, Operations
  <2>4. Protocol'
    BY <2>1 DEF Enter, TypeOK, Protocol, MutualExclusion, Singles
  <2>5. QED
    BY <1>1, <2>3, <2>4
<1>3. CASE CallWriteBatch(t)
  <2>1. PICK b \in Batches : Enter(t, "write_spans_batch", b)
    BY <1>3 DEF CallWriteBatch
  <2>2. b \in Seq(Spans)
    BY BatchesAssumption
  <2>3. TypeOK'
    BY <2>1, <2>2 DEF Enter, TypeOK, Locations, Operations
  <2>4. Protocol'
    BY <2>1 DEF Enter, TypeOK, Protocol, MutualExclusion, Singles
  <2>5. QED
    BY <1>1, <2>3, <2>4
<1>4. CASE CallFlush(t) \/ CallCleanup(t)
  <2>1. PICK o \in {"flush", "cleanup"} : Enter(t, o, <<>>)
    BY <1>4 DEF CallFlush, CallCleanup
  <2>2. TypeOK'
    BY <2>1, EmptyIsSeq DEF Enter, TypeOK, Locations, Operations
  <2>3. Protocol'
    BY <2>1 DEF Enter, TypeOK, Protocol, MutualExclusion
  <2>4. QED
    BY <1>1, <2>2, <2>3
<1>5. QED
  BY <1>2, <1>3, <1>4 DEF Call

(* A return releases the lock: no thread is left in a critical section,    *)
(* and the returning call carries nothing any more.                        *)
LEMMA UnlockKeepsProtocol ==
  ASSUME Core, NEW t \in Threads, pc[t] \in {"locked", "exporting"},
         UnlockAndReturn(t)
  PROVE  /\ Protocol'
         /\ s_trace_lock' \in Threads \cup {NoThread}
         /\ pc' \in [Threads -> Locations]
         /\ op' \in [Threads -> Operations]
         /\ arg' \in [Threads -> Seq(Spans)]
<1>1. s_trace_lock = t /\ t # NoThread
  BY ThreadsAssumption DEF Core, Protocol, MutualExclusion
<1>2. \A u \in Threads \ {t} : pc[u] \in {"idle", "waiting"}
  BY <1>1 DEF Core, TypeOK, Locations, Protocol, MutualExclusion
<1>3. Protocol'
  BY <1>1, <1>2, ThreadsAssumption
     DEF Core, TypeOK, Protocol, MutualExclusion, UnlockAndReturn, Singles
<1>4. QED
  BY <1>3, EmptyIsSeq DEF Core, TypeOK, UnlockAndReturn, Locations, Operations

(* The single span a write_span call carries. *)
LEMMA WriteSpanArg ==
  ASSUME Core, NEW t \in Threads, op[t] = "write_span"
  PROVE  Len(arg[t]) = 1 /\ arg[t][1] \in Singles /\ arg[t][1] \in Spans
<1>1. PICK s \in Singles : arg[t] = <<s>>
  BY DEF Core, Protocol
<1>2. QED
  BY <1>1 DEF Singles

(* The batch a write_spans_batch call carries. *)
LEMMA BatchArg ==
  ASSUME Core, NEW t \in Threads, op[t] = "write_spans_batch"
  PROVE  /\ arg[t] \in Batches
         /\ Len(arg[t]) \in Nat \ {0}
         /\ \A i \in 1..Len(arg[t]) : arg[t][i] \in Spans
<1>1. arg[t] \in Batches
  BY DEF Core, Protocol
<1>2. arg[t] \in Seq(Spans) /\ Len(arg[t]) > 0
  BY <1>1, BatchesAssumption
<1>3. QED
  BY <1>1, <1>2, SeqFacts

(* Setting a file keeps the files well-formed. *)
LEMMA SetFileType ==
  ASSUME Core, NEW f \in 0..clock, NEW S \in SUBSET Spans, files' = SetFile(f, S)
  PROVE  /\ DOMAIN files' = DOMAIN files \cup {f}
         /\ DOMAIN files' \subseteq 0..clock
         /\ \A g \in DOMAIN files' : files'[g] \in File
  BY DEF Core, TypeOK, SetFile, File

-----------------------------------------------------------------------------
(* The steps outside a critical section. *)
LEMMA CoreOutside ==
  ASSUME Core, TraceInit \/ TraceShutdown \/ Tick \/ Crash
  PROVE  Core'
<1> USE DEF Core
<1>1. EmptyBuffer \in [Slots -> Slot]
  BY DEF EmptyBuffer, Slot
<1>2. Pending \subseteq Spans
  BY DEF Pending, Filled
<1>3. CASE TraceInit
  <2>1. TypeOK'
    BY <1>1, <1>3, MaxSpansAssumption DEF TraceInit, TypeOK
  <2>2. Protocol' /\ Filled'
    BY <1>3, ThreadsAssumption
       DEF TraceInit, Quiescent, TypeOK, Protocol, MutualExclusion, Filled
  <2>3. QED
    BY <2>1, <2>2
<1>4. CASE TraceShutdown
  <2>1. heap' \subseteq HasAttributes /\ lost' \subseteq Spans
    BY <1>2, <1>4 DEF TraceShutdown, TypeOK
  <2>2. TypeOK'
    <3>1. /\ s_initialized' = FALSE /\ s_span_buffer' = EmptyBuffer
          /\ s_span_count' = 0
          /\ UNCHANGED <<s_trace_lock, files, clock, pc, op, arg, out, accepted>>
      BY <1>4 DEF TraceShutdown
    <3>2. s_span_count' \in 0..MaxSpans
      BY <3>1, MaxSpansAssumption
    <3>3. s_initialized' \in BOOLEAN /\ s_span_buffer' \in [Slots -> Slot]
      BY <1>1, <3>1
    <3>4. QED
      BY <2>1, <3>1, <3>2, <3>3 DEF TypeOK
  <2>3. Protocol' /\ Filled'
    BY <1>4, ThreadsAssumption
       DEF TraceShutdown, Quiescent, TypeOK, Protocol, MutualExclusion, Filled
  <2>4. QED
    BY <2>2, <2>3
<1>5. CASE Tick
  <2>1. TypeOK'
    BY <1>5, MaxClockAssumption DEF Tick, TypeOK
  <2>2. Protocol' /\ Filled'
    BY <1>5 DEF Tick, Protocol, MutualExclusion, Filled
  <2>3. QED
    BY <2>1, <2>2
<1>6. CASE Crash
  <2>1. /\ DOMAIN files' = DOMAIN files
        /\ \A f \in DOMAIN files' : files'[f] \in File
    <3>1. PICK k \in 0..s_span_count : files' = Survivors(k)
      BY <1>6 DEF Crash
    <3>2. DOMAIN files' = DOMAIN files
      BY <3>1 DEF Survivors
    <3>3. ASSUME NEW f \in DOMAIN files
          PROVE  files'[f] \in File
      BY <3>1, <3>3 DEF Survivors, TypeOK, File
    <3>4. QED
      BY <3>2, <3>3
  <2>2. lost' \subseteq Spans
    BY <1>2, <1>6 DEF Crash, TypeOK
  <2>3. TypeOK'
    <3>1. /\ s_initialized' = FALSE /\ s_trace_lock' = NoThread
          /\ s_span_buffer' = EmptyBuffer /\ s_span_count' = 0 /\ heap' = {}
          /\ UNCHANGED <<clock, out, accepted>>
      BY <1>6 DEF Crash
    <3>2. /\ pc' \in [Threads -> Locations]
          /\ op' \in [Threads -> Operations]
          /\ arg' \in [Threads -> Seq(Spans)]
      BY <1>6, EmptyIsSeq DEF Crash, Locations, Operations
    <3>3. s_span_count' \in 0..MaxSpans
      BY <3>1, MaxSpansAssumption
    <3>4. /\ s_initialized' \in BOOLEAN
          /\ s_span_buffer' \in [Slots -> Slot]
          /\ s_trace_lock' \in Threads \cup {NoThread}
          /\ heap' \subseteq HasAttributes
      BY <1>1, <3>1
    <3>5. QED
      BY <2>1, <2>2, <3>1, <3>2, <3>3, <3>4 DEF TypeOK
  <2>4. Protocol' /\ Filled'
    BY <1>6, ThreadsAssumption DEF Crash, Protocol, MutualExclusion, Filled
  <2>5. QED
    BY <2>3, <2>4
<1>7. QED
  BY <1>3, <1>4, <1>5, <1>6

(* A thread that gets the lock is alone with it. *)
LEMMA CoreLock ==
  ASSUME Core, NEW t \in Threads, Lock(t)
  PROVE  Core'
<1>1. TypeOK'
  BY DEF Core, Lock, TypeOK, Locations
<1>2. Protocol'
  BY ThreadsAssumption DEF Core, TypeOK, Lock, Protocol, MutualExclusion
<1>3. Filled'
  BY DEF Core, Lock, Filled
<1>4. QED
  BY <1>1, <1>2, <1>3 DEF Core

(* The two writes of spans, accepted or rejected. *)
LEMMA CoreWriteSpan ==
  ASSUME Core, NEW t \in Threads,
         SpanRejectedFull(t) \/ SpanRejectedNoMemory(t) \/ SpanAccepted(t)
  PROVE  Core'
<1> DEFINE s == arg[t][1]
<1>1. pc[t] = "locked" /\ op[t] = "write_span" /\ UnlockAndReturn(t)
  BY DEF SpanRejectedFull, SpanRejectedNoMemory, SpanAccepted, InSection
<1>2. /\ Protocol'
      /\ s_trace_lock' \in Threads \cup {NoThread}
      /\ pc' \in [Threads -> Locations]
      /\ op' \in [Threads -> Operations]
      /\ arg' \in [Threads -> Seq(Spans)]
  BY <1>1, UnlockKeepsProtocol
<1>3. s \in Spans
  BY <1>1, WriteSpanArg
<1>4. CASE SpanRejectedFull(t)
  BY <1>2, <1>4 DEF Core, TypeOK, Filled, SpanRejectedFull
<1>5. CASE SpanRejectedNoMemory(t)
  <2>1. s_span_buffer' \in [Slots -> Slot]
    BY <1>3, <1>5 DEF Core, TypeOK, SpanRejectedNoMemory, Slot
  <2>2. Filled'
    BY <1>5 DEF Core, TypeOK, Filled, SpanRejectedNoMemory, Slots
  <2>3. QED
    BY <1>2, <1>5, <2>1, <2>2 DEF Core, TypeOK, SpanRejectedNoMemory
<1>6. CASE SpanAccepted(t)
  <2>1. OwnCopy(s) \in Slot /\ OwnCopy(s).span = s
    BY <1>3, CopiesAreSlots DEF OwnCopy
  <2>2. s_span_count' \in 0..MaxSpans
    BY <1>6, MaxSpansAssumption DEF Core, TypeOK, SpanAccepted
  <2>3. s_span_buffer' \in [Slots -> Slot]
    BY <1>6, <2>1 DEF Core, TypeOK, SpanAccepted
  <2>4. heap' \subseteq HasAttributes /\ accepted' \subseteq Spans
    BY <1>3, <1>6 DEF Core, TypeOK, SpanAccepted
  <2>5. Filled'
    BY <1>3, <1>6, <2>1, MaxSpansAssumption
       DEF Core, TypeOK, Filled, SpanAccepted, Slots
  <2>6. QED
    BY <1>2, <1>6, <2>2, <2>4, <2>5, <2>3 DEF Core, TypeOK, SpanAccepted
<1>7. QED
  BY <1>4, <1>5, <1>6

(* The three outcomes of heapstore_trace_write_spans_batch.                *)
LEMMA CoreWriteBatch ==
  ASSUME Core, NEW t \in Threads,
         BatchRejectedFull(t) \/ BatchRejectedNoMemory(t) \/ BatchAccepted(t)
  PROVE  Core'
<1>1. pc[t] = "locked" /\ op[t] = "write_spans_batch" /\ UnlockAndReturn(t)
  BY DEF BatchRejectedFull, BatchRejectedNoMemory, BatchAccepted, InSection
<1>2. /\ Protocol'
      /\ s_trace_lock' \in Threads \cup {NoThread}
      /\ pc' \in [Threads -> Locations]
      /\ op' \in [Threads -> Operations]
      /\ arg' \in [Threads -> Seq(Spans)]
  BY <1>1, UnlockKeepsProtocol
<1>3. /\ Len(arg[t]) \in Nat \ {0}
      /\ \A i \in 1..Len(arg[t]) : arg[t][i] \in Spans
  BY <1>1, BatchArg
<1>4. CASE BatchRejectedFull(t)
  BY <1>2, <1>4 DEF Core, TypeOK, Filled, BatchRejectedFull
<1>5. CASE BatchRejectedNoMemory(t)
  <2>1. s_span_buffer' \in [Slots -> Slot]
    BY <1>3, <1>5 DEF Core, TypeOK, BatchRejectedNoMemory, FillSlots, Slot, Slots
  <2>2. Filled'
    <3>1. \A i \in Slots : i <= s_span_count => s_span_buffer'[i] = s_span_buffer[i]
      BY <1>3, <1>5 DEF Core, TypeOK, BatchRejectedNoMemory, FillSlots, Slots
    <3>2. s_span_count' = s_span_count
      BY <1>5 DEF BatchRejectedNoMemory
    <3>3. \A i \in 1..s_span_count : i \in Slots /\ i <= s_span_count
      BY MaxSpansAssumption DEF Core, TypeOK, Slots
    <3>4. \A i \in 1..s_span_count : s_span_buffer'[i].span \in Spans
      BY <3>1, <3>3 DEF Core, Filled
    <3>5. QED
      BY <3>2, <3>4 DEF Filled
  <2>3. QED
    BY <1>2, <1>5, <2>1, <2>2 DEF Core, TypeOK, BatchRejectedNoMemory
<1>6. CASE BatchAccepted(t)
  <2>1. \A i \in 1..Len(arg[t]) : OwnCopy(arg[t][i]) \in Slot
                                  /\ OwnCopy(arg[t][i]).span \in Spans
    BY <1>3, CopiesAreSlots DEF OwnCopy
  <2> DEFINE n == Len(arg[t])
  <2>2. /\ s_span_buffer' =
             [i \in Slots |-> IF i \in s_span_count + 1 .. s_span_count + n
                              THEN OwnCopy(arg[t][i - s_span_count])
                              ELSE s_span_buffer[i]]
        /\ s_span_count' = s_span_count + n /\ s_span_count + n <= MaxSpans
    BY <1>6 DEF BatchAccepted, FillSlots
  <2>3. n \in Nat \ {0} /\ s_span_count \in Nat
    BY <1>3 DEF Core, TypeOK
  <2>4. \A i \in s_span_count + 1 .. s_span_count + n : i - s_span_count \in 1..n
    BY <2>3
  <2>5. s_span_buffer' \in [Slots -> Slot]
    BY <2>2, <2>1, <2>4 DEF Core, TypeOK
  <2>6. s_span_count' \in 0..MaxSpans
    BY <2>2, <2>3, MaxSpansAssumption
  <2>7. heap' \subseteq HasAttributes /\ accepted' \subseteq Spans
    BY <1>3, <1>6 DEF Core, TypeOK, BatchAccepted
  <2>8. Filled'
    <3> SUFFICES ASSUME NEW i \in 1 .. s_span_count + n
                 PROVE  s_span_buffer'[i].span \in Spans
      BY <2>2 DEF Filled
    <3>1. i \in Slots
      BY <2>2, <2>3, MaxSpansAssumption DEF Slots
    <3>2. CASE i \in 1..s_span_count
      BY <2>2, <2>3, <3>1, <3>2 DEF Core, Filled
    <3>3. CASE i \in s_span_count + 1 .. s_span_count + n
      BY <2>2, <2>1, <2>4, <3>1, <3>3
    <3>4. QED
      BY <2>3, <3>2, <3>3
  <2>9. QED
    BY <1>2, <1>6, <2>5, <2>6, <2>7, <2>8 DEF Core, TypeOK, BatchAccepted
<1>7. QED
  BY <1>4, <1>5, <1>6

(* The early returns of a flush. *)
LEMMA CoreFlushRefused ==
  ASSUME Core, NEW t \in Threads, FlushNothing(t) \/ FlushOpenFails(t)
  PROVE  Core'
<1>1. pc[t] = "locked" /\ UnlockAndReturn(t)
  BY DEF FlushNothing, FlushOpenFails, InSection
<1>2. UNCHANGED <<s_initialized, store, files, clock, out, accepted, lost>>
  BY DEF FlushNothing, FlushOpenFails
<1>3. QED
  BY <1>1, <1>2, UnlockKeepsProtocol DEF Core, TypeOK, Filled

(* A flush opens the file of the current second. *)
LEMMA CoreFlushOpen ==
  ASSUME Core, NEW t \in Threads, FlushOpen(t)
  PROVE  Core'
<1>1. /\ clock \in 0..clock /\ clock \in 0..MaxClock
      /\ {} \in SUBSET Spans /\ files' = SetFile(clock, {})
  BY MaxClockAssumption DEF FlushOpen, Core, TypeOK
<1>2. /\ DOMAIN files' = DOMAIN files \cup {clock}
      /\ DOMAIN files' \subseteq 0..clock
      /\ \A g \in DOMAIN files' : files'[g] \in File
  BY <1>1, SetFileType
<1>3. Exported \subseteq Spans
  BY DEF Exported, Core, TypeOK, File
<1>4. lost' \subseteq Spans
  BY <1>3 DEF FlushOpen, Core, TypeOK
<1>5. out' \in Output /\ pc' \in [Threads -> Locations]
  BY <1>1, MaxSpansAssumption DEF FlushOpen, Core, TypeOK, Locations, Output
<1>6. TypeOK'
  BY <1>2, <1>4, <1>5 DEF FlushOpen, Core, TypeOK
<1>7. Protocol'
  BY <1>2 DEF FlushOpen, InSection, Core, TypeOK, Protocol, MutualExclusion
<1>8. QED
  BY <1>6, <1>7 DEF FlushOpen, Core, Filled

(* It passes over the counted slots, writing each or failing to. *)
LEMMA CoreFlushLoop ==
  ASSUME Core, NEW t \in Threads, FlushWriteSpan(t) \/ FlushWriteFails(t)
  PROVE  Core'
<1> DEFINE s == s_span_buffer[out.next].span
<1>1. /\ out.name \in DOMAIN files /\ out.name \in 0..clock
      /\ out.next \in 1..s_span_count /\ out.next + 1 \in 1..MaxSpans + 1
  BY MaxSpansAssumption
     DEF FlushWriteSpan, FlushWriteFails, Core, TypeOK, Protocol, Output
<1>2. s \in Spans /\ files[out.name].spans \subseteq Spans
  BY <1>1 DEF Core, TypeOK, File, Filled
<1>3. /\ DOMAIN files' = DOMAIN files
      /\ \A g \in DOMAIN files' : files'[g] \in File
  <2>1. CASE FlushWriteSpan(t)
    <3>1. /\ files[out.name].spans \cup {s} \in SUBSET Spans
          /\ files' = SetFile(out.name, files[out.name].spans \cup {s})
      BY <1>2, <2>1 DEF FlushWriteSpan
    <3>2. QED
      BY <1>1, <3>1, SetFileType
  <2>2. CASE FlushWriteFails(t)
    BY <2>2 DEF FlushWriteFails, Core, TypeOK
  <2>3. QED
    BY <2>1, <2>2
<1>4. out' \in Output /\ out'.name = out.name
  <2>1. out \in Output
    BY DEF Core, TypeOK
  <2>2. CASE FlushWriteSpan(t)
    <3>1. out' = [out EXCEPT !.next = out.next + 1]
      BY <2>2 DEF FlushWriteSpan
    <3>2. QED
      BY <1>1, <2>1, <3>1 DEF Output
  <2>3. CASE FlushWriteFails(t)
    <3>1. out' = [out EXCEPT !.next = out.next + 1, !.dropped = out.dropped \cup {s}]
      BY <2>3 DEF FlushWriteFails
    <3>2. out.dropped \cup {s} \subseteq Spans
      BY <1>2, <2>1 DEF Output
    <3>3. QED
      BY <1>1, <2>1, <3>1, <3>2 DEF Output
  <2>4. QED
    BY <2>2, <2>3
<1>5. UNCHANGED <<s_initialized, s_trace_lock, store, clock, pc, op, arg,
                  accepted, lost>>
  BY DEF FlushWriteSpan, FlushWriteFails
<1>6. TypeOK'
  BY <1>3, <1>4, <1>5 DEF Core, TypeOK
<1>7. Protocol'
  BY <1>3, <1>4, <1>5 DEF Core, Protocol, MutualExclusion
<1>8. QED
  BY <1>5, <1>6, <1>7 DEF Core, Filled

(* It closes the file and resets the count. *)
LEMMA CoreFlushClose ==
  ASSUME Core, NEW t \in Threads, FlushClose(t)
  PROVE  Core'
<1>1. pc[t] = "exporting" /\ UnlockAndReturn(t)
  BY DEF FlushClose
<1>2. /\ s_span_count' = 0 /\ lost' = lost \cup out.dropped
      /\ UNCHANGED <<s_initialized, s_span_buffer, heap, files, clock, out,
                     accepted>>
  BY DEF FlushClose
<1>3. lost' \subseteq Spans
  BY <1>2 DEF Core, TypeOK, Output
<1>4. s_span_count' \in 0..MaxSpans
  BY <1>2, MaxSpansAssumption
<1>5. Filled'
  BY <1>2 DEF Filled
<1>6. QED
  BY <1>1, <1>2, <1>3, <1>4, <1>5, UnlockKeepsProtocol DEF Core, TypeOK

(* A cleanup. *)
LEMMA CoreCleanup ==
  ASSUME Core, NEW t \in Threads, Cleanup(t)
  PROVE  Core'
<1>1. pc[t] = "locked" /\ UnlockAndReturn(t)
  BY DEF Cleanup, InSection
<1>2. PICK cutoff \in 0..clock :
        LET kept == {f \in DOMAIN files : files[f].mtime >= cutoff}
            removed == UNION {files[f].spans : f \in DOMAIN files \ kept}
        IN  /\ files' = [f \in kept |-> files[f]]
            /\ lost' = lost \cup removed
  BY DEF Cleanup
<1>3. /\ DOMAIN files' \subseteq DOMAIN files
      /\ \A f \in DOMAIN files' : files'[f] = files[f]
  BY <1>2
<1>4. lost' \subseteq Spans
  BY <1>2 DEF Core, TypeOK, File
<1>5. QED
  BY <1>1, <1>3, <1>4, UnlockKeepsProtocol DEF Core, TypeOK, Filled, Cleanup

-----------------------------------------------------------------------------
(* Types, protocol and filled slots are preserved by every step.           *)
LEMMA CoreInductive == Core /\ [Next]_vars => Core'
<1> SUFFICES ASSUME Core, [Next]_vars PROVE Core'
  OBVIOUS
<1>1. CASE TraceInit \/ TraceShutdown \/ Tick \/ Crash
  BY <1>1, CoreOutside
<1>2. ASSUME NEW t \in Threads, Call(t) \/ Lock(t)
      PROVE  Core'
  BY <1>2, CoreCall, CoreLock
<1>3. ASSUME NEW t \in Threads, Holding(t)
      PROVE  Core'
  BY <1>3, CoreWriteSpan, CoreWriteBatch, CoreFlushRefused, CoreFlushOpen,
     CoreFlushLoop, CoreFlushClose, CoreCleanup DEF Holding
<1>4. CASE UNCHANGED vars
  BY <1>4 DEF vars, Core, TypeOK, Protocol, MutualExclusion, Filled
<1>5. QED
  BY <1>1, <1>2, <1>3, <1>4 DEF Next

(* Every reachable state is well typed: however the threads interleave     *)
(* their unlocked test and their critical section, the count stays within  *)
(* the buffer and the lock has one holder.                                 *)
THEOREM TypeCorrect == Spec => [](TypeOK /\ MutualExclusion)
<1>1. Core => TypeOK /\ MutualExclusion
  BY DEF Core, Protocol
<1>2. QED
  BY CoreInit, CoreInductive, <1>1, PTL DEF Spec

-----------------------------------------------------------------------------
(* The spans that calls carry are new: no write of theirs was accepted, and *)
(* no two calls carry the same one.                                        *)
CallsFresh ==
  /\ \A t \in Threads : \A i \in 1..Len(arg[t]) : arg[t][i] \notin accepted
  /\ \A t, u \in Threads : \A i \in 1..Len(arg[t]), j \in 1..Len(arg[u]) :
       arg[t][i] = arg[u][j] => t = u

(* A counted slot holds a span that was accepted.                          *)
PendingAccepted == \A i \in 1..s_span_count : s_span_buffer[i].span \in accepted

Owned == CallsFresh /\ PendingAccepted /\ OwnedAttributes

(* A store that was never started counts no slot.                          *)
LEMMA OwnedInit == Init => Owned
  BY DEF Init, Owned, CallsFresh, PendingAccepted, OwnedAttributes

(* A call that begins carries spans nobody else does. *)
LEMMA OwnedCall ==
  ASSUME Core, Owned, NEW t \in Threads, Call(t)
  PROVE  Owned'
<1>1. PICK b \in Seq(Spans), o \in Operations :
        /\ Enter(t, o, b)
        /\ \A i \in 1..Len(b) : Fresh(b[i])
  <2>1. CASE CallWriteSpan(t)
    <3>1. PICK s \in Singles : Fresh(s) /\ Enter(t, "write_span", <<s>>)
      BY <2>1 DEF CallWriteSpan
    <3>2. <<s>> \in Seq(Spans) /\ Len(<<s>>) = 1 /\ <<s>>[1] = s
      BY DEF Singles
    <3>3. \A i \in 1..Len(<<s>>) : Fresh(<<s>>[i])
      BY <3>1, <3>2
    <3>4. QED
      BY <3>1, <3>2, <3>3 DEF Operations
  <2>2. CASE CallWriteBatch(t)
    BY <2>2, BatchesAssumption DEF CallWriteBatch, Operations
  <2>3. CASE CallFlush(t) \/ CallCleanup(t)
    <3>1. \A i \in 1..Len(<<>>) : Fresh(<<>>[i])
      OBVIOUS
    <3>2. QED
      BY <2>3, <3>1, EmptyIsSeq DEF CallFlush, CallCleanup, Operations
  <2>4. QED
    BY <2>1, <2>2, <2>3 DEF Call
<1>2. /\ arg' = [arg EXCEPT ![t] = b]
      /\ UNCHANGED <<s_span_buffer, s_span_count, heap, accepted>>
  BY <1>1 DEF Enter
<1>3. \A i \in 1..Len(b) : /\ b[i] \notin accepted
                           /\ \A u \in Threads : \A j \in 1..Len(arg[u]) :
                                b[i] # arg[u][j]
  BY <1>1 DEF Fresh, InCall
<1>4. arg \in [Threads -> Seq(Spans)]
  BY DEF Core, TypeOK
<1>5. CallsFresh'
  BY <1>2, <1>3, <1>4 DEF Owned, CallsFresh
<1>6. QED
  BY <1>2, <1>5 DEF Owned, PendingAccepted, OwnedAttributes

(* A return empties what the call carried: the other calls stay fresh when  *)
(* only spans of this one were accepted.                                   *)
LEMMA UnlockKeepsFresh ==
  ASSUME Core, CallsFresh, NEW t \in Threads, UnlockAndReturn(t),
         accepted' \subseteq accepted \cup {arg[t][i] : i \in 1..Len(arg[t])}
  PROVE  CallsFresh'
<1>1. arg \in [Threads -> Seq(Spans)] /\ arg' = [arg EXCEPT ![t] = <<>>]
  BY DEF Core, TypeOK, UnlockAndReturn
<1>2. \A u \in Threads : u # t => arg'[u] = arg[u]
  BY <1>1
<1>3. 1..Len(arg'[t]) = {}
  BY <1>1
<1>4. QED
  BY <1>1, <1>2, <1>3 DEF CallsFresh

(* An accepted span takes a new slot with a copy of its own.               *)
LEMMA OwnedWriteSpan ==
  ASSUME Core, Owned, NEW t \in Threads, SpanAccepted(t)
  PROVE  Owned'
<1> DEFINE s == arg[t][1]
           c == s_span_count
<1>1. /\ s_span_buffer' = [s_span_buffer EXCEPT ![c + 1] = OwnCopy(s)]
      /\ heap' = heap \cup ({s} \cap HasAttributes)
      /\ s_span_count' = c + 1 /\ c < MaxSpans
      /\ accepted' = accepted \cup {s}
      /\ UnlockAndReturn(t) /\ op[t] = "write_span"
  BY DEF SpanAccepted, InSection
<1>2. Len(arg[t]) = 1 /\ s \in Spans /\ s \notin accepted
  BY <1>1, WriteSpanArg DEF Owned, CallsFresh
<1>3. c \in Nat /\ s_span_buffer \in [Slots -> Slot]
  BY DEF Core, TypeOK
<1>4. \A i \in 1..c : i \in Slots /\ i # c + 1
  BY <1>1, <1>3, MaxSpansAssumption DEF Slots
<1>5. c + 1 \in Slots
  BY <1>1, <1>3, MaxSpansAssumption DEF Slots
<1>6. \A i \in 1..c : s_span_buffer'[i] = s_span_buffer[i]
  BY <1>1, <1>3, <1>4
<1>7. s_span_buffer'[c + 1] = OwnCopy(s) /\ OwnCopy(s).span = s
      /\ OwnCopy(s).attributes = IF s \in HasAttributes THEN "copy" ELSE "null"
  BY <1>1, <1>3, <1>5 DEF OwnCopy
<1>8. \A i \in 1..s_span_count' : i \in 1..c \/ i = c + 1
  BY <1>1, <1>3
<1>9. CallsFresh'
  BY <1>1, <1>2, UnlockKeepsFresh DEF Owned
<1>10. PendingAccepted'
  BY <1>1, <1>6, <1>7, <1>8 DEF Owned, PendingAccepted
<1>11. OwnedAttributes'
  <2>1. \A i \in 1..s_span_count' :
           /\ s_span_buffer'[i].span \in Spans
           /\ s_span_buffer'[i].attributes =
                IF s_span_buffer'[i].span \in HasAttributes THEN "copy" ELSE "null"
           /\ s_span_buffer'[i].span \in HasAttributes
                => s_span_buffer'[i].span \in heap'
    BY <1>1, <1>2, <1>6, <1>7, <1>8 DEF Owned, OwnedAttributes
  <2>2. \A i, j \in 1..s_span_count' :
           s_span_buffer'[i].span = s_span_buffer'[j].span => i = j
    BY <1>2, <1>6, <1>7, <1>8 DEF Owned, OwnedAttributes, PendingAccepted
  <2>3. QED
    BY <2>1, <2>2 DEF OwnedAttributes
<1>12. QED
  BY <1>9, <1>10, <1>11 DEF Owned

(* So do the spans of an accepted batch, each in a slot of its own.        *)
LEMMA OwnedWriteBatch ==
  ASSUME Core, Owned, NEW t \in Threads, BatchAccepted(t)
  PROVE  Owned'
<1> DEFINE b == arg[t]
           n == Len(arg[t])
           c == s_span_count
           new == {arg[t][i] : i \in 1..Len(arg[t])}
<1>1. /\ s_span_buffer' = [i \in Slots |-> IF i \in c + 1 .. c + n
                                          THEN OwnCopy(b[i - c])
                                          ELSE s_span_buffer[i]]
      /\ heap' = heap \cup (new \cap HasAttributes)
      /\ s_span_count' = c + n /\ c + n <= MaxSpans
      /\ accepted' = accepted \cup new
      /\ UnlockAndReturn(t) /\ op[t] = "write_spans_batch"
  BY DEF BatchAccepted, FillSlots, InSection
<1>2. b \in Batches /\ n \in Nat \ {0} /\ \A i \in 1..n : b[i] \in Spans
  BY <1>1, BatchArg
<1>3. c \in Nat
  BY DEF Core, TypeOK
<1>4. \A i \in 1..n : b[i] \notin accepted
  BY DEF Owned, CallsFresh
<1>5. \A i, j \in 1..n : b[i] = b[j] => i = j
  BY <1>2, BatchesAssumption
<1>6. \A i \in 1..s_span_count' :
        \/ i \in 1..c /\ s_span_buffer'[i] = s_span_buffer[i]
        \/ /\ i - c \in 1..n
           /\ s_span_buffer'[i].span = b[i - c]
           /\ s_span_buffer'[i].attributes =
                IF b[i - c] \in HasAttributes THEN "copy" ELSE "null"
  <2> SUFFICES ASSUME NEW i \in 1..s_span_count'
               PROVE  \/ i \in 1..c /\ s_span_buffer'[i] = s_span_buffer[i]
                      \/ /\ i - c \in 1..n
                         /\ s_span_buffer'[i].span = b[i - c]
                         /\ s_span_buffer'[i].attributes =
                              IF b[i - c] \in HasAttributes THEN "copy" ELSE "null"
    OBVIOUS
  <2>1. i \in Slots
    BY <1>1, <1>2, <1>3, MaxSpansAssumption DEF Slots
  <2>2. CASE i \in 1..c
    BY <1>1, <1>3, <2>1, <2>2
  <2>3. CASE i \in c + 1 .. c + n
    <3>1. i - c \in 1..n
      BY <1>2, <1>3, <2>3
    <3>2. s_span_buffer'[i] = OwnCopy(b[i - c])
      BY <1>1, <2>1, <2>3
    <3>3. QED
      BY <3>1, <3>2 DEF OwnCopy
  <2>4. QED
    BY <1>1, <1>2, <1>3, <2>2, <2>3
<1>7. CallsFresh'
  BY <1>1, UnlockKeepsFresh DEF Owned
<1>8. \A k \in 1..n : /\ b[k] \in accepted'
                      /\ b[k] \in HasAttributes => b[k] \in heap'
  BY <1>1
<1>9. accepted \subseteq accepted' /\ heap \subseteq heap'
  BY <1>1
<1>10. PendingAccepted'
  BY <1>6, <1>8, <1>9 DEF Owned, PendingAccepted
<1>11. OwnedAttributes'
  <2>1. ASSUME NEW i \in 1..s_span_count'
        PROVE  /\ s_span_buffer'[i].span \in Spans
               /\ s_span_buffer'[i].attributes =
                    IF s_span_buffer'[i].span \in HasAttributes
                    THEN "copy" ELSE "null"
               /\ s_span_buffer'[i].span \in HasAttributes
                    => s_span_buffer'[i].span \in heap'
    <3>1. CASE i \in 1..c /\ s_span_buffer'[i] = s_span_buffer[i]
      BY <1>9, <3>1 DEF Owned, OwnedAttributes
    <3>2. CASE /\ i - c \in 1..n
               /\ s_span_buffer'[i].span = b[i - c]
               /\ s_span_buffer'[i].attributes =
                    IF b[i - c] \in HasAttributes THEN "copy" ELSE "null"
      BY <1>2, <1>8, <3>2
    <3>3. QED
      BY <1>6, <3>1, <3>2
  <2>2. ASSUME NEW i \in 1..s_span_count', NEW j \in 1..s_span_count',
               s_span_buffer'[i].span = s_span_buffer'[j].span
        PROVE  i = j
    <3>1. CASE i \in 1..c /\ j \in 1..c
      BY <1>3, <1>6, <2>2, <3>1 DEF Owned, OwnedAttributes
    <3>2. CASE i - c \in 1..n /\ j - c \in 1..n
      <4>1. s_span_buffer'[i].span = b[i - c] /\ s_span_buffer'[j].span = b[j - c]
        BY <1>3, <1>6, <3>2
      <4>2. i - c = j - c
        BY <1>5, <2>2, <3>2, <4>1
      <4>3. QED
        BY <1>1, <1>2, <1>3, <4>2
    <3>3. CASE i \in 1..c /\ j - c \in 1..n
      BY <1>3, <1>4, <1>6, <2>2, <3>3 DEF Owned, PendingAccepted
    <3>4. CASE i - c \in 1..n /\ j \in 1..c
      BY <1>3, <1>4, <1>6, <2>2, <3>4 DEF Owned, PendingAccepted
    <3>5. QED
      BY <1>6, <3>1, <3>2, <3>3, <3>4
  <2>3. QED
    BY <2>1, <2>2 DEF OwnedAttributes
<1>12. QED
  BY <1>7, <1>10, <1>11 DEF Owned

(* Every other step leaves the counted slots and their copies as they are, *)
(* or leaves no slot counted, and accepts nothing.                         *)
LEMMA OwnedElsewhere ==
  ASSUME Core, Owned, [Next]_vars,
         \A t \in Threads : ~Call(t) /\ ~SpanAccepted(t) /\ ~BatchAccepted(t)
  PROVE  Owned'
<1> DEFINE Kept == /\ s_span_count' = s_span_count /\ heap' = heap
                   /\ \A i \in 1..s_span_count : s_span_buffer'[i] = s_span_buffer[i]
           Emptied == s_span_count' = 0
<1>1. \A i \in 1..s_span_count : i \in Slots /\ i <= s_span_count
  BY MaxSpansAssumption DEF Core, TypeOK, Slots
<1>2. accepted' = accepted
  BY DEF Next, TraceInit, TraceShutdown, Tick, Crash, Lock, Holding,
         SpanRejectedFull, SpanRejectedNoMemory, BatchRejectedFull,
         BatchRejectedNoMemory, FlushNothing, FlushOpenFails, FlushOpen,
         FlushWriteSpan, FlushWriteFails, FlushClose, Cleanup, vars
<1>3. CallsFresh'
  <2>1. ASSUME NEW t \in Threads, UnlockAndReturn(t)
        PROVE  CallsFresh'
    BY <1>2, <2>1, UnlockKeepsFresh DEF Owned
  <2>2. CASE UNCHANGED arg
    BY <1>2, <2>2 DEF Owned, CallsFresh
  <2>3. CASE Crash
    BY <2>3 DEF Crash, CallsFresh
  <2>4. \/ UNCHANGED arg
        \/ Crash
        \/ \E t \in Threads : UnlockAndReturn(t)
    BY DEF Next, TraceInit, TraceShutdown, Tick, Lock, Holding,
           SpanRejectedFull, SpanRejectedNoMemory, BatchRejectedFull,
           BatchRejectedNoMemory, FlushNothing, FlushOpenFails, FlushOpen,
           FlushWriteSpan, FlushWriteFails, FlushClose, Cleanup, vars
  <2>5. QED
    BY <2>1, <2>2, <2>3, <2>4
<1>4. Kept \/ Emptied
  <2>1. CASE TraceInit \/ TraceShutdown \/ Crash
    BY <2>1 DEF TraceInit, TraceShutdown, Crash
  <2>2. CASE Tick \/ UNCHANGED vars
    BY <2>2 DEF Tick, vars
  <2>3. ASSUME NEW t \in Threads, Lock(t) \/ Holding(t)
        PROVE  Kept \/ Emptied
    <3>1. CASE SpanRejectedNoMemory(t)
      <4>1. \A i \in Slots : i <= s_span_count
                               => s_span_buffer'[i] = s_span_buffer[i]
        BY <3>1 DEF SpanRejectedNoMemory, Core, TypeOK, Slots
      <4>2. UNCHANGED <<s_span_count, heap>>
        BY <3>1 DEF SpanRejectedNoMemory
      <4>3. QED
        BY <1>1, <4>1, <4>2
    <3>2. CASE BatchRejectedNoMemory(t)
      <4>1. Len(arg[t]) \in Nat
        BY <3>2, BatchArg DEF BatchRejectedNoMemory, InSection
      <4>2. \A i \in Slots : i <= s_span_count
                               => s_span_buffer'[i] = s_span_buffer[i]
        BY <3>2, <4>1 DEF BatchRejectedNoMemory, FillSlots, Core, TypeOK, Slots
      <4>3. UNCHANGED <<s_span_count, heap>>
        BY <3>2 DEF BatchRejectedNoMemory
      <4>4. QED
        BY <1>1, <4>2, <4>3
    <3>3. CASE FlushClose(t)
      BY <3>3 DEF FlushClose
    <3>4. CASE \/ Lock(t) \/ SpanRejectedFull(t) \/ BatchRejectedFull(t)
               \/ FlushNothing(t) \/ FlushOpenFails(t) \/ FlushOpen(t)
               \/ FlushWriteSpan(t) \/ FlushWriteFails(t) \/ Cleanup(t)
      BY <3>4 DEF Lock, SpanRejectedFull, BatchRejectedFull, FlushNothing,
                  FlushOpenFails, FlushOpen, FlushWriteSpan, FlushWriteFails,
                  Cleanup
    <3>5. QED
      BY <2>3, <3>1, <3>2, <3>3, <3>4 DEF Holding
  <2>4. QED
    BY <2>1, <2>2, <2>3 DEF Next
<1>5. PendingAccepted' /\ OwnedAttributes'
  <2>1. CASE Kept
    BY <1>2, <2>1 DEF Owned, PendingAccepted, OwnedAttributes
  <2>2. CASE Emptied
    BY <2>2 DEF PendingAccepted, OwnedAttributes
  <2>3. QED
    BY <1>4, <2>1, <2>2
<1>6. QED
  BY <1>3, <1>5 DEF Owned

(* Ownership of the attribute copies is preserved by every step.           *)
LEMMA OwnedInductive == Core /\ Owned /\ [Next]_vars => Owned'
<1> SUFFICES ASSUME Core, Owned, [Next]_vars PROVE Owned'
  OBVIOUS
<1>1. ASSUME NEW t \in Threads, Call(t) \/ SpanAccepted(t) \/ BatchAccepted(t)
      PROVE  Owned'
  BY <1>1, OwnedCall, OwnedWriteSpan, OwnedWriteBatch
<1>2. QED
  BY <1>1, OwnedElsewhere

(* Memory safety of the attributes: whatever slot a query, a flush or the   *)
(* shutdown reads carries the store's own allocated copy, shared with no   *)
(* other slot, and only spans whose write returned SUCCESS are counted.    *)
THEOREM AttributesOwned == Spec => []OwnedAttributes
<1>1. Owned => OwnedAttributes
  BY DEF Owned
<1>2. QED
  BY CoreInit, CoreInductive, OwnedInit, OwnedInductive, <1>1, PTL DEF Spec

-----------------------------------------------------------------------------
(* What the flush in progress has done: the slots before out.next are in   *)
(* its file, those apart whose write failed; no pending span is in another *)
(* file.  A store that is not initialized holds nothing.                   *)
Passed == {s_span_buffer[i].span : i \in 1..out.next - 1}
FlushProgress ==
  Exporting =>
    /\ out.next - 1 <= s_span_count
    /\ files[out.name].spans = Passed \ out.dropped
    /\ out.dropped \subseteq Passed
    /\ \A f \in DOMAIN files \ {out.name} : files[f].spans \cap Pending = {}

Kept ==
  /\ Conservation
  /\ ExportedOnce
  /\ FlushProgress
  /\ ~s_initialized => s_span_count = 0 /\ Quiescent

(* No other thread exports while t is in its critical section. *)
LEMMA AloneInside ==
  ASSUME Core, NEW t \in Threads, pc[t] = "locked"
  PROVE  /\ ~Exporting
         /\ UnlockAndReturn(t) => ~Exporting'
<1>1. \A u \in Threads : pc[u] # "exporting"
  BY ThreadsAssumption DEF Core, Protocol, MutualExclusion
<1>2. QED
  BY <1>1 DEF Exporting, UnlockAndReturn, Core, TypeOK

(* Nothing was accepted yet, so nothing is missing.                        *)
LEMMA KeptInit == Init => Kept
  BY DEF Init, Kept, Conservation, ExportedOnce, FlushProgress, Exporting,
         Pending, Exported, Quiescent

(* Steps that move nothing: the buffer, the files and the histories are     *)
(* as they were, and so is the flush in progress, if there is one.         *)
LEMMA KeptUnmoved ==
  ASSUME Kept,
         UNCHANGED <<s_span_count, files, accepted, lost>>,
         Pending' = Pending,
         UNCHANGED s_initialized,
         ~s_initialized => Quiescent',
         Exporting' <=> Exporting,
         Exporting => UNCHANGED <<out, s_span_buffer>>
  PROVE  Kept'
<1>1. Exported' = Exported
  BY DEF Exported
<1>2. Conservation' /\ ExportedOnce'
  BY <1>1 DEF Kept, Conservation, ExportedOnce, Exporting
<1>3. FlushProgress'
  BY DEF Kept, FlushProgress, Passed
<1>4. QED
  BY <1>2, <1>3 DEF Kept

(* A write accepts spans that are new to the store. *)
LEMMA KeptAccept ==
  ASSUME Core, Kept, NEW t \in Threads, pc[t] = "locked", UnlockAndReturn(t),
         NEW new, new \cap accepted = {},
         accepted' = accepted \cup new,
         Pending' = Pending \cup new,
         UNCHANGED <<s_initialized, files, lost>>,
         s_initialized
  PROVE  Kept'
<1>1. ~Exporting /\ ~Exporting'
  BY AloneInside
<1>2. Exported' = Exported
  BY DEF Exported
<1>3. Conservation'
  BY <1>2 DEF Kept, Conservation
<1>4. ExportedOnce'
  BY <1>1, <1>2 DEF Kept, Conservation, ExportedOnce, Exporting
<1>5. QED
  BY <1>1, <1>3, <1>4 DEF Kept, FlushProgress

(* The slots that are counted decide what is pending. *)
LEMMA PendingKept ==
  ASSUME UNCHANGED s_span_count,
         \A i \in 1..s_span_count : s_span_buffer'[i] = s_span_buffer[i]
  PROVE  Pending' = Pending
  BY DEF Pending

(* A span that is accepted is pending.                                     *)
LEMMA WriteSpanPends ==
  ASSUME Core, NEW t \in Threads, SpanAccepted(t)
  PROVE  Pending' = Pending \cup {arg[t][1]}
<1> DEFINE s == arg[t][1]
           c == s_span_count
<1>1. /\ s_span_buffer' = [s_span_buffer EXCEPT ![c + 1] = OwnCopy(s)]
      /\ s_span_count' = c + 1 /\ c < MaxSpans
  BY DEF SpanAccepted
<1>2. c \in Nat /\ s_span_buffer \in [Slots -> Slot] /\ 1..c \subseteq Slots
      /\ c + 1 \in Slots
  BY <1>1, MaxSpansAssumption DEF Core, TypeOK, Slots
<1>3. /\ s_span_buffer'[c + 1].span = s
      /\ \A i \in 1..c : s_span_buffer'[i] = s_span_buffer[i]
  BY <1>1, <1>2 DEF OwnCopy
<1>4. 1..s_span_count' = 1..c \cup {c + 1}
  BY <1>1, <1>2
<1>5. QED
  BY <1>3, <1>4 DEF Pending

(* It is new to the store.                                                 *)
LEMMA KeptWriteSpan ==
  ASSUME Core, Kept, Owned, NEW t \in Threads, SpanAccepted(t)
  PROVE  Kept'
<1> DEFINE s == arg[t][1]
<1>1. /\ accepted' = accepted \cup {s}
      /\ UnlockAndReturn(t) /\ pc[t] = "locked" /\ op[t] = "write_span"
      /\ UNCHANGED <<s_initialized, files, lost>>
  BY DEF SpanAccepted, InSection
<1>2. s \notin accepted
  BY <1>1, WriteSpanArg DEF Owned, CallsFresh
<1>3. Pending' = Pending \cup {s}
  BY WriteSpanPends
<1>4. s_initialized
  BY <1>1 DEF Kept, Quiescent
<1>5. QED
  BY <1>1, <1>2, <1>3, <1>4, KeptAccept

(* The spans of a batch that is accepted are pending.                      *)
LEMMA WriteBatchPends ==
  ASSUME Core, NEW t \in Threads, BatchAccepted(t)
  PROVE  Pending' = Pending \cup {arg[t][i] : i \in 1..Len(arg[t])}
<1> DEFINE b == arg[t]
           n == Len(arg[t])
           c == s_span_count
           new == {arg[t][i] : i \in 1..Len(arg[t])}
<1>1. /\ s_span_buffer' = [i \in Slots |-> IF i \in c + 1 .. c + n
                                          THEN OwnCopy(b[i - c])
                                          ELSE s_span_buffer[i]]
      /\ s_span_count' = c + n /\ c + n <= MaxSpans
      /\ op[t] = "write_spans_batch"
  BY DEF BatchAccepted, FillSlots, InSection
<1>2. n \in Nat \ {0} /\ c \in Nat /\ c + n \in Nat
  BY <1>1, BatchArg DEF Core, TypeOK
<1>3. 1..c + n \subseteq Slots
  BY <1>1, <1>2, MaxSpansAssumption DEF Slots
<1>4. \A i \in 1..c : s_span_buffer'[i] = s_span_buffer[i]
  BY <1>1, <1>2, <1>3
<1>5. \A k \in 1..n : k + c \in 1..c + n /\ s_span_buffer'[k + c].span = b[k]
  <2> SUFFICES ASSUME NEW k \in 1..n
               PROVE  k + c \in 1..c + n /\ s_span_buffer'[k + c].span = b[k]
    OBVIOUS
  <2>1. k + c \in c + 1 .. c + n /\ k + c \in 1..c + n /\ (k + c) - c = k
    BY <1>2
  <2>2. k + c \in Slots
    BY <1>3, <2>1
  <2>3. s_span_buffer'[k + c] = OwnCopy(b[k])
    BY <1>1, <2>1, <2>2
  <2>4. QED
    BY <2>1, <2>3 DEF OwnCopy
<1>6. \A i \in 1..c + n : i \in 1..c \/ (i - c \in 1..n /\ (i - c) + c = i)
  BY <1>2
<1>7. QED
  <2>1. Pending' = {s_span_buffer'[i].span : i \in 1..c + n}
    BY <1>1 DEF Pending
  <2>2. Pending' \subseteq Pending \cup new
    <3> SUFFICES ASSUME NEW i \in 1..c + n
                 PROVE  s_span_buffer'[i].span \in Pending \cup new
      BY <2>1
    <3>1. CASE i \in 1..c
      BY <1>4, <3>1 DEF Pending
    <3>2. CASE i - c \in 1..n /\ (i - c) + c = i
      BY <1>5, <3>2
    <3>3. QED
      BY <1>6, <3>1, <3>2
  <2>3. Pending \subseteq Pending'
    <3>1. 1..c \subseteq 1..c + n
      BY <1>2
    <3>2. QED
      BY <1>4, <2>1, <3>1 DEF Pending
  <2>4. new \subseteq Pending'
    BY <1>5, <2>1
  <2>5. QED
    BY <2>2, <2>3, <2>4

(* They are new to the store.                                              *)
LEMMA KeptWriteBatch ==
  ASSUME Core, Kept, Owned, NEW t \in Threads, BatchAccepted(t)
  PROVE  Kept'
<1> DEFINE new == {arg[t][i] : i \in 1..Len(arg[t])}
<1>1. /\ accepted' = accepted \cup new
      /\ UnlockAndReturn(t) /\ pc[t] = "locked"
      /\ UNCHANGED <<s_initialized, files, lost>>
  BY DEF BatchAccepted, InSection
<1>2. new \cap accepted = {}
  BY DEF Owned, CallsFresh
<1>3. Pending' = Pending \cup new
  BY WriteBatchPends
<1>4. s_initialized
  BY <1>1 DEF Kept, Quiescent
<1>5. QED
  BY <1>1, <1>2, <1>3, <1>4, KeptAccept

(* A flush begins: it empties the file of this second. *)
LEMMA KeptFlushOpen ==
  ASSUME Core, Kept, NEW t \in Threads, FlushOpen(t)
  PROVE  Kept'
<1>1. /\ files' = SetFile(clock, {})
      /\ lost' = lost \cup (Exported \ (Elsewhere(clock) \cup Pending))
      /\ out' = [name |-> clock, next |-> 1, dropped |-> {}]
      /\ pc[t] = "locked"
      /\ pc' = [pc EXCEPT ![t] = "exporting"]
      /\ UNCHANGED <<s_initialized, s_span_buffer, s_span_count, accepted>>
      /\ s_span_count > 0
  BY DEF FlushOpen, InSection
<1>2. ~Exporting
  BY <1>1, AloneInside
<1>3. Pending' = Pending
  BY <1>1 DEF Pending
<1>4. /\ DOMAIN files' = DOMAIN files \cup {clock}
      /\ files'[clock].spans = {}
      /\ \A f \in DOMAIN files' : f # clock => files'[f] = files[f]
  BY <1>1 DEF SetFile
<1>5. Exported' = Elsewhere(clock)
  BY <1>4 DEF Exported, Elsewhere
<1>6. Elsewhere(clock) \subseteq Exported
  BY DEF Exported, Elsewhere
<1>7. Conservation'
  BY <1>1, <1>3, <1>5, <1>6 DEF Kept, Conservation
<1>8. \A f, g \in DOMAIN files' :
        f # g => files'[f].spans \cap files'[g].spans = {}
  BY <1>4 DEF Kept, ExportedOnce
<1>9. Pending \cap Exported = {}
  BY <1>2 DEF Kept, ExportedOnce, Exporting
<1>10. Exporting' /\ \E u \in Threads : pc'[u] = "exporting"
  BY <1>1 DEF Core, TypeOK, Exporting
<1>11. ExportedOnce'
  BY <1>8, <1>10 DEF ExportedOnce
<1>12. FlushProgress'
  <2>1. out'.name = clock /\ out'.next = 1 /\ out'.dropped = {}
    BY <1>1
  <2>2. Passed' = {} /\ out'.next - 1 <= s_span_count'
    BY <1>1, <2>1 DEF Passed, Core, TypeOK
  <2>3. \A f \in DOMAIN files' \ {clock} : files'[f].spans \cap Pending' = {}
    BY <1>3, <1>4, <1>9 DEF Exported
  <2>4. QED
    BY <1>4, <2>1, <2>2, <2>3 DEF FlushProgress
<1>13. QED
  BY <1>1, <1>7, <1>10, <1>11, <1>12, <1>2 DEF Kept, Quiescent

(* The flush loop takes one more slot: its span goes to the file or is      *)
(* dropped, and stays pending until the file is closed.                    *)
LEMMA KeptFlushLoop ==
  ASSUME Core, Kept, Owned, NEW t \in Threads,
         FlushWriteSpan(t) \/ FlushWriteFails(t)
  PROVE  Kept'
<1> DEFINE s == s_span_buffer[out.next].span
           o == out.name
<1>1. /\ pc[t] = "exporting" /\ out.next <= s_span_count
      /\ UNCHANGED <<s_initialized, s_span_buffer, s_span_count, pc, accepted,
                     lost>>
  BY DEF FlushWriteSpan, FlushWriteFails
<1>2. /\ o \in DOMAIN files /\ out.next \in Nat \ {0} /\ s_span_count \in Nat
      /\ out \in Output
  BY <1>1 DEF Core, TypeOK, Protocol, Output
<1>3. Exporting /\ Exporting'
  BY <1>1 DEF Exporting
<1>4. /\ out'.name = o /\ out'.next = out.next + 1
      /\ DOMAIN files' = DOMAIN files
      /\ \A f \in DOMAIN files : f # o => files'[f] = files[f]
      /\ \/ files'[o].spans = files[o].spans \cup {s} /\ out'.dropped = out.dropped
         \/ files'[o].spans = files[o].spans /\ out'.dropped = out.dropped \cup {s}
  <2>1. CASE FlushWriteSpan(t)
    <3>1. /\ files' = SetFile(o, files[o].spans \cup {s})
          /\ out' = [out EXCEPT !.next = out.next + 1]
      BY <2>1 DEF FlushWriteSpan
    <3>2. QED
      BY <1>2, <3>1 DEF SetFile, Output
  <2>2. CASE FlushWriteFails(t)
    <3>1. /\ files' = files
          /\ out' = [out EXCEPT !.next = out.next + 1,
                               !.dropped = out.dropped \cup {s}]
      BY <2>2 DEF FlushWriteFails
    <3>2. QED
      BY <1>2, <3>1 DEF Output
  <2>3. QED
    BY <2>1, <2>2
<1>5. Pending' = Pending /\ s \in Pending
  BY <1>1, <1>2 DEF Pending
<1>6. 1..out'.next - 1 = 1..out.next - 1 \cup {out.next}
  BY <1>2, <1>4
<1>7. Passed' = Passed \cup {s}
  BY <1>1, <1>6 DEF Passed
<1>8. s \notin Passed
  <2>1. \A i \in 1..out.next - 1 : i \in 1..s_span_count /\ i # out.next
    BY <1>1, <1>2
  <2>2. out.next \in 1..s_span_count
    BY <1>1, <1>2
  <2>3. QED
    BY <2>1, <2>2 DEF Passed, Owned, OwnedAttributes
<1>9. /\ files[o].spans = Passed \ out.dropped
      /\ out.dropped \subseteq Passed
      /\ \A f \in DOMAIN files \ {o} : files[f].spans \cap Pending = {}
  BY <1>3 DEF Kept, FlushProgress
<1>10. FlushProgress'
  <2>1. out'.next - 1 <= s_span_count'
    BY <1>1, <1>2, <1>4
  <2>2. files'[o].spans = Passed' \ out'.dropped /\ out'.dropped \subseteq Passed'
    BY <1>4, <1>7, <1>8, <1>9
  <2>3. \A f \in DOMAIN files' \ {o} : files'[f].spans \cap Pending' = {}
    BY <1>4, <1>5, <1>9
  <2>4. QED
    BY <1>4, <2>1, <2>2, <2>3 DEF FlushProgress
<1>11. ExportedOnce'
  <2>1. \A f, g \in DOMAIN files :
          f # g => files'[f].spans \cap files'[g].spans = {}
    BY <1>4, <1>5, <1>9 DEF Kept, ExportedOnce
  <2>2. QED
    BY <1>3, <1>4, <2>1 DEF ExportedOnce, Exporting
<1>12. Conservation'
  <2>1. Exported \subseteq Exported'
    BY <1>4 DEF Exported
  <2>2. Exported' \subseteq Exported \cup {s}
    BY <1>4 DEF Exported
  <2>3. QED
    BY <1>1, <1>5, <2>1, <2>2 DEF Kept, Conservation
<1>13. QED
  BY <1>1, <1>10, <1>11, <1>12 DEF Kept, Quiescent

(* A flush ends: what it passed over is in its file or counted as lost.     *)
LEMMA KeptFlushClose ==
  ASSUME Core, Kept, NEW t \in Threads, FlushClose(t)
  PROVE  Kept'
<1>1. /\ pc[t] = "exporting" /\ out.next > s_span_count
      /\ s_span_count' = 0 /\ lost' = lost \cup out.dropped
      /\ UnlockAndReturn(t)
      /\ UNCHANGED <<s_initialized, s_span_buffer, files, out, accepted>>
  BY DEF FlushClose
<1>2. /\ out.name \in DOMAIN files /\ out.next \in Nat \ {0}
      /\ s_span_count \in Nat
  BY <1>1 DEF Core, TypeOK, Protocol, Output
<1>3. Exporting
  BY <1>1 DEF Exporting
<1>4. /\ out.next - 1 <= s_span_count
      /\ files[out.name].spans = Passed \ out.dropped
      /\ out.dropped \subseteq Passed
      /\ \A f \in DOMAIN files \ {out.name} : files[f].spans \cap Pending = {}
  BY <1>3 DEF Kept, FlushProgress
<1>5. Passed = Pending
  <2>1. out.next - 1 = s_span_count
    BY <1>1, <1>2, <1>4
  <2>2. QED
    BY <2>1 DEF Passed, Pending
<1>6. Pending' = {} /\ Exported' = Exported
  BY <1>1 DEF Pending, Exported
<1>7. ~Exporting'
  <2>1. \A u \in Threads : u # t => pc[u] # "exporting"
    BY <1>1 DEF Core, Protocol, MutualExclusion
  <2>2. QED
    BY <1>1, <2>1 DEF Exporting, UnlockAndReturn, Core, TypeOK
<1>8. Conservation'
  <2>1. out.dropped \cap Exported = {}
    BY <1>4, <1>5 DEF Exported
  <2>2. Pending \ out.dropped \subseteq Exported
    BY <1>2, <1>4, <1>5 DEF Exported
  <2>3. QED
    BY <1>1, <1>4, <1>5, <1>6, <2>1, <2>2 DEF Kept, Conservation
<1>9. ExportedOnce'
  BY <1>1, <1>6 DEF Kept, ExportedOnce
<1>10. QED
  BY <1>1, <1>7, <1>8, <1>9 DEF Kept, FlushProgress, Quiescent

(* A cleanup: the spans of the removed files are lost, the others stay.     *)
LEMMA KeptCleanup ==
  ASSUME Core, Kept, NEW t \in Threads, Cleanup(t)
  PROVE  Kept'
<1>1. /\ pc[t] = "locked" /\ UnlockAndReturn(t)
      /\ UNCHANGED <<s_initialized, s_span_buffer, s_span_count, accepted>>
  BY DEF Cleanup, InSection
<1>2. ~Exporting /\ ~Exporting'
  BY <1>1, AloneInside
<1>3. PICK kept \in SUBSET DOMAIN files :
        /\ files' = [f \in kept |-> files[f]]
        /\ lost' = lost \cup UNION {files[f].spans : f \in DOMAIN files \ kept}
  BY DEF Cleanup
<1> DEFINE removed == UNION {files[f].spans : f \in DOMAIN files \ kept}
<1>4. /\ DOMAIN files' = kept
      /\ \A f \in kept : files'[f] = files[f]
  BY <1>3
<1>5. Exported = Exported' \cup removed
  BY <1>4 DEF Exported
<1>6. Exported' \cap removed = {}
  BY <1>4 DEF Exported, Kept, ExportedOnce
<1>7. Pending' = Pending /\ Pending \cap Exported = {}
  BY <1>1, <1>2 DEF Pending, Kept, ExportedOnce, Exporting
<1>8. Conservation'
  BY <1>1, <1>3, <1>5, <1>6, <1>7 DEF Kept, Conservation
<1>9. ExportedOnce'
  <2>1. \A f, g \in DOMAIN files' :
          f # g => files'[f].spans \cap files'[g].spans = {}
    BY <1>4 DEF Kept, ExportedOnce
  <2>2. QED
    BY <1>5, <1>7, <2>1 DEF ExportedOnce
<1>10. s_initialized
  BY <1>1 DEF Kept, Quiescent
<1>11. QED
  BY <1>1, <1>2, <1>8, <1>9, <1>10 DEF Kept, FlushProgress

(* Start, stop and crash take nothing out of the files but what a flush    *)
(* was writing.                                                            *)
LEMMA FilesOutside ==
  ASSUME Core, Kept, TraceInit \/ TraceShutdown \/ Crash
  PROVE  /\ Exported' \subseteq Exported
         /\ Exported \subseteq Exported' \cup Pending
         /\ DOMAIN files' = DOMAIN files
         /\ \A f \in DOMAIN files : files'[f].spans \subseteq files[f].spans
<1>1. CASE UNCHANGED files
  BY <1>1 DEF Exported
<1>2. CASE Crash
  <2>1. PICK k \in 0..s_span_count : files' = Survivors(k)
    BY <1>2 DEF Crash
  <2>2. /\ DOMAIN files' = DOMAIN files
        /\ \A f \in DOMAIN files : files'[f].spans \subseteq files[f].spans
    BY <2>1 DEF Survivors, Core, TypeOK, File
  <2>3. ASSUME NEW f \in DOMAIN files, NEW s \in files[f].spans
        PROVE  s \in Exported' \cup Pending
    <3>1. CASE Exporting /\ f = out.name
      <4>1. s \in Passed
        BY <3>1, <2>3 DEF Kept, FlushProgress
      <4>2. 1..out.next - 1 \subseteq 1..s_span_count
        BY <3>1 DEF Kept, FlushProgress, Core, TypeOK, Output
      <4>3. QED
        BY <4>1, <4>2 DEF Passed, Pending
    <3>2. CASE ~(Exporting /\ f = out.name)
      BY <2>1, <2>2, <3>2 DEF Survivors, Exported
    <3>3. QED
      BY <3>1, <3>2
  <2>4. QED
    BY <2>2, <2>3 DEF Exported
<1>3. QED
  BY <1>1, <1>2 DEF TraceInit, TraceShutdown

(* What was pending and is in no file is lost. *)
LEMMA LossesOutside ==
  ASSUME Core, Kept, TraceInit \/ TraceShutdown \/ Crash
  PROVE  lost' = lost \cup (Pending \ Exported')
<1>1. CASE TraceInit
  <2>1. Pending = {}
    BY <1>1 DEF TraceInit, Kept, Pending
  <2>2. QED
    BY <1>1, <2>1 DEF TraceInit
<1>2. CASE TraceShutdown
  BY <1>2 DEF TraceShutdown, Exported
<1>3. QED
  BY <1>1, <1>2 DEF Crash

LEMMA KeptOutside ==
  ASSUME Core, Kept, TraceInit \/ TraceShutdown \/ Crash
  PROVE  Kept'
<1>1. s_span_count' = 0 /\ UNCHANGED accepted
  BY DEF TraceInit, TraceShutdown, Crash
<1>2. Pending' = {}
  BY <1>1 DEF Pending
<1>3. Quiescent'
  BY DEF TraceInit, TraceShutdown, Crash, Quiescent
<1>4. /\ Exported' \subseteq Exported
      /\ Exported \subseteq Exported' \cup Pending
      /\ DOMAIN files' = DOMAIN files
      /\ \A f \in DOMAIN files : files'[f].spans \subseteq files[f].spans
  BY FilesOutside
<1>5. lost' = lost \cup (Pending \ Exported')
  BY LossesOutside
<1>6. Conservation'
  BY <1>1, <1>2, <1>4, <1>5 DEF Kept, Conservation
<1>7. ExportedOnce'
  BY <1>2, <1>4 DEF Kept, ExportedOnce
<1>8. QED
  BY <1>1, <1>3, <1>6, <1>7 DEF Kept, FlushProgress, Exporting, Quiescent

(* The steps that neither accept, export nor lose a span. *)
LEMMA NothingMoves ==
  ASSUME Core, Kept, NEW t \in Threads,
         \/ Call(t) \/ Lock(t)
         \/ SpanRejectedFull(t) \/ SpanRejectedNoMemory(t)
         \/ BatchRejectedFull(t) \/ BatchRejectedNoMemory(t)
         \/ FlushNothing(t) \/ FlushOpenFails(t)
  PROVE  /\ UNCHANGED <<s_span_count, files, accepted, lost, s_initialized, out>>
         /\ Pending' = Pending /\ s_initialized
         /\ Exporting' <=> Exporting
         /\ Exporting => UNCHANGED s_span_buffer
<1>1. \A i \in 1..s_span_count : i \in Slots /\ i <= s_span_count
  BY MaxSpansAssumption DEF Core, TypeOK, Slots
<1>2. UNCHANGED <<s_span_count, files, accepted, lost, s_initialized, out>>
  BY DEF Call, CallWriteSpan, CallWriteBatch, CallFlush, CallCleanup, Enter, Lock,
         SpanRejectedFull, SpanRejectedNoMemory, BatchRejectedFull,
         BatchRejectedNoMemory, FlushNothing, FlushOpenFails
<1>3. CASE Call(t) \/ Lock(t)
  <2>1. UNCHANGED s_span_buffer /\ s_initialized
    BY <1>3 DEF Call, CallWriteSpan, CallWriteBatch, CallFlush, CallCleanup, Enter,
                Lock, Kept, Quiescent
  <2>2. Pending' = Pending
    BY <1>2, <2>1 DEF Pending
  <2>3. PICK l \in {"waiting", "locked"} : /\ pc' = [pc EXCEPT ![t] = l]
                                           /\ pc[t] \in {"idle", "waiting"}
    BY <1>3 DEF Call, CallWriteSpan, CallWriteBatch, CallFlush, CallCleanup, Enter,
                Lock
  <2>4. Exporting' <=> Exporting
    BY <2>3 DEF Exporting, Core, TypeOK
  <2>5. QED
    BY <1>2, <2>1, <2>2, <2>4
<1>4. CASE \/ SpanRejectedFull(t) \/ SpanRejectedNoMemory(t)
           \/ BatchRejectedFull(t) \/ BatchRejectedNoMemory(t)
           \/ FlushNothing(t) \/ FlushOpenFails(t)
  <2>1. pc[t] = "locked" /\ UnlockAndReturn(t)
    BY <1>4 DEF SpanRejectedFull, SpanRejectedNoMemory, BatchRejectedFull,
                BatchRejectedNoMemory, FlushNothing, FlushOpenFails, InSection
  <2>2. ~Exporting /\ ~Exporting' /\ s_initialized
    BY <2>1, AloneInside DEF Kept, Quiescent
  <2>3. \A i \in 1..s_span_count : s_span_buffer'[i] = s_span_buffer[i]
    <3>1. CASE SpanRejectedNoMemory(t)
      BY <1>1, <3>1 DEF SpanRejectedNoMemory, Core, TypeOK, Slots
    <3>2. CASE BatchRejectedNoMemory(t)
      <4>1. Len(arg[t]) \in Nat
        BY <3>2, BatchArg DEF BatchRejectedNoMemory, InSection
      <4>2. \A i \in Slots : i <= s_span_count
                               => s_span_buffer'[i] = s_span_buffer[i]
        BY <3>2, <4>1 DEF BatchRejectedNoMemory, FillSlots, Core, TypeOK, Slots
      <4>3. QED
        BY <1>1, <4>2
    <3>3. CASE \/ SpanRejectedFull(t) \/ BatchRejectedFull(t)
               \/ FlushNothing(t) \/ FlushOpenFails(t)
      BY <3>3 DEF SpanRejectedFull, BatchRejectedFull, FlushNothing, FlushOpenFails
    <3>4. QED
      BY <1>4, <3>1, <3>2, <3>3
  <2>4. Pending' = Pending
    BY <1>2, <2>3, PendingKept
  <2>5. QED
    BY <1>2, <2>2, <2>4
<1>5. QED
  BY <1>3, <1>4

LEMMA KeptElsewhere ==
  ASSUME Core, Kept, NEW t \in Threads,
         \/ Call(t) \/ Lock(t)
         \/ SpanRejectedFull(t) \/ SpanRejectedNoMemory(t)
         \/ BatchRejectedFull(t) \/ BatchRejectedNoMemory(t)
         \/ FlushNothing(t) \/ FlushOpenFails(t)
  PROVE  Kept'
BY NothingMoves, KeptUnmoved

(* The account of the accepted spans is balanced after every step.         *)
LEMMA KeptInductive == Core /\ Owned /\ Kept /\ [Next]_vars => Kept'
<1> SUFFICES ASSUME Core, Owned, Kept, [Next]_vars PROVE Kept'
  OBVIOUS
<1>1. CASE TraceInit \/ TraceShutdown \/ Crash
  BY <1>1, KeptOutside
<1>2. CASE Tick \/ UNCHANGED vars
  <2>1. UNCHANGED <<s_span_buffer, s_span_count, files, accepted, lost, out, pc,
                    s_initialized>>
    BY <1>2 DEF Tick, vars
  <2>2. Pending' = Pending /\ (Exporting' <=> Exporting)
    BY <2>1 DEF Pending, Exporting
  <2>3. ~s_initialized => Quiescent'
    BY <2>1 DEF Kept, Quiescent
  <2>4. QED
    BY <2>1, <2>2, <2>3, KeptUnmoved
<1>3. ASSUME NEW t \in Threads, Call(t) \/ Lock(t) \/ Holding(t)
      PROVE  Kept'
  BY <1>3, KeptElsewhere, KeptWriteSpan, KeptWriteBatch, KeptFlushOpen,
     KeptFlushLoop, KeptFlushClose, KeptCleanup DEF Holding
<1>4. QED
  BY <1>1, <1>2, <1>3 DEF Next

(* Nothing is lost in silence: at every moment the spans whose write        *)
(* returned SUCCESS are those in the buffer, in a span file, or lost to a   *)
(* named cause.                                                            *)
THEOREM SpansConserved == Spec => []Conservation
<1>1. Kept => Conservation
  BY DEF Kept
<1>2. QED
  BY CoreInit, CoreInductive, OwnedInit, OwnedInductive, KeptInit, KeptInductive,
     <1>1, PTL DEF Spec

(* No span is exported twice. *)
THEOREM SpansExportedOnce == Spec => []ExportedOnce
<1>1. Kept => ExportedOnce
  BY DEF Kept
<1>2. QED
  BY CoreInit, CoreInductive, OwnedInit, OwnedInductive, KeptInit, KeptInductive,
     <1>1, PTL DEF Spec

(* Only the close of its own flush takes an exporting thread out of a live  *)
(* store's flush.                                                          *)
LEMMA OnlyCloseEndsExport ==
  ASSUME Core, [Next]_vars, NEW t \in Threads,
         pc[t] = "exporting", pc'[t] = "idle", s_initialized'
  PROVE  FlushClose(t)
<1>1. s_trace_lock = t /\ t # NoThread
  BY ThreadsAssumption DEF Core, Protocol, MutualExclusion
<1>2. pc \in [Threads -> Locations]
  BY DEF Core, TypeOK
<1>3. CASE TraceInit \/ TraceShutdown \/ Tick \/ Crash \/ UNCHANGED vars
  BY <1>2, <1>3
     DEF TraceInit, TraceShutdown, Tick, Crash, vars, Quiescent
<1>4. ASSUME NEW u \in Threads, Call(u) \/ Lock(u)
      PROVE  FALSE
  <2>1. pc[u] # "exporting"
    BY <1>4 DEF Call, CallWriteSpan, CallWriteBatch, CallFlush, CallCleanup, Enter,
                Lock
  <2>2. PICK l \in {"waiting", "locked"} : pc' = [pc EXCEPT ![u] = l]
    BY <1>4 DEF Call, CallWriteSpan, CallWriteBatch, CallFlush, CallCleanup, Enter,
                Lock
  <2>3. QED
    BY <1>2, <2>1, <2>2
<1>5. ASSUME NEW u \in Threads, Holding(u)
      PROVE  FlushClose(t)
  <2>1. pc[u] \in {"locked", "exporting"}
    BY <1>5 DEF Holding, SpanRejectedFull, SpanRejectedNoMemory, SpanAccepted,
                BatchRejectedFull, BatchRejectedNoMemory, BatchAccepted,
                FlushNothing, FlushOpenFails, FlushOpen, FlushWriteSpan,
                FlushWriteFails, FlushClose, Cleanup, InSection
  <2>2. u = t
    BY <1>1, <2>1 DEF Core, Protocol, MutualExclusion
  <2>3. FlushWriteSpan(t) \/ FlushWriteFails(t) \/ FlushClose(t)
    BY <1>5, <2>2 DEF Holding, SpanRejectedFull, SpanRejectedNoMemory,
                SpanAccepted, BatchRejectedFull, BatchRejectedNoMemory,
                BatchAccepted, FlushNothing, FlushOpenFails, FlushOpen, Cleanup,
                InSection
  <2>4. QED
    BY <2>3 DEF FlushWriteSpan, FlushWriteFails
<1>6. QED
  BY <1>3, <1>4, <1>5 DEF Next

(* When a flush returns, every span it found pending is in its file, those  *)
(* apart whose fputs failed.                                               *)
THEOREM FlushesComplete == Spec => FlushComplete
<1>1. ASSUME Core, Kept, [Next]_vars, NEW t \in Threads,
             pc[t] = "exporting", pc'[t] = "idle", s_initialized'
      PROVE  Pending \subseteq files'[out.name].spans \cup out.dropped
  <2>1. /\ out.next > s_span_count /\ UNCHANGED files
        /\ out.next \in Nat /\ s_span_count \in Nat
    <3>1. FlushClose(t)
      BY <1>1, OnlyCloseEndsExport
    <3>2. QED
      BY <1>1, <3>1 DEF FlushClose, Core, TypeOK, Output
  <2>2. /\ out.next - 1 <= s_span_count
        /\ files[out.name].spans = Passed \ out.dropped
    BY <1>1 DEF Kept, FlushProgress, Exporting
  <2>3. out.next - 1 = s_span_count
    BY <2>1, <2>2
  <2>4. Passed = Pending
    BY <2>3 DEF Passed, Pending
  <2>5. QED
    BY <2>1, <2>2, <2>4
<1>2. Core /\ Kept /\ [Next]_vars
        => [\A t \in Threads :
              pc[t] = "exporting" /\ pc'[t] = "idle" /\ s_initialized'
                => Pending \subseteq files'[out.name].spans \cup out.dropped]_vars
  BY <1>1
<1>3. QED
  BY CoreInit, CoreInductive, OwnedInit, OwnedInductive, KeptInit, KeptInductive,
     <1>2, PTL DEF Spec, FlushComplete

-----------------------------------------------------------------------------
(* A batch in the buffer, and in a file that no flush is writing.          *)
SpansOf(b) == {b[i] : i \in 1..Len(b)}
WholeInBuffer == \A b \in Batches : SpansOf(b) \cap Pending \in {{}, SpansOf(b)}
BeingWritten(f) == Exporting /\ out.name = f
WholeInFile(b, f) ==
  lost \cap SpansOf(b) # {} \/ SpansOf(b) \cap files[f].spans \in {{}, SpansOf(b)}

LEMMA AtomicParts ==
  BatchAtomic <=> /\ WholeInBuffer
                  /\ \A b \in Batches, f \in DOMAIN files : BeingWritten(f) \/ WholeInFile(b, f)
BY DEF BatchAtomic, WholeInBuffer, BeingWritten, WholeInFile, SpansOf, Exporting

(* A step that leaves each file as it was, or writes it, or keeps it whole. *)
LEMMA AtomicKept ==
  ASSUME BatchAtomic, WholeInBuffer', lost \subseteq lost',
         \A f \in DOMAIN files' :
           \/ /\ f \in DOMAIN files /\ files'[f] = files[f]
              /\ BeingWritten(f) => BeingWritten(f)'
           \/ BeingWritten(f)'
           \/ \A b \in Batches : WholeInFile(b, f)'
  PROVE  BatchAtomic'
<1>1. ASSUME NEW b \in Batches, NEW f \in DOMAIN files'
      PROVE  BeingWritten(f)' \/ WholeInFile(b, f)'
  <2>1. CASE /\ f \in DOMAIN files /\ files'[f] = files[f]
             /\ BeingWritten(f) => BeingWritten(f)'
    <3>1. BeingWritten(f) \/ WholeInFile(b, f)
      BY <2>1, AtomicParts
    <3>2. WholeInFile(b, f) => WholeInFile(b, f)'
      BY <2>1 DEF WholeInFile
    <3>3. QED
      BY <2>1, <3>1, <3>2
  <2>2. QED
    BY <2>1
<1>2. BatchAtomic' <=> /\ WholeInBuffer'
                       /\ \A b \in Batches, f \in DOMAIN files' :
                            BeingWritten(f)' \/ WholeInFile(b, f)'
  BY DEF BatchAtomic, WholeInBuffer, BeingWritten, WholeInFile, SpansOf, Exporting
<1>3. QED
  BY <1>1, <1>2

(* An empty buffer holds no part of a batch, and one that stays keeps what *)
(* it had.                                                                 *)
LEMMA BufferKept ==
  ASSUME BatchAtomic, Pending' = {} \/ Pending' = Pending
  PROVE  WholeInBuffer'
<1>1. WholeInBuffer
  BY AtomicParts
<1>2. QED
  BY <1>1 DEF WholeInBuffer

(* What a write adds is one batch, or a span of none.                      *)
LEMMA BatchesApart ==
  ASSUME NEW b \in Batches, NEW c \in Batches, b # c
  PROVE  SpansOf(b) \cap SpansOf(c) = {}
BY BatchesAssumption DEF SpansOf

LEMMA AtomicWrite ==
  ASSUME Core, Kept, BatchAtomic, NEW t \in Threads, SpanAccepted(t) \/ BatchAccepted(t)
  PROVE  BatchAtomic'
<1>1. pc[t] = "locked" /\ UnlockAndReturn(t) /\ UNCHANGED <<files, lost>>
  BY DEF SpanAccepted, BatchAccepted, InSection
<1>2. ~Exporting
  BY <1>1, AloneInside
<1>3. WholeInBuffer
  BY AtomicParts
<1>4. CASE SpanAccepted(t)
  <2>1. PICK s \in Singles : arg[t] = <<s>>
    BY <1>4, WriteSpanArg DEF SpanAccepted, InSection, Core, Protocol
  <2>2. Pending' = Pending \cup {s} /\ \A b \in Batches : s \notin SpansOf(b)
    BY <1>4, <2>1, WriteSpanPends DEF Singles, SpansOf
  <2>3. WholeInBuffer'
    BY <1>3, <2>2 DEF WholeInBuffer
  <2>4. QED
    BY <1>1, <1>2, <2>3, AtomicKept DEF BeingWritten
<1>5. CASE BatchAccepted(t)
  <2>1. arg[t] \in Batches
    BY <1>5 DEF BatchAccepted, InSection, Core, Protocol
  <2>2. Pending' = Pending \cup SpansOf(arg[t])
    BY <1>5, WriteBatchPends DEF SpansOf
  <2>3. \A b \in Batches : b # arg[t] => SpansOf(b) \cap SpansOf(arg[t]) = {}
    BY <2>1, BatchesApart
  <2>4. WholeInBuffer'
    BY <1>3, <2>2, <2>3 DEF WholeInBuffer
  <2>5. QED
    BY <1>1, <1>2, <2>4, AtomicKept DEF BeingWritten
<1>6. QED
  BY <1>4, <1>5

(* A flush writes one file; the others stay closed.                        *)
LEMMA AtomicFlushOpen ==
  ASSUME Core, BatchAtomic, NEW t \in Threads, FlushOpen(t)
  PROVE  BatchAtomic'
<1>1. /\ files' = SetFile(clock, {}) /\ out'.name = clock /\ lost \subseteq lost'
      /\ pc[t] = "locked" /\ pc' = [pc EXCEPT ![t] = "exporting"]
      /\ UNCHANGED <<s_span_buffer, s_span_count>>
  BY DEF FlushOpen, InSection
<1>2. ~Exporting
  BY <1>1, AloneInside
<1>3. \A f \in DOMAIN files' : f = clock \/ (f \in DOMAIN files /\ files'[f] = files[f])
  BY <1>1 DEF SetFile
<1>4. WholeInBuffer'
  BY <1>1, BufferKept DEF Pending
<1>5. pc'[t] = "exporting"
  BY <1>1 DEF Core, TypeOK
<1>6. \A f \in DOMAIN files' : f = clock => BeingWritten(f)'
  BY <1>1, <1>5 DEF BeingWritten, Exporting
<1>7. QED
  BY <1>1, <1>2, <1>3, <1>4, <1>6, AtomicKept DEF BeingWritten

LEMMA AtomicFlushLoop ==
  ASSUME Core, BatchAtomic, NEW t \in Threads, FlushWriteSpan(t) \/ FlushWriteFails(t)
  PROVE  BatchAtomic'
<1>1. /\ pc[t] = "exporting"
      /\ UNCHANGED <<s_span_buffer, s_span_count, pc, lost>>
  BY DEF FlushWriteSpan, FlushWriteFails
<1>2. out' = [out EXCEPT !.next = out.next + 1] \/
      out' = [out EXCEPT !.next = out.next + 1,
                         !.dropped = out.dropped \cup {s_span_buffer[out.next].span}]
  BY DEF FlushWriteSpan, FlushWriteFails
<1>3. out'.name = out.name
  BY <1>2 DEF Core, TypeOK, Output
<1>4. \A f \in DOMAIN files' : f = out.name \/ (f \in DOMAIN files /\ files'[f] = files[f])
  BY DEF FlushWriteSpan, FlushWriteFails, SetFile
<1>5. \A f : BeingWritten(f)' <=> f = out.name
  BY <1>1, <1>3 DEF BeingWritten, Exporting
<1>6. \A f : BeingWritten(f) => f = out.name
  BY DEF BeingWritten
<1>7. WholeInBuffer'
  BY <1>1, BufferKept DEF Pending
<1>8. QED
  BY <1>1, <1>4, <1>5, <1>6, <1>7, AtomicKept

(* The file that is closed holds what was pending, but for what is lost.   *)
LEMMA AtomicFlushClose ==
  ASSUME Core, Kept, BatchAtomic, NEW t \in Threads, FlushClose(t)
  PROVE  BatchAtomic'
<1>1. /\ pc[t] = "exporting" /\ out.next > s_span_count
      /\ s_span_count' = 0 /\ lost' = lost \cup out.dropped
      /\ UNCHANGED <<files, out>>
  BY DEF FlushClose
<1>2. /\ out.next - 1 <= s_span_count
      /\ files[out.name].spans = Passed \ out.dropped /\ out.dropped \subseteq Passed
  BY <1>1 DEF Kept, FlushProgress, Exporting
<1>3. Passed = Pending
  <2>1. out.next \in Nat /\ s_span_count \in Nat
    BY DEF Core, TypeOK, Output
  <2>2. out.next - 1 = s_span_count
    BY <1>1, <1>2, <2>1
  <2>3. QED
    BY <2>2 DEF Passed, Pending
<1>4. \A b \in Batches : WholeInFile(b, out.name)'
  <2>1. ASSUME NEW b \in Batches
        PROVE  \/ lost' \cap SpansOf(b) # {}
               \/ SpansOf(b) \cap files[out.name].spans \in {{}, SpansOf(b)}
    <3>1. SpansOf(b) \cap Pending \in {{}, SpansOf(b)}
      BY AtomicParts DEF WholeInBuffer
    <3>2. QED
      BY <1>1, <1>2, <1>3, <3>1
  <2>2. QED
    BY <1>1, <2>1 DEF WholeInFile
<1>5. WholeInBuffer'
  BY <1>1, BufferKept DEF Pending
<1>6. \A f \in DOMAIN files' : f # out.name => ~BeingWritten(f)
  BY DEF BeingWritten
<1>7. \A f \in DOMAIN files' : f = out.name => \A b \in Batches : WholeInFile(b, f)'
  BY <1>1, <1>4 DEF WholeInFile
<1>8. QED
  BY <1>1, <1>5, <1>6, <1>7, AtomicKept

(* A crash may leave the file it interrupts in part; the rest of the batch *)
(* is lost with the buffer.                                                *)
LEMMA AtomicCrash ==
  ASSUME Core, Kept, BatchAtomic, Crash
  PROVE  BatchAtomic'
<1>1. PICK k \in 0..s_span_count : files' = Survivors(k)
  BY DEF Crash
<1>2. s_span_count' = 0 /\ lost' = lost \cup (Pending \ Exported')
  BY DEF Crash
<1>3. /\ DOMAIN files' = DOMAIN files
      /\ \A f \in DOMAIN files : /\ files'[f].spans \subseteq files[f].spans
                                 /\ ~BeingWritten(f) => files'[f] = files[f]
  BY <1>1 DEF Survivors, Core, TypeOK, File, BeingWritten
<1>4. ASSUME NEW b \in Batches, NEW f \in DOMAIN files, BeingWritten(f)
      PROVE  \/ lost' \cap SpansOf(b) # {}
             \/ SpansOf(b) \cap files'[f].spans \in {{}, SpansOf(b)}
  <2>1. /\ files[f].spans \subseteq Pending
        /\ \A g \in DOMAIN files \ {f} : files[g].spans \cap Pending = {}
    <3>1. /\ out.next - 1 <= s_span_count /\ files[f].spans \subseteq Passed
          /\ \A g \in DOMAIN files \ {f} : files[g].spans \cap Pending = {}
      BY <1>4 DEF BeingWritten, Kept, FlushProgress
    <3>2. out.next \in Nat \ {0} /\ s_span_count \in Nat
      BY DEF Core, TypeOK, Output
    <3>3. 1..out.next - 1 \subseteq 1..s_span_count
      BY <3>1, <3>2
    <3>4. Passed \subseteq Pending
      BY <3>3 DEF Passed, Pending
    <3>5. QED
      BY <3>1, <3>4
  <2>2. Pending \cap Exported' \subseteq files'[f].spans
    BY <1>3, <2>1 DEF Exported
  <2>3. SpansOf(b) \cap Pending \in {{}, SpansOf(b)}
    BY AtomicParts DEF WholeInBuffer
  <2>4. CASE SpansOf(b) \cap Pending = {}
    BY <1>3, <1>4, <2>1, <2>4
  <2>5. CASE SpansOf(b) \subseteq Pending
    BY <1>2, <2>2, <2>5
  <2>6. QED
    BY <2>3, <2>4, <2>5
<1>5. WholeInBuffer'
  BY <1>2, BufferKept DEF Pending
<1>6. \A f \in DOMAIN files' : BeingWritten(f) => \A b \in Batches : WholeInFile(b, f)'
  BY <1>3, <1>4 DEF WholeInFile
<1>7. QED
  BY <1>2, <1>3, <1>5, <1>6, AtomicKept

(* The steps that write no file and accept nothing.                        *)
LEMMA AtomicElsewhere ==
  ASSUME BatchAtomic, Pending' = {} \/ Pending' = Pending, lost \subseteq lost',
         \A f \in DOMAIN files' : f \in DOMAIN files /\ files'[f] = files[f],
         Exporting => Exporting' /\ out' = out
  PROVE  BatchAtomic'
<1>1. WholeInBuffer'
  BY BufferKept
<1>2. \A f : BeingWritten(f) => BeingWritten(f)'
  BY DEF BeingWritten
<1>3. QED
  BY <1>1, <1>2, AtomicKept

LEMMA AtomicInductive ==
  ASSUME Core, Owned, Kept, BatchAtomic, [Next]_vars
  PROVE  BatchAtomic'
<1>1. CASE TraceInit \/ TraceShutdown
  <2>1. s_span_count' = 0 /\ files' = files /\ lost \subseteq lost' /\ ~Exporting
    BY <1>1 DEF TraceInit, TraceShutdown, Quiescent, Exporting
  <2>2. Pending' = {}
    BY <2>1 DEF Pending
  <2>3. QED
    BY <2>1, <2>2, AtomicElsewhere
<1>2. CASE Tick \/ UNCHANGED vars
  <2>1. UNCHANGED <<s_span_buffer, s_span_count, files, lost, out, pc>>
    BY <1>2 DEF Tick, vars
  <2>2. Pending' = Pending /\ (Exporting' <=> Exporting)
    BY <2>1 DEF Pending, Exporting
  <2>3. QED
    BY <2>1, <2>2, AtomicElsewhere
<1>3. ASSUME NEW t \in Threads,
             \/ Call(t) \/ Lock(t)
             \/ SpanRejectedFull(t) \/ SpanRejectedNoMemory(t)
             \/ BatchRejectedFull(t) \/ BatchRejectedNoMemory(t)
             \/ FlushNothing(t) \/ FlushOpenFails(t)
      PROVE  BatchAtomic'
  BY <1>3, NothingMoves, AtomicElsewhere
<1>4. ASSUME NEW t \in Threads, Cleanup(t)
      PROVE  BatchAtomic'
  <2>1. /\ pc[t] = "locked" /\ UNCHANGED <<s_span_buffer, s_span_count>> /\ lost \subseteq lost'
        /\ \A f \in DOMAIN files' : f \in DOMAIN files /\ files'[f] = files[f]
    BY <1>4 DEF Cleanup, InSection
  <2>2. ~Exporting /\ Pending' = Pending
    BY <2>1, AloneInside DEF Pending
  <2>3. QED
    BY <2>1, <2>2, AtomicElsewhere
<1>5. CASE Crash
  BY <1>5, AtomicCrash
<1>6. QED
  BY <1>1, <1>2, <1>3, <1>4, <1>5, AtomicWrite, AtomicFlushOpen, AtomicFlushLoop,
     AtomicFlushClose DEF Next, Holding

(* A batch is in the buffer whole or not at all, and in each closed file   *)
(* too, but for what a crash or a failed write lost of it                  *)
(* (heapstore_trace_write_spans_batch, trace.c:154-155).                   *)
THEOREM BatchesAreWhole == Spec => []BatchAtomic
<1>1. Init => BatchAtomic
  <2>1. Init => Pending = {} /\ DOMAIN files = {}
    BY DEF Init, Pending
  <2>2. QED
    BY <2>1 DEF BatchAtomic
<1>2. Core /\ Owned /\ Kept /\ BatchAtomic /\ [Next]_vars => BatchAtomic'
  BY AtomicInductive
<1>3. QED
  BY CoreInit, CoreInductive, OwnedInit, OwnedInductive, KeptInit, KeptInductive,
     <1>1, <1>2, PTL DEF Spec

-----------------------------------------------------------------------------
(* The ledger.  A write enters what it carries, which is one of the writes *)
(* the ledger knows.                                                       *)
LEMMA LedgerAccept ==
  ASSUME Kept, NEW new \in Ledger!Writes, new \cap accepted = {},
         Pending' = Pending \cup new, UNCHANGED <<files, lost>>
  PROVE  Ledger!Write
<1>1. Exported' = Exported
  BY DEF Exported
<1>2. new \cap (Pending \cup (Exported \ Pending) \cup lost) = {}
  BY DEF Kept, Conservation
<1>3. Exported' \ Pending' = Exported \ Pending
  BY <1>1, <1>2
<1>4. QED
  BY <1>2, <1>3 DEF Ledger!Write

LEMMA LedgerWriteSpan ==
  ASSUME Core, Owned, Kept, NEW t \in Threads, SpanAccepted(t)
  PROVE  Ledger!Write
<1> DEFINE s == arg[t][1]
<1>1. op[t] = "write_span" /\ UNCHANGED <<files, lost>>
  BY DEF SpanAccepted, InSection
<1>2. s \in Singles /\ s \in Spans
  BY <1>1, WriteSpanArg
<1>3. {s} \in Ledger!Writes
  BY <1>2 DEF Singles, Ledger!Writes, Ledger!InBatches, Ledger!SpansOf
<1>4. {s} \cap accepted = {}
  BY <1>1, WriteSpanArg DEF Owned, CallsFresh
<1>5. QED
  BY <1>1, <1>3, <1>4, WriteSpanPends, LedgerAccept

LEMMA LedgerWriteBatch ==
  ASSUME Core, Owned, Kept, NEW t \in Threads, BatchAccepted(t)
  PROVE  Ledger!Write
<1> DEFINE new == {arg[t][i] : i \in 1..Len(arg[t])}
<1>1. op[t] = "write_spans_batch" /\ UNCHANGED <<files, lost>>
  BY DEF BatchAccepted, InSection
<1>2. arg[t] \in Batches
  BY <1>1 DEF Core, Protocol
<1>3. new \in Ledger!Writes
  BY <1>2 DEF Ledger!Writes, Ledger!SpansOf
<1>4. new \cap accepted = {}
  BY DEF Owned, CallsFresh
<1>5. QED
  BY <1>1, <1>3, <1>4, WriteBatchPends, LedgerAccept

(* A flush takes the spans of the file it overwrites out of the ledger's   *)
(* exports when it opens the file, and settles the pending ones when it    *)
(* closes it.                                                              *)
LEMMA LedgerFlushOpen ==
  ASSUME Core, Kept, NEW t \in Threads, FlushOpen(t)
  PROVE  Ledger!Discard
<1>1. /\ files' = SetFile(clock, {})
      /\ lost' = lost \cup (Exported \ (Elsewhere(clock) \cup Pending))
      /\ pc[t] = "locked"
      /\ UNCHANGED <<s_span_buffer, s_span_count>>
  BY DEF FlushOpen, InSection
<1>2. Pending' = Pending
  BY <1>1 DEF Pending
<1>3. Pending \cap Exported = {}
  BY <1>1, AloneInside DEF Kept, ExportedOnce, Exporting
<1>4. /\ DOMAIN files' = DOMAIN files \cup {clock}
      /\ files'[clock].spans = {}
      /\ \A f \in DOMAIN files' : f # clock => files'[f] = files[f]
  BY <1>1 DEF SetFile
<1>5. Exported' = Elsewhere(clock) /\ Elsewhere(clock) \subseteq Exported
  BY <1>4 DEF Exported, Elsewhere
<1> DEFINE gone == Exported \ Elsewhere(clock)
<1>6. gone \in SUBSET (Exported \ Pending)
  BY <1>3
<1>7. /\ Exported' \ Pending' = (Exported \ Pending) \ gone
      /\ lost' = lost \cup gone
  BY <1>1, <1>2, <1>3, <1>5
<1>8. QED
  BY <1>2, <1>6, <1>7 DEF Ledger!Discard

LEMMA LedgerFlushLoop ==
  ASSUME Core, Kept, NEW t \in Threads, FlushWriteSpan(t) \/ FlushWriteFails(t)
  PROVE  UNCHANGED <<Pending, Exported \ Pending, lost>>
<1>1. /\ pc[t] = "exporting" /\ out.next <= s_span_count
      /\ UNCHANGED <<s_span_buffer, s_span_count, lost>>
  BY DEF FlushWriteSpan, FlushWriteFails
<1>2. Pending' = Pending
  BY <1>1 DEF Pending
<1>3. CASE FlushWriteFails(t)
  BY <1>1, <1>2, <1>3 DEF FlushWriteFails, Exported
<1>4. CASE FlushWriteSpan(t)
  <2> DEFINE s == s_span_buffer[out.next].span
             o == out.name
  <2>1. /\ o \in DOMAIN files
        /\ files' = SetFile(o, files[o].spans \cup {s})
    BY <1>1, <1>4 DEF FlushWriteSpan, Core, Protocol
  <2>2. s \in Pending
    BY <1>1 DEF Pending, Core, TypeOK, Output
  <2>3. /\ DOMAIN files' = DOMAIN files
        /\ files'[o].spans = files[o].spans \cup {s}
        /\ \A f \in DOMAIN files : f # o => files'[f] = files[f]
    BY <2>1 DEF SetFile
  <2>4. Exported' = Exported \cup {s}
    <3> HIDE DEF s, o
    <3>1. \A x : x \in Exported' <=> \E f \in DOMAIN files : x \in files'[f].spans
      BY <2>3 DEF Exported
    <3>2. \A x : x \in Exported <=> \E f \in DOMAIN files : x \in files[f].spans
      BY DEF Exported
    <3>3. \A x : x \in Exported' <=> x \in Exported \cup {s}
      BY <2>1, <2>3, <3>1, <3>2
    <3>4. QED
      BY <3>3
  <2>5. QED
    BY <1>1, <1>2, <2>2, <2>4
<1>5. QED
  BY <1>3, <1>4

LEMMA LedgerFlushClose ==
  ASSUME Core, Kept, NEW t \in Threads, FlushClose(t)
  PROVE  Ledger!Settle
<1>1. /\ pc[t] = "exporting" /\ out.next > s_span_count
      /\ s_span_count' = 0 /\ lost' = lost \cup out.dropped
      /\ UNCHANGED files
  BY DEF FlushClose
<1>2. /\ out.name \in DOMAIN files /\ out.next \in Nat \ {0}
      /\ s_span_count \in Nat
  BY <1>1 DEF Core, TypeOK, Protocol, Output
<1>3. /\ out.next - 1 <= s_span_count
      /\ files[out.name].spans = Passed \ out.dropped
      /\ out.dropped \subseteq Passed
      /\ \A f \in DOMAIN files \ {out.name} : files[f].spans \cap Pending = {}
  BY <1>1 DEF Kept, FlushProgress, Exporting
<1>4. Passed = Pending
  <2>1. out.next - 1 = s_span_count
    BY <1>1, <1>2, <1>3
  <2>2. QED
    BY <2>1 DEF Passed, Pending
<1>5. Pending' = {} /\ Exported' = Exported
  BY <1>1 DEF Pending, Exported
<1>6. Exported \cap Pending = Pending \ out.dropped
  BY <1>2, <1>3, <1>4 DEF Exported
<1>7. Exported' \ Pending' = (Exported \ Pending) \cup (Pending \ out.dropped)
  BY <1>5, <1>6
<1>8. out.dropped \in SUBSET Pending
  BY <1>3, <1>4
<1>9. QED
  BY <1>1, <1>5, <1>7, <1>8 DEF Ledger!Settle

(* A cleanup removes files. *)
LEMMA LedgerCleanup ==
  ASSUME Core, Kept, NEW t \in Threads, Cleanup(t)
  PROVE  Ledger!Discard
<1>1. /\ pc[t] = "locked"
      /\ UNCHANGED <<s_span_buffer, s_span_count>>
  BY DEF Cleanup, InSection
<1>2. PICK kept \in SUBSET DOMAIN files :
        /\ files' = [f \in kept |-> files[f]]
        /\ lost' = lost \cup UNION {files[f].spans : f \in DOMAIN files \ kept}
  BY DEF Cleanup
<1> DEFINE removed == UNION {files[f].spans : f \in DOMAIN files \ kept}
<1>3. /\ DOMAIN files' = kept
      /\ \A f \in kept : files'[f] = files[f]
  BY <1>2
<1>4. Exported = Exported' \cup removed
  BY <1>3 DEF Exported
<1>5. Exported' \cap removed = {}
  BY <1>3 DEF Exported, Kept, ExportedOnce
<1>6. Pending' = Pending /\ Pending \cap Exported = {}
  BY <1>1, AloneInside DEF Pending, Kept, ExportedOnce, Exporting
<1> HIDE DEF removed
<1>7. removed \in SUBSET (Exported \ Pending)
  BY <1>4, <1>6
<1>8. /\ Exported' \ Pending' = (Exported \ Pending) \ removed
      /\ lost' = lost \cup removed
  BY <1>2, <1>4, <1>5, <1>6 DEF removed
<1>9. QED
  BY <1>6, <1>7, <1>8 DEF Ledger!Discard

(* The end of the process settles what is pending: a part of it reached    *)
(* the file that was being written, the rest is lost.                      *)
LEMMA LedgerOutside ==
  ASSUME Core, Kept, TraceInit \/ TraceShutdown \/ Crash
  PROVE  Ledger!Settle
<1>1. Pending' = {}
  BY DEF TraceInit, TraceShutdown, Crash, Pending
<1>2. Exported' \subseteq Exported /\ Exported \subseteq Exported' \cup Pending
  BY FilesOutside
<1>3. lost' = lost \cup (Pending \ Exported')
  BY LossesOutside
<1> DEFINE failed == Pending \ Exported'
<1>4. Exported' \ Pending' = (Exported \ Pending) \cup (Pending \ failed)
  BY <1>1, <1>2
<1>5. QED
  BY <1>1, <1>3, <1>4 DEF Ledger!Settle

LEMMA LedgerStep ==
  ASSUME Core, Owned, Kept, [Next]_vars
  PROVE  [Ledger!Next]_(Ledger!vars)
<1>1. CASE TraceInit \/ TraceShutdown \/ Crash
  BY <1>1, LedgerOutside DEF Ledger!Next
<1>2. CASE Tick \/ UNCHANGED vars
  BY <1>2 DEF Tick, vars, Pending, Exported, Ledger!vars
<1>3. ASSUME NEW t \in Threads, Call(t) \/ Lock(t) \/ Holding(t)
      PROVE  [Ledger!Next]_(Ledger!vars)
  <2>1. CASE SpanAccepted(t) \/ BatchAccepted(t)
    BY <2>1, LedgerWriteSpan, LedgerWriteBatch DEF Ledger!Next
  <2>2. CASE FlushOpen(t) \/ Cleanup(t)
    BY <2>2, LedgerFlushOpen, LedgerCleanup DEF Ledger!Next
  <2>3. CASE FlushWriteSpan(t) \/ FlushWriteFails(t)
    BY <2>3, LedgerFlushLoop DEF Ledger!vars
  <2>4. CASE FlushClose(t)
    BY <2>4, LedgerFlushClose DEF Ledger!Next
  <2>5. CASE \/ Call(t) \/ Lock(t)
             \/ SpanRejectedFull(t) \/ SpanRejectedNoMemory(t)
             \/ BatchRejectedFull(t) \/ BatchRejectedNoMemory(t)
             \/ FlushNothing(t) \/ FlushOpenFails(t)
    BY <2>5, NothingMoves DEF Exported, Ledger!vars
  <2>6. QED
    BY <1>3, <2>1, <2>2, <2>3, <2>4, <2>5 DEF Holding
<1>4. QED
  BY <1>1, <1>2, <1>3 DEF Next

(* The store keeps the ledger of its header: batches are entered whole, a  *)
(* flush settles all that is pending when it closes its file, and no step  *)
(* of any thread, no failure and no crash brings a span back or drops one  *)
(* unseen.                                                                 *)
THEOREM StoreRefinesLedger == Spec => ImplementsLedger
<1>1. Init => Ledger!Init
  BY DEF Init, Pending, Exported, Ledger!Init
<1>2. Core /\ Owned /\ Kept /\ [Next]_vars => [Ledger!Next]_(Ledger!vars)
  BY LedgerStep
<1>3. QED
  BY CoreInit, CoreInductive, OwnedInit, OwnedInductive, KeptInit, KeptInductive,
     <1>1, <1>2, PTL DEF Spec, ImplementsLedger, Ledger!Spec
=============================================================================
