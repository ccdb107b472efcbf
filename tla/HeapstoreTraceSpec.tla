-------------------------- MODULE HeapstoreTraceSpec ------------------------
(***************************************************************************)
(* What the trace store promises its callers of the spans it accepted: a   *)
(* ledger of three columns.  A write enters its spans, one or a whole      *)
(* batch, as pending; the pending spans leave together, for the files or   *)
(* for the losses; what was exported may still be lost; and nothing comes  *)
(* back.  HeapstoreTrace is shown to keep it, where a flush takes a step   *)
(* for every span and threads interleave.                                  *)
(***************************************************************************)
EXTENDS Naturals, Sequences

CONSTANTS Spans,   \* what is written
          Batches  \* the sequences of spans written by one call

VARIABLES
  pending,   \* accepted and not exported yet
  exported,  \* in a file a flush has finished
  lost       \* accepted once, and nowhere any more

vars == <<pending, exported, lost>>

SpansOf(b) == {b[i] : i \in 1..Len(b)}
InBatches == UNION {SpansOf(b) : b \in Batches}

(* What one call writes. *)
Writes == {{s} : s \in Spans \ InBatches} \cup {SpansOf(b) : b \in Batches}

Init == pending = {} /\ exported = {} /\ lost = {}

Write ==
  /\ \E new \in Writes :
       /\ new \cap (pending \cup exported \cup lost) = {}
       /\ pending' = pending \cup new
  /\ UNCHANGED <<exported, lost>>

(* A flush, or the end of the process: no pending span stays behind.       *)
Settle ==
  /\ \E failed \in SUBSET pending :
       /\ exported' = exported \cup (pending \ failed)
       /\ lost' = lost \cup failed
  /\ pending' = {}

(* A file is removed or overwritten. *)
Discard ==
  /\ \E gone \in SUBSET exported :
       /\ exported' = exported \ gone
       /\ lost' = lost \cup gone
  /\ UNCHANGED pending

Next == Write \/ Settle \/ Discard

Spec == Init /\ [][Next]_vars
=============================================================================
