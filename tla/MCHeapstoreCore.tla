--------------------------- MODULE MCHeapstoreCore ---------------------------
(* HeapstoreCore for TLC: two callers, retentions of one or two days, and    *)
(* requests that swap the retentions, set one of them, or stop the cleanup.  *)
EXTENDS HeapstoreCore, TLC
CONSTANTS t1, t2

MCThreads == {t1, t2}
MCRequests ==
  {[auto |-> TRUE, log |-> 1, trace |-> 2], [auto |-> TRUE, log |-> 2, trace |-> 1],
   [auto |-> FALSE, log |-> 0, trace |-> 1]}
MCSymmetry == Permutations(MCThreads)

=============================================================================
