-------------------------- MODULE MCHeapstoreTrace --------------------------
(* A small instance of HeapstoreTrace for TLC: two threads race on a buffer *)
(* that one batch and one span overfill.                                   *)
EXTENDS HeapstoreTrace

CONSTANTS t1, t2, s1, s2, s3, s4

MCBatches == {<<s2, s3>>}
MCThreads == {t1, t2}
MCSpans == {s1, s2, s3, s4}
MCHasAttributes == {s1, s2, s3}
=============================================================================
