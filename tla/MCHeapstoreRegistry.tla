------------------------- MODULE MCHeapstoreRegistry ------------------------
(* A small instance of HeapstoreRegistry for TLC: two threads, two keys and *)
(* a batch that collides with what single inserts may store; one of the     *)
(* threads keeps an iterator.                                              *)
EXTENDS HeapstoreRegistry

CONSTANTS t1, t2, id1, id2, val1, val2

MCThreads == {t1, t2}
MCReaders == {t1}
MCIds == {id1, id2}
MCValues == {val1, val2}
MCBatches == {<<[id |-> id1, value |-> val1], [id |-> id2, value |-> val2]>>}
=============================================================================
