-------------------------- MODULE MCHeapstoreMemory -------------------------
(* A small instance of HeapstoreMemory for TLC: two threads, two ids, room  *)
(* for both pools and for one of the two allocations.                      *)
EXTENDS HeapstoreMemory

CONSTANTS t1, t2, id1, id2, low, high

MCThreads == {t1, t2}
MCIds == {id1, id2}
MCUsages == {low, high}
=============================================================================
