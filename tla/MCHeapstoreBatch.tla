-------------------------- MODULE MCHeapstoreBatch --------------------------
(* A small instance of HeapstoreBatch for TLC: four items, two of them     *)
(* with the same id, and contexts smaller than the items that race for     *)
(* their slots.                                                            *)
EXTENDS HeapstoreBatch

CONSTANTS t1, t2, i1, i2, i3, i4, a, b, c

MCThreads == {t1, t2}
MCItems == {i1, i2, i3, i4}
MCSessionIds == {a, b, c}
MCSessionId == [i \in MCItems |-> CASE i \in {i1, i2} -> a
                                    [] i = i3 -> b
                                    [] i = i4 -> c]
MCBatchSizes == {0, 1, 5}
=============================================================================
