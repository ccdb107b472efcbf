------------------------- MODULE MCHeapstoreCircuit -------------------------
(* A small instance of HeapstoreCircuit for TLC: two configurations that   *)
(* differ in the threshold.                                                *)
EXTENDS HeapstoreCircuit

CONSTANTS t1, t2

MCThreads == {t1, t2}
MCConfigs == [threshold : {1, 2}, timeout : {1}]
=============================================================================
