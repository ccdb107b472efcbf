--------------------------- MODULE MCHeapstoreLog ---------------------------
(* A small instance of HeapstoreLog for TLC: a table of one service for    *)
(* two, so that one of them overflows to the main file, and a retention    *)
(* that the clock passes.                                                  *)
EXTENDS HeapstoreLog, TLC

CONSTANTS w1, w2, m, ipc, gateway, a, b, c

MCWriters == {w1, w2}
MCCleaners == {m}
Symmetry == Permutations(MCWriters)
MCServices == {ipc, gateway}
MCLines == {a, b, c}
MCServiceOf == [l \in MCLines |-> IF l = a THEN ipc ELSE IF l = b THEN gateway ELSE NoService]
MCLevelOf == [l \in MCLines |-> IF l = b THEN 0 ELSE 1]

=============================================================================
