------------------------ MODULE MCHeapstoreMigration ------------------------
(* A small instance of HeapstoreMigration for TLC: the versions the code   *)
(* knows, a stamp that sends the next start through forward(0), and a row  *)
(* that another thread stores.                                             *)
EXTENDS HeapstoreMigration

CONSTANTS r1

MCRows == {r1}
=============================================================================
