------------------------ MODULE HeapstoreRegistryNodes -----------------------
(***************************************************************************)
(* The linked list of the in-memory registry (src/src/heapstore_registry.c *)
(* 15-63, 267-290) and an iterator over it: what can be said of them in    *)
(* one state, whoever calls.  HeapstoreRegistryList has the operations.    *)
(*                                                                         *)
(* A node is a record with a serial number, [serial, id, value]; the       *)
(* number stands for its address.                                          *)
(***************************************************************************)
EXTENDS Naturals, Sequences

CONSTANT None  \* a null pointer; no iterator

VARIABLES
  list,     \* the nodes from s_registry.agents on
  leaked,   \* a list that init forgot, under the iterator
  iterator  \* the iterator, or None

Serials(s) == {s[i].serial : i \in DOMAIN s}
IdsOf(s) == {s[i].id : i \in DOMAIN s}

(* The nodes from the one with this serial number on. *)
From(s, serial) ==
  LET at == {i \in DOMAIN s : s[i].serial = serial}
  IN  IF at = {} THEN <<>> ELSE SubSeq(s, CHOOSE i \in at : TRUE, Len(s))

HeadOf(s) == IF s = <<>> THEN None ELSE s[1].serial

(* An iterator: its cursor, the nodes it has still to return of those that *)
(* were in the list when it was opened, the nodes it has returned, and     *)
(* whether its node was freed under it.                                    *)
Iterator(cursor, due) ==
  [cursor |-> cursor, due |-> due, got |-> <<>>, dangling |-> FALSE]

(* The nodes from the cursor on. *)
Ahead == From(list, iterator.cursor) \o From(leaked, iterator.cursor)

-----------------------------------------------------------------------------
(* No id is in the list twice.                                             *)
UniqueIds == \A i, j \in DOMAIN list : list[i].id = list[j].id => i = j

(* While no node is freed under it, an iterator has every record that was  *)
(* there when it was opened, and was not deleted since, behind it or ahead *)
(* of it, and returns none twice: records added, updated and deleted       *)
(* between two calls of iter_next do not make it miss or repeat others.    *)
IterationComplete ==
  iterator # None /\ ~iterator.dangling =>
    /\ iterator.due \subseteq Serials(Ahead)
    /\ \A i, j \in DOMAIN iterator.got : iterator.got[i] = iterator.got[j] => i = j
    /\ \A i \in DOMAIN iterator.got : iterator.got[i] \notin Serials(Ahead)
=============================================================================
