----------------------- MODULE MCHeapstoreRegistryList ----------------------
(* A small instance of HeapstoreRegistryList for TLC: three ids, inserted   *)
(* alone and in a batch whose second record may be there already.          *)
EXTENDS HeapstoreRegistryList

CONSTANTS t1, t2, id1, id2, id3, val1, val2

MCThreads == {t1, t2}
MCIds == {id1, id2, id3}
MCValues == {val1, val2}
MCInserts ==
  {<<[id |-> id, value |-> val1]>> : id \in MCIds}
    \cup {<<[id |-> id1, value |-> val1], [id |-> id2, value |-> val1],
            [id |-> id3, value |-> val1]>>}
=============================================================================
