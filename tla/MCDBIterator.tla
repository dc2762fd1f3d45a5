--------------------------- MODULE MCDBIterator ---------------------------
(* DBIterator over a memtable and one or two SSTables.                     *)
EXTENDS DBIterator

CONSTANTS v1, v2

(* The newer tables hold v2 and tombstones, the older v1 or, where the     *)
(* older file is data_0 and ranks with data_1, also tombstones.            *)
New == {Absent, Tombstone, v2}
Old == {Absent, v1}

MCStores ==
  [memtable : [Key -> New], ssts : {<<t>> : t \in [Key -> Old]}, ids : {<<0>>}]
  \cup [memtable : {EmptyTable},
        ssts : {<<s, t>> : s \in [Key -> New], t \in [Key -> Old]},
        ids : {<<2, 1>>}]
  \cup [memtable : {EmptyTable},
        ssts : {<<s, t>> : s \in [Key -> {Absent, v2}], t \in [Key -> {Tombstone, v1}]},
        ids : {<<1, 0>>}]
=============================================================================
