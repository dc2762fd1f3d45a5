------------------------------- MODULE Tables -------------------------------
(***************************************************************************)
(* The data of the storage engine: cells, sorted tables, the log, and the  *)
(* pure functions the engine computes from them.                           *)
(*                                                                         *)
(* A memtable (SkipList) and an SSTable are both a map from keys to cells; *)
(* a cell is a value, a tombstone, or Absent when the table has no entry   *)
(* for the key.                                                            *)
(***************************************************************************)
EXTENDS Naturals, Sequences, SequencesExt

CONSTANTS
  Key,        \* keys
  Value,      \* values a Put may carry
  Tombstone,  \* the cell a Delete writes (ValueType::kTypeDeletion)
  Absent      \* the table has no entry for the key

ASSUME CellsDistinct == /\ Tombstone # Absent
                        /\ Tombstone \notin Value
                        /\ Absent \notin Value

Written == Value \cup {Tombstone}
Cell == Written \cup {Absent}
Table == [Key -> Cell]
LogEntry == [key : Key, cell : Written]

EmptyTable == [k \in Key |-> Absent]
Entries(table) == {k \in Key : table[k] # Absent}

(* What a caller sees of a cell: a tombstone reads as a missing key.       *)
Answer(cell) == IF cell \in Value THEN cell ELSE Absent

(* The first table of a sequence, newest first, that has an entry for k    *)
(* decides; a tombstone in it stops the search.                            *)
Lookup(tables, k) ==
  LET hits == {i \in DOMAIN tables : tables[i][k] # Absent}
  IN  IF hits = {} THEN Absent ELSE tables[Min(hits)][k]

(* Replaying the log inserts its entries in order, so the last entry of    *)
(* each key remains.                                                       *)
Replay(log) ==
  [k \in Key |->
     LET at == {i \in DOMAIN log : log[i].key = k}
     IN  IF at = {} THEN Absent ELSE log[Max(at)].cell]

(***************************************************************************)
(* Compactor::Compact.  An input is a table with its generation.  Of the   *)
(* inputs that hold a key, the heap pops one of the highest generation     *)
(* first; between equal generations the order of std::priority_queue is    *)
(* unspecified, so each of them may win.  The winner is written unless it  *)
(* is a tombstone.                                                         *)
(***************************************************************************)
Holders(inputs, k) == {i \in DOMAIN inputs : inputs[i].table[k] # Absent}

(* Mutant of Winners: the heap pops the lowest generation first.           *)
WinnersOldest(inputs, k) ==
  {i \in Holders(inputs, k) :
     \A j \in Holders(inputs, k) : inputs[j].generation >= inputs[i].generation}

Winners(inputs, k) ==
  {i \in Holders(inputs, k) :
     \A j \in Holders(inputs, k) : inputs[j].generation <= inputs[i].generation}

CompactOutcomes(inputs) ==
  {t \in Table :
     \A k \in Key :
       IF Holders(inputs, k) = {}
         THEN t[k] = Absent
         ELSE \E i \in Winners(inputs, k) : t[k] = Answer(inputs[i].table[k])}

(* The members of list that are in S, in order.                            *)
Select(list, S) ==
  LET Kept[n \in 0 .. Len(list)] ==
        IF n = 0 THEN <<>>
        ELSE IF list[n] \in S THEN Append(Kept[n - 1], list[n])
        ELSE Kept[n - 1]
  IN  Kept[Len(list)]
=============================================================================
