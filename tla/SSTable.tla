------------------------------ MODULE SSTable -------------------------------
(***************************************************************************)
(* An SSTable file: SSTableBuilder writes it, SSTableReader searches it    *)
(* through a sparse index, SSTableIterator walks it.                       *)
(*                                                                         *)
(* A record's offset is its place in the file, and the index offset of the *)
(* footer is the place behind the last record.  The filter is kept for     *)
(* every hash in Hash at once, so what is shown of a file holds for each.  *)
(***************************************************************************)
EXTENDS BloomFilter, Sequences, SequencesExt

CONSTANTS
  kSparseIndexInterval,
  Hash        \* the hashes considered

ASSUME SSTableConstants == kSparseIndexInterval \in Nat \ {0}

EmptyFile ==
  [records |-> <<>>, index |-> <<>>, filter |-> [h \in Hash |-> EmptyFilter]]

(* SSTableBuilder::Add.                                                    *)
AddRecord(file, key, e) ==
  LET offset == Len(file.records)
  IN  [records |-> Append(file.records, [key |-> key, entry |-> e]),
       index |-> IF offset % kSparseIndexInterval = 0
                   THEN Append(file.index, [key |-> key, offset |-> offset])
                   ELSE file.index,
       filter |-> [h \in Hash |-> AddKey(file.filter[h], h, key)]]

(* Mutant of StartOffset: lower_bound without the step back.               *)
StartOffsetAtBound(index, key) ==
  LET bound == {i \in DOMAIN index : index[i].key >= key}
  IN  IF bound = {} THEN Last(index).offset ELSE index[Min(bound)].offset

(* Where Get starts to read.  bound is what std::lower_bound returns: the  *)
(* first index entry not below the key; behind the last one, or between    *)
(* two, the search starts at the entry before.                             *)
StartOffset(index, key) ==
  LET bound == {i \in DOMAIN index : index[i].key >= key}
      i == Min(bound)
  IN  IF bound = {} THEN Last(index).offset
      ELSE IF index[i].key = key \/ i = 1 THEN index[i].offset
      ELSE index[i - 1].offset

(* SSTableReader::Get: records are read from there until the key, a larger *)
(* key or the end.  NotFound is the result false.                          *)
ReaderGet(file, hash, key, NotFound) ==
  IF ~MayContain(file.filter[hash], hash, key) \/ file.index = <<>> THEN NotFound
  ELSE LET ahead == {p \in DOMAIN file.records :
                       /\ p > StartOffset(file.index, key)
                       /\ file.records[p].key >= key}
       IN  IF ahead # {} /\ file.records[Min(ahead)].key = key
             THEN file.records[Min(ahead)].entry ELSE NotFound
=============================================================================
