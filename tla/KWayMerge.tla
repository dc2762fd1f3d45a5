----------------------------- MODULE KWayMerge -----------------------------
(***************************************************************************)
(* Compactor::Compact: the loop that merges sorted tables through a heap.  *)
(*                                                                         *)
(* An input is an SSTableIterator over one table, whose keys ascend, with  *)
(* the generation (file_id) of its file.  The heap holds at most one node  *)
(* per input, a copy of the record its iterator stands on.  Tables states  *)
(* what the result must be (CompactOutcomes, which Engine uses for a       *)
(* compaction); this module shows that the loop computes it.               *)
(***************************************************************************)
EXTENDS Tables

CONSTANTS
  CompactorInputs,  \* the sequences of inputs Compact may be called with
  End               \* the position of an iterator that is not Valid()

ASSUME MergeConstants ==
  /\ Key \subseteq Nat
  /\ End \notin Nat
  /\ CompactorInputs \subseteq Seq([generation : Nat, table : Table])

VARIABLES
  inputs,   \* the argument
  purge,    \* purge_tombstones
  position, \* the key each iterator stands on, or End
  heap,     \* the inputs that have a node in min_heap
  winner,   \* the node popped for the key being merged
  output,   \* the records given to SSTableBuilder::Add
  pc

vars == <<inputs, purge, position, heap, winner, output, pc>>

Record == [key : Key, cell : Written]

-----------------------------------------------------------------------------
(* SSTableIterator: the first key of a table, and the one after another.   *)

First(keys) == IF keys = {} THEN End ELSE Min(keys)

SeekToFirst(input) == First(Entries(input.table))

After(input, key) == First({k \in Entries(input.table) : k > key})

(* Mutant of Precedes: the tie-break the other way round.                  *)
PrecedesOldest(i, j) ==
  \/ position[i] < position[j]
  \/ position[i] = position[j] /\ inputs[i].generation < inputs[j].generation

(* HeapNode: node i pops before node j.                                    *)
Precedes(i, j) ==
  \/ position[i] < position[j]
  \/ position[i] = position[j] /\ inputs[i].generation > inputs[j].generation

(* Nodes that may be top(): nothing precedes them.  The queue leaves the   *)
(* choice open between nodes equal in key and generation.                  *)
Tops == {i \in heap : \A j \in heap : ~ Precedes(j, i)}

(* Mutant of Advance: the node goes back even when its input is exhausted. *)
AdvanceAlways(i) ==
  /\ position' = [position EXCEPT ![i] = After(inputs[i], position[i])]
  /\ heap' = heap

(* Pop node i, move its iterator on, and push it back unless exhausted.    *)
Advance(i) ==
  /\ position' = [position EXCEPT ![i] = After(inputs[i], position[i])]
  /\ heap' = IF position'[i] = End THEN heap \ {i} ELSE heap

-----------------------------------------------------------------------------
Init ==
  /\ inputs \in CompactorInputs
  /\ purge \in BOOLEAN
  /\ position = [i \in DOMAIN inputs |-> SeekToFirst(inputs[i])]
  /\ heap = {i \in DOMAIN inputs : position[i] # End}
  /\ winner = End
  /\ output = <<>>
  /\ pc = "pop"

(* The smallest key, and of its versions the highest generation.           *)
PopWinner ==
  /\ pc = "pop"
  /\ \E i \in Tops :
       /\ winner' = [key |-> position[i], cell |-> inputs[i].table[position[i]]]
       /\ Advance(i)
  /\ pc' = "drain"
  /\ UNCHANGED <<inputs, purge, output>>

(* Mutants of DrainDuplicate: the iterator is not moved on; the last       *)
(* version popped wins.                                                    *)
DrainDuplicateInPlace ==
  /\ pc = "drain"
  /\ \E i \in Tops : position[i] = winner.key
  /\ UNCHANGED vars

DrainDuplicateReplacing ==
  /\ pc = "drain"
  /\ \E i \in Tops :
       /\ position[i] = winner.key
       /\ winner' = [key |-> position[i], cell |-> inputs[i].table[position[i]]]
       /\ Advance(i)
  /\ UNCHANGED <<inputs, purge, output, pc>>

(* The other versions of the winner's key are passed over.                 *)
DrainDuplicate ==
  /\ pc = "drain"
  /\ \E i \in Tops : position[i] = winner.key /\ Advance(i)
  /\ UNCHANGED <<inputs, purge, winner, output, pc>>

(* Mutant of Emit: it does not wait for the duplicates to be drained.      *)
EmitEarly ==
  /\ pc = "drain"
  /\ output' = IF purge /\ winner.cell = Tombstone THEN output
                                                   ELSE Append(output, winner)
  /\ pc' = "pop"
  /\ UNCHANGED <<inputs, purge, position, heap, winner>>

(* A tombstone is dropped when purging; every other winner is written.     *)
Emit ==
  /\ pc = "drain"
  /\ \A i \in Tops : position[i] # winner.key
  /\ output' = IF purge /\ winner.cell = Tombstone THEN output
                                                   ELSE Append(output, winner)
  /\ pc' = "pop"
  /\ UNCHANGED <<inputs, purge, position, heap, winner>>

Finish ==
  /\ pc = "pop"
  /\ heap = {}
  /\ pc' = "done"
  /\ UNCHANGED <<inputs, purge, position, heap, winner, output>>

Next == PopWinner \/ DrainDuplicate \/ Emit \/ Finish

Spec == Init /\ [][Next]_vars /\ WF_vars(Next)

-----------------------------------------------------------------------------
(* Properties.                                                             *)

(* Types; an exhausted iterator has no node, so its record is never read.  *)
TypeOK ==
  /\ inputs \in CompactorInputs
  /\ purge \in BOOLEAN
  /\ position \in [DOMAIN inputs -> Key \cup {End}]
  /\ heap \subseteq {i \in DOMAIN inputs : position[i] # End}
  /\ winner \in Record \cup {End}
  /\ output \in Seq(Record)
  /\ pc \in {"pop", "drain", "done"}

(* The output ascends strictly, which SSTableReader's search needs: a key  *)
(* is written once, however many inputs hold it.                           *)
OutputAscends ==
  \A i, j \in DOMAIN output : i < j => output[i].key < output[j].key

(* What the output holds for k.                                            *)
Merged(k) ==
  LET at == {i \in DOMAIN output : output[i].key = k}
  IN  IF at = {} THEN Absent ELSE output[Min(at)].cell

(* A key leaves the inputs only into the output: when the loop is between  *)
(* two keys, every key behind the iterators has been merged to a winner's  *)
(* version, and no key ahead of them has been touched.                     *)
Passed(k) == \A i \in heap : k < position[i]

MergedSoFar ==
  pc # "drain" =>
    \A k \in Key :
      IF Passed(k) /\ Holders(inputs, k) # {}
        THEN \E i \in Winners(inputs, k) :
               Merged(k) = IF purge THEN Answer(inputs[i].table[k])
                                    ELSE inputs[i].table[k]
        ELSE Merged(k) = Absent

(* The result of a purging merge is one Engine's compaction allows.        *)
ResultAllowed ==
  pc = "done" /\ purge => [k \in Key |-> Merged(k)] \in CompactOutcomes(inputs)

(* The loop ends, whatever the ties.                                       *)
Terminates == <>(pc = "done")
=============================================================================
