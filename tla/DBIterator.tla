---------------------------- MODULE DBIterator ----------------------------
(***************************************************************************)
(* DBIterator: the merged scan over the memtable and the SSTables, under   *)
(* Scan, PrefixScan and NewIterator.                                       *)
(*                                                                         *)
(* NewIterator releases the engine mutex when it returns.  The SSTables    *)
(* under an iterator never change, but the memtable is the live skip list: *)
(* between two calls to the iterator keys may be put and deleted, and a    *)
(* flush frees it.  During a call such a step is a data race, whose        *)
(* outcome C++ leaves undefined: here they fall between calls.             *)
(*                                                                         *)
(* Keys are numbers above 0; 0 stands for the empty string, which is the   *)
(* smallest start key and, as an end key, no bound.                        *)
(*                                                                         *)
(* Files are ranked by their id, and data_0 by its place in the list; so   *)
(* two files may rank alike, and then either version of a key may win.     *)
(***************************************************************************)
EXTENDS Tables

CONSTANTS
  Stores,    \* the databases iterated over: a memtable and SSTables, newest first,
             \* with the ids of their files
  Starts,    \* start keys
  Ends,      \* end keys
  MaxPast,   \* bound: different contents while one iterator is in use
  Nil        \* an invalid position

ASSUME IteratorConstants ==
  /\ Key \subseteq Nat \ {0}
  /\ Starts \subseteq Key \cup {0}
  /\ Ends \subseteq Key \cup {0}
  /\ Stores \subseteq [memtable : Table, ssts : Seq(Table), ids : Seq(Nat)]
  /\ \A s \in Stores : Len(s.ids) = Len(s.ssts)
  /\ Nil \notin Nat /\ Nil \notin [key : Key, value : Value]
  /\ MaxPast \in Nat

VARIABLES
  memtable,   \* the skip list the iterator walks
  freed,      \* a flush has destroyed it
  ssts,       \* the SSTables the iterator has open, newest first
  ids,        \* the ids of their files
  range,      \* start_key_ and end_key_
  position,   \* where each source stands: a key, or Nil
  heap,       \* the sources that have a node in min_heap_
  candidate,  \* the record popped last
  current,    \* current_key_ and current_value_, or Nil if not valid_
  pc,         \* "none" before NewIterator, "client" between two calls
  target,     \* history: the key last sought
  returned,   \* history: what the iterator stood on since
  past        \* history: the contents of the database since NewIterator

store == <<memtable, freed, ssts, ids>>
history == <<target, returned, past>>
vars == <<store, range, position, heap, candidate, current, pc, history>>

(* Source 0 is the memtable, source i the i-th SSTable.                    *)
Sources == 0 .. Len(ssts)
TableOf(i) == IF i = 0 THEN memtable ELSE ssts[i]

(* The database as a Get sees it, when the memtable is m.                  *)
Contents(m) == [k \in Key |-> Answer(Lookup(<<m>> \o ssts, k))]

-----------------------------------------------------------------------------
(* The heap.                                                               *)

First(keys) == IF keys = {} THEN Nil ELSE Min(keys)

(* NewIterator takes the id of a file for its generation; for id 0, which  *)
(* is also the answer for a name without an id, its place from the end.    *)
Generation(i) == IF ids[i] = 0 THEN Len(ssts) - i + 1 ELSE ids[i]

(* The memtable has the largest generation there is.                       *)
Newer(i, j) == j # 0 /\ (i = 0 \/ Generation(i) > Generation(j))

(* Mutant of Precedes: the oldest source first.                            *)
PrecedesOldest(i, j) ==
  position[i] < position[j] \/ (position[i] = position[j] /\ i > j)

(* HeapNode: smaller keys first; of equal keys the newer source.           *)
Precedes(i, j) ==
  position[i] < position[j] \/ (position[i] = position[j] /\ Newer(i, j))

(* Nodes that may be top(): between nodes equal in key and generation the  *)
(* queue leaves the choice open.                                           *)
Tops == {i \in heap : \A j \in heap : ~ Precedes(j, i)}

(* The memtable can be read.                                               *)
Readable(i) == i = 0 => ~ freed

(* Mutant of Advance: the source is not pushed back.                       *)
AdvanceOnly(i) ==
  /\ position' = [position EXCEPT ![i] = First({k \in Entries(TableOf(i)) : k > position[i]})]
  /\ heap' = heap \ {i}

(* Move a popped source on, and push it back unless it is exhausted.       *)
Advance(i) ==
  /\ Readable(i)
  /\ position' = [position EXCEPT ![i] = First({k \in Entries(TableOf(i)) : k > position[i]})]
  /\ heap' = IF position'[i] = Nil THEN heap \ {i} ELSE heap

-----------------------------------------------------------------------------
(* The calls of a client.                                                  *)

(* Mutant of SeekSources: the target is passed over.                       *)
SeekSourcesAfter(key) ==
  /\ ~ freed
  /\ position' = [i \in Sources |-> First({k \in Entries(TableOf(i)) : k > key})]
  /\ heap' = {i \in Sources : position'[i] # Nil}

SeekSources(key) ==
  /\ ~ freed
  /\ position' = [i \in Sources |-> First({k \in Entries(TableOf(i)) : k >= key})]
  /\ heap' = {i \in Sources : position'[i] # Nil}

(* A seek to a key looks for the first live key from there on; behind the  *)
(* end key there is nothing to look for, and only the heap is emptied.     *)
SeekFrom(key) ==
  /\ range'.end = 0 \/ key <= range'.end
  /\ SeekSources(key)
  /\ target' = key
  /\ returned' = {}
  /\ pc' = "find"
  /\ UNCHANGED current

SeekPastEnd(key) ==
  /\ range'.end # 0
  /\ key > range'.end
  /\ heap' = {}
  /\ current' = Nil
  /\ target' = key
  /\ returned' = {}
  /\ pc' = "client"
  /\ UNCHANGED position

(* StorageEngine::NewIterator, which Scan and PrefixScan begin with.       *)
NewIterator(start, end) ==
  /\ pc = "none"
  /\ range' = [start |-> start, end |-> end]
  /\ SeekFrom(start) \/ SeekPastEnd(start)
  /\ past' = {Contents(memtable)}
  /\ UNCHANGED <<store, candidate>>

(* DBIterator::Seek: never to a key before the start.                      *)
Seek(key) ==
  /\ pc = "client"
  /\ UNCHANGED range
  /\ SeekFrom(Max({key, range.start})) \/ SeekPastEnd(Max({key, range.start}))
  /\ UNCHANGED <<store, candidate, past>>

Next ==
  /\ pc = "client"
  /\ current # Nil
  /\ pc' = "find"
  /\ UNCHANGED <<store, range, position, heap, candidate, current, history>>

-----------------------------------------------------------------------------
(* FindNextAliveKey.  The value is read when the node is popped.           *)

PopCandidate ==
  /\ pc = "find"
  /\ \E i \in Tops :
       /\ candidate' = [key |-> position[i], cell |-> TableOf(i)[position[i]]]
       /\ Advance(i)
  /\ pc' = "drain"
  /\ UNCHANGED <<store, range, current, history>>

DrainDuplicate ==
  /\ pc = "drain"
  /\ \E i \in Tops : position[i] = candidate.key /\ Advance(i)
  /\ UNCHANGED <<store, range, candidate, current, pc, history>>

Drained == \A i \in heap : position[i] # candidate.key

(* Mutant of PastEnd: the end key is ignored.                              *)
PastEndNever == FALSE

PastEnd == range.end # 0 /\ candidate.key > range.end

Stop ==
  /\ current' = Nil
  /\ pc' = "client"
  /\ UNCHANGED <<store, range, position, heap, candidate, history>>

(* Mutants of Settle: duplicates are left in the heap; a tombstone is      *)
(* returned as a value.                                                    *)
SettleEarly ==
  /\ pc = "drain"
  /\ ~ PastEnd
  /\ candidate.cell \in Value
  /\ current' = [key |-> candidate.key, value |-> candidate.cell]
  /\ returned' = returned \cup {current'}
  /\ pc' = "client"
  /\ UNCHANGED <<store, range, position, heap, candidate, target, past>>

SettleDeleted ==
  /\ pc = "drain"
  /\ Drained
  /\ ~ PastEnd
  /\ current' = [key |-> candidate.key, value |-> candidate.cell]
  /\ returned' = returned \cup {current'}
  /\ pc' = "client"
  /\ UNCHANGED <<store, range, position, heap, candidate, target, past>>

(* A live candidate within the range is where the iterator now stands.     *)
Settle ==
  /\ pc = "drain"
  /\ Drained
  /\ ~ PastEnd
  /\ candidate.cell \in Value
  /\ current' = [key |-> candidate.key, value |-> candidate.cell]
  /\ returned' = returned \cup {current'}
  /\ pc' = "client"
  /\ UNCHANGED <<store, range, position, heap, candidate, target, past>>

SkipDeleted ==
  /\ pc = "drain"
  /\ Drained
  /\ ~ PastEnd
  /\ candidate.cell = Tombstone
  /\ pc' = "find"
  /\ UNCHANGED <<store, range, position, heap, candidate, current, history>>

StopAtEnd == pc = "drain" /\ Drained /\ PastEnd /\ Stop

Exhaust == pc = "find" /\ heap = {} /\ Stop

-----------------------------------------------------------------------------
(* The rest of the engine, between two calls.                              *)

Write(k, c) ==
  /\ pc = "client"
  /\ ~ freed
  /\ memtable' = [memtable EXCEPT ![k] = c]
  /\ past' = past \cup {Contents(memtable')}
  /\ Cardinality(past') <= MaxPast
  /\ UNCHANGED <<freed, ssts, ids, range, position, heap, candidate, current, pc,
                 target, returned>>

(* Step 6 of FlushMemTableInternal; the contents move to an SSTable that   *)
(* this iterator does not have.                                            *)
FreeMemTable ==
  /\ pc = "client"
  /\ ~ freed
  /\ Entries(memtable) # {}
  /\ freed' = TRUE
  /\ UNCHANGED <<memtable, ssts, ids, range, position, heap, candidate, current, pc, history>>

-----------------------------------------------------------------------------
Init ==
  /\ \E s \in Stores : memtable = s.memtable /\ ssts = s.ssts /\ ids = s.ids
  /\ freed = FALSE
  /\ range = [start |-> 0, end |-> 0]
  /\ position = [i \in Sources |-> Nil]
  /\ heap = {}
  /\ candidate = Nil
  /\ current = Nil
  /\ pc = "none"
  /\ target = 0
  /\ returned = {}
  /\ past = {}

FindNextAliveKey ==
  PopCandidate \/ DrainDuplicate \/ Settle \/ SkipDeleted \/ StopAtEnd \/ Exhaust

Step ==
  \/ \E s \in Starts, e \in Ends : NewIterator(s, e)
  \/ \E k \in Starts : Seek(k)
  \/ Next
  \/ FindNextAliveKey
  \/ \E k \in Key, c \in Written : Write(k, c)
  \/ FreeMemTable

Spec == Init /\ [][Step]_vars

-----------------------------------------------------------------------------
(* Properties.                                                             *)

(* Types; the iterator stands on a live value, never on a tombstone.       *)
TypeOK ==
  /\ memtable \in Table
  /\ freed \in BOOLEAN
  /\ position \in [Sources -> Key \cup {Nil}]
  /\ heap \subseteq {i \in Sources : position[i] # Nil}
  /\ candidate \in [key : Key, cell : Written] \cup {Nil}
  /\ current \in [key : Key, value : Value] \cup {Nil}
  /\ pc \in {"none", "client", "find", "drain"}
  /\ target \in Key \cup {0}
  /\ returned \subseteq [key : Key, value : Value]

(* Among the files that hold k, a newer one has the larger generation.     *)
(* Only data_0 can rank with another file, and then both must hold k.      *)
Ranked(k) ==
  \A i, j \in DOMAIN ssts :
    i < j /\ ssts[i][k] # Absent /\ ssts[j][k] # Absent => Generation(i) > Generation(j)

(* Every pair returned was in the database at some moment since the        *)
(* iterator was made: never a version that a newer source had already      *)
(* overwritten or deleted by then.  Not so for a key that two files of     *)
(* one generation hold.                                                    *)
ReturnsLive ==
  \A r \in returned : Ranked(r.key) => \E c \in past : c[r.key] = r.value

(* A key that kept one live value while the iterator was in use is not     *)
(* passed over, whatever is written around it; unless two files of one     *)
(* generation hold it, when an older tombstone may hide it.                *)
Steady(k) == \E v \in Value : \A c \in past : c[k] = v

Behind(k) == IF current = Nil THEN range.end = 0 \/ k <= range.end
                              ELSE k <= current.key

NothingSkipped ==
  pc = "client" =>
    \A k \in Key : Steady(k) /\ Ranked(k) /\ k >= target /\ Behind(k) =>
      \E r \in returned : r.key = k

(* Only keys between what was sought and the end key are returned.         *)
InRange ==
  \A r \in returned : r.key >= target /\ (range.end # 0 => r.key <= range.end)

(* Between two seeks the keys returned ascend strictly.                    *)
Ascends ==
  [][\A r \in returned, s \in returned' \ returned : r.key < s.key]_vars

(* "Creates a new iterator over the MemTable snapshot" (memtable.hpp): the *)
(* records an iterator stands on can be read when the client asks for the  *)
(* next, whatever happened to the engine in between.                       *)
NeverReadsFreed == freed /\ pc = "find" /\ heap # {} => 0 \notin Tops
=============================================================================
