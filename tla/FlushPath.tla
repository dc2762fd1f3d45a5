----------------------------- MODULE FlushPath ------------------------------
(***************************************************************************)
(* From a write to an SSTable: StorageEngine::Put and Delete on a memtable *)
(* that was recovered from a log, the flush that copies the skip list into *)
(* a table record by record, and searches in that table.  One iterator     *)
(* follows the list's pointers meanwhile.                                  *)
(***************************************************************************)
EXTENDS MemTable, SSTable

CONSTANTS
  WriteBuffer,  \* write_buffer_size_
  MaxReplay,    \* bound: longest log the constructor finds
  MaxWrites     \* bound: writes between two flushes

ASSUME FlushConstants == {WriteBuffer, MaxReplay, MaxWrites} \subseteq Nat

VARIABLES
  phase,      \* what the thread that holds the engine's mutex is doing
  log,        \* entries the constructor has still to replay
  position,   \* the flush's iterator over the memtable
  file,       \* the table being built or searched
  writes      \* writes since the last flush

flushVars == <<memTableVars, phase, log, position, file, writes>>

LogEntry == [key : Key, entry : Written]

(* RecoverFromWAL: the entries go through the same accounting, but nobody  *)
(* looks at the size.                                                      *)
Replay ==
  /\ phase = "replay"
  /\ log # <<>>
  /\ Write(log[1].key, log[1].entry)
  /\ log' = Tail(log)
  /\ UNCHANGED <<phase, position, file, writes>>

Open ==
  /\ phase = "replay"
  /\ log = <<>>
  /\ writer = "idle"
  /\ phase' = "idle"
  /\ UNCHANGED <<memTableVars, log, position, file, writes>>

Put(key, value) ==
  /\ phase = "idle"
  /\ writes < MaxWrites
  /\ Write(key, value)
  /\ writes' = writes + 1
  /\ phase' = "put"
  /\ UNCHANGED <<log, position, file>>

Delete(key) ==
  /\ phase = "idle"
  /\ writes < MaxWrites
  /\ Write(key, Tombstone)
  /\ writes' = writes + 1
  /\ phase' = "delete"
  /\ UNCHANGED <<log, position, file>>

(* The insert is done.  Only Put looks at the size.                        *)
Return ==
  /\ phase \in {"put", "delete"}
  /\ writer = "idle"
  /\ phase' = IF phase = "put" /\ usage >= WriteBuffer THEN "flush" ELSE "idle"
  /\ UNCHANGED <<memTableVars, log, position, file, writes>>

(* Mutant of FlushMemTable: an empty memtable is flushed, too.             *)
FlushMemTableAlways ==
  /\ phase = "idle"
  /\ phase' = "flush"
  /\ UNCHANGED <<memTableVars, log, position, file, writes>>

FlushMemTable ==
  /\ phase = "idle"
  /\ ~Empty
  /\ phase' = "flush"
  /\ UNCHANGED <<memTableVars, log, position, file, writes>>

-----------------------------------------------------------------------------
(* FlushMemTableInternal.  An iterator may still be open; as it would read *)
(* a list that nobody changes any more, the model waits for it.            *)

BeginFlush ==
  /\ phase = "flush"
  /\ reader = "out"
  /\ position' = forward[0][HeadNode]
  /\ file' = EmptyFile
  /\ phase' = "build"
  /\ UNCHANGED <<memTableVars, log, writes>>

AddEntry ==
  /\ phase = "build"
  /\ position # Nil
  /\ file' = AddRecord(file, position, entry[position])
  /\ position' = forward[0][position]
  /\ UNCHANGED <<memTableVars, phase, log, writes>>

FinishTable ==
  /\ phase = "build"
  /\ position = Nil
  /\ phase' = "table"
  /\ UNCHANGED <<memTableVars, log, position, file, writes>>

(* A fresh memtable.  What happens to an iterator that still refers to the *)
(* old one is shown in DBIterator; here it has been dropped.               *)
NewMemTable ==
  /\ phase = "table"
  /\ Clear
  /\ file' = EmptyFile
  /\ writes' = 0
  /\ phase' = "idle"
  /\ UNCHANGED <<log, position>>

-----------------------------------------------------------------------------
Init ==
  /\ InitMemTable
  /\ phase = "replay"
  /\ log \in UNION {[1 .. n -> LogEntry] : n \in 0 .. MaxReplay}
  /\ position = Nil
  /\ file = EmptyFile
  /\ writes = 0

(* The steps that leave everything but the skip list alone.  A seek that   *)
(* begins during a flush would meet a list nobody changes.                 *)
Concurrent ==
  /\ \/ InsertStep
     \/ ReaderStep
     \/ phase \in {"idle", "put", "delete"} /\ \E k \in Key \cup {HeadNode} : Seek(k)
  /\ UNCHANGED <<entry, usage, count, phase, log, position, file, writes>>

Next ==
  \/ Replay
  \/ Open
  \/ \E k \in Key, v \in ValueSize : Put(k, v)
  \/ \E k \in Key : Delete(k)
  \/ Return
  \/ FlushMemTable
  \/ BeginFlush
  \/ AddEntry
  \/ FinishTable
  \/ NewMemTable
  \/ Concurrent

Spec == Init /\ [][Next]_flushVars

-----------------------------------------------------------------------------
(* Properties.                                                             *)

(* Types; a flush has something to write, so no empty table is built.      *)
FlushTypeOK ==
  /\ MemTableTypeOK
  /\ phase \in {"replay", "idle", "put", "delete", "flush", "build", "table"}
  /\ log \in Seq(LogEntry)
  /\ position \in Key \cup {Nil}
  /\ \A i \in DOMAIN file.records : file.records[i] \in LogEntry
  /\ phase = "table" => file.records # <<>>
  /\ phase \notin {"replay", "put", "delete"} => writer = "idle"
  /\ writes \in 0 .. MaxWrites

(* A finished table ascends, as its iterators and the merge need it, and   *)
(* answers for every key, stored or not, before, between, on and behind    *)
(* its index entries, what the memtable held, with any hash function.      *)
TableFaithful ==
  phase = "table" =>
    /\ \A i, j \in DOMAIN file.records :
         i < j => file.records[i].key < file.records[j].key
    /\ \A k \in Key, h \in Hash : ReaderGet(file, h, k, Absent) = entry[k]
=============================================================================
