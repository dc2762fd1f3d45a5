------------------------------- MODULE Engine -------------------------------
(***************************************************************************)
(* StorageEngine over its files: the write path, flush, compaction and     *)
(* recovery, cut into one step per effect on disk, so that a crash of the  *)
(* process can fall between any two of them.                               *)
(*                                                                         *)
(* Every public operation holds StorageEngine::mutex_ from its first line  *)
(* to its last, so operations do not interleave: pc says where in the one  *)
(* running operation the engine is, and a reader can ask only when pc is   *)
(* "idle".  File I/O succeeds here; a crash loses memory and keeps what    *)
(* write() was given.                                                      *)
(***************************************************************************)
EXTENDS Tables

CONSTANTS
  Nil,              \* a null pointer, or a file that does not exist
  Partial,          \* a file whose SSTableBuilder has not finished
  Threshold,        \* compaction_threshold_
  WriteBuffer,      \* write_buffer_size_, counted in memtable entries
  FirstId,          \* sstable_id_counter_ of the directory first opened
  MaxId,            \* bound: largest file id
  MaxLog            \* bound: longest WAL

(* FirstId = 0 is an empty directory.  Otherwise the directory holds one   *)
(* SSTable, sstable_<FirstId - 1>: what is left of any history that has    *)
(* compacted.  A compaction needs an earlier flush, so it is never file 0. *)
ASSUME EngineConstants ==
  /\ Threshold \in Nat \ {0}
  /\ WriteBuffer \in Nat
  /\ FirstId \in Nat \ {1}
  /\ MaxId \in Nat
  /\ MaxLog \in Nat
  /\ FirstId <= MaxId + 1
  /\ Nil # Partial
  /\ Nil \notin Table
  /\ Partial \notin Table
  /\ Nil \notin LogEntry

VARIABLES
  \* on disk
  wal,        \* the entries of the log file
  manifest,   \* the file names MANIFEST lists, oldest first
  files,      \* each SSTable file: its table, Partial or Nil
  \* in the process
  pc,         \* the next step of the operation that holds the mutex
  op,         \* the log entry being written, or Nil
  active,     \* active_memtable_, or Nil
  immutable,  \* immutable_memtable_, or Nil
  sstables,   \* the names of the open readers, newest first
  counter,    \* sstable_id_counter_
  obsolete    \* compaction inputs still to be deleted

disk == <<wal, manifest, files>>
memory == <<op, active, immutable, sstables, counter, obsolete>>
vars == <<disk, pc, memory>>

FileName == [prefix : {"data", "sstable"}, id : 0 .. MaxId]
DataFile(id) == [prefix |-> "data", id |-> id]
CompactedFile(id) == [prefix |-> "sstable", id |-> id]

Content(names) == [i \in DOMAIN names |-> files[names[i]]]

-----------------------------------------------------------------------------
(* Reads.                                                                  *)

InMemTable(table, k) == table # Nil /\ table[k] # Absent

Get(k) ==
  IF InMemTable(active, k) THEN active[k]
  ELSE IF InMemTable(immutable, k) THEN immutable[k]
  ELSE Lookup(Content(sstables), k)

(* What Get would answer after a crash at this instant and a restart.      *)
DurableGet(k) ==
  IF Replay(wal)[k] # Absent THEN Replay(wal)[k]
  ELSE Lookup(Content(Reverse(manifest)), k)

-----------------------------------------------------------------------------
(* The constructor: readers for the files of MANIFEST that exist, each     *)
(* prepended, so newest first; the next id is one above the largest id     *)
(* seen; the memtable replays the log.                                     *)

Existing(names) == Select(names, {f \in FileName : files[f] # Nil})

(* Mutant of NextId: the largest id seen is handed out again.              *)
NextIdReused(names) ==
  IF names = <<>> THEN 0 ELSE Max({f.id : f \in ToSet(names)})

NextId(names) ==
  IF names = <<>> THEN 0 ELSE Max({f.id : f \in ToSet(names)}) + 1

Open ==
  /\ pc = "down"
  /\ \A f \in ToSet(Existing(manifest)) : files[f] # Partial
  /\ sstables' = Reverse(Existing(manifest))
  /\ counter' = NextId(Existing(manifest))
  /\ active' = Replay(wal)
  /\ pc' = "idle"
  /\ UNCHANGED <<disk, op, immutable, obsolete>>

(* The process ends, by a crash or by the destructor, which does nothing.  *)
Crash ==
  /\ pc # "down"
  /\ pc' = "down"
  /\ op' = Nil
  /\ active' = Nil
  /\ immutable' = Nil
  /\ sstables' = <<>>
  /\ counter' = 0
  /\ obsolete' = <<>>
  /\ UNCHANGED disk

-----------------------------------------------------------------------------
(* Put and Delete.                                                         *)

(* An operation may need one id for a flush and one for a compaction.      *)
RoomForIds == counter + 1 <= MaxId

(* WAL::Append: the entry is written and synced before memory changes.     *)
AppendLog(k, c) ==
  /\ pc = "idle"
  /\ RoomForIds
  /\ Len(wal) < MaxLog
  /\ wal' = Append(wal, [key |-> k, cell |-> c])
  /\ op' = [key |-> k, cell |-> c]
  /\ pc' = "apply"
  /\ UNCHANGED <<manifest, files, active, immutable, sstables, counter, obsolete>>

Usage(table) == Cardinality(Entries(table))

(* SkipList::Insert, then the flush rule, which only Put has.              *)
ApplyWrite ==
  /\ pc = "apply"
  /\ active' = [active EXCEPT ![op.key] = op.cell]
  /\ op' = Nil
  /\ pc' = IF op.cell # Tombstone /\ Usage(active') >= WriteBuffer
             THEN "flush" ELSE "idle"
  /\ UNCHANGED <<disk, immutable, sstables, counter, obsolete>>

-----------------------------------------------------------------------------
(* FlushMemTableInternal, called by Put, FlushMemTable and Close.          *)

FlushMemTable ==
  /\ pc = "idle"
  /\ RoomForIds
  /\ Entries(active) # {}
  /\ pc' = "flush"
  /\ UNCHANGED <<disk, memory>>

BeginFlush ==
  /\ pc = "flush"
  /\ immutable' = active
  /\ active' = Nil
  /\ counter' = counter + 1
  /\ files' = [files EXCEPT ![DataFile(counter)] = Partial]
  /\ pc' = "finish"
  /\ UNCHANGED <<wal, manifest, op, sstables, obsolete>>

(* Mutant of FinishFlush: the log is emptied before the table is listed.   *)
FinishFlushTruncating ==
  /\ pc = "finish"
  /\ files' = [files EXCEPT ![DataFile(counter - 1)] = immutable]
  /\ wal' = <<>>
  /\ pc' = "publish"
  /\ UNCHANGED <<manifest, memory>>

(* SSTableBuilder::Finish.  The id just taken is counter - 1.              *)
FinishFlush ==
  /\ pc = "finish"
  /\ files' = [files EXCEPT ![DataFile(counter - 1)] = immutable]
  /\ pc' = "publish"
  /\ UNCHANGED <<wal, manifest, memory>>

(* Mutants of PublishFlush: the reader goes to the end of the list; the    *)
(* name does not reach MANIFEST.                                           *)
PublishFlushBehind ==
  /\ pc = "publish"
  /\ sstables' = Append(sstables, DataFile(counter - 1))
  /\ manifest' = Append(manifest, DataFile(counter - 1))
  /\ pc' = "truncate"
  /\ UNCHANGED <<wal, files, op, active, immutable, counter, obsolete>>

PublishFlushUnlisted ==
  /\ pc = "publish"
  /\ sstables' = <<DataFile(counter - 1)>> \o sstables
  /\ pc' = "truncate"
  /\ UNCHANGED <<disk, op, active, immutable, counter, obsolete>>

(* The reader is prepended and the name appended to MANIFEST.              *)
PublishFlush ==
  /\ pc = "publish"
  /\ sstables' = <<DataFile(counter - 1)>> \o sstables
  /\ manifest' = Append(manifest, DataFile(counter - 1))
  /\ pc' = "truncate"
  /\ UNCHANGED <<wal, files, op, active, immutable, counter, obsolete>>

(* Mutant of TruncateLog: no fresh memtable.                               *)
TruncateLogOnly ==
  /\ pc = "truncate"
  /\ immutable' = Nil
  /\ wal' = <<>>
  /\ pc' = IF Len(sstables) >= Threshold THEN "compact" ELSE "idle"
  /\ UNCHANGED <<manifest, files, op, active, sstables, counter, obsolete>>

TruncateLog ==
  /\ pc = "truncate"
  /\ immutable' = Nil
  /\ wal' = <<>>
  /\ active' = EmptyTable
  /\ pc' = IF Len(sstables) >= Threshold THEN "compact" ELSE "idle"
  /\ UNCHANGED <<manifest, files, op, sstables, counter, obsolete>>

-----------------------------------------------------------------------------
(* TriggerCompactionInternal: all SSTables are merged into one.            *)

TriggerCompaction ==
  /\ pc = "idle"
  /\ RoomForIds
  /\ Len(sstables) >= Threshold
  /\ pc' = "compact"
  /\ UNCHANGED <<disk, memory>>

(* Mutant of Generation: the position among the readers.                   *)
GenerationByPosition(names, i) == i

(* The generation of the i-th reader: the id in its file name, where a     *)
(* parsed 0 is taken for "no id" and replaced by its distance to the end.  *)
Generation(names, i) ==
  IF names[i].id = 0 THEN Len(names) - i + 1 ELSE names[i].id

Inputs(names) ==
  [i \in DOMAIN names |-> [generation |-> Generation(names, i),
                           table |-> files[names[i]]]]

BeginCompaction ==
  /\ pc = "compact"
  /\ counter' = counter + 1
  /\ files' = [files EXCEPT ![CompactedFile(counter)] = Partial]
  /\ pc' = "merge"
  /\ UNCHANGED <<wal, manifest, op, active, immutable, sstables, obsolete>>

FinishCompaction ==
  /\ pc = "merge"
  /\ \E t \in CompactOutcomes(Inputs(sstables)) :
       files' = [files EXCEPT ![CompactedFile(counter - 1)] = t]
  /\ pc' = "swap"
  /\ UNCHANGED <<wal, manifest, memory>>

(* Mutant of ReplaceSSTables: the replaced names stay listed.              *)
ReplaceSSTablesKeeping(list, old, new) == Append(list, new)

(* Manifest::ReplaceSSTables by name: the new name takes the place of the  *)
(* first replaced one.                                                     *)
ReplaceSSTables(list, old, new) ==
  LET first == Min({i \in DOMAIN list : list[i] \in old})
  IN  SubSeq(list, 1, first - 1)
        \o <<new>>
        \o Select(SubSeq(list, first + 1, Len(list)), ToSet(list) \ old)

(* The new MANIFEST is renamed into place, then the readers are replaced   *)
(* by a reader of the new file.  ReadersMirrorManifest shows that the      *)
(* names to replace are always listed, so the code's second attempt, by    *)
(* file id, is not taken.                                                  *)
SwapManifest ==
  /\ pc = "swap"
  /\ ToSet(sstables) \subseteq ToSet(manifest)
  /\ manifest' = ReplaceSSTables(manifest, ToSet(sstables), CompactedFile(counter - 1))
  /\ sstables' = <<CompactedFile(counter - 1)>>
  /\ obsolete' = sstables
  /\ pc' = "unlink"
  /\ UNCHANGED <<wal, files, op, active, immutable, counter>>

Unlink ==
  /\ pc = "unlink"
  /\ files' = [files EXCEPT ![Head(obsolete)] = Nil]
  /\ obsolete' = Tail(obsolete)
  /\ pc' = IF Len(obsolete) = 1 THEN "idle" ELSE "unlink"
  /\ UNCHANGED <<wal, manifest, op, active, immutable, sstables, counter>>

-----------------------------------------------------------------------------
NoTombstones == [Key -> Value \cup {Absent}]

Init ==
  /\ wal = <<>>
  /\ IF FirstId = 0
       THEN /\ manifest = <<>>
            /\ files = [f \in FileName |-> Nil]
       ELSE /\ manifest = <<CompactedFile(FirstId - 1)>>
            /\ \E t \in NoTombstones :
                 files = [f \in FileName |->
                            IF f = CompactedFile(FirstId - 1) THEN t ELSE Nil]
  /\ pc = "down"
  /\ op = Nil
  /\ active = Nil
  /\ immutable = Nil
  /\ sstables = <<>>
  /\ counter = 0
  /\ obsolete = <<>>

Flush == BeginFlush \/ FinishFlush \/ PublishFlush \/ TruncateLog

Compaction == BeginCompaction \/ FinishCompaction \/ SwapManifest \/ Unlink

Next ==
  \/ Open
  \/ Crash
  \/ \E k \in Key, c \in Written : AppendLog(k, c)
  \/ ApplyWrite
  \/ FlushMemTable
  \/ Flush
  \/ TriggerCompaction
  \/ Compaction

Spec == Init /\ [][Next]_vars

-----------------------------------------------------------------------------
(* Properties.                                                             *)

(* Types; a caller that gets the mutex finds a memtable to write to.       *)
TypeOK ==
  /\ wal \in Seq(LogEntry)
  /\ manifest \in Seq(FileName)
  /\ files \in [FileName -> Table \cup {Partial, Nil}]
  /\ pc \in {"down", "idle", "apply", "flush", "finish", "publish", "truncate",
             "compact", "merge", "swap", "unlink"}
  /\ op \in LogEntry \cup {Nil}
  /\ active \in Table \cup {Nil}
  /\ pc = "idle" => active # Nil
  /\ immutable \in Table \cup {Nil}
  /\ sstables \in Seq(FileName)
  /\ counter \in Nat
  /\ obsolete \in Seq(FileName)

(* A crash between any two steps of a flush, a compaction or a restart     *)
(* loses nothing a caller could see: for every key, a restart would answer *)
(* what the running engine answers.  (Between the append to the log and    *)
(* the insert into the memtable the log is one write ahead.)               *)
CrashLosesNothing ==
  pc \notin {"down", "apply"} =>
    \A k \in Key : Answer(Get(k)) = Answer(DurableGet(k))

(* MANIFEST never names a file that is missing or half written: the        *)
(* constructor would skip the first and throw on the second.               *)
ManifestReadable == \A f \in ToSet(manifest) : files[f] \in Table

(* The in-memory list of readers and MANIFEST describe the same tables in  *)
(* opposite orders, so the search order survives a restart and compaction  *)
(* finds every input listed.                                               *)
ReadersMirrorManifest == pc # "down" => sstables = Reverse(manifest)

(* The generations by which the compactor and the iterators rank tables    *)
(* agree with the order in which Get searches them, without ties.          *)
NewestFirst ==
  \A i, j \in DOMAIN sstables :
    i < j => Generation(sstables, i) > Generation(sstables, j)

(* A file that MANIFEST names is never rewritten or deleted while it stays *)
(* named: a restart never hands out the id of a live file again, and a     *)
(* compaction never deletes its own output.                                *)
LiveFilesImmutable ==
  [][\A f \in ToSet(manifest) \cap ToSet(manifest') : files'[f] = files[f]]_vars

(* The compacted table answers for every key what the search through the   *)
(* tables it replaces answers: the newest version wins and dropping the    *)
(* tombstones revives nothing.                                             *)
CompactionKeepsNewest ==
  [][FinishCompaction =>
       \A k \in Key :
         Answer(files'[CompactedFile(counter - 1)][k])
           = Answer(Lookup(Content(sstables), k))]_vars

(* The engine with its files, flushes, compactions and crashes implements  *)
(* the plain map of KVStore.  The map is what a restart would serve; it is *)
(* readable when no operation runs.                                        *)
Contents == [k \in Key |-> Answer(DurableGet(k))]
View == IF pc = "idle" THEN [k \in Key |-> Answer(Get(k))] ELSE Nil

KV == INSTANCE KVStore WITH store <- Contents, view <- View

ImplementsKVStore == KV!Spec
=============================================================================
