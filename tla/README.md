# TLA+ models and proofs for the LSM-tree database

This directory models the storage engine under `src/core/` and the Python layer above
it: what is on disk and in memory at each step of a write, a flush, a compaction and a
restart; what failing file operations leave behind; the write-ahead log when an append
stops half way; the k-way merge; iterators used while other threads write; the path of
an entry through skip list and SSTable; chat sessions and vectors in Python threads. TLC
checks the modules on small instances; TLAPS proves for every size what the engine
promises, with and without failures, and likewise the log, the merge, the iterator and
the Python layer. Paths below are relative to `src/` of the repository.

## 1. The system

| Component | State | Operations | Interacts with |
|---|---|---|---|
| `StorageEngine` (`src/core/engine.cpp`) | active and immutable memtable, list of open readers (newest first), file id counter, one mutex | `Put`, `Delete`, `Get`, `Scan`, `PrefixScan`, `NewIterator`, `FlushMemTable`, `TriggerCompaction`, `Close` | owns all of the following |
| `MemTable` (`memtable.cpp`) | skip list, byte count, immutable flag, its WAL | `Put`, `Delete`, `Get`, `NewIterator`, recovery | logs to the WAL before it inserts |
| `SkipList` (`skiplist.cpp`) | linked levels of nodes | `Insert`, `Find`, iteration in place | read by iterators without a lock |
| `WAL` (`wal.cpp`) | a text file, one JSON line per entry | `Append` (write + fsync), `Recover` | emptied by a flush |
| SSTable builder, reader, iterator | an immutable sorted file with sparse index and Bloom filter | `Add`, `Finish`, `Get`, sequential iteration | written by flush and compaction |
| `Compactor` (`compactor.cpp`) | a heap of records | `Compact` | reads iterators, writes a builder |
| `Manifest` (`manifest.cpp`) | the list of live files, in memory and in `MANIFEST` | `AddSSTable`, `ReplaceSSTables` (temporary file and rename) | read by the constructor |
| `DBIterator` (`db_iterator.cpp`) | sources, heap, current record | `Seek`, `Next` | walks the live memtable and the SSTables |
| Python bindings | none | the engine's calls, GIL released | makes engine calls of several threads interleave |
| `ChatHistory`, `VectorStore`, `MemoryManager` (`python/ltm`) | keys in the engine, an id counter, a vector index | append, history, clear; add, search, rehydrate | several engine calls per operation |
| Shell (`main.cpp`) | none | one command at a time | leaves without `Close` |

What is hard:

* **Crashes.** Flush and compaction each change three things on disk (tables, MANIFEST,
  log) in several steps. A process may die between any two, and again during recovery.
* **Two orders.** `Get` ranks tables by their place in a list, compaction and iterators
  by the id parsed from the file name. Restarts rebuild the list from MANIFEST.
* **Torn log lines.** The log is appended to and scanned as text; a line without its
  newline swallows the next one.
* **Iterators outlive the lock** under which they were made.
* **Failing I/O** in the middle of a flush or a compaction.
* **Read-modify-write** over several engine calls in the Python layer.

Each hazard, with its line and the properties aimed at it, is in `PROJECT.json`.
The engine cannot deadlock on its own locks: they are only taken in the order engine,
memtable or manifest, log.

## 2. Modules

| Module | Models |
|---|---|
| `KVStore` | the abstract promise: one map; a write changes one key at one instant, crashes and maintenance change nothing |
| `Tables` | cells, tables, search through a list of tables, log replay, and the function a compaction computes; no state |
| `Engine` (extends `Tables`) | the engine over its files, one action per effect on disk |
| `KWayMerge` (extends `Tables`) | the loop of `Compactor::Compact` |
| `WAL` | the log file as pieces of lines, recovery, and the memtable it restores |
| `DBIterator` (extends `Tables`) | the merged iterator, with writes and a flush between its calls |
| `EngineFaults` (extends `Engine`) | the engine when its file operations fail, `MANIFEST` as lines |
| `SkipList` | `Insert` store by store, with one reader that takes no lock |
| `MemTable` (extends `SkipList`) | entries, and the size in unsigned arithmetic |
| `BloomFilter`, `SSTable` (extends it) | the filter; records, sparse index and search of one file; no state |
| `FlushPath` (extends `MemTable`, `SSTable`) | replay, `Put`, `Delete`, and a flush record by record into a table |
| `ChatHistory`, `VectorStore` (extend `Callers`) | the Python classes, one action per engine call |
| `MemoryManager` (extends both) | threads that use both, crashes and restarts |
| `OrderProofs`, `TablesProofs` | lemmas: least and greatest numbers; the operators of `Tables` |
| `EngineProofs` | theorems about `Engine`, then about `EngineFaults` |
| `KWayMergeProofs`, `DBIteratorProofs`, `WALProofs`, `FlushPathProofs`, `MemoryProofs` | theorems about the module named (`MemoryManager` for the last) and those it extends |
| `MC*` and `*.cfg` | instances for TLC |

`Engine` uses `CompactOutcomes` of `Tables` for a whole merge; `KWayMerge` shows that the
loop computes a member of it. `Engine` takes the log to be a sequence of entries; `WAL`
shows when that is justified (no tear and no key that reads as a field name, `Sound`) and
what happens otherwise. `Engine` implements `KVStore` (`ImplementsKVStore`).

### Engine and the code

`mutex_` is held from the first to the last line of every public operation, so the state
has one program counter `pc`: `"idle"` when the mutex is free, otherwise the next step of
the running operation; `"down"` when no process runs. The correspondence:

| Action | Code |
|---|---|
| `AppendLog`, `ApplyWrite` | `MemTable::Put/Delete`: WAL line synced, then the skip list; `Put` alone checks the flush rule (a `Delete` never flushes) |
| `FlushMemTable`, `BeginFlush`, `FinishFlush`, `PublishFlush`, `TruncateLog` | `FlushMemTableInternal`, steps 1-3, 4, 5-5b, 6-8 |
| `TriggerCompaction`, `BeginCompaction`, `FinishCompaction`, `SwapManifest`, `Unlink` | `TriggerCompactionInternal`; one `Unlink` per deleted input |
| `Open` | the constructor |
| `Crash` | the process dies, or exits: the destructor does nothing |

An SSTable file is `Nil` (absent), `Partial` (its builder has not finished) or a table.
Files orphaned by a crash stay, and their ids are handed out again, as in the code. The
memtable's size is its number of entries. Keys, values and file contents are model values.

`FirstId` chooses the directory: `0` is empty; otherwise it holds one compacted table
`sstable_<FirstId-1>`, as after any earlier compaction. The distinction matters because of
finding 1 below.

### WAL and the code

The file is a sequence of *pieces*, an entry with how much of its text reached the file
(ten cut points, chosen so that any two cuts between the same points are parsed alike).
Lines are formed as `std::getline` forms them, fields are looked up as `ParseStringField`
and `ParseIntegerField` do: first occurrence of the quoted name. `Refuse` is a write or
fsync that fails, `CrashInAppend` a process that dies during `Append`, `Truncate` what a
flush does to the log. JSON escaping loses nothing on any byte string, and a string is a
model value; the exception, keys whose escaped form contains the field name `"timestamp"`,
is the set `TimestampKey`.

### KWayMerge and DBIterator and the code

Keys are small numbers because their order matters. The heap is the set of inputs that
have a node; `Precedes` is the comparator. Where the comparator ties, `std::priority_queue`
may pop either node, and so may `KWayMerge` and `DBIterator` (`Tops`). In `DBIterator` the
memtable ranks above all files, and a file by its id, with the place from the end of the
list instead of the id 0 (`Generation`), so that `data_0` may rank with `data_1`. The
stores of the run have files 2 and 1, and the tie of files 1 and 0; `Ranked(k)` says that
no tie concerns the key `k`, and `NewestFirst` of `Engine` that there is none in a
directory that did not start empty. Writes and the flush happen between two calls of the
iterator. Inside a call they are data races in C++, without defined outcome; the model does
not describe those. After `freed` no step reads source 0, because the program has no
defined step there.

### EngineFaults and the code

The actions of `Engine` that cannot go wrong, or have not, are used as they are. Each other
action is one way in which a call fails, and does what the code then does:

| Action | Code |
|---|---|
| `OpenThrows` | a line of MANIFEST opens as a stream and is no SSTable (`sstable_reader.cpp:17-27`) |
| `OpenUnread`, `OpenBlind` | the log, or MANIFEST, or a table exists but cannot be opened now, and is taken not to exist |
| `FlushThrows` | `Finish` returns false or the reader throws: no active memtable is left |
| `AddSSTableRefused`, `AddSSTableStops`, `AddSSTableReturnsFalse` | an append to MANIFEST that does nothing, or stops in the line; its result is ignored |
| `TruncateFails`, `MemTableThrows` | steps 6 and 7 of the flush |
| `AbandonMerge`, `MergeReadsShort` | the merge throws or returns false; an input ends early on a read error |
| `NotListed`, `ReplaceFails`, `RenameFails`, `RenameFailsAgain` | `ReplaceSSTables` returns false, by name and then by id; MANIFEST is removed between the renames |
| `ReaderFails`, `UnlinkFails` | steps 3 and 6 of the compaction |

A line of MANIFEST is a file name, two names run together, the `compacted_<id>` that the
replacement by id makes up, a piece of a name, or the name of the directory (a piece that
can be opened). `listed` is the copy that `Manifest` keeps. `faults` records which kinds
of failure have happened; the properties say which of them cost something. After a flush
that threw, a `Put` dereferences a null pointer; whatever the process does then, the
model lets it die (`FCrash`).

### FlushPath and the code

One thread holds the engine's mutex. Its stores to the skip list are steps, because one
iterator follows the pointers at the same time; its own reads are not. This takes loads
and stores of pointers to be whole and in program order, which is not what C++ promises
(it is a data race) but what the build for x86-64 does: in the compiled `Insert` the two
stores of a level stand in the order of the source. Keys are numbers and a value is its
size. `RandomHeight` may return any height. An SSTable is a sequence of records; an offset
is the number of records before it. A hash function is a parameter: `TableFaithful` is
about every hash in `Hash` at once.

### The Python layer and the code

An engine call is one step. `put` and `delete` return true, and are then durable (`Engine`
shows that), or they return false, when the log cannot be written, and change nothing
(`engine.cpp:106-108`). No caller looks at the result (`chat_history.py:69-70`, `:110`,
`:113`, `vector_index.py:324-327`, `store.py:20`): each of these calls is two actions, as
`PutTurn` and `PutTurnRefused`, and the operation goes on after both. Between two calls,
and between the two halves of `self._id_counter += 1` and the read before it, another
thread may run, as every call releases the GIL.

`Covers(s)` are the sessions whose keys start with `chat:<s>:`; `Found(s)`, what the prefix
scan finds, has the turns of all of them, and so has `History`. `KeyLess` is the order of
the keys. `raced`, `torn` and `shared` record that two operations have overlapped in a way
for which the code makes no promise (a clear also tears a session it found turns of through
a prefix, or of which it left a turn); `refused`, `holes`, `unstored` and `chunkless` what
the engine refused. The properties say what holds otherwise, and what holds even then.

Two things a call may do are left out. A put that was refused because its `fsync` failed
may return at the next restart, and a line it left torn swallows the next entry: both are
in `WAL` (finding 2), not here. And a put that throws, as one after a failed flush would,
ends the Python operation with an exception; `EngineFaults` is about those.

## 3. Runs

| Run | Instance | Result |
|---|---|---|
| `engine_seasoned` | 2 symmetric keys, 1 value, threshold 2, write buffer 2, ids up to 5 starting from `sstable_1`, log up to 2 | passes, about 0.9 million states |
| `engine_fresh` | empty directory, 1 key, 2 values | `CompactionKeepsNewest` violated: finding 1 |
| `kway_merge` | every sequence of one to three inputs over 2 keys, generations 1..3 with ties, tombstones, purging or not | passes, about 0.5 million states |
| `wal` | 3 keys (one of them reads as a field name), 1 value, 3 appends of which 2 torn | passes, about 0.2 million states |
| `wal_torn` | 2 keys, 2 values, one tear | `AckedSurvive` violated: finding 2 |
| `iterator` | 3 keys, memtable and one table, or two tables, with and without a tie, every content; one write while in use; all bounds over three start and two end keys | passes, about 4.7 million states |
| `iterator_freed` | the same | `NeverReadsFreed` violated: finding 4 |
| `engine_faults` | empty directory, 1 key, 1 value, threshold 2, ids up to 2, any 2 failures of all 12 kinds | passes, about 0.25 million states |
| `engine_faults_harmless` | `sstable_1` there, 1 key, 1 value, threshold 2, ids up to 5, any 3 failures of the 7 harmless kinds | passes, about 2.5 million states |
| `engine_append_refused` | the same with the append as the only failure | `NothingLost` violated: finding 5 |
| `flush_path` | 4 keys, heights up to 2, logs of up to 2 entries and 2 writes, every second record indexed, 3 hashes | passes, about 1.5 million states |
| `memory` | 2 threads, 2 sessions of which one covers the other, 3 messages and 3 documents of which 3 are used, one crash, one refused call | passes, about 1 million states |

Three more configurations state divergences and have no run in `PROJECT.json`; TLC finds
each violated in a second. `MCWALTimestamp.cfg` (module `MCWAL`): finding 3.
`MCMemoryHistory.cfg` and `MCMemoryRefused.cfg` (`MCMemoryManager`): findings 6 and 7.

What they show:

* `CrashLosesNothing`: at every step of every operation, a restart would answer what the
  running engine answers. `ManifestReadable`, `ReadersMirrorManifest`, `NewestFirst`,
  `LiveFilesImmutable` and `CompactionKeepsNewest` say why: MANIFEST names complete files
  only, list and MANIFEST never diverge, the two orders agree, a live file is never
  touched, and a merge changes no answer.
* `ImplementsKVStore`: seen from outside all of this is one map.
* `ResultAllowed`, `MergedSoFar`, `OutputAscends`, `Terminates`: the merge loop computes
  the function the engine model assumes, writes each key once in order, and ends.
* `PrecedingPreserved`, `AppendKeepsRecovered`, `LastAckSurvives`: damage to the log falls
  only on what is appended later; an undamaged log restores every acknowledged write.
* `ReturnsLive`, `NothingSkipped`, `InRange`, `Ascends`: what an iterator over a changing
  memtable still guarantees. It is not a snapshot: it may or may not see a write made
  while it is in use. The first two are about keys that no two files of one generation
  hold: of the others it may return the older version, or an older tombstone may hide
  them (finding 1).
* `HarmlessLosesNothing`, `ServesEveryWrite`, `CompactionFindsInputs`,
  `NamedFilesImmutable`, `CompactionHeals`, `OperationsReturn`: what any combination of
  failures does not break. Seven kinds of failure lose nothing ever
  (`engine_faults_harmless`: in a directory without `data_0`, since the first merge
  there may mix up the versions); a failure to write never changes an answer of the
  living process, and neither does a start that missed a file; a compaction that
  replaces its inputs by name repairs what failed before it; and every operation lets go
  of the mutex. What these properties have to exclude is as telling: a refused append
  (finding 5), MANIFEST removed for the second rename, a merge that reads short, a start
  at which a file cannot be opened. The replacement by file id, tried after the one by
  name, names a file nobody wrote and then deletes the inputs; it is reached after a
  refused append, or a temporary file that could not be written once. It also leaves the
  name of a deleted `sstable_<id>` in MANIFEST, as `ExtractFileId` knows only other
  prefixes. Two restarts later that id may be taken by the output of a merge that was
  not installed, and a compaction by name, which finds its own inputs listed, leaves the
  name listed too: a key deleted since returns at the next restart. It takes five
  failures (three appends, two replacements), beyond the bound of the run; the attempt
  to prove `CompactionHeals` showed that it must exclude `fallback`, and a scripted
  behaviour with ids up to 6 confirmed it.
* `LevelsNested`, `SeekSkipsNothing`: because a node is linked from the bottom up, a
  reader without a lock misses no key that was there when its seek began.
* `CountersExact`: the size a memtable reports is the sum over its entries, through
  overwriting, deleting, re-creating and replay; it never wraps around.
* `TableFaithful`: a search through filter and sparse index answers for every key what the
  flushed memtable held.
* `HistoryKeepsAcked`, `TurnsContiguous`: unless operations on a session overlap, the engine
  refuses one of its messages or counters, or its prefix finds another session, its history
  is the acknowledged messages in order, with at most one unacknowledged at the end, through
  crashes, and although a clear could not delete the counter. Whatever overlaps or is
  refused, an index between two turns is free only if its own message was refused: racing
  appends overwrite each other but leave no gap, and a refused counter makes the next
  append overwrite, not skip. A clear that follows such a race and is cut short can leave
  one: the counter may have gone back behind the turns that remain. `torn` names the
  sessions where that may be so.
* `VectorsKept`, `StoredVectorsImmutable`, `SearchFindsAdded`: the stored counter may be
  behind or go back (threads write it out of order, the engine may refuse it), but a
  restart never hands out the id of a stored vector, and a search finds all that was added
  except the vectors the engine refused. Such an id stays in the index until the process
  ends, and may be given to another document after that.

**Bounds.** `MaxId` 5 after `sstable_1` gives ids 2 to 5: two flushes and the compaction
they trigger, followed by another flush, with crashes that orphan files and hand their
ids out again in any of the gaps; `RoomForIds` reserves two ids for an operation before
it starts. `MaxLog` 2 covers overwriting, deleting and re-creating a key within one
memtable, and the history bound `MaxPast` 2 one change under an iterator, at any point.
Three inputs are the smallest number for which duplicates of one key are drained while
others are pushed back. In `engine_faults` ids up to 2 are two flushes and the
compaction they trigger, from id 0 so that the substitute generation and the replacement
by id occur; orphans of a failed operation and reused ids appear after a restart.
`MaxFaults` 2 lets a second failure meet what the first has left. The first merge there
puts `order` into `faults`, which ends what `HarmlessLosesNothing` and
`ServesEveryWrite` say; so the former has a run of its own, with ids 2 to 5: a merge,
failures during and after it, a flush and a second merge, with restarts in between. The
same properties were also checked with two keys (`TwoKeys`, 1.6 million states) and,
before `OpenBlind` was added, with three failures, with ids up to 4 and one failure, and
in a directory that has compacted before. In `flush_path` 4 keys with every second one
indexed give searches before, on, between and behind index entries, and two heights are
what a level and the one below it need; larger instances (values of two sizes; 3
replayed entries; 3 writes) passed as well. In `memory` 3 messages let a late append set
back a counter that is ahead of it, and 3 documents let a counter that went back meet a
restart; `MaxBegun` keeps the two from multiplying, as they share nothing but threads
and crashes. The refused call can be any call of any operation. Two crashes (1.8 million
states) passed as well, and, before refusals were modelled, one session with 6 messages
and turns up to 4; the theorems below need no bound at all. Deadlock is checked except
for the merge, which ends, the iterator, which has no step left once it stands on freed
memory, and the Python layer, whose callers stop when everything is used. The models of
the engine and the log never stop: `Crash` and `Open` stay possible.

**Fairness.** `KWayMerge` has `WF_vars(Next)`, one thread in a loop that neither waits nor
yields. `EngineFaults` has `WF_fvars(Proceed)`: the thread that holds the engine's mutex
runs on, as no call inside an operation waits for another thread; nothing is assumed about
crashes, new operations or which way a call turns out. Every other property is a safety
property and assumes none.

## 4. Findings

1. *Two files with one generation* (`engine.cpp:255`, also `:345`). A parsed id 0 counts as
   "no id" and is replaced by the distance to the end of the reader list. In a directory
   that started empty, `data_0` is last and gets 1, the id of `data_1`. Which version of a
   key the first compaction keeps is then up to `std::priority_queue`; and so is which one a
   scan returns, and whether an older tombstone hides a live key from it (`engine.cpp:344`).
   After the first compaction no file 0 exists any more and the engine is correct.
2. *A torn log line swallows the next entry* (`wal.cpp:137`). Recovery stops at the line but
   leaves it in the file; the next acknowledged append continues it.
3. *The key `timestamp`* (`wal.cpp:66`), or one that ends in `"timestamp`, is taken for
   the field name; its entry and every later one in the log are not recovered
   (`MCWALTimestamp.cfg`).
4. *Iterators refer to the live memtable* (`engine.cpp:208`, `memtable.cpp:167`) and dangle
   after a flush, although `memtable.hpp:60` speaks of a snapshot.

5. *A refused append to MANIFEST loses the memtable* (`engine.cpp:205`). The result of
   `AddSSTable` is ignored; the flush drops the memtable and empties the log, and the new
   table is named nowhere. `docs/architecture.md:192` promises durable writes.
6. *get_history returns other sessions* (`chat_history.py:86`). The prefix `chat:a:` also
   finds the turns of a session `a:b`; `chat_history.py:76` says "Retrieves chronological
   chat history for a session." `clear_session` deletes them too (`MCMemoryHistory.cfg`).
7. *Refused writes go unnoticed in the Python layer* (`vector_index.py:324`,
   `chat_history.py:69`, `store.py:20`). `append_message`, `add` and `remember` return as if
   the message, the vector or the chunk were stored; `vector_index.py:295` says "Adds a
   document and its embedding vector into the index and persistent store." A search in the
   same process skips such a vector, after a restart it is gone (`MCMemoryRefused.cfg`).

Findings 1, 2, 4 and 5 are in `PROJECT.json` with the runs that show them. Findings 2, 3
and 5 and the tie in finding 1 were also reproduced with the compiled code.

## 5. Proofs

All theorems hold for every key and value set, threshold, buffer size, number of inputs,
threads or failures, and bound. What they assume of the constants is in the named
assumptions of the modules (`CellsDistinct`, `EngineConstants`, `FaultConstants`,
`LineConstants`, `MergeConstants`, `IteratorConstants`, `WALConstants`, `SkipListConstants`,
`MemTableConstants`, `SSTableConstants`, `FlushConstants`, `ChatConstants`,
`VectorConstants`), which say that markers such as `Nil` differ from data, and numbers
are numbers. `FirstId # 0`, where it is assumed, is what finding 1 makes necessary.

| Module | Theorem | States |
|---|---|---|
| `EngineProofs` | `Invariant`, `TypeCorrect`, `ManifestAlwaysReadable`, `ReadersAlwaysMirrorManifest`, `CrashNeverLoses`, `LiveFilesNeverChange` | `IInv`, `TypeOK`, `ManifestReadable`, `ReadersMirrorManifest`, `CrashLosesNothing`, `LiveFilesImmutable`, also for a fresh directory |
| | `NewestAlwaysFirst`, `CompactionIsFaithful`, `EngineImplementsKVStore` | `NewestFirst`, `CompactionKeepsNewest`, `ImplementsKVStore`, if `FirstId # 0` |
| `TablesProofs` | `CompactKeepsNewest` | if generations fall strictly along the search order, any outcome of a merge answers as the search does |
| `EngineProofs`, of `EngineFaults` | `FaultyInvariant`, `FaultyTypeCorrect`, `HarmlessNeverLoses`, `EveryWriteServed`, `InputsAreListed`, `NamedFilesNeverChange`, `CompactionAlwaysHeals` | `FInv`, `FaultyTypeOK`, `HarmlessLosesNothing`, `ServesEveryWrite`, `CompactionFindsInputs`, `NamedFilesImmutable`, `CompactionHeals` |
| `KWayMergeProofs` | `MergeInvariant`, `MergeTypeCorrect`, `OutputAlwaysAscends`, `MergedAlwaysSoFar`, `MergeAllowed` | `IInv`, `TypeOK`, `OutputAscends`, `MergedSoFar`, `ResultAllowed` |
| | `MergeAnswersAsInputs` | a finished, purging merge of inputs given newest first answers as the search through them did |
| `DBIteratorProofs` | `IteratorInvariant`, `IteratorTypeCorrect`, `AlwaysReturnsLive`, `NothingEverSkipped`, `AlwaysInRange`, `ReturnedAscends` | `IInv`, `TypeOK`, `ReturnsLive`, `NothingSkipped` (both for keys that are `Ranked`), `InRange`, `Ascends` |
| | `QuietScanIsExact` | a scan that met no write returned exactly the live pairs between its bounds, of the keys that are `Ranked` |
| `WALProofs` | `LogInvariant`, `LogTypeCorrect`, `PrecedingAlwaysPreserved`, `LastAckAlwaysSurvives`, `AppendsKeepRecovered` | `IInv`, `TypeOK`, `PrecedingPreserved`, `LastAckSurvives`, `AppendKeepsRecovered` |
| `FlushPathProofs` | `FlushInvariant`, `FlushTypeCorrect`, `LevelsStayNested`, `IteratorSkipsNothing`, `TablesAreFaithful` | `FlushInv`, `FlushTypeOK`, `LevelsNested`, `SeekSkipsNothing`, `TableFaithful` |
| | `CountersStayExact` | `CountersExact`, if the bytes of any contents stay below `Word` |
| `MemoryProofs` | `MemoryTypeCorrect`, `HistoryKept`, `NoTurnMissing`, `VectorsImmutable`, `RememberedKept`, `SearchComplete` | `MemoryTypeOK`, `HistoryKeepsAcked`, `TurnsContiguous`, `StoredVectorsImmutable`, `VectorsKept`, `SearchFindsAdded`, for any relation `Covers` that contains the session itself, any order of keys that orders one session's turns by index, and any number of refused calls |

None of the properties is inductive. Each module states its invariant at the top; each was
checked by TLC before it was proved, and is preserved by one lemma per action.

**Engine.** `IInv` adds

* `MemoryShape`: which memtables exist at each `pc`;
* `LogMatchesMemory`: the memtable equals the replayed log (with one write to come between
  `AppendLog` and `ApplyWrite`), which is why a restart answers what memory answered;
* `Catalogue`: ids rise along MANIFEST, a file being built has a larger id than all of
  them, and no file waiting to be deleted is listed. This is what makes reused ids and
  orphans harmless, and makes generations fall along the reader list;
* `Output`: the file just finished holds the memtable, or the merged answers;
* `IdRoom`: the ids an operation takes stay within `MaxId`.

`UnlistedWrite` serves the four actions that write a file MANIFEST does not name. For the
refinement, `OtherContents` and `IdleView` show that every step but the append to the log
leaves the map of `KVStore` unchanged and that an idle engine shows exactly that map.

**EngineFaults.** After failures log, MANIFEST, its copy, readers and files no longer agree.
Each part of `FInv` says what still does, and which kinds of failure end it:

* `Opened`, `Built`: readers stand on complete files, with ids below that of the file being
  built; the merged file answers as its inputs do, unless a read was short or the
  generations were not in the order of the list;
* `LogKept`: the log replays to the memtable, unless it could not be read at the start;
* `Serves`: memory answers with every write, at every step of every operation;
* `ListedFit`: the files that MANIFEST and its copy name are complete, not about to be
  deleted and older than the file being built; and if the copy names all files of the
  readers, it names no other. The last part is why a compaction by name leaves one name
  only, and what a replacement by id destroys;
* `Durable`: after harmless failures MANIFEST has file names only, equals its copy, and
  with the log answers with every write.

`Frame` serves all steps that write at most the file of the id last taken, `StartedStep`
the three ways to start, `FlushEnds` and `InstallStep` the ends of a flush and of a
compaction.

**KWayMerge.** The heap holds exactly the iterators that stand on a record (`HeapExact`);
what an iterator has left behind is settled, or is the key being merged (`LeftBehind`); the
node popped first for a key is its newest version and no iterator stands before it
(`WinnerFits`); the output holds settled keys only, and every settled key that an input has,
as a winner has it (`OutputSettled`, `MergedSettled`).

**DBIterator.** The heap again (`HeapExact`). A table's iterator leaves behind only what
was popped (`TablesLeft`), and of the files that hold a `Ranked` key the newest goes
first; the memtable may get a key after its iterator has passed, but then the tables
alone decided at that moment (`MemTableLeft`). The record popped was the database's at
some moment (`CandidateFits`); what was returned is behind every source (`ReturnedLeft`,
`CurrentLeft`); a key that keeps its value was returned, is in hand, or is ahead of a
source that has it (`SteadyKept`).

**WAL.** What was acknowledged is in the file (`AckedInLog`); what was acknowledged
before the first tear is recovered at its place (`PrecedingPreserved`). The lemmas are
about parsing: `AppendContinues` and `ContinuedParse` say what text added to the file
does to its last line, `RecoverGrows` that recovery only grows, `SoundRecover` that an
undamaged log is recovered whole.

**FlushPath.** `LevelsNested` says that each level ascends; what a search needs is more,
that every node of a level leads to all larger nodes of it (`Connected`). With that
`UpdateFinds` shows that the recursive search ends, on each level, at the greatest node
below the key (`Before`), and `LinkNodeStep` that storing one pointer there keeps it so:
before it is linked, the new node points to what its predecessor points to. Linked so
far are the levels below the writer's round (`WriterOK`); the iterator stands on a
linked node below its target, or on one it has returned (`ReaderOK`). For the counters
`TotalWrite` says what replacing one entry does to the sum, a fold whose order
`SumsExist` and `SumsAgree` show not to matter; `CountersStayExact` assumes
`EntriesFit`, without which a `size_t` wraps around however exact the code is. For the
table `FileOK` relates records, index and filter, `Copied` the records to the memtable
while the flush walks it; `StartsBefore` shows that the search starts at or before the
key's record, and `GetFinds` and `GetMisses` what it answers. Where an induction would
be natural (on levels, nodes or the size of a set) the lemmas take a least or greatest
counterexample instead.

**MemoryManager.** The invariant has two halves, as a step is of a session or of the
vectors, never of both. For the vectors, as long as no two threads share an id: the
counter in memory is ahead of every stored id, the ids of unfinished adds are distinct
and not yet stored (`IdsApart`), or their vector was stored or refused (`Settled`), and
what a search owes is stored, and found or still to be fetched (`SearchesTracked`).
Nothing is said of the stored counter: `RestoredAhead` shows that the constructor needs
only the keys. For a session that `torn` does not name (`SessionInv`), with the indexes
of refused messages counted as taken (`Taken`): the next index adjoins those that are
taken, so does the index of every append under way (`AppendsFit`), appends that have not
overlapped are at the end (`InTurn`), and a clear has the session to itself and holds
the keys of all its turns (`ClearsFit`). `SessionUntouched` serves every session that a
step is not about.

`HistoryKeepsAcked` needs `Chronicle` besides, of a session on which no two operations have
overlapped and of which no message and no counter was refused: counted from some `base`,
which is not 0 after a clear that could not delete the counter, the next turn's index is
the number of acknowledged messages; the turns stored begin at some `gone` that no clear
has passed beyond what it set out to delete (`cleared`), and from there hold the
acknowledged messages, each under its own index; a turn
that waits for its counter is stored; a clear of the session has set out to delete all that
was acknowledged, and a clear of another one found nothing of it. Each operation has a lemma
that it keeps this (`BeginAppendTold` to `CrashChatTold`). The stored indexes are then an
interval from `gone` to the last acknowledged turn or one beyond, whose n-th member is known
from the cardinality of intervals (`NthOfInterval`), which makes the history the sequence
claimed (`ChronicleKeeps`). `History` takes the n-th index by counting and not by a sort
because the prover knows nothing of `SortSeq`.

Only model-checked: `Terminates` and `OperationsReturn`, since liveness is out of the
prover's reach.

## 6. Not modelled, and the plan

Done in this order: `Tables`, `KVStore`, `Engine`, its proofs, `KWayMerge`, `WAL`,
`DBIterator`, `EngineFaults`, `SkipList` to `FlushPath`, `ChatHistory` to `MemoryManager`,
the proofs about the latter, and those about `KWayMerge`, `DBIterator`, `WAL`,
`EngineFaults` and `FlushPath`.
What is left, most important first:

1. Power failure: what is lost when tables, MANIFEST and truncation were never fsynced.
   This needs a model of what a file system keeps, which is not in this code.
2. A read error inside `Get` (`sstable_reader.cpp:106`), which makes the search go on to an
   older table, and one inside a scan.

Left out for good: the shell, argument conversion in the bindings, the byte encoding of
SSTables, the sizing of the Bloom filter, payload formatting in `MemoryManager` and the
models, and similarity search, which is numeric.
