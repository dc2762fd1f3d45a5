---------------------------- MODULE EngineProofs ----------------------------
(***************************************************************************)
(* Proofs about Engine and, from FInv on, about EngineFaults, for every    *)
(* threshold, buffer size, key and value set and bound.                    *)
(*                                                                         *)
(* None of the properties is inductive alone.  The invariant below adds    *)
(* what each step relies on: which memtables exist at each pc, that the    *)
(* memtable is always what the log replays to, that ids in MANIFEST rise   *)
(* and stay below the counter, and what the file being built holds.        *)
(***************************************************************************)
EXTENDS EngineFaults, TablesProofs

Building == {"finish", "publish", "truncate"}
Settled == {"idle", "flush", "compact", "merge", "swap", "unlink"}

(* Which parts of the process state exist at each pc.                      *)
MemoryShape ==
  /\ pc = "down" => /\ active = Nil /\ immutable = Nil
                    /\ sstables = <<>> /\ counter = 0
  /\ pc \in Settled \cup {"apply"} => active \in Table /\ immutable = Nil
  /\ pc \in Building => active = Nil /\ immutable \in Table
  /\ IF pc = "apply" THEN op \in LogEntry ELSE op = Nil
  /\ IF pc = "unlink" THEN obsolete # <<>> ELSE obsolete = <<>>
  /\ pc \in {"compact", "merge", "swap"} => sstables # <<>>

(* The log replays to what memory holds and the tables do not.             *)
LogMatchesMemory ==
  /\ pc \in Settled => active = Replay(wal)
  /\ pc = "apply" => Replay(wal) = [active EXCEPT ![op.key] = op.cell]
  /\ pc \in Building => immutable = Replay(wal)

(* Ids rise along MANIFEST and a file being built has a larger one.        *)
Catalogue ==
  /\ \A i, j \in DOMAIN manifest : i < j => manifest[i].id < manifest[j].id
  /\ FirstId # 0 => manifest # <<>>
  /\ FirstId # 0 => \A i \in DOMAIN manifest : manifest[i].id # 0
  /\ pc # "down" => \A i \in DOMAIN manifest : manifest[i].id < counter
  /\ pc \in {"finish", "publish", "merge", "swap"} =>
       \A i \in DOMAIN manifest : manifest[i].id < counter - 1
  /\ ToSet(obsolete) \cap ToSet(manifest) = {}

(* What the file with the id last taken holds.                             *)
Output ==
  /\ pc = "publish" => files[DataFile(counter - 1)] = immutable
  /\ pc = "truncate" => /\ sstables # <<>>
                        /\ files[sstables[1]] = immutable
  /\ pc = "swap" => LET out == files[CompactedFile(counter - 1)]
                    IN  /\ out \in Table
                        /\ FirstId # 0 =>
                             \A k \in Key :
                               out[k] = Answer(Lookup(Content(sstables), k))

(* The ids an operation will take are within the bound.                    *)
IdRoom ==
  /\ pc \in {"apply", "flush"} => counter + 1 <= MaxId
  /\ pc \in Building => counter \in 1 .. MaxId
  /\ pc = "compact" => counter <= MaxId
  /\ pc \in {"merge", "swap"} => counter \in 1 .. MaxId + 1

IInv ==
  /\ TypeOK
  /\ MemoryShape
  /\ LogMatchesMemory
  /\ ManifestReadable
  /\ ReadersMirrorManifest
  /\ Catalogue
  /\ Output
  /\ IdRoom

-----------------------------------------------------------------------------
(* Facts about the parts of a state.                                       *)

(* A file whose id is above every listed id is not listed.                 *)
LEMMA UnlistedFile ==
  ASSUME NEW list \in Seq(FileName), NEW f \in FileName,
         \A i \in DOMAIN list : list[i].id < f.id
  PROVE  f \notin ToSet(list)
BY DEF ToSet, FileName

(* The names of files built from an id within the bound.                   *)
LEMMA NewNames ==
  ASSUME NEW id \in 0 .. MaxId
  PROVE  /\ DataFile(id) \in FileName /\ DataFile(id).id = id
         /\ CompactedFile(id) \in FileName /\ CompactedFile(id).id = id
BY DEF FileName, DataFile, CompactedFile

(* A half written or missing file is not a table, nor is Nil a log entry.  *)
LEMMA Markers ==
  /\ Nil \notin Table /\ Partial \notin Table /\ Nil # Partial
  /\ Nil \notin LogEntry
  /\ MaxId \in Nat /\ Threshold \in Nat \ {0} /\ FirstId \in Nat \ {1}
BY EngineConstants

(* Listed names are file names, so their ids are naturals.                 *)
LEMMA ListedIds ==
  ASSUME NEW list \in Seq(FileName)
  PROVE  \A i \in DOMAIN list : list[i] \in FileName /\ list[i].id \in Nat
<1>1. ASSUME NEW i \in DOMAIN list PROVE list[i] \in FileName
  OBVIOUS
<1>2. ASSUME NEW f \in FileName PROVE f.id \in Nat
  BY Markers DEF FileName
<1>3. QED
  BY <1>1, <1>2

(* Lists of readable files have readable contents.                         *)
LEMMA ContentType ==
  ASSUME NEW list \in Seq(FileName), \A f \in ToSet(list) : files[f] \in Table
  PROVE  /\ Content(list) \in Seq(Table)
         /\ DOMAIN Content(list) = 1 .. Len(list)
         /\ \A i \in 1 .. Len(list) : Content(list)[i] = files[list[i]]
<1>1. Len(list) \in Nat /\ DOMAIN list = 1 .. Len(list)
  OBVIOUS
<1>2. \A i \in 1 .. Len(list) : files[list[i]] \in Table
  BY <1>1 DEF ToSet
<1>3. Content(list) = [i \in 1 .. Len(list) |-> files[list[i]]]
  BY <1>1 DEF Content
<1>4. QED
  BY <1>1, <1>2, <1>3, IsASeq

-----------------------------------------------------------------------------
(* The invariant holds initially.                                          *)

LEMMA InitInvariant == Init => IInv
<1> SUFFICES ASSUME Init PROVE IInv
  OBVIOUS
<1> USE Markers
<1>1. manifest \in Seq(FileName) /\ files \in [FileName -> Table \cup {Partial, Nil}]
      /\ ManifestReadable /\ Catalogue
  <2>1. CASE FirstId = 0
    BY <2>1 DEF Init, ManifestReadable, Catalogue, ToSet
  <2>2. CASE FirstId # 0
    <3>1. FirstId - 1 \in 0 .. MaxId /\ FirstId - 1 # 0
      BY <2>2, EngineConstants
    <3> DEFINE first == CompactedFile(FirstId - 1)
    <3>2. first \in FileName /\ first.id # 0
      BY <3>1, NewNames
    <3>3. PICK t \in NoTombstones :
            files = [f \in FileName |-> IF f = first THEN t ELSE Nil]
      BY <2>2 DEF Init
    <3>4. t \in Table
      BY DEF NoTombstones, Table, Cell, Written
    <3>5. manifest = <<first>>
      BY <2>2 DEF Init
    <3> HIDE DEF first
    <3>6. manifest \in Seq(FileName) /\ ToSet(manifest) = {first}
          /\ DOMAIN manifest = {1} /\ manifest[1] = first /\ manifest # <<>>
      BY <3>2, <3>5 DEF ToSet
    <3>7. ManifestReadable
      BY <3>2, <3>3, <3>4, <3>6 DEF ManifestReadable
    <3>8. Catalogue
      BY <3>2, <3>6 DEF Init, Catalogue, ToSet
    <3>9. QED
      BY <3>2, <3>3, <3>4, <3>6, <3>7, <3>8
  <2>3. QED
    BY <2>1, <2>2
<1>2. TypeOK
  BY <1>1 DEF Init, TypeOK
<1>3. QED
  BY <1>1, <1>2 DEF Init, IInv, MemoryShape, LogMatchesMemory, ReadersMirrorManifest,
                    Output, IdRoom, Settled, Building

-----------------------------------------------------------------------------
(* Every step preserves the invariant: one lemma per action.               *)

(* The constructor finds every listed file, so it opens the whole list and *)
(* takes an id above all of it.                                            *)
LEMMA OpenStep == ASSUME IInv, Open PROVE IInv'
<1> USE Markers
<1> DEFINE ids == {f.id : f \in ToSet(manifest)}
<1>1. /\ manifest \in Seq(FileName) /\ wal \in Seq(LogEntry)
      /\ \A f \in ToSet(manifest) : f \in FileName /\ files[f] \in Table
  BY DEF IInv, TypeOK, ManifestReadable, ToSet
<1>2. Existing(manifest) = manifest
  <2>1. ToSet(manifest) \subseteq {f \in FileName : files[f] # Nil}
    BY <1>1
  <2>2. QED
    BY <1>1, <2>1, SelectProperties DEF Existing
<1>3. sstables' = Reverse(manifest) /\ Reverse(manifest) \in Seq(FileName)
  BY <1>1, <1>2, ReverseProperties DEF Open
<1>4. counter' \in Nat /\ \A i \in DOMAIN manifest : manifest[i].id < counter'
  <2>1. CASE manifest = <<>>
    BY <2>1, <1>2 DEF Open, NextId
  <2>2. CASE manifest # <<>>
    <3>1. 1 \in DOMAIN manifest
      BY <2>2, <1>1
    <3>2. ids \in SUBSET (0 .. MaxId) /\ \A i \in DOMAIN manifest : manifest[i].id \in ids
      BY <1>1 DEF ToSet, FileName
    <3>3. ids # {}
      BY <3>1, <3>2
    <3>4. counter' = Max(ids) + 1
      BY <2>2, <1>2 DEF Open, NextId
    <3> HIDE DEF ids
    <3>5. Max(ids) \in ids /\ \A j \in ids : j <= Max(ids)
      BY <3>2, <3>3, MaxProperty
    <3>6. Max(ids) \in 0 .. MaxId
      BY <3>2, <3>5
    <3>7. ASSUME NEW i \in DOMAIN manifest PROVE manifest[i].id < counter'
      <4>1. manifest[i].id \in ids
        BY <3>2
      <4>2. manifest[i].id <= Max(ids) /\ manifest[i].id \in 0 .. MaxId
        BY <3>2, <3>5, <4>1
      <4>3. QED
        BY <3>4, <3>6, <4>2
    <3>8. QED
      BY <3>4, <3>6, <3>7
  <2>3. QED
    BY <2>1, <2>2
<1>5. active' = Replay(wal) /\ Replay(wal) \in Table
  BY <1>1, ReplayType DEF Open
<1>6. TypeOK'
  BY <1>3, <1>4, <1>5 DEF IInv, TypeOK, Open, disk
<1>7. MemoryShape'
  BY <1>5 DEF IInv, MemoryShape, Open, Settled, Building
<1>8. LogMatchesMemory' /\ Output' /\ IdRoom'
  BY <1>5 DEF LogMatchesMemory, Output, IdRoom, Open, disk, Settled, Building
<1>9. ManifestReadable' /\ ReadersMirrorManifest'
  BY <1>3 DEF IInv, ManifestReadable, ReadersMirrorManifest, Open, disk
<1>10. Catalogue'
  BY <1>4 DEF IInv, Catalogue, Open, disk
<1>11. QED
  BY <1>6, <1>7, <1>8, <1>9, <1>10 DEF IInv

(* A crash leaves only what is on disk.                                    *)
LEMMA CrashStep == ASSUME IInv, Crash PROVE IInv'
<1> USE Markers DEF Crash, disk
<1>1. TypeOK'
  BY DEF IInv, TypeOK
<1>2. MemoryShape' /\ LogMatchesMemory' /\ Output' /\ IdRoom'
  BY DEF MemoryShape, LogMatchesMemory, Output, IdRoom, Settled, Building
<1>3. ManifestReadable' /\ ReadersMirrorManifest'
  BY DEF IInv, ManifestReadable, ReadersMirrorManifest
<1>4. Catalogue'
  BY DEF IInv, Catalogue, ToSet
<1>5. QED
  BY <1>1, <1>2, <1>3, <1>4 DEF IInv

(* The log is one entry ahead of the memtable until the entry is applied.  *)
LEMMA AppendLogStep ==
  ASSUME IInv, NEW k \in Key, NEW c \in Written, AppendLog(k, c)
  PROVE  IInv'
<1> USE Markers
<1> DEFINE e == [key |-> k, cell |-> c]
<1>1. e \in LogEntry /\ e.key = k /\ e.cell = c
  BY DEF LogEntry
<1>2. wal \in Seq(LogEntry) /\ wal' = Append(wal, e) /\ op' = e /\ pc = "idle"
  BY DEF IInv, TypeOK, AppendLog
<1>3. active = Replay(wal) /\ active \in Table
  BY <1>2 DEF IInv, LogMatchesMemory, MemoryShape, Settled
<1> HIDE DEF e
<1>4. wal' \in Seq(LogEntry) /\ Replay(wal') = [active EXCEPT ![op'.key] = op'.cell]
  BY <1>1, <1>2, <1>3, ReplayAppend
<1>5. TypeOK'
  BY <1>1, <1>2, <1>4 DEF IInv, TypeOK, AppendLog
<1>6. MemoryShape' /\ LogMatchesMemory'
  BY <1>1, <1>2, <1>3, <1>4
     DEF IInv, MemoryShape, LogMatchesMemory, AppendLog, Settled, Building
<1>7. ManifestReadable' /\ ReadersMirrorManifest' /\ Catalogue'
  BY <1>2 DEF IInv, ManifestReadable, ReadersMirrorManifest, Catalogue, AppendLog
<1>8. Output' /\ IdRoom'
  BY DEF Output, IdRoom, AppendLog, RoomForIds, Building
<1>9. QED
  BY <1>5, <1>6, <1>7, <1>8 DEF IInv

(* Applying the entry closes the gap.                                      *)
LEMMA ApplyWriteStep == ASSUME IInv, ApplyWrite PROVE IInv'
<1> USE Markers
<1>1. pc = "apply" /\ op \in LogEntry /\ active \in Table /\ immutable = Nil
      /\ pc' \in {"idle", "flush"}
  BY DEF IInv, MemoryShape, ApplyWrite
<1>2. active' = Replay(wal) /\ active' \in Table
  <2>1. active' = [active EXCEPT ![op.key] = op.cell]
    BY DEF ApplyWrite
  <2>2. active' \in Table
    BY <1>1, <2>1 DEF LogEntry, Table, Cell
  <2>3. QED
    BY <1>1, <2>1, <2>2 DEF IInv, LogMatchesMemory
<1>3. TypeOK'
  BY <1>1, <1>2 DEF IInv, TypeOK, ApplyWrite, disk
<1>4. MemoryShape' /\ LogMatchesMemory'
  BY <1>1, <1>2 DEF IInv, MemoryShape, LogMatchesMemory, ApplyWrite, disk, Settled, Building
<1>5. ManifestReadable' /\ ReadersMirrorManifest' /\ Catalogue'
  BY <1>1 DEF IInv, ManifestReadable, ReadersMirrorManifest, Catalogue, ApplyWrite, disk
<1>6. Output' /\ IdRoom'
  BY <1>1 DEF IInv, Output, IdRoom, ApplyWrite, Building
<1>7. QED
  BY <1>3, <1>4, <1>5, <1>6 DEF IInv

(* Taking the mutex for a flush or a compaction changes nothing else.      *)
LEMMA StartStep == ASSUME IInv, FlushMemTable \/ TriggerCompaction PROVE IInv'
<1> USE Markers
<1>1. pc = "idle" /\ pc' \in {"flush", "compact"} /\ counter + 1 <= MaxId
      /\ counter \in Nat /\ sstables \in Seq(FileName)
      /\ (pc' = "compact" => sstables # <<>>)
      /\ UNCHANGED <<wal, manifest, files, op, active, immutable, sstables, counter, obsolete>>
  BY DEF FlushMemTable, TriggerCompaction, RoomForIds, disk, memory, IInv, TypeOK
<1>2. TypeOK'
  BY <1>1 DEF IInv, TypeOK
<1>3. MemoryShape' /\ LogMatchesMemory' /\ Output' /\ IdRoom'
  BY <1>1 DEF IInv, MemoryShape, LogMatchesMemory, Output, IdRoom, Settled, Building
<1>4. ManifestReadable' /\ ReadersMirrorManifest' /\ Catalogue'
  BY <1>1 DEF IInv, ManifestReadable, ReadersMirrorManifest, Catalogue
<1>5. QED
  BY <1>2, <1>3, <1>4 DEF IInv

(* Writing an unlisted file leaves every listed one as it was, so it       *)
(* leaves MANIFEST readable and the readers' contents unchanged.           *)
LEMMA UnlistedWrite ==
  ASSUME IInv, pc # "down", NEW f \in FileName, f \notin ToSet(manifest),
         NEW x \in Table \cup {Partial, Nil},
         files' = [files EXCEPT ![f] = x], UNCHANGED <<manifest, sstables>>
  PROVE  /\ files' \in [FileName -> Table \cup {Partial, Nil}] /\ files'[f] = x
         /\ \A g \in ToSet(manifest) : files'[g] = files[g]
         /\ ManifestReadable'
         /\ Content(sstables)' = Content(sstables)
         /\ Content(Reverse(manifest))' = Content(Reverse(manifest))
<1>1. files \in [FileName -> Table \cup {Partial, Nil}] /\ manifest \in Seq(FileName)
      /\ ManifestReadable /\ sstables = Reverse(manifest)
  BY DEF IInv, TypeOK, ReadersMirrorManifest
<1>2. sstables \in Seq(FileName) /\ ToSet(sstables) = ToSet(manifest)
  BY <1>1, ReverseProperties
<1>3. \A g \in ToSet(manifest) : files'[g] = files[g]
  BY <1>1 DEF ToSet
<1>4. \A i \in DOMAIN sstables : files'[sstables[i]] = files[sstables[i]]
  BY <1>2, <1>3 DEF ToSet
<1>5. Content(sstables)' = Content(sstables)
  BY <1>4 DEF Content
<1>6. Content(Reverse(manifest))' = Content(Reverse(manifest))
  BY <1>1, <1>4 DEF Content
<1>7. QED
  BY <1>1, <1>3, <1>5, <1>6 DEF ManifestReadable

(* The new file has an id no listed file has.                              *)
LEMMA BeginFlushStep == ASSUME IInv, BeginFlush PROVE IInv'
<1> USE Markers
<1> DEFINE new == DataFile(counter)
<1>1. pc = "flush" /\ pc' = "finish" /\ counter \in 0 .. MaxId /\ counter' = counter + 1
      /\ counter' \in Nat /\ counter' \in 1 .. MaxId /\ counter' - 1 = counter
      /\ active \in Table /\ immutable' = active /\ active' = Nil /\ active = Replay(wal)
      /\ UNCHANGED <<wal, manifest, op, sstables, obsolete>>
  <2>1. pc = "flush" /\ pc' = "finish" /\ counter' = counter + 1
        /\ immutable' = active /\ active' = Nil
        /\ UNCHANGED <<wal, manifest, op, sstables, obsolete>>
    BY DEF BeginFlush
  <2>2. counter \in 0 .. MaxId /\ counter' \in 1 .. MaxId
    BY <2>1 DEF IInv, TypeOK, IdRoom
  <2>3. active \in Table /\ active = Replay(wal)
    BY <2>1 DEF IInv, MemoryShape, LogMatchesMemory, Settled
  <2>4. QED
    BY <2>1, <2>2, <2>3
<1>2. /\ new \in FileName /\ new.id = counter
      /\ \A i \in DOMAIN manifest : manifest[i].id < counter /\ manifest[i].id \in Nat
  BY <1>1, NewNames, ListedIds DEF IInv, Catalogue, TypeOK
<1>3. new \notin ToSet(manifest) /\ files' = [files EXCEPT ![new] = Partial]
  BY <1>2, UnlistedFile DEF IInv, TypeOK, BeginFlush
<1> HIDE DEF new
<1>4. files' \in [FileName -> Table \cup {Partial, Nil}] /\ ManifestReadable'
  BY <1>1, <1>2, <1>3, UnlistedWrite
<1>5. TypeOK'
  BY <1>1, <1>4 DEF IInv, TypeOK
<1>6. MemoryShape' /\ LogMatchesMemory'
  BY <1>1 DEF IInv, MemoryShape, LogMatchesMemory, Settled, Building
<1>7. Catalogue' /\ ReadersMirrorManifest'
  BY <1>1, <1>2 DEF IInv, Catalogue, ReadersMirrorManifest
<1>8. Output' /\ IdRoom'
  BY <1>1 DEF Output, IdRoom, Building
<1>9. QED
  BY <1>4, <1>5, <1>6, <1>7, <1>8 DEF IInv

LEMMA FinishFlushStep == ASSUME IInv, FinishFlush PROVE IInv'
<1> USE Markers
<1> DEFINE new == DataFile(counter - 1)
<1>1. pc = "finish" /\ pc' = "publish" /\ counter \in 1 .. MaxId /\ counter - 1 \in 0 .. MaxId
      /\ immutable \in Table
      /\ UNCHANGED <<wal, manifest, op, active, immutable, sstables, counter, obsolete>>
  BY DEF FinishFlush, IInv, IdRoom, MemoryShape, Building, memory
<1>2. /\ new \in FileName /\ new.id = counter - 1
      /\ \A i \in DOMAIN manifest : manifest[i].id < counter - 1
  BY <1>1, NewNames DEF IInv, Catalogue
<1>3. new \notin ToSet(manifest) /\ files' = [files EXCEPT ![new] = immutable]
  BY <1>2, UnlistedFile DEF IInv, TypeOK, FinishFlush
<1> HIDE DEF new
<1>4. /\ files' \in [FileName -> Table \cup {Partial, Nil}] /\ ManifestReadable'
      /\ files'[new] = immutable
  BY <1>1, <1>2, <1>3, UnlistedWrite
<1>5. TypeOK'
  BY <1>1, <1>4 DEF IInv, TypeOK
<1>6. MemoryShape' /\ LogMatchesMemory'
  BY <1>1 DEF IInv, MemoryShape, LogMatchesMemory, Settled, Building
<1>7. Catalogue' /\ ReadersMirrorManifest'
  BY <1>1, <1>2 DEF IInv, Catalogue, ReadersMirrorManifest
<1>8. Output' /\ IdRoom'
  BY <1>1, <1>4 DEF IInv, Output, IdRoom, Building, new
<1>9. QED
  BY <1>4, <1>5, <1>6, <1>7, <1>8 DEF IInv

(* MANIFEST grows at its end, the list of readers at its front.            *)
LEMMA PublishFlushStep == ASSUME IInv, PublishFlush PROVE IInv'
<1> USE Markers
<1> DEFINE new == DataFile(counter - 1)
           n == Len(manifest)
<1>1. pc = "publish" /\ pc' = "truncate" /\ counter \in 1 .. MaxId /\ counter - 1 \in 0 .. MaxId
      /\ immutable \in Table /\ files[new] = immutable
      /\ UNCHANGED <<wal, files, op, active, immutable, counter, obsolete>>
  BY DEF PublishFlush, IInv, IdRoom, MemoryShape, Output, Building
<1>2. new \in FileName /\ new.id = counter - 1
  BY <1>1, NewNames
<1>3. /\ manifest \in Seq(FileName) /\ manifest' = Append(manifest, new)
      /\ sstables = Reverse(manifest) /\ sstables' = <<new>> \o sstables
  BY <1>1 DEF IInv, TypeOK, ReadersMirrorManifest, PublishFlush
<1> HIDE DEF new
<1>4. /\ manifest' \in Seq(FileName) /\ DOMAIN manifest' = 1 .. n + 1 /\ n \in Nat
      /\ DOMAIN manifest = 1 .. n /\ manifest'[n + 1] = new
      /\ \A i \in 1 .. n : manifest'[i] = manifest[i]
  BY <1>2, <1>3
<1> HIDE DEF n
<1>5. sstables' = Reverse(manifest') /\ sstables' \in Seq(FileName)
  BY <1>2, <1>3, <1>4, ReverseAppend, ReverseProperties
<1>6. sstables' # <<>> /\ sstables'[1] = new
  BY <1>2, <1>3, <1>4, ReverseProperties
<1>7. ManifestReadable'
  BY <1>1, <1>4 DEF IInv, ManifestReadable, ToSet
<1>8. Catalogue'
  <2>1. /\ \A i, j \in 1 .. n : i < j => manifest[i].id < manifest[j].id
        /\ \A i \in 1 .. n : manifest[i].id < counter - 1 /\ manifest[i].id \in Nat
    BY <1>1, <1>3, <1>4, ListedIds DEF IInv, Catalogue
  <2>2. ASSUME NEW i \in 1 .. n + 1, NEW j \in 1 .. n + 1, i < j
        PROVE  manifest'[i].id < manifest'[j].id
    <3>1. i \in 1 .. n
      BY <2>2, <1>4
    <3>2. CASE j \in 1 .. n
      BY <3>1, <3>2, <2>1, <2>2, <1>4
    <3>3. CASE j = n + 1
      BY <3>1, <3>3, <2>1, <1>2, <1>4
    <3>4. QED
      BY <3>2, <3>3, <1>4
  <2>3. ASSUME NEW i \in 1 .. n + 1 PROVE manifest'[i].id < counter
    BY <2>1, <1>1, <1>2, <1>4
  <2>4. ASSUME FirstId # 0 PROVE manifest' # <<>> /\ \A i \in 1 .. n + 1 : manifest'[i].id # 0
    <3>1. manifest # <<>> /\ \A i \in 1 .. n : manifest[i].id # 0
      BY <2>4, <1>4 DEF IInv, Catalogue
    <3>2. 1 \in 1 .. n
      BY <3>1, <1>3, <1>4
    <3>3. counter - 1 # 0
      BY <2>1, <3>2
    <3>4. QED
      <4>1. manifest'[n + 1].id # 0 /\ \A i \in 1 .. n : manifest'[i].id # 0
        BY <3>1, <3>3, <1>2, <1>4
      <4>2. \A i \in 1 .. n + 1 : i \in 1 .. n \/ i = n + 1
        BY <1>4
      <4>3. manifest' # <<>>
        BY <1>4
      <4>4. QED
        BY <4>1, <4>2, <4>3
  <2>5. obsolete' = <<>>
    BY <1>1 DEF IInv, MemoryShape
  <2>6. QED
    BY <1>1, <1>4, <2>2, <2>3, <2>4, <2>5 DEF Catalogue, ToSet
<1>9. TypeOK'
  BY <1>1, <1>4, <1>5 DEF IInv, TypeOK
<1>10. MemoryShape' /\ LogMatchesMemory'
  BY <1>1 DEF IInv, MemoryShape, LogMatchesMemory, Settled, Building
<1>11. Output' /\ IdRoom' /\ ReadersMirrorManifest'
  BY <1>1, <1>5, <1>6 DEF Output, IdRoom, ReadersMirrorManifest, Building
<1>12. QED
  BY <1>7, <1>8, <1>9, <1>10, <1>11 DEF IInv

(* The log is emptied once its content is in a listed table.               *)
LEMMA TruncateLogStep == ASSUME IInv, TruncateLog PROVE IInv'
<1> USE Markers
<1>1. pc = "truncate" /\ pc' \in {"compact", "idle"} /\ counter \in 1 .. MaxId
      /\ immutable' = Nil /\ wal' = <<>> /\ active' = EmptyTable
      /\ UNCHANGED <<manifest, files, op, sstables, counter, obsolete>>
  BY DEF TruncateLog, IInv, IdRoom, Building
<1>2. active' \in Table /\ active' = Replay(wal')
  BY <1>1, ReplayEmpty DEF EmptyTable, Table, Cell
<1>3. sstables # <<>>
  BY <1>1 DEF IInv, Output
<1>4. TypeOK'
  BY <1>1, <1>2 DEF IInv, TypeOK
<1>5. MemoryShape' /\ LogMatchesMemory'
  BY <1>1, <1>2, <1>3 DEF IInv, MemoryShape, LogMatchesMemory, Settled, Building
<1>6. ManifestReadable' /\ ReadersMirrorManifest' /\ Catalogue'
  BY <1>1 DEF IInv, ManifestReadable, ReadersMirrorManifest, Catalogue
<1>7. Output' /\ IdRoom'
  BY <1>1 DEF Output, IdRoom, Building
<1>8. QED
  BY <1>4, <1>5, <1>6, <1>7 DEF IInv

-----------------------------------------------------------------------------
(* Compaction.                                                             *)

(* In a directory that has compacted once no listed id is 0, so every      *)
(* generation is the id in the file name, and ids fall along the readers.  *)
LEMMA GenerationsFall ==
  ASSUME IInv, pc # "down", FirstId # 0
  PROVE  /\ \A i \in DOMAIN sstables : Generation(sstables, i) \in Nat
         /\ NewestFirst
<1> DEFINE n == Len(manifest)
<1>1. /\ manifest \in Seq(FileName) /\ n \in Nat /\ DOMAIN manifest = 1 .. n
      /\ sstables = Reverse(manifest)
      /\ \A i \in 1 .. n : manifest[i].id \in Nat /\ manifest[i].id # 0
      /\ \A i, j \in 1 .. n : i < j => manifest[i].id < manifest[j].id
  BY ListedIds DEF IInv, TypeOK, ReadersMirrorManifest, Catalogue
<1>2. /\ DOMAIN sstables = 1 .. n
      /\ \A i \in 1 .. n : sstables[i] = manifest[n - i + 1]
  <2>1. manifest \in Seq(FileName) /\ sstables = Reverse(manifest)
    BY <1>1
  <2>2. /\ sstables \in Seq(FileName) /\ Len(sstables) = n
        /\ \A i \in 1 .. n : sstables[i] = manifest[n - i + 1]
    BY <2>1, ReverseProperties
  <2>3. DOMAIN sstables = 1 .. n
    BY <2>2
  <2>4. QED
    BY <2>2, <2>3
<1>3. \A i \in 1 .. n : n - i + 1 \in 1 .. n
  BY <1>1
<1> HIDE DEF n
<1>4. \A i \in 1 .. n : Generation(sstables, i) = manifest[n - i + 1].id
  BY <1>1, <1>2, <1>3 DEF Generation
<1>5. \A i, j \in 1 .. n : i < j => n - j + 1 < n - i + 1
  BY <1>1
<1>6. ASSUME NEW i \in 1 .. n, NEW j \in 1 .. n, i < j
      PROVE  Generation(sstables, i) > Generation(sstables, j)
  <2>1. manifest[n - j + 1].id < manifest[n - i + 1].id
    BY <1>1, <1>3, <1>5, <1>6
  <2>2. QED
    BY <2>1, <1>1, <1>3, <1>4
<1>7. QED
  BY <1>1, <1>2, <1>3, <1>4, <1>6 DEF NewestFirst

(* What FinishCompaction writes answers like the tables it read.           *)
LEMMA MergedTable ==
  ASSUME IInv, pc = "merge", NEW t \in CompactOutcomes(Inputs(sstables))
  PROVE  /\ t \in Table
         /\ FirstId # 0 => \A k \in Key : t[k] = Answer(Lookup(Content(sstables), k))
<1>1. t \in Table
  BY DEF CompactOutcomes
<1>2. ASSUME FirstId # 0, NEW k \in Key
      PROVE  t[k] = Answer(Lookup(Content(sstables), k))
  <2> DEFINE in == Inputs(sstables)
             n == Len(sstables)
  <2>1. n \in Nat /\ DOMAIN sstables = 1 .. n
    BY DEF IInv, TypeOK
  <2>2. /\ DOMAIN in = 1 .. n
        /\ \A i \in 1 .. n : /\ in[i].generation = Generation(sstables, i)
                            /\ in[i].table = files[sstables[i]]
    BY <2>1 DEF Inputs
  <2>3. /\ \A i \in 1 .. n : in[i].generation \in Nat
        /\ \A i, j \in 1 .. n : i < j => in[i].generation > in[j].generation
    BY <2>1, <2>2, <1>2, GenerationsFall DEF NewestFirst
  <2>4. [i \in 1 .. n |-> in[i].table] = Content(sstables)
    BY <2>1, <2>2 DEF Content
  <2> HIDE DEF in, n
  <2>5. t \in CompactOutcomes(in)
    BY DEF in
  <2>6. t[k] = Answer(Lookup([i \in 1 .. n |-> in[i].table], k))
    BY <2>1, <2>2, <2>3, <2>5, CompactKeepsNewest
  <2>7. QED
    BY <2>4, <2>6
<1>3. QED
  BY <1>1, <1>2

LEMMA BeginCompactionStep == ASSUME IInv, BeginCompaction PROVE IInv'
<1> USE Markers
<1> DEFINE new == CompactedFile(counter)
<1>1. pc = "compact" /\ pc' = "merge" /\ counter \in 0 .. MaxId /\ counter' = counter + 1
      /\ counter' \in Nat /\ counter' \in 1 .. MaxId + 1 /\ counter' - 1 = counter
      /\ UNCHANGED <<wal, manifest, op, active, immutable, sstables, obsolete>>
  BY DEF BeginCompaction, IInv, TypeOK, IdRoom
<1>2. /\ new \in FileName /\ new.id = counter
      /\ \A i \in DOMAIN manifest : manifest[i].id < counter /\ manifest[i].id \in Nat
  BY <1>1, NewNames, ListedIds DEF IInv, Catalogue, TypeOK
<1>3. new \notin ToSet(manifest) /\ files' = [files EXCEPT ![new] = Partial]
  BY <1>2, UnlistedFile DEF IInv, TypeOK, BeginCompaction
<1> HIDE DEF new
<1>4. files' \in [FileName -> Table \cup {Partial, Nil}] /\ ManifestReadable'
  BY <1>1, <1>2, <1>3, UnlistedWrite
<1>5. TypeOK'
  BY <1>1, <1>4 DEF IInv, TypeOK
<1>6. MemoryShape' /\ LogMatchesMemory'
  BY <1>1 DEF IInv, MemoryShape, LogMatchesMemory, Settled, Building
<1>7. Catalogue' /\ ReadersMirrorManifest'
  BY <1>1, <1>2 DEF IInv, Catalogue, ReadersMirrorManifest
<1>8. Output' /\ IdRoom'
  BY <1>1 DEF Output, IdRoom, Building
<1>9. QED
  BY <1>4, <1>5, <1>6, <1>7, <1>8 DEF IInv

LEMMA FinishCompactionStep == ASSUME IInv, FinishCompaction PROVE IInv'
<1> USE Markers
<1> DEFINE new == CompactedFile(counter - 1)
<1>1. pc = "merge" /\ pc' = "swap" /\ counter \in 1 .. MaxId + 1 /\ counter - 1 \in 0 .. MaxId
      /\ UNCHANGED <<wal, manifest, op, active, immutable, sstables, counter, obsolete>>
  BY DEF FinishCompaction, IInv, IdRoom, memory
<1>2. /\ new \in FileName /\ new.id = counter - 1
      /\ \A i \in DOMAIN manifest : manifest[i].id < counter - 1
  BY <1>1, NewNames DEF IInv, Catalogue
<1>3. PICK t \in CompactOutcomes(Inputs(sstables)) : files' = [files EXCEPT ![new] = t]
  BY DEF FinishCompaction
<1>4. /\ t \in Table
      /\ FirstId # 0 => \A k \in Key : t[k] = Answer(Lookup(Content(sstables), k))
  BY <1>1, MergedTable
<1>5. new \notin ToSet(manifest)
  BY <1>2, UnlistedFile DEF IInv, TypeOK
<1> HIDE DEF new
<1>6. /\ files' \in [FileName -> Table \cup {Partial, Nil}] /\ ManifestReadable'
      /\ files'[new] = t /\ Content(sstables)' = Content(sstables)
  BY <1>1, <1>2, <1>3, <1>4, <1>5, UnlistedWrite
<1>7. TypeOK'
  BY <1>1, <1>6 DEF IInv, TypeOK
<1>8. MemoryShape' /\ LogMatchesMemory'
  BY <1>1 DEF IInv, MemoryShape, LogMatchesMemory, Settled, Building
<1>9. Catalogue' /\ ReadersMirrorManifest'
  BY <1>1, <1>2 DEF IInv, Catalogue, ReadersMirrorManifest
<1>10. Output'
  <2>1. files'[CompactedFile(counter' - 1)] = t
    BY <1>1, <1>6 DEF new
  <2>2. QED
    BY <2>1, <1>1, <1>4, <1>6 DEF Output
<1>11. IdRoom'
  BY <1>1 DEF IdRoom, Building
<1>12. QED
  BY <1>6, <1>7, <1>8, <1>9, <1>10, <1>11 DEF IInv

(* All inputs are listed and all listed files are inputs, so the new list  *)
(* is the output alone.                                                    *)
LEMMA ReplaceWholeList ==
  ASSUME NEW list \in Seq(FileName), list # <<>>, NEW new
  PROVE  ReplaceSSTables(list, ToSet(list), new) = <<new>>
<1> DEFINE n == Len(list)
           at == {i \in DOMAIN list : list[i] \in ToSet(list)}
           rest == SubSeq(list, 2, n)
<1>1. n \in Nat /\ n >= 1 /\ DOMAIN list = 1 .. n
  OBVIOUS
<1>2. at = 1 .. n
  BY <1>1 DEF ToSet
<1>3. Min(at) = 1
  <2>1. at \in SUBSET Nat /\ at # {}
    BY <1>1, <1>2
  <2> HIDE DEF at
  <2>2. Min(at) \in at /\ \A j \in at : Min(at) <= j
    BY <2>1, MinProperty
  <2>3. QED
    BY <2>2, <1>1, <1>2
<1>4. SubSeq(list, 1, 1 - 1) = <<>>
  BY SubSeqEmpty
<1>5. rest \in Seq(FileName)
  BY <1>1
<1>6. Select(rest, ToSet(list) \ ToSet(list)) = <<>>
  BY <1>5, SelectProperties
<1>7. <<>> \o <<new>> \o <<>> = <<new>>
  OBVIOUS
<1>8. ReplaceSSTables(list, ToSet(list), new)
        = SubSeq(list, 1, Min(at) - 1) \o <<new>>
            \o Select(SubSeq(list, Min(at) + 1, n), ToSet(list) \ ToSet(list))
  BY DEF ReplaceSSTables
<1> HIDE DEF at, n, rest
<1>9. SubSeq(list, Min(at) + 1, n) = rest
  BY <1>3 DEF rest
<1>10. QED
  BY <1>3, <1>4, <1>6, <1>7, <1>8, <1>9

LEMMA SwapManifestStep == ASSUME IInv, SwapManifest PROVE IInv'
<1> USE Markers
<1> DEFINE new == CompactedFile(counter - 1)
<1>1. pc = "swap" /\ pc' = "unlink" /\ counter \in 1 .. MaxId + 1 /\ counter - 1 \in 0 .. MaxId
      /\ obsolete' = sstables /\ sstables' = <<new>> /\ sstables # <<>>
      /\ UNCHANGED <<wal, files, op, active, immutable, counter>>
  BY DEF SwapManifest, IInv, IdRoom, MemoryShape
<1>2. /\ new \in FileName /\ new.id = counter - 1
      /\ \A i \in DOMAIN manifest : manifest[i].id < counter - 1 /\ manifest[i].id \in Nat
  BY <1>1, NewNames, ListedIds DEF IInv, Catalogue, TypeOK
<1>3. new \notin ToSet(manifest) /\ files[new] \in Table
  BY <1>1, <1>2, UnlistedFile DEF IInv, TypeOK, Output
<1>4. /\ manifest \in Seq(FileName) /\ sstables \in Seq(FileName)
      /\ sstables = Reverse(manifest) /\ ToSet(sstables) = ToSet(manifest)
  BY <1>1, ReverseProperties DEF IInv, TypeOK, ReadersMirrorManifest
<1>5. manifest # <<>>
  BY <1>1, <1>4, ReverseProperties
<1>6. manifest' = <<new>>
  <2>1. manifest' = ReplaceSSTables(manifest, ToSet(sstables), new)
    BY DEF SwapManifest
  <2> HIDE DEF new
  <2>2. manifest' = ReplaceSSTables(manifest, ToSet(manifest), new)
    BY <2>1, <1>4
  <2>3. QED
    BY <2>2, <1>4, <1>5, ReplaceWholeList
<1> HIDE DEF new
<1>7. /\ <<new>> \in Seq(FileName) /\ ToSet(<<new>>) = {new} /\ DOMAIN <<new>> = {1}
      /\ <<new>>[1] = new /\ Reverse(<<new>>) = <<new>> /\ <<new>> # <<>>
  BY <1>2 DEF ToSet, Reverse
<1>8. TypeOK'
  BY <1>1, <1>4, <1>6, <1>7 DEF IInv, TypeOK
<1>9. MemoryShape' /\ LogMatchesMemory'
  BY <1>1 DEF IInv, MemoryShape, LogMatchesMemory, Settled, Building
<1>10. ManifestReadable' /\ ReadersMirrorManifest'
  BY <1>1, <1>3, <1>6, <1>7 DEF ManifestReadable, ReadersMirrorManifest
<1>11. FirstId # 0 => new.id # 0
  <2>1. 1 \in DOMAIN manifest
    BY <1>4, <1>5
  <2>2. QED
    BY <2>1, <1>1, <1>2
<1>12. Catalogue'
  <2>1. ToSet(obsolete') \cap ToSet(manifest') = {}
    BY <1>1, <1>3, <1>4, <1>6, <1>7
  <2>2. new.id < counter
    BY <1>1, <1>2
  <2>3. QED
    BY <2>1, <2>2, <1>1, <1>6, <1>7, <1>11 DEF Catalogue
<1>13. Output' /\ IdRoom'
  BY <1>1 DEF Output, IdRoom, Building
<1>14. QED
  BY <1>8, <1>9, <1>10, <1>12, <1>13 DEF IInv

(* Only files that MANIFEST no longer names are deleted.                   *)
LEMMA UnlinkStep == ASSUME IInv, Unlink PROVE IInv'
<1> USE Markers
<1> DEFINE gone == Head(obsolete)
<1>1. pc = "unlink" /\ pc' \in {"idle", "unlink"} /\ obsolete \in Seq(FileName) /\ obsolete # <<>>
      /\ obsolete' = Tail(obsolete) /\ pc' = (IF Len(obsolete) = 1 THEN "idle" ELSE "unlink")
      /\ UNCHANGED <<wal, manifest, op, active, immutable, sstables, counter>>
  BY DEF Unlink, IInv, TypeOK, MemoryShape
<1>2. /\ obsolete' \in Seq(FileName) /\ gone \in FileName /\ gone \in ToSet(obsolete)
      /\ ToSet(obsolete') \subseteq ToSet(obsolete)
      /\ (obsolete' = <<>> <=> Len(obsolete) = 1)
  <2> DEFINE n == Len(obsolete)
  <2>1. n \in Nat /\ n >= 1 /\ DOMAIN obsolete = 1 .. n /\ gone = obsolete[1]
    BY <1>1
  <2>2. /\ obsolete' \in Seq(FileName) /\ Len(obsolete') = n - 1 /\ DOMAIN obsolete' = 1 .. n - 1
        /\ \A i \in 1 .. n - 1 : obsolete'[i] = obsolete[i + 1]
    BY <1>1, <2>1, HeadTailProperties
  <2> HIDE DEF n, gone
  <2>3. ASSUME NEW i \in 1 .. n - 1 PROVE i + 1 \in 1 .. n
    BY <2>1
  <2>4. ToSet(obsolete') \subseteq ToSet(obsolete)
    BY <2>1, <2>2, <2>3 DEF ToSet
  <2>5. gone \in ToSet(obsolete) /\ gone \in FileName
    <3>1. 1 \in DOMAIN obsolete
      BY <2>1
    <3>2. QED
      BY <3>1, <2>1, <1>1 DEF ToSet
  <2>6. obsolete' = <<>> <=> n = 1
    BY <2>1, <2>2
  <2>7. QED
    BY <2>2, <2>4, <2>5, <2>6 DEF n
<1>3. gone \notin ToSet(manifest) /\ ToSet(obsolete') \cap ToSet(manifest') = {}
      /\ files' = [files EXCEPT ![gone] = Nil]
  BY <1>1, <1>2 DEF IInv, Catalogue, Unlink
<1> HIDE DEF gone
<1>4. files' \in [FileName -> Table \cup {Partial, Nil}] /\ ManifestReadable'
  BY <1>1, <1>2, <1>3, UnlistedWrite
<1>5. active' # Nil
  BY <1>1 DEF IInv, MemoryShape, Settled
<1>6. TypeOK' /\ MemoryShape' /\ LogMatchesMemory'
  <2>1. TypeOK'
    BY <1>1, <1>2, <1>4, <1>5 DEF IInv, TypeOK
  <2>2. MemoryShape' /\ LogMatchesMemory'
    BY <1>1, <1>2 DEF IInv, MemoryShape, LogMatchesMemory, Settled, Building
  <2>3. QED
    BY <2>1, <2>2
<1>7. Catalogue' /\ ReadersMirrorManifest'
  BY <1>1, <1>3 DEF IInv, Catalogue, ReadersMirrorManifest
<1>8. Output' /\ IdRoom'
  BY <1>1 DEF Output, IdRoom, Building
<1>9. QED
  BY <1>4, <1>6, <1>7, <1>8 DEF IInv

-----------------------------------------------------------------------------
(* The invariant, and the safety properties that follow from it.           *)

LEMMA NextInvariant == IInv /\ [Next]_vars => IInv'
<1> SUFFICES ASSUME IInv, [Next]_vars PROVE IInv'
  OBVIOUS
<1>1. CASE Open
  BY <1>1, OpenStep
<1>2. CASE Crash
  BY <1>2, CrashStep
<1>3. CASE \E k \in Key, c \in Written : AppendLog(k, c)
  BY <1>3, AppendLogStep
<1>4. CASE ApplyWrite
  BY <1>4, ApplyWriteStep
<1>5. CASE FlushMemTable \/ TriggerCompaction
  BY <1>5, StartStep
<1>6. CASE Flush
  BY <1>6, BeginFlushStep, FinishFlushStep, PublishFlushStep, TruncateLogStep DEF Flush
<1>7. CASE Compaction
  BY <1>7, BeginCompactionStep, FinishCompactionStep, SwapManifestStep, UnlinkStep DEF Compaction
<1>8. CASE UNCHANGED vars
  BY <1>8 DEF IInv, TypeOK, MemoryShape, LogMatchesMemory, ManifestReadable,
              ReadersMirrorManifest, Catalogue, Output, IdRoom, Content,
              vars, disk, memory
<1>9. QED
  BY <1>1, <1>2, <1>3, <1>4, <1>5, <1>6, <1>7, <1>8 DEF Next

(* The inductive invariant holds in every reachable state.                 *)
THEOREM Invariant == Spec => []IInv
<1>1. QED
  BY InitInvariant, NextInvariant, PTL DEF Spec

(* Type correctness, which already needs the whole invariant: that an id   *)
(* handed out names a file within the bound depends on the order of steps. *)
THEOREM TypeCorrect == Spec => []TypeOK
<1>1. IInv => TypeOK
  BY DEF IInv
<1>2. QED
  BY <1>1, Invariant, PTL

(* MANIFEST names only complete files, at every step of every flush,       *)
(* compaction and crash.                                                   *)
THEOREM ManifestAlwaysReadable == Spec => []ManifestReadable
<1>1. IInv => ManifestReadable
  BY DEF IInv
<1>2. QED
  BY <1>1, Invariant, PTL

(* The readers and MANIFEST never diverge, so compaction by name always    *)
(* finds its inputs listed.                                                *)
THEOREM ReadersAlwaysMirrorManifest == Spec => []ReadersMirrorManifest
<1>1. IInv => ReadersMirrorManifest
  BY DEF IInv
<1>2. QED
  BY <1>1, Invariant, PTL

(* Memory over the tables answers like the log over the tables.            *)
LEMMA GetMatchesDurableGet ==
  ASSUME IInv, pc \notin {"down", "apply"}, NEW k \in Key
  PROVE  Get(k) = DurableGet(k)
<1> USE Markers
<1>1. pc \in Settled \cup Building
  BY DEF IInv, TypeOK, Settled, Building
<1>2. Content(sstables) = Content(Reverse(manifest))
  BY DEF IInv, ReadersMirrorManifest
<1>3. CASE pc \in Settled
  <2>1. active = Replay(wal) /\ active \in Table /\ active # Nil /\ immutable = Nil
    BY <1>3 DEF IInv, MemoryShape, LogMatchesMemory
  <2>2. QED
    BY <2>1, <1>2 DEF Get, DurableGet, InMemTable
<1>4. CASE pc \in Building
  <2>1. immutable = Replay(wal) /\ immutable \in Table /\ immutable # Nil /\ active = Nil
    BY <1>4 DEF IInv, MemoryShape, LogMatchesMemory
  <2>2. QED
    BY <2>1, <1>2 DEF Get, DurableGet, InMemTable
<1>5. QED
  BY <1>1, <1>3, <1>4

(* A crash at any step loses nothing a caller could have read.             *)
THEOREM CrashNeverLoses == Spec => []CrashLosesNothing
<1>1. IInv => CrashLosesNothing
  BY GetMatchesDurableGet DEF CrashLosesNothing
<1>2. QED
  BY <1>1, Invariant, PTL

(* Once a directory has compacted, the order by generation is the order of *)
(* the search, whatever the threshold and however often it crashed.        *)
THEOREM NewestAlwaysFirst == ASSUME FirstId # 0 PROVE Spec => []NewestFirst
<1>1. IInv => NewestFirst
  <2>1. CASE pc = "down"
    BY <2>1 DEF IInv, MemoryShape, NewestFirst
  <2>2. CASE pc # "down"
    BY <2>2, GenerationsFall
  <2>3. QED
    BY <2>1, <2>2
<1>2. QED
  BY <1>1, Invariant, PTL

(* Then compaction keeps the newest version of every key.                  *)
THEOREM CompactionIsFaithful == ASSUME FirstId # 0 PROVE Spec => CompactionKeepsNewest
<1> DEFINE Kept == FinishCompaction =>
                     \A k \in Key : Answer(files'[CompactedFile(counter - 1)][k])
                                     = Answer(Lookup(Content(sstables), k))
<1>1. IInv /\ [Next]_vars => [Kept]_vars
  <2> SUFFICES ASSUME IInv, FinishCompaction, NEW k \in Key
               PROVE  Answer(files'[CompactedFile(counter - 1)][k])
                        = Answer(Lookup(Content(sstables), k))
    OBVIOUS
  <2> DEFINE new == CompactedFile(counter - 1)
  <2>1. PICK t \in CompactOutcomes(Inputs(sstables)) : files' = [files EXCEPT ![new] = t]
    BY DEF FinishCompaction
  <2>2. pc = "merge" /\ counter - 1 \in 0 .. MaxId
    BY Markers DEF FinishCompaction, IInv, IdRoom
  <2>3. new \in FileName
    BY <2>2, NewNames
  <2>4. files'[new] = t
    <3> HIDE DEF new
    <3> QED
      BY <2>1, <2>3 DEF IInv, TypeOK
  <2>5. t[k] = Answer(Lookup(Content(sstables), k))
    BY <2>1, <2>2, MergedTable
  <2>6. QED
    BY <2>4, <2>5, CellsDistinct DEF Answer
<1>2. QED
  BY <1>1, Invariant, PTL DEF Spec, CompactionKeepsNewest

-----------------------------------------------------------------------------
(* Files are written only while MANIFEST does not name them.               *)

(* The steps that write or delete a file, and the file they touch.         *)
LEMMA WriteSteps ==
  ASSUME IInv, BeginFlush \/ FinishFlush \/ BeginCompaction \/ FinishCompaction \/ Unlink
  PROVE  /\ UNCHANGED <<wal, manifest, sstables>>
         /\ pc # "down"
         /\ \E f \in FileName, x \in Table \cup {Partial, Nil} :
              f \notin ToSet(manifest) /\ files' = [files EXCEPT ![f] = x]
<1> USE Markers
<1>1. manifest \in Seq(FileName)
  BY DEF IInv, TypeOK
<1>2. CASE BeginFlush
  <2>1. counter \in 0 .. MaxId /\ \A i \in DOMAIN manifest : manifest[i].id < counter
    BY <1>2 DEF BeginFlush, IInv, TypeOK, IdRoom, Catalogue
  <2>2. DataFile(counter) \in FileName /\ DataFile(counter) \notin ToSet(manifest)
    BY <2>1, <1>1, NewNames, UnlistedFile
  <2>3. QED
    BY <2>2, <1>2 DEF BeginFlush
<1>3. CASE FinishFlush
  <2>1. counter - 1 \in 0 .. MaxId /\ \A i \in DOMAIN manifest : manifest[i].id < counter - 1
    BY <1>3 DEF FinishFlush, IInv, IdRoom, Catalogue, Building
  <2>2. DataFile(counter - 1) \in FileName /\ DataFile(counter - 1) \notin ToSet(manifest)
    BY <2>1, <1>1, NewNames, UnlistedFile
  <2>3. immutable \in Table
    BY <1>3 DEF FinishFlush, IInv, MemoryShape, Building
  <2>4. QED
    BY <2>2, <2>3, <1>3 DEF FinishFlush, memory
<1>4. CASE BeginCompaction
  <2>1. counter \in 0 .. MaxId /\ \A i \in DOMAIN manifest : manifest[i].id < counter
    BY <1>4 DEF BeginCompaction, IInv, TypeOK, IdRoom, Catalogue
  <2>2. CompactedFile(counter) \in FileName /\ CompactedFile(counter) \notin ToSet(manifest)
    BY <2>1, <1>1, NewNames, UnlistedFile
  <2>3. QED
    BY <2>2, <1>4 DEF BeginCompaction
<1>5. CASE FinishCompaction
  <2>1. counter - 1 \in 0 .. MaxId /\ \A i \in DOMAIN manifest : manifest[i].id < counter - 1
    BY <1>5 DEF FinishCompaction, IInv, IdRoom, Catalogue
  <2>2. CompactedFile(counter - 1) \in FileName /\ CompactedFile(counter - 1) \notin ToSet(manifest)
    BY <2>1, <1>1, NewNames, UnlistedFile
  <2>3. PICK t \in CompactOutcomes(Inputs(sstables)) :
          files' = [files EXCEPT ![CompactedFile(counter - 1)] = t]
    BY <1>5 DEF FinishCompaction
  <2>4. t \in Table
    BY DEF CompactOutcomes
  <2>5. QED
    BY <2>2, <2>3, <2>4, <1>5 DEF FinishCompaction, memory
<1>6. CASE Unlink
  <2>1. obsolete \in Seq(FileName) /\ obsolete # <<>>
    BY <1>6 DEF Unlink, IInv, TypeOK, MemoryShape
  <2>2. Head(obsolete) \in ToSet(obsolete) /\ Head(obsolete) \in FileName
    <3>1. 1 \in DOMAIN obsolete /\ Head(obsolete) = obsolete[1]
      BY <2>1
    <3>2. QED
      BY <3>1, <2>1 DEF ToSet
  <2>3. Head(obsolete) \notin ToSet(manifest)
    BY <2>2 DEF IInv, Catalogue
  <2>4. QED
    BY <2>2, <2>3, <1>6 DEF Unlink
<1>7. QED
  BY <1>2, <1>3, <1>4, <1>5, <1>6

(* No step rewrites or deletes a file while MANIFEST names it.             *)
THEOREM LiveFilesNeverChange == Spec => LiveFilesImmutable
<1> DEFINE Kept == \A f \in ToSet(manifest) \cap ToSet(manifest') : files'[f] = files[f]
<1>1. IInv /\ [Next]_vars => [Kept]_vars
  <2> SUFFICES ASSUME IInv, Next PROVE Kept
    OBVIOUS
  <2>1. CASE BeginFlush \/ FinishFlush \/ BeginCompaction \/ FinishCompaction \/ Unlink
    <3>1. PICK f \in FileName, x \in Table \cup {Partial, Nil} :
            f \notin ToSet(manifest) /\ files' = [files EXCEPT ![f] = x]
      BY <2>1, WriteSteps
    <3>2. \A g \in ToSet(manifest) : g \in FileName
      BY DEF IInv, TypeOK, ToSet
    <3>3. QED
      BY <3>1, <3>2 DEF IInv, TypeOK
  <2>2. CASE ~ (BeginFlush \/ FinishFlush \/ BeginCompaction \/ FinishCompaction \/ Unlink)
    <3>1. UNCHANGED files
      BY <2>2 DEF Next, Open, Crash, AppendLog, ApplyWrite, FlushMemTable, Flush,
                  TriggerCompaction, Compaction, PublishFlush, TruncateLog,
                  SwapManifest, disk, memory
    <3>2. QED
      BY <3>1
  <2>3. QED
    BY <2>1, <2>2
<1>2. QED
  BY <1>1, Invariant, PTL DEF Spec, LiveFilesImmutable

-----------------------------------------------------------------------------
(* The engine implements KVStore.                                          *)

(* What a restart would serve, per step: only AppendLog changes it.        *)
LEMMA AppendLogContents ==
  ASSUME IInv, NEW k \in Key, NEW c \in Written, AppendLog(k, c)
  PROVE  Contents' = [Contents EXCEPT ![k] = Answer(c)]
<1> DEFINE e == [key |-> k, cell |-> c]
<1>1. e \in LogEntry /\ e.key = k /\ e.cell = c /\ wal' = Append(wal, e)
      /\ wal \in Seq(LogEntry) /\ UNCHANGED <<manifest, files>>
  BY DEF LogEntry, IInv, TypeOK, AppendLog
<1>2. Replay(wal) \in Table
  BY <1>1, ReplayType
<1>3. Replay(wal') = [Replay(wal) EXCEPT ![k] = c]
  <2> HIDE DEF e
  <2> QED
    BY <1>1, ReplayAppend
<1>4. c # Absent
  BY CellsDistinct DEF Written
<1>5. Content(Reverse(manifest))' = Content(Reverse(manifest))
  BY <1>1 DEF Content
<1>6. ASSUME NEW j \in Key
      PROVE  DurableGet(j)' = IF j = k THEN c ELSE DurableGet(j)
  BY <1>2, <1>3, <1>4, <1>5 DEF DurableGet, Table
<1>7. QED
  BY <1>6 DEF Contents

(* Writing an unlisted file changes nothing a restart would read.          *)
LEMMA WriteContents ==
  ASSUME IInv, BeginFlush \/ FinishFlush \/ BeginCompaction \/ FinishCompaction \/ Unlink
  PROVE  Contents' = Contents
<1>1. UNCHANGED <<wal, manifest, sstables>> /\ pc # "down"
  BY WriteSteps
<1>2. PICK f \in FileName, x \in Table \cup {Partial, Nil} :
        f \notin ToSet(manifest) /\ files' = [files EXCEPT ![f] = x]
  BY WriteSteps
<1>3. Content(Reverse(manifest))' = Content(Reverse(manifest))
  BY <1>1, <1>2, UnlistedWrite
<1>4. QED
  BY <1>1, <1>3 DEF Contents, DurableGet

(* The published table holds exactly what the log replays to.              *)
LEMMA PublishContents ==
  ASSUME IInv, PublishFlush PROVE Contents' = Contents
<1> DEFINE new == DataFile(counter - 1)
           old == Content(Reverse(manifest))
<1>1. immutable = Replay(wal) /\ immutable \in Table /\ files[new] = immutable
      /\ counter - 1 \in 0 .. MaxId
  BY Markers DEF IInv, PublishFlush, MemoryShape, LogMatchesMemory, Output, IdRoom, Building
<1>2. manifest \in Seq(FileName) /\ new \in FileName /\ UNCHANGED <<wal, files>>
      /\ manifest' = Append(manifest, new)
  BY <1>1, NewNames DEF IInv, TypeOK, PublishFlush
<1>3. Reverse(manifest) \in Seq(FileName) /\ ToSet(Reverse(manifest)) = ToSet(manifest)
  BY <1>2, ReverseProperties
<1>4. old \in Seq(Table) /\ DOMAIN old = 1 .. Len(Reverse(manifest))
      /\ \A i \in 1 .. Len(Reverse(manifest)) : old[i] = files[Reverse(manifest)[i]]
  BY <1>3, ContentType DEF IInv, ManifestReadable
<1>5. Content(Reverse(manifest))' = <<immutable>> \o old
  <2> DEFINE r == Reverse(manifest)
             n == Len(r)
             new2 == <<new>> \o r
             c2 == <<immutable>> \o old
  <2>1. Reverse(manifest') = new2
    BY <1>2, ReverseAppend
  <2>2. n \in Nat /\ r \in Seq(FileName) /\ DOMAIN new2 = 1 .. n + 1 /\ new2[1] = new
        /\ \A i \in 2 .. n + 1 : new2[i] = r[i - 1]
    <3> HIDE DEF r, new
    <3> QED
      BY <1>2, <1>3 DEF r
  <2>3. old \in Seq(Table) /\ Len(old) = n
    BY <1>4
  <2>4. c2 \in Seq(Table) /\ DOMAIN c2 = 1 .. n + 1 /\ c2[1] = immutable
        /\ \A i \in 2 .. n + 1 : c2[i] = old[i - 1]
    <3> HIDE DEF old, n
    <3> QED
      BY <2>3, <2>2, <1>1
  <2>5. \A i \in 2 .. n + 1 : c2[i] = files[new2[i]]
    <3>1. \A i \in 2 .. n + 1 : i - 1 \in 1 .. n
      BY <2>2
    <3>2. QED
      BY <3>1, <2>2, <2>4, <1>4
  <2>10. n \in Nat /\ c2[1] = files[new2[1]]
    BY <2>2, <2>4, <1>1
  <2> HIDE DEF new2, c2, n, new
  <2>6. \A i \in 1 .. n + 1 : c2[i] = files[new2[i]]
    <3>1. \A i \in 1 .. n + 1 : i = 1 \/ i \in 2 .. n + 1
      BY <2>10
    <3>2. QED
      BY <3>1, <2>10, <2>5
  <2>7. [i \in DOMAIN new2 |-> files[new2[i]]] = c2
    BY <2>2, <2>4, <2>6
  <2>8. Content(Reverse(manifest))' = [i \in DOMAIN new2 |-> files[new2[i]]]
    BY <2>1, <1>2 DEF Content
  <2>9. QED
    BY <2>7, <2>8 DEF c2
<1> HIDE DEF old
<1>6. ASSUME NEW k \in Key PROVE DurableGet(k)' = DurableGet(k)
  <2>1. Lookup(<<immutable>> \o old, k)
          = IF immutable[k] # Absent THEN immutable[k] ELSE Lookup(old, k)
    BY <1>1, <1>4, LookupPrepend
  <2>2. QED
    BY <2>1, <1>1, <1>2, <1>5 DEF DurableGet, old
<1>7. QED
  BY <1>6 DEF Contents

(* The emptied log was covered by the newest table.                        *)
LEMMA TruncateContents ==
  ASSUME IInv, TruncateLog PROVE Contents' = Contents
<1> DEFINE tables == Content(sstables)
           n == Len(sstables)
<1>1. immutable = Replay(wal) /\ files[sstables[1]] = immutable /\ sstables # <<>>
      /\ sstables = Reverse(manifest) /\ sstables \in Seq(FileName)
      /\ wal' = <<>> /\ UNCHANGED <<manifest, files, sstables>>
  BY DEF IInv, TypeOK, TruncateLog, LogMatchesMemory, Output, ReadersMirrorManifest, Building
<1>2. n \in Nat /\ 1 \in 1 .. n /\ DOMAIN tables = 1 .. n /\ tables[1] = immutable
  BY <1>1 DEF Content
<1>3. Content(Reverse(manifest)) = tables /\ Content(Reverse(manifest))' = tables
  BY <1>1 DEF Content
<1>4. Replay(wal') = EmptyTable
  BY <1>1, ReplayEmpty
<1> HIDE DEF tables, n
<1>5. ASSUME NEW k \in Key PROVE DurableGet(k)' = DurableGet(k)
  <2>1. DurableGet(k)' = Lookup(tables, k)
    BY <1>3, <1>4 DEF DurableGet, EmptyTable
  <2>2. CASE Replay(wal)[k] # Absent
    <3>1. tables[1][k] # Absent /\ \A j \in 1 .. n : ~ (j < 1)
      BY <1>1, <1>2, <2>2
    <3>2. Lookup(tables, k) = tables[1][k]
      BY <3>1, <1>2, LookupFirst
    <3>3. QED
      BY <2>1, <2>2, <3>2, <1>1, <1>2 DEF DurableGet
  <2>3. CASE Replay(wal)[k] = Absent
    BY <2>1, <2>3, <1>3 DEF DurableGet
  <2>4. QED
    BY <2>2, <2>3
<1>6. QED
  BY <1>5 DEF Contents

(* The merged table answers like the tables it replaces.                   *)
LEMMA SwapContents ==
  ASSUME IInv, FirstId # 0, SwapManifest PROVE Contents' = Contents
<1> DEFINE new == CompactedFile(counter - 1)
           out == files[new]
<1>1. out \in Table /\ \A k \in Key : out[k] = Answer(Lookup(Content(sstables), k))
  BY DEF IInv, SwapManifest, Output
<1>2. manifest \in Seq(FileName) /\ sstables = Reverse(manifest) /\ sstables # <<>>
      /\ UNCHANGED <<wal, files>>
  BY DEF IInv, TypeOK, ReadersMirrorManifest, MemoryShape, SwapManifest
<1>3. manifest # <<>> /\ ToSet(sstables) = ToSet(manifest)
  BY <1>2, ReverseProperties
<1>4. manifest' = ReplaceSSTables(manifest, ToSet(manifest), new)
  BY <1>3 DEF SwapManifest
<1> HIDE DEF new
<1>5. manifest' = <<new>>
  BY <1>2, <1>3, <1>4, ReplaceWholeList
<1>6. Content(Reverse(manifest))' = <<out>>
  BY <1>2, <1>5 DEF Content, Reverse
<1>7. Content(Reverse(manifest)) = Content(sstables)
  BY <1>2
<1> HIDE DEF out
<1>8. ASSUME NEW k \in Key PROVE Answer(DurableGet(k))' = Answer(DurableGet(k))
  <2>1. Lookup(<<out>>, k) = out[k]
    BY <1>1, LookupSingle
  <2>2. CASE Replay(wal)[k] # Absent
    BY <2>2, <1>2 DEF DurableGet
  <2>3. CASE Replay(wal)[k] = Absent
    <3>1. DurableGet(k) = Lookup(Content(sstables), k)
      BY <2>3, <1>7 DEF DurableGet
    <3>2. DurableGet(k)' = out[k]
      BY <2>3, <1>2, <1>6, <2>1 DEF DurableGet
    <3>3. QED
      BY <3>1, <3>2, <1>1, CellsDistinct DEF Answer
  <2>4. QED
    BY <2>2, <2>3
<1>9. QED
  BY <1>8 DEF Contents

(* No step but a write changes what a restart would serve.                 *)
LEMMA OtherContents ==
  ASSUME IInv, FirstId # 0, [Next]_vars,
         ~ \E k \in Key, c \in Written : AppendLog(k, c)
  PROVE  Contents' = Contents
<1>1. CASE UNCHANGED vars \/ Open \/ Crash \/ ApplyWrite \/ FlushMemTable \/ TriggerCompaction
  <2>1. UNCHANGED <<wal, manifest, files>>
    BY <1>1 DEF vars, disk, Open, Crash, ApplyWrite, FlushMemTable, TriggerCompaction
  <2>2. Content(Reverse(manifest))' = Content(Reverse(manifest))
    BY <2>1 DEF Content
  <2>3. QED
    BY <2>1, <2>2 DEF Contents, DurableGet
<1>2. CASE BeginFlush \/ FinishFlush \/ BeginCompaction \/ FinishCompaction \/ Unlink
  BY <1>2, WriteContents
<1>3. CASE PublishFlush
  BY <1>3, PublishContents
<1>4. CASE TruncateLog
  BY <1>4, TruncateContents
<1>5. CASE SwapManifest
  BY <1>5, SwapContents
<1>6. QED
  BY <1>1, <1>2, <1>3, <1>4, <1>5 DEF Next, Flush, Compaction

(* An idle engine answers what a restart would serve.                      *)
ViewIsContents ==
  /\ Contents \in [Key -> Value \cup {Absent}]
  /\ Contents # Nil
  /\ View = IF pc = "idle" THEN Contents ELSE Nil

LEMMA IdleView == IInv => ViewIsContents
<1> SUFFICES ASSUME IInv PROVE ViewIsContents
  OBVIOUS
<1>1. Contents \in [Key -> Value \cup {Absent}]
  BY DEF Contents, Answer
<1>2. Contents \in Table
  BY <1>1 DEF Table, Cell, Written
<1>3. ASSUME pc = "idle" PROVE View = Contents
  BY <1>3, GetMatchesDurableGet DEF View, Contents
<1>4. QED
  BY <1>1, <1>2, <1>3, Markers DEF View, ViewIsContents

(* Every step of the engine is a step of KVStore or leaves it as it was:   *)
(* the append to the log is the write, the step to or from idle blocks or  *)
(* serves, and flush, compaction, crash and recovery change nothing.       *)
THEOREM EngineImplementsKVStore == ASSUME FirstId # 0 PROVE Spec => ImplementsKVStore
<1>1. Init => KV!Init
  <2> SUFFICES ASSUME Init PROVE KV!Init
    OBVIOUS
  <2>1. IInv
    BY InitInvariant
  <2>2. pc # "idle"
    BY DEF Init
  <2>3. QED
    BY <2>1, <2>2, IdleView DEF ViewIsContents, KV!Init, KV!Contents
<1>2. IInv' => ViewIsContents'
  BY IdleView, PTL
<1>3. IInv /\ IInv' /\ [Next]_vars => [KV!Next]_(KV!vars)
  <2> SUFFICES ASSUME IInv, IInv', [Next]_vars PROVE [KV!Next]_(KV!vars)
    OBVIOUS
  <2>1. ViewIsContents /\ ViewIsContents'
    BY <1>2, IdleView
  <2>2. CASE \E k \in Key, c \in Written : AppendLog(k, c)
    <3>1. PICK k \in Key, c \in Written : AppendLog(k, c)
      BY <2>2
    <3>2. Contents' = [Contents EXCEPT ![k] = Answer(c)]
      BY <3>1, AppendLogContents
    <3>3. pc = "idle" /\ pc' = "apply"
      BY <3>1 DEF AppendLog
    <3>4. View # Nil /\ View' = Nil /\ Answer(c) \in Value \cup {Absent}
      BY <3>3, <2>1 DEF ViewIsContents, Answer
    <3>5. KV!Write(k, Answer(c))
      BY <3>2, <3>4 DEF KV!Write
    <3>6. QED
      BY <3>4, <3>5 DEF KV!Next
  <2>3. CASE ~ \E k \in Key, c \in Written : AppendLog(k, c)
    <3>1. Contents' = Contents
      BY <2>3, OtherContents
    <3>2. KV!Serve \/ KV!Block \/ (View' = View /\ Contents' = Contents)
      BY <3>1, <2>1 DEF ViewIsContents, KV!Serve, KV!Block
    <3>3. QED
      BY <3>2 DEF KV!Next, KV!vars
  <2>4. QED
    BY <2>2, <2>3
<1>4. QED
  BY <1>1, <1>3, Invariant, PTL DEF Spec, ImplementsKVStore, KV!Spec
-----------------------------------------------------------------------------
(* The engine under failures, for every set of failures, however many and  *)
(* in whatever order they meet.                                            *)
(*                                                                         *)
(* FInv says what is left of the agreement of log, MANIFEST, its copy,     *)
(* readers and files after the failures that have happened: each conjunct  *)
(* names the kinds of failure that end it.  There is one lemma per action, *)
(* and Frame, MoveStep, MergeStep, StartedStep, FlushEnds and InstallStep  *)
(* for what several actions have in common.                                *)

(* While an operation builds a file its id, the last one taken, is in no   *)
(* list of the process; the ids of the open readers are below it.          *)
Taking == {"finish", "publish", "stopped", "merge", "swap", "byid", "gap", "gapid"}
Fresh == IF pc \in Taking THEN counter - 1 ELSE counter

(* The memtable that reads consult, at rest or during a flush; a failed    *)
(* flush leaves it immutable, a failed constructor leaves none.            *)
Memtable ==
  IF active # Nil THEN active ELSE IF immutable # Nil THEN immutable ELSE EmptyTable

(* What exists at each pc.                                                 *)
FaultyShape ==
  /\ op # Nil <=> pc = "apply"
  /\ pc = "down" => /\ active = Nil /\ immutable = Nil
                    /\ sstables = <<>> /\ listed = <<>>
  /\ active = Nil \/ immutable = Nil
  /\ pc # "unlink" => obsolete = <<>>
  /\ pc \in {"compact", "merge", "swap", "byid", "gap", "gapid"} => sstables # <<>>
  /\ pc = "gap" => ToSet(sstables) \subseteq ToSet(listed)
  /\ pc = "gapid" => Ids \subseteq {ManifestId(line) : line \in ToSet(listed)}
  /\ pc = "stopped" => "append" \in faults
  /\ Directory \notin ToSet(listed)

(* The ids an operation will take are within the bound.                    *)
FaultyRoom ==
  /\ pc \in {"apply", "flush"} => counter + 1 <= MaxId
  /\ pc \in {"finish", "publish", "stopped", "truncate", "compact"} => counter <= MaxId
  /\ pc \in Taking => counter - 1 \in 0 .. MaxId

(* The files of the open readers exist and are complete.                   *)
Opened == \A f \in ToSet(sstables) : files[f] \in Table /\ f.id < Fresh

(* The contents of a list of tables, in terms of a map fs of files, and    *)
(* what a search finds in a memtable over it.                              *)
Tabled(fs, list) == [i \in DOMAIN list |-> fs[list[i]]]

Found(mem, fs, list, k) ==
  IF mem[k] # Absent THEN mem[k] ELSE Lookup(Tabled(fs, list), k)

(* What the file being built holds, and that no reader of a file that is   *)
(* being deleted is open.                                                  *)
Built ==
  /\ pc \in {"publish", "stopped"} => files[In] = immutable
  /\ pc = "truncate" => sstables # <<>> /\ files[sstables[1]] = immutable
  /\ pc \in {"swap", "byid", "gap", "gapid"} =>
       /\ files[Out] \in Table
       /\ faults \cap {"read", "order"} = {} =>
            \A k \in Key : files[Out][k] = Answer(Lookup(Tabled(files, sstables), k))
  /\ ToSet(obsolete) \cap ToSet(sstables) = {}

(* The log replays to the memtable, unless it was not read at the start.   *)
LogKept ==
  "unread" \notin faults /\ pc # "down" =>
    Replay(wal) = IF pc = "apply" THEN [active EXCEPT ![op.key] = op.cell] ELSE Memtable

(* The failures after which answers may change (ServesEveryWrite).         *)
Truthful(kinds) ==
  kinds \cap {"read", "order"} = {} /\ ~({"unread", "truncate"} \subseteq kinds)

(* ServesEveryWrite, at every step of every operation.                     *)
Serves ==
  pc # "down" /\ Truthful(faults) =>
    \A k \in Key :
      expected[k] = IF pc = "apply" /\ k = op.key THEN Answer(op.cell)
                    ELSE Answer(Found(Memtable, files, sstables, k))

Names(list) == ToSet(list) \cap FileName

(* The files MANIFEST and its copy name are complete and older than the    *)
(* one being built; if the readers' files are all listed, nothing else is. *)
ListedFit ==
  faults \cap {"fallback", "open"} = {} =>
    /\ \A f \in Names(manifest) : /\ files[f] \in Table
                                  /\ f \notin ToSet(obsolete)
                                  /\ pc # "down" => f.id < Fresh \/ (pc = "stopped" /\ f = In)
    /\ \A f \in Names(listed) : f \notin ToSet(obsolete) /\ f.id < Fresh
    /\ ToSet(sstables) \subseteq ToSet(listed) => Names(listed) \subseteq ToSet(sstables)

(* After harmless failures MANIFEST lists file names only and its copy is  *)
(* up to date; a restart then answers with every write.                    *)
Durable ==
  faults \subseteq Harmless =>
    /\ manifest \in Seq(FileName)
    /\ ~unterminated
    /\ pc # "down" => listed = manifest
    /\ ToSet(sstables) \subseteq ToSet(listed) => sstables = Reverse(listed)
    /\ pc = "truncate" => manifest # <<>> /\ manifest[Len(manifest)] = sstables[1]
    /\ \A k \in Key : expected[k] = Answer(Found(Replay(wal), files, Reverse(manifest), k))

FInv ==
  /\ FaultyTypeOK
  /\ FaultyShape
  /\ FaultyRoom
  /\ Opened
  /\ Built
  /\ LogKept
  /\ Serves
  /\ CompactionFindsInputs
  /\ ListedFit
  /\ Durable

-----------------------------------------------------------------------------
(* Lines and lists of lines.                                               *)

(* Which lines name files.                                                 *)
LEMMA LineFacts ==
  /\ FileName \subseteq Line /\ Junk \in Line /\ Directory \in Line
  /\ Junk \notin FileName /\ Directory \notin FileName
  /\ \A id \in 0 .. MaxId : /\ Merged(id) \in Line /\ Merged(id) \notin FileName
                            /\ Phantom(id) \in Line /\ Phantom(id) \notin FileName
                            /\ Directory # Merged(id) /\ Directory # Phantom(id)
  /\ Directory # Junk
  /\ \A f \in FileName : f.id \in 0 .. MaxId /\ f.id \in Nat
<1>1. FileName \subseteq Named /\ Named \subseteq Line /\ Junk \in Line /\ Directory \in Line
  BY DEF Named, Line
<1>2. \A id \in 0 .. MaxId : Merged(id) \in Named /\ Phantom(id) \in Named
  BY DEF Named
<1>3. \A id : Merged(id) \notin FileName /\ Phantom(id) \notin FileName
  <2>1. \A f \in FileName : f.prefix \in {"data", "sstable"}
    BY DEF FileName
  <2>2. \A id : Merged(id).prefix = "merged" /\ Phantom(id).prefix = "compacted"
    BY DEF Merged, Phantom
  <2>3. QED
    BY <2>1, <2>2
<1>4. Junk \notin Named /\ Directory \notin Named /\ Junk # Directory
  BY LineConstants
<1>5. \A f \in FileName : f.id \in 0 .. MaxId /\ f.id \in Nat
  BY Markers DEF FileName
<1>6. QED
  BY <1>1, <1>2, <1>3, <1>4, <1>5

(* The members of a sequence say what it is a sequence of.                 *)
LEMMA SeqOfMembers ==
  ASSUME NEW T, NEW s \in Seq(T), NEW S, ToSet(s) \subseteq S
  PROVE  s \in Seq(S)
<1>1. Len(s) \in Nat /\ DOMAIN s = 1 .. Len(s) /\ s = [i \in 1 .. Len(s) |-> s[i]]
  OBVIOUS
<1>2. \A i \in 1 .. Len(s) : s[i] \in S
  BY <1>1 DEF ToSet
<1>3. QED
  BY <1>1, <1>2, IsASeq

(* A sequence is empty if and only if it has no members.                   *)
LEMMA EmptySet ==
  ASSUME NEW T, NEW s \in Seq(T)
  PROVE  ToSet(s) = {} <=> s = <<>>
<1>1. CASE s = <<>>
  BY <1>1 DEF ToSet
<1>2. CASE s # <<>>
  <2>1. 1 \in DOMAIN s
    BY <1>2
  <2>2. QED
    BY <2>1, <1>2 DEF ToSet
<1>3. QED
  BY <1>1, <1>2

(* Appending adds one member.                                              *)
LEMMA AppendMembers ==
  ASSUME NEW T, NEW s \in Seq(T), NEW x \in T
  PROVE  /\ Append(s, x) \in Seq(T)
         /\ Append(s, x) # <<>>
         /\ ToSet(Append(s, x)) = ToSet(s) \cup {x}
<1> DEFINE n == Len(s)
           a == Append(s, x)
<1>1. n \in Nat /\ DOMAIN s = 1 .. n
  OBVIOUS
<1>2. /\ a \in Seq(T) /\ Len(a) = n + 1 /\ DOMAIN a = 1 .. n + 1 /\ a[n + 1] = x
      /\ \A i \in 1 .. n : a[i] = s[i]
  OBVIOUS
<1> HIDE DEF n, a
<1>3. n + 1 \in 1 .. n + 1 /\ \A i \in 1 .. n + 1 : i \in 1 .. n \/ i = n + 1
  BY <1>1
<1>4. \A i \in 1 .. n : i \in 1 .. n + 1
  BY <1>1
<1>5. ToSet(a) = ToSet(s) \cup {x}
  BY <1>1, <1>2, <1>3, <1>4 DEF ToSet
<1>6. a # <<>>
  BY <1>1, <1>2
<1>7. QED
  BY <1>2, <1>5, <1>6 DEF a

(* Prepending adds one member.                                             *)
LEMMA PrependMembers ==
  ASSUME NEW T, NEW s \in Seq(T), NEW x \in T
  PROVE  /\ <<x>> \o s \in Seq(T)
         /\ <<x>> \o s # <<>>
         /\ (<<x>> \o s)[1] = x
         /\ ToSet(<<x>> \o s) = ToSet(s) \cup {x}
<1> DEFINE n == Len(s)
           p == <<x>> \o s
<1>1. n \in Nat /\ DOMAIN s = 1 .. n
  OBVIOUS
<1>2. /\ p \in Seq(T) /\ Len(p) = n + 1 /\ DOMAIN p = 1 .. n + 1 /\ p[1] = x
      /\ \A i \in 1 .. n : p[i + 1] = s[i]
  OBVIOUS
<1> HIDE DEF n, p
<1>3. ASSUME NEW i \in 1 .. n + 1 PROVE p[i] \in ToSet(s) \cup {x}
  <2>1. CASE i = 1
    BY <2>1, <1>2
  <2>2. CASE i # 1
    <3>1. i - 1 \in 1 .. n /\ (i - 1) + 1 = i
      BY <2>2, <1>1
    <3>2. QED
      BY <3>1, <1>1, <1>2 DEF ToSet
  <2>3. QED
    BY <2>1, <2>2
<1>4. ASSUME NEW i \in 1 .. n PROVE s[i] \in ToSet(p)
  <2>1. s[i] = p[i + 1] /\ i + 1 \in 1 .. n + 1
    BY <1>1, <1>2
  <2>2. QED
    BY <2>1, <1>2 DEF ToSet
<1>5. x \in ToSet(p)
  <2>1. 1 \in 1 .. n + 1
    BY <1>1
  <2>2. QED
    BY <2>1, <1>2 DEF ToSet
<1>6. ToSet(p) = {p[i] : i \in 1 .. n + 1} /\ ToSet(s) = {s[i] : i \in 1 .. n}
  BY <1>1, <1>2 DEF ToSet
<1>7. ToSet(p) = ToSet(s) \cup {x}
  BY <1>3, <1>4, <1>5, <1>6
<1>8. p # <<>>
  BY <1>1, <1>2
<1>9. QED
  BY <1>2, <1>7, <1>8 DEF p

(* What an append can add to the names in MANIFEST: itself, or nothing if  *)
(* it continues an unterminated line.                                      *)
LEMMA ExtendedNames ==
  ASSUME manifest \in Seq(Line), unterminated => manifest # <<>>,
         NEW text \in FileName \cup {Junk, Directory}
  PROVE  /\ Extended(text) \in Seq(Line) /\ Extended(text) # <<>>
         /\ Names(Extended(text)) \subseteq Names(manifest) \cup {text}
<1> USE LineFacts
<1>1. CASE ~ unterminated
  <2>1. Extended(text) = Append(manifest, text) /\ text \in Line
    BY <1>1 DEF Extended
  <2>2. /\ Append(manifest, text) \in Seq(Line) /\ Append(manifest, text) # <<>>
        /\ ToSet(Append(manifest, text)) = ToSet(manifest) \cup {text}
    <3>1. text \in Line
      BY <2>1
    <3>2. QED
      BY <3>1, AppendMembers
  <2>3. QED
    BY <2>1, <2>2 DEF Names
<1>2. CASE unterminated
  <2> DEFINE front == Front(manifest)
             last == IF text \in FileName THEN Merged(text.id) ELSE Junk
  <2>1. manifest # <<>> /\ Extended(text) = front \o <<last>>
    BY <1>2 DEF Extended
  <2>2. last \in Line /\ last \notin FileName
    OBVIOUS
  <2>3. front \in Seq(Line) /\ ToSet(front) \subseteq ToSet(manifest)
    <3> DEFINE n == Len(manifest)
    <3>1. n \in Nat /\ n >= 1 /\ DOMAIN manifest = 1 .. n
      BY <2>1
    <3>2. front = SubSeq(manifest, 1, n - 1)
      BY DEF Front
    <3>3. front \in Seq(Line) /\ Len(front) = n - 1 /\ DOMAIN front = 1 .. n - 1
          /\ \A i \in 1 .. n - 1 : front[i] = manifest[i]
      BY <3>1, <3>2
    <3> HIDE DEF n, front
    <3>4. \A i \in 1 .. n - 1 : i \in 1 .. n
      BY <3>1
    <3>5. QED
      BY <3>1, <3>3, <3>4 DEF ToSet
  <2> HIDE DEF front, last
  <2>4. front \o <<last>> = Append(front, last)
    BY <2>2, <2>3
  <2>5. /\ Append(front, last) \in Seq(Line) /\ Append(front, last) # <<>>
        /\ ToSet(Append(front, last)) = ToSet(front) \cup {last}
    BY <2>2, <2>3, AppendMembers
  <2>6. Extended(text) = Append(front, last)
    BY <2>1, <2>4
  <2>7. Names(Extended(text)) \subseteq Names(manifest)
    <3>1. ToSet(Extended(text)) = ToSet(front) \cup {last}
      BY <2>5, <2>6
    <3>2. QED
      BY <3>1, <2>2, <2>3 DEF Names
  <2>8. QED
    BY <2>5, <2>6, <2>7
<1>3. QED
  BY <1>1, <1>2

(* A replacement drops the old names and adds the new one, wherever the    *)
(* first of them was.                                                      *)
LEMMA ReplaceMembers ==
  ASSUME NEW list \in Seq(Line), NEW old, ToSet(list) \cap old # {}, NEW new \in Line
  PROVE  /\ ReplaceSSTables(list, old, new) \in Seq(Line)
         /\ ReplaceSSTables(list, old, new) # <<>>
         /\ ToSet(ReplaceSSTables(list, old, new)) = (ToSet(list) \ old) \cup {new}
<1> DEFINE n == Len(list)
           at == {i \in DOMAIN list : list[i] \in old}
           first == Min(at)
           before == SubSeq(list, 1, first - 1)
           behind == SubSeq(list, first + 1, n)
           kept == Select(behind, ToSet(list) \ old)
<1>1. n \in Nat /\ DOMAIN list = 1 .. n /\ \A i \in 1 .. n : list[i] \in Line
  OBVIOUS
<1>2. first \in 1 .. n /\ list[first] \in old /\ \A i \in 1 .. n : list[i] \in old => first <= i
  <2>1. at \in SUBSET Nat /\ at # {}
    BY <1>1 DEF ToSet
  <2>2. Min(at) \in at /\ \A j \in at : Min(at) <= j
    <3> HIDE DEF at
    <3> QED
      BY <2>1, MinProperty
  <2>3. QED
    BY <2>2, <1>1
<1>3. ReplaceSSTables(list, old, new) = before \o <<new>> \o kept
  BY DEF ReplaceSSTables
<1> HIDE DEF n, at, first
<1>4. before \in Seq(Line) /\ ToSet(before) \subseteq ToSet(list) \ old
      /\ \A i \in 1 .. n : i < first => list[i] \in ToSet(before)
  <2>1. /\ before \in Seq(Line) /\ DOMAIN before = 1 .. first - 1
        /\ \A i \in 1 .. first - 1 : before[i] = list[i]
    BY <1>1, <1>2
  <2>2. \A i \in 1 .. first - 1 : i \in 1 .. n /\ ~ (first <= i)
    BY <1>1, <1>2
  <2>3. \A i \in 1 .. n : i < first => i \in 1 .. first - 1
    BY <1>1, <1>2
  <2> HIDE DEF before
  <2>4. QED
    BY <2>1, <2>2, <2>3, <1>1, <1>2 DEF ToSet
<1>5. behind \in Seq(Line) /\ ToSet(behind) \subseteq ToSet(list)
      /\ \A i \in 1 .. n : first < i => list[i] \in ToSet(behind)
  <2>1. /\ behind \in Seq(Line) /\ DOMAIN behind = 1 .. n - first
        /\ \A i \in 1 .. n - first : behind[i] = list[i + first]
    BY <1>1, <1>2 DEF n
  <2>2. \A i \in 1 .. n - first : i + first \in 1 .. n
    BY <1>1, <1>2
  <2>3. \A i \in 1 .. n : first < i => i - first \in 1 .. n - first /\ (i - first) + first = i
    BY <1>1, <1>2
  <2> HIDE DEF behind
  <2>4. QED
    BY <2>1, <2>2, <2>3, <1>1 DEF ToSet
<1>6. kept \in Seq(Line) /\ ToSet(kept) = ToSet(behind) \cap (ToSet(list) \ old)
  <2> HIDE DEF behind
  <2> QED
    BY <1>5, SelectMembers
<1> HIDE DEF before, behind, kept
<1>7. before \o <<new>> = Append(before, new)
  BY <1>4
<1> DEFINE head == Append(before, new)
<1>8. head \in Seq(Line) /\ ToSet(head) = ToSet(before) \cup {new} /\ head # <<>>
  <2> HIDE DEF head
  <2>1. /\ Append(before, new) \in Seq(Line) /\ Append(before, new) # <<>>
        /\ ToSet(Append(before, new)) = ToSet(before) \cup {new}
    BY <1>4, AppendMembers
  <2>2. QED
    BY <2>1 DEF head
<1> HIDE DEF head
<1>9. head \o kept \in Seq(Line) /\ head \o kept # <<>> /\ ToSet(head \o kept) = ToSet(head) \cup ToSet(kept)
  <2> DEFINE p == Len(head)
             q == Len(kept)
             all == head \o kept
  <2>1. p \in Nat /\ q \in Nat /\ DOMAIN head = 1 .. p /\ DOMAIN kept = 1 .. q /\ p >= 1
    BY <1>6, <1>8
  <2>2. /\ all \in Seq(Line) /\ DOMAIN all = 1 .. p + q
        /\ \A i \in 1 .. p : all[i] = head[i]
        /\ \A i \in 1 .. q : all[p + i] = kept[i]
    BY <1>6, <1>8
  <2> HIDE DEF p, q, all
  <2>3. \A i \in 1 .. p + q : i \in 1 .. p \/ (i - p \in 1 .. q /\ p + (i - p) = i)
    BY <2>1
  <2>4. \A i \in 1 .. p : i \in 1 .. p + q
    BY <2>1
  <2>5. \A i \in 1 .. q : p + i \in 1 .. p + q
    BY <2>1
  <2>6. \A i \in 1 .. p + q : all[i] \in ToSet(head) \cup ToSet(kept)
    BY <2>1, <2>2, <2>3 DEF ToSet
  <2>7. \A x \in ToSet(head) \cup ToSet(kept) : x \in ToSet(all)
    BY <2>1, <2>2, <2>4, <2>5 DEF ToSet
  <2>8. ToSet(all) = ToSet(head) \cup ToSet(kept)
    BY <2>2, <2>6, <2>7 DEF ToSet
  <2>9. all # <<>>
    <3>1. 1 \in 1 .. p + q
      BY <2>1
    <3>2. DOMAIN <<>> = {}
      OBVIOUS
    <3>3. QED
      BY <3>1, <3>2, <2>2
  <2>10. QED
    BY <2>2, <2>8, <2>9 DEF all
<1>10. ReplaceSSTables(list, old, new) = head \o kept
  BY <1>3, <1>7 DEF head
<1>11. ToSet(list) \ old \subseteq ToSet(before) \cup ToSet(kept)
  <2> SUFFICES ASSUME NEW i \in 1 .. n, list[i] \notin old
               PROVE  list[i] \in ToSet(before) \cup ToSet(kept)
    BY <1>1 DEF ToSet
  <2>1. i < first \/ first < i
    <3>1. i # first
      BY <1>2
    <3>2. QED
      BY <3>1, <1>1, <1>2
  <2>2. list[i] \in ToSet(list)
    BY <1>1 DEF ToSet
  <2>3. QED
    BY <2>1, <2>2, <1>4, <1>5, <1>6
<1>12. QED
  BY <1>4, <1>6, <1>8, <1>9, <1>10, <1>11

-----------------------------------------------------------------------------
(* Contents of lists of tables.                                            *)

(* Lists of complete files have complete contents.                         *)
LEMMA TabledType ==
  ASSUME NEW fs, NEW list \in Seq(FileName), \A f \in ToSet(list) : fs[f] \in Table
  PROVE  /\ Tabled(fs, list) \in Seq(Table)
         /\ DOMAIN Tabled(fs, list) = 1 .. Len(list)
         /\ Len(Tabled(fs, list)) = Len(list)
         /\ \A i \in 1 .. Len(list) : Tabled(fs, list)[i] = fs[list[i]]
<1>1. Len(list) \in Nat /\ DOMAIN list = 1 .. Len(list)
  OBVIOUS
<1>2. \A i \in 1 .. Len(list) : fs[list[i]] \in Table
  BY <1>1 DEF ToSet
<1>3. Tabled(fs, list) = [i \in 1 .. Len(list) |-> fs[list[i]]]
  BY <1>1 DEF Tabled
<1>4. QED
  BY <1>1, <1>2, <1>3, IsASeq

(* Files outside a list do not matter to it.                               *)
LEMMA TabledFrame ==
  ASSUME NEW fs, NEW gs, NEW list \in Seq(FileName), \A f \in ToSet(list) : gs[f] = fs[f]
  PROVE  Tabled(gs, list) = Tabled(fs, list)
<1>1. \A i \in DOMAIN list : gs[list[i]] = fs[list[i]]
  BY DEF ToSet
<1>2. QED
  BY <1>1 DEF Tabled

(* A search through a list finds a cell.                                   *)
LEMMA TabledLookup ==
  ASSUME NEW fs, NEW list \in Seq(FileName), \A f \in ToSet(list) : fs[f] \in Table,
         NEW k \in Key
  PROVE  Lookup(Tabled(fs, list), k) \in Cell
BY TabledType, LookupType

(* A file in front decides for the keys it holds.                          *)
LEMMA TabledPrepend ==
  ASSUME NEW fs, NEW list \in Seq(FileName), \A f \in ToSet(list) : fs[f] \in Table,
         NEW g \in FileName, fs[g] \in Table, NEW k \in Key
  PROVE  Lookup(Tabled(fs, <<g>> \o list), k)
           = IF fs[g][k] # Absent THEN fs[g][k] ELSE Lookup(Tabled(fs, list), k)
<1> DEFINE n == Len(list)
           old == Tabled(fs, list)
           p == <<g>> \o list
           c == <<fs[g]>> \o old
<1>1. n \in Nat /\ old \in Seq(Table) /\ Len(old) = n
      /\ \A i \in 1 .. n : old[i] = fs[list[i]]
  BY TabledType
<1>2. DOMAIN p = 1 .. n + 1 /\ p[1] = g /\ \A i \in 1 .. n : p[i + 1] = list[i]
  OBVIOUS
<1>3. c \in Seq(Table) /\ Len(c) = n + 1 /\ DOMAIN c = 1 .. n + 1
      /\ c[1] = fs[g] /\ \A i \in 1 .. n : c[i + 1] = old[i]
  <2> HIDE DEF old, n
  <2> QED
    BY <1>1
<1>4. Lookup(c, k) = IF fs[g][k] # Absent THEN fs[g][k] ELSE Lookup(old, k)
  <2> HIDE DEF old
  <2> QED
    BY <1>1, LookupPrepend
<1> HIDE DEF n, old, p, c
<1>5. ASSUME NEW i \in 1 .. n + 1 PROVE c[i] = fs[p[i]]
  <2>1. CASE i = 1
    BY <2>1, <1>2, <1>3
  <2>2. CASE i # 1
    <3>1. i - 1 \in 1 .. n /\ (i - 1) + 1 = i
      BY <2>2, <1>1
    <3>2. c[i] = old[i - 1] /\ p[i] = list[i - 1]
      BY <3>1, <1>2, <1>3
    <3>3. QED
      BY <3>1, <3>2, <1>1
  <2>3. QED
    BY <2>1, <2>2
<1>6. c = [i \in 1 .. n + 1 |-> c[i]]
  BY <1>3
<1>7. Tabled(fs, p) = c
  BY <1>2, <1>5, <1>6 DEF Tabled
<1>8. QED
  BY <1>4, <1>7 DEF p, old

(* The first file decides for the keys it holds.                           *)
LEMMA TabledHead ==
  ASSUME NEW fs, NEW list \in Seq(FileName), list # <<>>, NEW k, fs[list[1]][k] # Absent
  PROVE  Lookup(Tabled(fs, list), k) = fs[list[1]][k]
<1> DEFINE n == Len(list)
           c == Tabled(fs, list)
<1>1. n \in Nat /\ 1 \in 1 .. n /\ DOMAIN list = 1 .. n
  OBVIOUS
<1>2. DOMAIN c = 1 .. n /\ c[1] = fs[list[1]]
  BY <1>1 DEF Tabled
<1> HIDE DEF n, c
<1>3. c[1][k] # Absent /\ \A j \in 1 .. n : ~ (j < 1)
  BY <1>1, <1>2
<1>4. Lookup(c, k) = c[1][k]
  BY <1>1, <1>2, <1>3, LookupFirst
<1>5. QED
  BY <1>2, <1>4 DEF c

(* A list of one file, however often, answers what the file answers.       *)
LEMMA TabledSame ==
  ASSUME NEW fs, NEW list \in Seq(FileName), NEW g, ToSet(list) = {g}, NEW k
  PROVE  Lookup(Tabled(fs, list), k) = fs[g][k]
<1>1. list # <<>> /\ list[1] = g /\ \A i \in DOMAIN list : list[i] = g
  <2>1. \A i \in DOMAIN list : list[i] \in ToSet(list)
    BY DEF ToSet
  <2>2. list # <<>>
    BY EmptySet
  <2>3. 1 \in DOMAIN list
    BY <2>2
  <2>4. QED
    BY <2>1, <2>2, <2>3
<1>2. CASE fs[g][k] # Absent
  BY <1>1, <1>2, TabledHead
<1>3. CASE fs[g][k] = Absent
  <2>1. \A i \in DOMAIN Tabled(fs, list) : Tabled(fs, list)[i][k] = Absent
    BY <1>1, <1>3 DEF Tabled
  <2>2. QED
    BY <2>1, <1>3, LookupNone
<1>4. QED
  BY <1>2, <1>3

(* The next id is above those of the files found.                          *)
LEMMA NextIdAbove ==
  ASSUME NEW list \in Seq(FileName)
  PROVE  NextId(list) \in Nat /\ \A f \in ToSet(list) : f.id < NextId(list)
<1> DEFINE ids == {f.id : f \in ToSet(list)}
<1>1. CASE list = <<>>
  BY <1>1 DEF NextId, ToSet
<1>2. CASE list # <<>>
  <2>1. ToSet(list) # {} /\ \A f \in ToSet(list) : f \in FileName
    BY <1>2, EmptySet DEF ToSet
  <2>2. MaxId \in Nat /\ ids \in SUBSET (0 .. MaxId) /\ ids # {}
    BY <2>1, LineFacts, Markers
  <2>3. Max(ids) \in ids /\ \A j \in ids : j <= Max(ids)
    <3> HIDE DEF ids
    <3> QED
      BY <2>2, MaxProperty
  <2>4. NextId(list) = Max(ids) + 1
    BY <1>2 DEF NextId
  <2>5. Max(ids) \in 0 .. MaxId
    BY <2>2, <2>3
  <2>6. \A f \in ToSet(list) : f.id \in ids
    OBVIOUS
  <2> HIDE DEF ids
  <2>7. ASSUME NEW f \in ToSet(list) PROVE f.id < Max(ids) + 1
    <3>0. f.id \in ids
      BY <2>6
    <3>1. f.id <= Max(ids)
      BY <3>0, <2>3
    <3>2. f.id \in Nat /\ Max(ids) \in Nat
      BY <2>1, <2>5, LineFacts
    <3>3. QED
      BY <3>1, <3>2
  <2>8. QED
    BY <2>2, <2>4, <2>5, <2>7
<1>3. QED
  BY <1>1, <1>2

(* The constructor finds the listed files that exist.                      *)
LEMMA FoundFiles ==
  ASSUME NEW list \in Seq(Line)
  PROVE  /\ Existing(list) \in Seq(FileName)
         /\ ToSet(Existing(list)) = {f \in Names(list) : files[f] # Nil}
<1> DEFINE S == {f \in FileName : files[f] # Nil}
<1>1. Select(list, S) \in Seq(Line) /\ ToSet(Select(list, S)) = ToSet(list) \cap S
  <2> HIDE DEF S
  <2> QED
    BY SelectMembers
<1>2. ToSet(Select(list, S)) \subseteq FileName
  BY <1>1
<1>3. Select(list, S) \in Seq(FileName)
  BY <1>1, <1>2, SeqOfMembers
<1>4. QED
  BY <1>1, <1>3 DEF Existing, Names

(* Where every line is the name of a file that exists it finds them all.   *)
LEMMA FoundAll ==
  ASSUME NEW list \in Seq(FileName), \A f \in ToSet(list) : files[f] # Nil
  PROVE  Existing(list) = list
<1>1. ToSet(list) \subseteq {f \in FileName : files[f] # Nil}
  BY DEF ToSet
<1>2. QED
  BY <1>1, SelectProperties DEF Existing

-----------------------------------------------------------------------------
(* What the invariant says of a state.                                     *)

(* Facts about one key carry over between searches that find the same.     *)
LEMMA FoundType ==
  ASSUME NEW mem \in Table, NEW fs, NEW list \in Seq(FileName),
         \A f \in ToSet(list) : fs[f] \in Table, NEW k \in Key
  PROVE  Found(mem, fs, list, k) \in Cell
BY TabledLookup DEF Found, Table

(* A search does not see files outside its list.                           *)
LEMMA FoundFrame ==
  ASSUME NEW mem, NEW fs, NEW gs, NEW list \in Seq(FileName),
         \A f \in ToSet(list) : gs[f] = fs[f], NEW k
  PROVE  Found(mem, gs, list, k) = Found(mem, fs, list, k)
BY TabledFrame DEF Found

(* Moving the memtable into a table in front of the others changes no      *)
(* answer, whether or not the memtable is still consulted.                 *)
LEMMA FoundPublish ==
  ASSUME NEW fs, NEW list \in Seq(FileName), \A f \in ToSet(list) : fs[f] \in Table,
         NEW g \in FileName, fs[g] \in Table, NEW k \in Key
  PROVE  Found(fs[g], fs, <<g>> \o list, k) = Found(fs[g], fs, list, k)
BY TabledPrepend DEF Found

LEMMA FoundTruncate ==
  ASSUME NEW fs, NEW list \in Seq(FileName), list # <<>>, NEW k \in Key
  PROVE  Found(EmptyTable, fs, list, k) = Found(fs[list[1]], fs, list, k)
BY TabledHead DEF Found, EmptyTable

Typed ==
  /\ Memtable \in Table
  /\ \A k \in Key : Get(k) = Found(Memtable, files, sstables, k)
  /\ \A f \in ToSet(sstables) : f \in FileName
  /\ Replay(wal) \in Table

(* The two memtables are one to a reader: never are both there.            *)
LEMMA GetFinds == FaultyTypeOK /\ FaultyShape => Typed
<1> SUFFICES ASSUME FaultyTypeOK, FaultyShape PROVE Typed
  OBVIOUS
<1> USE Markers
<1>1. /\ active \in Table \cup {Nil} /\ immutable \in Table \cup {Nil}
      /\ active = Nil \/ immutable = Nil
      /\ sstables \in Seq(FileName) /\ wal \in Seq(LogEntry)
  BY DEF FaultyTypeOK, FaultyShape
<1>2. EmptyTable \in Table /\ \A k \in Key : EmptyTable[k] = Absent
  BY DEF EmptyTable, Table, Cell
<1>3. Memtable \in Table
  BY <1>1, <1>2 DEF Memtable
<1>4. Content(sstables) = Tabled(files, sstables)
  BY DEF Content, Tabled
<1>5. ASSUME NEW k \in Key PROVE Get(k) = Found(Memtable, files, sstables, k)
  BY <1>1, <1>2, <1>4 DEF Get, Found, Memtable, InMemTable
<1>6. QED
  BY <1>1, <1>3, <1>5, ReplayType DEF Typed, ToSet

(* A table written over an id that is in no list, or a step that writes no *)
(* file, keeps everything but the shape of the state.                      *)
LEMMA Frame ==
  ASSUME FInv, pc \notin {"down", "apply", "stopped", "truncate"},
         pc' \notin {"down", "apply", "stopped", "truncate"},
         files' \in [FileName -> Table \cup {Partial, Nil}],
         \A f \in FileName : f.id # Fresh => files'[f] = files[f],
         UNCHANGED <<wal, manifest, sstables, listed, unterminated, expected>>,
         ToSet(obsolete') \subseteq ToSet(obsolete), faults \subseteq faults',
         Memtable' = Memtable, Fresh \in Nat, Fresh' \in Nat, Fresh <= Fresh'
  PROVE  /\ Opened' /\ LogKept' /\ Serves' /\ CompactionFindsInputs' /\ ListedFit' /\ Durable'
         /\ ToSet(obsolete') \cap ToSet(sstables') = {}
         /\ \A f \in ToSet(sstables) : files'[f] = files[f]
<1>1. /\ sstables \in Seq(FileName) /\ manifest \in Seq(Line)
      /\ \A f \in ToSet(sstables) : f \in FileName /\ f.id \in Nat
  <2>1. sstables \in Seq(FileName) /\ manifest \in Seq(Line)
    BY DEF FInv, FaultyTypeOK
  <2>2. QED
    BY <2>1, LineFacts DEF ToSet
<1>2. \A f \in FileName : f.id \in Nat /\ (f.id < Fresh => files'[f] = files[f])
  <2> HIDE DEF Fresh
  <2>1. \A f \in FileName : f.id \in Nat
    BY LineFacts
  <2>2. QED
    BY <2>1
<1>3. \A f \in FileName : f.id < Fresh => f.id < Fresh'
  BY <1>2
<1>4. \A f \in ToSet(sstables) : files[f] \in Table /\ f.id < Fresh /\ files'[f] = files[f]
  BY <1>1, <1>2 DEF FInv, Opened
<1>5. Opened'
  <2>1. \A f \in ToSet(sstables) : files'[f] \in Table /\ f.id < Fresh'
    BY <1>1, <1>3, <1>4
  <2>2. QED
    BY <2>1 DEF Opened
<1>6. LogKept'
  BY DEF FInv, LogKept
<1>7. Serves'
  <2> SUFFICES ASSUME Truthful(faults'), NEW k \in Key
               PROVE  expected[k] = Answer(Found(Memtable', files', sstables, k))
    BY DEF Serves
  <2>1. Truthful(faults)
    BY DEF Truthful
  <2>2. expected[k] = Answer(Found(Memtable, files, sstables, k))
    BY <2>1 DEF FInv, Serves
  <2>3. Found(Memtable, files', sstables, k) = Found(Memtable, files, sstables, k)
    BY <1>1, <1>4, FoundFrame
  <2>4. QED
    BY <2>2, <2>3
<1>8. CompactionFindsInputs'
  BY DEF FInv, CompactionFindsInputs
<1>9. ListedFit'
  <2> SUFFICES ASSUME faults' \cap {"fallback", "open"} = {} PROVE ListedFit'
    BY DEF ListedFit
  <2>1. faults \cap {"fallback", "open"} = {}
    OBVIOUS
  <2>2. /\ \A f \in Names(manifest) : files[f] \in Table /\ f \notin ToSet(obsolete) /\ f.id < Fresh
        /\ \A f \in Names(listed) : f \notin ToSet(obsolete) /\ f.id < Fresh
        /\ ToSet(sstables) \subseteq ToSet(listed) => Names(listed) \subseteq ToSet(sstables)
    BY <2>1 DEF FInv, ListedFit
  <2>3. Names(manifest') = Names(manifest) /\ Names(listed') = Names(listed)
    OBVIOUS
  <2>4. \A f \in Names(manifest) \cup Names(listed) : f \in FileName
    BY DEF Names
  <2>5. QED
    BY <2>2, <2>3, <2>4, <1>2, <1>3 DEF ListedFit
<1>10. Durable'
  <2> SUFFICES ASSUME faults' \subseteq Harmless PROVE Durable'
    BY DEF Durable
  <2>1. faults \subseteq Harmless /\ faults \cap {"fallback", "open"} = {}
    BY DEF Harmless
  <2>2. /\ manifest \in Seq(FileName) /\ ~ unterminated /\ listed = manifest
        /\ ToSet(sstables) \subseteq ToSet(listed) => sstables = Reverse(listed)
        /\ \A k \in Key : expected[k] = Answer(Found(Replay(wal), files, Reverse(manifest), k))
    BY <2>1 DEF FInv, Durable
  <2>3. Reverse(manifest) \in Seq(FileName) /\ ToSet(Reverse(manifest)) = ToSet(manifest)
    BY <2>2, ReverseProperties
  <2>4. \A f \in ToSet(manifest) : files'[f] = files[f]
    <3>1. ToSet(manifest) \subseteq Names(manifest)
      BY <2>2 DEF Names, ToSet
    <3>2. \A f \in Names(manifest) : f \in FileName /\ f.id < Fresh
      BY <2>1 DEF FInv, ListedFit, Names
    <3>3. QED
      BY <3>1, <3>2, <1>2
  <2>5. \A k \in Key : Found(Replay(wal), files', Reverse(manifest), k)
                        = Found(Replay(wal), files, Reverse(manifest), k)
    BY <2>3, <2>4, FoundFrame
  <2>6. QED
    BY <2>2, <2>5 DEF Durable
<1>11. ToSet(obsolete') \cap ToSet(sstables') = {}
  BY DEF FInv, Built
<1>12. QED
  BY <1>4, <1>5, <1>6, <1>7, <1>8, <1>9, <1>10, <1>11

-----------------------------------------------------------------------------
(* Steps that only move on: one lemma for all of them.                     *)

(* Where an operation starts, gives up or tries again.                     *)
Moves ==
  \/ pc = "idle" /\ pc' = "flush" /\ active # Nil /\ counter + 1 <= MaxId
  \/ pc = "idle" /\ pc' = "compact" /\ sstables # <<>> /\ counter <= MaxId
  \/ pc \in {"publish", "finish", "compact", "merge", "byid", "gapid"} /\ pc' = "idle"
  \/ pc \in {"swap", "gap"} /\ pc' = "byid"

LEMMA MoveStep ==
  ASSUME FInv, Moves,
         UNCHANGED <<wal, manifest, op, active, immutable, sstables, counter, obsolete>>,
         UNCHANGED <<listed, unterminated, expected>>,
         files' \in [FileName -> Table \cup {Partial, Nil}],
         \A f \in FileName : f.id # Fresh => files'[f] = files[f],
         pc' = "byid" => files' = files,
         faults \subseteq faults', faults' \subseteq faults \cup Kinds
  PROVE  FInv'
<1> USE Markers
<1>1. /\ pc \notin {"down", "apply", "stopped", "truncate"}
      /\ pc' \notin {"down", "apply", "stopped", "truncate"}
  BY DEF Moves
<1>2. counter \in Nat /\ (pc \in Taking => counter - 1 \in Nat)
  BY DEF FInv, FaultyTypeOK, FaultyRoom
<1>3. Fresh \in Nat /\ Fresh' \in Nat /\ Fresh <= Fresh'
  BY <1>2 DEF Fresh, Taking, Moves
<1>4. Memtable' = Memtable /\ ToSet(obsolete') \subseteq ToSet(obsolete)
  BY DEF Memtable
<1>5. /\ Opened' /\ LogKept' /\ Serves' /\ CompactionFindsInputs' /\ ListedFit' /\ Durable'
      /\ ToSet(obsolete') \cap ToSet(sstables') = {}
  BY <1>1, <1>3, <1>4, Frame
<1>6. FaultyTypeOK'
  BY DEF FInv, FaultyTypeOK, Moves
<1>7. FaultyShape'
  <2>1. FaultyShape
    BY DEF FInv
  <2>2. QED
    BY <2>1 DEF FaultyShape, Moves
<1>8. FaultyRoom'
  BY <1>2 DEF FInv, FaultyRoom, Moves, Taking
<1>9. Built'
  BY <1>5 DEF FInv, Built, Moves, Out
<1>10. QED
  BY <1>5, <1>6, <1>7, <1>8, <1>9 DEF FInv

(* The file an operation builds has the last id taken.                     *)
LEMMA BuiltFile ==
  ASSUME FInv
  PROVE  /\ counter \in Nat
         /\ pc \in Taking => /\ In \in FileName /\ In.id = Fresh
                             /\ Out \in FileName /\ Out.id = Fresh
                             /\ Fresh = counter - 1
                             /\ DataFile(counter - 1) = In /\ CompactedFile(counter - 1) = Out
         /\ \A x \in Table \cup {Partial, Nil}, g \in FileName :
              g.id = Fresh =>
                LET fs == [files EXCEPT ![g] = x]
                IN  /\ fs \in [FileName -> Table \cup {Partial, Nil}]
                    /\ \A f \in FileName : f.id # Fresh => fs[f] = files[f]
                    /\ fs[g] = x
<1>1. counter \in Nat /\ (pc \in Taking => counter - 1 \in 0 .. MaxId)
      /\ files \in [FileName -> Table \cup {Partial, Nil}]
  BY DEF FInv, FaultyTypeOK, FaultyRoom
<1>2. ASSUME pc \in Taking
      PROVE  /\ In \in FileName /\ In.id = Fresh /\ Out \in FileName /\ Out.id = Fresh
             /\ Fresh = counter - 1
  BY <1>1, <1>2, NewNames DEF In, Out, Fresh
<1>3. QED
  BY <1>1, <1>2 DEF In, Out

LEMMA FFlushMemTableStep == ASSUME FInv, FFlushMemTable PROVE FInv'
<1>1. Moves /\ UNCHANGED <<disk, memory, listed, unterminated, expected, faults>>
  BY DEF FFlushMemTable, FlushMemTable, RoomForIds, Moves
<1>2. files \in [FileName -> Table \cup {Partial, Nil}]
  BY DEF FInv, FaultyTypeOK
<1>3. QED
  BY <1>1, <1>2, MoveStep DEF disk, memory

LEMMA FTriggerCompactionStep == ASSUME FInv, FTriggerCompaction PROVE FInv'
<1>1. sstables # <<>>
  BY Markers DEF FTriggerCompaction, FInv, FaultyTypeOK
<1>2. Moves /\ UNCHANGED <<disk, memory, listed, unterminated, expected, faults>>
  BY <1>1 DEF FTriggerCompaction, Moves
<1>3. files \in [FileName -> Table \cup {Partial, Nil}]
  BY DEF FInv, FaultyTypeOK
<1>4. QED
  BY <1>2, <1>3, MoveStep DEF disk, memory

(* A flush that throws leaves at most the file of the id it took.          *)
LEMMA FlushThrowsStep == ASSUME FInv, FlushThrows PROVE FInv'
<1>1. /\ pc \in {"finish", "publish"} /\ pc' = "idle" /\ Moves
      /\ files' = IF pc = "finish" THEN [files EXCEPT ![In] = Nil] ELSE files
      /\ UNCHANGED <<wal, manifest, memory, unterminated, listed, expected>>
      /\ faults \subseteq faults' /\ faults' \subseteq faults \cup Kinds
  BY DEF FlushThrows, Fault, Moves
<1>2. In \in FileName /\ In.id = Fresh
  BY <1>1, BuiltFile DEF Taking
<1>3. files' \in [FileName -> Table \cup {Partial, Nil}]
      /\ \A f \in FileName : f.id # Fresh => files'[f] = files[f]
  <2>1. files \in [FileName -> Table \cup {Partial, Nil}]
    BY DEF FInv, FaultyTypeOK
  <2>2. CASE pc = "finish"
    BY <2>2, <1>1, <1>2, BuiltFile
  <2>3. CASE pc # "finish"
    BY <2>1, <2>3, <1>1
  <2>4. QED
    BY <2>2, <2>3
<1>4. QED
  BY <1>1, <1>3, MoveStep DEF memory

(* So does a merge that is given up.                                       *)
LEMMA AbandonMergeStep == ASSUME FInv, AbandonMerge PROVE FInv'
<1>1. /\ pc \in {"compact", "merge"} /\ pc' = "idle" /\ Moves
      /\ files' = IF pc = "merge" THEN [files EXCEPT ![Out] = Nil] ELSE files
      /\ UNCHANGED <<wal, manifest, memory, unterminated, listed, expected>>
      /\ faults \subseteq faults' /\ faults' \subseteq faults \cup Kinds
  BY DEF AbandonMerge, Fault, Moves
<1>2. files' \in [FileName -> Table \cup {Partial, Nil}]
      /\ \A f \in FileName : f.id # Fresh => files'[f] = files[f]
  <2>1. files \in [FileName -> Table \cup {Partial, Nil}]
    BY DEF FInv, FaultyTypeOK
  <2>2. CASE pc = "merge"
    <3>1. Out \in FileName /\ Out.id = Fresh
      BY <2>2, BuiltFile DEF Taking
    <3>2. QED
      BY <3>1, <2>2, <1>1, BuiltFile
  <2>3. CASE pc # "merge"
    BY <2>1, <2>3, <1>1
  <2>4. QED
    BY <2>2, <2>3
<1>3. QED
  BY <1>1, <1>2, MoveStep DEF memory

(* A list that is not replaced: the attempt by id follows, or the end.     *)
LEMMA GiveUpStep == ASSUME FInv, NotListed \/ ReplaceFails \/ RenameFailsAgain PROVE FInv'
<1>1. /\ Moves /\ UNCHANGED <<disk, memory, listed, unterminated, expected>>
      /\ faults \subseteq faults' /\ faults' \subseteq faults \cup Kinds
  BY DEF NotListed, ReplaceFails, RenameFailsAgain, GiveUp, ByName, Fault, Moves
<1>2. files \in [FileName -> Table \cup {Partial, Nil}]
  BY DEF FInv, FaultyTypeOK
<1>3. QED
  BY <1>1, <1>2, MoveStep DEF disk, memory

-----------------------------------------------------------------------------
(* Steps that write the file of the id last taken.                         *)

LEMMA BeginFlushKeeps ==
  ASSUME FInv, BeginFlush, UNCHANGED <<unterminated, listed, faults, expected>>
  PROVE  FInv'
<1> USE Markers
<1> DEFINE new == DataFile(counter)
<1>1. /\ pc = "flush" /\ pc' = "finish" /\ counter \in Nat /\ counter + 1 <= MaxId
      /\ counter' = counter + 1 /\ immutable' = active /\ active' = Nil
      /\ UNCHANGED <<wal, manifest, op, sstables, obsolete>>
      /\ files' = [files EXCEPT ![new] = Partial]
      /\ active # Nil /\ active \in Table /\ immutable = Nil
  BY DEF BeginFlush, FInv, FaultyTypeOK, FaultyRoom, FaultyShape
<1>2. counter \in 0 .. MaxId /\ counter' \in Nat /\ counter' - 1 = counter /\ counter' <= MaxId
  BY <1>1
<1>3. Fresh = counter /\ Fresh' = counter /\ Fresh \in Nat /\ Fresh <= Fresh'
  BY <1>1, <1>2 DEF Fresh, Taking
<1>4. new \in FileName /\ new.id = Fresh
  BY <1>2, <1>3, NewNames
<1>5. files' \in [FileName -> Table \cup {Partial, Nil}]
      /\ \A f \in FileName : f.id # Fresh => files'[f] = files[f]
  <2> HIDE DEF new
  <2> QED
    BY <1>1, <1>4, BuiltFile
<1> HIDE DEF new
<1>6. Memtable' = Memtable
  BY <1>1 DEF Memtable
<1>7. /\ Opened' /\ LogKept' /\ Serves' /\ CompactionFindsInputs' /\ ListedFit' /\ Durable'
      /\ ToSet(obsolete') \cap ToSet(sstables') = {}
  BY <1>1, <1>3, <1>5, <1>6, Frame
<1>8. FaultyTypeOK'
  BY <1>1, <1>2, <1>5 DEF FInv, FaultyTypeOK
<1>9. FaultyShape'
  BY <1>1 DEF FInv, FaultyShape
<1>10. FaultyRoom'
  BY <1>1, <1>2 DEF FaultyRoom, Taking
<1>11. Built'
  BY <1>1, <1>7 DEF Built
<1>12. QED
  BY <1>7, <1>8, <1>9, <1>10, <1>11 DEF FInv

LEMMA FinishFlushKeeps ==
  ASSUME FInv, FinishFlush, UNCHANGED <<unterminated, listed, faults, expected>>
  PROVE  FInv'
<1> USE Markers
<1>1. /\ pc = "finish" /\ pc' = "publish"
      /\ UNCHANGED <<wal, manifest, op, active, immutable, sstables, counter, obsolete>>
      /\ files' = [files EXCEPT ![In] = immutable] /\ immutable \in Table
  BY DEF FinishFlush, FInv, FaultyTypeOK, In, memory
<1>2. counter \in Nat /\ In \in FileName /\ In.id = Fresh /\ Fresh = counter - 1
      /\ counter - 1 \in 0 .. MaxId
  BY <1>1, BuiltFile DEF Taking, FInv, FaultyRoom
<1>3. Fresh' = Fresh /\ Fresh \in Nat /\ In' = In
  BY <1>1, <1>2 DEF Fresh, Taking, In
<1>4. files' \in [FileName -> Table \cup {Partial, Nil}]
      /\ \A f \in FileName : f.id # Fresh => files'[f] = files[f]
  BY <1>1, <1>2, BuiltFile
<1>5. files'[In] = immutable
  BY <1>1, <1>2, BuiltFile
<1>6. Memtable' = Memtable
  BY <1>1 DEF Memtable
<1>7. /\ Opened' /\ LogKept' /\ Serves' /\ CompactionFindsInputs' /\ ListedFit' /\ Durable'
      /\ ToSet(obsolete') \cap ToSet(sstables') = {}
  BY <1>1, <1>3, <1>4, <1>6, Frame
<1>8. FaultyTypeOK'
  BY <1>1, <1>4 DEF FInv, FaultyTypeOK
<1>9. FaultyShape' /\ FaultyRoom'
  BY <1>1 DEF FInv, FaultyShape, FaultyRoom, Taking
<1>10. Built'
  BY <1>1, <1>3, <1>5, <1>7 DEF Built
<1>11. QED
  BY <1>7, <1>8, <1>9, <1>10 DEF FInv

LEMMA BeginCompactionKeeps ==
  ASSUME FInv, BeginCompaction, UNCHANGED <<unterminated, listed, faults, expected>>
  PROVE  FInv'
<1> USE Markers
<1> DEFINE new == CompactedFile(counter)
<1>1. /\ pc = "compact" /\ pc' = "merge" /\ counter \in Nat /\ counter <= MaxId
      /\ counter' = counter + 1
      /\ UNCHANGED <<wal, manifest, op, active, immutable, sstables, obsolete>>
      /\ files' = [files EXCEPT ![new] = Partial]
  BY DEF BeginCompaction, FInv, FaultyTypeOK, FaultyRoom
<1>2. counter \in 0 .. MaxId /\ counter' \in Nat /\ counter' - 1 = counter
  BY <1>1
<1>3. Fresh = counter /\ Fresh' = counter /\ Fresh \in Nat /\ Fresh <= Fresh'
  BY <1>1, <1>2 DEF Fresh, Taking
<1>4. new \in FileName /\ new.id = Fresh
  BY <1>2, <1>3, NewNames
<1>5. files' \in [FileName -> Table \cup {Partial, Nil}]
      /\ \A f \in FileName : f.id # Fresh => files'[f] = files[f]
  <2> HIDE DEF new
  <2> QED
    BY <1>1, <1>4, BuiltFile
<1> HIDE DEF new
<1>6. Memtable' = Memtable
  BY <1>1 DEF Memtable
<1>7. /\ Opened' /\ LogKept' /\ Serves' /\ CompactionFindsInputs' /\ ListedFit' /\ Durable'
      /\ ToSet(obsolete') \cap ToSet(sstables') = {}
  BY <1>1, <1>3, <1>5, <1>6, Frame
<1>8. FaultyTypeOK'
  BY <1>1, <1>2, <1>5 DEF FInv, FaultyTypeOK
<1>9. FaultyShape'
  BY <1>1 DEF FInv, FaultyShape
<1>10. FaultyRoom' /\ Built'
  BY <1>1, <1>2, <1>7 DEF FaultyRoom, Built, Taking
<1>11. QED
  BY <1>7, <1>8, <1>9, <1>10 DEF FInv

(* Where the generations fall along the readers the merged table answers   *)
(* what the search through the readers answers.                            *)
LEMMA MergedAnswers ==
  ASSUME FInv, ~ Misordered(Inputs(sstables)), NEW t \in CompactOutcomes(Inputs(sstables)),
         NEW k \in Key
  PROVE  t[k] = Answer(Lookup(Tabled(files, sstables), k))
<1> DEFINE in == Inputs(sstables)
           n == Len(sstables)
<1>1. n \in Nat /\ DOMAIN sstables = 1 .. n /\ \A i \in 1 .. n : sstables[i] \in FileName
  BY DEF FInv, FaultyTypeOK
<1>2. /\ DOMAIN in = 1 .. n
      /\ \A i \in 1 .. n : /\ in[i].generation = Generation(sstables, i)
                          /\ in[i].table = files[sstables[i]]
  BY <1>1 DEF Inputs
<1>3. \A i \in 1 .. n : in[i].generation \in Nat
  <2>1. \A i \in 1 .. n : sstables[i].id \in Nat /\ n - i + 1 \in Nat
    BY <1>1, LineFacts
  <2>2. QED
    BY <2>1, <1>2 DEF Generation
<1>4. \A i, j \in 1 .. n : i < j => ~ (in[i].generation <= in[j].generation)
  BY <1>2 DEF Misordered
<1>5. \A i, j \in 1 .. n : i < j => in[i].generation > in[j].generation
  <2> HIDE DEF in, n
  <2>1. ASSUME NEW i \in 1 .. n, NEW j \in 1 .. n, i < j
        PROVE  in[i].generation > in[j].generation
    BY <2>1, <1>3, <1>4
  <2>2. QED
    BY <2>1
<1>6. [i \in 1 .. n |-> in[i].table] = Tabled(files, sstables)
  BY <1>1, <1>2 DEF Tabled
<1> HIDE DEF in, n
<1>7. t \in CompactOutcomes(in)
  BY DEF in
<1>8. t[k] = Answer(Lookup([i \in 1 .. n |-> in[i].table], k))
  BY <1>1, <1>2, <1>3, <1>5, <1>7, CompactKeepsNewest
<1>9. QED
  BY <1>6, <1>8

(* A merge that finished, whatever it wrote.                               *)
LEMMA MergeStep ==
  ASSUME FInv, pc = "merge", pc' = "swap", NEW t \in Table, files' = [files EXCEPT ![Out] = t],
         UNCHANGED <<wal, manifest, op, active, immutable, sstables, counter, obsolete>>,
         UNCHANGED <<unterminated, listed, expected>>,
         faults \subseteq faults', faults' \subseteq faults \cup Kinds \cup {"order"},
         faults' \cap {"read", "order"} = {} =>
           \A k \in Key : t[k] = Answer(Lookup(Tabled(files, sstables), k))
  PROVE  FInv'
<1> USE Markers
<1>1. counter \in Nat /\ Out \in FileName /\ Out.id = Fresh /\ Fresh = counter - 1
      /\ counter - 1 \in 0 .. MaxId
  BY BuiltFile DEF Taking, FInv, FaultyRoom
<1>2. Fresh' = Fresh /\ Fresh \in Nat /\ Out' = Out
  BY <1>1 DEF Fresh, Taking, Out
<1>3. /\ files' \in [FileName -> Table \cup {Partial, Nil}]
      /\ \A f \in FileName : f.id # Fresh => files'[f] = files[f]
      /\ files'[Out] = t
  BY <1>1, BuiltFile
<1>4. Memtable' = Memtable
  BY DEF Memtable
<1>5. /\ Opened' /\ LogKept' /\ Serves' /\ CompactionFindsInputs' /\ ListedFit' /\ Durable'
      /\ ToSet(obsolete') \cap ToSet(sstables') = {}
      /\ \A f \in ToSet(sstables) : files'[f] = files[f]
  BY <1>2, <1>3, <1>4, Frame
<1>6. FaultyTypeOK'
  BY <1>3 DEF FInv, FaultyTypeOK
<1>7. FaultyShape' /\ FaultyRoom'
  BY DEF FInv, FaultyShape, FaultyRoom, Taking
<1>8. Built'
  <2>1. Tabled(files', sstables) = Tabled(files, sstables)
    <3>1. sstables \in Seq(FileName)
      BY DEF FInv, FaultyTypeOK
    <3>2. QED
      BY <3>1, <1>5, TabledFrame
  <2>2. QED
    BY <2>1, <1>2, <1>3, <1>5 DEF Built
<1>9. QED
  BY <1>5, <1>6, <1>7, <1>8 DEF FInv

LEMMA FFinishCompactionStep == ASSUME FInv, FFinishCompaction PROVE FInv'
<1>1. /\ pc = "merge" /\ pc' = "swap"
      /\ UNCHANGED <<wal, manifest, op, active, immutable, sstables, counter, obsolete>>
      /\ UNCHANGED <<unterminated, listed, expected>>
      /\ faults \subseteq faults' /\ faults' \subseteq faults \cup {"order"}
      /\ Misordered(Inputs(sstables)) => "order" \in faults'
  BY DEF FFinishCompaction, FinishCompaction, memory
<1>2. PICK t \in CompactOutcomes(Inputs(sstables)) : files' = [files EXCEPT ![Out] = t]
  BY DEF FFinishCompaction, FinishCompaction, Out
<1>3. t \in Table
  BY DEF CompactOutcomes
<1>4. faults' \cap {"read", "order"} = {} =>
        \A k \in Key : t[k] = Answer(Lookup(Tabled(files, sstables), k))
  BY <1>1, MergedAnswers
<1>5. QED
  BY <1>1, <1>2, <1>3, <1>4, MergeStep

LEMMA MergeReadsShortStep == ASSUME FInv, MergeReadsShort PROVE FInv'
<1>1. /\ pc = "merge" /\ pc' = "swap"
      /\ UNCHANGED <<wal, manifest, op, active, immutable, sstables, counter, obsolete>>
      /\ UNCHANGED <<unterminated, listed, expected>>
      /\ faults \subseteq faults' /\ faults' \subseteq faults \cup Kinds /\ "read" \in faults'
  BY DEF MergeReadsShort, Fault, memory
<1>2. PICK inputs : \E t \in CompactOutcomes(inputs) : files' = [files EXCEPT ![Out] = t]
  BY DEF MergeReadsShort
<1>3. PICK t \in CompactOutcomes(inputs) : files' = [files EXCEPT ![Out] = t]
  BY <1>2
<1>4. t \in Table
  BY DEF CompactOutcomes
<1>5. QED
  BY <1>1, <1>3, <1>4, MergeStep

(* The rest of a list.                                                     *)
LEMMA TailMembers ==
  ASSUME NEW T, NEW list \in Seq(T), list # <<>>
  PROVE  /\ Tail(list) \in Seq(T) /\ ToSet(Tail(list)) \subseteq ToSet(list)
         /\ (Tail(list) = <<>> <=> Len(list) = 1)
         /\ Head(list) \in ToSet(list) /\ Head(list) \in T
<1> DEFINE n == Len(list)
           rest == Tail(list)
<1>1. n \in Nat /\ n >= 1 /\ DOMAIN list = 1 .. n /\ Head(list) = list[1]
  OBVIOUS
<1>2. /\ rest \in Seq(T) /\ Len(rest) = n - 1 /\ DOMAIN rest = 1 .. n - 1
      /\ \A i \in 1 .. n - 1 : rest[i] = list[i + 1]
  BY <1>1, HeadTailProperties
<1> HIDE DEF n, rest
<1>3. \A i \in 1 .. n - 1 : i + 1 \in 1 .. n
  BY <1>1
<1>4. ToSet(rest) \subseteq ToSet(list)
  <2> SUFFICES ASSUME NEW i \in 1 .. n - 1 PROVE rest[i] \in ToSet(list)
    BY <1>2 DEF ToSet
  <2>1. rest[i] = list[i + 1] /\ i + 1 \in DOMAIN list
    BY <1>1, <1>2, <1>3
  <2>2. QED
    BY <2>1 DEF ToSet
<1>5. Head(list) \in ToSet(list) /\ Head(list) \in T
  <2>1. 1 \in DOMAIN list
    BY <1>1
  <2>2. QED
    BY <2>1, <1>1 DEF ToSet
<1>6. rest = <<>> <=> n = 1
  BY <1>1, <1>2
<1>7. QED
  BY <1>2, <1>4, <1>5, <1>6 DEF n, rest

(* An input that cannot be deleted stays on disk.                          *)
LEMMA UnlinkFailsStep == ASSUME FInv, UnlinkFails PROVE FInv'
<1> USE Markers
<1>1. /\ pc = "unlink" /\ pc' \in {"idle", "unlink"} /\ obsolete \in Seq(FileName)
      /\ obsolete # <<>> /\ obsolete' = Tail(obsolete)
      /\ pc' = (IF Len(obsolete) = 1 THEN "idle" ELSE "unlink")
      /\ UNCHANGED <<disk, op, active, immutable, sstables, counter>>
      /\ UNCHANGED <<unterminated, listed, expected>>
      /\ faults \subseteq faults' /\ faults' \subseteq faults \cup Kinds
  BY DEF UnlinkFails, Fault, FInv, FaultyTypeOK
<1>2. /\ obsolete' \in Seq(FileName) /\ ToSet(obsolete') \subseteq ToSet(obsolete)
      /\ (obsolete' = <<>> <=> Len(obsolete) = 1)
  BY <1>1, TailMembers
<1>3. /\ Fresh' = Fresh /\ Fresh \in Nat /\ Memtable' = Memtable
      /\ files' \in [FileName -> Table \cup {Partial, Nil}] /\ files' = files
      /\ UNCHANGED <<wal, manifest>>
  BY <1>1 DEF Fresh, Taking, Memtable, FInv, FaultyTypeOK, disk
<1>4. /\ Opened' /\ LogKept' /\ Serves' /\ CompactionFindsInputs' /\ ListedFit' /\ Durable'
      /\ ToSet(obsolete') \cap ToSet(sstables') = {}
  BY <1>1, <1>2, <1>3, Frame
<1>5. FaultyTypeOK'
  BY <1>1, <1>2, <1>3 DEF FInv, FaultyTypeOK
<1>6. FaultyShape' /\ FaultyRoom' /\ Built'
  BY <1>1, <1>2, <1>4 DEF FInv, FaultyShape, FaultyRoom, Built, Taking
<1>7. QED
  BY <1>4, <1>5, <1>6 DEF FInv

-----------------------------------------------------------------------------
(* Starts and crashes.                                                     *)

LEMMA ReverseNothing == Reverse(<<>>) = <<>>
<1>1. <<>> \in Seq(FileName)
  OBVIOUS
<1>2. Reverse(<<>>) \in Seq(FileName) /\ Len(Reverse(<<>>)) = Len(<<>>)
  BY <1>1, ReverseProperties
<1>3. QED
  BY <1>2

LEMMA FCrashStep == ASSUME FInv, FCrash PROVE FInv'
<1> USE Markers
<1>1. /\ pc' = "down" /\ op' = Nil /\ active' = Nil /\ immutable' = Nil /\ sstables' = <<>>
      /\ counter' = 0 /\ obsolete' = <<>> /\ listed' = <<>>
      /\ UNCHANGED <<wal, manifest, files, unterminated, faults, expected>>
  BY DEF FCrash, Crash, disk
<1>2. ToSet(<<>>) = {} /\ Names(<<>>) = {}
  BY DEF ToSet, Names
<1>3. FaultyTypeOK'
  BY <1>1 DEF FInv, FaultyTypeOK
<1>4. FaultyShape' /\ FaultyRoom'
  BY <1>1, <1>2 DEF FaultyShape, FaultyRoom, Taking
<1>5. Opened' /\ Built' /\ LogKept' /\ Serves' /\ CompactionFindsInputs'
  BY <1>1, <1>2 DEF Opened, Built, LogKept, Serves, CompactionFindsInputs
<1>6. ListedFit'
  BY <1>1, <1>2 DEF FInv, ListedFit
<1>7. Durable'
  BY <1>1, <1>2, ReverseNothing DEF FInv, Durable
<1>8. QED
  BY <1>3, <1>4, <1>5, <1>6, <1>7 DEF FInv

(* A start over the files found, all of them or not, with the log read or  *)
(* not.                                                                    *)
LEMMA StartedStep ==
  ASSUME FInv, pc = "down", pc' = "idle",
         UNCHANGED <<wal, manifest, files, op, immutable, obsolete, unterminated>>,
         NEW found \in Seq(FileName), \A f \in ToSet(found) : files[f] \in Table,
         sstables' = Reverse(found), counter' = NextId(found),
         active' \in Table, "unread" \notin faults' => active' = Replay(wal),
         expected' = Serving',
         listed' \in Seq(Line), Directory \notin ToSet(listed'), ToSet(found) \subseteq ToSet(listed'),
         faults' \cap {"open", "fallback"} = {} => listed' = manifest /\ found = Existing(manifest),
         faults \subseteq faults', faults' \subseteq faults \cup Kinds
  PROVE  FInv'
<1> USE Markers
<1>1. /\ sstables' \in Seq(FileName) /\ ToSet(sstables') = ToSet(found)
      /\ counter' \in Nat /\ \A f \in ToSet(found) : f.id < counter'
  BY ReverseProperties, NextIdAbove
<1>2. immutable = Nil /\ op = Nil /\ obsolete = <<>> /\ active' # Nil /\ ToSet(<<>>) = {}
  BY DEF FInv, FaultyShape, ToSet
<1>3. Fresh' = counter' /\ Memtable' = active'
  BY <1>2 DEF Fresh, Taking, Memtable
<1>4. FaultyTypeOK'
  <2>1. expected' \in [Key -> Value \cup {Absent}]
    BY DEF Serving, Answer
  <2>2. QED
    BY <1>1, <2>1 DEF FInv, FaultyTypeOK
<1>5. FaultyShape' /\ FaultyRoom'
  BY <1>2 DEF FaultyShape, FaultyRoom, Taking
<1>6. Typed'
  BY <1>4, <1>5, GetFinds, PTL
<1>7. \A k \in Key : expected'[k] = Answer(Found(active', files', sstables', k))
  BY <1>3, <1>6 DEF Serving, Typed
<1>8. Opened' /\ Built' /\ LogKept' /\ Serves'
  <2>1. Opened'
    BY <1>1, <1>3 DEF Opened
  <2>2. Built' /\ LogKept' /\ Serves'
    BY <1>2, <1>3, <1>7 DEF Built, LogKept, Serves
  <2>3. QED
    BY <2>1, <2>2
<1>9. CompactionFindsInputs'
  BY <1>1 DEF CompactionFindsInputs
<1>10. manifest \in Seq(Line)
  BY DEF FInv, FaultyTypeOK
<1>11. ListedFit'
  <2> SUFFICES ASSUME faults' \cap {"fallback", "open"} = {} PROVE ListedFit'
    BY DEF ListedFit
  <2>1. \A f \in Names(manifest) : files[f] \in Table
    BY DEF FInv, ListedFit
  <2>2. Names(manifest) = ToSet(found) /\ listed' = manifest
    <3>1. found = Existing(manifest) /\ listed' = manifest
      OBVIOUS
    <3>2. ToSet(found) = {f \in Names(manifest) : files[f] # Nil}
      BY <3>1, <1>10, FoundFiles
    <3>3. QED
      BY <3>1, <3>2, <2>1
  <2>3. QED
    BY <2>1, <2>2, <1>1, <1>2, <1>3 DEF ListedFit
<1>12. Durable'
  <2> SUFFICES ASSUME faults' \subseteq Harmless PROVE Durable'
    BY DEF Durable
  <2>1. faults \subseteq Harmless /\ faults' \cap {"fallback", "open"} = {} /\ "unread" \notin faults'
    BY DEF Harmless
  <2>2. manifest \in Seq(FileName) /\ ~ unterminated
    BY <2>1 DEF FInv, Durable
  <2>3. \A f \in ToSet(manifest) : files[f] # Nil
    <3>1. \A f \in Names(manifest) : files[f] \in Table
      BY <2>1 DEF FInv, ListedFit
    <3>2. QED
      BY <3>1, <2>2 DEF Names, ToSet
  <2>4. found = manifest /\ listed' = manifest
    BY <2>1, <2>2, <2>3, FoundAll
  <2>5. QED
    BY <2>1, <2>2, <2>4, <1>7 DEF Durable
<1>13. QED
  BY <1>4, <1>5, <1>8, <1>9, <1>11, <1>12 DEF FInv

(* What a start that does not throw has found.                             *)
LEMMA OpenableFiles ==
  ASSUME FInv, \A f \in ToSet(Existing(manifest)) : files[f] # Partial
  PROVE  /\ Existing(manifest) \in Seq(FileName)
         /\ ToSet(Existing(manifest)) \subseteq ToSet(manifest)
         /\ \A f \in ToSet(Existing(manifest)) : files[f] \in Table
         /\ manifest \in Seq(Line) /\ Replay(wal) \in Table
<1>1. manifest \in Seq(Line) /\ wal \in Seq(LogEntry)
      /\ files \in [FileName -> Table \cup {Partial, Nil}]
  BY DEF FInv, FaultyTypeOK
<1>2. Existing(manifest) \in Seq(FileName)
      /\ ToSet(Existing(manifest)) = {f \in Names(manifest) : files[f] # Nil}
  BY <1>1, FoundFiles
<1>3. QED
  BY <1>1, <1>2, ReplayType DEF Names

LEMMA FOpenStep == ASSUME FInv, FOpen PROVE FInv'
<1>1. /\ pc = "down" /\ pc' = "idle" /\ Openable
      /\ UNCHANGED <<wal, manifest, files, op, immutable, obsolete, unterminated, faults>>
      /\ sstables' = Reverse(Existing(manifest)) /\ counter' = NextId(Existing(manifest))
      /\ active' = Replay(wal) /\ listed' = manifest /\ expected' = Serving'
  BY DEF FOpen, Open, disk
<1>2. /\ Existing(manifest) \in Seq(FileName) /\ ToSet(Existing(manifest)) \subseteq ToSet(manifest)
      /\ \A f \in ToSet(Existing(manifest)) : files[f] \in Table
      /\ manifest \in Seq(Line) /\ Replay(wal) \in Table /\ Directory \notin ToSet(manifest)
  BY <1>1, OpenableFiles DEF Openable
<1>3. QED
  BY <1>1, <1>2, StartedStep

LEMMA OpenUnreadStep == ASSUME FInv, OpenUnread PROVE FInv'
<1>1. /\ pc = "down" /\ pc' = "idle" /\ Openable
      /\ UNCHANGED <<wal, manifest, files, op, immutable, obsolete, unterminated>>
      /\ sstables' = Reverse(Existing(manifest)) /\ counter' = NextId(Existing(manifest))
      /\ active' = EmptyTable /\ listed' = manifest /\ expected' = Serving'
      /\ faults \subseteq faults' /\ faults' \subseteq faults \cup Kinds /\ "unread" \in faults'
  BY DEF OpenUnread, Fault, disk
<1>2. /\ Existing(manifest) \in Seq(FileName) /\ ToSet(Existing(manifest)) \subseteq ToSet(manifest)
      /\ \A f \in ToSet(Existing(manifest)) : files[f] \in Table
      /\ manifest \in Seq(Line) /\ Directory \notin ToSet(manifest)
  BY <1>1, OpenableFiles DEF Openable
<1>3. EmptyTable \in Table
  BY DEF EmptyTable, Table, Cell
<1>4. QED
  BY <1>1, <1>2, <1>3, StartedStep

(* A start that misses MANIFEST or one of its tables.                      *)
LEMMA OpenBlindStep == ASSUME FInv, OpenBlind PROVE FInv'
<1>1. /\ pc = "down" /\ pc' = "idle"
      /\ UNCHANGED <<wal, manifest, files, op, immutable, obsolete, unterminated>>
      /\ active' = Replay(wal) /\ expected' = Serving'
      /\ faults \subseteq faults' /\ faults' \subseteq faults \cup Kinds /\ "open" \in faults'
  BY DEF OpenBlind, Fault, disk
<1>2. manifest \in Seq(Line) /\ wal \in Seq(LogEntry)
      /\ files \in [FileName -> Table \cup {Partial, Nil}]
  BY DEF FInv, FaultyTypeOK
<1>3. Replay(wal) \in Table
  BY <1>2, ReplayType
<1>4. CASE listed' = <<>> /\ sstables' = <<>> /\ counter' = 0
  <2>1. <<>> \in Seq(FileName) /\ <<>> \in Seq(Line) /\ ToSet(<<>>) = {}
        /\ Reverse(<<>>) = <<>> /\ NextId(<<>>) = 0
    BY ReverseNothing DEF ToSet, NextId
  <2>2. QED
    BY <1>1, <1>3, <1>4, <2>1, StartedStep
<1>5. ASSUME NEW missed \in ToSet(Existing(manifest)),
             Directory \notin ToSet(manifest), listed' = manifest,
             \A f \in ToSet(Select(Existing(manifest), FileName \ {missed})) : files[f] # Partial,
             sstables' = Reverse(Select(Existing(manifest), FileName \ {missed})),
             counter' = NextId(Select(Existing(manifest), FileName \ {missed}))
      PROVE  FInv'
  <2> DEFINE all == Existing(manifest)
             found == Select(all, FileName \ {missed})
  <2>1. all \in Seq(FileName) /\ ToSet(all) = {f \in Names(manifest) : files[f] # Nil}
    BY <1>2, FoundFiles
  <2>2. found \in Seq(FileName) /\ ToSet(found) = ToSet(all) \cap (FileName \ {missed})
    <3> HIDE DEF all
    <3> QED
      BY <2>1, SelectMembers
  <2>3. ToSet(found) \subseteq ToSet(manifest)
    BY <2>1, <2>2 DEF Names
  <2>4. \A f \in ToSet(found) : files[f] \in Table
    BY <2>1, <2>2, <1>2, <1>5 DEF Names
  <2>5. sstables' = Reverse(found) /\ counter' = NextId(found)
    BY <1>5
  <2> HIDE DEF found
  <2>6. QED
    BY <1>1, <1>2, <1>3, <1>5, <2>2, <2>3, <2>4, <2>5, StartedStep
<1>6. QED
  BY <1>4, <1>5 DEF OpenBlind

-----------------------------------------------------------------------------
(* The write path.                                                         *)

(* Steps that change neither files nor lists keep what is said of both.    *)
LEMMA ListsKept ==
  ASSUME FInv, pc \notin {"down", "stopped"}, pc' # "down",
         UNCHANGED <<files, manifest, sstables, listed>>,
         ToSet(obsolete') \subseteq ToSet(obsolete), faults \subseteq faults',
         Fresh \in Nat, Fresh' \in Nat, Fresh <= Fresh'
  PROVE  /\ Opened' /\ CompactionFindsInputs' /\ ListedFit'
         /\ ToSet(obsolete') \cap ToSet(sstables') = {}
<1>1. \A f \in FileName : f.id < Fresh => f.id < Fresh'
  <2> HIDE DEF Fresh
  <2>1. \A f \in FileName : f.id \in Nat
    BY LineFacts
  <2>2. QED
    BY <2>1
<1>2. \A f \in ToSet(sstables) : f \in FileName
  BY DEF FInv, FaultyTypeOK, ToSet
<1>3. Opened'
  BY <1>1, <1>2 DEF FInv, Opened
<1>4. CompactionFindsInputs'
  BY DEF FInv, CompactionFindsInputs
<1>5. ListedFit'
  <2> SUFFICES ASSUME faults' \cap {"fallback", "open"} = {} PROVE ListedFit'
    BY DEF ListedFit
  <2>1. faults \cap {"fallback", "open"} = {}
    OBVIOUS
  <2>2. /\ \A f \in Names(manifest) : files[f] \in Table /\ f \notin ToSet(obsolete) /\ f.id < Fresh
        /\ \A f \in Names(listed) : f \notin ToSet(obsolete) /\ f.id < Fresh
        /\ ToSet(sstables) \subseteq ToSet(listed) => Names(listed) \subseteq ToSet(sstables)
    BY <2>1 DEF FInv, ListedFit
  <2>3. Names(manifest') = Names(manifest) /\ Names(listed') = Names(listed)
    OBVIOUS
  <2>4. \A f \in Names(manifest) \cup Names(listed) : f \in FileName
    BY DEF Names
  <2>5. QED
    BY <2>2, <2>3, <2>4, <1>1 DEF ListedFit
<1>6. QED
  BY <1>3, <1>4, <1>5 DEF FInv, Built

LEMMA FAppendLogStep ==
  ASSUME FInv, NEW k \in Key, NEW c \in Written, FAppendLog(k, c)
  PROVE  FInv'
<1> USE Markers
<1> DEFINE e == [key |-> k, cell |-> c]
<1>1. e \in LogEntry /\ e.key = k /\ e.cell = c /\ c # Absent /\ c \in Cell
  BY CellsDistinct DEF LogEntry, Written, Cell
<1>2. /\ pc = "idle" /\ pc' = "apply" /\ active # Nil /\ counter + 1 <= MaxId
      /\ wal' = Append(wal, e) /\ op' = e
      /\ UNCHANGED <<manifest, files, active, immutable, sstables, counter, obsolete>>
      /\ UNCHANGED <<unterminated, listed, faults>>
      /\ expected' = [expected EXCEPT ![k] = Answer(c)]
  BY DEF FAppendLog, AppendLog, RoomForIds
<1>3. wal \in Seq(LogEntry) /\ active \in Table /\ counter \in Nat
      /\ expected \in [Key -> Value \cup {Absent}]
  BY <1>2 DEF FInv, FaultyTypeOK
<1> HIDE DEF e
<1>4. wal' \in Seq(LogEntry) /\ Replay(wal') = [Replay(wal) EXCEPT ![k] = c]
      /\ Replay(wal) \in Table
  BY <1>1, <1>2, <1>3, ReplayAppend, ReplayType
<1>5. Memtable = active /\ Memtable' = active
  BY <1>2 DEF Memtable
<1>6. Fresh' = Fresh /\ Fresh \in Nat
  BY <1>2, <1>3 DEF Fresh, Taking
<1>7. Opened' /\ CompactionFindsInputs' /\ ListedFit' /\ ToSet(obsolete') \cap ToSet(sstables') = {}
  BY <1>2, <1>6, ListsKept
<1>8. expected' \in [Key -> Value \cup {Absent}]
      /\ \A j \in Key : expected'[j] = IF j = k THEN Answer(c) ELSE expected[j]
  BY <1>2, <1>3 DEF Answer
<1>9. FaultyTypeOK'
  BY <1>1, <1>2, <1>4, <1>8 DEF FInv, FaultyTypeOK
<1>10. FaultyShape' /\ FaultyRoom'
  BY <1>1, <1>2 DEF FInv, FaultyShape, FaultyRoom, Taking
<1>11. Built'
  BY <1>2, <1>7 DEF Built
<1>12. LogKept'
  BY <1>1, <1>2, <1>4, <1>5 DEF FInv, LogKept
<1>13. Serves'
  BY <1>1, <1>2, <1>5, <1>8 DEF FInv, Serves
<1>14. Durable'
  <2> SUFFICES ASSUME faults' \subseteq Harmless PROVE Durable'
    BY DEF Durable
  <2>1. Durable /\ faults \subseteq Harmless
    BY <1>2 DEF FInv
  <2>2. ASSUME NEW j \in Key
        PROVE  expected'[j] = Answer(Found(Replay(wal'), files, Reverse(manifest), j))
    <3>1. Replay(wal')[j] = IF j = k THEN c ELSE Replay(wal)[j]
      BY <1>4 DEF Table
    <3>2. CASE j = k
      BY <3>1, <3>2, <1>1, <1>8 DEF Found
    <3>3. CASE j # k
      BY <3>1, <3>3, <2>1, <1>8 DEF Found, Durable
    <3>4. QED
      BY <3>2, <3>3
  <2>3. QED
    BY <2>1, <2>2, <1>2 DEF Durable
<1>15. QED
  BY <1>7, <1>9, <1>10, <1>11, <1>12, <1>13, <1>14 DEF FInv

LEMMA ApplyWriteKeeps ==
  ASSUME FInv, ApplyWrite, UNCHANGED <<unterminated, listed, faults, expected>>
  PROVE  FInv'
<1> USE Markers
<1>1. /\ pc = "apply" /\ pc' \in {"idle", "flush"} /\ op' = Nil
      /\ active' = [active EXCEPT ![op.key] = op.cell]
      /\ UNCHANGED <<wal, manifest, files, immutable, sstables, counter, obsolete>>
  BY DEF ApplyWrite, disk
<1>2. op \in LogEntry /\ active \in Table /\ active # Nil /\ immutable = Nil /\ counter \in Nat
  BY <1>1 DEF FInv, FaultyTypeOK, FaultyShape
<1>3. op.key \in Key /\ op.cell \in Written /\ op.cell # Absent
  BY <1>2, CellsDistinct DEF LogEntry, Written
<1>4. active' \in Table /\ active' # Nil
      /\ \A k \in Key : active'[k] = IF k = op.key THEN op.cell ELSE active[k]
  <2>1. op.cell \in Cell
    BY <1>3 DEF Cell
  <2>2. active' \in Table /\ \A k \in Key : active'[k] = IF k = op.key THEN op.cell ELSE active[k]
    BY <2>1, <1>1, <1>2, <1>3 DEF Table
  <2>3. QED
    BY <2>2
<1>5. Memtable = active /\ Memtable' = active'
  BY <1>2, <1>4 DEF Memtable
<1>6. Fresh' = Fresh /\ Fresh \in Nat
  BY <1>1, <1>2 DEF Fresh, Taking
<1>7. Opened' /\ CompactionFindsInputs' /\ ListedFit' /\ ToSet(obsolete') \cap ToSet(sstables') = {}
  BY <1>1, <1>6, ListsKept
<1>8. FaultyTypeOK'
  BY <1>1, <1>4 DEF FInv, FaultyTypeOK
<1>9. FaultyShape' /\ FaultyRoom' /\ Built'
  BY <1>1, <1>4, <1>7, <1>2 DEF FInv, FaultyShape, FaultyRoom, Built, Taking
<1>10. LogKept'
  BY <1>1, <1>5 DEF FInv, LogKept
<1>11. Serves'
  <2> SUFFICES ASSUME Truthful(faults), NEW k \in Key
               PROVE  expected[k] = Answer(Found(active', files, sstables, k))
    BY <1>1, <1>5 DEF Serves
  <2>1. expected[k] = IF k = op.key THEN Answer(op.cell)
                      ELSE Answer(Found(active, files, sstables, k))
    BY <1>1, <1>5 DEF FInv, Serves
  <2>2. QED
    BY <2>1, <1>3, <1>4 DEF Found
<1>12. Durable'
  BY <1>1 DEF FInv, Durable
<1>13. QED
  BY <1>7, <1>8, <1>9, <1>10, <1>11, <1>12 DEF FInv

-----------------------------------------------------------------------------
(* MANIFEST during a flush.                                                *)

(* An append that stopped names at most the file of the flush.             *)
LEMMA AddSSTableStopsStep == ASSUME FInv, AddSSTableStops PROVE FInv'
<1> USE Markers
<1>1. PICK text \in {In, Junk, Directory} : manifest' = Extended(text)
  BY DEF AddSSTableStops
<1>2. /\ pc = "publish" /\ pc' = "stopped" /\ unterminated' = TRUE
      /\ UNCHANGED <<wal, files, op, active, immutable, sstables, counter, obsolete, listed, expected>>
      /\ faults \subseteq faults' /\ faults' \subseteq faults \cup Kinds /\ "append" \in faults'
  BY DEF AddSSTableStops, Fault, memory
<1>3. In \in FileName /\ In.id = Fresh /\ counter \in Nat /\ Fresh = counter - 1
      /\ counter - 1 \in 0 .. MaxId
  BY <1>2, BuiltFile DEF Taking, FInv, FaultyRoom
<1>4. Fresh' = Fresh /\ In' = In /\ Memtable' = Memtable
  BY <1>2 DEF Fresh, Taking, In, Memtable
<1>5. manifest' \in Seq(Line) /\ manifest' # <<>> /\ Names(manifest') \subseteq Names(manifest) \cup {text}
  <2>1. manifest \in Seq(Line) /\ (unterminated => manifest # <<>>)
    BY DEF FInv, FaultyTypeOK
  <2>2. text \in FileName \cup {Junk, Directory}
    BY <1>3
  <2>3. QED
    BY <1>1, <2>1, <2>2, ExtendedNames
<1>6. Names(manifest') \subseteq Names(manifest) \cup {In}
  <2>1. Names(manifest') \subseteq FileName
    BY DEF Names
  <2>2. QED
    BY <1>1, <1>5, <2>1, LineFacts
<1>7. FaultyTypeOK'
  BY <1>2, <1>5 DEF FInv, FaultyTypeOK
<1>8. FaultyShape' /\ FaultyRoom'
  BY <1>2 DEF FInv, FaultyShape, FaultyRoom, Taking
<1>9. Opened' /\ Built'
  BY <1>2, <1>4 DEF FInv, Opened, Built
<1>10. LogKept' /\ CompactionFindsInputs'
  BY <1>2, <1>4 DEF FInv, LogKept, CompactionFindsInputs
<1>11. Serves'
  <2> SUFFICES ASSUME Truthful(faults') PROVE Serves'
    BY DEF Serves
  <2>1. Truthful(faults)
    BY <1>2 DEF Truthful
  <2>2. QED
    BY <2>1, <1>2, <1>4 DEF FInv, Serves
<1>12. ListedFit'
  <2> SUFFICES ASSUME faults' \cap {"fallback", "open"} = {} PROVE ListedFit'
    BY DEF ListedFit
  <2>1. faults \cap {"fallback", "open"} = {} /\ obsolete = <<>> /\ ToSet(<<>>) = {}
    BY <1>2 DEF FInv, FaultyShape, ToSet
  <2>2. files[In] \in Table
    BY <1>2 DEF FInv, Built, FaultyTypeOK
  <2>3. ListedFit
    BY DEF FInv
  <2>4. QED
    BY <2>1, <2>2, <2>3, <1>2, <1>4, <1>6 DEF ListedFit
<1>13. Durable'
  BY <1>2 DEF Durable, Harmless
<1>14. QED
  BY <1>7, <1>8, <1>9, <1>10, <1>11, <1>12, <1>13 DEF FInv

(* The new reader goes to the front, whatever became of MANIFEST.          *)
LEMMA Published ==
  ASSUME FInv, pc \in {"publish", "stopped"}, Publish, faults \subseteq faults'
  PROVE  /\ In \in FileName /\ In.id = Fresh /\ Fresh' = counter /\ In.id < Fresh'
         /\ \A f \in FileName : f.id < Fresh => f.id < Fresh'
         /\ files[In] = immutable /\ immutable \in Table /\ Memtable = immutable
         /\ In \notin ToSet(sstables)
         /\ sstables' \in Seq(FileName) /\ ToSet(sstables') = ToSet(sstables) \cup {In}
         /\ sstables' # <<>> /\ sstables'[1] = In /\ sstables' = <<In>> \o sstables
         /\ obsolete = <<>>
         /\ Opened' /\ Built' /\ LogKept' /\ Serves' /\ FaultyRoom'
<1> USE Markers
<1>1. /\ pc' = "truncate" /\ sstables' = <<In>> \o sstables
      /\ UNCHANGED <<wal, files, op, active, immutable, counter, obsolete, expected>>
  BY DEF Publish
<1>2. /\ In \in FileName /\ In.id = Fresh /\ counter \in Nat /\ Fresh = counter - 1
      /\ counter - 1 \in 0 .. MaxId
  BY BuiltFile DEF Taking, FInv, FaultyRoom
<1>3. Fresh' = counter /\ In.id < Fresh'
  BY <1>1, <1>2 DEF Fresh, Taking
<1>4. \A f \in FileName : f.id < Fresh => f.id < Fresh'
  <2>1. \A f \in FileName : f.id \in Nat
    BY LineFacts
  <2>2. ASSUME NEW f \in FileName, f.id < Fresh PROVE f.id < Fresh'
    BY <2>1, <2>2, <1>2, <1>3
  <2>3. QED
    BY <2>2
<1>5. files[In] = immutable /\ immutable \in Table /\ active = Nil /\ obsolete = <<>>
      /\ sstables \in Seq(FileName)
  BY DEF FInv, FaultyTypeOK, FaultyShape, Built
<1>6. Memtable = immutable /\ Memtable' = immutable
  BY <1>1, <1>5 DEF Memtable
<1>7. \A f \in ToSet(sstables) : f \in FileName /\ files[f] \in Table /\ f.id < Fresh
  BY <1>5 DEF FInv, Opened, ToSet
<1>8. In \notin ToSet(sstables)
  <2>1. ~ (In.id < Fresh)
    BY <1>2
  <2>2. QED
    BY <2>1, <1>7
<1>9. sstables' \in Seq(FileName) /\ ToSet(sstables') = ToSet(sstables) \cup {In}
      /\ sstables' # <<>> /\ sstables'[1] = In
  <2>1. /\ <<In>> \o sstables \in Seq(FileName) /\ <<In>> \o sstables # <<>>
        /\ (<<In>> \o sstables)[1] = In
        /\ ToSet(<<In>> \o sstables) = ToSet(sstables) \cup {In}
    BY <1>2, <1>5, PrependMembers
  <2>2. QED
    BY <2>1, <1>1
<1>10. Opened'
  BY <1>1, <1>3, <1>4, <1>5, <1>7, <1>9 DEF Opened
<1>11. Built'
  <2>1. ToSet(<<>>) = {}
    BY DEF ToSet
  <2>2. QED
    BY <2>1, <1>1, <1>5, <1>9 DEF Built
<1>12. LogKept'
  BY <1>1, <1>6 DEF FInv, LogKept
<1>13. Serves'
  <2> SUFFICES ASSUME Truthful(faults'), NEW k \in Key
               PROVE  expected[k] = Answer(Found(immutable, files, <<In>> \o sstables, k))
    BY <1>1, <1>6 DEF Serves
  <2>1. Truthful(faults)
    BY DEF Truthful
  <2>2. expected[k] = Answer(Found(immutable, files, sstables, k))
    BY <2>1, <1>6 DEF FInv, Serves
  <2>3. Found(files[In], files, <<In>> \o sstables, k) = Found(files[In], files, sstables, k)
    BY <1>2, <1>5, <1>7, FoundPublish
  <2>4. QED
    BY <2>2, <2>3, <1>5
<1>14. FaultyRoom'
  BY <1>1 DEF FInv, FaultyRoom, Taking
<1>15. QED
  BY <1>1, <1>2, <1>3, <1>4, <1>5, <1>6, <1>8, <1>9, <1>10, <1>11, <1>12, <1>13, <1>14

(* If nothing was written, or not all of it, the reader's file is not in   *)
(* the copy of the list, and a compaction will notice.                     *)
LEMMA UnlistedStep ==
  ASSUME FInv, AddSSTableRefused \/ AddSSTableReturnsFalse
  PROVE  FInv'
<1> USE Markers
<1>1. /\ pc \in {"publish", "stopped"} /\ Publish
      /\ UNCHANGED <<manifest, unterminated, listed>>
      /\ faults \subseteq faults' /\ faults' \subseteq faults \cup Kinds /\ "append" \in faults'
  BY DEF AddSSTableRefused, AddSSTableReturnsFalse, Fault, FInv, FaultyShape
<1>2. pc' = "truncate" /\ UNCHANGED <<wal, files, op, active, immutable, counter, obsolete, expected>>
  BY <1>1 DEF Publish
<1>3. /\ In \in FileName /\ In.id = Fresh /\ Fresh' = counter /\ In.id < Fresh'
      /\ \A f \in FileName : f.id < Fresh => f.id < Fresh'
      /\ sstables' \in Seq(FileName) /\ ToSet(sstables') = ToSet(sstables) \cup {In}
      /\ Opened' /\ Built' /\ LogKept' /\ Serves' /\ FaultyRoom'
  BY <1>1, Published
<1>4. FaultyTypeOK'
  BY <1>1, <1>2, <1>3 DEF FInv, FaultyTypeOK
<1>5. FaultyShape'
  BY <1>1, <1>2 DEF FInv, FaultyShape
<1>6. CompactionFindsInputs' /\ Durable'
  BY <1>1 DEF CompactionFindsInputs, Durable, Harmless
<1>7. ListedFit'
  <2> SUFFICES ASSUME faults' \cap {"fallback", "open"} = {} PROVE ListedFit'
    BY DEF ListedFit
  <2>1. faults \cap {"fallback", "open"} = {}
    BY <1>1
  <2>2. /\ \A f \in Names(manifest) : /\ files[f] \in Table /\ f \notin ToSet(obsolete)
                                      /\ f.id < Fresh \/ f = In
        /\ \A f \in Names(listed) : f \notin ToSet(obsolete) /\ f.id < Fresh
    BY <2>1, <1>1 DEF FInv, ListedFit
  <2>3. Names(manifest') = Names(manifest) /\ Names(listed') = Names(listed)
    BY <1>1
  <2>4. \A f \in Names(manifest) \cup Names(listed) : f \in FileName
    BY DEF Names
  <2>5. In \notin ToSet(listed)
    <3>1. ~ (In.id < In.id)
      BY <1>3, LineFacts
    <3>2. QED
      BY <3>1, <2>2, <1>3 DEF Names
  <2>6. ~ (ToSet(sstables') \subseteq ToSet(listed'))
    BY <2>5, <1>1, <1>3
  <2>7. QED
    BY <2>2, <2>3, <2>4, <2>6, <1>2, <1>3 DEF ListedFit
<1>8. QED
  BY <1>3, <1>4, <1>5, <1>6, <1>7 DEF FInv

LEMMA AddSSTableStep == ASSUME FInv, AddSSTable PROVE FInv'
<1> USE Markers
<1>1. /\ pc = "publish" /\ Publish /\ manifest' = Extended(In) /\ unterminated' = FALSE
      /\ listed' = Append(listed, In) /\ UNCHANGED faults
  BY DEF AddSSTable
<1>2. pc' = "truncate" /\ UNCHANGED <<wal, files, op, active, immutable, counter, obsolete, expected>>
  BY <1>1 DEF Publish
<1>3. /\ In \in FileName /\ In.id = Fresh /\ Fresh' = counter /\ In.id < Fresh'
      /\ \A f \in FileName : f.id < Fresh => f.id < Fresh'
      /\ files[In] = immutable /\ immutable \in Table /\ Memtable = immutable
      /\ In \notin ToSet(sstables)
      /\ sstables' \in Seq(FileName) /\ ToSet(sstables') = ToSet(sstables) \cup {In}
      /\ sstables' # <<>> /\ sstables'[1] = In /\ sstables' = <<In>> \o sstables
      /\ obsolete = <<>>
      /\ Opened' /\ Built' /\ LogKept' /\ Serves' /\ FaultyRoom'
  BY <1>1, Published
<1>4. manifest \in Seq(Line) /\ listed \in Seq(Line) /\ In \in Line /\ In # Directory
      /\ (unterminated => manifest # <<>>)
  BY <1>3, LineFacts DEF FInv, FaultyTypeOK
<1>5. manifest' \in Seq(Line) /\ Names(manifest') \subseteq Names(manifest) \cup {In}
  BY <1>1, <1>3, <1>4, ExtendedNames
<1>6. /\ listed' \in Seq(Line) /\ ToSet(listed') = ToSet(listed) \cup {In}
      /\ Names(listed') = Names(listed) \cup {In}
  <2>1. Append(listed, In) \in Seq(Line) /\ ToSet(Append(listed, In)) = ToSet(listed) \cup {In}
    BY <1>4, AppendMembers
  <2>2. QED
    BY <2>1, <1>1, <1>3 DEF Names
<1>7. FaultyTypeOK'
  BY <1>1, <1>2, <1>3, <1>5, <1>6 DEF FInv, FaultyTypeOK
<1>8. FaultyShape'
  BY <1>1, <1>2, <1>4, <1>6 DEF FInv, FaultyShape
<1>9. CompactionFindsInputs'
  BY <1>1, <1>3, <1>6 DEF FInv, CompactionFindsInputs
<1>10. ToSet(sstables') \subseteq ToSet(listed') => ToSet(sstables) \subseteq ToSet(listed)
  BY <1>3, <1>6
<1>11. ListedFit'
  <2> SUFFICES ASSUME faults' \cap {"fallback", "open"} = {} PROVE ListedFit'
    BY DEF ListedFit
  <2>1. faults \cap {"fallback", "open"} = {} /\ ToSet(<<>>) = {}
    BY <1>1 DEF ToSet
  <2>2. /\ \A f \in Names(manifest) : files[f] \in Table /\ f.id < Fresh
        /\ \A f \in Names(listed) : f.id < Fresh
        /\ ToSet(sstables) \subseteq ToSet(listed) => Names(listed) \subseteq ToSet(sstables)
    BY <2>1, <1>1 DEF FInv, ListedFit
  <2>3. \A f \in Names(manifest) \cup Names(listed) : f \in FileName
    BY DEF Names
  <2>4. \A f \in Names(manifest') : files'[f] \in Table /\ f \notin ToSet(obsolete') /\ f.id < Fresh'
    BY <2>1, <2>2, <2>3, <1>2, <1>3, <1>5
  <2>5. \A f \in Names(listed') : f \notin ToSet(obsolete') /\ f.id < Fresh'
    BY <2>1, <2>2, <2>3, <1>2, <1>3, <1>6
  <2>6. ToSet(sstables') \subseteq ToSet(listed') => Names(listed') \subseteq ToSet(sstables')
    BY <2>2, <1>3, <1>6, <1>10
  <2>7. QED
    BY <2>4, <2>5, <2>6, <1>2 DEF ListedFit
<1>12. Durable'
  <2> SUFFICES ASSUME faults' \subseteq Harmless PROVE Durable'
    BY DEF Durable
  <2>1. faults \subseteq Harmless /\ faults \cap {"fallback", "open"} = {} /\ "unread" \notin faults
    BY <1>1 DEF Harmless
  <2>2. /\ manifest \in Seq(FileName) /\ ~ unterminated /\ listed = manifest
        /\ ToSet(sstables) \subseteq ToSet(listed) => sstables = Reverse(listed)
        /\ \A k \in Key : expected[k] = Answer(Found(Replay(wal), files, Reverse(manifest), k))
    BY <2>1, <1>1 DEF FInv, Durable
  <2>3. manifest' = Append(manifest, In) /\ listed' = manifest'
    BY <2>2, <1>1 DEF Extended
  <2>4. manifest' \in Seq(FileName) /\ manifest' # <<>> /\ manifest'[Len(manifest')] = In
    <3>1. /\ Append(manifest, In) \in Seq(FileName)
          /\ Len(Append(manifest, In)) = Len(manifest) + 1
          /\ Append(manifest, In)[Len(manifest) + 1] = In
      BY <2>2, <1>3
    <3>2. Len(manifest) \in Nat
      BY <2>2
    <3> HIDE DEF In
    <3>3. Append(manifest, In) # <<>>
      <4>1. Len(<<>>) = 0
        OBVIOUS
      <4>2. QED
        BY <3>1, <3>2, <4>1
    <3>4. QED
      BY <2>3, <3>1, <3>3
  <2>5. Reverse(manifest') = <<In>> \o Reverse(manifest)
    BY <2>2, <2>3, <1>3, ReverseAppend
  <2>6. Replay(wal) = immutable
    BY <2>1, <1>1, <1>3 DEF FInv, LogKept
  <2>7. \A f \in ToSet(Reverse(manifest)) : files[f] \in Table
    <3>1. ToSet(Reverse(manifest)) = ToSet(manifest)
      BY <2>2, ReverseProperties
    <3>2. ToSet(manifest) \subseteq Names(manifest)
      BY <2>2 DEF Names, ToSet
    <3>3. \A f \in Names(manifest) : files[f] \in Table
      BY <2>1 DEF FInv, ListedFit
    <3>4. QED
      BY <3>1, <3>2, <3>3
  <2>8. Reverse(manifest) \in Seq(FileName)
    BY <2>2, ReverseProperties
  <2>9. \A k \in Key : Found(files[In], files, <<In>> \o Reverse(manifest), k)
                        = Found(files[In], files, Reverse(manifest), k)
    BY <2>7, <2>8, <1>3, FoundPublish
  <2>10. \A k \in Key : expected[k] = Answer(Found(Replay(wal), files, Reverse(manifest'), k))
    BY <2>2, <2>5, <2>6, <2>9, <1>3
  <2>11. ToSet(sstables') \subseteq ToSet(listed') => sstables' = Reverse(listed')
    BY <2>2, <2>3, <2>5, <1>3, <1>10
  <2>12. QED
    BY <2>3, <2>4, <2>10, <2>11, <1>1, <1>2, <1>3 DEF Durable
<1>13. QED
  BY <1>3, <1>7, <1>8, <1>9, <1>11, <1>12 DEF FInv

-----------------------------------------------------------------------------
(* The end of a flush.                                                     *)

(* What the three endings have in common.                                  *)
LEMMA FlushEnds ==
  ASSUME FInv, pc = "truncate", pc' \in {"idle", "compact"},
         immutable' = Nil, active' \in Table \cup {Nil},
         UNCHANGED <<manifest, files, op, sstables, counter, obsolete>>,
         UNCHANGED <<unterminated, listed, expected>>, wal' \in Seq(LogEntry),
         faults \subseteq faults', faults' \subseteq faults \cup Kinds
  PROVE  /\ FaultyTypeOK' /\ FaultyShape' /\ FaultyRoom' /\ Opened' /\ Built'
         /\ CompactionFindsInputs' /\ ListedFit'
         /\ sstables \in Seq(FileName) /\ sstables # <<>> /\ files[sstables[1]] = immutable
         /\ Memtable = immutable
<1> USE Markers
<1>1. sstables \in Seq(FileName) /\ sstables # <<>> /\ files[sstables[1]] = immutable
      /\ counter \in Nat
  BY DEF FInv, FaultyTypeOK, Built
<1>2. Memtable = immutable
  BY DEF FInv, FaultyTypeOK, FaultyShape, Memtable
<1>3. Fresh' = Fresh /\ Fresh \in Nat
  BY <1>1 DEF Fresh, Taking
<1>4. Opened' /\ CompactionFindsInputs' /\ ListedFit' /\ ToSet(obsolete') \cap ToSet(sstables') = {}
  BY <1>3, ListsKept
<1>5. FaultyTypeOK'
  BY DEF FInv, FaultyTypeOK
<1>6. FaultyShape' /\ FaultyRoom' /\ Built'
  BY <1>1, <1>4 DEF FInv, FaultyShape, FaultyRoom, Built, Taking
<1>7. QED
  BY <1>1, <1>2, <1>4, <1>5, <1>6

(* The log is emptied once its content is in a listed table, with or       *)
(* without a fresh memtable.                                               *)
LEMMA EmptiedStep ==
  ASSUME FInv, pc = "truncate", pc' \in {"idle", "compact"},
         immutable' = Nil, active' \in {Nil, EmptyTable}, wal' = <<>>,
         UNCHANGED <<manifest, files, op, sstables, counter, obsolete>>,
         UNCHANGED <<unterminated, listed, expected>>,
         faults \subseteq faults', faults' \subseteq faults \cup Kinds
  PROVE  FInv'
<1> USE Markers
<1>1. EmptyTable \in Table /\ wal' \in Seq(LogEntry) /\ Replay(wal') = EmptyTable
  BY ReplayEmpty DEF EmptyTable, Table, Cell
<1>2. /\ FaultyTypeOK' /\ FaultyShape' /\ FaultyRoom' /\ Opened' /\ Built'
      /\ CompactionFindsInputs' /\ ListedFit'
      /\ sstables \in Seq(FileName) /\ sstables # <<>> /\ files[sstables[1]] = immutable
      /\ Memtable = immutable
  BY <1>1, FlushEnds
<1>3. Memtable' = EmptyTable
  BY DEF Memtable
<1>4. LogKept'
  BY <1>1, <1>3 DEF LogKept
<1>5. Serves'
  <2> SUFFICES ASSUME Truthful(faults'), NEW k \in Key
               PROVE  expected[k] = Answer(Found(EmptyTable, files, sstables, k))
    BY <1>3 DEF Serves
  <2>1. Truthful(faults)
    BY DEF Truthful
  <2>2. expected[k] = Answer(Found(immutable, files, sstables, k))
    BY <2>1, <1>2 DEF FInv, Serves
  <2>3. Found(EmptyTable, files, sstables, k) = Found(files[sstables[1]], files, sstables, k)
    BY <1>2, FoundTruncate
  <2>4. QED
    BY <2>2, <2>3, <1>2
<1>6. Durable'
  <2> SUFFICES ASSUME faults' \subseteq Harmless PROVE Durable'
    BY DEF Durable
  <2>1. faults \subseteq Harmless /\ "unread" \notin faults
    BY DEF Harmless
  <2>2. /\ manifest \in Seq(FileName) /\ ~ unterminated /\ listed = manifest
        /\ ToSet(sstables) \subseteq ToSet(listed) => sstables = Reverse(listed)
        /\ manifest # <<>> /\ manifest[Len(manifest)] = sstables[1]
        /\ \A k \in Key : expected[k] = Answer(Found(Replay(wal), files, Reverse(manifest), k))
    BY <2>1 DEF FInv, Durable
  <2>3. Replay(wal) = immutable
    BY <2>1, <1>2 DEF FInv, LogKept
  <2> DEFINE r == Reverse(manifest)
  <2>4. r \in Seq(FileName) /\ r # <<>> /\ r[1] = manifest[Len(manifest)]
    <3>1. /\ r \in Seq(FileName) /\ Len(r) = Len(manifest)
          /\ \A i \in 1 .. Len(manifest) : r[i] = manifest[Len(manifest) - i + 1]
      BY <2>2, ReverseProperties
    <3>2. Len(manifest) \in Nat /\ 1 \in 1 .. Len(manifest) /\ Len(manifest) - 1 + 1 = Len(manifest)
      BY <2>2
    <3>3. r[1] = manifest[Len(manifest)]
      BY <3>1, <3>2
    <3> HIDE DEF r
    <3>4. QED
      BY <3>1, <3>2, <3>3
  <2> HIDE DEF r
  <2>5. ASSUME NEW k \in Key
        PROVE  expected[k] = Answer(Found(EmptyTable, files, r, k))
    <3>1. Found(EmptyTable, files, r, k) = Found(files[r[1]], files, r, k)
      BY <2>4, FoundTruncate
    <3>2. files[r[1]] = Replay(wal)
      BY <2>2, <2>3, <2>4, <1>2
    <3>3. QED
      BY <3>1, <3>2, <2>2 DEF r
  <2>6. QED
    BY <2>2, <2>5, <1>1 DEF Durable, r
<1>7. QED
  BY <1>2, <1>4, <1>5, <1>6 DEF FInv

LEMMA TruncateLogKeeps ==
  ASSUME FInv, TruncateLog, UNCHANGED <<unterminated, listed, faults, expected>>
  PROVE  FInv'
BY EmptiedStep DEF TruncateLog

LEMMA MemTableThrowsStep == ASSUME FInv, MemTableThrows PROVE FInv'
<1>1. /\ pc = "truncate" /\ pc' = "idle" /\ immutable' = Nil /\ wal' = <<>>
      /\ UNCHANGED <<manifest, files, op, active, sstables, counter, obsolete>>
      /\ UNCHANGED <<unterminated, listed, expected>>
      /\ faults \subseteq faults' /\ faults' \subseteq faults \cup Kinds
  BY DEF MemTableThrows, Fault
<1>2. active = Nil
  BY <1>1 DEF FInv, FaultyTypeOK, FaultyShape
<1>3. QED
  BY <1>1, <1>2, EmptiedStep

(* A log that is not emptied fills the fresh memtable again.               *)
LEMMA TruncateFailsStep == ASSUME FInv, TruncateFails PROVE FInv'
<1> USE Markers
<1>1. /\ pc = "truncate" /\ pc' \in {"idle", "compact"} /\ immutable' = Nil /\ active' = Replay(wal)
      /\ UNCHANGED <<wal, manifest, files, op, sstables, counter, obsolete>>
      /\ UNCHANGED <<unterminated, listed, expected>>
      /\ faults \subseteq faults' /\ faults' \subseteq faults \cup Kinds /\ "truncate" \in faults'
  BY DEF TruncateFails, Fault, disk
<1>2. wal' \in Seq(LogEntry) /\ active' \in Table /\ active' # Nil
  <2>1. wal \in Seq(LogEntry)
    BY DEF FInv, FaultyTypeOK
  <2>2. QED
    BY <2>1, <1>1, ReplayType
<1>3. /\ FaultyTypeOK' /\ FaultyShape' /\ FaultyRoom' /\ Opened' /\ Built'
      /\ CompactionFindsInputs' /\ ListedFit'
  BY <1>1, <1>2, FlushEnds
<1>4. Memtable' = Replay(wal)
  BY <1>1, <1>2 DEF Memtable
<1>5. LogKept'
  BY <1>1, <1>4 DEF LogKept
<1>6. Serves'
  <2> SUFFICES ASSUME Truthful(faults') PROVE Serves'
    BY DEF Serves
  <2>1. Truthful(faults) /\ "unread" \notin faults
    BY <1>1 DEF Truthful
  <2>2. Replay(wal) = Memtable
    BY <2>1, <1>1 DEF FInv, LogKept
  <2>3. QED
    BY <2>1, <2>2, <1>1, <1>4 DEF FInv, Serves
<1>7. Durable'
  BY <1>1 DEF FInv, Durable
<1>8. QED
  BY <1>3, <1>5, <1>6, <1>7 DEF FInv

-----------------------------------------------------------------------------
(* The end of a compaction.                                                *)

(* A rename that fails removes MANIFEST.                                   *)
LEMMA RenameFailsStep == ASSUME FInv, RenameFails PROVE FInv'
<1> USE Markers
<1>1. /\ pc \in {"swap", "byid"} /\ Validated /\ manifest' = <<>> /\ unterminated' = FALSE
      /\ pc' = (IF pc = "swap" THEN "gap" ELSE "gapid")
      /\ UNCHANGED <<wal, files, op, active, immutable, sstables, counter, obsolete, listed, expected>>
      /\ faults \subseteq faults' /\ faults' \subseteq faults \cup Kinds /\ "rename" \in faults'
  BY DEF RenameFails, Fault, ByName, memory
<1>2. /\ pc = "swap" => ToSet(sstables) \subseteq ToSet(listed)
      /\ pc = "byid" => Ids \subseteq {ManifestId(line) : line \in ToSet(listed)}
  BY <1>1 DEF Validated, ByName
<1>3. Fresh' = Fresh /\ Out' = Out /\ Memtable' = Memtable /\ Ids' = Ids
      /\ ToSet(<<>>) = {} /\ <<>> \in Seq(Line)
  BY <1>1 DEF Fresh, Taking, Out, Memtable, Ids, Generation, ToSet
<1>4. FaultyTypeOK'
  BY <1>1, <1>3 DEF FInv, FaultyTypeOK
<1>5. FaultyShape'
  BY <1>1, <1>2, <1>3 DEF FInv, FaultyShape
<1>6. FaultyRoom' /\ Opened' /\ Built' /\ LogKept' /\ CompactionFindsInputs'
  BY <1>1, <1>3 DEF FInv, FaultyRoom, Taking, Opened, Built, LogKept, CompactionFindsInputs
<1>7. Serves'
  <2> SUFFICES ASSUME Truthful(faults') PROVE Serves'
    BY DEF Serves
  <2>1. Truthful(faults)
    BY <1>1 DEF Truthful
  <2>2. QED
    BY <2>1, <1>1, <1>3 DEF FInv, Serves
<1>8. ListedFit'
  BY <1>1, <1>3 DEF FInv, ListedFit, Names
<1>9. Durable'
  BY <1>1 DEF Durable, Harmless
<1>10. QED
  BY <1>4, <1>5, <1>6, <1>7, <1>8, <1>9 DEF FInv

(* A deleted input is open to no reader and named by no list.              *)
LEMMA UnlinkKeeps ==
  ASSUME FInv, Unlink, UNCHANGED <<unterminated, listed, faults, expected>>
  PROVE  FInv'
<1> USE Markers
<1> DEFINE gone == Head(obsolete)
<1>1. /\ pc = "unlink" /\ pc' \in {"idle", "unlink"} /\ obsolete \in Seq(FileName)
      /\ obsolete # <<>> /\ obsolete' = Tail(obsolete)
      /\ pc' = (IF Len(obsolete) = 1 THEN "idle" ELSE "unlink")
      /\ files' = [files EXCEPT ![gone] = Nil]
      /\ files \in [FileName -> Table \cup {Partial, Nil}]
      /\ UNCHANGED <<wal, manifest, op, active, immutable, sstables, counter>>
  BY DEF Unlink, FInv, FaultyTypeOK
<1>2. /\ obsolete' \in Seq(FileName) /\ ToSet(obsolete') \subseteq ToSet(obsolete)
      /\ (obsolete' = <<>> <=> Len(obsolete) = 1)
      /\ gone \in ToSet(obsolete) /\ gone \in FileName
  BY <1>1, TailMembers
<1> HIDE DEF gone
<1>3. /\ files' \in [FileName -> Table \cup {Partial, Nil}]
      /\ \A f \in FileName : f # gone => files'[f] = files[f]
  BY <1>1, <1>2
<1>4. Fresh' = Fresh /\ Memtable' = Memtable
  BY <1>1 DEF Fresh, Taking, Memtable
<1>5. /\ sstables \in Seq(FileName) /\ manifest \in Seq(Line)
      /\ \A f \in ToSet(sstables) : f \in FileName /\ files'[f] = files[f]
  <2>1. sstables \in Seq(FileName) /\ manifest \in Seq(Line)
    BY DEF FInv, FaultyTypeOK
  <2>2. \A f \in ToSet(sstables) : f \in FileName
    BY <2>1 DEF ToSet
  <2>3. gone \notin ToSet(sstables)
    BY <1>2 DEF FInv, Built
  <2>4. QED
    BY <2>1, <2>2, <2>3, <1>3
<1>6. FaultyTypeOK'
  BY <1>1, <1>2, <1>3 DEF FInv, FaultyTypeOK
<1>7. FaultyShape' /\ FaultyRoom' /\ Built'
  BY <1>1, <1>2 DEF FInv, FaultyShape, FaultyRoom, Built, Taking
<1>8. Opened' /\ LogKept' /\ CompactionFindsInputs'
  BY <1>1, <1>4, <1>5 DEF FInv, Opened, LogKept, CompactionFindsInputs
<1>9. Serves'
  <2> SUFFICES ASSUME Truthful(faults), NEW k \in Key
               PROVE  expected[k] = Answer(Found(Memtable, files', sstables, k))
    BY <1>1, <1>4 DEF Serves
  <2>1. expected[k] = Answer(Found(Memtable, files, sstables, k))
    BY <1>1 DEF FInv, Serves
  <2>2. Found(Memtable, files', sstables, k) = Found(Memtable, files, sstables, k)
    BY <1>5, FoundFrame
  <2>3. QED
    BY <2>1, <2>2
<1>10. ListedFit'
  <2> SUFFICES ASSUME faults \cap {"fallback", "open"} = {} PROVE ListedFit'
    BY DEF ListedFit
  <2>1. ListedFit /\ \A f \in Names(manifest) : f \in FileName /\ f # gone
    BY <1>2 DEF FInv, ListedFit, Names
  <2>2. QED
    BY <2>1, <1>1, <1>2, <1>3, <1>4 DEF ListedFit
<1>11. Durable'
  <2> SUFFICES ASSUME faults \subseteq Harmless PROVE Durable'
    BY DEF Durable
  <2>1. faults \cap {"fallback", "open"} = {} /\ Durable
    BY DEF Harmless, FInv
  <2>2. manifest \in Seq(FileName)
    BY <2>1 DEF Durable
  <2>3. Reverse(manifest) \in Seq(FileName) /\ ToSet(Reverse(manifest)) = ToSet(manifest)
    BY <2>2, ReverseProperties
  <2>4. \A f \in ToSet(manifest) : files'[f] = files[f]
    <3>1. ToSet(manifest) \subseteq Names(manifest)
      BY <2>2 DEF Names, ToSet
    <3>2. gone \notin Names(manifest)
      BY <2>1, <1>2 DEF FInv, ListedFit
    <3>3. QED
      BY <3>1, <3>2, <1>3 DEF Names
  <2>5. \A k \in Key : Found(Replay(wal), files', Reverse(manifest), k)
                        = Found(Replay(wal), files, Reverse(manifest), k)
    BY <2>3, <2>4, FoundFrame
  <2>6. QED
    BY <2>1, <2>5, <1>1 DEF Durable
<1>12. QED
  BY <1>6, <1>7, <1>8, <1>9, <1>10, <1>11 DEF FInv

(* The list in which a compaction puts its output: by name, in the place   *)
(* of its inputs; by id, under a name that no file has.                    *)
LEMMA Installed ==
  ASSUME FInv, Install
  PROVE  /\ pc \in {"swap", "byid", "gap", "gapid"}
         /\ UpdatedFiles \in Seq(Line) /\ UpdatedFiles # <<>>
         /\ Directory \notin ToSet(UpdatedFiles)
         /\ ByName => /\ ToSet(sstables) \subseteq ToSet(listed)
                      /\ ToSet(UpdatedFiles) = (ToSet(listed) \ ToSet(sstables)) \cup {Out}
<1> DEFINE new == IF ByName THEN Out ELSE Phantom(Out.id)
<1>1. /\ pc \in {"swap", "byid", "gap", "gapid"}
      /\ pc \in {"swap", "byid"} => Validated
  BY DEF Install, Swapping
<1>2. sstables \in Seq(FileName) /\ sstables # <<>> /\ listed \in Seq(Line)
      /\ Directory \notin ToSet(listed)
  BY <1>1 DEF FInv, FaultyTypeOK, FaultyShape
<1>3. Out \in FileName
  BY <1>1, BuiltFile DEF Taking
<1>4. ByName => ToSet(sstables) \subseteq ToSet(listed)
  BY <1>1 DEF ByName, Validated, FInv, FaultyShape
<1>5. ~ ByName => Ids \subseteq {ManifestId(line) : line \in ToSet(listed)}
  BY <1>1 DEF ByName, Validated, FInv, FaultyShape
<1>6. ToSet(listed) \cap Replaced # {}
  <2>1. CASE ByName
    <3>1. ToSet(sstables) # {}
      BY <1>2, EmptySet
    <3>2. QED
      BY <3>1, <2>1, <1>4 DEF Replaced
  <2>2. CASE ~ ByName
    <3>1. 1 \in DOMAIN sstables
      BY <1>2
    <3>2. Generation(sstables, 1) \in Ids
      BY <3>1 DEF Ids
    <3>3. PICK line \in ToSet(listed) : ManifestId(line) = Generation(sstables, 1)
      BY <3>2, <2>2, <1>5
    <3>4. line \in Replaced
      BY <3>2, <3>3, <2>2 DEF Replaced
    <3>5. QED
      BY <3>3, <3>4
  <2>3. QED
    BY <2>1, <2>2
<1>7. new \in Line /\ new # Directory
  <2>1. Out.id \in 0 .. MaxId
    BY <1>3, LineFacts
  <2>2. QED
    BY <2>1, <1>3, LineFacts
<1>8. UpdatedFiles = ReplaceSSTables(listed, Replaced, new)
  BY DEF UpdatedFiles
<1> HIDE DEF new
<1>9. /\ UpdatedFiles \in Seq(Line) /\ UpdatedFiles # <<>>
      /\ ToSet(UpdatedFiles) = (ToSet(listed) \ Replaced) \cup {new}
  BY <1>2, <1>6, <1>7, <1>8, ReplaceMembers
<1>10. Directory \notin ToSet(UpdatedFiles)
  BY <1>2, <1>7, <1>9
<1>11. ByName => Replaced = ToSet(sstables) /\ new = Out
  BY DEF Replaced, new
<1>12. QED
  BY <1>1, <1>4, <1>9, <1>10, <1>11

(* The output answers alone what the inputs answer together.               *)
LEMMA MergedSame ==
  ASSUME FInv, pc \in {"swap", "byid", "gap", "gapid"}, faults \cap {"read", "order"} = {},
         NEW list \in Seq(FileName), ToSet(list) = {Out}, NEW mem, NEW k \in Key
  PROVE  Answer(Found(mem, files, list, k)) = Answer(Found(mem, files, sstables, k))
<1>1. Lookup(Tabled(files, list), k) = files[Out][k]
  BY TabledSame
<1>2. files[Out][k] = Answer(Lookup(Tabled(files, sstables), k))
  BY DEF FInv, Built
<1>3. \A x : Answer(Answer(x)) = Answer(x)
  BY DEF Answer
<1>4. QED
  BY <1>1, <1>2, <1>3 DEF Found

(* What holds of the output.                                               *)
LEMMA OutputFacts ==
  ASSUME FInv, pc \in {"swap", "byid", "gap", "gapid"}
  PROVE  /\ Out \in FileName /\ files[Out] \in Table /\ Out.id < counter /\ counter \in Nat
         /\ Out \notin ToSet(sstables) /\ ToSet(sstables) # {}
         /\ sstables \in Seq(FileName) /\ obsolete = <<>>
         /\ \A f \in FileName : f.id < Fresh => f.id < counter
<1>1. /\ counter \in Nat /\ Out \in FileName /\ Out.id = Fresh /\ Fresh = counter - 1
      /\ counter - 1 \in 0 .. MaxId
  BY BuiltFile DEF Taking, FInv, FaultyRoom
<1>2. /\ sstables \in Seq(FileName) /\ sstables # <<>> /\ obsolete = <<>> /\ files[Out] \in Table
  BY DEF FInv, FaultyTypeOK, FaultyShape, Built
<1>3. Out.id < counter
  BY <1>1
<1>4. ~ (Out.id < Fresh)
  BY <1>1
<1>5. Out \notin ToSet(sstables)
  BY <1>4 DEF FInv, Opened
<1>6. ASSUME NEW f \in FileName, f.id < Fresh PROVE f.id < counter
  <2>1. f.id \in Nat
    BY LineFacts
  <2>2. QED
    BY <2>1, <1>1, <1>6
<1>7. QED
  BY <1>1, <1>2, <1>3, <1>5, <1>6, EmptySet

(* A list replaced by name names the output and no other file.             *)
LEMMA OneName ==
  ASSUME FInv, Install, ByName, faults \cap {"fallback", "open"} = {}
  PROVE  Names(UpdatedFiles) = {Out}
<1>1. /\ ToSet(sstables) \subseteq ToSet(listed)
      /\ ToSet(UpdatedFiles) = (ToSet(listed) \ ToSet(sstables)) \cup {Out}
      /\ pc \in {"swap", "byid", "gap", "gapid"}
  BY Installed
<1>2. Names(listed) \subseteq ToSet(sstables)
  BY <1>1 DEF FInv, ListedFit
<1>3. Out \in FileName
  BY <1>1, OutputFacts
<1>4. QED
  BY <1>1, <1>2, <1>3 DEF Names

(* After harmless failures it is all there is.                             *)
LEMMA OneLine ==
  ASSUME FInv, Install, ByName, faults \subseteq Harmless
  PROVE  /\ UpdatedFiles = <<Out>> /\ Reverse(<<Out>>) = <<Out>>
         /\ <<Out>> \in Seq(FileName) /\ ToSet(<<Out>>) = {Out}
         /\ \A k \in Key : expected[k] = Answer(Found(Replay(wal), files, <<Out>>, k))
<1>1. /\ ToSet(sstables) \subseteq ToSet(listed) /\ pc \in {"swap", "byid", "gap", "gapid"}
  BY Installed
<1>2. /\ manifest \in Seq(FileName) /\ listed = manifest /\ sstables = Reverse(manifest)
      /\ \A k \in Key : expected[k] = Answer(Found(Replay(wal), files, sstables, k))
  BY <1>1 DEF FInv, Durable
<1>3. Out \in FileName /\ ToSet(sstables) # {}
  BY <1>1, OutputFacts
<1>4. ToSet(sstables) = ToSet(manifest) /\ manifest # <<>>
  <2>1. ToSet(sstables) = ToSet(manifest)
    BY <1>2, ReverseProperties
  <2>2. QED
    BY <2>1, <1>2, <1>3, EmptySet
<1>5. UpdatedFiles = <<Out>>
  BY <1>2, <1>4, ReplaceWholeList DEF UpdatedFiles, Replaced
<1> DEFINE one == <<Out>>
<1>6. one \in Seq(FileName) /\ Len(one) = 1 /\ DOMAIN one = {1} /\ one[1] = Out
  BY <1>3
<1>7. ToSet(one) = {Out}
  BY <1>6 DEF ToSet
<1>8. Reverse(one) = one
  <2> DEFINE r == Reverse(one)
  <2>0. 1 \in 1 .. Len(one) /\ Len(one) - 1 + 1 = 1
    BY <1>6
  <2>1. r \in Seq(FileName) /\ Len(r) = 1 /\ r[1] = one[Len(one) - 1 + 1]
    <3> HIDE DEF one
    <3> QED
      BY <2>0, <1>6, ReverseProperties
  <2> HIDE DEF r, one
  <2>2. r = [i \in 1 .. 1 |-> r[i]] /\ one = [i \in 1 .. 1 |-> one[i]] /\ 1 .. 1 = {1}
    BY <2>1, <1>6
  <2>3. r[1] = one[1]
    BY <2>0, <2>1
  <2>4. QED
    BY <2>2, <2>3 DEF r
<1>9. faults \cap {"read", "order"} = {}
  BY DEF Harmless
<1>10. \A k \in Key : expected[k] = Answer(Found(Replay(wal), files, one, k))
  <2> HIDE DEF one
  <2> QED
    BY <1>1, <1>2, <1>6, <1>7, <1>9, MergedSame
<1>11. QED
  BY <1>5, <1>6, <1>7, <1>8, <1>10

(* Either way the new list is on disk and in memory.                       *)
LEMMA InstallStep ==
  ASSUME FInv, Install, pc' \in {"unlink", "idle"},
         Marked \subseteq faults', faults' \subseteq Marked \cup Kinds,
         \/ pc' = "unlink" /\ sstables' = <<Out>> /\ obsolete' = sstables
         \/ /\ pc' = "idle" /\ sstables' = sstables /\ obsolete' = obsolete
            /\ "reader" \in faults'
  PROVE  FInv'
<1> USE Markers
<1>1. /\ pc \in {"swap", "byid", "gap", "gapid"}
      /\ UpdatedFiles \in Seq(Line) /\ UpdatedFiles # <<>> /\ Directory \notin ToSet(UpdatedFiles)
      /\ ByName => /\ ToSet(sstables) \subseteq ToSet(listed)
                   /\ ToSet(UpdatedFiles) = (ToSet(listed) \ ToSet(sstables)) \cup {Out}
  BY Installed
<1>2. /\ manifest' = UpdatedFiles /\ listed' = UpdatedFiles /\ unterminated' = FALSE
      /\ UNCHANGED <<wal, files, op, active, immutable, counter, expected>>
  BY DEF Install
<1>3. /\ Out \in FileName /\ files[Out] \in Table /\ Out.id < counter /\ counter \in Nat
      /\ Out \notin ToSet(sstables) /\ ToSet(sstables) # {}
      /\ sstables \in Seq(FileName) /\ obsolete = <<>>
      /\ \A f \in FileName : f.id < Fresh => f.id < counter
  BY <1>1, OutputFacts
<1>4. Fresh' = counter /\ Memtable' = Memtable
  BY <1>2 DEF Fresh, Taking, Memtable
<1>5. faults \subseteq faults' /\ faults' \subseteq faults \cup Kinds \cup {"fallback"}
      /\ ("fallback" \notin faults' => ByName)
  BY DEF Marked
<1>6. /\ <<Out>> \in Seq(FileName) /\ ToSet(<<Out>>) = {Out} /\ <<Out>> # <<>>
      /\ ToSet(<<>>) = {} /\ sstables # <<>>
  <2>1. <<Out>> \in Seq(FileName) /\ DOMAIN <<Out>> = {1} /\ <<Out>>[1] = Out
    BY <1>3
  <2>2. ToSet(<<>>) = {}
    BY DEF ToSet
  <2>3. ToSet(<<Out>>) = {Out}
    BY <2>1 DEF ToSet
  <2>4. QED
    BY <2>1, <2>2, <2>3, <1>3
<1>7. sstables' \in Seq(FileName) /\ obsolete' \in Seq(FileName)
      /\ (pc' = "unlink" => obsolete' # <<>>) /\ (pc' # "unlink" => obsolete' = <<>>)
  <2>1. CASE pc' = "unlink" /\ sstables' = <<Out>> /\ obsolete' = sstables
    BY <2>1, <1>3, <1>6
  <2>2. CASE pc' = "idle" /\ sstables' = sstables /\ obsolete' = obsolete
    <3>1. <<>> \in Seq(FileName)
      OBVIOUS
    <3>2. QED
      BY <2>2, <3>1, <1>3
  <2>3. QED
    BY <2>1, <2>2
<1>8. FaultyTypeOK'
  BY <1>1, <1>2, <1>5, <1>7 DEF FInv, FaultyTypeOK
<1>9. FaultyShape' /\ FaultyRoom'
  BY <1>1, <1>2, <1>7 DEF FInv, FaultyShape, FaultyRoom, Taking
<1>10. Opened'
  <2>1. \A f \in ToSet(sstables) : f \in FileName /\ files[f] \in Table /\ f.id < counter
    BY <1>3 DEF FInv, Opened, ToSet
  <2>2. QED
    BY <2>1, <1>2, <1>3, <1>4, <1>6 DEF Opened
<1>11. Built'
  BY <1>3, <1>6 DEF Built
<1>12. LogKept'
  BY <1>1, <1>2, <1>4, <1>5 DEF FInv, LogKept
<1>13. Serves'
  <2> SUFFICES ASSUME Truthful(faults'), NEW k \in Key
               PROVE  expected[k] = Answer(Found(Memtable, files, sstables', k))
    BY <1>2, <1>4 DEF Serves
  <2>1. Truthful(faults) /\ faults \cap {"read", "order"} = {}
    BY <1>5 DEF Truthful
  <2>2. expected[k] = Answer(Found(Memtable, files, sstables, k))
    BY <2>1, <1>1 DEF FInv, Serves
  <2>3. Answer(Found(Memtable, files, <<Out>>, k)) = Answer(Found(Memtable, files, sstables, k))
    BY <2>1, <1>1, <1>6, MergedSame
  <2>4. QED
    BY <2>2, <2>3
<1>14. CompactionFindsInputs'
  BY <1>1, <1>2, <1>5, <1>6 DEF CompactionFindsInputs
<1>15. ListedFit'
  <2> SUFFICES ASSUME faults' \cap {"fallback", "open"} = {} PROVE ListedFit'
    BY DEF ListedFit
  <2>1. ByName /\ faults \cap {"fallback", "open"} = {}
    BY <1>5
  <2>2. Names(manifest') = {Out} /\ Names(listed') = {Out}
    BY <2>1, <1>2, OneName
  <2>3. Out \notin ToSet(obsolete')
    BY <1>3, <1>6
  <2>4. ToSet(sstables') \subseteq ToSet(listed') => Names(listed') \subseteq ToSet(sstables')
    BY <2>1, <2>2, <1>1, <1>2, <1>3, <1>6
  <2>5. QED
    BY <2>2, <2>3, <2>4, <1>2, <1>3, <1>4 DEF ListedFit
<1>16. Durable'
  <2> SUFFICES ASSUME faults' \subseteq Harmless PROVE Durable'
    BY DEF Durable
  <2>1. ByName /\ faults \subseteq Harmless
    BY <1>5 DEF Harmless
  <2>2. /\ UpdatedFiles = <<Out>> /\ Reverse(<<Out>>) = <<Out>>
        /\ <<Out>> \in Seq(FileName) /\ ToSet(<<Out>>) = {Out}
        /\ \A k \in Key : expected[k] = Answer(Found(Replay(wal), files, <<Out>>, k))
    BY <2>1, OneLine
  <2>3. ToSet(sstables') \subseteq ToSet(listed') => sstables' = <<Out>>
    BY <2>1, <2>2, <1>1, <1>2, <1>3
  <2>4. QED
    BY <2>2, <2>3, <1>2 DEF Durable
<1>17. QED
  BY <1>8, <1>9, <1>10, <1>11, <1>12, <1>13, <1>14, <1>15, <1>16 DEF FInv

LEMMA SwapReadersStep == ASSUME FInv, SwapReaders PROVE FInv'
BY InstallStep DEF SwapReaders

LEMMA ReaderFailsStep == ASSUME FInv, ReaderFails PROVE FInv'
<1>1. /\ Install /\ pc' = "idle" /\ UNCHANGED <<sstables, obsolete>> /\ "reader" \in faults'
      /\ Marked \subseteq faults' /\ faults' \subseteq Marked \cup Kinds
  BY DEF ReaderFails
<1>2. QED
  BY <1>1, InstallStep

-----------------------------------------------------------------------------
(* The invariant.                                                          *)

LEMMA FInitInvariant == FInit => FInv
<1> SUFFICES ASSUME FInit PROVE FInv
  OBVIOUS
<1> USE Markers
<1>1. /\ wal = <<>> /\ pc = "down" /\ op = Nil /\ active = Nil /\ immutable = Nil
      /\ sstables = <<>> /\ counter = 0 /\ obsolete = <<>> /\ unterminated = FALSE
      /\ listed = <<>> /\ faults = {} /\ expected = [k \in Key |-> Answer(Recovered(k))]
      /\ ToSet(<<>>) = {} /\ <<>> \in Seq(Line) /\ <<>> \in Seq(FileName)
  BY DEF FInit, Init, ToSet
<1>2. manifest \in Seq(FileName) /\ files \in [FileName -> Table \cup {Partial, Nil}]
      /\ \A f \in ToSet(manifest) : files[f] \in Table
  <2>1. IInv
    BY InitInvariant DEF FInit
  <2>2. QED
    BY <2>1 DEF IInv, TypeOK, ManifestReadable
<1>3. ToSet(manifest) \subseteq FileName /\ Names(manifest) = ToSet(manifest)
  BY <1>2 DEF ToSet, Names
<1>4. manifest \in Seq(Line)
  <2>1. ToSet(manifest) \subseteq Line
    BY <1>3, LineFacts
  <2>2. QED
    BY <2>1, <1>2, SeqOfMembers
<1>5. FaultyTypeOK
  <2>1. wal \in Seq(LogEntry) /\ expected \in [Key -> Value \cup {Absent}]
    BY <1>1 DEF Answer
  <2>2. QED
    BY <2>1, <1>1, <1>2, <1>4 DEF FaultyTypeOK
<1>6. FaultyShape /\ FaultyRoom
  BY <1>1 DEF FaultyShape, FaultyRoom, Taking
<1>7. Opened /\ Built /\ LogKept /\ Serves /\ CompactionFindsInputs
  BY <1>1 DEF Opened, Built, LogKept, Serves, CompactionFindsInputs
<1>8. ListedFit
  BY <1>1, <1>2, <1>3 DEF ListedFit, Names
<1>9. Existing(manifest) = manifest
  BY <1>2, FoundAll
<1>10. ASSUME NEW k \in Key
       PROVE  expected[k] = Answer(Found(Replay(wal), files, Reverse(manifest), k))
  BY <1>1, <1>9 DEF Recovered, Found, Content, Tabled
<1>11. Durable
  <2>1. ToSet(sstables) \subseteq ToSet(listed) => sstables = Reverse(listed)
    BY <1>1, ReverseNothing
  <2>2. QED
    BY <2>1, <1>1, <1>2, <1>10 DEF Durable
<1>12. QED
  BY <1>5, <1>6, <1>7, <1>8, <1>11 DEF FInv

LEMMA FNextInvariant == FInv /\ [FNext]_fvars => FInv'
<1> SUFFICES ASSUME FInv, [FNext]_fvars PROVE FInv'
  OBVIOUS
<1>1. CASE FOpen \/ OpenUnread \/ OpenBlind \/ FCrash
  BY <1>1, FOpenStep, OpenUnreadStep, OpenBlindStep, FCrashStep
<1>2. CASE \E k \in Key, c \in Written : FAppendLog(k, c)
  BY <1>2, FAppendLogStep
<1>3. CASE FFlushMemTable \/ FTriggerCompaction
  BY <1>3, FFlushMemTableStep, FTriggerCompactionStep
<1>4. CASE Unfailing
  BY <1>4, ApplyWriteKeeps, BeginFlushKeeps, FinishFlushKeeps, TruncateLogKeeps,
     BeginCompactionKeeps, UnlinkKeeps DEF Unfailing
<1>5. CASE FlushThrows \/ AddSSTableRefused \/ AddSSTableStops \/ TruncateFails \/ MemTableThrows
  BY <1>5, FlushThrowsStep, UnlistedStep, AddSSTableStopsStep, TruncateFailsStep,
     MemTableThrowsStep
<1>6. CASE AbandonMerge \/ MergeReadsShort \/ ReaderFails
  BY <1>6, AbandonMergeStep, MergeReadsShortStep, ReaderFailsStep
<1>7. CASE ReplaceFails \/ RenameFails \/ RenameFailsAgain \/ NotListed \/ UnlinkFails
  BY <1>7, GiveUpStep, RenameFailsStep, UnlinkFailsStep
<1>8. CASE AddSSTable \/ AddSSTableReturnsFalse \/ FFinishCompaction \/ SwapReaders
  BY <1>8, AddSSTableStep, UnlistedStep, FFinishCompactionStep, SwapReadersStep
<1>9. CASE OpenThrows \/ UNCHANGED fvars
  <2>1. UNCHANGED <<wal, manifest, files, pc, op, active, immutable, sstables, counter, obsolete>>
        /\ UNCHANGED <<unterminated, listed, faults, expected>>
    BY <1>9 DEF OpenThrows, fvars, vars, disk, memory
  <2>2. FaultyTypeOK' /\ FaultyRoom' /\ Opened' /\ Built'
    BY <2>1 DEF FInv, FaultyTypeOK, FaultyRoom, Opened, Built, Fresh, In, Out
  <2>3. FaultyShape'
    <3>1. Ids' = Ids
      BY <2>1 DEF Ids, Generation
    <3>2. QED
      BY <2>1, <3>1 DEF FInv, FaultyShape
  <2>4. LogKept' /\ Serves' /\ CompactionFindsInputs' /\ ListedFit' /\ Durable'
    BY <2>1 DEF FInv, LogKept, Serves, CompactionFindsInputs, ListedFit, Durable, Fresh, In,
                Memtable
  <2>5. QED
    BY <2>2, <2>3, <2>4 DEF FInv
<1>10. QED
  BY <1>1, <1>2, <1>3, <1>4, <1>5, <1>6, <1>7, <1>8, <1>9 DEF FNext, Proceed, Failing

(* The state of the engine under any failures.                             *)
THEOREM FaultyInvariant == FaultySpec => []FInv
<1>1. QED
  BY FInitInvariant, FNextInvariant, PTL DEF FaultySpec

(* Types, among them that every call with a memtable to write to has one,  *)
(* and that an operation past its first step has what it works on.         *)
THEOREM FaultyTypeCorrect == FaultySpec => []FaultyTypeOK
<1>1. FInv => FaultyTypeOK
  BY DEF FInv
<1>2. QED
  BY <1>1, FaultyInvariant, PTL

(* A compaction finds its inputs listed unless an append was refused or a  *)
(* reader did not open, so nothing else leads to the attempt by file id.   *)
THEOREM InputsAreListed == FaultySpec => []CompactionFindsInputs
<1>1. FInv => CompactionFindsInputs
  BY DEF FInv
<1>2. QED
  BY <1>1, FaultyInvariant, PTL

(* No failure to write shows in an answer while the process lives: the     *)
(* engine answers with every write since it started, whatever failed.      *)
THEOREM EveryWriteServed == FaultySpec => []ServesEveryWrite
<1>1. FInv => ServesEveryWrite
  <2> SUFFICES ASSUME FInv, pc = "idle", faults \cap {"read", "order"} = {},
                      ~ ({"unread", "truncate"} \subseteq faults)
               PROVE  Serving = expected
    BY DEF ServesEveryWrite
  <2>1. Typed
    BY GetFinds DEF FInv
  <2>2. \A k \in Key : expected[k] = Answer(Found(Memtable, files, sstables, k))
    BY DEF FInv, Serves, Truthful
  <2>3. expected = [k \in Key |-> expected[k]]
    BY DEF FInv, FaultyTypeOK
  <2>4. QED
    BY <2>1, <2>2, <2>3 DEF Serving, Typed
<1>2. QED
  BY <1>1, FaultyInvariant, PTL

(* After harmless failures, in any combination and however often, a crash  *)
(* at any instant loses nothing: the restart succeeds and answers with     *)
(* every write.                                                            *)
THEOREM HarmlessNeverLoses == FaultySpec => []HarmlessLosesNothing
<1>1. FInv => HarmlessLosesNothing
  <2> SUFFICES ASSUME FInv, faults \subseteq Harmless PROVE Openable /\ NothingLost
    BY DEF HarmlessLosesNothing
  <2>1. faults \cap {"fallback", "open"} = {}
    BY DEF Harmless
  <2>2. /\ manifest \in Seq(FileName)
        /\ \A k \in Key : expected[k] = Answer(Found(Replay(wal), files, Reverse(manifest), k))
    BY DEF FInv, Durable
  <2>3. ToSet(manifest) \subseteq FileName /\ Names(manifest) = ToSet(manifest)
    BY <2>2 DEF ToSet, Names
  <2>4. \A f \in ToSet(manifest) : files[f] \in Table
    BY <2>1, <2>3 DEF FInv, ListedFit
  <2>5. \A f \in ToSet(manifest) : files[f] # Nil /\ files[f] # Partial
    BY <2>4, Markers
  <2>6. Existing(manifest) = manifest
    BY <2>2, <2>5, FoundAll
  <2>7. Openable
    BY <2>3, <2>5, <2>6, LineFacts DEF Openable
  <2>8. NothingLost
    BY <2>2, <2>6 DEF NothingLost, Recovered, Found, Content, Tabled
  <2>9. QED
    BY <2>7, <2>8
<1>2. QED
  BY <1>1, FaultyInvariant, PTL

-----------------------------------------------------------------------------
(* Files named by MANIFEST are not written to.                             *)

(* A step writes the file of the id last taken, or deletes an input.       *)
LEMMA FilesWritten ==
  ASSUME FInv, FNext, files' # files
  PROVE  /\ pc \notin {"down", "stopped"}
         /\ \E g \in FileName : /\ \A f \in FileName : f # g => files'[f] = files[f]
                                /\ g.id = Fresh \/ g \in ToSet(obsolete)
<1> USE Markers
<1>1. files \in [FileName -> Table \cup {Partial, Nil}] /\ counter \in Nat
  BY DEF FInv, FaultyTypeOK
<1>2. ASSUME NEW g \in FileName, NEW x, files' = [files EXCEPT ![g] = x]
      PROVE  \A f \in FileName : f # g => files'[f] = files[f]
  BY <1>1, <1>2
<1>3. CASE BeginFlush \/ BeginCompaction
  <2>1. counter \in 0 .. MaxId /\ pc \in {"flush", "compact"} /\ Fresh = counter
    BY <1>1, <1>3 DEF BeginFlush, BeginCompaction, FInv, FaultyRoom, Fresh, Taking
  <2>2. PICK g \in {DataFile(counter), CompactedFile(counter)} : files' = [files EXCEPT ![g] = Partial]
    BY <1>3 DEF BeginFlush, BeginCompaction
  <2>3. g \in FileName /\ g.id = Fresh
    BY <2>1, <2>2, NewNames
  <2>4. QED
    BY <2>1, <2>2, <2>3, <1>2
<1>4. CASE FinishFlush \/ FlushThrows
  <2>1. pc \in {"finish", "publish"} /\ pc \in Taking
    BY <1>4 DEF FinishFlush, FlushThrows, Taking
  <2>2. \E x : files' = [files EXCEPT ![In] = x]
    BY <1>4 DEF FinishFlush, FlushThrows, In
  <2>3. QED
    BY <2>1, <2>2, <1>2, BuiltFile
<1>5. CASE FFinishCompaction \/ MergeReadsShort \/ AbandonMerge
  <2>1. pc = "merge" /\ pc \in Taking
    BY <1>5 DEF FFinishCompaction, FinishCompaction, MergeReadsShort, AbandonMerge, Taking
  <2>2. \E x : files' = [files EXCEPT ![Out] = x]
    BY <1>5 DEF FFinishCompaction, FinishCompaction, MergeReadsShort, AbandonMerge, Out
  <2>3. QED
    BY <2>1, <2>2, <1>2, BuiltFile
<1>6. CASE Unlink
  <2>1. pc = "unlink" /\ obsolete \in Seq(FileName) /\ obsolete # <<>>
        /\ files' = [files EXCEPT ![Head(obsolete)] = Nil]
    BY <1>6 DEF Unlink, FInv, FaultyTypeOK
  <2>2. Head(obsolete) \in FileName /\ Head(obsolete) \in ToSet(obsolete)
    BY <2>1, TailMembers
  <2>3. QED
    BY <2>1, <2>2, <1>2
<1>7. CASE ~ (\/ BeginFlush \/ BeginCompaction \/ FinishFlush \/ FlushThrows
              \/ FFinishCompaction \/ MergeReadsShort \/ AbandonMerge \/ Unlink)
  <2>1. CASE FOpen \/ OpenThrows \/ OpenUnread \/ OpenBlind \/ FCrash \/ FFlushMemTable
             \/ FTriggerCompaction \/ \E k \in Key, c \in Written : FAppendLog(k, c)
    BY <2>1 DEF FOpen, OpenThrows, OpenUnread, OpenBlind, FCrash, FFlushMemTable,
                FTriggerCompaction, FAppendLog, Open, Crash, FlushMemTable, AppendLog,
                disk, fvars, vars
  <2>2. CASE Proceed
    BY <2>2, <1>7 DEF Proceed, Unfailing, Failing, ApplyWrite, TruncateLog, AddSSTableRefused,
                      AddSSTableStops, TruncateFails, MemTableThrows, ReaderFails, ReplaceFails,
                      RenameFails, RenameFailsAgain, UnlinkFails, AddSSTable,
                      AddSSTableReturnsFalse, SwapReaders, NotListed, Publish, Install, disk
  <2>3. QED
    BY <2>1, <2>2 DEF FNext
<1>8. QED
  BY <1>3, <1>4, <1>5, <1>6, <1>7

(* No file a restart would read is rewritten or deleted, even by an engine *)
(* that lost track of names in MANIFEST and hands out their ids again.     *)
THEOREM NamedFilesNeverChange == FaultySpec => NamedFilesImmutable
<1> DEFINE Kept == \A f \in ToSet(manifest) \cap ToSet(manifest') \cap FileName :
                     faults \cap {"fallback", "open"} = {} => files'[f] = files[f]
<1>1. FInv /\ [FNext]_fvars => [Kept]_fvars
  <2> SUFFICES ASSUME FInv, FNext, files' # files, faults \cap {"fallback", "open"} = {},
                      NEW f \in Names(manifest)
               PROVE  files'[f] = files[f]
    BY DEF Names
  <2>1. f \in FileName /\ f \notin ToSet(obsolete) /\ pc \notin {"down", "stopped"}
    BY FilesWritten DEF FInv, ListedFit, Names
  <2>2. f.id < Fresh
    BY <2>1 DEF FInv, ListedFit
  <2>3. f.id # Fresh
    <3>1. ~ (f.id < f.id)
      BY <2>1, LineFacts
    <3>2. QED
      BY <3>1, <2>2
  <2>4. QED
    BY <2>1, <2>3, FilesWritten
<1>2. QED
  BY <1>1, FaultyInvariant, PTL DEF FaultySpec, NamedFilesImmutable

-----------------------------------------------------------------------------
(* What a compaction repairs.                                              *)

(* A compaction that replaces its inputs by name leaves disk and memory in *)
(* agreement, whatever failed before it.                                   *)
THEOREM CompactionAlwaysHeals == FaultySpec => CompactionHeals
<1> DEFINE Healed == SwapReaders /\ ByName /\ faults \cap {"unread", "open", "fallback"} = {} =>
                       /\ Openable'
                       /\ \A k \in Key : Answer(Recovered(k))' = Answer(Get(k))'
<1>1. FInv /\ [FNext]_fvars => [Healed]_fvars
  <2> SUFFICES ASSUME FInv, SwapReaders, ByName, faults \cap {"unread", "open", "fallback"} = {}
               PROVE  /\ Openable'
                      /\ \A k \in Key : Answer(Recovered(k))' = Answer(Get(k))'
    OBVIOUS
  <2> USE Markers
  <2>1. /\ pc \in {"swap", "byid", "gap", "gapid"} /\ pc' = "unlink"
        /\ manifest' = UpdatedFiles /\ sstables' = <<Out>>
        /\ UNCHANGED <<wal, files, op, active, immutable>>
        /\ UpdatedFiles \in Seq(Line) /\ Directory \notin ToSet(UpdatedFiles)
    BY Installed DEF SwapReaders, Install
  <2>2. Names(UpdatedFiles) = {Out}
    BY OneName DEF SwapReaders
  <2>3. Out \in FileName /\ files[Out] \in Table
    BY <2>1, OutputFacts
  <2> DEFINE found == Existing(UpdatedFiles)
             list == Reverse(found)
  <2>4. found \in Seq(FileName) /\ ToSet(found) = {Out}
    BY <2>1, <2>2, <2>3, FoundFiles
  <2>5. Existing(manifest)' = found
    BY <2>1 DEF Existing
  <2> HIDE DEF found
  <2>6. list \in Seq(FileName) /\ ToSet(list) = {Out}
    BY <2>4, ReverseProperties
  <2>7. Openable'
    BY <2>1, <2>3, <2>4, <2>5 DEF Openable
  <2>8. Typed'
    <3>1. FInv'
      BY SwapReadersStep
    <3>2. FaultyTypeOK' /\ FaultyShape'
      BY <3>1 DEF FInv
    <3>3. QED
      BY <3>2, GetFinds, PTL
  <2>9. Memtable' = Replay(wal)
    BY <2>1 DEF FInv, LogKept, Memtable
  <2>10. <<Out>> \in Seq(FileName) /\ ToSet(<<Out>>) = {Out}
    <3>1. <<Out>> \in Seq(FileName) /\ DOMAIN <<Out>> = {1} /\ <<Out>>[1] = Out
      BY <2>3
    <3>2. QED
      BY <3>1 DEF ToSet
  <2>11. ASSUME NEW k \in Key PROVE Recovered(k)' = Get(k)'
    <3>1. Get(k)' = Found(Replay(wal), files, <<Out>>, k)
      BY <2>1, <2>8, <2>9 DEF Typed
    <3>2. Recovered(k)' = Found(Replay(wal), files, list, k)
      BY <2>1, <2>5 DEF Recovered, Found, Content, Tabled
    <3> HIDE DEF list
    <3>3. Lookup(Tabled(files, list), k) = files[Out][k]
      BY <2>6, TabledSame
    <3>4. Lookup(Tabled(files, <<Out>>), k) = files[Out][k]
      <4> DEFINE one == <<Out>>
      <4>1. one \in Seq(FileName) /\ ToSet(one) = {Out}
        BY <2>10
      <4> HIDE DEF one
      <4>2. Lookup(Tabled(files, one), k) = files[Out][k]
        BY <4>1, TabledSame
      <4>3. QED
        BY <4>2 DEF one
    <3>5. QED
      BY <3>1, <3>2, <3>3, <3>4 DEF Found
  <2>12. QED
    BY <2>7, <2>11
<1>2. QED
  BY <1>1, FaultyInvariant, PTL DEF FaultySpec, CompactionHeals
=============================================================================
