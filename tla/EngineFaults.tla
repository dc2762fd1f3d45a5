---------------------------- MODULE EngineFaults ----------------------------
(***************************************************************************)
(* The engine of Engine when its file operations fail.                     *)
(*                                                                         *)
(* A step may throw, return false or do half of its work; the code then    *)
(* goes on, gives up or leaves the operation by an exception, and the      *)
(* process keeps running with what is left.  MaxFaults bounds how many     *)
(* failures, of the same or of different kinds, meet in one behaviour.     *)
(*                                                                         *)
(* MANIFEST is now a sequence of lines, which need not be names of files,  *)
(* next to the copy Manifest keeps in memory.  A Put on an engine without  *)
(* a memtable dereferences a null pointer; what happens then is the action *)
(* Crash.                                                                  *)
(***************************************************************************)
EXTENDS Engine

CONSTANTS
  Junk,       \* a MANIFEST line that is an initial part of a name
  Directory,  \* such a line that is the name of the database directory
  Kinds,      \* the kinds of failure that may happen
  MaxFaults   \* bound: how many failures in one behaviour

(* Keys are numbers, because a table read in part has its smallest keys.   *)
ASSUME FaultConstants ==
  /\ Key \subseteq Nat
  /\ MaxFaults \in Nat
  /\ Kinds \subseteq {"unread", "open", "flush", "append", "truncate", "memtable", "merge",
                      "read", "replace", "rename", "reader", "unlink"}

VARIABLES
  unterminated, \* the last line of MANIFEST has no newline
  listed,       \* Manifest::sstable_files_
  faults,       \* history: the kinds of failure so far, with the two marks
                \* "order" and "fallback", which are no failures of a file
  failures,     \* history: how many failures so far
  expected      \* history: what the last restart answered, and every write since

fvars == <<vars, unterminated, listed, failures, faults, expected>>

Fault(kind) ==
  /\ kind \in Kinds
  /\ failures < MaxFaults
  /\ failures' = failures + 1
  /\ faults' = faults \cup {kind}

Out == CompactedFile(counter - 1)    \* new_sstable_path of a running compaction
In == DataFile(counter - 1)          \* sstable_path of a running flush

-----------------------------------------------------------------------------
(* Lines of MANIFEST.  A name appended to an unterminated line makes one   *)
(* line of both; it names no file, but Manifest::ExtractFileId finds the   *)
(* id of the second in it.  "compacted" is the name the replacement by id  *)
(* makes up, and no file has.                                              *)

Merged(id) == [prefix |-> "merged", id |-> id]
Phantom(id) == [prefix |-> "compacted", id |-> id]
Named == FileName \cup {Merged(i) : i \in 0 .. MaxId} \cup {Phantom(i) : i \in 0 .. MaxId}
Line == Named \cup {Junk, Directory}

ASSUME LineConstants == Junk \notin Named /\ Directory \notin Named /\ Junk # Directory

(* The MANIFEST after text was appended to it.                             *)
Extended(text) ==
  IF ~unterminated THEN Append(manifest, text)
  ELSE Front(manifest) \o <<IF text \in FileName THEN Merged(text.id) ELSE Junk>>

(* Manifest::ExtractFileId, which does not know the prefix sstable_.       *)
ManifestId(line) ==
  IF line \in {Junk, Directory} \/ line \in {CompactedFile(i) : i \in 0 .. MaxId}
    THEN 0 ELSE line.id

(* What Get would answer after a crash at this instant and a restart that  *)
(* does not throw.                                                         *)
Recovered(k) ==
  IF Replay(wal)[k] # Absent THEN Replay(wal)[k]
  ELSE Lookup(Content(Reverse(Existing(manifest))), k)

Serving == [k \in Key |-> Answer(Get(k))]

-----------------------------------------------------------------------------
(* The constructor.  It throws where a line opens as a stream but is no    *)
(* SSTable: a file under construction, or the directory's own name.        *)

Openable ==
  /\ Directory \notin ToSet(manifest)
  /\ \A f \in ToSet(Existing(manifest)) : files[f] # Partial

FOpen ==
  /\ Openable
  /\ Open
  /\ listed' = manifest
  /\ expected' = Serving'
  /\ UNCHANGED <<unterminated, failures, faults>>

OpenThrows ==
  /\ pc = "down"
  /\ ~Openable
  /\ UNCHANGED fvars

(* The log exists but cannot be read: the memtable starts empty.           *)
OpenUnread ==
  /\ pc = "down"
  /\ Openable
  /\ wal # <<>>
  /\ Fault("unread")
  /\ sstables' = Reverse(Existing(manifest))
  /\ counter' = NextId(Existing(manifest))
  /\ active' = EmptyTable
  /\ listed' = manifest
  /\ pc' = "idle"
  /\ UNCHANGED <<disk, op, immutable, obsolete, unterminated>>
  /\ expected' = Serving'

(* MANIFEST or one of its tables cannot be opened at this moment, and is   *)
(* taken not to exist; the ids it names may be handed out again.           *)
OpenBlind ==
  /\ pc = "down"
  /\ Fault("open")
  /\ \/ /\ manifest # <<>>
        /\ listed' = <<>>
        /\ sstables' = <<>>
        /\ counter' = 0
     \/ \E missed \in ToSet(Existing(manifest)) :
          LET found == Select(Existing(manifest), FileName \ {missed})
          IN  /\ Directory \notin ToSet(manifest)
              /\ \A f \in ToSet(found) : files[f] # Partial
              /\ listed' = manifest
              /\ sstables' = Reverse(found)
              /\ counter' = NextId(found)
  /\ active' = Replay(wal)
  /\ pc' = "idle"
  /\ UNCHANGED <<disk, op, immutable, obsolete, unterminated>>
  /\ expected' = Serving'

FCrash ==
  /\ Crash
  /\ listed' = <<>>
  /\ UNCHANGED <<unterminated, failures, faults, expected>>

-----------------------------------------------------------------------------
(* Writes and the flush.                                                   *)

FAppendLog(k, c) ==
  /\ active # Nil
  /\ AppendLog(k, c)
  /\ expected' = [expected EXCEPT ![k] = Answer(c)]
  /\ UNCHANGED <<unterminated, listed, failures, faults>>

FFlushMemTable ==
  /\ active # Nil
  /\ FlushMemTable
  /\ UNCHANGED <<unterminated, listed, failures, faults, expected>>

(* Mutants of FlushThrows: the exception also drops the memtable, or       *)
(* empties the log.                                                        *)
FlushThrowsClean ==
  /\ pc \in {"finish", "publish"}
  /\ Fault("flush")
  /\ files' = IF pc = "finish" THEN [files EXCEPT ![In] = Nil] ELSE files
  /\ pc' = "idle"
  /\ immutable' = Nil
  /\ UNCHANGED <<wal, manifest, op, active, sstables, counter, obsolete,
                 unterminated, listed, expected>>

FlushThrowsTruncating ==
  /\ pc \in {"finish", "publish"}
  /\ Fault("flush")
  /\ files' = IF pc = "finish" THEN [files EXCEPT ![In] = Nil] ELSE files
  /\ wal' = <<>>
  /\ pc' = "idle"
  /\ UNCHANGED <<manifest, memory, unterminated, listed, expected>>

(* Finish returns false, and the builder removes its file, or the finished *)
(* table cannot be opened and stays where it is.  Either way the exception *)
(* leaves no active memtable behind; the immutable one stays readable.     *)
FlushThrows ==
  /\ pc \in {"finish", "publish"}
  /\ Fault("flush")
  /\ files' = IF pc = "finish" THEN [files EXCEPT ![In] = Nil] ELSE files
  /\ pc' = "idle"
  /\ UNCHANGED <<wal, manifest, memory, unterminated, listed, expected>>

(* The new reader goes to the front whatever AddSSTable returns.           *)
Publish ==
  /\ sstables' = <<In>> \o sstables
  /\ pc' = "truncate"
  /\ UNCHANGED <<wal, files, op, active, immutable, counter, obsolete, expected>>

(* Mutant of AddSSTable: the copy in memory is not updated.                *)
AddSSTableOnDisk ==
  /\ pc = "publish"
  /\ Publish
  /\ manifest' = Extended(In)
  /\ unterminated' = FALSE
  /\ UNCHANGED <<listed, failures, faults>>

AddSSTable ==
  /\ pc = "publish"
  /\ Publish
  /\ manifest' = Extended(In)
  /\ unterminated' = FALSE
  /\ listed' = Append(listed, In)
  /\ UNCHANGED <<failures, faults>>

(* MANIFEST cannot be opened: nothing is written, false is returned and    *)
(* not looked at.                                                          *)
AddSSTableRefused ==
  /\ pc = "publish"
  /\ Fault("append")
  /\ Publish
  /\ UNCHANGED <<manifest, unterminated, listed>>

(* The append stops within the line.  From there the process dies (Crash)  *)
(* or goes on with the result false.                                       *)
AddSSTableStops ==
  /\ pc = "publish"
  /\ Fault("append")
  /\ \E text \in {In, Junk, Directory} : manifest' = Extended(text)
  /\ unterminated' = TRUE
  /\ pc' = "stopped"
  /\ UNCHANGED <<wal, files, memory, listed, expected>>

AddSSTableReturnsFalse ==
  /\ pc = "stopped"
  /\ Publish
  /\ UNCHANGED <<manifest, unterminated, listed, failures, faults>>

(* The log stays as it is; the fresh memtable replays it.                  *)
TruncateFails ==
  /\ pc = "truncate"
  /\ Fault("truncate")
  /\ immutable' = Nil
  /\ active' = Replay(wal)
  /\ pc' = IF Len(sstables) >= Threshold THEN "compact" ELSE "idle"
  /\ UNCHANGED <<disk, op, sstables, counter, obsolete, unterminated, listed, expected>>

(* The log is emptied but the constructor of the fresh memtable throws.    *)
MemTableThrows ==
  /\ pc = "truncate"
  /\ Fault("memtable")
  /\ immutable' = Nil
  /\ wal' = <<>>
  /\ pc' = "idle"
  /\ UNCHANGED <<manifest, files, op, active, sstables, counter, obsolete,
                 unterminated, listed, expected>>

-----------------------------------------------------------------------------
(* Compaction.                                                             *)

(* An input cannot be opened, which throws, or the output cannot be        *)
(* written, which returns false and removes it.                            *)
AbandonMerge ==
  /\ pc \in {"compact", "merge"}
  /\ Fault("merge")
  /\ files' = IF pc = "merge" THEN [files EXCEPT ![Out] = Nil] ELSE files
  /\ pc' = "idle"
  /\ UNCHANGED <<wal, manifest, memory, unterminated, listed, expected>>

(* It takes one id, so the bound on ids is not that of Engine.             *)
FTriggerCompaction ==
  /\ pc = "idle"
  /\ counter <= MaxId
  /\ Len(sstables) >= Threshold
  /\ pc' = "compact"
  /\ UNCHANGED <<disk, memory, unterminated, listed, failures, faults, expected>>

(* The generations do not fall along the list: finding 1, or ids that came  *)
(* out of order with a start that did not find all tables.                 *)
Misordered(inputs) ==
  \E i, j \in DOMAIN inputs : i < j /\ inputs[i].generation <= inputs[j].generation

FFinishCompaction ==
  /\ FinishCompaction
  /\ faults' = IF Misordered(Inputs(sstables)) THEN faults \cup {"order"} ELSE faults
  /\ UNCHANGED <<unterminated, listed, failures, expected>>

(* A read error makes an SSTableIterator invalid, which the merge takes    *)
(* for the end of that table.                                              *)
UpTo(table, cut) == [k \in Key |-> IF k < cut THEN table[k] ELSE Absent]

MergeReadsShort ==
  /\ pc = "merge"
  /\ Fault("read")
  /\ \E i \in DOMAIN sstables, cut \in Key :
       \E t \in CompactOutcomes([Inputs(sstables) EXCEPT ![i].table = UpTo(@, cut)]) :
         files' = [files EXCEPT ![Out] = t]
  /\ pc' = "swap"
  /\ UNCHANGED <<wal, manifest, memory, unterminated, listed, expected>>

-----------------------------------------------------------------------------
(* ReplaceSSTables by name (pc "swap") and then, if that returns false, by *)
(* file id (pc "byid").  The lists are computed from the copy in memory.   *)
(* Where the rename failed and MANIFEST was removed for the second attempt *)
(* pc is "gap" or "gapid".                                                 *)

ByName == pc \in {"swap", "gap"}

Ids == {Generation(sstables, i) : i \in DOMAIN sstables}

Replaced ==
  IF ByName THEN ToSet(sstables)
            ELSE {line \in ToSet(listed) : ManifestId(line) \in Ids}

Validated ==
  IF ByName THEN ToSet(sstables) \subseteq ToSet(listed)
            ELSE Ids \subseteq {ManifestId(line) : line \in ToSet(listed)}

UpdatedFiles ==
  ReplaceSSTables(listed, Replaced, IF ByName THEN Out ELSE Phantom(Out.id))

Swapping ==
  \/ pc \in {"swap", "byid"} /\ Validated
  \/ pc \in {"gap", "gapid"}

(* Mutant of Install: the result of the second rename is not looked at.    *)
InstallUnchecked ==
  /\ Swapping
  /\ manifest' = IF pc = "gap" THEN manifest ELSE UpdatedFiles
  /\ listed' = UpdatedFiles
  /\ unterminated' = FALSE
  /\ UNCHANGED <<wal, files, op, active, immutable, counter, expected>>

Install ==
  /\ Swapping
  /\ manifest' = UpdatedFiles
  /\ listed' = UpdatedFiles
  /\ unterminated' = FALSE
  /\ UNCHANGED <<wal, files, op, active, immutable, counter, expected>>

Marked == IF ByName THEN faults ELSE faults \cup {"fallback"}

SwapReaders ==
  /\ Install
  /\ faults' = Marked
  /\ UNCHANGED failures
  /\ sstables' = <<Out>>
  /\ obsolete' = sstables
  /\ pc' = "unlink"

(* The new table cannot be opened: false, with the old readers in place.   *)
ReaderFails ==
  /\ Install
  /\ "reader" \in Kinds
  /\ failures < MaxFaults
  /\ failures' = failures + 1
  /\ faults' = Marked \cup {"reader"}
  /\ pc' = "idle"
  /\ UNCHANGED <<sstables, obsolete>>

(* Mutants of GiveUp: the inputs are deleted all the same; the attempt is  *)
(* repeated for ever.                                                      *)
GiveUpDeleting ==
  /\ pc' = IF ByName THEN "byid" ELSE "unlink"
  /\ obsolete' = IF ByName THEN obsolete ELSE sstables
  /\ UNCHANGED <<op, active, immutable, sstables, counter>>

GiveUpNever ==
  /\ pc' = "swap"
  /\ UNCHANGED memory

(* After the attempt by name the one by id, after that return false.       *)
GiveUp ==
  /\ pc' = IF ByName THEN "byid" ELSE "idle"
  /\ UNCHANGED memory

(* An input is not listed.                                                 *)
NotListed ==
  /\ pc \in {"swap", "byid"}
  /\ ~Validated
  /\ GiveUp
  /\ UNCHANGED <<disk, unterminated, listed, failures, faults, expected>>

(* The temporary file cannot be written.                                   *)
ReplaceFails ==
  /\ pc \in {"swap", "byid"}
  /\ Validated
  /\ Fault("replace")
  /\ GiveUp
  /\ UNCHANGED <<disk, unterminated, listed, expected>>

RenameFails ==
  /\ pc \in {"swap", "byid"}
  /\ Validated
  /\ Fault("rename")
  /\ manifest' = <<>>
  /\ unterminated' = FALSE
  /\ pc' = IF ByName THEN "gap" ELSE "gapid"
  /\ UNCHANGED <<wal, files, memory, listed, expected>>

RenameFailsAgain ==
  /\ pc \in {"gap", "gapid"}
  /\ Fault("rename")
  /\ GiveUp
  /\ UNCHANGED <<disk, unterminated, listed, expected>>

(* Mutant of UnlinkFails: it does not see that this was the last input.    *)
UnlinkFailsOnward ==
  /\ pc = "unlink"
  /\ Fault("unlink")
  /\ obsolete' = Tail(obsolete)
  /\ UNCHANGED <<disk, pc, op, active, immutable, sstables, counter,
                 unterminated, listed, expected>>

UnlinkFails ==
  /\ pc = "unlink"
  /\ Fault("unlink")
  /\ obsolete' = Tail(obsolete)
  /\ pc' = IF Len(obsolete) = 1 THEN "idle" ELSE "unlink"
  /\ UNCHANGED <<disk, op, active, immutable, sstables, counter,
                 unterminated, listed, expected>>

-----------------------------------------------------------------------------
FInit ==
  /\ Init
  /\ unterminated = FALSE
  /\ listed = <<>>
  /\ failures = 0
  /\ faults = {}
  /\ expected = [k \in Key |-> Answer(Recovered(k))]

Unfailing ==
  /\ \/ ApplyWrite
     \/ BeginFlush
     \/ FinishFlush
     \/ TruncateLog
     \/ BeginCompaction
     \/ Unlink
  /\ UNCHANGED <<unterminated, listed, failures, faults, expected>>

Failing ==
  \/ FlushThrows
  \/ AddSSTableRefused
  \/ AddSSTableStops
  \/ TruncateFails
  \/ MemTableThrows
  \/ AbandonMerge
  \/ MergeReadsShort
  \/ ReaderFails
  \/ ReplaceFails
  \/ RenameFails
  \/ RenameFailsAgain
  \/ UnlinkFails

(* The steps of the operation that holds the mutex.                        *)
Proceed ==
  \/ Unfailing
  \/ Failing
  \/ AddSSTable
  \/ AddSSTableReturnsFalse
  \/ FFinishCompaction
  \/ SwapReaders
  \/ NotListed

FNext ==
  \/ FOpen
  \/ OpenThrows
  \/ OpenUnread
  \/ OpenBlind
  \/ FCrash
  \/ \E k \in Key, c \in Written : FAppendLog(k, c)
  \/ FFlushMemTable
  \/ FTriggerCompaction
  \/ Proceed

(* Fairness: the thread inside an operation runs on; no call waits.        *)
FaultySpec == FInit /\ [][FNext]_fvars /\ WF_fvars(Proceed)

-----------------------------------------------------------------------------
(* Properties.                                                             *)

(* Types; an operation past its first step has something to work on.       *)
FaultyTypeOK ==
  /\ wal \in Seq(LogEntry)
  /\ manifest \in Seq(Line)
  /\ unterminated \in BOOLEAN
  /\ unterminated => manifest # <<>>
  /\ files \in [FileName -> Table \cup {Partial, Nil}]
  /\ pc \in {"down", "idle", "apply", "flush", "finish", "publish", "stopped",
             "truncate", "compact", "merge", "swap", "byid", "gap", "gapid", "unlink"}
  /\ op \in LogEntry \cup {Nil}
  /\ active \in Table \cup {Nil}
  /\ pc \in {"apply", "flush"} => active # Nil
  /\ immutable \in Table \cup {Nil}
  /\ pc \in {"finish", "publish", "stopped", "truncate"} => immutable # Nil
  /\ sstables \in Seq(FileName)
  /\ listed \in Seq(Line)
  /\ counter \in Nat
  /\ obsolete \in Seq(FileName)
  /\ pc = "unlink" => obsolete # <<>>
  /\ faults \subseteq Kinds \cup {"order", "fallback"}
  /\ expected \in [Key -> Value \cup {Absent}]

(* docs/architecture.md promises that a write is durable once confirmed:   *)
(* after a crash at any instant a restart answers with every write since   *)
(* the last one.                                                           *)
NothingLost == Openable => \A k \in Key : Answer(Recovered(k)) = expected[k]

(* The failures that cost nothing, in any combination and however often:   *)
(* a flush or a merge that gives up, a log that is not emptied, a missing  *)
(* memtable, a MANIFEST that is not replaced, a reader that does not open, *)
(* an input that is not deleted.  After them a restart succeeds and        *)
(* answers with every write, unless a second attempt, by id, succeeded, or *)
(* a merge met tables whose generations are not in the order of the list.  *)
Harmless == {"flush", "truncate", "memtable", "merge", "replace", "reader", "unlink"}

HarmlessLosesNothing == faults \subseteq Harmless => Openable /\ NothingLost

(* While the process lives no failure to write shows in any answer, not    *)
(* even those that lose data at the next restart.  What does change an     *)
(* answer is a short read during a merge, a merge of tables whose          *)
(* generations are not in the order of the list, or a log that could not   *)
(* be read and then is not emptied: its old entries return with the next   *)
(* memtable.                                                               *)
ServesEveryWrite ==
  pc = "idle" /\ faults \cap {"read", "order"} = {} /\ ~({"unread", "truncate"} \subseteq faults)
    => Serving = expected

(* A compaction finds its inputs listed unless an append was refused or    *)
(* a new reader did not open, so nothing else leads to the second attempt, *)
(* by file id.                                                             *)
CompactionFindsInputs ==
  pc # "down" /\ faults \cap {"append", "reader", "fallback"} = {} =>
    ToSet(sstables) \subseteq ToSet(listed)

(* No file a restart would read is rewritten or deleted, even by an engine *)
(* that has lost track of some names, and reuses their ids: only the       *)
(* replacement by id deletes files that stay listed, and only an engine    *)
(* that did not find a file when it started writes over it.                *)
NamedFilesImmutable ==
  [][\A f \in ToSet(manifest) \cap ToSet(manifest') \cap FileName :
       faults \cap {"fallback", "open"} = {} => files'[f] = files[f]]_fvars

(* A compaction that replaces its inputs by name leaves disk and memory in *)
(* agreement, whatever failed before it: a memtable that could not be      *)
(* flushed, a log that was not emptied, a MANIFEST that was removed for    *)
(* the second rename.  A restart then answers what the engine answers.     *)
(* Not so after a replacement by id: a name it left in MANIFEST may be     *)
(* given to a file again.                                                  *)
CompactionHeals ==
  [][SwapReaders /\ ByName /\ faults \cap {"unread", "open", "fallback"} = {} =>
       /\ Openable'
       /\ \A k \in Key : Answer(Recovered(k))' = Answer(Get(k))']_fvars

(* Whatever fails, the operation ends and lets go of the mutex.            *)
OperationsReturn == pc \notin {"idle", "down"} ~> pc \in {"idle", "down"}
=============================================================================
