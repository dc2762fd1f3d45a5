-------------------------------- MODULE WAL --------------------------------
(***************************************************************************)
(* The write-ahead log and the memtable it restores, when an append can    *)
(* stop half way: the process dies in write(), the disk fills up, or fsync *)
(* fails.                                                                  *)
(*                                                                         *)
(* The log is text, one JSON line per entry, opened O_APPEND and shortened *)
(* only by a flush.  A line cut short has no newline, so whatever is       *)
(* appended next continues it; Recover sees one line and takes each field  *)
(* from its first occurrence.  A line is therefore a sequence of pieces, a *)
(* piece being an entry and how much of its text was written:              *)
(*                                                                         *)
(*   {"operation":"PUT","key":"k","value":"v","timestamp":17}<newline>     *)
(*   0 ......... 1 .. 2 ... 3 .. 4 ..... 5 .. 6 ....... 7 . 8 ..... 9      *)
(*                                                                         *)
(* Field i (operation, key, value, timestamp) is begun from 2i - 1 on and  *)
(* whole from 2i on; a timestamp is readable from its first digit.         *)
(***************************************************************************)
EXTENDS Naturals, Sequences, SequencesExt, FiniteSets

CONSTANTS
  Key,        \* keys
  TimestampKey,  \* of those, timestamp and keys that end in "timestamp: quoted,
                 \* they read as the name of the last field
  Value,      \* values a Put may carry
  Empty,      \* the value of a DELETE entry
  Garbage,    \* a string that runs from one piece into the next
  Absent,     \* no entry for the key
  Nil,        \* no memtable: the process is down
  MaxLog,     \* bound: appends since the log was last truncated
  MaxTears    \* bound: of those, appends that stopped before the newline

ASSUME WALConstants ==
  /\ TimestampKey \subseteq Key
  /\ Garbage \notin Key /\ Garbage \notin Value /\ Empty \notin Value
  /\ MaxLog \in Nat /\ MaxTears \in Nat

VARIABLES
  log,    \* the file: every piece written since it was last emptied
  table,  \* the memtable: the last entry of each key, or Nil
  acked   \* history: where the acknowledged entries were written

vars == <<log, table, acked>>

PutEntry(k, v) == [op |-> "PUT", key |-> k, value |-> v]
DeleteEntry(k) == [op |-> "DELETE", key |-> k, value |-> Empty]
LogEntry == {PutEntry(k, v) : k \in Key, v \in Value} \cup {DeleteEntry(k) : k \in Key}

Whole == 9
Piece == [entry : LogEntry, written : 0 .. Whole]

-----------------------------------------------------------------------------
(* Recovery.                                                               *)

(* A line runs up to and including a piece with its newline.               *)
LineOf(pieces, i) == 1 + Cardinality({j \in 1 .. i - 1 : pieces[j].written = Whole})

Lines(pieces) ==
  [n \in {LineOf(pieces, i) : i \in DOMAIN pieces} |->
     LET at == {i \in DOMAIN pieces : LineOf(pieces, i) = n}
     IN  SubSeq(pieces, Min(at), Max(at))]

(* ParseStringField: a field is found in the first piece that names it.    *)
(* If the text stops within it, the string ends at a quote of a later      *)
(* piece.                                                                  *)
StringField(line, i) ==
  LET first == line[Min({p \in DOMAIN line : line[p].written >= 2 * i - 1})]
      strings == <<first.entry.op, first.entry.key, first.entry.value>>
  IN  IF first.written >= 2 * i THEN strings[i] ELSE Garbage

(* ParseIntegerField: the name searched for is also found in a key, and    *)
(* what follows the next colon there is no number.  A readable timestamp   *)
(* means that the line names every field before it.                        *)
Parses(line) ==
  LET named == {p \in DOMAIN line :
                  \/ line[p].written >= 7
                  \/ line[p].entry.key \in TimestampKey /\ line[p].written >= 4}
  IN  /\ named # {}
      /\ line[Min(named)].written >= 8
      /\ line[Min(named)].entry.key \notin TimestampKey

ParseLogEntry(line) == [op    |-> StringField(line, 1),
                        key   |-> StringField(line, 2),
                        value |-> StringField(line, 3)]

Entries(lines, end) == [n \in 1 .. end |-> ParseLogEntry(lines[n])]

Unreadable(lines) == {n \in DOMAIN lines : ~ Parses(lines[n])}

(* Mutant of Readable: recovery gives up as a whole on an unreadable line. *)
ReadableOrNothing(lines) ==
  Entries(lines, IF Unreadable(lines) = {} THEN Len(lines) ELSE 0)

(* WAL::Recover: the entries up to the first line that does not parse.     *)
Readable(lines) ==
  Entries(lines, IF Unreadable(lines) = {} THEN Len(lines) ELSE Min(Unreadable(lines)) - 1)

Recover(pieces) == Readable(Lines(pieces))

(* Mutants of Replay: an unknown operation is taken for a PUT; the first   *)
(* entry of a key stays.                                                   *)
ReplayUnknown(entries) ==
  [k \in Key \cup {Garbage} |->
     LET at == {n \in DOMAIN entries : entries[n].key = k}
     IN  IF at = {} THEN Absent ELSE entries[Max(at)]]

ReplayFirst(entries) ==
  [k \in Key \cup {Garbage} |->
     LET at == {n \in DOMAIN entries :
                  entries[n].key = k /\ entries[n].op \in {"PUT", "DELETE"}}
     IN  IF at = {} THEN Absent ELSE entries[Min(at)]]

(* MemTable::RecoverFromWAL: an unknown operation is passed over.  The key *)
(* of a line of several pieces may be one nobody wrote.                    *)
Replay(entries) ==
  [k \in Key \cup {Garbage} |->
     LET at == {n \in DOMAIN entries :
                  entries[n].key = k /\ entries[n].op \in {"PUT", "DELETE"}}
     IN  IF at = {} THEN Absent ELSE entries[Max(at)]]

(* The constructor: the file is opened as it is, and read.                 *)
Open ==
  /\ table = Nil
  /\ table' = Replay(Recover(log))
  /\ UNCHANGED <<log, acked>>

-----------------------------------------------------------------------------
(* MemTable::Put and Delete.                                               *)

Torn == {i \in DOMAIN log : log[i].written # Whole}

(* Every line is the whole text of one entry that can be read back.        *)
Sound == Torn = {} /\ \A i \in DOMAIN log : log[i].entry.key \notin TimestampKey

(* Mutant of Write: the file is opened without O_APPEND, at its start.     *)
WriteFromStart(e, n) ==
  /\ Len(log) < MaxLog
  /\ n # Whole => Cardinality(Torn) < MaxTears
  /\ log' = <<[entry |-> e, written |-> n]>>

(* WAL::Append, as far as write() gets: n is how much of e is written.     *)
Write(e, n) ==
  /\ Len(log) < MaxLog
  /\ n # Whole => Cardinality(Torn) < MaxTears
  /\ log' = Append(log, [entry |-> e, written |-> n])

(* The entry is written, synced, inserted and acknowledged.                *)
Apply(e) ==
  /\ table # Nil
  /\ Write(e, Whole)
  /\ table' = [table EXCEPT ![e.key] = e]
  /\ acked' = acked \cup {[entry |-> e, at |-> Len(log'), sound |-> Sound']}

(* write() or fsync() fails: false is returned, what was written remains.  *)
Refuse(e, n) ==
  /\ table # Nil
  /\ Write(e, n)
  /\ UNCHANGED <<table, acked>>

(* The process dies during the append, or between two operations.          *)
CrashInAppend(e, n) ==
  /\ table # Nil
  /\ Write(e, n)
  /\ table' = Nil
  /\ UNCHANGED acked

Crash ==
  /\ table # Nil
  /\ table' = Nil
  /\ UNCHANGED <<log, acked>>

(* A flush: the entries are in an SSTable, the file is emptied.            *)
Truncate ==
  /\ table # Nil
  /\ log' = <<>>
  /\ table' = Replay(<<>>)
  /\ acked' = {}

-----------------------------------------------------------------------------
Init ==
  /\ log = <<>>
  /\ table = Nil
  /\ acked = {}

Next ==
  \/ Open
  \/ \E e \in LogEntry : Apply(e)
  \/ \E e \in LogEntry, n \in 0 .. Whole : Refuse(e, n) \/ CrashInAppend(e, n)
  \/ Crash
  \/ Truncate

Spec == Init /\ [][Next]_vars

-----------------------------------------------------------------------------
(* Properties.                                                             *)

TypeOK ==
  /\ log \in Seq(Piece)
  /\ table # Nil => /\ DOMAIN table = Key \cup {Garbage}
                    /\ \A k \in DOMAIN table :
                         table[k] \in [op : {"PUT", "DELETE"}, key : {k},
                                       value : Value \cup {Empty, Garbage}] \cup {Absent}
  /\ acked \subseteq [entry : LogEntry, at : 1 .. MaxLog, sound : BOOLEAN]

(* Whatever is torn later, on whichever write and however often, an entry  *)
(* acknowledged before the first tear is recovered, at its place: this is  *)
(* what the comment in WAL::Recover says of "all preceding valid entries". *)
PrecedingPreserved ==
  LET entries == Recover(log)
  IN  \A a \in acked : a.sound => /\ a.at \in DOMAIN entries
                                  /\ entries[a.at] = a.entry

(* No append, whole or torn, takes away an entry that a restart before it  *)
(* would have recovered: damage only ever falls on what is appended later. *)
AppendKeepsRecovered ==
  [][~ Truncate => IsPrefix(Recover(log), Recover(log'))]_vars

(* Memory and log agree on everything acknowledged, unless the log is      *)
(* damaged: a restart brings back the last acknowledged entry of a key, or *)
(* one whose Put was refused or never answered.                            *)
LastAckSurvives ==
  Sound =>
    LET served == Replay(Recover(log))
    IN  \A a \in acked :
          \/ served[a.entry.key] = a.entry
          \/ \E i \in DOMAIN log : i > a.at /\ log[i].entry = served[a.entry.key]

(* Every acknowledged write is durable: a restart recovers its entry.      *)
AckedSurvive ==
  LET entries == Recover(log)
  IN  \A a \in acked : \E n \in DOMAIN entries : entries[n] = a.entry
=============================================================================
