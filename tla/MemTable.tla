------------------------------ MODULE MemTable ------------------------------
(***************************************************************************)
(* MemTable: the skip list with its entries, and the size it reports, on   *)
(* which the engine decides to flush.  approx_memory_usage_ is unsigned    *)
(* and never counted anew, only moved by differences.                      *)
(*                                                                         *)
(* A value is represented by its size in bytes.                            *)
(***************************************************************************)
EXTENDS SkipList, FiniteSetsExt

CONSTANTS
  ValueSize,  \* sizes of the values a Put may carry
  Tombstone,  \* the entry of a Delete
  Absent,     \* no entry
  NodeBytes,  \* EstimateNodeMemory of an empty value
  Word        \* 2^w for a size_t of w bits

ASSUME MemTableConstants ==
  /\ ValueSize \subseteq Nat
  /\ Tombstone \notin Nat
  /\ Absent \notin Nat
  /\ Tombstone # Absent
  /\ NodeBytes \in Nat
  /\ Word \in Nat \ {0}

VARIABLES
  entry,      \* the entry of each key
  usage,      \* approx_memory_usage_
  count       \* num_entries_

memTableVars == <<skipListVars, entry, usage, count>>

Written == ValueSize \cup {Tombstone}

(* The size of the value an entry holds: a tombstone's is empty.           *)
Size(e) == IF e = Tombstone THEN 0 ELSE e

EstimateNodeMemory(e) == NodeBytes + Size(e)

Plus(n) == usage' = (usage + n) % Word
Minus(n) == usage' = (usage + Word - n) % Word

(* Mutant of Account: a Delete keeps the size of the value it replaces.    *)
AccountDeleteFree(key, e) ==
  IF Find(key)
    THEN /\ IF e = Tombstone THEN usage' = usage
            ELSE IF e >= Size(entry[key]) THEN Plus(e - Size(entry[key]))
            ELSE Minus(Size(entry[key]) - e)
         /\ UNCHANGED count
    ELSE /\ Plus(EstimateNodeMemory(e))
         /\ count' = count + 1

(* The accounting of Put, Delete and RecoverFromWAL, before the insert.    *)
Account(key, e) ==
  IF Find(key)
    THEN /\ IF Size(e) >= Size(entry[key]) THEN Plus(Size(e) - Size(entry[key]))
                                           ELSE Minus(Size(entry[key]) - Size(e))
         /\ UNCHANGED count
    ELSE /\ Plus(EstimateNodeMemory(e))
         /\ count' = count + 1

(* Put and Delete, and each entry of RecoverFromWAL, up to the first store *)
(* that an iterator could see.  An entry that is there is replaced.        *)
Write(key, e) ==
  /\ writer = "idle"
  /\ Account(key, e)
  /\ entry' = [entry EXCEPT ![key] = e]
  /\ \/ Find(key) /\ UNCHANGED skipListVars
     \/ \E h \in 1 .. MaxHeight : StartInsert(key, h)

(* A fresh memtable after a flush.                                         *)
Clear ==
  /\ writer = "idle"
  /\ reader = "out"
  /\ forward' = EmptyList
  /\ maxHeight' = 1
  /\ entry' = [k \in Key |-> Absent]
  /\ usage' = 0
  /\ count' = 0
  /\ UNCHANGED <<inserting, reading>>

Empty == forward[0][HeadNode] = Nil

InitMemTable ==
  /\ InitSkipList
  /\ entry = [k \in Key |-> Absent]
  /\ usage = 0
  /\ count = 0

-----------------------------------------------------------------------------
(* Properties.                                                             *)

MemTableTypeOK ==
  /\ SkipListTypeOK
  /\ entry \in [Key -> Written \cup {Absent}]
  /\ usage \in 0 .. Word - 1
  /\ count \in Nat

Stored == {k \in Key : entry[k] # Absent}

(* The counters say what the list holds: differences never add up to       *)
(* something else, and never pass below zero, which would wrap the size    *)
(* around and flush on every Put.  They are right after replay as well.    *)
CountersExact ==
  /\ usage = MapThenSumSet(LAMBDA k : EstimateNodeMemory(entry[k]), Stored)
  /\ count = Cardinality(Stored)
  /\ writer = "idle" => Linked(0) = Stored
=============================================================================
