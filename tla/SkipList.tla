------------------------------ MODULE SkipList ------------------------------
(***************************************************************************)
(* The skip list of a memtable: one writer that links nodes pointer by     *)
(* pointer, and one iterator that follows the pointers without a lock.     *)
(*                                                                         *)
(* The writer holds MemTable::mutex_, so its own reads are of a list that  *)
(* does not change and are not steps of their own.  Its stores are.  The   *)
(* iterator (MemTable::Iterator inside a DBIterator) takes no lock: each   *)
(* pointer it loads is a step.  In C++ this is a data race; the model is   *)
(* the program as built for x86-64, where each pointer is loaded and       *)
(* stored whole and in the order of the source.  The strings of an entry   *)
(* that is replaced in place are not among these pointers and are left     *)
(* out: a reader that meets one being replaced has no defined result.      *)
(*                                                                         *)
(* There is at most one node per key, so a key stands for its node.        *)
(***************************************************************************)
EXTENDS Naturals, FiniteSets

CONSTANTS
  Key,        \* keys, as numbers above HeadNode
  HeadNode,   \* head_
  Nil,        \* the null pointer
  MaxHeight   \* kMaxHeight

ASSUME SkipListConstants ==
  /\ MaxHeight \in Nat \ {0}
  /\ HeadNode \in Nat
  /\ Key \subseteq {k \in Nat : k > HeadNode}
  /\ IsFiniteSet(Key)
  /\ Nil \notin Nat

VARIABLES
  forward,    \* forward[level][node]: the pointers
  maxHeight,  \* max_height_
  \* Insert
  writer,     \* its next step: "idle", "raise", "point" or "link"
  node,       \* x, the node being linked, or Nil
  height,     \* its height
  round,      \* i, the iteration of the linking loop
  \* the iterator
  reader,     \* "out", "descend" (inside Seek) or "at" (a node or the end)
  target,     \* the key it seeks
  cursor,     \* its node
  depth,      \* the level its search is on
  present,    \* history: the keys in the list when the seek began
  seen        \* history: the keys it has returned since

list == <<forward, maxHeight>>
inserting == <<writer, node, height, round>>
reading == <<reader, target, cursor, depth, present, seen>>
skipListVars == <<list, inserting, reading>>

Level == 0 .. MaxHeight - 1
Node == Key \cup {HeadNode}

EmptyList == [l \in Level |-> [n \in Node |-> Nil]]

-----------------------------------------------------------------------------
(* The search of FindGreaterOrEqual for key, run to its end.  Walk is the  *)
(* node at which it leaves a level, by the node at which it enters;        *)
(* Update(key)[l] is update[l], which Insert sets to head_ above           *)
(* max_height_.                                                            *)

Walk(key, l) ==
  LET Onward[n \in Node] ==
        LET next == forward[l][n]
        IN  IF next # Nil /\ next < key THEN Onward[next] ELSE n
  IN  Onward

Update(key) ==
  LET Left[l \in Level] ==
        IF l >= maxHeight THEN HeadNode
        ELSE Walk(key, l)[IF l = maxHeight - 1 THEN HeadNode ELSE Left[l + 1]]
  IN  Left

FindGreaterOrEqual(key) == forward[0][Update(key)[0]]

Find(key) == FindGreaterOrEqual(key) = key

(* The nodes linked on a level.                                            *)
Linked(l) == {k \in Key : \E n \in Node : forward[l][n] = k}

-----------------------------------------------------------------------------
(* Insert of a key that is not there, with the height RandomHeight drew.   *)
(* The new node's pointers are null; no one else can see it yet.           *)

StartInsert(key, h) ==
  /\ writer = "idle"
  /\ ~Find(key)
  /\ node' = key
  /\ height' = h
  /\ round' = 0
  /\ writer' = IF h > maxHeight THEN "raise" ELSE "point"
  /\ UNCHANGED <<list, reading>>

RaiseHeight ==
  /\ writer = "raise"
  /\ maxHeight' = height
  /\ writer' = "point"
  /\ UNCHANGED <<forward, node, height, round, reading>>

(* Mutant of LevelOf: the loop runs down from the top.                     *)
LevelOfTopDown(i) == height - 1 - i

(* The level linked in the i-th round of the loop.                         *)
LevelOf(i) == i

(* x->forward[i] = update[i]->forward[i].                                  *)
PointNode ==
  /\ writer = "point"
  /\ LET l == LevelOf(round)
     IN  forward' = [forward EXCEPT ![l][node] = forward[l][Update(node)[l]]]
  /\ writer' = "link"
  /\ UNCHANGED <<maxHeight, node, height, round, reading>>

(* update[i]->forward[i] = x.                                              *)
LinkNode ==
  /\ writer = "link"
  /\ LET l == LevelOf(round)
     IN  forward' = [forward EXCEPT ![l][Update(node)[l]] = node]
  /\ IF round + 1 < height
       THEN /\ round' = round + 1
            /\ writer' = "point"
            /\ UNCHANGED <<node, height>>
       ELSE /\ round' = 0
            /\ writer' = "idle"
            /\ node' = Nil
            /\ height' = 0
  /\ UNCHANGED <<maxHeight, reading>>

InsertStep == RaiseHeight \/ PointNode \/ LinkNode

-----------------------------------------------------------------------------
(* The iterator: Seek (SeekToFirst is a seek to a key below all), Next.    *)

Seek(key) ==
  /\ reader = "out"
  /\ reader' = "descend"
  /\ target' = key
  /\ cursor' = HeadNode
  /\ depth' = maxHeight - 1
  /\ present' = Linked(0)
  /\ seen' = {}
  /\ UNCHANGED <<list, inserting>>

(* The iterator stands at n, which is Nil at the end of the list.          *)
Arrive(n) ==
  /\ cursor' = n
  /\ reader' = "at"
  /\ depth' = 0
  /\ seen' = IF n = Nil THEN seen ELSE seen \cup {n}

(* The next node on this level is still below the target.                  *)
Below == forward[depth][cursor] # Nil /\ forward[depth][cursor] < target

(* One round of FindGreaterOrEqual's loop.                                 *)
Descend ==
  /\ reader = "descend"
  /\ \/ /\ Below
        /\ cursor' = forward[depth][cursor]
        /\ UNCHANGED <<reader, depth, seen>>
     \/ /\ ~Below
        /\ depth > 0
        /\ depth' = depth - 1
        /\ UNCHANGED <<reader, cursor, seen>>
     \/ /\ ~Below
        /\ depth = 0
        /\ Arrive(forward[0][cursor])
  /\ UNCHANGED <<target, present, list, inserting>>

Advance ==
  /\ reader = "at"
  /\ cursor # Nil
  /\ Arrive(forward[0][cursor])
  /\ UNCHANGED <<target, present, list, inserting>>

(* The caller drops the iterator.                                          *)
Leave ==
  /\ reader = "at"
  /\ reader' = "out"
  /\ target' = Nil
  /\ cursor' = Nil
  /\ depth' = 0
  /\ present' = {}
  /\ seen' = {}
  /\ UNCHANGED <<list, inserting>>

ReaderStep == Descend \/ Advance \/ Leave

-----------------------------------------------------------------------------
InitSkipList ==
  /\ forward = EmptyList
  /\ maxHeight = 1
  /\ writer = "idle"
  /\ node = Nil
  /\ height = 0
  /\ round = 0
  /\ reader = "out"
  /\ target = Nil
  /\ cursor = Nil
  /\ depth = 0
  /\ present = {}
  /\ seen = {}

-----------------------------------------------------------------------------
(* Properties.                                                             *)

SkipListTypeOK ==
  /\ forward \in [Level -> [Node -> Key \cup {Nil}]]
  /\ maxHeight \in 1 .. MaxHeight
  /\ writer \in {"idle", "raise", "point", "link"}
  /\ node \in Key \cup {Nil}
  /\ height \in 0 .. MaxHeight
  /\ round \in 0 .. MaxHeight
  /\ reader \in {"out", "descend", "at"}
  /\ target \in Key \cup {HeadNode, Nil}
  /\ cursor \in Node \cup {Nil}
  /\ depth \in Level
  /\ present \subseteq Key
  /\ seen \subseteq Key

(* Every level ascends and holds only nodes of the level below, at every   *)
(* instant of an insertion: a search that leaves a level where its next    *)
(* node is too large can go on from the same node one level down.          *)
LevelsNested ==
  \A l \in Level :
    /\ \A n \in Node : forward[l][n] # Nil => forward[l][n] > n
    /\ l > 0 => Linked(l) \subseteq Linked(l - 1)

(* A lock-free iterator misses no key that was in the list when its seek   *)
(* began, whatever is being linked around it, and returns keys in order    *)
(* from its target on.                                                     *)
SeekSkipsNothing ==
  reader = "at" =>
    /\ \A k \in present : k >= target /\ (cursor = Nil \/ k < cursor) => k \in seen
    /\ \A k \in seen : k >= target /\ (cursor = Nil \/ k <= cursor)
=============================================================================
