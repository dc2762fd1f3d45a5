-------------------------- MODULE DBIteratorProofs --------------------------
(***************************************************************************)
(* Theorems about the merged iterator over a memtable that other threads   *)
(* write to, for any keys, stores, ranges and number of writes.            *)
(***************************************************************************)
EXTENDS DBIterator, TablesProofs

-----------------------------------------------------------------------------
(* The inductive invariant.                                                *)

(* What TypeOK leaves open: the tables that the iterator has open, its     *)
(* range, and the current contents among those of its lifetime.            *)
Shape ==
  /\ ssts \in Seq(Table)
  /\ range \in [start : Key \cup {0}, end : Key \cup {0}]
  /\ pc = "drain" => candidate \in [key : Key, cell : Written]
  /\ pc # "none" => Contents(memtable) \in past

(* The heap is in use: it was filled by a seek, and not given up since.    *)
Walking == pc \in {"find", "drain"} \/ (pc = "client" /\ current # Nil)

(* Then it holds exactly the sources that stand on an entry, all of them   *)
(* from the key sought on.                                                 *)
HeapExact ==
  Walking =>
    /\ heap = {i \in Sources : position[i] # Nil}
    /\ \A i \in heap : position[i] \in Entries(TableOf(i)) /\ target <= position[i]

(* The iterator is done with k.                                            *)
Left(k) == IF pc = "drain" THEN k < candidate.key
                           ELSE \A i \in heap : k < position[i]

(* Source i stands behind k.                                               *)
Beyond(i, k) == position[i] = Nil \/ k < position[i]

(* An SSTable never changes: what its iterator left behind was popped.     *)
TablesLeft ==
  Walking =>
    \A i \in Sources \ {0} : \A k \in Entries(ssts[i]) :
      target <= k /\ Beyond(i, k) => Left(k) \/ (pc = "drain" /\ k = candidate.key)

(* The memtable may have got k after its iterator had passed; but when it  *)
(* passed, k was not there, and the SSTables alone decided.                *)
MemTableLeft ==
  Walking =>
    \A k \in Key :
      target <= k /\ Beyond(0, k) =>
        \/ Left(k) \/ (pc = "drain" /\ k = candidate.key)
        \/ \E c \in past : c[k] = Answer(Lookup(ssts, k))

(* The record popped was the database's at some moment, if the files that  *)
(* hold its key are ranked, and no source stands before it.                *)
CandidateFits ==
  pc = "drain" =>
    /\ target <= candidate.key
    /\ \A i \in heap : candidate.key <= position[i]
    /\ Ranked(candidate.key) => \E c \in past : c[candidate.key] = Answer(candidate.cell)

(* While the iterator looks for the next key, what it returned is behind   *)
(* it.                                                                     *)
ReturnedLeft == Walking => \A r \in returned : Left(r.key)

(* Between two calls every source is past the key that it stands on.       *)
CurrentLeft ==
  pc = "client" /\ current # Nil => \A i \in heap : current.key < position[i]

(* A key that keeps its value was returned, or is in hand, or is ahead of  *)
(* a source that has it.                                                   *)
SteadyKept ==
  Walking =>
    \A k \in Key : Steady(k) /\ Ranked(k) /\ target <= k =>
      \/ \E r \in returned : r.key = k
      \/ pc = "drain" /\ k = candidate.key
      \/ \E i \in heap : position[i] <= k /\ k \in Entries(TableOf(i))

(* The inductive invariant.                                                *)
IInv ==
  /\ TypeOK /\ Shape /\ HeapExact
  /\ TablesLeft /\ MemTableLeft /\ CandidateFits
  /\ ReturnedLeft /\ CurrentLeft /\ SteadyKept
  /\ ReturnsLive /\ InRange /\ NothingSkipped

-----------------------------------------------------------------------------
(* The data.                                                               *)

(* Keys are compared as numbers.                                           *)
LEMMA KeysNat == \A k \in Key : k \in Nat
BY IteratorConstants

(* A source stops at the least of the keys ahead, or nowhere.              *)
LEMMA FirstProperty ==
  ASSUME NEW keys \in SUBSET Key
  PROVE  /\ First(keys) \in Key \cup {Nil}
         /\ keys # {} => First(keys) \in keys
         /\ First(keys) # Nil => First(keys) \in keys
         /\ \A k \in keys : First(keys) # Nil /\ First(keys) <= k
<1>1. keys \in SUBSET Nat /\ Nil \notin Nat
  BY IteratorConstants
<1>2. CASE keys = {}
  BY <1>2 DEF First
<1>3. CASE keys # {}
  <2>1. Min(keys) \in keys /\ \A k \in keys : Min(keys) <= k
    BY <1>1, <1>3, MinProperty
  <2>2. QED
    BY <1>1, <1>3, <2>1 DEF First
<1>4. QED
  BY <1>2, <1>3

(* The sources are numbered, and each is a table.                          *)
LEMMA SourcesType ==
  ASSUME memtable \in Table, ssts \in Seq(Table)
  PROVE  /\ Len(ssts) \in Nat /\ DOMAIN ssts = 1 .. Len(ssts)
         /\ 0 \in Sources /\ Sources \subseteq Nat /\ Sources \ {0} = 1 .. Len(ssts)
         /\ TableOf(0) = memtable
         /\ \A i \in Sources \ {0} : TableOf(i) = ssts[i]
         /\ \A i \in Sources : TableOf(i) \in Table /\ Entries(TableOf(i)) \subseteq Key
<1>1. Len(ssts) \in Nat /\ DOMAIN ssts = 1 .. Len(ssts) /\ \A i \in 1 .. Len(ssts) : ssts[i] \in Table
  OBVIOUS
<1>2. 0 \in Sources /\ Sources \subseteq Nat /\ Sources \ {0} = 1 .. Len(ssts)
  BY <1>1 DEF Sources
<1>3. TableOf(0) = memtable /\ \A i \in Sources \ {0} : TableOf(i) = ssts[i]
  BY DEF TableOf
<1>4. \A i \in Sources : TableOf(i) \in Table
  <2> SUFFICES ASSUME NEW i \in Sources PROVE TableOf(i) \in Table
    OBVIOUS
  <2>1. CASE i = 0
    BY <2>1, <1>3
  <2>2. CASE i # 0
    <3>1. i \in Sources \ {0} /\ i \in 1 .. Len(ssts)
      BY <2>2, <1>2
    <3>2. QED
      BY <3>1, <1>1, <1>3
  <2>3. QED
    BY <2>1, <2>2
<1>5. \A i \in Sources : Entries(TableOf(i)) \subseteq Key
  BY DEF Entries
<1>6. QED
  BY <1>1, <1>2, <1>3, <1>4, <1>5

(* The memtable decides for its keys; the SSTables answer for the others.  *)
LEMMA ContentsAt ==
  ASSUME NEW m \in Table, ssts \in Seq(Table), NEW k \in Key
  PROVE  Contents(m)[k] = IF m[k] # Absent THEN Answer(m[k]) ELSE Answer(Lookup(ssts, k))
<1>1. Lookup(<<m>> \o ssts, k) = IF m[k] # Absent THEN m[k] ELSE Lookup(ssts, k)
  BY LookupPrepend
<1>2. QED
  BY <1>1 DEF Contents

(* A live key is in some source.                                           *)
LEMMA LiveHeld ==
  ASSUME memtable \in Table, ssts \in Seq(Table), NEW k \in Key,
         Contents(memtable)[k] \in Value
  PROVE  \E i \in Sources : k \in Entries(TableOf(i))
<1>1. CASE memtable[k] # Absent
  BY <1>1, SourcesType DEF Entries
<1>2. CASE memtable[k] = Absent
  <2>1. Answer(Lookup(ssts, k)) \in Value
    BY <1>2, ContentsAt
  <2>2. Lookup(ssts, k) # Absent
    BY <2>1, CellsDistinct DEF Answer
  <2>3. PICK i \in DOMAIN ssts : ssts[i][k] # Absent
    BY <2>2, LookupNone
  <2>4. i \in Sources \ {0}
    BY SourcesType
  <2>5. k \in Entries(TableOf(i))
    BY <2>3, <2>4, SourcesType DEF Entries
  <2>6. QED
    BY <2>4, <2>5
<1>3. QED
  BY <1>1, <1>2

(* A node at the top of the heap stands on the least key; no other node    *)
(* that stands there is newer.                                             *)
LEMMA TopFirst ==
  ASSUME TypeOK, Shape, NEW i \in Tops
  PROVE  /\ i \in heap
         /\ \A j \in heap : /\ position[i] <= position[j]
                            /\ position[j] = position[i] => ~ Newer(j, i)
<1>1. i \in heap /\ \A j \in heap : ~ Precedes(j, i)
  BY DEF Tops
<1>2. \A j \in heap : position[j] \in Nat
  BY KeysNat DEF TypeOK
<1>3. \A j \in heap : ~ (position[j] < position[i])
  BY <1>1 DEF Precedes
<1>4. \A j \in heap : position[i] <= position[j]
  BY <1>1, <1>2, <1>3
<1>5. QED
  BY <1>1, <1>4 DEF Precedes

(* Moving a source on: every other one stays, and what it passes is the    *)
(* key it stood on.                                                        *)
LEMMA AdvanceStep ==
  ASSUME TypeOK, Shape, heap = {j \in Sources : position[j] # Nil},
         NEW i \in heap, Advance(i)
  PROVE  /\ position' \in [Sources -> Key \cup {Nil}]
         /\ heap' = {j \in Sources : position'[j] # Nil}
         /\ \A j \in Sources : j # i => position'[j] = position[j]
         /\ position'[i] # Nil =>
              position'[i] \in Entries(TableOf(i)) /\ position[i] < position'[i]
         /\ \A k \in Entries(TableOf(i)) :
              position'[i] = Nil \/ k < position'[i] => k <= position[i]
<1> DEFINE ahead == {k \in Entries(TableOf(i)) : k > position[i]}
<1>1. i \in Sources /\ position[i] \in Key /\ position[i] \in Nat /\ Nil \notin Nat
  BY KeysNat, IteratorConstants DEF TypeOK
<1>2. ahead \in SUBSET Key
  BY DEF Entries
<1>3. position' = [position EXCEPT ![i] = First(ahead)]
      /\ heap' = IF position'[i] = Nil THEN heap \ {i} ELSE heap
  BY DEF Advance
<1>4. /\ First(ahead) \in Key \cup {Nil}
      /\ First(ahead) # Nil => First(ahead) \in ahead
      /\ \A k \in ahead : First(ahead) # Nil /\ First(ahead) <= k
  <2> HIDE DEF ahead
  <2> QED
    BY <1>2, FirstProperty
<1>5. position'[i] = First(ahead)
      /\ \A j \in Sources : j # i => position'[j] = position[j]
  BY <1>1, <1>3 DEF TypeOK
<1>6. position' \in [Sources -> Key \cup {Nil}]
  BY <1>3, <1>4 DEF TypeOK
<1>7. heap' = {j \in Sources : position'[j] # Nil}
  BY <1>1, <1>3, <1>5
<1>8. position'[i] # Nil => position'[i] \in Entries(TableOf(i)) /\ position[i] < position'[i]
  <2>1. \A k \in ahead : k \in Entries(TableOf(i)) /\ position[i] < k
    BY <1>1, <1>2, KeysNat
  <2> HIDE DEF ahead
  <2>2. QED
    BY <1>4, <1>5, <2>1
<1>9. ASSUME NEW k \in Entries(TableOf(i)), position'[i] = Nil \/ k < position'[i]
      PROVE  k <= position[i]
  <2>1. k \in Nat
    BY KeysNat DEF Entries
  <2>2. CASE k > position[i]
    <3>1. k \in ahead
      BY <2>2
    <3>2. position'[i] # Nil /\ position'[i] <= k
      BY <3>1, <1>4, <1>5
    <3>3. position'[i] \in Nat /\ k < position'[i]
      BY <3>2, <1>6, <1>1, <1>9, KeysNat
    <3>4. QED
      BY <3>2, <3>3, <2>1
  <2>3. QED
    BY <1>1, <2>1, <2>2
<1>10. QED
  BY <1>5, <1>6, <1>7, <1>8, <1>9

-----------------------------------------------------------------------------
(* The steps of FindNextAliveKey.                                          *)

(* Popping a node of the smallest key, whether as the candidate or as a    *)
(* duplicate of it, passes over no other key.                              *)
LEMMA AdvanceKeeps ==
  ASSUME IInv, NEW i \in heap, Advance(i),
         pc = "find" \/ (pc = "drain" /\ candidate.key = position[i]),
         \A j \in heap : position[i] <= position[j],
         pc' = "drain", candidate' \in [key : Key, cell : Written],
         candidate'.key = position[i],
         UNCHANGED <<store, range, current, history>>
  PROVE  /\ TypeOK' /\ Shape' /\ HeapExact' /\ TablesLeft' /\ MemTableLeft'
         /\ ReturnedLeft' /\ CurrentLeft' /\ SteadyKept'
         /\ ReturnsLive' /\ InRange' /\ NothingSkipped'
         /\ target <= position[i]
         /\ \A j \in heap' : position[i] <= position'[j]
<1> DEFINE p == position[i]
<1> USE DEF IInv
<1>1. Walking /\ Walking'
  BY DEF Walking
<1>2. heap = {j \in Sources : position[j] # Nil}
      /\ \A j \in heap : position[j] \in Entries(TableOf(j)) /\ target <= position[j]
  BY <1>1 DEF HeapExact
<1>3. memtable \in Table /\ ssts \in Seq(Table)
  BY DEF TypeOK, Shape
<1>4. /\ position' \in [Sources -> Key \cup {Nil}]
      /\ heap' = {j \in Sources : position'[j] # Nil}
      /\ \A j \in Sources : j # i => position'[j] = p \/ position'[j] = position[j]
      /\ \A j \in Sources : j # i => position'[j] = position[j]
      /\ position'[i] # Nil =>
           position'[i] \in Entries(TableOf(i)) /\ p < position'[i]
      /\ \A k \in Entries(TableOf(i)) :
           position'[i] = Nil \/ k < position'[i] => k <= p
  BY <1>2, AdvanceStep
<1>5. /\ i \in Sources /\ p \in Key /\ p \in Nat /\ target \in Nat
      /\ \A k \in Key : k \in Nat
      /\ \A j \in heap : position[j] \in Nat
      /\ \A j \in heap' : position'[j] \in Nat
  BY <1>4, KeysNat DEF TypeOK
<1>6. UNCHANGED <<memtable, freed, ssts, ids, range, current, target, returned, past>>
      /\ Sources' = Sources /\ \A j : TableOf(j)' = TableOf(j)
      /\ \A k : Ranked(k)' <=> Ranked(k)
  BY DEF store, history, Sources, TableOf, Ranked, Generation
<1>7. \A k \in Nat : (Left(k) <=> k < p) /\ (Left(k)' <=> k < p)
  <2> SUFFICES ASSUME NEW k \in Nat PROVE (Left(k) <=> k < p) /\ (Left(k)' <=> k < p)
    OBVIOUS
  <2>1. Left(k)' <=> k < p
    BY DEF Left
  <2>2. CASE pc = "find"
    <3>1. (\A j \in heap : k < position[j]) <=> k < p
      BY <1>5
    <3>2. QED
      BY <2>1, <2>2, <3>1 DEF Left
  <2>3. CASE pc = "drain" /\ candidate.key = p
    BY <2>1, <2>3 DEF Left
  <2>4. QED
    BY <2>2, <2>3
<1>8. \A k \in Nat : k <= p <=> k < p \/ k = p
  BY <1>5
<1>9. \A k \in Nat : Left(k) \/ (pc = "drain" /\ k = candidate.key) => k <= p
  BY <1>5, <1>7, <1>8
<1>10. TypeOK'
  BY <1>4, <1>6 DEF TypeOK
<1>11. Shape'
  BY <1>6 DEF Shape, Contents
<1>12. target <= p
  BY <1>2
<1>13. \A j \in heap' : p <= position'[j] /\ position'[j] \in Entries(TableOf(j))
  <2> SUFFICES ASSUME NEW j \in heap'
               PROVE  p <= position'[j] /\ position'[j] \in Entries(TableOf(j))
    OBVIOUS
  <2>1. CASE j = i
    BY <2>1, <1>4, <1>5
  <2>2. CASE j # i
    <3>1. j \in heap /\ position'[j] = position[j]
      BY <2>2, <1>2, <1>4
    <3>2. QED
      BY <3>1, <1>2
  <2>3. QED
    BY <2>1, <2>2
<1>14. HeapExact'
  <2>1. ASSUME NEW j \in heap' PROVE target <= position'[j]
    BY <1>5, <1>12, <1>13
  <2>2. QED
    BY <2>1, <1>4, <1>6, <1>13 DEF HeapExact
<1>15. TablesLeft'
  <2> SUFFICES ASSUME NEW j \in Sources \ {0}, NEW k \in Entries(ssts[j]),
                      target <= k, position'[j] = Nil \/ k < position'[j]
               PROVE  k <= p
    <3>1. \A x \in Sources \ {0} : Entries(ssts[x]) \subseteq Nat
      BY <1>5 DEF Entries
    <3>2. QED
      BY <3>1, <1>6, <1>7, <1>8 DEF TablesLeft, Beyond
  <2>1. TableOf(j) = ssts[j] /\ k \in Nat
    BY <1>3, <1>5, SourcesType DEF Entries
  <2>2. CASE j = i
    BY <2>1, <2>2, <1>4
  <2>3. CASE j # i
    <3>1. Beyond(j, k)
      BY <2>3, <1>4 DEF Beyond
    <3>2. QED
      BY <3>1, <2>1, <1>1, <1>9 DEF TablesLeft
  <2>4. QED
    BY <2>2, <2>3
<1>16. MemTableLeft'
  <2> SUFFICES ASSUME NEW k \in Key, target <= k,
                      position'[0] = Nil \/ k < position'[0], ~ (k <= p)
               PROVE  \E c \in past : c[k] = Answer(Lookup(ssts, k))
    BY <1>5, <1>6, <1>7, <1>8 DEF MemTableLeft, Beyond
  <2>1. 0 \in Sources /\ TableOf(0) = memtable
    BY <1>3, SourcesType
  <2>2. CASE i = 0
    <3>1. k \notin Entries(memtable)
      BY <2>1, <2>2, <1>4
    <3>2. Contents(memtable)[k] = Answer(Lookup(ssts, k))
      BY <3>1, <1>3, ContentsAt DEF Entries
    <3>3. Contents(memtable) \in past
      BY DEF Shape
    <3>4. QED
      BY <3>2, <3>3
  <2>3. CASE i # 0
    <3>1. Beyond(0, k)
      BY <2>1, <2>3, <1>4 DEF Beyond
    <3>2. QED
      BY <3>1, <1>1, <1>5, <1>9 DEF MemTableLeft
  <2>4. QED
    BY <2>2, <2>3
<1>17. ReturnedLeft'
  <2>1. \A r \in returned : r.key \in Nat
    BY <1>5 DEF TypeOK
  <2>2. QED
    BY <2>1, <1>1, <1>6, <1>7 DEF ReturnedLeft
<1>18. CurrentLeft' /\ NothingSkipped'
  BY DEF CurrentLeft, NothingSkipped
<1>19. SteadyKept'
  <2> SUFFICES ASSUME NEW k \in Key, Steady(k), Ranked(k), target <= k
               PROVE  \/ \E r \in returned : r.key = k
                      \/ k = p
                      \/ \E j \in heap' : position'[j] <= k /\ k \in Entries(TableOf(j))
    BY <1>6 DEF SteadyKept, Steady
  <2>1. CASE \E r \in returned : r.key = k
    BY <2>1
  <2>2. CASE pc = "drain" /\ k = candidate.key
    BY <2>2
  <2>3. ASSUME NEW j \in heap, position[j] <= k, k \in Entries(TableOf(j)), k # p
        PROVE  \E x \in heap' : position'[x] <= k /\ k \in Entries(TableOf(x))
    <3>1. CASE j = i
      <4>1. ~ (k <= p)
        BY <3>1, <2>3, <1>5
      <4>2. position'[i] # Nil /\ ~ (k < position'[i])
        BY <3>1, <4>1, <2>3, <1>4
      <4>3. i \in heap' /\ position'[i] <= k
        BY <4>2, <1>4, <1>5
      <4>4. QED
        BY <3>1, <4>3, <2>3
    <3>2. CASE j # i
      BY <3>2, <2>3, <1>2, <1>4
    <3>3. QED
      BY <3>1, <3>2
  <2>4. QED
    BY <2>1, <2>2, <2>3, <1>1 DEF SteadyKept
<1>20. ReturnsLive' /\ InRange'
  BY <1>6 DEF ReturnsLive, InRange
<1>21. QED
  BY <1>10, <1>11, <1>12, <1>13, <1>14, <1>15, <1>16, <1>17, <1>18, <1>19, <1>20

(* The record popped is of the newest source that has the key, unless the  *)
(* memtable got the key behind its iterator: then it is what the database  *)
(* held before.                                                            *)
LEMMA TopLive ==
  ASSUME IInv, pc = "find", NEW i \in Tops, Ranked(position[i])
  PROVE  LET k == position[i] IN \E c \in past : c[k] = Answer(TableOf(i)[k])
<1> DEFINE k == position[i]
<1> USE DEF IInv
<1>1. /\ i \in heap
      /\ \A j \in heap : /\ k <= position[j]
                         /\ position[j] = k => ~ Newer(j, i)
  BY TopFirst
<1>2. Walking /\ heap = {j \in Sources : position[j] # Nil}
      /\ \A j \in heap : position[j] \in Entries(TableOf(j)) /\ target <= position[j]
  BY DEF HeapExact, Walking
<1>3. memtable \in Table /\ ssts \in Seq(Table) /\ Contents(memtable) \in past
  BY DEF TypeOK, Shape
<1>4. /\ 0 \in Sources /\ Sources \subseteq Nat /\ Sources \ {0} = 1 .. Len(ssts)
      /\ Len(ssts) \in Nat /\ DOMAIN ssts = 1 .. Len(ssts) /\ TableOf(0) = memtable
      /\ \A j \in Sources \ {0} : TableOf(j) = ssts[j]
  BY <1>3, SourcesType
<1>5. k \in Key /\ k \in Nat /\ k \in Entries(TableOf(i)) /\ target <= k /\ i \in Sources
      /\ \A j \in heap : position[j] \in Nat
  BY <1>1, <1>2, KeysNat DEF TypeOK
<1>6. ~ Left(k)
  <2>1. ~ (k < position[i])
    BY <1>5
  <2>2. QED
    BY <2>1, <1>1 DEF Left
<1>7. CASE i = 0
  <2>1. memtable[k] # Absent
    BY <1>4, <1>5, <1>7 DEF Entries
  <2>2. Contents(memtable)[k] = Answer(TableOf(i)[k])
    BY <2>1, <1>3, <1>4, <1>5, <1>7, ContentsAt
  <2>3. QED
    BY <2>2, <1>3
<1>8. CASE i # 0
  <2>1. i \in 1 .. Len(ssts) /\ TableOf(i) = ssts[i] /\ ssts[i][k] # Absent
    BY <1>4, <1>5, <1>8 DEF Entries
  <2>2. ASSUME NEW j \in 1 .. Len(ssts), j < i PROVE ssts[j][k] = Absent
    <3> SUFFICES ASSUME ssts[j][k] # Absent PROVE FALSE
      OBVIOUS
    <3>1. j \in Sources \ {0} /\ k \in Entries(ssts[j])
      BY <1>4, <1>5 DEF Entries
    <3>2. ~ Beyond(j, k)
      BY <3>1, <1>2, <1>5, <1>6 DEF TablesLeft
    <3>3. j \in heap /\ ~ (k < position[j])
      BY <3>1, <3>2, <1>2 DEF Beyond
    <3>4. position[j] = k
      BY <3>3, <1>1, <1>5
    <3>5. ~ (Generation(j) > Generation(i))
      BY <3>1, <3>3, <3>4, <2>1, <1>1, <1>8 DEF Newer
    <3>6. Generation(j) > Generation(i)
      BY <2>1, <2>2, <1>4 DEF Ranked
    <3>7. QED
      BY <3>5, <3>6
  <2>3. Lookup(ssts, k) = ssts[i][k]
    BY <2>1, <2>2, <1>4, LookupFirst
  <2>4. Beyond(0, k)
    <3> SUFFICES ASSUME 0 \in heap, ~ (k < position[0]) PROVE FALSE
      BY <1>2, <1>4 DEF Beyond
    <3>1. position[0] = k
      BY <1>1, <1>5
    <3>2. QED
      BY <3>1, <1>1, <1>8 DEF Newer
  <2>5. \E c \in past : c[k] = Answer(Lookup(ssts, k))
    BY <2>4, <1>2, <1>5, <1>6 DEF MemTableLeft
  <2>6. QED
    BY <2>1, <2>3, <2>5
<1>9. QED
  BY <1>7, <1>8

(* The least source gives the candidate and moves on.                      *)
LEMMA PopCandidateStep == IInv /\ PopCandidate => IInv'
<1> SUFFICES ASSUME IInv, PopCandidate PROVE IInv'
  OBVIOUS
<1>1. PICK i \in Tops :
      /\ pc = "find" /\ pc' = "drain" /\ Advance(i)
      /\ candidate' = [key |-> position[i], cell |-> TableOf(i)[position[i]]]
      /\ UNCHANGED <<store, range, current, history>>
  BY DEF PopCandidate
<1>2. i \in heap /\ \A j \in heap : position[i] <= position[j]
  BY <1>1, TopFirst DEF IInv
<1>3. Ranked(position[i]) => \E c \in past : c[position[i]] = Answer(TableOf(i)[position[i]])
  BY <1>1, TopLive
<1>4. candidate' \in [key : Key, cell : Written] /\ candidate'.key = position[i]
      /\ candidate'.cell = TableOf(i)[position[i]]
  <2>1. memtable \in Table /\ ssts \in Seq(Table) /\ i \in Sources
    BY <1>2 DEF IInv, TypeOK, Shape
  <2>2. TableOf(i) \in Table /\ position[i] \in Entries(TableOf(i))
    BY <1>1, <1>2, <2>1, SourcesType DEF IInv, HeapExact, Walking
  <2>3. position[i] \in Key /\ TableOf(i)[position[i]] \in Written
    BY <2>2 DEF Table, Entries, Cell
  <2>4. QED
    BY <2>3, <1>1
<1>5. /\ TypeOK' /\ Shape' /\ HeapExact' /\ TablesLeft' /\ MemTableLeft'
      /\ ReturnedLeft' /\ CurrentLeft' /\ SteadyKept'
      /\ ReturnsLive' /\ InRange' /\ NothingSkipped'
      /\ target <= position[i]
      /\ \A j \in heap' : position[i] <= position'[j]
  BY <1>1, <1>2, <1>4, AdvanceKeeps
<1>6. CandidateFits'
  <2>1. UNCHANGED <<ssts, ids, target, past>> /\ \A k : Ranked(k)' <=> Ranked(k)
    BY <1>1 DEF store, history, Ranked, Generation
  <2>2. QED
    BY <2>1, <1>3, <1>4, <1>5 DEF CandidateFits
<1>7. QED
  BY <1>5, <1>6 DEF IInv

(* Another source that stands on the key of the candidate moves on.        *)
LEMMA DrainDuplicateStep == IInv /\ DrainDuplicate => IInv'
<1> SUFFICES ASSUME IInv, DrainDuplicate PROVE IInv'
  OBVIOUS
<1>1. PICK i \in Tops :
      /\ pc = "drain" /\ pc' = "drain" /\ Advance(i)
      /\ position[i] = candidate.key
      /\ UNCHANGED <<store, range, candidate, current, history>>
  BY DEF DrainDuplicate
<1>2. i \in heap /\ \A j \in heap : position[i] <= position[j]
  BY <1>1, TopFirst DEF IInv
<1>3. candidate' \in [key : Key, cell : Written] /\ candidate'.key = position[i]
  BY <1>1 DEF IInv, Shape
<1>4. /\ TypeOK' /\ Shape' /\ HeapExact' /\ TablesLeft' /\ MemTableLeft'
      /\ ReturnedLeft' /\ CurrentLeft' /\ SteadyKept'
      /\ ReturnsLive' /\ InRange' /\ NothingSkipped'
      /\ target <= position[i]
      /\ \A j \in heap' : position[i] <= position'[j]
  BY <1>1, <1>2, <1>3, AdvanceKeeps
<1>5. CandidateFits'
  <2>1. UNCHANGED <<ssts, ids, target, past>> /\ \A k : Ranked(k)' <=> Ranked(k)
    BY <1>1 DEF store, history, Ranked, Generation
  <2>2. QED
    BY <2>1, <1>1, <1>4 DEF IInv, CandidateFits
<1>6. QED
  BY <1>4, <1>5 DEF IInv

(* Once its duplicates are drained, the candidate is before every node, so *)
(* what was passed over up to it has been returned if it was there.        *)
LEMMA DrainedLeft ==
  ASSUME IInv, pc = "drain", Drained
  PROVE  /\ candidate.key \in Key /\ candidate.key \in Nat /\ candidate.cell \in Written
         /\ \A j \in heap : candidate.key < position[j] /\ position[j] \in Nat
         /\ \A k \in Key : k <= candidate.key => \A j \in heap : k < position[j]
         /\ \A k \in Key : Steady(k) /\ Ranked(k) /\ target <= k /\ k <= candidate.key =>
              k = candidate.key \/ \E r \in returned : r.key = k
<1> DEFINE p == candidate.key
<1>1. p \in Key /\ p \in Nat /\ candidate.cell \in Written
  BY KeysNat DEF IInv, Shape
<1>2. \A j \in heap : p < position[j] /\ position[j] \in Nat
  <2> SUFFICES ASSUME NEW j \in heap PROVE p < position[j] /\ position[j] \in Nat
    OBVIOUS
  <2>1. position[j] \in Nat
    BY KeysNat DEF IInv, TypeOK
  <2>2. p <= position[j] /\ position[j] # p
    BY DEF IInv, CandidateFits, Drained
  <2>3. QED
    BY <1>1, <2>1, <2>2
<1> HIDE DEF p
<1>3. ASSUME NEW k \in Key, k <= p, NEW j \in heap PROVE k < position[j]
  <2>1. k \in Nat /\ p < position[j] /\ position[j] \in Nat
    BY <1>2, KeysNat
  <2>2. QED
    BY <1>1, <1>3, <2>1
<1>4. ASSUME NEW k \in Key, Steady(k), Ranked(k), target <= k, k <= p
      PROVE  k = p \/ \E r \in returned : r.key = k
  <2>1. \A j \in heap : ~ (position[j] <= k)
    <3>1. \A j \in heap : k < position[j] /\ position[j] \in Nat /\ k \in Nat
      BY <1>2, <1>3, <1>4, KeysNat
    <3>2. QED
      BY <3>1
  <2>2. QED
    BY <2>1, <1>4 DEF IInv, SteadyKept, Walking, p
<1>5. QED
  BY <1>1, <1>2, <1>3, <1>4 DEF p

(* A live candidate in range is returned: no source has its key any more.  *)
LEMMA SettleStep == IInv /\ Settle => IInv'
<1> SUFFICES ASSUME IInv, Settle PROVE IInv'
  OBVIOUS
<1> USE DEF IInv
<1> DEFINE p == candidate.key
           here == [key |-> candidate.key, value |-> candidate.cell]
<1>1. /\ pc = "drain" /\ pc' = "client" /\ Drained /\ ~ PastEnd /\ candidate.cell \in Value
      /\ current' = here /\ returned' = returned \cup {here}
      /\ UNCHANGED <<memtable, freed, ssts, ids, range, position, heap, candidate, target, past>>
  BY DEF Settle, store
<1>2. /\ p \in Key /\ p \in Nat
      /\ \A j \in heap : p < position[j] /\ position[j] \in Nat
      /\ \A k \in Key : k <= p => \A j \in heap : k < position[j]
      /\ \A k \in Key : Steady(k) /\ Ranked(k) /\ target <= k /\ k <= p =>
           k = p \/ \E r \in returned : r.key = k
  BY <1>1, DrainedLeft
<1>3. here \in [key : Key, value : Value] /\ here # Nil
  <2>1. here \in [key : Key, value : Value]
    BY <1>1, <1>2
  <2>2. QED
    BY <2>1, IteratorConstants
<1>4. here.key = p /\ here.value = candidate.cell
  OBVIOUS
<1> HIDE DEF here
<1>5. Walking /\ Walking' /\ Sources' = Sources /\ \A j : TableOf(j)' = TableOf(j)
  BY <1>1, <1>3 DEF Walking, Sources, TableOf
<1>6. \A k \in Key : k <= p => Left(k)'
  BY <1>1, <1>2 DEF Left
<1>7. \A k \in Key : Left(k) \/ k = p => k <= p
  <2>1. \A k \in Key : k \in Nat
    BY KeysNat
  <2>2. QED
    BY <2>1, <1>1, <1>2 DEF Left
<1>8. TypeOK' /\ Shape'
  BY <1>1, <1>3, <1>5 DEF TypeOK, Shape, Contents
<1>9. HeapExact'
  BY <1>1, <1>5 DEF HeapExact
<1>10. TablesLeft'
  <2> SUFFICES ASSUME NEW i \in Sources \ {0}, NEW k \in Entries(ssts[i]),
                      target <= k, Beyond(i, k)
               PROVE  Left(k)'
    BY <1>1, <1>5 DEF TablesLeft, Beyond
  <2>1. k \in Key /\ (Left(k) \/ k = p)
    BY <1>5 DEF TablesLeft, Entries
  <2>2. QED
    BY <2>1, <1>6, <1>7
<1>11. MemTableLeft'
  <2> SUFFICES ASSUME NEW k \in Key, target <= k, Beyond(0, k),
                      ~ \E c \in past : c[k] = Answer(Lookup(ssts, k))
               PROVE  Left(k)'
    BY <1>1, <1>5 DEF MemTableLeft, Beyond
  <2>1. Left(k) \/ k = p
    BY <1>5 DEF MemTableLeft
  <2>2. QED
    BY <2>1, <1>6, <1>7
<1>12. CandidateFits' /\ CurrentLeft'
  BY <1>1, <1>2, <1>4 DEF CandidateFits, CurrentLeft
<1>13. ReturnedLeft'
  <2>1. \A r \in returned : r.key \in Key /\ r.key <= p
    BY <1>5, <1>7 DEF ReturnedLeft, TypeOK
  <2>2. \A r \in returned' : r.key \in Key /\ r.key <= p
    BY <2>1, <1>1, <1>2, <1>4
  <2>3. \A r \in returned' : \A j \in heap : r.key < position[j]
    BY <1>2, <2>2
  <2>4. QED
    BY <2>3, <1>1 DEF ReturnedLeft, Left
<1>14. SteadyKept'
  BY <1>1, <1>4, <1>5 DEF SteadyKept, Steady, Ranked, Generation
<1>15. ReturnsLive'
  <2>1. Ranked(here.key) => \E c \in past : c[here.key] = here.value
    BY <1>1, <1>4 DEF CandidateFits, Answer
  <2>2. \A k : Ranked(k)' <=> Ranked(k)
    BY <1>1 DEF Ranked, Generation
  <2>3. QED
    BY <2>1, <2>2, <1>1 DEF ReturnsLive
<1>16. InRange'
  <2>1. p >= target
    BY <1>1, <1>2 DEF CandidateFits, TypeOK
  <2>2. range.end # 0 => p <= range.end
    <3>1. range.end \in Nat
      BY KeysNat DEF Shape
    <3>2. QED
      BY <3>1, <1>1, <1>2 DEF PastEnd
  <2>3. QED
    BY <2>1, <2>2, <1>1, <1>4 DEF InRange
<1>17. NothingSkipped'
  <2> SUFFICES ASSUME NEW k \in Key, Steady(k), Ranked(k), k >= target, k <= p
               PROVE  \E r \in returned' : r.key = k
    BY <1>1, <1>3, <1>4 DEF NothingSkipped, Behind, Steady, Ranked, Generation
  <2>1. target <= k
    BY KeysNat DEF TypeOK
  <2>2. k = p \/ \E r \in returned : r.key = k
    BY <2>1, <1>2
  <2>3. QED
    BY <2>2, <1>1, <1>4
<1>18. QED
  BY <1>8, <1>9, <1>10, <1>11, <1>12, <1>13, <1>14, <1>15, <1>16, <1>17

(* A deleted key is passed over; it was not steady.                        *)
LEMMA SkipDeletedStep == IInv /\ SkipDeleted => IInv'
<1> SUFFICES ASSUME IInv, SkipDeleted PROVE IInv'
  OBVIOUS
<1> USE DEF IInv
<1> DEFINE p == candidate.key
<1>1. /\ pc = "drain" /\ pc' = "find" /\ Drained /\ candidate.cell = Tombstone
      /\ UNCHANGED <<memtable, freed, ssts, ids, range, position, heap, candidate, current,
                     target, returned, past>>
  BY DEF SkipDeleted, store, history
<1>2. /\ p \in Key /\ p \in Nat
      /\ \A j \in heap : p < position[j] /\ position[j] \in Nat
      /\ \A k \in Key : k <= p => \A j \in heap : k < position[j]
  BY <1>1, DrainedLeft
<1>3. Walking /\ Walking' /\ Sources' = Sources /\ \A j : TableOf(j)' = TableOf(j)
  BY <1>1 DEF Walking, Sources, TableOf
<1>4. \A k \in Key : k <= p => Left(k)'
  BY <1>1, <1>2 DEF Left
<1>5. \A k \in Key : Left(k) \/ k = p => k <= p
  <2>1. \A k \in Key : k \in Nat
    BY KeysNat
  <2>2. QED
    BY <2>1, <1>1, <1>2 DEF Left
<1>6. TypeOK' /\ Shape' /\ HeapExact' /\ CandidateFits' /\ CurrentLeft'
  BY <1>1, <1>3 DEF TypeOK, Shape, Contents, HeapExact, CandidateFits, CurrentLeft
<1>7. TablesLeft'
  <2> SUFFICES ASSUME NEW i \in Sources \ {0}, NEW k \in Entries(ssts[i]),
                      target <= k, Beyond(i, k)
               PROVE  Left(k)'
    BY <1>1, <1>3 DEF TablesLeft, Beyond
  <2>1. k \in Key /\ (Left(k) \/ k = p)
    BY <1>3 DEF TablesLeft, Entries
  <2>2. QED
    BY <2>1, <1>4, <1>5
<1>8. MemTableLeft'
  <2> SUFFICES ASSUME NEW k \in Key, target <= k, Beyond(0, k),
                      ~ \E c \in past : c[k] = Answer(Lookup(ssts, k))
               PROVE  Left(k)'
    BY <1>1, <1>3 DEF MemTableLeft, Beyond
  <2>1. Left(k) \/ k = p
    BY <1>3 DEF MemTableLeft
  <2>2. QED
    BY <2>1, <1>4, <1>5
<1>9. ReturnedLeft'
  <2>1. \A r \in returned : r.key \in Key /\ r.key <= p
    BY <1>3, <1>5 DEF ReturnedLeft, TypeOK
  <2>2. \A r \in returned : \A j \in heap : r.key < position[j]
    BY <1>2, <2>1
  <2>3. QED
    BY <2>2, <1>1 DEF ReturnedLeft, Left
<1>10. ~ (Steady(p) /\ Ranked(p))
  <2>1. Answer(candidate.cell) \notin Value
    BY <1>1, CellsDistinct DEF Answer
  <2>2. QED
    BY <2>1, <1>1 DEF CandidateFits, Steady
<1>11. SteadyKept'
  BY <1>1, <1>3, <1>10 DEF SteadyKept, Steady, Ranked, Generation
<1>12. ReturnsLive' /\ InRange' /\ NothingSkipped'
  BY <1>1 DEF ReturnsLive, InRange, NothingSkipped, Ranked, Generation
<1>13. QED
  BY <1>6, <1>7, <1>8, <1>9, <1>11, <1>12

(* A candidate behind the end key ends the walk: everything up to the end  *)
(* key was returned.                                                       *)
LEMMA StopAtEndStep == IInv /\ StopAtEnd => IInv'
<1> SUFFICES ASSUME IInv, StopAtEnd PROVE IInv'
  OBVIOUS
<1> USE DEF IInv
<1> DEFINE p == candidate.key
<1>1. /\ pc = "drain" /\ pc' = "client" /\ Drained /\ PastEnd /\ current' = Nil
      /\ UNCHANGED <<memtable, freed, ssts, ids, range, position, heap, candidate,
                     target, returned, past>>
  BY DEF StopAtEnd, Stop, store, history
<1>2. /\ p \in Nat
      /\ \A k \in Key : Steady(k) /\ Ranked(k) /\ target <= k /\ k <= p =>
           k = p \/ \E r \in returned : r.key = k
  BY <1>1, DrainedLeft
<1>3. ~ Walking'
  BY <1>1 DEF Walking
<1>4. Sources' = Sources /\ \A m : Contents(m)' = Contents(m)
  BY <1>1 DEF Sources, Contents
<1>5. TypeOK' /\ Shape' /\ HeapExact' /\ CandidateFits' /\ CurrentLeft'
  BY <1>1, <1>3, <1>4 DEF TypeOK, Shape, HeapExact, CandidateFits, CurrentLeft
<1>6. TablesLeft' /\ MemTableLeft' /\ ReturnedLeft' /\ SteadyKept'
  BY <1>3 DEF TablesLeft, MemTableLeft, ReturnedLeft, SteadyKept
<1>7. ReturnsLive' /\ InRange'
  BY <1>1 DEF ReturnsLive, InRange, Ranked, Generation
<1>8. NothingSkipped'
  <2> SUFFICES ASSUME NEW k \in Key, Steady(k), Ranked(k), k >= target,
                      range.end = 0 \/ k <= range.end
               PROVE  \E r \in returned : r.key = k
    BY <1>1 DEF NothingSkipped, Behind, Steady, Ranked, Generation
  <2>1. range.end \in Nat /\ k \in Nat /\ target \in Nat
    BY KeysNat DEF Shape, TypeOK
  <2>2. range.end # 0 /\ p > range.end
    BY <1>1 DEF PastEnd
  <2>3. target <= k /\ k <= p /\ k # p
    BY <2>1, <2>2, <1>2
  <2>4. QED
    BY <2>3, <1>2
<1>9. QED
  BY <1>5, <1>6, <1>7, <1>8

(* An empty heap ends the scan: no source has a key left.                  *)
LEMMA ExhaustStep == IInv /\ Exhaust => IInv'
<1> SUFFICES ASSUME IInv, Exhaust PROVE IInv'
  OBVIOUS
<1> USE DEF IInv
<1>1. /\ pc = "find" /\ heap = {} /\ pc' = "client" /\ current' = Nil
      /\ UNCHANGED <<memtable, freed, ssts, ids, range, position, heap, candidate,
                     target, returned, past>>
  BY DEF Exhaust, Stop, store, history
<1>2. Walking /\ ~ Walking'
  BY <1>1 DEF Walking
<1>3. Sources' = Sources /\ \A m : Contents(m)' = Contents(m)
  BY <1>1 DEF Sources, Contents
<1>4. TypeOK' /\ Shape' /\ HeapExact' /\ CandidateFits' /\ CurrentLeft'
  BY <1>1, <1>2, <1>3 DEF TypeOK, Shape, HeapExact, CandidateFits, CurrentLeft
<1>5. TablesLeft' /\ MemTableLeft' /\ ReturnedLeft' /\ SteadyKept'
  BY <1>2 DEF TablesLeft, MemTableLeft, ReturnedLeft, SteadyKept
<1>6. ReturnsLive' /\ InRange'
  BY <1>1 DEF ReturnsLive, InRange, Ranked, Generation
<1>7. NothingSkipped'
  <2> SUFFICES ASSUME NEW k \in Key, Steady(k), Ranked(k), k >= target
               PROVE  \E r \in returned : r.key = k
    BY <1>1 DEF NothingSkipped, Steady, Ranked, Generation
  <2>1. target <= k
    BY KeysNat DEF TypeOK
  <2>2. QED
    BY <2>1, <1>1, <1>2 DEF SteadyKept
<1>8. QED
  BY <1>4, <1>5, <1>6, <1>7

-----------------------------------------------------------------------------
(* The calls of a client, and the other threads.                           *)

(* Next leaves the key that the iterator stands on behind.                 *)
LEMMA NextStep == IInv /\ Next => IInv'
<1> SUFFICES ASSUME IInv, Next PROVE IInv'
  OBVIOUS
<1>1. /\ pc = "client" /\ current # Nil /\ pc' = "find"
      /\ UNCHANGED <<memtable, freed, ssts, ids, range, position, heap, candidate, current,
                     target, returned, past>>
  BY DEF Next, store, history
<1>2. /\ Walking /\ Walking' /\ Sources' = Sources /\ \A j : TableOf(j)' = TableOf(j)
      /\ \A m : Contents(m)' = Contents(m)
      /\ \A k : (Left(k)' <=> Left(k)) /\ (Steady(k)' <=> Steady(k))
      /\ \A i, k : Beyond(i, k)' <=> Beyond(i, k)
      /\ \A k : Ranked(k)' <=> Ranked(k)
  BY <1>1 DEF Walking, Sources, TableOf, Contents, Left, Steady, Beyond, Ranked, Generation
<1>3. TypeOK' /\ Shape' /\ HeapExact'
  BY <1>1, <1>2 DEF IInv, TypeOK, Shape, HeapExact
<1>4. TablesLeft' /\ MemTableLeft' /\ CandidateFits' /\ ReturnedLeft' /\ CurrentLeft'
  BY <1>1, <1>2 DEF IInv, TablesLeft, MemTableLeft, CandidateFits, ReturnedLeft, CurrentLeft
<1>5. SteadyKept' /\ ReturnsLive' /\ InRange' /\ NothingSkipped'
  BY <1>1, <1>2 DEF IInv, SteadyKept, ReturnsLive, InRange, NothingSkipped
<1>6. QED
  BY <1>3, <1>4, <1>5 DEF IInv

(* A seek puts every source on its first entry from the key on: whatever   *)
(* the database holds there is still ahead.                                *)
LEMMA SeekFromStep ==
  ASSUME TypeOK, ssts \in Seq(Table), NEW key \in Key \cup {0}, SeekFrom(key),
         UNCHANGED <<store, candidate>>,
         range' \in [start : Key \cup {0}, end : Key \cup {0}],
         Contents(memtable) \in past'
  PROVE  IInv'
<1> DEFINE from(i) == {k \in Entries(TableOf(i)) : k >= key}
<1>1. /\ UNCHANGED <<memtable, freed, ssts, ids, candidate, current>>
      /\ target' = key /\ returned' = {} /\ pc' = "find"
      /\ position' = [i \in Sources |-> First(from(i))]
      /\ heap' = {i \in Sources : position'[i] # Nil}
  BY DEF SeekFrom, SeekSources, store
<1>2. /\ memtable \in Table /\ ssts \in Seq(Table)
      /\ Sources' = Sources /\ \A j : TableOf(j)' = TableOf(j)
      /\ \A m : Contents(m)' = Contents(m)
  BY <1>1 DEF TypeOK, Sources, TableOf, Contents
<1>3. key \in Nat /\ \A k \in Key : k \in Nat
  BY KeysNat
<1>4. \A i \in Sources :
        /\ position'[i] \in Key \cup {Nil}
        /\ position'[i] # Nil => position'[i] \in Entries(TableOf(i)) /\ key <= position'[i]
        /\ \A k \in Entries(TableOf(i)) :
             k >= key => position'[i] # Nil /\ position'[i] <= k
  <2> SUFFICES ASSUME NEW i \in Sources
               PROVE  /\ First(from(i)) \in Key \cup {Nil}
                      /\ First(from(i)) # Nil =>
                           First(from(i)) \in Entries(TableOf(i)) /\ key <= First(from(i))
                      /\ \A k \in Entries(TableOf(i)) :
                           k >= key => First(from(i)) # Nil /\ First(from(i)) <= k
    BY <1>1
  <2>1. from(i) \in SUBSET Key /\ \A k \in from(i) : k \in Entries(TableOf(i)) /\ key <= k
    BY <1>3 DEF Entries
  <2>2. /\ First(from(i)) \in Key \cup {Nil}
        /\ First(from(i)) # Nil => First(from(i)) \in from(i)
        /\ \A k \in from(i) : First(from(i)) # Nil /\ First(from(i)) <= k
    <3> HIDE DEF from
    <3> QED
      BY <2>1, FirstProperty
  <2>3. \A k \in Entries(TableOf(i)) : k >= key => k \in from(i)
    OBVIOUS
  <2> HIDE DEF from
  <2>4. QED
    BY <2>1, <2>2, <2>3
<1> HIDE DEF from
<1>5. ASSUME NEW i \in Sources, NEW k \in Entries(TableOf(i)), key <= k
      PROVE  position'[i] # Nil /\ position'[i] <= k /\ ~ (k < position'[i])
  <2>1. k \in Nat
    BY <1>3 DEF Entries
  <2>2. position'[i] # Nil /\ position'[i] <= k
    BY <2>1, <1>3, <1>4, <1>5
  <2>3. position'[i] \in Nat
    BY <2>2, <1>3, <1>4
  <2>4. QED
    BY <2>1, <2>2, <2>3
<1>6. Walking' /\ pc' # "drain" /\ pc' # "client"
  BY <1>1 DEF Walking
<1>7. TypeOK' /\ Shape'
  <2>1. position' \in [Sources -> Key \cup {Nil}]
    BY <1>1, <1>4
  <2>2. QED
    BY <2>1, <1>1, <1>2 DEF TypeOK, Shape
<1>8. HeapExact' /\ CandidateFits' /\ CurrentLeft' /\ ReturnedLeft'
  BY <1>1, <1>2, <1>4, <1>6 DEF HeapExact, CandidateFits, CurrentLeft, ReturnedLeft
<1>9. /\ 0 \in Sources /\ Sources \subseteq Nat /\ TableOf(0) = memtable
      /\ \A i \in Sources \ {0} : TableOf(i) = ssts[i]
  BY <1>2, SourcesType
<1>10. TablesLeft'
  BY <1>1, <1>2, <1>5, <1>9 DEF TablesLeft, Beyond
<1>11. MemTableLeft'
  <2> SUFFICES ASSUME NEW k \in Key, key <= k, position'[0] = Nil \/ k < position'[0]
               PROVE  \E c \in past' : c[k] = Answer(Lookup(ssts, k))
    BY <1>1 DEF MemTableLeft, Beyond
  <2>1. k \notin Entries(memtable)
    BY <1>5, <1>9
  <2>2. Contents(memtable)[k] = Answer(Lookup(ssts, k))
    BY <2>1, <1>2, ContentsAt DEF Entries
  <2>3. QED
    BY <2>2
<1>12. SteadyKept'
  <2> SUFFICES ASSUME NEW k \in Key, Steady(k)', key <= k
               PROVE  \E i \in heap' : position'[i] <= k /\ k \in Entries(TableOf(i))
    BY <1>1, <1>2 DEF SteadyKept
  <2>1. Contents(memtable)[k] \in Value
    BY DEF Steady
  <2>2. PICK i \in Sources : k \in Entries(TableOf(i))
    BY <2>1, <1>2, LiveHeld
  <2>3. position'[i] # Nil /\ position'[i] <= k
    BY <2>2, <1>5
  <2>4. QED
    BY <2>2, <2>3, <1>1
<1>13. ReturnsLive' /\ InRange' /\ NothingSkipped'
  BY <1>1 DEF ReturnsLive, InRange, NothingSkipped
<1>14. QED
  BY <1>7, <1>8, <1>10, <1>11, <1>12, <1>13 DEF IInv

(* A seek behind the end key: nothing is in range, and nothing returned.   *)
LEMMA SeekPastEndStep ==
  ASSUME TypeOK, ssts \in Seq(Table), NEW key \in Key \cup {0}, SeekPastEnd(key),
         UNCHANGED <<store, candidate>>,
         range' \in [start : Key \cup {0}, end : Key \cup {0}],
         Contents(memtable) \in past'
  PROVE  IInv'
<1>1. /\ UNCHANGED <<memtable, freed, ssts, ids, candidate, position>>
      /\ target' = key /\ returned' = {} /\ pc' = "client" /\ current' = Nil /\ heap' = {}
      /\ range'.end # 0 /\ key > range'.end
  BY DEF SeekPastEnd, store
<1>2. ~ Walking' /\ Sources' = Sources /\ \A m : Contents(m)' = Contents(m)
  BY <1>1 DEF Walking, Sources, Contents
<1>3. TypeOK' /\ Shape'
  BY <1>1, <1>2 DEF TypeOK, Shape
<1>4. HeapExact' /\ TablesLeft' /\ MemTableLeft' /\ ReturnedLeft' /\ SteadyKept'
  BY <1>2 DEF HeapExact, TablesLeft, MemTableLeft, ReturnedLeft, SteadyKept
<1>5. CandidateFits' /\ CurrentLeft' /\ ReturnsLive' /\ InRange'
  BY <1>1 DEF CandidateFits, CurrentLeft, ReturnsLive, InRange
<1>6. NothingSkipped'
  <2> SUFFICES ASSUME NEW k \in Key, k >= key, k <= range'.end PROVE FALSE
    BY <1>1 DEF NothingSkipped, Behind
  <2>1. k \in Nat /\ key \in Nat /\ range'.end \in Nat
    BY KeysNat
  <2>2. QED
    BY <2>1, <1>1
<1>7. QED
  BY <1>3, <1>4, <1>5, <1>6 DEF IInv

(* A new iterator starts with the contents of that moment.                 *)
LEMMA NewIteratorStep ==
  ASSUME IInv, NEW start \in Starts, NEW end \in Ends, NewIterator(start, end)
  PROVE  IInv'
<1>1. /\ range' = [start |-> start, end |-> end]
      /\ SeekFrom(start) \/ SeekPastEnd(start)
      /\ past' = {Contents(memtable)}
      /\ UNCHANGED <<store, candidate>>
  BY DEF NewIterator
<1>2. /\ range' \in [start : Key \cup {0}, end : Key \cup {0}]
      /\ start \in Key \cup {0} /\ Contents(memtable) \in past'
      /\ TypeOK /\ ssts \in Seq(Table)
  BY <1>1, IteratorConstants DEF IInv, Shape
<1>3. QED
  BY <1>1, <1>2, SeekFromStep, SeekPastEndStep

(* A seek starts over, within the range and among the same contents.       *)
LEMMA SeekStep ==
  ASSUME IInv, NEW k \in Starts, Seek(k)
  PROVE  IInv'
<1> DEFINE key == Max({k, range.start})
<1>1. /\ pc = "client" /\ UNCHANGED range
      /\ SeekFrom(key) \/ SeekPastEnd(key)
      /\ UNCHANGED <<store, candidate>> /\ UNCHANGED past
  BY DEF Seek
<1>2. k \in Key \cup {0} /\ range.start \in Key \cup {0} /\ k \in Nat /\ range.start \in Nat
  <2>1. k \in Key \cup {0}
    BY IteratorConstants
  <2>2. range.start \in Key \cup {0}
    BY DEF IInv, Shape
  <2>3. QED
    BY <2>1, <2>2, KeysNat
<1>3. key \in {k, range.start}
  <2> DEFINE S == {k, range.start}
  <2>1. PICK n \in Nat : k <= n /\ range.start <= n
    <3>1. k <= range.start \/ range.start <= k
      BY <1>2
    <3>2. QED
      BY <3>1, <1>2
  <2>2. S \in SUBSET (0 .. n) /\ S # {}
    BY <2>1, <1>2
  <2> HIDE DEF S
  <2>3. Max(S) \in S
    BY <2>2, MaxProperty
  <2>4. QED
    BY <2>3 DEF S
<1> HIDE DEF key
<1>4. /\ key \in Key \cup {0} /\ Contents(memtable) \in past'
      /\ range' \in [start : Key \cup {0}, end : Key \cup {0}]
      /\ TypeOK /\ ssts \in Seq(Table)
  BY <1>1, <1>2, <1>3 DEF IInv, Shape
<1>5. QED
  BY <1>1, <1>4, SeekFromStep, SeekPastEndStep

(* A write between two calls may put a key behind the memtable's iterator, *)
(* and only makes fewer keys steady.                                       *)
LEMMA WriteStep ==
  ASSUME IInv, NEW k \in Key, NEW c \in Written, Write(k, c)
  PROVE  IInv'
<1> USE DEF IInv
<1>1. /\ pc = "client" /\ memtable' = [memtable EXCEPT ![k] = c]
      /\ past' = past \cup {Contents(memtable')}
      /\ UNCHANGED <<freed, ssts, ids, range, position, heap, candidate, current, pc,
                     target, returned>>
  BY DEF Write
<1>2. memtable \in Table /\ memtable' \in Table
      /\ Entries(memtable) \subseteq Entries(memtable')
  <2>1. memtable \in Table
    BY DEF TypeOK
  <2>2. c \in Cell /\ c # Absent
    BY CellsDistinct DEF Cell, Written
  <2>3. QED
    BY <2>1, <2>2, <1>1 DEF Table, Entries
<1>3. /\ Sources' = Sources /\ Walking' = Walking
      /\ \A m : Contents(m)' = Contents(m)
      /\ \A x : Left(x)' <=> Left(x)
      /\ \A i, x : Beyond(i, x)' <=> Beyond(i, x)
      /\ \A x : Ranked(x)' <=> Ranked(x)
  BY <1>1 DEF Sources, Walking, Contents, Left, Beyond, Ranked, Generation
<1>4. \A i \in Sources : Entries(TableOf(i)) \subseteq Entries(TableOf(i)')
  BY <1>1, <1>2 DEF TableOf
<1>5. \A x : Steady(x)' => Steady(x)
  BY <1>1 DEF Steady
<1>6. TypeOK' /\ Shape'
  BY <1>1, <1>2, <1>3 DEF TypeOK, Shape
<1>7. HeapExact'
  <2> SUFFICES ASSUME Walking
               PROVE  /\ heap = {i \in Sources : position[i] # Nil}
                      /\ \A i \in heap : position[i] \in Entries(TableOf(i)') /\ target <= position[i]
    BY <1>1, <1>3 DEF HeapExact
  <2>1. QED
    BY <1>4 DEF HeapExact, TypeOK
<1>8. TablesLeft' /\ CandidateFits' /\ ReturnedLeft' /\ CurrentLeft' /\ InRange'
  BY <1>1, <1>3 DEF TablesLeft, CandidateFits, ReturnedLeft, CurrentLeft, InRange
<1>9. MemTableLeft'
  BY <1>1, <1>3 DEF MemTableLeft
<1>10. SteadyKept'
  <2> SUFFICES ASSUME NEW x \in Key, Walking, Steady(x), Ranked(x), target <= x
               PROVE  \/ \E r \in returned : r.key = x
                      \/ \E i \in heap : position[i] <= x /\ x \in Entries(TableOf(i)')
    BY <1>1, <1>3, <1>5 DEF SteadyKept
  <2>1. QED
    BY <1>1, <1>4 DEF SteadyKept, TypeOK
<1>11. ReturnsLive'
  BY <1>1, <1>3 DEF ReturnsLive
<1>12. NothingSkipped'
  BY <1>1, <1>3, <1>5 DEF NothingSkipped, Behind
<1>13. QED
  BY <1>6, <1>7, <1>8, <1>9, <1>10, <1>11, <1>12

(* Before NewIterator there is nothing to keep.                            *)
LEMMA InitStep == Init => IInv
<1> SUFFICES ASSUME Init PROVE IInv
  OBVIOUS
<1>1. /\ memtable \in Table /\ ssts \in Seq(Table)
  BY IteratorConstants DEF Init
<1>2. pc = "none" /\ ~ Walking /\ returned = {} /\ current = Nil /\ candidate = Nil
      /\ heap = {} /\ freed = FALSE /\ target = 0 /\ position = [i \in Sources |-> Nil]
      /\ range = [start |-> 0, end |-> 0]
  BY DEF Init, Walking
<1>3. TypeOK /\ Shape
  BY <1>1, <1>2 DEF TypeOK, Shape
<1>4. HeapExact /\ TablesLeft /\ MemTableLeft /\ CandidateFits
  BY <1>2 DEF HeapExact, TablesLeft, MemTableLeft, CandidateFits
<1>5. ReturnedLeft /\ CurrentLeft /\ SteadyKept /\ ReturnsLive /\ InRange /\ NothingSkipped
  BY <1>2 DEF ReturnedLeft, CurrentLeft, SteadyKept, ReturnsLive, InRange, NothingSkipped
<1>6. QED
  BY <1>3, <1>4, <1>5 DEF IInv

(* A flush that frees the memtable touches nothing of the iterator.        *)
LEMMA UnchangedStep ==
  ASSUME IInv,
         UNCHANGED <<memtable, ssts, ids, range, position, heap, candidate, current, pc, history>>,
         freed' \in BOOLEAN
  PROVE  IInv'
<1>1. /\ UNCHANGED <<memtable, ssts, ids, range, position, heap, candidate, current, pc,
                     target, returned, past>>
      /\ Sources' = Sources /\ \A j : TableOf(j)' = TableOf(j)
      /\ \A m : Contents(m)' = Contents(m)
      /\ \A k : (Left(k)' <=> Left(k)) /\ (Steady(k)' <=> Steady(k))
      /\ Walking' = Walking /\ \A k : Ranked(k)' <=> Ranked(k)
  BY DEF history, Sources, TableOf, Contents, Left, Steady, Walking, Ranked, Generation
<1>2. TypeOK' /\ Shape' /\ HeapExact'
  BY <1>1 DEF IInv, TypeOK, Shape, HeapExact
<1>3. TablesLeft' /\ MemTableLeft' /\ CandidateFits' /\ ReturnedLeft' /\ CurrentLeft'
  BY <1>1 DEF IInv, TablesLeft, MemTableLeft, CandidateFits, ReturnedLeft, CurrentLeft, Beyond
<1>4. SteadyKept' /\ ReturnsLive' /\ InRange' /\ NothingSkipped'
  BY <1>1 DEF IInv, SteadyKept, ReturnsLive, InRange, NothingSkipped, Behind
<1>5. QED
  BY <1>2, <1>3, <1>4 DEF IInv

(* Every step, of the iterator or of a writer, keeps the invariant.        *)
LEMMA NextInvariant == IInv /\ [Step]_vars => IInv'
<1> SUFFICES ASSUME IInv, [Step]_vars PROVE IInv'
  OBVIOUS
<1>1. ASSUME NEW s \in Starts, NEW e \in Ends, NewIterator(s, e) PROVE IInv'
  BY <1>1, NewIteratorStep
<1>2. ASSUME NEW k \in Starts, Seek(k) PROVE IInv'
  BY <1>2, SeekStep
<1>3. CASE Next
  BY <1>3, NextStep
<1>4. CASE FindNextAliveKey
  BY <1>4, PopCandidateStep, DrainDuplicateStep, SettleStep, SkipDeletedStep,
     StopAtEndStep, ExhaustStep DEF FindNextAliveKey
<1>5. ASSUME NEW k \in Key, NEW c \in Written, Write(k, c) PROVE IInv'
  BY <1>5, WriteStep
<1>6. CASE FreeMemTable
  BY <1>6, UnchangedStep DEF FreeMemTable
<1>7. CASE UNCHANGED vars
  <2>1. freed' \in BOOLEAN
    BY <1>7 DEF IInv, TypeOK, vars, store
  <2>2. QED
    BY <1>7, <2>1, UnchangedStep DEF vars, store
<1>8. QED
  BY <1>1, <1>2, <1>3, <1>4, <1>5, <1>6, <1>7 DEF Step

(* The invariant: what sources, heap and candidate hold at each step of an *)
(* iterator, whatever is written between its calls.                        *)
THEOREM IteratorInvariant == Spec => []IInv
<1>1. Init => IInv
  BY InitStep
<1>2. IInv /\ [Step]_vars => IInv'
  BY NextInvariant
<1>3. QED
  BY <1>1, <1>2, PTL DEF Spec

-----------------------------------------------------------------------------
(* The properties.                                                         *)

(* The iterator stands on a live value or on nothing.                      *)
THEOREM IteratorTypeCorrect == Spec => []TypeOK
<1>1. IInv => TypeOK
  BY DEF IInv
<1>2. QED
  BY <1>1, IteratorInvariant, PTL

(* What Next returns was in the database at some moment since the iterator *)
(* was made, however keys are put and deleted meanwhile.                   *)
THEOREM AlwaysReturnsLive == Spec => []ReturnsLive
<1>1. IInv => ReturnsLive
  BY DEF IInv
<1>2. QED
  BY <1>1, IteratorInvariant, PTL

(* A scan does not miss a key that kept its value while it ran.            *)
THEOREM NothingEverSkipped == Spec => []NothingSkipped
<1>1. IInv => NothingSkipped
  BY DEF IInv
<1>2. QED
  BY <1>1, IteratorInvariant, PTL

(* A scan returns nothing outside its bounds.                              *)
THEOREM AlwaysInRange == Spec => []InRange
<1>1. IInv => InRange
  BY DEF IInv
<1>2. QED
  BY <1>1, IteratorInvariant, PTL

(* No key is returned twice or out of order, although keys are put in      *)
(* front of and behind the memtable's iterator.                            *)
THEOREM ReturnedAscends == Spec => Ascends
<1> DEFINE Rises == \A r \in returned, s \in returned' \ returned : r.key < s.key
<1>1. IInv /\ [Step]_vars => [Rises]_vars
  <2> SUFFICES ASSUME IInv, Step PROVE Rises
    OBVIOUS
  <2>1. returned' \subseteq returned \/ Settle
    <3>1. ASSUME NEW k, SeekFrom(k) \/ SeekPastEnd(k) PROVE returned' = {}
      BY <3>1 DEF SeekFrom, SeekPastEnd
    <3>2. ASSUME NEW s, NEW e, NewIterator(s, e) PROVE returned' = {}
      BY <3>1, <3>2 DEF NewIterator
    <3>3. ASSUME NEW k, Seek(k) PROVE returned' = {}
      BY <3>1, <3>3 DEF Seek
    <3>4. CASE Next
      BY <3>4 DEF Next, history
    <3>5. CASE PopCandidate \/ DrainDuplicate \/ SkipDeleted \/ StopAtEnd \/ Exhaust
      BY <3>5 DEF PopCandidate, DrainDuplicate, SkipDeleted, StopAtEnd, Exhaust, Stop, history
    <3>6. ASSUME NEW k, NEW c, Write(k, c) PROVE returned' = returned
      BY <3>6 DEF Write
    <3>7. CASE FreeMemTable
      BY <3>7 DEF FreeMemTable, history
    <3>8. QED
      BY <3>2, <3>3, <3>4, <3>5, <3>6, <3>7 DEF Step, FindNextAliveKey
  <2>2. CASE Settle
    <3>1. pc = "drain" /\ \A s \in returned' \ returned : s.key = candidate.key
      BY <2>2 DEF Settle
    <3>2. \A r \in returned : r.key < candidate.key
      BY <3>1 DEF IInv, ReturnedLeft, Walking, Left
    <3>3. QED
      BY <3>1, <3>2
  <2>3. QED
    BY <2>1, <2>2
<1>2. QED
  BY <1>1, IteratorInvariant, PTL DEF Spec, Ascends

(* If nothing was written while the iterator was in use, a scan that has   *)
(* ended returned exactly the live pairs between its bounds, of the keys   *)
(* that no two files of one generation hold.                               *)
ExactScan ==
  pc = "client" /\ current = Nil =>
    \A c : past = {c} =>
      \A r \in [key : Key, value : Value] : Ranked(r.key) =>
        (r \in returned <=> /\ r.value = c[r.key]
                            /\ r.key >= target
                            /\ range.end # 0 => r.key <= range.end)

(* A scan that met no write is exact.                                      *)
THEOREM QuietScanIsExact == Spec => []ExactScan
<1>1. IInv => ExactScan
  <2> SUFFICES ASSUME IInv, pc = "client", current = Nil, NEW c, past = {c},
                      NEW r \in [key : Key, value : Value], Ranked(r.key)
               PROVE  r \in returned <=>
                        /\ r.value = c[r.key]
                        /\ r.key >= target
                        /\ range.end # 0 => r.key <= range.end
    BY DEF ExactScan
  <2>1. ASSUME r \in returned
        PROVE  r.value = c[r.key] /\ r.key >= target /\ (range.end # 0 => r.key <= range.end)
    BY <2>1 DEF IInv, ReturnsLive, InRange
  <2>2. ASSUME r.value = c[r.key], r.key >= target, range.end # 0 => r.key <= range.end
        PROVE  r \in returned
    <3>1. Steady(r.key) /\ Behind(r.key)
      BY <2>2 DEF Steady, Behind
    <3>2. PICK s \in returned : s.key = r.key
      BY <3>1, <2>2 DEF IInv, NothingSkipped
    <3>3. s \in [key : Key, value : Value] /\ s.value = c[s.key]
      BY <3>2 DEF IInv, ReturnsLive, TypeOK
    <3>4. s = r
      BY <3>2, <3>3, <2>2
    <3>5. QED
      BY <3>4
  <2>3. QED
    BY <2>1, <2>2
<1>2. QED
  BY <1>1, IteratorInvariant, PTL
=============================================================================
