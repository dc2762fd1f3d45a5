-------------------------- MODULE KWayMergeProofs ---------------------------
(***************************************************************************)
(* Theorems about the merge loop of a compaction, for any keys and any     *)
(* inputs.                                                                 *)
(***************************************************************************)
EXTENDS KWayMerge, TablesProofs

-----------------------------------------------------------------------------
(* The inductive invariant.                                                *)

(* The heap holds exactly the iterators that stand on a record.            *)
HeapExact ==
  /\ heap = {i \in DOMAIN inputs : position[i] # End}
  /\ \A i \in heap : position[i] \in Entries(inputs[i].table)
  /\ pc = "done" => heap = {}

(* The loop has finished with k.                                           *)
Settled(k) == IF pc = "drain" THEN k < winner.key ELSE Passed(k)

(* What an iterator has left behind was popped: it is settled, or it is    *)
(* the key being merged.                                                   *)
LeftBehind ==
  \A i \in DOMAIN inputs : \A k \in Entries(inputs[i].table) :
    position[i] = End \/ k < position[i] =>
      Settled(k) \/ (pc = "drain" /\ k = winner.key)

(* The node popped first for a key is the newest version, and no iterator  *)
(* stands before it.                                                       *)
WinnerFits ==
  pc = "drain" =>
    /\ winner \in Record
    /\ \A i \in heap : winner.key <= position[i]
    /\ \E i \in Winners(inputs, winner.key) : winner.cell = inputs[i].table[winner.key]

(* Only keys that every input has passed are in the output,                *)
OutputSettled == \A n \in DOMAIN output : Settled(output[n].key)

(* A winner's version of k, as it is written.                              *)
VersionOf(k) ==
  {IF purge THEN Answer(inputs[i].table[k]) ELSE inputs[i].table[k] :
     i \in Winners(inputs, k)}

(* and every such key that an input holds is there, as a winner has it.    *)
MergedSettled ==
  \A k \in Key : IF Settled(k) /\ Holders(inputs, k) # {}
                   THEN Merged(k) \in VersionOf(k)
                   ELSE Merged(k) = Absent

(* The inductive invariant.                                                *)
IInv ==
  /\ TypeOK
  /\ HeapExact
  /\ LeftBehind
  /\ WinnerFits
  /\ OutputSettled
  /\ OutputAscends
  /\ MergedSettled

-----------------------------------------------------------------------------
(* Iterators.                                                              *)

(* An iterator stops at the least of the keys ahead, or at the end if      *)
(* there is none.                                                          *)
LEMMA FirstProperty ==
  ASSUME NEW keys \in SUBSET Key
  PROVE  /\ First(keys) \in Key \cup {End}
         /\ keys = {} => First(keys) = End
         /\ keys # {} => First(keys) \in keys
         /\ \A k \in keys : First(keys) # End /\ First(keys) <= k
<1>1. keys \in SUBSET Nat /\ End \notin Nat
  BY MergeConstants
<1>2. CASE keys = {}
  BY <1>2 DEF First
<1>3. CASE keys # {}
  <2>1. Min(keys) \in keys /\ \A k \in keys : Min(keys) <= k
    BY <1>1, <1>3, MinProperty
  <2>2. QED
    BY <1>1, <1>3, <2>1 DEF First
<1>4. QED
  BY <1>2, <1>3

(* The inputs are numbered, and each is a table with its generation.       *)
LEMMA InputsType ==
  ASSUME inputs \in CompactorInputs
  PROVE  /\ Len(inputs) \in Nat /\ DOMAIN inputs = 1 .. Len(inputs)
         /\ \A i \in DOMAIN inputs :
              inputs[i].generation \in Nat /\ inputs[i].table \in Table
<1> DEFINE Input == [generation : Nat, table : Table]
<1>1. inputs \in Seq(Input)
  BY MergeConstants
<1>2. \A x \in Input : x.generation \in Nat /\ x.table \in Table
  OBVIOUS
<1> HIDE DEF Input
<1>3. \A i \in DOMAIN inputs : inputs[i] \in Input
  BY <1>1
<1>4. QED
  BY <1>1, <1>2, <1>3

(* A node that may be popped is behind no other, so no iterator stands     *)
(* before it, and where keys are equal its generation is the highest.      *)
LEMMA TopFirst ==
  ASSUME TypeOK, HeapExact, NEW i \in Tops
  PROVE  /\ i \in heap /\ i \in DOMAIN inputs /\ position[i] \in Key
         /\ position[i] \in Entries(inputs[i].table)
         /\ \A j \in heap :
              /\ position[i] <= position[j]
              /\ position[j] = position[i] => inputs[j].generation <= inputs[i].generation
<1>1. i \in heap /\ heap \subseteq DOMAIN inputs
  BY DEF Tops, TypeOK
<1>2. \A j \in heap : position[j] \in Key /\ position[j] \in Nat /\ inputs[j].generation \in Nat
  <2> SUFFICES ASSUME NEW j \in heap
               PROVE  position[j] \in Key /\ position[j] \in Nat
                      /\ inputs[j].generation \in Nat
    OBVIOUS
  <2>1. j \in DOMAIN inputs /\ position[j] # End
    BY DEF TypeOK
  <2>2. position[j] \in Key \cup {End}
    BY <2>1 DEF TypeOK
  <2>3. QED
    BY <2>1, <2>2, InputsType, MergeConstants DEF TypeOK
<1>3. \A j \in heap : ~ Precedes(j, i)
  BY DEF Tops
<1>4. QED
  BY <1>1, <1>2, <1>3 DEF Precedes, HeapExact

(* If a node stands on the key being merged, one of them may be popped:    *)
(* the loop does not leave it in the heap.                                 *)
LEMMA TopExists ==
  ASSUME TypeOK, HeapExact, NEW k,
         \A j \in heap : k <= position[j],
         \E j \in heap : position[j] = k
  PROVE  \E i \in Tops : position[i] = k
<1> DEFINE n == Len(inputs)
           ties == {j \in heap : position[j] = k}
           gens == {inputs[j].generation : j \in ties}
           f == [j \in 1 .. n |-> inputs[j].generation]
<1>1. Key \subseteq Nat
  BY MergeConstants
<1>2. n \in Nat /\ DOMAIN inputs = 1 .. n /\ \A j \in 1 .. n : f[j] \in Nat
  BY InputsType DEF TypeOK
<1>3. heap \subseteq 1 .. n /\ \A j \in heap : position[j] \in Nat
  BY <1>1, <1>2 DEF TypeOK
<1>4. \E b \in Nat : \A j \in 1 .. n : f[j] <= b
  <2> HIDE DEF n, f
  <2> QED
    BY <1>2, Bounded
<1>5. PICK b \in Nat : \A j \in 1 .. n : f[j] <= b
  BY <1>4
<1>6. gens \in SUBSET (0 .. b) /\ gens # {}
  BY <1>2, <1>3, <1>5
<1>7. Max(gens) \in gens /\ \A g \in gens : g <= Max(gens)
  <2> HIDE DEF gens
  <2> QED
    BY <1>6, MaxProperty
<1>8. PICK i \in ties : \A j \in ties : inputs[j].generation <= inputs[i].generation
  BY <1>7
<1>9. ASSUME NEW j \in heap PROVE ~ Precedes(j, i)
  <2>1. inputs[j].generation \in Nat /\ inputs[i].generation \in Nat
        /\ position[j] \in Nat /\ position[i] = k /\ k <= position[j]
    BY <1>2, <1>3
  <2>2. position[j] = position[i] => inputs[j].generation <= inputs[i].generation
    BY <1>8, <2>1
  <2>3. QED
    BY <2>1, <2>2, <1>3 DEF Precedes
<1>10. QED
  BY <1>8, <1>9 DEF Tops

(* Moving an iterator on: every other one stays, and what it passes is the *)
(* key it stood on.                                                        *)
LEMMA AdvanceStep ==
  ASSUME TypeOK, HeapExact, NEW i \in heap, Advance(i), UNCHANGED inputs
  PROVE  /\ position' \in [DOMAIN inputs -> Key \cup {End}]
         /\ heap' = {j \in DOMAIN inputs : position'[j] # End}
         /\ \A j \in heap' : position'[j] \in Entries(inputs[j].table)
         /\ \A j \in DOMAIN inputs : j # i => position'[j] = position[j]
         /\ position'[i] # End => position[i] < position'[i]
         /\ \A k \in Entries(inputs[i].table) :
              position'[i] = End \/ k < position'[i] => k <= position[i]
<1> DEFINE ahead == {k \in Entries(inputs[i].table) : k > position[i]}
<1>1. i \in DOMAIN inputs /\ position[i] \in Key /\ Key \subseteq Nat /\ End \notin Nat
  BY MergeConstants DEF TypeOK
<1>2. ahead \in SUBSET Key
  BY DEF Entries
<1>3. position' = [position EXCEPT ![i] = First(ahead)]
      /\ heap' = IF position'[i] = End THEN heap \ {i} ELSE heap
  BY DEF Advance, After
<1>4. /\ First(ahead) \in Key \cup {End}
      /\ ahead = {} => First(ahead) = End
      /\ ahead # {} => First(ahead) \in ahead
      /\ \A k \in ahead : First(ahead) # End /\ First(ahead) <= k
  <2> HIDE DEF ahead
  <2> QED
    BY <1>2, FirstProperty
<1>5. position'[i] = First(ahead)
      /\ \A j \in DOMAIN inputs : j # i => position'[j] = position[j]
  BY <1>1, <1>3 DEF TypeOK
<1>6. position' \in [DOMAIN inputs -> Key \cup {End}]
  BY <1>3, <1>4 DEF TypeOK
<1>7. heap' = {j \in DOMAIN inputs : position'[j] # End}
  BY <1>1, <1>3, <1>5 DEF HeapExact
<1>8. position'[i] # End => position'[i] \in Entries(inputs[i].table) /\ position[i] < position'[i]
  <2>1. \A k \in ahead : k \in Entries(inputs[i].table) /\ position[i] < k
    BY <1>1, <1>2
  <2> HIDE DEF ahead
  <2>2. QED
    BY <1>4, <1>5, <2>1
<1>9. \A j \in heap' : position'[j] \in Entries(inputs[j].table)
  BY <1>3, <1>5, <1>7, <1>8 DEF HeapExact
<1>10. ASSUME NEW k \in Entries(inputs[i].table), position'[i] = End \/ k < position'[i]
       PROVE  k <= position[i]
  <2>1. k \in Nat /\ position[i] \in Nat /\ position'[i] \in Key \cup {End}
    BY <1>1, <1>6 DEF Entries
  <2>2. CASE k > position[i]
    <3>1. k \in ahead
      BY <2>2
    <3>2. position'[i] # End /\ position'[i] <= k
      BY <3>1, <1>4, <1>5
    <3>3. position'[i] \in Nat /\ k < position'[i]
      BY <3>2, <2>1, <1>1, <1>10
    <3>4. QED
      BY <3>2, <3>3, <2>1
  <2>3. QED
    BY <2>1, <2>2
<1>11. QED
  BY <1>5, <1>6, <1>7, <1>8, <1>9, <1>10

-----------------------------------------------------------------------------
(* The output.                                                             *)

(* OutputAscends, of any sequence of records.                              *)
Ascending(out) == \A i, j \in DOMAIN out : i < j => out[i].key < out[j].key

(* What a sequence of records holds for k.                                 *)
CellIn(out, k) ==
  LET at == {i \in DOMAIN out : out[i].key = k}
  IN  IF at = {} THEN Absent ELSE out[Min(at)].cell

(* The output of a state is such a sequence.                               *)
LEMMA OutputView ==
  /\ OutputAscends <=> Ascending(output)
  /\ \A k : Merged(k) = CellIn(output, k)
BY DEF OutputAscends, Ascending, Merged, CellIn

(* A record is read back at the only place where its key stands.           *)
LEMMA CellAt ==
  ASSUME NEW out, NEW len \in Nat, DOMAIN out = 1 .. len,
         \A i \in 1 .. len : out[i].key \in Nat,
         Ascending(out), NEW n \in 1 .. len
  PROVE  CellIn(out, out[n].key) = out[n].cell
<1> DEFINE at == {i \in DOMAIN out : out[i].key = out[n].key}
<1>1. \A i \in at : i = n
  <2> SUFFICES ASSUME NEW i \in at, i # n PROVE FALSE
    OBVIOUS
  <2>1. i < n \/ n < i
    OBVIOUS
  <2>2. QED
    BY <2>1 DEF Ascending
<1>2. at \in SUBSET Nat /\ n \in at
  OBVIOUS
<1>3. Min(at) \in at
  <2> HIDE DEF at
  <2> QED
    BY <1>2, MinProperty
<1>4. QED
  BY <1>1, <1>2, <1>3 DEF CellIn

(* Writing a key above all others changes what the output holds for it     *)
(* alone.                                                                  *)
LEMMA CellAppend ==
  ASSUME NEW out \in Seq(Record), Ascending(out), NEW e \in Record,
         \A n \in DOMAIN out : out[n].key < e.key
  PROVE  /\ Append(out, e) \in Seq(Record)
         /\ Ascending(Append(out, e))
         /\ \A k \in Key : CellIn(Append(out, e), k) =
                             IF k = e.key THEN e.cell ELSE CellIn(out, k)
<1> DEFINE len == Len(out)
           new == Append(out, e)
<1>1. /\ len \in Nat /\ DOMAIN out = 1 .. len /\ DOMAIN new = 1 .. len + 1
      /\ new[len + 1] = e /\ \A i \in 1 .. len : new[i] = out[i]
      /\ new \in Seq(Record)
  OBVIOUS
<1>2. \A r \in Record : r.key \in Nat
  BY MergeConstants DEF Record
<1>3. \A i \in 1 .. len + 1 : new[i].key \in Nat
  <2>1. \A i \in 1 .. len + 1 : new[i] \in Record
    BY <1>1
  <2> HIDE DEF new, len
  <2>2. QED
    BY <1>2, <2>1
<1> HIDE DEF new, len
<1>4. Ascending(new)
  <2> SUFFICES ASSUME NEW i \in 1 .. len + 1, NEW j \in 1 .. len + 1, i < j
               PROVE  new[i].key < new[j].key
    BY <1>1 DEF Ascending
  <2>1. i \in 1 .. len /\ new[i] = out[i]
    BY <1>1
  <2>2. CASE j = len + 1
    BY <2>1, <2>2, <1>1
  <2>3. CASE j # len + 1
    <3>1. j \in 1 .. len
      BY <2>3, <1>1
    <3>2. QED
      BY <2>1, <3>1, <1>1 DEF Ascending
  <2>4. QED
    BY <2>2, <2>3
<1>5. ASSUME NEW k \in Key
      PROVE  CellIn(new, k) = IF k = e.key THEN e.cell ELSE CellIn(out, k)
  <2>1. CASE k = e.key
    <3>1. len + 1 \in 1 .. len + 1 /\ len + 1 \in Nat
      BY <1>1
    <3>2. CellIn(new, new[len + 1].key) = new[len + 1].cell
      BY <3>1, <1>1, <1>3, <1>4, CellAt
    <3>3. QED
      BY <2>1, <3>2, <1>1
  <2>2. CASE k # e.key
    <3> DEFINE At(s) == {i \in DOMAIN s : s[i].key = k}
    <3>1. At(new) = At(out) /\ At(out) \in SUBSET Nat /\ At(out) \subseteq 1 .. len
      BY <1>1, <2>2
    <3>2. At(out) # {} => Min(At(out)) \in At(out)
      <4> HIDE DEF At
      <4> QED
        BY <3>1, MinProperty
    <3>3. At(out) # {} => new[Min(At(out))] = out[Min(At(out))]
      BY <3>1, <3>2, <1>1
    <3>4. QED
      BY <3>1, <3>3, <2>2 DEF CellIn
  <2>3. QED
    BY <2>1, <2>2
<1>6. QED
  BY <1>1, <1>4, <1>5 DEF new

-----------------------------------------------------------------------------
(* The steps.                                                              *)

(* A key that iterator i has not passed is ahead of no popped node.        *)
LEMMA NotPassed ==
  ASSUME TypeOK, HeapExact, LeftBehind, NEW i \in DOMAIN inputs,
         NEW k \in Entries(inputs[i].table),
         ~ Settled(k), ~ (pc = "drain" /\ k = winner.key)
  PROVE  i \in heap /\ position[i] <= k
<1>1. ~ (position[i] = End \/ k < position[i])
  BY DEF LeftBehind
<1>2. position[i] \in Nat /\ k \in Nat
  BY <1>1, MergeConstants DEF TypeOK, Entries
<1>3. QED
  BY <1>1, <1>2 DEF HeapExact

(* At the start nothing is settled and nothing is written.                 *)
LEMMA InitStep == Init => IInv
<1> SUFFICES ASSUME Init PROVE IInv
  OBVIOUS
<1>1. /\ inputs \in CompactorInputs /\ pc = "pop" /\ output = <<>> /\ winner = End
      /\ heap = {i \in DOMAIN inputs : position[i] # End}
      /\ \A i \in DOMAIN inputs : position[i] = First(Entries(inputs[i].table))
      /\ DOMAIN position = DOMAIN inputs
  BY DEF Init, SeekToFirst
<1>2. \A i \in DOMAIN inputs : LET keys == Entries(inputs[i].table) IN
        /\ keys \subseteq Key
        /\ position[i] \in Key \cup {End}
        /\ position[i] # End => position[i] \in keys
        /\ \A k \in keys : position[i] # End /\ position[i] <= k
  <2> SUFFICES ASSUME NEW i \in DOMAIN inputs
               PROVE  LET keys == Entries(inputs[i].table) IN
                        /\ keys \subseteq Key
                        /\ position[i] \in Key \cup {End}
                        /\ position[i] # End => position[i] \in keys
                        /\ \A k \in keys : position[i] # End /\ position[i] <= k
    OBVIOUS
  <2>1. Entries(inputs[i].table) \in SUBSET Key
    BY DEF Entries
  <2>2. QED
    BY <1>1, <2>1, FirstProperty
<1>3. TypeOK
  <2>1. position \in [DOMAIN inputs -> Key \cup {End}]
    BY <1>1, <1>2 DEF Init
  <2>2. output \in Seq(Record)
    BY <1>1
  <2>3. QED
    BY <1>1, <2>1, <2>2 DEF TypeOK, Init
<1>4. HeapExact
  BY <1>1, <1>2 DEF HeapExact
<1>5. \A i \in DOMAIN inputs : \A k \in Entries(inputs[i].table) : i \in heap /\ ~ (k < position[i])
  <2> SUFFICES ASSUME NEW i \in DOMAIN inputs, NEW k \in Entries(inputs[i].table)
               PROVE  i \in heap /\ ~ (k < position[i])
    OBVIOUS
  <2>1. position[i] # End /\ position[i] <= k /\ position[i] \in Nat /\ k \in Nat
    BY <1>2, MergeConstants DEF Entries
  <2>2. QED
    BY <1>1, <2>1
<1>6. LeftBehind /\ WinnerFits
  BY <1>1, <1>5 DEF LeftBehind, WinnerFits, HeapExact
<1>7. OutputSettled /\ OutputAscends
  BY <1>1 DEF OutputSettled, OutputAscends
<1>8. MergedSettled
  <2> SUFFICES ASSUME NEW k \in Key
               PROVE  ~ (Settled(k) /\ Holders(inputs, k) # {}) /\ Merged(k) = Absent
    BY DEF MergedSettled
  <2>1. Merged(k) = Absent
    BY <1>1 DEF Merged
  <2>2. ASSUME Settled(k), NEW i \in Holders(inputs, k) PROVE FALSE
    <3>1. i \in DOMAIN inputs /\ k \in Entries(inputs[i].table)
      BY <2>2 DEF Holders, Entries
    <3>2. Passed(k)
      BY <1>1, <2>2 DEF Settled
    <3>3. QED
      BY <1>5, <3>1, <3>2 DEF Passed
  <2>3. QED
    BY <2>1, <2>2
<1>9. QED
  BY <1>3, <1>4, <1>6, <1>7, <1>8 DEF IInv

(* The node popped is the newest version of the smallest key left.         *)
LEMMA PopWinnerStep == IInv /\ PopWinner => IInv'
<1> SUFFICES ASSUME IInv, PopWinner PROVE IInv'
  OBVIOUS
<1> USE DEF IInv
<1>1. PICK i \in Tops :
        /\ winner' = [key |-> position[i], cell |-> inputs[i].table[position[i]]]
        /\ Advance(i)
  BY DEF PopWinner
<1>2. /\ pc = "pop" /\ pc' = "drain" /\ UNCHANGED <<inputs, purge, output>>
  BY DEF PopWinner
<1>3. /\ i \in heap /\ i \in DOMAIN inputs /\ position[i] \in Key
      /\ position[i] \in Entries(inputs[i].table)
      /\ \A j \in heap :
           /\ position[i] <= position[j]
           /\ position[j] = position[i] => inputs[j].generation <= inputs[i].generation
  BY TopFirst
<1>4. /\ position' \in [DOMAIN inputs -> Key \cup {End}]
      /\ heap' = {j \in DOMAIN inputs : position'[j] # End}
      /\ \A j \in heap' : position'[j] \in Entries(inputs[j].table)
      /\ \A j \in DOMAIN inputs : j # i => position'[j] = position[j]
      /\ position'[i] # End => position[i] < position'[i]
      /\ \A k \in Entries(inputs[i].table) :
           position'[i] = End \/ k < position'[i] => k <= position[i]
  <2>1. UNCHANGED inputs
    BY <1>2
  <2>2. QED
    BY <1>1, <1>3, <2>1, AdvanceStep
<1>5. /\ \A j \in heap : position[j] \in Nat
      /\ \A k \in Key : k \in Nat
      /\ position[i] \in Nat /\ winner'.key = position[i]
  BY <1>1, <1>3, MergeConstants DEF TypeOK
<1>6. winner' \in Record
  <2>1. inputs[i].table \in Table
    BY <1>3, InputsType DEF TypeOK
  <2>2. inputs[i].table[position[i]] \in Written
    BY <1>3, <2>1 DEF Table, Cell, Entries
  <2>3. QED
    BY <1>1, <1>3, <2>2 DEF Record
<1>7. \A k \in Key : Settled(k) <=> k < position[i]
  <2> SUFFICES ASSUME NEW k \in Key
               PROVE  (\A j \in heap : k < position[j]) <=> k < position[i]
    BY <1>2 DEF Settled, Passed
  <2>1. \A j \in heap : k \in Nat /\ position[j] \in Nat /\ position[i] \in Nat
    BY <1>5
  <2>2. QED
    BY <1>3, <2>1
<1>8. \A k \in Key : Settled(k)' <=> k < position[i]
  BY <1>2, <1>5 DEF Settled
<1>9. TypeOK'
  BY <1>2, <1>4, <1>6 DEF TypeOK
<1>10. HeapExact'
  BY <1>2, <1>4 DEF HeapExact
<1>11. LeftBehind'
  <2> SUFFICES ASSUME NEW j \in DOMAIN inputs, NEW k \in Entries(inputs[j].table),
                      position'[j] = End \/ k < position'[j]
               PROVE  k <= position[i]
    <3>1. \A k \in Nat : k <= position[i] => k < position[i] \/ k = position[i]
      BY <1>5
    <3>2. QED
      BY <1>2, <1>5, <1>8, <3>1 DEF LeftBehind, Entries
  <2>1. CASE j = i
    BY <2>1, <1>4
  <2>2. CASE j # i
    <3>1. Settled(k)
      BY <2>2, <1>2, <1>4 DEF LeftBehind
    <3>2. k \in Key
      BY DEF Entries
    <3>3. k < position[i] /\ k \in Nat
      BY <3>1, <3>2, <1>5, <1>7
    <3>4. QED
      BY <3>3, <1>5
  <2>3. QED
    BY <2>1, <2>2
<1>12. i \in Winners(inputs, position[i])
  <2>1. i \in Holders(inputs, position[i])
    BY <1>3 DEF Holders, Entries
  <2>2. ASSUME NEW j \in Holders(inputs, position[i])
        PROVE  inputs[j].generation <= inputs[i].generation
    <3>1. j \in DOMAIN inputs /\ position[i] \in Entries(inputs[j].table)
      BY <1>3 DEF Holders, Entries
    <3>2. ~ Settled(position[i])
      <4>1. ~ (position[i] < position[i])
        BY <1>5
      <4>2. QED
        BY <4>1, <1>3, <1>7
    <3>3. j \in heap /\ position[j] <= position[i]
      BY <3>1, <3>2, <1>2, NotPassed
    <3>4. position[j] = position[i]
      <4>1. position[j] \in Nat /\ position[i] <= position[j]
        BY <3>3, <1>3, <1>5
      <4>2. QED
        BY <3>3, <4>1, <1>5
    <3>5. QED
      BY <3>3, <3>4, <1>3
  <2>3. QED
    BY <2>1, <2>2 DEF Winners
<1>13. WinnerFits'
  <2>1. ASSUME NEW j \in heap' PROVE position[i] <= position'[j]
    <3>1. CASE j = i
      <4>1. position'[i] # End /\ position'[i] \in Nat
        BY <3>1, <2>1, <1>4, <1>9, MergeConstants DEF TypeOK
      <4>2. QED
        BY <3>1, <4>1, <1>4, <1>5
    <3>2. CASE j # i
      <4>1. j \in heap /\ position'[j] = position[j]
        BY <3>2, <2>1, <1>4 DEF HeapExact
      <4>2. QED
        BY <4>1, <1>3
    <3>3. QED
      BY <3>1, <3>2
  <2>2. QED
    BY <2>1, <1>1, <1>2, <1>5, <1>6, <1>12 DEF WinnerFits
<1>14. \A n \in DOMAIN output : output[n].key \in Key
  <2>1. \A n \in DOMAIN output : output[n] \in Record
    BY DEF TypeOK
  <2>2. QED
    BY <2>1 DEF Record
<1>15. OutputSettled' /\ OutputAscends'
  BY <1>2, <1>7, <1>8, <1>14 DEF OutputSettled, OutputAscends
<1>16. MergedSettled'
  <2> SUFFICES ASSUME NEW k \in Key
               PROVE  (IF Settled(k) /\ Holders(inputs, k) # {}
                         THEN Merged(k) \in VersionOf(k) ELSE Merged(k) = Absent)'
    BY DEF MergedSettled
  <2>1. Merged(k)' = Merged(k) /\ VersionOf(k)' = VersionOf(k)
        /\ Holders(inputs, k)' = Holders(inputs, k)
    BY <1>2 DEF Merged, VersionOf
  <2>2. Settled(k)' <=> Settled(k)
    BY <1>7, <1>8
  <2>3. QED
    BY <2>1, <2>2 DEF MergedSettled
<1>17. QED
  BY <1>9, <1>10, <1>11, <1>13, <1>15, <1>16

(* Draining moves iterators past the winner's key and nothing else.        *)
LEMMA DrainDuplicateStep == IInv /\ DrainDuplicate => IInv'
<1> SUFFICES ASSUME IInv, DrainDuplicate PROVE IInv'
  OBVIOUS
<1> USE DEF IInv
<1>1. PICK i \in Tops : position[i] = winner.key /\ Advance(i)
  BY DEF DrainDuplicate
<1>2. pc = "drain" /\ UNCHANGED <<inputs, purge, winner, output, pc>>
  BY DEF DrainDuplicate
<1>3. i \in heap /\ i \in DOMAIN inputs
  BY TopFirst
<1>4. /\ position' \in [DOMAIN inputs -> Key \cup {End}]
      /\ heap' = {j \in DOMAIN inputs : position'[j] # End}
      /\ \A j \in heap' : position'[j] \in Entries(inputs[j].table)
      /\ \A j \in DOMAIN inputs : j # i => position'[j] = position[j]
      /\ position'[i] # End => position[i] < position'[i]
      /\ \A k \in Entries(inputs[i].table) :
           position'[i] = End \/ k < position'[i] => k <= position[i]
  <2>1. UNCHANGED inputs
    BY <1>2
  <2>2. QED
    BY <1>1, <1>3, <2>1, AdvanceStep
<1>5. winner.key \in Nat /\ \A k \in Key : k \in Nat
  BY <1>2, MergeConstants DEF WinnerFits, Record
<1>6. \A k : Settled(k)' <=> Settled(k)
  BY <1>2 DEF Settled
<1>7. TypeOK' /\ HeapExact'
  BY <1>2, <1>4 DEF TypeOK, HeapExact
<1>8. LeftBehind'
  <2> SUFFICES ASSUME NEW j \in DOMAIN inputs, NEW k \in Entries(inputs[j].table),
                      position'[j] = End \/ k < position'[j]
               PROVE  Settled(k) \/ k = winner.key
    BY <1>2, <1>6 DEF LeftBehind
  <2>1. CASE j = i
    <3>1. k <= winner.key /\ k \in Nat
      BY <2>1, <1>1, <1>4, <1>5 DEF Entries
    <3>2. k < winner.key \/ k = winner.key
      BY <3>1, <1>5
    <3>3. QED
      BY <3>2, <1>2 DEF Settled
  <2>2. CASE j # i
    BY <2>2, <1>2, <1>4 DEF LeftBehind
  <2>3. QED
    BY <2>1, <2>2
<1>9. WinnerFits'
  <2>1. ASSUME NEW j \in heap' PROVE winner.key <= position'[j]
    <3>1. CASE j = i
      <4>1. position'[i] # End /\ position'[i] \in Nat
        BY <3>1, <2>1, <1>4, <1>7, MergeConstants DEF TypeOK
      <4>2. QED
        BY <3>1, <4>1, <1>1, <1>4, <1>5
    <3>2. CASE j # i
      <4>1. j \in heap /\ position'[j] = position[j]
        BY <3>2, <2>1, <1>4 DEF HeapExact
      <4>2. QED
        BY <4>1, <1>2 DEF WinnerFits
    <3>3. QED
      BY <3>1, <3>2
  <2>2. QED
    BY <2>1, <1>2 DEF WinnerFits
<1>10. OutputSettled' /\ OutputAscends'
  BY <1>2, <1>6 DEF OutputSettled, OutputAscends
<1>11. MergedSettled'
  <2> SUFFICES ASSUME NEW k \in Key
               PROVE  (IF Settled(k) /\ Holders(inputs, k) # {}
                         THEN Merged(k) \in VersionOf(k) ELSE Merged(k) = Absent)'
    BY DEF MergedSettled
  <2>1. Merged(k)' = Merged(k) /\ VersionOf(k)' = VersionOf(k)
        /\ Holders(inputs, k)' = Holders(inputs, k)
    BY <1>2 DEF Merged, VersionOf
  <2>2. QED
    BY <2>1, <1>6 DEF MergedSettled
<1>12. QED
  BY <1>7, <1>8, <1>9, <1>10, <1>11

(* When the winner is written no node stands on its key any more, and      *)
(* every key up to it is settled.                                          *)
LEMMA EmitStep == IInv /\ Emit => IInv'
<1> SUFFICES ASSUME IInv, Emit PROVE IInv'
  OBVIOUS
<1> USE DEF IInv
<1>1. /\ pc = "drain" /\ pc' = "pop" /\ UNCHANGED <<inputs, purge, position, heap, winner>>
      /\ \A i \in Tops : position[i] # winner.key
      /\ output' = IF purge /\ winner.cell = Tombstone THEN output ELSE Append(output, winner)
  BY DEF Emit
<1>2. /\ winner \in Record /\ winner.key \in Key /\ winner.cell \in Written
      /\ winner.key \in Nat /\ \A k \in Key : k \in Nat
  BY <1>1, MergeConstants DEF WinnerFits, Record
<1>3. ASSUME NEW i \in heap PROVE winner.key < position[i] /\ position[i] \in Nat
  <2>1. \A j \in heap : winner.key <= position[j]
    BY <1>1 DEF WinnerFits
  <2>2. position[i] # winner.key
    BY <1>1, <2>1, TopExists
  <2>3. position[i] \in Nat
    BY MergeConstants DEF TypeOK
  <2>4. QED
    BY <1>2, <2>1, <2>2, <2>3
<1>4. \A k \in Key : (Settled(k) <=> k < winner.key) /\ (Settled(k)' <=> Passed(k))
  BY <1>1 DEF Settled, Passed
<1>5. ASSUME NEW k \in Key, k <= winner.key PROVE Passed(k)
  <2>1. k \in Nat
    BY <1>2
  <2>2. QED
    BY <1>2, <1>3, <1>5, <2>1 DEF Passed
<1>6. \A n \in DOMAIN output : output[n].key < winner.key /\ output[n].key \in Key
  <2>1. \A n \in DOMAIN output : output[n] \in Record
    BY DEF TypeOK
  <2>2. QED
    BY <2>1, <1>4 DEF Record, OutputSettled
<1>7. /\ output' \in Seq(Record) /\ OutputAscends'
      /\ \A k \in Key : Merged(k)' =
           IF k = winner.key /\ ~ (purge /\ winner.cell = Tombstone)
             THEN winner.cell ELSE Merged(k)
  <2>1. CASE purge /\ winner.cell = Tombstone
    BY <2>1, <1>1 DEF TypeOK, OutputAscends, Merged
  <2>2. CASE ~ (purge /\ winner.cell = Tombstone)
    <3>1. output' = Append(output, winner)
      BY <2>2, <1>1
    <3>2. output \in Seq(Record) /\ Ascending(output)
      BY OutputView DEF TypeOK
    <3>3. /\ Append(output, winner) \in Seq(Record)
          /\ Ascending(Append(output, winner))
          /\ \A k \in Key : CellIn(Append(output, winner), k) =
                              IF k = winner.key THEN winner.cell ELSE CellIn(output, k)
      BY <1>2, <1>6, <3>2, CellAppend
    <3>4. OutputAscends' <=> Ascending(output')
      BY DEF OutputAscends, Ascending
    <3>5. \A k : Merged(k)' = CellIn(output', k) /\ Merged(k) = CellIn(output, k)
      BY DEF Merged, CellIn
    <3>6. QED
      BY <2>2, <3>1, <3>3, <3>4, <3>5
  <2>3. QED
    BY <2>1, <2>2
<1>8. TypeOK' /\ HeapExact' /\ WinnerFits'
  BY <1>1, <1>7 DEF TypeOK, HeapExact, WinnerFits
<1>9. LeftBehind'
  <2> SUFFICES ASSUME NEW i \in DOMAIN inputs, NEW k \in Entries(inputs[i].table),
                      position[i] = End \/ k < position[i]
               PROVE  Settled(k)'
    BY <1>1 DEF LeftBehind
  <2>1. k \in Key /\ (Settled(k) \/ k = winner.key)
    BY DEF LeftBehind, Entries
  <2>2. k <= winner.key
    BY <2>1, <1>2, <1>4
  <2>3. QED
    BY <2>1, <2>2, <1>4, <1>5
<1>10. OutputSettled'
  <2>1. Passed(winner.key)
    BY <1>2, <1>5
  <2>2. \A n \in DOMAIN output' : output'[n] = winner \/ (n \in DOMAIN output /\ output'[n] = output[n])
    BY <1>1, <1>2 DEF TypeOK
  <2>3. ASSUME NEW n \in DOMAIN output' PROVE Settled(output[n].key)'
    <3>1. CASE output'[n] = winner
      BY <3>1, <2>1, <1>1 DEF Settled, Passed
    <3>2. CASE n \in DOMAIN output /\ output'[n] = output[n]
      <4>1. output[n].key \in Key /\ output[n].key < winner.key
        BY <3>2, <1>6
      <4>2. Passed(output[n].key)
        BY <4>1, <1>2, <1>5
      <4>3. QED
        BY <4>2, <3>2, <1>1 DEF Settled, Passed
    <3>3. QED
      BY <2>2, <3>1, <3>2
  <2>4. QED
    BY <2>3 DEF OutputSettled
<1>11. MergedSettled'
  <2> SUFFICES ASSUME NEW k \in Key
               PROVE  (IF Settled(k) /\ Holders(inputs, k) # {}
                         THEN Merged(k) \in VersionOf(k) ELSE Merged(k) = Absent)'
    BY DEF MergedSettled
  <2>1. VersionOf(k)' = VersionOf(k) /\ Holders(inputs, k)' = Holders(inputs, k)
    BY <1>1 DEF VersionOf
  <2>2. IF Settled(k) /\ Holders(inputs, k) # {}
          THEN Merged(k) \in VersionOf(k) ELSE Merged(k) = Absent
    BY DEF MergedSettled
  <2>3. k \in Nat
    BY <1>2
  <2>4. CASE k < winner.key
    <3>1. Settled(k) /\ Settled(k)' /\ Merged(k)' = Merged(k)
      BY <2>3, <2>4, <1>2, <1>4, <1>5, <1>7
    <3>2. QED
      BY <2>1, <2>2, <3>1
  <2>5. CASE k = winner.key
    <3>1. Settled(k)' /\ ~ Settled(k)
      BY <2>5, <1>2, <1>4, <1>5
    <3>2. PICK i \in Winners(inputs, k) : winner.cell = inputs[i].table[k]
      BY <2>5, <1>1 DEF WinnerFits
    <3>3. i \in Holders(inputs, k)
      BY DEF Winners
    <3>4. Merged(k)' = IF purge THEN Answer(winner.cell) ELSE winner.cell
      BY <2>2, <2>5, <3>1, <1>2, <1>7, CellsDistinct DEF Answer, Written
    <3>5. Merged(k)' \in VersionOf(k)
      BY <3>2, <3>4 DEF VersionOf
    <3>6. QED
      BY <2>1, <3>1, <3>3, <3>5
  <2>6. CASE winner.key < k
    <3>1. ~ Settled(k) /\ Merged(k)' = Merged(k) /\ k # winner.key
      BY <2>3, <2>6, <1>2, <1>4, <1>7
    <3>2. ASSUME NEW i \in Holders(inputs, k), Passed(k) PROVE FALSE
      <4>1. i \in DOMAIN inputs /\ k \in Entries(inputs[i].table)
        BY DEF Holders, Entries
      <4>2. i \in heap /\ position[i] <= k
        BY <4>1, <3>1, NotPassed
      <4>3. position[i] \in Nat
        BY <4>2, <1>3
      <4>4. QED
        BY <4>2, <4>3, <3>2, <2>3 DEF Passed
    <3>3. QED
      BY <2>1, <2>2, <3>1, <3>2, <1>4
  <2>7. QED
    BY <2>3, <2>4, <2>5, <2>6, <1>2
<1>12. QED
  BY <1>7, <1>8, <1>9, <1>10, <1>11

(* Finish closes the output and changes nothing in it.                     *)
LEMMA FinishStep == IInv /\ Finish => IInv'
<1> SUFFICES ASSUME IInv, Finish PROVE IInv'
  OBVIOUS
<1>1. pc = "pop" /\ pc' = "done" /\ heap = {}
      /\ UNCHANGED <<inputs, purge, position, heap, winner, output>>
  BY DEF Finish
<1>2. \A k : Settled(k)' <=> Settled(k)
  BY <1>1 DEF Settled, Passed
<1>3. TypeOK' /\ HeapExact' /\ WinnerFits' /\ OutputAscends'
  BY <1>1 DEF IInv, TypeOK, HeapExact, WinnerFits, OutputAscends
<1>4. LeftBehind' /\ OutputSettled'
  BY <1>1, <1>2 DEF IInv, LeftBehind, OutputSettled
<1>5. MergedSettled'
  <2> SUFFICES ASSUME NEW k \in Key
               PROVE  (IF Settled(k) /\ Holders(inputs, k) # {}
                         THEN Merged(k) \in VersionOf(k) ELSE Merged(k) = Absent)'
    BY DEF MergedSettled
  <2>1. Merged(k)' = Merged(k) /\ VersionOf(k)' = VersionOf(k)
        /\ Holders(inputs, k)' = Holders(inputs, k)
    BY <1>1 DEF Merged, VersionOf
  <2>2. QED
    BY <2>1, <1>2 DEF IInv, MergedSettled
<1>6. QED
  BY <1>3, <1>4, <1>5 DEF IInv

(* Every step of the merge keeps the invariant.                            *)
LEMMA NextInvariant == IInv /\ [Next]_vars => IInv'
<1> SUFFICES ASSUME IInv, [Next]_vars PROVE IInv'
  OBVIOUS
<1>1. CASE PopWinner
  BY <1>1, PopWinnerStep
<1>2. CASE DrainDuplicate
  BY <1>2, DrainDuplicateStep
<1>3. CASE Emit
  BY <1>3, EmitStep
<1>4. CASE Finish
  BY <1>4, FinishStep
<1>5. CASE UNCHANGED vars
  BY <1>5 DEF IInv, vars, TypeOK, HeapExact, LeftBehind, WinnerFits, OutputSettled,
              OutputAscends, MergedSettled, Settled, Passed, Merged, VersionOf
<1>6. QED
  BY <1>1, <1>2, <1>3, <1>4, <1>5 DEF Next

(* The invariant: what heap, iterators and output hold at each step of the *)
(* loop, for any inputs, ties between generations included.                *)
THEOREM MergeInvariant == Spec => []IInv
<1>1. Init => IInv
  BY InitStep
<1>2. IInv /\ [Next]_vars => IInv'
  BY NextInvariant
<1>3. QED
  BY <1>1, <1>2, PTL DEF Spec

-----------------------------------------------------------------------------
(* The properties.                                                         *)

(* No node is ever read of an iterator that is exhausted.                  *)
THEOREM MergeTypeCorrect == Spec => []TypeOK
<1>1. IInv => TypeOK
  BY DEF IInv
<1>2. QED
  BY <1>1, MergeInvariant, PTL

(* The builder is given each key once, in order, whatever the inputs hold: *)
(* what SSTableReader's search relies on.                                  *)
THEOREM OutputAlwaysAscends == Spec => []OutputAscends
<1>1. IInv => OutputAscends
  BY DEF IInv
<1>2. QED
  BY <1>1, MergeInvariant, PTL

(* Between two keys, every key behind the iterators has been merged to the *)
(* version of a highest generation and every other key is untouched.       *)
THEOREM MergedAlwaysSoFar == Spec => []MergedSoFar
<1>1. IInv => MergedSoFar
  BY DEF IInv, MergedSettled, MergedSoFar, Settled, VersionOf
<1>2. QED
  BY <1>1, MergeInvariant, PTL

(* When the loop is done, every key has been merged.                       *)
LEMMA DoneMerged ==
  ASSUME IInv, pc = "done", NEW k \in Key
  PROVE  IF Holders(inputs, k) # {} THEN Merged(k) \in VersionOf(k)
                                    ELSE Merged(k) = Absent
<1>1. Settled(k)
  BY DEF IInv, HeapExact, Settled, Passed
<1>2. QED
  BY <1>1 DEF IInv, MergedSettled

(* When the heap is empty every key is settled: a finished merge that      *)
(* purges is one of the outcomes that the engine allows.                   *)
LEMMA DoneAllowed ==
  ASSUME IInv, pc = "done", purge = TRUE
  PROVE  [k \in Key |-> Merged(k)] \in CompactOutcomes(inputs)
<1> DEFINE t == [k \in Key |-> Merged(k)]
<1>1. ASSUME NEW k \in Key
      PROVE  IF Holders(inputs, k) = {}
               THEN Merged(k) = Absent
               ELSE \E i \in Winners(inputs, k) : Merged(k) = Answer(inputs[i].table[k])
  BY DoneMerged DEF VersionOf
<1>2. \A k \in Key : Merged(k) \in Cell
  BY <1>1 DEF Answer, Cell, Written
<1>3. t \in Table
  BY <1>2 DEF Table
<1>4. QED
  BY <1>1, <1>3 DEF CompactOutcomes

(* The loop computes one of the results Engine's compaction allows.        *)
THEOREM MergeAllowed == Spec => []ResultAllowed
<1>1. IInv => ResultAllowed
  BY DoneAllowed DEF ResultAllowed, IInv, TypeOK
<1>2. QED
  BY <1>1, MergeInvariant, PTL

(* What a compaction is for: if the inputs are given newest first, their   *)
(* generations falling, then the merged table answers every Get as the     *)
(* search through the inputs did.                                          *)
AnswersAsInputs ==
  /\ pc = "done" /\ purge
  /\ \A i, j \in DOMAIN inputs : i < j => inputs[i].generation > inputs[j].generation
  => \A k \in Key :
       Merged(k) = Answer(Lookup([i \in 1 .. Len(inputs) |-> inputs[i].table], k))

(* A merge of tables given newest first answers as they did.               *)
THEOREM MergeAnswersAsInputs == Spec => []AnswersAsInputs
<1>1. ASSUME IInv PROVE AnswersAsInputs
  <2> SUFFICES ASSUME pc = "done", purge,
                      \A i, j \in DOMAIN inputs :
                        i < j => inputs[i].generation > inputs[j].generation,
                      NEW k \in Key
               PROVE  Merged(k) = Answer(Lookup([i \in 1 .. Len(inputs) |-> inputs[i].table], k))
    BY DEF AnswersAsInputs
  <2> DEFINE t == [x \in Key |-> Merged(x)]
             n == Len(inputs)
  <2>1. t \in CompactOutcomes(inputs)
    BY <1>1, DoneAllowed DEF IInv, TypeOK
  <2>2. n \in Nat /\ DOMAIN inputs = 1 .. n
        /\ \A i \in 1 .. n : inputs[i].generation \in Nat
    BY <1>1, InputsType DEF IInv, TypeOK
  <2>3. t[k] = Merged(k)
    OBVIOUS
  <2> HIDE DEF t, n
  <2>4. t[k] = Answer(Lookup([i \in 1 .. n |-> inputs[i].table], k))
    BY <2>1, <2>2, CompactKeepsNewest
  <2>5. QED
    BY <2>3, <2>4 DEF n
<1>2. QED
  BY <1>1, MergeInvariant, PTL
=============================================================================
