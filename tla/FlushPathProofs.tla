-------------------------- MODULE FlushPathProofs ---------------------------
(***************************************************************************)
(* Proofs about FlushPath and the modules it is built from: the skip list  *)
(* with its iterator, the counters of the memtable and the table file, for *)
(* any set of keys, height, hash, index interval, sizes and bounds.        *)
(*                                                                         *)
(* None of the properties is inductive alone.  The order of the levels     *)
(* rests on the search finding the right predecessors, and that on every   *)
(* node leading to all larger ones: ListOK.  A node on its way is covered  *)
(* by WriterOK, the iterator by ReaderOK, the file by FileOK and Copied.   *)
(* The search is a recursive function; WalkEnds and UpdateFinds say what   *)
(* it computes, arguing by a greatest node, or level, where it differed.   *)
(***************************************************************************)
EXTENDS FlushPath, OrderProofs, SequenceTheorems, FiniteSetTheorems

USE SkipListConstants

(* The nodes a search can stand on at a level.                             *)
Chain(l) == Linked(l) \cup {HeadNode}

(* The node of a level before which a key belongs.                         *)
Before(l, key) == Max({n \in Chain(l) : n < key})

(* Each level ascends, and leads from each of its nodes to all that are    *)
(* larger.                                                                 *)
Ascends ==
  \A l \in Level, n \in Node : forward[l][n] # Nil => forward[l][n] > n

Leads(l, n) ==
  \A m \in Linked(l) : m > n => forward[l][n] # Nil /\ forward[l][n] <= m

Connected == \A l \in Level : \A n \in Chain(l) : Leads(l, n)

Nested == \A l \in Level : l > 0 => Linked(l) \subseteq Linked(l - 1)

(* Nothing is linked above max_height_.                                    *)
Capped == \A l \in Level : l >= maxHeight => Linked(l) = {}

ListOK ==
  /\ forward \in [Level -> [Node -> Key \cup {Nil}]]
  /\ maxHeight \in 1 .. MaxHeight
  /\ Ascends
  /\ Connected
  /\ Nested
  /\ Capped

LEMMA NodeFacts ==
  /\ Node \subseteq Nat
  /\ HeadNode \in Node
  /\ Key \subseteq Node
  /\ Nil \notin Node
  /\ \A k \in Key : k \in Nat /\ k > HeadNode
  /\ HeadNode \in Nat
BY DEF Node

LEMMA ChainFacts ==
  ASSUME NEW l
  PROVE  /\ Linked(l) \subseteq Key
         /\ Chain(l) \subseteq Node
         /\ HeadNode \in Chain(l)
         /\ \A n \in Node : forward[l][n] \in Key => forward[l][n] \in Linked(l)
         /\ \A k \in Linked(l) : k \in Chain(l)
         /\ \A n \in Chain(l) : n # HeadNode => n \in Linked(l)
BY DEF Linked, Chain, Node

(* Before is the greatest node below the key.                              *)
LEMMA BeforeProperty ==
  ASSUME NEW l \in Level, NEW key \in Key
  PROVE  /\ Before(l, key) \in Chain(l)
         /\ Before(l, key) \in Nat
         /\ Before(l, key) < key
         /\ \A n \in Chain(l) : n < key => n <= Before(l, key)
<1> DEFINE S == {n \in Chain(l) : n < key}
<1>1. key \in Nat /\ S \in SUBSET (0 .. key) /\ HeadNode \in S
  <2>1. key \in Nat /\ HeadNode \in Nat /\ HeadNode < key
    BY NodeFacts
  <2>2. \A n \in Chain(l) : n \in Nat
    BY NodeFacts, ChainFacts
  <2>3. HeadNode \in S
    BY <2>1, ChainFacts
  <2>4. \A n \in S : n \in 0 .. key
    BY <2>1, <2>2
  <2>5. QED
    BY <2>1, <2>3, <2>4
<1>2. Max(S) \in S /\ \A j \in S : j <= Max(S)
  <2> HIDE DEF S
  <2> QED
    BY <1>1, MaxProperty
<1>3. QED
  BY <1>1, <1>2 DEF Before

(* A level, entered at a node below the key, is left at the greatest such  *)
(* node: the recursive function Walk is defined by exists, and the nodes   *)
(* at which another one differed would have a greatest.                    *)
LEMMA WalkEnds ==
  ASSUME ListOK, NEW l \in Level, NEW key \in Key, NEW start \in Chain(l), start < key
  PROVE  Walk(key, l)[start] = Before(l, key)
<1> DEFINE Goes(n) == forward[l][n] # Nil /\ forward[l][n] < key
           Step(g) == [n \in Node |-> IF Goes(n) THEN g[forward[l][n]] ELSE n]
           b == Before(l, key)
           f == [n \in Node |-> IF Goes(n) THEN b ELSE n]
           w == CHOOSE g : g = Step(g)
<1>1. \A n \in Node : forward[l][n] \in Key \cup {Nil} /\ (forward[l][n] # Nil => forward[l][n] > n)
  BY DEF ListOK, Ascends
<1>2. b \in Chain(l) /\ b \in Nat /\ b < key /\ \A n \in Chain(l) : n < key => n <= b
  BY BeforeProperty
<1> HIDE DEF b
<1>3. ASSUME NEW n \in Chain(l), n < key, ~ Goes(n) PROVE n = b
  <2>1. n \in Nat /\ n <= b
    BY <1>2, <1>3, NodeFacts, ChainFacts
  <2>2. CASE b > n
    <3>1. b \in Linked(l)
      BY <1>2, <2>1, <2>2, NodeFacts, ChainFacts
    <3>2. forward[l][n] # Nil /\ forward[l][n] <= b
      BY <3>1, <2>2 DEF ListOK, Connected, Leads
    <3>3. forward[l][n] \in Nat
      BY <1>1, <3>2, NodeFacts, ChainFacts
    <3>4. QED
      BY <3>2, <3>3, <1>2, <1>3, NodeFacts
  <2>3. QED
    BY <2>1, <2>2, <1>2
<1>4. ASSUME NEW n \in Node, Goes(n)
      PROVE  forward[l][n] \in Chain(l) /\ forward[l][n] \in Key /\ n < key /\ n \in Nat
  <2>1. forward[l][n] \in Key
    BY <1>1, <1>4
  <2>2. forward[l][n] \in Nat /\ n \in Nat /\ forward[l][n] > n /\ key \in Nat
    BY <2>1, <1>1, <1>4, NodeFacts
  <2>3. n < key
    BY <2>2, <1>4
  <2>4. QED
    BY <2>1, <2>2, <2>3, ChainFacts
<1>5. f = Step(f)
  <2>1. ASSUME NEW n \in Node PROVE f[n] = Step(f)[n]
    <3>1. CASE Goes(n)
      <4>1. f[forward[l][n]] = b
        BY <3>1, <1>3, <1>4, ChainFacts
      <4>2. QED
        BY <3>1, <4>1
    <3>2. CASE ~ Goes(n)
      BY <3>2
    <3>3. QED
      BY <3>1, <3>2
  <2>2. QED
    BY <2>1
<1>6. w = Step(w)
  <2> HIDE DEF f
  <2> QED
    BY <1>5
<1>7. Walk(key, l) = w
  BY DEF Walk
<1> DEFINE S == {n \in Node : n < key /\ w[n] # f[n]}
<1>8. S = {}
  <2>1. SUFFICES ASSUME S # {} PROVE FALSE
    OBVIOUS
  <2>2. S \in SUBSET (0 .. key) /\ key \in Nat
    <3>1. key \in Nat /\ \A n \in S : n \in Nat /\ n < key
      BY NodeFacts
    <3> HIDE DEF S
    <3>2. QED
      BY <3>1
  <2>3. PICK n \in S : \A j \in S : j <= n
    <3> HIDE DEF S
    <3> QED
      BY <2>1, <2>2, MaxProperty
  <2>4. Goes(n)
    <3>1. w[n] = Step(w)[n] /\ n \in Node
      BY <1>6
    <3> HIDE DEF w
    <3>2. QED
      BY <3>1
  <2>5. w[n] = w[forward[l][n]] /\ f[n] = f[forward[l][n]]
    <3>1. w[n] = Step(w)[n] /\ f[n] = Step(f)[n] /\ n \in Node
      BY <1>5, <1>6
    <3> HIDE DEF w, f
    <3>2. QED
      BY <3>1, <2>4
  <2>6. forward[l][n] \in S
    <3>1. forward[l][n] \in Node /\ forward[l][n] < key
      BY <2>4, <1>4, NodeFacts
    <3> HIDE DEF w, f
    <3>2. QED
      BY <2>5, <3>1
  <2>7. forward[l][n] > n /\ forward[l][n] \in Nat /\ n \in Nat
    BY <2>4, <1>1, <1>4, NodeFacts
  <2>8. QED
    BY <2>3, <2>6, <2>7
<1>9. start \in Node
  BY ChainFacts
<1>10. w[start] = f[start]
  <2> HIDE DEF w, f
  <2> QED
    BY <1>8, <1>9
<1>11. f[start] = b
  BY <1>9, <1>3
<1>12. QED
  BY <1>7, <1>10, <1>11 DEF b

(* update[l] is the node before which the key belongs at level l.          *)
LEMMA UpdateFinds ==
  ASSUME ListOK, NEW key \in Key
  PROVE  \A l \in Level : Update(key)[l] = Before(l, key)
<1> DEFINE From(g, l) == IF l = maxHeight - 1 THEN HeadNode ELSE g[l + 1]
           Step(g) == [l \in Level |-> IF l >= maxHeight THEN HeadNode
                                       ELSE Walk(key, l)[From(g, l)]]
           f == [l \in Level |-> Before(l, key)]
           w == CHOOSE g : g = Step(g)
<1>1. maxHeight \in 1 .. MaxHeight /\ MaxHeight \in Nat
  BY DEF ListOK
<1>2. \A l \in Level : l >= maxHeight => Before(l, key) = HeadNode
  <2>1. ASSUME NEW l \in Level, l >= maxHeight PROVE Before(l, key) = HeadNode
    <3>1. Before(l, key) \in Chain(l)
      BY BeforeProperty
    <3>2. QED
      BY <2>1, <3>1 DEF Chain, ListOK, Capped
  <2>2. QED
    BY <2>1
<1>3. ASSUME NEW l \in Level, l < maxHeight
      PROVE  /\ l # maxHeight - 1 => l + 1 \in Level /\ l + 1 < maxHeight
             /\ l \in Nat
  BY <1>1, <1>3 DEF Level
<1>4. ASSUME NEW g, NEW l \in Level, l < maxHeight,
             l # maxHeight - 1 => g[l + 1] = Before(l + 1, key)
      PROVE  Walk(key, l)[From(g, l)] = Before(l, key)
  <2>1. From(g, l) \in Chain(l) /\ From(g, l) < key
    <3>1. CASE l = maxHeight - 1
      BY <3>1, ChainFacts, NodeFacts
    <3>2. CASE l # maxHeight - 1
      <4>1. l + 1 \in Level /\ l \in Nat
        BY <3>2, <1>3, <1>4
      <4>2. Before(l + 1, key) \in Chain(l + 1) /\ Before(l + 1, key) < key
        BY <4>1, BeforeProperty
      <4>3. Linked(l + 1) \subseteq Linked(l)
        <5>1. l + 1 > 0 /\ (l + 1) - 1 = l
          BY <4>1
        <5>2. QED
          BY <4>1, <5>1 DEF ListOK, Nested
      <4>4. QED
        BY <4>2, <4>3, <3>2, <1>4 DEF Chain
    <3>3. QED
      BY <3>1, <3>2
  <2> HIDE DEF From
  <2>2. QED
    BY <2>1, WalkEnds
<1>5. f = Step(f)
  <2>1. ASSUME NEW l \in Level PROVE f[l] = Step(f)[l]
    <3>1. CASE l >= maxHeight
      BY <3>1, <1>2
    <3>2. CASE ~ (l >= maxHeight)
      <4>1. l < maxHeight
        BY <3>2, <1>1 DEF Level
      <4>2. l # maxHeight - 1 => f[l + 1] = Before(l + 1, key)
        BY <4>1, <1>3
      <4> HIDE DEF f
      <4>3. Walk(key, l)[From(f, l)] = Before(l, key)
        BY <4>1, <4>2, <1>4
      <4>4. QED
        BY <4>3, <3>2 DEF f
    <3>3. QED
      BY <3>1, <3>2
  <2>2. QED
    BY <2>1
<1>6. w = Step(w)
  <2> HIDE DEF f
  <2> QED
    BY <1>5
<1>7. Update(key) = w
  BY DEF Update
<1> DEFINE S == {l \in Level : w[l] # f[l]}
<1>8. S = {}
  <2>1. SUFFICES ASSUME S # {} PROVE FALSE
    OBVIOUS
  <2>2. PICK l \in S : \A j \in S : j <= l
    <3>1. S \in SUBSET (0 .. MaxHeight)
      BY <1>1 DEF Level
    <3> HIDE DEF S
    <3>2. QED
      BY <2>1, <3>1, <1>1, MaxProperty
  <2>3. l \in Level /\ w[l] # f[l] /\ w[l] = Step(w)[l] /\ f[l] = Before(l, key)
    BY <1>6
  <2>4. l < maxHeight
    <3> HIDE DEF w, f
    <3>1. ~ (l >= maxHeight)
      BY <2>3, <1>2
    <3>2. QED
      BY <3>1, <2>3, <1>1 DEF Level
  <2>5. l # maxHeight - 1 => w[l + 1] = Before(l + 1, key)
    <3>1. SUFFICES ASSUME l # maxHeight - 1 PROVE w[l + 1] = Before(l + 1, key)
      OBVIOUS
    <3>2. l + 1 \in Level /\ ~ (l + 1 <= l)
      BY <3>1, <2>4, <2>3, <1>3
    <3>3. l + 1 \notin S
      BY <3>2, <2>2
    <3> HIDE DEF w
    <3>4. QED
      BY <3>2, <3>3
  <2>6. ~ (l >= maxHeight)
    BY <2>3, <2>4, <1>1, <1>3
  <2>7. w[l] = Walk(key, l)[From(w, l)]
    <3> HIDE DEF w, From, f
    <3>1. w[l] = Step(w)[l] /\ l \in Level
      BY <2>3
    <3>2. QED
      BY <3>1, <2>6
  <2> HIDE DEF w, From
  <2>8. Walk(key, l)[From(w, l)] = Before(l, key)
    BY <2>3, <2>4, <2>5, <1>4
  <2>9. QED
    BY <2>3, <2>7, <2>8
<1>9. QED
  <2> HIDE DEF w
  <2> QED
    BY <1>7, <1>8

(* Find and FindGreaterOrEqual say whether a key is in the list.           *)
LEMMA FindIff ==
  ASSUME ListOK, NEW key \in Key
  PROVE  Find(key) <=> key \in Linked(0)
<1> DEFINE b == Before(0, key)
<1>1. 0 \in Level
  BY DEF Level
<1>2. b \in Chain(0) /\ b \in Nat /\ b < key /\ \A n \in Chain(0) : n < key => n <= b
  BY <1>1, BeforeProperty
<1>3. Find(key) <=> forward[0][b] = key
  BY <1>1, UpdateFinds DEF Find, FindGreaterOrEqual
<1> HIDE DEF b
<1>4. b \in Node /\ key \in Nat
  BY <1>2, ChainFacts, NodeFacts
<1>5. CASE forward[0][b] = key
  BY <1>3, <1>4, <1>5, ChainFacts
<1>6. CASE key \in Linked(0)
  <2>1. forward[0][b] # Nil /\ forward[0][b] <= key /\ forward[0][b] > b
    BY <1>1, <1>2, <1>4, <1>6 DEF ListOK, Connected, Leads, Ascends
  <2>2. forward[0][b] \in Key
    BY <2>1, <1>1, <1>4 DEF ListOK
  <2>3. forward[0][b] \in Chain(0) /\ forward[0][b] \in Nat
    BY <2>2, <1>4, ChainFacts, NodeFacts
  <2>4. ~ (forward[0][b] < key)
    BY <2>1, <2>3, <1>2
  <2>5. forward[0][b] = key
    BY <2>1, <2>3, <2>4, <1>4
  <2>6. QED
    BY <2>5, <1>3, <1>6
<1>7. QED
  BY <1>3, <1>5, <1>6

(* A node that is not linked at a level has no pointer there, but for the  *)
(* one that is about to be linked.                                         *)
Unlinked ==
  \A l \in Level, n \in Key :
    \/ n \in Linked(l)
    \/ forward[l][n] = Nil
    \/ writer = "link" /\ l = round /\ n = node

(* The node being inserted is linked up to the round the writer is in, and *)
(* points to all that is larger before it is linked.                       *)
WriterOK ==
  /\ writer = "idle" <=> node = Nil
  /\ writer # "idle" => /\ height \in 1 .. MaxHeight
                        /\ round < height
                        /\ \A l \in Level : node \in Linked(l) <=> l < round
  /\ writer = "raise" => height > maxHeight
  /\ writer \in {"point", "link"} => height <= maxHeight
  /\ writer = "link" => Leads(round, node)

(* The iterator stands on a linked node, in its descent below its target.  *)
ReaderOK ==
  /\ present \subseteq Linked(0)
  /\ reader = "out" => present = {}
  /\ reader # "out" => target \in Key \cup {HeadNode}
  /\ reader = "descend" => /\ cursor \in Chain(depth)
                           /\ cursor = HeadNode \/ cursor < target
                           /\ seen = {}
  /\ reader = "at" => cursor = Nil \/ cursor \in Linked(0) \cap seen
  /\ SeekSkipsNothing

SkipListInv ==
  /\ SkipListTypeOK
  /\ ListOK
  /\ Unlinked
  /\ WriterOK
  /\ ReaderOK

LEMMA LevelsFollow == SkipListInv => LevelsNested
BY DEF SkipListInv, ListOK, Ascends, Nested, LevelsNested

(* A level whose pointers do not change has the same nodes.                *)
LEMMA SameLevel ==
  ASSUME NEW l, forward'[l] = forward[l]
  PROVE  /\ Linked(l)' = Linked(l)
         /\ Chain(l)' = Chain(l)
         /\ \A n : Leads(l, n)' <=> Leads(l, n)
<1>1. Linked(l)' = Linked(l)
  BY DEF Linked
<1>2. QED
  BY <1>1 DEF Chain, Leads

(* An insertion only adds nodes, which disturbs no iterator.               *)
LEMMA ReaderKept ==
  ASSUME SkipListInv, UNCHANGED reading,
         \A l \in Level : Linked(l) \subseteq Linked(l)'
  PROVE  ReaderOK'
<1>1. 0 \in Level /\ depth \in Level
  BY DEF Level, SkipListInv, SkipListTypeOK
<1>2. SeekSkipsNothing'
  BY DEF SkipListInv, ReaderOK, SeekSkipsNothing, reading
<1>3. Linked(0) \subseteq Linked(0)' /\ Chain(depth) \subseteq Chain(depth)'
  BY <1>1 DEF Chain, reading
<1>4. QED
  BY <1>2, <1>3 DEF SkipListInv, ReaderOK, reading

-----------------------------------------------------------------------------
(* One lemma per step of the writer.                                       *)

LEMMA StartInsertStep ==
  ASSUME SkipListInv, NEW key \in Key, NEW h \in 1 .. MaxHeight, StartInsert(key, h)
  PROVE  SkipListInv'
<1> USE DEF StartInsert, list
<1>1. \A l : Linked(l)' = Linked(l)
  BY DEF Linked
<1>2. SkipListTypeOK'
  BY DEF SkipListInv, SkipListTypeOK, reading
<1>3. ListOK'
  <2>1. \A l, n : Leads(l, n)' <=> Leads(l, n)
    BY <1>1 DEF Leads
  <2>2. \A l : Chain(l)' = Chain(l)
    BY <1>1 DEF Chain
  <2>3. QED
    BY <1>1, <2>1, <2>2 DEF SkipListInv, ListOK, Ascends, Connected, Nested, Capped
<1>4. Unlinked'
  BY <1>1 DEF SkipListInv, WriterOK, Unlinked
<1>5. WriterOK'
  <2>1. \A l \in Level : key \notin Linked(l)
    <3>1. key \notin Linked(0)
      BY FindIff DEF SkipListInv
    <3> DEFINE S == {l \in Level : key \in Linked(l)}
    <3>2. SUFFICES ASSUME S # {} PROVE FALSE
      OBVIOUS
    <3>3. PICK l \in S : \A j \in S : l <= j
      <4>1. S \in SUBSET Nat
        BY DEF Level
      <4> HIDE DEF S
      <4>2. QED
        BY <3>2, <4>1, MinProperty
    <3>4. l # 0 /\ l \in Level /\ l > 0
      BY <3>1 DEF Level
    <3>5. l - 1 \in Level /\ key \in Linked(l - 1) /\ ~ (l <= l - 1)
      BY <3>4 DEF Level, SkipListInv, ListOK, Nested
    <3>6. QED
      BY <3>3, <3>5
  <2>2. key # Nil /\ h \in Nat
    BY NodeFacts
  <2>3. \A l \in Level : ~ (l < 0)
    BY DEF Level
  <2>4. maxHeight \in Nat
    BY DEF SkipListInv, ListOK
  <2>5. writer' # "idle" /\ height' \in 1 .. MaxHeight /\ round' < height'
    BY <2>2
  <2>6. \A l \in Level : node' \in Linked(l)' <=> l < round'
    BY <2>1, <2>3, <1>1
  <2>7. QED
    BY <2>2, <2>4, <2>5, <2>6 DEF WriterOK
<1>6. ReaderOK'
  BY <1>1, ReaderKept
<1>7. QED
  BY <1>2, <1>3, <1>4, <1>5, <1>6 DEF SkipListInv

LEMMA RaiseHeightStep ==
  ASSUME SkipListInv, RaiseHeight
  PROVE  SkipListInv'
<1> USE DEF RaiseHeight
<1>1. \A l : Linked(l)' = Linked(l)
  BY DEF Linked
<1>2. height \in 1 .. MaxHeight /\ maxHeight \in Nat /\ height > maxHeight /\ MaxHeight \in Nat
  BY DEF SkipListInv, WriterOK, ListOK
<1>3. SkipListTypeOK'
  BY <1>2 DEF SkipListInv, SkipListTypeOK, reading
<1>4. ListOK'
  <2>1. \A l, n : Leads(l, n)' <=> Leads(l, n)
    BY <1>1 DEF Leads
  <2>2. \A l : Chain(l)' = Chain(l)
    BY <1>1 DEF Chain
  <2>3. Capped'
    <3>1. \A l \in Level : l >= height => l >= maxHeight
      BY <1>2 DEF Level
    <3>2. QED
      BY <3>1, <1>1 DEF SkipListInv, ListOK, Capped
  <2>4. QED
    BY <1>1, <1>2, <2>1, <2>2, <2>3 DEF SkipListInv, ListOK, Ascends, Connected, Nested
<1>5. Unlinked'
  BY <1>1 DEF SkipListInv, Unlinked
<1>6. WriterOK'
  BY <1>1, <1>2 DEF SkipListInv, WriterOK
<1>7. ReaderOK'
  BY <1>1, ReaderKept
<1>8. QED
  BY <1>3, <1>4, <1>5, <1>6, <1>7 DEF SkipListInv

(* What the writer knows of its round.                                     *)
LEMMA RoundFacts ==
  ASSUME SkipListInv, writer \in {"point", "link"}
  PROVE  /\ round \in Level /\ round \in Nat /\ round < height
         /\ height \in Nat /\ height <= MaxHeight /\ height <= maxHeight
         /\ node \in Key /\ node \in Nat
         /\ node \notin Linked(round)
         /\ Update(node)[round] = Before(round, node)
         /\ forward[round] \in [Node -> Key \cup {Nil}]
<1>1. round \in 0 .. MaxHeight /\ height \in 1 .. MaxHeight /\ round < height /\ MaxHeight \in Nat
  BY DEF SkipListInv, SkipListTypeOK, WriterOK
<1>2. round \in Level /\ round \in Nat /\ ~ (round < round)
  BY <1>1 DEF Level
<1>3. node \in Key
  BY DEF SkipListInv, SkipListTypeOK, WriterOK
<1>4. Update(node)[round] = Before(round, node)
  BY <1>2, <1>3, UpdateFinds DEF SkipListInv
<1>5. node \notin Linked(round)
  BY <1>2 DEF SkipListInv, WriterOK
<1>6. height <= maxHeight
  BY DEF SkipListInv, WriterOK
<1>7. forward[round] \in [Node -> Key \cup {Nil}]
  BY <1>2 DEF SkipListInv, ListOK
<1>8. QED
  BY <1>1, <1>2, <1>3, <1>4, <1>5, <1>6, <1>7, NodeFacts

(* x->forward[i] = update[i]->forward[i] links nothing yet.                *)
LEMMA PointNodeStep ==
  ASSUME SkipListInv, PointNode
  PROVE  SkipListInv' /\ Linked(0)' = Linked(0)
<1>0. PICK l \in Level, x \in Key : l = round /\ x = node
  BY RoundFacts DEF PointNode
<1> DEFINE u == Before(l, x)
           y == forward[l][u]
<1>1. writer = "point" /\ writer' = "link" /\ UNCHANGED <<maxHeight, node, height, round, reading>>
  BY DEF PointNode
<1>2. /\ l \in Level /\ l \in Nat /\ x \in Key /\ x \in Nat
      /\ x \notin Linked(l) /\ Update(x)[l] = u /\ height <= maxHeight
      /\ forward[l] \in [Node -> Key \cup {Nil}]
      /\ l = round /\ x = node
  BY <1>0, <1>1, RoundFacts
<1>3. /\ u \in Chain(l) /\ u \in Node /\ u \in Nat /\ u < x
      /\ \A n \in Chain(l) : n < x => n <= u
  BY <1>2, BeforeProperty, ChainFacts
<1>4. forward' = [forward EXCEPT ![l][x] = y]
  BY <1>2 DEF PointNode, LevelOf
<1> HIDE DEF u
<1>5. y \in Key \cup {Nil} /\ (y # Nil => y \in Linked(l) /\ y > u)
  BY <1>2, <1>3, ChainFacts DEF SkipListInv, ListOK, Ascends
<1>6. y # Nil => y > x
  <2>1. SUFFICES ASSUME y # Nil PROVE y > x
    OBVIOUS
  <2>2. y \in Linked(l) /\ y \in Nat /\ y \in Chain(l)
    BY <1>5, <2>1, ChainFacts, NodeFacts
  <2>3. y # x /\ ~ (y < x)
    BY <2>2, <1>2, <1>3, <1>5
  <2>4. QED
    BY <2>2, <2>3, <1>2
<1>7. forward[l][x] = Nil
  BY <1>1, <1>2 DEF SkipListInv, Unlinked
<1>8. /\ forward' \in [Level -> [Node -> Key \cup {Nil}]]
      /\ \A j \in Level : j # l => forward'[j] = forward[j]
      /\ \A n \in Node : n # x => forward'[l][n] = forward[l][n]
      /\ forward'[l][x] = y
      /\ x \in Node
  BY <1>2, <1>4, <1>5, NodeFacts DEF SkipListInv, ListOK
<1> HIDE DEF y
<1>9. \A j \in Level : Linked(j)' = Linked(j)
  <2>1. ASSUME NEW j \in Level, j # l PROVE Linked(j)' = Linked(j)
    BY <1>8, <2>1, SameLevel
  <2>2. Linked(l)' = Linked(l)
    <3>1. \A k \in Key : k \in Linked(l)' => k \in Linked(l)
      BY <1>5, <1>8 DEF Linked
    <3>2. \A k \in Key : k \in Linked(l) => k \in Linked(l)'
      BY <1>7, <1>8, NodeFacts DEF Linked
    <3>3. QED
      BY <3>1, <3>2 DEF Linked
  <2>3. QED
    BY <2>1, <2>2
<1>10. \A j \in Level : Chain(j)' = Chain(j)
  BY <1>9 DEF Chain
<1>11. \A j \in Level : \A n \in Chain(j) : Leads(j, n)'
  <2>1. \A j \in Level : \A n \in Chain(j) : n \in Node /\ (j = l => n # x)
    BY <1>2, <1>3, NodeFacts, ChainFacts
  <2>2. \A j \in Level : \A n \in Chain(j) : forward'[j][n] = forward[j][n] /\ Leads(j, n)
    BY <1>8, <2>1 DEF SkipListInv, ListOK, Connected
  <2>3. QED
    BY <2>2, <1>9 DEF Leads
<1>12. Leads(l, x)'
  <2>1. SUFFICES ASSUME NEW m \in Linked(l), m > x PROVE y # Nil /\ y <= m
    BY <1>2, <1>8, <1>9 DEF Leads
  <2>2. m \in Nat
    BY <2>1, ChainFacts, NodeFacts
  <2>3. m > u
    BY <2>1, <2>2, <1>2, <1>3
  <2>4. Leads(l, u)
    BY <1>2, <1>3 DEF SkipListInv, ListOK, Connected
  <2>5. QED
    BY <2>1, <2>3, <2>4 DEF Leads, y
<1>13. Ascends'
  <2>1. ASSUME NEW j \in Level, NEW n \in Node, forward'[j][n] # Nil
        PROVE  forward'[j][n] > n
    <3>1. CASE j = l /\ n = x
      BY <3>1, <2>1, <1>6, <1>8
    <3>2. CASE ~ (j = l /\ n = x)
      BY <3>2, <2>1, <1>8 DEF SkipListInv, ListOK, Ascends
    <3>3. QED
      BY <3>1, <3>2
  <2>2. QED
    BY <2>1 DEF Ascends
<1>14. ListOK'
  <2>1. Connected'
    BY <1>10, <1>11 DEF Connected
  <2>2. \A j \in Level : j > 0 => j - 1 \in Level
    BY DEF Level
  <2>3. Nested'
    BY <2>2, <1>9 DEF SkipListInv, ListOK, Nested
  <2>4. Capped'
    BY <1>1, <1>9 DEF SkipListInv, ListOK, Capped
  <2>5. QED
    BY <1>1, <1>8, <1>13, <2>1, <2>3, <2>4 DEF SkipListInv, ListOK
<1>15. SkipListTypeOK'
  BY <1>1, <1>8 DEF SkipListInv, SkipListTypeOK, reading
<1>16. Unlinked'
  <2>1. ASSUME NEW j \in Level, NEW n \in Key, n \notin Linked(j)
        PROVE  forward'[j][n] = Nil \/ (j = l /\ n = x)
    BY <2>1, <1>1, <1>8, NodeFacts DEF SkipListInv, Unlinked
  <2>2. QED
    BY <2>1, <1>1, <1>2, <1>9 DEF Unlinked
<1>17. WriterOK'
  BY <1>1, <1>2, <1>9, <1>12 DEF SkipListInv, WriterOK
<1>18. ReaderOK'
  BY <1>1, <1>9, ReaderKept
<1>19. Linked(0)' = Linked(0)
  BY <1>9 DEF Level
<1>20. QED
  BY <1>14, <1>15, <1>16, <1>17, <1>18, <1>19 DEF SkipListInv

(* update[i]->forward[i] = x adds the node to one level, between the node  *)
(* it belongs behind and what that one pointed to.                         *)
LEMMA LinkNodeStep ==
  ASSUME SkipListInv, LinkNode
  PROVE  SkipListInv' /\ Linked(0)' = Linked(0) \cup {node}
<1>0. PICK l \in Level, x \in Key : l = round /\ x = node
  BY RoundFacts DEF LinkNode
<1> DEFINE u == Before(l, x)
<1>1. writer = "link" /\ UNCHANGED <<maxHeight, reading>>
  BY DEF LinkNode
<1>2. /\ l \in Level /\ l \in Nat /\ x \in Key /\ x \in Nat
      /\ x \notin Linked(l) /\ Update(x)[l] = u /\ height <= maxHeight
      /\ forward[l] \in [Node -> Key \cup {Nil}]
      /\ l < height /\ height \in Nat
      /\ l = round /\ x = node
  BY <1>0, <1>1, RoundFacts
<1>3. /\ u \in Chain(l) /\ u \in Node /\ u \in Nat /\ u < x
      /\ \A n \in Chain(l) : n < x => n <= u
  BY <1>2, BeforeProperty, ChainFacts
<1>4. forward' = [forward EXCEPT ![l][u] = x]
  BY <1>2 DEF LinkNode, LevelOf
<1> HIDE DEF u
<1>5. /\ forward' \in [Level -> [Node -> Key \cup {Nil}]]
      /\ \A j \in Level : j # l => forward'[j] = forward[j]
      /\ \A n \in Node : n # u => forward'[l][n] = forward[l][n]
      /\ forward'[l][u] = x
      /\ x \in Node
  BY <1>2, <1>3, <1>4, NodeFacts DEF SkipListInv, ListOK
<1>6. \A n \in Node : forward[l][n] # Nil => forward[l][n] \in Linked(l) /\ forward[l][n] > n /\ forward[l][n] \in Nat
  BY <1>2, ChainFacts, NodeFacts DEF SkipListInv, ListOK, Ascends
<1>7. \A n \in Chain(l) : n \in Node /\ n \in Nat /\ n # x /\ Leads(l, n)
  <2>1. \A n \in Chain(l) : Leads(l, n)
    BY <1>2 DEF SkipListInv, ListOK, Connected
  <2>2. \A n \in Chain(l) : n \in Node /\ n \in Nat
    BY NodeFacts, ChainFacts
  <2>3. x # HeadNode
    BY <1>2, NodeFacts
  <2>4. QED
    BY <2>1, <2>2, <2>3, <1>2 DEF Chain
<1>8. Leads(l, x)
  BY <1>0, <1>1 DEF SkipListInv, WriterOK
(* What the predecessor pointed to, the node points to.                    *)
<1>9. forward[l][u] = forward[l][x]
  <2>1. CASE forward[l][u] = Nil
    <3>1. forward[l][x] = Nil
      <4>1. SUFFICES ASSUME forward[l][x] # Nil PROVE FALSE
        OBVIOUS
      <4>2. forward[l][x] \in Linked(l) /\ forward[l][x] > u
        BY <4>1, <1>2, <1>3, <1>5, <1>6
      <4>3. QED
        BY <4>2, <2>1, <1>3, <1>7 DEF Leads
    <3>2. QED
      BY <2>1, <3>1
  <2>2. CASE forward[l][u] # Nil
    <3>1. forward[l][u] \in Linked(l) /\ forward[l][u] > u /\ forward[l][u] \in Nat
      BY <2>2, <1>3, <1>6
    <3>2. forward[l][u] > x
      <4>1. forward[l][u] # x /\ ~ (forward[l][u] < x)
        BY <3>1, <1>2, <1>3, ChainFacts
      <4>2. QED
        BY <4>1, <3>1, <1>2
    <3>3. forward[l][x] # Nil /\ forward[l][x] <= forward[l][u]
      BY <3>1, <3>2, <1>8 DEF Leads
    <3>4. forward[l][x] \in Linked(l) /\ forward[l][x] > u /\ forward[l][x] \in Nat
      BY <3>3, <1>2, <1>3, <1>5, <1>6
    <3>5. forward[l][u] <= forward[l][x]
      BY <3>4, <1>3, <1>7 DEF Leads
    <3>6. QED
      BY <3>1, <3>3, <3>4, <3>5
  <2>3. QED
    BY <2>1, <2>2
<1>10. Linked(l)' = Linked(l) \cup {x}
  <2>1. \A k \in Key : k \in Linked(l)' => k \in Linked(l) \/ k = x
    BY <1>5 DEF Linked
  <2>2. \A k \in Key : k \in Linked(l) => k \in Linked(l)'
    <3>1. SUFFICES ASSUME NEW k \in Key, NEW n \in Node, forward[l][n] = k
                   PROVE  k \in Linked(l)'
      BY DEF Linked
    <3>2. CASE n = u
      <4>1. u # x
        BY <1>2, <1>3
      <4>2. forward'[l][x] = k
        BY <3>1, <3>2, <4>1, <1>5, <1>9
      <4>3. QED
        BY <4>2, <1>5 DEF Linked
    <3>3. CASE n # u
      BY <3>1, <3>3, <1>5 DEF Linked
    <3>4. QED
      BY <3>2, <3>3
  <2>3. x \in Linked(l)'
    BY <1>2, <1>3, <1>5 DEF Linked
  <2>4. QED
    BY <2>1, <2>2, <2>3 DEF Linked
<1>11. \A j \in Level : j # l => Linked(j)' = Linked(j) /\ Chain(j)' = Chain(j)
                                 /\ \A n : Leads(j, n)' <=> Leads(j, n)
  BY <1>5, SameLevel
<1>12. Ascends'
  <2>1. ASSUME NEW j \in Level, NEW n \in Node, forward'[j][n] # Nil
        PROVE  forward'[j][n] > n
    <3>1. CASE j = l /\ n = u
      BY <3>1, <1>2, <1>3, <1>5
    <3>2. CASE ~ (j = l /\ n = u)
      BY <3>2, <2>1, <1>5 DEF SkipListInv, ListOK, Ascends
    <3>3. QED
      BY <3>1, <3>2
  <2>2. QED
    BY <2>1 DEF Ascends
<1>13. Connected'
  <2>1. ASSUME NEW n \in Chain(l) \cup {x} PROVE Leads(l, n)'
    <3>1. SUFFICES ASSUME NEW m \in Linked(l) \cup {x}, m > n
                   PROVE  forward'[l][n] # Nil /\ forward'[l][n] <= m
      BY <1>10 DEF Leads
    <3>2. m \in Nat /\ n \in Nat /\ n \in Node
      BY <1>2, <1>5, <1>7, ChainFacts
    <3>3. CASE n = u
      <4>1. forward'[l][n] = x /\ x # Nil
        BY <3>3, <1>2, <1>5, NodeFacts
      <4>2. ~ (m < x)
        BY <3>1, <3>2, <3>3, <1>3, ChainFacts
      <4>3. QED
        BY <4>1, <4>2, <3>2, <1>2
    <3>4. CASE n = x
      <4>1. forward'[l][n] = forward[l][x] /\ m \in Linked(l)
        BY <3>1, <3>2, <3>4, <1>2, <1>3, <1>5
      <4>2. QED
        BY <4>1, <3>1, <3>4, <1>8 DEF Leads
    <3>5. CASE n # u /\ n # x
      <4>1. n \in Chain(l) /\ forward'[l][n] = forward[l][n]
        BY <3>2, <3>5, <1>5
      <4>2. CASE m \in Linked(l)
        BY <4>1, <4>2, <3>1, <1>7 DEF Leads
      <4>3. CASE m = x
        <5>1. n < u
          BY <4>1, <4>3, <3>1, <3>2, <3>5, <1>2, <1>3
        <5>2. u \in Linked(l)
          BY <5>1, <3>2, <1>3, ChainFacts, NodeFacts
        <5>3. forward[l][n] # Nil /\ forward[l][n] <= u
          BY <5>1, <5>2, <4>1, <3>2, <1>3, <1>7 DEF Leads
        <5>4. QED
          BY <5>3, <4>1, <4>3, <3>2, <1>2, <1>3, <1>6
      <4>4. QED
        BY <4>2, <4>3
    <3>6. QED
      BY <3>3, <3>4, <3>5
  <2>2. Chain(l)' = Chain(l) \cup {x}
    BY <1>10 DEF Chain
  <2>3. QED
    BY <2>1, <2>2, <1>11 DEF SkipListInv, ListOK, Connected
<1>14. Nested'
  <2>1. ASSUME NEW j \in Level, j > 0 PROVE Linked(j)' \subseteq Linked(j - 1)'
    <3>1. j - 1 \in Level /\ j \in Nat
      BY <2>1 DEF Level
    <3>2. Linked(j) \subseteq Linked(j - 1)
      BY <2>1 DEF SkipListInv, ListOK, Nested
    <3>3. Linked(j - 1) \subseteq Linked(j - 1)'
      BY <3>1, <1>10, <1>11
    <3>4. CASE j = l
      <4>1. x \in Linked(j - 1)
        <5>1. j - 1 < l
          BY <3>1, <3>4
        <5>2. QED
          BY <5>1, <3>1, <1>0, <1>1 DEF SkipListInv, WriterOK
      <4>2. QED
        BY <4>1, <3>2, <3>3, <3>4, <1>10
    <3>5. CASE j # l
      BY <3>2, <3>3, <3>5, <1>11
    <3>6. QED
      BY <3>4, <3>5
  <2>2. QED
    BY <2>1 DEF Nested
<1>15. Capped'
  <2>1. maxHeight \in Nat
    BY DEF SkipListInv, ListOK
  <2>2. ~ (l >= maxHeight)
    BY <2>1, <1>2
  <2>3. QED
    BY <2>2, <1>1, <1>11 DEF SkipListInv, ListOK, Capped
<1>16. ListOK'
  BY <1>1, <1>5, <1>12, <1>13, <1>14, <1>15 DEF SkipListInv, ListOK
<1>17. \A j \in Level, n \in Key : n \in Linked(j)' \/ forward'[j][n] = Nil
  <2>1. SUFFICES ASSUME NEW j \in Level, NEW n \in Key, n \notin Linked(j)'
                 PROVE  forward'[j][n] = Nil
    OBVIOUS
  <2>2. n \in Node /\ n # HeadNode /\ n \in Nat
    BY NodeFacts
  <2>3. n \notin Linked(j) /\ (j = l => n # x)
    BY <2>1, <1>10, <1>11
  <2>4. j = l => n # u
    BY <2>2, <2>3, <1>3, ChainFacts
  <2>5. forward'[j][n] = forward[j][n]
    BY <2>2, <2>4, <1>5
  <2>6. QED
    BY <2>3, <2>5, <1>2 DEF SkipListInv, Unlinked
<1>18. Unlinked'
  BY <1>17 DEF Unlinked
<1>19. height \in 1 .. MaxHeight /\ height > l /\ MaxHeight \in Nat
  BY <1>1, <1>2 DEF SkipListInv, WriterOK
<1>20. SkipListTypeOK' /\ WriterOK'
  <2>1. CASE l + 1 < height
    <3>1. round' = l + 1 /\ writer' = "point" /\ UNCHANGED <<node, height>>
      BY <2>1, <1>0 DEF LinkNode
    <3>2. SkipListTypeOK'
      <4>1. l + 1 \in 0 .. MaxHeight
        BY <2>1, <1>2, <1>19
      <4>2. QED
        BY <4>1, <3>1, <1>1, <1>5 DEF SkipListInv, SkipListTypeOK, reading
    <3>3. \A j \in Level : x \in Linked(j)' <=> j < l + 1
      <4>1. ASSUME NEW j \in Level PROVE x \in Linked(j)' <=> j < l + 1
        <5>1. j \in Nat
          BY DEF Level
        <5>2. CASE j = l
          BY <5>1, <5>2, <1>2, <1>10
        <5>3. CASE j # l
          <6>1. x \in Linked(j) <=> j < l
            BY <1>0, <1>1 DEF SkipListInv, WriterOK
          <6>2. j < l <=> j < l + 1
            BY <5>1, <5>3, <1>2
          <6>3. QED
            BY <6>1, <6>2, <5>3, <1>11
        <5>4. QED
          BY <5>2, <5>3
      <4>2. QED
        BY <4>1
    <3>4. WriterOK'
      BY <3>1, <3>3, <2>1, <1>1, <1>2, <1>19, NodeFacts DEF WriterOK
    <3>5. QED
      BY <3>2, <3>4
  <2>2. CASE ~ (l + 1 < height)
    <3>1. round' = 0 /\ writer' = "idle" /\ node' = Nil /\ height' = 0
      BY <2>2, <1>0 DEF LinkNode
    <3>2. 0 \in 0 .. MaxHeight
      BY <1>19
    <3>3. SkipListTypeOK'
      BY <3>1, <3>2, <1>1, <1>5 DEF SkipListInv, SkipListTypeOK, reading
    <3>4. QED
      BY <3>1, <3>3 DEF WriterOK
  <2>3. QED
    BY <2>1, <2>2
<1>21. ReaderOK'
  <2>1. \A j \in Level : Linked(j) \subseteq Linked(j)'
    BY <1>10, <1>11
  <2>2. QED
    BY <2>1, <1>1, ReaderKept
<1>22. Linked(0)' = Linked(0) \cup {x}
  <2>1. CASE l = 0
    BY <2>1, <1>10
  <2>2. CASE l # 0
    <3>1. 0 \in Level /\ 0 < l
      BY <2>2, <1>2 DEF Level
    <3>2. x \in Linked(0)
      BY <3>1, <1>0, <1>1 DEF SkipListInv, WriterOK
    <3>3. QED
      BY <3>1, <3>2, <2>2, <1>11
  <2>3. QED
    BY <2>1, <2>2
<1>23. QED
  BY <1>0, <1>16, <1>18, <1>20, <1>21, <1>22 DEF SkipListInv

(* The first list gets its node at some step, at the latest at the last.   *)
LEMMA InsertSteps ==
  ASSUME SkipListInv, InsertStep
  PROVE  /\ SkipListInv'
         /\ Linked(0)' = Linked(0) \/ Linked(0)' = Linked(0) \cup {node}
         /\ writer' = "idle" => Linked(0)' = Linked(0) \cup {node}
<1>1. RaiseHeight => Linked(0)' = Linked(0)
  BY DEF RaiseHeight, Linked
<1>2. QED
  BY <1>1, RaiseHeightStep, PointNodeStep, LinkNodeStep
  DEF InsertStep, RaiseHeight, PointNode

-----------------------------------------------------------------------------
(* One lemma per step of the iterator, which changes nothing but its own   *)
(* state.                                                                  *)

LEMMA ListKept ==
  ASSUME SkipListInv, UNCHANGED <<list, inserting>>
  PROVE  /\ ListOK' /\ Unlinked' /\ WriterOK'
         /\ \A l : Linked(l)' = Linked(l) /\ Chain(l)' = Chain(l)
<1>1. \A l : Linked(l)' = Linked(l) /\ Chain(l)' = Chain(l)
  BY DEF Linked, Chain, list
<1>2. \A l, n : Leads(l, n)' <=> Leads(l, n)
  BY <1>1 DEF Leads, list
<1>3. ListOK'
  BY <1>1, <1>2 DEF SkipListInv, ListOK, Ascends, Connected, Nested, Capped, list
<1>4. Unlinked' /\ WriterOK'
  BY <1>1, <1>2 DEF SkipListInv, Unlinked, WriterOK, list, inserting
<1>5. QED
  BY <1>1, <1>3, <1>4

LEMMA SeekStep ==
  ASSUME SkipListInv, NEW key \in Key \cup {HeadNode}, Seek(key)
  PROVE  SkipListInv'
<1>1. ListOK' /\ Unlinked' /\ WriterOK' /\ \A l : Linked(l)' = Linked(l) /\ Chain(l)' = Chain(l)
  BY ListKept DEF Seek
<1>2. maxHeight - 1 \in Level
  BY DEF SkipListInv, ListOK, Level
<1>3. SkipListTypeOK'
  BY <1>2, ChainFacts, NodeFacts DEF SkipListInv, SkipListTypeOK, Seek, list, inserting
<1>4. ReaderOK'
  BY <1>1, ChainFacts DEF ReaderOK, SeekSkipsNothing, Seek
<1>5. QED
  BY <1>1, <1>3, <1>4 DEF SkipListInv

(* Where the iterator arrives from node n, every larger node of the list   *)
(* is still ahead of it.                                                   *)
LEMMA NextOf ==
  ASSUME SkipListInv, NEW n \in Chain(0)
  PROVE  /\ n \in Nat
         /\ forward[0][n] \in Linked(0) \cup {Nil}
         /\ forward[0][n] # Nil => forward[0][n] > n /\ forward[0][n] \in Nat
         /\ \A m \in Linked(0) :
              m > n => forward[0][n] # Nil /\ forward[0][n] <= m
<1>1. 0 \in Level /\ n \in Node /\ n \in Nat
  BY ChainFacts, NodeFacts DEF Level
<1>2. forward[0][n] \in Key \cup {Nil}
  BY <1>1 DEF SkipListInv, ListOK
<1>3. Leads(0, n) /\ (forward[0][n] # Nil => forward[0][n] > n)
  BY <1>1 DEF SkipListInv, ListOK, Connected, Ascends
<1>4. QED
  BY <1>1, <1>2, <1>3, ChainFacts, NodeFacts DEF Leads

LEMMA DescendStep ==
  ASSUME SkipListInv, Descend
  PROVE  SkipListInv'
<1>1. ListOK' /\ Unlinked' /\ WriterOK' /\ \A l : Linked(l)' = Linked(l) /\ Chain(l)' = Chain(l)
  BY ListKept DEF Descend
<1>2. /\ reader = "descend" /\ depth \in Level /\ depth \in Nat
      /\ target \in Key \cup {HeadNode} /\ target \in Nat
      /\ cursor \in Chain(depth) /\ (cursor = HeadNode \/ cursor < target)
      /\ seen = {} /\ present \subseteq Linked(0)
      /\ cursor \in Node /\ cursor \in Nat
      /\ UNCHANGED <<target, present, list, inserting>>
  BY ChainFacts, NodeFacts DEF SkipListInv, SkipListTypeOK, ReaderOK, Descend, Level
<1>3. forward[depth][cursor] \in Key \cup {Nil}
  BY <1>2 DEF SkipListInv, ListOK
<1>4. CASE Below /\ cursor' = forward[depth][cursor] /\ UNCHANGED <<reader, depth, seen>>
  <2>1. cursor' \in Linked(depth) /\ cursor' \in Key /\ cursor' < target
    BY <1>2, <1>3, <1>4, ChainFacts DEF Below
  <2>2. SkipListTypeOK'
    BY <2>1, <1>2, <1>4, NodeFacts DEF SkipListInv, SkipListTypeOK, list, inserting
  <2>3. ReaderOK'
    BY <2>1, <1>1, <1>2, <1>4, ChainFacts DEF ReaderOK, SeekSkipsNothing
  <2>4. QED
    BY <2>2, <2>3, <1>1 DEF SkipListInv
<1>5. CASE ~ Below /\ depth > 0 /\ depth' = depth - 1 /\ UNCHANGED <<reader, cursor, seen>>
  <2>1. depth - 1 \in Level
    BY <1>2, <1>5 DEF Level
  <2>2. cursor \in Chain(depth - 1)
    BY <1>2, <1>5 DEF SkipListInv, ListOK, Nested, Chain
  <2>3. SkipListTypeOK'
    BY <2>1, <1>2, <1>5 DEF SkipListInv, SkipListTypeOK, list, inserting
  <2>4. ReaderOK'
    BY <2>2, <1>1, <1>2, <1>5 DEF ReaderOK, SeekSkipsNothing
  <2>5. QED
    BY <2>3, <2>4, <1>1 DEF SkipListInv
<1>6. CASE ~ Below /\ depth = 0 /\ Arrive(forward[0][cursor])
  <2> DEFINE n == forward[0][cursor]
  <2>1. /\ n \in Linked(0) \cup {Nil}
        /\ n # Nil => n \in Nat /\ n >= target
        /\ \A m \in Linked(0) : m > cursor => n # Nil /\ n <= m
    <3>1. ~ Below <=> ~ (n # Nil /\ n < target)
      BY <1>6 DEF Below
    <3>2. cursor \in Chain(0)
      BY <1>2, <1>6
    <3>3. /\ n \in Linked(0) \cup {Nil}
          /\ n # Nil => n \in Nat
          /\ \A m \in Linked(0) : m > cursor => n # Nil /\ n <= m
      BY <3>2, NextOf
    <3> HIDE DEF n
    <3>4. QED
      BY <3>1, <3>3, <1>2, <1>6
  <2>2. /\ cursor' = n /\ reader' = "at" /\ depth' = 0
        /\ seen' = IF n = Nil THEN {} ELSE {n}
    BY <1>2, <1>6 DEF Arrive
  <2> HIDE DEF n
  <2>3. SkipListTypeOK'
    <3>1. n \in Key \cup {Nil} /\ 0 \in Level
      BY <2>1, ChainFacts, <1>2 DEF Level
    <3>2. QED
      BY <3>1, <2>2, <1>2, NodeFacts DEF SkipListInv, SkipListTypeOK, list, inserting
  <2>4. \A k \in present : k >= target => n # Nil /\ n <= k
    <3>1. SUFFICES ASSUME NEW k \in present, k >= target PROVE n # Nil /\ n <= k
      OBVIOUS
    <3>2. k \in Linked(0) /\ k \in Nat /\ k > HeadNode /\ HeadNode \in Nat
      BY <3>1, <1>2, ChainFacts, NodeFacts
    <3>3. k > cursor
      BY <3>1, <3>2, <1>2
    <3>4. QED
      BY <3>2, <3>3, <2>1
  <2>5. SeekSkipsNothing'
    <3>1. \A k \in present : k >= target /\ (n = Nil \/ k < n) => k \in seen'
      <4>1. SUFFICES ASSUME NEW k \in present, k >= target, n = Nil \/ k < n PROVE FALSE
        OBVIOUS
      <4>2. n # Nil /\ n <= k /\ k \in Nat /\ n \in Nat
        BY <4>1, <2>1, <2>4, <1>2, ChainFacts, NodeFacts
      <4>3. QED
        BY <4>1, <4>2
    <3>2. \A k \in seen' : k >= target /\ (n = Nil \/ k <= n)
      BY <2>1, <2>2
    <3>3. QED
      BY <3>1, <3>2, <2>2, <1>2 DEF SeekSkipsNothing
  <2>6. ReaderOK'
    BY <2>1, <2>2, <2>5, <1>1, <1>2 DEF ReaderOK
  <2>7. QED
    BY <2>3, <2>6, <1>1 DEF SkipListInv
<1>7. QED
  BY <1>4, <1>5, <1>6 DEF Descend

LEMMA AdvanceStep ==
  ASSUME SkipListInv, Advance
  PROVE  SkipListInv'
<1> DEFINE n == forward[0][cursor]
<1>1. ListOK' /\ Unlinked' /\ WriterOK' /\ \A l : Linked(l)' = Linked(l) /\ Chain(l)' = Chain(l)
  BY ListKept DEF Advance
<1>2. /\ reader = "at" /\ cursor \in Linked(0) /\ cursor \in seen /\ cursor \in Chain(0)
      /\ target \in Key \cup {HeadNode} /\ target \in Nat
      /\ present \subseteq Linked(0) /\ seen \subseteq Key
      /\ SeekSkipsNothing
      /\ UNCHANGED <<target, present, list, inserting>>
  BY ChainFacts, NodeFacts DEF SkipListInv, SkipListTypeOK, ReaderOK, Advance
<1>3. /\ cursor \in Nat /\ n \in Linked(0) \cup {Nil}
      /\ n # Nil => n \in Nat /\ n > cursor
      /\ \A m \in Linked(0) : m > cursor => n # Nil /\ n <= m
  BY <1>2, NextOf
<1>4. /\ cursor' = n /\ reader' = "at" /\ depth' = 0
      /\ seen' = IF n = Nil THEN seen ELSE seen \cup {n}
  BY DEF Advance, Arrive
<1> HIDE DEF n
<1>5. cursor # Nil
  BY DEF Advance
<1>6. SkipListTypeOK'
  <2>1. n \in Key \cup {Nil} /\ 0 \in Level
    BY <1>3, ChainFacts DEF Level
  <2>2. QED
    BY <2>1, <1>2, <1>4, NodeFacts DEF SkipListInv, SkipListTypeOK, list, inserting
<1>7. SeekSkipsNothing'
  <2>1. ASSUME NEW k \in present, k >= target, n = Nil \/ k < n PROVE k \in seen
    <3>1. k \in Linked(0) /\ k \in Nat
      BY <2>1, <1>2, ChainFacts, NodeFacts
    <3>2. ~ (k > cursor)
      <4>1. SUFFICES ASSUME k > cursor PROVE FALSE
        OBVIOUS
      <4>2. n # Nil /\ n <= k /\ n \in Nat
        BY <4>1, <3>1, <1>3
      <4>3. QED
        BY <4>2, <2>1, <3>1
    <3>3. CASE k = cursor
      BY <3>3, <1>2
    <3>4. CASE k < cursor
      BY <3>4, <2>1, <1>2 DEF SeekSkipsNothing
    <3>5. QED
      BY <3>1, <3>2, <3>3, <3>4, <1>3
  <2>2. ASSUME NEW k \in seen' PROVE k >= target /\ (n = Nil \/ k <= n)
    <3>1. \A j \in seen : j >= target /\ j <= cursor /\ j \in Nat
      BY <1>2, <1>5, NodeFacts DEF SeekSkipsNothing
    <3>2. CASE k \in seen
      <4>1. k \in Nat /\ k >= target /\ k <= cursor
        BY <3>1, <3>2
      <4>2. QED
        BY <4>1, <1>3
    <3>3. CASE k \notin seen
      <4>1. n # Nil /\ k = n
        BY <3>3, <2>2, <1>4
      <4>2. cursor >= target
        BY <3>1, <1>2
      <4>3. QED
        BY <4>1, <4>2, <1>2, <1>3
    <3>4. QED
      BY <3>2, <3>3
  <2>3. QED
    BY <2>1, <2>2, <1>2, <1>4 DEF SeekSkipsNothing
<1>8. ReaderOK'
  BY <1>1, <1>2, <1>3, <1>4, <1>7 DEF ReaderOK
<1>9. QED
  BY <1>1, <1>6, <1>8 DEF SkipListInv

LEMMA LeaveStep ==
  ASSUME SkipListInv, Leave
  PROVE  SkipListInv'
<1>1. ListOK' /\ Unlinked' /\ WriterOK'
  BY ListKept DEF Leave
<1>2. SkipListTypeOK'
  BY DEF SkipListInv, SkipListTypeOK, Leave, list, inserting, Level
<1>3. ReaderOK'
  BY DEF ReaderOK, SeekSkipsNothing, Leave
<1>4. QED
  BY <1>1, <1>2, <1>3 DEF SkipListInv

LEMMA ReaderSteps ==
  ASSUME SkipListInv, ReaderStep
  PROVE  SkipListInv' /\ Linked(0)' = Linked(0)
<1>1. UNCHANGED <<list, inserting>>
  BY DEF ReaderStep, Descend, Advance, Leave
<1>2. Linked(0)' = Linked(0)
  BY <1>1, ListKept
<1>3. SkipListInv'
  BY DescendStep, AdvanceStep, LeaveStep DEF ReaderStep
<1>4. QED
  BY <1>2, <1>3

(* An empty list has everything the invariant asks of it.                  *)
IsEmptyList ==
  /\ \A l \in Level : Linked(l) = {}
  /\ ListOK
  /\ \A l \in Level, n \in Node : forward[l][n] = Nil

LEMMA EmptyListFacts == forward = EmptyList /\ maxHeight = 1 => IsEmptyList
<1> SUFFICES ASSUME forward = EmptyList, maxHeight = 1 PROVE IsEmptyList
  OBVIOUS
<1>1. \A l \in Level, n \in Node : forward[l][n] = Nil
  BY DEF EmptyList
<1>2. \A l \in Level : Linked(l) = {}
  <2>1. Nil \notin Key
    BY NodeFacts
  <2>2. QED
    BY <1>1, <2>1 DEF Linked
<1>3. ListOK
  <2>1. \A l \in Level : l > 0 => l - 1 \in Level
    BY DEF Level
  <2>2. forward \in [Level -> [Node -> Key \cup {Nil}]]
    BY DEF EmptyList
  <2>3. QED
    BY <1>1, <1>2, <2>1, <2>2 DEF ListOK, Ascends, Connected, Leads, Nested, Capped
<1>4. QED
  BY <1>1, <1>2, <1>3 DEF IsEmptyList

LEMMA SkipListStarts == InitSkipList => SkipListInv
<1> SUFFICES ASSUME InitSkipList PROVE SkipListInv
  OBVIOUS
<1>1. /\ \A l \in Level : Linked(l) = {}
      /\ ListOK
      /\ \A l \in Level, n \in Node : forward[l][n] = Nil
  BY EmptyListFacts DEF InitSkipList, IsEmptyList
<1>2. SkipListTypeOK
  BY <1>1 DEF SkipListTypeOK, InitSkipList, ListOK, Level
<1>3. Unlinked /\ WriterOK /\ ReaderOK
  BY <1>1, NodeFacts DEF Unlinked, WriterOK, ReaderOK, SeekSkipsNothing, InitSkipList
<1>4. QED
  BY <1>1, <1>2, <1>3 DEF SkipListInv

LEMMA ClearStep ==
  ASSUME SkipListInv, Clear
  PROVE  SkipListInv' /\ Linked(0)' = {}
<1> USE DEF Clear
<1>1. /\ \A l \in Level : Linked(l)' = {}
      /\ ListOK'
      /\ \A l \in Level, n \in Node : forward'[l][n] = Nil
  <2>1. (forward = EmptyList /\ maxHeight = 1)'
    BY DEF Clear
  <2>2. IsEmptyList'
    BY <2>1, EmptyListFacts, PTL
  <2>3. QED
    BY <2>2 DEF IsEmptyList
<1>2. SkipListTypeOK'
  BY <1>1 DEF SkipListInv, SkipListTypeOK, ListOK, inserting, reading
<1>3. Unlinked'
  BY <1>1, NodeFacts DEF Unlinked
<1>4. WriterOK' /\ ReaderOK'
  BY DEF SkipListInv, WriterOK, ReaderOK, SeekSkipsNothing, inserting, reading
<1>5. 0 \in Level
  BY DEF Level
<1>6. QED
  BY <1>1, <1>2, <1>3, <1>4, <1>5 DEF SkipListInv

-----------------------------------------------------------------------------
(* The SSTable file, for any interval of the index and any hash.           *)

(* Records ascend; each index entry repeats the key of the record at its   *)
(* offset, and the first is that of the first record; the filter of each   *)
(* hash has the bits of every key.                                         *)
FileOK(f) ==
  /\ f.records \in Seq(LogEntry)
  /\ f.index \in Seq([key : Key, offset : Nat])
  /\ \A i, j \in DOMAIN f.records : i < j => f.records[i].key < f.records[j].key
  /\ \A j \in DOMAIN f.index : /\ f.index[j].offset < Len(f.records)
                               /\ f.index[j].key = f.records[f.index[j].offset + 1].key
  /\ f.records # <<>> => f.index # <<>> /\ f.index[1].offset = 0
  /\ \A h \in Hash, i \in DOMAIN f.records :
       BitsOf(h, f.records[i].key) \subseteq f.filter[h]

LEMMA EmptyFileOK == FileOK(EmptyFile)
<1>1. <<>> \in Seq(LogEntry) /\ <<>> \in Seq([key : Key, offset : Nat])
  OBVIOUS
<1>2. DOMAIN <<>> = {}
  OBVIOUS
<1>3. QED
  BY <1>1, <1>2 DEF FileOK, EmptyFile

(* Adding a record with a key above the others keeps all of this.          *)
LEMMA AddRecordKeeps ==
  ASSUME NEW f, FileOK(f), NEW key \in Key, NEW e \in Written,
         \A i \in DOMAIN f.records : f.records[i].key < key
  PROVE  FileOK(AddRecord(f, key, e))
<1> USE SSTableConstants
<1> DEFINE g == AddRecord(f, key, e)
           n == Len(f.records)
           r == [key |-> key, entry |-> e]
           x == [key |-> key, offset |-> n]
           N == Len(f.index)
<1>1. f.records \in Seq(LogEntry) /\ n \in Nat /\ DOMAIN f.records = 1 .. n /\ r \in LogEntry
  BY DEF FileOK, LogEntry
<1>2. /\ g.records = Append(f.records, r)
      /\ g.index = IF n % kSparseIndexInterval = 0 THEN Append(f.index, x) ELSE f.index
      /\ \A h \in Hash : g.filter[h] = f.filter[h] \cup BitsOf(h, key)
  BY DEF AddRecord, AddKey
<1>3. /\ f.index \in Seq([key : Key, offset : Nat]) /\ N \in Nat /\ DOMAIN f.index = 1 .. N
      /\ x \in [key : Key, offset : Nat]
  BY <1>1 DEF FileOK
<1>4. /\ \A j \in 1 .. N : /\ f.index[j].offset \in Nat
                           /\ f.index[j].offset < n
                           /\ f.index[j].key = f.records[f.index[j].offset + 1].key
      /\ n # 0 => N # 0 /\ f.index[1].offset = 0
  <2>1. \A j \in 1 .. N : f.index[j] \in [key : Key, offset : Nat]
    BY <1>3, ElementOfSeq
  <2>2. n # 0 => f.records # <<>>
    BY <1>1
  <2>3. f.index # <<>> => N # 0
    BY <1>3
  <2>4. QED
    BY <1>3, <2>1, <2>2, <2>3 DEF FileOK
<1>5. /\ \A i, j \in 1 .. n : i < j => f.records[i].key < f.records[j].key
      /\ \A h \in Hash, i \in 1 .. n : BitsOf(h, f.records[i].key) \subseteq f.filter[h]
      /\ \A i \in 1 .. n : f.records[i].key < key
  BY <1>1 DEF FileOK
<1>6. r.key = key /\ x.key = key /\ x.offset = n
  OBVIOUS
<1> HIDE DEF g, r, x
<1>7. /\ g.records \in Seq(LogEntry)
      /\ Len(g.records) = n + 1
      /\ DOMAIN g.records = 1 .. n + 1
      /\ \A i \in 1 .. n : g.records[i] = f.records[i]
      /\ g.records[n + 1] = r
      /\ g.records # <<>>
  <2>1. Append(f.records, r) # <<>>
    BY <1>1
  <2>2. QED
    BY <1>1, <1>2, <2>1
<1>8. \A i, j \in DOMAIN g.records : i < j => g.records[i].key < g.records[j].key
  <2> HIDE DEF n
  <2>1. SUFFICES ASSUME NEW i \in 1 .. n + 1, NEW j \in 1 .. n + 1, i < j
                 PROVE  g.records[i].key < g.records[j].key
    BY <1>7
  <2>2. i \in 1 .. n
    BY <2>1, <1>1
  <2>3. CASE j = n + 1
    BY <2>2, <2>3, <1>5, <1>6, <1>7
  <2>4. CASE j # n + 1
    <3>1. j \in 1 .. n
      BY <2>4, <1>1
    <3>2. QED
      BY <3>1, <2>1, <2>2, <1>5, <1>7
  <2>5. QED
    BY <2>3, <2>4
<1>9. \A h \in Hash, i \in DOMAIN g.records : BitsOf(h, g.records[i].key) \subseteq g.filter[h]
  <2> HIDE DEF n
  <2>1. SUFFICES ASSUME NEW h \in Hash, NEW i \in 1 .. n + 1
                 PROVE  BitsOf(h, g.records[i].key) \subseteq g.filter[h]
    BY <1>7
  <2>2. CASE i = n + 1
    BY <2>2, <1>2, <1>6, <1>7
  <2>3. CASE i # n + 1
    <3>1. i \in 1 .. n
      BY <2>3, <1>1
    <3>2. QED
      BY <3>1, <1>2, <1>5, <1>7
  <2>4. QED
    BY <2>2, <2>3
<1>10. ASSUME NEW j \in 1 .. N
       PROVE  /\ f.index[j].offset < n + 1
              /\ f.index[j].key = g.records[f.index[j].offset + 1].key
  <2> DEFINE o == f.index[j].offset
  <2>1. o \in Nat /\ o < n /\ f.index[j].key = f.records[o + 1].key
    BY <1>4
  <2> HIDE DEF o, n
  <2>2. o + 1 \in 1 .. n /\ o < n + 1
    BY <2>1, <1>1
  <2>3. QED
    BY <2>1, <2>2, <1>7 DEF o
<1>11. CASE n % kSparseIndexInterval = 0
  <2>1. /\ g.index \in Seq([key : Key, offset : Nat])
        /\ DOMAIN g.index = 1 .. N + 1
        /\ \A j \in 1 .. N : g.index[j] = f.index[j]
        /\ g.index[N + 1] = x
        /\ g.index # <<>>
    <3>1. Append(f.index, x) # <<>>
      BY <1>3
    <3>2. QED
      BY <3>1, <1>2, <1>3, <1>11
  <2>2. \A j \in DOMAIN g.index : /\ g.index[j].offset < Len(g.records)
                                  /\ g.index[j].key = g.records[g.index[j].offset + 1].key
    <3> HIDE DEF n, N
    <3>1. SUFFICES ASSUME NEW j \in 1 .. N + 1
                   PROVE  /\ g.index[j].offset < Len(g.records)
                          /\ g.index[j].key = g.records[g.index[j].offset + 1].key
      BY <2>1
    <3>2. CASE j = N + 1
      BY <3>2, <2>1, <1>1, <1>6, <1>7
    <3>3. CASE j # N + 1
      <4>1. j \in 1 .. N
        BY <3>3, <1>3
      <4>2. QED
        BY <4>1, <2>1, <1>7, <1>10
    <3>4. QED
      BY <3>2, <3>3
  <2>3. g.index[1].offset = 0
    <3> HIDE DEF n, N
    <3>1. CASE N = 0
      <4>1. n = 0
        BY <3>1, <1>4
      <4>2. QED
        BY <4>1, <3>1, <2>1, <1>6
    <3>2. CASE N # 0
      <4>1. 1 \in 1 .. N
        BY <3>2, <1>3
      <4>2. CASE n = 0
        BY <4>1, <4>2, <1>4
      <4>3. CASE n # 0
        BY <4>1, <4>3, <1>4, <2>1
      <4>4. QED
        BY <4>2, <4>3
    <3>3. QED
      BY <3>1, <3>2
  <2>4. QED
    BY <1>7, <1>8, <1>9, <2>1, <2>2, <2>3 DEF FileOK, g
<1>12. CASE n % kSparseIndexInterval # 0
  <2>1. g.index = f.index
    BY <1>2, <1>12
  <2>2. n # 0
    <3>1. \A m \in Nat \ {0} : 0 % m = 0
      OBVIOUS
    <3>2. QED
      BY <3>1, <1>12
  <2>3. \A j \in DOMAIN g.index : /\ g.index[j].offset < Len(g.records)
                                  /\ g.index[j].key = g.records[g.index[j].offset + 1].key
    BY <2>1, <1>3, <1>7, <1>10
  <2>4. g.index # <<>> /\ g.index[1].offset = 0
    BY <2>1, <2>2, <1>3, <1>4
  <2>5. QED
    BY <1>3, <1>7, <1>8, <1>9, <2>1, <2>3, <2>4 DEF FileOK, g
<1>13. QED
  BY <1>11, <1>12

(* Get starts at or before the record of a key that is in the file.        *)
LEMMA StartsBefore ==
  ASSUME NEW f, FileOK(f), NEW i \in DOMAIN f.records
  PROVE  StartOffset(f.index, f.records[i].key) \in Nat
         /\ StartOffset(f.index, f.records[i].key) < i
<1> DEFINE k == f.records[i].key
           N == Len(f.index)
           bound == {j \in DOMAIN f.index : f.index[j].key >= k}
<1>1. f.records \in Seq(LogEntry) /\ i \in 1 .. Len(f.records) /\ i \in Nat /\ f.records # <<>>
  BY DEF FileOK
<1>2. f.index \in Seq([key : Key, offset : Nat]) /\ N \in Nat \ {0} /\ DOMAIN f.index = 1 .. N
  BY <1>1 DEF FileOK
<1>3. f.records[i] \in LogEntry
  BY <1>1
<1>4. k \in Key /\ k \in Nat
  BY <1>3, NodeFacts DEF LogEntry
<1>5. ASSUME NEW j \in 1 .. N, f.index[j].key = k \/ ~ (f.index[j].key >= k)
      PROVE  f.index[j].offset \in Nat /\ f.index[j].offset < i
  <2> DEFINE o == f.index[j].offset
             kj == f.index[j].key
  <2>1. f.index[j] \in [key : Key, offset : Nat]
    BY <1>2, ElementOfSeq
  <2>2. o \in Nat /\ kj \in Key /\ kj \in Nat
    BY <2>1, NodeFacts
  <2>3. o < Len(f.records) /\ kj = f.records[o + 1].key
    BY <1>2 DEF FileOK
  <2>4. kj = k \/ ~ (kj >= k)
    BY <1>5
  <2> HIDE DEF o, kj, k
  <2>5. kj <= k
    BY <2>2, <2>4, <1>4
  <2>6. o + 1 \in DOMAIN f.records /\ o + 1 \in Nat
    BY <2>2, <2>3, <1>1
  <2>7. i < o + 1 => k < kj
    BY <2>3, <2>6 DEF FileOK, k
  <2>8. ~ (i < o + 1)
    BY <2>2, <2>5, <2>7, <1>4
  <2>9. QED
    BY <2>2, <2>6, <2>8, <1>1 DEF o
<1>6. CASE bound = {}
  <2>1. StartOffset(f.index, k) = f.index[N].offset
    BY <1>6 DEF StartOffset, Last
  <2>2. N \in 1 .. N /\ ~ (f.index[N].key >= k)
    BY <1>2, <1>6
  <2>3. QED
    BY <2>1, <2>2, <1>5
<1>7. CASE bound # {}
  <2> DEFINE m == Min(bound)
  <2>1. m \in bound /\ \A j \in bound : m <= j
    <3>1. bound \in SUBSET Nat
      BY <1>2
    <3> HIDE DEF bound
    <3>2. QED
      BY <3>1, <1>7, MinProperty
  <2>2. m \in 1 .. N /\ m \in Nat
    BY <2>1, <1>2
  <2>3. StartOffset(f.index, k) =
          IF f.index[m].key = k \/ m = 1 THEN f.index[m].offset ELSE f.index[m - 1].offset
    BY <1>7 DEF StartOffset
  <2> HIDE DEF m
  <2>4. CASE f.index[m].key = k
    BY <2>2, <2>3, <2>4, <1>5
  <2>5. CASE f.index[m].key # k /\ m = 1
    <3>1. StartOffset(f.index, k) = 0
      BY <2>3, <2>5, <1>1 DEF FileOK
    <3>2. QED
      BY <3>1, <1>1
  <2>6. CASE f.index[m].key # k /\ m # 1
    <3>1. StartOffset(f.index, k) = f.index[m - 1].offset
      BY <2>3, <2>6
    <3>2. m - 1 \in 1 .. N /\ ~ (m <= m - 1)
      BY <2>2, <2>6
    <3>3. ~ (f.index[m - 1].key >= k)
      BY <3>2, <2>1, <1>2
    <3>4. QED
      BY <3>1, <3>2, <3>3, <1>5
  <2>7. QED
    BY <2>4, <2>5, <2>6
<1>8. QED
  BY <1>6, <1>7

(* Get returns the entry of a key that is in the file,                     *)
LEMMA GetFinds ==
  ASSUME NEW f, FileOK(f), NEW i \in DOMAIN f.records, NEW h \in Hash, NEW NotFound
  PROVE  ReaderGet(f, h, f.records[i].key, NotFound) = f.records[i].entry
<1> DEFINE k == f.records[i].key
           start == StartOffset(f.index, k)
           ahead == {p \in DOMAIN f.records : p > start /\ f.records[p].key >= k}
<1>1. /\ f.records \in Seq(LogEntry) /\ DOMAIN f.records = 1 .. Len(f.records)
      /\ i \in Nat /\ f.records # <<>> /\ f.index # <<>>
  BY DEF FileOK
<1>2. \A p \in DOMAIN f.records : f.records[p].key \in Nat
  <2>1. \A p \in DOMAIN f.records : f.records[p] \in LogEntry
    BY <1>1
  <2>2. QED
    BY <2>1, NodeFacts DEF LogEntry
<1>3. start \in Nat /\ start < i
  BY StartsBefore
<1>4. MayContain(f.filter[h], h, k)
  BY DEF MayContain, FileOK
<1>5. ReaderGet(f, h, k, NotFound) =
        IF ahead # {} /\ f.records[Min(ahead)].key = k
          THEN f.records[Min(ahead)].entry ELSE NotFound
  BY <1>1, <1>4 DEF ReaderGet
<1> HIDE DEF start
<1>6. i \in ahead
  BY <1>1, <1>2, <1>3
<1>7. Min(ahead) \in ahead /\ Min(ahead) <= i
  <2>1. ahead \in SUBSET Nat
    BY <1>1
  <2> HIDE DEF ahead
  <2>2. QED
    BY <2>1, <1>6, MinProperty
<1> DEFINE m == Min(ahead)
<1> HIDE DEF m
<1>8. m \in DOMAIN f.records /\ m \in Nat /\ f.records[m].key >= k /\ m <= i
  BY <1>1, <1>7 DEF m
<1>9. m = i
  <2>1. CASE m < i
    <3>1. f.records[m].key < k
      BY <2>1, <1>8 DEF FileOK
    <3>2. QED
      BY <3>1, <1>2, <1>8
  <2>2. QED
    BY <2>1, <1>1, <1>8
<1>10. QED
  BY <1>5, <1>6, <1>9 DEF m

(* and nothing for one that is not.                                        *)
LEMMA GetMisses ==
  ASSUME NEW f, FileOK(f), NEW k, NEW h \in Hash, NEW NotFound,
         \A i \in DOMAIN f.records : f.records[i].key # k
  PROVE  ReaderGet(f, h, k, NotFound) = NotFound
<1> DEFINE ahead == {p \in DOMAIN f.records : /\ p > StartOffset(f.index, k)
                                              /\ f.records[p].key >= k}
<1>1. ahead # {} => Min(ahead) \in DOMAIN f.records
  <2>1. SUFFICES ASSUME ahead # {} PROVE Min(ahead) \in DOMAIN f.records
    OBVIOUS
  <2>2. ahead \in SUBSET Nat
    BY DEF FileOK
  <2>3. Min(ahead) \in ahead
    <3> HIDE DEF ahead
    <3>1. QED
      BY <2>1, <2>2, MinProperty
  <2>4. QED
    BY <2>3
<1>2. QED
  BY <1>1 DEF ReaderGet

-----------------------------------------------------------------------------
(* The memtable and the flush.                                             *)

(* The entries are those of the linked nodes and of the one on its way.    *)
EntriesLinked == Stored = Linked(0) \cup (IF writer = "idle" THEN {} ELSE {node})

(* The flush has copied the entries of all nodes before its position.      *)
Copied ==
  /\ \A i \in DOMAIN file.records :
       /\ file.records[i].key \in Linked(0)
       /\ file.records[i].entry = entry[file.records[i].key]
       /\ position # Nil => file.records[i].key < position
  /\ \A k \in Linked(0) :
       position = Nil \/ k < position => \E i \in DOMAIN file.records : file.records[i].key = k

FlushShape ==
  /\ phase \in {"put", "delete", "flush"} => Stored # {}
  /\ phase \in {"build", "table"} => FileOK(file) /\ Copied
  /\ phase = "build" => /\ position \in Linked(0) \cup {Nil}
                        /\ position # Nil \/ file.records # <<>>
  /\ phase = "table" => position = Nil

FlushInv ==
  /\ FlushTypeOK
  /\ SkipListInv
  /\ EntriesLinked
  /\ FlushShape

LEMMA Residue ==
  ASSUME NEW x \in Int
  PROVE  x % Word \in 0 .. Word - 1
BY MemTableConstants

LEMMA WrittenFacts ==
  ASSUME NEW e \in Written
  PROVE  /\ Size(e) \in Nat /\ EstimateNodeMemory(e) \in Nat
         /\ e # Absent
BY MemTableConstants DEF Written, Size, EstimateNodeMemory

LEMMA UnchangedList ==
  ASSUME SkipListInv, UNCHANGED skipListVars
  PROVE  SkipListInv' /\ \A l : Linked(l)' = Linked(l)
<1>1. UNCHANGED <<list, inserting, reading>>
  BY DEF skipListVars
<1>2. ListOK' /\ Unlinked' /\ WriterOK' /\ \A l : Linked(l)' = Linked(l)
  BY <1>1, ListKept
<1>3. ReaderOK'
  BY <1>1, <1>2, ReaderKept
<1>4. SkipListTypeOK'
  BY <1>1 DEF SkipListInv, SkipListTypeOK, list, inserting, reading
<1>5. QED
  BY <1>2, <1>3, <1>4 DEF SkipListInv

(* A write stores one entry; its node, if it is new, is not linked yet.    *)
LEMMA WriteStep ==
  ASSUME MemTableTypeOK, SkipListInv, EntriesLinked,
         NEW key \in Key, NEW e \in Written, Write(key, e)
  PROVE  /\ MemTableTypeOK' /\ SkipListInv' /\ EntriesLinked'
         /\ Stored' = Stored \cup {key}
         /\ key \in Stored <=> Find(key)
         /\ entry' = [entry EXCEPT ![key] = e]
<1>1. writer = "idle" /\ Account(key, e) /\ entry' = [entry EXCEPT ![key] = e]
  BY DEF Write
<1>2. entry \in [Key -> Written \cup {Absent}] /\ usage \in 0 .. Word - 1 /\ count \in Nat
  BY DEF MemTableTypeOK
<1>3. e # Absent /\ Size(e) \in Nat
  BY WrittenFacts
<1>4. Stored = Linked(0)
  BY <1>1 DEF EntriesLinked
<1>5. Find(key) <=> key \in Linked(0)
  BY FindIff DEF SkipListInv
<1>6. Stored' = Stored \cup {key}
  BY <1>1, <1>2, <1>3 DEF Stored
<1>7. usage' \in 0 .. Word - 1 /\ count' \in Nat
  <2>1. usage \in Nat /\ Word \in Nat
    BY <1>2, MemTableConstants
  <2>2. CASE Find(key)
    <3>1. Size(entry[key]) \in Nat
      <4>1. entry[key] \in Written
        BY <2>2, <1>2, <1>4, <1>5 DEF Stored
      <4>2. QED
        BY <4>1, WrittenFacts
    <3>2. \/ usage' = (usage + (Size(e) - Size(entry[key]))) % Word
          \/ usage' = (usage + Word - (Size(entry[key]) - Size(e))) % Word
      BY <2>2, <1>1 DEF Account, Plus, Minus
    <3>3. count' = count
      BY <2>2, <1>1 DEF Account
    <3> DEFINE a == usage + (Size(e) - Size(entry[key]))
               b == usage + Word - (Size(entry[key]) - Size(e))
    <3>4. a \in Int /\ b \in Int
      BY <2>1, <3>1, <1>3
    <3>5. usage' = a % Word \/ usage' = b % Word
      BY <3>2
    <3> HIDE DEF a, b
    <3>6. QED
      BY <3>3, <3>4, <3>5, <1>2, Residue
  <2>3. CASE ~ Find(key)
    <3>1. EstimateNodeMemory(e) \in Nat
      BY WrittenFacts
    <3>2. usage' = (usage + EstimateNodeMemory(e)) % Word /\ count' = count + 1
      BY <2>3, <1>1 DEF Account, Plus
    <3> DEFINE a == usage + EstimateNodeMemory(e)
    <3>3. a \in Int /\ usage' = a % Word
      BY <2>1, <3>1, <3>2
    <3> HIDE DEF a
    <3>4. QED
      BY <3>2, <3>3, <1>2, Residue
  <2>4. QED
    BY <2>2, <2>3
<1>8. entry' \in [Key -> Written \cup {Absent}]
  BY <1>1, <1>2
<1>9. SkipListInv' /\ EntriesLinked'
  <2>1. CASE Find(key) /\ UNCHANGED skipListVars
    <3>1. SkipListInv' /\ Linked(0)' = Linked(0)
      BY <2>1, UnchangedList
    <3>2. writer' = "idle"
      BY <2>1, <1>1 DEF skipListVars, inserting
    <3>3. QED
      BY <3>1, <3>2, <2>1, <1>4, <1>5, <1>6 DEF EntriesLinked
  <2>2. ASSUME NEW h \in 1 .. MaxHeight, StartInsert(key, h)
        PROVE  SkipListInv' /\ EntriesLinked'
    <3>1. SkipListInv'
      BY <2>2, StartInsertStep
    <3>2. writer' # "idle" /\ node' = key /\ Linked(0)' = Linked(0)
      BY <2>2 DEF StartInsert, list, Linked
    <3>3. QED
      BY <3>1, <3>2, <1>4, <1>6 DEF EntriesLinked
  <2>3. QED
    BY <2>1, <2>2 DEF Write
<1>10. QED
  BY <1>1, <1>4, <1>5, <1>6, <1>7, <1>8, <1>9 DEF MemTableTypeOK, SkipListInv

(* Steps that only change what is not in the memtable.                     *)
LEMMA UnchangedMemTable ==
  ASSUME MemTableTypeOK, SkipListInv, EntriesLinked, UNCHANGED memTableVars
  PROVE  /\ MemTableTypeOK' /\ SkipListInv' /\ EntriesLinked'
         /\ Stored' = Stored /\ Linked(0)' = Linked(0)
         /\ UNCHANGED <<entry, forward, writer, reader>>
<1>1. UNCHANGED <<skipListVars, entry, usage, count>>
  BY DEF memTableVars
<1>2. SkipListInv' /\ Linked(0)' = Linked(0)
  BY <1>1, UnchangedList
<1>3. Stored' = Stored
  BY <1>1 DEF Stored
<1>4. UNCHANGED <<forward, writer, node, reader>>
  BY <1>1 DEF skipListVars, list, inserting, reading
<1>5. QED
  BY <1>1, <1>2, <1>3, <1>4 DEF MemTableTypeOK, SkipListInv, EntriesLinked

LEMMA FlushStarts == Init => FlushInv
<1> SUFFICES ASSUME Init PROVE FlushInv
  OBVIOUS
<1>1. SkipListInv
  BY SkipListStarts DEF Init, InitMemTable
<1>2. entry = [k \in Key |-> Absent] /\ usage = 0 /\ count = 0 /\ writer = "idle"
  BY DEF Init, InitMemTable, InitSkipList
<1>3. MemTableTypeOK
  BY <1>1, <1>2, MemTableConstants DEF MemTableTypeOK, SkipListInv
<1>4. Linked(0) = {}
  <2>1. forward = EmptyList /\ maxHeight = 1 /\ 0 \in Level
    BY DEF Init, InitMemTable, InitSkipList, Level
  <2>2. QED
    BY <2>1, EmptyListFacts DEF IsEmptyList
<1>5. EntriesLinked
  BY <1>2, <1>4 DEF EntriesLinked, Stored
<1>6. log \in Seq(LogEntry)
  <2>1. PICK n \in 0 .. MaxReplay : log \in [1 .. n -> LogEntry]
    BY DEF Init
  <2>2. n \in Nat
    BY <2>1
  <2>3. QED
    BY <2>1, <2>2, SeqDef
<1>7. FlushTypeOK
  <2>1. file.records = <<>> /\ phase = "replay" /\ position = Nil /\ writes = 0
    BY DEF Init, EmptyFile
  <2>2. DOMAIN file.records = {}
    BY <2>1
  <2>3. MaxWrites \in Nat
    BY FlushConstants
  <2>4. QED
    BY <1>3, <1>6, <2>1, <2>2, <2>3 DEF FlushTypeOK
<1>8. QED
  BY <1>1, <1>5, <1>7 DEF FlushInv, FlushShape, Init

-----------------------------------------------------------------------------
(* One lemma per step of the engine.                                       *)

LEMMA ReplayStep ==
  ASSUME FlushInv, Replay
  PROVE  FlushInv'
<1>1. /\ phase = "replay" /\ log # <<>> /\ log \in Seq(LogEntry)
      /\ Write(log[1].key, log[1].entry) /\ log' = Tail(log)
      /\ UNCHANGED <<phase, position, file, writes>>
  BY DEF Replay, FlushInv, FlushTypeOK
<1>2. log[1].key \in Key /\ log[1].entry \in Written /\ log' \in Seq(LogEntry)
  <2>1. log[1] \in LogEntry
    BY <1>1
  <2>2. QED
    BY <1>1, <2>1 DEF LogEntry
<1>3. MemTableTypeOK' /\ SkipListInv' /\ EntriesLinked'
  BY <1>1, <1>2, WriteStep DEF FlushInv, FlushTypeOK
<1>4. FlushTypeOK'
  BY <1>1, <1>2, <1>3 DEF FlushInv, FlushTypeOK
<1>5. QED
  BY <1>1, <1>3, <1>4 DEF FlushInv, FlushShape

LEMMA OpenStep ==
  ASSUME FlushInv, Open
  PROVE  FlushInv'
<1>1. MemTableTypeOK' /\ SkipListInv' /\ EntriesLinked' /\ writer = "idle" /\ UNCHANGED writer
  BY UnchangedMemTable DEF FlushInv, FlushTypeOK, Open
<1>2. QED
  BY <1>1 DEF Open, FlushInv, FlushTypeOK, FlushShape

(* Put and Delete store their entry and leave the insert to be finished.   *)
LEMMA ApplyStep ==
  ASSUME FlushInv, NEW key \in Key, NEW e \in Written, Write(key, e),
         phase = "idle", phase' \in {"put", "delete"},
         writes < MaxWrites, writes' = writes + 1,
         UNCHANGED <<log, position, file>>
  PROVE  FlushInv'
<1>1. /\ MemTableTypeOK' /\ SkipListInv' /\ EntriesLinked'
      /\ Stored' = Stored \cup {key}
  BY WriteStep DEF FlushInv, FlushTypeOK
<1>2. writes' \in 0 .. MaxWrites
  BY FlushConstants DEF FlushInv, FlushTypeOK
<1>3. FlushTypeOK'
  BY <1>1, <1>2 DEF FlushInv, FlushTypeOK
<1>4. QED
  BY <1>1, <1>3 DEF FlushInv, FlushShape

LEMMA PutStep ==
  ASSUME FlushInv, NEW key \in Key, NEW value \in ValueSize, Put(key, value)
  PROVE  FlushInv'
BY ApplyStep DEF Put, Written

LEMMA DeleteStep ==
  ASSUME FlushInv, NEW key \in Key, Delete(key)
  PROVE  FlushInv'
BY ApplyStep DEF Delete, Written

LEMMA ReturnStep ==
  ASSUME FlushInv, Return
  PROVE  FlushInv'
<1>1. /\ MemTableTypeOK' /\ SkipListInv' /\ EntriesLinked' /\ Stored' = Stored
      /\ writer = "idle" /\ UNCHANGED writer
  BY UnchangedMemTable DEF FlushInv, FlushTypeOK, Return
<1>2. QED
  BY <1>1 DEF Return, FlushInv, FlushTypeOK, FlushShape

(* A list that is not empty has a first node.                              *)
LEMMA EmptyIff ==
  ASSUME SkipListInv
  PROVE  /\ Empty <=> Linked(0) = {}
         /\ forward[0][HeadNode] \in Linked(0) \cup {Nil}
         /\ \A k \in Linked(0) : forward[0][HeadNode] # Nil /\ forward[0][HeadNode] <= k
<1>1. \A k \in Linked(0) : k > HeadNode /\ k # Nil
  BY ChainFacts, NodeFacts
<1>2. HeadNode \in Chain(0)
  BY ChainFacts
<1>3. /\ forward[0][HeadNode] \in Linked(0) \cup {Nil}
      /\ \A k \in Linked(0) : forward[0][HeadNode] # Nil /\ forward[0][HeadNode] <= k
  BY <1>1, <1>2, NextOf
<1>4. QED
  BY <1>1, <1>3 DEF Empty

LEMMA FlushMemTableStep ==
  ASSUME FlushInv, FlushMemTable
  PROVE  FlushInv'
<1>1. /\ MemTableTypeOK' /\ SkipListInv' /\ EntriesLinked' /\ Stored' = Stored
      /\ writer = "idle" /\ UNCHANGED writer
  BY UnchangedMemTable DEF FlushInv, FlushTypeOK, FlushMemTable
<1>2. Stored # {}
  BY EmptyIff DEF FlushInv, EntriesLinked, FlushMemTable
<1>3. QED
  BY <1>1, <1>2 DEF FlushMemTable, FlushInv, FlushTypeOK, FlushShape

LEMMA BeginFlushStep ==
  ASSUME FlushInv, BeginFlush
  PROVE  FlushInv'
<1>1. /\ MemTableTypeOK' /\ SkipListInv' /\ EntriesLinked' /\ Stored' = Stored
      /\ Linked(0)' = Linked(0) /\ writer = "idle" /\ UNCHANGED writer
  BY UnchangedMemTable DEF FlushInv, FlushTypeOK, BeginFlush
<1>2. phase = "flush" /\ phase' = "build" /\ position' = forward[0][HeadNode] /\ file' = EmptyFile
      /\ UNCHANGED <<log, writes>>
  BY DEF BeginFlush
<1>3. Linked(0) # {}
  BY <1>1, <1>2 DEF FlushInv, FlushShape, EntriesLinked
<1>4. /\ position' \in Linked(0) /\ position' # Nil
      /\ \A k \in Linked(0) : position' <= k
  <2>1. /\ forward[0][HeadNode] \in Linked(0) \cup {Nil}
        /\ \A k \in Linked(0) : forward[0][HeadNode] # Nil /\ forward[0][HeadNode] <= k
    BY EmptyIff DEF FlushInv
  <2>2. QED
    BY <2>1, <1>2, <1>3
<1>5. \A k \in Linked(0) : ~ (k < position')
  <2>1. \A k \in Linked(0) : k \in Nat
    BY ChainFacts, NodeFacts
  <2>2. QED
    BY <2>1, <1>4
<1>6. file'.records = <<>> /\ DOMAIN file'.records = {} /\ FileOK(file')
  BY <1>2, EmptyFileOK DEF EmptyFile
<1>7. Copied'
  BY <1>1, <1>4, <1>5, <1>6 DEF Copied
<1>8. position' \in Key \cup {Nil}
  BY <1>4, ChainFacts
<1>9. FlushTypeOK'
  BY <1>1, <1>2, <1>6, <1>8 DEF FlushInv, FlushTypeOK
<1>10. QED
  BY <1>1, <1>2, <1>4, <1>6, <1>7, <1>9 DEF FlushInv, FlushShape

LEMMA AddEntryStep ==
  ASSUME FlushInv, AddEntry
  PROVE  FlushInv'
<1> DEFINE p == position
           next == forward[0][position]
           n == Len(file.records)
           r == [key |-> position, entry |-> entry[position]]
<1>1. /\ MemTableTypeOK' /\ SkipListInv' /\ EntriesLinked' /\ Stored' = Stored
      /\ Linked(0)' = Linked(0) /\ UNCHANGED <<entry, writer>>
  BY UnchangedMemTable DEF FlushInv, FlushTypeOK, AddEntry
<1>2. /\ phase = "build" /\ UNCHANGED <<phase, log, writes>>
      /\ position # Nil /\ position' = next
      /\ file' = AddRecord(file, position, entry[position])
  BY DEF AddEntry
<1>3. writer = "idle" /\ Linked(0) = Stored
  BY <1>2 DEF FlushInv, FlushTypeOK, EntriesLinked
<1>4. FileOK(file) /\ Copied /\ p \in Linked(0)
  BY <1>2 DEF FlushInv, FlushShape
<1>5. p \in Key /\ p \in Nat /\ p \in Chain(0) /\ entry[p] \in Written
  <2>1. entry[p] \in Written \cup {Absent} /\ entry[p] # Absent /\ p \in Key
    BY <1>3, <1>4 DEF FlushInv, FlushTypeOK, MemTableTypeOK, Stored
  <2>2. QED
    BY <2>1, <1>4, ChainFacts, NodeFacts
<1>6. FileOK(file')
  <2>1. \A i \in DOMAIN file.records : file.records[i].key < position
    BY <1>2, <1>4 DEF Copied
  <2>2. QED
    BY <2>1, <1>2, <1>4, <1>5, AddRecordKeeps
<1>7. /\ file.records \in Seq(LogEntry) /\ n \in Nat /\ DOMAIN file.records = 1 .. n
      /\ r \in LogEntry
      /\ file'.records = Append(file.records, r)
  BY <1>2, <1>4, <1>5 DEF FileOK, AddRecord, LogEntry
<1>8. r.key = p /\ r.entry = entry[p]
  OBVIOUS
<1> HIDE DEF r, n
<1>9. /\ DOMAIN file'.records = 1 .. n + 1
      /\ \A i \in 1 .. n : file'.records[i] = file.records[i]
      /\ file'.records[n + 1] = r
      /\ file'.records # <<>>
  <2>1. Append(file.records, r) # <<>>
    BY <1>7
  <2>2. n = Len(file.records)
    BY DEF n
  <2>3. QED
    BY <1>7, <2>1, <2>2
<1>10. /\ next \in Linked(0) \cup {Nil}
       /\ next # Nil => next > p /\ next \in Nat
       /\ \A m \in Linked(0) : m > p => next # Nil /\ next <= m
  BY <1>5, NextOf DEF FlushInv
<1> HIDE DEF next
<1>11. /\ \A i \in 1 .. n : /\ file.records[i].key \in Linked(0)
                            /\ file.records[i].entry = entry[file.records[i].key]
                            /\ file.records[i].key < p
       /\ \A k \in Linked(0) : k < p => \E i \in 1 .. n : file.records[i].key = k
  BY <1>2, <1>4, <1>7 DEF Copied
<1>12. \A k \in Linked(0) : k \in Nat
  BY ChainFacts, NodeFacts
<1>13. Copied'
  <2>1. ASSUME NEW i \in 1 .. n + 1
        PROVE  /\ file'.records[i].key \in Linked(0)
               /\ file'.records[i].entry = entry[file'.records[i].key]
               /\ next # Nil => file'.records[i].key < next
    <3>1. CASE i = n + 1
      BY <3>1, <1>4, <1>5, <1>8, <1>9, <1>10
    <3>2. CASE i # n + 1
      <4>1. i \in 1 .. n
        BY <3>2, <1>7
      <4>2. file'.records[i] = file.records[i]
        BY <4>1, <1>9
      <4>3. /\ file.records[i].key \in Linked(0)
            /\ file.records[i].entry = entry[file.records[i].key]
            /\ file.records[i].key < p
        BY <4>1, <1>11
      <4>4. next # Nil => file.records[i].key < next
        BY <4>3, <1>5, <1>10, <1>12
      <4>5. QED
        BY <4>2, <4>3, <4>4
    <3>3. QED
      BY <3>1, <3>2
  <2>2. ASSUME NEW k \in Linked(0), next = Nil \/ k < next
        PROVE  \E i \in 1 .. n + 1 : file'.records[i].key = k
    <3>1. ~ (k > p)
      <4>1. SUFFICES ASSUME k > p PROVE FALSE
        OBVIOUS
      <4>2. next # Nil /\ next <= k /\ next \in Nat
        BY <4>1, <1>10
      <4>3. QED
        BY <4>2, <2>2, <1>12
    <3>2. CASE k = p
      <4>1. n + 1 \in 1 .. n + 1
        BY <1>7
      <4>2. QED
        BY <4>1, <3>2, <1>8, <1>9
    <3>3. CASE k < p
      <4>1. PICK i \in 1 .. n : file.records[i].key = k
        BY <3>3, <1>11
      <4>2. i \in 1 .. n + 1 /\ file'.records[i] = file.records[i]
        BY <4>1, <1>7, <1>9
      <4>3. QED
        BY <4>1, <4>2
    <3>4. QED
      BY <3>1, <3>2, <3>3, <1>5, <1>12
  <2>3. QED
    BY <2>1, <2>2, <1>1, <1>2, <1>9 DEF Copied
<1>14. FlushTypeOK'
  <2>1. \A i \in DOMAIN file'.records : file'.records[i] \in LogEntry
    BY <1>6, ElementOfSeq DEF FileOK
  <2>2. position' \in Key \cup {Nil}
    BY <1>2, <1>10, ChainFacts
  <2>3. QED
    BY <2>1, <2>2, <1>1, <1>2, <1>3 DEF FlushInv, FlushTypeOK
<1>15. QED
  BY <1>1, <1>2, <1>6, <1>9, <1>10, <1>13, <1>14 DEF FlushInv, FlushShape

LEMMA FinishTableStep ==
  ASSUME FlushInv, FinishTable
  PROVE  FlushInv'
<1>1. /\ MemTableTypeOK' /\ SkipListInv' /\ EntriesLinked' /\ Stored' = Stored
      /\ Linked(0)' = Linked(0) /\ UNCHANGED <<entry, writer>>
  BY UnchangedMemTable DEF FlushInv, FlushTypeOK, FinishTable
<1>2. /\ phase = "build" /\ phase' = "table" /\ position = Nil
      /\ UNCHANGED <<log, position, file, writes>>
  BY DEF FinishTable
<1>3. file.records # <<>> /\ FileOK(file) /\ Copied
  BY <1>2 DEF FlushInv, FlushShape
<1>4. Copied'
  BY <1>1, <1>2, <1>3 DEF Copied
<1>5. FlushTypeOK'
  BY <1>1, <1>2, <1>3 DEF FlushInv, FlushTypeOK
<1>6. QED
  BY <1>1, <1>2, <1>3, <1>4, <1>5 DEF FlushInv, FlushShape

LEMMA NewMemTableStep ==
  ASSUME FlushInv, NewMemTable
  PROVE  FlushInv'
<1>1. SkipListInv' /\ Linked(0)' = {}
  BY ClearStep DEF FlushInv, NewMemTable
<1>2. /\ entry' = [k \in Key |-> Absent] /\ usage' = 0 /\ count' = 0
      /\ writer = "idle" /\ writer' = "idle"
      /\ phase' = "idle" /\ file' = EmptyFile /\ writes' = 0
      /\ UNCHANGED <<log, position>>
  BY DEF NewMemTable, Clear, inserting
<1>3. MemTableTypeOK'
  BY <1>1, <1>2, MemTableConstants DEF MemTableTypeOK, SkipListInv
<1>4. EntriesLinked'
  BY <1>1, <1>2 DEF EntriesLinked, Stored
<1>5. FlushTypeOK'
  <2>1. file'.records = <<>> /\ DOMAIN file'.records = {} /\ MaxWrites \in Nat
    BY <1>2, FlushConstants DEF EmptyFile
  <2>2. QED
    BY <2>1, <1>2, <1>3 DEF FlushInv, FlushTypeOK
<1>6. QED
  BY <1>1, <1>2, <1>4, <1>5 DEF FlushInv, FlushShape

LEMMA ConcurrentStep ==
  ASSUME FlushInv, Concurrent
  PROVE  FlushInv'
<1>1. UNCHANGED <<entry, usage, count, phase, log, position, file, writes>>
  BY DEF Concurrent
<1>2. Stored' = Stored
  BY <1>1 DEF Stored
<1>3. CASE InsertStep
  <2>1. /\ SkipListInv'
        /\ Linked(0)' = Linked(0) \/ Linked(0)' = Linked(0) \cup {node}
        /\ writer' = "idle" => Linked(0)' = Linked(0) \cup {node}
    BY <1>3, InsertSteps DEF FlushInv
  <2>2. writer # "idle"
    BY <1>3 DEF InsertStep, RaiseHeight, PointNode, LinkNode
  <2>3. writer' # "idle" => node' = node
    BY <1>3 DEF InsertStep, RaiseHeight, PointNode, LinkNode
  <2>4. Stored = Linked(0) \cup {node}
    BY <2>2 DEF FlushInv, EntriesLinked
  <2>5. EntriesLinked'
    BY <2>1, <2>3, <2>4, <1>2 DEF EntriesLinked
  <2>6. phase \in {"replay", "put", "delete"}
    BY <2>2 DEF FlushInv, FlushTypeOK
  <2>7. FlushTypeOK'
    BY <2>1, <2>6, <1>1 DEF FlushInv, FlushTypeOK, MemTableTypeOK, SkipListInv
  <2>8. QED
    BY <2>1, <2>5, <2>6, <2>7, <1>1, <1>2 DEF FlushInv, FlushShape
<1>4. ASSUME SkipListInv', Linked(0)' = Linked(0), UNCHANGED <<list, inserting>>
      PROVE  FlushInv'
  <2>1. EntriesLinked' /\ writer' = writer
    BY <1>2, <1>4 DEF FlushInv, EntriesLinked, inserting
  <2>2. FlushTypeOK'
    BY <2>1, <1>1, <1>4 DEF FlushInv, FlushTypeOK, MemTableTypeOK, SkipListInv
  <2>3. Copied => Copied'
    BY <1>1, <1>4 DEF Copied
  <2>4. QED
    BY <2>1, <2>2, <2>3, <1>1, <1>2, <1>4 DEF FlushInv, FlushShape
<1>5. CASE ReaderStep
  <2>1. UNCHANGED <<list, inserting>>
    BY <1>5 DEF ReaderStep, Descend, Advance, Leave
  <2>2. QED
    BY <2>1, <1>4, <1>5, ReaderSteps DEF FlushInv
<1>6. ASSUME NEW k \in Key \cup {HeadNode}, Seek(k)
      PROVE  FlushInv'
  <2>1. UNCHANGED <<list, inserting>>
    BY <1>6 DEF Seek
  <2>2. SkipListInv' /\ Linked(0)' = Linked(0)
    BY <2>1, <1>6, SeekStep, ListKept DEF FlushInv
  <2>3. QED
    BY <2>1, <2>2, <1>4
<1>7. QED
  BY <1>3, <1>5, <1>6 DEF Concurrent

LEMMA FlushStutters ==
  ASSUME FlushInv, UNCHANGED flushVars
  PROVE  FlushInv'
<1>1. UNCHANGED <<memTableVars, phase, log, position, file, writes>>
  BY DEF flushVars
<1>2. /\ MemTableTypeOK' /\ SkipListInv' /\ EntriesLinked' /\ Stored' = Stored
      /\ Linked(0)' = Linked(0) /\ UNCHANGED <<entry, writer>>
  BY <1>1, UnchangedMemTable DEF FlushInv, FlushTypeOK
<1>3. Copied => Copied'
  BY <1>1, <1>2 DEF Copied
<1>4. QED
  BY <1>1, <1>2, <1>3 DEF FlushInv, FlushTypeOK, FlushShape

LEMMA FlushSteps ==
  ASSUME FlushInv, [Next]_flushVars
  PROVE  FlushInv'
<1>1. CASE Replay
  BY <1>1, ReplayStep
<1>2. CASE Open
  BY <1>2, OpenStep
<1>3. ASSUME NEW k \in Key, NEW v \in ValueSize, Put(k, v)
      PROVE  FlushInv'
  BY <1>3, PutStep
<1>4. ASSUME NEW k \in Key, Delete(k)
      PROVE  FlushInv'
  BY <1>4, DeleteStep
<1>5. CASE Return
  BY <1>5, ReturnStep
<1>6. CASE FlushMemTable
  BY <1>6, FlushMemTableStep
<1>7. CASE BeginFlush
  BY <1>7, BeginFlushStep
<1>8. CASE AddEntry
  BY <1>8, AddEntryStep
<1>9. CASE FinishTable
  BY <1>9, FinishTableStep
<1>10. CASE NewMemTable
  BY <1>10, NewMemTableStep
<1>11. CASE Concurrent
  BY <1>11, ConcurrentStep
<1>12. CASE UNCHANGED flushVars
  BY <1>12, FlushStutters
<1>13. QED
  BY <1>1, <1>2, <1>3, <1>4, <1>5, <1>6, <1>7, <1>8, <1>9, <1>10, <1>11, <1>12 DEF Next

THEOREM FlushInvariant == Spec => []FlushInv
<1>1. Init => FlushInv
  BY FlushStarts
<1>2. FlushInv /\ [Next]_flushVars => FlushInv'
  BY FlushSteps
<1>3. QED
  BY <1>1, <1>2, PTL DEF Spec

-----------------------------------------------------------------------------
(* The counters of the memtable.  The sum they follow is a fold over a set *)
(* of entries; that the order in which it takes them does not matter is    *)
(* what the next lemmas are for.  Each argues by a smallest set for which  *)
(* the claim fails.                                                        *)

(* g sums F over the subsets of S, whichever member is taken first.        *)
Sums(g, F, S) ==
  /\ g[{}] = 0
  /\ \A s \in SUBSET S : /\ g[s] \in Nat
                         /\ \A x \in s : g[s] = F[x] + g[s \ {x}]

(* g sums F taking some member first.                                      *)
SumsSomehow(g, F, S) ==
  /\ g[{}] = 0
  /\ \A s \in SUBSET S : s # {} => \E x \in s : g[s] = F[x] + g[s \ {x}]

LEMMA SumsExist ==
  ASSUME NEW S, IsFiniteSet(S), NEW F, \A x \in S : F[x] \in Nat
  PROVE  \E g : Sums(g, F, S)
<1> DEFINE Has(s) == \E g : Sums(g, F, s)
           Fails == {n \in 0 .. Cardinality(S) :
                       \E s \in SUBSET S : Cardinality(s) = n /\ ~ Has(s)}
<1>1. SUFFICES ASSUME ~ Has(S) PROVE FALSE
  OBVIOUS
<1>2. \A s \in SUBSET S : /\ IsFiniteSet(s) /\ Cardinality(s) \in Nat
                          /\ Cardinality(s) <= Cardinality(S)
  BY FS_Subset, FS_CardinalityType
<1>3. Fails # {} /\ Fails \in SUBSET Nat
  <2> HIDE DEF Has
  <2>1. S \in SUBSET S /\ Cardinality(S) \in 0 .. Cardinality(S)
    BY <1>2
  <2>2. Cardinality(S) \in Fails
    BY <2>1, <1>1
  <2>3. QED
    BY <2>2
<1>4. PICK n \in Fails : \A m \in Fails : n <= m
  <2> HIDE DEF Fails
  <2> QED
    BY <1>3, MinProperty
<1>5. PICK s \in SUBSET S : Cardinality(s) = n /\ ~ Has(s)
  OBVIOUS
<1>6. s # {}
  <2>1. SUFFICES ASSUME s = {} PROVE FALSE
    OBVIOUS
  <2> DEFINE g == [t \in {{}} |-> 0]
  <2>2. g[{}] = 0 /\ \A t \in SUBSET {} : t = {}
    OBVIOUS
  <2>3. Sums(g, F, {})
    <3> HIDE DEF g
    <3>1. QED
      BY <2>2 DEF Sums
  <2>4. QED
    BY <1>5, <2>1, <2>3
<1>7. PICK x : x \in s
  BY <1>6
<1> DEFINE t == s \ {x}
<1>8. Has(t)
  <2>1. t \in SUBSET S /\ Cardinality(t) = n - 1 /\ n \in Nat /\ Cardinality(t) \in Nat
    <3>1. Cardinality(t) = Cardinality(s) - 1
      BY <1>2, <1>7, FS_RemoveElement
    <3>2. QED
      BY <3>1, <1>2, <1>3, <1>5
  <2>2. ~ (n <= n - 1)
    BY <2>1
  <2>3. n - 1 \notin Fails
    BY <2>2, <1>4
  <2>4. n - 1 \in 0 .. Cardinality(S)
    BY <2>1, <1>2
  <2> HIDE DEF Has, t
  <2>5. QED
    BY <2>1, <2>3, <2>4
<1>9. PICK g : Sums(g, F, t)
  BY <1>8
<1> DEFINE h == [r \in SUBSET s |-> IF x \in r THEN F[x] + g[r \ {x}] ELSE g[r]]
<1>10. F[x] \in Nat
  BY <1>7
<1>11. \A r \in SUBSET s : r \ {x} \in SUBSET t /\ (x \notin r => r \in SUBSET t)
  OBVIOUS
<1> HIDE DEF t
<1>12. \A r \in SUBSET t : g[r] \in Nat /\ \A y \in r : g[r] = F[y] + g[r \ {y}]
  BY <1>9 DEF Sums
<1>13. h[{}] = 0
  <2>1. {} \in SUBSET s /\ x \notin {}
    OBVIOUS
  <2>2. g[{}] = 0
    BY <1>9 DEF Sums
  <2>3. QED
    BY <2>1, <2>2
<1>14. \A r \in SUBSET s : h[r] \in Nat
  BY <1>10, <1>11, <1>12
<1>15. ASSUME NEW r \in SUBSET s, NEW y \in r
       PROVE  h[r] = F[y] + h[r \ {y}]
  <2>1. r \ {y} \in SUBSET s /\ F[y] \in Nat
    OBVIOUS
  <2>2. CASE x \notin r
    <3>1. g[r] = F[y] + g[r \ {y}]
      BY <2>2, <1>11, <1>12
    <3>2. h[r] = g[r] /\ h[r \ {y}] = g[r \ {y}]
      BY <2>1, <2>2
    <3>3. QED
      BY <3>1, <3>2
  <2>3. CASE x \in r /\ y = x
    <3>1. h[r] = F[x] + g[r \ {x}] /\ h[r \ {x}] = g[r \ {x}]
      BY <2>1, <2>3
    <3>2. QED
      BY <3>1, <2>3
  <2>4. CASE x \in r /\ y # x
    <3>1. h[r] = F[x] + g[r \ {x}] /\ h[r \ {y}] = F[x] + g[(r \ {y}) \ {x}]
      BY <2>1, <2>4
    <3> DEFINE q == r \ {x}
    <3>2. q \in SUBSET t /\ y \in q
      BY <1>11, <2>4
    <3>3. g[q] = F[y] + g[q \ {y}] /\ q \ {y} \in SUBSET t
      BY <3>2, <1>12
    <3>4. q \ {y} = (r \ {y}) \ {x}
      OBVIOUS
    <3>5. g[q \ {y}] \in Nat
      BY <3>3, <1>12
    <3>6. h[r] = F[x] + g[q] /\ h[r \ {y}] = F[x] + g[q \ {y}]
      BY <3>1, <3>4
    <3> HIDE DEF h, q
    <3>7. QED
      BY <3>3, <3>5, <3>6, <2>1, <1>10
  <2>5. QED
    BY <2>2, <2>3, <2>4
<1> HIDE DEF h
<1>16. Sums(h, F, s)
  BY <1>13, <1>14, <1>15 DEF Sums
<1>17. QED
  BY <1>5, <1>16

(* Two sums over sets on which the terms agree are the same.               *)
LEMMA SumsAgree ==
  ASSUME NEW S, NEW T, NEW F, NEW G, NEW g, NEW h, SumsSomehow(g, F, S), Sums(h, G, T),
         NEW u, u \subseteq S, u \subseteq T, IsFiniteSet(u), \A x \in u : F[x] = G[x]
  PROVE  g[u] = h[u]
<1> DEFINE Fails == {n \in 0 .. Cardinality(u) :
                       \E s \in SUBSET u : Cardinality(s) = n /\ g[s] # h[s]}
<1>1. SUFFICES ASSUME g[u] # h[u] PROVE FALSE
  OBVIOUS
<1>2. \A s \in SUBSET u : /\ IsFiniteSet(s) /\ Cardinality(s) \in Nat
                          /\ Cardinality(s) <= Cardinality(u)
  BY FS_Subset, FS_CardinalityType
<1>3. Fails # {} /\ Fails \in SUBSET Nat
  <2>1. u \in SUBSET u /\ Cardinality(u) \in 0 .. Cardinality(u)
    BY <1>2
  <2>2. QED
    BY <2>1, <1>1
<1>4. PICK n \in Fails : \A m \in Fails : n <= m
  <2> HIDE DEF Fails
  <2> QED
    BY <1>3, MinProperty
<1>5. PICK s \in SUBSET u : Cardinality(s) = n /\ g[s] # h[s]
  OBVIOUS
<1>6. s # {}
  BY <1>5 DEF Sums, SumsSomehow
<1>7. PICK x \in s : g[s] = F[x] + g[s \ {x}]
  BY <1>6 DEF SumsSomehow
<1> DEFINE t == s \ {x}
<1>8. t \in SUBSET u /\ Cardinality(t) = n - 1 /\ n \in Nat /\ Cardinality(t) \in Nat
  <2>1. Cardinality(t) = Cardinality(s) - 1
    BY <1>2, <1>7, FS_RemoveElement
  <2>2. QED
    BY <2>1, <1>2, <1>3, <1>5
<1>9. g[t] = h[t]
  <2>1. n - 1 \notin Fails
    <3>1. ~ (n <= n - 1)
      BY <1>8
    <3> HIDE DEF Fails
    <3>2. QED
      BY <3>1, <1>4
  <2>2. n - 1 \in 0 .. Cardinality(u)
    BY <1>2, <1>8
  <2> HIDE DEF t
  <2>3. QED
    BY <2>1, <2>2, <1>8
<1>10. g[s] = F[x] + g[t] /\ h[s] = G[x] + h[t] /\ F[x] = G[x]
  BY <1>7 DEF Sums
<1>11. QED
  BY <1>5, <1>9, <1>10

(* The bytes of the entries c.                                             *)
Total(c) ==
  MapThenSumSet(LAMBDA k : EstimateNodeMemory(c[k]), {k \in Key : c[k] # Absent})

LEMMA TotalSums ==
  ASSUME NEW c, \A k \in Key : c[k] # Absent => EstimateNodeMemory(c[k]) \in Nat
  PROVE  \E g : /\ Sums(g, [k \in Key |-> EstimateNodeMemory(c[k])], {k \in Key : c[k] # Absent})
                /\ Total(c) = g[{k \in Key : c[k] # Absent}]
<1> DEFINE S == {k \in Key : c[k] # Absent}
           F == [k \in Key |-> EstimateNodeMemory(c[k])]
           Step(g) == [s \in SUBSET S |->
                        IF s = {} THEN 0
                        ELSE EstimateNodeMemory(c[CHOOSE x \in s : TRUE]) + g[s \ {CHOOSE x \in s : TRUE}]]
           w == CHOOSE g : g = Step(g)
<1>1. Total(c) = w[S]
  BY DEF Total, MapThenSumSet, MapThenFoldSet
<1>2. S \subseteq Key /\ IsFiniteSet(S) /\ \A k \in S : F[k] = EstimateNodeMemory(c[k]) /\ F[k] \in Nat
  <2>1. S \in SUBSET Key
    OBVIOUS
  <2>2. IsFiniteSet(S)
    BY <2>1, FS_Subset, SkipListConstants
  <2>3. QED
    BY <2>2
<1>3. PICK g : Sums(g, F, S)
  <2> HIDE DEF S, F
  <2> QED
    BY <1>2, SumsExist
<1> DEFINE f == [s \in SUBSET S |-> g[s]]
<1> HIDE DEF F, S
<1>4. f = Step(f)
  <2>1. ASSUME NEW s \in SUBSET S PROVE f[s] = Step(f)[s]
    <3>1. CASE s = {}
      BY <3>1, <1>3 DEF Sums
    <3>2. CASE s # {}
      <4> DEFINE x == CHOOSE x \in s : TRUE
      <4>1. x \in s
        BY <3>2
      <4> HIDE DEF x
      <4>2. g[s] = F[x] + g[s \ {x}] /\ F[x] = EstimateNodeMemory(c[x]) /\ s \ {x} \in SUBSET S
        BY <4>1, <1>2, <1>3 DEF Sums
      <4>3. f[s] = EstimateNodeMemory(c[x]) + f[s \ {x}]
        BY <4>2
      <4>4. Step(f)[s] = EstimateNodeMemory(c[x]) + f[s \ {x}]
        BY <3>2 DEF x
      <4>5. QED
        BY <4>3, <4>4
    <3>3. QED
      BY <3>1, <3>2
  <2>2. QED
    BY <2>1
<1>5. w = Step(w)
  <2> HIDE DEF f
  <2> QED
    BY <1>4
<1> HIDE DEF w
<1>6. SumsSomehow(w, F, S)
  <2>1. w[{}] = 0
    <3>1. {} \in SUBSET S /\ w[{}] = Step(w)[{}]
      BY <1>5
    <3>2. QED
      BY <3>1
  <2>2. ASSUME NEW s \in SUBSET S, s # {}
        PROVE  \E x \in s : w[s] = F[x] + w[s \ {x}]
    <3> DEFINE x == CHOOSE x \in s : TRUE
    <3>1. x \in s /\ Step(w)[s] = EstimateNodeMemory(c[x]) + w[s \ {x}]
      BY <2>2
    <3> HIDE DEF x
    <3>2. w[s] = F[x] + w[s \ {x}]
      BY <3>1, <1>2, <1>5
    <3>3. QED
      BY <3>1, <3>2
  <2>3. QED
    BY <2>1, <2>2 DEF SumsSomehow
<1>7. w[S] = g[S]
  BY <1>2, <1>3, <1>6, SumsAgree
<1>8. QED
  BY <1>1, <1>3, <1>7 DEF F, S

LEMMA TotalEmpty == Total([k \in Key |-> Absent]) = 0
<1> DEFINE c == [k \in Key |-> Absent]
<1>1. {k \in Key : c[k] # Absent} = {}
  OBVIOUS
<1>2. \A k \in Key : c[k] # Absent => EstimateNodeMemory(c[k]) \in Nat
  OBVIOUS
<1> HIDE DEF c
<1>3. PICK g : Sums(g, [k \in Key |-> EstimateNodeMemory(c[k])], {k \in Key : c[k] # Absent})
               /\ Total(c) = g[{k \in Key : c[k] # Absent}]
  BY <1>2, TotalSums
<1>4. Total(c) = 0
  BY <1>1, <1>3 DEF Sums
<1>5. QED
  BY <1>4 DEF c

(* Replacing one entry replaces one term of the sum.                       *)
LEMMA TotalWrite ==
  ASSUME NEW c \in [Key -> Written \cup {Absent}], NEW k \in Key, NEW e \in Written
  PROVE  /\ Total(c) \in Nat
         /\ c[k] = Absent => Total([c EXCEPT ![k] = e]) = Total(c) + EstimateNodeMemory(e)
         /\ c[k] # Absent => \E rest \in Nat :
              /\ Total(c) = rest + EstimateNodeMemory(c[k])
              /\ Total([c EXCEPT ![k] = e]) = rest + EstimateNodeMemory(e)
<1> DEFINE d == [c EXCEPT ![k] = e]
           C == {j \in Key : c[j] # Absent}
           D == {j \in Key : d[j] # Absent}
           F == [j \in Key |-> EstimateNodeMemory(c[j])]
           G == [j \in Key |-> EstimateNodeMemory(d[j])]
           u == C \ {k}
<1>1. d \in [Key -> Written \cup {Absent}] /\ d[k] = e /\ \A j \in Key : j # k => d[j] = c[j]
  OBVIOUS
<1>2. e # Absent /\ EstimateNodeMemory(e) \in Nat
  BY WrittenFacts
<1>3. /\ \A j \in Key : c[j] # Absent => EstimateNodeMemory(c[j]) \in Nat
      /\ \A j \in Key : d[j] # Absent => EstimateNodeMemory(d[j]) \in Nat
  BY <1>1, WrittenFacts
<1> HIDE DEF d
<1>4. D = u \cup {k} /\ D \ {k} = u /\ k \in D /\ u \subseteq C /\ u \subseteq D
  BY <1>1, <1>2
<1>5. IsFiniteSet(u)
  <2>1. u \in SUBSET Key
    OBVIOUS
  <2> HIDE DEF u
  <2>2. QED
    BY <2>1, FS_Subset, SkipListConstants
<1>6. G[k] = EstimateNodeMemory(e) /\ F[k] = EstimateNodeMemory(c[k]) /\ \A j \in u : F[j] = G[j]
  BY <1>1
<1>7. PICK g : Sums(g, F, C) /\ Total(c) = g[C]
  BY <1>3, TotalSums
<1>8. PICK h : Sums(h, G, D) /\ Total(d) = h[D]
  BY <1>3, TotalSums
<1>9. k \in C <=> c[k] # Absent
  OBVIOUS
<1>10. c[k] = Absent => u = C
  OBVIOUS
<1> HIDE DEF C, D, F, G
<1>11. SumsSomehow(g, F, C)
  <2>1. \A s \in SUBSET C : s # {} => \E x \in s : x \in s
    OBVIOUS
  <2>2. QED
    BY <1>7 DEF Sums, SumsSomehow
<1> HIDE DEF u
<1>12. g[u] = h[u]
  <2>1. u \subseteq C /\ u \subseteq D
    BY <1>4
  <2>2. \A x \in u : F[x] = G[x]
    BY <1>6
  <2>3. Sums(h, G, D)
    BY <1>8
  <2>4. QED
    BY <2>1, <2>2, <2>3, <1>5, <1>11, SumsAgree
<1>13. h[D] = G[k] + h[u] /\ g[u] \in Nat /\ g[C] \in Nat
  <2>1. h[D] = G[k] + h[D \ {k}]
    BY <1>4, <1>8 DEF Sums
  <2>2. g[u] \in Nat /\ g[C] \in Nat
    BY <1>4, <1>7 DEF Sums
  <2>3. QED
    BY <2>1, <2>2, <1>4
<1>14. Total(d) = g[u] + EstimateNodeMemory(e)
  BY <1>6, <1>8, <1>12, <1>13, <1>2
<1>15. CASE c[k] = Absent
  BY <1>7, <1>10, <1>13, <1>14, <1>15 DEF d
<1>16. CASE c[k] # Absent
  <2>1. k \in C /\ C \ {k} = u
    BY <1>9, <1>16 DEF u
  <2>2. g[C] = F[k] + g[u]
    BY <2>1, <1>7 DEF Sums
  <2>3. EstimateNodeMemory(c[k]) \in Nat
    BY <1>3, <1>16
  <2>4. Total(c) = g[u] + EstimateNodeMemory(c[k])
    BY <2>2, <2>3, <1>6, <1>7, <1>13
  <2>5. QED
    BY <2>4, <1>7, <1>13, <1>14, <1>16 DEF d
<1>17. QED
  BY <1>15, <1>16

(* What the memtable can hold fits into a size_t.                          *)
EntriesFit == \A c \in [Key -> Written \cup {Absent}] : Total(c) < Word

CountersInv == usage = Total(entry) /\ count = Cardinality(Stored)

LEMMA SmallResidue ==
  ASSUME NEW x \in Nat, x < Word
  PROVE  x % Word = x /\ (x + Word) % Word = x
BY MemTableConstants

LEMMA WriteCounts ==
  ASSUME EntriesFit, MemTableTypeOK, SkipListInv, EntriesLinked, CountersInv,
         NEW key \in Key, NEW e \in Written, Write(key, e)
  PROVE  CountersInv'
<1> DEFINE old == entry[key]
           d == [entry EXCEPT ![key] = e]
<1>1. /\ entry' = d /\ Stored' = Stored \cup {key} /\ (key \in Stored <=> Find(key))
      /\ MemTableTypeOK'
  BY WriteStep
<1>2. entry \in [Key -> Written \cup {Absent}] /\ d \in [Key -> Written \cup {Absent}]
  BY DEF MemTableTypeOK
<1>3. Total(entry) \in Nat /\ Total(d) < Word /\ Word \in Nat
  BY <1>2, TotalWrite, MemTableConstants DEF EntriesFit
<1>4. Size(e) \in Nat /\ EstimateNodeMemory(e) = NodeBytes + Size(e) /\ NodeBytes \in Nat
  BY WrittenFacts, MemTableConstants DEF EstimateNodeMemory
<1>5. IsFiniteSet(Stored)
  BY FS_Subset, SkipListConstants DEF Stored
<1>6. Account(key, e) /\ (key \in Stored <=> old # Absent)
  BY DEF Write, Stored
<1>7. CASE Find(key)
  <2>1. old \in Written
    BY <1>1, <1>2, <1>6, <1>7
  <2>2. Size(old) \in Nat /\ EstimateNodeMemory(old) = NodeBytes + Size(old)
    BY <2>1, WrittenFacts DEF EstimateNodeMemory
  <2>3. PICK rest \in Nat : /\ Total(entry) = rest + EstimateNodeMemory(old)
                            /\ Total(d) = rest + EstimateNodeMemory(e)
    <3>1. entry[key] # Absent /\ entry \in [Key -> Written \cup {Absent}]
      BY <1>1, <1>2, <1>6, <1>7
    <3>2. \E rest \in Nat :
            /\ Total(entry) = rest + EstimateNodeMemory(entry[key])
            /\ Total([entry EXCEPT ![key] = e]) = rest + EstimateNodeMemory(e)
      BY <3>1, TotalWrite
    <3>3. QED
      BY <3>2
  <2>4. usage' = Total(d) /\ count' = count
    <3>1. usage = Total(entry)
      BY DEF CountersInv
    <3>2. /\ Size(e) >= Size(old) => usage' = (usage + (Size(e) - Size(old))) % Word
          /\ ~ (Size(e) >= Size(old)) => usage' = (usage + Word - (Size(old) - Size(e))) % Word
          /\ count' = count
      BY <1>6, <1>7 DEF Account, Plus, Minus
    <3> HIDE DEF old, d
    <3>3. CASE Size(e) >= Size(old)
      <4>1. usage + (Size(e) - Size(old)) = Total(d) /\ Total(d) \in Nat
        BY <3>1, <1>4, <2>2, <2>3
      <4>2. QED
        BY <4>1, <3>2, <3>3, <1>3, SmallResidue
    <3>4. CASE ~ (Size(e) >= Size(old))
      <4>1. usage + Word - (Size(old) - Size(e)) = Total(d) + Word /\ Total(d) \in Nat
        BY <3>1, <1>3, <1>4, <2>2, <2>3
      <4>2. QED
        BY <4>1, <3>2, <3>4, <1>3, SmallResidue
    <3>5. QED
      BY <3>3, <3>4
  <2>5. Stored' = Stored
    BY <1>1, <1>7
  <2>6. QED
    BY <2>4, <2>5, <1>1 DEF CountersInv
<1>8. CASE ~ Find(key)
  <2>1. Total(d) = Total(entry) + EstimateNodeMemory(e)
    BY <1>1, <1>2, <1>6, <1>8, TotalWrite
  <2>2. usage' = (usage + EstimateNodeMemory(e)) % Word /\ count' = count + 1 /\ usage = Total(entry)
    BY <1>6, <1>8 DEF Account, Plus, CountersInv
  <2>3. Total(d) \in Nat
    BY <2>1, <1>3, <1>4
  <2> HIDE DEF d
  <2>4. usage' = Total(d)
    BY <2>1, <2>2, <2>3, <1>3, SmallResidue
  <2>5. Cardinality(Stored') = Cardinality(Stored) + 1
    BY <1>1, <1>5, <1>8, FS_AddElement
  <2>6. QED
    BY <2>2, <2>4, <2>5, <1>1 DEF CountersInv
<1>9. QED
  BY <1>7, <1>8

LEMMA FlushCounts ==
  ASSUME EntriesFit, FlushInv, CountersInv, [Next]_flushVars
  PROVE  CountersInv'
<1>1. MemTableTypeOK /\ SkipListInv /\ EntriesLinked
  BY DEF FlushInv, FlushTypeOK
<1>2. UNCHANGED <<entry, usage, count>> => CountersInv'
  BY DEF CountersInv, Stored
<1>3. ASSUME NEW key \in Key, NEW e \in Written, Write(key, e)
      PROVE  CountersInv'
  BY <1>1, <1>3, WriteCounts
<1>4. CASE Replay
  <2>1. log[1] \in LogEntry
    BY <1>4 DEF Replay, FlushInv, FlushTypeOK
  <2>2. QED
    BY <2>1, <1>3, <1>4 DEF Replay, LogEntry
<1>5. ASSUME NEW k \in Key, NEW v \in ValueSize, Put(k, v)
      PROVE  CountersInv'
  BY <1>3, <1>5 DEF Put, Written
<1>6. ASSUME NEW k \in Key, Delete(k)
      PROVE  CountersInv'
  BY <1>3, <1>6 DEF Delete, Written
<1>7. CASE NewMemTable
  <2>1. entry' = [k \in Key |-> Absent] /\ usage' = 0 /\ count' = 0
    BY <1>7 DEF NewMemTable, Clear
  <2>2. Stored' = {}
    BY <2>1 DEF Stored
  <2>3. QED
    BY <2>1, <2>2, TotalEmpty, FS_EmptySet DEF CountersInv
<1>8. CASE Open \/ Return \/ FlushMemTable \/ BeginFlush \/ AddEntry \/ FinishTable
  BY <1>2, <1>8 DEF Open, Return, FlushMemTable, BeginFlush, AddEntry, FinishTable, memTableVars
<1>9. CASE Concurrent
  BY <1>2, <1>9 DEF Concurrent
<1>10. CASE UNCHANGED flushVars
  BY <1>2, <1>10 DEF flushVars, memTableVars
<1>11. QED
  BY <1>4, <1>5, <1>6, <1>7, <1>8, <1>9, <1>10 DEF Next

-----------------------------------------------------------------------------
(* Types hold at every instant, a flush has an entry to write, and nothing *)
(* is half linked when one runs.                                           *)
THEOREM FlushTypeCorrect == Spec => []FlushTypeOK
<1>1. FlushInv => FlushTypeOK
  BY DEF FlushInv
<1>2. QED
  BY <1>1, FlushInvariant, PTL

(* SkipList::Insert keeps every level ascending and a subset of the one    *)
(* below, between any two of its stores.                                   *)
THEOREM LevelsStayNested == Spec => []LevelsNested
<1>1. FlushInv => LevelsNested
  BY LevelsFollow DEF FlushInv
<1>2. QED
  BY <1>1, FlushInvariant, PTL

(* An iterator that takes no lock misses no key that was in the list when  *)
(* its seek began, and returns keys in order.                              *)
THEOREM IteratorSkipsNothing == Spec => []SeekSkipsNothing
<1>1. FlushInv => SeekSkipsNothing
  BY DEF FlushInv, SkipListInv, ReaderOK
<1>2. QED
  BY <1>1, FlushInvariant, PTL

(* A finished table ascends and answers for every key what the memtable    *)
(* held, for any set of hashes, any size of the filter and any interval of *)
(* the index.                                                              *)
THEOREM TablesAreFaithful == Spec => []TableFaithful
<1>1. FlushInv => TableFaithful
  <2>1. SUFFICES ASSUME FlushInv, phase = "table" PROVE TableFaithful
    BY DEF TableFaithful
  <2>2. FileOK(file) /\ Copied /\ position = Nil /\ Linked(0) = Stored
    BY <2>1 DEF FlushInv, FlushTypeOK, FlushShape, EntriesLinked
  <2>3. ASSUME NEW k \in Key, NEW h \in Hash
        PROVE  ReaderGet(file, h, k, Absent) = entry[k]
    <3>1. CASE k \in Linked(0)
      <4>1. PICK i \in DOMAIN file.records : file.records[i].key = k
        BY <3>1, <2>2 DEF Copied
      <4>2. file.records[i].entry = entry[k]
        BY <4>1, <2>2 DEF Copied
      <4>3. QED
        BY <4>1, <4>2, <2>2, GetFinds
    <3>2. CASE k \notin Linked(0)
      <4>1. \A i \in DOMAIN file.records : file.records[i].key # k
        BY <3>2, <2>2 DEF Copied
      <4>2. entry[k] = Absent
        BY <3>2, <2>2 DEF Stored
      <4>3. QED
        BY <4>1, <4>2, <2>2, GetMisses
    <3>3. QED
      BY <3>1, <3>2
  <2>4. QED
    BY <2>2, <2>3 DEF TableFaithful, FileOK
<1>2. QED
  BY <1>1, FlushInvariant, PTL

(* approx_memory_usage_, moved by unsigned differences only, is the sum of *)
(* the sizes of the entries, and num_entries_ is their number, as long as  *)
(* that sum fits into a size_t.                                            *)
THEOREM CountersStayExact ==
  ASSUME EntriesFit
  PROVE  Spec => []CountersExact
<1>1. Init => CountersInv
  <2>1. SUFFICES ASSUME Init PROVE CountersInv
    OBVIOUS
  <2>2. entry = [k \in Key |-> Absent] /\ usage = 0 /\ count = 0
    BY <2>1 DEF Init, InitMemTable
  <2>3. Stored = {}
    BY <2>2 DEF Stored
  <2>4. QED
    BY <2>2, <2>3, TotalEmpty, FS_EmptySet DEF CountersInv
<1>2. FlushInv /\ CountersInv /\ [Next]_flushVars => CountersInv'
  BY FlushCounts
<1>3. FlushInv /\ CountersInv => CountersExact
  <2>1. SUFFICES ASSUME FlushInv, CountersInv PROVE CountersExact
    OBVIOUS
  <2>2. Total(entry) = MapThenSumSet(LAMBDA k : EstimateNodeMemory(entry[k]), Stored)
    BY DEF Total, Stored
  <2>3. writer = "idle" => Linked(0) = Stored
    BY <2>1 DEF FlushInv, EntriesLinked
  <2>4. QED
    BY <2>1, <2>2, <2>3 DEF CountersInv, CountersExact
<1>4. QED
  BY <1>1, <1>2, <1>3, FlushInvariant, PTL DEF Spec
=============================================================================
