---------------------------- MODULE TablesProofs ----------------------------
(* What the operators of Tables return, for every table, log and input.    *)
EXTENDS Tables, OrderProofs, SequenceTheorems

-----------------------------------------------------------------------------
(* Replay.                                                                 *)

(* Recovery yields a memtable, whatever the log holds.                     *)
LEMMA ReplayType ==
  ASSUME NEW log \in Seq(LogEntry)
  PROVE  Replay(log) \in Table
<1>1. ASSUME NEW k \in Key
      PROVE  (LET at == {i \in DOMAIN log : log[i].key = k}
              IN  IF at = {} THEN Absent ELSE log[Max(at)].cell) \in Cell
  <2> DEFINE at == {i \in DOMAIN log : log[i].key = k}
  <2>1. CASE at = {}
    BY <2>1 DEF Cell
  <2>2. CASE at # {}
    <3>1. Max(at) \in at
      <4>1. at \in SUBSET (0 .. Len(log)) /\ Len(log) \in Nat
        OBVIOUS
      <4> HIDE DEF at
      <4>2. QED
        BY <4>1, <2>2, MaxProperty
    <3>2. log[Max(at)] \in LogEntry
      BY <3>1
    <3>3. QED
      BY <2>2, <3>2 DEF LogEntry, Cell
  <2>3. QED
    BY <2>1, <2>2
<1>2. QED
  BY <1>1 DEF Replay, Table

(* An empty log recovers an empty memtable: after the truncation that ends *)
(* a flush, memory and log agree.                                          *)
LEMMA ReplayEmpty == Replay(<<>>) = EmptyTable
BY DEF Replay, EmptyTable

(* Appending an entry to the log has the effect on recovery that inserting *)
(* it has on the memtable.                                                 *)
LEMMA ReplayAppend ==
  ASSUME NEW log \in Seq(LogEntry), NEW e \in LogEntry
  PROVE  Replay(Append(log, e)) = [Replay(log) EXCEPT ![e.key] = e.cell]
<1> DEFINE new == Append(log, e)
           n == Len(log)
           At(l, k) == {i \in DOMAIN l : l[i].key = k}
<1>1. n \in Nat /\ DOMAIN log = 1 .. n /\ DOMAIN new = 1 .. n + 1
  OBVIOUS
<1>2. new[n + 1] = e /\ \A i \in 1 .. n : new[i] = log[i]
  OBVIOUS
<1>3. ASSUME NEW k \in Key
      PROVE  (IF At(new, k) = {} THEN Absent ELSE new[Max(At(new, k))].cell)
               = IF k = e.key THEN e.cell
                 ELSE IF At(log, k) = {} THEN Absent ELSE log[Max(At(log, k))].cell
  <2>1. CASE k = e.key
    <3>1. n + 1 \in At(new, k)
      BY <2>1, <1>1, <1>2
    <3>2. Max(At(new, k)) = n + 1
      <4>1. At(new, k) \in SUBSET (1 .. n + 1) /\ At(new, k) \in SUBSET (0 .. n + 1)
            /\ n + 1 \in Nat
        BY <1>1
      <4>2. Max(At(new, k)) \in At(new, k) /\ \A j \in At(new, k) : j <= Max(At(new, k))
        <5> HIDE DEF At, new, n
        <5> QED
          BY <4>1, <3>1, MaxProperty
      <4>3. Max(At(new, k)) \in 1 .. n + 1 /\ n + 1 <= Max(At(new, k))
        BY <4>1, <4>2, <3>1
      <4> HIDE DEF At, new, n
      <4>4. QED
        BY <4>3, <1>1
    <3>3. QED
      BY <2>1, <3>1, <3>2, <1>2
  <2>2. CASE k # e.key
    <3>1. At(new, k) = At(log, k)
      BY <2>2, <1>1, <1>2
    <3>2. CASE At(log, k) = {}
      BY <3>1, <3>2, <2>2
    <3>3. CASE At(log, k) # {}
      <4>1. At(log, k) \in SUBSET (1 .. n) /\ At(log, k) \in SUBSET (0 .. n)
        BY <1>1
      <4>2. Max(At(log, k)) \in 1 .. n
        <5> HIDE DEF At, n
        <5> QED
          BY <4>1, <3>3, <1>1, MaxProperty
      <4>3. QED
        BY <4>2, <3>1, <3>3, <2>2, <1>2
    <3>4. QED
      BY <3>2, <3>3
  <2>3. QED
    BY <2>1, <2>2
<1>4. e.key \in Key
  BY DEF LogEntry
<1>5. QED
  BY <1>3, <1>4 DEF Replay

-----------------------------------------------------------------------------
(* Lookup.                                                                 *)

(* The reader that answers is the first that has the key.                  *)
LEMMA LookupFirst ==
  ASSUME NEW tables, NEW n \in Nat, DOMAIN tables = 1 .. n, NEW k,
         NEW i \in 1 .. n, tables[i][k] # Absent,
         \A j \in 1 .. n : j < i => tables[j][k] = Absent
  PROVE  Lookup(tables, k) = tables[i][k]
<1> DEFINE hits == {j \in DOMAIN tables : tables[j][k] # Absent}
<1>1. hits \in SUBSET Nat /\ i \in hits
  OBVIOUS
<1>2. Min(hits) \in hits /\ \A j \in hits : Min(hits) <= j
  <2> HIDE DEF hits
  <2> QED
    BY <1>1, MinProperty
<1>3. Min(hits) \in 1 .. n /\ Min(hits) <= i /\ tables[Min(hits)][k] # Absent
  BY <1>1, <1>2
<1>4. Min(hits) = i
  BY <1>3
<1>5. QED
  BY <1>1, <1>4 DEF Lookup

(* A key that no table holds is not found.                                 *)
LEMMA LookupNone ==
  ASSUME NEW tables, NEW k, \A i \in DOMAIN tables : tables[i][k] = Absent
  PROVE  Lookup(tables, k) = Absent
BY DEF Lookup

(* If some table holds the key then one of them is the first to do so.     *)
LEMMA FirstHolder ==
  ASSUME NEW tables, NEW n \in Nat, DOMAIN tables = 1 .. n, NEW k,
         \E i \in 1 .. n : tables[i][k] # Absent
  PROVE  \E i \in 1 .. n : /\ tables[i][k] # Absent
                           /\ \A j \in 1 .. n : j < i => tables[j][k] = Absent
<1> DEFINE hits == {j \in 1 .. n : tables[j][k] # Absent}
<1>1. hits \in SUBSET Nat /\ hits # {}
  OBVIOUS
<1>2. Min(hits) \in hits /\ \A j \in hits : Min(hits) <= j
  <2> HIDE DEF hits
  <2> QED
    BY <1>1, MinProperty
<1>3. \A j \in 1 .. n : j < Min(hits) => tables[j][k] = Absent
  BY <1>2
<1>4. QED
  BY <1>2, <1>3

(* A search through tables returns a cell.                                 *)
LEMMA LookupType ==
  ASSUME NEW tables \in Seq(Table), NEW k \in Key
  PROVE  Lookup(tables, k) \in Cell
<1> DEFINE n == Len(tables)
<1>1. n \in Nat /\ DOMAIN tables = 1 .. n /\ \A i \in 1 .. n : tables[i][k] \in Cell
  BY DEF Table
<1> HIDE DEF n
<1>2. CASE \E i \in 1 .. n : tables[i][k] # Absent
  <2>1. \E i \in 1 .. n : /\ tables[i][k] # Absent
                          /\ \A j \in 1 .. n : j < i => tables[j][k] = Absent
    BY <1>1, <1>2, FirstHolder
  <2>2. PICK i \in 1 .. n : /\ tables[i][k] # Absent
                           /\ \A j \in 1 .. n : j < i => tables[j][k] = Absent
    BY <2>1
  <2>3. Lookup(tables, k) = tables[i][k]
    BY <1>1, <2>2, LookupFirst
  <2>4. QED
    BY <1>1, <2>3
<1>3. CASE \A i \in 1 .. n : tables[i][k] = Absent
  BY <1>1, <1>3, LookupNone DEF Cell
<1>4. QED
  BY <1>2, <1>3

(* A table put in front decides for the keys it holds and leaves the       *)
(* others to the tables behind it: this is what publishing a flush does.   *)
LEMMA LookupPrepend ==
  ASSUME NEW tables \in Seq(Table), NEW t \in Table, NEW k \in Key
  PROVE  Lookup(<<t>> \o tables, k) = IF t[k] # Absent THEN t[k] ELSE Lookup(tables, k)
<1> DEFINE n == Len(tables)
           all == <<t>> \o tables
<1>1. n \in Nat /\ DOMAIN tables = 1 .. n /\ DOMAIN all = 1 .. n + 1
  OBVIOUS
<1>2. all[1] = t /\ \A i \in 1 .. n : all[i + 1] = tables[i]
  OBVIOUS
<1>3. \A i \in 2 .. n + 1 : all[i] = tables[i - 1] /\ i - 1 \in 1 .. n
  BY <1>1
<1> HIDE DEF n, all
<1>4. CASE t[k] # Absent
  <2>1. 1 \in 1 .. n + 1 /\ all[1][k] # Absent /\ \A j \in 1 .. n + 1 : ~ (j < 1)
    BY <1>1, <1>2, <1>4
  <2>2. Lookup(all, k) = all[1][k]
    BY <2>1, <1>1, LookupFirst
  <2>3. QED
    BY <2>2, <1>2, <1>4 DEF all
<1>5. CASE t[k] = Absent
  <2>1. CASE \E i \in 1 .. n : tables[i][k] # Absent
    <3>1. PICK i \in 1 .. n : /\ tables[i][k] # Absent
                             /\ \A j \in 1 .. n : j < i => tables[j][k] = Absent
      BY <1>1, <2>1, FirstHolder
    <3>2. i + 1 \in 1 .. n + 1 /\ all[i + 1][k] # Absent
      BY <1>1, <1>2, <3>1
    <3>3. ASSUME NEW j \in 1 .. n + 1, j < i + 1 PROVE all[j][k] = Absent
      <4>1. CASE j = 1
        BY <4>1, <1>2, <1>5
      <4>2. CASE j # 1
        <5>1. j \in 2 .. n + 1 /\ j - 1 < i
          BY <3>3, <4>2, <1>1
        <5>2. QED
          BY <5>1, <1>3, <3>1
      <4>3. QED
        BY <4>1, <4>2
    <3>4. Lookup(all, k) = all[i + 1][k]
      BY <3>2, <3>3, <1>1, LookupFirst
    <3>5. Lookup(tables, k) = tables[i][k]
      BY <3>1, <1>1, LookupFirst
    <3>6. QED
      BY <3>4, <3>5, <1>2, <1>5 DEF all
  <2>2. CASE \A i \in 1 .. n : tables[i][k] = Absent
    <3>1. ASSUME NEW i \in DOMAIN all PROVE all[i][k] = Absent
      <4>1. i = 1 \/ i \in 2 .. n + 1
        BY <1>1
      <4>2. QED
        BY <4>1, <1>2, <1>3, <1>5, <2>2
    <3>2. Lookup(all, k) = Absent /\ Lookup(tables, k) = Absent
      BY <3>1, <1>1, <2>2, LookupNone
    <3>3. QED
      BY <3>2, <1>5 DEF all
  <2>3. QED
    BY <2>1, <2>2
<1>6. QED
  BY <1>4, <1>5

(* One table alone answers for itself: after a compaction the merged       *)
(* table is the whole database.                                            *)
LEMMA LookupSingle ==
  ASSUME NEW t \in Table, NEW k \in Key
  PROVE  Lookup(<<t>>, k) = t[k]
<1>1. <<>> \in Seq(Table) /\ <<t>> \o <<>> = <<t>> /\ DOMAIN <<>> = {}
  OBVIOUS
<1>2. Lookup(<<>>, k) = Absent
  BY DEF Lookup
<1>3. Lookup(<<t>> \o <<>>, k) = IF t[k] # Absent THEN t[k] ELSE Lookup(<<>>, k)
  BY <1>1, LookupPrepend
<1>4. QED
  BY <1>1, <1>2, <1>3

-----------------------------------------------------------------------------
(* Compaction.                                                             *)

(* If generations fall strictly along the inputs, newest first, then the   *)
(* merged table holds for every key what the search through the inputs     *)
(* answers, and no tombstone.                                              *)
THEOREM CompactKeepsNewest ==
  ASSUME NEW inputs, NEW n \in Nat, DOMAIN inputs = 1 .. n,
         \A i \in 1 .. n : inputs[i].generation \in Nat,
         \A i, j \in 1 .. n : i < j => inputs[i].generation > inputs[j].generation,
         NEW t \in CompactOutcomes(inputs), NEW k \in Key
  PROVE  t[k] = Answer(Lookup([i \in 1 .. n |-> inputs[i].table], k))
<1> DEFINE tables == [i \in 1 .. n |-> inputs[i].table]
<1>1. DOMAIN tables = 1 .. n /\ \A i \in 1 .. n : tables[i][k] = inputs[i].table[k]
  OBVIOUS
<1>2. Holders(inputs, k) = {i \in 1 .. n : tables[i][k] # Absent}
  BY <1>1 DEF Holders
<1> HIDE DEF tables
<1>3. CASE \A i \in 1 .. n : tables[i][k] = Absent
  <2>1. Lookup(tables, k) = Absent
    BY <1>1, <1>3, LookupNone
  <2>2. t[k] = Absent
    BY <1>2, <1>3 DEF CompactOutcomes
  <2>3. QED
    BY <2>1, <2>2, CellsDistinct DEF Answer, tables
<1>4. CASE \E i \in 1 .. n : tables[i][k] # Absent
  <2> DOMAIN tables = 1 .. n
    BY <1>1
  <2>0. \E i \in 1 .. n : /\ tables[i][k] # Absent
                          /\ \A j \in 1 .. n : j < i => tables[j][k] = Absent
    BY <1>4, FirstHolder
  <2>1. PICK i \in 1 .. n : /\ tables[i][k] # Absent
                           /\ \A j \in 1 .. n : j < i => tables[j][k] = Absent
    BY <2>0
  <2>2. Lookup(tables, k) = tables[i][k]
    BY <1>1, <2>1, LookupFirst
  <2>3. PICK w \in Winners(inputs, k) : t[k] = Answer(inputs[w].table[k])
    BY <1>2, <1>4 DEF CompactOutcomes
  <2>4. w \in 1 .. n /\ tables[w][k] # Absent
        /\ inputs[i].generation <= inputs[w].generation
    BY <1>2, <2>1, <2>3 DEF Winners
  <2>5. ~ (w < i) /\ ~ (i < w)
    BY <2>1, <2>4
  <2>6. w = i
    BY <2>4, <2>5
  <2>7. QED
    BY <1>1, <2>2, <2>3, <2>6 DEF tables
<1>5. QED
  BY <1>3, <1>4

-----------------------------------------------------------------------------
(* Lists of file names.                                                    *)

(* Reversing keeps the members and counts positions from the other end.    *)
LEMMA ReverseProperties ==
  ASSUME NEW S, NEW s \in Seq(S)
  PROVE  /\ Reverse(s) \in Seq(S)
         /\ Len(Reverse(s)) = Len(s)
         /\ \A i \in 1 .. Len(s) : Reverse(s)[i] = s[Len(s) - i + 1]
         /\ ToSet(Reverse(s)) = ToSet(s)
<1> DEFINE n == Len(s)
           r == Reverse(s)
<1>1. n \in Nat /\ DOMAIN s = 1 .. n /\ \A i \in 1 .. n : s[i] \in S
  OBVIOUS
<1>2. \A i \in 1 .. n : n - i + 1 \in 1 .. n /\ n - (n - i + 1) + 1 = i
  BY <1>1
<1>3. r = [i \in 1 .. n |-> s[n - i + 1]]
  BY DEF Reverse
<1> HIDE DEF n, r
<1>4. r \in Seq(S) /\ Len(r) = n /\ DOMAIN r = 1 .. n
  BY <1>1, <1>2, <1>3
<1>5. \A i \in 1 .. n : r[i] = s[n - i + 1] /\ s[i] = r[n - i + 1]
  BY <1>2, <1>3
<1>6. ToSet(r) = ToSet(s)
  BY <1>1, <1>2, <1>4, <1>5 DEF ToSet
<1>7. QED
  BY <1>4, <1>5, <1>6 DEF n, r

(* Appending to MANIFEST is prepending to the list of readers.             *)
LEMMA ReverseAppend ==
  ASSUME NEW S, NEW s \in Seq(S), NEW x \in S
  PROVE  Reverse(Append(s, x)) = <<x>> \o Reverse(s)
<1> DEFINE n == Len(s)
           a == Append(s, x)
           l == Reverse(a)
           r == <<x>> \o Reverse(s)
<1>1. n \in Nat /\ a \in Seq(S) /\ Len(a) = n + 1
      /\ a[n + 1] = x /\ \A i \in 1 .. n : a[i] = s[i]
  OBVIOUS
<1>2. /\ Reverse(s) \in Seq(S) /\ Len(Reverse(s)) = n
      /\ \A i \in 1 .. n : Reverse(s)[i] = s[n - i + 1]
  BY ReverseProperties
<1>3. /\ l \in Seq(S) /\ Len(l) = n + 1
      /\ \A i \in 1 .. n + 1 : l[i] = a[n + 1 - i + 1]
  <2> HIDE DEF a, n
  <2>1. /\ l \in Seq(S) /\ Len(l) = Len(a)
        /\ \A i \in 1 .. Len(a) : l[i] = a[Len(a) - i + 1]
    BY <1>1, ReverseProperties
  <2>2. QED
    BY <1>1, <2>1
<1>4. r \in Seq(S) /\ Len(r) = n + 1 /\ r[1] = x
      /\ \A i \in 2 .. n + 1 : r[i] = Reverse(s)[i - 1]
  BY <1>2
<1> HIDE DEF n, a, l, r
<1>5. ASSUME NEW i \in 1 .. n + 1 PROVE l[i] = r[i]
  <2>1. CASE i = 1
    BY <2>1, <1>1, <1>3, <1>4
  <2>2. CASE i # 1
    <3>1. i \in 2 .. n + 1 /\ i - 1 \in 1 .. n /\ n - (i - 1) + 1 \in 1 .. n
          /\ n + 1 - i + 1 = n - (i - 1) + 1
      BY <2>2, <1>1
    <3>2. l[i] = a[n - (i - 1) + 1] /\ r[i] = s[n - (i - 1) + 1]
      BY <3>1, <1>2, <1>3, <1>4
    <3>3. QED
      BY <3>1, <3>2, <1>1
  <2>3. QED
    BY <2>1, <2>2
<1>6. l = r
  BY <1>1, <1>3, <1>4, <1>5, SeqEqual
<1>7. QED
  BY <1>6 DEF l, r, a

(* The prefixes Select goes through: the recursive function it is defined  *)
(* by exists and obeys its equation.                                       *)
LEMMA SelectPrefixes ==
  ASSUME NEW T, NEW list \in Seq(T), NEW S
  PROVE  \E kept : /\ kept = [n \in 0 .. Len(list) |->
                               IF n = 0 THEN <<>>
                               ELSE IF list[n] \in S THEN Append(kept[n - 1], list[n])
                               ELSE kept[n - 1]]
                   /\ Select(list, S) = kept[Len(list)]
<1> DEFINE N == Len(list)
           Step(g, m) == [n \in 0 .. m |-> IF n = 0 THEN <<>>
                                          ELSE IF list[n] \in S THEN Append(g[n - 1], list[n])
                                          ELSE g[n - 1]]
           Fails == {m \in 0 .. N : ~ \E g : g = Step(g, m)}
<1>1. N \in Nat
  OBVIOUS
<1>2. Fails = {}
  <2>1. SUFFICES ASSUME Fails # {} PROVE FALSE
    OBVIOUS
  <2>2. Min(Fails) \in Fails /\ \A m \in Fails : Min(Fails) <= m
    <3>1. Fails \in SUBSET Nat
      BY <1>1
    <3> HIDE DEF Fails
    <3>2. QED
      BY <2>1, <3>1, MinProperty
  <2>3. PICK m \in Fails : \A j \in Fails : m <= j
    BY <2>2
  <2>4. m \in 0 .. N
    OBVIOUS
  <2>5. m # 0
    <3>1. <<>> = ([n \in 0 .. 0 |-> <<>>])[0]
      OBVIOUS
    <3> DEFINE z == [n \in 0 .. 0 |-> <<>>]
    <3>2. z = Step(z, 0)
      OBVIOUS
    <3>3. QED
      BY <3>2
  <2>6. m - 1 \in 0 .. N /\ m - 1 \notin Fails
    <3>1. N \in Nat /\ m \in 0 .. N /\ m # 0
      BY <1>1, <2>4, <2>5
    <3> HIDE DEF N, Fails
    <3>2. m - 1 \in 0 .. N /\ ~ (m <= m - 1)
      BY <3>1
    <3>3. QED
      BY <3>2, <2>3
  <2>7. PICK g : g = Step(g, m - 1)
    BY <2>6
  <2> DEFINE h == [n \in 0 .. m |-> IF n < m THEN g[n]
                                   ELSE IF list[m] \in S THEN Append(g[m - 1], list[m])
                                   ELSE g[m - 1]]
  <2>8. h = Step(h, m)
    <3>1. ASSUME NEW n \in 0 .. m PROVE h[n] = Step(h, m)[n]
      <4>1. CASE n = m
        <5>1. n - 1 \in 0 .. m /\ n - 1 < m /\ n # 0
          BY <4>1, <2>4, <2>5
        <5>2. h[n - 1] = g[m - 1]
          BY <5>1, <4>1
        <5>3. QED
          BY <5>1, <5>2, <4>1
      <4>2. CASE n # m
        <5>1. n < m /\ n \in 0 .. m - 1
          BY <4>2, <2>4, <2>5
        <5>2. h[n] = g[n]
          BY <5>1
        <5>3. g[n] = Step(g, m - 1)[n]
          BY <2>7
        <5>4. n # 0 => n - 1 \in 0 .. m /\ n - 1 < m
          BY <5>1, <2>4
        <5>5. n # 0 => h[n - 1] = g[n - 1]
          BY <5>4
        <5>6. QED
          BY <5>1, <5>2, <5>3, <5>5
      <4>3. QED
        BY <4>1, <4>2
    <3>2. QED
      BY <3>1
  <2>9. QED
    BY <2>4, <2>8, <2>3
<1>3. N \in 0 .. N /\ N \notin Fails
  <2>1. N \in 0 .. N
    BY <1>1
  <2> HIDE DEF Fails
  <2>2. QED
    BY <2>1, <1>2
<1>4. \E g : g = Step(g, N)
  BY <1>3
<1> DEFINE kept == CHOOSE g : g = Step(g, N)
<1>5. kept = Step(kept, N)
  BY <1>4
<1>6. Select(list, S) = kept[N]
  BY DEF Select
<1>7. QED
  BY <1>5, <1>6

(* Select keeps exactly the members in S, and keeps the list itself where  *)
(* it drops nothing: the files that exist, the names that stay listed.     *)
LEMMA SelectMembers ==
  ASSUME NEW T, NEW list \in Seq(T), NEW S
  PROVE  /\ Select(list, S) \in Seq(T)
         /\ ToSet(Select(list, S)) = ToSet(list) \cap S
         /\ ToSet(list) \subseteq S => Select(list, S) = list
<1> DEFINE N == Len(list)
<1>1. PICK kept : /\ kept = [n \in 0 .. N |->
                               IF n = 0 THEN <<>>
                               ELSE IF list[n] \in S THEN Append(kept[n - 1], list[n])
                               ELSE kept[n - 1]]
                   /\ Select(list, S) = kept[N]
  BY SelectPrefixes
<1>2. N \in Nat /\ DOMAIN list = 1 .. N /\ \A i \in 1 .. N : list[i] \in T
  OBVIOUS
<1> DEFINE Good(m) == /\ kept[m] \in Seq(T)
                      /\ ToSet(kept[m]) = {list[i] : i \in 1 .. m} \cap S
                      /\ ToSet(list) \subseteq S => kept[m] = SubSeq(list, 1, m)
           Fails == {m \in 0 .. N : ~ Good(m)}
<1>3. kept[0] = <<>> /\ \A m \in 1 .. N : kept[m] = IF list[m] \in S THEN Append(kept[m - 1], list[m])
                                                                 ELSE kept[m - 1]
  <2>1. 0 \in 0 .. N /\ \A m \in 1 .. N : m \in 0 .. N /\ m # 0
    BY <1>2
  <2> HIDE DEF N
  <2>2. \A m \in 0 .. N : kept[m] = IF m = 0 THEN <<>>
                                     ELSE IF list[m] \in S THEN Append(kept[m - 1], list[m])
                                     ELSE kept[m - 1]
    <3> DEFINE body == [n \in 0 .. N |->
                               IF n = 0 THEN <<>>
                               ELSE IF list[n] \in S THEN Append(kept[n - 1], list[n])
                               ELSE kept[n - 1]]
    <3>1. kept = body
      BY <1>1
    <3>2. \A m \in 0 .. N : body[m] = IF m = 0 THEN <<>>
                                     ELSE IF list[m] \in S THEN Append(kept[m - 1], list[m])
                                     ELSE kept[m - 1]
      OBVIOUS
    <3>3. \A m \in 0 .. N : kept[m] = body[m]
      <4> HIDE DEF body
      <4> QED
        BY <3>1
    <3> HIDE DEF body
    <3>4. QED
      BY <3>2, <3>3
  <2>3. QED
    BY <2>1, <2>2
<1>4. Good(0)
  BY <1>2, <1>3, SubSeqEmpty DEF ToSet
<1>5. ASSUME NEW m \in 1 .. N, Good(m - 1) PROVE Good(m)
  <2>1. {list[i] : i \in 1 .. m} = {list[i] : i \in 1 .. m - 1} \cup {list[m]}
    <3>1. \A i \in 1 .. m : i \in 1 .. m - 1 \/ i = m
      OBVIOUS
    <3>2. QED
      BY <3>1
  <2>2. CASE list[m] \in S
    <3> DEFINE s == kept[m - 1]
    <3>1. kept[m] = Append(s, list[m]) /\ s \in Seq(T) /\ list[m] \in T
      <4>1. kept[m] = Append(s, list[m])
        BY <2>2, <1>3
      <4>2. s \in Seq(T) /\ list[m] \in T
        BY <1>2, <1>5
      <4>3. QED
        BY <4>1, <4>2
    <3>2. ToSet(Append(s, list[m])) = ToSet(s) \cup {list[m]}
      <4> HIDE DEF s
      <4>1. Len(s) \in Nat /\ DOMAIN s = 1 .. Len(s) /\ DOMAIN Append(s, list[m]) = 1 .. Len(s) + 1
            /\ \A i \in 1 .. Len(s) : Append(s, list[m])[i] = s[i]
            /\ Append(s, list[m])[Len(s) + 1] = list[m]
        BY <3>1
      <4>2. \A i \in 1 .. Len(s) + 1 : i \in 1 .. Len(s) \/ i = Len(s) + 1
        BY <4>1
      <4>3. QED
        BY <4>1, <4>2 DEF ToSet
    <3>3. ASSUME ToSet(list) \subseteq S PROVE kept[m] = SubSeq(list, 1, m)
      <4>1. s = SubSeq(list, 1, m - 1)
        BY <3>3, <1>5
      <4>2. Append(SubSeq(list, 1, m - 1), list[m]) = SubSeq(list, 1, m)
        BY <1>2
      <4>3. QED
        BY <3>1, <4>1, <4>2
    <3>4. kept[m] \in Seq(T)
      BY <3>1
    <3>5. ToSet(kept[m]) = {list[i] : i \in 1 .. m} \cap S
      BY <3>1, <3>2, <2>1, <2>2, <1>5
    <3>6. QED
      BY <3>3, <3>4, <3>5
  <2>3. CASE list[m] \notin S
    <3>1. ~ (ToSet(list) \subseteq S)
      BY <2>3, <1>2 DEF ToSet
    <3>2. kept[m] = kept[m - 1]
      BY <2>3, <1>3
    <3>3. QED
      BY <3>1, <3>2, <2>1, <2>3, <1>5
  <2>4. QED
    BY <2>2, <2>3
<1> HIDE DEF Good
<1>6. Fails = {}
  <2>1. SUFFICES ASSUME Fails # {} PROVE FALSE
    OBVIOUS
  <2>2. Min(Fails) \in Fails /\ \A m \in Fails : Min(Fails) <= m
    <3>1. Fails \in SUBSET Nat
      BY <1>2
    <3> HIDE DEF Fails
    <3>2. QED
      BY <2>1, <3>1, MinProperty
  <2>3. PICK m \in Fails : \A j \in Fails : m <= j
    BY <2>2
  <2>4. m \in 1 .. N
    BY <1>2, <1>4, <2>3
  <2>5. m - 1 \in 0 .. N /\ m - 1 \notin Fails
    BY <1>2, <2>3, <2>4
  <2>6. QED
    BY <1>5, <2>3, <2>4, <2>5
<1>7. Good(N)
  BY <1>2, <1>6
<1>8. /\ kept[N] \in Seq(T)
      /\ ToSet(kept[N]) = {list[i] : i \in 1 .. N} \cap S
      /\ ToSet(list) \subseteq S => kept[N] = SubSeq(list, 1, N)
  BY <1>7 DEF Good
<1>9. SubSeq(list, 1, N) = list
  OBVIOUS
<1>10. ToSet(list) = {list[i] : i \in 1 .. N}
  BY <1>2 DEF ToSet
<1>11. QED
  BY <1>1, <1>8, <1>9, <1>10

(* Nothing is selected from a list by a set that holds none of its         *)
(* members.                                                                *)
LEMMA SelectProperties ==
  ASSUME NEW T, NEW list \in Seq(T), NEW S
  PROVE  /\ ToSet(list) \cap S = {} => Select(list, S) = <<>>
         /\ ToSet(list) \subseteq S => Select(list, S) = list
<1> DEFINE kept == Select(list, S)
<1>1. kept \in Seq(T) /\ ToSet(kept) = ToSet(list) \cap S
      /\ (ToSet(list) \subseteq S => kept = list)
  BY SelectMembers
<1> HIDE DEF kept
<1>2. ASSUME kept # <<>> PROVE ToSet(kept) # {}
  <2>1. 1 \in DOMAIN kept
    BY <1>1, <1>2
  <2>2. QED
    BY <2>1 DEF ToSet
<1>3. QED
  BY <1>1, <1>2 DEF kept
=============================================================================
