----------------------------- MODULE WALProofs ------------------------------
(***************************************************************************)
(* Theorems about the write-ahead log, for any keys and values, any number *)
(* of appends, and tears at any of them.                                   *)
(***************************************************************************)
EXTENDS WAL, OrderProofs, SequenceTheorems, FiniteSetTheorems

(* An acknowledged entry stays where it was written until the log is       *)
(* emptied.                                                                *)
AckedInLog ==
  \A a \in acked : a.at \in DOMAIN log /\ log[a.at].entry = a.entry

(* The inductive invariant.                                                *)
IInv == TypeOK /\ AckedInLog /\ PrecedingPreserved

-----------------------------------------------------------------------------
(* Lines.                                                                  *)

(* A piece is on the line of the one before it, or, if that one has its    *)
(* newline, on the next.                                                   *)
LEMMA LineOfNext ==
  ASSUME NEW pieces \in Seq(Piece), NEW i \in Nat
  PROVE  /\ LineOf(pieces, i) \in Nat /\ LineOf(pieces, i) >= 1
         /\ LineOf(pieces, 1) = 1
         /\ LineOf(pieces, i + 1) =
              IF i >= 1 /\ pieces[i].written = Whole THEN LineOf(pieces, i) + 1
                                                     ELSE LineOf(pieces, i)
<1> DEFINE Ends(n) == {j \in 1 .. n - 1 : pieces[j].written = Whole}
<1>1. \A n \in Nat : IsFiniteSet(Ends(n)) /\ Cardinality(Ends(n)) \in Nat
  <2> SUFFICES ASSUME NEW n \in Nat
               PROVE  IsFiniteSet(Ends(n)) /\ Cardinality(Ends(n)) \in Nat
    OBVIOUS
  <2>1. IsFiniteSet(1 .. n - 1)
    BY FS_Interval
  <2>2. Ends(n) \in SUBSET (1 .. n - 1)
    OBVIOUS
  <2> HIDE DEF Ends
  <2>3. IsFiniteSet(Ends(n))
    BY <2>1, <2>2, FS_Subset
  <2>4. QED
    BY <2>3, FS_CardinalityType
<1>2. Ends(1) = {}
  OBVIOUS
<1>3. Ends(i + 1) = IF i >= 1 /\ pieces[i].written = Whole THEN Ends(i) \cup {i} ELSE Ends(i)
  <2>1. \A j \in 1 .. i : j = i \/ j \in 1 .. i - 1
    OBVIOUS
  <2>2. 1 .. (i + 1) - 1 = 1 .. i
    OBVIOUS
  <2>3. CASE i >= 1
    BY <2>1, <2>2, <2>3
  <2>4. CASE ~ (i >= 1)
    BY <2>2, <2>4
  <2>5. QED
    BY <2>3, <2>4
<1>4. i \notin Ends(i)
  OBVIOUS
<1>5. \A n : LineOf(pieces, n) = 1 + Cardinality(Ends(n))
  BY DEF LineOf
<1> HIDE DEF Ends
<1>6. Cardinality(Ends(1)) = 0
  BY <1>2, FS_EmptySet
<1>7. Cardinality(Ends(i) \cup {i}) = Cardinality(Ends(i)) + 1
  BY <1>1, <1>4, FS_AddElement
<1>8. Cardinality(Ends(i)) \in Nat
  BY <1>1
<1>9. LineOf(pieces, i) = 1 + Cardinality(Ends(i)) /\ LineOf(pieces, 1) = 1 + Cardinality(Ends(1))
      /\ LineOf(pieces, i + 1) = 1 + Cardinality(Ends(i + 1))
  BY <1>5
<1>10. CASE i >= 1 /\ pieces[i].written = Whole
  <2>1. Cardinality(Ends(i + 1)) = Cardinality(Ends(i)) + 1
    BY <1>3, <1>7, <1>10
  <2> QED
    BY <2>1, <1>6, <1>8, <1>9, <1>10
<1>11. CASE ~ (i >= 1 /\ pieces[i].written = Whole)
  <2>1. Ends(i + 1) = Ends(i)
    BY <1>3, <1>11
  <2> QED
    BY <2>1, <1>6, <1>8, <1>9, <1>11
<1>12. QED
  BY <1>10, <1>11

(* Later pieces are on the same line or a later one.                       *)
LEMMA LineOfMonotone ==
  ASSUME NEW pieces \in Seq(Piece), NEW i \in Nat, NEW j \in Nat, i <= j
  PROVE  LineOf(pieces, i) <= LineOf(pieces, j)
<1> DEFINE Ends(n) == {m \in 1 .. n - 1 : pieces[m].written = Whole}
<1>1. Ends(i) \in SUBSET Ends(j) /\ Ends(j) \in SUBSET (1 .. j - 1)
  OBVIOUS
<1>2. \A n : LineOf(pieces, n) = 1 + Cardinality(Ends(n))
  BY DEF LineOf
<1> HIDE DEF Ends
<1>3. IsFiniteSet(1 .. j - 1)
  BY FS_Interval
<1>4. IsFiniteSet(Ends(j))
  BY <1>1, <1>3, FS_Subset
<1>5. IsFiniteSet(Ends(i)) /\ Cardinality(Ends(i)) <= Cardinality(Ends(j))
  BY <1>1, <1>4, FS_Subset
<1>6. Cardinality(Ends(i)) \in Nat /\ Cardinality(Ends(j)) \in Nat
  BY <1>4, <1>5, FS_CardinalityType
<1>7. QED
  BY <1>2, <1>5, <1>6

(* The lines of a log are numbered without a gap.                          *)
LEMMA LinesNumbered ==
  ASSUME NEW pieces \in Seq(Piece), NEW n \in Nat \ {0}, n = Len(pieces)
  PROVE  {LineOf(pieces, i) : i \in 1 .. n} = 1 .. LineOf(pieces, n)
<1> DEFINE N == LineOf(pieces, n)
<1>1. \A i \in 1 .. n : LineOf(pieces, i) \in 1 .. N
  <2> SUFFICES ASSUME NEW i \in 1 .. n PROVE LineOf(pieces, i) \in 1 .. N
    OBVIOUS
  <2>1. i \in Nat /\ i <= n /\ n \in Nat
    OBVIOUS
  <2>2. LineOf(pieces, i) \in Nat /\ LineOf(pieces, i) >= 1 /\ N \in Nat
    BY <2>1, LineOfNext
  <2>3. LineOf(pieces, i) <= N
    BY <2>1, LineOfMonotone
  <2>4. QED
    BY <2>2, <2>3
<1>2. ASSUME NEW v \in 1 .. N PROVE \E i \in 1 .. n : LineOf(pieces, i) = v
  <2> DEFINE S == {i \in 1 .. n : v <= LineOf(pieces, i)}
  <2>1. n \in S /\ S \in SUBSET Nat
    <3>1. N \in Nat
      BY LineOfNext
    <3>2. QED
      BY <3>1
  <2>2. Min(S) \in S /\ \A j \in S : Min(S) <= j
    <3> HIDE DEF S
    <3> QED
      BY <2>1, MinProperty
  <2>3. PICK i \in 1 .. n : v <= LineOf(pieces, i) /\ \A j \in 1 .. n : j < i => ~ (v <= LineOf(pieces, j))
    BY <2>2
  <2>4. LineOf(pieces, i) \in Nat /\ LineOf(pieces, 1) = 1 /\ i \in Nat /\ N \in Nat
    BY LineOfNext
  <2>5. CASE i = 1
    BY <2>3, <2>4, <2>5
  <2>6. CASE i # 1
    <3>1. i - 1 \in 1 .. n /\ i - 1 < i /\ i - 1 \in Nat /\ (i - 1) + 1 = i
      BY <2>6
    <3>2. LineOf(pieces, i - 1) \in Nat
          /\ LineOf(pieces, i) <= LineOf(pieces, i - 1) + 1
      <4>1. /\ LineOf(pieces, i - 1) \in Nat
            /\ LineOf(pieces, (i - 1) + 1) =
                 IF i - 1 >= 1 /\ pieces[i - 1].written = Whole THEN LineOf(pieces, i - 1) + 1
                                                                ELSE LineOf(pieces, i - 1)
        BY <3>1, LineOfNext
      <4>2. QED
        BY <3>1, <4>1
    <3>3. ~ (v <= LineOf(pieces, i - 1))
      BY <3>1, <2>3
    <3>4. QED
      BY <3>2, <3>3, <2>3, <2>4
  <2>7. QED
    BY <2>5, <2>6
<1>3. QED
  BY <1>1, <1>2

(* The pieces of line m, and what a line is made of.                       *)
At(pieces, m) == {i \in DOMAIN pieces : LineOf(pieces, i) = m}

(* How many lines a log has.                                               *)
LineCount(pieces) == IF pieces = <<>> THEN 0 ELSE LineOf(pieces, Len(pieces))

(* The lines are numbered from 1, and each runs from the first of its      *)
(* pieces to the last.                                                     *)
LEMMA LinesDomain ==
  ASSUME NEW pieces \in Seq(Piece)
  PROVE  /\ LineCount(pieces) \in Nat
         /\ DOMAIN Lines(pieces) = 1 .. LineCount(pieces)
         /\ \A m \in 1 .. LineCount(pieces) :
              /\ At(pieces, m) # {}
              /\ Min(At(pieces, m)) \in At(pieces, m)
              /\ \A i \in At(pieces, m) : Min(At(pieces, m)) <= i
              /\ Max(At(pieces, m)) \in At(pieces, m)
              /\ \A i \in At(pieces, m) : i <= Max(At(pieces, m))
              /\ Lines(pieces)[m] = SubSeq(pieces, Min(At(pieces, m)), Max(At(pieces, m)))
<1> DEFINE n == Len(pieces)
           Numbers == {LineOf(pieces, i) : i \in DOMAIN pieces}
<1>1. n \in Nat /\ DOMAIN pieces = 1 .. n
  OBVIOUS
<1>2. LineCount(pieces) \in Nat
  <2>1. LineOf(pieces, n) \in Nat
    BY <1>1, LineOfNext
  <2> QED
    BY <2>1 DEF LineCount
<1>3. Numbers = 1 .. LineCount(pieces)
  <2>1. CASE pieces = <<>>
    <3>1. DOMAIN pieces = {}
      BY <2>1
    <3>2. Numbers = {}
      BY <3>1
    <3>3. LineCount(pieces) = 0
      BY <2>1 DEF LineCount
    <3> QED
      BY <3>2, <3>3
  <2>2. CASE pieces # <<>>
    <3>1. n \in Nat \ {0}
      BY <2>2
    <3>2. {LineOf(pieces, i) : i \in 1 .. n} = 1 .. LineOf(pieces, n)
      BY <3>1, LinesNumbered
    <3> QED
      BY <3>2, <2>2, <1>1 DEF LineCount
  <2> QED
    BY <2>1, <2>2
<1>4. DOMAIN Lines(pieces) = Numbers
  BY DEF Lines
<1>5. ASSUME NEW m \in 1 .. LineCount(pieces)
      PROVE  /\ At(pieces, m) # {}
             /\ Min(At(pieces, m)) \in At(pieces, m)
             /\ \A i \in At(pieces, m) : Min(At(pieces, m)) <= i
             /\ Max(At(pieces, m)) \in At(pieces, m)
             /\ \A i \in At(pieces, m) : i <= Max(At(pieces, m))
             /\ Lines(pieces)[m] = SubSeq(pieces, Min(At(pieces, m)), Max(At(pieces, m)))
  <2>1. m \in Numbers
    BY <1>3
  <2>2. At(pieces, m) # {}
    BY <2>1 DEF At
  <2>3. At(pieces, m) \in SUBSET Nat /\ At(pieces, m) \in SUBSET (0 .. n)
    BY <1>1 DEF At
  <2>4. /\ Min(At(pieces, m)) \in At(pieces, m)
        /\ \A i \in At(pieces, m) : Min(At(pieces, m)) <= i
    BY <2>2, <2>3, MinProperty
  <2>5. /\ Max(At(pieces, m)) \in At(pieces, m)
        /\ \A i \in At(pieces, m) : i <= Max(At(pieces, m))
    BY <1>1, <2>2, <2>3, MaxProperty
  <2>6. Lines(pieces)[m] = SubSeq(pieces, Min(At(pieces, m)), Max(At(pieces, m)))
    BY <2>1 DEF Lines, At
  <2> QED
    BY <2>2, <2>4, <2>5, <2>6
<1> QED
  BY <1>2, <1>3, <1>4, <1>5

(* A line is a non-empty sequence of pieces, those from its first to its   *)
(* last.                                                                   *)
LEMMA LineOfPieces ==
  ASSUME NEW pieces \in Seq(Piece), NEW a \in DOMAIN pieces, NEW b \in DOMAIN pieces, a <= b
  PROVE  /\ SubSeq(pieces, a, b) \in Seq(Piece)
         /\ DOMAIN SubSeq(pieces, a, b) = 1 .. (b - a) + 1
         /\ \A q \in 1 .. (b - a) + 1 : SubSeq(pieces, a, b)[q] = pieces[a + q - 1]
<1>1. a \in 1 .. Len(pieces) + 1 /\ b \in a - 1 .. Len(pieces)
  OBVIOUS
<1>2. /\ SubSeq(pieces, a, b) \in Seq(Piece)
      /\ Len(SubSeq(pieces, a, b)) = IF a <= b THEN b - a + 1 ELSE 0
      /\ \A i \in 1 .. b - a + 1 : SubSeq(pieces, a, b)[i] = pieces[a + i - 1]
  BY <1>1, SubSeqProperties
<1> QED
  BY <1>2

(* The line t goes on where the line s ends.                               *)
Continues(s, t) ==
  /\ DOMAIN s \subseteq DOMAIN t
  /\ \A q \in DOMAIN s : t[q] = s[q]

(* An append leaves every line as it is or lets it go on.                  *)
LEMMA AppendContinues ==
  ASSUME NEW pieces \in Seq(Piece), NEW p \in Piece
  PROVE  /\ LineCount(pieces) <= LineCount(Append(pieces, p))
         /\ \A m \in 1 .. LineCount(pieces) :
              /\ Lines(pieces)[m] \in Seq(Piece)
              /\ Lines(Append(pieces, p))[m] \in Seq(Piece)
              /\ Continues(Lines(pieces)[m], Lines(Append(pieces, p))[m])
<1> DEFINE more == Append(pieces, p)
           n == Len(pieces)
<1>1. /\ n \in Nat /\ DOMAIN pieces = 1 .. n
      /\ more \in Seq(Piece) /\ DOMAIN more = 1 .. n + 1 /\ Len(more) = n + 1
      /\ more[n + 1] = p /\ \A i \in 1 .. n : more[i] = pieces[i]
  OBVIOUS
<1> HIDE DEF more
<1>2. \A i \in 1 .. n + 1 : LineOf(more, i) = LineOf(pieces, i)
  <2> SUFFICES ASSUME NEW i \in 1 .. n + 1 PROVE LineOf(more, i) = LineOf(pieces, i)
    OBVIOUS
  <2>1. \A j \in 1 .. i - 1 : more[j] = pieces[j]
    BY <1>1
  <2>2. {j \in 1 .. i - 1 : more[j].written = Whole} = {j \in 1 .. i - 1 : pieces[j].written = Whole}
    BY <2>1
  <2> QED
    BY <2>2 DEF LineOf
<1>3. LineCount(pieces) <= LineCount(more)
  <2>1. LineCount(more) = LineOf(pieces, n + 1)
    <3>1. more # <<>>
      BY <1>1
    <3>2. n + 1 \in 1 .. n + 1
      BY <1>1
    <3> QED
      BY <3>1, <3>2, <1>1, <1>2 DEF LineCount
  <2>2. CASE pieces = <<>>
    <3>1. n + 1 = 1
      BY <2>2
    <3>2. LineOf(pieces, 1) = 1
      BY <1>1, LineOfNext
    <3> QED
      BY <3>1, <3>2, <2>1, <2>2 DEF LineCount
  <2>3. CASE pieces # <<>>
    <3>1. LineOf(pieces, n) <= LineOf(pieces, n + 1)
      BY <1>1, LineOfMonotone
    <3> QED
      BY <3>1, <2>1, <2>3 DEF LineCount
  <2> QED
    BY <2>2, <2>3
<1>4. ASSUME NEW m \in 1 .. LineCount(pieces)
      PROVE  /\ Lines(pieces)[m] \in Seq(Piece)
             /\ Lines(more)[m] \in Seq(Piece)
             /\ Continues(Lines(pieces)[m], Lines(more)[m])
  <2> DEFINE S == At(pieces, m)
             T == At(more, m)
             a == Min(S)
             b == Max(S)
             c == Min(T)
             d == Max(T)
  <2>0. LineCount(pieces) \in Nat /\ LineCount(more) \in Nat
    BY <1>1, LinesDomain
  <2>1. m \in 1 .. LineCount(more)
    BY <2>0, <1>3
  <2>2. S \subseteq T /\ \A i \in T : i \in S \/ i = n + 1
    <3>1. \A i \in 1 .. n : i \in 1 .. n + 1
      BY <1>1
    <3>2. \A i \in 1 .. n + 1 : i \in 1 .. n \/ i = n + 1
      BY <1>1
    <3> QED
      BY <3>1, <3>2, <1>1, <1>2 DEF At
  <2>3. /\ a \in S /\ (\A i \in S : a <= i) /\ b \in S
        /\ Lines(pieces)[m] = SubSeq(pieces, a, b)
    BY LinesDomain
  <2>4. /\ c \in T /\ (\A i \in T : c <= i) /\ d \in T /\ \A i \in T : i <= d
        /\ Lines(more)[m] = SubSeq(more, c, d)
    BY <1>1, <2>1, LinesDomain
  <2>5. S \subseteq 1 .. n /\ T \subseteq 1 .. n + 1
    BY <1>1 DEF At
  <2> HIDE DEF S, T, a, b, c, d
  <2>6. a \in 1 .. n /\ b \in 1 .. n /\ c \in 1 .. n + 1 /\ d \in 1 .. n + 1
    BY <2>3, <2>4, <2>5
  <2>7. c = a
    <3>1. c <= a
      BY <2>2, <2>3, <2>4
    <3>2. c \in S
      <4>1. c # n + 1
        BY <3>1, <2>6, <1>1
      <4> QED
        BY <4>1, <2>2, <2>4
    <3>3. a <= c
      BY <3>2, <2>3
    <3> QED
      BY <3>1, <3>3, <2>6, <1>1
  <2>8. a <= b /\ b <= d
    BY <2>2, <2>3, <2>4
  <2>9. a <= d
    BY <2>6, <2>8, <1>1
  <2>10. /\ SubSeq(pieces, a, b) \in Seq(Piece)
         /\ DOMAIN SubSeq(pieces, a, b) = 1 .. (b - a) + 1
         /\ \A q \in 1 .. (b - a) + 1 : SubSeq(pieces, a, b)[q] = pieces[a + q - 1]
    BY <2>6, <2>8, <1>1, LineOfPieces
  <2>11. /\ SubSeq(more, a, d) \in Seq(Piece)
         /\ DOMAIN SubSeq(more, a, d) = 1 .. (d - a) + 1
         /\ \A q \in 1 .. (d - a) + 1 : SubSeq(more, a, d)[q] = more[a + q - 1]
    <3>1. a \in DOMAIN more /\ d \in DOMAIN more
      BY <2>6, <1>1
    <3> QED
      BY <3>1, <2>9, <1>1, LineOfPieces
  <2>12. \A q \in 1 .. (b - a) + 1 :
           q \in 1 .. (d - a) + 1 /\ a + q - 1 \in 1 .. n
    BY <2>6, <2>8, <1>1
  <2>13. \A q \in 1 .. (b - a) + 1 : SubSeq(more, a, d)[q] = SubSeq(pieces, a, b)[q]
    BY <2>10, <2>11, <2>12, <1>1
  <2>14. Continues(SubSeq(pieces, a, b), SubSeq(more, a, d))
    BY <2>10, <2>11, <2>12, <2>13 DEF Continues
  <2> QED
    BY <2>3, <2>4, <2>7, <2>10, <2>11, <2>14
<1> QED
  BY <1>3, <1>4 DEF more

-----------------------------------------------------------------------------
(* What is read from a line.                                               *)

(* The first of some positions stays the first when others are added after *)
(* all of them.                                                            *)
LEMMA FirstStays ==
  ASSUME NEW k \in Nat, NEW S \in SUBSET (1 .. k), S # {},
         NEW T \in SUBSET Nat, S \subseteq T, \A i \in T : i <= k => i \in S
  PROVE  Min(T) = Min(S)
<1>1. Min(S) \in S /\ \A i \in S : Min(S) <= i
  <2>1. S \in SUBSET Nat
    OBVIOUS
  <2> QED
    BY <2>1, MinProperty
<1>2. Min(T) \in T /\ \A i \in T : Min(T) <= i
  BY MinProperty
<1>3. Min(T) <= Min(S) /\ Min(S) \in 1 .. k /\ Min(T) \in Nat
  BY <1>1, <1>2
<1>4. Min(T) \in S
  BY <1>2, <1>3
<1>5. Min(S) <= Min(T)
  BY <1>1, <1>4
<1> QED
  BY <1>3, <1>5

(* The pieces that Parses looks at: those in which the name of the last    *)
(* field is found.                                                         *)
Named(line) ==
  {p \in DOMAIN line : \/ line[p].written >= 7
                       \/ line[p].entry.key \in TimestampKey /\ line[p].written >= 4}

(* The pieces that StringField looks at: those that name field i.          *)
Begun(line, i) == {p \in DOMAIN line : line[p].written >= 2 * i - 1}

(* A line that can be read is read the same when it goes on: every field   *)
(* is taken from a piece that is already there.                            *)
LEMMA ContinuedParse ==
  ASSUME NEW s \in Seq(Piece), NEW t \in Seq(Piece), Continues(s, t), Parses(s)
  PROVE  Parses(t) /\ ParseLogEntry(t) = ParseLogEntry(s)
<1> DEFINE k == Len(s)
<1>1. k \in Nat /\ DOMAIN s = 1 .. k /\ DOMAIN t = 1 .. Len(t) /\ Len(t) \in Nat
  OBVIOUS
<1>2. DOMAIN s \subseteq DOMAIN t /\ \A q \in 1 .. k : t[q] = s[q]
  BY <1>1 DEF Continues
<1>3. /\ Named(s) # {} /\ s[Min(Named(s))].written >= 8
      /\ s[Min(Named(s))].entry.key \notin TimestampKey
  BY DEF Parses, Named
<1>4. Min(Named(t)) = Min(Named(s))
  <2>1. Named(s) \in SUBSET (1 .. k) /\ Named(t) \in SUBSET Nat
    BY <1>1 DEF Named
  <2>2. Named(s) \subseteq Named(t)
    BY <1>1, <1>2 DEF Named
  <2>3. \A i \in Named(t) : i <= k => i \in Named(s)
    <3> SUFFICES ASSUME NEW i \in Named(t), i <= k PROVE i \in Named(s)
      OBVIOUS
    <3>1. i \in 1 .. k
      BY <1>1 DEF Named
    <3> QED
      BY <3>1, <1>1, <1>2 DEF Named
  <2> QED
    BY <1>1, <1>3, <2>1, <2>2, <2>3, FirstStays
<1>5. Min(Named(s)) \in 1 .. k
  <2>1. Named(s) \in SUBSET Nat
    BY <1>1 DEF Named
  <2>2. Min(Named(s)) \in Named(s)
    BY <1>3, <2>1, MinProperty
  <2> QED
    BY <2>2, <1>1 DEF Named
<1>6. t[Min(Named(t))] = s[Min(Named(s))] /\ Named(t) # {}
  <2>1. Named(s) \subseteq Named(t)
    BY <1>1, <1>2 DEF Named
  <2> QED
    BY <2>1, <1>2, <1>3, <1>4, <1>5
<1>7. Parses(t)
  BY <1>3, <1>6 DEF Parses, Named
<1>8. ASSUME NEW i \in 1 .. 3 PROVE StringField(t, i) = StringField(s, i)
  <2>0. 2 * i - 1 <= 5 /\ 2 * i - 1 \in Nat
    OBVIOUS
  <2> DEFINE q == Min(Named(s))
  <2> HIDE DEF q
  <2>1. Begun(s, i) # {}
    <3>1. q \in 1 .. k /\ s[q].written >= 8
      BY <1>3, <1>5 DEF q
    <3>2. s[q].written \in 0 .. 9
      <4>1. s[q] \in Piece
        BY <3>1, <1>1
      <4> QED
        BY <4>1 DEF Piece, Whole
    <3>3. s[q].written >= 2 * i - 1
      BY <3>1, <3>2, <2>0
    <3> QED
      BY <3>1, <3>3, <1>1 DEF Begun
  <2>2. Begun(s, i) \in SUBSET (1 .. k) /\ Begun(t, i) \in SUBSET Nat
    BY <1>1 DEF Begun
  <2>3. Begun(s, i) \subseteq Begun(t, i)
    BY <1>1, <1>2 DEF Begun
  <2>4. \A j \in Begun(t, i) : j <= k => j \in Begun(s, i)
    <3> SUFFICES ASSUME NEW j \in Begun(t, i), j <= k PROVE j \in Begun(s, i)
      OBVIOUS
    <3>1. j \in 1 .. k
      BY <1>1 DEF Begun
    <3> QED
      BY <3>1, <1>1, <1>2 DEF Begun
  <2>5. Min(Begun(t, i)) = Min(Begun(s, i))
    BY <1>1, <2>1, <2>2, <2>3, <2>4, FirstStays
  <2>6. Min(Begun(s, i)) \in 1 .. k
    <3>1. Begun(s, i) \in SUBSET Nat
      BY <2>2
    <3>2. Min(Begun(s, i)) \in Begun(s, i)
      BY <2>1, <3>1, MinProperty
    <3> QED
      BY <3>2, <2>2
  <2>7. t[Min(Begun(t, i))] = s[Min(Begun(s, i))]
    BY <1>2, <2>5, <2>6
  <2> QED
    BY <2>7 DEF StringField, Begun
<1>9. StringField(t, 1) = StringField(s, 1) /\ StringField(t, 2) = StringField(s, 2)
      /\ StringField(t, 3) = StringField(s, 3)
  <2>1. 1 \in 1 .. 3 /\ 2 \in 1 .. 3 /\ 3 \in 1 .. 3
    OBVIOUS
  <2> QED
    BY <2>1, <1>8
<1> QED
  BY <1>7, <1>9 DEF ParseLogEntry

-----------------------------------------------------------------------------
(* Recovery.                                                               *)

(* What recovery may read, damaged lines included.                         *)
RecoveredEntry ==
  [op : {"PUT", "DELETE", Garbage}, key : Key \cup {Garbage}, value : Value \cup {Empty, Garbage}]

(* An entry is a record of its three fields.                               *)
LEMMA EntryFields ==
  ASSUME NEW e \in LogEntry
  PROVE  /\ e.op \in {"PUT", "DELETE"} /\ e.key \in Key /\ e.value \in Value \cup {Empty}
         /\ e = [op |-> e.op, key |-> e.key, value |-> e.value]
BY DEF LogEntry, PutEntry, DeleteEntry

(* What is read from a line has its type, damaged or not.                  *)
LEMMA ParsedType ==
  ASSUME NEW s \in Seq(Piece), Parses(s)
  PROVE  ParseLogEntry(s) \in RecoveredEntry
<1>1. DOMAIN s = 1 .. Len(s) /\ Len(s) \in Nat
  OBVIOUS
<1>2. Named(s) \in SUBSET Nat /\ Named(s) # {} /\ s[Min(Named(s))].written >= 8
  BY <1>1 DEF Named, Parses
<1>3. Min(Named(s)) \in DOMAIN s
  <2>1. Min(Named(s)) \in Named(s)
    BY <1>2, MinProperty
  <2> QED
    BY <2>1 DEF Named
<1>4. s[Min(Named(s))].written \in 0 .. 9
  <2>1. s[Min(Named(s))] \in Piece
    BY <1>1, <1>3
  <2> QED
    BY <2>1 DEF Piece, Whole
<1>5. ASSUME NEW i \in 1 .. 3
      PROVE  s[Min(Begun(s, i))].entry \in LogEntry
  <2>1. s[Min(Named(s))].written >= 2 * i - 1
    BY <1>2, <1>4
  <2>2. Begun(s, i) # {} /\ Begun(s, i) \in SUBSET Nat
    BY <2>1, <1>1, <1>3 DEF Begun
  <2>3. Min(Begun(s, i)) \in Begun(s, i)
    BY <2>2, MinProperty
  <2>4. s[Min(Begun(s, i))] \in Piece
    BY <2>3, <1>1 DEF Begun
  <2> QED
    BY <2>4 DEF Piece
<1>6. StringField(s, 1) \in {"PUT", "DELETE", Garbage}
  <2>1. s[Min(Begun(s, 1))].entry.op \in {"PUT", "DELETE"}
    BY <1>5, EntryFields
  <2> QED
    BY <2>1 DEF StringField, Begun
<1>7. StringField(s, 2) \in Key \cup {Garbage}
  <2>1. s[Min(Begun(s, 2))].entry.key \in Key
    BY <1>5, EntryFields
  <2> QED
    BY <2>1 DEF StringField, Begun
<1>8. StringField(s, 3) \in Value \cup {Empty, Garbage}
  <2>1. s[Min(Begun(s, 3))].entry.value \in Value \cup {Empty}
    BY <1>5, EntryFields
  <2> QED
    BY <2>1 DEF StringField, Begun
<1> QED
  BY <1>6, <1>7, <1>8 DEF ParseLogEntry, RecoveredEntry

(* Where recovery ends: at the first line that cannot be read, or with the *)
(* last line.                                                              *)
LEMMA ReadableEnd ==
  ASSUME NEW pieces \in Seq(Piece)
  PROVE  \E end \in 0 .. LineCount(pieces) :
           /\ Recover(pieces) = [m \in 1 .. end |-> ParseLogEntry(Lines(pieces)[m])]
           /\ \A m \in 1 .. end : Parses(Lines(pieces)[m])
           /\ end # LineCount(pieces) => ~ Parses(Lines(pieces)[end + 1])
<1> DEFINE lines == Lines(pieces)
           N == LineCount(pieces)
           bad == Unreadable(lines)
<1>1. N \in Nat /\ DOMAIN lines = 1 .. N
  BY LinesDomain
<1>2. Len(lines) = N
  <2>1. lines \in [1 .. N -> {lines[m] : m \in 1 .. N}]
    <3>1. lines = [m \in DOMAIN lines |-> lines[m]]
      BY DEF Lines
    <3> QED
      BY <3>1, <1>1
  <2> HIDE DEF lines
  <2> QED
    BY <2>1, <1>1
<1>3. bad = {m \in 1 .. N : ~ Parses(lines[m])}
  BY <1>1 DEF Unreadable
<1>4. Recover(pieces) = Entries(lines, IF bad = {} THEN Len(lines) ELSE Min(bad) - 1)
  BY DEF Recover, Readable
<1> HIDE DEF lines, N, bad
<1>5. CASE bad = {}
  <2>1. Recover(pieces) = [m \in 1 .. N |-> ParseLogEntry(lines[m])]
    BY <1>2, <1>4, <1>5 DEF Entries
  <2>2. N \in 0 .. N /\ \A m \in 1 .. N : Parses(lines[m])
    BY <1>1, <1>3, <1>5
  <2> QED
    BY <2>1, <2>2 DEF lines, N
<1>6. CASE bad # {}
  <2>1. Min(bad) \in bad /\ \A m \in bad : Min(bad) <= m
    <3>1. bad \in SUBSET Nat
      BY <1>3
    <3> QED
      BY <3>1, <1>6, MinProperty
  <2> DEFINE e == Min(bad) - 1
  <2>2. /\ Min(bad) \in 1 .. N /\ e \in 0 .. N /\ e + 1 = Min(bad)
        /\ \A m \in 1 .. e : m \in 1 .. N /\ ~ (Min(bad) <= m)
    <3> DEFINE b == Min(bad)
    <3>1. b \in 1 .. N
      BY <2>1, <1>3
    <3> HIDE DEF b
    <3>2. /\ b - 1 \in 0 .. N /\ (b - 1) + 1 = b
          /\ \A m \in 1 .. b - 1 : m \in 1 .. N /\ ~ (b <= m)
      BY <3>1, <1>1
    <3> QED
      BY <3>1, <3>2 DEF b
  <2>3. Recover(pieces) = [m \in 1 .. e |-> ParseLogEntry(lines[m])]
    BY <1>4, <1>6 DEF Entries
  <2>4. ~ Parses(lines[e + 1])
    BY <2>1, <2>2, <1>3
  <2>5. \A m \in 1 .. e : Parses(lines[m])
    BY <2>1, <2>2, <1>3
  <2> HIDE DEF e
  <2> QED
    BY <2>2, <2>3, <2>4, <2>5 DEF lines, N
<1> QED
  BY <1>5, <1>6

(* What a restart recovers is a sequence of such entries.                  *)
LEMMA RecoverType ==
  ASSUME NEW pieces \in Seq(Piece)
  PROVE  Recover(pieces) \in Seq(RecoveredEntry)
<1>1. PICK end \in 0 .. LineCount(pieces) :
        /\ Recover(pieces) = [m \in 1 .. end |-> ParseLogEntry(Lines(pieces)[m])]
        /\ \A m \in 1 .. end : Parses(Lines(pieces)[m])
  BY ReadableEnd
<1>2. end \in Nat /\ \A m \in 1 .. end : m \in 1 .. LineCount(pieces)
  <2>1. LineCount(pieces) \in Nat
    BY LinesDomain
  <2> QED
    BY <2>1
<1>3. ASSUME NEW m \in 1 .. end PROVE ParseLogEntry(Lines(pieces)[m]) \in RecoveredEntry
  <2>1. PICK p \in Piece : TRUE
    <3>1. At(pieces, m) # {}
      BY <1>2, LinesDomain
    <3>2. \E i \in DOMAIN pieces : TRUE
      BY <3>1 DEF At
    <3> QED
      BY <3>2
  <2>2. Lines(pieces)[m] \in Seq(Piece)
    BY <1>2, <2>1, AppendContinues
  <2> QED
    BY <2>2, <1>1, ParsedType
<1>4. [m \in 1 .. end |-> ParseLogEntry(Lines(pieces)[m])] \in [1 .. end -> RecoveredEntry]
  BY <1>3
<1> QED
  BY <1>1, <1>2, <1>4

(* An append, whole or torn, only ever adds to what a restart recovers.    *)
LEMMA RecoverGrows ==
  ASSUME NEW pieces \in Seq(Piece), NEW p \in Piece
  PROVE  /\ Len(Recover(pieces)) <= Len(Recover(Append(pieces, p)))
         /\ \A m \in 1 .. Len(Recover(pieces)) :
              Recover(Append(pieces, p))[m] = Recover(pieces)[m]
<1> DEFINE more == Append(pieces, p)
<1>0. more \in Seq(Piece)
  OBVIOUS
<1>1. PICK end \in 0 .. LineCount(pieces) :
        /\ Recover(pieces) = [m \in 1 .. end |-> ParseLogEntry(Lines(pieces)[m])]
        /\ \A m \in 1 .. end : Parses(Lines(pieces)[m])
  BY ReadableEnd
<1>2. PICK last \in 0 .. LineCount(more) :
        /\ Recover(more) = [m \in 1 .. last |-> ParseLogEntry(Lines(more)[m])]
        /\ last # LineCount(more) => ~ Parses(Lines(more)[last + 1])
  <2> HIDE DEF more
  <2> QED
    BY <1>0, ReadableEnd
<1>3. /\ LineCount(pieces) \in Nat /\ LineCount(more) \in Nat
      /\ LineCount(pieces) <= LineCount(more)
  <2>1. LineCount(pieces) <= LineCount(more)
    BY AppendContinues
  <2> HIDE DEF more
  <2> QED
    BY <2>1, <1>0, LinesDomain
<1>4. ASSUME NEW m \in 1 .. end
      PROVE  /\ Parses(Lines(more)[m])
             /\ ParseLogEntry(Lines(more)[m]) = ParseLogEntry(Lines(pieces)[m])
  <2>1. m \in 1 .. LineCount(pieces)
    BY <1>3
  <2>2. /\ Lines(pieces)[m] \in Seq(Piece)
        /\ Lines(more)[m] \in Seq(Piece)
        /\ Continues(Lines(pieces)[m], Lines(more)[m])
    BY <2>1, AppendContinues
  <2>3. Parses(Lines(pieces)[m])
    BY <1>1
  <2> HIDE DEF more
  <2> QED
    BY <2>2, <2>3, ContinuedParse
<1> HIDE DEF more
<1>5. end <= last
  <2> SUFFICES ASSUME ~ (end <= last) PROVE FALSE
    OBVIOUS
  <2>1. last + 1 \in 1 .. end /\ last # LineCount(more)
    BY <1>3
  <2> QED
    BY <2>1, <1>2, <1>4
<1>6. end \in Nat /\ last \in Nat
  BY <1>3
<1>7. Len(Recover(pieces)) = end
  BY <1>1, <1>6
<1>8. Len(Recover(more)) = last
  BY <1>2, <1>6
<1>9. ASSUME NEW m \in 1 .. end PROVE Recover(more)[m] = Recover(pieces)[m]
  <2>1. m \in 1 .. last
    BY <1>5, <1>6
  <2>2. Recover(pieces)[m] = ParseLogEntry(Lines(pieces)[m])
    BY <1>1
  <2>3. Recover(more)[m] = ParseLogEntry(Lines(more)[m])
    BY <2>1, <1>2
  <2> QED
    BY <2>2, <2>3, <1>4
<1> QED
  BY <1>5, <1>7, <1>8, <1>9 DEF more

(* A log whose lines are whole entries that can be read back.              *)
SoundLog(pieces) ==
  \A i \in DOMAIN pieces :
    pieces[i].written = Whole /\ pieces[i].entry.key \notin TimestampKey

(* Sound says it of the log of a state.                                    *)
LEMMA SoundIsSoundLog ==
  ASSUME TypeOK
  PROVE  Sound <=> SoundLog(log)
BY DEF Sound, Torn, SoundLog

(* A sound log is recovered entry by entry.                                *)
LEMMA SoundRecover ==
  ASSUME NEW pieces \in Seq(Piece), SoundLog(pieces)
  PROVE  Recover(pieces) = [i \in 1 .. Len(pieces) |-> pieces[i].entry]
<1> DEFINE n == Len(pieces)
<1>1. n \in Nat /\ DOMAIN pieces = 1 .. n /\ \A i \in 1 .. n : pieces[i] \in Piece
  OBVIOUS
<1>2. ASSUME NEW i \in 1 .. n PROVE LineOf(pieces, i) = i
  <2>1. {j \in 1 .. i - 1 : pieces[j].written = Whole} = 1 .. i - 1
    BY <1>1 DEF SoundLog
  <2>2. i - 1 \in Nat /\ i \in Nat
    BY <1>1
  <2>3. Cardinality(1 .. i - 1) = i - 1
    <3>1. Cardinality(1 .. i - 1) = IF 1 > i - 1 THEN 0 ELSE (i - 1) - 1 + 1
      BY <2>2, FS_Interval
    <3> QED
      BY <3>1, <2>2
  <2>4. LineOf(pieces, i) = 1 + Cardinality(1 .. i - 1)
    BY <2>1 DEF LineOf
  <2> QED
    BY <2>2, <2>3, <2>4
<1>3. LineCount(pieces) = n
  <2>1. CASE pieces = <<>>
    BY <2>1 DEF LineCount
  <2>2. CASE pieces # <<>>
    <3>1. n \in 1 .. n
      BY <2>2
    <3> QED
      BY <3>1, <2>2, <1>2 DEF LineCount
  <2> QED
    BY <2>1, <2>2
<1>4. ASSUME NEW i \in 1 .. n
      PROVE  /\ Parses(Lines(pieces)[i])
             /\ ParseLogEntry(Lines(pieces)[i]) = pieces[i].entry
  <2> DEFINE line == Lines(pieces)[i]
  <2>1. At(pieces, i) = {i}
    BY <1>1, <1>2 DEF At
  <2>2. line = SubSeq(pieces, i, i)
    <3>1. i \in 1 .. LineCount(pieces)
      BY <1>3
    <3>2. /\ Min(At(pieces, i)) \in At(pieces, i) /\ Max(At(pieces, i)) \in At(pieces, i)
          /\ line = SubSeq(pieces, Min(At(pieces, i)), Max(At(pieces, i)))
      BY <3>1, LinesDomain
    <3> QED
      BY <3>2, <2>1
  <2>3. DOMAIN line = {1} /\ line[1] = pieces[i]
    <3>1. i \in DOMAIN pieces /\ i <= i /\ i \in Nat
      BY <1>1
    <3>2. /\ DOMAIN SubSeq(pieces, i, i) = 1 .. (i - i) + 1
          /\ \A q \in 1 .. (i - i) + 1 : SubSeq(pieces, i, i)[q] = pieces[i + q - 1]
      BY <3>1, LineOfPieces
    <3>3. (i - i) + 1 = 1 /\ i + 1 - 1 = i /\ 1 .. 1 = {1}
      BY <3>1
    <3> QED
      BY <3>2, <3>3, <2>2
  <2> HIDE DEF line
  <2>4. line[1].written = 9 /\ line[1].entry.key \notin TimestampKey /\ line[1].entry \in LogEntry
    <3>1. pieces[i] \in Piece
      BY <1>1
    <3> QED
      BY <3>1, <2>3, <1>1 DEF SoundLog, Piece, Whole
  <2>5. Named(line) = {1}
    BY <2>3, <2>4 DEF Named
  <2>6. \A S : S = {1} => Min(S) = 1
    <3> SUFFICES Min({1}) = 1
      OBVIOUS
    <3>1. {1} \in SUBSET Nat
      OBVIOUS
    <3> QED
      BY <3>1, MinProperty
  <2>7. Parses(line)
    BY <2>4, <2>5, <2>6 DEF Parses, Named
  <2>8. ASSUME NEW f \in 1 .. 3
        PROVE  StringField(line, f) =
                 <<line[1].entry.op, line[1].entry.key, line[1].entry.value>>[f]
    <3>1. Begun(line, f) = {1}
      BY <2>3, <2>4 DEF Begun
    <3>2. Min({p \in DOMAIN line : line[p].written >= 2 * f - 1}) = 1
      BY <3>1, <2>6 DEF Begun
    <3>3. line[1].written >= 2 * f
      BY <2>4
    <3> QED
      BY <3>2, <3>3 DEF StringField
  <2>9. /\ StringField(line, 1) = line[1].entry.op
        /\ StringField(line, 2) = line[1].entry.key
        /\ StringField(line, 3) = line[1].entry.value
    BY <2>8
  <2>10. ParseLogEntry(line) = line[1].entry
    <3>1. line[1].entry = [op |-> line[1].entry.op, key |-> line[1].entry.key, value |-> line[1].entry.value]
      BY <2>4, EntryFields
    <3> QED
      BY <3>1, <2>9 DEF ParseLogEntry
  <2> QED
    BY <2>3, <2>7, <2>10 DEF line
<1>5. PICK end \in 0 .. LineCount(pieces) :
        /\ Recover(pieces) = [m \in 1 .. end |-> ParseLogEntry(Lines(pieces)[m])]
        /\ end # LineCount(pieces) => ~ Parses(Lines(pieces)[end + 1])
  BY ReadableEnd
<1>6. end = n
  <2> SUFFICES ASSUME end # n PROVE FALSE
    OBVIOUS
  <2>1. end \in 0 .. n
    BY <1>3
  <2> HIDE DEF n
  <2>2. end + 1 \in 1 .. n
    BY <2>1, <1>1
  <2> QED
    BY <2>2, <1>3, <1>4, <1>5
<1>7. [m \in 1 .. n |-> ParseLogEntry(Lines(pieces)[m])] = [i \in 1 .. n |-> pieces[i].entry]
  BY <1>4
<1> QED
  BY <1>5, <1>6, <1>7

-----------------------------------------------------------------------------
(* Replay.                                                                 *)

(* The entries that recovery applies to k.                                 *)
Applied(entries, k) ==
  {n \in DOMAIN entries : entries[n].key = k /\ entries[n].op \in {"PUT", "DELETE"}}

(* The last of them is what the memtable holds.                            *)
LEMMA ReplayLast ==
  ASSUME NEW entries \in Seq(RecoveredEntry), NEW k \in Key \cup {Garbage}
  PROVE  /\ Applied(entries, k) = {} => Replay(entries)[k] = Absent
         /\ Applied(entries, k) # {} =>
              /\ Replay(entries)[k] = entries[Max(Applied(entries, k))]
              /\ Max(Applied(entries, k)) \in Applied(entries, k)
              /\ \A n \in Applied(entries, k) : n <= Max(Applied(entries, k))
<1>1. Replay(entries)[k] = IF Applied(entries, k) = {} THEN Absent
                                                       ELSE entries[Max(Applied(entries, k))]
  BY DEF Replay, Applied
<1>2. Len(entries) \in Nat /\ Applied(entries, k) \in SUBSET (0 .. Len(entries))
  BY DEF Applied
<1>3. Applied(entries, k) # {} =>
        /\ Max(Applied(entries, k)) \in Applied(entries, k)
        /\ \A n \in Applied(entries, k) : n <= Max(Applied(entries, k))
  BY <1>2, MaxProperty
<1> QED
  BY <1>1, <1>3

(* What a memtable may hold for k.                                         *)
TableEntry(k) == [op : {"PUT", "DELETE"}, key : {k}, value : Value \cup {Empty, Garbage}]

(* A replayed memtable holds for every key an entry of that key, or        *)
(* nothing.                                                                *)
LEMMA ReplayType ==
  ASSUME NEW entries \in Seq(RecoveredEntry)
  PROVE  /\ DOMAIN Replay(entries) = Key \cup {Garbage}
         /\ \A k \in DOMAIN Replay(entries) : Replay(entries)[k] \in TableEntry(k) \cup {Absent}
<1>1. DOMAIN Replay(entries) = Key \cup {Garbage}
  BY DEF Replay
<1>2. ASSUME NEW k \in Key \cup {Garbage}
      PROVE  Replay(entries)[k] \in TableEntry(k) \cup {Absent}
  <2>1. CASE Applied(entries, k) = {}
    BY <2>1, ReplayLast
  <2>2. CASE Applied(entries, k) # {}
    <3>1. PICK n \in Applied(entries, k) : Replay(entries)[k] = entries[n]
      BY <2>2, ReplayLast
    <3>2. /\ entries[n] \in RecoveredEntry
          /\ entries[n].key = k /\ entries[n].op \in {"PUT", "DELETE"}
      BY <3>1 DEF Applied
    <3>3. entries[n] \in TableEntry(k)
      BY <3>2 DEF RecoveredEntry, TableEntry
    <3> QED
      BY <3>1, <3>3
  <2> QED
    BY <2>1, <2>2
<1> QED
  BY <1>1, <1>2

-----------------------------------------------------------------------------
(* The steps.                                                              *)

(* The part of TypeOK about the memtable, of any memtable.                 *)
TableOK(tab) ==
  /\ DOMAIN tab = Key \cup {Garbage}
  /\ \A k \in DOMAIN tab : tab[k] \in TableEntry(k) \cup {Absent}

(* TypeOK, by its parts.                                                   *)
LEMMA TypeParts ==
  TypeOK <=> /\ log \in Seq(Piece)
             /\ table # Nil => TableOK(table)
             /\ acked \subseteq [entry : LogEntry, at : 1 .. MaxLog, sound : BOOLEAN]
BY DEF TypeOK, TableOK, TableEntry

(* The memtable that a restart builds has its type.                        *)
LEMMA RestoredTable ==
  ASSUME NEW pieces \in Seq(Piece)
  PROVE  TableOK(Replay(Recover(pieces)))
BY RecoverType, ReplayType DEF TableOK

(* A write adds a piece and leaves the acknowledged ones where they are.   *)
LEMMA WriteAppends ==
  ASSUME IInv, NEW e \in LogEntry, NEW n \in 0 .. Whole, Write(e, n)
  PROVE  /\ [entry |-> e, written |-> n] \in Piece
         /\ log' = Append(log, [entry |-> e, written |-> n])
         /\ log' \in Seq(Piece)
         /\ Len(log') = Len(log) + 1 /\ Len(log') \in 1 .. MaxLog
         /\ log'[Len(log')] = [entry |-> e, written |-> n]
         /\ \A a \in acked : a.at \in DOMAIN log' /\ log'[a.at].entry = a.entry
         /\ \A a \in acked : a.sound => /\ a.at \in DOMAIN Recover(log')
                                        /\ Recover(log')[a.at] = a.entry
<1> DEFINE p == [entry |-> e, written |-> n]
<1>1. p \in Piece
  BY DEF Piece
<1>2. log' = Append(log, p) /\ Len(log) < MaxLog
  BY DEF Write
<1>3. log \in Seq(Piece) /\ MaxLog \in Nat
  BY WALConstants DEF IInv, TypeOK
<1> HIDE DEF p
<1>4. /\ log' \in Seq(Piece) /\ Len(log') = Len(log) + 1 /\ log'[Len(log')] = p
      /\ DOMAIN log = 1 .. Len(log) /\ DOMAIN log' = 1 .. Len(log) + 1 /\ Len(log) \in Nat
      /\ \A i \in 1 .. Len(log) : log'[i] = log[i]
  BY <1>1, <1>2, <1>3
<1>5. Len(log') \in 1 .. MaxLog
  BY <1>2, <1>3, <1>4
<1>6. \A a \in acked : a.at \in DOMAIN log' /\ log'[a.at].entry = a.entry
  <2> SUFFICES ASSUME NEW a \in acked
               PROVE  a.at \in DOMAIN log' /\ log'[a.at].entry = a.entry
    OBVIOUS
  <2>1. a.at \in 1 .. Len(log) /\ log[a.at].entry = a.entry
    BY <1>4 DEF IInv, AckedInLog
  <2>2. a.at \in 1 .. Len(log) + 1
    BY <2>1, <1>4
  <2> QED
    BY <2>1, <2>2, <1>4
<1>7. \A a \in acked : a.sound => /\ a.at \in DOMAIN Recover(log')
                                  /\ Recover(log')[a.at] = a.entry
  <2> SUFFICES ASSUME NEW a \in acked, a.sound
               PROVE  a.at \in DOMAIN Recover(log') /\ Recover(log')[a.at] = a.entry
    OBVIOUS
  <2> DEFINE old == Recover(log)
             new == Recover(log')
  <2>1. a.at \in DOMAIN old /\ old[a.at] = a.entry
    BY DEF IInv, PrecedingPreserved
  <2>2. old \in Seq(RecoveredEntry) /\ new \in Seq(RecoveredEntry)
    BY <1>3, <1>4, RecoverType
  <2>3. /\ Len(old) <= Len(new)
        /\ \A m \in 1 .. Len(old) : new[m] = old[m]
    BY <1>1, <1>2, <1>3, RecoverGrows
  <2> HIDE DEF old, new
  <2>4. /\ DOMAIN old = 1 .. Len(old) /\ DOMAIN new = 1 .. Len(new)
        /\ Len(old) \in Nat /\ Len(new) \in Nat
    BY <2>2
  <2>5. a.at \in 1 .. Len(old)
    BY <2>1, <2>4
  <2>6. a.at \in 1 .. Len(new)
    BY <2>3, <2>4, <2>5
  <2> QED
    BY <2>1, <2>3, <2>4, <2>5, <2>6 DEF old, new
<1> QED
  BY <1>1, <1>2, <1>4, <1>5, <1>6, <1>7 DEF p

(* The process starts on an empty log.                                     *)
LEMMA InitStep == Init => IInv
<1> SUFFICES ASSUME Init PROVE IInv
  OBVIOUS
<1>1. log = <<>> /\ table = Nil /\ acked = {}
  BY DEF Init
<1>2. TypeOK
  BY <1>1, TypeParts
<1> QED
  BY <1>1, <1>2 DEF IInv, AckedInLog, PrecedingPreserved

(* A restart builds the memtable and leaves the log.                       *)
LEMMA OpenStep == ASSUME IInv, Open PROVE IInv'
<1>1. table' = Replay(Recover(log)) /\ log' = log /\ acked' = acked
  BY DEF Open
<1>2. TypeOK'
  <2>1. log \in Seq(Piece) /\ acked \subseteq [entry : LogEntry, at : 1 .. MaxLog, sound : BOOLEAN]
    BY TypeParts DEF IInv
  <2>2. TableOK(table')
    BY <1>1, <2>1, RestoredTable
  <2> QED
    BY <1>1, <2>1, <2>2 DEF TypeOK, TableOK, TableEntry
<1>3. AckedInLog' /\ PrecedingPreserved'
  BY <1>1 DEF IInv, AckedInLog, PrecedingPreserved
<1> QED
  BY <1>2, <1>3 DEF IInv

(* The new entry is acknowledged at the end of the log; if the log is      *)
(* sound, every line before it is one entry, and recovery reaches it.      *)
LEMMA ApplyStep ==
  ASSUME IInv, NEW e \in LogEntry, Apply(e)
  PROVE  IInv'
<1>1. /\ table # Nil
      /\ Write(e, Whole)
      /\ table' = [table EXCEPT ![e.key] = e]
      /\ acked' = acked \cup {[entry |-> e, at |-> Len(log'), sound |-> Sound']}
  BY DEF Apply
<1> DEFINE new == [entry |-> e, at |-> Len(log'), sound |-> Sound']
<1>2. Whole \in 0 .. Whole
  BY DEF Whole
<1>3. /\ log' \in Seq(Piece)
      /\ Len(log') = Len(log) + 1 /\ Len(log') \in 1 .. MaxLog
      /\ log'[Len(log')] = [entry |-> e, written |-> Whole]
      /\ \A a \in acked : a.at \in DOMAIN log' /\ log'[a.at].entry = a.entry
      /\ \A a \in acked : a.sound => /\ a.at \in DOMAIN Recover(log')
                                     /\ Recover(log')[a.at] = a.entry
  BY <1>1, <1>2, WriteAppends
<1>4. Sound' \in BOOLEAN /\ (Sound' <=> SoundLog(log'))
  BY <1>3 DEF Sound, Torn, SoundLog
<1>5. new \in [entry : LogEntry, at : 1 .. MaxLog, sound : BOOLEAN]
  BY <1>3, <1>4
<1>6. TableOK(table')
  <2>1. TableOK(table)
    BY <1>1, TypeParts DEF IInv
  <2>2. e.key \in Key /\ e \in TableEntry(e.key)
    <3>1. /\ e.op \in {"PUT", "DELETE"} /\ e.key \in Key /\ e.value \in Value \cup {Empty}
          /\ e = [op |-> e.op, key |-> e.key, value |-> e.value]
      BY EntryFields
    <3> QED
      BY <3>1 DEF TableEntry
  <2>3. DOMAIN table' = DOMAIN table
    BY <1>1
  <2>4. \A k \in DOMAIN table : table'[k] = IF k = e.key THEN e ELSE table[k]
    BY <1>1
  <2> QED
    BY <2>1, <2>2, <2>3, <2>4 DEF TableOK
<1>7. TypeOK'
  <2>1. acked' \subseteq [entry : LogEntry, at : 1 .. MaxLog, sound : BOOLEAN]
    BY <1>1, <1>5, TypeParts DEF IInv
  <2> QED
    BY <1>3, <1>6, <2>1 DEF TypeOK, TableOK, TableEntry
<1>8. new.at \in DOMAIN log' /\ log'[new.at].entry = new.entry
  BY <1>3
<1>9. AckedInLog'
  BY <1>1, <1>3, <1>8 DEF AckedInLog
<1>10. ASSUME Sound'
       PROVE  new.at \in DOMAIN Recover(log') /\ Recover(log')[new.at] = new.entry
  <2>1. Recover(log') = [i \in 1 .. Len(log') |-> log'[i].entry]
    BY <1>3, <1>4, <1>10, SoundRecover
  <2>2. Len(log') \in 1 .. Len(log')
    BY <1>3
  <2> QED
    BY <2>1, <2>2, <1>3
<1>11. PrecedingPreserved'
  <2> SUFFICES ASSUME NEW a \in acked', a.sound
               PROVE  a.at \in DOMAIN Recover(log') /\ Recover(log')[a.at] = a.entry
    BY DEF PrecedingPreserved
  <2>1. CASE a \in acked
    BY <2>1, <1>3
  <2>2. CASE a = new
    <3>1. Sound'
      BY <2>2
    <3> QED
      BY <2>2, <3>1, <1>10
  <2> QED
    BY <2>1, <2>2, <1>1
<1> QED
  BY <1>7, <1>9, <1>11 DEF IInv

(* A refused append and a crash during one write a piece and acknowledge   *)
(* nothing.                                                                *)
LEMMA TornStep ==
  ASSUME IInv, NEW e \in LogEntry, NEW n \in 0 .. Whole, Refuse(e, n) \/ CrashInAppend(e, n)
  PROVE  IInv'
<1>1. Write(e, n) /\ acked' = acked /\ (table' = table \/ table' = Nil)
  BY DEF Refuse, CrashInAppend
<1>2. /\ log' \in Seq(Piece)
      /\ \A a \in acked : a.at \in DOMAIN log' /\ log'[a.at].entry = a.entry
      /\ \A a \in acked : a.sound => /\ a.at \in DOMAIN Recover(log')
                                     /\ Recover(log')[a.at] = a.entry
  BY <1>1, WriteAppends
<1>3. TypeOK'
  <2>1. /\ acked \subseteq [entry : LogEntry, at : 1 .. MaxLog, sound : BOOLEAN]
        /\ table # Nil => TableOK(table)
    BY TypeParts DEF IInv
  <2>2. table' # Nil => TableOK(table')
    BY <1>1, <2>1
  <2> QED
    BY <1>1, <1>2, <2>1, <2>2 DEF TypeOK, TableOK, TableEntry
<1>4. AckedInLog' /\ PrecedingPreserved'
  BY <1>1, <1>2 DEF AckedInLog, PrecedingPreserved
<1> QED
  BY <1>3, <1>4 DEF IInv

(* A crash between two operations leaves the log.                          *)
LEMMA CrashStep == ASSUME IInv, Crash PROVE IInv'
<1>1. table' = Nil /\ log' = log /\ acked' = acked
  BY DEF Crash
<1> QED
  BY <1>1 DEF IInv, TypeOK, AckedInLog, PrecedingPreserved

(* A flush empties the log and forgets what it acknowledged.               *)
LEMMA TruncateStep == ASSUME IInv, Truncate PROVE IInv'
<1>1. log' = <<>> /\ table' = Replay(<<>>) /\ acked' = {}
  BY DEF Truncate
<1>2. TableOK(table')
  <2>1. <<>> \in Seq(RecoveredEntry)
    OBVIOUS
  <2> QED
    BY <1>1, <2>1, ReplayType DEF TableOK
<1>3. log' \in Seq(Piece)
  BY <1>1
<1>4. TypeOK'
  BY <1>1, <1>2, <1>3 DEF TypeOK, TableOK, TableEntry
<1> QED
  BY <1>1, <1>4 DEF IInv, AckedInLog, PrecedingPreserved

(* Every step, torn or whole, keeps the invariant.                         *)
LEMMA NextInvariant == IInv /\ [Next]_vars => IInv'
<1> SUFFICES ASSUME IInv, [Next]_vars PROVE IInv'
  OBVIOUS
<1>1. CASE Open
  BY <1>1, OpenStep
<1>2. CASE \E e \in LogEntry : Apply(e)
  BY <1>2, ApplyStep
<1>3. CASE \E e \in LogEntry, n \in 0 .. Whole : Refuse(e, n) \/ CrashInAppend(e, n)
  BY <1>3, TornStep
<1>4. CASE Crash
  BY <1>4, CrashStep
<1>5. CASE Truncate
  BY <1>5, TruncateStep
<1>6. CASE UNCHANGED vars
  BY <1>6 DEF vars, IInv, TypeOK, AckedInLog, PrecedingPreserved
<1> QED
  BY <1>1, <1>2, <1>3, <1>4, <1>5, <1>6 DEF Next

(* The inductive invariant holds in every state.                           *)
THEOREM LogInvariant == Spec => []IInv
<1> QED
  BY InitStep, NextInvariant, PTL DEF Spec

(* The log is a sequence of pieces of entries, and whatever a restart      *)
(* reads from it, damaged lines included, makes a memtable.                *)
THEOREM LogTypeCorrect == Spec => []TypeOK
<1>1. IInv => TypeOK
  BY DEF IInv
<1> QED
  BY <1>1, LogInvariant, PTL

(* However often appends are torn, refused or cut off by a crash, an entry *)
(* acknowledged before the first of them is recovered, at its place.       *)
THEOREM PrecedingAlwaysPreserved == Spec => []PrecedingPreserved
<1>1. IInv => PrecedingPreserved
  BY DEF IInv
<1> QED
  BY <1>1, LogInvariant, PTL

(* On an undamaged log a restart serves, for the key of every acknowledged *)
(* entry, that entry or a later one.                                       *)
THEOREM LastAckAlwaysSurvives == Spec => []LastAckSurvives
<1>1. IInv => LastAckSurvives
  <2> SUFFICES ASSUME IInv, Sound, NEW a \in acked
               PROVE  \/ Replay(Recover(log))[a.entry.key] = a.entry
                      \/ \E i \in DOMAIN log :
                           i > a.at /\ log[i].entry = Replay(Recover(log))[a.entry.key]
    BY DEF LastAckSurvives
  <2> DEFINE entries == Recover(log)
             k == a.entry.key
             last == Max(Applied(entries, k))
  <2>1. /\ log \in Seq(Piece) /\ SoundLog(log)
        /\ a \in [entry : LogEntry, at : 1 .. MaxLog, sound : BOOLEAN]
    BY SoundIsSoundLog DEF IInv, TypeOK
  <2>2. a.entry \in LogEntry /\ a.at \in Nat
    BY <2>1
  <2>3. a.at \in DOMAIN log /\ log[a.at].entry = a.entry
    BY DEF IInv, AckedInLog
  <2>4. entries = [i \in 1 .. Len(log) |-> log[i].entry] /\ DOMAIN log = 1 .. Len(log)
    BY <2>1, SoundRecover
  <2>5. entries \in Seq(RecoveredEntry)
    BY <2>1, RecoverType
  <2>6. k \in Key /\ a.entry.op \in {"PUT", "DELETE"}
    BY <2>2, EntryFields
  <2> HIDE DEF entries
  <2>7. a.at \in Applied(entries, k)
    BY <2>3, <2>4, <2>6 DEF Applied
  <2>8. /\ Replay(entries)[k] = entries[last]
        /\ last \in Applied(entries, k)
        /\ a.at <= last
    BY <2>5, <2>6, <2>7, ReplayLast
  <2>9. last \in DOMAIN log /\ entries[last] = log[last].entry /\ last \in Nat
    <3> HIDE DEF last
    <3>1. last \in DOMAIN entries
      BY <2>8 DEF Applied
    <3>2. DOMAIN entries = 1 .. Len(log) /\ Len(log) \in Nat
      BY <2>1, <2>4
    <3>3. last \in 1 .. Len(log)
      BY <3>1, <3>2
    <3> QED
      BY <3>2, <3>3, <2>4
  <2> HIDE DEF last
  <2>10. CASE last = a.at
    BY <2>3, <2>8, <2>9, <2>10 DEF entries
  <2>11. CASE last # a.at
    <3>1. last > a.at
      BY <2>2, <2>8, <2>9, <2>11
    <3> QED
      BY <3>1, <2>8, <2>9 DEF entries
  <2> QED
    BY <2>10, <2>11
<1> QED
  BY <1>1, LogInvariant, PTL

(* No append, whole or torn, takes away an entry that a restart before it  *)
(* would have recovered.                                                   *)
THEOREM AppendsKeepRecovered == Spec => AppendKeepsRecovered
<1>1. ASSUME IInv, [Next]_vars
      PROVE  [~ Truncate => IsPrefix(Recover(log), Recover(log'))]_vars
  <2> SUFFICES ASSUME ~ Truncate, ~ UNCHANGED vars
               PROVE  IsPrefix(Recover(log), Recover(log'))
    OBVIOUS
  <2>1. log \in Seq(Piece)
    BY <1>1 DEF IInv, TypeOK
  <2>2. log' = log \/ \E p \in Piece : log' = Append(log, p)
    <3>1. CASE Open \/ Crash
      BY <3>1 DEF Open, Crash
    <3>2. CASE \E e \in LogEntry : Apply(e)
      <4>1. PICK e \in LogEntry : Write(e, Whole)
        BY <3>2 DEF Apply
      <4>2. Whole \in 0 .. Whole
        BY DEF Whole
      <4> QED
        BY <4>1, <4>2, <1>1, WriteAppends
    <3>3. CASE \E e \in LogEntry, n \in 0 .. Whole : Refuse(e, n) \/ CrashInAppend(e, n)
      <4>1. PICK e \in LogEntry, n \in 0 .. Whole : Write(e, n)
        BY <3>3 DEF Refuse, CrashInAppend
      <4> QED
        BY <4>1, <1>1, WriteAppends
    <3> QED
      BY <3>1, <3>2, <3>3, <1>1 DEF Next
  <2> DEFINE old == Recover(log)
             new == Recover(log')
  <2>3. old \in Seq(RecoveredEntry) /\ new \in Seq(RecoveredEntry)
    <3>1. log' \in Seq(Piece)
      BY <2>1, <2>2
    <3> QED
      BY <3>1, <2>1, RecoverType
  <2>4. Len(old) <= Len(new) /\ \A m \in 1 .. Len(old) : new[m] = old[m]
    <3>1. CASE log' = log
      BY <2>3, <3>1
    <3>2. CASE \E p \in Piece : log' = Append(log, p)
      BY <2>1, <3>2, RecoverGrows
    <3> QED
      BY <2>2, <3>1, <3>2
  <2> HIDE DEF old, new
  <2>5. SubSeq(old, 1, Len(old)) = SubSeq(new, 1, Len(old))
    BY <2>3, <2>4
  <2> QED
    BY <2>3, <2>4, <2>5 DEF IsPrefix, old, new
<1> QED
  BY <1>1, LogInvariant, PTL DEF Spec, AppendKeepsRecovered
=============================================================================
