---------------------------- MODULE OrderProofs -----------------------------
(* Least and greatest elements of sets of naturals.                        *)
EXTENDS Naturals, FiniteSetsExt, TLAPS, WellFoundedInduction

(* A non-empty set of naturals has a least element, and Min returns it:    *)
(* the reader that decides a Get exists.                                   *)
LEMMA MinProperty ==
  ASSUME NEW S \in SUBSET Nat, S # {}
  PROVE  Min(S) \in S /\ \A j \in S : Min(S) <= j
<1> DEFINE R == OpToRel(<, Nat)
<1>1. IsWellFoundedOn(R, Nat)
  BY NatLessThanWellFounded
<1>2. PICK x \in S : \A y \in S : ~ (<<y, x>> \in R)
  <2> HIDE DEF R
  <2> QED
    BY <1>1, WFMin
<1>3. \A y \in S : ~ (y < x)
  BY <1>2 DEF OpToRel
<1>4. \A y \in S : x <= y
  BY <1>3
<1>5. QED
  BY <1>4 DEF Min

(* A non-empty bounded set of naturals has a greatest element, and Max     *)
(* returns it: the last log entry of a key and the largest file id exist.  *)
LEMMA MaxProperty ==
  ASSUME NEW n \in Nat, NEW S \in SUBSET (0 .. n), S # {}
  PROVE  Max(S) \in S /\ \A j \in S : j <= Max(S)
<1> DEFINE T == {n - i : i \in S}
<1>1. T \in SUBSET Nat /\ T # {}
  <2>1. \A i \in S : n - i \in Nat
    OBVIOUS
  <2>2. QED
    BY <2>1
<1>2. Min(T) \in T /\ \A j \in T : Min(T) <= j
  <2> HIDE DEF T
  <2> QED
    BY <1>1, MinProperty
<1>3. PICK i \in S : Min(T) = n - i
  BY <1>2
<1>4. \A j \in S : j <= i
  <2>1. ASSUME NEW j \in S PROVE j <= i
    <3>1. n - j \in T
      OBVIOUS
    <3>2. n - i <= n - j
      BY <3>1, <1>2, <1>3
    <3>3. QED
      BY <3>2
  <2>2. QED
    BY <2>1
<1>5. \A j \in S : i >= j
  BY <1>4
<1>6. QED
  BY <1>5 DEF Max

(* Finitely many naturals have a bound: of the generations of the inputs   *)
(* of a merge one is the greatest.                                         *)
LEMMA Bounded ==
  ASSUME NEW f, NEW n \in Nat, \A i \in 1 .. n : f[i] \in Nat
  PROVE  \E b \in Nat : \A i \in 1 .. n : f[i] <= b
<1> DEFINE Fails == {m \in 0 .. n : \A b \in Nat : \E i \in 1 .. m : ~ (f[i] <= b)}
<1>1. SUFFICES Fails = {}
  <2>1. n \in 0 .. n
    OBVIOUS
  <2>2. n \notin Fails
    BY <1>1
  <2>3. QED
    BY <2>1, <2>2
<1>2. SUFFICES ASSUME Fails # {} PROVE FALSE
  OBVIOUS
<1>3. Min(Fails) \in Fails /\ \A m \in Fails : Min(Fails) <= m
  <2>1. Fails \in SUBSET Nat
    OBVIOUS
  <2> HIDE DEF Fails
  <2>2. QED
    BY <1>2, <2>1, MinProperty
<1> DEFINE m == Min(Fails)
<1> HIDE DEF m
<1>4. m \in 0 .. n /\ \A b \in Nat : \E i \in 1 .. m : ~ (f[i] <= b)
  BY <1>3 DEF m
<1>5. m # 0
  BY <1>4
<1>6. m - 1 \in 0 .. n /\ m - 1 \notin Fails
  <2>1. ~ (m <= m - 1)
    BY <1>4
  <2>2. m - 1 \notin Fails
    BY <1>3, <2>1 DEF m
  <2>3. QED
    BY <2>2, <1>4, <1>5
<1>7. PICK b \in Nat : \A i \in 1 .. m - 1 : f[i] <= b
  BY <1>6
<1>8. f[m] \in Nat /\ m \in 1 .. n
  BY <1>4, <1>5
<1>9. PICK c \in Nat : b <= c /\ f[m] <= c
  <2>1. CASE b <= f[m]
    BY <2>1, <1>8
  <2>2. CASE f[m] <= b
    BY <2>2, <1>8
  <2>3. QED
    BY <2>1, <2>2, <1>8
<1>10. \A i \in 1 .. m : f[i] <= c
  <2> SUFFICES ASSUME NEW i \in 1 .. m PROVE f[i] <= c
    OBVIOUS
  <2>1. CASE i = m
    BY <2>1, <1>9
  <2>2. CASE i # m
    <3>1. i \in 1 .. m - 1 /\ f[i] \in Nat
      BY <2>2, <1>4
    <3>2. QED
      BY <3>1, <1>7, <1>9
  <2>3. QED
    BY <2>1, <2>2
<1>11. QED
  BY <1>4, <1>10
=============================================================================
