---------------------------- MODULE MCFlushPath -----------------------------
(* FlushPath on small instances.                                           *)
EXTENDS FlushPath

FourKeys == 1 .. 4

(* Hashes over a word of 8: all keys alike with stride 0, all different,   *)
(* and one whose products pass the word.                                   *)
Hashes ==
  {<<[k \in Key |-> 0], [k \in Key |-> 0]>>,
   <<[k \in Key |-> k], [k \in Key |-> k]>>,
   <<[k \in Key |-> 7], [k \in Key |-> 7 - k]>>}
=============================================================================
