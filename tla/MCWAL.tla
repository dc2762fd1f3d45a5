------------------------------- MODULE MCWAL -------------------------------
(* WAL on small instances: model values for keys, values and markers.      *)
EXTENDS WAL, TLC

Symmetry == Permutations(Key \ TimestampKey)
=============================================================================
