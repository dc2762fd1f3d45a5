------------------------------ MODULE MCEngine ------------------------------
(* Engine on small instances: model values for keys, values and markers.   *)
EXTENDS Engine

Symmetry == Permutations(Key)
=============================================================================
