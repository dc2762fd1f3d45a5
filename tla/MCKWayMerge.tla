---------------------------- MODULE MCKWayMerge ----------------------------
(* KWayMerge on up to three inputs.  A value names the input it is in, so  *)
(* that a version taken from the wrong input shows.                        *)
EXTENDS KWayMerge

CONSTANTS v1, v2, v3

ValueOf == <<v1, v2, v3>>

InputsOf(i) == {[generation |-> g, table |-> t] :
                  g \in 1 .. 3, t \in [Key -> {Absent, Tombstone, ValueOf[i]}]}

MCInputs == {<<a>> : a \in InputsOf(1)}
            \cup (InputsOf(1) \X InputsOf(2))
            \cup (InputsOf(1) \X InputsOf(2) \X InputsOf(3))
=============================================================================
