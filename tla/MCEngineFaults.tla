--------------------------- MODULE MCEngineFaults ---------------------------
(* EngineFaults on small instances.                                        *)
EXTENDS EngineFaults

OneKey == {1}
TwoKeys == {1, 2}
AllKinds == {"unread", "open", "flush", "append", "truncate", "memtable",
             "merge", "read", "replace", "rename", "reader", "unlink"}
AppendOnly == {"append"}
HarmlessOnly == Harmless
=============================================================================
