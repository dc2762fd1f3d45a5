------------------------------ MODULE KVStore ------------------------------
(***************************************************************************)
(* What a StorageEngine promises its callers, with every file, buffer and  *)
(* crash step abstracted away.                                             *)
(*                                                                         *)
(* The database is one map from keys to values.  A call either is being    *)
(* served (the engine mutex is held, or the process is down) and nobody    *)
(* can read, or the engine is idle and a Get of any key answers from the   *)
(* map.  A write takes effect at one instant; a crash takes effect never:  *)
(* whatever the map held when the process died is what a restart serves.   *)
(***************************************************************************)

CONSTANTS
  Key,      \* the keys clients use
  Value,    \* the values clients store
  Absent,   \* what a key without a live value maps to
  Nil       \* the view while no call can be answered

VARIABLES
  store,    \* the contents a restart at this instant would serve
  view      \* what Get answers for each key, or Nil while nobody can ask

vars == <<store, view>>

Contents == [Key -> Value \cup {Absent}]

Init == /\ store \in Contents
        /\ view = Nil

(* A Put of a value or, for Absent, a Delete: it takes the engine from     *)
(* idle to busy and changes one key.                                       *)
Write(k, v) == /\ view # Nil
               /\ store' = [store EXCEPT ![k] = v]
               /\ view' = Nil

(* The engine becomes able to answer: a call returns or a restart is over. *)
Serve == /\ view = Nil
         /\ view' = store
         /\ UNCHANGED store

(* Maintenance takes the mutex, or the process dies.                       *)
Block == /\ view # Nil
         /\ view' = Nil
         /\ UNCHANGED store

Next == \/ \E k \in Key, v \in Value \cup {Absent} : Write(k, v)
        \/ Serve
        \/ Block

Spec == Init /\ [][Next]_vars
=============================================================================
