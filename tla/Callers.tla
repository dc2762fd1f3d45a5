------------------------------ MODULE Callers -------------------------------
(***************************************************************************)
(* What the modules of the Python layer share: the threads that call them, *)
(* and the answer of the engine when it has no such key.                   *)
(***************************************************************************)
EXTENDS Naturals

CONSTANTS Thread, None
=============================================================================
