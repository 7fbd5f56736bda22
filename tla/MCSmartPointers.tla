-------------------------- MODULE MCSmartPointers --------------------------
(***************************************************************************)
(* Small instances of SmartPointers for TLC.                               *)
(***************************************************************************)
EXTENDS SmartPointers, TLC

Renaming == Permutations(Obj) \cup Permutations(Root) \cup Permutations(WRoot)
=============================================================================
