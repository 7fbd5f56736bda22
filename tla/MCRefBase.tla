----------------------------- MODULE MCRefBase -----------------------------
(***************************************************************************)
(* Small instances of RefBase for TLC.  INITIAL_STRONG_VALUE only has to   *)
(* exceed the number of sp's for the two readings of mStrong to differ.    *)
(***************************************************************************)
EXTENDS RefBaseInvariant, TLC

Handles == Permutations(Sp) \cup Permutations(Wp)

MCInitial == Cardinality(Sp) + 2
=============================================================================
