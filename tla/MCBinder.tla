------------------------------ MODULE MCBinder ------------------------------
(***************************************************************************)
(* Binder for TLC.                                                         *)
(***************************************************************************)
EXTENDS Binder
=============================================================================
