--------------------------- MODULE MCAtomicTester ---------------------------
(***************************************************************************)
(* Small instances of AtomicTester for TLC: three threads, one of them odd *)
(* (it adds 2 to addTest), and one round each.                             *)
(***************************************************************************)
EXTENDS AtomicTester
=============================================================================
