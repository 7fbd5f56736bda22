-------------------------- MODULE MCALooperTester --------------------------
(***************************************************************************)
(* The one instance of ALooperTester there is: the program has no          *)
(* parameters.                                                             *)
(***************************************************************************)
EXTENDS ALooperTester
=============================================================================
