---------------------------- MODULE MCReflector ----------------------------
(***************************************************************************)
(* The one instance of Reflector there is: the program has no parameters.  *)
(***************************************************************************)
EXTENDS Reflector
=============================================================================
