------------------------------ MODULE MCAudio ------------------------------
(***************************************************************************)
(* Audio for TLC.                                                          *)
(***************************************************************************)
EXTENDS Audio
=============================================================================
