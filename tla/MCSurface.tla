----------------------------- MODULE MCSurface -----------------------------
(***************************************************************************)
(* Surface for TLC.                                                        *)
(***************************************************************************)
EXTENDS Surface
=============================================================================
