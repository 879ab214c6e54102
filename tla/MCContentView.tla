--------------------------- MODULE MCContentView ---------------------------
(***************************************************************************)
(* Instances of ContentView for TLC.                                       *)
(***************************************************************************)
EXTENDS ContentView
=============================================================================
