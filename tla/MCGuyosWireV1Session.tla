----------------------- MODULE MCGuyosWireV1Session ------------------------
(***************************************************************************)
(* Instances of GuyosWireV1Session for TLC: a limit of two bytes, and      *)
(* bodies below, at and above it.                                          *)
(***************************************************************************)
EXTENDS GuyosWireV1Session

MCSizes == {0, 2, 5}
=============================================================================
