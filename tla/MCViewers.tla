------------------------------ MODULE MCViewers ------------------------------
(* Two viewers of a device. *)
EXTENDS Viewers

CONSTANTS v1, v2

MCViewerSet == {v1, v2}
==============================================================================
