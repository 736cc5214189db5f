---------------------------- MODULE MCCapturePull ----------------------------
(* Instances of CapturePull for TLC.                                        *)
EXTENDS CapturePull
=============================================================================
