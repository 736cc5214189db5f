------------------------------ MODULE MCChannel ------------------------------
(***************************************************************************)
(* Instances of Channel for TLC: threads and values are model values.      *)
(***************************************************************************)
EXTENDS Channel
=============================================================================
