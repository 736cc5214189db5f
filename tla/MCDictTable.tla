---------------------------- MODULE MCDictTable ----------------------------
(***************************************************************************)
(* Instances of DictTable for TLC.                                         *)
(***************************************************************************)
EXTENDS DictTable, TLC

CONSTANTS k1, k2, k3, k4

\* Homes that meet, that reach around the end of a table of four slots, and
\* that part when it has eight.
Hashes == k1 :> 2 @@ k2 :> 2 @@ k3 :> 3 @@ k4 :> 7

\* Keys of one hash and values are only compared.
KeyAndValueSymmetry == Permutations({k1, k2}) \cup Permutations(Value)
=============================================================================
