------------------------------ MODULE FiniteMap ------------------------------
(***************************************************************************)
(* What a dictionary of a moo program promises: a key has the value it was *)
(* given last, until it is removed; a frozen dictionary changes no more.   *)
(***************************************************************************)
CONSTANTS Key, Value, None

VARIABLES
  map,     (* the value of every key, None for a key that is not there *)
  frozen   (* the dictionary has been frozen                           *)

vars == <<map, frozen>>

Init ==
  /\ map = [k \in Key |-> None]
  /\ frozen = FALSE

Put(k, v) ==
  /\ ~frozen
  /\ map' = [map EXCEPT ![k] = v]
  /\ UNCHANGED frozen

Remove(k) ==
  /\ ~frozen
  /\ map' = [map EXCEPT ![k] = None]
  /\ UNCHANGED frozen

Freeze ==
  /\ frozen' = TRUE
  /\ UNCHANGED map

Next ==
  \/ \E k \in Key : Remove(k) \/ \E v \in Value : Put(k, v)
  \/ Freeze

Spec == Init /\ [][Next]_vars
=============================================================================
