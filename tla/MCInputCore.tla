---------------------------- MODULE MCInputCore ----------------------------
(***************************************************************************)
(* Instances of InputCore for TLC.                                         *)
(***************************************************************************)
EXTENDS InputCore

\* Two targets on slots that are used once; or one target and slots that are
\* used twice, not with every feature.  Clients differ in nothing, so that on
\* slots used once the first target may be taken to be the first client's.
WithinLoad ==
  \/ /\ \A i \in ClientSlot : ~(clients[i].live /\ clients[i].generation = 2)
     /\ \A i \in TargetSlot : ~(targets[i].live /\ targets[i].generation = 2)
     /\ targets[1].owner # <<2, 1>>
  \/ /\ targets[2] = DeadTarget(1)
     /\ "IME" \notin features

LoadNext == Next /\ WithinLoad'
LoadSpec == Init /\ [][LoadNext]_vars
=============================================================================
