---------------------------- MODULE MCA11yTree -----------------------------
(***************************************************************************)
(* Instances of A11yTree for TLC.                                          *)
(***************************************************************************)
EXTENDS A11yTree

UsedOnce(slots) ==
  \A i \in DOMAIN slots : slots[i].live => slots[i].generation = 1

\* Clients and targets on slots that are used once, and three nodes on slots
\* that are used once or two on slots that are used twice.
WithinLoad ==
  /\ UsedOnce(clients)
  /\ UsedOnce(targets)
  /\ \/ UsedOnce(nodes)
     \/ nodes[3] = DeadNode(1)

LoadNext == TreeNext /\ WithinLoad'
LoadSpec == TreeInit /\ [][LoadNext]_treeVars
=============================================================================
