-------------------------- MODULE MCCompositorCore --------------------------
(***************************************************************************)
(* Instances of CompositorCore for TLC.  Tokens are model values that the  *)
(* code only compares, so they may be permuted; slots may not, because an  *)
(* allocation takes the lowest free one.                                   *)
(***************************************************************************)
EXTENDS CompositorCore, TLC

TokenSymmetry == Permutations(Token)

UsedOnce(slots) ==
  \A s \in DOMAIN slots : slots[s].live => slots[s].generation = 1

\* Two clients and two surfaces, or one surface and the cursor, on slots that
\* are used once; or one client and one surface on slots that are used twice,
\* with one event at a time and no cursor.
WithinLoad ==
  /\ UsedOnce(buffers)
  /\ \/ /\ UsedOnce(clients) /\ UsedOnce(surfaces)
        /\ cursor.focus_owner # NoHandle => ~surfaces[2].live
     \/ /\ clients[2] = DeadClient(1)
        /\ surfaces[2] = BlankSurface(FALSE, 1, NoHandle)
        /\ \A c \in ClientHandle : EventsOwned(c) + FramesOwned(c) <= 1
        /\ cursor.focus_owner = NoHandle

LoadNext == Next /\ WithinLoad'
LoadSpec == Init /\ [][LoadNext]_vars /\ Fairness
=============================================================================
