------------------------- MODULE MCCompositorEffects -------------------------
(***************************************************************************)
(* Instances of CompositorEffects for TLC.                                 *)
(***************************************************************************)
EXTENDS CompositorEffects

CONSTANTS c1, c2, shadow, opacity, t1, t2

\* One surface with everything that can be done to it, or two, of one client
\* or of both, that are animated and go.  Clients differ in nothing, so the
\* first surface, whose slot is used once, may be taken to be c1's.
WithinLoad ==
  /\ surfaces[1].owner # c2
  /\ \/ surfaces[2] = DeadSurface(1)
     \/ /\ commit_sequence = 0
        /\ \A i \in SurfaceSlot : /\ surfaces[i].frame_token = NoToken
                                  /\ ~bindings[i].dirty

LoadNext == Next /\ WithinLoad'
LoadSpec == Init /\ [][LoadNext]_vars /\ Fairness
=============================================================================
