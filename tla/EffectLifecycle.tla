---------------------------- MODULE EffectLifecycle ----------------------------
(***************************************************************************)
(* What moo's effect protocol promises a client about the tokens of its    *)
(* animations: a token is active from the call that accepts it until its   *)
(* one terminal event is queued; it may be used again from then on, so     *)
(* several terminal events of one token may wait to be read.  A client     *)
(* that disconnects loses everything and is told nothing.                  *)
(***************************************************************************)
EXTENDS Naturals

CONSTANTS
  Client,  (* client handles   *)
  Token    (* animation tokens *)

VARIABLES
  active,  (* active[c]: the tokens of c's running animations             *)
  told     (* told[c][t]: terminal events of t queued for c and not read  *)

vars == <<active, told>>

Init ==
  /\ active = [c \in Client |-> {}]
  /\ told = [c \in Client |-> [t \in Token |-> 0]]

\* An animation is accepted; the one it replaces ends in the same step.
Start(c, t) ==
  /\ t \notin active[c]
  /\ \E replaced \in SUBSET active[c] :
       /\ active' = [active EXCEPT ![c] = (@ \ replaced) \cup {t}]
       /\ told' = [told EXCEPT ![c] = [u \in Token |->
                     IF u \in replaced THEN @[u] + 1 ELSE @[u]]]

\* Under reduced motion the new animation ends where it starts.
StartReduced(c, t) ==
  /\ t \notin active[c]
  /\ \E replaced \in SUBSET active[c] :
       /\ active' = [active EXCEPT ![c] = @ \ replaced]
       /\ told' = [told EXCEPT ![c] = [u \in Token |->
                     IF u \in replaced \cup {t} THEN @[u] + 1 ELSE @[u]]]

\* Animations end: they run out, are cancelled, or lose their surface.
Finish ==
  /\ active' \in [Client -> SUBSET Token]
  /\ \A c \in Client : active'[c] \subseteq active[c]
  /\ told' = [c \in Client |-> [t \in Token |->
                IF t \in active[c] \ active'[c] THEN told[c][t] + 1
                ELSE told[c][t]]]

Read(c, t) ==
  /\ told[c][t] > 0
  /\ told' = [told EXCEPT ![c][t] = @ - 1]
  /\ UNCHANGED active

Disconnect(c) ==
  /\ active' = [active EXCEPT ![c] = {}]
  /\ told' = [told EXCEPT ![c] = [t \in Token |-> 0]]

Next ==
  \/ Finish
  \/ \E c \in Client, t \in Token :
       Start(c, t) \/ StartReduced(c, t) \/ Read(c, t)
  \/ \E c \in Client : Disconnect(c)

Spec == Init /\ [][Next]_vars
=============================================================================
