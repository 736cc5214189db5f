---------------------------- MODULE FrameCallback ----------------------------
(***************************************************************************)
(* What moo's compositor promises a client about frame tokens: a token is  *)
(* requested, committed with a surface, done once the frame it went into   *)
(* was presented, and free again once the client has read the event.       *)
(* Steps forward only; the one way out of line is to disconnect.           *)
(***************************************************************************)
CONSTANTS
  Client,  (* client handles *)
  Token    (* frame tokens   *)

VARIABLE phase  (* phase[c][t]: where token t of client c is *)

Phase == {"idle", "requested", "committed", "done"}

TypeOK == phase \in [Client -> [Token -> Phase]]

Init == phase = [c \in Client |-> [t \in Token |-> "idle"]]

Move(c, t, from, to) ==
  /\ phase[c][t] = from
  /\ phase' = [phase EXCEPT ![c][t] = to]

Request(c, t) == Move(c, t, "idle", "requested")

\* The surface is committed, or destroyed with the token still pending.
Commit(c, t) == Move(c, t, "requested", "committed")

\* One present reports some committed tokens, of any number of clients.
Present(done) ==
  /\ \A k \in done : phase[k[1]][k[2]] = "committed"
  /\ phase' = [c \in Client |->
                 [t \in Token |->
                    IF <<c, t>> \in done THEN "done" ELSE phase[c][t]]]

Deliver(c, t) == Move(c, t, "done", "idle")

Disconnect(c) == phase' = [phase EXCEPT ![c] = [t \in Token |-> "idle"]]

Next ==
  \/ \E c \in Client, t \in Token :
       Request(c, t) \/ Commit(c, t) \/ Deliver(c, t)
  \/ \E c \in Client : Disconnect(c)
  \/ \E done \in SUBSET (Client \X Token) : Present(done)

Spec == Init /\ [][Next]_phase
=============================================================================
