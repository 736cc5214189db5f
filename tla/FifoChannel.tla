----------------------------- MODULE FifoChannel -----------------------------
(***************************************************************************)
(* What a moo channel promises its threads: one bounded queue.  A call     *)
(* takes effect in one step; a value is received at most once and in the   *)
(* order in which it was sent; a closed channel refuses senders, is        *)
(* drained by receivers and then answers none.  A call that can take       *)
(* effect is not kept waiting for ever.                                    *)
(***************************************************************************)
EXTENDS Naturals, Sequences

CONSTANTS
  Thread,    (* threads that share the channel *)
  Value,     (* values                         *)
  None,      (* moo_none()                     *)
  Capacity   (* bound of the queue             *)

VARIABLES
  queue,   (* values sent and not yet received          *)
  closed,  (* no more sends                             *)
  call,    (* the call a thread is in, "idle" if none   *)
  arg,     (* what it sends                             *)
  result   (* what its last finished recv returned      *)

vars == <<queue, closed, call, arg, result>>

Init ==
  /\ queue = <<>>
  /\ closed = FALSE
  /\ call = [t \in Thread |-> "idle"]
  /\ arg = [t \in Thread |-> None]
  /\ result = [t \in Thread |-> None]

Call(t, operation, v) ==
  /\ call[t] = "idle"
  /\ call' = [call EXCEPT ![t] = operation]
  /\ arg' = [arg EXCEPT ![t] = v]
  /\ result' = [result EXCEPT ![t] = None]
  /\ UNCHANGED <<queue, closed>>

Return(t, operation, v) ==
  /\ call[t] = operation
  /\ call' = [call EXCEPT ![t] = "idle"]
  /\ arg' = [arg EXCEPT ![t] = None]
  /\ result' = [result EXCEPT ![t] = v]

Send(t) ==
  /\ ~closed
  /\ Len(queue) < Capacity
  /\ queue' = Append(queue, arg[t])
  /\ Return(t, "send", None)
  /\ UNCHANGED closed

\* The value is dropped.
Refuse(t) ==
  /\ closed
  /\ Return(t, "send", None)
  /\ UNCHANGED <<queue, closed>>

Recv(t) ==
  /\ queue # <<>>
  /\ queue' = Tail(queue)
  /\ Return(t, "recv", Head(queue))
  /\ UNCHANGED closed

Drained(t) ==
  /\ closed
  /\ queue = <<>>
  /\ Return(t, "recv", None)
  /\ UNCHANGED <<queue, closed>>

Close(t) ==
  /\ closed' = TRUE
  /\ Return(t, "close", None)
  /\ UNCHANGED queue

Effect(t) == Send(t) \/ Refuse(t) \/ Recv(t) \/ Drained(t) \/ Close(t)

Next ==
  \E t \in Thread :
    \/ \E v \in Value : Call(t, "send", v)
    \/ Call(t, "recv", None)
    \/ Call(t, "close", None)
    \/ Effect(t)

Spec == Init /\ [][Next]_vars

FairSpec == Spec /\ \A t \in Thread : WF_vars(Effect(t))
=============================================================================
