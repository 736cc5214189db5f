------------------------------- MODULE Channel -------------------------------
(***************************************************************************)
(* Channels between the threads of a moo program (moo_thread.c): a ring    *)
(* buffer, one mutex and two condition variables.                          *)
(*                                                                         *)
(* What a thread does between taking the mutex and giving it up, or waiting*)
(* on a condition variable, is one step: no other thread sees more of it.  *)
(* A waiting thread that is woken must take the mutex again and looks at   *)
(* the channel anew; other threads may get there first.                    *)
(***************************************************************************)
EXTENDS Integers, FiniteSets

CONSTANTS
  Thread,    (* threads that share the channel                    *)
  Value,     (* values sent                                       *)
  None,      (* moo_none(); it may be sent, too                   *)
  Requested  (* the capacity the program asks moo_channel_new for *)

ASSUME ThreadAssumption == IsFiniteSet(Thread)
ASSUME RequestedAssumption == Requested \in Int

\* moo_channel_new raises what is asked for to 1.
Capacity == IF Requested < 1 THEN 1 ELSE Requested

VARIABLES
  buffer,     (* ch->buffer                                          *)
  read_pos,   (* ch->read_pos                                        *)
  write_pos,  (* ch->write_pos                                       *)
  count,      (* ch->count                                           *)
  closed,     (* ch->closed                                          *)
  not_full,   (* threads waiting on ch->not_full                     *)
  not_empty,  (* threads waiting on ch->not_empty                    *)
  call,       (* the function a thread is in, "idle" if none         *)
  arg,        (* the value it sends                                  *)
  result      (* what its last call returned                         *)

ring    == <<buffer, read_pos, write_pos, count>>
waiting == <<not_full, not_empty>>
calls   == <<call, arg, result>>
vars    == <<ring, closed, waiting, calls>>

Operation == {"send", "recv", "close"}
Position  == 0 .. Capacity - 1

\* moo_channel_new
Init ==
  /\ buffer = [i \in Position |-> None]
  /\ read_pos = 0
  /\ write_pos = 0
  /\ count = 0
  /\ closed = FALSE
  /\ not_full = {}
  /\ not_empty = {}
  /\ call = [t \in Thread |-> "idle"]
  /\ arg = [t \in Thread |-> None]
  /\ result = [t \in Thread |-> None]

-----------------------------------------------------------------------------
Call(t, operation, v) ==
  /\ call[t] = "idle"
  /\ call' = [call EXCEPT ![t] = operation]
  /\ arg' = [arg EXCEPT ![t] = v]
  /\ result' = [result EXCEPT ![t] = None]
  /\ UNCHANGED <<ring, closed, waiting>>

Return(t, v) ==
  /\ call' = [call EXCEPT ![t] = "idle"]
  /\ arg' = [arg EXCEPT ![t] = None]
  /\ result' = [result EXCEPT ![t] = v]

\* Thread t holds the mutex in a call of the operation.
Running(t, operation) ==
  call[t] = operation /\ t \notin not_full \cup not_empty

\* Seeded fault: only the first value into an empty ring is announced.
SignalledFirst(W) == IF count # 0 \/ W = {} THEN {W} ELSE {W \ {t} : t \in W}

\* What pthread_cond_signal may leave of the waiting threads W: it wakes one,
\* if there is one.
Signalled(W) == IF W = {} THEN {{}} ELSE {W \ {t} : t \in W}

\* Seeded fault: the position goes one place too far before it turns.
AdvanceLate(p) == IF p + 1 > Capacity THEN 0 ELSE p + 1

Advance(p) == (p + 1) % Capacity

-----------------------------------------------------------------------------
(* moo_channel_send                                                        *)

SendWait(t) ==
  /\ Running(t, "send")
  /\ count = Capacity /\ ~closed
  /\ not_full' = not_full \cup {t}
  /\ UNCHANGED <<ring, closed, not_empty, calls>>

\* The channel is closed: the value is dropped, only a message is printed.
SendRefused(t) ==
  /\ Running(t, "send")
  /\ closed
  /\ Return(t, None)
  /\ UNCHANGED <<ring, closed, waiting>>

SendStore(t) ==
  /\ Running(t, "send")
  /\ count # Capacity /\ ~closed
  /\ buffer' = [buffer EXCEPT ![write_pos] = arg[t]]
  /\ write_pos' = Advance(write_pos)
  /\ count' = count + 1
  /\ not_empty' \in Signalled(not_empty)
  /\ Return(t, None)
  /\ UNCHANGED <<read_pos, closed, not_full>>

-----------------------------------------------------------------------------
(* moo_channel_recv                                                        *)

RecvWait(t) ==
  /\ Running(t, "recv")
  /\ count = 0 /\ ~closed
  /\ not_empty' = not_empty \cup {t}
  /\ UNCHANGED <<ring, closed, not_full, calls>>

RecvNone(t) ==
  /\ Running(t, "recv")
  /\ count = 0 /\ closed
  /\ Return(t, None)
  /\ UNCHANGED <<ring, closed, waiting>>

RecvTake(t) ==
  /\ Running(t, "recv")
  /\ count # 0
  /\ read_pos' = Advance(read_pos)
  /\ count' = count - 1
  /\ not_full' \in Signalled(not_full)
  /\ Return(t, buffer[read_pos])
  /\ UNCHANGED <<buffer, write_pos, closed, not_empty>>

-----------------------------------------------------------------------------
\* Seeded fault: closing does not wake the senders.
CloseReceiversOnly(t) ==
  /\ Running(t, "close")
  /\ closed' = TRUE
  /\ not_empty' = {}
  /\ Return(t, None)
  /\ UNCHANGED <<ring, not_full>>

\* moo_channel_close
Close(t) ==
  /\ Running(t, "close")
  /\ closed' = TRUE
  /\ not_empty' = {}
  /\ not_full' = {}
  /\ Return(t, None)
  /\ UNCHANGED ring

\* pthread_cond_wait may return without a signal.
WakeUnasked(t) ==
  /\ t \in not_full \cup not_empty
  /\ not_full' = not_full \ {t}
  /\ not_empty' = not_empty \ {t}
  /\ UNCHANGED <<ring, closed, calls>>

\* What thread t does once it has the mutex.
Step(t) ==
  \/ SendWait(t) \/ SendRefused(t) \/ SendStore(t)
  \/ RecvWait(t) \/ RecvNone(t) \/ RecvTake(t)
  \/ Close(t)

Next ==
  \E t \in Thread :
    \/ \E v \in Value : Call(t, "send", v)
    \/ Call(t, "recv", None)
    \/ Call(t, "close", None)
    \/ Step(t)
    \/ WakeUnasked(t)

Spec == Init /\ [][Next]_vars

\* A thread that is neither idle nor waiting gets the mutex at last.  No
\* thread has to call anything, and nobody is woken without a signal.
FairSpec == Spec /\ \A t \in Thread : WF_vars(Step(t))

-----------------------------------------------------------------------------
\* Every field of the channel keeps its type and every index its range.
TypeOK ==
  /\ buffer \in [Position -> Value \cup {None}]
  /\ read_pos \in Position
  /\ write_pos \in Position
  /\ count \in 0 .. Capacity
  /\ closed \in BOOLEAN
  /\ not_full \in SUBSET Thread
  /\ not_empty \in SUBSET Thread
  /\ call \in [Thread -> Operation \cup {"idle"}]
  /\ arg \in [Thread -> Value \cup {None}]
  /\ result \in [Thread -> Value \cup {None}]

Active(operation) == {t \in Thread : Running(t, operation)}

\* No wakeup is lost.  Senders wait only while every free place of the ring
\* is spoken for by a sender that is awake, receivers only while every value
\* in it is spoken for by a receiver that is awake; nobody waits on a closed
\* channel.  So one signal per value and per place is enough.
NoLostWakeup ==
  /\ not_full # {} => Capacity - count <= Cardinality(Active("send"))
  /\ not_empty # {} => count <= Cardinality(Active("recv"))
  /\ closed => not_full = {} /\ not_empty = {}

\* The values in the ring, oldest first.
Queue == [k \in 1 .. count |-> buffer[(read_pos + k - 1) % Capacity]]

Fifo == INSTANCE FifoChannel WITH queue <- Queue

\* The channel is a bounded first-in first-out queue whose calls take effect
\* one at a time, although they wait, are woken and overtake each other.
FifoSpec == Fifo!Spec

\* A call that could take effect is not forgotten: a waiting thread is woken
\* and gets its turn, whatever the other threads call.
FifoFairSpec == Fifo!FairSpec
=============================================================================
