---------------------------- MODULE ChannelProofs ----------------------------
(***************************************************************************)
(* What holds of channels in moo_thread.c for every number of threads,     *)
(* every capacity a program may ask for and every set of values.           *)
(***************************************************************************)
EXTENDS Channel, TLAPS, FiniteSetTheorems, SequenceTheorems

-----------------------------------------------------------------------------
(* The ring.                                                               *)

LEMMA CapacityType == Capacity \in Nat \ {0}
  BY RequestedAssumption DEF Capacity

\* A position at most one round ahead is found by one subtraction.
LEMMA RingPosition ==
  ASSUME NEW C \in Nat \ {0}, NEW p \in 0 .. C - 1, NEW k \in 0 .. C
  PROVE  (p + k) % C = IF p + k < C THEN p + k ELSE p + k - C
<1>1. CASE p + k < C
  BY <1>1
<1>2. CASE p + k >= C
  <2>1. p + k - C \in 0 .. C - 1
    BY <1>2
  <2> QED
    BY <1>2, <2>1
<1> QED
  BY <1>1, <1>2

LEMMA AdvanceType ==
  ASSUME NEW p \in Position
  PROVE  Advance(p) \in Position
<1>1. Capacity \in Nat \ {0} /\ p \in 0 .. Capacity - 1 /\ 1 \in 0 .. Capacity
  BY CapacityType DEF Position
<1>2. Advance(p) = IF p + 1 < Capacity THEN p + 1 ELSE p + 1 - Capacity
  BY <1>1, RingPosition DEF Advance
<1> QED
  BY <1>1, <1>2 DEF Position

-----------------------------------------------------------------------------
(* Type correctness.                                                       *)

\* Only senders wait for room, only receivers wait for a value.
WaitersCalling ==
  /\ \A t \in not_full : call[t] = "send"
  /\ \A t \in not_empty : call[t] = "recv"

\* The ring is written where its values end.
RingClosed == write_pos = (read_pos + count) % Capacity

TypeInv == TypeOK /\ WaitersCalling /\ RingClosed

LEMMA SignalledType ==
  ASSUME NEW W, NEW rest \in Signalled(W)
  PROVE  /\ rest \subseteq W
         /\ W = {} => rest = {}
         /\ W # {} => \E t \in W : rest = W \ {t}
  BY DEF Signalled

LEMMA ReturnType ==
  ASSUME TypeOK, NEW t \in Thread, NEW v \in Value \cup {None}, Return(t, v)
  PROVE  /\ call' \in [Thread -> Operation \cup {"idle"}]
         /\ arg' \in [Thread -> Value \cup {None}]
         /\ result' \in [Thread -> Value \cup {None}]
         /\ call' = [call EXCEPT ![t] = "idle"]
  BY DEF TypeOK, Return

LEMMA InitTypeInv == Init => TypeInv
<1> SUFFICES ASSUME Init PROVE TypeInv
  OBVIOUS
<1>1. Capacity \in Nat \ {0}
  BY CapacityType
<1>2. TypeOK
  <2>1. 0 \in Position /\ 0 \in 0 .. Capacity
    BY <1>1 DEF Position
  <2> QED
    BY <2>1 DEF Init, TypeOK
<1>3. RingClosed
  BY <1>1 DEF Init, RingClosed
<1> QED
  BY <1>2, <1>3 DEF Init, TypeInv, WaitersCalling

LEMMA StoreRing ==
  ASSUME TypeInv, NEW t \in Thread, SendStore(t)
  PROVE  /\ buffer' \in [Position -> Value \cup {None}]
         /\ write_pos' \in Position
         /\ count' \in 0 .. Capacity
         /\ RingClosed'
<1>1. Capacity \in Nat \ {0}
  BY CapacityType
<1>2. /\ read_pos \in 0 .. Capacity - 1 /\ write_pos \in 0 .. Capacity - 1
      /\ count \in 0 .. Capacity - 1 /\ count' = count + 1
      /\ write_pos' = Advance(write_pos) /\ read_pos' = read_pos
      /\ count \in 0 .. Capacity /\ count + 1 \in 0 .. Capacity
      /\ 1 \in 0 .. Capacity
  BY <1>1 DEF TypeInv, TypeOK, SendStore, Position
<1>3. write_pos' \in Position
  BY <1>2, AdvanceType DEF Position
<1>4. write_pos = IF read_pos + count < Capacity
                  THEN read_pos + count ELSE read_pos + count - Capacity
  BY <1>1, <1>2, RingPosition DEF TypeInv, RingClosed
<1>5. write_pos' = IF write_pos + 1 < Capacity
                   THEN write_pos + 1 ELSE write_pos + 1 - Capacity
  BY <1>1, <1>2, RingPosition DEF Advance
<1>6. (read_pos + (count + 1)) % Capacity
        = IF read_pos + (count + 1) < Capacity
          THEN read_pos + (count + 1) ELSE read_pos + (count + 1) - Capacity
  BY <1>1, <1>2, RingPosition
<1>7. RingClosed'
  BY <1>1, <1>2, <1>4, <1>5, <1>6 DEF RingClosed
<1> QED
  BY <1>1, <1>2, <1>3, <1>7 DEF TypeInv, TypeOK, SendStore

LEMMA TakeRing ==
  ASSUME TypeInv, NEW t \in Thread, RecvTake(t)
  PROVE  /\ read_pos' \in Position
         /\ count' \in 0 .. Capacity
         /\ RingClosed'
         /\ buffer[read_pos] \in Value \cup {None}
<1>1. Capacity \in Nat \ {0}
  BY CapacityType
<1>2. /\ read_pos \in 0 .. Capacity - 1 /\ write_pos \in 0 .. Capacity - 1
      /\ count \in 1 .. Capacity /\ count' = count - 1
      /\ read_pos' = Advance(read_pos) /\ write_pos' = write_pos
      /\ count \in 0 .. Capacity /\ count - 1 \in 0 .. Capacity
      /\ 1 \in 0 .. Capacity
  BY <1>1 DEF TypeInv, TypeOK, RecvTake, Position
<1>3. read_pos' \in Position
  BY <1>2, AdvanceType DEF Position
<1>4. write_pos = IF read_pos + count < Capacity
                  THEN read_pos + count ELSE read_pos + count - Capacity
  BY <1>1, <1>2, RingPosition DEF TypeInv, RingClosed
<1>5. read_pos' = IF read_pos + 1 < Capacity
                  THEN read_pos + 1 ELSE read_pos + 1 - Capacity
  BY <1>1, <1>2, RingPosition DEF Advance
<1>6. (read_pos' + (count - 1)) % Capacity
        = IF read_pos' + (count - 1) < Capacity
          THEN read_pos' + (count - 1) ELSE read_pos' + (count - 1) - Capacity
  BY <1>1, <1>2, <1>3, RingPosition DEF Position
<1>7. RingClosed'
  BY <1>1, <1>2, <1>4, <1>5, <1>6 DEF RingClosed
<1> QED
  BY <1>1, <1>2, <1>3, <1>7 DEF TypeInv, TypeOK

LEMMA NextTypeInv ==
  ASSUME TypeInv, [Next]_vars
  PROVE  TypeInv'
<1>1. ASSUME NEW t \in Thread, NEW v \in Value \cup {None},
             NEW operation \in Operation, Call(t, operation, v)
      PROVE  TypeInv'
  <2>1. TypeOK'
    BY <1>1 DEF TypeInv, TypeOK, Call, ring, waiting
  <2>2. WaitersCalling' /\ RingClosed'
    BY <1>1 DEF TypeInv, TypeOK, WaitersCalling, RingClosed, Call, ring, waiting
  <2> QED
    BY <2>1, <2>2 DEF TypeInv
<1>2. ASSUME NEW t \in Thread, SendWait(t)
      PROVE  TypeInv'
  BY <1>2 DEF TypeInv, TypeOK, WaitersCalling, RingClosed, SendWait, Running,
              ring, calls
<1>3. ASSUME NEW t \in Thread, SendRefused(t) \/ RecvNone(t)
      PROVE  TypeInv'
  <2>1. Return(t, None) /\ t \notin not_full /\ t \notin not_empty
    BY <1>3 DEF SendRefused, RecvNone, Running
  <2>2. TypeOK'
    BY <1>3, <2>1, ReturnType
       DEF TypeInv, TypeOK, SendRefused, RecvNone, ring, waiting
  <2>3. WaitersCalling' /\ RingClosed'
    BY <1>3, <2>1, ReturnType
       DEF TypeInv, TypeOK, WaitersCalling, RingClosed, SendRefused, RecvNone,
           ring, waiting
  <2> QED
    BY <2>2, <2>3 DEF TypeInv
<1>4. ASSUME NEW t \in Thread, SendStore(t)
      PROVE  TypeInv'
  <2>1. /\ Return(t, None) /\ t \notin not_full /\ t \notin not_empty
        /\ not_empty' \subseteq not_empty /\ not_full' = not_full
    BY <1>4, SignalledType DEF SendStore, Running
  <2>2. TypeOK'
    BY <1>4, <2>1, ReturnType, StoreRing DEF TypeInv, TypeOK, SendStore
  <2>3. WaitersCalling'
    BY <2>1, ReturnType DEF TypeInv, TypeOK, WaitersCalling
  <2> QED
    BY <1>4, <2>2, <2>3, StoreRing DEF TypeInv
<1>5. ASSUME NEW t \in Thread, RecvWait(t)
      PROVE  TypeInv'
  BY <1>5 DEF TypeInv, TypeOK, WaitersCalling, RingClosed, RecvWait, Running,
              ring, calls
<1>6. ASSUME NEW t \in Thread, RecvTake(t)
      PROVE  TypeInv'
  <2>1. /\ Return(t, buffer[read_pos]) /\ t \notin not_full /\ t \notin not_empty
        /\ not_full' \subseteq not_full /\ not_empty' = not_empty
    BY <1>6, SignalledType DEF RecvTake, Running
  <2>2. /\ call' \in [Thread -> Operation \cup {"idle"}]
        /\ arg' \in [Thread -> Value \cup {None}]
        /\ result' \in [Thread -> Value \cup {None}]
        /\ call' = [call EXCEPT ![t] = "idle"]
    BY <1>6, <2>1, TakeRing, ReturnType DEF TypeInv
  <2>3. TypeOK'
    BY <1>6, <2>1, <2>2, TakeRing DEF TypeInv, TypeOK, RecvTake
  <2>4. WaitersCalling'
    BY <2>1, <2>2 DEF TypeInv, TypeOK, WaitersCalling
  <2> QED
    BY <1>6, <2>3, <2>4, TakeRing DEF TypeInv
<1>7. ASSUME NEW t \in Thread, Close(t)
      PROVE  TypeInv'
  <2>1. TypeOK'
    BY <1>7, ReturnType DEF TypeInv, TypeOK, Close, ring
  <2> QED
    BY <1>7, <2>1 DEF TypeInv, WaitersCalling, RingClosed, Close, ring
<1>8. ASSUME NEW t \in Thread, WakeUnasked(t)
      PROVE  TypeInv'
  BY <1>8 DEF TypeInv, TypeOK, WaitersCalling, RingClosed, WakeUnasked, ring, calls
<1>9. CASE UNCHANGED vars
  BY <1>9 DEF vars, ring, waiting, calls, TypeInv, TypeOK, WaitersCalling,
              RingClosed
<1> QED
  BY <1>1, <1>2, <1>3, <1>4, <1>5, <1>6, <1>7, <1>8, <1>9
     DEF Next, Step, Operation

\* The inductive strengthening of the type invariant: besides their types,
\* the wait sets hold only threads that are in the matching call, and the two
\* positions of the ring stay count places apart.
THEOREM TypeInvariance == Spec => []TypeInv
<1>1. TypeInv /\ [Next]_vars => TypeInv'
  BY NextTypeInv
<1> QED
  BY <1>1, InitTypeInv, PTL DEF Spec

\* No interleaving of calls drives an index out of the ring or the count out
\* of its range.
THEOREM TypeCorrect == Spec => []TypeOK
<1>1. TypeInv => TypeOK
  BY DEF TypeInv
<1> QED
  BY <1>1, TypeInvariance, PTL

-----------------------------------------------------------------------------
(* No lost wakeup.  The count of the ring and the number of threads that   *)
(* are awake change together.                                              *)

LEMMA ActiveFinite ==
  ASSUME NEW operation
  PROVE  IsFiniteSet(Active(operation)) /\ Cardinality(Active(operation)) \in Nat
<1>1. Active(operation) \in SUBSET Thread
  BY DEF Active
<1>2. IsFiniteSet(Active(operation))
  BY <1>1, ThreadAssumption, FS_Subset
<1> QED
  BY <1>2, FS_CardinalityType

\* One more awake thread, one awake thread less, none less.
LEMMA OneMore ==
  ASSUME NEW S, NEW t, IsFiniteSet(S), t \notin S
  PROVE  Cardinality(S \cup {t}) = Cardinality(S) + 1
  BY FS_AddElement

LEMMA OneLess ==
  ASSUME NEW S, NEW t, IsFiniteSet(S), t \in S
  PROVE  Cardinality(S \ {t}) = Cardinality(S) - 1
  BY FS_RemoveElement

LEMMA NoneLess ==
  ASSUME NEW S, NEW T, IsFiniteSet(T), S \subseteq T
  PROVE  Cardinality(S) <= Cardinality(T)
  BY FS_Subset

\* A step that wakes whoever it wakes, changes neither the count nor closed,
\* and lets no thread leave a send or recv that was awake.
LEMMA MoreAwake ==
  ASSUME TypeInv, TypeInv', NoLostWakeup,
         UNCHANGED <<count, closed>>,
         not_full' \subseteq not_full, not_empty' \subseteq not_empty,
         Active("send") \subseteq Active("send")',
         Active("recv") \subseteq Active("recv")'
  PROVE  NoLostWakeup'
<1>1. /\ IsFiniteSet(Active("send")) /\ IsFiniteSet(Active("send")')
      /\ IsFiniteSet(Active("recv")) /\ IsFiniteSet(Active("recv")')
  <2>1. /\ Active("send")' \subseteq Thread
        /\ Active("recv")' \subseteq Thread
    BY DEF Active
  <2> QED
    BY <2>1, ActiveFinite, ThreadAssumption, FS_Subset
<1>2. /\ Cardinality(Active("send")) <= Cardinality(Active("send")')
      /\ Cardinality(Active("recv")) <= Cardinality(Active("recv")')
  BY <1>1, NoneLess
<1>3. /\ Cardinality(Active("send")) \in Nat /\ Cardinality(Active("send")') \in Nat
      /\ Cardinality(Active("recv")) \in Nat /\ Cardinality(Active("recv")') \in Nat
  BY <1>1, FS_CardinalityType
<1>4. count \in Nat /\ Capacity \in Nat
  BY CapacityType DEF TypeInv, TypeOK
<1>5. /\ not_full # {} => Capacity - count <= Cardinality(Active("send"))
      /\ not_empty # {} => count <= Cardinality(Active("recv"))
      /\ closed => not_full = {} /\ not_empty = {}
  BY DEF NoLostWakeup
<1>6. /\ not_full' # {} => Capacity - count' <= Cardinality(Active("send")')
      /\ not_empty' # {} => count' <= Cardinality(Active("recv")')
      /\ closed' => not_full' = {} /\ not_empty' = {}
  BY <1>2, <1>3, <1>4, <1>5
<1> QED
  BY <1>6 DEF NoLostWakeup

LEMMA StoreNoLostWakeup ==
  ASSUME TypeInv, TypeInv', NoLostWakeup, NEW t \in Thread, SendStore(t)
  PROVE  NoLostWakeup'
<1>1. /\ count \in Nat /\ Capacity \in Nat /\ count' = count + 1
      /\ ~closed /\ ~closed' /\ not_full' = not_full
      /\ t \in Active("send") /\ t \notin Active("recv")
      /\ call' = [call EXCEPT ![t] = "idle"]
      /\ call \in [Thread -> Operation \cup {"idle"}]
  BY CapacityType
     DEF TypeInv, TypeOK, SendStore, Return, Active, Running
<1>2. not_full # {} => Capacity - count' <= Cardinality(Active("send")')
  <2>1. Active("send")' = Active("send") \ {t}
    <3>1. /\ not_empty' \subseteq not_empty
          /\ \A u \in not_empty : call[u] = "recv"
      BY SignalledType DEF SendStore, TypeInv, WaitersCalling
    <3> QED
      BY <1>1, <3>1 DEF Active, Running
  <2>2. Cardinality(Active("send")') = Cardinality(Active("send")) - 1
    BY <1>1, <2>1, ActiveFinite, OneLess
  <2> QED
    BY <1>1, <2>2, ActiveFinite DEF NoLostWakeup
<1>3. ASSUME not_empty' # {}
      PROVE  count' <= Cardinality(Active("recv")')
  <2>1. not_empty # {}
    BY <1>3, SignalledType DEF SendStore
  <2>2. PICK u \in not_empty : not_empty' = not_empty \ {u}
    BY <2>1, SignalledType DEF SendStore
  <2>3. /\ u \in Thread /\ call[u] = "recv" /\ u \notin not_full /\ u # t
        /\ u \notin Active("recv")
    BY <1>1 DEF TypeInv, TypeOK, WaitersCalling, Active, Running
  <2>4. Active("recv")' = Active("recv") \cup {u}
    <3>1. \A w \in Thread : Running(w, "recv")' <=> Running(w, "recv") \/ w = u
      BY <1>1, <2>2, <2>3 DEF Running, Active
    <3> QED
      BY <2>3, <3>1 DEF Active
  <2>5. Cardinality(Active("recv")') = Cardinality(Active("recv")) + 1
    BY <2>3, <2>4, ActiveFinite, OneMore
  <2> QED
    BY <1>1, <2>1, <2>5, ActiveFinite DEF NoLostWakeup
<1> QED
  BY <1>1, <1>2, <1>3 DEF NoLostWakeup

LEMMA TakeNoLostWakeup ==
  ASSUME TypeInv, TypeInv', NoLostWakeup, NEW t \in Thread, RecvTake(t)
  PROVE  NoLostWakeup'
<1>1. /\ count \in Nat /\ Capacity \in Nat /\ count' = count - 1
      /\ closed' = closed /\ not_empty' = not_empty
      /\ t \in Active("recv") /\ t \notin Active("send")
      /\ call' = [call EXCEPT ![t] = "idle"]
      /\ call \in [Thread -> Operation \cup {"idle"}]
  BY CapacityType
     DEF TypeInv, TypeOK, RecvTake, Return, Active, Running
<1>2. not_empty # {} => count' <= Cardinality(Active("recv")')
  <2>1. Active("recv")' = Active("recv") \ {t}
    <3>1. /\ not_full' \subseteq not_full
          /\ \A u \in not_full : call[u] = "send"
      BY SignalledType DEF RecvTake, TypeInv, WaitersCalling
    <3> QED
      BY <1>1, <3>1 DEF Active, Running
  <2>2. Cardinality(Active("recv")') = Cardinality(Active("recv")) - 1
    BY <1>1, <2>1, ActiveFinite, OneLess
  <2> QED
    BY <1>1, <2>2, ActiveFinite DEF NoLostWakeup
<1>3. ASSUME not_full' # {}
      PROVE  Capacity - count' <= Cardinality(Active("send")')
  <2>1. not_full # {}
    BY <1>3, SignalledType DEF RecvTake
  <2>2. PICK u \in not_full : not_full' = not_full \ {u}
    BY <2>1, SignalledType DEF RecvTake
  <2>3. /\ u \in Thread /\ call[u] = "send" /\ u \notin not_empty /\ u # t
        /\ u \notin Active("send")
    BY <1>1 DEF TypeInv, TypeOK, WaitersCalling, Active, Running
  <2>4. Active("send")' = Active("send") \cup {u}
    <3>1. \A w \in Thread : Running(w, "send")' <=> Running(w, "send") \/ w = u
      BY <1>1, <2>2, <2>3 DEF Running, Active
    <3> QED
      BY <2>3, <3>1 DEF Active
  <2>5. Cardinality(Active("send")') = Cardinality(Active("send")) + 1
    BY <2>3, <2>4, ActiveFinite, OneMore
  <2> QED
    BY <1>1, <2>1, <2>5, ActiveFinite DEF NoLostWakeup
<1>4. closed' => not_full' = {} /\ not_empty' = {}
  BY <1>1, SignalledType DEF NoLostWakeup, RecvTake
<1> QED
  BY <1>1, <1>2, <1>3, <1>4 DEF NoLostWakeup

LEMMA NextNoLostWakeup ==
  ASSUME TypeInv, TypeInv', NoLostWakeup, [Next]_vars
  PROVE  NoLostWakeup'
<1>1. ASSUME NEW t \in Thread, NEW v \in Value \cup {None},
             NEW operation \in Operation, Call(t, operation, v)
      PROVE  NoLostWakeup'
  <2>1. /\ Active("send") \subseteq Active("send")'
        /\ Active("recv") \subseteq Active("recv")'
    BY <1>1 DEF Call, Active, Running, waiting, TypeInv, TypeOK
  <2> QED
    BY <1>1, <2>1, MoreAwake DEF Call, ring, waiting
<1>2. ASSUME NEW t \in Thread, SendWait(t)
      PROVE  NoLostWakeup'
  <2>1. /\ count' = Capacity /\ Capacity - Capacity = 0 /\ ~closed'
        /\ not_empty' = not_empty /\ count' = count /\ call' = call
        /\ not_full' = not_full \cup {t} /\ call[t] = "send"
    BY <1>2, CapacityType DEF SendWait, Running, ring, calls
  <2>2. Active("recv")' = Active("recv")
    BY <2>1 DEF Active, Running
  <2>3. Cardinality(Active("send")') \in Nat
    <3>1. Active("send")' \in SUBSET Thread
      BY DEF Active
    <3>2. IsFiniteSet(Active("send")')
      BY <3>1, ThreadAssumption, FS_Subset
    <3> QED
      BY <3>2, FS_CardinalityType
  <2>4. Capacity - count' <= Cardinality(Active("send")')
    BY <2>1, <2>3
  <2>5. not_empty' # {} => count' <= Cardinality(Active("recv")')
    BY <2>1, <2>2 DEF NoLostWakeup
  <2> QED
    BY <2>1, <2>4, <2>5 DEF NoLostWakeup
<1>3. ASSUME NEW t \in Thread, SendRefused(t) \/ RecvNone(t) \/ Close(t)
      PROVE  NoLostWakeup'
  BY <1>3 DEF NoLostWakeup, SendRefused, RecvNone, Close, waiting
<1>4. ASSUME NEW t \in Thread, RecvWait(t)
      PROVE  NoLostWakeup'
  <2>1. /\ count' = 0 /\ ~closed'
        /\ not_full' = not_full /\ count' = count /\ call' = call
        /\ not_empty' = not_empty \cup {t} /\ call[t] = "recv"
    BY <1>4 DEF RecvWait, Running, ring, calls
  <2>2. Active("send")' = Active("send")
    BY <2>1 DEF Active, Running
  <2>3. Cardinality(Active("recv")') \in Nat
    <3>1. Active("recv")' \in SUBSET Thread
      BY DEF Active
    <3>2. IsFiniteSet(Active("recv")')
      BY <3>1, ThreadAssumption, FS_Subset
    <3> QED
      BY <3>2, FS_CardinalityType
  <2>4. count' <= Cardinality(Active("recv")')
    BY <2>1, <2>3
  <2>5. not_full' # {} => Capacity - count' <= Cardinality(Active("send")')
    BY <2>1, <2>2 DEF NoLostWakeup
  <2> QED
    BY <2>1, <2>4, <2>5 DEF NoLostWakeup
<1>5. ASSUME NEW t \in Thread, WakeUnasked(t)
      PROVE  NoLostWakeup'
  <2>1. /\ Active("send") \subseteq Active("send")'
        /\ Active("recv") \subseteq Active("recv")'
    BY <1>5 DEF WakeUnasked, Active, Running, calls
  <2> QED
    BY <1>5, <2>1, MoreAwake DEF WakeUnasked, ring
<1>6. CASE UNCHANGED vars
  BY <1>6 DEF vars, ring, waiting, calls, NoLostWakeup, Active, Running
<1> QED
  BY <1>1, <1>2, <1>3, <1>4, <1>5, <1>6, StoreNoLostWakeup, TakeNoLostWakeup
     DEF Next, Step, Operation

\* However many threads send, receive and close, a thread waits only while
\* there is nothing for it to do that an awake thread is not about to do.
THEOREM NoWakeupIsLost == Spec => []NoLostWakeup
<1>1. Init => NoLostWakeup
  BY DEF Init, NoLostWakeup
<1>2. TypeInv /\ TypeInv' /\ NoLostWakeup /\ [Next]_vars => NoLostWakeup'
  BY NextNoLostWakeup
<1> QED
  BY <1>1, <1>2, TypeInvariance, PTL DEF Spec

-----------------------------------------------------------------------------
(* The ring is a queue.                                                    *)

Item == Value \cup {None}

\* The place of the k-th value.
Place(r, k) == IF r + (k - 1) < Capacity THEN r + (k - 1) ELSE r + (k - 1) - Capacity

LEMMA PlaceType ==
  ASSUME NEW r \in Position, NEW k \in 1 .. Capacity
  PROVE  /\ Place(r, k) \in Position
         /\ (r + k - 1) % Capacity = Place(r, k)
<1>1. /\ Capacity \in Nat \ {0} /\ r \in 0 .. Capacity - 1
      /\ k - 1 \in 0 .. Capacity /\ k - 1 < Capacity
  BY CapacityType DEF Position
<1>2. (r + (k - 1)) % Capacity = Place(r, k)
  BY <1>1, RingPosition DEF Place
<1>3. r + k - 1 = r + (k - 1)
  BY <1>1
<1> QED
  BY <1>1, <1>2, <1>3 DEF Place, Position

LEMMA RingQueue ==
  ASSUME NEW b \in [Position -> Item], NEW r \in Position, NEW n \in 0 .. Capacity
  PROVE  LET Q == [k \in 1 .. n |-> b[(r + k - 1) % Capacity]]
         IN  /\ Q \in Seq(Item)
             /\ Len(Q) = n
             /\ Q = [k \in 1 .. n |-> b[Place(r, k)]]
<1> DEFINE Q == [k \in 1 .. n |-> b[(r + k - 1) % Capacity]]
<1>1. n \in Nat /\ \A k \in 1 .. n : k \in 1 .. Capacity
  BY CapacityType
<1>2. \A k \in 1 .. n : /\ (r + k - 1) % Capacity = Place(r, k)
                        /\ Place(r, k) \in Position
  BY <1>1, PlaceType
<1>3. Q = [k \in 1 .. n |-> b[Place(r, k)]]
  BY <1>2
<1>4. \A k \in 1 .. n : b[Place(r, k)] \in Item
  BY <1>2
<1>5. Q \in [1 .. n -> Item]
  BY <1>3, <1>4
<1> HIDE DEF Q
<1>6. Q \in Seq(Item)
  BY <1>1, <1>5, SeqDef
<1>7. Len(Q) = n
  BY <1>1, <1>5, <1>6, LenProperties
<1> QED
  BY <1>3, <1>6, <1>7 DEF Q

LEMMA QueueType ==
  ASSUME TypeInv
  PROVE  /\ Queue \in Seq(Item)
         /\ Len(Queue) = count
         /\ Queue = [k \in 1 .. count |-> buffer[Place(read_pos, k)]]
  BY RingQueue DEF TypeInv, TypeOK, Queue, Item

LEMMA QueueTypeNext ==
  ASSUME TypeInv'
  PROVE  /\ Queue' \in Seq(Item)
         /\ Len(Queue') = count'
         /\ Queue' = [k \in 1 .. count' |-> buffer'[Place(read_pos', k)]]
  BY RingQueue DEF TypeInv, TypeOK, Queue, Item

\* Storing behind the last value appends to the queue.
LEMMA StoreAppends ==
  ASSUME TypeInv, TypeInv', NEW t \in Thread, SendStore(t)
  PROVE  Queue' = Append(Queue, arg[t])
<1>1. /\ Capacity \in Nat \ {0} /\ count \in 0 .. Capacity - 1
      /\ read_pos \in Position /\ read_pos \in 0 .. Capacity - 1
      /\ write_pos \in Position /\ arg[t] \in Item
      /\ count + 1 \in 1 .. Capacity
  BY CapacityType DEF TypeInv, TypeOK, SendStore, Position, Item
<1>2. /\ buffer' = [buffer EXCEPT ![write_pos] = arg[t]]
      /\ count' = count + 1 /\ read_pos' = read_pos
      /\ buffer \in [Position -> Item]
  BY DEF SendStore, TypeInv, TypeOK, Item
<1>3. write_pos = Place(read_pos, count + 1)
  <2>1. (read_pos + (count + 1) - 1) % Capacity = Place(read_pos, count + 1)
    BY <1>1, PlaceType
  <2>2. read_pos + (count + 1) - 1 = read_pos + count
    BY <1>1
  <2> QED
    BY <2>1, <2>2 DEF TypeInv, RingClosed
<1>4. /\ Queue \in Seq(Item) /\ Len(Queue) = count
      /\ Queue = [k \in 1 .. count |-> buffer[Place(read_pos, k)]]
  BY QueueType
<1>5. /\ Queue' \in Seq(Item) /\ Len(Queue') = count + 1
      /\ Queue' = [k \in 1 .. count + 1 |-> buffer'[Place(read_pos, k)]]
  <2>1. /\ Queue' \in Seq(Item) /\ Len(Queue') = count'
        /\ Queue' = [k \in 1 .. count' |-> buffer'[Place(read_pos', k)]]
    BY QueueTypeNext
  <2> QED
    BY <1>2, <2>1
<1> DEFINE new == Append(Queue, arg[t])
<1>6. /\ new \in Seq(Item) /\ Len(new) = count + 1
      /\ \A k \in 1 .. count : new[k] = Queue[k]
      /\ new[count + 1] = arg[t]
  BY <1>1, <1>4, AppendProperties
<1>7. ASSUME NEW k \in 1 .. count + 1
      PROVE  Queue'[k] = new[k]
  <2>1. Queue'[k] = buffer'[Place(read_pos, k)]
    BY <1>5
  <2>2. CASE k = count + 1
    BY <1>1, <1>2, <1>3, <1>6, <2>1, <2>2
  <2>3. CASE k # count + 1
    <3>1. k \in 1 .. count /\ k \in 1 .. Capacity
      BY <1>1, <2>3
    <3>2. Place(read_pos, k) # write_pos
      BY <1>1, <1>3, <3>1 DEF Place
    <3>3. buffer'[Place(read_pos, k)] = buffer[Place(read_pos, k)]
      BY <1>1, <1>2, <3>1, <3>2, PlaceType
    <3> QED
      BY <1>4, <1>6, <2>1, <3>1, <3>3
  <2> QED
    BY <2>2, <2>3
<1> HIDE DEF new
<1>8. Queue' = new
  BY <1>5, <1>6, <1>7, SeqEqual
<1> QED
  BY <1>8 DEF new

\* Reading the first value takes the head off the queue.
LEMMA TakeHeads ==
  ASSUME TypeInv, TypeInv', NEW t \in Thread, RecvTake(t)
  PROVE  /\ Queue # <<>>
         /\ Head(Queue) = buffer[read_pos]
         /\ Queue' = Tail(Queue)
<1>1. /\ Capacity \in Nat \ {0} /\ count \in 1 .. Capacity
      /\ read_pos \in Position /\ read_pos \in 0 .. Capacity - 1
      /\ 1 \in 0 .. Capacity
  BY CapacityType DEF TypeInv, TypeOK, RecvTake, Position
<1>2. /\ buffer' = buffer /\ count' = count - 1 /\ read_pos' = Advance(read_pos)
  BY DEF RecvTake
<1>3. read_pos' = IF read_pos + 1 < Capacity
                  THEN read_pos + 1 ELSE read_pos + 1 - Capacity
  BY <1>1, <1>2, RingPosition DEF Advance
<1>4. /\ Queue \in Seq(Item) /\ Len(Queue) = count
      /\ Queue = [k \in 1 .. count |-> buffer[Place(read_pos, k)]]
  BY QueueType
<1>5. /\ Queue' \in Seq(Item) /\ Len(Queue') = count - 1
      /\ Queue' = [k \in 1 .. count - 1 |-> buffer[Place(read_pos', k)]]
  <2>1. /\ Queue' \in Seq(Item) /\ Len(Queue') = count'
        /\ Queue' = [k \in 1 .. count' |-> buffer'[Place(read_pos', k)]]
    BY QueueTypeNext
  <2> QED
    BY <1>2, <2>1
<1>6. Queue # <<>>
  BY <1>1, <1>4, EmptySeq
<1>7. Head(Queue) = buffer[read_pos]
  <2>1. Head(Queue) = Queue[1]
    BY <1>4, <1>6
  <2>2. Place(read_pos, 1) = read_pos
    BY <1>1 DEF Place
  <2> QED
    BY <1>1, <1>4, <2>1, <2>2
<1> DEFINE rest == Tail(Queue)
<1>8. /\ rest \in Seq(Item) /\ Len(rest) = count - 1
      /\ \A k \in 1 .. count - 1 : rest[k] = Queue[k + 1]
  BY <1>4, <1>6, HeadTailProperties
<1>9. ASSUME NEW k \in 1 .. count - 1
      PROVE  Queue'[k] = rest[k]
  <2>1. k + 1 \in 1 .. count /\ k \in Nat
    BY <1>1
  <2>2. Place(read_pos', k) = Place(read_pos, k + 1)
    BY <1>1, <1>3, <2>1 DEF Place
  <2>3. Queue'[k] = buffer[Place(read_pos', k)]
    BY <1>5
  <2>4. rest[k] = Queue[k + 1]
    BY <1>8
  <2>5. Queue[k + 1] = buffer[Place(read_pos, k + 1)]
    BY <1>4, <2>1
  <2> QED
    BY <2>2, <2>3, <2>4, <2>5
<1> HIDE DEF rest
<1>10. Queue' = rest
  BY <1>5, <1>8, <1>9, SeqEqual
<1> QED
  BY <1>6, <1>7, <1>10 DEF rest

-----------------------------------------------------------------------------
(* Every step of a channel is a step of the queue, or invisible.           *)

LEMMA InitFifo == Init => Fifo!Init
<1> SUFFICES ASSUME Init PROVE Fifo!Init
  OBVIOUS
<1>1. TypeInv /\ count = 0
  BY InitTypeInv DEF Init
<1>2. Queue = <<>>
  BY <1>1, QueueType, EmptySeq
<1> QED
  BY <1>2 DEF Init, Fifo!Init

LEMMA NextFifo ==
  ASSUME TypeInv, TypeInv', [Next]_vars
  PROVE  [Fifo!Next]_Fifo!vars
<1>1. ASSUME UNCHANGED ring
      PROVE  Queue' = Queue
  BY <1>1 DEF ring, Queue
<1>2. ASSUME NEW t \in Thread, NEW v \in Value, Call(t, "send", v)
      PROVE  Fifo!Next
  <2>1. Fifo!Call(t, "send", v)
    BY <1>1, <1>2 DEF Call, Fifo!Call
  <2> QED
    BY <2>1 DEF Fifo!Next
<1>3. ASSUME NEW t \in Thread, Call(t, "recv", None) \/ Call(t, "close", None)
      PROVE  Fifo!Next
  <2>1. Fifo!Call(t, "recv", None) \/ Fifo!Call(t, "close", None)
    BY <1>1, <1>3 DEF Call, Fifo!Call
  <2> QED
    BY <2>1 DEF Fifo!Next
<1>4. ASSUME NEW t \in Thread, SendWait(t) \/ RecvWait(t) \/ WakeUnasked(t)
      PROVE  UNCHANGED Fifo!vars
  BY <1>1, <1>4 DEF SendWait, RecvWait, WakeUnasked, calls, Fifo!vars
<1>5. ASSUME NEW t \in Thread, SendRefused(t)
      PROVE  Fifo!Next
  <2>1. Fifo!Refuse(t)
    BY <1>1, <1>5 DEF SendRefused, Running, Return, Fifo!Refuse, Fifo!Return
  <2> QED
    BY <2>1 DEF Fifo!Next, Fifo!Effect
<1>6. ASSUME NEW t \in Thread, SendStore(t)
      PROVE  Fifo!Next
  <2>1. Queue' = Append(Queue, arg[t])
    BY <1>6, StoreAppends
  <2>2. Len(Queue) < Capacity
    BY <1>6, QueueType, CapacityType DEF TypeInv, TypeOK, SendStore
  <2>3. Fifo!Send(t)
    BY <1>6, <2>1, <2>2 DEF SendStore, Running, Return, Fifo!Send, Fifo!Return
  <2> QED
    BY <2>3 DEF Fifo!Next, Fifo!Effect
<1>7. ASSUME NEW t \in Thread, RecvNone(t)
      PROVE  Fifo!Next
  <2>1. Queue = <<>>
    BY <1>7, QueueType, EmptySeq DEF RecvNone
  <2>2. Fifo!Drained(t)
    BY <1>1, <1>7, <2>1
       DEF RecvNone, Running, Return, Fifo!Drained, Fifo!Return
  <2> QED
    BY <2>2 DEF Fifo!Next, Fifo!Effect
<1>8. ASSUME NEW t \in Thread, RecvTake(t)
      PROVE  Fifo!Next
  <2>1. Fifo!Recv(t)
    BY <1>8, TakeHeads DEF RecvTake, Running, Return, Fifo!Recv, Fifo!Return
  <2> QED
    BY <2>1 DEF Fifo!Next, Fifo!Effect
<1>9. ASSUME NEW t \in Thread, Close(t)
      PROVE  Fifo!Next
  <2>1. Fifo!Close(t)
    BY <1>1, <1>9 DEF Close, Running, Return, Fifo!Close, Fifo!Return
  <2> QED
    BY <2>1 DEF Fifo!Next, Fifo!Effect
<1>10. CASE UNCHANGED vars
  BY <1>1, <1>10 DEF vars, calls, Fifo!vars
<1> QED
  BY <1>2, <1>3, <1>4, <1>5, <1>6, <1>7, <1>8, <1>9, <1>10 DEF Next, Step

\* A channel is a bounded first-in first-out queue: what its threads see is
\* what the queue could have done, call by call.
THEOREM ChannelImplementsFifo == Spec => FifoSpec
<1>1. TypeInv /\ TypeInv' /\ [Next]_vars => [Fifo!Next]_Fifo!vars
  BY NextFifo
<1> QED
  BY <1>1, InitFifo, TypeInvariance, PTL DEF Spec, FifoSpec, Fifo!Spec
=============================================================================
