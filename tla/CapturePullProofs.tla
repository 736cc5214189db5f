-------------------------- MODULE CapturePullProofs --------------------------
(***************************************************************************)
(* Proofs about CapturePull: for every queue bound, packet size and number *)
(* of recoveries, what the system lends is given back and what is opened   *)
(* is closed, on every path of every call.                                 *)
(***************************************************************************)
EXTENDS CapturePull, FiniteSetTheorems, SequenceTheorems, TLAPS

Places == {"idle", "opening", "negotiated", "listing", "camera_wait", "drain",
           "convert", "fill", "audio_wait", "audio_next", "copy", "finish"}

\* SystemBalanced with what it rests on: a handle is OPEN exactly while it is
\* being opened, so that the device of an open has no session yet.
SessionInv ==
  /\ state \in [Device -> {"NONE", "OPEN", "STREAMING", "CLOSED", "BROKEN"}]
  /\ session \in SUBSET Device
  /\ started \in Int
  /\ device \in Device
  /\ pc \in Places
  /\ pc \in {"opening", "negotiated"} => state[device] = "OPEN"
  /\ SystemBalanced

\* PacketsReturned with what it rests on: the camera loop holds a packet only
\* while it drains the queue and copies the frame, and does hold one when the
\* queue has been drained to its bound.
PacketInv ==
  /\ pc \in Places
  /\ ready \in Seq(Nat \ {0}) /\ newest \in Nat
  /\ latest \in Nat /\ taken \in Nat
  /\ latest # 0 => pc \in {"drain", "convert"}
  /\ pc = "convert" => latest # 0
  /\ pc = "drain" /\ taken > 0 => latest # 0
  /\ PacketsReturned

-----------------------------------------------------------------------------
(* Sets of devices.                                                        *)

\* There are two devices.
LEMMA DevicesFinite ==
  ASSUME NEW D \in SUBSET Device
  PROVE  IsFiniteSet(D) /\ Cardinality(D) \in Nat
<1>1. IsFiniteSet({}) BY FS_EmptySet
<1>2. IsFiniteSet({} \cup {"CAMERA"}) BY <1>1, FS_AddElement
<1>3. IsFiniteSet(({} \cup {"CAMERA"}) \cup {"MICROPHONE"})
  BY <1>2, FS_AddElement
<1>4. Device = ({} \cup {"CAMERA"}) \cup {"MICROPHONE"} BY DEF Device
<1>5. IsFiniteSet(Device) BY <1>3, <1>4
<1>6. IsFiniteSet(D) BY <1>5, FS_Subset
<1> QED BY <1>6, FS_CardinalityType

\* Opening a session adds one.
LEMMA OneMore ==
  ASSUME NEW D \in SUBSET Device, NEW d \in Device, d \notin D
  PROVE  Cardinality(D \cup {d}) = Cardinality(D) + 1
<1>1. IsFiniteSet(D) BY DevicesFinite
<1> QED BY <1>1, FS_AddElement

\* Closing the session of one device takes away one if it has one.
LEMMA OneLess ==
  ASSUME NEW D \in SUBSET Device, NEW d \in Device
  PROVE  Cardinality(D \ {d}) = Cardinality(D) - Cardinality(D \cap {d})
<1>1. IsFiniteSet(D) /\ Cardinality(D) \in Nat BY DevicesFinite
<1>2. CASE d \in D
  <2>1. Cardinality(D \ {d}) = Cardinality(D) - 1
    BY <1>1, <1>2, FS_RemoveElement
  <2>2. D \cap {d} = {d} BY <1>2
  <2>3. Cardinality({d}) = 1 BY FS_Singleton
  <2> QED BY <2>1, <2>2, <2>3
<1>3. CASE d \notin D
  <2>1. D \ {d} = D /\ D \cap {d} = {} BY <1>3
  <2>2. Cardinality({}) = 0 BY FS_EmptySet
  <2> QED BY <1>1, <2>1, <2>2
<1> QED BY <1>2, <1>3

-----------------------------------------------------------------------------
(* Sessions.                                                               *)

LEMMA SessionInit == Init => SessionInv
<1> SUFFICES ASSUME Init PROVE SessionInv OBVIOUS
<1>1. Cardinality({}) = 0 BY FS_EmptySet
<1> QED BY <1>1 DEF Init, SessionInv, SystemBalanced, Places, Device

\* A handle that breaks down or is closed in place `after` ends up without
\* a session, and the system without its startup().
LEMMA SessionClosed ==
  ASSUME SessionInv, NEW d \in Device,
         NEW after \in {"NONE", "CLOSED", "BROKEN"},
         pc \notin {"opening", "negotiated", "listing"}
           \/ (pc = "negotiated" /\ d = device),
         state' = [state EXCEPT ![d] = after],
         BackendsClosed({d}),
         pc' = "idle", device' = device
  PROVE  SessionInv'
<1>1. Cardinality(session \ {d})
        = Cardinality(session) - Cardinality(session \cap {d})
  BY OneLess DEF SessionInv
<1>2. Cardinality(session) \in Nat /\ Cardinality(session \cap {d}) \in Nat
  BY DevicesFinite DEF SessionInv
<1>3. started = Cardinality(session)
  BY <1>2 DEF SessionInv, SystemBalanced
<1>4. session' = session \ {d}
      /\ started' = Cardinality(session) - Cardinality(session \cap {d})
  BY <1>3 DEF BackendsClosed
<1>5. started' = Cardinality(session') /\ started' \in Int
  BY <1>1, <1>2, <1>4
<1>6. \A e \in Device : e \in session' <=> state'[e] = "STREAMING"
  BY <1>4 DEF SessionInv, SystemBalanced
<1> QED BY <1>4, <1>5, <1>6 DEF SessionInv, SystemBalanced, Places

\* The steps that open, close or list nothing, and go on inside a call.
LEMMA SessionKept ==
  ASSUME SessionInv,
         UNCHANGED <<state, session, started, device>>,
         pc \notin {"opening", "negotiated", "listing"},
         pc' \in Places \ {"opening", "negotiated", "listing"}
  PROVE  SessionInv'
BY DEF SessionInv, SystemBalanced

LEMMA SessionStart ==
  ASSUME SessionInv, NEW d \in Device, OpenStart(d)
  PROVE  SessionInv'
<1>1. Cardinality(session) \in Nat BY DevicesFinite DEF SessionInv
<1>2. started = Cardinality(session)
  BY <1>1 DEF SessionInv, SystemBalanced, OpenStart
<1>3. \A e \in Device : e \in session <=> state'[e] = "STREAMING"
  BY DEF SessionInv, SystemBalanced, OpenStart
<1> QED BY <1>1, <1>2, <1>3 DEF SessionInv, SystemBalanced, OpenStart, Places

LEMMA SessionRefused ==
  ASSUME SessionInv, OpenRefused
  PROVE  SessionInv'
<1>1. Cardinality(session) \in Nat BY DevicesFinite DEF SessionInv
<1>2. started = Cardinality(session) + 1
  BY <1>1 DEF SessionInv, SystemBalanced, OpenRefused
<1>3. \A e \in Device : e \in session <=> state'[e] = "STREAMING"
  BY DEF SessionInv, SystemBalanced, OpenRefused
<1> QED BY <1>1, <1>2, <1>3
        DEF SessionInv, SystemBalanced, OpenRefused, Places, callVars

LEMMA SessionOpened ==
  ASSUME SessionInv, OpenSession
  PROVE  SessionInv'
<1>1. device \notin session
  BY DEF SessionInv, SystemBalanced, OpenSession
<1>2. Cardinality(session \cup {device}) = Cardinality(session) + 1
  BY <1>1, OneMore DEF SessionInv
<1>3. Cardinality(session) \in Nat BY DevicesFinite DEF SessionInv
<1>4. started = Cardinality(session) + 1
  BY <1>3 DEF SessionInv, SystemBalanced, OpenSession
<1>5. started' = Cardinality(session')
  BY <1>2, <1>4 DEF OpenSession
<1>6. \A e \in Device :
        e \in session' <=> state'[e] = "STREAMING" \/ e = device
  BY DEF SessionInv, SystemBalanced, OpenSession
<1> QED BY <1>3, <1>4, <1>5, <1>6
        DEF SessionInv, SystemBalanced, OpenSession, Places, callVars

LEMMA SessionAccepted ==
  ASSUME SessionInv, OpenAccepted
  PROVE  SessionInv'
<1>1. Cardinality(session) \in Nat BY DevicesFinite DEF SessionInv
<1>2. started = Cardinality(session)
  BY <1>1 DEF SessionInv, SystemBalanced, OpenAccepted
<1>3. \A e \in Device : e \in session <=> state'[e] = "STREAMING"
  BY DEF SessionInv, SystemBalanced, OpenAccepted
<1> QED BY <1>1, <1>2, <1>3
        DEF SessionInv, SystemBalanced, OpenAccepted, Places, sysVars, callVars

LEMMA SessionListed ==
  ASSUME SessionInv, ListStart \/ ListEnd
  PROVE  SessionInv'
<1>1. Cardinality(session) \in Nat BY DevicesFinite DEF SessionInv
<1> QED BY <1>1
        DEF SessionInv, SystemBalanced, ListStart, ListEnd, Places, callVars

\* One step per kind of action: opening, closing, breaking down, the rest.
LEMMA SessionStep == SessionInv /\ [Next]_vars => SessionInv'
<1> SUFFICES ASSUME SessionInv, [Next]_vars PROVE SessionInv' OBVIOUS
<1>1. CASE UNCHANGED vars
  BY <1>1 DEF SessionInv, SystemBalanced, vars, sysVars, callVars
<1>2. ASSUME NEW d \in Device, OpenStart(d) PROVE SessionInv'
  BY <1>2, SessionStart
<1>3. CASE OpenRefused BY <1>3, SessionRefused
<1>4. CASE OpenSession BY <1>4, SessionOpened
<1>5. CASE OpenAccepted BY <1>5, SessionAccepted
<1>6. CASE OpenRejected
  <2>1. device \in Device BY DEF SessionInv
  <2> QED BY <1>6, <2>1, SessionClosed DEF OpenRejected, callVars
<1>7. ASSUME NEW d \in Device, NEW after \in {"CLOSED", "NONE"}, Close(d, after)
      PROVE  SessionInv'
  BY <1>7, SessionClosed DEF Close, callVars
<1>8. CASE CameraBroken \/ DrainBroken \/ FrameInvalid
  <2>1. "CAMERA" \in Device BY DEF Device
  <2> QED BY <1>8, <2>1, SessionClosed
          DEF CameraBroken, DrainBroken, FrameInvalid, Break, callVars
<1>9. CASE AudioBroken
  <2>1. "MICROPHONE" \in Device BY DEF Device
  <2> QED BY <1>9, <2>1, SessionClosed
          DEF AudioBroken, Asking, Break, callVars
<1>10. CASE ListStart \/ ListEnd BY <1>10, SessionListed
<1>11. ASSUME NEW w \in BOOLEAN, Frame(w) PROVE SessionInv'
  BY <1>11, SessionKept DEF Frame, Begin, Places, sysVars
<1>12. CASE CameraTimeout \/ CameraReady \/ DrainEmpty \/ DrainNext
             \/ DrainDone \/ FrameEnd
  BY <1>12, SessionKept DEF CameraTimeout, CameraReady, DrainEmpty, DrainNext,
     DrainDone, FrameEnd, Places, sysVars, callVars
<1>13. CASE FrameArrives
  BY <1>13 DEF FrameArrives, SessionInv, SystemBalanced, sysVars, callVars
<1>14. CASE ClockPasses
  BY <1>14 DEF ClockPasses, SessionInv, SystemBalanced, sysVars
<1>15. ASSUME NEW w \in BOOLEAN, NEW n \in 1 .. MaxSamples, Read(n, w)
       PROVE  SessionInv'
  BY <1>15, SessionKept DEF Read, Begin, Places, sysVars
<1>16. CASE Fill
  BY <1>16, SessionKept DEF Fill, Places, sysVars, callVars
<1>17. CASE AudioTimeout \/ AudioReady \/ Recover \/ NextEmpty
  BY <1>17, SessionKept DEF AudioTimeout, AudioReady, Recover, Asking,
     NextEmpty, ReadFails, Places, sysVars, callVars
<1>18. ASSUME NEW n \in PacketFrames, NextPacket(n) PROVE SessionInv'
  BY <1>18, SessionKept DEF NextPacket, Places, callVars
<1>19. CASE PacketCopied \/ PacketLost \/ ReadReturns \/ ReadTooLate
  BY <1>19, SessionKept DEF PacketCopied, PacketLost, ReadReturns,
     ReadTooLate, ReadFails, Places, sysVars, callVars
<1> QED BY <1>1, <1>2, <1>3, <1>4, <1>5, <1>6, <1>7, <1>8, <1>9, <1>10,
        <1>11, <1>12, <1>13, <1>14, <1>15, <1>16, <1>17, <1>18, <1>19
        DEF Next, CallStep

\* For any constants: startup() and shutdown() balance and a session is open
\* exactly as long as its handle streams.
THEOREM SystemIsBalanced == Spec => []SystemBalanced
<1>1. SessionInv => SystemBalanced BY DEF SessionInv
<1> QED BY SessionInit, SessionStep, <1>1, PTL DEF Spec

-----------------------------------------------------------------------------
(* Packets.                                                                *)

LEMMA PacketInit == Init => PacketInv
BY DEF Init, PacketInv, PacketsReturned, Have, Places

\* Away from the camera loop no frame is held.
LEMMA PacketElsewhere ==
  ASSUME PacketInv,
         UNCHANGED <<ready, newest, latest, taken, outstanding>>,
         pc \notin {"drain", "convert", "copy"},
         pc' \in Places \ {"drain", "convert", "copy"}
  PROVE  PacketInv'
BY DEF PacketInv, PacketsReturned, Have

\* A breakdown empties the queue of the camera or leaves it alone.
LEMMA PacketQueues ==
  ASSUME PacketInv, NEW d \in Device, QueuesLost(d),
         UNCHANGED <<newest, latest, taken, outstanding>>,
         pc \notin {"drain", "convert", "copy"},
         pc' \in Places \ {"drain", "convert", "copy"}
  PROVE  PacketInv'
<1>1. ready' \in Seq(Nat \ {0}) BY DEF PacketInv, QueuesLost
<1> QED BY <1>1 DEF PacketInv, PacketsReturned, Have

LEMMA PacketDrained == ASSUME PacketInv, DrainNext PROVE PacketInv'
<1>1. Head(ready) \in Nat \ {0} /\ Tail(ready) \in Seq(Nat \ {0})
  BY DEF PacketInv, DrainNext
<1>2. outstanding = Have BY DEF PacketInv, PacketsReturned, DrainNext, Have
<1>3. outstanding' = 1 /\ latest' # 0
  BY <1>1, <1>2 DEF DrainNext, Superseded, Have
<1> QED BY <1>1, <1>3
        DEF PacketInv, PacketsReturned, Have, DrainNext, Places

LEMMA PacketArrives == ASSUME PacketInv, FrameArrives PROVE PacketInv'
<1>1. CASE Len(ready) = QueueBound
  <2>1. ready # <<>> BY <1>1, CaptureAssumption DEF PacketInv
  <2>2. Tail(ready) \in Seq(Nat \ {0}) BY <2>1 DEF PacketInv
  <2>3. newest + 1 \in Nat \ {0} BY DEF PacketInv
  <2>4. ready' = Append(Tail(ready), newest + 1) BY <1>1 DEF FrameArrives
  <2>5. ready' \in Seq(Nat \ {0}) BY <2>2, <2>3, <2>4
  <2> QED BY <2>3, <2>5
          DEF FrameArrives, PacketInv, PacketsReturned, Have, sysVars
<1>2. CASE Len(ready) # QueueBound
  <2>1. newest + 1 \in Nat \ {0} BY DEF PacketInv
  <2>2. ready' = Append(ready, newest + 1) BY <1>2 DEF FrameArrives
  <2>3. ready' \in Seq(Nat \ {0}) BY <2>1, <2>2 DEF PacketInv
  <2> QED BY <2>1, <2>3
          DEF FrameArrives, PacketInv, PacketsReturned, Have, sysVars
<1> QED BY <1>1, <1>2

\* One step per kind of action: those that hold a packet each on their own.
LEMMA PacketStep == PacketInv /\ [Next]_vars => PacketInv'
<1> SUFFICES ASSUME PacketInv, [Next]_vars PROVE PacketInv' OBVIOUS
<1>1. CASE UNCHANGED vars
  BY <1>1 DEF PacketInv, PacketsReturned, Have, vars, sysVars, cameraVars
<1>2. ASSUME NEW d \in Device, OpenStart(d) PROVE PacketInv'
  BY <1>2, PacketElsewhere DEF OpenStart, Places, cameraVars
<1>3. CASE OpenRefused \/ OpenSession \/ OpenAccepted \/ ListStart \/ ListEnd
  BY <1>3, PacketElsewhere DEF OpenRefused, OpenSession, OpenAccepted,
     ListStart, ListEnd, Places, sysVars, cameraVars
<1>4. CASE OpenRejected
  <2>1. CASE device \in Device
    BY <1>4, <2>1, PacketQueues DEF OpenRejected, Places
  <2>2. CASE device \notin Device
    <3>1. ready' = ready BY <1>4, <2>2 DEF OpenRejected, QueuesLost, Device
    <3> QED BY <1>4, <3>1, PacketElsewhere DEF OpenRejected, Places
  <2> QED BY <2>1, <2>2
<1>5. ASSUME NEW d \in Device, NEW after \in {"CLOSED", "NONE"}, Close(d, after)
      PROVE  PacketInv'
  BY <1>5, PacketQueues DEF Close, Places
<1>6. CASE CameraBroken \/ AudioBroken
  <2>1. {"CAMERA", "MICROPHONE"} \subseteq Device BY DEF Device
  <2> QED BY <1>6, <2>1, PacketQueues
          DEF CameraBroken, AudioBroken, Asking, Break, Places
<1>7. CASE DrainBroken \/ FrameInvalid
  <2>1. ready' = <<>> /\ latest' = 0 /\ pc' = "idle"
    BY <1>7 DEF DrainBroken, FrameInvalid, Break, QueuesLost
  <2>2. outstanding' = 0
    BY <1>7 DEF DrainBroken, FrameInvalid, PacketInv, PacketsReturned,
       Have
  <2>3. newest' = newest /\ taken' = taken
    BY <1>7 DEF DrainBroken, FrameInvalid
  <2> QED BY <2>1, <2>2, <2>3 DEF PacketInv, PacketsReturned, Have, Places
<1>8. ASSUME NEW w \in BOOLEAN, Frame(w) PROVE PacketInv'
  BY <1>8, PacketElsewhere DEF Frame, Begin, Places, sysVars, cameraVars
<1>9. CASE CameraTimeout
  BY <1>9, PacketElsewhere DEF CameraTimeout, Places, sysVars, cameraVars
<1>10. CASE CameraReady
  BY <1>10 DEF CameraReady, PacketInv, PacketsReturned, Have, Places, sysVars
<1>11. CASE DrainEmpty
  BY <1>11 DEF DrainEmpty, PacketInv, PacketsReturned, Have, Places, sysVars,
     cameraVars
<1>12. CASE DrainNext BY <1>12, PacketDrained
<1>13. CASE DrainDone
  BY <1>13, CaptureAssumption DEF DrainDone, DrainFull, PacketInv,
     PacketsReturned, Have, Places, sysVars, cameraVars
<1>14. CASE FrameEnd
  BY <1>14 DEF FrameEnd, PacketInv, PacketsReturned, Have, Places
<1>15. CASE FrameArrives BY <1>15, PacketArrives
<1>16. CASE ClockPasses
  BY <1>16 DEF ClockPasses, PacketInv, PacketsReturned, Have, sysVars,
     cameraVars
<1>17. ASSUME NEW w \in BOOLEAN, NEW n \in 1 .. MaxSamples, Read(n, w)
       PROVE  PacketInv'
  BY <1>17, PacketElsewhere DEF Read, Begin, Places, sysVars, cameraVars
<1>18. CASE Fill
  BY <1>18, PacketElsewhere DEF Fill, Places, sysVars, cameraVars
<1>19. CASE AudioTimeout \/ AudioReady \/ Recover \/ NextEmpty
  BY <1>19, PacketElsewhere DEF AudioTimeout, AudioReady, Recover, Asking,
     NextEmpty, ReadFails, Places, sysVars, cameraVars
<1>20. ASSUME NEW n \in PacketFrames, NextPacket(n) PROVE PacketInv'
  BY <1>20 DEF NextPacket, PacketInv, PacketsReturned, Have, Places,
     cameraVars
<1>21. CASE PacketCopied \/ PacketLost
  BY <1>21 DEF PacketCopied, PacketLost, ReadFails, PacketInv,
     PacketsReturned, Have, Places, cameraVars
<1>22. CASE ReadReturns \/ ReadTooLate
  BY <1>22, PacketElsewhere DEF ReadReturns, ReadTooLate, ReadFails, Places,
     sysVars, cameraVars
<1> QED BY <1>1, <1>2, <1>3, <1>4, <1>5, <1>6, <1>7, <1>8, <1>9, <1>10,
        <1>11, <1>12, <1>13, <1>14, <1>15, <1>16, <1>17, <1>18, <1>19, <1>20,
        <1>21, <1>22
        DEF Next, CallStep

\* For any constants: on every path of every call the packets that were lent
\* and not given back are those the call still uses.
THEOREM PacketsAreReturned == Spec => []PacketsReturned
<1>1. PacketInv => PacketsReturned BY DEF PacketInv
<1> QED BY PacketInit, PacketStep, <1>1, PTL DEF Spec

-----------------------------------------------------------------------------
(* The newest frame.                                                       *)

\* The frames that wait are the last ones the camera produced.
Consecutive ==
  /\ ready \in Seq(Nat) /\ newest \in Nat
  /\ Len(ready) <= QueueBound
  /\ \A k \in 1 .. Len(ready) : ready[k] = newest - Len(ready) + k

\* While the loop has not reached the frame it is after, that frame or a
\* newer one waits, and there are no more in front of it than turns left.
GoalInReach ==
  latest < goal =>
    /\ ready # <<>>
    /\ taken < QueueBound
    /\ goal <= newest
    /\ goal - (newest - Len(ready)) <= QueueBound - taken

\* NewestFrame with what it rests on.
FrameInv ==
  /\ Consecutive
  /\ taken \in Nat /\ latest \in Nat /\ goal \in Nat
  /\ pc = "drain" /\ latest # 0 => latest <= newest - Len(ready)
  /\ pc = "drain" => GoalInReach
  /\ NewestFrame

LEMMA FrameInit == Init => FrameInv
BY CaptureAssumption
   DEF Init, FrameInv, Consecutive, NewestFrame

\* Away from the camera loop nothing can go wrong but with the queue.
LEMMA FrameElsewhere ==
  ASSUME FrameInv,
         ready' \in {ready, <<>>},
         UNCHANGED newest,
         taken' \in Nat, latest' \in Nat, UNCHANGED goal,
         pc' \notin {"drain", "convert"}
  PROVE  FrameInv'
<1>1. CASE ready' = ready BY <1>1 DEF FrameInv, Consecutive, NewestFrame
<1>2. CASE ready' = <<>>
  <2>1. ready' \in Seq(Nat) /\ Len(ready') = 0 BY <1>2
  <2>2. Consecutive' BY <2>1, CaptureAssumption DEF FrameInv, Consecutive
  <2> QED BY <2>2 DEF FrameInv, NewestFrame
<1> QED BY <1>1, <1>2

LEMMA FrameReady == ASSUME FrameInv, CameraReady PROVE FrameInv'
<1>1. Consecutive' BY DEF CameraReady, FrameInv, Consecutive, sysVars
<1>2. CASE ready = <<>>
  BY <1>1, <1>2 DEF CameraReady, FrameInv, GoalInReach, NewestFrame
<1>3. CASE ready # <<>>
  <2>1. Len(ready) \in 1 .. Len(ready)
    BY <1>3 DEF FrameInv, Consecutive
  <2>2. goal' = newest
    BY <1>3, <2>1 DEF CameraReady, FrameInv, Consecutive
  <2>3. newest' = newest /\ ready' = ready /\ taken' = 0 /\ latest' = 0
        /\ pc' = "drain"
    BY DEF CameraReady
  <2>4. GoalInReach'
    BY <1>3, <2>1, <2>2, <2>3, CaptureAssumption
       DEF FrameInv, Consecutive, GoalInReach
  <2> QED BY <1>1, <2>2, <2>3, <2>4 DEF FrameInv, Consecutive, NewestFrame
<1> QED BY <1>2, <1>3

LEMMA FrameDrained == ASSUME FrameInv, DrainNext PROVE FrameInv'
<1> DEFINE n == Len(ready)
<1>1. n \in Nat \ {0} /\ 1 \in 1 .. n
  BY DEF DrainNext, FrameInv, Consecutive
<1>2. Len(Tail(ready)) = n - 1
      /\ Tail(ready) \in Seq(Nat)
      /\ \A k \in 1 .. n - 1 : Tail(ready)[k] = ready[k + 1]
  BY <1>1 DEF DrainNext, FrameInv, Consecutive
<1>3. Head(ready) = newest - n + 1 /\ Head(ready) \in Nat
  BY <1>1 DEF DrainNext, FrameInv, Consecutive
<1>4. ready' = Tail(ready) /\ newest' = newest /\ latest' = Head(ready)
      /\ taken' = taken + 1 /\ goal' = goal /\ pc = "drain" /\ pc' = pc
      /\ taken # QueueBound
  BY DEF DrainNext, DrainFull
<1>5. newest \in Nat /\ taken \in Nat /\ latest \in Nat /\ goal \in Nat
      /\ QueueBound \in Nat /\ n <= QueueBound
  BY CaptureAssumption DEF FrameInv, Consecutive
<1>6. \A k \in 1 .. n - 1 : Tail(ready)[k] = newest - (n - 1) + k
  <2> SUFFICES ASSUME NEW k \in 1 .. n - 1
               PROVE  Tail(ready)[k] = newest - (n - 1) + k
    OBVIOUS
  <2>1. k + 1 \in 1 .. n BY <1>1
  <2>2. ready[k + 1] = newest - n + (k + 1)
    BY <2>1 DEF FrameInv, Consecutive
  <2> QED BY <1>1, <1>2, <1>5, <2>2
<1>7. Consecutive'
  BY <1>1, <1>2, <1>4, <1>5, <1>6 DEF Consecutive
<1>8. GoalInReach'
  <2> SUFFICES ASSUME newest - n + 1 < goal
               PROVE  /\ Tail(ready) # <<>>
                      /\ taken + 1 < QueueBound
                      /\ goal <= newest
                      /\ goal - (newest - (n - 1)) <= QueueBound - (taken + 1)
    BY <1>2, <1>3, <1>4 DEF GoalInReach
  <2>1. CASE latest < goal
    <3>1. /\ taken < QueueBound /\ goal <= newest
          /\ goal - (newest - n) <= QueueBound - taken
      BY <1>4, <2>1 DEF FrameInv, GoalInReach
    <3>2. n > 1 BY <1>1, <1>5, <3>1
    <3>3. Tail(ready) # <<>>
      <4>1. Len(Tail(ready)) # 0 BY <1>1, <1>2, <3>2
      <4>2. Len(<<>>) = 0 OBVIOUS
      <4> QED BY <4>1, <4>2
    <3> HIDE DEF n
    <3> QED BY <1>1, <1>5, <3>1, <3>2, <3>3
  <2>2. CASE ~(latest < goal)
    <3>1. CASE latest = 0 BY <1>3, <1>5, <2>2, <3>1
    <3>2. CASE latest # 0
      <4>1. latest <= newest - n BY <1>4, <3>2 DEF FrameInv
      <4> QED BY <1>1, <1>5, <2>2, <4>1
    <3> QED BY <3>1, <3>2
  <2> QED BY <2>1, <2>2
<1>9. latest' <= newest' - Len(ready')
  BY <1>1, <1>2, <1>3, <1>4, <1>5
<1> QED BY <1>3, <1>4, <1>5, <1>7, <1>8, <1>9 DEF FrameInv, NewestFrame

LEMMA FrameComes == ASSUME FrameInv, FrameArrives PROVE FrameInv'
<1> DEFINE n == Len(ready)
<1>1. /\ newest \in Nat /\ taken \in Nat /\ latest \in Nat /\ goal \in Nat
      /\ QueueBound \in Nat \ {0} /\ n \in Nat /\ n <= QueueBound
      /\ ready \in Seq(Nat)
      /\ \A k \in 1 .. n : ready[k] = newest - n + k
  BY CaptureAssumption DEF FrameInv, Consecutive
<1>2. newest' = newest + 1 /\ taken' = taken /\ latest' = latest
      /\ goal' = goal /\ pc' = pc
  BY DEF FrameArrives
<1>3. ASSUME Consecutive', ready' # <<>>,
             newest - n <= newest' - Len(ready')
      PROVE  FrameInv'
  <2>1. Len(ready') \in Nat BY <1>3 DEF Consecutive
  <2>2. pc = "drain" => GoalInReach'
    <3> SUFFICES ASSUME pc = "drain", latest < goal
                 PROVE  /\ goal <= newest + 1 /\ taken < QueueBound
                        /\ goal - (newest' - Len(ready')) <= QueueBound - taken
      BY <1>2, <1>3 DEF GoalInReach
    <3>1. /\ taken < QueueBound /\ goal <= newest
          /\ goal - (newest - n) <= QueueBound - taken
      BY DEF FrameInv, GoalInReach
    <3> HIDE DEF n
    <3> QED BY <1>1, <1>2, <1>3, <2>1, <3>1
  <2>3. pc = "drain" /\ latest # 0 => latest <= newest' - Len(ready')
    <3>1. pc = "drain" /\ latest # 0 => latest <= newest - n
      BY DEF FrameInv
    <3> HIDE DEF n
    <3> QED BY <1>1, <1>2, <1>3, <2>1, <3>1
  <2> QED BY <1>1, <1>2, <1>3, <2>2, <2>3 DEF FrameInv, NewestFrame
<1>4. CASE n = QueueBound
  <2>1. /\ Tail(ready) \in Seq(Nat) /\ Len(Tail(ready)) = n - 1
        /\ \A k \in 1 .. n - 1 : Tail(ready)[k] = ready[k + 1]
    BY <1>1, <1>4
  <2>2. ready' = Append(Tail(ready), newest + 1)
    BY <1>4 DEF FrameArrives
  <2>3. /\ ready' \in Seq(Nat) /\ Len(ready') = n
        /\ \A k \in 1 .. n - 1 : ready'[k] = Tail(ready)[k]
        /\ ready'[n] = newest + 1
    BY <1>1, <2>1, <2>2
  <2>4. \A k \in 1 .. n : ready'[k] = (newest + 1) - n + k
    <3> SUFFICES ASSUME NEW k \in 1 .. n
                 PROVE  ready'[k] = (newest + 1) - n + k
      OBVIOUS
    <3>1. CASE k = n BY <1>1, <2>3, <3>1
    <3>2. CASE k # n
      <4>1. k \in 1 .. n - 1 /\ k + 1 \in 1 .. n BY <1>1, <3>2
      <4>2. ready'[k] = ready[k + 1] BY <2>1, <2>3, <4>1
      <4>3. ready[k + 1] = newest - n + (k + 1) BY <1>1, <4>1
      <4> QED BY <1>1, <4>2, <4>3
    <3> QED BY <3>1, <3>2
  <2>5. ready' # <<>> BY <1>1, <1>4, <2>3
  <2>6. Consecutive' BY <1>1, <1>2, <2>3, <2>4 DEF Consecutive
  <2>7. newest - n <= newest' - Len(ready') BY <1>1, <1>2, <2>3
  <2> QED BY <1>3, <2>5, <2>6, <2>7
<1>5. CASE n # QueueBound
  <2>1. ready' = Append(ready, newest + 1) BY <1>5 DEF FrameArrives
  <2>2. /\ ready' \in Seq(Nat) /\ Len(ready') = n + 1
        /\ \A k \in 1 .. n : ready'[k] = ready[k]
        /\ ready'[n + 1] = newest + 1
    BY <1>1, <2>1
  <2>3. \A k \in 1 .. n + 1 : ready'[k] = (newest + 1) - (n + 1) + k
    <3> SUFFICES ASSUME NEW k \in 1 .. n + 1
                 PROVE  ready'[k] = (newest + 1) - (n + 1) + k
      OBVIOUS
    <3>1. CASE k = n + 1 BY <1>1, <2>2, <3>1
    <3>2. CASE k # n + 1
      <4>1. k \in 1 .. n BY <1>1, <3>2
      <4> QED BY <1>1, <2>2, <4>1
    <3> QED BY <3>1, <3>2
  <2>4. ready' # <<>> BY <1>1, <2>2
  <2>5. n + 1 <= QueueBound BY <1>1, <1>5
  <2>6. Consecutive' BY <1>1, <1>2, <2>2, <2>3, <2>5 DEF Consecutive
  <2>7. newest - n <= newest' - Len(ready') BY <1>1, <1>2, <2>2
  <2> QED BY <1>3, <2>4, <2>6, <2>7
<1> QED BY <1>4, <1>5

\* One step per kind of action: the camera loop, the queue, the rest.
LEMMA FrameStep == FrameInv /\ [Next]_vars => FrameInv'
<1> SUFFICES ASSUME FrameInv, [Next]_vars PROVE FrameInv' OBVIOUS
<1>1. CASE UNCHANGED vars
  BY <1>1 DEF FrameInv, Consecutive, GoalInReach, NewestFrame, vars,
     cameraVars
<1>2. ASSUME NEW d \in Device, OpenStart(d) PROVE FrameInv'
  BY <1>2, FrameElsewhere DEF OpenStart, FrameInv, cameraVars
<1>3. CASE OpenRefused \/ OpenSession \/ OpenAccepted \/ ListStart \/ ListEnd
  BY <1>3, FrameElsewhere DEF OpenRefused, OpenSession, OpenAccepted,
     ListStart, ListEnd, FrameInv, cameraVars
<1>4. CASE OpenRejected
  BY <1>4, FrameElsewhere DEF OpenRejected, QueuesLost, FrameInv
<1>5. ASSUME NEW d \in Device, NEW after \in {"CLOSED", "NONE"}, Close(d, after)
      PROVE  FrameInv'
  BY <1>5, FrameElsewhere DEF Close, QueuesLost, FrameInv
<1>6. CASE CameraBroken \/ DrainBroken \/ FrameInvalid \/ AudioBroken
  BY <1>6, FrameElsewhere DEF CameraBroken, DrainBroken, FrameInvalid,
     AudioBroken, Break, QueuesLost, FrameInv
<1>7. ASSUME NEW w \in BOOLEAN, Frame(w) PROVE FrameInv'
  BY <1>7, FrameElsewhere DEF Frame, Begin, FrameInv, cameraVars
<1>8. CASE CameraTimeout
  BY <1>8, FrameElsewhere DEF CameraTimeout, FrameInv, cameraVars
<1>9. CASE CameraReady BY <1>9, FrameReady
<1>10. CASE DrainNext BY <1>10, FrameDrained
<1>11. CASE DrainEmpty
  BY <1>11 DEF DrainEmpty, FrameInv, Consecutive, GoalInReach, NewestFrame,
     cameraVars
<1>12. CASE DrainDone
  <2>1. latest >= goal
    BY <1>12, CaptureAssumption
       DEF DrainDone, DrainFull, FrameInv, GoalInReach
  <2> QED BY <1>12, <2>1
          DEF DrainDone, FrameInv, Consecutive, NewestFrame, cameraVars
<1>13. CASE FrameEnd
  BY <1>13, FrameElsewhere DEF FrameEnd, FrameInv
<1>14. CASE FrameArrives BY <1>14, FrameComes
<1>15. CASE ClockPasses
  BY <1>15 DEF ClockPasses, FrameInv, Consecutive, GoalInReach, NewestFrame,
     cameraVars
<1>16. ASSUME NEW w \in BOOLEAN, NEW n \in 1 .. MaxSamples, Read(n, w)
       PROVE  FrameInv'
  BY <1>16, FrameElsewhere DEF Read, Begin, FrameInv, cameraVars
<1>17. CASE Fill BY <1>17, FrameElsewhere DEF Fill, FrameInv, cameraVars
<1>18. CASE AudioTimeout \/ AudioReady \/ Recover \/ NextEmpty
  BY <1>18, FrameElsewhere DEF AudioTimeout, AudioReady, Recover, NextEmpty,
     ReadFails, FrameInv, cameraVars
<1>19. ASSUME NEW n \in PacketFrames, NextPacket(n) PROVE FrameInv'
  BY <1>19, FrameElsewhere DEF NextPacket, FrameInv, cameraVars
<1>20. CASE PacketCopied \/ PacketLost \/ ReadReturns \/ ReadTooLate
  BY <1>20, FrameElsewhere DEF PacketCopied, PacketLost, ReadReturns,
     ReadTooLate, ReadFails, FrameInv, cameraVars
<1> QED BY <1>1, <1>2, <1>3, <1>4, <1>5, <1>6, <1>7, <1>8, <1>9, <1>10,
        <1>11, <1>12, <1>13, <1>14, <1>15, <1>16, <1>17, <1>18, <1>19, <1>20
        DEF Next, CallStep

\* For any constants: a camera call returns no frame older than the newest
\* one that was ready when it began to drain the queue.
THEOREM FrameIsNewest == Spec => []NewestFrame
<1>1. FrameInv => NewestFrame BY DEF FrameInv
<1> QED BY FrameInit, FrameStep, <1>1, PTL DEF Spec

-----------------------------------------------------------------------------
(* Blocks of samples.                                                      *)

\* The places of a microphone call.
ReadPlaces == {"fill", "audio_wait", "audio_next", "copy", "finish"}

\* Samples that follow each other.
Run(s) == s \in Seq(Nat) /\ \A k \in 1 .. Len(s) - 1 : s[k + 1] = s[k] + 1

\* The sample that comes next: from the spill buffer, from the packet that is
\* being copied, from the microphone.
Upcoming ==
  IF spill # <<>> THEN spill[1] ELSE IF packet # <<>> THEN packet[1] ELSE stream

\* The samples on their way: what is spilled or lent ends where the microphone
\* goes on, and only one of the two is there.
Samples ==
  /\ stream \in Nat
  /\ Run(spill) /\ Run(packet)
  /\ spill # <<>> => spill[Len(spill)] + 1 = stream
  /\ packet # <<>> => packet[Len(packet)] + 1 = stream
  /\ packet # <<>> => pc = "copy"
  /\ pc \in {"audio_wait", "audio_next", "copy"} => spill = <<>>

\* The block so far, and how it goes on.
Block ==
  /\ Run(block)
  /\ wanted \in Nat
  /\ pc \in ReadPlaces => Len(block) <= wanted /\ wanted # 0
  /\ pc = "finish" => Len(block) = wanted
  /\ pc \notin ReadPlaces => block = <<>>
  /\ block # <<>> => block[Len(block)] + 1 = Upcoming

\* What the block before it promised.
Promise ==
  /\ follows \in Nat
  /\ follows # 0 /\ state["MICROPHONE"] = "STREAMING" /\ block = <<>>
       => Upcoming = follows
  /\ follows # 0 /\ block # <<>> => block[1] = follows

\* BlockContiguous with what it rests on.
SampleInv ==
  /\ state \in [Device -> {"NONE", "OPEN", "STREAMING", "CLOSED", "BROKEN"}]
  /\ pc \in ReadPlaces => state["MICROPHONE"] = "STREAMING"
  /\ Samples /\ Block /\ Promise

LEMMA SampleInit == Init => SampleInv
BY DEF Init, SampleInv, Samples, Block, Promise, Run, ReadPlaces, Device

\* Away from the microphone calls the samples are left alone, or given up
\* with the session of the microphone.
LEMMA SampleElsewhere ==
  ASSUME SampleInv,
         state' \in [Device -> {"NONE", "OPEN", "STREAMING", "CLOSED",
                                "BROKEN"}],
         pc \notin ReadPlaces, pc' \notin ReadPlaces,
         UNCHANGED <<stream, packet, block, wanted>>,
         \/ spill' = spill /\ follows' = follows
              /\ (state'["MICROPHONE"] = "STREAMING"
                    => state["MICROPHONE"] = "STREAMING")
         \/ spill' = spill /\ follows' = 0
         \/ spill' = <<>> /\ follows' = follows
              /\ state'["MICROPHONE"] # "STREAMING"
  PROVE  SampleInv'
<1>1. packet = <<>> /\ block = <<>>
  BY DEF SampleInv, Samples, Block, ReadPlaces
<1>2. Samples'
  <2>1. spill' \in {spill, <<>>} OBVIOUS
  <2>2. Run(spill')
    <3>1. Run(<<>>) BY DEF Run
    <3> QED BY <2>1, <3>1 DEF SampleInv, Samples
  <2>3. Run(packet') BY DEF SampleInv, Samples
  <2> QED BY <1>1, <2>1, <2>2, <2>3 DEF SampleInv, Samples, ReadPlaces, Run
<1>3. Block'
  BY <1>1 DEF SampleInv, Block, Run, ReadPlaces
<1>4. Promise'
  BY <1>1 DEF SampleInv, Promise, Upcoming
<1> QED BY <1>2, <1>3, <1>4 DEF SampleInv

\* The block is given up, and no sample is left but those on their way.
LEMMA SampleGivenUp ==
  ASSUME SampleInv,
         state' \in [Device -> {"NONE", "OPEN", "STREAMING", "CLOSED",
                                "BROKEN"}],
         Samples', block' = <<>>, wanted' = wanted, follows' = 0,
         pc \in ReadPlaces, pc' # "finish",
         pc' \in ReadPlaces => state'["MICROPHONE"] = "STREAMING"
  PROVE  SampleInv'
<1>1. Run(<<>>) /\ Len(<<>>) = 0 BY DEF Run
<1>2. Block' BY <1>1 DEF SampleInv, Block
<1>3. Promise' BY DEF Promise
<1> QED BY <1>2, <1>3 DEF SampleInv

\* Inside a microphone call nothing moves but the place.
LEMMA SampleWaits ==
  ASSUME SampleInv,
         UNCHANGED <<state, stream, packet, spill, block, wanted, follows>>,
         pc \in ReadPlaces, pc' \in ReadPlaces \ {"finish"},
         pc' \in {"audio_wait", "audio_next", "copy"} => spill = <<>>,
         packet # <<>> => pc' = "copy"
  PROVE  SampleInv'
BY DEF SampleInv, Samples, Block, Promise, Upcoming

\* A run cut in two after its n-th sample.
LEMMA RunCut ==
  ASSUME NEW t \in Seq(Nat), Run(t), NEW n \in Nat, n <= Len(t)
  PROVE  /\ Run(SubSeq(t, 1, n)) /\ Len(SubSeq(t, 1, n)) = n
         /\ \A k \in 1 .. n : SubSeq(t, 1, n)[k] = t[k]
         /\ Run(SubSeq(t, n + 1, Len(t)))
         /\ Len(SubSeq(t, n + 1, Len(t))) = Len(t) - n
         /\ \A k \in 1 .. Len(t) - n : SubSeq(t, n + 1, Len(t))[k] = t[n + k]
<1>1. Len(t) \in Nat /\ \A k \in 1 .. Len(t) : t[k] \in Nat OBVIOUS
<1>2. \A k \in 1 .. Len(t) - 1 : t[k + 1] = t[k] + 1 BY DEF Run
<1>3. /\ SubSeq(t, 1, n) \in Seq(Nat) /\ Len(SubSeq(t, 1, n)) = n
      /\ \A k \in 1 .. n : SubSeq(t, 1, n)[k] = t[k]
  <2>1. \A k \in 1 .. n : t[k] \in Nat BY <1>1
  <2>2. /\ SubSeq(t, 1, n) \in Seq(Nat)
        /\ Len(SubSeq(t, 1, n)) = IF 1 <= n THEN n - 1 + 1 ELSE 0
        /\ \A k \in 1 .. n - 1 + 1 : SubSeq(t, 1, n)[k] = t[1 + k - 1]
    BY <2>1, SubSeqProperties
  <2>3. \A k \in 1 .. n : k \in 1 .. n - 1 + 1 /\ 1 + k - 1 = k OBVIOUS
  <2> QED BY <2>2, <2>3
<1>4. /\ SubSeq(t, n + 1, Len(t)) \in Seq(Nat)
      /\ Len(SubSeq(t, n + 1, Len(t))) = Len(t) - n
      /\ \A k \in 1 .. Len(t) - n : SubSeq(t, n + 1, Len(t))[k] = t[n + k]
  <2>1. \A k \in n + 1 .. Len(t) : t[k] \in Nat BY <1>1
  <2>2. n + 1 \in Int /\ Len(t) \in Int BY <1>1
  <2>3. /\ SubSeq(t, n + 1, Len(t)) \in Seq(Nat)
        /\ Len(SubSeq(t, n + 1, Len(t)))
             = IF n + 1 <= Len(t) THEN Len(t) - (n + 1) + 1 ELSE 0
        /\ \A k \in 1 .. Len(t) - (n + 1) + 1 :
             SubSeq(t, n + 1, Len(t))[k] = t[n + 1 + k - 1]
    BY <2>1, <2>2, SubSeqProperties
  <2>4. (IF n + 1 <= Len(t) THEN Len(t) - (n + 1) + 1 ELSE 0) = Len(t) - n
    BY <1>1
  <2>5. \A k \in 1 .. Len(t) - n :
          k \in 1 .. Len(t) - (n + 1) + 1 /\ n + 1 + k - 1 = n + k
    BY <1>1
  <2> QED BY <2>3, <2>4, <2>5
<1> DEFINE v == SubSeq(t, 1, n)
           u == SubSeq(t, n + 1, Len(t))
<1>a. v \in Seq(Nat) /\ Len(v) = n /\ \A k \in 1 .. n : v[k] = t[k] BY <1>3
<1>b. /\ u \in Seq(Nat) /\ Len(u) = Len(t) - n
      /\ \A k \in 1 .. Len(t) - n : u[k] = t[n + k]
  BY <1>4
<1> HIDE DEF u, v
<1>5. \A k \in 1 .. n - 1 : v[k + 1] = v[k] + 1
  <2> SUFFICES ASSUME NEW k \in 1 .. n - 1 PROVE v[k + 1] = v[k] + 1 OBVIOUS
  <2>1. k \in 1 .. n /\ k + 1 \in 1 .. n /\ k \in 1 .. Len(t) - 1 BY <1>1
  <2>2. v[k] = t[k] /\ v[k + 1] = t[k + 1] BY <1>a, <2>1
  <2> QED BY <1>2, <2>1, <2>2
<1>6. \A k \in 1 .. (Len(t) - n) - 1 : u[k + 1] = u[k] + 1
  <2> SUFFICES ASSUME NEW k \in 1 .. (Len(t) - n) - 1
               PROVE  u[k + 1] = u[k] + 1
    OBVIOUS
  <2>1. /\ k \in 1 .. Len(t) - n /\ k + 1 \in 1 .. Len(t) - n
        /\ n + k \in 1 .. Len(t) - 1 /\ n + (k + 1) = (n + k) + 1
    BY <1>1
  <2>2. u[k] = t[n + k] BY <1>b, <2>1
  <2>3. u[k + 1] = t[n + (k + 1)] BY <1>b, <2>1
  <2>4. t[(n + k) + 1] = t[n + k] + 1 BY <1>2, <2>1
  <2> QED BY <2>1, <2>2, <2>3, <2>4
<1>7. Run(v) BY <1>a, <1>5 DEF Run
<1>8. Run(u) BY <1>b, <1>6 DEF Run
<1>9. Run(SubSeq(t, 1, n)) /\ Run(SubSeq(t, n + 1, Len(t)))
  BY <1>7, <1>8 DEF u, v
<1> QED BY <1>3, <1>4, <1>9

\* Two runs joined, the second one going on where the first one ends.
LEMMA RunJoined ==
  ASSUME NEW b \in Seq(Nat), NEW v \in Seq(Nat), Run(b), Run(v), v # <<>>,
         b # <<>> => b[Len(b)] + 1 = v[1]
  PROVE  /\ Run(b \o v) /\ Len(b \o v) = Len(b) + Len(v)
         /\ (b \o v)[1] = IF b = <<>> THEN v[1] ELSE b[1]
         /\ (b \o v)[Len(b) + Len(v)] = v[Len(v)]
<1> DEFINE c == b \o v
<1>1. Len(b) \in Nat /\ Len(v) \in Nat /\ Len(v) # 0 OBVIOUS
<1>2. /\ c \in Seq(Nat) /\ Len(c) = Len(b) + Len(v)
      /\ \A k \in 1 .. Len(b) + Len(v) :
           c[k] = IF k <= Len(b) THEN b[k] ELSE v[k - Len(b)]
  BY ConcatProperties
<1>3. b = <<>> <=> Len(b) = 0 OBVIOUS
<1> HIDE DEF c
<1>4. c[1] = IF b = <<>> THEN v[1] ELSE b[1] BY <1>1, <1>2, <1>3
<1>5. c[Len(b) + Len(v)] = v[Len(v)]
  <2> DEFINE k == Len(b) + Len(v)
  <2>1. k \in 1 .. Len(b) + Len(v) /\ ~(k <= Len(b)) /\ k - Len(b) = Len(v)
    BY <1>1
  <2> HIDE DEF k
  <2>2. c[k] = v[k - Len(b)] BY <1>2, <2>1
  <2> QED BY <2>1, <2>2 DEF k
<1>6. \A k \in 1 .. Len(c) - 1 : c[k + 1] = c[k] + 1
  <2> SUFFICES ASSUME NEW k \in 1 .. Len(b) + Len(v) - 1
               PROVE  c[k + 1] = c[k] + 1
    BY <1>2
  <2>1. k \in 1 .. Len(b) + Len(v) /\ k + 1 \in 1 .. Len(b) + Len(v)
    BY <1>1
  <2>2. CASE k < Len(b)
    <3>1. k \in 1 .. Len(b) - 1 /\ k <= Len(b) /\ k + 1 <= Len(b)
      BY <1>1, <2>2
    <3>2. b[k + 1] = b[k] + 1 BY <3>1 DEF Run
    <3> QED BY <1>2, <2>1, <3>1, <3>2
  <2>3. CASE k = Len(b)
    <3>1. b # <<>> /\ k <= Len(b) /\ ~(k + 1 <= Len(b))
          /\ (k + 1) - Len(b) = 1
      BY <1>1, <1>3, <2>3
    <3>2. c[k] = b[Len(b)] BY <1>2, <2>1, <2>3, <3>1
    <3>3. c[k + 1] = v[1] BY <1>2, <2>1, <3>1
    <3> QED BY <3>1, <3>2, <3>3
  <2>4. CASE k > Len(b)
    <3>1. /\ ~(k <= Len(b)) /\ ~(k + 1 <= Len(b))
          /\ k - Len(b) \in 1 .. Len(v) - 1
          /\ (k + 1) - Len(b) = (k - Len(b)) + 1
      BY <1>1, <2>4
    <3>2. v[(k - Len(b)) + 1] = v[k - Len(b)] + 1 BY <3>1 DEF Run
    <3> QED BY <1>2, <2>1, <3>1, <3>2
  <2> QED BY <1>1, <2>2, <2>3, <2>4
<1>7. Run(c) BY <1>2, <1>6 DEF Run
<1> QED BY <1>2, <1>4, <1>5, <1>7 DEF c

LEMMA SampleFilled == ASSUME SampleInv, Fill PROVE SampleInv'
<1> DEFINE room == wanted - Len(block)
           n    == IF Len(spill) < room THEN Len(spill) ELSE room
           v    == SubSeq(spill, 1, n)
           u    == SubSeq(spill, n + 1, Len(spill))
<1>1. /\ spill \in Seq(Nat) /\ block \in Seq(Nat) /\ packet = <<>>
      /\ Run(spill) /\ Run(block) /\ wanted \in Nat /\ stream \in Nat
      /\ Len(block) <= wanted /\ wanted # 0
      /\ spill # <<>> => spill[Len(spill)] + 1 = stream
      /\ state["MICROPHONE"] = "STREAMING"
  BY DEF SampleInv, Samples, Block, Fill, ReadPlaces, Run
<1>2. /\ n \in Nat /\ n <= Len(spill) /\ n <= room
      /\ n # room => n = Len(spill)
      /\ room \in Nat
  BY <1>1
<1>3. /\ block' = block \o v /\ spill' = u
      /\ pc' = IF n = room THEN "finish" ELSE "audio_wait"
      /\ stream' = stream /\ packet' = packet /\ wanted' = wanted
      /\ follows' = follows /\ state' = state
  BY DEF Fill
<1> HIDE DEF n, room
<1>4. /\ Run(v) /\ Len(v) = n /\ \A k \in 1 .. n : v[k] = spill[k]
      /\ Run(u) /\ Len(u) = Len(spill) - n
      /\ \A k \in 1 .. Len(spill) - n : u[k] = spill[n + k]
  BY <1>1, <1>2, RunCut
<1> HIDE DEF v, u
<1>5. Len(block) \in Nat /\ Len(spill) \in Nat /\ v \in Seq(Nat)
      /\ u \in Seq(Nat)
  BY <1>1, <1>4 DEF Run
<1>6. u # <<>> => u[1] = spill[n + 1] /\ u[Len(u)] = spill[Len(spill)]
  <2> SUFFICES ASSUME u # <<>>
               PROVE  u[1] = spill[n + 1] /\ u[Len(u)] = spill[Len(spill)]
    OBVIOUS
  <2>1. Len(u) # 0 BY <1>5
  <2>2. 1 \in 1 .. Len(spill) - n /\ Len(u) \in 1 .. Len(spill) - n
        /\ n + Len(u) = Len(spill)
    BY <1>2, <1>4, <1>5, <2>1
  <2> QED BY <1>4, <2>2
<1>7. Samples'
  <2>1. u # <<>> => u[Len(u)] + 1 = stream
    <3> SUFFICES ASSUME u # <<>> PROVE u[Len(u)] + 1 = stream OBVIOUS
    <3>1. Len(u) # 0 BY <1>5
    <3>2. spill # <<>> BY <1>2, <1>4, <1>5, <3>1
    <3> QED BY <1>1, <1>6, <3>2
  <2>2. pc' \in {"audio_wait", "audio_next", "copy"} => u = <<>>
    <3> SUFFICES ASSUME n # room PROVE u = <<>> BY <1>3
    <3>1. Len(u) = 0 BY <1>2, <1>4, <1>5
    <3> QED BY <1>5, <3>1
  <2>3. Run(packet') BY <1>3 DEF SampleInv, Samples
  <2> QED BY <1>1, <1>3, <1>4, <2>1, <2>2, <2>3 DEF Samples
<1>8. CASE n = 0
  <2>1. v = <<>> BY <1>4, <1>5, <1>8
  <2>2. block' = block BY <1>1, <1>3, <2>1, ConcatEmptySeq
  <2>3. Upcoming' = Upcoming
    <3>1. CASE spill = <<>>
      <4>1. Len(spill) = 0 BY <3>1
      <4>2. Len(u) = 0 BY <1>2, <1>4, <4>1
      <4>3. u = <<>> BY <1>5, <4>2
      <4> QED BY <1>3, <3>1, <4>3 DEF Upcoming
    <3>2. CASE spill # <<>>
      <4>1. Len(spill) # 0 BY <1>1, <3>2
      <4>2. Len(u) # 0 BY <1>4, <1>5, <1>8, <4>1
      <4>3. u # <<>> BY <4>2
      <4>4. u[1] = spill[1] BY <1>6, <1>8, <4>3
      <4> QED BY <1>3, <3>2, <4>3, <4>4 DEF Upcoming
    <3> QED BY <3>1, <3>2
  <2>4. pc' = "finish" => Len(block) = wanted
    BY <1>1, <1>2, <1>3, <1>5, <1>8 DEF room
  <2>5. pc' \in ReadPlaces BY <1>3 DEF ReadPlaces
  <2>6. Block' BY <1>1, <1>3, <2>2, <2>3, <2>4, <2>5 DEF SampleInv, Block
  <2>7. Promise' BY <1>1, <1>3, <2>2, <2>3 DEF SampleInv, Promise
  <2> QED BY <1>1, <1>3, <1>7, <2>6, <2>7 DEF SampleInv
<1>9. CASE n # 0
  <2>1. Len(spill) # 0 /\ Len(v) # 0 BY <1>2, <1>4, <1>5, <1>9
  <2>2. spill # <<>> /\ v # <<>> BY <2>1
  <2>3. 1 \in 1 .. n /\ n \in 1 .. n BY <1>2, <1>9
  <2>4. v[1] = spill[1] /\ v[Len(v)] = spill[n] BY <1>4, <2>3
  <2>5. Upcoming = spill[1] BY <2>2 DEF Upcoming
  <2>6. block # <<>> => block[Len(block)] + 1 = v[1]
    BY <2>4, <2>5 DEF SampleInv, Block
  <2>7. /\ Run(block \o v) /\ Len(block \o v) = Len(block) + Len(v)
        /\ (block \o v)[1] = IF block = <<>> THEN v[1] ELSE block[1]
        /\ (block \o v)[Len(block) + Len(v)] = v[Len(v)]
    BY <1>1, <1>4, <1>5, <2>2, <2>6, RunJoined
  <2>8. /\ Run(block') /\ Len(block') = Len(block) + n
        /\ block'[1] = IF block = <<>> THEN spill[1] ELSE block[1]
        /\ block'[Len(block')] = spill[n]
    BY <1>3, <1>4, <2>4, <2>7
  <2>9. Upcoming' = spill[n] + 1
    <3>1. CASE u = <<>>
      <4>1. Len(u) = 0 BY <3>1
      <4>2. n = Len(spill) BY <1>2, <1>4, <1>5, <4>1
      <4> QED BY <1>1, <1>3, <2>2, <3>1, <4>2 DEF Upcoming
    <3>2. CASE u # <<>>
      <4>1. Len(u) # 0 BY <1>5, <3>2
      <4>2. n \in 1 .. Len(spill) - 1 BY <1>2, <1>4, <1>5, <1>9, <4>1
      <4>3. spill[n + 1] = spill[n] + 1 BY <1>1, <4>2 DEF Run
      <4> QED BY <1>3, <1>6, <3>2, <4>3 DEF Upcoming
    <3> QED BY <3>1, <3>2
  <2>10. Len(block') # 0 /\ Len(block') <= wanted
         /\ (n = room => Len(block') = wanted)
    BY <1>1, <1>2, <1>5, <1>9, <2>8 DEF room
  <2>11. block' # <<>> BY <2>10
  <2>12. pc' \in ReadPlaces /\ (pc' = "finish" => n = room)
    BY <1>3 DEF ReadPlaces
  <2>13. Block'
    <3>1. wanted' = wanted /\ wanted' \in Nat BY <1>1, <1>3
    <3>2. Run(block') BY <2>8
    <3>3. block'[Len(block')] + 1 = Upcoming' BY <2>8, <2>9
    <3>4. Len(block') <= wanted' BY <2>10, <3>1
    <3>5. pc' = "finish" => Len(block') = wanted'
      BY <2>10, <2>12, <3>1
    <3>6. wanted' # 0 BY <1>1, <3>1
    <3> QED BY <2>12, <3>1, <3>2, <3>3, <3>4, <3>5, <3>6
            DEF Block
  <2>14. Promise'
    BY <1>1, <1>3, <2>5, <2>8, <2>11 DEF SampleInv, Promise
  <2> QED BY <1>1, <1>3, <1>7, <2>13, <2>14 DEF SampleInv
<1> QED BY <1>8, <1>9

LEMMA SamplePacket ==
  ASSUME SampleInv, NEW n \in PacketFrames, NextPacket(n)
  PROVE  SampleInv'
<1>1. n \in Nat \ {0} BY CaptureAssumption
<1>2. stream \in Nat /\ spill = <<>> /\ packet = <<>>
  BY DEF SampleInv, Samples, NextPacket
<1>3. /\ packet' = [k \in 1 .. n |-> stream + k - 1] /\ stream' = stream + n
      /\ pc' = "copy" /\ pc = "audio_next"
      /\ spill' = spill /\ block' = block /\ wanted' = wanted
      /\ follows' = follows /\ state' = state
  BY DEF NextPacket
<1>4. packet' \in Seq(Nat) /\ Len(packet') = n
  <2>1. \A k \in 1 .. n : stream + k - 1 \in Nat BY <1>1, <1>2
  <2> QED BY <1>1, <1>3, <2>1
<1>5. \A k \in 1 .. n : packet'[k] = stream + k - 1 BY <1>3
<1>6. Run(packet')
  <2> SUFFICES ASSUME NEW k \in 1 .. n - 1
               PROVE  packet'[k + 1] = packet'[k] + 1
    BY <1>4 DEF Run
  <2>1. k \in 1 .. n /\ k + 1 \in 1 .. n BY <1>1
  <2>2. packet'[k] = stream + k - 1 /\ packet'[k + 1] = stream + (k + 1) - 1
    BY <1>5, <2>1
  <2> QED BY <1>1, <1>2, <2>2
<1>7. /\ packet' # <<>> /\ packet'[1] = stream
      /\ packet'[Len(packet')] + 1 = stream'
  <2>1. 1 \in 1 .. n /\ n \in 1 .. n BY <1>1
  <2>2. packet'[1] = stream + 1 - 1 /\ packet'[n] = stream + n - 1
    BY <1>5, <2>1
  <2>3. packet' # <<>> BY <1>1, <1>4
  <2> QED BY <1>1, <1>2, <1>3, <1>4, <2>2, <2>3
<1>8. Upcoming' = Upcoming BY <1>2, <1>3, <1>7 DEF Upcoming
<1>9. Samples'
  <2>1. stream' \in Nat BY <1>1, <1>2, <1>3
  <2>2. Run(spill') BY <1>3 DEF SampleInv, Samples
  <2> QED BY <1>2, <1>3, <1>6, <1>7, <2>1, <2>2 DEF Samples
<1>10. Block' BY <1>3, <1>8 DEF SampleInv, Block, ReadPlaces
<1>11. Promise' BY <1>3, <1>8 DEF SampleInv, Promise
<1> QED BY <1>3, <1>9, <1>10, <1>11 DEF SampleInv, ReadPlaces

LEMMA SampleCopied == ASSUME SampleInv, PacketCopied PROVE SampleInv'
<1>1. spill = <<>> BY DEF SampleInv, Samples, PacketCopied
<1>2. /\ spill' = packet /\ packet' = <<>> /\ pc = "copy" /\ pc' = "fill"
      /\ stream' = stream /\ block' = block /\ wanted' = wanted
      /\ follows' = follows /\ state' = state
  BY DEF PacketCopied
<1>3. Upcoming' = Upcoming BY <1>1, <1>2 DEF Upcoming
<1>4. Run(<<>>) BY DEF Run
<1>5. Samples' BY <1>2, <1>4 DEF SampleInv, Samples
<1>6. Block' BY <1>2, <1>3 DEF SampleInv, Block, ReadPlaces
<1>7. Promise' BY <1>2, <1>3 DEF SampleInv, Promise
<1> QED BY <1>2, <1>5, <1>6, <1>7 DEF SampleInv, ReadPlaces

LEMMA SampleReturned == ASSUME SampleInv, ReadReturns PROVE SampleInv'
<1>1. /\ pc = "finish" /\ pc' = "idle" /\ block' = <<>>
      /\ follows' = block[wanted] + 1
      /\ stream' = stream /\ packet' = packet /\ spill' = spill
      /\ wanted' = wanted /\ state' = state
  BY DEF ReadReturns
<1>2. /\ Run(block) /\ Len(block) = wanted /\ wanted \in Nat /\ wanted # 0
      /\ (block # <<>> => block[Len(block)] + 1 = Upcoming)
  BY <1>1 DEF SampleInv, Block, ReadPlaces
<1>3. block # <<>> BY <1>2
<1>4. follows' = Upcoming BY <1>1, <1>2, <1>3
<1>5. Upcoming' = Upcoming BY <1>1 DEF Upcoming
<1>6. follows' \in Nat
  <2>1. wanted \in 1 .. Len(block) BY <1>2
  <2>2. block[wanted] \in Nat BY <1>2, <2>1 DEF Run
  <2> QED BY <1>1, <2>2
<1>7. Samples' BY <1>1 DEF SampleInv, Samples
<1>8. Run(<<>>) BY DEF Run
<1>9. Block' BY <1>1, <1>2, <1>8 DEF Block, ReadPlaces
<1>10. Promise' BY <1>1, <1>4, <1>5, <1>6 DEF Promise
<1> QED BY <1>1, <1>7, <1>9, <1>10 DEF SampleInv, ReadPlaces

\* A microphone call that fails, or recovers and begins again.
LEMMA SampleFails ==
  ASSUME SampleInv,
         AudioTimeout \/ Recover \/ AudioBroken \/ PacketLost \/ ReadTooLate
  PROVE  SampleInv'
<1>1. block' = <<>> /\ wanted' = wanted /\ follows' = 0
  BY DEF AudioTimeout, Recover, BlockAfterRecovery, AudioBroken, PacketLost,
     ReadTooLate, ReadFails
<1>2. /\ state' \in [Device -> {"NONE", "OPEN", "STREAMING", "CLOSED",
                                "BROKEN"}]
      /\ pc \in ReadPlaces /\ pc' # "finish"
      /\ pc' \in ReadPlaces => state'["MICROPHONE"] = "STREAMING"
  BY DEF AudioTimeout, Recover, Asking, AudioBroken, Break, PacketLost,
     ReadTooLate, ReadFails, ReadPlaces, SampleInv
<1>3. Run(<<>>) BY DEF Run
<1>4. Samples'
  <2>1. CASE AudioTimeout \/ ReadTooLate
    BY <2>1 DEF AudioTimeout, ReadTooLate, ReadFails, SampleInv, Samples
  <2>2. CASE Recover
    BY <2>2 DEF Recover, Asking, SampleInv, Samples
  <2>3. CASE AudioBroken
    BY <1>3, <2>3 DEF AudioBroken, Asking, Break, QueuesLost, SampleInv,
       Samples
  <2>4. CASE PacketLost
    BY <1>3, <2>4 DEF PacketLost, ReadFails, SampleInv, Samples
  <2> QED BY <2>1, <2>2, <2>3, <2>4
<1> QED BY <1>1, <1>2, <1>4, SampleGivenUp

\* One step per kind of action: those of a microphone call, and the rest.
LEMMA SampleStep == SampleInv /\ [Next]_vars => SampleInv'
<1> SUFFICES ASSUME SampleInv, [Next]_vars PROVE SampleInv' OBVIOUS
<1>1. CASE UNCHANGED vars
  BY <1>1 DEF SampleInv, Samples, Block, Promise, Upcoming, vars, audioVars
<1>2. ASSUME NEW d \in Device, OpenStart(d) PROVE SampleInv'
  BY <1>2, SampleElsewhere DEF OpenStart, SampleInv, ReadPlaces, audioVars
<1>3. CASE OpenRefused \/ OpenSession \/ ListStart \/ ListEnd
  <2>1. CASE OpenRefused
    <3>1. /\ state' = [state EXCEPT ![device] = "NONE"]
          /\ pc \notin ReadPlaces /\ pc' \notin ReadPlaces
          /\ stream' = stream /\ packet' = packet /\ block' = block
          /\ wanted' = wanted /\ spill' = spill /\ follows' = follows
      BY <2>1 DEF OpenRefused, ReadPlaces, audioVars
    <3>2. /\ state' \in [Device -> {"NONE", "OPEN", "STREAMING", "CLOSED",
                                    "BROKEN"}]
          /\ state'["MICROPHONE"] = "STREAMING"
               => state["MICROPHONE"] = "STREAMING"
      BY <3>1 DEF SampleInv, Device
    <3> QED BY <3>1, <3>2, SampleElsewhere
  <2>2. CASE OpenSession \/ ListStart \/ ListEnd
    BY <2>2, SampleElsewhere DEF OpenSession, ListStart, ListEnd, SampleInv,
       ReadPlaces, audioVars
  <2> QED BY <1>3, <2>1, <2>2
<1>4. CASE OpenAccepted
  <2>1. /\ state' = [state EXCEPT ![device] = "STREAMING"]
        /\ pc \notin ReadPlaces /\ pc' \notin ReadPlaces
        /\ stream' = stream /\ packet' = packet /\ block' = block
        /\ wanted' = wanted /\ spill' = spill
        /\ follows' = IF device = "MICROPHONE" THEN 0 ELSE follows
    BY <1>4 DEF OpenAccepted, ReadPlaces
  <2>2. state' \in [Device -> {"NONE", "OPEN", "STREAMING", "CLOSED",
                               "BROKEN"}]
    BY <2>1 DEF SampleInv
  <2>3. device # "MICROPHONE" => state'["MICROPHONE"] = state["MICROPHONE"]
    BY <2>1 DEF SampleInv, Device
  <2> QED BY <2>1, <2>2, <2>3, SampleElsewhere
<1>5. CASE OpenRejected
  BY <1>5, SampleElsewhere DEF OpenRejected, QueuesLost, SampleInv,
     ReadPlaces, Device
<1>6. ASSUME NEW d \in Device, NEW after \in {"CLOSED", "NONE"}, Close(d, after)
      PROVE  SampleInv'
  BY <1>6, SampleElsewhere DEF Close, QueuesLost, SampleInv, ReadPlaces,
     Device
<1>7. CASE CameraBroken \/ DrainBroken \/ FrameInvalid
  <2>1. /\ state' = [state EXCEPT !["CAMERA"] = "BROKEN"]
        /\ pc \notin ReadPlaces /\ pc' \notin ReadPlaces
        /\ stream' = stream /\ packet' = packet /\ block' = block
        /\ wanted' = wanted /\ spill' = spill /\ follows' = follows
    BY <1>7 DEF CameraBroken, DrainBroken, FrameInvalid, Break, QueuesLost,
       ReadPlaces
  <2>2. state' \in [Device -> {"NONE", "OPEN", "STREAMING", "CLOSED",
                               "BROKEN"}]
    BY <2>1 DEF SampleInv
  <2>3. state'["MICROPHONE"] = state["MICROPHONE"]
    BY <2>1 DEF SampleInv, Device
  <2> QED BY <2>1, <2>2, <2>3, SampleElsewhere
<1>8. CASE AudioTimeout \/ Recover \/ AudioBroken \/ PacketLost \/ ReadTooLate
  BY <1>8, SampleFails
<1>9. ASSUME NEW w \in BOOLEAN, Frame(w) PROVE SampleInv'
  BY <1>9, SampleElsewhere DEF Frame, Begin, SampleInv, ReadPlaces, audioVars
<1>10. CASE CameraTimeout \/ CameraReady \/ DrainEmpty \/ DrainNext
              \/ DrainDone \/ FrameEnd
  BY <1>10, SampleElsewhere DEF CameraTimeout, CameraReady, DrainEmpty,
     DrainNext, DrainDone, FrameEnd, SampleInv, ReadPlaces, audioVars
<1>11. CASE FrameArrives \/ ClockPasses
  BY <1>11 DEF FrameArrives, ClockPasses, SampleInv, Samples, Block, Promise,
     Upcoming, audioVars
<1>12. ASSUME NEW w \in BOOLEAN, NEW n \in 1 .. MaxSamples, Read(n, w)
       PROVE  SampleInv'
  <2>1. /\ state["MICROPHONE"] = "STREAMING" /\ pc = "idle" /\ pc' = "fill"
        /\ state' = state /\ stream' = stream /\ packet' = packet
        /\ spill' = spill /\ follows' = follows
        /\ block' = <<>> /\ wanted' = n
    BY <1>12 DEF Read, Begin
  <2>2. n \in Nat /\ n # 0 BY CaptureAssumption
  <2>3. block = <<>> BY <2>1 DEF SampleInv, Block, ReadPlaces
  <2>4. Run(<<>>) /\ Len(<<>>) = 0 BY DEF Run
  <2>5. Samples' BY <2>1 DEF SampleInv, Samples
  <2>6. Block' BY <2>1, <2>2, <2>4 DEF Block, ReadPlaces
  <2>7. Promise' BY <2>1, <2>3 DEF SampleInv, Promise, Upcoming
  <2> QED BY <2>1, <2>5, <2>6, <2>7 DEF SampleInv, ReadPlaces
<1>13. CASE Fill BY <1>13, SampleFilled
<1>14. CASE AudioReady \/ NextEmpty
  BY <1>14, SampleWaits DEF AudioReady, NextEmpty, SampleInv, Samples,
     ReadPlaces, sysVars, callVars, cameraVars, audioVars
<1>15. ASSUME NEW n \in PacketFrames, NextPacket(n) PROVE SampleInv'
  BY <1>15, SamplePacket
<1>16. CASE PacketCopied BY <1>16, SampleCopied
<1>17. CASE ReadReturns BY <1>17, SampleReturned
<1> QED BY <1>1, <1>2, <1>3, <1>4, <1>5, <1>6, <1>7, <1>8, <1>9, <1>10,
        <1>11, <1>12, <1>13, <1>14, <1>15, <1>16, <1>17
        DEF Next, CallStep

\* For any constants: the samples of a block follow each other without a gap,
\* and the block follows the one before it, unless a read failed or recovered
\* since.
THEOREM BlocksAreContiguous == Spec => []BlockContiguous
<1>1. SampleInv => BlockContiguous
  BY DEF SampleInv, Block, Promise, Run, BlockContiguous
<1> QED BY SampleInit, SampleStep, <1>1, PTL DEF Spec
=============================================================================
