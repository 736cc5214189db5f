------------------------------ MODULE CapturePull ------------------------------
(***************************************************************************)
(* Camera and microphone of moo (moo_capture.c over moo_capture_pull.c):   *)
(* one program thread, at most one handle of each kind, and a table of     *)
(* system calls, any of which may fail, time out or ask for a recovery.    *)
(* The system lends its data in packets that must each be given back once. *)
(*                                                                         *)
(* A step is what happens between two system calls.  Frames and samples    *)
(* are numbers in the order the device produced them, so that a jump in    *)
(* the numbers is a gap in the recording; pixels, rates and channels are   *)
(* left out.  Refused arguments and calls on a handle that does not stream *)
(* change nothing and are left out too.                                    *)
(***************************************************************************)
EXTENDS Integers, Sequences, FiniteSets

CONSTANTS
  QueueBound,     (* queue_bound of the camera session                     *)
  MaxRecoveries,  (* MOO_PULL_CAPTURE_MAX_RECOVERIES                       *)
  PacketFrames,   (* how many samples an audio packet may have             *)
  MaxSamples,     (* largest n_samples of a read                           *)
  MaxFrame,       (* last frame of the camera: bounds the runs             *)
  MaxSample       (* last sample of the microphone: bounds the runs        *)

ASSUME CaptureAssumption ==
  /\ {QueueBound, MaxSamples, MaxFrame, MaxSample} \subseteq Nat \ {0}
  /\ PacketFrames \subseteq Nat \ {0}
  /\ MaxRecoveries \in Nat

VARIABLES
  state,        (* the state of each handle, NONE when there is none       *)
  session,      (* the devices with a backend and an open session          *)
  started,      (* startup() calls without their shutdown()                *)
  outstanding,  (* packets lent by the system and not released             *)
  pc,           (* where the program is                                    *)
  device,       (* the device it is opening                                *)
  waits,        (* timeout_ms > 0                                          *)
  late,         (* the deadline has passed                                 *)
  ready,        (* the frames that wait in the system, oldest first        *)
  newest,       (* the last frame the camera produced                      *)
  taken,        (* the loop counter of moo_capture_camera_frame_native     *)
  latest,       (* its packet: a frame, or 0 for none (have = false)       *)
  goal,         (* history: the newest frame that was ready before it      *)
  stream,       (* the sample the microphone will produce next             *)
  packet,       (* the packet p of moo_capture_microphone_read_native      *)
  spill,        (* the samples in n->spill from spill_pos on               *)
  block,        (* the first filled samples of t->data                     *)
  wanted,       (* samples                                                 *)
  recoveries,   (* recoveries                                              *)
  first,        (* first                                                   *)
  follows       (* history: the sample after the last one returned, or 0   *)
                (* when samples were given up since                        *)

sysVars    == <<session, started, outstanding>>
cameraVars == <<ready, newest, taken, latest, goal>>
audioVars  == <<stream, packet, spill, block, wanted, recoveries, first,
                follows>>
callVars   == <<device, waits, late>>
vars       == <<state, sysVars, pc, callVars, cameraVars, audioVars>>

Device == {"CAMERA", "MICROPHONE"}

Init ==
  /\ state = [d \in Device |-> "NONE"]
  /\ session = {}
  /\ started = 0
  /\ outstanding = 0
  /\ pc = "idle"
  /\ device = "CAMERA"
  /\ waits = FALSE /\ late = FALSE
  /\ ready = <<>> /\ newest = 0
  /\ taken = 0 /\ latest = 0 /\ goal = 0
  /\ stream = 1
  /\ packet = <<>> /\ spill = <<>> /\ block = <<>>
  /\ wanted = 0 /\ recoveries = 0 /\ first = FALSE
  /\ follows = 0

-----------------------------------------------------------------------------
(* Backends.                                                               *)

\* Seeded fault: the session is closed, the system is not shut down.
BackendsClosedOnly(D) ==
  /\ session' = session \ D
  /\ UNCHANGED started

\* moo_capture_camera_close_native, moo_capture_microphone_close_native for
\* the devices D: nothing happens where there is no backend.
BackendsClosed(D) ==
  /\ session' = session \ D
  /\ started' = started - Cardinality(session \cap D)

\* What waits in the system and in the backend of device d goes with it.
QueuesLost(d) ==
  /\ ready' = IF d = "CAMERA" THEN <<>> ELSE ready
  /\ spill' = IF d = "MICROPHONE" THEN <<>> ELSE spill

\* The handle becomes BROKEN and the call fails.
Break(d) ==
  /\ state' = [state EXCEPT ![d] = "BROKEN"]
  /\ BackendsClosed({d})
  /\ QueuesLost(d)
  /\ pc' = "idle"

\* moo_kamera_oeffnen, moo_mikro_oeffnen: the system is started.
OpenStart(d) ==
  /\ pc = "idle"
  /\ state[d] = "NONE"
  /\ state' = [state EXCEPT ![d] = "OPEN"]
  /\ started' = started + 1
  /\ device' = d
  /\ pc' = "opening"
  /\ UNCHANGED <<session, outstanding, waits, late, cameraVars, audioVars>>

\* No memory, or the system opens no session.
OpenRefused ==
  /\ pc = "opening"
  /\ state' = [state EXCEPT ![device] = "NONE"]
  /\ started' = started - 1
  /\ pc' = "idle"
  /\ UNCHANGED <<session, outstanding, callVars, cameraVars, audioVars>>

OpenSession ==
  /\ pc = "opening"
  /\ session' = session \cup {device}
  /\ pc' = "negotiated"
  /\ UNCHANGED <<state, started, outstanding, callVars, cameraVars, audioVars>>

OpenAccepted ==
  /\ pc = "negotiated"
  /\ state' = [state EXCEPT ![device] = "STREAMING"]
  /\ follows' = IF device = "MICROPHONE" THEN 0 ELSE follows
  /\ pc' = "idle"
  /\ UNCHANGED <<sysVars, callVars, cameraVars, stream, packet, spill, block,
                 wanted, recoveries, first>>

\* The session is not the one asked for, or makes no sense.
OpenRejected ==
  /\ pc = "negotiated"
  /\ state' = [state EXCEPT ![device] = "NONE"]
  /\ BackendsClosed({device})
  /\ QueuesLost(device)
  /\ pc' = "idle"
  /\ UNCHANGED <<outstanding, callVars, newest, taken, latest, goal, stream,
                 packet, block, wanted, recoveries, first, follows>>

\* moo_kamera_schliessen, moo_mikro_schliessen; and moo_kamera_free,
\* moo_mikro_free, after which there is no handle.
Close(d, after) ==
  /\ pc = "idle"
  /\ state[d] \notin {"NONE", after}
  /\ state' = [state EXCEPT ![d] = after]
  /\ BackendsClosed({d})
  /\ QueuesLost(d)
  /\ UNCHANGED <<outstanding, pc, callVars, newest, taken, latest, goal,
                 stream, packet, block, wanted, recoveries, first, follows>>

\* moo_kamera_liste, from startup() to shutdown()
ListStart ==
  /\ pc = "idle"
  /\ started' = started + 1
  /\ pc' = "listing"
  /\ UNCHANGED <<state, session, outstanding, callVars, cameraVars, audioVars>>

ListEnd ==
  /\ pc = "listing"
  /\ started' = started - 1
  /\ pc' = "idle"
  /\ UNCHANGED <<state, session, outstanding, callVars, cameraVars, audioVars>>

-----------------------------------------------------------------------------
(* moo_kamera_frame.                                                       *)

\* A call with a deadline, or one that must not wait.
Begin(d, w, at) ==
  /\ pc = "idle"
  /\ state[d] = "STREAMING"
  /\ waits' = w
  /\ late' = FALSE
  /\ pc' = at

Frame(w) ==
  /\ Begin("CAMERA", w, "camera_wait")
  /\ UNCHANGED <<state, sysVars, device, cameraVars, audioVars>>

CameraTimeout ==
  /\ pc = "camera_wait"
  /\ pc' = "idle"
  /\ UNCHANGED <<state, sysVars, callVars, cameraVars, audioVars>>

CameraBroken ==
  /\ pc = "camera_wait"
  /\ Break("CAMERA")
  /\ UNCHANGED <<outstanding, callVars, newest, taken, latest, goal, stream,
                 packet, block, wanted, recoveries, first, follows>>

CameraReady ==
  /\ pc = "camera_wait"
  /\ taken' = 0
  /\ latest' = 0
  /\ goal' = IF ready = <<>> THEN 0 ELSE ready[Len(ready)]
  /\ pc' = "drain"
  /\ UNCHANGED <<state, sysVars, callVars, ready, newest, audioVars>>

Have == IF latest = 0 THEN 0 ELSE 1

\* Seeded fault: the frame that a newer one replaces is not released.
SupersededKept == 0

\* How many packets the next one makes free.
Superseded == Have

\* Seeded fault: the first frame will do.
DrainOne == taken >= 1

DrainFull == taken = QueueBound

DrainEmpty ==
  /\ pc = "drain"
  /\ ready = <<>> /\ ~DrainFull
  /\ pc' = IF latest = 0 THEN "idle" ELSE "convert"
  /\ UNCHANGED <<state, sysVars, callVars, cameraVars, audioVars>>

DrainNext ==
  /\ pc = "drain"
  /\ ready # <<>> /\ ~DrainFull
  /\ outstanding' = outstanding + 1 - Superseded
  /\ latest' = Head(ready)
  /\ ready' = Tail(ready)
  /\ taken' = taken + 1
  /\ UNCHANGED <<state, session, started, pc, callVars, newest, goal,
                 audioVars>>

DrainDone ==
  /\ pc = "drain"
  /\ DrainFull
  /\ pc' = "convert"
  /\ UNCHANGED <<state, sysVars, callVars, cameraVars, audioVars>>

DrainBroken ==
  /\ pc = "drain"
  /\ ~DrainFull
  /\ outstanding' = outstanding - Have
  /\ latest' = 0
  /\ Break("CAMERA")
  /\ UNCHANGED <<callVars, newest, taken, goal, stream, packet, block, wanted,
                 recoveries, first, follows>>

\* The frame is copied, or there is no memory or no time left to return it.
FrameEnd ==
  /\ pc = "convert"
  /\ outstanding' = outstanding - 1
  /\ latest' = 0
  /\ pc' = "idle"
  /\ UNCHANGED <<state, session, started, callVars, ready, newest, taken, goal,
                 audioVars>>

\* The packet has another size than the camera.
FrameInvalid ==
  /\ pc = "convert"
  /\ outstanding' = outstanding - 1
  /\ latest' = 0
  /\ Break("CAMERA")
  /\ UNCHANGED <<callVars, newest, taken, goal, stream, packet, block, wanted,
                 recoveries, first, follows>>

\* The device produces a frame; a full queue drops the oldest.
FrameArrives ==
  /\ "CAMERA" \in session
  /\ newest < MaxFrame
  /\ newest' = newest + 1
  /\ ready' = Append(IF Len(ready) = QueueBound THEN Tail(ready) ELSE ready,
                     newest + 1)
  /\ UNCHANGED <<state, sysVars, pc, callVars, taken, latest, goal, audioVars>>

-----------------------------------------------------------------------------
(* moo_mikro_lesen.                                                        *)

Read(n, w) ==
  /\ Begin("MICROPHONE", w, "fill")
  /\ block' = <<>>
  /\ wanted' = n
  /\ recoveries' = 0
  /\ first' = TRUE
  /\ UNCHANGED <<state, sysVars, device, cameraVars, stream, packet, spill,
                 follows>>

\* Samples come from the spill buffer first.
Fill ==
  LET room == wanted - Len(block)
      n    == IF Len(spill) < room THEN Len(spill) ELSE room
  IN
  /\ pc = "fill"
  /\ block' = block \o SubSeq(spill, 1, n)
  /\ spill' = SubSeq(spill, n + 1, Len(spill))
  /\ pc' = IF n = room THEN "finish" ELSE "audio_wait"
  /\ UNCHANGED <<state, sysVars, callVars, cameraVars, stream, packet, wanted,
                 recoveries, first, follows>>

\* Seeded fault: the deadline is held against the wait only.
NeverExpired == FALSE

\* remaining_ms is 0; it is not asked before the first wait.
Expired == waits /\ late /\ ~first

\* The system is asked to wait, or for the next packet.
Asking == pc \in {"audio_wait", "audio_next"} /\ ~(pc = "audio_wait" /\ Expired)

\* The call fails and what it collected is lost.
ReadFails ==
  /\ pc' = "idle"
  /\ block' = <<>>
  /\ follows' = 0

AudioTimeout ==
  /\ pc = "audio_wait"
  /\ ReadFails
  /\ UNCHANGED <<state, sysVars, callVars, cameraVars, stream, packet, spill,
                 wanted, recoveries, first>>

AudioReady ==
  /\ pc = "audio_wait"
  /\ ~Expired
  /\ first' = FALSE
  /\ pc' = "audio_next"
  /\ UNCHANGED <<state, sysVars, callVars, cameraVars, stream, packet, spill,
                 block, wanted, recoveries, follows>>

\* Seeded fault: what was read before the recovery is kept.
BlockKept == block

BlockAfterRecovery == <<>>

\* The wait or the next packet asks for a recovery, and it succeeds.  Samples
\* may have been lost.
Recover ==
  /\ Asking
  /\ recoveries < MaxRecoveries
  /\ recoveries' = recoveries + 1
  /\ stream < MaxSample
  /\ stream' = stream + 1
  /\ block' = BlockAfterRecovery
  /\ follows' = 0
  /\ first' = FALSE
  /\ pc' = "fill"
  /\ UNCHANGED <<state, sysVars, callVars, cameraVars, packet, spill, wanted>>

\* The system fails, a recovery fails or the budget is used up, or the packet
\* makes no sense and is given back.
AudioBroken ==
  /\ Asking
  /\ Break("MICROPHONE")
  /\ block' = <<>>
  /\ follows' = 0
  /\ UNCHANGED <<outstanding, callVars, newest, taken, latest, goal, stream,
                 packet, wanted, recoveries, first>>

NextEmpty ==
  /\ pc = "audio_next"
  /\ pc' = "fill"
  /\ UNCHANGED <<state, sysVars, callVars, cameraVars, audioVars>>

\* The system lends the next n samples.
NextPacket(n) ==
  /\ pc = "audio_next"
  /\ stream + n - 1 <= MaxSample
  /\ packet' = [k \in 1 .. n |-> stream + k - 1]
  /\ stream' = stream + n
  /\ outstanding' = outstanding + 1
  /\ pc' = "copy"
  /\ UNCHANGED <<state, session, started, callVars, cameraVars, spill, block,
                 wanted, recoveries, first, follows>>

PacketCopied ==
  /\ pc = "copy"
  /\ spill' = packet
  /\ packet' = <<>>
  /\ outstanding' = outstanding - 1
  /\ pc' = "fill"
  /\ UNCHANGED <<state, session, started, callVars, cameraVars, stream, block,
                 wanted, recoveries, first, follows>>

\* No memory for the spill buffer.
PacketLost ==
  /\ pc = "copy"
  /\ packet' = <<>>
  /\ outstanding' = outstanding - 1
  /\ ReadFails
  /\ UNCHANGED <<state, session, started, callVars, cameraVars, stream, spill,
                 wanted, recoveries, first>>

ReadReturns ==
  /\ pc = "finish"
  /\ ~(waits /\ late)
  /\ pc' = "idle"
  /\ follows' = block[wanted] + 1
  /\ block' = <<>>
  /\ UNCHANGED <<state, sysVars, callVars, cameraVars, stream, packet, spill,
                 wanted, recoveries, first>>

\* The block is complete but the deadline has passed.
ReadTooLate ==
  /\ pc = "finish"
  /\ waits /\ late
  /\ ReadFails
  /\ UNCHANGED <<state, sysVars, callVars, cameraVars, stream, packet, spill,
                 wanted, recoveries, first>>

-----------------------------------------------------------------------------
ClockPasses ==
  /\ pc # "idle"
  /\ waits /\ ~late
  /\ late' = TRUE
  /\ UNCHANGED <<state, sysVars, pc, device, waits, cameraVars, audioVars>>

\* The program goes on inside the call it is in.
CallStep ==
  \/ OpenRefused \/ OpenSession \/ OpenAccepted \/ OpenRejected
  \/ ListEnd
  \/ CameraTimeout \/ CameraBroken \/ CameraReady
  \/ DrainEmpty \/ DrainNext \/ DrainDone \/ DrainBroken
  \/ FrameEnd \/ FrameInvalid
  \/ Fill
  \/ AudioTimeout \/ AudioReady \/ AudioBroken
  \/ Recover
  \/ NextEmpty \/ \E n \in PacketFrames : NextPacket(n)
  \/ PacketCopied \/ PacketLost
  \/ ReadReturns \/ ReadTooLate

Next ==
  \/ CallStep
  \/ ClockPasses
  \/ FrameArrives
  \/ ListStart
  \/ \E d \in Device :
       \/ OpenStart(d)
       \/ \E after \in {"CLOSED", "NONE"} : Close(d, after)
  \/ \E w \in BOOLEAN : Frame(w) \/ \E n \in 1 .. MaxSamples : Read(n, w)

Spec == Init /\ [][Next]_vars

\* System calls return, and time goes on.
FairSpec == Spec /\ WF_vars(CallStep) /\ WF_vars(ClockPasses)

-----------------------------------------------------------------------------
(* Properties.                                                             *)

\* "Every frame or audio buffer that was delivered must be given back exactly
\* once" (moo_capture_pull_internal.h:42): on every path, the failing ones
\* included, the packets not yet given back are those the call still uses.
PacketsReturned ==
  outstanding = Have + (IF pc = "copy" THEN 1 ELSE 0)

\* startup() and shutdown() balance, and a session is open exactly as long as
\* its handle streams: through refused and rejected opens, breakdowns in the
\* middle of a call, closing twice and freeing.
SystemBalanced ==
  /\ started = Cardinality(session)
                 + (IF pc \in {"opening", "listing"} THEN 1 ELSE 0)
  /\ \A d \in Device :
       d \in session <=> \/ state[d] = "STREAMING"
                         \/ (pc = "negotiated" /\ d = device)

\* A camera call returns no frame older than the newest one that was ready
\* when it began to drain the queue, whatever arrives meanwhile.
NewestFrame == pc = "convert" => latest >= goal

\* The samples of a block follow each other without a gap: none comes from
\* before a recovery.  And the block follows the one before it without a gap,
\* the rest of a packet included, unless a read failed or recovered since.
BlockContiguous ==
  /\ \A k \in 1 .. Len(block) - 1 : block[k + 1] = block[k] + 1
  /\ follows # 0 /\ block # <<>> => Head(block) = follows

Reading == pc \in {"fill", "audio_wait", "audio_next", "copy", "finish"}

\* A read with a timeout ends, also when the system keeps announcing data
\* that is not there or keeps asking for recoveries.
ReadEnds == Reading /\ waits ~> ~Reading
=============================================================================
