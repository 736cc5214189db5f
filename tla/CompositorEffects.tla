-------------------------- MODULE CompositorEffects --------------------------
(***************************************************************************)
(* Retained effects and animations on top of moo's compositor: the *_ex    *)
(* calls of moo_compositor_core.c and the timeline they drive              *)
(* (moo_compositor_animation.c).                                           *)
(*                                                                         *)
(* Four tables must agree: the bindings of the surfaces, the running       *)
(* animations (timeline), the completion reservations, and the event slots *)
(* held back for them.  Every entry point checks that they do and refuses  *)
(* to work for ever after when they do not.                                *)
(*                                                                         *)
(* An action is a call that returns MOO_COMP_OK.  Values and times of an   *)
(* animation are abstracted: which animations a frame ends is a choice,    *)
(* and of an effect state only which animated properties it enables.       *)
(* Buffers are those of CompositorCore; here a commit may or may not queue *)
(* a BUFFER_RELEASE.  Clients start connected and do not come back.        *)
(***************************************************************************)
EXTENDS Integers, Sequences, FiniteSets

CONSTANTS
  Client,            (* client handles                                     *)
  SurfaceCapacity,   (* surface slots, and bindings                        *)
  FrameCapacity,     (* frame slots                                        *)
  EventCapacity,     (* event slots; also reservation slots                *)
  TimelineCapacity,  (* animation slots                                    *)
  MaxPerSurface,     (* limits.max_animations_per_surface                  *)
  MaxPerClient,      (* limits.max_animations_per_client                   *)
  MaxGeneration,     (* stands for UINT32_MAX                              *)
  MaxCommit,         (* stands for UINT64_MAX, the last commit_sequence    *)
  Property,          (* animated properties                                *)
  Optional,          (* those an effect state must enable; not opacity     *)
  EffectToken,       (* the tokens clients give to animations              *)
  FrameToken,        (* the tokens clients give to frames                  *)
  NoToken, NoClient

ASSUME EffectCapacityAssumption ==
  /\ IsFiniteSet(Client) /\ Client # {} /\ NoClient \notin Client
  /\ SurfaceCapacity \in Nat \ {0}
  /\ FrameCapacity \in Nat /\ FrameCapacity >= Cardinality(Client)
  /\ EventCapacity \in Nat /\ EventCapacity >= Cardinality(Client)
  /\ TimelineCapacity \in Nat \ {0} /\ TimelineCapacity <= MaxPerClient
  /\ MaxPerSurface \in Nat \ {0} /\ MaxPerClient \in Nat
  /\ MaxGeneration \in Nat \ {0} /\ MaxCommit \in Nat
  /\ Property # {} /\ Optional \subseteq Property
  /\ NoToken \notin EffectToken \cup FrameToken

VARIABLES
  live,          (* the connected clients                                  *)
  surfaces,      (* core->surfaces                                         *)
  frames,        (* core->frames                                           *)
  events,        (* core->events                                           *)
  queue,         (* for each client its live event slots, by sequence      *)
  commit_sequence,  (* core->commit_sequence                               *)
  in_flight,     (* core->in_flight_frame # 0                              *)
  bound,         (* core->effect_integration # NULL                        *)
  bindings,      (* integration->bindings                                  *)
  timeline,      (* integration->timeline->slots                           *)
  reservations   (* integration->reservations                              *)

coreVars   == <<live, surfaces, frames, events, queue, commit_sequence,
                in_flight>>
effectVars == <<bound, bindings, timeline, reservations>>
vars       == <<coreVars, effectVars>>

SurfaceSlot     == 1 .. SurfaceCapacity
FrameSlot       == 1 .. FrameCapacity
EventSlot       == 1 .. EventCapacity
TimelineSlot    == 1 .. TimelineCapacity
ReservationSlot == 1 .. EventCapacity
Generation      == 1 .. MaxGeneration
SurfaceHandle   == SurfaceSlot \X Generation
NoHandle        == <<0, 0>>
Token           == EffectToken \cup FrameToken

NextGeneration(g) == IF g = MaxGeneration THEN 0 ELSE g + 1

Lowest(S) == CHOOSE i \in S : \A j \in S : i <= j

\* The elements of a set of slots, in slot order.
InSlotOrder(S) ==
  [k \in 1 .. Cardinality(S) |->
     CHOOSE i \in S : Cardinality({j \in S : j <= i}) = k]

\* q names the elements of A, each of them once.
Enumerates(q, A) ==
  /\ q \in Seq(A)
  /\ \A m, n \in DOMAIN q : q[m] = q[n] => m = n
  /\ \A a \in A : \E n \in DOMAIN q : q[n] = a

-----------------------------------------------------------------------------
(* Slot contents.                                                          *)

\* mapped: a buffer is committed
DeadSurface(g) ==
  [live |-> FALSE, generation |-> g, owner |-> NoClient, mapped |-> FALSE,
   frame_token |-> NoToken]

FreeFrame ==
  [state |-> "FREE", owner |-> NoClient, surface |-> NoHandle,
   token |-> NoToken]

\* reserved_slot links a held-back event slot to its reservation.
FreeEvent ==
  [state |-> "FREE", owner |-> NoClient, reserved_slot |-> 0,
   type |-> "NONE", token |-> NoToken]

ReservedEvent(c, r) ==
  [state |-> "RESERVED", owner |-> c, reserved_slot |-> r,
   type |-> "NONE", token |-> NoToken]

LiveEvent(c, type, t) ==
  [state |-> "LIVE", owner |-> c, reserved_slot |-> 0, type |-> type,
   token |-> t]

\* effect is evaluated.enabled_mask, pending that of pending_effect.
Unbound ==
  [active |-> FALSE, surface |-> NoHandle, owner |-> NoClient,
   dirty |-> FALSE, pending |-> {}, effect |-> {},
   reserved_completion_events |-> 0]

NoAnimation ==
  [active |-> FALSE, surface |-> NoHandle, token |-> NoToken,
   property |-> CHOOSE p \in Property : TRUE]

FreeReservation ==
  [state |-> "FREE", event |-> 0, owner |-> NoClient, surface |-> NoHandle,
   token |-> NoToken]

Handle(i)           == <<i, surfaces[i].generation>>
SurfaceOk(s)        == surfaces[s[1]].live /\ surfaces[s[1]].generation = s[2]
OwnedSurface(c, s)  == /\ c \in live /\ SurfaceOk(s)
                       /\ surfaces[s[1]].owner = c
SurfacesOf(c)       == {i \in SurfaceSlot : surfaces[i].live
                                            /\ surfaces[i].owner = c}

\* effect_bound of a surface slot: set by the binding, gone with it.
EffectBound(i) == bound /\ bindings[i].active

-----------------------------------------------------------------------------
(* Quotas: as in CompositorCore, but a reserved event slot is an owned one.*)

EventQuota == EventCapacity \div Cardinality(Client)
FrameQuota == FrameCapacity \div Cardinality(Client)

EventsOwned(c) == Cardinality({i \in EventSlot : /\ events[i].state # "FREE"
                                                 /\ events[i].owner = c})
FrameSlotsOf(c) == {i \in FrameSlot : /\ frames[i].state # "FREE"
                                      /\ frames[i].owner = c}
PendingTokensOf(S, c) == {i \in SurfaceSlot : /\ S[i].live /\ S[i].owner = c
                                              /\ S[i].frame_token # NoToken}

FramesOwned(S, c) ==
  Cardinality(FrameSlotsOf(c)) + Cardinality(PendingTokensOf(S, c))

\* moo_comp_event_reservation_available on the surface slots S
EventReservationAvailable(S, c) ==
  EventsOwned(c) + FramesOwned(S, c) < EventQuota

FreeEvents == {i \in EventSlot : events[i].state = "FREE"}
FreeFrames == {i \in FrameSlot : frames[i].state = "FREE"}

Reserved == {r \in ReservationSlot : reservations[r].state = "RESERVED"}

\* A frame token is free: no pending request, frame or undelivered event of
\* the client names it, and no running animation either.
TokenAvailable(c, t) ==
  /\ \A i \in SurfacesOf(c) : surfaces[i].frame_token # t
  /\ \A i \in FrameSlotsOf(c) : frames[i].token # t
  /\ \A i \in EventSlot : ~ /\ events[i].state = "LIVE"
                            /\ events[i].owner = c
                            /\ events[i].type = "FRAME_DONE"
                            /\ events[i].token = t
  /\ \A r \in Reserved : ~ /\ reservations[r].owner = c
                           /\ reservations[r].token = t

-----------------------------------------------------------------------------
(* Agreement of the tables.                                                *)

Running == {k \in TimelineSlot : timeline[k].active}

ReservationsFor(R, s, t) ==
  {r \in ReservationSlot : /\ R[r].state = "RESERVED"
                           /\ R[r].surface = s /\ R[r].token = t}

\* Every running animation belongs to a bound surface and has one reservation.
AnimationsReserved ==
  \A k \in Running :
    LET s == timeline[k].surface
        b == bindings[s[1]]
        R == ReservationsFor(reservations, s, timeline[k].token)
    IN  /\ SurfaceOk(s)
        /\ b.active /\ b.surface = s /\ b.owner = surfaces[s[1]].owner
        /\ Cardinality({r \in R : reservations[r].owner = b.owner}) = 1

\* Every reservation is for one running animation and holds back an event
\* slot that points back at it.
ReservationsHeld ==
  \A r \in Reserved :
    LET res == reservations[r]
        e   == events[res.event]
    IN  /\ SurfaceOk(res.surface)
        /\ surfaces[res.surface[1]].owner = res.owner
        /\ bindings[res.surface[1]].active
        /\ bindings[res.surface[1]].surface = res.surface
        /\ Cardinality({k \in Running : /\ timeline[k].surface = res.surface
                                        /\ timeline[k].token = res.token}) = 1
        /\ e.state = "RESERVED" /\ e.owner = res.owner
        /\ e.reserved_slot = r

\* No two reservations share an event slot, or the owner and the token.
ReservationsDistinct ==
  \A q, r \in Reserved : q # r =>
    /\ reservations[q].event # reservations[r].event
    /\ <<reservations[q].owner, reservations[q].token>>
         # <<reservations[r].owner, reservations[r].token>>

\* Every held-back event slot has one reservation.
EventsReserved ==
  \A i \in EventSlot : events[i].state = "RESERVED" =>
    Cardinality({r \in Reserved : reservations[r].event = i}) = 1

\* A binding names the surface in its slot and counts its reservations.
BindingsCount ==
  \A i \in SurfaceSlot :
    /\ bindings[i].active =>
         /\ surfaces[i].live /\ bindings[i].surface = Handle(i)
         /\ bindings[i].owner = surfaces[i].owner
    /\ bindings[i].reserved_completion_events =
         Cardinality({r \in Reserved :
                        /\ reservations[r].surface = bindings[i].surface
                        /\ reservations[r].owner = bindings[i].owner})

\* moo_comp_core_valid and moo_i1_integration_valid: asked by every call of
\* the effect protocol, see EffectStep.
IntegrationValid ==
  /\ AnimationsReserved
  /\ ReservationsHeld
  /\ ReservationsDistinct
  /\ EventsReserved
  /\ BindingsCount

-----------------------------------------------------------------------------
(* Terminal events.                                                        *)

\* Seeded fault: the reservation is used up but its slot stays taken.
ReservationsKept(R, rs) == R

\* moo_i1_complete2 for the reservations rs, a sequence, one after the other
ReservationsCompleted(R, rs) ==
  [r \in ReservationSlot |->
     IF \E n \in DOMAIN rs : rs[n] = r THEN FreeReservation ELSE R[r]]

EventsCompleted(E, R, rs) ==
  [i \in EventSlot |->
     IF \E n \in DOMAIN rs : R[rs[n]].event = i
     THEN LET r == CHOOSE r \in ReservationSlot :
                     R[r].event = i /\ \E n \in DOMAIN rs : rs[n] = r
          IN  LiveEvent(R[r].owner, "ANIMATION_DONE", R[r].token)
     ELSE E[i]]

QueueCompleted(R, rs) ==
  [c \in Client |->
     LET own == InSlotOrder({n \in DOMAIN rs : R[rs[n]].owner = c})
     IN  queue[c] \o [n \in DOMAIN own |-> R[rs[own[n]]].event]]

\* The reservations of the animations in the timeline slots K, in slot order.
ReservationsOf(K) ==
  LET order == InSlotOrder(K)
  IN  [n \in 1 .. Cardinality(K) |->
         CHOOSE r \in ReservationSlot :
           r \in ReservationsFor(reservations, timeline[order[n]].surface,
                                 timeline[order[n]].token)]

\* The fields of a slot that is not active are not read.
Stopped(T, K) == [k \in TimelineSlot |->
                    IF k \in K THEN NoAnimation ELSE T[k]]

\* The binding counts after the animations in the timeline slots K ended.
CountsAfter(K) ==
  [i \in SurfaceSlot |->
     [bindings[i] EXCEPT !.reserved_completion_events =
        @ - Cardinality({k \in K : timeline[k].surface[1] = i})]]

\* The animations in the timeline slots K end, each with its terminal event.
End(K) ==
  LET rs == ReservationsOf(K)
  IN  /\ reservations' = ReservationsCompleted(reservations, rs)
      /\ events' = EventsCompleted(events, reservations, rs)
      /\ queue' = QueueCompleted(reservations, rs)
      /\ timeline' = Stopped(timeline, K)
      /\ bindings' = CountsAfter(K)

-----------------------------------------------------------------------------
Init ==
  /\ live = Client
  /\ surfaces = [i \in SurfaceSlot |-> DeadSurface(1)]
  /\ frames = [i \in FrameSlot |-> FreeFrame]
  /\ events = [i \in EventSlot |-> FreeEvent]
  /\ queue = [c \in Client |-> <<>>]
  /\ commit_sequence = 0
  /\ in_flight = FALSE
  /\ bound = FALSE
  /\ bindings = [i \in SurfaceSlot |-> Unbound]
  /\ timeline = [k \in TimelineSlot |-> NoAnimation]
  /\ reservations = [r \in ReservationSlot |-> FreeReservation]

-----------------------------------------------------------------------------
(* Calls of the plain protocol, as in CompositorCore.                      *)

\* moo_comp_surface_create; the new surface has no binding.
SurfaceCreate(c) ==
  LET free == {i \in SurfaceSlot : /\ ~surfaces[i].live
                                   /\ surfaces[i].generation # 0}
  IN
  /\ c \in live
  /\ free # {}
  /\ surfaces' = [surfaces EXCEPT
                    ![Lowest(free)] = [live |-> TRUE, owner |-> c,
                                       generation |-> @.generation,
                                       mapped |-> FALSE,
                                       frame_token |-> NoToken]]
  /\ UNCHANGED <<live, frames, events, queue, commit_sequence, in_flight,
                 effectVars>>

\* moo_comp_surface_frame: not refused for a bound surface.
SurfaceFrame(c, s, t) ==
  /\ OwnedSurface(c, s)
  /\ surfaces[s[1]].frame_token = NoToken
  /\ TokenAvailable(c, t)
  /\ FramesOwned(surfaces, c) < FrameQuota
  /\ EventReservationAvailable(surfaces, c)
  /\ surfaces' = [surfaces EXCEPT ![s[1]].frame_token = t]
  /\ UNCHANGED <<live, frames, events, queue, commit_sequence, in_flight,
                 effectVars>>

\* The surface s gives up its buffer.  If that was the last use the release
\* is queued at once; S are the surface slots the room is computed from.
MaybeRelease(S, c, s) ==
  \/ UNCHANGED <<events, queue>>
  \/ /\ surfaces[s[1]].mapped
     /\ EventReservationAvailable(S, c)
     /\ FreeEvents # {}
     /\ LET i == Lowest(FreeEvents)
        IN  /\ events' = [events EXCEPT
                            ![i] = LiveEvent(c, "BUFFER_RELEASE", NoToken)]
            /\ queue' = [queue EXCEPT ![c] = Append(@, i)]

\* The frame token t of surface s moves into the first free frame slot.
TokenToFrame(c, s, t) ==
  IF t = NoToken THEN frames
  ELSE [frames EXCEPT
          ![Lowest(FreeFrames)] = [state |-> "WAITING", owner |-> c,
                                   surface |-> s, token |-> t]]

\* moo_comp_surface_commit with the pending token t
Commit(c, s, t) ==
  /\ t # NoToken => FreeFrames # {}
  /\ commit_sequence < MaxCommit
  /\ commit_sequence' = commit_sequence + 1
  /\ MaybeRelease([surfaces EXCEPT ![s[1]].frame_token = t], c, s)
  /\ frames' = TokenToFrame(c, s, t)
  /\ \E mapped \in BOOLEAN :
       surfaces' = [surfaces EXCEPT ![s[1]].frame_token = NoToken,
                                    ![s[1]].mapped = mapped]

SurfaceCommit(c, s) ==
  /\ OwnedSurface(c, s)
  /\ ~EffectBound(s[1])
  /\ Commit(c, s, surfaces[s[1]].frame_token)
  /\ UNCHANGED <<live, in_flight, effectVars>>

\* The surface slot after moo_comp_surface_destroy.
SurfaceGone(s) ==
  [surfaces EXCEPT ![s[1]] = DeadSurface(NextGeneration(s[2]))]

SurfaceDestroy(c, s) ==
  LET t == surfaces[s[1]].frame_token
  IN
  /\ OwnedSurface(c, s)
  /\ ~EffectBound(s[1])
  /\ t # NoToken => FreeFrames # {}
  /\ MaybeRelease(surfaces, c, s)
  /\ frames' = TokenToFrame(c, s, t)
  /\ surfaces' = SurfaceGone(s)
  /\ UNCHANGED <<live, commit_sequence, in_flight, effectVars>>

\* moo_comp_build_frame works on bound surfaces too.
BuildFrame ==
  /\ ~in_flight
  /\ in_flight' = TRUE
  /\ frames' = [i \in FrameSlot |->
                  IF frames[i].state = "WAITING"
                  THEN [frames[i] EXCEPT !.state = "ASSIGNED"] ELSE frames[i]]
  /\ UNCHANGED <<live, surfaces, events, queue, commit_sequence, effectVars>>

Assigned == {i \in FrameSlot : frames[i].state = "ASSIGNED"}

RoomForFrames == Cardinality(FreeEvents) >= Cardinality(Assigned)

\* The assigned frames whose FRAME_DONE is queued: the push for the first
\* frames of an owner fails while the owner is over its quota.
Reported ==
  {i \in Assigned :
     LET c    == frames[i].owner
         rank == Cardinality({j \in Assigned : frames[j].owner = c /\ j <= i})
     IN  rank > EventsOwned(c) + FramesOwned(surfaces, c) - EventQuota}

\* Seeded fault: a frame nobody waits for is never over.
PresentDoneForFrames(F) ==
  /\ F # {}
  /\ in_flight' = FALSE

FrameOver(F) == in_flight' = FALSE

\* moo_comp_present_done, with the id of the frame in flight
PresentDone ==
  LET done  == InSlotOrder(Reported)
      slots == InSlotOrder(FreeEvents)
      n     == Cardinality(Reported)
      own(c) == InSlotOrder({k \in 1 .. n : frames[done[k]].owner = c})
  IN
  /\ in_flight
  /\ RoomForFrames
  /\ events' = [i \in EventSlot |->
                  IF \E k \in 1 .. n : slots[k] = i
                  THEN LET f == frames[done[CHOOSE k \in 1 .. n :
                                              slots[k] = i]]
                       IN  LiveEvent(f.owner, "FRAME_DONE", f.token)
                  ELSE events[i]]
  /\ queue' = [c \in Client |->
                 queue[c] \o [k \in DOMAIN own(c) |-> slots[own(c)[k]]]]
  /\ frames' = [i \in FrameSlot |-> IF i \in Assigned THEN FreeFrame
                                    ELSE frames[i]]
  /\ FrameOver(Assigned)
  /\ UNCHANGED <<live, surfaces, commit_sequence, effectVars>>

\* moo_comp_next_event: the live event of c with the lowest sequence
NextEvent(c) ==
  /\ c \in live
  /\ queue[c] # <<>>
  /\ events' = [events EXCEPT ![Head(queue[c])] = FreeEvent]
  /\ queue' = [queue EXCEPT ![c] = Tail(@)]
  /\ UNCHANGED <<live, surfaces, frames, commit_sequence, in_flight,
                 effectVars>>

-----------------------------------------------------------------------------
(* Calls of the effect protocol.                                           *)

\* moo_comp_effects_bind: once, for the surfaces that live at that time
EffectsBind ==
  /\ ~bound
  /\ bound' = TRUE
  /\ bindings' = [i \in SurfaceSlot |->
                    IF ~surfaces[i].live THEN Unbound
                    ELSE [Unbound EXCEPT !.active = TRUE,
                                         !.surface = Handle(i),
                                         !.owner = surfaces[i].owner]]
  /\ UNCHANGED <<coreVars, timeline, reservations>>

\* moo_comp_surface_effect_set: enabled are the optional properties the
\* effect state will enable once it is committed.
EffectSet(c, s, enabled) ==
  /\ OwnedSurface(c, s)
  /\ EffectBound(s[1])
  /\ bindings' = [bindings EXCEPT ![s[1]].pending = enabled,
                                  ![s[1]].dirty = TRUE]
  /\ UNCHANGED <<coreVars, bound, timeline, reservations>>

\* moo_comp_surface_commit_ex writes the token of the request over the
\* pending one, without asking whether it is available or within the quota.
SurfaceCommitEx(c, s, t) ==
  /\ OwnedSurface(c, s)
  /\ bindings[s[1]].dirty
  /\ \A i \in FrameSlotsOf(c) : ~ /\ frames[i].surface = s
                                  /\ frames[i].token = t
  /\ Commit(c, s, t)
  /\ bindings' = [bindings EXCEPT ![s[1]].effect = bindings[s[1]].pending,
                                  ![s[1]].pending = {},
                                  ![s[1]].dirty = FALSE]
  /\ UNCHANGED <<live, in_flight, bound, timeline, reservations>>

AnimationsOn(s) == {k \in Running : timeline[k].surface = s}

\* The running animation a new one on the same surface and property replaces.
ReplacedBy(s, p) == {k \in AnimationsOn(s) : timeline[k].property = p}

\* Seeded fault: the replaced animation gets no terminal event.
StartCompletionsOwn(replaced, r, reduced) == IF reduced THEN <<r>> ELSE <<>>

\* The reservations a start uses up, its own, r, under reduced motion.
StartCompletions(replaced, r, reduced) ==
  ReservationsOf(replaced) \o (IF reduced THEN <<r>> ELSE <<>>)

\* moo_i1_reserve2 has room for one more completion of c with token t.
CanReserve(c, t) ==
  /\ EventReservationAvailable(surfaces, c)
  /\ \A r \in Reserved : ~ /\ reservations[r].owner = c
                           /\ reservations[r].token = t
  /\ FreeEvents # {}
  /\ Reserved # ReservationSlot

\* The checks of moo_comp_animation_start.  The limit for a client is held
\* against the animations of all clients, and so is the token.
CanAnimate(s, t, p) ==
  /\ p \in Optional => p \in bindings[s[1]].effect
  /\ \A k \in Running : timeline[k].token # t
  /\ ReplacedBy(s, p) = {} =>
       /\ Cardinality(AnimationsOn(s)) < MaxPerSurface
       /\ Cardinality(Running) < MaxPerClient
       /\ Cardinality(Running) < TimelineCapacity

\* moo_comp_surface_animation_start
AnimationStart(c, s, t, p, reduced) ==
  LET e        == Lowest(FreeEvents)
      r        == Lowest(ReservationSlot \ Reserved)
      replaced == ReplacedBy(s, p)
      R        == [reservations EXCEPT
                     ![r] = [state |-> "RESERVED", event |-> e, owner |-> c,
                             surface |-> s, token |-> t]]
      E        == [events EXCEPT ![e] = ReservedEvent(c, r)]
      done     == StartCompletions(replaced, r, reduced)
      slot     == Lowest(IF replaced # {} THEN replaced
                         ELSE TimelineSlot \ Running)
  IN
  /\ OwnedSurface(c, s)
  /\ EffectBound(s[1])
  /\ CanReserve(c, t)
  /\ CanAnimate(s, t, p)
  /\ reservations' = ReservationsCompleted(R, done)
  /\ events' = EventsCompleted(E, R, done)
  /\ queue' = QueueCompleted(R, done)
  /\ timeline' = IF reduced THEN Stopped(timeline, replaced)
                 ELSE [timeline EXCEPT
                         ![slot] = [active |-> TRUE, surface |-> s,
                                    token |-> t, property |-> p]]
  /\ bindings' = [bindings EXCEPT
                    ![s[1]].reserved_completion_events = @ + 1 - Len(done)]
  /\ UNCHANGED <<live, surfaces, frames, commit_sequence, in_flight, bound>>

\* moo_comp_surface_animation_cancel
AnimationCancel(c, s, t) ==
  /\ OwnedSurface(c, s)
  /\ \E k \in AnimationsOn(s) : timeline[k].token = t /\ End({k})
  /\ UNCHANGED <<live, surfaces, frames, commit_sequence, in_flight, bound>>

\* moo_comp_surface_destroy_ex disarms the release of the buffer first: the
\* surface goes without a BUFFER_RELEASE.
SurfaceDestroyEx(c, s) ==
  LET t == surfaces[s[1]].frame_token
      K == AnimationsOn(s)
      done == ReservationsOf(K)
  IN
  /\ OwnedSurface(c, s)
  /\ EffectBound(s[1])
  /\ t # NoToken => FreeFrames # {}
  /\ reservations' = ReservationsCompleted(reservations, done)
  /\ events' = EventsCompleted(events, reservations, done)
  /\ queue' = QueueCompleted(reservations, done)
  /\ timeline' = Stopped(timeline, K)
  /\ bindings' = [bindings EXCEPT ![s[1]] = Unbound]
  /\ frames' = TokenToFrame(c, s, t)
  /\ surfaces' = SurfaceGone(s)
  /\ UNCHANGED <<live, commit_sequence, in_flight, bound>>

\* moo_comp_build_frame_ex: the animations K have reached their end, or all
\* end under reduced motion.  It fails as a whole while an animation runs
\* whose effect is not enabled, and it leaves waiting frames to build_frame.
Buildable ==
  \A k \in Running : timeline[k].property \in Optional =>
    timeline[k].property \in bindings[timeline[k].surface[1]].effect

BuildFrameEx(K) ==
  /\ bound
  /\ ~in_flight
  /\ in_flight' = TRUE
  /\ Buildable
  /\ IntegrationValid
  /\ End(K)
  /\ UNCHANGED <<live, surfaces, frames, commit_sequence, bound>>

-----------------------------------------------------------------------------
(* moo_comp_client_disconnect, and moo_comp_client_disconnect_ex for a core*)
(* with effects: everything of the client goes, and nothing is reported.   *)

AnimationsOf(c) == {k \in Running :
                      surfaces[timeline[k].surface[1]].owner = c}

TimelineWithout(c) == Stopped(timeline, AnimationsOf(c))

ReservationsWithout(c) ==
  [r \in ReservationSlot |->
     IF reservations[r].owner = c THEN FreeReservation ELSE reservations[r]]

ClientDisconnect(c) ==
  /\ c \in live
  /\ bound => IntegrationValid
  /\ live' = live \ {c}
  /\ timeline' = TimelineWithout(c)
  /\ reservations' = ReservationsWithout(c)
  /\ bindings' = [i \in SurfaceSlot |-> IF bindings[i].owner = c THEN Unbound
                                        ELSE bindings[i]]
  /\ surfaces' = [i \in SurfaceSlot |->
                    IF i \in SurfacesOf(c)
                    THEN DeadSurface(NextGeneration(surfaces[i].generation))
                    ELSE surfaces[i]]
  /\ frames' = [i \in FrameSlot |-> IF frames[i].owner = c THEN FreeFrame
                                    ELSE frames[i]]
  /\ events' = [i \in EventSlot |-> IF events[i].owner = c THEN FreeEvent
                                    ELSE events[i]]
  /\ queue' = [queue EXCEPT ![c] = <<>>]
  /\ UNCHANGED <<commit_sequence, in_flight, bound>>

-----------------------------------------------------------------------------
\* A call of the effect protocol on a surface: refused unless the tables agree.
EffectStep ==
  /\ bound
  /\ IntegrationValid
  /\ \E c \in Client, s \in SurfaceHandle :
       \/ SurfaceDestroyEx(c, s)
       \/ \E t \in FrameToken \cup {NoToken} : SurfaceCommitEx(c, s, t)
       \/ \E enabled \in SUBSET Optional : EffectSet(c, s, enabled)
       \/ \E t \in EffectToken, p \in Property, reduced \in BOOLEAN :
            AnimationStart(c, s, t, p, reduced)
       \/ \E t \in EffectToken : AnimationCancel(c, s, t)

Next ==
  \/ \E c \in Client :
       \/ SurfaceCreate(c)
       \/ NextEvent(c)
       \/ ClientDisconnect(c)
       \/ \E s \in SurfaceHandle :
            \/ SurfaceCommit(c, s)
            \/ SurfaceDestroy(c, s)
            \/ \E t \in FrameToken : SurfaceFrame(c, s, t)
  \/ EffectStep
  \/ EffectsBind
  \/ BuildFrame
  \/ PresentDone
  \/ \E K \in SUBSET Running : BuildFrameEx(K)

Spec == Init /\ [][Next]_vars

\* The host reports every frame presented and keeps building frames with the
\* time going on; every animation has a last instant.  So the one in slot k
\* is ended by a frame unless none can be built.
FrameEnding(k) == \E K \in SUBSET Running : k \in K /\ BuildFrameEx(K)

Fairness ==
  /\ WF_vars(PresentDone)
  /\ \A k \in TimelineSlot : SF_vars(FrameEnding(k))

FairSpec == Spec /\ Fairness

-----------------------------------------------------------------------------
(* Type invariant.                                                         *)

SurfaceSlotType ==
  [live : BOOLEAN, generation : Generation \cup {0},
   owner : Client \cup {NoClient}, mapped : BOOLEAN,
   frame_token : Token \cup {NoToken}]

FrameSlotType ==
  [state : {"FREE", "WAITING", "ASSIGNED"}, owner : Client \cup {NoClient},
   surface : SurfaceHandle \cup {NoHandle}, token : Token \cup {NoToken}]

EventSlotType ==
  [state : {"FREE", "RESERVED", "LIVE"}, owner : Client \cup {NoClient},
   reserved_slot : ReservationSlot \cup {0},
   type : {"NONE", "BUFFER_RELEASE", "FRAME_DONE", "ANIMATION_DONE"},
   token : Token \cup {NoToken}]

BindingType ==
  [active : BOOLEAN, surface : SurfaceHandle \cup {NoHandle},
   owner : Client \cup {NoClient}, dirty : BOOLEAN,
   pending : SUBSET Optional, effect : SUBSET Optional,
   reserved_completion_events : Nat]

AnimationType ==
  [active : BOOLEAN, surface : SurfaceHandle \cup {NoHandle},
   token : Token \cup {NoToken}, property : Property]

ReservationType ==
  [state : {"FREE", "RESERVED"}, event : EventSlot \cup {0},
   owner : Client \cup {NoClient}, surface : SurfaceHandle \cup {NoHandle},
   token : Token \cup {NoToken}]

LiveEventsOf(E, c) == {i \in EventSlot : /\ E[i].state = "LIVE"
                                         /\ E[i].owner = c}

\* Every variable keeps the shape the C structures give it, and the queues
\* hold each live event slot once.
TypeOK ==
  /\ live \subseteq Client
  /\ surfaces \in [SurfaceSlot -> SurfaceSlotType]
  /\ frames \in [FrameSlot -> FrameSlotType]
  /\ events \in [EventSlot -> EventSlotType]
  /\ queue \in [Client -> Seq(EventSlot)]
  /\ \A c \in Client : Enumerates(queue[c], LiveEventsOf(events, c))
  /\ commit_sequence \in 0 .. MaxCommit
  /\ in_flight \in BOOLEAN /\ bound \in BOOLEAN
  /\ bindings \in [SurfaceSlot -> BindingType]
  /\ timeline \in [TimelineSlot -> AnimationType]
  /\ reservations \in [ReservationSlot -> ReservationType]

-----------------------------------------------------------------------------
(* Properties.                                                             *)

\* The four tables always agree.  Every call asks this first and answers
\* MOO_COMP_BAD_STATE for ever after it is false once, also to a client that
\* wants to disconnect; start, replace, cancel, the end of an animation,
\* destroy and disconnect each change all four tables.
ReservationGraph == TypeOK /\ (bound => IntegrationValid)

\* No client can hold up moo_comp_present_done for the others, whatever it
\* has queued and not read: there is an event slot for every assigned frame.
PresentDoneHasRoom == in_flight => RoomForFrames

RunningTokens(c) == {timeline[k].token : k \in AnimationsOf(c)}

ToldOf(c, t) ==
  Cardinality({i \in EventSlot : /\ events[i].state = "LIVE"
                                 /\ events[i].owner = c
                                 /\ events[i].type = "ANIMATION_DONE"
                                 /\ events[i].token = t})

Lifecycle == INSTANCE EffectLifecycle
  WITH Token <- EffectToken,
       active <- [c \in Client |-> RunningTokens(c)],
       told <- [c \in Client |-> [t \in EffectToken |-> ToldOf(c, t)]]

\* Replacing, cancelling, running out and the end of the surface give a token
\* exactly one terminal event, a disconnect none; nothing else does.
LifecycleSpec == Lifecycle!Spec

Animated == {timeline[k].token : k \in Running}

\* An animation that was accepted ends, for whatever reason.  No two running
\* animations have the same token, not even of two clients.
EveryTokenEnds ==
  \A t \in EffectToken : t \in Animated ~> t \notin Animated

\* The same, provided that clients leave the display able to build and to
\* finish frames from some time on.
TokenEndsWhileDisplayRuns == <>[](Buildable /\ RoomForFrames) => EveryTokenEnds
=============================================================================
