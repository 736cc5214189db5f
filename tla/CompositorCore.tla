--------------------------- MODULE CompositorCore ---------------------------
(***************************************************************************)
(* The request state machine of moo's compositor (moo_compositor_core.c):  *)
(* clients, buffers, surfaces, the cursor, frame tokens and event queues,  *)
(* all in caller-owned arrays of fixed capacity, named by generational     *)
(* handles.                                                                *)
(*                                                                         *)
(* An action is one API call that returns MOO_COMP_OK; a call that returns *)
(* an error changes nothing and is a stuttering step.  Pixels and geometry *)
(* are abstracted: which committed surfaces a frame really shows is a      *)
(* choice of BuildFrame.  Event sequence numbers are abstracted to the     *)
(* order of one queue per client, frame ids to "a frame is in flight".     *)
(***************************************************************************)
EXTENDS Integers, Sequences, FiniteSets

CONSTANTS
  ClientCapacity,   (* client slots                                        *)
  SurfaceCapacity,  (* surface slots                                       *)
  BufferCapacity,   (* buffer slots                                        *)
  FrameCapacity,    (* frame slots, shared by all clients                  *)
  EventCapacity,    (* event slots, shared by all clients                  *)
  MaxGeneration,    (* stands for UINT32_MAX                               *)
  MaxCommit,        (* stands for UINT64_MAX, the last commit_sequence     *)
  Token,            (* the frame tokens clients choose from                *)
  NoToken           (* frame_token = 0                                     *)

ASSUME CapacityAssumption ==
  /\ ClientCapacity \in Nat \ {0}
  /\ SurfaceCapacity \in Nat \ {0}
  /\ BufferCapacity \in Nat \ {0}
  /\ FrameCapacity \in Nat /\ FrameCapacity >= ClientCapacity
  /\ EventCapacity \in Nat /\ EventCapacity >= ClientCapacity
  /\ MaxGeneration \in Nat \ {0}
  /\ MaxCommit \in Nat \ {0}

ASSUME TokenAssumption == NoToken \notin Token

VARIABLES
  clients,          (* core->clients                                       *)
  surfaces,         (* core->surfaces: committed and pending state         *)
  buffers,          (* core->buffers                                       *)
  frames,           (* core->frames                                        *)
  events,           (* core->events, the queue of each client handle       *)
  cursor,           (* core->cursor                                        *)
  commit_sequence,  (* core->commit_sequence                               *)
  in_flight         (* core->in_flight_frame # 0                           *)

vars == <<clients, surfaces, buffers, frames, events, cursor,
          commit_sequence, in_flight>>

-----------------------------------------------------------------------------
(* Handles: <<slot, generation>>; the object kind is fixed by the set.     *)

ClientSlot  == 1 .. ClientCapacity
SurfaceSlot == 1 .. SurfaceCapacity
BufferSlot  == 1 .. BufferCapacity
FrameSlot   == 1 .. FrameCapacity
Generation  == 1 .. MaxGeneration

NoHandle      == <<0, 0>>
ClientHandle  == ClientSlot \X Generation
SurfaceHandle == SurfaceSlot \X Generation
BufferHandle  == BufferSlot \X Generation

\* Seeded fault: the counter starts over and old handles fit again.
NextGenerationWrapping(g) == IF g = MaxGeneration THEN 1 ELSE g + 1

\* Generation 0 retires a slot for good: it is never allocated again.
NextGeneration(g) == IF g = MaxGeneration THEN 0 ELSE g + 1

IsLive(slots, h) ==
  /\ h # NoHandle
  /\ slots[h[1]].live
  /\ slots[h[1]].generation = h[2]

ClientOk(c)        == IsLive(clients, c)
SurfaceOk(s)       == IsLive(surfaces, s)
BufferOk(b)        == IsLive(buffers, b)
OwnedSurface(c, s) == ClientOk(c) /\ SurfaceOk(s) /\ surfaces[s[1]].owner = c
OwnedBuffer(c, b)  == ClientOk(c) /\ BufferOk(b) /\ buffers[b[1]].owner = c

Lowest(S) == CHOOSE i \in S : \A j \in S : i <= j

\* The slots an allocation scans for; it takes the first.
Allocatable(slots) ==
  {i \in DOMAIN slots : ~slots[i].live /\ slots[i].generation # 0}

-----------------------------------------------------------------------------
(* Slot contents.                                                          *)

Status == {"NONE", "PRESENTED", "SUPERSEDED", "OCCLUDED", "CANCELLED"}

DeadClient(g) == [live |-> FALSE, generation |-> g]

DeadBuffer(g) ==
  [live |-> FALSE, generation |-> g, owner |-> NoHandle,
   ref_count |-> 0, release_armed |-> FALSE]

\* A surface without content; the fields of a dead slot are not read before
\* moo_comp_surface_create has written them.
BlankSurface(isLive, g, c) ==
  [live |-> isLive, generation |-> g, owner |-> c,
   buffer |-> NoHandle,          \* committed.buffer
   commit_sequence |-> 0,        \* committed.commit_sequence
   attach |-> FALSE,             \* pending.dirty_mask & PENDING_ATTACH
   pending_buffer |-> NoHandle,  \* pending.buffer
   frame_token |-> NoToken]      \* pending.frame_token

FreeFrame ==
  [state |-> "FREE", owner |-> NoHandle, surface |-> NoHandle,
   token |-> NoToken, commit_sequence |-> 0, status |-> "NONE"]

ReleaseEvent(b) ==
  [type |-> "BUFFER_RELEASE", object |-> b, token |-> NoToken,
   status |-> "NONE"]

\* Seeded fault: the slot is freed before the event is filled in from it.
FrameDoneEventAfterFree(f) ==
  [type |-> "FRAME_DONE", object |-> FreeFrame.surface,
   token |-> FreeFrame.token, status |-> FreeFrame.status]

FrameDoneEvent(f) ==
  [type |-> "FRAME_DONE", object |-> f.surface, token |-> f.token,
   status |-> f.status]

\* A release names a buffer and nothing else; the end of a frame names the
\* surface and the token, and says how the frame ended.
Event ==
  [type : {"BUFFER_RELEASE"}, object : BufferHandle, token : {NoToken},
   status : {"NONE"}]
    \cup
  [type : {"FRAME_DONE"}, object : SurfaceHandle, token : Token,
   status : Status \ {"NONE"}]

-----------------------------------------------------------------------------
(* Quotas.  A pending token already counts as the frame slot and the event *)
(* slot it will need.                                                      *)

\* Seeded fault: one quota for all clients.
EventQuotaShared == EventCapacity

EventQuota == EventCapacity \div ClientCapacity
FrameQuota == FrameCapacity \div ClientCapacity

EventsOwned(c)     == Len(events[c])
FrameSlotsOf(c)    == {i \in FrameSlot : /\ frames[i].state # "FREE"
                                         /\ frames[i].owner = c}
PendingTokensOf(c) == {s \in SurfaceSlot : /\ surfaces[s].live
                                           /\ surfaces[s].owner = c
                                           /\ surfaces[s].frame_token # NoToken}

\* Seeded fault: a token counts only once it is committed.
FramesOwnedCommitted(c) == Cardinality(FrameSlotsOf(c))

FramesOwned(c) ==
  Cardinality(FrameSlotsOf(c)) + Cardinality(PendingTokensOf(c))

\* Seeded fault: the events that accepted tokens will need are not reserved.
EventReservationIgnoringFrames(c) == EventsOwned(c) < EventQuota

EventReservationAvailable(c) ==
  /\ EventsOwned(c) < EventQuota
  /\ FramesOwned(c) <= EventQuota - EventsOwned(c) - 1

\* The event slots that are not free, each by its owner and its place in the
\* owner's queue.
EventSlotsInUse == UNION {{c} \X DOMAIN events[c] : c \in ClientHandle}

FreeEventCount == EventCapacity - Cardinality(EventSlotsInUse)

\* The check before a release event, and the one moo_comp_push_event repeats.
\* Between the two a pending token may have become a frame slot: the count
\* of frames owned is the same.
CanPushEvent(c) == EventReservationAvailable(c) /\ FreeEventCount # 0

FreeFrameSlots == {i \in FrameSlot : frames[i].state = "FREE"}

\* Seeded fault: a token is free again before its event is read.
TokenAvailableBeforeDelivery(c, t) ==
  /\ \A s \in PendingTokensOf(c) : surfaces[s].frame_token # t
  /\ \A i \in FrameSlotsOf(c) : frames[i].token # t

\* No other pending token, frame or undelivered FRAME_DONE of c names t.
TokenAvailable(c, t) ==
  /\ \A s \in SurfaceSlot : surfaces[s].live /\ surfaces[s].owner = c
                              => surfaces[s].frame_token # t
  /\ \A i \in FrameSlotsOf(c) : frames[i].token # t
  /\ \A k \in DOMAIN events[c] : ~ /\ events[c][k].type = "FRAME_DONE"
                                   /\ events[c][k].token = t

-----------------------------------------------------------------------------
(* Buffer references.                                                      *)

\* Seeded fault: the release event is not armed.
RefUnarmed(B, b) ==
  IF b = NoHandle THEN B ELSE [B EXCEPT ![b[1]].ref_count = @ + 1]

\* moo_comp_buffer_ref on the slots B; NoHandle refers to nothing.
Ref(B, b) ==
  IF b = NoHandle THEN B
  ELSE [B EXCEPT ![b[1]].ref_count = @ + 1,
                 ![b[1]].release_armed = (B[b[1]].ref_count = 0) \/ @]

IsLastUse(b) ==
  /\ b # NoHandle
  /\ buffers[b[1]].ref_count = 1
  /\ buffers[b[1]].release_armed

\* moo_comp_buffer_unref(..., emit_event = 1): the last reference leaves a
\* release event behind; if the push fails the release stays armed.
Unref(B, b) ==
  IF b = NoHandle THEN B
  ELSE IF B[b[1]].ref_count = 0 THEN B
  ELSE [B EXCEPT
          ![b[1]].ref_count = @ - 1,
          ![b[1]].release_armed =
             @ /\ ~(IsLastUse(b) /\ CanPushEvent(B[b[1]].owner))]

EventsAfterUnref(b) ==
  IF IsLastUse(b) /\ CanPushEvent(buffers[b[1]].owner)
  THEN [events EXCEPT ![buffers[b[1]].owner] = Append(@, ReleaseEvent(b))]
  ELSE events

\* Seeded fault: nobody looks whether the release event can be queued.
ReleaseUnchecked(b, c) == TRUE

\* The check every caller makes before it gives up buffer b.
ReleaseHasRoom(b, c) == IsLastUse(b) => CanPushEvent(c)

-----------------------------------------------------------------------------
Init ==
  /\ clients = [i \in ClientSlot |-> DeadClient(1)]
  /\ surfaces = [i \in SurfaceSlot |-> BlankSurface(FALSE, 1, NoHandle)]
  /\ buffers = [i \in BufferSlot |-> DeadBuffer(1)]
  /\ frames = [i \in FrameSlot |-> FreeFrame]
  /\ events = [c \in ClientHandle |-> <<>>]
  /\ cursor = [focus_owner |-> NoHandle, buffer |-> NoHandle]
  /\ commit_sequence = 0
  /\ in_flight = FALSE

\* moo_comp_client_create
ClientCreate ==
  /\ Allocatable(clients) # {}
  /\ LET i == Lowest(Allocatable(clients))
     IN  clients' = [clients EXCEPT ![i].live = TRUE]
  /\ UNCHANGED <<surfaces, buffers, frames, events, cursor, commit_sequence,
                 in_flight>>

\* moo_comp_buffer_register
BufferRegister(c) ==
  /\ ClientOk(c)
  /\ Allocatable(buffers) # {}
  /\ LET i == Lowest(Allocatable(buffers))
     IN  buffers' = [buffers EXCEPT
                       ![i] = [live |-> TRUE, generation |-> @.generation,
                               owner |-> c, ref_count |-> 0,
                               release_armed |-> FALSE]]
  /\ UNCHANGED <<clients, surfaces, frames, events, cursor, commit_sequence,
                 in_flight>>

\* Seeded fault: a pending attach does not keep the buffer.
BufferUnregisterIgnoringPending(c, b) ==
  /\ OwnedBuffer(c, b)
  /\ buffers[b[1]].ref_count = 0
  /\ buffers' = [buffers EXCEPT ![b[1]] = DeadBuffer(NextGeneration(b[2]))]
  /\ UNCHANGED <<clients, surfaces, frames, events, cursor, commit_sequence,
                 in_flight>>

\* moo_comp_buffer_unregister: refused while bound or pending anywhere.
BufferUnregister(c, b) ==
  /\ OwnedBuffer(c, b)
  /\ buffers[b[1]].ref_count = 0
  /\ \A s \in SurfaceSlot : surfaces[s].live /\ surfaces[s].attach
                              => surfaces[s].pending_buffer # b
  /\ buffers' = [buffers EXCEPT ![b[1]] = DeadBuffer(NextGeneration(b[2]))]
  /\ UNCHANGED <<clients, surfaces, frames, events, cursor, commit_sequence,
                 in_flight>>

\* moo_comp_surface_create
SurfaceCreate(c) ==
  /\ ClientOk(c)
  /\ Allocatable(surfaces) # {}
  /\ LET i == Lowest(Allocatable(surfaces))
     IN  surfaces' = [surfaces EXCEPT
                        ![i] = BlankSurface(TRUE, @.generation, c)]
  /\ UNCHANGED <<clients, buffers, frames, events, cursor, commit_sequence,
                 in_flight>>

\* moo_comp_surface_attach; NoHandle unmaps the surface at the next commit.
SurfaceAttach(c, s, b) ==
  /\ OwnedSurface(c, s)
  /\ b # NoHandle => OwnedBuffer(c, b)
  /\ surfaces' = [surfaces EXCEPT ![s[1]].pending_buffer = b,
                                  ![s[1]].attach = TRUE]
  /\ UNCHANGED <<clients, buffers, frames, events, cursor, commit_sequence,
                 in_flight>>

\* moo_comp_surface_frame
SurfaceFrame(c, s, t) ==
  /\ OwnedSurface(c, s)
  /\ surfaces[s[1]].frame_token = NoToken
  /\ TokenAvailable(c, t)
  /\ FramesOwned(c) < FrameQuota
  /\ EventReservationAvailable(c)
  /\ surfaces' = [surfaces EXCEPT ![s[1]].frame_token = t]
  /\ UNCHANGED <<clients, buffers, frames, events, cursor, commit_sequence,
                 in_flight>>

\* Seeded fault: a token that was never committed is forgotten on destroy.
TokenToFrameCommitsOnly(c, s, sequence, status) ==
  IF surfaces[s[1]].frame_token = NoToken \/ status = "CANCELLED" THEN frames
  ELSE [frames EXCEPT
          ![Lowest(FreeFrameSlots)] =
             [state |-> "WAITING", owner |-> c, surface |-> s,
              token |-> surfaces[s[1]].frame_token,
              commit_sequence |-> sequence, status |-> status]]

\* The pending token of surface s moves into the first free frame slot.
TokenToFrame(c, s, sequence, status) ==
  IF surfaces[s[1]].frame_token = NoToken THEN frames
  ELSE [frames EXCEPT
          ![Lowest(FreeFrameSlots)] =
             [state |-> "WAITING", owner |-> c, surface |-> s,
              token |-> surfaces[s[1]].frame_token,
              commit_sequence |-> sequence, status |-> status]]

\* moo_comp_surface_commit: pending state is published in one step.
SurfaceCommit(c, s) ==
  LET slot == surfaces[s[1]]
      old  == slot.buffer
      new  == IF slot.attach THEN slot.pending_buffer ELSE old
      seq  == commit_sequence + 1
  IN
  /\ OwnedSurface(c, s)
  /\ new # NoHandle => OwnedBuffer(c, new)
  /\ old # NoHandle => BufferOk(old)
  /\ new # old => ReleaseHasRoom(old, c)
  /\ slot.frame_token # NoToken => FreeFrameSlots # {}
  /\ commit_sequence < MaxCommit
  /\ commit_sequence' = seq
  /\ surfaces' = [surfaces EXCEPT ![s[1]] =
                    [@ EXCEPT !.buffer = new, !.commit_sequence = seq,
                              !.attach = FALSE, !.frame_token = NoToken]]
  /\ frames' = TokenToFrame(c, s, seq, "NONE")
  /\ IF new = old THEN UNCHANGED <<buffers, events>>
     ELSE /\ buffers' = Unref(Ref(buffers, new), old)
          /\ events' = EventsAfterUnref(old)
  /\ UNCHANGED <<clients, cursor, in_flight>>

\* moo_comp_cancel_surface_frames, on the frame slots F
CancelFrames(F, s) ==
  [i \in FrameSlot |->
     IF F[i].state # "FREE" /\ F[i].surface = s
     THEN [F[i] EXCEPT !.status = "CANCELLED"] ELSE F[i]]

\* moo_comp_surface_destroy: a token not yet committed is cancelled through
\* a frame slot, so that it still ends in a FRAME_DONE.
SurfaceDestroy(c, s) ==
  LET slot == surfaces[s[1]]
  IN
  /\ OwnedSurface(c, s)
  /\ slot.frame_token # NoToken => FreeFrameSlots # {}
  /\ slot.buffer # NoHandle => BufferOk(slot.buffer)
  /\ ReleaseHasRoom(slot.buffer, c)
  /\ frames' = CancelFrames(
                 TokenToFrame(c, s, slot.commit_sequence, "CANCELLED"), s)
  /\ surfaces' = [surfaces EXCEPT
                    ![s[1]] = BlankSurface(FALSE, NextGeneration(s[2]), NoHandle)]
  /\ buffers' = Unref(buffers, slot.buffer)
  /\ events' = EventsAfterUnref(slot.buffer)
  /\ UNCHANGED <<clients, cursor, commit_sequence, in_flight>>

-----------------------------------------------------------------------------
(* The cursor: visible exactly when it has a buffer.                       *)

\* moo_comp_pointer_focus and moo_comp_cursor_release
PointerFocus(c) ==
  /\ c # NoHandle => ClientOk(c)
  /\ c # cursor.focus_owner
  /\ cursor.buffer # NoHandle =>
       ReleaseHasRoom(cursor.buffer, buffers[cursor.buffer[1]].owner)
  /\ cursor' = [focus_owner |-> c, buffer |-> NoHandle]
  /\ buffers' = Unref(buffers, cursor.buffer)
  /\ events' = EventsAfterUnref(cursor.buffer)
  /\ UNCHANGED <<clients, surfaces, frames, commit_sequence, in_flight>>

\* moo_comp_cursor_set_buffer
CursorSetBuffer(c, b) ==
  /\ OwnedBuffer(c, b)
  /\ cursor.focus_owner = c
  /\ b # cursor.buffer => ReleaseHasRoom(cursor.buffer, c)
  /\ cursor' = [cursor EXCEPT !.buffer = b]
  /\ IF b = cursor.buffer THEN UNCHANGED <<buffers, events>>
     ELSE /\ buffers' = Unref(Ref(buffers, b), cursor.buffer)
          /\ events' = EventsAfterUnref(cursor.buffer)
  /\ UNCHANGED <<clients, surfaces, frames, commit_sequence, in_flight>>

\* moo_comp_cursor_hide
CursorHide(c) ==
  /\ ClientOk(c)
  /\ cursor.focus_owner = c
  /\ cursor.buffer # NoHandle
  /\ ReleaseHasRoom(cursor.buffer, c)
  /\ cursor' = [cursor EXCEPT !.buffer = NoHandle]
  /\ buffers' = Unref(buffers, cursor.buffer)
  /\ events' = EventsAfterUnref(cursor.buffer)
  /\ UNCHANGED <<clients, surfaces, frames, commit_sequence, in_flight>>

-----------------------------------------------------------------------------
(* moo_comp_client_disconnect, without effects: everything the client owns *)
(* goes at once and nothing is announced to anyone.                        *)

SurfacesOf(c) == {s \in SurfaceSlot : surfaces[s].live /\ surfaces[s].owner = c}

SurfacesWithout(c) ==
  [s \in SurfaceSlot |->
     IF s \in SurfacesOf(c)
     THEN BlankSurface(FALSE, NextGeneration(surfaces[s].generation), NoHandle)
     ELSE surfaces[s]]

\* Frames of the client's surfaces are cancelled, frames it owns are freed.
FramesWithout(c) ==
  [i \in FrameSlot |->
     IF frames[i].state = "FREE" THEN frames[i]
     ELSE IF frames[i].owner = c THEN FreeFrame
     ELSE IF \E s \in SurfacesOf(c) :
               frames[i].surface = <<s, surfaces[s].generation>>
     THEN [frames[i] EXCEPT !.status = "CANCELLED"]
     ELSE frames[i]]

\* References the client gives up without an event.
RefsDropped(c, b) ==
  Cardinality({s \in SurfacesOf(c) : surfaces[s].buffer = b})
    + IF cursor.focus_owner = c /\ cursor.buffer = b THEN 1 ELSE 0

BuffersWithout(c) ==
  [i \in BufferSlot |->
     LET dropped == RefsDropped(c, <<i, buffers[i].generation>>)
         left    == IF dropped < buffers[i].ref_count
                    THEN buffers[i].ref_count - dropped ELSE 0
     IN  IF ~buffers[i].live THEN buffers[i]
         ELSE IF buffers[i].owner = c
         THEN DeadBuffer(NextGeneration(buffers[i].generation))
         ELSE [buffers[i] EXCEPT
                 !.ref_count = left,
                 !.release_armed = @ /\ (dropped = 0 \/ left > 0)]]

\* Seeded fault: the image goes, the focus stays with the dead handle.
CursorKeepingFocus(c) ==
  IF cursor.focus_owner = c THEN [cursor EXCEPT !.buffer = NoHandle] ELSE cursor

\* Seeded fault: any disconnect resets the cursor.
CursorReset(c) == [focus_owner |-> NoHandle, buffer |-> NoHandle]

CursorWithout(c) ==
  IF cursor.focus_owner = c
  THEN [focus_owner |-> NoHandle, buffer |-> NoHandle]
  ELSE cursor

ClientDisconnect(c) ==
  /\ ClientOk(c)
  /\ clients' = [clients EXCEPT ![c[1]] = DeadClient(NextGeneration(c[2]))]
  /\ surfaces' = SurfacesWithout(c)
  /\ buffers' = BuffersWithout(c)
  /\ frames' = FramesWithout(c)
  /\ events' = [events EXCEPT ![c] = <<>>]
  /\ cursor' = CursorWithout(c)
  /\ UNCHANGED <<commit_sequence, in_flight>>

-----------------------------------------------------------------------------
(* Frames.                                                                 *)

\* Seeded fault: a frame is judged by its surface, not by its commit.
CompletionOfSurface(f, shown) ==
  IF f.status = "CANCELLED" \/ ~SurfaceOk(f.surface) THEN "CANCELLED"
  ELSE IF f.surface[1] \in shown THEN "PRESENTED" ELSE "OCCLUDED"

\* How a waiting frame ends, given the surface slots the frame really shows.
Completion(f, shown) ==
  IF f.status = "CANCELLED" \/ ~SurfaceOk(f.surface) THEN "CANCELLED"
  ELSE IF surfaces[f.surface[1]].commit_sequence # f.commit_sequence
  THEN "SUPERSEDED"
  ELSE IF f.surface[1] \in shown THEN "PRESENTED" ELSE "OCCLUDED"

Mapped == {s \in SurfaceSlot : surfaces[s].live /\ surfaces[s].buffer # NoHandle}

\* moo_comp_build_frame: geometry decides which mapped surfaces are visible
\* and not covered; every waiting frame is assigned to the new frame.
BuildFrame ==
  /\ ~in_flight
  /\ \E shown \in SUBSET Mapped :
       frames' = [i \in FrameSlot |->
                    IF frames[i].state = "WAITING"
                    THEN [frames[i] EXCEPT
                            !.state = "ASSIGNED",
                            !.status = Completion(frames[i], shown)]
                    ELSE frames[i]]
  /\ in_flight' = TRUE
  /\ UNCHANGED <<clients, surfaces, buffers, events, cursor, commit_sequence>>

AssignedOf(c) == {i \in FrameSlotsOf(c) : frames[i].state = "ASSIGNED"}
Assigned      == {i \in FrameSlot : frames[i].state = "ASSIGNED"}

\* The elements of a set of slots, in slot order.
InSlotOrder(S) ==
  [k \in 1 .. Cardinality(S) |->
     CHOOSE i \in S : Cardinality({j \in S : j <= i}) = k]

\* moo_comp_present_done frees the slots one by one and pushes an event for
\* each, ignoring the result of the push.  A push fails while the owner is
\* over its quota, that is for the first Overdraft(c) slots of the owner.
Overdraft(c) ==
  LET over == EventsOwned(c) + FramesOwned(c) - EventQuota
  IN  IF over < 0 THEN 0
      ELSE IF over > Cardinality(AssignedOf(c)) THEN Cardinality(AssignedOf(c))
      ELSE over

FrameDoneBatch(c) ==
  LET order == InSlotOrder(AssignedOf(c))
  IN  [k \in 1 .. Cardinality(AssignedOf(c)) - Overdraft(c) |->
         FrameDoneEvent(frames[order[k + Overdraft(c)]])]

\* moo_comp_present_done, with the id of the frame in flight
PresentDone ==
  /\ in_flight
  /\ FreeEventCount >= Cardinality(Assigned)
  /\ events' = [c \in ClientHandle |-> events[c] \o FrameDoneBatch(c)]
  /\ frames' = [i \in FrameSlot |->
                  IF i \in Assigned THEN FreeFrame ELSE frames[i]]
  /\ in_flight' = FALSE
  /\ UNCHANGED <<clients, surfaces, buffers, cursor, commit_sequence>>

\* moo_comp_next_event: the oldest event of the client
NextEvent(c) ==
  /\ ClientOk(c)
  /\ events[c] # <<>>
  /\ events' = [events EXCEPT ![c] = Tail(@)]
  /\ UNCHANGED <<clients, surfaces, buffers, frames, cursor, commit_sequence,
                 in_flight>>

-----------------------------------------------------------------------------
Next ==
  \/ ClientCreate
  \/ \E c \in ClientHandle :
       \/ ClientDisconnect(c)
       \/ BufferRegister(c)
       \/ SurfaceCreate(c)
       \/ CursorHide(c)
       \/ NextEvent(c)
       \/ \E b \in BufferHandle :
            \/ BufferUnregister(c, b)
            \/ CursorSetBuffer(c, b)
       \/ \E s \in SurfaceHandle :
            \/ \E b \in BufferHandle \cup {NoHandle} : SurfaceAttach(c, s, b)
            \/ \E t \in Token : SurfaceFrame(c, s, t)
            \/ SurfaceCommit(c, s)
            \/ SurfaceDestroy(c, s)
  \/ \E c \in ClientHandle \cup {NoHandle} : PointerFocus(c)
  \/ BuildFrame
  \/ PresentDone

Spec == Init /\ [][Next]_vars

\* The display loop keeps building frames and reports each one presented.
\* Nothing is assumed of the clients: they need not even read their events.
Fairness == WF_vars(BuildFrame) /\ WF_vars(PresentDone)

FairSpec == Spec /\ Fairness

-----------------------------------------------------------------------------
(* Type invariant.                                                         *)

ClientSlotType == [live : BOOLEAN, generation : Generation \cup {0}]

SurfaceSlotType ==
  [live : BOOLEAN, generation : Generation \cup {0},
   owner : ClientHandle \cup {NoHandle},
   buffer : BufferHandle \cup {NoHandle},
   commit_sequence : 0 .. MaxCommit,
   attach : BOOLEAN,
   pending_buffer : BufferHandle \cup {NoHandle},
   frame_token : Token \cup {NoToken}]

BufferSlotType ==
  [live : BOOLEAN, generation : Generation \cup {0},
   owner : ClientHandle \cup {NoHandle},
   ref_count : Nat, release_armed : BOOLEAN]

FrameSlotType ==
  [state : {"FREE", "WAITING", "ASSIGNED"},
   owner : ClientHandle \cup {NoHandle},
   surface : SurfaceHandle \cup {NoHandle},
   token : Token \cup {NoToken},
   commit_sequence : 0 .. MaxCommit,
   status : Status]

CursorType ==
  [focus_owner : ClientHandle \cup {NoHandle},
   buffer : BufferHandle \cup {NoHandle}]

\* Every variable keeps the shape the C structures give it, and every event
\* a client is to read is filled in: frame slots are written, judged, copied
\* into events and freed by different calls, and an event made from a slot
\* not yet judged or already freed would tell the client nothing.
TypeOK ==
  /\ clients \in [ClientSlot -> ClientSlotType]
  /\ surfaces \in [SurfaceSlot -> SurfaceSlotType]
  /\ buffers \in [BufferSlot -> BufferSlotType]
  /\ frames \in [FrameSlot -> FrameSlotType]
  /\ events \in [ClientHandle -> Seq(Event)]
  /\ cursor \in CursorType
  /\ commit_sequence \in 0 .. MaxCommit
  /\ in_flight \in BOOLEAN

-----------------------------------------------------------------------------
(* Safety.                                                                 *)

\* Whatever names an owner names a live client: an object, a frame, an event
\* or the pointer focus never outlives the client it belongs to, although
\* moo_comp_client_disconnect clears five tables one after the other.
OwnersLive ==
  /\ \A s \in SurfaceSlot : surfaces[s].live => ClientOk(surfaces[s].owner)
  /\ \A b \in BufferSlot : buffers[b].live => ClientOk(buffers[b].owner)
  /\ \A i \in FrameSlot : frames[i].state # "FREE" => ClientOk(frames[i].owner)
  /\ \A c \in ClientHandle : events[c] # <<>> => ClientOk(c)
  /\ cursor.focus_owner # NoHandle => ClientOk(cursor.focus_owner)

\* A buffer that a surface shows or is about to show, or that the cursor
\* shows, is live and belongs to the surface's owner, or to the client with
\* the pointer focus: its borrowed pixels are still there.
NoDanglingBuffer ==
  /\ \A s \in SurfaceSlot : surfaces[s].live =>
       /\ surfaces[s].buffer # NoHandle =>
            OwnedBuffer(surfaces[s].owner, surfaces[s].buffer)
       /\ surfaces[s].attach /\ surfaces[s].pending_buffer # NoHandle =>
            OwnedBuffer(surfaces[s].owner, surfaces[s].pending_buffer)
  /\ cursor.buffer # NoHandle => OwnedBuffer(cursor.focus_owner, cursor.buffer)

RefsTo(b) ==
  Cardinality({s \in SurfaceSlot : surfaces[s].live /\ surfaces[s].buffer = b})
    + IF cursor.buffer = b THEN 1 ELSE 0

\* ref_count counts exactly the surfaces and the cursor that show the buffer,
\* and the release event is owed exactly while there is such a reference.
RefCountExact ==
  \A i \in BufferSlot : buffers[i].live =>
    /\ buffers[i].ref_count = RefsTo(<<i, buffers[i].generation>>)
    /\ buffers[i].release_armed <=> buffers[i].ref_count > 0

\* A client never holds more events, frames and accepted tokens than its
\* share: the room for the FRAME_DONE of an accepted token is never given
\* away again, so the push in moo_comp_present_done, whose result the code
\* throws away, cannot fail.
AcceptedTokenHasRoom ==
  \A c \in ClientHandle : ClientOk(c) =>
    /\ EventsOwned(c) + FramesOwned(c) <= EventQuota
    /\ FramesOwned(c) <= FrameQuota

FramesInUse   == FrameSlot \ FreeFrameSlots
PendingTokens == {s \in SurfaceSlot : /\ surfaces[s].live
                                      /\ surfaces[s].frame_token # NoToken}

\* The tables all clients share always hold what each client was promised:
\* a commit or destroy with an accepted token finds a frame slot, and
\* moo_comp_present_done finds an event slot for every frame, whatever the
\* other clients have queued.
NoCrossClientBlocking ==
  /\ Cardinality(PendingTokens) <= Cardinality(FreeFrameSlots)
  /\ Cardinality(PendingTokens) + Cardinality(FramesInUse) <= FreeEventCount

IsDone(c, t, k) == events[c][k].type = "FRAME_DONE" /\ events[c][k].token = t

PendingPlaces(c, t) == {s \in PendingTokensOf(c) : surfaces[s].frame_token = t}
FramePlaces(c, t)   == {i \in FrameSlotsOf(c) : frames[i].token = t}
EventPlaces(c, t)   == {k \in DOMAIN events[c] : IsDone(c, t, k)}

\* A token of a client is in at most one place on its way from the request
\* over the committed frame to the event: it cannot be reported twice.
TokenInOnePlace ==
  \A c \in ClientHandle, t \in Token :
    Cardinality(PendingPlaces(c, t)) + Cardinality(FramePlaces(c, t))
      + Cardinality(EventPlaces(c, t)) <= 1

\* Of the commits of one surface at most one is reported as shown by a
\* frame; earlier ones are superseded, and those of a destroyed surface
\* are cancelled even while the frame is in flight.
OneShownCommit ==
  \A i, j \in Assigned :
    /\ frames[i].surface = frames[j].surface /\ i # j
         => ~ {frames[i].status, frames[j].status} \subseteq
                {"PRESENTED", "OCCLUDED"}
    /\ ~SurfaceOk(frames[i].surface) => frames[i].status = "CANCELLED"

-----------------------------------------------------------------------------
(* Action properties.                                                      *)

Outstanding(c, t) ==
  PendingPlaces(c, t) \cup FramePlaces(c, t) \cup EventPlaces(c, t) # {}

\* An accepted token ends in one way only: its client reads the FRAME_DONE
\* event, or the client is gone.
TokenEndsByDelivery ==
  [][\A c \in ClientHandle, t \in Token :
       Outstanding(c, t) /\ ~Outstanding(c, t)' =>
         \/ ~ClientOk(c)'
         \/ /\ events[c] # <<>> /\ IsDone(c, t, 1)
            /\ events'[c] = Tail(events[c])]_vars

\* A release event is queued exactly when the last reference to a buffer
\* goes while the buffer stays registered.  This is about the calls of this
\* module: moo_comp_surface_destroy_ex, which is not one of them, disarms the
\* buffer of a surface with effects, also while other surfaces show it.
ReleaseAnnounced ==
  [][\A b \in BufferHandle : BufferOk(b) /\ BufferOk(b)' =>
       LET c == buffers[b[1]].owner
       IN  buffers[b[1]].ref_count > 0 /\ buffers'[b[1]].ref_count = 0
             <=> events'[c] = Append(events[c], ReleaseEvent(b))]_vars

Stale(slots, h) ==
  slots[h[1]].generation = 0 \/ slots[h[1]].generation > h[2]

\* A handle that has become invalid is never valid again, not even when its
\* slot is reused until the generation counter runs out.
StaleForever ==
  [][/\ \A h \in ClientHandle :
          /\ ClientOk(h) /\ ~ClientOk(h)' => Stale(clients, h)'
          /\ Stale(clients, h) => Stale(clients, h)' /\ ~ClientOk(h)'
     /\ \A h \in SurfaceHandle :
          /\ SurfaceOk(h) /\ ~SurfaceOk(h)' => Stale(surfaces, h)'
          /\ Stale(surfaces, h) => Stale(surfaces, h)' /\ ~SurfaceOk(h)'
     /\ \A h \in BufferHandle :
          /\ BufferOk(h) /\ ~BufferOk(h)' => Stale(buffers, h)'
          /\ Stale(buffers, h) => Stale(buffers, h)' /\ ~BufferOk(h)']_vars

\* When a client disconnects, nothing another client owns changes: neither
\* its surfaces, buffers and frames nor its queue, nor its cursor.
DisconnectIsolated ==
  [][\A c, d \in ClientHandle :
       ClientOk(c) /\ ~ClientOk(c)' /\ ClientOk(d) /\ d # c =>
         /\ \A s \in SurfaceSlot :
              surfaces[s].live /\ surfaces[s].owner = d
                => surfaces'[s] = surfaces[s]
         /\ \A b \in BufferSlot :
              buffers[b].live /\ buffers[b].owner = d
                => buffers'[b] = buffers[b]
         /\ \A i \in FrameSlotsOf(d) : frames'[i] = frames[i]
         /\ events'[d] = events[d]
         /\ cursor.focus_owner = d => cursor' = cursor]_vars

-----------------------------------------------------------------------------
(* Liveness.                                                               *)

\* Every committed token reaches the queue of its client, provided the
\* client stays: no client, reading its events or not, can hold it up.
FrameEventuallyDone ==
  \A c \in ClientHandle, t \in Token :
    FramePlaces(c, t) # {} ~> (EventPlaces(c, t) # {} \/ ~ClientOk(c))

-----------------------------------------------------------------------------
(* What a client may rely on, frame token by frame token.                  *)

TokenPhase(c, t) ==
  CASE PendingPlaces(c, t) # {} -> "requested"
    [] FramePlaces(c, t) # {}   -> "committed"
    [] EventPlaces(c, t) # {}   -> "done"
    [] OTHER                    -> "idle"

Callbacks == INSTANCE FrameCallback
  WITH Client <- ClientHandle,
       phase <- [c \in ClientHandle |-> [t \in Token |-> TokenPhase(c, t)]]

\* The compositor implements the frame callback protocol.
CallbacksSpec == Callbacks!Spec
=============================================================================
