------------------------------ MODULE InputCore ------------------------------
(***************************************************************************)
(* The input state machine of moo's display server (moo_input_core.c):     *)
(* focus, pointer, capture, touches, keys, text composition and shortcuts, *)
(* with one event table shared by all clients.  Whatever goes down has an  *)
(* event reserved that takes it up again.                                  *)
(*                                                                         *)
(* An action is one API call that returns MOO_INPUT_OK; a refused call     *)
(* changes nothing.  Event sequence numbers are abstracted to one queue    *)
(* per client.  Coordinates, key symbols, texts and timestamps are left    *)
(* out; so are the serials, which every call must number without a gap.    *)
(*                                                                         *)
(* A call checks the room for all its events before it changes anything    *)
(* and the pushes that follow are not checked here.  In the code a push    *)
(* that fails leaves a call half done; here it would overdraw a queue,     *)
(* and Reservations says that none does.                                   *)
(***************************************************************************)
EXTENDS Integers, Sequences, FiniteSets, SequencesExt

CONSTANTS
  ClientCapacity,        (* client slots                                   *)
  TargetCapacity,        (* target slots                                   *)
  EventCapacity,         (* event slots, shared by all clients             *)
  MaxEventsPerClient,    (* config.max_events_per_client                   *)
  MaxTouches,            (* MOO_INPUT_MAX_TOUCHES                          *)
  MaxShortcuts,          (* MOO_INPUT_MAX_SHORTCUTS                        *)
  MaxGeneration,         (* stands for UINT32_MAX                          *)
  MaxEpoch,              (* stands for UINT64_MAX, the last focus_epoch    *)
  MaxRevision,           (* stands for UINT64_MAX, never an ime_revision   *)
  Key, Button, TouchId,  (* numbers of keys, buttons, contacts             *)
  ShortcutId,            (* ids that clients give their shortcuts          *)
  TextMode,              (* the text modes of targets, or some of them     *)
  FeatureSets            (* what config.features may be                    *)

ASSUME InputAssumption ==
  /\ {ClientCapacity, TargetCapacity, EventCapacity, MaxEventsPerClient,
      MaxGeneration, MaxEpoch, MaxRevision} \subseteq Nat \ {0}
  /\ MaxEventsPerClient <= EventCapacity
  /\ {MaxTouches, MaxShortcuts} \subseteq Nat
  /\ Key \subseteq Nat /\ Button \subseteq Nat /\ TouchId \subseteq Nat
  /\ TextMode \subseteq {"NONE", "NORMAL", "SENSITIVE"}
  /\ FeatureSets \subseteq
       SUBSET {"POINTER", "TOUCH", "STYLUS", "KEYBOARD", "IME", "SHORTCUTS",
               "ACCESSIBILITY", "AUTOMATION"}

VARIABLES
  features,        (* core->config.features: fixed when the core starts    *)
  clients,         (* core->clients                                        *)
  targets,         (* core->targets                                        *)
  events,          (* core->events, the queue of each client handle        *)
  focus,           (* core->focus                                          *)
  focus_epoch,     (* core->focus_epoch                                    *)
  keys,            (* core->key_bits: the keys that are down               *)
  ime_active,      (* core->ime_active                                     *)
  ime_target,      (* core->ime_target                                     *)
  ime_revision,    (* core->ime_revision                                   *)
  pointer_target,  (* core->pointer_target                                 *)
  pointer_capture, (* core->pointer_capture                                *)
  buttons,         (* core->pointer_buttons: the buttons that are down     *)
  touches,         (* core->touches: the target of each contact that is down *)
  shortcuts        (* core->shortcuts: the set of live entries             *)

textVars    == <<ime_active, ime_target, ime_revision>>
focusVars   == <<focus, focus_epoch, keys, textVars>>
pointerVars == <<pointer_target, pointer_capture, buttons>>
seatVars    == <<focusVars, pointerVars, touches>>
vars        == <<features, clients, targets, events, seatVars, shortcuts>>

-----------------------------------------------------------------------------
(* Handles and slots.                                                      *)

ClientSlot   == 1 .. ClientCapacity
TargetSlot   == 1 .. TargetCapacity
Generation   == 1 .. MaxGeneration
NoHandle     == <<0, 0>>
ClientHandle == ClientSlot \X Generation
TargetHandle == TargetSlot \X Generation

\* Generation 0 retires a slot for good.
NextGeneration(g) == IF g = MaxGeneration THEN 0 ELSE g + 1

IsLive(slots, h) ==
  /\ h # NoHandle
  /\ slots[h[1]].live
  /\ slots[h[1]].generation = h[2]

ClientOk(c) == IsLive(clients, c)
TargetOk(t) == IsLive(targets, t)
Owner(t)    == targets[t[1]].owner
Owned(c, t) == TargetOk(t) /\ Owner(t) = c

Lowest(S) == CHOOSE i \in S : \A j \in S : i <= j

Allocatable(slots) ==
  {i \in DOMAIN slots : ~slots[i].live /\ slots[i].generation # 0}

DeadClient(g) ==
  [live |-> FALSE, generation |-> g, queued |-> 0, reserved_cleanup |-> 0]

DeadTarget(g) ==
  [live |-> FALSE, generation |-> g, owner |-> NoHandle, text_mode |-> "NONE"]

-----------------------------------------------------------------------------
(* Events.  Those that only carry data (motion, axis, stylus, repeated     *)
(* keys, moving contacts, preferences) are all called DATA.                *)

EventType ==
  {"FOCUS_IN", "FOCUS_OUT", "KEY_DOWN", "KEY_UP", "SHORTCUT",
   "PREEDIT", "COMMIT", "CANCEL", "ENTER", "LEAVE",
   "BUTTON_DOWN", "BUTTON_UP", "TOUCH_DOWN", "TOUCH_UP", "DATA"}

\* An event of the given type; n is the key, button or contact it is about.
Event(type, t, n) == [type |-> type, target |-> t, number |-> n]

-----------------------------------------------------------------------------
(* Mail: the events that a call adds to each client's queue, and the       *)
(* change of each client's reservations.                                   *)

NoMail == [c \in ClientHandle |-> [news |-> <<>>, reserve |-> 0]]

Mail(c, news, reserve) ==
  [NoMail EXCEPT ![c] = [news |-> news, reserve |-> reserve]]

\* First the mail m, then the mail n.
Then(m, n) ==
  [c \in ClientHandle |-> [news |-> m[c].news \o n[c].news,
                           reserve |-> m[c].reserve + n[c].reserve]]

Queued(c)   == clients[c[1]].queued
Reserved(c) == clients[c[1]].reserved_cleanup

\* The slots of the event table that the queues use, one for every place in
\* a queue, and the free ones.
EventsInUse(queues) == UNION {{c} \X DOMAIN queues[c] : c \in ClientHandle}

FreeEvents(queues) == EventCapacity - Cardinality(EventsInUse(queues))

\* The reservations of all clients, numbered per client.
CleanupReservations(slots) ==
  UNION {{i} \X (1 .. slots[i].reserved_cleanup) :
           i \in {j \in ClientSlot : slots[j].live}}

TotalReserved(slots) == Cardinality(CleanupReservations(slots))

\* The queues and the clients once all events of m are pushed.
EventsAfter(m) == [c \in ClientHandle |-> events[c] \o m[c].news]

ClientsAfter(m) ==
  [i \in ClientSlot |->
     LET c == <<i, clients[i].generation>>
     IN  IF clients[i].live
         THEN [clients[i] EXCEPT !.queued = @ + Len(m[c].news),
                                 !.reserved_cleanup = @ + m[c].reserve]
         ELSE clients[i]]

Receivers(m) == {c \in ClientHandle : m[c].news # <<>>}

\* can_queue, can_pointer_transition, can_focus_transition: the receivers
\* keep within their quota, and the table keeps room for all reservations.
Room(m) ==
  /\ \A c \in Receivers(m) :
       /\ ClientOk(c)
       /\ Reserved(c) + m[c].reserve >= 0
       /\ Queued(c) + Len(m[c].news) + Reserved(c) + m[c].reserve
            <= MaxEventsPerClient
  /\ TotalReserved(ClientsAfter(m)) <= FreeEvents(EventsAfter(m))

\* push_event for every event of m.
Deliver(m) ==
  /\ Room(m)
  /\ events' = EventsAfter(m)
  /\ clients' = ClientsAfter(m)

\* One event about target t to its owner.
Tell(t, type, n, reserve) ==
  /\ TargetOk(t)
  /\ Deliver(Mail(Owner(t), <<Event(type, t, n)>>, reserve))

-----------------------------------------------------------------------------
(* Clients and targets.                                                    *)

Init ==
  /\ features \in FeatureSets
  /\ clients = [i \in ClientSlot |-> DeadClient(1)]
  /\ targets = [i \in TargetSlot |-> DeadTarget(1)]
  /\ events = [c \in ClientHandle |-> <<>>]
  /\ focus = NoHandle
  /\ focus_epoch = 1
  /\ keys = {}
  /\ ime_active = FALSE
  /\ ime_target = NoHandle
  /\ ime_revision = 0
  /\ pointer_target = NoHandle
  /\ pointer_capture = NoHandle
  /\ buttons = {}
  /\ touches = [id \in TouchId |-> NoHandle]
  /\ shortcuts = {}

ClientCreate ==
  /\ Allocatable(clients) # {}
  /\ clients' = [clients EXCEPT ![Lowest(Allocatable(clients))].live = TRUE]
  /\ UNCHANGED <<targets, events, seatVars, shortcuts>>

TargetCreate(c, mode) ==
  /\ ClientOk(c)
  /\ Allocatable(targets) # {}
  /\ LET i == Lowest(Allocatable(targets))
     IN  targets' = [targets EXCEPT ![i].live = TRUE, ![i].owner = c,
                                    ![i].text_mode = mode]
  /\ UNCHANGED <<clients, events, seatVars, shortcuts>>

\* A target may go once nothing on the seat points to it.  Shortcuts that
\* name it stay in the table.
TargetDestroy(c, t) ==
  /\ ClientOk(c)
  /\ Owned(c, t)
  /\ t \notin {focus, pointer_target, pointer_capture}
  /\ \A id \in TouchId : touches[id] # t
  /\ targets' = [targets EXCEPT
                   ![t[1]] = DeadTarget(NextGeneration(t[2]))]
  /\ UNCHANGED <<clients, events, seatVars, shortcuts>>

\* Seeded fault: the next focus has the epoch of the last one.
DropFocusSameEpoch ==
  /\ focus' = NoHandle
  /\ ime_active' = FALSE /\ ime_target' = NoHandle /\ ime_revision' = 0
  /\ keys' = {}
  /\ UNCHANGED focus_epoch

\* The focus goes with its target and tells nobody.
DropFocus ==
  /\ focus' = NoHandle
  /\ focus_epoch' = focus_epoch + 1
  /\ ime_active' = FALSE /\ ime_target' = NoHandle /\ ime_revision' = 0
  /\ keys' = {}

ClientDisconnect(c) ==
  LET lost == {t \in TargetHandle : Owned(c, t)}
  IN  /\ ClientOk(c)
      /\ focus # NoHandle => TargetOk(focus)
      /\ focus \in lost => focus_epoch # MaxEpoch
      /\ events' = [events EXCEPT ![c] = <<>>]
      /\ shortcuts' = {x \in shortcuts : x.owner # c}
      /\ targets' = [i \in TargetSlot |->
                       IF <<i, targets[i].generation>> \in lost
                       THEN DeadTarget(NextGeneration(targets[i].generation))
                       ELSE targets[i]]
      /\ IF focus \in lost THEN DropFocus ELSE UNCHANGED focusVars
      /\ pointer_target' = IF pointer_target \in lost THEN NoHandle
                           ELSE pointer_target
      /\ pointer_capture' = IF pointer_capture \in lost THEN NoHandle
                            ELSE pointer_capture
      /\ buttons' = IF pointer_capture \in lost THEN {} ELSE buttons
      /\ touches' = [id \in TouchId |->
                       IF touches[id] \in lost THEN NoHandle ELSE touches[id]]
      /\ clients' = [clients EXCEPT
                       ![c[1]] = DeadClient(NextGeneration(c[2]))]

-----------------------------------------------------------------------------
(* Focus, keys and shortcuts.                                              *)

\* The events that take up what is down on target t, in rising order.
Ups(type, t, down) ==
  [k \in 1 .. Cardinality(down) |->
     Event(type, t,
           CHOOSE n \in down : Cardinality({m \in down : m <= n}) = k)]

\* Seeded fault: the composition of the old focus is not cancelled.
FarewellWithoutCancel ==
  IF focus = NoHandle THEN NoMail
  ELSE Mail(Owner(focus),
            Ups("KEY_UP", focus, keys) \o <<Event("FOCUS_OUT", focus, 0)>>,
            -(Cardinality(keys) + IF ime_active THEN 1 ELSE 0))

\* Seeded fault: the reservation of the composition is kept.
FarewellKeepingReserve ==
  IF focus = NoHandle THEN NoMail
  ELSE Mail(Owner(focus),
            Ups("KEY_UP", focus, keys)
              \o (IF ime_active THEN <<Event("CANCEL", focus, 0)>> ELSE <<>>)
              \o <<Event("FOCUS_OUT", focus, 0)>>,
            -Cardinality(keys))

\* What the old focus is told: keys up, composition cancelled, focus gone.
Farewell ==
  IF focus = NoHandle THEN NoMail
  ELSE Mail(Owner(focus),
            Ups("KEY_UP", focus, keys)
              \o (IF ime_active THEN <<Event("CANCEL", focus, 0)>> ELSE <<>>)
              \o <<Event("FOCUS_OUT", focus, 0)>>,
            -(Cardinality(keys) + IF ime_active THEN 1 ELSE 0))

Greeting(t, type) ==
  IF t = NoHandle THEN NoMail ELSE Mail(Owner(t), <<Event(type, t, 0)>>, 0)

\* t = NoHandle takes the focus away.  Setting the focus again changes nothing.
SetFocus(t) ==
  /\ focus_epoch # MaxEpoch
  /\ t # NoHandle => TargetOk(t)
  /\ t # focus
  /\ IF focus # NoHandle THEN TargetOk(focus) ELSE keys = {} /\ ~ime_active
  /\ Deliver(Then(Farewell, Greeting(t, "FOCUS_IN")))
  /\ focus' = t
  /\ focus_epoch' = focus_epoch + 1
  /\ keys' = {}
  /\ ime_active' = FALSE /\ ime_target' = NoHandle /\ ime_revision' = 0
  /\ UNCHANGED <<targets, pointerVars, touches, shortcuts>>

\* A press is a SHORTCUT if one is registered for this key and target with
\* the modifiers that are down; which those are is not modelled.
KeyDown(k) ==
  /\ "KEYBOARD" \in features
  /\ focus # NoHandle
  /\ k \notin keys
  /\ \/ Tell(focus, "KEY_DOWN", k, 1)
     \/ /\ "SHORTCUTS" \in features
        /\ \E x \in shortcuts : x.target = focus /\ x.physical = k
        /\ Tell(focus, "SHORTCUT", k, 1)
  /\ keys' = keys \cup {k}
  /\ UNCHANGED <<targets, focus, focus_epoch, textVars, pointerVars, touches,
                 shortcuts>>

KeyUp(k) ==
  /\ "KEYBOARD" \in features
  /\ focus # NoHandle
  /\ k \in keys
  /\ Tell(focus, "KEY_UP", k, -1)
  /\ keys' = keys \ {k}
  /\ UNCHANGED <<targets, focus, focus_epoch, textVars, pointerVars, touches,
                 shortcuts>>

KeyRepeat(k) ==
  /\ "KEYBOARD" \in features
  /\ focus # NoHandle
  /\ k \in keys
  /\ Tell(focus, "DATA", 0, 0)
  /\ UNCHANGED <<targets, seatVars, shortcuts>>

ShortcutRegister(c, t, id, k) ==
  /\ ClientOk(c)
  /\ "SHORTCUTS" \in features
  /\ Owned(c, t)
  /\ \A x \in shortcuts : <<x.owner, x.id>> # <<c, id>>
  /\ Cardinality(shortcuts) < MaxShortcuts
  /\ shortcuts' = shortcuts \cup
                    {[owner |-> c, id |-> id, target |-> t, physical |-> k]}
  /\ UNCHANGED <<clients, targets, events, seatVars>>

ShortcutUnregister(c, id) ==
  /\ ClientOk(c)
  /\ \E x \in shortcuts :
       /\ x.owner = c /\ x.id = id
       /\ shortcuts' = shortcuts \ {x}
  /\ UNCHANGED <<clients, targets, events, seatVars>>

-----------------------------------------------------------------------------
(* Text composition.                                                       *)

\* A text call names the focus epoch it was composed in and the next revision.
TextAccepted(epoch, revision) ==
  /\ "IME" \in features
  /\ epoch = focus_epoch
  /\ revision = ime_revision + 1
  /\ revision # MaxRevision
  /\ focus # NoHandle
  /\ targets[focus[1]].text_mode # "NONE"
  /\ ime_active => ime_target = focus
  /\ ime_revision' = revision
  /\ UNCHANGED <<targets, focus, focus_epoch, keys, pointerVars, touches,
                 shortcuts>>

EndComposition == ime_active' = FALSE /\ ime_target' = NoHandle

\* The first preedit of a composition reserves its end.
TextPreedit(epoch, revision) ==
  /\ TextAccepted(epoch, revision)
  /\ Tell(focus, "PREEDIT", 0, IF ime_active THEN 0 ELSE 1)
  /\ ime_active' = TRUE
  /\ ime_target' = focus

\* Text may also be committed without a composition.
TextCommit(epoch, revision) ==
  /\ TextAccepted(epoch, revision)
  /\ Tell(focus, "COMMIT", 0, IF ime_active THEN -1 ELSE 0)
  /\ IF ime_active THEN EndComposition ELSE UNCHANGED <<ime_active, ime_target>>

TextCancel(epoch, revision) ==
  /\ TextAccepted(epoch, revision)
  /\ ime_active
  /\ Tell(focus, "CANCEL", 0, -1)
  /\ EndComposition

-----------------------------------------------------------------------------
(* Pointer and stylus.                                                     *)

\* Where pointer events go: a button that is down captures the pointer.
Dispatch == IF pointer_capture # NoHandle THEN pointer_capture
            ELSE pointer_target

\* A motion over t, which may be no target.  The entered client reserves
\* its leave; without a change of target, or captured, the motion is data.
PointerMotion(t) ==
  /\ "POINTER" \in features
  /\ IF pointer_capture = NoHandle /\ t # pointer_target
     THEN /\ t # NoHandle => TargetOk(t)
          /\ pointer_target # NoHandle => TargetOk(pointer_target)
          /\ Deliver(Then(
               IF pointer_target = NoHandle THEN NoMail
               ELSE Mail(Owner(pointer_target),
                         <<Event("LEAVE", pointer_target, 0)>>, -1),
               IF t = NoHandle THEN NoMail
               ELSE Mail(Owner(t), <<Event("ENTER", t, 0),
                                     Event("DATA", t, 0)>>, 1)))
          /\ pointer_target' = t
     ELSE /\ Dispatch # NoHandle
          /\ Tell(Dispatch, "DATA", 0, 0)
          /\ UNCHANGED pointer_target
  /\ UNCHANGED <<targets, focusVars, pointer_capture, buttons, touches,
                 shortcuts>>

\* Seeded fault: the release is not reserved.
ButtonDownUnreserved(b) ==
  /\ "POINTER" \in features
  /\ Dispatch # NoHandle
  /\ b \notin buttons
  /\ Tell(Dispatch, "BUTTON_DOWN", b, 0)
  /\ buttons' = buttons \cup {b}
  /\ pointer_capture' = Dispatch
  /\ UNCHANGED <<targets, focusVars, pointer_target, touches, shortcuts>>

ButtonDown(b) ==
  /\ "POINTER" \in features
  /\ Dispatch # NoHandle
  /\ b \notin buttons
  /\ Tell(Dispatch, "BUTTON_DOWN", b, 1)
  /\ buttons' = buttons \cup {b}
  /\ pointer_capture' = Dispatch
  /\ UNCHANGED <<targets, focusVars, pointer_target, touches, shortcuts>>

\* Seeded fault: the first button that goes up ends the capture.
ButtonUpReleasing(b) ==
  /\ "POINTER" \in features
  /\ Dispatch # NoHandle
  /\ b \in buttons
  /\ Tell(Dispatch, "BUTTON_UP", b, -1)
  /\ buttons' = buttons \ {b}
  /\ pointer_capture' = NoHandle
  /\ UNCHANGED <<targets, focusVars, pointer_target, touches, shortcuts>>

\* The last button that goes up ends the capture.
ButtonUp(b) ==
  /\ "POINTER" \in features
  /\ Dispatch # NoHandle
  /\ b \in buttons
  /\ Tell(Dispatch, "BUTTON_UP", b, -1)
  /\ buttons' = buttons \ {b}
  /\ pointer_capture' = IF buttons = {b} THEN NoHandle ELSE pointer_capture
  /\ UNCHANGED <<targets, focusVars, pointer_target, touches, shortcuts>>

\* moo_input_pointer_axis: needs a target, changes nothing.
PointerAxis ==
  /\ "POINTER" \in features
  /\ Dispatch # NoHandle
  /\ Tell(Dispatch, "DATA", 0, 0)
  /\ UNCHANGED <<targets, seatVars, shortcuts>>

\* Everything the pointer holds is taken back.
PointerCancel ==
  /\ "POINTER" \in features
  /\ Dispatch # NoHandle
  /\ TargetOk(Dispatch)
  /\ LET leave == IF pointer_target = NoHandle THEN <<>>
                  ELSE <<Event("LEAVE", pointer_target, 0)>>
     IN  Deliver(Mail(Owner(Dispatch),
                      Ups("BUTTON_UP", Dispatch, buttons) \o leave,
                      -(Cardinality(buttons) + Len(leave))))
  /\ buttons' = {}
  /\ pointer_capture' = NoHandle
  /\ pointer_target' = NoHandle
  /\ UNCHANGED <<targets, focusVars, touches, shortcuts>>

Stylus(t) ==
  /\ "STYLUS" \in features
  /\ Tell(t, "DATA", 0, 0)
  /\ UNCHANGED <<targets, seatVars, shortcuts>>

-----------------------------------------------------------------------------
(* Touch, preferences, reading.                                            *)

TouchDown(t, id) ==
  /\ "TOUCH" \in features
  /\ touches[id] = NoHandle
  /\ Cardinality({i \in TouchId : touches[i] # NoHandle}) < MaxTouches
  /\ Tell(t, "TOUCH_DOWN", id, 1)
  /\ touches' = [touches EXCEPT ![id] = t]
  /\ UNCHANGED <<targets, focusVars, pointerVars, shortcuts>>

\* A contact stays with the target it went down on.
TouchMove(id) ==
  /\ "TOUCH" \in features
  /\ touches[id] # NoHandle
  /\ Tell(touches[id], "DATA", 0, 0)
  /\ UNCHANGED <<targets, seatVars, shortcuts>>

\* MOO_INPUT_TOUCH_UP and MOO_INPUT_TOUCH_CANCEL.
TouchUp(id) ==
  /\ "TOUCH" \in features
  /\ touches[id] # NoHandle
  /\ Tell(touches[id], "TOUCH_UP", id, -1)
  /\ touches' = [touches EXCEPT ![id] = NoHandle]
  /\ UNCHANGED <<targets, focusVars, pointerVars, shortcuts>>

\* Every client is told, or none.
SetPreferences ==
  /\ Deliver([c \in ClientHandle |->
                [news |-> IF ClientOk(c) THEN <<Event("DATA", NoHandle, 0)>>
                          ELSE <<>>,
                 reserve |-> 0]])
  /\ UNCHANGED <<targets, seatVars, shortcuts>>

NextEvent(c) ==
  /\ ClientOk(c)
  /\ events[c] # <<>>
  /\ events' = [events EXCEPT ![c] = Tail(@)]
  /\ clients' = [clients EXCEPT ![c[1]].queued = @ - 1]
  /\ UNCHANGED <<targets, seatVars, shortcuts>>

-----------------------------------------------------------------------------
\* Everything but the calls that end a client or a target.
SeatNext ==
  \/ ClientCreate
  \/ SetPreferences
  \/ PointerAxis
  \/ PointerCancel
  \/ \E c \in ClientHandle :
       \/ NextEvent(c)
       \/ \E mode \in TextMode : TargetCreate(c, mode)
       \/ \E t \in TargetHandle, id \in ShortcutId, k \in Key :
            ShortcutRegister(c, t, id, k)
       \/ \E id \in ShortcutId : ShortcutUnregister(c, id)
  \/ \E t \in TargetHandle \cup {NoHandle} : SetFocus(t) \/ PointerMotion(t)
  \/ \E t \in TargetHandle : Stylus(t)
  \/ \E t \in TargetHandle, id \in TouchId : TouchDown(t, id)
  \/ \E id \in TouchId : TouchMove(id) \/ TouchUp(id)
  \/ \E k \in Key : KeyDown(k) \/ KeyUp(k) \/ KeyRepeat(k)
  \/ \E b \in Button : ButtonDown(b) \/ ButtonUp(b)
  \/ \E epoch \in 1 .. MaxEpoch, revision \in 1 .. MaxRevision :
       \/ TextPreedit(epoch, revision)
       \/ TextCommit(epoch, revision)
       \/ TextCancel(epoch, revision)

\* The core without accessibility nodes; A11yTree adds them.
Next ==
  /\ \/ SeatNext
     \/ \E c \in ClientHandle :
          \/ ClientDisconnect(c)
          \/ \E t \in TargetHandle : TargetDestroy(c, t)
  /\ UNCHANGED features

Spec == Init /\ [][Next]_vars

-----------------------------------------------------------------------------
(* Properties.                                                             *)

\* Every table keeps its type.
TypeOK ==
  /\ features \in FeatureSets
  /\ clients \in [ClientSlot ->
       [live : BOOLEAN, generation : 0 .. MaxGeneration,
        queued : 0 .. MaxEventsPerClient,
        reserved_cleanup : 0 .. MaxEventsPerClient]]
  /\ targets \in [TargetSlot ->
       [live : BOOLEAN, generation : 0 .. MaxGeneration,
        owner : ClientHandle \cup {NoHandle},
        text_mode : TextMode \cup {"NONE"}]]
  /\ \A c \in ClientHandle : \A k \in DOMAIN events[c] :
       /\ events[c][k].type \in EventType
       /\ events[c][k].target \in TargetHandle \cup {NoHandle}
  /\ {focus, ime_target, pointer_target, pointer_capture}
       \subseteq TargetHandle \cup {NoHandle}
  /\ focus_epoch \in 1 .. MaxEpoch
  /\ ime_revision \in 0 .. MaxRevision - 1
  /\ ime_active \in BOOLEAN
  /\ keys \subseteq Key
  /\ buttons \subseteq Button
  /\ touches \in [TouchId -> TargetHandle \cup {NoHandle}]
  /\ shortcuts \subseteq [owner : ClientHandle, id : ShortcutId,
                          target : TargetHandle, physical : Key]

\* The seat points only to live targets of live clients; the pointer is
\* captured where it is, and exactly while a button is down; keys and a
\* composition belong to the focus.  target_destroy, client_disconnect and
\* the pointer calls keep this up between them.
SeatConsistent ==
  /\ TypeOK
  /\ \A i \in TargetSlot : targets[i].live => ClientOk(targets[i].owner)
  /\ \A t \in {focus, pointer_target, pointer_capture}
               \cup {touches[id] : id \in TouchId} : t # NoHandle => TargetOk(t)
  /\ pointer_capture # NoHandle <=> buttons # {}
  /\ pointer_capture # NoHandle => pointer_capture = pointer_target
  /\ keys # {} \/ ime_active => focus # NoHandle
  /\ ime_active => ime_target = focus
  /\ \A x \in shortcuts : ClientOk(x.owner)

\* What client c holds and will have to be told the end of.
Owed(c) ==
    (IF Owned(c, focus) THEN Cardinality(keys) ELSE 0)
  + (IF ime_active /\ Owned(c, ime_target) THEN 1 ELSE 0)
  + (IF Owned(c, pointer_target) THEN 1 ELSE 0)
  + (IF Owned(c, pointer_capture) THEN Cardinality(buttons) ELSE 0)
  + Cardinality({id \in TouchId : Owned(c, touches[id])})

ReservationExact ==
  \A c \in ClientHandle : ClientOk(c) =>
    /\ Reserved(c) = Owed(c)
    /\ Queued(c) = Len(events[c])

ReservationHolds ==
  /\ \A c \in ClientHandle :
       ClientOk(c) => Queued(c) + Reserved(c) <= MaxEventsPerClient
  /\ TotalReserved(clients) <= FreeEvents(events)

\* A client's reservations are the ends it is owed: none leaks when focus,
\* pointer or targets change hands, and none is missing.  And they are
\* covered: within each client's quota, and all together by free slots of the
\* event table that the clients share, so no push fails halfway in a call.
Reservations == ReservationExact /\ ReservationHolds

\* Whatever is down can come up: however full the queues are, the release of
\* a key, button or contact, the end of a composition and the cancelling of
\* the pointer never return MOO_INPUT_WOULD_BLOCK.
ReleaseNeverBlocked ==
  LET up(t) == Mail(Owner(t), <<Event("DATA", t, 0)>>, -1)
      n     == Cardinality(buttons) + 1
  IN  /\ keys # {} \/ ime_active => Room(up(focus))
      /\ buttons # {} => Room(up(pointer_capture))
      /\ pointer_target # NoHandle =>
           Room(Mail(Owner(pointer_target),
                     [i \in 1 .. n |-> Event("DATA", pointer_target, 0)], -n))
      /\ \A id \in TouchId : touches[id] # NoHandle => Room(up(touches[id]))

\* What client c holds of the seat.
View(c) ==
  [focus   |-> IF Owned(c, focus) THEN focus ELSE NoHandle,
   keys    |-> IF Owned(c, focus) THEN keys ELSE {},
   text    |-> ime_active /\ Owned(c, ime_target),
   inside  |-> IF Owned(c, pointer_target) THEN pointer_target ELSE NoHandle,
   buttons |-> IF Owned(c, pointer_capture) THEN buttons ELSE {},
   touches |-> {<<id, touches[id]>> :
                  id \in {i \in TouchId : Owned(c, touches[i])}}]

NothingHeld == [focus |-> NoHandle, keys |-> {}, text |-> FALSE,
                inside |-> NoHandle, buttons |-> {}, touches |-> {}]

\* The views that event e, read in view v, can lead to: one, or none when e
\* makes no sense there.
Reading(v, e) ==
  LET t == e.target
      n == e.number
      one(legal, w) == IF legal THEN {w} ELSE {}
  IN  CASE e.type = "FOCUS_IN"    -> one(v.focus = NoHandle,
                                         [v EXCEPT !.focus = t])
        [] e.type = "FOCUS_OUT"   -> one(v.focus = t /\ v.keys = {} /\ ~v.text,
                                         [v EXCEPT !.focus = NoHandle])
        [] e.type \in {"KEY_DOWN", "SHORTCUT"} ->
                                     one(v.focus = t /\ n \notin v.keys,
                                         [v EXCEPT !.keys = @ \cup {n}])
        [] e.type = "KEY_UP"      -> one(v.focus = t /\ n \in v.keys,
                                         [v EXCEPT !.keys = @ \ {n}])
        [] e.type = "PREEDIT"     -> one(v.focus = t, [v EXCEPT !.text = TRUE])
        [] e.type = "COMMIT"      -> one(v.focus = t, [v EXCEPT !.text = FALSE])
        [] e.type = "CANCEL"      -> one(v.focus = t /\ v.text,
                                         [v EXCEPT !.text = FALSE])
        [] e.type = "ENTER"       -> one(v.inside = NoHandle,
                                         [v EXCEPT !.inside = t])
        [] e.type = "LEAVE"       -> one(v.inside = t /\ v.buttons = {},
                                         [v EXCEPT !.inside = NoHandle])
        [] e.type = "BUTTON_DOWN" -> one(v.inside = t /\ n \notin v.buttons,
                                         [v EXCEPT !.buttons = @ \cup {n}])
        [] e.type = "BUTTON_UP"   -> one(v.inside = t /\ n \in v.buttons,
                                         [v EXCEPT !.buttons = @ \ {n}])
        [] e.type = "TOUCH_DOWN"  -> one(\A x \in v.touches : x[1] # n,
                                         [v EXCEPT !.touches = @ \cup {<<n, t>>}])
        [] e.type = "TOUCH_UP"    -> one(<<n, t>> \in v.touches,
                                         [v EXCEPT !.touches = @ \ {<<n, t>>}])
        [] OTHER                  -> {v}

\* The views that all of es, read one after the other, can lead to.
ReadingAll(v, es) ==
  LET after[i \in 0 .. Len(es)] ==
        IF i = 0 THEN {v} ELSE UNION {Reading(x, es[i]) : x \in after[i - 1]}
  IN  after[Len(es)]

\* The events tell the state: whatever a call changes of what a client holds,
\* it queues for that client the events that say so, each one meaningful after
\* those before it, and it changes the queue in no other way.  So a client
\* that has read its queue knows what it holds, across focus changes,
\* captures, cancellations and the disconnects of others.
EventsTellTheState ==
  [][\A c \in ClientHandle :
       /\ ClientOk(c) /\ ClientOk(c)' =>
            \/ /\ events[c] # <<>>
               /\ events'[c] = Tail(events[c])
               /\ View(c)' = View(c)
            \/ /\ IsPrefix(events[c], events'[c])
               /\ View(c)' \in
                    ReadingAll(View(c), SubSeq(events'[c], Len(events[c]) + 1,
                                               Len(events'[c])))
       /\ ~ClientOk(c) /\ ClientOk(c)' =>
            View(c)' = NothingHeld /\ events'[c] = <<>>]_vars

\* Focus epoch and text revision only move forward, as a pair: a text call
\* that was accepted once, or made for an earlier focus, is never accepted
\* again.
TextMovesForward ==
  [][\/ focus_epoch' > focus_epoch
     \/ focus_epoch' = focus_epoch /\ ime_revision' >= ime_revision]_vars
=============================================================================
