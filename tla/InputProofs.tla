---------------------------- MODULE InputProofs -----------------------------
(***************************************************************************)
(* Proofs about InputCore: for every number of clients, targets, events,   *)
(* keys, buttons and contacts the seat is consistent, what is reserved is  *)
(* what is down, whatever is down can come up, and the events of a client  *)
(* tell it what it holds.                                                  *)
(*                                                                         *)
(* Proofs about A11yTree, which extends it: for every number of nodes,     *)
(* every depth and every way to rearrange them, edges end at live nodes of *)
(* the same tree, every target has one root, and there is no cycle.        *)
(***************************************************************************)
EXTENDS A11yTree, FiniteSetTheorems, SequenceTheorems, NaturalsInduction, TLAPS

-----------------------------------------------------------------------------
(* Slots and handles.                                                      *)

\* A set of naturals that is not empty has a lowest element.
LEMMA LowestIn ==
  ASSUME NEW S, S \subseteq Nat, S # {}
  PROVE  Lowest(S) \in S /\ \A j \in S : Lowest(S) <= j
<1> DEFINE Less == {p \in Nat \X Nat : p[1] < p[2]}
<1>1. IsWellFoundedOn(Less, Nat)
  BY NatLessThanWellFounded DEF OpToRel
<1> HIDE DEF Less
<1>2. PICK i \in S : \A j \in S : ~ (<<j, i>> \in Less)
  BY <1>1, WFMin
<1>3. ASSUME NEW j \in S
      PROVE  i <= j
  <2>1. i \in Nat /\ j \in Nat
    OBVIOUS
  <2>2. <<j, i>> \in Nat \X Nat /\ ~ (<<j, i>> \in Less)
    BY <1>2, <2>1
  <2> QED
    BY <2>1, <2>2 DEF Less
<1> QED
  BY <1>3 DEF Lowest

LEMMA NextGenerationType ==
  ASSUME NEW g \in Generation \cup {0}
  PROVE  NextGeneration(g) \in Generation \cup {0} /\ NextGeneration(g) # g
  BY InputAssumption DEF NextGeneration, Generation

\* The parts of a handle, and that no handle is the invalid one.
LEMMA HandleParts ==
  /\ \A c \in ClientHandle : c[1] \in ClientSlot /\ c[2] \in Generation /\ c = <<c[1], c[2]>>
  /\ \A t \in TargetHandle : t[1] \in TargetSlot /\ t[2] \in Generation /\ t = <<t[1], t[2]>>
  /\ NoHandle \notin ClientHandle
  /\ NoHandle \notin TargetHandle
  BY InputAssumption
     DEF ClientHandle, TargetHandle, ClientSlot, TargetSlot, Generation, NoHandle

LEMMA AllocatableIn ==
  ASSUME NEW N \in Nat, NEW T, NEW slots \in [1 .. N -> T],
         Allocatable(slots) # {}
  PROVE  /\ Lowest(Allocatable(slots)) \in 1 .. N
         /\ ~slots[Lowest(Allocatable(slots))].live
         /\ slots[Lowest(Allocatable(slots))].generation # 0
<1>1. Allocatable(slots) \subseteq Nat
  BY DEF Allocatable
<1>2. Lowest(Allocatable(slots)) \in Allocatable(slots)
  BY <1>1, LowestIn
<1> QED
  BY <1>2 DEF Allocatable

-----------------------------------------------------------------------------
(* Sequences, told without the set their elements are from.                *)

IsQueue(q) == q \in Seq({q[k] : k \in DOMAIN q})

IsEvent(e) ==
  e.type \in EventType /\ e.target \in TargetHandle \cup {NoHandle}

\* A queue of events.
IsEventQueue(q) == IsQueue(q) /\ \A k \in DOMAIN q : IsEvent(q[k])

LEMMA QueueOf ==
  ASSUME NEW S, NEW q \in Seq(S)
  PROVE  /\ IsQueue(q)
         /\ Len(q) \in Nat
         /\ DOMAIN q = 1 .. Len(q)
<1>1. Len(q) \in Nat /\ DOMAIN q = 1 .. Len(q)
  BY LenProperties
<1>2. q \in [1 .. Len(q) -> {q[k] : k \in DOMAIN q}]
  BY <1>1, LenProperties
<1>3. q \in Seq({q[k] : k \in DOMAIN q})
  BY <1>1, <1>2, SeqDef
<1> QED
  BY <1>1, <1>3 DEF IsQueue

LEMMA QueueLength ==
  ASSUME NEW q, IsQueue(q)
  PROVE  /\ Len(q) \in Nat
         /\ DOMAIN q = 1 .. Len(q)
         /\ q = <<>> <=> Len(q) = 0
<1>1. q \in Seq({q[k] : k \in DOMAIN q})
  BY DEF IsQueue
<1> QED
  BY <1>1, LenProperties, EmptySeq

LEMMA Concatenation ==
  ASSUME NEW p, IsEventQueue(p), NEW q, IsEventQueue(q)
  PROVE  /\ IsEventQueue(p \o q)
         /\ Len(p \o q) = Len(p) + Len(q)
         /\ q = <<>> => p \o q = p
<1> DEFINE S == {p[k] : k \in DOMAIN p} \cup {q[k] : k \in DOMAIN q}
<1>1. p \in Seq(S) /\ q \in Seq(S)
  <2>1. /\ p \in Seq({p[k] : k \in DOMAIN p})
        /\ q \in Seq({q[k] : k \in DOMAIN q})
    BY DEF IsEventQueue, IsQueue
  <2> QED
    BY <2>1, SeqMonotonic
<1>2. \A e \in S : IsEvent(e)
  BY DEF IsEventQueue
<1> HIDE DEF S
<1>3. /\ p \o q \in Seq(S)
      /\ Len(p \o q) = Len(p) + Len(q)
  BY <1>1, ConcatProperties
<1>4. \A k \in DOMAIN (p \o q) : (p \o q)[k] \in S
  BY <1>3
<1>5. q = <<>> => p \o q = p
  BY <1>1, ConcatEmptySeq
<1> QED
  BY <1>2, <1>3, <1>4, <1>5, QueueOf DEF IsEventQueue

LEMMA ShortQueues ==
  /\ IsEventQueue(<<>>) /\ Len(<<>>) = 0
  /\ \A e : IsEvent(e) => IsEventQueue(<<e>>) /\ Len(<<e>>) = 1
  /\ \A d, e : IsEvent(d) /\ IsEvent(e) =>
       IsEventQueue(<<d, e>>) /\ Len(<<d, e>>) = 2
<1>1. <<>> \in Seq({}) /\ DOMAIN <<>> = {}
  BY EmptySeq
<1>2. \A e : <<e>> \in Seq({e}) /\ Len(<<e>>) = 1
  OBVIOUS
<1>3. \A d, e : <<d, e>> \in Seq({d, e}) /\ Len(<<d, e>>) = 2
  OBVIOUS
<1>4. IsQueue(<<>>)
  BY <1>1, QueueOf
<1>5. \A e : IsQueue(<<e>>)
  BY <1>2, QueueOf
<1>6. \A d, e : IsQueue(<<d, e>>)
  BY <1>3, QueueOf
<1>7. \A e : \A k \in DOMAIN <<e>> : <<e>>[k] = e
  OBVIOUS
<1>8. \A d, e : \A k \in DOMAIN <<d, e>> : <<d, e>>[k] \in {d, e}
  OBVIOUS
<1> QED
  BY <1>1, <1>2, <1>3, <1>4, <1>5, <1>6, <1>7, <1>8 DEF IsEventQueue

\* The first event leaves the queue.
LEMMA RestOfQueue ==
  ASSUME NEW q, IsEventQueue(q), q # <<>>
  PROVE  /\ IsEventQueue(Tail(q))
         /\ Len(Tail(q)) = Len(q) - 1
         /\ Len(q) >= 1
<1> DEFINE S == {q[k] : k \in DOMAIN q}
<1>1. q \in Seq(S)
  BY DEF IsEventQueue, IsQueue
<1>2. \A e \in S : IsEvent(e)
  BY DEF IsEventQueue
<1> HIDE DEF S
<1>3. Tail(q) \in Seq(S) /\ Len(Tail(q)) = Len(q) - 1 /\ Len(q) \in Nat /\ Len(q) # 0
  BY <1>1, HeadTailProperties, LenProperties, EmptySeq
<1>4. IsQueue(Tail(q)) /\ Len(Tail(q)) = Len(q) - 1 /\ Len(q) >= 1
  <2>1. IsQueue(Tail(q))
    BY <1>3, QueueOf
  <2>2. Len(q) >= 1
    BY <1>3
  <2> QED
    BY <1>3, <2>1, <2>2
<1>5. \A k \in DOMAIN Tail(q) : Tail(q)[k] \in S
  BY <1>3
<1> QED
  BY <1>2, <1>4, <1>5 DEF IsEventQueue

\* There are as many events that take up what is down as things that are down.
LEMMA UpsType ==
  ASSUME NEW type \in EventType, NEW t \in TargetHandle \cup {NoHandle},
         NEW down, IsFiniteSet(down)
  PROVE  /\ IsEventQueue(Ups(type, t, down))
         /\ Len(Ups(type, t, down)) = Cardinality(down)
<1> DEFINE n == Cardinality(down)
           ups == Ups(type, t, down)
<1>1. n \in Nat
  BY FS_CardinalityType
<1>2. /\ DOMAIN ups = 1 .. n
      /\ ups = [k \in 1 .. n |-> ups[k]]
      /\ \A k \in 1 .. n : IsEvent(ups[k])
  BY DEF Ups, IsEvent, Event
<1> HIDE DEF n, ups
<1>3. ups \in Seq({ups[k] : k \in 1 .. n})
  BY <1>1, <1>2, SeqDef
<1>4. IsQueue(ups) /\ Len(ups) = n
  BY <1>1, <1>2, <1>3, QueueOf, LenProperties
<1> QED
  BY <1>2, <1>4 DEF IsEventQueue, ups, n

-----------------------------------------------------------------------------
(* The inductive invariant.                                                *)

ClientSlotType ==
  [live : BOOLEAN, generation : 0 .. MaxGeneration,
   queued : 0 .. MaxEventsPerClient,
   reserved_cleanup : 0 .. MaxEventsPerClient]

TargetSlotType ==
  [live : BOOLEAN, generation : 0 .. MaxGeneration,
   owner : ClientHandle \cup {NoHandle}, text_mode : TextMode \cup {"NONE"}]

Shortcut == [owner : ClientHandle, id : ShortcutId, target : TargetHandle,
             physical : Key]

\* The tables: a slot that is not used holds nothing, what is used belongs to
\* a live client.
TableInv ==
  /\ features \in FeatureSets
  /\ clients \in [ClientSlot -> ClientSlotType]
  /\ targets \in [TargetSlot -> TargetSlotType]
  /\ shortcuts \subseteq Shortcut
  /\ \A i \in ClientSlot : IF clients[i].live THEN clients[i].generation # 0
                           ELSE clients[i].queued = 0 /\ clients[i].reserved_cleanup = 0
  /\ \A i \in TargetSlot : targets[i].live =>
       targets[i].generation # 0 /\ ClientOk(targets[i].owner)
  /\ \A x \in shortcuts : ClientOk(x.owner)

\* Only live clients have events.
QueuesInv ==
  /\ events = [c \in ClientHandle |-> events[c]]
  /\ \A c \in ClientHandle : IsEventQueue(events[c])
  /\ \A c \in ClientHandle : ~ClientOk(c) => events[c] = <<>>

SeatType ==
  /\ {focus, ime_target, pointer_target, pointer_capture}
       \subseteq TargetHandle \cup {NoHandle}
  /\ focus_epoch \in 1 .. MaxEpoch
  /\ ime_revision \in 0 .. MaxRevision - 1
  /\ ime_active \in BOOLEAN
  /\ keys \subseteq Key
  /\ buttons \subseteq Button
  /\ touches \in [TouchId -> TargetHandle \cup {NoHandle}]

Down == {id \in TouchId : touches[id] # NoHandle}

\* What is down is finite, whatever Key, Button and TouchId are.
FiniteInv == IsFiniteSet(keys) /\ IsFiniteSet(buttons) /\ IsFiniteSet(Down)

SeatLinks ==
  /\ \A t \in {focus, pointer_target, pointer_capture} : t # NoHandle => TargetOk(t)
  /\ \A id \in TouchId : touches[id] # NoHandle => TargetOk(touches[id])
  /\ pointer_capture # NoHandle <=> buttons # {}
  /\ pointer_capture # NoHandle => pointer_capture = pointer_target
  /\ keys # {} \/ ime_active => focus # NoHandle
  /\ ime_active => ime_target = focus

SeatInv == SeatType /\ FiniteInv /\ SeatLinks

InputInv == TableInv /\ QueuesInv /\ SeatInv /\ Reservations

LEMMA InvIsConsistent ==
  ASSUME InputInv
  PROVE  SeatConsistent
<1>1. \A c \in ClientHandle : \A k \in DOMAIN events[c] :
        /\ events[c][k].type \in EventType
        /\ events[c][k].target \in TargetHandle \cup {NoHandle}
  BY DEF InputInv, QueuesInv, IsEventQueue, IsEvent
<1>2. TypeOK
  BY <1>1 DEF InputInv, TableInv, SeatInv, SeatType, TypeOK, ClientSlotType,
              TargetSlotType, Shortcut
<1>3. \A t \in {focus, pointer_target, pointer_capture}
                 \cup {touches[id] : id \in TouchId} : t # NoHandle => TargetOk(t)
  BY DEF InputInv, SeatInv, SeatLinks
<1> QED
  BY <1>2, <1>3 DEF InputInv, TableInv, SeatInv, SeatLinks, SeatConsistent

\* A live handle is the one of its slot.
LEMMA LiveHandle ==
  ASSUME TableInv
  PROVE  /\ \A c \in ClientHandle : ClientOk(c) <=>
              clients[c[1]].live /\ clients[c[1]].generation = c[2]
         /\ \A t \in TargetHandle : TargetOk(t) <=>
              targets[t[1]].live /\ targets[t[1]].generation = t[2]
         /\ \A i \in ClientSlot : clients[i].live =>
              /\ <<i, clients[i].generation>> \in ClientHandle
              /\ ClientOk(<<i, clients[i].generation>>)
         /\ \A t \in TargetHandle : TargetOk(t) =>
              Owner(t) \in ClientHandle /\ ClientOk(Owner(t))
         /\ \A c : ~Owned(c, NoHandle)
<1>1. clients \in [ClientSlot -> ClientSlotType] /\ targets \in [TargetSlot -> TargetSlotType]
  BY DEF TableInv
<1>2. /\ \A c \in ClientHandle : c # NoHandle
      /\ \A t \in TargetHandle : t # NoHandle
  BY HandleParts
<1>3. \A i \in ClientSlot : clients[i].live => <<i, clients[i].generation>> \in ClientHandle
  BY <1>1, InputAssumption DEF TableInv, ClientSlotType, ClientHandle, Generation
<1>4. \A t \in TargetHandle : TargetOk(t) =>
        Owner(t) \in ClientHandle /\ ClientOk(Owner(t))
  <2> SUFFICES ASSUME NEW t \in TargetHandle, TargetOk(t)
               PROVE  Owner(t) \in ClientHandle /\ ClientOk(Owner(t))
    OBVIOUS
  <2>1. t[1] \in TargetSlot /\ targets[t[1]].live
    BY HandleParts DEF TargetOk, IsLive
  <2>2. ClientOk(targets[t[1]].owner) /\ targets[t[1]].owner \in ClientHandle \cup {NoHandle}
    BY <1>1, <2>1 DEF TableInv, TargetSlotType
  <2> QED
    BY <2>2 DEF Owner, ClientOk, IsLive
<1> QED
  BY <1>2, <1>3, <1>4 DEF ClientOk, TargetOk, IsLive, Owned

-----------------------------------------------------------------------------
(* Mail.                                                                   *)

\* Events for clients, and a change of reservations only where events are.
IsMail(m) ==
  \A c \in ClientHandle :
    /\ IsEventQueue(m[c].news)
    /\ m[c].reserve \in Int
    /\ m[c].news = <<>> => m[c].reserve = 0

\* m is a mail, and changes the reservations of c by r and no others.
Reserves(m, c, r) ==
  /\ IsMail(m)
  /\ \A d \in ClientHandle : m[d].reserve = IF d = c THEN r ELSE 0

LEMMA MailIsMail ==
  ASSUME NEW c, NEW news, IsEventQueue(news), news # <<>>, NEW r \in Int
  PROVE  Reserves(Mail(c, news, r), c, r)
<1>1. \A d \in ClientHandle :
        Mail(c, news, r)[d] = IF d = c THEN [news |-> news, reserve |-> r]
                              ELSE [news |-> <<>>, reserve |-> 0]
  BY DEF Mail, NoMail
<1> QED
  BY <1>1, ShortQueues DEF IsMail, Reserves

LEMMA NoMailIsMail ==
  IsMail(NoMail) /\ \A d \in ClientHandle : NoMail[d].reserve = 0
  BY ShortQueues DEF NoMail, IsMail

LEMMA ThenIsMail ==
  ASSUME NEW m, IsMail(m), NEW n, IsMail(n)
  PROVE  /\ IsMail(Then(m, n))
         /\ \A d \in ClientHandle :
              /\ Then(m, n)[d].news = m[d].news \o n[d].news
              /\ Then(m, n)[d].reserve = m[d].reserve + n[d].reserve
<1>1. \A d \in ClientHandle :
        /\ Then(m, n)[d].news = m[d].news \o n[d].news
        /\ Then(m, n)[d].reserve = m[d].reserve + n[d].reserve
  BY DEF Then
<1> SUFFICES ASSUME NEW d \in ClientHandle
             PROVE  /\ IsEventQueue(Then(m, n)[d].news)
                    /\ Then(m, n)[d].reserve \in Int
                    /\ Then(m, n)[d].news = <<>> => Then(m, n)[d].reserve = 0
  BY <1>1 DEF IsMail
<1>2. /\ IsEventQueue(m[d].news) /\ IsEventQueue(n[d].news)
      /\ m[d].reserve \in Int /\ n[d].reserve \in Int
      /\ m[d].news = <<>> => m[d].reserve = 0
      /\ n[d].news = <<>> => n[d].reserve = 0
  BY DEF IsMail
<1>3. /\ IsEventQueue(m[d].news \o n[d].news)
      /\ Len(m[d].news \o n[d].news) = Len(m[d].news) + Len(n[d].news)
  BY <1>2, Concatenation
<1>4. /\ Len(m[d].news) \in Nat /\ Len(n[d].news) \in Nat
      /\ m[d].news = <<>> <=> Len(m[d].news) = 0
      /\ n[d].news = <<>> <=> Len(n[d].news) = 0
      /\ m[d].news \o n[d].news = <<>> <=> Len(m[d].news \o n[d].news) = 0
  BY <1>2, <1>3, QueueLength DEF IsEventQueue
<1>5. m[d].news \o n[d].news = <<>> => m[d].news = <<>> /\ n[d].news = <<>>
  BY <1>3, <1>4
<1>6. ASSUME m[d].news \o n[d].news = <<>>
      PROVE  m[d].reserve + n[d].reserve = 0
  <2>1. m[d].news = <<>> /\ n[d].news = <<>>
    BY <1>5, <1>6
  <2>2. m[d].reserve = 0 /\ n[d].reserve = 0
    BY <1>2, <2>1
  <2> QED
    BY <2>2
<1>7. m[d].reserve + n[d].reserve \in Int
  BY <1>2
<1> QED
  BY <1>1, <1>3, <1>6, <1>7

\* What delivering a mail does: nothing to slots and their generations, and
\* to a live client what the mail says.
LEMMA DeliverEffect ==
  ASSUME InputInv, NEW m, IsMail(m), Deliver(m)
  PROVE  /\ clients' \in [ClientSlot -> ClientSlotType]
         /\ \A i \in ClientSlot : /\ clients'[i].live = clients[i].live
                                  /\ clients'[i].generation = clients[i].generation
                                  /\ ~clients[i].live => clients'[i] = clients[i]
         /\ \A c \in ClientHandle \cup {NoHandle} :
              IsLive(clients', c) <=> IsLive(clients, c)
         /\ \A c \in ClientHandle : ClientOk(c) =>
              /\ clients'[c[1]].queued = clients[c[1]].queued + Len(m[c].news)
              /\ clients'[c[1]].reserved_cleanup
                   = clients[c[1]].reserved_cleanup + m[c].reserve
              /\ clients'[c[1]].queued + clients'[c[1]].reserved_cleanup
                   <= MaxEventsPerClient
         /\ \A c \in ClientHandle : /\ IsEventQueue(events'[c])
                                    /\ Len(events'[c]) = Len(events[c]) + Len(m[c].news)
                                    /\ Len(events[c]) \in Nat /\ Len(m[c].news) \in Nat
                                    /\ ~ClientOk(c) => events'[c] = <<>>
         /\ events' = [c \in ClientHandle |-> events'[c]]
         /\ TotalReserved(clients') <= FreeEvents(events')
<1>1. /\ clients \in [ClientSlot -> ClientSlotType]
      /\ TableInv /\ QueuesInv
      /\ MaxEventsPerClient \in Nat
  BY InputAssumption DEF InputInv, TableInv
<1>2. /\ Room(m)
      /\ events' = [c \in ClientHandle |-> events[c] \o m[c].news]
      /\ clients' = ClientsAfter(m)
      /\ TotalReserved(clients') <= FreeEvents(events')
  BY DEF Deliver, Room, EventsAfter
<1>3. \A c \in ClientHandle :
        /\ IsEventQueue(events[c]) /\ IsEventQueue(m[c].news)
        /\ Len(m[c].news) \in Nat
        /\ Len(events[c]) \in Nat
        /\ m[c].news = <<>> <=> Len(m[c].news) = 0
        /\ m[c].reserve \in Int
        /\ m[c].news = <<>> => m[c].reserve = 0
  BY <1>1, QueueLength DEF IsMail, IsEventQueue, QueuesInv
<1>4. ASSUME NEW c \in ClientHandle, ClientOk(c)
      PROVE  /\ clients[c[1]].reserved_cleanup + m[c].reserve >= 0
             /\ clients[c[1]].queued + Len(m[c].news) + clients[c[1]].reserved_cleanup
                  + m[c].reserve <= MaxEventsPerClient
  <2>1. c[1] \in ClientSlot
    BY HandleParts
  <2>2. /\ clients[c[1]].queued \in 0 .. MaxEventsPerClient
        /\ clients[c[1]].reserved_cleanup \in 0 .. MaxEventsPerClient
    BY <1>1, <2>1 DEF ClientSlotType
  <2>3. CASE m[c].news # <<>>
    BY <1>2, <2>3 DEF Room, Receivers, Reserved, Queued
  <2>4. CASE m[c].news = <<>>
    <3>1. Len(m[c].news) = 0 /\ m[c].reserve = 0
      BY <1>3, <2>4
    <3>2. clients[c[1]].queued + clients[c[1]].reserved_cleanup <= MaxEventsPerClient
      BY <1>4 DEF InputInv, Reservations, ReservationHolds, Queued, Reserved
    <3> QED
      BY <2>2, <3>1, <3>2
  <2> QED
    BY <2>3, <2>4
<1>5. ASSUME NEW i \in ClientSlot
      PROVE  /\ clients'[i] \in ClientSlotType
             /\ clients'[i].live = clients[i].live
             /\ clients'[i].generation = clients[i].generation
             /\ ~clients[i].live => clients'[i] = clients[i]
             /\ clients[i].live =>
                  LET c == <<i, clients[i].generation>>
                  IN  /\ clients'[i].queued = clients[i].queued + Len(m[c].news)
                      /\ clients'[i].reserved_cleanup
                           = clients[i].reserved_cleanup + m[c].reserve
                      /\ clients'[i].queued + clients'[i].reserved_cleanup
                           <= MaxEventsPerClient
  <2>1. CASE ~clients[i].live
    BY <1>1, <1>2, <2>1 DEF ClientsAfter
  <2>2. CASE clients[i].live
    <3> DEFINE c == <<i, clients[i].generation>>
               q == clients[i].queued + Len(m[c].news)
               r == clients[i].reserved_cleanup + m[c].reserve
    <3>1. c \in ClientHandle /\ ClientOk(c) /\ c[1] = i
      BY <1>1, <2>2, LiveHandle
    <3>2. clients'[i] = [clients[i] EXCEPT !.queued = q, !.reserved_cleanup = r]
      BY <1>1, <1>2, <2>2 DEF ClientsAfter, ClientSlotType
    <3>3. /\ clients[i].queued \in 0 .. MaxEventsPerClient
          /\ clients[i].reserved_cleanup \in 0 .. MaxEventsPerClient
      BY <1>1 DEF ClientSlotType
    <3>4. Len(m[c].news) \in Nat /\ m[c].reserve \in Int
      BY <1>3, <3>1
    <3>5. r >= 0 /\ q + r <= MaxEventsPerClient
      <4>1. /\ clients[i].reserved_cleanup + m[c].reserve >= 0
            /\ clients[i].queued + Len(m[c].news) + clients[i].reserved_cleanup
                 + m[c].reserve <= MaxEventsPerClient
        BY <1>4, <3>1
      <4> HIDE DEF c
      <4> QED
        BY <3>3, <3>4, <4>1
    <3>6. q \in 0 .. MaxEventsPerClient /\ r \in 0 .. MaxEventsPerClient
      <4> HIDE DEF c
      <4> QED
        BY <1>1, <3>3, <3>4, <3>5
    <3> HIDE DEF q, r, c
    <3>7. /\ clients'[i] \in ClientSlotType
          /\ clients'[i].live = clients[i].live
          /\ clients'[i].generation = clients[i].generation
          /\ clients'[i].queued = q
          /\ clients'[i].reserved_cleanup = r
      BY <1>1, <3>2, <3>6 DEF ClientSlotType
    <3> QED
      BY <2>2, <3>5, <3>7 DEF q, r, c
  <2> QED
    BY <2>1, <2>2
<1>6. clients' = [i \in ClientSlot |-> clients'[i]]
  BY <1>2 DEF ClientsAfter
<1>7. \A c \in ClientHandle \cup {NoHandle} : IsLive(clients', c) <=> IsLive(clients, c)
  <2>1. \A c \in ClientHandle : c[1] \in ClientSlot
    BY HandleParts
  <2> QED
    BY <1>5, <2>1 DEF IsLive
<1>8. ASSUME NEW c \in ClientHandle
      PROVE  /\ IsEventQueue(events'[c])
             /\ Len(events'[c]) = Len(events[c]) + Len(m[c].news)
             /\ ~ClientOk(c) => events'[c] = <<>>
  <2>1. events'[c] = events[c] \o m[c].news
    BY <1>2
  <2>2. ~ClientOk(c) => m[c].news = <<>> /\ events[c] = <<>>
    BY <1>1, <1>2 DEF Room, Receivers, QueuesInv
  <2> QED
    BY <1>3, <2>1, <2>2, Concatenation
<1>9. \A c \in ClientHandle : ClientOk(c) =>
        c[1] \in ClientSlot /\ clients[c[1]].live /\ c = <<c[1], clients[c[1]].generation>>
  BY HandleParts DEF ClientOk, IsLive
<1>10. ASSUME NEW c \in ClientHandle, ClientOk(c)
       PROVE  /\ clients'[c[1]].queued = clients[c[1]].queued + Len(m[c].news)
              /\ clients'[c[1]].reserved_cleanup
                   = clients[c[1]].reserved_cleanup + m[c].reserve
              /\ clients'[c[1]].queued + clients'[c[1]].reserved_cleanup
                   <= MaxEventsPerClient
  <2>1. c[1] \in ClientSlot /\ clients[c[1]].live /\ c = <<c[1], clients[c[1]].generation>>
    BY <1>9, <1>10
  <2> QED
    BY <1>5, <2>1
<1>11. clients' \in [ClientSlot -> ClientSlotType]
  BY <1>5, <1>6
<1>12. events' = [c \in ClientHandle |-> events'[c]]
  BY <1>2
<1> QED
  BY <1>2, <1>3, <1>5, <1>7, <1>8, <1>10, <1>11, <1>12

-----------------------------------------------------------------------------
(* Calls that deliver a mail.                                              *)

\* The contacts that are down on targets of client c.
Contacts(c) == {id \in TouchId : Owned(c, touches[id])}

LEMMA OwedParts ==
  ASSUME TableInv, SeatInv, NEW c
  PROVE  /\ Cardinality(keys) \in Nat
         /\ Cardinality(buttons) \in Nat
         /\ IsFiniteSet(Contacts(c)) /\ Cardinality(Contacts(c)) \in Nat
         /\ Owed(c) \in Nat
<1>1. IsFiniteSet(keys) /\ IsFiniteSet(buttons) /\ IsFiniteSet(Down)
  BY DEF SeatInv, FiniteInv
<1>2. Contacts(c) \subseteq Down
  BY LiveHandle DEF Contacts, Down
<1>3. Cardinality(keys) \in Nat /\ Cardinality(buttons) \in Nat
  BY <1>1, FS_CardinalityType
<1>4. IsFiniteSet(Contacts(c)) /\ Cardinality(Contacts(c)) \in Nat
  BY <1>1, <1>2, FS_Subset, FS_CardinalityType
<1> QED
  BY <1>3, <1>4 DEF Owed, Contacts

LEMMA AfterDelivery ==
  ASSUME InputInv, NEW m, IsMail(m), Deliver(m),
         UNCHANGED <<features, targets, shortcuts>>, SeatInv',
         \A c \in ClientHandle : ClientOk(c) => Owed(c)' = Owed(c) + m[c].reserve
  PROVE  InputInv'
<1>1. TableInv /\ QueuesInv /\ SeatInv /\ ReservationExact
  BY DEF InputInv, Reservations
<1>2. TableInv'
  <2>1. /\ features' \in FeatureSets
        /\ clients' \in [ClientSlot -> ClientSlotType]
        /\ targets' \in [TargetSlot -> TargetSlotType]
        /\ shortcuts' \subseteq Shortcut
    BY <1>1, DeliverEffect DEF TableInv
  <2>2. \A i \in ClientSlot :
          IF clients'[i].live THEN clients'[i].generation # 0
          ELSE clients'[i].queued = 0 /\ clients'[i].reserved_cleanup = 0
    BY <1>1, DeliverEffect DEF TableInv
  <2>3. \A i \in TargetSlot : targets'[i].live =>
          targets'[i].generation # 0 /\ IsLive(clients', targets'[i].owner)
    BY <1>1, DeliverEffect DEF TableInv, TargetSlotType, ClientOk
  <2>4. \A x \in shortcuts' : IsLive(clients', x.owner)
    BY <1>1, DeliverEffect DEF TableInv, Shortcut, ClientOk
  <2> QED
    BY <2>1, <2>2, <2>3, <2>4 DEF TableInv, ClientOk
<1>3. QueuesInv'
  BY DeliverEffect DEF QueuesInv, ClientOk
<1>4. ASSUME NEW c \in ClientHandle, IsLive(clients', c)
      PROVE  /\ clients'[c[1]].reserved_cleanup = Owed(c)'
             /\ clients'[c[1]].queued = Len(events'[c])
             /\ clients'[c[1]].queued + clients'[c[1]].reserved_cleanup
                  <= MaxEventsPerClient
  <2>1. ClientOk(c)
    BY <1>4, DeliverEffect DEF ClientOk
  <2>2. Owed(c)' = Owed(c) + m[c].reserve
    BY <2>1
  <2>3. clients[c[1]].reserved_cleanup = Owed(c) /\ clients[c[1]].queued = Len(events[c])
    BY <1>1, <2>1 DEF ReservationExact, Reserved, Queued
  <2>4. /\ clients'[c[1]].queued = clients[c[1]].queued + Len(m[c].news)
        /\ clients'[c[1]].reserved_cleanup = clients[c[1]].reserved_cleanup + m[c].reserve
        /\ clients'[c[1]].queued + clients'[c[1]].reserved_cleanup
             <= MaxEventsPerClient
        /\ Len(events'[c]) = Len(events[c]) + Len(m[c].news)
    BY <2>1, DeliverEffect
  <2> QED
    BY <2>2, <2>3, <2>4
<1>5. TotalReserved(clients') <= FreeEvents(events')
  BY DeliverEffect
<1>6. Reservations'
  <2>1. ReservationExact'
    BY <1>4 DEF ReservationExact, Reserved, Queued, ClientOk
  <2>2. ReservationHolds'
    BY <1>4, <1>5 DEF ReservationHolds, Reserved, Queued, ClientOk
  <2> QED
    BY <2>1, <2>2 DEF Reservations
<1> QED
  BY <1>2, <1>3, <1>6 DEF InputInv

LEMMA AfterTell ==
  ASSUME InputInv, NEW t \in TargetHandle \cup {NoHandle}, NEW type \in EventType,
         NEW n, NEW r \in Int, Tell(t, type, n, r),
         UNCHANGED <<features, targets, shortcuts>>, SeatInv',
         \A c \in ClientHandle : ClientOk(c) =>
           Owed(c)' = Owed(c) + (IF c = Owner(t) THEN r ELSE 0)
  PROVE  InputInv'
<1> DEFINE m == Mail(Owner(t), <<Event(type, t, n)>>, r)
<1>1. Deliver(m)
  BY DEF Tell
<1>2. IsEvent(Event(type, t, n))
  BY DEF IsEvent, Event
<1>3. IsEventQueue(<<Event(type, t, n)>>) /\ <<Event(type, t, n)>> # <<>>
  BY <1>2, ShortQueues
<1>4. Reserves(m, Owner(t), r)
  <2> DEFINE news == <<Event(type, t, n)>>
  <2>1. IsEventQueue(news) /\ news # <<>> /\ m = Mail(Owner(t), news, r)
    BY <1>3
  <2> HIDE DEF m, news
  <2> QED
    BY <2>1, MailIsMail
<1> HIDE DEF m
<1> QED
  BY <1>1, <1>4, AfterDelivery DEF Reserves

LEMMA SeatUnchanged ==
  ASSUME InputInv, UNCHANGED <<targets, seatVars>>
  PROVE  SeatInv' /\ \A c : Owed(c)' = Owed(c) + 0
<1>1. \A c : Owed(c)' = Owed(c)
  BY DEF seatVars, focusVars, textVars, pointerVars, Owed, Owned, TargetOk, Owner
<1>2. \A c : Owed(c) \in Nat
  BY OwedParts DEF InputInv
<1>3. SeatInv'
  BY DEF InputInv, SeatInv, SeatType, FiniteInv, Down, SeatLinks, TargetOk,
         seatVars, focusVars, textVars, pointerVars
<1> QED
  BY <1>1, <1>2, <1>3

\* Events that only carry data change nothing else.
LEMMA DataStep ==
  ASSUME InputInv, NEW t \in TargetHandle \cup {NoHandle}, NEW n,
         Tell(t, "DATA", n, 0), UNCHANGED <<features, targets, seatVars, shortcuts>>
  PROVE  InputInv'
<1>1. SeatInv' /\ \A c : Owed(c)' = Owed(c) + 0
  BY SeatUnchanged
<1>2. "DATA" \in EventType
  BY DEF EventType
<1> QED
  BY <1>1, <1>2, AfterTell

LEMMA SetPreferencesStep ==
  ASSUME InputInv, SetPreferences, UNCHANGED features
  PROVE  InputInv'
<1> DEFINE m == [c \in ClientHandle |->
                   [news |-> IF ClientOk(c) THEN <<Event("DATA", NoHandle, 0)>>
                             ELSE <<>>,
                    reserve |-> 0]]
<1>1. Deliver(m) /\ UNCHANGED <<targets, seatVars, shortcuts>>
  BY DEF SetPreferences
<1>2. SeatInv' /\ \A c : Owed(c)' = Owed(c) + 0
  BY <1>1, SeatUnchanged
<1>3. IsEvent(Event("DATA", NoHandle, 0))
  BY DEF IsEvent, Event, EventType
<1>4. IsMail(m) /\ \A c \in ClientHandle : m[c].reserve = 0
  BY <1>3, ShortQueues DEF IsMail
<1> HIDE DEF m
<1> QED
  BY <1>1, <1>2, <1>4, AfterDelivery

-----------------------------------------------------------------------------
(* Keys and text.                                                          *)

LEMMA AboutTarget ==
  ASSUME NEW t, TargetOk(t)
  PROVE  /\ \A c : Owned(c, t) <=> c = Owner(t)
         /\ t # NoHandle
  BY DEF Owned, TargetOk, IsLive

LEMMA KeyDownStep ==
  ASSUME InputInv, NEW k \in Key, KeyDown(k), UNCHANGED features
  PROVE  InputInv'
<1>1. PICK type \in {"KEY_DOWN", "SHORTCUT"} : Tell(focus, type, k, 1)
  BY DEF KeyDown
<1>2. /\ k \notin keys
      /\ keys' = keys \cup {k}
      /\ UNCHANGED <<targets, focus, focus_epoch, ime_active, ime_target, ime_revision,
                     pointer_target, pointer_capture, buttons, touches, shortcuts>>
  BY DEF KeyDown, textVars, pointerVars
<1>3. TableInv /\ SeatInv
  BY DEF InputInv
<1>4. /\ IsFiniteSet(keys \cup {k})
      /\ Cardinality(keys \cup {k}) = Cardinality(keys) + 1
  BY <1>2, <1>3, FS_AddElement DEF SeatInv, FiniteInv
<1>5. TargetOk(focus) /\ focus \in TargetHandle \cup {NoHandle}
  BY <1>1, <1>3 DEF Tell, SeatInv, SeatType
<1>6. SeatInv'
  <2>1. focus # NoHandle
    BY <1>5, AboutTarget
  <2> QED
    BY <1>2, <1>3, <1>4, <2>1 DEF SeatInv, SeatType, FiniteInv, Down, SeatLinks, TargetOk
<1>7. ASSUME NEW c \in ClientHandle
      PROVE  Owed(c)' = Owed(c) + (IF c = Owner(focus) THEN 1 ELSE 0)
  <2>1. /\ Cardinality(keys) \in Nat /\ Cardinality(buttons) \in Nat
        /\ Cardinality(Contacts(c)) \in Nat
    BY <1>3, OwedParts
  <2>2. Owned(c, focus) <=> c = Owner(focus)
    BY <1>5, AboutTarget
  <2> QED
    BY <1>2, <1>4, <2>1, <2>2 DEF Owed, Owned, TargetOk, Owner, Contacts
<1>8. type \in EventType
  BY DEF EventType
<1> QED
  BY <1>1, <1>2, <1>5, <1>6, <1>7, <1>8, AfterTell

LEMMA KeyUpStep ==
  ASSUME InputInv, NEW k \in Key, KeyUp(k), UNCHANGED features
  PROVE  InputInv'
<1>1. Tell(focus, "KEY_UP", k, -1)
  BY DEF KeyUp
<1>2. /\ k \in keys
      /\ keys' = keys \ {k}
      /\ UNCHANGED <<targets, focus, focus_epoch, ime_active, ime_target, ime_revision,
                     pointer_target, pointer_capture, buttons, touches, shortcuts>>
  BY DEF KeyUp, textVars, pointerVars
<1>3. TableInv /\ SeatInv
  BY DEF InputInv
<1>4. /\ IsFiniteSet(keys \ {k})
      /\ Cardinality(keys \ {k}) = Cardinality(keys) - 1
  BY <1>2, <1>3, FS_RemoveElement DEF SeatInv, FiniteInv
<1>5. TargetOk(focus) /\ focus \in TargetHandle \cup {NoHandle}
  BY <1>1, <1>3 DEF Tell, SeatInv, SeatType
<1>6. SeatInv'
  <2>1. focus # NoHandle
    BY <1>5, AboutTarget
  <2> QED
    BY <1>2, <1>3, <1>4, <2>1 DEF SeatInv, SeatType, FiniteInv, Down, SeatLinks, TargetOk
<1>7. ASSUME NEW c \in ClientHandle
      PROVE  Owed(c)' = Owed(c) + (IF c = Owner(focus) THEN -1 ELSE 0)
  <2>1. /\ Cardinality(keys) \in Nat /\ Cardinality(buttons) \in Nat
        /\ Cardinality(Contacts(c)) \in Nat
    BY <1>3, OwedParts
  <2>2. Owned(c, focus) <=> c = Owner(focus)
    BY <1>5, AboutTarget
  <2> QED
    BY <1>2, <1>4, <2>1, <2>2 DEF Owed, Owned, TargetOk, Owner, Contacts
<1>8. "KEY_UP" \in EventType
  BY DEF EventType
<1> QED
  BY <1>1, <1>2, <1>5, <1>6, <1>7, <1>8, AfterTell

\* A call about text, of whatever kind.
LEMMA TextStep ==
  ASSUME InputInv, NEW epoch, NEW revision \in 1 .. MaxRevision,
         TextAccepted(epoch, revision), NEW type \in EventType, NEW r \in Int,
         Tell(focus, type, 0, r),
         ime_active' \in BOOLEAN,
         ime_target' \in {ime_target, focus, NoHandle},
         ime_active' => ime_target' = focus,
         r = (IF ime_active' THEN 1 ELSE 0) - (IF ime_active THEN 1 ELSE 0),
         UNCHANGED features
  PROVE  InputInv'
<1>1. /\ ime_revision' = revision /\ revision # MaxRevision
      /\ ime_active => ime_target = focus
      /\ UNCHANGED <<targets, focus, focus_epoch, keys, pointer_target, pointer_capture,
                     buttons, touches, shortcuts>>
  BY DEF TextAccepted, pointerVars
<1>2. TableInv /\ SeatInv
  BY DEF InputInv
<1>3. TargetOk(focus) /\ focus \in TargetHandle \cup {NoHandle}
  BY <1>2 DEF Tell, SeatInv, SeatType
<1>4. SeatInv'
  <2>1. focus # NoHandle
    BY <1>3, AboutTarget
  <2>2. ime_revision' \in 0 .. MaxRevision - 1
    BY <1>1, InputAssumption
  <2> QED
    BY <1>1, <1>2, <2>1, <2>2 DEF SeatInv, SeatType, FiniteInv, Down, SeatLinks, TargetOk
<1>5. ASSUME NEW c \in ClientHandle
      PROVE  Owed(c)' = Owed(c) + (IF c = Owner(focus) THEN r ELSE 0)
  <2>1. /\ Cardinality(keys) \in Nat /\ Cardinality(buttons) \in Nat
        /\ Cardinality(Contacts(c)) \in Nat
    BY <1>2, OwedParts
  <2>2. Owned(c, focus) <=> c = Owner(focus)
    BY <1>3, AboutTarget
  <2>3. /\ ime_active /\ Owned(c, ime_target) <=> ime_active /\ Owned(c, focus)
        /\ ime_active' /\ Owned(c, ime_target)' <=> ime_active' /\ Owned(c, focus)
    BY <1>1 DEF Owned, TargetOk, Owner
  <2> QED
    BY <1>1, <2>1, <2>2, <2>3 DEF Owed, Owned, TargetOk, Owner, Contacts
<1> QED
  BY <1>1, <1>3, <1>4, <1>5, AfterTell

LEMMA TextSteps ==
  ASSUME InputInv, NEW epoch, NEW revision \in 1 .. MaxRevision,
         TextPreedit(epoch, revision) \/ TextCommit(epoch, revision)
           \/ TextCancel(epoch, revision),
         UNCHANGED features
  PROVE  InputInv'
<1>0. /\ ime_active \in BOOLEAN
      /\ {"PREEDIT", "COMMIT", "CANCEL"} \subseteq EventType
  BY DEF InputInv, SeatInv, SeatType, EventType
<1>1. CASE TextPreedit(epoch, revision)
  BY <1>0, <1>1, TextStep DEF TextPreedit
<1>2. CASE TextCommit(epoch, revision)
  <2>1. CASE ime_active
    <3>1. /\ TextAccepted(epoch, revision) /\ Tell(focus, "COMMIT", 0, -1)
          /\ ~ime_active' /\ ime_active' \in BOOLEAN /\ ime_target' = NoHandle
      BY <1>2, <2>1 DEF TextCommit, EndComposition
    <3>2. -1 = (IF ime_active' THEN 1 ELSE 0) - (IF ime_active THEN 1 ELSE 0)
      BY <2>1, <3>1
    <3>3. -1 \in Int
      OBVIOUS
    <3> QED
      BY <1>0, <3>1, <3>2, <3>3, TextStep
  <2>2. CASE ~ime_active
    <3>1. /\ TextAccepted(epoch, revision) /\ Tell(focus, "COMMIT", 0, 0)
          /\ ime_active' = ime_active /\ ime_target' = ime_target
      BY <1>2, <2>2 DEF TextCommit
    <3> QED
      BY <1>0, <2>2, <3>1, TextStep
  <2> QED
    BY <1>0, <2>1, <2>2
<1>3. CASE TextCancel(epoch, revision)
  <2>1. /\ TextAccepted(epoch, revision) /\ Tell(focus, "CANCEL", 0, -1)
        /\ ime_active /\ ~ime_active' /\ ime_active' \in BOOLEAN
        /\ ime_target' = NoHandle
    BY <1>3 DEF TextCancel, EndComposition
  <2>2. -1 = (IF ime_active' THEN 1 ELSE 0) - (IF ime_active THEN 1 ELSE 0)
    BY <2>1
  <2>3. -1 \in Int
    OBVIOUS
  <2> QED
    BY <1>0, <2>1, <2>2, <2>3, TextStep
<1> QED
  BY <1>1, <1>2, <1>3

-----------------------------------------------------------------------------
(* Focus, pointer and contacts.                                            *)

\* A queue with an event at its end.
LEMMA EndsWith ==
  ASSUME NEW q, IsEventQueue(q), NEW e, IsEvent(e)
  PROVE  IsEventQueue(q \o <<e>>) /\ q \o <<e>> # <<>>
<1>1. IsEventQueue(<<e>>) /\ Len(<<e>>) = 1
  BY ShortQueues
<1>2. IsEventQueue(q \o <<e>>) /\ Len(q \o <<e>>) = Len(q) + 1
  BY <1>1, Concatenation
<1>3. Len(q) \in Nat
  BY QueueLength DEF IsEventQueue
<1>4. q \o <<e>> = <<>> => Len(q \o <<e>>) = 0
  BY <1>2, QueueLength DEF IsEventQueue
<1> QED
  BY <1>2, <1>3, <1>4

\* The old focus is told the end of all that it holds as the focus.
LEMMA FarewellMail ==
  ASSUME InputInv
  PROVE  /\ IsMail(Farewell)
         /\ \A d \in ClientHandle : Farewell[d].reserve =
              IF focus # NoHandle /\ d = Owner(focus)
              THEN -(Cardinality(keys) + IF ime_active THEN 1 ELSE 0) ELSE 0
<1>1. CASE focus = NoHandle
  BY <1>1, NoMailIsMail DEF Farewell
<1>2. CASE focus # NoHandle
  <2> DEFINE cancel == IF ime_active THEN <<Event("CANCEL", focus, 0)>> ELSE <<>>
             q == Ups("KEY_UP", focus, keys) \o cancel
             news == q \o <<Event("FOCUS_OUT", focus, 0)>>
             r == -(Cardinality(keys) + IF ime_active THEN 1 ELSE 0)
  <2>1. /\ focus \in TargetHandle \cup {NoHandle} /\ IsFiniteSet(keys)
        /\ ime_active \in BOOLEAN
    BY DEF InputInv, SeatInv, SeatType, FiniteInv
  <2>2. {"KEY_UP", "CANCEL", "FOCUS_OUT"} \subseteq EventType
    BY DEF EventType
  <2>3. IsEvent(Event("CANCEL", focus, 0)) /\ IsEvent(Event("FOCUS_OUT", focus, 0))
    BY <2>1, <2>2 DEF IsEvent, Event
  <2>4. IsEventQueue(Ups("KEY_UP", focus, keys))
    BY <2>1, <2>2, UpsType
  <2>5. IsEventQueue(cancel)
    BY <2>3, ShortQueues
  <2>6. IsEventQueue(q)
    <3> HIDE DEF cancel
    <3> QED
      BY <2>4, <2>5, Concatenation
  <2>7. IsEventQueue(news) /\ news # <<>>
    <3> HIDE DEF q
    <3> QED
      BY <2>3, <2>6, EndsWith
  <2>8. r \in Int
    BY <2>1, FS_CardinalityType
  <2>9. Farewell = Mail(Owner(focus), news, r)
    BY <1>2 DEF Farewell
  <2> HIDE DEF cancel, q, news, r
  <2>10. Reserves(Farewell, Owner(focus), r)
    BY <2>7, <2>8, <2>9, MailIsMail
  <2> QED
    BY <1>2, <2>10 DEF Reserves, r
<1> QED
  BY <1>1, <1>2

LEMMA GreetingMail ==
  ASSUME NEW t \in TargetHandle \cup {NoHandle}, NEW type \in EventType
  PROVE  /\ IsMail(Greeting(t, type))
         /\ \A d \in ClientHandle : Greeting(t, type)[d].reserve = 0
<1>1. CASE t = NoHandle
  BY <1>1, NoMailIsMail DEF Greeting
<1>2. CASE t # NoHandle
  <2> DEFINE news == <<Event(type, t, 0)>>
  <2>1. IsEvent(Event(type, t, 0))
    BY DEF IsEvent, Event
  <2>2. IsEventQueue(news) /\ news # <<>>
    BY <2>1, ShortQueues
  <2>3. Greeting(t, type) = Mail(Owner(t), news, 0)
    BY <1>2 DEF Greeting
  <2> HIDE DEF news
  <2>4. Reserves(Greeting(t, type), Owner(t), 0)
    BY <2>2, <2>3, MailIsMail
  <2> QED
    BY <2>4 DEF Reserves
<1> QED
  BY <1>1, <1>2

LEMMA SetFocusStep ==
  ASSUME InputInv, NEW t \in TargetHandle \cup {NoHandle}, SetFocus(t),
         UNCHANGED features
  PROVE  InputInv'
<1> DEFINE m == Then(Farewell, Greeting(t, "FOCUS_IN"))
<1>1. /\ Deliver(m)
      /\ focus_epoch # MaxEpoch
      /\ t # NoHandle => TargetOk(t)
      /\ focus = NoHandle => keys = {} /\ ~ime_active
      /\ focus # NoHandle => TargetOk(focus)
  BY DEF SetFocus
<1>2. /\ focus' = t /\ focus_epoch' = focus_epoch + 1
      /\ keys' = {}
      /\ ~ime_active' /\ ime_active' \in BOOLEAN
      /\ ime_target' = NoHandle /\ ime_revision' = 0
      /\ UNCHANGED <<targets, pointer_target, pointer_capture, buttons, touches, shortcuts>>
  BY DEF SetFocus, pointerVars
<1>3. TableInv /\ SeatInv
  BY DEF InputInv
<1>4. IsMail(m) /\ \A d \in ClientHandle : m[d].reserve = Farewell[d].reserve
  <2>1. "FOCUS_IN" \in EventType
    BY DEF EventType
  <2>2. /\ IsMail(Greeting(t, "FOCUS_IN"))
        /\ \A d \in ClientHandle : Greeting(t, "FOCUS_IN")[d].reserve = 0
    BY <2>1, GreetingMail
  <2>3. IsMail(Farewell)
    BY FarewellMail
  <2>4. /\ IsMail(m)
        /\ \A d \in ClientHandle :
             m[d].reserve = Farewell[d].reserve + Greeting(t, "FOCUS_IN")[d].reserve
    <3> HIDE DEF m
    <3> QED
      BY <2>2, <2>3, ThenIsMail DEF m
  <2>5. \A d \in ClientHandle : Farewell[d].reserve \in Int
    BY <2>3 DEF IsMail
  <2> HIDE DEF m
  <2> QED
    BY <2>2, <2>4, <2>5
<1> HIDE DEF m
<1>5. IsFiniteSet({}) /\ Cardinality({}) = 0
  BY FS_EmptySet
<1>6. SeatInv'
  <2>1. focus_epoch' \in 1 .. MaxEpoch /\ ime_revision' \in 0 .. MaxRevision - 1
    BY <1>1, <1>2, <1>3, InputAssumption DEF SeatInv, SeatType
  <2> QED
    BY <1>1, <1>2, <1>3, <1>5, <2>1
       DEF SeatInv, SeatType, FiniteInv, Down, SeatLinks, TargetOk
<1>7. ASSUME NEW c \in ClientHandle
      PROVE  Owed(c)' = Owed(c) + m[c].reserve
  <2>1. /\ Cardinality(keys) \in Nat /\ Cardinality(buttons) \in Nat
        /\ Cardinality(Contacts(c)) \in Nat
    BY <1>3, OwedParts
  <2>2. m[c].reserve = IF Owned(c, focus)
                       THEN -(Cardinality(keys) + IF ime_active THEN 1 ELSE 0) ELSE 0
    <3>1. Owned(c, focus) <=> focus # NoHandle /\ c = Owner(focus)
      BY <1>1, <1>3, AboutTarget, LiveHandle
    <3> QED
      BY <1>4, <3>1, FarewellMail
  <2>3. ime_active => ime_target = focus
    BY <1>3 DEF SeatInv, SeatLinks
  <2> QED
    BY <1>2, <1>5, <2>1, <2>2, <2>3 DEF Owed, Owned, TargetOk, Owner, Contacts
<1> QED
  BY <1>1, <1>2, <1>4, <1>6, <1>7, AfterDelivery

LEMMA DispatchTarget ==
  ASSUME InputInv, Dispatch # NoHandle
  PROVE  /\ pointer_target = Dispatch
         /\ Dispatch \in TargetHandle
         /\ TargetOk(Dispatch)
         /\ pointer_capture # NoHandle => pointer_capture = Dispatch
  BY DEF InputInv, SeatInv, SeatType, SeatLinks, Dispatch

LEMMA PointerMotionStep ==
  ASSUME InputInv, NEW t \in TargetHandle \cup {NoHandle}, PointerMotion(t),
         UNCHANGED features
  PROVE  InputInv'
<1>0. /\ TableInv /\ SeatInv
      /\ UNCHANGED <<targets, focusVars, pointer_capture, buttons, touches, shortcuts>>
  BY DEF InputInv, PointerMotion
<1>1. CASE pointer_capture = NoHandle /\ t # pointer_target
  <2> DEFINE old == pointer_target
             leave == <<Event("LEAVE", old, 0)>>
             enter == <<Event("ENTER", t, 0), Event("DATA", t, 0)>>
             m1 == IF old # NoHandle THEN Mail(Owner(old), leave, -1) ELSE NoMail
             m2 == IF t # NoHandle THEN Mail(Owner(t), enter, 1) ELSE NoMail
             m == Then(m1, m2)
  <2>1. /\ t # NoHandle => TargetOk(t)
        /\ old # NoHandle => TargetOk(old)
        /\ Deliver(m)
        /\ pointer_target' = t
    BY <1>1 DEF PointerMotion
  <2>2. /\ IsEventQueue(leave) /\ leave # <<>>
        /\ IsEventQueue(enter) /\ enter # <<>>
    <3>1. IsEvent(Event("LEAVE", old, 0)) /\ IsEvent(Event("ENTER", t, 0))
            /\ IsEvent(Event("DATA", t, 0))
      BY <1>0 DEF SeatInv, SeatType, IsEvent, Event, EventType
    <3> QED
      BY <3>1, ShortQueues
  <2> HIDE DEF leave, enter
  <2>3. /\ IsMail(m1)
        /\ \A d \in ClientHandle :
             m1[d].reserve = IF old # NoHandle /\ d = Owner(old) THEN -1 ELSE 0
    <3>1. CASE old = NoHandle
      BY <3>1, NoMailIsMail
    <3>2. CASE old # NoHandle
      <4>1. Reserves(m1, Owner(old), -1)
        BY <2>2, <3>2, MailIsMail
      <4> QED
        BY <3>2, <4>1 DEF Reserves
    <3> QED
      BY <3>1, <3>2
  <2>4. /\ IsMail(m2)
        /\ \A d \in ClientHandle :
             m2[d].reserve = IF t # NoHandle /\ d = Owner(t) THEN 1 ELSE 0
    <3>1. CASE t = NoHandle
      BY <3>1, NoMailIsMail
    <3>2. CASE t # NoHandle
      <4>1. Reserves(m2, Owner(t), 1)
        BY <2>2, <3>2, MailIsMail
      <4> QED
        BY <3>2, <4>1 DEF Reserves
    <3> QED
      BY <3>1, <3>2
  <2> HIDE DEF m1, m2
  <2>5. /\ IsMail(m)
        /\ \A d \in ClientHandle : m[d].reserve = m1[d].reserve + m2[d].reserve
    <3>1. IsMail(m1) /\ IsMail(m2)
      BY <2>3, <2>4
    <3> QED
      BY <3>1, ThenIsMail
  <2> HIDE DEF m
  <2>6. SeatInv'
    BY <1>0, <1>1, <2>1 DEF SeatInv, SeatType, FiniteInv, Down, SeatLinks, TargetOk,
                            focusVars, textVars
  <2>7. ASSUME NEW c \in ClientHandle
        PROVE  Owed(c)' = Owed(c) + m[c].reserve
    <3>1. /\ Cardinality(keys) \in Nat /\ Cardinality(buttons) \in Nat
          /\ Cardinality(Contacts(c)) \in Nat
      BY <1>0, OwedParts
    <3>2. /\ Owned(c, old) <=> old # NoHandle /\ c = Owner(old)
          /\ Owned(c, t) <=> t # NoHandle /\ c = Owner(t)
      BY <1>0, <2>1, AboutTarget, LiveHandle
    <3>3. m[c].reserve = (IF Owned(c, t) THEN 1 ELSE 0) - (IF Owned(c, old) THEN 1 ELSE 0)
      BY <2>3, <2>4, <2>5, <3>2
    <3> QED
      BY <1>0, <2>1, <3>1, <3>3
         DEF Owed, Owned, TargetOk, Owner, Contacts, focusVars, textVars
  <2> QED
    BY <1>0, <2>1, <2>5, <2>6, <2>7, AfterDelivery
<1>2. CASE ~(pointer_capture = NoHandle /\ t # pointer_target)
  <2>1. /\ Dispatch # NoHandle
        /\ Tell(Dispatch, "DATA", 0, 0)
        /\ UNCHANGED pointer_target
    BY <1>2 DEF PointerMotion
  <2>2. UNCHANGED <<features, targets, seatVars, shortcuts>>
    BY <1>0, <2>1 DEF seatVars, pointerVars
  <2> QED
    BY <2>1, <2>2, DispatchTarget, DataStep
<1> QED
  BY <1>1, <1>2

LEMMA ButtonDownStep ==
  ASSUME InputInv, NEW b \in Button, ButtonDown(b), UNCHANGED features
  PROVE  InputInv'
<1> DEFINE t == Dispatch
<1>1. /\ Tell(t, "BUTTON_DOWN", b, 1)
      /\ b \notin buttons
      /\ buttons' = buttons \cup {b}
      /\ pointer_capture' = t
      /\ UNCHANGED <<targets, focusVars, pointer_target, touches, shortcuts>>
  BY DEF ButtonDown
<1>2. TableInv /\ SeatInv
  BY DEF InputInv
<1>3. /\ t # NoHandle /\ pointer_target = t /\ t \in TargetHandle /\ TargetOk(t)
      /\ pointer_capture # NoHandle => pointer_capture = t
  BY DispatchTarget DEF ButtonDown
<1> HIDE DEF t
<1>4. /\ IsFiniteSet(buttons \cup {b})
      /\ Cardinality(buttons \cup {b}) = Cardinality(buttons) + 1
  BY <1>1, <1>2, FS_AddElement DEF SeatInv, FiniteInv
<1>5. SeatInv'
  BY <1>1, <1>2, <1>3, <1>4 DEF SeatInv, SeatType, FiniteInv, Down, SeatLinks, TargetOk,
                                focusVars, textVars
<1>6. ASSUME NEW c \in ClientHandle
      PROVE  Owed(c)' = Owed(c) + (IF c = Owner(t) THEN 1 ELSE 0)
  <2>1. /\ Cardinality(keys) \in Nat /\ Cardinality(buttons) \in Nat
        /\ Cardinality(Contacts(c)) \in Nat
    BY <1>2, OwedParts
  <2>2. Owned(c, t) <=> c = Owner(t)
    BY <1>3, AboutTarget
  <2>3. (IF Owned(c, pointer_capture) THEN Cardinality(buttons) ELSE 0)
          = IF Owned(c, t) THEN Cardinality(buttons) ELSE 0
    <3>1. CASE pointer_capture = NoHandle
      <4>1. buttons = {}
        BY <1>2, <3>1 DEF SeatInv, SeatLinks
      <4> QED
        BY <4>1, FS_EmptySet
    <3>2. CASE pointer_capture # NoHandle
      BY <1>3, <3>2
    <3> QED
      BY <3>1, <3>2
  <2> QED
    BY <1>1, <1>3, <1>4, <2>1, <2>2, <2>3
       DEF Owed, Owned, TargetOk, Owner, Contacts, focusVars, textVars
<1>7. "BUTTON_DOWN" \in EventType
  BY DEF EventType
<1>8. UNCHANGED <<features, targets, shortcuts>>
  BY <1>1
<1> QED
  BY <1>1, <1>3, <1>5, <1>6, <1>7, <1>8, AfterTell

LEMMA ButtonUpStep ==
  ASSUME InputInv, NEW b \in Button, ButtonUp(b), UNCHANGED features
  PROVE  InputInv'
<1> DEFINE t == Dispatch
<1>1. /\ Tell(t, "BUTTON_UP", b, -1)
      /\ b \in buttons
      /\ buttons' = buttons \ {b}
      /\ pointer_capture' = IF buttons = {b} THEN NoHandle ELSE pointer_capture
      /\ UNCHANGED <<targets, focusVars, pointer_target, touches, shortcuts>>
  BY DEF ButtonUp
<1>2. TableInv /\ SeatInv
  BY DEF InputInv
<1>3. /\ t # NoHandle /\ pointer_target = t /\ t \in TargetHandle /\ TargetOk(t)
      /\ pointer_capture = t
  BY <1>1, <1>2, DispatchTarget DEF ButtonUp, SeatInv, SeatLinks
<1> HIDE DEF t
<1>4. /\ IsFiniteSet(buttons \ {b})
      /\ Cardinality(buttons \ {b}) = Cardinality(buttons) - 1
      /\ buttons = {b} <=> buttons \ {b} = {}
      /\ buttons = {b} => Cardinality(buttons) = 1
  <2>1. IsFiniteSet(buttons)
    BY <1>2 DEF SeatInv, FiniteInv
  <2>2. /\ IsFiniteSet(buttons \ {b})
        /\ Cardinality(buttons \ {b}) = Cardinality(buttons) - 1
    BY <1>1, <2>1, FS_RemoveElement
  <2>3. buttons = {b} <=> buttons \ {b} = {}
    BY <1>1
  <2>4. buttons = {b} => Cardinality(buttons) = 1
    BY FS_Singleton
  <2> QED
    BY <2>2, <2>3, <2>4
<1>5. SeatInv'
  BY <1>1, <1>2, <1>3, <1>4 DEF SeatInv, SeatType, FiniteInv, Down, SeatLinks, TargetOk,
                                focusVars, textVars
<1>6. ASSUME NEW c \in ClientHandle
      PROVE  Owed(c)' = Owed(c) + (IF c = Owner(t) THEN -1 ELSE 0)
  <2>1. /\ Cardinality(keys) \in Nat /\ Cardinality(buttons) \in Nat
        /\ Cardinality(Contacts(c)) \in Nat
    BY <1>2, OwedParts
  <2>2. Owned(c, t) <=> c = Owner(t)
    BY <1>3, AboutTarget
  <2>3. (IF Owned(c, pointer_capture)' THEN Cardinality(buttons') ELSE 0)
          = IF Owned(c, t) THEN Cardinality(buttons) - 1 ELSE 0
    <3>1. CASE buttons = {b}
      <4>1. pointer_capture' = NoHandle /\ Cardinality(buttons) = 1
        BY <1>1, <1>4, <3>1
      <4> QED
        BY <4>1 DEF Owned, TargetOk, IsLive
    <3>2. CASE buttons # {b}
      BY <1>1, <1>3, <1>4, <3>2 DEF Owned, TargetOk, Owner
    <3> QED
      BY <3>1, <3>2
  <2> QED
    BY <1>1, <1>3, <2>1, <2>2, <2>3
       DEF Owed, Owned, TargetOk, Owner, Contacts, focusVars, textVars
<1>7. "BUTTON_UP" \in EventType
  BY DEF EventType
<1>8. UNCHANGED <<features, targets, shortcuts>>
  BY <1>1
<1>9. -1 \in Int
  OBVIOUS
<1> QED
  BY <1>1, <1>3, <1>5, <1>6, <1>7, <1>8, <1>9, AfterTell

LEMMA PointerCancelStep ==
  ASSUME InputInv, PointerCancel, UNCHANGED features
  PROVE  InputInv'
<1> DEFINE t == Dispatch
           leave == <<Event("LEAVE", t, 0)>>
           ups == Ups("BUTTON_UP", t, buttons)
           m == Mail(Owner(t), ups \o leave, -(Cardinality(buttons) + 1))
<1>1. TableInv /\ SeatInv
  BY DEF InputInv
<1>2. t # NoHandle /\ pointer_target = t /\ t \in TargetHandle /\ TargetOk(t)
      /\ (pointer_capture # NoHandle => pointer_capture = t)
  BY DispatchTarget DEF PointerCancel
<1>3. /\ Deliver(m)
      /\ buttons' = {} /\ pointer_capture' = NoHandle /\ pointer_target' = NoHandle
      /\ UNCHANGED <<targets, focusVars, touches, shortcuts>>
  <2>1. Len(leave) = 1
    BY ShortQueues
  <2> HIDE DEF leave
  <2> QED
    BY <1>2, <2>1 DEF PointerCancel, leave
<1> HIDE DEF t
<1>4. Cardinality(buttons) \in Nat /\ IsFiniteSet(buttons)
  BY <1>1, OwedParts DEF SeatInv, FiniteInv
<1>5. Reserves(m, Owner(t), -(Cardinality(buttons) + 1))
  <2>1. {"BUTTON_UP", "LEAVE"} \subseteq EventType
    BY DEF EventType
  <2>2. IsEvent(Event("LEAVE", t, 0))
    BY <1>2, <2>1 DEF IsEvent, Event
  <2>3. IsEventQueue(ups)
    BY <1>2, <1>4, <2>1, UpsType
  <2>4. IsEventQueue(ups \o leave) /\ ups \o leave # <<>>
    <3> HIDE DEF ups
    <3> QED
      BY <2>2, <2>3, EndsWith
  <2>5. -(Cardinality(buttons) + 1) \in Int
    BY <1>4
  <2> HIDE DEF ups, leave
  <2> QED
    BY <2>4, <2>5, MailIsMail
<1> HIDE DEF m
<1>6. IsFiniteSet({}) /\ Cardinality({}) = 0
  BY FS_EmptySet
<1>7. SeatInv'
  BY <1>1, <1>3, <1>6 DEF SeatInv, SeatType, FiniteInv, Down, SeatLinks, TargetOk,
                          focusVars, textVars
<1>8. ASSUME NEW c \in ClientHandle
      PROVE  Owed(c)' = Owed(c) + m[c].reserve
  <2>1. /\ Cardinality(keys) \in Nat /\ Cardinality(buttons) \in Nat
        /\ Cardinality(Contacts(c)) \in Nat
    BY <1>1, OwedParts
  <2>2. Owned(c, t) <=> c = Owner(t)
    BY <1>2, AboutTarget
  <2>3. (IF Owned(c, pointer_capture) THEN Cardinality(buttons) ELSE 0)
          = IF Owned(c, t) THEN Cardinality(buttons) ELSE 0
    <3>1. CASE pointer_capture = NoHandle
      <4>1. buttons = {}
        BY <1>1, <3>1 DEF SeatInv, SeatLinks
      <4> QED
        BY <4>1, FS_EmptySet
    <3>2. CASE pointer_capture # NoHandle
      BY <1>2, <3>2
    <3> QED
      BY <3>1, <3>2
  <2>4. m[c].reserve = IF Owned(c, t) THEN -(Cardinality(buttons) + 1) ELSE 0
    BY <1>5, <2>2 DEF Reserves
  <2>5. ~Owned(c, NoHandle)'
    BY DEF Owned, TargetOk, IsLive
  <2> QED
    BY <1>2, <1>3, <2>1, <2>3, <2>4, <2>5
       DEF Owed, Owned, TargetOk, Owner, Contacts, focusVars, textVars
<1> QED
  BY <1>3, <1>5, <1>7, <1>8, AfterDelivery DEF Reserves

LEMMA TouchDownStep ==
  ASSUME InputInv, NEW t \in TargetHandle, NEW id \in TouchId, TouchDown(t, id),
         UNCHANGED features
  PROVE  InputInv'
<1>1. /\ Tell(t, "TOUCH_DOWN", id, 1)
      /\ touches[id] = NoHandle
      /\ touches' = [touches EXCEPT ![id] = t]
      /\ UNCHANGED <<targets, focusVars, pointerVars, shortcuts>>
  BY DEF TouchDown
<1>2. TableInv /\ SeatInv /\ touches \in [TouchId -> TargetHandle \cup {NoHandle}]
  BY DEF InputInv, SeatInv, SeatType
<1>3. TargetOk(t) /\ t # NoHandle
  BY <1>1, AboutTarget DEF Tell
<1>4. SeatInv'
  <2>1. Down' = Down \cup {id}
    BY <1>1, <1>2, <1>3 DEF Down
  <2>2. IsFiniteSet(Down')
    BY <1>2, <2>1, FS_AddElement DEF SeatInv, FiniteInv
  <2> QED
    BY <1>1, <1>2, <1>3, <2>2 DEF SeatInv, SeatType, FiniteInv, SeatLinks, TargetOk,
                                  focusVars, textVars, pointerVars
<1>5. ASSUME NEW c \in ClientHandle
      PROVE  Owed(c)' = Owed(c) + (IF c = Owner(t) THEN 1 ELSE 0)
  <2>1. /\ Cardinality(keys) \in Nat /\ Cardinality(buttons) \in Nat
        /\ Cardinality(Contacts(c)) \in Nat /\ IsFiniteSet(Contacts(c))
    BY <1>2, OwedParts
  <2>2. Owned(c, t) <=> c = Owner(t)
    BY <1>3, AboutTarget
  <2>3. Contacts(c)' = IF Owned(c, t) THEN Contacts(c) \cup {id} ELSE Contacts(c)
    <3>1. ~Owned(c, touches[id])
      BY <1>1, <1>2, LiveHandle
    <3> QED
      BY <1>1, <1>2, <3>1 DEF Contacts, Owned, TargetOk, Owner
  <2>4. id \notin Contacts(c)
    BY <1>1, <1>2, LiveHandle DEF Contacts
  <2>5. Cardinality(Contacts(c)') =
          Cardinality(Contacts(c)) + (IF c = Owner(t) THEN 1 ELSE 0)
    <3>1. Cardinality(Contacts(c) \cup {id}) = Cardinality(Contacts(c)) + 1
      BY <2>1, <2>4, FS_AddElement
    <3>2. CASE c = Owner(t)
      BY <2>2, <2>3, <3>1, <3>2
    <3>3. CASE c # Owner(t)
      BY <2>1, <2>2, <2>3, <3>3
    <3> QED
      BY <3>2, <3>3
  <2>6. Owed(c)' - Cardinality(Contacts(c)') = Owed(c) - Cardinality(Contacts(c))
    <3>1. Cardinality(Contacts(c)') \in Nat
      BY <2>1, <2>5
    <3> QED
      BY <1>1, <2>1, <3>1 DEF Owed, Owned, TargetOk, Owner, Contacts,
                              focusVars, textVars, pointerVars
  <2>7. Owed(c) \in Nat /\ Owed(c)' \in Int
    <3>1. Cardinality(Contacts(c)') \in Nat
      BY <2>1, <2>5
    <3> QED
      BY <1>1, <1>2, <2>1, <3>1, OwedParts
         DEF Owed, Contacts, focusVars, textVars, pointerVars
  <2> QED
    BY <2>1, <2>5, <2>6, <2>7
<1>6. "TOUCH_DOWN" \in EventType
  BY DEF EventType
<1>7. UNCHANGED <<features, targets, shortcuts>>
  BY <1>1
<1> QED
  BY <1>1, <1>4, <1>5, <1>6, <1>7, AfterTell

LEMMA TouchUpStep ==
  ASSUME InputInv, NEW id \in TouchId, TouchUp(id), UNCHANGED features
  PROVE  InputInv'
<1> DEFINE t == touches[id]
<1>1. /\ Tell(t, "TOUCH_UP", id, -1)
      /\ touches' = [touches EXCEPT ![id] = NoHandle]
      /\ UNCHANGED <<targets, focusVars, pointerVars, shortcuts>>
  BY DEF TouchUp
<1>2. TableInv /\ SeatInv /\ touches \in [TouchId -> TargetHandle \cup {NoHandle}]
  BY DEF InputInv, SeatInv, SeatType
<1>3. TargetOk(t) /\ t \in TargetHandle
  BY <1>1, <1>2 DEF Tell, TouchUp
<1>4. SeatInv'
  <2>1. Down' = Down \ {id}
    BY <1>1, <1>2 DEF Down
  <2>2. IsFiniteSet(Down')
    BY <1>2, <2>1, FS_RemoveElement DEF SeatInv, FiniteInv
  <2> QED
    BY <1>1, <1>2, <2>2 DEF SeatInv, SeatType, FiniteInv, SeatLinks, TargetOk,
                            focusVars, textVars, pointerVars
<1>5. ASSUME NEW c \in ClientHandle
      PROVE  Owed(c)' = Owed(c) + (IF c = Owner(t) THEN -1 ELSE 0)
  <2>1. /\ Cardinality(keys) \in Nat /\ Cardinality(buttons) \in Nat
        /\ Cardinality(Contacts(c)) \in Nat /\ IsFiniteSet(Contacts(c))
    BY <1>2, OwedParts
  <2>2. Owned(c, t) <=> c = Owner(t)
    BY <1>3, AboutTarget
  <2>3. Contacts(c)' = Contacts(c) \ {id}
    <3>1. ~Owned(c, NoHandle)'
      BY DEF Owned, TargetOk, IsLive
    <3> QED
      BY <1>1, <1>2, <3>1 DEF Contacts, Owned, TargetOk, Owner
  <2>4. id \in Contacts(c) <=> c = Owner(t)
    BY <2>2 DEF Contacts
  <2> HIDE DEF t
  <2>5. /\ IsFiniteSet(Contacts(c) \ {id})
        /\ Cardinality(Contacts(c) \ {id}) =
             IF id \in Contacts(c) THEN Cardinality(Contacts(c)) - 1
             ELSE Cardinality(Contacts(c))
    BY <2>1, FS_RemoveElement
  <2>6. Cardinality(Contacts(c)') \in Nat
    BY <2>3, <2>5, FS_CardinalityType
  <2>7. Cardinality(Contacts(c)') =
          Cardinality(Contacts(c)) + (IF c = Owner(t) THEN -1 ELSE 0)
    BY <2>1, <2>3, <2>4, <2>5
  <2>8. Owed(c)' - Cardinality(Contacts(c)') = Owed(c) - Cardinality(Contacts(c))
    BY <1>1, <2>1, <2>6 DEF Owed, Owned, TargetOk, Owner, Contacts,
                            focusVars, textVars, pointerVars
  <2>9. Owed(c) \in Nat /\ Owed(c)' \in Int
    BY <1>1, <1>2, <2>1, <2>6, OwedParts
       DEF Owed, Contacts, focusVars, textVars, pointerVars
  <2> QED
    BY <2>1, <2>7, <2>8, <2>9
<1> HIDE DEF t
<1>6. "TOUCH_UP" \in EventType /\ -1 \in Int
  BY DEF EventType
<1>7. UNCHANGED <<features, targets, shortcuts>>
  BY <1>1
<1> QED
  BY <1>1, <1>3, <1>4, <1>5, <1>6, <1>7, AfterTell

-----------------------------------------------------------------------------
(* What is counted is finite, and less of it needs no more room.           *)

LEMMA CountsFinite ==
  ASSUME InputInv
  PROVE  /\ IsFiniteSet(EventsInUse(events))
         /\ IsFiniteSet(CleanupReservations(clients))
<1>0. {ClientCapacity, MaxGeneration, MaxEventsPerClient} \subseteq Nat
  BY InputAssumption
<1>1. /\ IsFiniteSet(ClientHandle \X (1 .. MaxEventsPerClient))
      /\ IsFiniteSet(ClientSlot \X (1 .. MaxEventsPerClient))
  <2>1. /\ IsFiniteSet(ClientSlot) /\ IsFiniteSet(Generation)
        /\ IsFiniteSet(1 .. MaxEventsPerClient)
    BY <1>0, FS_Interval DEF ClientSlot, Generation
  <2>2. IsFiniteSet(ClientHandle)
    BY <2>1, FS_Product DEF ClientHandle
  <2> QED
    BY <2>1, <2>2, FS_Product
<1>2. \A c \in ClientHandle : DOMAIN events[c] \subseteq 1 .. MaxEventsPerClient
  <2> SUFFICES ASSUME NEW c \in ClientHandle
               PROVE  DOMAIN events[c] \subseteq 1 .. MaxEventsPerClient
    OBVIOUS
  <2>1. DOMAIN events[c] = 1 .. Len(events[c]) /\ Len(events[c]) \in Nat
    BY QueueLength DEF InputInv, QueuesInv, IsEventQueue
  <2>2. CASE ClientOk(c)
    <3>1. clients[c[1]].queued = Len(events[c])
      BY <2>2 DEF InputInv, Reservations, ReservationExact, Queued
    <3>2. clients[c[1]].queued \in 0 .. MaxEventsPerClient
      BY HandleParts DEF InputInv, TableInv, ClientSlotType
    <3> QED
      BY <1>0, <2>1, <3>1, <3>2
  <2>3. CASE ~ClientOk(c)
    <3>1. events[c] = <<>>
      BY <2>3 DEF InputInv, QueuesInv
    <3> QED
      BY <3>1
  <2> QED
    BY <2>2, <2>3
<1>3. EventsInUse(events) \subseteq ClientHandle \X (1 .. MaxEventsPerClient)
  BY <1>2 DEF EventsInUse
<1>4. CleanupReservations(clients) \subseteq ClientSlot \X (1 .. MaxEventsPerClient)
  <2>1. \A i \in ClientSlot : clients[i].reserved_cleanup \in 0 .. MaxEventsPerClient
    BY DEF InputInv, TableInv, ClientSlotType
  <2>2. \A i \in ClientSlot : 1 .. clients[i].reserved_cleanup \subseteq 1 .. MaxEventsPerClient
    BY <1>0, <2>1
  <2> QED
    BY <2>2 DEF CleanupReservations
<1> QED
  BY <1>1, <1>3, <1>4, FS_Subset

LEMMA LessIsCovered ==
  ASSUME InputInv, NEW queues, NEW slots,
         EventsInUse(queues) \subseteq EventsInUse(events),
         CleanupReservations(slots) \subseteq CleanupReservations(clients)
  PROVE  TotalReserved(slots) <= FreeEvents(queues)
<1>1. /\ IsFiniteSet(EventsInUse(events))
      /\ IsFiniteSet(CleanupReservations(clients))
  BY CountsFinite
<1>2. /\ Cardinality(EventsInUse(queues)) <= Cardinality(EventsInUse(events))
      /\ IsFiniteSet(EventsInUse(queues))
  BY <1>1, FS_Subset
<1>3. /\ Cardinality(CleanupReservations(slots)) <= Cardinality(CleanupReservations(clients))
      /\ IsFiniteSet(CleanupReservations(slots))
  BY <1>1, FS_Subset
<1>4. /\ Cardinality(EventsInUse(queues)) \in Nat
      /\ Cardinality(EventsInUse(events)) \in Nat
      /\ Cardinality(CleanupReservations(slots)) \in Nat
      /\ Cardinality(CleanupReservations(clients)) \in Nat
      /\ EventCapacity \in Nat
  BY <1>1, <1>2, <1>3, FS_CardinalityType, InputAssumption
<1>5. Cardinality(CleanupReservations(clients))
        <= EventCapacity - Cardinality(EventsInUse(events))
  BY DEF InputInv, Reservations, ReservationHolds, TotalReserved, FreeEvents
<1> QED
  BY <1>2, <1>3, <1>4, <1>5 DEF TotalReserved, FreeEvents

-----------------------------------------------------------------------------
(* Clients and targets come and go.                                        *)

LEMMA ClientCreateStep ==
  ASSUME InputInv, ClientCreate, UNCHANGED features
  PROVE  InputInv'
<1> DEFINE i == Lowest(Allocatable(clients))
<1>1. TableInv /\ QueuesInv /\ SeatInv /\ clients \in [ClientSlot -> ClientSlotType]
  BY DEF InputInv, TableInv
<1>2. /\ i \in ClientSlot /\ ~clients[i].live /\ clients[i].generation # 0
      /\ clients' = [clients EXCEPT ![i].live = TRUE]
      /\ UNCHANGED <<targets, events, seatVars, shortcuts>>
  <2>1. Allocatable(clients) # {} /\ ClientCapacity \in Nat
    BY InputAssumption DEF ClientCreate
  <2> QED
    BY <1>1, <2>1, AllocatableIn DEF ClientCreate, ClientSlot
<1> HIDE DEF i
<1>3. clients[i].queued = 0 /\ clients[i].reserved_cleanup = 0
  BY <1>1, <1>2 DEF TableInv
<1>4. /\ clients' \in [ClientSlot -> ClientSlotType]
      /\ clients'[i].live /\ clients'[i].generation = clients[i].generation
      /\ clients'[i].queued = 0 /\ clients'[i].reserved_cleanup = 0
      /\ \A j \in ClientSlot \ {i} : clients'[j] = clients[j]
  BY <1>1, <1>2, <1>3 DEF ClientSlotType
<1>5. \A c \in ClientHandle \cup {NoHandle} : IsLive(clients', c) <=>
        ClientOk(c) \/ c = <<i, clients[i].generation>>
  <2>1. \A c \in ClientHandle : IsLive(clients', c) <=>
          ClientOk(c) \/ c = <<i, clients[i].generation>>
    BY <1>2, <1>4, HandleParts DEF IsLive, ClientOk
  <2>2. i # 0
    BY <1>2, InputAssumption DEF ClientSlot
  <2> QED
    BY <2>1, <2>2 DEF IsLive, ClientOk, NoHandle
<1>6. TableInv'
  <2>1. \A j \in ClientSlot : IF clients'[j].live THEN clients'[j].generation # 0
          ELSE clients'[j].queued = 0 /\ clients'[j].reserved_cleanup = 0
    BY <1>1, <1>2, <1>4 DEF TableInv
  <2>2. \A j \in TargetSlot : targets[j].live => IsLive(clients', targets[j].owner)
    BY <1>1, <1>5 DEF TableInv, TargetSlotType
  <2>3. \A x \in shortcuts : IsLive(clients', x.owner)
    BY <1>1, <1>5 DEF TableInv, Shortcut
  <2> QED
    BY <1>1, <1>2, <1>4, <2>1, <2>2, <2>3 DEF TableInv, ClientOk
<1>7. QueuesInv'
  BY <1>1, <1>2, <1>5 DEF QueuesInv, ClientOk
<1>8. SeatInv' /\ \A c : Owed(c)' = Owed(c)
  <2>1. \A c : Owed(c) \in Nat /\ Owed(c)' = Owed(c) + 0
    BY <1>1, <1>2, OwedParts, SeatUnchanged
  <2> QED
    BY <1>2, <2>1, SeatUnchanged
<1>9. ASSUME NEW c \in ClientHandle, IsLive(clients', c)
      PROVE  /\ clients'[c[1]].reserved_cleanup = Owed(c)
             /\ clients'[c[1]].queued = Len(events[c])
             /\ clients'[c[1]].queued + clients'[c[1]].reserved_cleanup
                  <= MaxEventsPerClient
  <2>1. CASE ClientOk(c)
    <3>1. c[1] \in ClientSlot /\ c[1] # i
      BY <1>2, <2>1, HandleParts DEF ClientOk, IsLive
    <3> QED
      BY <1>4, <2>1, <3>1
         DEF InputInv, Reservations, ReservationExact, ReservationHolds, Reserved, Queued
  <2>2. CASE ~ClientOk(c)
    <3>1. c[1] = i
      BY <1>5, <1>9, <2>2
    <3>2. events[c] = <<>>
      BY <1>1, <2>2 DEF QueuesInv
    <3>3. \A t \in TargetHandle \cup {NoHandle} : ~Owned(c, t)
      BY <1>1, <2>2, LiveHandle DEF Owned
    <3>4. Contacts(c) = {}
      BY <1>1, <3>3 DEF Contacts, SeatInv, SeatType
    <3>5. Cardinality(Contacts(c)) = 0
      BY <3>4, FS_EmptySet
    <3>6. Owed(c) = 0
      BY <1>1, <3>3, <3>5 DEF Owed, Contacts, SeatInv, SeatType
    <3>7. MaxEventsPerClient \in Nat /\ Len(<<>>) = 0
      BY InputAssumption
    <3> QED
      BY <1>4, <3>1, <3>2, <3>6, <3>7
  <2> QED
    BY <2>1, <2>2
<1>10. TotalReserved(clients') <= FreeEvents(events')
  <2>1. CleanupReservations(clients') \subseteq CleanupReservations(clients)
    <3>1. \A j \in ClientSlot : clients'[j].live => 
             \/ clients'[j].reserved_cleanup = 0
             \/ clients[j].live /\ clients'[j].reserved_cleanup = clients[j].reserved_cleanup
      BY <1>4
    <3>2. 1 .. 0 = {}
      OBVIOUS
    <3> QED
      BY <3>1, <3>2 DEF CleanupReservations
  <2>2. EventsInUse(events') \subseteq EventsInUse(events)
    BY <1>2
  <2> QED
    BY <2>1, <2>2, LessIsCovered
<1>11. Reservations'
  <2>1. ReservationExact'
    BY <1>2, <1>8, <1>9 DEF ReservationExact, Reserved, Queued, ClientOk
  <2>2. ReservationHolds'
    BY <1>9, <1>10 DEF ReservationHolds, Reserved, Queued, ClientOk
  <2> QED
    BY <2>1, <2>2 DEF Reservations
<1> QED
  BY <1>6, <1>7, <1>8, <1>11 DEF InputInv

\* What the seat points to.
Pointed == {focus, pointer_target, pointer_capture} \cup {touches[id] : id \in TouchId}

\* Only targets change, and none that the seat points to.
LEMMA TargetsChange ==
  ASSUME InputInv, UNCHANGED <<features, clients, events, seatVars, shortcuts>>,
         targets' \in [TargetSlot -> TargetSlotType],
         \A i \in TargetSlot : targets'[i].live =>
           targets'[i].generation # 0 /\ ClientOk(targets'[i].owner),
         \A t \in Pointed : t # NoHandle => targets'[t[1]] = targets[t[1]]
  PROVE  InputInv'
<1>1. TableInv /\ QueuesInv /\ SeatInv /\ Reservations
  BY DEF InputInv
<1>2. \A c : ClientOk(c)' <=> ClientOk(c)
  BY DEF ClientOk
<1>3. TableInv'
  BY <1>1, <1>2 DEF TableInv
<1>4. QueuesInv'
  BY <1>1, <1>2 DEF QueuesInv
<1>5. \A t \in Pointed : /\ TargetOk(t)' <=> TargetOk(t)
                         /\ \A c : Owned(c, t)' <=> Owned(c, t)
  BY DEF TargetOk, IsLive, Owned, Owner
<1>6. /\ focus \in Pointed /\ pointer_target \in Pointed /\ pointer_capture \in Pointed
      /\ \A id \in TouchId : touches[id] \in Pointed
  BY DEF Pointed
<1>7. SeatInv'
  <2>1. SeatLinks'
    BY <1>1, <1>5, <1>6 DEF SeatInv, SeatLinks, seatVars, focusVars, textVars, pointerVars
  <2> QED
    BY <1>1, <2>1 DEF SeatInv, SeatType, FiniteInv, Down, seatVars, focusVars, textVars,
                      pointerVars
<1>8. \A c : Owed(c)' = Owed(c)
  <2> SUFFICES ASSUME NEW c
               PROVE  Owed(c)' = Owed(c)
    OBVIOUS
  <2>1. /\ Owned(c, focus)' <=> Owned(c, focus)
        /\ Owned(c, pointer_target)' <=> Owned(c, pointer_target)
        /\ Owned(c, pointer_capture)' <=> Owned(c, pointer_capture)
        /\ Contacts(c)' = Contacts(c)
    BY <1>5, <1>6 DEF Contacts, seatVars, focusVars, textVars, pointerVars
  <2>2. /\ ime_active /\ Owned(c, ime_target) <=> ime_active /\ Owned(c, focus)
        /\ (ime_active /\ Owned(c, ime_target))' <=> (ime_active /\ Owned(c, focus))'
    BY <1>1, <1>7 DEF SeatInv, SeatLinks
  <2>3. /\ keys' = keys /\ buttons' = buttons /\ ime_active' = ime_active
    BY DEF seatVars, focusVars, textVars, pointerVars
  <2> QED
    BY <2>1, <2>2, <2>3 DEF Owed, Contacts
<1>9. Reservations'
  <2>1. ReservationExact'
    BY <1>1, <1>2, <1>8 DEF Reservations, ReservationExact, Reserved, Queued
  <2>2. ReservationHolds'
    BY <1>1, <1>2 DEF Reservations, ReservationHolds, Reserved, Queued
  <2> QED
    BY <2>1, <2>2 DEF Reservations
<1> QED
  BY <1>3, <1>4, <1>7, <1>9 DEF InputInv

LEMMA PointedIsLive ==
  ASSUME InputInv, NEW t \in Pointed, t # NoHandle
  PROVE  /\ t \in TargetHandle
         /\ targets[t[1]].live /\ targets[t[1]].generation = t[2]
<1>1. t \in TargetHandle /\ TargetOk(t)
  BY DEF InputInv, SeatInv, SeatType, SeatLinks, Pointed
<1> QED
  BY <1>1 DEF TargetOk, IsLive

\* A new target takes a free slot, and what the seat points to is not destroyed.
LEMMA PointedStays ==
  ASSUME InputInv, NEW c \in ClientHandle,
         \/ \E mode \in TextMode : TargetCreate(c, mode)
         \/ \E t \in TargetHandle : TargetDestroy(c, t),
         NEW u \in Pointed, u # NoHandle
  PROVE  targets'[u[1]] = targets[u[1]]
<1>1. targets \in [TargetSlot -> TargetSlotType]
  BY DEF InputInv, TableInv
<1>2. /\ u \in TargetHandle /\ u[1] \in TargetSlot /\ u = <<u[1], u[2]>>
      /\ targets[u[1]].live /\ targets[u[1]].generation = u[2]
  BY PointedIsLive, HandleParts
<1>3. ASSUME NEW mode \in TextMode, TargetCreate(c, mode)
      PROVE  targets'[u[1]] = targets[u[1]]
  <2> DEFINE i == Lowest(Allocatable(targets))
  <2>1. /\ ~targets[i].live
        /\ targets' = [targets EXCEPT ![i].live = TRUE, ![i].owner = c, ![i].text_mode = mode]
    <3>1. Allocatable(targets) # {} /\ TargetCapacity \in Nat
      BY <1>3, InputAssumption DEF TargetCreate
    <3> QED
      BY <1>1, <1>3, <3>1, AllocatableIn DEF TargetCreate, TargetSlot
  <2> HIDE DEF i
  <2> QED
    BY <1>1, <1>2, <2>1
<1>4. ASSUME NEW t \in TargetHandle, TargetDestroy(c, t)
      PROVE  targets'[u[1]] = targets[u[1]]
  <2>1. /\ t = <<t[1], t[2]>> /\ targets[t[1]].generation = t[2] /\ t \notin Pointed
        /\ targets' = [targets EXCEPT ![t[1]] = DeadTarget(NextGeneration(t[2]))]
    BY <1>4, HandleParts DEF TargetDestroy, Owned, TargetOk, IsLive, Pointed
  <2>2. u[1] # t[1]
    BY <1>2, <2>1
  <2> QED
    BY <1>1, <1>2, <2>1, <2>2
<1> QED
  BY <1>3, <1>4

LEMMA TargetCreateStep ==
  ASSUME InputInv, NEW c \in ClientHandle, NEW mode \in TextMode, TargetCreate(c, mode),
         UNCHANGED features
  PROVE  InputInv'
<1> DEFINE i == Lowest(Allocatable(targets))
<1>1. TableInv /\ targets \in [TargetSlot -> TargetSlotType] /\ ClientOk(c)
  BY DEF InputInv, TableInv, TargetCreate
<1>2. /\ i \in TargetSlot /\ ~targets[i].live /\ targets[i].generation # 0
      /\ targets' = [targets EXCEPT ![i].live = TRUE, ![i].owner = c, ![i].text_mode = mode]
      /\ UNCHANGED <<clients, events, seatVars, shortcuts>>
  <2>1. Allocatable(targets) # {} /\ TargetCapacity \in Nat
    BY InputAssumption DEF TargetCreate
  <2> QED
    BY <1>1, <2>1, AllocatableIn DEF TargetCreate, TargetSlot
<1> HIDE DEF i
<1>3. /\ targets' \in [TargetSlot -> TargetSlotType]
      /\ targets'[i].generation = targets[i].generation /\ targets'[i].owner = c
      /\ \A j \in TargetSlot \ {i} : targets'[j] = targets[j]
  BY <1>1, <1>2 DEF TargetSlotType
<1>4. \A j \in TargetSlot : targets'[j].live =>
        targets'[j].generation # 0 /\ ClientOk(targets'[j].owner)
  BY <1>1, <1>2, <1>3 DEF TableInv
<1>5. \A t \in Pointed : t # NoHandle => targets'[t[1]] = targets[t[1]]
  BY PointedStays
<1> QED
  BY <1>2, <1>3, <1>4, <1>5, TargetsChange

LEMMA TargetDestroyStep ==
  ASSUME InputInv, NEW c \in ClientHandle, NEW t \in TargetHandle, TargetDestroy(c, t),
         UNCHANGED features
  PROVE  InputInv'
<1>1. TableInv /\ targets \in [TargetSlot -> TargetSlotType]
  BY DEF InputInv, TableInv
<1>2. /\ targets[t[1]].generation = t[2] /\ t[1] \in TargetSlot
      /\ t \notin Pointed
      /\ targets' = [targets EXCEPT ![t[1]] = DeadTarget(NextGeneration(t[2]))]
      /\ UNCHANGED <<clients, events, seatVars, shortcuts>>
  BY HandleParts DEF TargetDestroy, Owned, TargetOk, IsLive, Pointed
<1>3. DeadTarget(NextGeneration(t[2])) \in TargetSlotType /\ ~DeadTarget(NextGeneration(t[2])).live
  <2>1. NextGeneration(t[2]) \in 0 .. MaxGeneration
    BY NextGenerationType, HandleParts, InputAssumption DEF Generation
  <2> QED
    BY <2>1 DEF DeadTarget, TargetSlotType
<1>4. /\ targets' \in [TargetSlot -> TargetSlotType]
      /\ ~targets'[t[1]].live
      /\ \A j \in TargetSlot \ {t[1]} : targets'[j] = targets[j]
  BY <1>1, <1>2, <1>3
<1>5. \A j \in TargetSlot : targets'[j].live =>
        targets'[j].generation # 0 /\ ClientOk(targets'[j].owner)
  BY <1>1, <1>4 DEF TableInv
<1>6. \A u \in Pointed : u # NoHandle => targets'[u[1]] = targets[u[1]]
  BY PointedStays
<1> QED
  BY <1>2, <1>4, <1>5, <1>6, TargetsChange

LEMMA ShortcutStep ==
  ASSUME InputInv,
         \/ \E c \in ClientHandle, t \in TargetHandle, id \in ShortcutId, k \in Key :
              ShortcutRegister(c, t, id, k)
         \/ \E c \in ClientHandle, id \in ShortcutId : ShortcutUnregister(c, id),
         UNCHANGED features
  PROVE  InputInv'
<1>1. /\ UNCHANGED <<clients, targets, events, seatVars>>
      /\ shortcuts' \subseteq Shortcut
      /\ \A x \in shortcuts' : ClientOk(x.owner)
  BY DEF ShortcutRegister, ShortcutUnregister, InputInv, TableInv, Shortcut
<1>2. TableInv' /\ QueuesInv'
  BY <1>1 DEF InputInv, TableInv, QueuesInv, ClientOk
<1>3. SeatInv' /\ \A c : Owed(c)' = Owed(c)
  <2>1. SeatInv' /\ \A c : Owed(c)' = Owed(c) + 0
    BY <1>1, SeatUnchanged
  <2>2. \A c : Owed(c) \in Nat
    BY OwedParts DEF InputInv
  <2> QED
    BY <2>1, <2>2
<1>4. Reservations'
  BY <1>1, <1>3 DEF InputInv, Reservations, ReservationExact, ReservationHolds, Reserved,
                    Queued, ClientOk
<1> QED
  BY <1>2, <1>3, <1>4 DEF InputInv

LEMMA NextEventStep ==
  ASSUME InputInv, NEW c \in ClientHandle, NextEvent(c), UNCHANGED features
  PROVE  InputInv'
<1>1. /\ TableInv /\ QueuesInv /\ SeatInv /\ Reservations
      /\ clients \in [ClientSlot -> ClientSlotType]
  BY DEF InputInv, TableInv
<1>2. /\ ClientOk(c) /\ events[c] # <<>>
      /\ events' = [events EXCEPT ![c] = Tail(@)]
      /\ clients' = [clients EXCEPT ![c[1]].queued = @ - 1]
      /\ UNCHANGED <<targets, seatVars, shortcuts>>
  BY DEF NextEvent
<1>3. /\ IsEventQueue(Tail(events[c]))
      /\ Len(Tail(events[c])) = Len(events[c]) - 1
      /\ Len(events[c]) >= 1 /\ Len(events[c]) \in Nat
  BY <1>1, <1>2, RestOfQueue, QueueLength DEF QueuesInv, IsEventQueue
<1>4. /\ c[1] \in ClientSlot /\ clients[c[1]].live /\ clients[c[1]].generation = c[2]
      /\ clients[c[1]].queued = Len(events[c])
      /\ clients[c[1]].queued + clients[c[1]].reserved_cleanup <= MaxEventsPerClient
      /\ clients[c[1]].queued \in 0 .. MaxEventsPerClient
      /\ clients[c[1]].reserved_cleanup \in 0 .. MaxEventsPerClient
      /\ MaxEventsPerClient \in Nat
  BY <1>1, <1>2, HandleParts, InputAssumption
     DEF ClientOk, IsLive, Reservations, ReservationExact, ReservationHolds, Queued, Reserved,
         ClientSlotType
<1>5. /\ clients' \in [ClientSlot -> ClientSlotType]
      /\ \A i \in ClientSlot : /\ clients'[i].live = clients[i].live
                               /\ clients'[i].generation = clients[i].generation
                               /\ clients'[i].reserved_cleanup = clients[i].reserved_cleanup
                               /\ i # c[1] => clients'[i] = clients[i]
      /\ clients'[c[1]].queued = clients[c[1]].queued - 1
  <2>1. clients[c[1]].queued - 1 \in 0 .. MaxEventsPerClient
    BY <1>3, <1>4
  <2> QED
    BY <1>1, <1>2, <1>4, <2>1 DEF ClientSlotType
<1>6. \A d \in ClientHandle \cup {NoHandle} : IsLive(clients', d) <=> ClientOk(d)
  BY <1>5, HandleParts DEF IsLive, ClientOk
<1>7. TableInv'
  <2>1. \A i \in ClientSlot : IF clients'[i].live THEN clients'[i].generation # 0
          ELSE clients'[i].queued = 0 /\ clients'[i].reserved_cleanup = 0
    BY <1>1, <1>4, <1>5 DEF TableInv
  <2>2. \A i \in TargetSlot : targets[i].live => IsLive(clients', targets[i].owner)
    BY <1>1, <1>6 DEF TableInv, TargetSlotType
  <2>3. \A x \in shortcuts : IsLive(clients', x.owner)
    BY <1>1, <1>6 DEF TableInv, Shortcut
  <2> QED
    BY <1>1, <1>2, <1>5, <2>1, <2>2, <2>3 DEF TableInv, ClientOk
<1>8. /\ events'[c] = Tail(events[c])
      /\ \A d \in ClientHandle \ {c} : events'[d] = events[d]
      /\ events' = [d \in ClientHandle |-> events'[d]]
  BY <1>1, <1>2 DEF QueuesInv
<1>9. QueuesInv'
  <2>1. \A d \in ClientHandle : IsEventQueue(events'[d])
    BY <1>1, <1>3, <1>8 DEF QueuesInv
  <2>2. \A d \in ClientHandle : ~IsLive(clients', d) => events'[d] = <<>>
    BY <1>1, <1>2, <1>6, <1>8 DEF QueuesInv
  <2> QED
    BY <1>8, <2>1, <2>2 DEF QueuesInv, ClientOk
<1>10. SeatInv' /\ \A d : Owed(d)' = Owed(d)
  <2>1. SeatInv' /\ \A d : Owed(d)' = Owed(d) + 0
    BY <1>2, SeatUnchanged
  <2>2. \A d : Owed(d) \in Nat
    BY <1>1, OwedParts
  <2> QED
    BY <2>1, <2>2
<1>11. ASSUME NEW d \in ClientHandle, IsLive(clients', d)
       PROVE  /\ clients'[d[1]].reserved_cleanup = Owed(d)
              /\ clients'[d[1]].queued = Len(events'[d])
              /\ clients'[d[1]].queued + clients'[d[1]].reserved_cleanup
                   <= MaxEventsPerClient
  <2>1. ClientOk(d) /\ d[1] \in ClientSlot
    BY <1>6, <1>11, HandleParts
  <2>2. /\ clients[d[1]].reserved_cleanup = Owed(d)
        /\ clients[d[1]].queued = Len(events[d])
        /\ clients[d[1]].queued + clients[d[1]].reserved_cleanup <= MaxEventsPerClient
    BY <1>1, <2>1
       DEF Reservations, ReservationExact, ReservationHolds, Queued, Reserved
  <2>3. CASE d = c
    <3>1. /\ clients'[c[1]].queued = clients[c[1]].queued - 1
          /\ clients'[c[1]].reserved_cleanup = clients[c[1]].reserved_cleanup
          /\ Len(events'[c]) = Len(events[c]) - 1
      BY <1>3, <1>4, <1>5, <1>8
    <3> QED
      BY <1>4, <2>2, <2>3, <3>1
  <2>4. CASE d # c
    <3>1. d[1] # c[1]
      BY <1>4, <2>1, <2>4, HandleParts DEF ClientOk, IsLive
    <3> QED
      BY <1>5, <1>8, <2>1, <2>2, <2>4, <3>1
  <2> QED
    BY <2>3, <2>4
<1>12. TotalReserved(clients') <= FreeEvents(events')
  <2>1. CleanupReservations(clients') \subseteq CleanupReservations(clients)
    BY <1>5 DEF CleanupReservations
  <2>2. \A d \in ClientHandle : DOMAIN events'[d] \subseteq DOMAIN events[d]
    <3>1. /\ DOMAIN events'[c] = 1 .. Len(events'[c])
          /\ DOMAIN events[c] = 1 .. Len(events[c])
      BY <1>1, <1>3, <1>8, QueueLength DEF QueuesInv, IsEventQueue
    <3>2. 1 .. (Len(events[c]) - 1) \subseteq 1 .. Len(events[c])
      BY <1>3
    <3> QED
      BY <1>3, <1>8, <3>1, <3>2
  <2>3. EventsInUse(events') \subseteq EventsInUse(events)
    BY <2>2 DEF EventsInUse
  <2> QED
    BY <2>1, <2>3, LessIsCovered
<1>13. Reservations'
  <2>1. ReservationExact'
    BY <1>10, <1>11 DEF ReservationExact, Reserved, Queued, ClientOk
  <2>2. ReservationHolds'
    BY <1>11, <1>12 DEF ReservationHolds, Reserved, Queued, ClientOk
  <2> QED
    BY <2>1, <2>2 DEF Reservations
<1> QED
  BY <1>7, <1>9, <1>10, <1>13 DEF InputInv

\* What a client that disconnects takes with it.
Lost(c) == {t \in TargetHandle : Owned(c, t)}

\* t is a live target of client c, in the given target table.
OwnedIn(slots, c, t) == IsLive(slots, t) /\ slots[t[1]].owner = c

LEMMA DisconnectSlots ==
  ASSUME InputInv, NEW c \in ClientHandle, ClientDisconnect(c)
  PROVE  /\ clients' \in [ClientSlot -> ClientSlotType]
         /\ \A i \in ClientSlot \ {c[1]} : clients'[i] = clients[i]
         /\ \A d \in ClientHandle \cup {NoHandle} :
              IsLive(clients', d) <=> ClientOk(d) /\ d # c
         /\ ~clients'[c[1]].live /\ c[1] \in ClientSlot
         /\ clients'[c[1]].queued = 0 /\ clients'[c[1]].reserved_cleanup = 0
         /\ targets' \in [TargetSlot -> TargetSlotType]
         /\ \A i \in TargetSlot : targets'[i].live =>
              /\ targets'[i] = targets[i]
              /\ <<i, targets[i].generation>> \notin Lost(c)
         /\ \A t \in TargetHandle :
              /\ IsLive(targets', t) <=> TargetOk(t) /\ t \notin Lost(c)
              /\ \A d : OwnedIn(targets', d, t) <=> Owned(d, t) /\ t \notin Lost(c)
<1>1. /\ TableInv /\ clients \in [ClientSlot -> ClientSlotType]
      /\ targets \in [TargetSlot -> TargetSlotType]
      /\ MaxEventsPerClient \in Nat
  BY InputAssumption DEF InputInv, TableInv
<1>2. /\ ClientOk(c)
      /\ targets' = [i \in TargetSlot |->
                       IF <<i, targets[i].generation>> \in Lost(c)
                       THEN DeadTarget(NextGeneration(targets[i].generation))
                       ELSE targets[i]]
      /\ clients' = [clients EXCEPT ![c[1]] = DeadClient(NextGeneration(c[2]))]
  BY DEF ClientDisconnect, Lost
<1>3. \A g \in Generation : /\ DeadTarget(NextGeneration(g)) \in TargetSlotType
                            /\ ~DeadTarget(NextGeneration(g)).live
                            /\ DeadClient(NextGeneration(g)) \in ClientSlotType
                            /\ ~DeadClient(NextGeneration(g)).live
                            /\ DeadClient(NextGeneration(g)).queued = 0
                            /\ DeadClient(NextGeneration(g)).reserved_cleanup = 0
  <2>1. \A g \in Generation : NextGeneration(g) \in 0 .. MaxGeneration
    BY NextGenerationType, InputAssumption DEF Generation
  <2> QED
    BY <1>1, <2>1 DEF DeadTarget, TargetSlotType, DeadClient, ClientSlotType
<1>4. /\ c[1] \in ClientSlot /\ c[2] \in Generation
      /\ clients[c[1]].live /\ clients[c[1]].generation = c[2]
  BY <1>2, HandleParts DEF ClientOk, IsLive
<1>5. /\ clients' \in [ClientSlot -> ClientSlotType]
      /\ \A i \in ClientSlot \ {c[1]} : clients'[i] = clients[i]
      /\ ~clients'[c[1]].live
      /\ clients'[c[1]].queued = 0 /\ clients'[c[1]].reserved_cleanup = 0
  BY <1>1, <1>2, <1>3, <1>4
<1>6. \A d \in ClientHandle \cup {NoHandle} : IsLive(clients', d) <=> ClientOk(d) /\ d # c
  BY <1>4, <1>5, HandleParts DEF IsLive, ClientOk
<1>7. \A i \in TargetSlot : <<i, targets[i].generation>> \in Lost(c) =>
        targets[i].generation \in Generation
  BY DEF Lost, TargetHandle
<1>8. /\ targets' \in [TargetSlot -> TargetSlotType]
      /\ \A i \in TargetSlot :
           IF <<i, targets[i].generation>> \in Lost(c) THEN ~targets'[i].live
           ELSE targets'[i] = targets[i]
  BY <1>1, <1>2, <1>3, <1>7
<1>9. ASSUME NEW t \in TargetHandle
      PROVE  /\ IsLive(targets', t) <=> TargetOk(t) /\ t \notin Lost(c)
             /\ \A d : OwnedIn(targets', d, t) <=> Owned(d, t) /\ t \notin Lost(c)
  <2>1. /\ t[1] \in TargetSlot /\ t = <<t[1], t[2]>> /\ t # NoHandle
    BY HandleParts
  <2>2. /\ TargetOk(t) <=> targets[t[1]].live /\ targets[t[1]].generation = t[2]
        /\ IsLive(targets', t) <=> targets'[t[1]].live /\ targets'[t[1]].generation = t[2]
    BY <2>1 DEF TargetOk, IsLive
  <2>3. t \in Lost(c) => TargetOk(t)
    BY DEF Lost, Owned
  <2>4. CASE t \in Lost(c)
    <3>1. ~targets'[t[1]].live
      BY <1>8, <2>1, <2>2, <2>3, <2>4
    <3> QED
      BY <2>2, <2>4, <3>1 DEF OwnedIn
  <2>5. CASE t \notin Lost(c) /\ targets[t[1]].generation = t[2]
    <3>1. targets'[t[1]] = targets[t[1]]
      BY <1>8, <2>1, <2>5
    <3> QED
      BY <2>2, <2>5, <3>1 DEF OwnedIn, Owned, Owner
  <2>6. CASE targets[t[1]].generation # t[2]
    <3>1. ~targets'[t[1]].live \/ targets'[t[1]] = targets[t[1]]
      BY <1>8, <2>1
    <3>2. ~IsLive(targets', t) /\ ~TargetOk(t)
      BY <2>2, <2>6, <3>1
    <3> QED
      BY <3>2 DEF OwnedIn, Owned
  <2> QED
    BY <2>4, <2>5, <2>6
<1> QED
  BY <1>4, <1>5, <1>6, <1>8, <1>9

\* What a disconnect changes on the seat.
LEMMA DisconnectChanges ==
  ASSUME NEW c, ClientDisconnect(c)
  PROVE  /\ IF focus \in Lost(c)
            THEN /\ focus_epoch # MaxEpoch
                 /\ focus' = NoHandle /\ focus_epoch' = focus_epoch + 1
                 /\ ~ime_active' /\ ime_active' \in BOOLEAN
                 /\ ime_target' = NoHandle /\ ime_revision' = 0
                 /\ keys' = {}
            ELSE UNCHANGED <<focus, focus_epoch, keys, ime_active, ime_target, ime_revision>>
         /\ pointer_target' = IF pointer_target \in Lost(c) THEN NoHandle ELSE pointer_target
         /\ pointer_capture' = IF pointer_capture \in Lost(c) THEN NoHandle
                               ELSE pointer_capture
         /\ buttons' = IF pointer_capture \in Lost(c) THEN {} ELSE buttons
         /\ touches' = [id \in TouchId |->
                          IF touches[id] \in Lost(c) THEN NoHandle ELSE touches[id]]
  BY DEF ClientDisconnect, Lost, DropFocus, focusVars, textVars

\* For the other clients nothing changes.
LEMMA DisconnectOthers ==
  ASSUME InputInv, NEW c \in ClientHandle, ClientDisconnect(c),
         NEW d \in ClientHandle, ClientOk(d), d # c
  PROVE  /\ OwnedIn(targets', d, focus') <=> Owned(d, focus)
         /\ OwnedIn(targets', d, pointer_target') <=> Owned(d, pointer_target)
         /\ OwnedIn(targets', d, pointer_capture') <=> Owned(d, pointer_capture)
         /\ \A id \in TouchId : OwnedIn(targets', d, touches'[id]) <=> Owned(d, touches[id])
         /\ Owned(d, focus) => focus' = focus /\ keys' = keys /\ ime_active' = ime_active
         /\ Owned(d, pointer_target) => pointer_target' = pointer_target
         /\ Owned(d, pointer_capture) => buttons' = buttons
         /\ \A id \in TouchId : Owned(d, touches[id]) => touches'[id] = touches[id]
<1>1. /\ {focus, pointer_target, pointer_capture} \subseteq TargetHandle \cup {NoHandle}
      /\ touches \in [TouchId -> TargetHandle \cup {NoHandle}]
  BY DEF InputInv, SeatInv, SeatType
<1>2. /\ \A t \in TargetHandle : OwnedIn(targets', d, t) <=> Owned(d, t) /\ t \notin Lost(c)
      /\ NoHandle \notin Lost(c)
  BY DisconnectSlots, HandleParts DEF Lost
<1>3. \A t \in TargetHandle \cup {NoHandle} :
        /\ t \in Lost(c) => ~Owned(d, t)
        /\ t \notin Lost(c) => (OwnedIn(targets', d, t) <=> Owned(d, t))
  BY <1>2 DEF Lost, Owned, OwnedIn, TargetOk, IsLive
<1>4. ~OwnedIn(targets', d, NoHandle)
  BY DEF OwnedIn, IsLive
<1>5. /\ OwnedIn(targets', d, focus') <=> Owned(d, focus)
      /\ OwnedIn(targets', d, pointer_target') <=> Owned(d, pointer_target)
      /\ OwnedIn(targets', d, pointer_capture') <=> Owned(d, pointer_capture)
      /\ \A id \in TouchId : OwnedIn(targets', d, touches'[id]) <=> Owned(d, touches[id])
  BY <1>1, <1>3, <1>4, DisconnectChanges
<1> QED
  BY <1>1, <1>3, <1>5, DisconnectChanges

LEMMA DisconnectSeat ==
  ASSUME InputInv, NEW c \in ClientHandle, ClientDisconnect(c)
  PROVE  /\ SeatInv'
         /\ \A d \in ClientHandle : ClientOk(d) /\ d # c => Owed(d)' = Owed(d)
<1>1. TableInv /\ SeatInv
  BY DEF InputInv
<1>2. /\ IF focus \in Lost(c)
         THEN /\ focus_epoch # MaxEpoch
              /\ focus' = NoHandle /\ focus_epoch' = focus_epoch + 1
              /\ ~ime_active' /\ ime_active' \in BOOLEAN
              /\ ime_target' = NoHandle /\ ime_revision' = 0
              /\ keys' = {}
         ELSE UNCHANGED <<focus, focus_epoch, keys, ime_active, ime_target, ime_revision>>
      /\ pointer_target' = IF pointer_target \in Lost(c) THEN NoHandle ELSE pointer_target
      /\ pointer_capture' = IF pointer_capture \in Lost(c) THEN NoHandle ELSE pointer_capture
      /\ buttons' = IF pointer_capture \in Lost(c) THEN {} ELSE buttons
      /\ touches' = [id \in TouchId |->
                       IF touches[id] \in Lost(c) THEN NoHandle ELSE touches[id]]
  BY DisconnectChanges
<1>3. /\ \A t \in TargetHandle :
           /\ IsLive(targets', t) <=> TargetOk(t) /\ t \notin Lost(c)
           /\ \A d : OwnedIn(targets', d, t) <=> Owned(d, t) /\ t \notin Lost(c)
      /\ NoHandle \notin Lost(c)
  BY DisconnectSlots, HandleParts DEF Lost
<1>4. IsFiniteSet({}) /\ Cardinality({}) = 0
  BY FS_EmptySet
<1>5. SeatInv'
  <2>1. Down' \subseteq Down
    BY <1>2 DEF Down
  <2>2. IsFiniteSet(Down')
    BY <1>1, <2>1, FS_Subset DEF SeatInv, FiniteInv
  <2>3. FiniteInv'
    BY <1>1, <1>2, <1>4, <2>2 DEF SeatInv, FiniteInv
  <2>4. focus_epoch' \in 1 .. MaxEpoch /\ ime_revision' \in 0 .. MaxRevision - 1
    BY <1>1, <1>2, InputAssumption DEF SeatInv, SeatType
  <2>5. SeatType'
    BY <1>1, <1>2, <2>4 DEF SeatInv, SeatType
  <2>6. /\ focus' # NoHandle => IsLive(targets', focus')
        /\ pointer_target' # NoHandle => IsLive(targets', pointer_target')
        /\ pointer_capture' # NoHandle => IsLive(targets', pointer_capture')
        /\ \A id \in TouchId : touches'[id] # NoHandle => IsLive(targets', touches'[id])
    BY <1>1, <1>2, <1>3 DEF SeatInv, SeatType, SeatLinks
  <2>7. /\ pointer_capture' # NoHandle <=> buttons' # {}
        /\ pointer_capture' # NoHandle => pointer_capture' = pointer_target'
    BY <1>1, <1>2 DEF SeatInv, SeatLinks
  <2>8. /\ keys' # {} \/ ime_active' => focus' # NoHandle
        /\ ime_active' => ime_target' = focus'
    BY <1>1, <1>2 DEF SeatInv, SeatLinks
  <2>9. \A t \in {focus', pointer_target', pointer_capture'} :
          t # NoHandle => IsLive(targets', t)
    BY <2>6
  <2>10. SeatLinks'
    BY <2>6, <2>7, <2>8, <2>9 DEF SeatLinks, TargetOk
  <2> QED
    BY <2>3, <2>5, <2>10 DEF SeatInv
<1>6. ASSUME NEW d \in ClientHandle, ClientOk(d), d # c
      PROVE  Owed(d)' = Owed(d)
  <2>1. /\ OwnedIn(targets', d, focus') <=> Owned(d, focus)
        /\ OwnedIn(targets', d, pointer_target') <=> Owned(d, pointer_target)
        /\ OwnedIn(targets', d, pointer_capture') <=> Owned(d, pointer_capture)
        /\ \A id \in TouchId : OwnedIn(targets', d, touches'[id]) <=> Owned(d, touches[id])
        /\ Owned(d, focus) => keys' = keys /\ ime_active' = ime_active
        /\ Owned(d, pointer_capture) => buttons' = buttons
    BY <1>6, DisconnectOthers
  <2>2. {id \in TouchId : OwnedIn(targets', d, touches'[id])} = Contacts(d)
    BY <2>1 DEF Contacts
  <2>3. /\ ime_active /\ Owned(d, ime_target) <=> ime_active /\ Owned(d, focus)
        /\ ime_active' /\ OwnedIn(targets', d, ime_target')
             <=> ime_active' /\ OwnedIn(targets', d, focus')
    BY <1>1, <1>5 DEF SeatInv, SeatLinks
  <2>4. Owed(d)' =
            (IF OwnedIn(targets', d, focus') THEN Cardinality(keys') ELSE 0)
          + (IF ime_active' /\ OwnedIn(targets', d, ime_target') THEN 1 ELSE 0)
          + (IF OwnedIn(targets', d, pointer_target') THEN 1 ELSE 0)
          + (IF OwnedIn(targets', d, pointer_capture') THEN Cardinality(buttons') ELSE 0)
          + Cardinality({id \in TouchId : OwnedIn(targets', d, touches'[id])})
    BY DEF Owed, Owned, OwnedIn, TargetOk, Owner
  <2>5. (ime_active' /\ OwnedIn(targets', d, ime_target'))
          <=> (ime_active /\ Owned(d, ime_target))
    BY <2>1, <2>3
  <2> QED
    BY <2>1, <2>2, <2>4, <2>5 DEF Owed, Contacts
<1> QED
  BY <1>5, <1>6

LEMMA ClientDisconnectStep ==
  ASSUME InputInv, NEW c \in ClientHandle, ClientDisconnect(c), UNCHANGED features
  PROVE  InputInv'
<1>1. /\ TableInv /\ QueuesInv /\ SeatInv /\ Reservations
      /\ targets \in [TargetSlot -> TargetSlotType]
  BY DEF InputInv, TableInv
<1>2. /\ ClientOk(c)
      /\ events' = [events EXCEPT ![c] = <<>>]
      /\ shortcuts' = {x \in shortcuts : x.owner # c}
  BY DEF ClientDisconnect
<1>3. /\ clients' \in [ClientSlot -> ClientSlotType]
      /\ \A i \in ClientSlot \ {c[1]} : clients'[i] = clients[i]
      /\ \A d \in ClientHandle \cup {NoHandle} : IsLive(clients', d) <=> ClientOk(d) /\ d # c
      /\ ~clients'[c[1]].live /\ c[1] \in ClientSlot
      /\ clients'[c[1]].queued = 0 /\ clients'[c[1]].reserved_cleanup = 0
      /\ targets' \in [TargetSlot -> TargetSlotType]
      /\ \A i \in TargetSlot : targets'[i].live =>
           targets'[i] = targets[i] /\ <<i, targets[i].generation>> \notin Lost(c)
  BY DisconnectSlots
<1>4. TableInv'
  <2>1. \A i \in ClientSlot : IF clients'[i].live THEN clients'[i].generation # 0
          ELSE clients'[i].queued = 0 /\ clients'[i].reserved_cleanup = 0
    BY <1>1, <1>3 DEF TableInv
  <2>2. ASSUME NEW i \in TargetSlot, targets'[i].live
        PROVE  targets'[i].generation # 0 /\ IsLive(clients', targets'[i].owner)
    <3> DEFINE t == <<i, targets[i].generation>>
    <3>1. targets'[i] = targets[i] /\ t \notin Lost(c)
      BY <1>3, <2>2
    <3>2. /\ targets[i].generation # 0 /\ ClientOk(targets[i].owner)
          /\ targets[i].owner \in ClientHandle \cup {NoHandle}
          /\ targets[i].generation \in 0 .. MaxGeneration
      BY <1>1, <2>2, <3>1 DEF TableInv, TargetSlotType
    <3>3. t \in TargetHandle
      BY <3>2, InputAssumption DEF TargetHandle, Generation
    <3>4. TargetOk(t) /\ Owner(t) = targets[i].owner
      BY <2>2, <3>1, <3>3, HandleParts DEF TargetOk, IsLive, Owner
    <3>5. targets[i].owner # c
      BY <3>1, <3>3, <3>4 DEF Lost, Owned
    <3> HIDE DEF t
    <3> QED
      BY <1>3, <3>1, <3>2, <3>5
  <2>3. \A x \in shortcuts' : IsLive(clients', x.owner)
    BY <1>1, <1>2, <1>3 DEF TableInv, Shortcut
  <2>4. shortcuts' \subseteq Shortcut /\ features' \in FeatureSets
    BY <1>1, <1>2 DEF TableInv
  <2> QED
    BY <1>3, <2>1, <2>2, <2>3, <2>4 DEF TableInv, ClientOk
<1>5. /\ events'[c] = <<>>
      /\ \A d \in ClientHandle \ {c} : events'[d] = events[d]
      /\ events' = [d \in ClientHandle |-> events'[d]]
  BY <1>1, <1>2 DEF QueuesInv
<1>6. QueuesInv'
  <2>1. \A d \in ClientHandle : IsEventQueue(events'[d])
    BY <1>1, <1>5, ShortQueues DEF QueuesInv
  <2>2. \A d \in ClientHandle : ~IsLive(clients', d) => events'[d] = <<>>
    BY <1>1, <1>3, <1>5 DEF QueuesInv
  <2> QED
    BY <1>5, <2>1, <2>2 DEF QueuesInv, ClientOk
<1>7. /\ SeatInv'
      /\ \A d \in ClientHandle : ClientOk(d) /\ d # c => Owed(d)' = Owed(d)
  BY DisconnectSeat
<1>8. ASSUME NEW d \in ClientHandle, IsLive(clients', d)
      PROVE  /\ clients'[d[1]].reserved_cleanup = Owed(d)'
             /\ clients'[d[1]].queued = Len(events'[d])
             /\ clients'[d[1]].queued + clients'[d[1]].reserved_cleanup
                  <= MaxEventsPerClient
  <2>1. ClientOk(d) /\ d # c /\ d[1] \in ClientSlot
    BY <1>3, <1>8, HandleParts
  <2>2. d[1] # c[1]
    BY <1>2, <2>1, HandleParts DEF ClientOk, IsLive
  <2>3. /\ clients[d[1]].reserved_cleanup = Owed(d)
        /\ clients[d[1]].queued = Len(events[d])
        /\ clients[d[1]].queued + clients[d[1]].reserved_cleanup <= MaxEventsPerClient
    BY <1>1, <2>1 DEF Reservations, ReservationExact, ReservationHolds, Queued, Reserved
  <2>4. Owed(d)' = Owed(d)
    BY <1>7, <2>1
  <2> QED
    BY <1>3, <1>5, <2>1, <2>2, <2>3, <2>4
<1>9. TotalReserved(clients') <= FreeEvents(events')
  <2>1. CleanupReservations(clients') \subseteq CleanupReservations(clients)
    BY <1>3 DEF CleanupReservations
  <2>2. \A d \in ClientHandle : DOMAIN events'[d] \subseteq DOMAIN events[d]
    <3>1. DOMAIN <<>> = {}
      BY EmptySeq
    <3> QED
      BY <1>5, <3>1
  <2>3. EventsInUse(events') \subseteq EventsInUse(events)
    BY <2>2 DEF EventsInUse
  <2> QED
    BY <2>1, <2>3, LessIsCovered
<1>10. Reservations'
  <2>1. ReservationExact'
    BY <1>8 DEF ReservationExact, Reserved, Queued, ClientOk
  <2>2. ReservationHolds'
    BY <1>8, <1>9 DEF ReservationHolds, Reserved, Queued, ClientOk
  <2> QED
    BY <2>1, <2>2 DEF Reservations
<1> QED
  BY <1>4, <1>6, <1>7, <1>10 DEF InputInv

-----------------------------------------------------------------------------
(* The invariant holds.                                                    *)

LEMMA InitInv ==
  ASSUME Init
  PROVE  InputInv
<1>1. {ClientCapacity, TargetCapacity, EventCapacity, MaxEventsPerClient, MaxGeneration,
       MaxEpoch, MaxRevision} \subseteq Nat \ {0}
  BY InputAssumption
<1>2. /\ clients = [i \in ClientSlot |-> DeadClient(1)]
      /\ targets = [i \in TargetSlot |-> DeadTarget(1)]
      /\ events = [c \in ClientHandle |-> <<>>]
      /\ shortcuts = {} /\ features \in FeatureSets
  BY DEF Init
<1>3. /\ focus = NoHandle /\ focus_epoch = 1 /\ keys = {} /\ ime_active = FALSE
      /\ ime_target = NoHandle /\ ime_revision = 0 /\ pointer_target = NoHandle
      /\ pointer_capture = NoHandle /\ buttons = {}
      /\ touches = [id \in TouchId |-> NoHandle]
  BY DEF Init
<1>4. IsFiniteSet({}) /\ Cardinality({}) = 0
  BY FS_EmptySet
<1>5. /\ DeadClient(1) \in ClientSlotType /\ ~DeadClient(1).live
      /\ DeadClient(1).queued = 0 /\ DeadClient(1).reserved_cleanup = 0
      /\ DeadTarget(1) \in TargetSlotType /\ ~DeadTarget(1).live
  BY <1>1 DEF DeadClient, ClientSlotType, DeadTarget, TargetSlotType
<1>6. TableInv
  BY <1>2, <1>5 DEF TableInv
<1>7. QueuesInv
  BY <1>2, ShortQueues DEF QueuesInv
<1>8. \A c \in ClientHandle : ~ClientOk(c)
  BY <1>2, <1>5, HandleParts DEF ClientOk, IsLive
<1>9. SeatInv
  <2>1. Down = {}
    BY <1>3 DEF Down
  <2>2. FiniteInv
    BY <1>3, <1>4, <2>1 DEF FiniteInv
  <2>3. SeatType
    <3>1. 1 \in 1 .. MaxEpoch /\ 0 \in 0 .. MaxRevision - 1
      BY <1>1
    <3> QED
      BY <1>3, <3>1 DEF SeatType
  <2>4. SeatLinks
    BY <1>3 DEF SeatLinks
  <2> QED
    BY <2>2, <2>3, <2>4 DEF SeatInv
<1>10. Reservations
  <2>1. CleanupReservations(clients) = {}
    BY <1>2, <1>5 DEF CleanupReservations
  <2>2. EventsInUse(events) = {}
    <3>1. DOMAIN <<>> = {}
      BY EmptySeq
    <3> QED
      BY <1>2, <3>1 DEF EventsInUse
  <2>3. TotalReserved(clients) <= FreeEvents(events)
    <3>1. TotalReserved(clients) = 0 /\ FreeEvents(events) = EventCapacity - 0
      BY <1>4, <2>1, <2>2 DEF TotalReserved, FreeEvents
    <3> QED
      BY <1>1, <3>1
  <2> QED
    BY <1>8, <2>3 DEF Reservations, ReservationExact, ReservationHolds
<1> QED
  BY <1>6, <1>7, <1>9, <1>10 DEF InputInv

\* The data steps: repeated keys, axis, stylus, moving contacts.
LEMMA DataSteps ==
  ASSUME InputInv, UNCHANGED features,
         \/ PointerAxis
         \/ \E t \in TargetHandle : Stylus(t)
         \/ \E id \in TouchId : TouchMove(id)
         \/ \E k \in Key : KeyRepeat(k)
  PROVE  InputInv'
<1>1. /\ {focus, pointer_target, pointer_capture} \subseteq TargetHandle \cup {NoHandle}
      /\ \A id \in TouchId : touches[id] \in TargetHandle \cup {NoHandle}
  BY DEF InputInv, SeatInv, SeatType
<1>2. CASE PointerAxis
  BY <1>1, <1>2, DataStep DEF PointerAxis, Dispatch
<1>3. CASE \E t \in TargetHandle : Stylus(t)
  BY <1>3, DataStep DEF Stylus
<1>4. CASE \E id \in TouchId : TouchMove(id)
  BY <1>1, <1>4, DataStep DEF TouchMove
<1>5. CASE \E k \in Key : KeyRepeat(k)
  BY <1>1, <1>5, DataStep DEF KeyRepeat
<1> QED
  BY <1>2, <1>3, <1>4, <1>5

LEMMA SeatNextInv ==
  ASSUME InputInv, SeatNext, UNCHANGED features
  PROVE  InputInv'
<1>1. CASE ClientCreate
  BY <1>1, ClientCreateStep
<1>2. CASE SetPreferences
  BY <1>2, SetPreferencesStep
<1>3. CASE PointerCancel
  BY <1>3, PointerCancelStep
<1>4. ASSUME NEW c \in ClientHandle, NextEvent(c)
      PROVE  InputInv'
  BY <1>4, NextEventStep
<1>5. ASSUME NEW c \in ClientHandle, NEW mode \in TextMode, TargetCreate(c, mode)
      PROVE  InputInv'
  BY <1>5, TargetCreateStep
<1>6. CASE \/ \E c \in ClientHandle, t \in TargetHandle, id \in ShortcutId, k \in Key :
                ShortcutRegister(c, t, id, k)
           \/ \E c \in ClientHandle, id \in ShortcutId : ShortcutUnregister(c, id)
  BY <1>6, ShortcutStep
<1>7. ASSUME NEW t \in TargetHandle \cup {NoHandle}, SetFocus(t)
      PROVE  InputInv'
  BY <1>7, SetFocusStep
<1>8. ASSUME NEW t \in TargetHandle \cup {NoHandle}, PointerMotion(t)
      PROVE  InputInv'
  BY <1>8, PointerMotionStep
<1>9. ASSUME NEW t \in TargetHandle, NEW id \in TouchId, TouchDown(t, id)
      PROVE  InputInv'
  BY <1>9, TouchDownStep
<1>10. ASSUME NEW id \in TouchId, TouchUp(id)
       PROVE  InputInv'
  BY <1>10, TouchUpStep
<1>11. ASSUME NEW k \in Key, KeyDown(k) \/ KeyUp(k)
       PROVE  InputInv'
  BY <1>11, KeyDownStep, KeyUpStep
<1>12. ASSUME NEW b \in Button, ButtonDown(b) \/ ButtonUp(b)
       PROVE  InputInv'
  BY <1>12, ButtonDownStep, ButtonUpStep
<1>13. ASSUME NEW epoch \in 1 .. MaxEpoch, NEW revision \in 1 .. MaxRevision,
              \/ TextPreedit(epoch, revision)
              \/ TextCommit(epoch, revision)
              \/ TextCancel(epoch, revision)
       PROVE  InputInv'
  BY <1>13, TextSteps
<1>14. CASE \/ PointerAxis
            \/ \E t \in TargetHandle : Stylus(t)
            \/ \E id \in TouchId : TouchMove(id)
            \/ \E k \in Key : KeyRepeat(k)
  BY <1>14, DataSteps
<1> QED
  BY <1>1, <1>2, <1>3, <1>4, <1>5, <1>6, <1>7, <1>8, <1>9, <1>10, <1>11, <1>12, <1>13, <1>14
     DEF SeatNext

LEMMA StutterInv ==
  ASSUME InputInv, UNCHANGED vars
  PROVE  InputInv'
<1>1. UNCHANGED <<features, clients, targets, events, shortcuts, seatVars>>
  BY DEF vars
<1>2. \A t \in Pointed : t # NoHandle => targets'[t[1]] = targets[t[1]]
  BY <1>1
<1>3. \A i \in TargetSlot : targets'[i].live =>
        targets'[i].generation # 0 /\ ClientOk(targets'[i].owner)
  BY <1>1 DEF InputInv, TableInv
<1>4. targets' \in [TargetSlot -> TargetSlotType]
  BY <1>1 DEF InputInv, TableInv
<1> QED
  BY <1>1, <1>2, <1>3, <1>4, TargetsChange

LEMMA NextInv ==
  ASSUME InputInv, [Next]_vars
  PROVE  InputInv'
<1>1. CASE UNCHANGED vars
  BY <1>1, StutterInv
<1>2. CASE SeatNext /\ UNCHANGED features
  BY <1>2, SeatNextInv
<1>3. ASSUME NEW c \in ClientHandle, ClientDisconnect(c), UNCHANGED features
      PROVE  InputInv'
  BY <1>3, ClientDisconnectStep
<1>4. ASSUME NEW c \in ClientHandle, NEW t \in TargetHandle, TargetDestroy(c, t),
             UNCHANGED features
      PROVE  InputInv'
  BY <1>4, TargetDestroyStep
<1> QED
  BY <1>1, <1>2, <1>3, <1>4 DEF Next

\* The inductive invariant holds in every reachable state, whatever the
\* capacities, keys, buttons and contacts.
THEOREM InputInvariant == Spec => []InputInv
<1>1. Init => InputInv
  BY InitInv
<1>2. InputInv /\ [Next]_vars => InputInv'
  BY NextInv
<1> QED
  BY <1>1, <1>2, PTL DEF Spec

\* The seat only points to live targets of live clients, the pointer is
\* captured exactly while a button is down, and keys and text belong to the
\* focus: no call, and no client that leaves, breaks that.
THEOREM SeatIsConsistent == Spec => []SeatConsistent
<1>1. InputInv => SeatConsistent
  BY InvIsConsistent
<1> QED
  BY <1>1, InputInvariant, PTL

\* What is reserved is what is owed, and it is covered: within each client's
\* quota and, for all clients together, by free slots of the event table.
THEOREM ReservationsHold == Spec => []Reservations
<1>1. InputInv => Reservations
  BY DEF InputInv
<1> QED
  BY <1>1, InputInvariant, PTL

-----------------------------------------------------------------------------
(* Whatever is down can come up.                                           *)

\* As many slots of the event table are used as before and events in the mail.
LEMMA UseAfter ==
  ASSUME InputInv, NEW c \in ClientHandle, NEW news, IsEventQueue(news), news # <<>>,
         NEW r \in Int
  PROVE  /\ IsFiniteSet(EventsInUse(EventsAfter(Mail(c, news, r))))
         /\ Cardinality(EventsInUse(EventsAfter(Mail(c, news, r))))
              <= Cardinality(EventsInUse(events)) + Len(news)
<1> DEFINE m == Mail(c, news, r)
           q == Len(events[c])
           n == Len(news)
           new == {c} \X ((q + 1) .. (q + n))
<1>1. /\ \A d \in ClientHandle : IsEventQueue(events[d])
      /\ m[c].news = news
      /\ \A d \in ClientHandle \ {c} : m[d].news = <<>>
  BY DEF Mail, NoMail, InputInv, QueuesInv
<1> HIDE DEF m
<1>2. /\ IsEventQueue(<<>>)
      /\ \A d \in ClientHandle \ {c} : events[d] \o m[d].news = events[d]
      /\ IsEventQueue(events[c] \o news) /\ Len(events[c] \o news) = q + n
  BY <1>1, Concatenation, ShortQueues
<1>3. /\ q \in Nat /\ n \in Nat
      /\ DOMAIN events[c] = 1 .. q
      /\ DOMAIN (events[c] \o news) = 1 .. (q + n)
  BY <1>1, <1>2, QueueLength DEF IsEventQueue
<1> HIDE DEF q, n
<1>4. EventsInUse(EventsAfter(m)) \subseteq EventsInUse(events) \cup new
  <2>1. \A d \in ClientHandle \ {c} : EventsAfter(m)[d] = events[d]
    BY <1>2 DEF EventsAfter
  <2>2. EventsAfter(m)[c] = events[c] \o news
    BY <1>1 DEF EventsAfter
  <2>3. \A k \in 1 .. (q + n) : k \in 1 .. q \/ k \in (q + 1) .. (q + n)
    BY <1>3
  <2> QED
    BY <1>3, <2>1, <2>2, <2>3 DEF EventsInUse
<1>5. IsFiniteSet(new) /\ Cardinality(new) = n
  <2>1. /\ IsFiniteSet((q + 1) .. (q + n))
        /\ Cardinality((q + 1) .. (q + n)) = n
    <3>1. q + 1 \in Int /\ q + n \in Int
      BY <1>3
    <3>2. /\ IsFiniteSet((q + 1) .. (q + n))
          /\ Cardinality((q + 1) .. (q + n))
               = IF q + 1 > q + n THEN 0 ELSE (q + n) - (q + 1) + 1
      BY <3>1, FS_Interval
    <3> QED
      BY <1>3, <3>2
  <2>2. IsFiniteSet({c}) /\ Cardinality({c}) = 1
    BY FS_Singleton
  <2>3. IsFiniteSet(new) /\ Cardinality(new) = 1 * n
    BY <2>1, <2>2, FS_Product
  <2> QED
    BY <1>3, <2>3
<1> HIDE DEF new
<1>6. /\ IsFiniteSet(EventsInUse(events) \cup new)
      /\ Cardinality(EventsInUse(events) \cup new) <= Cardinality(EventsInUse(events)) + n
  <2>1. IsFiniteSet(EventsInUse(events))
    BY CountsFinite
  <2>2. /\ IsFiniteSet(EventsInUse(events) \cup new)
        /\ IsFiniteSet(EventsInUse(events) \cap new)
        /\ Cardinality(EventsInUse(events) \cup new)
             = Cardinality(EventsInUse(events)) + Cardinality(new)
               - Cardinality(EventsInUse(events) \cap new)
    BY <1>5, <2>1, FS_Union, FS_Intersection
  <2>3. /\ Cardinality(EventsInUse(events)) \in Nat
        /\ Cardinality(EventsInUse(events) \cap new) \in Nat
    BY <2>1, <2>2, FS_CardinalityType
  <2> QED
    BY <1>3, <1>5, <2>2, <2>3
<1>7. /\ IsFiniteSet(EventsInUse(EventsAfter(m)))
      /\ Cardinality(EventsInUse(EventsAfter(m)))
           <= Cardinality(EventsInUse(events) \cup new)
  BY <1>4, <1>6, FS_Subset
<1>8. /\ Cardinality(EventsInUse(EventsAfter(m))) \in Nat
      /\ Cardinality(EventsInUse(events) \cup new) \in Nat
      /\ Cardinality(EventsInUse(events)) \in Nat
  BY <1>6, <1>7, CountsFinite, FS_CardinalityType
<1> QED
  BY <1>3, <1>6, <1>7, <1>8 DEF m, n

\* A mail that ends n things gives n reservations back.
LEMMA ReservedAfter ==
  ASSUME InputInv, NEW c \in ClientHandle, ClientOk(c), NEW news, IsEventQueue(news),
         news # <<>>, Reserved(c) >= Len(news)
  PROVE  /\ IsFiniteSet(CleanupReservations(ClientsAfter(Mail(c, news, -Len(news)))))
         /\ Cardinality(CleanupReservations(ClientsAfter(Mail(c, news, -Len(news)))))
              = Cardinality(CleanupReservations(clients)) - Len(news)
<1> DEFINE n == Len(news)
           m == Mail(c, news, -n)
           i == c[1]
           r == clients[i].reserved_cleanup
           after == CleanupReservations(ClientsAfter(m))
           given == {i} \X ((r - n + 1) .. r)
<1>1. /\ clients \in [ClientSlot -> ClientSlotType] /\ TableInv
      /\ MaxEventsPerClient \in Nat
  BY InputAssumption DEF InputInv, TableInv
<1>2. /\ i \in ClientSlot /\ clients[i].live /\ c = <<i, clients[i].generation>>
      /\ n \in Nat /\ r \in 0 .. MaxEventsPerClient /\ r >= n
  BY <1>1, HandleParts, QueueLength
     DEF ClientOk, IsLive, IsEventQueue, ClientSlotType, Reserved
<1>3. /\ m[c].reserve = -n
      /\ \A d \in ClientHandle \ {c} : m[d].reserve = 0
  BY DEF Mail, NoMail
<1> HIDE DEF n, m
<1>4. /\ \A j \in ClientSlot : ClientsAfter(m)[j].live = clients[j].live
      /\ \A j \in ClientSlot \ {i} : clients[j].live =>
           ClientsAfter(m)[j].reserved_cleanup = clients[j].reserved_cleanup
      /\ ClientsAfter(m)[i].reserved_cleanup = r - n
  <2>1. ASSUME NEW j \in ClientSlot, clients[j].live
        PROVE  /\ ClientsAfter(m)[j].live = clients[j].live
               /\ ClientsAfter(m)[j].reserved_cleanup
                    = clients[j].reserved_cleanup + m[<<j, clients[j].generation>>].reserve
    BY <1>1, <2>1 DEF ClientsAfter, ClientSlotType
  <2>2. \A j \in ClientSlot : ~clients[j].live => ClientsAfter(m)[j] = clients[j]
    BY DEF ClientsAfter
  <2>3. \A j \in ClientSlot \ {i} : clients[j].live =>
          <<j, clients[j].generation>> \in ClientHandle \ {c}
    BY <1>1, <1>2, LiveHandle
  <2>4. \A j \in ClientSlot : clients[j].reserved_cleanup \in Int
    BY <1>1 DEF ClientSlotType
  <2>5. ASSUME NEW j \in ClientSlot \ {i}, clients[j].live
        PROVE  ClientsAfter(m)[j].reserved_cleanup = clients[j].reserved_cleanup
    <3>1. m[<<j, clients[j].generation>>].reserve = 0
      BY <1>3, <2>3, <2>5
    <3>2. ClientsAfter(m)[j].reserved_cleanup
            = clients[j].reserved_cleanup + m[<<j, clients[j].generation>>].reserve
      BY <2>1, <2>5
    <3>3. ClientsAfter(m)[j].reserved_cleanup = clients[j].reserved_cleanup + 0
      BY <3>1, <3>2
    <3> QED
      BY <2>4, <3>3
  <2>6. ClientsAfter(m)[i].reserved_cleanup = r - n
    <3>1. <<i, clients[i].generation>> = c
      BY <1>2
    <3>2. clients[i].reserved_cleanup = r
      OBVIOUS
    <3> HIDE DEF i, r
    <3>3. ClientsAfter(m)[i].reserved_cleanup
            = clients[i].reserved_cleanup + m[<<i, clients[i].generation>>].reserve
      BY <1>2, <2>1
    <3>4. ClientsAfter(m)[i].reserved_cleanup = r + m[c].reserve
      BY <3>1, <3>2, <3>3
    <3> QED
      BY <1>2, <1>3, <3>4
  <2> QED
    BY <2>1, <2>2, <2>5, <2>6
<1> HIDE DEF i, r
<1>5. /\ CleanupReservations(clients) = after \cup given
      /\ after \cap given = {}
  <2>1. \A k \in Int : /\ k \in 1 .. r <=> k \in 1 .. (r - n) \/ k \in (r - n + 1) .. r
                       /\ ~ (k \in 1 .. (r - n) /\ k \in (r - n + 1) .. r)
    BY <1>2
  <2>2. \A x : x \in CleanupReservations(clients) <=>
          \E j \in ClientSlot : clients[j].live /\ x \in {j} \X (1 .. clients[j].reserved_cleanup)
    BY DEF CleanupReservations
  <2>3. \A x : x \in after <=>
          \E j \in ClientSlot : /\ clients[j].live
                                /\ x \in {j} \X (1 .. ClientsAfter(m)[j].reserved_cleanup)
    BY <1>4 DEF CleanupReservations
  <2>4. \A x : x \in {i} \X (1 .. r) <=> x \in {i} \X (1 .. (r - n)) \/ x \in given
    BY <2>1
  <2>5. \A x : ~ (x \in {i} \X (1 .. (r - n)) /\ x \in given)
    BY <2>1
  <2>6. \A x \in given : x[1] = i
    OBVIOUS
  <2>7. clients[i].reserved_cleanup = r
    BY DEF r
  <2> HIDE DEF after, given
  <2>8. \A x : x \in CleanupReservations(clients) <=> x \in after \/ x \in given
    <3> SUFFICES ASSUME NEW x
                 PROVE  x \in CleanupReservations(clients) <=> x \in after \/ x \in given
      OBVIOUS
    <3>1. ASSUME NEW j \in ClientSlot, clients[j].live,
                 x \in {j} \X (1 .. clients[j].reserved_cleanup)
          PROVE  x \in after \/ x \in given
      BY <1>2, <1>4, <2>3, <2>4, <2>7, <3>1
    <3>2. ASSUME NEW j \in ClientSlot, clients[j].live,
                 x \in {j} \X (1 .. ClientsAfter(m)[j].reserved_cleanup)
          PROVE  x \in CleanupReservations(clients)
      BY <1>2, <1>4, <2>2, <2>4, <2>7, <3>2
    <3>3. x \in given => x \in CleanupReservations(clients)
      BY <1>2, <2>2, <2>4, <2>7
    <3> QED
      BY <2>2, <2>3, <3>1, <3>2, <3>3
  <2>9. \A x : ~ (x \in after /\ x \in given)
    <3> SUFFICES ASSUME NEW x, x \in after, x \in given
                 PROVE  FALSE
      OBVIOUS
    <3>1. PICK j \in ClientSlot : /\ clients[j].live
                                  /\ x \in {j} \X (1 .. ClientsAfter(m)[j].reserved_cleanup)
      BY <2>3
    <3>2. j = i
      BY <2>6, <3>1
    <3> QED
      BY <1>4, <2>5, <3>1, <3>2
  <2> QED
    BY <2>8, <2>9
<1>6. IsFiniteSet(given) /\ Cardinality(given) = n
  <2>1. /\ IsFiniteSet((r - n + 1) .. r)
        /\ Cardinality((r - n + 1) .. r) = n
    <3>1. r - n + 1 \in Int /\ r \in Int
      BY <1>2
    <3>2. /\ IsFiniteSet((r - n + 1) .. r)
          /\ Cardinality((r - n + 1) .. r)
               = IF r - n + 1 > r THEN 0 ELSE r - (r - n + 1) + 1
      BY <3>1, FS_Interval
    <3> QED
      BY <1>2, <3>2
  <2>2. IsFiniteSet({i}) /\ Cardinality({i}) = 1
    BY FS_Singleton
  <2>3. IsFiniteSet(given) /\ Cardinality(given) = 1 * n
    BY <2>1, <2>2, FS_Product
  <2> QED
    BY <1>2, <2>3
<1> HIDE DEF after, given
<1>7. IsFiniteSet(CleanupReservations(clients))
  BY CountsFinite
<1>8. IsFiniteSet(after)
  BY <1>5, <1>7, FS_Subset
<1>9. Cardinality(CleanupReservations(clients))
        = Cardinality(after) + Cardinality(given) - Cardinality(after \cap given)
  BY <1>5, <1>6, <1>8, FS_Union
<1>10. /\ Cardinality(after \cap given) = 0
       /\ Cardinality(after) \in Nat
       /\ Cardinality(CleanupReservations(clients)) \in Nat
  BY <1>5, <1>7, <1>8, FS_EmptySet, FS_CardinalityType
<1> QED
  BY <1>2, <1>6, <1>8, <1>9, <1>10 DEF after, m, n

\* A client that has as much reserved as a mail has events has room for it.
LEMMA ReleaseRoom ==
  ASSUME InputInv, NEW c \in ClientHandle, ClientOk(c), NEW news, IsEventQueue(news),
         news # <<>>, Reserved(c) >= Len(news)
  PROVE  Room(Mail(c, news, -Len(news)))
<1> DEFINE n == Len(news)
           m == Mail(c, news, -n)
<1>1. /\ n \in Nat /\ -n \in Int
      /\ Reserved(c) \in Nat /\ Queued(c) \in Nat /\ MaxEventsPerClient \in Nat
      /\ Queued(c) + Reserved(c) <= MaxEventsPerClient
  <2>1. n \in Nat
    BY QueueLength DEF IsEventQueue
  <2>2. c[1] \in ClientSlot /\ MaxEventsPerClient \in Nat
    BY HandleParts, InputAssumption
  <2>3. Reserved(c) \in Nat /\ Queued(c) \in Nat
    BY <2>2 DEF InputInv, TableInv, ClientSlotType, Reserved, Queued
  <2> QED
    BY <2>1, <2>2, <2>3 DEF InputInv, Reservations, ReservationHolds
<1>2. /\ m[c].news = news /\ m[c].reserve = -n
      /\ \A d \in ClientHandle \ {c} : m[d].news = <<>>
  BY DEF Mail, NoMail
<1>3. Receivers(m) = {c}
  BY <1>2 DEF Receivers
<1>4. TotalReserved(ClientsAfter(m)) <= FreeEvents(EventsAfter(m))
  <2>1. /\ Cardinality(EventsInUse(EventsAfter(m))) <= Cardinality(EventsInUse(events)) + n
        /\ IsFiniteSet(EventsInUse(EventsAfter(m)))
    BY <1>1, UseAfter
  <2>2. Cardinality(CleanupReservations(ClientsAfter(m)))
          = Cardinality(CleanupReservations(clients)) - n
    BY ReservedAfter
  <2>3. /\ Cardinality(EventsInUse(EventsAfter(m))) \in Nat
        /\ Cardinality(EventsInUse(events)) \in Nat
        /\ Cardinality(CleanupReservations(clients)) \in Nat
        /\ EventCapacity \in Nat
    BY <2>1, CountsFinite, FS_CardinalityType, InputAssumption
  <2>4. Cardinality(CleanupReservations(clients))
          <= EventCapacity - Cardinality(EventsInUse(events))
    BY DEF InputInv, Reservations, ReservationHolds, TotalReserved, FreeEvents
  <2> HIDE DEF n, m
  <2> QED
    BY <1>1, <2>1, <2>2, <2>3, <2>4 DEF TotalReserved, FreeEvents
<1>5. /\ Reserved(c) + m[c].reserve >= 0
      /\ Queued(c) + Len(m[c].news) + Reserved(c) + m[c].reserve <= MaxEventsPerClient
  <2>1. Len(m[c].news) = n /\ m[c].reserve = -n /\ Reserved(c) >= n
    BY <1>2
  <2> HIDE DEF n, m
  <2> QED
    BY <1>1, <2>1
<1> HIDE DEF m
<1>6. Room(m)
  BY <1>3, <1>4, <1>5 DEF Room
<1> QED
  BY <1>6 DEF m

\* A client has reserved what its part of the seat takes to end.
LEMMA OwedIsReserved ==
  ASSUME InputInv, NEW t \in TargetHandle, TargetOk(t)
  PROVE  /\ Owner(t) \in ClientHandle /\ ClientOk(Owner(t))
         /\ Cardinality(keys) \in Nat /\ Cardinality(buttons) \in Nat
         /\ Cardinality(Contacts(Owner(t))) \in Nat
         /\ Reserved(Owner(t))
              = (IF Owned(Owner(t), focus) THEN Cardinality(keys) ELSE 0)
                + (IF ime_active /\ Owned(Owner(t), focus) THEN 1 ELSE 0)
                + (IF Owned(Owner(t), pointer_target) THEN 1 ELSE 0)
                + (IF Owned(Owner(t), pointer_capture) THEN Cardinality(buttons) ELSE 0)
                + Cardinality(Contacts(Owner(t)))
<1>1. TableInv /\ SeatInv /\ Owner(t) \in ClientHandle /\ ClientOk(Owner(t))
  BY LiveHandle DEF InputInv
<1>2. ime_active /\ Owned(Owner(t), ime_target) <=> ime_active /\ Owned(Owner(t), focus)
  BY <1>1 DEF SeatInv, SeatLinks
<1>3. Reserved(Owner(t)) = Owed(Owner(t))
  BY <1>1 DEF InputInv, Reservations, ReservationExact
<1> QED
  BY <1>1, <1>2, <1>3, OwedParts DEF Owed, Contacts

LEMMA SomethingDown ==
  ASSUME NEW S, IsFiniteSet(S), S # {}
  PROVE  Cardinality(S) >= 1
<1>1. Cardinality(S) \in Nat /\ Cardinality(S) # 0
  BY FS_CardinalityType, FS_EmptySet
<1> QED
  BY <1>1

LEMMA InvNeverBlocks ==
  ASSUME InputInv
  PROVE  ReleaseNeverBlocked
<1> DEFINE up(t) == Mail(Owner(t), <<Event("DATA", t, 0)>>, -1)
           n     == Cardinality(buttons) + 1
           all   == [i \in 1 .. n |-> Event("DATA", pointer_target, 0)]
<1>1. TableInv /\ SeatInv /\ SeatType /\ FiniteInv /\ SeatLinks
  BY DEF InputInv, SeatInv
<1>2. \A t \in TargetHandle : IsEvent(Event("DATA", t, 0))
  BY DEF IsEvent, Event, EventType
<1>3. ASSUME NEW t \in TargetHandle, TargetOk(t), Reserved(Owner(t)) >= 1
      PROVE  Room(up(t))
  <2> DEFINE news == <<Event("DATA", t, 0)>>
  <2>1. IsEventQueue(news) /\ Len(news) = 1 /\ news # <<>>
    BY <1>2, ShortQueues
  <2>2. Owner(t) \in ClientHandle /\ ClientOk(Owner(t))
    BY <1>1, <1>3, LiveHandle
  <2> HIDE DEF news
  <2>3. Room(Mail(Owner(t), news, -Len(news)))
    BY <1>3, <2>1, <2>2, ReleaseRoom
  <2> QED
    BY <2>1, <2>3 DEF news
<1>4. ASSUME keys # {} \/ ime_active
      PROVE  Room(up(focus))
  <2>1. focus \in TargetHandle /\ TargetOk(focus)
    BY <1>1, <1>4 DEF SeatType, SeatLinks
  <2>2. Owned(Owner(focus), focus)
    BY <2>1 DEF Owned
  <2>3. keys # {} => Cardinality(keys) >= 1
    BY <1>1, SomethingDown DEF FiniteInv
  <2>4. Reserved(Owner(focus)) >= 1
    BY <1>4, <2>1, <2>2, <2>3, OwedIsReserved
  <2> QED
    BY <1>3, <2>1, <2>4
<1>5. ASSUME buttons # {}
      PROVE  Room(up(pointer_capture))
  <2>1. pointer_capture \in TargetHandle /\ TargetOk(pointer_capture)
    BY <1>1, <1>5 DEF SeatType, SeatLinks
  <2>2. Owned(Owner(pointer_capture), pointer_capture)
    BY <2>1 DEF Owned
  <2>3. Cardinality(buttons) >= 1
    BY <1>1, <1>5, SomethingDown DEF FiniteInv
  <2>4. Reserved(Owner(pointer_capture)) >= 1
    BY <2>1, <2>2, <2>3, OwedIsReserved
  <2> QED
    BY <1>3, <2>1, <2>4
<1>6. ASSUME NEW id \in TouchId, touches[id] # NoHandle
      PROVE  Room(up(touches[id]))
  <2>1. touches[id] \in TargetHandle /\ TargetOk(touches[id])
    BY <1>1, <1>6 DEF SeatType, SeatLinks
  <2>2. Contacts(Owner(touches[id])) # {} /\ IsFiniteSet(Contacts(Owner(touches[id])))
    BY <1>1, <2>1, OwedParts DEF Owned, Contacts
  <2>3. Cardinality(Contacts(Owner(touches[id]))) >= 1
    BY <2>2, SomethingDown
  <2>4. Reserved(Owner(touches[id])) >= 1
    BY <2>1, <2>3, OwedIsReserved
  <2> QED
    BY <1>3, <2>1, <2>4
<1>7. ASSUME pointer_target # NoHandle
      PROVE  Room(Mail(Owner(pointer_target), all, -n))
  <2>1. pointer_target \in TargetHandle /\ TargetOk(pointer_target)
    BY <1>1, <1>7 DEF SeatType, SeatLinks
  <2>2. Owned(Owner(pointer_target), pointer_target)
    BY <2>1 DEF Owned
  <2>3. Cardinality(buttons) \in Nat
    BY <2>1, OwedIsReserved
  <2>4. buttons = {} => Cardinality(buttons) = 0
    BY FS_EmptySet
  <2>5. buttons # {} => pointer_capture = pointer_target
    BY <1>1 DEF SeatLinks
  <2>6. Reserved(Owner(pointer_target)) >= Cardinality(buttons) + 1
    BY <2>1, <2>2, <2>3, <2>4, <2>5, OwedIsReserved
  <2>7. n \in Nat /\ n # 0
    BY <2>3
  <2>8. /\ all = [i \in 1 .. n |-> all[i]] /\ DOMAIN all = 1 .. n
        /\ \A i \in 1 .. n : IsEvent(all[i])
    BY <1>2, <2>1
  <2>9. all \in Seq({all[i] : i \in 1 .. n})
    <3> HIDE DEF n, all
    <3> QED
      BY <2>7, <2>8, SeqDef
  <2>10. IsEventQueue(all) /\ Len(all) = n /\ all # <<>>
    <3> HIDE DEF n, all
    <3>1. IsQueue(all) /\ DOMAIN all = 1 .. Len(all) /\ Len(all) \in Nat
      BY <2>9, QueueOf
    <3>2. Len(all) = n
      BY <2>7, <2>8, <2>9, LenProperties
    <3>3. all # <<>>
      BY <2>7, <3>1, <3>2, QueueLength
    <3> QED
      BY <2>8, <3>1, <3>2, <3>3 DEF IsEventQueue
  <2>11. Owner(pointer_target) \in ClientHandle /\ ClientOk(Owner(pointer_target))
    BY <2>1, OwedIsReserved
  <2> HIDE DEF all
  <2>12. Room(Mail(Owner(pointer_target), all, -Len(all)))
    BY <2>6, <2>10, <2>11, ReleaseRoom
  <2> QED
    BY <2>10, <2>12
<1> QED
  BY <1>4, <1>5, <1>6, <1>7 DEF ReleaseNeverBlocked

\* Whatever is down can come up: the calls that release a key, a button or a
\* contact, end a composition or cancel the pointer never find the queues full.
THEOREM ReleasesAreNeverBlocked == Spec => []ReleaseNeverBlocked
<1>1. InputInv => ReleaseNeverBlocked
  BY InvNeverBlocks
<1> QED
  BY <1>1, InputInvariant, PTL

-----------------------------------------------------------------------------
(* Text.                                                                   *)

TextForward == \/ focus_epoch' > focus_epoch
               \/ focus_epoch' = focus_epoch /\ ime_revision' >= ime_revision

LEMMA TextStepsForward ==
  ASSUME InputInv, [Next]_vars
  PROVE  TextForward
<1>1. focus_epoch \in Nat /\ ime_revision \in Nat
  BY InputAssumption DEF InputInv, SeatInv, SeatType
<1>2. UNCHANGED <<focus_epoch, ime_revision>> => TextForward
  BY <1>1 DEF TextForward
<1>3. focus_epoch' = focus_epoch + 1 => TextForward
  BY <1>1 DEF TextForward
<1>4. ASSUME NEW epoch, NEW revision \in 1 .. MaxRevision, TextAccepted(epoch, revision)
      PROVE  TextForward
  BY <1>1, <1>4 DEF TextAccepted, TextForward
<1>5. ASSUME NEW c \in ClientHandle, ClientDisconnect(c)
      PROVE  TextForward
  BY <1>2, <1>3, <1>5 DEF ClientDisconnect, DropFocus, focusVars, textVars
<1>6. ASSUME NEW t \in TargetHandle \cup {NoHandle}, SetFocus(t) \/ PointerMotion(t)
      PROVE  TextForward
  BY <1>2, <1>3, <1>6 DEF SetFocus, PointerMotion, focusVars, textVars
<1>7. CASE UNCHANGED vars
  BY <1>2, <1>7 DEF vars, seatVars, focusVars, textVars
<1>8. CASE SeatNext
  <2>1. \/ UNCHANGED focusVars
        \/ UNCHANGED <<focus_epoch, textVars>>
        \/ \E t \in TargetHandle \cup {NoHandle} : SetFocus(t) \/ PointerMotion(t)
        \/ \E epoch \in 1 .. MaxEpoch, revision \in 1 .. MaxRevision :
             TextAccepted(epoch, revision)
    BY <1>8 DEF SeatNext, ClientCreate, SetPreferences, PointerAxis, PointerCancel, NextEvent,
                TargetCreate, ShortcutRegister, ShortcutUnregister, Stylus, TouchDown,
                TouchMove, TouchUp, KeyDown, KeyUp, KeyRepeat, ButtonDown, ButtonUp,
                TextPreedit, TextCommit, TextCancel, seatVars
  <2> QED
    BY <1>2, <1>4, <1>6, <2>1 DEF focusVars, textVars
<1>9. ASSUME NEW c \in ClientHandle, NEW t \in TargetHandle, TargetDestroy(c, t)
      PROVE  TextForward
  BY <1>2, <1>9 DEF TargetDestroy, seatVars, focusVars, textVars
<1> QED
  BY <1>5, <1>7, <1>8, <1>9 DEF Next

\* Focus epoch and text revision move forward as a pair, so that no text call
\* is accepted twice or for an earlier focus.
THEOREM TextOnlyMovesForward == Spec => TextMovesForward
<1>1. InputInv /\ [Next]_vars => TextForward
  BY TextStepsForward
<1> QED
  BY <1>1, InputInvariant, PTL DEF Spec, TextMovesForward, TextForward

-----------------------------------------------------------------------------
(* Reading events.                                                         *)

\* f gives the views that the first events of es can lead to, for n of them.
IsReading(f, v, es, n) ==
  f = [i \in 0 .. n |->
         IF i = 0 THEN {v} ELSE UNION {Reading(x, es[i]) : x \in f[i - 1]}]

\* There is such a function, so that ReadingAll means what it says.
LEMMA ReadingExists ==
  ASSUME NEW v, NEW es, NEW n \in Nat
  PROVE  \E f : IsReading(f, v, es, n)
<1> DEFINE Bad == {m \in Nat : ~ \E f : IsReading(f, v, es, m)}
<1> SUFFICES ASSUME Bad # {}
             PROVE  FALSE
  OBVIOUS
<1> DEFINE m == Lowest(Bad)
<1>1. m \in Bad /\ \A j \in Bad : m <= j
  <2>1. Bad \subseteq Nat
    OBVIOUS
  <2> HIDE DEF Bad
  <2> QED
    BY <2>1, LowestIn
<1>2. m \in Nat /\ ~ \E f : IsReading(f, v, es, m)
  BY <1>1
<1>3. \A j \in Nat : j < m => \E f : IsReading(f, v, es, j)
  <2> SUFFICES ASSUME NEW j \in Nat, j < m, j \in Bad
               PROVE  FALSE
    OBVIOUS
  <2>1. m <= j
    BY <1>1
  <2> QED
    BY <1>2, <2>1
<1> HIDE DEF m, Bad
<1>4. m # 0
  <2>1. IsReading([i \in 0 .. 0 |-> {v}], v, es, 0)
    <3>1. \A i \in 0 .. 0 : i = 0
      OBVIOUS
    <3> QED
      BY <3>1 DEF IsReading
  <2> QED
    BY <1>2, <2>1
<1>5. PICK f : IsReading(f, v, es, m - 1)
  BY <1>2, <1>3, <1>4
<1> DEFINE next == UNION {Reading(x, es[m]) : x \in f[m - 1]}
           g == [i \in 0 .. m |-> IF i = m THEN next ELSE f[i]]
<1>6. \A i \in 0 .. (m - 1) :
        f[i] = IF i = 0 THEN {v} ELSE UNION {Reading(x, es[i]) : x \in f[i - 1]}
  BY <1>5 DEF IsReading
<1>7. \A i \in 0 .. m : /\ i = m \/ i \in 0 .. (m - 1)
                        /\ i # 0 => i - 1 \in 0 .. m /\ i - 1 # m
  BY <1>2, <1>4
<1>8. ASSUME NEW i \in 0 .. m
      PROVE  g[i] = IF i = 0 THEN {v} ELSE UNION {Reading(x, es[i]) : x \in g[i - 1]}
  <2>1. i # 0 => g[i - 1] = f[i - 1]
    BY <1>7
  <2>2. CASE i = m
    BY <1>4, <2>1, <2>2
  <2>3. CASE i # m
    <3>1. g[i] = f[i] /\ i \in 0 .. (m - 1)
      BY <1>7, <2>3
    <3> HIDE DEF g
    <3> QED
      BY <1>6, <2>1, <3>1
  <2> QED
    BY <2>2, <2>3
<1>9. IsReading(g, v, es, m)
  <2>1. g = [i \in 0 .. m |-> g[i]]
    OBVIOUS
  <2> HIDE DEF g
  <2> QED
    BY <1>8, <2>1 DEF IsReading
<1> QED
  BY <1>2, <1>9

\* View by view, f reads the events of es.
ReadsBy(f, es) == \A i \in 1 .. Len(es) : f[i] \in Reading(f[i - 1], es[i])

\* Reading es leads from view v to view w.
Reads(v, es, w) == \E f : f[0] = v /\ f[Len(es)] = w /\ ReadsBy(f, es)

\* What events can be read as, one by one, they can be read as at once.
LEMMA ReadsAreReadings ==
  ASSUME NEW v, NEW w, NEW es, Len(es) \in Nat, Reads(v, es, w)
  PROVE  w \in ReadingAll(v, es)
<1> DEFINE n == Len(es)
           after == CHOOSE f : IsReading(f, v, es, n)
<1>1. ReadingAll(v, es) = after[n]
  BY DEF ReadingAll, IsReading
<1>2. IsReading(after, v, es, n)
  BY ReadingExists
<1> HIDE DEF after
<1>3. \A i \in 0 .. n :
        after[i] = IF i = 0 THEN {v} ELSE UNION {Reading(x, es[i]) : x \in after[i - 1]}
  BY <1>2 DEF IsReading
<1>4. PICK f : f[0] = v /\ f[n] = w /\ ReadsBy(f, es)
  BY DEF Reads
<1> DEFINE Bad == {i \in 0 .. n : f[i] \notin after[i]}
<1>5. Bad = {}
  <2> SUFFICES ASSUME Bad # {}
               PROVE  FALSE
    OBVIOUS
  <2> DEFINE i == Lowest(Bad)
  <2>1. i \in Bad /\ \A j \in Bad : i <= j
    <3>1. Bad \subseteq Nat
      OBVIOUS
    <3> HIDE DEF Bad
    <3> QED
      BY <3>1, LowestIn
  <2>2. i \in 0 .. n /\ f[i] \notin after[i] /\ n \in Nat
    BY <2>1
  <2>3. \A j \in 0 .. n : j < i => f[j] \in after[j]
    <3> SUFFICES ASSUME NEW j \in 0 .. n, j < i, j \in Bad
                 PROVE  FALSE
      OBVIOUS
    <3>1. i <= j
      BY <2>1
    <3> QED
      BY <2>2, <3>1
  <2> HIDE DEF i, Bad, n
  <2>4. i # 0
    BY <1>3, <1>4, <2>2
  <2>5. /\ i - 1 \in 0 .. n /\ i - 1 < i /\ i \in 1 .. n
    BY <2>2, <2>4
  <2>6. f[i - 1] \in after[i - 1]
    BY <2>3, <2>5
  <2>7. f[i] \in Reading(f[i - 1], es[i])
    BY <1>4, <2>5 DEF ReadsBy, n
  <2>8. f[i] \in UNION {Reading(x, es[i]) : x \in after[i - 1]}
    BY <2>6, <2>7
  <2>9. after[i] = UNION {Reading(x, es[i]) : x \in after[i - 1]}
    BY <1>3, <2>2, <2>4
  <2> QED
    BY <2>2, <2>8, <2>9
<1> QED
  BY <1>1, <1>4, <1>5

\* No events change nothing.
LEMMA ReadsNothing ==
  ASSUME NEW v
  PROVE  Reads(v, <<>>, v)
<1> DEFINE f == [i \in Nat |-> v]
<1>1. f[0] = v /\ f[Len(<<>>)] = v /\ 1 .. Len(<<>>) = {}
  BY EmptySeq
<1> QED
  BY <1>1 DEF Reads, ReadsBy

\* One event.
LEMMA ReadsOne ==
  ASSUME NEW v, NEW e, NEW w \in Reading(v, e)
  PROVE  Reads(v, <<e>>, w)
<1> DEFINE f == [i \in Nat |-> IF i = 0 THEN v ELSE w]
<1>1. Len(<<e>>) = 1 /\ <<e>>[1] = e /\ 1 .. 1 = {1}
  OBVIOUS
<1>2. f[0] = v /\ f[1] = w /\ 1 - 1 = 0
  OBVIOUS
<1> HIDE DEF f
<1> QED
  BY <1>1, <1>2 DEF Reads, ReadsBy

\* What is read first, then what is read next.
LEMMA ReadsBoth ==
  ASSUME NEW p, IsEventQueue(p), NEW q, IsEventQueue(q), NEW u, NEW v, NEW w,
         Reads(u, p, v), Reads(v, q, w)
  PROVE  Reads(u, p \o q, w)
<1> DEFINE S == {p[k] : k \in DOMAIN p} \cup {q[k] : k \in DOMAIN q}
           m == Len(p)
           n == Len(q)
<1>1. p \in Seq(S) /\ q \in Seq(S)
  <2>1. /\ p \in Seq({p[k] : k \in DOMAIN p})
        /\ q \in Seq({q[k] : k \in DOMAIN q})
    BY DEF IsEventQueue, IsQueue
  <2> QED
    BY <2>1, SeqMonotonic
<1>2. /\ m \in Nat /\ n \in Nat
      /\ Len(p \o q) = m + n
      /\ \A i \in 1 .. m + n : (p \o q)[i] = IF i <= m THEN p[i] ELSE q[i - m]
  BY <1>1, ConcatProperties, LenProperties
<1>3. PICK f : f[0] = u /\ f[m] = v /\ ReadsBy(f, p)
  BY DEF Reads
<1>4. PICK g : g[0] = v /\ g[n] = w /\ ReadsBy(g, q)
  BY DEF Reads
<1> DEFINE h == [i \in Nat |-> IF i <= m THEN f[i] ELSE g[i - m]]
<1> HIDE DEF S
<1>5. \A i \in Nat : h[i] = IF i <= m THEN f[i] ELSE g[i - m]
  OBVIOUS
<1>6. \A i \in Nat : i >= m => h[i] = g[i - m]
  <2>1. h[m] = g[m - m]
    BY <1>2, <1>3, <1>4, <1>5
  <2> QED
    BY <1>2, <1>5, <2>1
<1> HIDE DEF h
<1>7. h[0] = u /\ h[m + n] = w
  <2>1. (m + n) - m = n /\ m + n >= m /\ m + n \in Nat /\ 0 <= m
    BY <1>2
  <2> QED
    BY <1>3, <1>4, <1>5, <1>6, <2>1
<1>8. ASSUME NEW i \in 1 .. m + n
      PROVE  h[i] \in Reading(h[i - 1], (p \o q)[i])
  <2>1. CASE i <= m
    <3>1. i \in 1 .. m /\ i \in Nat /\ i - 1 \in Nat /\ i - 1 <= m
      BY <1>2, <2>1
    <3>2. h[i] = f[i] /\ h[i - 1] = f[i - 1] /\ (p \o q)[i] = p[i]
      BY <1>2, <1>5, <2>1, <3>1
    <3> QED
      BY <1>3, <3>1, <3>2 DEF ReadsBy
  <2>2. CASE i > m
    <3>1. /\ i - m \in 1 .. n /\ i \in Nat /\ i - 1 \in Nat /\ i - 1 >= m
          /\ (i - 1) - m = (i - m) - 1 /\ ~(i <= m) /\ i >= m
      BY <1>2, <2>2
    <3>2. h[i] = g[i - m] /\ h[i - 1] = g[(i - m) - 1] /\ (p \o q)[i] = q[i - m]
      BY <1>2, <1>6, <3>1
    <3> QED
      BY <1>4, <3>1, <3>2 DEF ReadsBy
  <2> QED
    BY <1>2, <2>1, <2>2
<1> QED
  BY <1>2, <1>7, <1>8 DEF Reads, ReadsBy

-----------------------------------------------------------------------------
(* Views.                                                                  *)

\* A view, part by part.
Seen(f, k, x, i, b, h) ==
  [focus |-> f, keys |-> k, text |-> x, inside |-> i, buttons |-> b, touches |-> h]

\* View v with text y.
WithText(v, y) == [v EXCEPT !.text = y]

\* What the events of a text call are read as.
LEMMA TextReadings ==
  ASSUME NEW v, NEW e, v.focus = e.target
  PROVE  /\ e.type = "PREEDIT" => WithText(v, TRUE) \in Reading(v, e)
         /\ e.type = "COMMIT" => WithText(v, FALSE) \in Reading(v, e)
         /\ e.type = "CANCEL" /\ v.text => WithText(v, FALSE) \in Reading(v, e)
  BY DEF Reading, WithText

\* A view with another text, part by part.
LEMMA TextSeen ==
  ASSUME NEW f, NEW k, NEW x, NEW i, NEW b, NEW h, NEW y
  PROVE  WithText(Seen(f, k, x, i, b, h), y) = Seen(f, k, y, i, b, h)
  BY DEF Seen, WithText

\* What each event does to a view in which it makes sense.
LEMMA FocusReadings ==
  ASSUME NEW t, NEW n, NEW k, NEW x, NEW i, NEW b, NEW h
  PROVE  /\ Seen(t, k, x, i, b, h)
              \in Reading(Seen(NoHandle, k, x, i, b, h), Event("FOCUS_IN", t, n))
         /\ k = {} /\ ~x => Seen(NoHandle, k, x, i, b, h)
              \in Reading(Seen(t, k, x, i, b, h), Event("FOCUS_OUT", t, n))
         /\ \A type \in {"KEY_DOWN", "SHORTCUT"} :
              n \notin k => Seen(t, k \cup {n}, x, i, b, h)
                \in Reading(Seen(t, k, x, i, b, h), Event(type, t, n))
         /\ n \in k => Seen(t, k \ {n}, x, i, b, h)
              \in Reading(Seen(t, k, x, i, b, h), Event("KEY_UP", t, n))
         /\ Seen(t, k, TRUE, i, b, h)
              \in Reading(Seen(t, k, x, i, b, h), Event("PREEDIT", t, n))
         /\ Seen(t, k, FALSE, i, b, h)
              \in Reading(Seen(t, k, x, i, b, h), Event("COMMIT", t, n))
         /\ x => Seen(t, k, FALSE, i, b, h)
              \in Reading(Seen(t, k, x, i, b, h), Event("CANCEL", t, n))
<1>1. /\ Seen(t, k, x, i, b, h)
           \in Reading(Seen(NoHandle, k, x, i, b, h), Event("FOCUS_IN", t, n))
      /\ k = {} /\ ~x => Seen(NoHandle, k, x, i, b, h)
           \in Reading(Seen(t, k, x, i, b, h), Event("FOCUS_OUT", t, n))
  BY DEF Reading, Event, Seen
<1>2. ASSUME NEW type \in {"KEY_DOWN", "SHORTCUT"}, n \notin k
      PROVE  Seen(t, k \cup {n}, x, i, b, h)
               \in Reading(Seen(t, k, x, i, b, h), Event(type, t, n))
  <2>1. CASE type = "KEY_DOWN"
    BY <1>2, <2>1 DEF Reading, Event, Seen
  <2>2. CASE type = "SHORTCUT"
    BY <1>2, <2>2 DEF Reading, Event, Seen
  <2> QED
    BY <2>1, <2>2
<1>3. n \in k => Seen(t, k \ {n}, x, i, b, h)
        \in Reading(Seen(t, k, x, i, b, h), Event("KEY_UP", t, n))
  BY DEF Reading, Event, Seen
<1> DEFINE v == Seen(t, k, x, i, b, h)
           yes == TRUE
           no == FALSE
<1>4. WithText(v, yes) = Seen(t, k, yes, i, b, h) /\ WithText(v, no) = Seen(t, k, no, i, b, h)
  <2> HIDE DEF yes, no
  <2> QED
    BY TextSeen
<1>5. v.focus = t
  BY DEF Seen
<1>6. x => v.text
  BY DEF Seen
<1>7. \A type : Event(type, t, n).type = type /\ Event(type, t, n).target = t
  BY DEF Event
<1> HIDE DEF v
<1>8. /\ WithText(v, TRUE) \in Reading(v, Event("PREEDIT", t, n))
      /\ WithText(v, FALSE) \in Reading(v, Event("COMMIT", t, n))
      /\ v.text => WithText(v, FALSE) \in Reading(v, Event("CANCEL", t, n))
  BY <1>5, <1>7, TextReadings
<1>9. Seen(t, k, TRUE, i, b, h) \in Reading(v, Event("PREEDIT", t, n))
  BY <1>4, <1>8
<1>10. Seen(t, k, FALSE, i, b, h) \in Reading(v, Event("COMMIT", t, n))
  BY <1>4, <1>8
<1>11. x => Seen(t, k, FALSE, i, b, h) \in Reading(v, Event("CANCEL", t, n))
  BY <1>4, <1>6, <1>8
<1> QED
  BY <1>1, <1>2, <1>3, <1>9, <1>10, <1>11 DEF v

\* The same for the events of the pointer, the buttons and the contacts.
LEMMA PointerReadings ==
  ASSUME NEW t, NEW n, NEW f, NEW k, NEW x, NEW i, NEW b, NEW h
  PROVE  /\ Seen(f, k, x, t, b, h)
              \in Reading(Seen(f, k, x, NoHandle, b, h), Event("ENTER", t, n))
         /\ b = {} => Seen(f, k, x, NoHandle, b, h)
              \in Reading(Seen(f, k, x, t, b, h), Event("LEAVE", t, n))
         /\ n \notin b => Seen(f, k, x, t, b \cup {n}, h)
              \in Reading(Seen(f, k, x, t, b, h), Event("BUTTON_DOWN", t, n))
         /\ n \in b => Seen(f, k, x, t, b \ {n}, h)
              \in Reading(Seen(f, k, x, t, b, h), Event("BUTTON_UP", t, n))
         /\ (\A y \in h : y[1] # n) => Seen(f, k, x, i, b, h \cup {<<n, t>>})
              \in Reading(Seen(f, k, x, i, b, h), Event("TOUCH_DOWN", t, n))
         /\ <<n, t>> \in h => Seen(f, k, x, i, b, h \ {<<n, t>>})
              \in Reading(Seen(f, k, x, i, b, h), Event("TOUCH_UP", t, n))
         /\ Seen(f, k, x, i, b, h)
              \in Reading(Seen(f, k, x, i, b, h), Event("DATA", t, n))
<1>1. Seen(f, k, x, t, b, h)
        \in Reading(Seen(f, k, x, NoHandle, b, h), Event("ENTER", t, n))
  BY DEF Reading, Event, Seen
<1>2. b = {} => Seen(f, k, x, NoHandle, b, h)
        \in Reading(Seen(f, k, x, t, b, h), Event("LEAVE", t, n))
  BY DEF Reading, Event, Seen
<1>3. n \notin b => Seen(f, k, x, t, b \cup {n}, h)
        \in Reading(Seen(f, k, x, t, b, h), Event("BUTTON_DOWN", t, n))
  BY DEF Reading, Event, Seen
<1>4. n \in b => Seen(f, k, x, t, b \ {n}, h)
        \in Reading(Seen(f, k, x, t, b, h), Event("BUTTON_UP", t, n))
  BY DEF Reading, Event, Seen
<1>5. (\A y \in h : y[1] # n) => Seen(f, k, x, i, b, h \cup {<<n, t>>})
        \in Reading(Seen(f, k, x, i, b, h), Event("TOUCH_DOWN", t, n))
  BY DEF Reading, Event, Seen
<1>6. <<n, t>> \in h => Seen(f, k, x, i, b, h \ {<<n, t>>})
        \in Reading(Seen(f, k, x, i, b, h), Event("TOUCH_UP", t, n))
  BY DEF Reading, Event, Seen
<1>7. Seen(f, k, x, i, b, h)
        \in Reading(Seen(f, k, x, i, b, h), Event("DATA", t, n))
  BY DEF Reading, Event, Seen
<1> QED
  BY <1>1, <1>2, <1>3, <1>4, <1>5, <1>6, <1>7

\* The place of n among the numbers that are down, from 1.
Rank(down, n) == Cardinality({m \in down : m <= n})

\* The places of what is down are 1 to its number, each taken once.
LEMMA Ranks ==
  ASSUME NEW down, down \subseteq Nat, IsFiniteSet(down)
  PROVE  /\ Cardinality(down) \in Nat
         /\ \A n \in down : Rank(down, n) \in 1 .. Cardinality(down)
         /\ \A m, n \in down : Rank(down, m) = Rank(down, n) => m = n
         /\ \A k \in 1 .. Cardinality(down) : \E n \in down : Rank(down, n) = k
<1> DEFINE N == Cardinality(down)
           upto(n) == {m \in down : m <= n}
           f == [n \in down |-> Rank(down, n)]
<1>1. N \in Nat
  BY FS_CardinalityType
<1>2. \A n \in down : IsFiniteSet(upto(n)) /\ Cardinality(upto(n)) \in Nat
                        /\ Cardinality(upto(n)) <= N
  <2>1. \A n \in down : upto(n) \in SUBSET down
    OBVIOUS
  <2> HIDE DEF upto, N
  <2> QED
    BY <2>1, FS_Subset, FS_CardinalityType DEF N
<1>3. ASSUME NEW m \in down, NEW n \in down, m < n
      PROVE  Rank(down, m) < Rank(down, n)
  <2>1. upto(m) \in SUBSET upto(n) /\ n \in upto(n) /\ n \notin upto(m)
    <3>1. m \in Nat /\ n \in Nat /\ down \subseteq Nat
      OBVIOUS
    <3>2. \A j \in down : j <= m => j <= n
      BY <1>3, <3>1
    <3>3. n <= n /\ ~(n <= m)
      BY <1>3, <3>1
    <3> QED
      BY <3>2, <3>3
  <2>2. Rank(down, m) = Cardinality(upto(m)) /\ Rank(down, n) = Cardinality(upto(n))
    BY DEF Rank
  <2> HIDE DEF upto
  <2>3. /\ Cardinality(upto(m)) <= Cardinality(upto(n))
        /\ Cardinality(upto(m)) # Cardinality(upto(n))
    BY <1>2, <2>1, FS_Subset
  <2> QED
    BY <1>2, <2>2, <2>3
<1>4. \A n \in down : Rank(down, n) \in 1 .. N
  <2> SUFFICES ASSUME NEW n \in down
               PROVE  Rank(down, n) \in 1 .. N
    OBVIOUS
  <2>1. n \in upto(n)
    OBVIOUS
  <2>2. Rank(down, n) = Cardinality(upto(n))
    BY DEF Rank
  <2> HIDE DEF upto, N
  <2>3. Cardinality(upto(n)) # 0
    BY <1>2, <2>1, FS_EmptySet
  <2> QED
    BY <1>1, <1>2, <2>2, <2>3
<1>5. \A m, n \in down : Rank(down, m) = Rank(down, n) => m = n
  <2> SUFFICES ASSUME NEW m \in down, NEW n \in down, Rank(down, m) = Rank(down, n)
               PROVE  m = n
    OBVIOUS
  <2>1. m \in Nat /\ n \in Nat
    OBVIOUS
  <2>2. ~(m < n) /\ ~(n < m)
    BY <1>3, <1>4, <1>1
  <2> QED
    BY <2>1, <2>2
<1>6. f \in Injection(down, 1 .. N)
  <2>1. f \in [down -> 1 .. N]
    BY <1>4
  <2> QED
    BY <1>5, <2>1 DEF Injection, IsInjective
<1>7. f \in Surjection(down, 1 .. N)
  <2>1. IsFiniteSet(1 .. N) /\ Cardinality(1 .. N) = N
    BY <1>1, FS_Interval
  <2> HIDE DEF f
  <2> QED
    BY <1>6, <2>1, FS_Injection
<1>8. \A k \in 1 .. N : \E n \in down : Rank(down, n) = k
  BY <1>7 DEF Surjection
<1> QED
  BY <1>1, <1>4, <1>5, <1>8

\* What is still down after k releases in rising order.
StillDown(down, k) == {n \in down : Rank(down, n) > k}

\* Every event of Ups takes up one thing that is still down.
InTurn(down) ==
  \A k \in 1 .. Cardinality(down) : \E n \in StillDown(down, k - 1) :
    /\ \A type, t : Ups(type, t, down)[k] = Event(type, t, n)
    /\ StillDown(down, k) = StillDown(down, k - 1) \ {n}

\* Releases take what is down away one by one, until nothing is.
LEMMA ReleaseByRelease ==
  ASSUME NEW down, down \subseteq Nat, IsFiniteSet(down)
  PROVE  /\ Cardinality(down) \in Nat
         /\ StillDown(down, 0) = down
         /\ StillDown(down, Cardinality(down)) = {}
         /\ InTurn(down)
<1> DEFINE N == Cardinality(down)
<1>1. /\ N \in Nat
      /\ \A n \in down : Rank(down, n) \in 1 .. N
      /\ \A m, n \in down : Rank(down, m) = Rank(down, n) => m = n
      /\ \A k \in 1 .. N : \E n \in down : Rank(down, n) = k
  BY Ranks
<1>2. StillDown(down, 0) = down /\ StillDown(down, N) = {}
  <2>1. \A n \in down : Rank(down, n) > 0 /\ ~(Rank(down, n) > N)
    BY <1>1
  <2> HIDE DEF N
  <2> QED
    BY <2>1 DEF StillDown
<1>3. ASSUME NEW k \in 1 .. N
      PROVE  \E n \in StillDown(down, k - 1) :
               /\ \A type, t : Ups(type, t, down)[k] = Event(type, t, n)
               /\ StillDown(down, k) = StillDown(down, k - 1) \ {n}
  <2> DEFINE n == CHOOSE n \in down : Rank(down, n) = k
  <2>1. n \in down /\ Rank(down, n) = k
    BY <1>1
  <2>2. \A type, t : Ups(type, t, down)[k] = Event(type, t, n)
    BY DEF Ups, Rank
  <2> HIDE DEF n, N
  <2>3. n \in StillDown(down, k - 1)
    BY <1>1, <2>1 DEF StillDown
  <2>4. \A m \in down : (Rank(down, m) > k <=> Rank(down, m) > k - 1 /\ m # n)
    BY <1>1, <2>1
  <2>5. StillDown(down, k) = StillDown(down, k - 1) \ {n}
    BY <2>4 DEF StillDown
  <2> QED
    BY <2>2, <2>3, <2>5
<1> QED
  BY <1>1, <1>2, <1>3 DEF InTurn

\* Whoever reads the releases of all keys holds none of them any more.
LEMMA ReadsKeyUps ==
  ASSUME NEW t \in TargetHandle \cup {NoHandle}, NEW k, k \subseteq Nat, IsFiniteSet(k),
         NEW x, NEW i, NEW b, NEW h
  PROVE  Reads(Seen(t, k, x, i, b, h), Ups("KEY_UP", t, k), Seen(t, {}, x, i, b, h))
<1> DEFINE N == Cardinality(k)
           f == [j \in Nat |-> Seen(t, StillDown(k, j), x, i, b, h)]
           ups == Ups("KEY_UP", t, k)
<1>1. /\ N \in Nat /\ StillDown(k, 0) = k /\ StillDown(k, N) = {}
      /\ \A j \in 1 .. N : \E n \in StillDown(k, j - 1) :
           /\ ups[j] = Event("KEY_UP", t, n)
           /\ StillDown(k, j) = StillDown(k, j - 1) \ {n}
  <2> HIDE DEF f, ups
  <2>1. /\ N \in Nat /\ StillDown(k, 0) = k /\ StillDown(k, N) = {}
        /\ \A j \in 1 .. N : \E n \in StillDown(k, j - 1) :
             /\ \A type, u : Ups(type, u, k)[j] = Event(type, u, n)
             /\ StillDown(k, j) = StillDown(k, j - 1) \ {n}
    <3>1. /\ N \in Nat /\ StillDown(k, 0) = k /\ StillDown(k, N) = {}
          /\ InTurn(k)
      BY ReleaseByRelease
    <3> QED
      BY <3>1 DEF InTurn
  <2>2. ASSUME NEW j \in 1 .. N
        PROVE  \E n \in StillDown(k, j - 1) :
                 /\ ups[j] = Event("KEY_UP", t, n)
                 /\ StillDown(k, j) = StillDown(k, j - 1) \ {n}
    <3>1. PICK n \in StillDown(k, j - 1) :
            /\ \A type, u : Ups(type, u, k)[j] = Event(type, u, n)
            /\ StillDown(k, j) = StillDown(k, j - 1) \ {n}
      BY <2>1
    <3>2. ups[j] = Event("KEY_UP", t, n)
      BY <3>1 DEF ups
    <3> QED
      BY <3>1, <3>2
  <2> QED
    BY <2>1, <2>2
<1>2. Len(ups) = N
  <2>1. "KEY_UP" \in EventType
    BY DEF EventType
  <2> QED
    BY <2>1, UpsType
<1>3. f[0] = Seen(t, k, x, i, b, h) /\ f[N] = Seen(t, {}, x, i, b, h)
  BY <1>1
<1>4. ASSUME NEW j \in 1 .. N
      PROVE  f[j] \in Reading(f[j - 1], ups[j])
  <2>1. PICK n \in StillDown(k, j - 1) :
          /\ ups[j] = Event("KEY_UP", t, n)
          /\ StillDown(k, j) = StillDown(k, j - 1) \ {n}
    BY <1>1
  <2>2. j \in Nat /\ j - 1 \in Nat
    BY <1>1
  <2>3. /\ f[j] = Seen(t, StillDown(k, j - 1) \ {n}, x, i, b, h)
        /\ f[j - 1] = Seen(t, StillDown(k, j - 1), x, i, b, h)
    BY <2>1, <2>2
  <2>4. Seen(t, StillDown(k, j - 1) \ {n}, x, i, b, h)
          \in Reading(Seen(t, StillDown(k, j - 1), x, i, b, h), Event("KEY_UP", t, n))
    BY FocusReadings
  <2> HIDE DEF f, ups
  <2> QED
    BY <2>1, <2>3, <2>4
<1> HIDE DEF f, ups, N
<1>5. ReadsBy(f, ups)
  BY <1>2, <1>4 DEF ReadsBy
<1> QED
  BY <1>2, <1>3, <1>5 DEF Reads, ups

\* The same for the buttons.
LEMMA ReadsButtonUps ==
  ASSUME NEW t \in TargetHandle \cup {NoHandle}, NEW b, b \subseteq Nat, IsFiniteSet(b),
         NEW f, NEW k, NEW x, NEW h
  PROVE  Reads(Seen(f, k, x, t, b, h), Ups("BUTTON_UP", t, b), Seen(f, k, x, t, {}, h))
<1> DEFINE N == Cardinality(b)
           g == [j \in Nat |-> Seen(f, k, x, t, StillDown(b, j), h)]
           ups == Ups("BUTTON_UP", t, b)
<1>1. /\ N \in Nat /\ StillDown(b, 0) = b /\ StillDown(b, N) = {}
      /\ \A j \in 1 .. N : \E n \in StillDown(b, j - 1) :
           /\ ups[j] = Event("BUTTON_UP", t, n)
           /\ StillDown(b, j) = StillDown(b, j - 1) \ {n}
  <2> HIDE DEF g, ups
  <2>1. /\ N \in Nat /\ StillDown(b, 0) = b /\ StillDown(b, N) = {}
        /\ \A j \in 1 .. N : \E n \in StillDown(b, j - 1) :
             /\ \A type, u : Ups(type, u, b)[j] = Event(type, u, n)
             /\ StillDown(b, j) = StillDown(b, j - 1) \ {n}
    <3>1. /\ N \in Nat /\ StillDown(b, 0) = b /\ StillDown(b, N) = {}
          /\ InTurn(b)
      BY ReleaseByRelease
    <3> QED
      BY <3>1 DEF InTurn
  <2>2. ASSUME NEW j \in 1 .. N
        PROVE  \E n \in StillDown(b, j - 1) :
                 /\ ups[j] = Event("BUTTON_UP", t, n)
                 /\ StillDown(b, j) = StillDown(b, j - 1) \ {n}
    <3>1. PICK n \in StillDown(b, j - 1) :
            /\ \A type, u : Ups(type, u, b)[j] = Event(type, u, n)
            /\ StillDown(b, j) = StillDown(b, j - 1) \ {n}
      BY <2>1
    <3>2. ups[j] = Event("BUTTON_UP", t, n)
      BY <3>1 DEF ups
    <3> QED
      BY <3>1, <3>2
  <2> QED
    BY <2>1, <2>2
<1>2. Len(ups) = N
  <2>1. "BUTTON_UP" \in EventType
    BY DEF EventType
  <2> QED
    BY <2>1, UpsType
<1>3. g[0] = Seen(f, k, x, t, b, h) /\ g[N] = Seen(f, k, x, t, {}, h)
  BY <1>1
<1>4. ASSUME NEW j \in 1 .. N
      PROVE  g[j] \in Reading(g[j - 1], ups[j])
  <2>1. PICK n \in StillDown(b, j - 1) :
          /\ ups[j] = Event("BUTTON_UP", t, n)
          /\ StillDown(b, j) = StillDown(b, j - 1) \ {n}
    BY <1>1
  <2>2. j \in Nat /\ j - 1 \in Nat
    BY <1>1
  <2>3. /\ g[j] = Seen(f, k, x, t, StillDown(b, j - 1) \ {n}, h)
        /\ g[j - 1] = Seen(f, k, x, t, StillDown(b, j - 1), h)
    BY <2>1, <2>2
  <2>4. Seen(f, k, x, t, StillDown(b, j - 1) \ {n}, h)
          \in Reading(Seen(f, k, x, t, StillDown(b, j - 1), h), Event("BUTTON_UP", t, n))
    BY PointerReadings
  <2> HIDE DEF g, ups
  <2> QED
    BY <2>1, <2>3, <2>4
<1> HIDE DEF g, ups, N
<1>5. ReadsBy(g, ups)
  BY <1>2, <1>4 DEF ReadsBy
<1> QED
  BY <1>2, <1>3, <1>5 DEF Reads, ups

-----------------------------------------------------------------------------
(* Calls and what they tell.                                               *)

\* What EventsTellTheState says of client c and one step.
Told(c) ==
  /\ ClientOk(c) /\ ClientOk(c)' =>
       \/ /\ events[c] # <<>>
          /\ events'[c] = Tail(events[c])
          /\ View(c)' = View(c)
       \/ /\ IsPrefix(events[c], events'[c])
          /\ View(c)' \in
               ReadingAll(View(c), SubSeq(events'[c], Len(events[c]) + 1, Len(events'[c])))
  /\ ~ClientOk(c) /\ ClientOk(c)' =>
       View(c)' = NothingHeld /\ events'[c] = <<>>

\* The parts of what client c holds.
SeenFocus(c)   == IF Owned(c, focus) THEN focus ELSE NoHandle
SeenKeys(c)    == IF Owned(c, focus) THEN keys ELSE {}
SeenText(c)    == ime_active /\ Owned(c, ime_target)
SeenInside(c)  == IF Owned(c, pointer_target) THEN pointer_target ELSE NoHandle
SeenButtons(c) == IF Owned(c, pointer_capture) THEN buttons ELSE {}
SeenTouches(c) == {<<id, touches[id]>> : id \in {j \in TouchId : Owned(c, touches[j])}}

\* A view, and the view after a step, is made of these parts.
LEMMA ViewsSeen ==
  ASSUME NEW c
  PROVE  /\ View(c) = Seen(SeenFocus(c), SeenKeys(c), SeenText(c), SeenInside(c),
                           SeenButtons(c), SeenTouches(c))
         /\ View(c)' = Seen(SeenFocus(c)', SeenKeys(c)', SeenText(c)', SeenInside(c)',
                            SeenButtons(c)', SeenTouches(c)')
  BY DEF View, Seen, SeenFocus, SeenKeys, SeenText, SeenInside, SeenButtons, SeenTouches

\* The parts after a step that leaves the targets alone.
LEMMA PartsAfter ==
  ASSUME UNCHANGED targets, NEW c
  PROVE  /\ SeenFocus(c)' = IF Owned(c, focus') THEN focus' ELSE NoHandle
         /\ SeenKeys(c)' = IF Owned(c, focus') THEN keys' ELSE {}
         /\ SeenText(c)' = (ime_active' /\ Owned(c, ime_target'))
         /\ SeenInside(c)' = IF Owned(c, pointer_target') THEN pointer_target' ELSE NoHandle
         /\ SeenButtons(c)' = IF Owned(c, pointer_capture') THEN buttons' ELSE {}
         /\ SeenTouches(c)' =
              {<<id, touches'[id]>> : id \in {j \in TouchId : Owned(c, touches'[j])}}
  BY DEF SeenFocus, SeenKeys, SeenText, SeenInside, SeenButtons, SeenTouches, Owned, TargetOk,
         Owner

\* The end of p \o q.
LEMMA AfterPrefix ==
  ASSUME NEW p, IsEventQueue(p), NEW q, IsEventQueue(q)
  PROVE  /\ IsPrefix(p, p \o q)
         /\ SubSeq(p \o q, Len(p) + 1, Len(p \o q)) = q
<1> DEFINE S == {p[k] : k \in DOMAIN p} \cup {q[k] : k \in DOMAIN q}
           m == Len(p)
           n == Len(q)
           r == p \o q
<1>1. p \in Seq(S) /\ q \in Seq(S)
  <2>1. /\ p \in Seq({p[k] : k \in DOMAIN p})
        /\ q \in Seq({q[k] : k \in DOMAIN q})
    BY DEF IsEventQueue, IsQueue
  <2> QED
    BY <2>1, SeqMonotonic
<1> HIDE DEF S
<1>2. /\ m \in Nat /\ n \in Nat
      /\ r \in Seq(S) /\ Len(r) = m + n
      /\ \A i \in 1 .. m + n : r[i] = IF i <= m THEN p[i] ELSE q[i - m]
  BY <1>1, ConcatProperties, LenProperties
<1> HIDE DEF r
<1>3. \A i \in 1 .. m + n : r[i] \in S
  BY <1>2, LenProperties
<1>4. SubSeq(r, 1, m) = p /\ SubSeq(p, 1, m) = p
  <2>1. /\ SubSeq(r, 1, m) \in Seq(S)
        /\ Len(SubSeq(r, 1, m)) = m
        /\ \A i \in 1 .. m : SubSeq(r, 1, m)[i] = r[i]
    BY <1>2, <1>3
  <2>2. \A i \in 1 .. m : r[i] = p[i]
    BY <1>2
  <2>3. SubSeq(r, 1, m) = p
    BY <1>1, <2>1, <2>2, SeqEqual
  <2> QED
    BY <1>1, <2>3, SubSeqFull
<1>5. SubSeq(r, m + 1, m + n) = q
  <2>1. /\ SubSeq(r, m + 1, m + n) \in Seq(S)
        /\ Len(SubSeq(r, m + 1, m + n)) = n
        /\ \A i \in 1 .. n : SubSeq(r, m + 1, m + n)[i] = r[m + i]
    BY <1>2, <1>3
  <2>2. \A i \in 1 .. n : r[m + i] = q[i]
    BY <1>2
  <2> QED
    BY <1>1, <2>1, <2>2, SeqEqual
<1>6. Len(p) <= Len(r)
  BY <1>2
<1> QED
  BY <1>2, <1>4, <1>5, <1>6 DEF IsPrefix, r

\* A client is told if its mail reads as the change of its view.
LEMMA ToldByMail ==
  ASSUME InputInv, NEW m, IsMail(m), Deliver(m), NEW c \in ClientHandle,
         Reads(View(c), m[c].news, View(c)')
  PROVE  Told(c)
<1>1. events'[c] = events[c] \o m[c].news
  BY DEF Deliver, EventsAfter
<1>2. IsEventQueue(events[c]) /\ IsEventQueue(m[c].news) /\ Len(m[c].news) \in Nat
  BY QueueLength DEF InputInv, QueuesInv, IsMail, IsEventQueue
<1>3. ClientOk(c)' <=> ClientOk(c)
  BY DeliverEffect DEF ClientOk
<1>4. View(c)' \in ReadingAll(View(c), m[c].news)
  BY <1>2, ReadsAreReadings
<1>5. /\ IsPrefix(events[c], events'[c])
      /\ SubSeq(events'[c], Len(events[c]) + 1, Len(events'[c])) = m[c].news
  BY <1>1, <1>2, AfterPrefix
<1> QED
  BY <1>3, <1>4, <1>5 DEF Told

\* Who is told nothing sees nothing change.
LEMMA ToldNothing ==
  ASSUME NEW c, IsEventQueue(events[c]), events'[c] = events[c],
         ClientOk(c)' => ClientOk(c), View(c)' = View(c)
  PROVE  Told(c)
<1>1. Len(<<>>) = 0 /\ IsEventQueue(<<>>)
  BY ShortQueues
<1>2. events'[c] = events[c] \o <<>>
  BY <1>1, Concatenation
<1>3. /\ IsPrefix(events[c], events'[c])
      /\ SubSeq(events'[c], Len(events[c]) + 1, Len(events'[c])) = <<>>
  BY <1>1, <1>2, AfterPrefix
<1>4. View(c)' \in ReadingAll(View(c), <<>>)
  <2>1. Reads(View(c), <<>>, View(c)')
    BY ReadsNothing
  <2> QED
    BY <1>1, <2>1, ReadsAreReadings
<1> QED
  BY <1>3, <1>4 DEF Told

\* Mail to the owner of one target.
LEMMA ToldOwner ==
  ASSUME InputInv, NEW t, TargetOk(t), NEW news, IsEventQueue(news), news # <<>>,
         NEW r \in Int, Deliver(Mail(Owner(t), news, r)),
         \A c \in ClientHandle : IF Owned(c, t) THEN Reads(View(c), news, View(c)')
                                 ELSE View(c)' = View(c)
  PROVE  \A c \in ClientHandle : Told(c)
<1> DEFINE m == Mail(Owner(t), news, r)
<1>1. IsMail(m)
  BY MailIsMail DEF Reserves
<1>2. \A c \in ClientHandle : m[c].news = IF c = Owner(t) THEN news ELSE <<>>
  BY DEF Mail, NoMail
<1>3. Deliver(m)
  OBVIOUS
<1> HIDE DEF m
<1>4. \A c : Owned(c, t) <=> c = Owner(t)
  BY AboutTarget
<1>5. ASSUME NEW c \in ClientHandle
      PROVE  Reads(View(c), m[c].news, View(c)')
  <2>1. CASE Owned(c, t)
    BY <1>2, <1>4, <2>1
  <2>2. CASE ~Owned(c, t)
    <3>1. m[c].news = <<>> /\ View(c)' = View(c)
      BY <1>2, <1>4, <2>2
    <3> QED
      BY <3>1, ReadsNothing
  <2> QED
    BY <2>1, <2>2
<1> QED
  BY <1>1, <1>3, <1>5, ToldByMail

\* What one event about target t says is all that changes in what clients hold.
SaysAll(type, t, n) ==
  \A c \in ClientHandle :
    IF Owned(c, t) THEN View(c)' \in Reading(View(c), Event(type, t, n))
    ELSE View(c)' = View(c)

\* The same for mail of one event.
LEMMA ToldByTell ==
  ASSUME InputInv, NEW t \in TargetHandle \cup {NoHandle}, NEW type \in EventType, NEW n,
         NEW r \in Int, Tell(t, type, n, r), SaysAll(type, t, n)
  PROVE  \A c \in ClientHandle : Told(c)
<1> DEFINE news == <<Event(type, t, n)>>
<1>1. TargetOk(t) /\ Deliver(Mail(Owner(t), news, r))
  BY DEF Tell
<1>2. IsEventQueue(news) /\ news # <<>>
  <2>1. IsEvent(Event(type, t, n))
    BY DEF IsEvent, Event
  <2> QED
    BY <2>1, ShortQueues
<1>3. \A c \in ClientHandle : IF Owned(c, t) THEN Reads(View(c), news, View(c)')
                               ELSE View(c)' = View(c)
  BY ReadsOne DEF SaysAll
<1> HIDE DEF news
<1> QED
  BY <1>1, <1>2, <1>3, ToldOwner

\* Nothing that a client holds changes.
LEMMA ViewUnchanged ==
  ASSUME UNCHANGED <<targets, seatVars>>, NEW c
  PROVE  View(c)' = View(c)
  BY DEF View, Owned, TargetOk, Owner, seatVars, focusVars, textVars, pointerVars

\* Data change no view, whatever they are about.
LEMMA ToldData ==
  ASSUME InputInv, NEW t \in TargetHandle \cup {NoHandle}, NEW n,
         Tell(t, "DATA", n, 0), UNCHANGED <<targets, seatVars>>
  PROVE  \A c \in ClientHandle : Told(c)
<1>1. "DATA" \in EventType
  BY DEF EventType
<1>2. ASSUME NEW c \in ClientHandle
      PROVE  /\ View(c)' = View(c)
             /\ View(c) \in Reading(View(c), Event("DATA", t, n))
  <2>1. View(c)' = View(c)
    BY ViewUnchanged
  <2>2. View(c) \in Reading(View(c), Event("DATA", t, n))
    BY DEF Reading, Event
  <2> QED
    BY <2>1, <2>2
<1>3. SaysAll("DATA", t, n)
  BY <1>2 DEF SaysAll
<1>4. 0 \in Int
  OBVIOUS
<1> QED
  BY <1>1, <1>3, <1>4, ToldByTell

\* Every client hears of preferences, and holds what it held.
LEMMA ToldPreferences ==
  ASSUME InputInv, SetPreferences
  PROVE  \A c \in ClientHandle : Told(c)
<1> DEFINE e == Event("DATA", NoHandle, 0)
           m == [c \in ClientHandle |->
                   [news |-> IF ClientOk(c) THEN <<Event("DATA", NoHandle, 0)>>
                             ELSE <<>>,
                    reserve |-> 0]]
<1>1. Deliver(m) /\ UNCHANGED <<targets, seatVars>>
  BY DEF SetPreferences
<1>2. IsEvent(e)
  BY DEF IsEvent, Event, EventType
<1>3. IsMail(m)
  BY <1>2, ShortQueues DEF IsMail
<1>4. \A c \in ClientHandle : m[c].news \in {<<e>>, <<>>}
  OBVIOUS
<1>5. \A v : v \in Reading(v, e)
  BY DEF Reading, Event
<1> HIDE DEF e, m
<1>6. ASSUME NEW c \in ClientHandle
      PROVE  Reads(View(c), m[c].news, View(c)')
  <2>1. View(c)' = View(c)
    BY <1>1, ViewUnchanged
  <2>2. View(c)' \in Reading(View(c), e)
    BY <1>5, <2>1
  <2>3. CASE m[c].news = <<e>>
    BY <2>2, <2>3, ReadsOne
  <2>4. CASE m[c].news = <<>>
    BY <2>1, <2>4, ReadsNothing
  <2> QED
    BY <1>4, <2>3, <2>4
<1> QED
  BY <1>1, <1>3, <1>6, ToldByMail

\* Keys: the owner of the focus holds one more, or one less.
LEMMA ToldKeys ==
  ASSUME InputInv, NEW k \in Key, KeyDown(k) \/ KeyUp(k)
  PROVE  \A c \in ClientHandle : Told(c)
<1>1. /\ UNCHANGED <<targets, focus, ime_active, ime_target, pointer_target,
                     pointer_capture, buttons, touches>>
      /\ focus \in TargetHandle \cup {NoHandle}
  BY DEF KeyDown, KeyUp, textVars, pointerVars, InputInv, SeatInv, SeatType
<1>2. ASSUME NEW c, Owned(c, focus)
      PROVE  /\ View(c) = Seen(focus, keys, SeenText(c), SeenInside(c), SeenButtons(c),
                               SeenTouches(c))
             /\ View(c)' = Seen(focus, keys', SeenText(c), SeenInside(c), SeenButtons(c),
                                SeenTouches(c))
  <2>1. SeenFocus(c) = focus /\ SeenKeys(c) = keys
    BY <1>2 DEF SeenFocus, SeenKeys
  <2>2. SeenFocus(c)' = focus /\ SeenKeys(c)' = keys'
    BY <1>1, <1>2, PartsAfter
  <2>3. /\ SeenText(c)' = SeenText(c) /\ SeenInside(c)' = SeenInside(c)
        /\ SeenButtons(c)' = SeenButtons(c) /\ SeenTouches(c)' = SeenTouches(c)
    BY <1>1, PartsAfter DEF SeenText, SeenInside, SeenButtons, SeenTouches
  <2> QED
    BY <2>1, <2>2, <2>3, ViewsSeen
<1>3. ASSUME NEW c, ~Owned(c, focus)
      PROVE  View(c)' = View(c)
  <2>1. /\ SeenFocus(c)' = SeenFocus(c) /\ SeenKeys(c)' = SeenKeys(c)
        /\ SeenText(c)' = SeenText(c) /\ SeenInside(c)' = SeenInside(c)
        /\ SeenButtons(c)' = SeenButtons(c) /\ SeenTouches(c)' = SeenTouches(c)
    BY <1>1, <1>3, PartsAfter
       DEF SeenFocus, SeenKeys, SeenText, SeenInside, SeenButtons, SeenTouches
  <2> QED
    BY <2>1, ViewsSeen
<1>4. CASE KeyDown(k)
  <2>1. PICK type \in {"KEY_DOWN", "SHORTCUT"} : Tell(focus, type, k, 1)
    BY <1>4 DEF KeyDown
  <2>2. k \notin keys /\ keys' = keys \cup {k}
    BY <1>4 DEF KeyDown
  <2>3. SaysAll(type, focus, k)
    <3>1. ASSUME NEW c \in ClientHandle, Owned(c, focus)
          PROVE  View(c)' \in Reading(View(c), Event(type, focus, k))
      <4>1. Seen(focus, keys \cup {k}, SeenText(c), SeenInside(c), SeenButtons(c),
                SeenTouches(c))
              \in Reading(Seen(focus, keys, SeenText(c), SeenInside(c), SeenButtons(c),
                SeenTouches(c)),
                          Event(type, focus, k))
        BY <2>2, FocusReadings
      <4> QED
        BY <1>2, <2>2, <3>1, <4>1
    <3> QED
      BY <1>3, <3>1 DEF SaysAll
  <2>4. type \in EventType /\ 1 \in Int
    BY DEF EventType
  <2> QED
    BY <1>1, <2>1, <2>3, <2>4, ToldByTell
<1>5. CASE KeyUp(k)
  <2>1. Tell(focus, "KEY_UP", k, -1) /\ k \in keys /\ keys' = keys \ {k}
    BY <1>5 DEF KeyUp
  <2>2. SaysAll("KEY_UP", focus, k)
    <3>1. ASSUME NEW c \in ClientHandle, Owned(c, focus)
          PROVE  View(c)' \in Reading(View(c), Event("KEY_UP", focus, k))
      <4>1. Seen(focus, keys \ {k}, SeenText(c), SeenInside(c), SeenButtons(c),
                SeenTouches(c))
              \in Reading(Seen(focus, keys, SeenText(c), SeenInside(c), SeenButtons(c),
                SeenTouches(c)),
                          Event("KEY_UP", focus, k))
        BY <2>1, FocusReadings
      <4> QED
        BY <1>2, <2>1, <3>1, <4>1
    <3> QED
      BY <1>3, <3>1 DEF SaysAll
  <2>3. "KEY_UP" \in EventType /\ -1 \in Int
    BY DEF EventType
  <2> QED
    BY <1>1, <2>1, <2>2, <2>3, ToldByTell
<1> QED
  BY <1>4, <1>5

\* Text: only the owner of the focus sees a preedit begin or end.
LEMMA ToldText ==
  ASSUME InputInv, NEW epoch, NEW revision,
         TextPreedit(epoch, revision) \/ TextCommit(epoch, revision)
           \/ TextCancel(epoch, revision)
  PROVE  \A c \in ClientHandle : Told(c)
<1>1. /\ UNCHANGED <<targets, focus, keys, pointer_target, pointer_capture, buttons, touches>>
      /\ focus \in TargetHandle \cup {NoHandle}
      /\ ime_active \in BOOLEAN
      /\ ime_active => ime_target = focus
  BY DEF TextPreedit, TextCommit, TextCancel, TextAccepted, pointerVars, InputInv, SeatInv,
         SeatType, SeatLinks
<1>2. /\ ime_active' \in BOOLEAN
      /\ ime_active' => ime_target' = focus
  BY <1>1 DEF TextPreedit, TextCommit, TextCancel, EndComposition
<1>3. ASSUME NEW c, Owned(c, focus)
      PROVE  /\ View(c) = Seen(focus, keys, ime_active, SeenInside(c), SeenButtons(c),
                               SeenTouches(c))
             /\ View(c)' = Seen(focus, keys, ime_active', SeenInside(c), SeenButtons(c),
                                SeenTouches(c))
  <2>1. /\ (ime_active /\ Owned(c, ime_target)) = ime_active
        /\ (ime_active' /\ Owned(c, ime_target')) = ime_active'
    BY <1>1, <1>2, <1>3
  <2>2. SeenFocus(c) = focus /\ SeenKeys(c) = keys /\ SeenText(c) = ime_active
    BY <1>3, <2>1 DEF SeenFocus, SeenKeys, SeenText
  <2>3. SeenFocus(c)' = focus /\ SeenKeys(c)' = keys /\ SeenText(c)' = ime_active'
    BY <1>1, <1>3, <2>1, PartsAfter
  <2>4. /\ SeenInside(c)' = SeenInside(c) /\ SeenButtons(c)' = SeenButtons(c)
        /\ SeenTouches(c)' = SeenTouches(c)
    BY <1>1, PartsAfter DEF SeenInside, SeenButtons, SeenTouches
  <2> QED
    BY <2>2, <2>3, <2>4, ViewsSeen
<1>4. ASSUME NEW c, ~Owned(c, focus)
      PROVE  View(c)' = View(c)
  <2>1. /\ (ime_active /\ Owned(c, ime_target)) = FALSE
        /\ (ime_active' /\ Owned(c, ime_target')) = FALSE
    BY <1>1, <1>2, <1>4
  <2>2. /\ SeenFocus(c)' = SeenFocus(c) /\ SeenKeys(c)' = SeenKeys(c)
        /\ SeenText(c)' = SeenText(c) /\ SeenInside(c)' = SeenInside(c)
        /\ SeenButtons(c)' = SeenButtons(c) /\ SeenTouches(c)' = SeenTouches(c)
    BY <1>1, <1>4, <2>1, PartsAfter
       DEF SeenFocus, SeenKeys, SeenText, SeenInside, SeenButtons, SeenTouches
  <2> QED
    BY <2>2, ViewsSeen
<1>5. {"PREEDIT", "COMMIT", "CANCEL"} \subseteq EventType
  BY DEF EventType
<1>6. CASE TextPreedit(epoch, revision)
  <2>1. ime_active' = TRUE
    BY <1>6 DEF TextPreedit
  <2>2. SaysAll("PREEDIT", focus, 0)
    <3>1. ASSUME NEW c \in ClientHandle, Owned(c, focus)
          PROVE  View(c)' \in Reading(View(c), Event("PREEDIT", focus, 0))
      <4>1. Seen(focus, keys, TRUE, SeenInside(c), SeenButtons(c),
                SeenTouches(c))
              \in Reading(Seen(focus, keys, ime_active, SeenInside(c), SeenButtons(c),
                SeenTouches(c)),
                          Event("PREEDIT", focus, 0))
        BY <2>1, FocusReadings
      <4> QED
        BY <1>3, <2>1, <3>1, <4>1
    <3> QED
      BY <1>4, <3>1 DEF SaysAll
  <2>3. (IF ime_active THEN 0 ELSE 1) \in Int
    OBVIOUS
  <2>4. Tell(focus, "PREEDIT", 0, IF ime_active THEN 0 ELSE 1)
    BY <1>6 DEF TextPreedit
  <2> QED
    BY <1>1, <1>5, <2>2, <2>3, <2>4, ToldByTell
<1>7. CASE TextCommit(epoch, revision)
  <2>1. ime_active' = FALSE
    BY <1>1, <1>7 DEF TextCommit, EndComposition
  <2>2. SaysAll("COMMIT", focus, 0)
    <3>1. ASSUME NEW c \in ClientHandle, Owned(c, focus)
          PROVE  View(c)' \in Reading(View(c), Event("COMMIT", focus, 0))
      <4>1. Seen(focus, keys, FALSE, SeenInside(c), SeenButtons(c),
                SeenTouches(c))
              \in Reading(Seen(focus, keys, ime_active, SeenInside(c), SeenButtons(c),
                SeenTouches(c)),
                          Event("COMMIT", focus, 0))
        BY <2>1, FocusReadings
      <4> QED
        BY <1>3, <2>1, <3>1, <4>1
    <3> QED
      BY <1>4, <3>1 DEF SaysAll
  <2>3. (IF ime_active THEN -1 ELSE 0) \in Int
    OBVIOUS
  <2>4. Tell(focus, "COMMIT", 0, IF ime_active THEN -1 ELSE 0)
    BY <1>7 DEF TextCommit
  <2> QED
    BY <1>1, <1>5, <2>2, <2>3, <2>4, ToldByTell
<1>8. CASE TextCancel(epoch, revision)
  <2>1. ime_active' = FALSE /\ ime_active = TRUE
    BY <1>1, <1>8 DEF TextCancel, EndComposition
  <2>2. SaysAll("CANCEL", focus, 0)
    <3>1. ASSUME NEW c \in ClientHandle, Owned(c, focus)
          PROVE  View(c)' \in Reading(View(c), Event("CANCEL", focus, 0))
      <4>1. Seen(focus, keys, FALSE, SeenInside(c), SeenButtons(c),
                SeenTouches(c))
              \in Reading(Seen(focus, keys, ime_active, SeenInside(c), SeenButtons(c),
                SeenTouches(c)),
                          Event("CANCEL", focus, 0))
        BY <2>1, FocusReadings
      <4> QED
        BY <1>3, <2>1, <3>1, <4>1
    <3> QED
      BY <1>4, <3>1 DEF SaysAll
  <2>3. Tell(focus, "CANCEL", 0, -1) /\ -1 \in Int
    BY <1>8 DEF TextCancel
  <2> QED
    BY <1>1, <1>5, <2>2, <2>3, ToldByTell
<1> QED
  BY <1>6, <1>7, <1>8

\* Buttons: the owner of the capture holds one more, or one less.
LEMMA ToldButtons ==
  ASSUME InputInv, NEW b \in Button, ButtonDown(b) \/ ButtonUp(b)
  PROVE  \A c \in ClientHandle : Told(c)
<1> DEFINE t == Dispatch
<1>1. /\ UNCHANGED <<targets, focus, keys, ime_active, ime_target, pointer_target, touches>>
      /\ t # NoHandle /\ pointer_target = t /\ t \in TargetHandle /\ TargetOk(t)
      /\ pointer_capture # NoHandle => pointer_capture = t
      /\ pointer_capture # NoHandle <=> buttons # {}
  BY DispatchTarget DEF ButtonDown, ButtonUp, focusVars, textVars, InputInv, SeatInv, SeatLinks
<1>2. /\ pointer_capture' # NoHandle => pointer_capture' = t
      /\ pointer_capture' # NoHandle <=> buttons' # {}
  BY <1>1 DEF ButtonDown, ButtonUp
<1>3. \A c : ~Owned(c, NoHandle)
  BY LiveHandle DEF InputInv
<1> HIDE DEF t
<1>4. ASSUME NEW c
      PROVE  /\ (IF Owned(c, pointer_capture) THEN buttons ELSE {})
                  = (IF Owned(c, t) THEN buttons ELSE {})
             /\ (IF Owned(c, pointer_capture') THEN buttons' ELSE {})
                  = (IF Owned(c, t) THEN buttons' ELSE {})
  BY <1>1, <1>2, <1>3
<1>5. ASSUME NEW c, Owned(c, t)
      PROVE  /\ View(c) = Seen(SeenFocus(c), SeenKeys(c), SeenText(c), t, buttons,
                               SeenTouches(c))
             /\ View(c)' = Seen(SeenFocus(c), SeenKeys(c), SeenText(c), t, buttons',
                                SeenTouches(c))
  <2>1. SeenInside(c) = t /\ SeenButtons(c) = buttons
    BY <1>1, <1>4, <1>5 DEF SeenInside, SeenButtons
  <2>2. SeenInside(c)' = t /\ SeenButtons(c)' = buttons'
    BY <1>1, <1>4, <1>5, PartsAfter
  <2>3. /\ SeenFocus(c)' = SeenFocus(c) /\ SeenKeys(c)' = SeenKeys(c)
        /\ SeenText(c)' = SeenText(c) /\ SeenTouches(c)' = SeenTouches(c)
    BY <1>1, PartsAfter DEF SeenFocus, SeenKeys, SeenText, SeenTouches
  <2> QED
    BY <2>1, <2>2, <2>3, ViewsSeen
<1>6. ASSUME NEW c, ~Owned(c, t)
      PROVE  View(c)' = View(c)
  <2>1. /\ SeenFocus(c)' = SeenFocus(c) /\ SeenKeys(c)' = SeenKeys(c)
        /\ SeenText(c)' = SeenText(c) /\ SeenInside(c)' = SeenInside(c)
        /\ SeenButtons(c)' = SeenButtons(c) /\ SeenTouches(c)' = SeenTouches(c)
    BY <1>1, <1>4, <1>6, PartsAfter
       DEF SeenFocus, SeenKeys, SeenText, SeenInside, SeenButtons, SeenTouches
  <2> QED
    BY <2>1, ViewsSeen
<1>7. CASE ButtonDown(b)
  <2>1. Tell(t, "BUTTON_DOWN", b, 1) /\ b \notin buttons /\ buttons' = buttons \cup {b}
    BY <1>7 DEF ButtonDown, t
  <2>2. SaysAll("BUTTON_DOWN", t, b)
    <3>1. ASSUME NEW c \in ClientHandle, Owned(c, t)
          PROVE  View(c)' \in Reading(View(c), Event("BUTTON_DOWN", t, b))
      <4>1. Seen(SeenFocus(c), SeenKeys(c), SeenText(c), t, buttons \cup {b},
                SeenTouches(c))
              \in Reading(Seen(SeenFocus(c), SeenKeys(c), SeenText(c), t, buttons,
                SeenTouches(c)),
                          Event("BUTTON_DOWN", t, b))
        BY <2>1, PointerReadings
      <4> QED
        BY <1>5, <2>1, <3>1, <4>1
    <3> QED
      BY <1>6, <3>1 DEF SaysAll
  <2>3. "BUTTON_DOWN" \in EventType /\ 1 \in Int
    BY DEF EventType
  <2> QED
    BY <1>1, <2>1, <2>2, <2>3, ToldByTell
<1>8. CASE ButtonUp(b)
  <2>1. Tell(t, "BUTTON_UP", b, -1) /\ b \in buttons /\ buttons' = buttons \ {b}
    BY <1>8 DEF ButtonUp, t
  <2>2. SaysAll("BUTTON_UP", t, b)
    <3>1. ASSUME NEW c \in ClientHandle, Owned(c, t)
          PROVE  View(c)' \in Reading(View(c), Event("BUTTON_UP", t, b))
      <4>1. Seen(SeenFocus(c), SeenKeys(c), SeenText(c), t, buttons \ {b},
                SeenTouches(c))
              \in Reading(Seen(SeenFocus(c), SeenKeys(c), SeenText(c), t, buttons,
                SeenTouches(c)),
                          Event("BUTTON_UP", t, b))
        BY <2>1, PointerReadings
      <4> QED
        BY <1>5, <2>1, <3>1, <4>1
    <3> QED
      BY <1>6, <3>1 DEF SaysAll
  <2>3. "BUTTON_UP" \in EventType /\ -1 \in Int
    BY DEF EventType
  <2> QED
    BY <1>1, <2>1, <2>2, <2>3, ToldByTell
<1> QED
  BY <1>7, <1>8

\* The contacts in T of client c and where they went down.
Held(c, T) == {<<id, T[id]>> : id \in {j \in TouchId : Owned(c, T[j])}}

\* Contacts: the owner of the target holds one more, or one less.
LEMMA ToldTouches ==
  ASSUME InputInv, NEW id \in TouchId,
         TouchUp(id) \/ \E t \in TargetHandle : TouchDown(t, id)
  PROVE  \A c \in ClientHandle : Told(c)
<1>1. /\ UNCHANGED <<targets, focus, keys, ime_active, ime_target, pointer_target,
                     pointer_capture, buttons>>
      /\ touches \in [TouchId -> TargetHandle \cup {NoHandle}]
  BY DEF TouchUp, TouchDown, focusVars, textVars, pointerVars, InputInv, SeatInv, SeatType
<1>2. ASSUME NEW c
      PROVE  /\ View(c) = Seen(SeenFocus(c), SeenKeys(c), SeenText(c), SeenInside(c),
                               SeenButtons(c), Held(c, touches))
             /\ View(c)' = Seen(SeenFocus(c), SeenKeys(c), SeenText(c), SeenInside(c),
                                SeenButtons(c), Held(c, touches'))
  <2>1. SeenTouches(c) = Held(c, touches) /\ SeenTouches(c)' = Held(c, touches')
    BY <1>1, PartsAfter DEF SeenTouches, Held
  <2>2. /\ SeenFocus(c)' = SeenFocus(c) /\ SeenKeys(c)' = SeenKeys(c)
        /\ SeenText(c)' = SeenText(c) /\ SeenInside(c)' = SeenInside(c)
        /\ SeenButtons(c)' = SeenButtons(c)
    BY <1>1, PartsAfter DEF SeenFocus, SeenKeys, SeenText, SeenInside, SeenButtons
  <2> QED
    BY <2>1, <2>2, ViewsSeen
<1>3. \A c : ~Owned(c, NoHandle)
  BY LiveHandle DEF InputInv
<1>4. ASSUME NEW t \in TargetHandle, TouchDown(t, id)
      PROVE  \A c \in ClientHandle : Told(c)
  <2>1. /\ Tell(t, "TOUCH_DOWN", id, 1) /\ touches[id] = NoHandle
        /\ touches' = [touches EXCEPT ![id] = t]
    BY <1>4 DEF TouchDown
  <2>2. ASSUME NEW c
        PROVE  /\ Owned(c, t) => Held(c, touches') = Held(c, touches) \cup {<<id, t>>}
               /\ ~Owned(c, t) => Held(c, touches') = Held(c, touches)
               /\ \A y \in Held(c, touches) : y[1] # id
    BY <1>1, <1>3, <2>1 DEF Held
  <2>3. SaysAll("TOUCH_DOWN", t, id)
    <3>1. ASSUME NEW c \in ClientHandle, Owned(c, t)
          PROVE  View(c)' \in Reading(View(c), Event("TOUCH_DOWN", t, id))
      <4>1. Seen(SeenFocus(c), SeenKeys(c), SeenText(c), SeenInside(c),
                SeenButtons(c), Held(c, touches) \cup {<<id, t>>})
              \in Reading(Seen(SeenFocus(c), SeenKeys(c), SeenText(c), SeenInside(c),
                SeenButtons(c), Held(c, touches)),
                          Event("TOUCH_DOWN", t, id))
        BY <2>2, <3>1, PointerReadings
      <4> QED
        BY <1>2, <2>2, <3>1, <4>1
    <3> QED
      BY <1>2, <2>2, <3>1 DEF SaysAll
  <2>4. "TOUCH_DOWN" \in EventType /\ 1 \in Int
    BY DEF EventType
  <2> QED
    BY <2>1, <2>3, <2>4, ToldByTell
<1>5. CASE TouchUp(id)
  <2> DEFINE t == touches[id]
  <2>1. /\ Tell(t, "TOUCH_UP", id, -1)
        /\ touches' = [touches EXCEPT ![id] = NoHandle]
        /\ t \in TargetHandle \cup {NoHandle}
    BY <1>1, <1>5 DEF TouchUp
  <2>2. ASSUME NEW c
        PROVE  /\ Owned(c, t) => Held(c, touches') = Held(c, touches) \ {<<id, t>>}
               /\ Owned(c, t) => <<id, t>> \in Held(c, touches)
               /\ ~Owned(c, t) => Held(c, touches') = Held(c, touches)
    BY <1>1, <1>3, <2>1 DEF Held
  <2> HIDE DEF t
  <2>3. SaysAll("TOUCH_UP", t, id)
    <3>1. ASSUME NEW c \in ClientHandle, Owned(c, t)
          PROVE  View(c)' \in Reading(View(c), Event("TOUCH_UP", t, id))
      <4>1. Seen(SeenFocus(c), SeenKeys(c), SeenText(c), SeenInside(c),
                SeenButtons(c), Held(c, touches) \ {<<id, t>>})
              \in Reading(Seen(SeenFocus(c), SeenKeys(c), SeenText(c), SeenInside(c),
                SeenButtons(c), Held(c, touches)),
                          Event("TOUCH_UP", t, id))
        BY <2>2, <3>1, PointerReadings
      <4> QED
        BY <1>2, <2>2, <3>1, <4>1
    <3> QED
      BY <1>2, <2>2, <3>1 DEF SaysAll
  <2>4. "TOUCH_UP" \in EventType /\ -1 \in Int
    BY DEF EventType
  <2> QED
    BY <2>1, <2>3, <2>4, ToldByTell
<1> QED
  BY <1>4, <1>5

\* Two events.
LEMMA ReadsTwo ==
  ASSUME NEW d, NEW e, NEW u, NEW v \in Reading(u, d), NEW w \in Reading(v, e)
  PROVE  Reads(u, <<d, e>>, w)
<1> DEFINE f == [i \in Nat |-> IF i = 0 THEN u ELSE IF i = 1 THEN v ELSE w]
<1>1. Len(<<d, e>>) = 2 /\ <<d, e>>[1] = d /\ <<d, e>>[2] = e
  OBVIOUS
<1>2. f[0] = u /\ f[1] = v /\ f[2] = w
  OBVIOUS
<1>3. \A i \in 1 .. 2 : (i = 1 /\ i - 1 = 0) \/ (i = 2 /\ i - 1 = 1)
  OBVIOUS
<1> HIDE DEF f
<1> QED
  BY <1>1, <1>2, <1>3 DEF Reads, ReadsBy

\* Cancelling the pointer releases every button and leaves the target.
LEMMA ToldPointerCancel ==
  ASSUME InputInv, PointerCancel
  PROVE  \A c \in ClientHandle : Told(c)
<1> DEFINE t == Dispatch
           leave == <<Event("LEAVE", t, 0)>>
           ups == Ups("BUTTON_UP", t, buttons)
           r == -(Cardinality(buttons) + 1)
<1>1. /\ t # NoHandle /\ pointer_target = t /\ t \in TargetHandle /\ TargetOk(t)
      /\ pointer_capture # NoHandle => pointer_capture = t
      /\ pointer_capture = NoHandle => buttons = {}
  BY DispatchTarget DEF PointerCancel, InputInv, SeatInv, SeatLinks
<1>2. /\ Deliver(Mail(Owner(t), ups \o leave, r))
      /\ buttons' = {} /\ pointer_capture' = NoHandle /\ pointer_target' = NoHandle
      /\ UNCHANGED <<targets, focus, keys, ime_active, ime_target, touches>>
  <2>1. Len(leave) = 1
    BY ShortQueues
  <2> HIDE DEF leave
  <2> QED
    BY <1>1, <2>1 DEF PointerCancel, leave, focusVars, textVars
<1> HIDE DEF t
<1>3. IsFiniteSet(buttons) /\ buttons \subseteq Nat /\ r \in Int
  <2>1. IsFiniteSet(buttons) /\ buttons \subseteq Nat
    BY InputAssumption DEF InputInv, SeatInv, SeatType, FiniteInv
  <2> QED
    BY <2>1, FS_CardinalityType
<1>4. IsEventQueue(ups) /\ IsEventQueue(leave) /\ IsEventQueue(ups \o leave) /\ ups \o leave # <<>>
  <2>1. {"BUTTON_UP", "LEAVE"} \subseteq EventType
    BY DEF EventType
  <2>2. IsEvent(Event("LEAVE", t, 0))
    BY <1>1, <2>1 DEF IsEvent, Event
  <2>3. IsEventQueue(ups)
    BY <1>1, <1>3, <2>1, UpsType
  <2>4. IsEventQueue(leave)
    BY <2>2, ShortQueues
  <2>5. IsEventQueue(ups \o leave) /\ ups \o leave # <<>>
    <3> HIDE DEF ups
    <3> QED
      BY <2>2, <2>3, EndsWith
  <2> QED
    BY <2>3, <2>4, <2>5
<1> HIDE DEF r
<1>5. \A c : ~Owned(c, NoHandle)
  BY LiveHandle DEF InputInv
<1>6. ASSUME NEW c
      PROVE  /\ SeenFocus(c)' = SeenFocus(c) /\ SeenKeys(c)' = SeenKeys(c)
             /\ SeenText(c)' = SeenText(c) /\ SeenTouches(c)' = SeenTouches(c)
             /\ SeenInside(c)' = NoHandle /\ SeenButtons(c)' = {}
  BY <1>2, <1>5, PartsAfter DEF SeenFocus, SeenKeys, SeenText, SeenTouches
<1>7. ASSUME NEW c \in ClientHandle, Owned(c, t)
      PROVE  Reads(View(c), ups \o leave, View(c)')
  <2> DEFINE V(i, b) == Seen(SeenFocus(c), SeenKeys(c), SeenText(c), i, b, SeenTouches(c))
  <2>1. SeenInside(c) = t /\ SeenButtons(c) = buttons
    BY <1>1, <1>5, <1>7 DEF SeenInside, SeenButtons
  <2>2. View(c) = V(t, buttons) /\ View(c)' = V(NoHandle, {})
    BY <1>6, <2>1, ViewsSeen
  <2>3. Reads(V(t, buttons), ups, V(t, {}))
    BY <1>1, <1>3, ReadsButtonUps
  <2>4. V(NoHandle, {}) \in Reading(V(t, {}), Event("LEAVE", t, 0))
    BY PointerReadings
  <2>5. Reads(V(t, {}), leave, V(NoHandle, {}))
    BY <2>4, ReadsOne
  <2> HIDE DEF V, ups, leave
  <2> QED
    BY <1>4, <2>2, <2>3, <2>5, ReadsBoth
<1>8. ASSUME NEW c \in ClientHandle, ~Owned(c, t)
      PROVE  View(c)' = View(c)
  <2>1. SeenInside(c) = NoHandle /\ SeenButtons(c) = {}
    BY <1>1, <1>5, <1>8 DEF SeenInside, SeenButtons
  <2> QED
    BY <1>6, <2>1, ViewsSeen
<1> DEFINE news == ups \o leave
<1>9. IsEventQueue(news) /\ news # <<>> /\ Deliver(Mail(Owner(t), news, r))
  BY <1>2, <1>4
<1>10. \A c \in ClientHandle : IF Owned(c, t) THEN Reads(View(c), news, View(c)')
                               ELSE View(c)' = View(c)
  BY <1>7, <1>8
<1> HIDE DEF news
<1> QED
  BY <1>1, <1>3, <1>9, <1>10, ToldOwner

\* The old target is left, then the new one is entered.
LEMMA ToldMotion ==
  ASSUME InputInv, NEW t \in TargetHandle \cup {NoHandle}, PointerMotion(t)
  PROVE  \A c \in ClientHandle : Told(c)
<1>0. UNCHANGED <<targets, focusVars, pointer_capture, buttons, touches, shortcuts>>
  BY DEF PointerMotion
<1>1. CASE ~(pointer_capture = NoHandle /\ t # pointer_target)
  <2>1. /\ Dispatch # NoHandle
        /\ Tell(Dispatch, "DATA", 0, 0)
        /\ UNCHANGED pointer_target
    BY <1>1 DEF PointerMotion
  <2>2. UNCHANGED <<targets, seatVars>>
    BY <1>0, <2>1 DEF seatVars, pointerVars
  <2>3. Dispatch \in TargetHandle \cup {NoHandle}
    BY <2>1, DispatchTarget
  <2> QED
    BY <2>1, <2>2, <2>3, ToldData
<1>2. CASE pointer_capture = NoHandle /\ t # pointer_target
  <2> DEFINE old == pointer_target
             leave == <<Event("LEAVE", old, 0)>>
             enter == <<Event("ENTER", t, 0), Event("DATA", t, 0)>>
             m1 == IF old = NoHandle THEN NoMail ELSE Mail(Owner(old), leave, -1)
             m2 == IF t = NoHandle THEN NoMail ELSE Mail(Owner(t), enter, 1)
             m == Then(m1, m2)
  <2>1. /\ t # NoHandle => TargetOk(t)
        /\ old # NoHandle => TargetOk(old)
        /\ Deliver(m)
        /\ pointer_target' = t
    BY <1>2 DEF PointerMotion
  <2>2. /\ IsEventQueue(leave) /\ leave # <<>>
        /\ IsEventQueue(enter) /\ enter # <<>>
    <3>1. IsEvent(Event("LEAVE", old, 0)) /\ IsEvent(Event("ENTER", t, 0))
            /\ IsEvent(Event("DATA", t, 0))
      BY DEF InputInv, SeatInv, SeatType, IsEvent, Event, EventType
    <3> QED
      BY <3>1, ShortQueues
  <2>3. \A c : ~Owned(c, NoHandle)
    BY LiveHandle DEF InputInv
  <2>4. ASSUME NEW c
        PROVE  /\ SeenFocus(c)' = SeenFocus(c) /\ SeenKeys(c)' = SeenKeys(c)
               /\ SeenText(c)' = SeenText(c) /\ SeenTouches(c)' = SeenTouches(c)
               /\ SeenButtons(c) = {} /\ SeenButtons(c)' = {}
               /\ SeenInside(c)' = IF Owned(c, t) THEN t ELSE NoHandle
    BY <1>0, <1>2, <2>1, <2>3, PartsAfter
       DEF SeenFocus, SeenKeys, SeenText, SeenTouches, SeenButtons, focusVars, textVars
  <2> DEFINE V(c, i) == Seen(SeenFocus(c), SeenKeys(c), SeenText(c), i, {}, SeenTouches(c))
  <2>5. ASSUME NEW c
        PROVE  /\ View(c) = V(c, IF Owned(c, old) THEN old ELSE NoHandle)
               /\ View(c)' = V(c, IF Owned(c, t) THEN t ELSE NoHandle)
    <3>1. SeenInside(c) = IF Owned(c, old) THEN old ELSE NoHandle
      BY DEF SeenInside
    <3> QED
      BY <2>4, <3>1, ViewsSeen
  <2>6. ASSUME NEW c
        PROVE  /\ Reads(V(c, old), leave, V(c, NoHandle))
               /\ Reads(V(c, NoHandle), enter, V(c, t))
    <3>1. V(c, NoHandle) \in Reading(V(c, old), Event("LEAVE", old, 0))
      BY PointerReadings
    <3>2. V(c, t) \in Reading(V(c, NoHandle), Event("ENTER", t, 0))
      BY PointerReadings
    <3>3. V(c, t) \in Reading(V(c, t), Event("DATA", t, 0))
      BY PointerReadings
    <3> HIDE DEF V
    <3> QED
      BY <3>1, <3>2, <3>3, ReadsOne, ReadsTwo
  <2> HIDE DEF leave, enter, V
  <2>7. /\ IsMail(m1)
        /\ \A c \in ClientHandle : m1[c].news = IF Owned(c, old) THEN leave ELSE <<>>
    <3>1. CASE old = NoHandle
      BY <2>3, <3>1, NoMailIsMail DEF NoMail
    <3>2. CASE old # NoHandle
      <4>1. IsMail(Mail(Owner(old), leave, -1))
        BY <2>2, MailIsMail DEF Reserves
      <4>2. \A c : Owned(c, old) <=> c = Owner(old)
        BY <2>1, <3>2, AboutTarget
      <4> QED
        BY <3>2, <4>1, <4>2 DEF Mail, NoMail
    <3> QED
      BY <3>1, <3>2
  <2>8. /\ IsMail(m2)
        /\ \A c \in ClientHandle : m2[c].news = IF Owned(c, t) THEN enter ELSE <<>>
    <3>1. CASE t = NoHandle
      BY <2>3, <3>1, NoMailIsMail DEF NoMail
    <3>2. CASE t # NoHandle
      <4>1. IsMail(Mail(Owner(t), enter, 1))
        <5>1. 1 \in Int
          OBVIOUS
        <5>2. Reserves(Mail(Owner(t), enter, 1), Owner(t), 1)
          BY <2>2, <5>1, MailIsMail
        <5> QED
          BY <5>2 DEF Reserves
      <4>2. \A c : Owned(c, t) <=> c = Owner(t)
        BY <2>1, <3>2, AboutTarget
      <4> QED
        BY <3>2, <4>1, <4>2 DEF Mail, NoMail
    <3> QED
      BY <3>1, <3>2
  <2> HIDE DEF m1, m2
  <2>9. IsMail(m) /\ \A c \in ClientHandle : m[c].news = m1[c].news \o m2[c].news
    BY <2>7, <2>8, ThenIsMail
  <2> HIDE DEF m
  <2>10. ASSUME NEW c \in ClientHandle
         PROVE  Reads(View(c), m[c].news, View(c)')
    <3>1. Reads(View(c), m1[c].news, V(c, NoHandle))
      BY <2>5, <2>6, <2>7, ReadsNothing
    <3>2. Reads(V(c, NoHandle), m2[c].news, View(c)')
      BY <2>5, <2>6, <2>8, ReadsNothing
    <3>3. IsEventQueue(m1[c].news) /\ IsEventQueue(m2[c].news)
      BY <2>7, <2>8 DEF IsMail
    <3> QED
      BY <2>9, <3>1, <3>2, <3>3, ReadsBoth
  <2> QED
    BY <2>1, <2>9, <2>10, ToldByMail
<1> QED
  BY <1>1, <1>2

\* The old focus is told to let go of everything, then the new one is told.
LEMMA ToldFocus ==
  ASSUME InputInv, NEW t \in TargetHandle \cup {NoHandle}, SetFocus(t)
  PROVE  \A c \in ClientHandle : Told(c)
<1> DEFINE hello == Greeting(t, "FOCUS_IN")
           m == Then(Farewell, hello)
           W(c) == Seen(NoHandle, {}, FALSE, SeenInside(c), SeenButtons(c), SeenTouches(c))
           V(c, k, x) == Seen(focus, k, x, SeenInside(c), SeenButtons(c), SeenTouches(c))
<1>1. /\ Deliver(m)
      /\ t # NoHandle => TargetOk(t)
      /\ focus = NoHandle => keys = {} /\ ~ime_active
      /\ focus # NoHandle => TargetOk(focus)
      /\ focus' = t /\ keys' = {} /\ ime_active' = FALSE
      /\ UNCHANGED <<targets, pointer_target, pointer_capture, buttons, touches>>
  BY DEF SetFocus, pointerVars
<1>2. /\ focus \in TargetHandle \cup {NoHandle}
      /\ keys \subseteq Nat /\ IsFiniteSet(keys)
      /\ ime_active \in BOOLEAN
      /\ ime_active => ime_target = focus
  BY InputAssumption DEF InputInv, SeatInv, SeatType, FiniteInv, SeatLinks
<1>3. \A c : ~Owned(c, NoHandle)
  BY LiveHandle DEF InputInv
<1>4. ASSUME NEW c, Owned(c, focus)
      PROVE  View(c) = V(c, keys, ime_active)
  <2>1. SeenFocus(c) = focus /\ SeenKeys(c) = keys
    BY <1>4 DEF SeenFocus, SeenKeys
  <2>2. SeenText(c) = ime_active
    BY <1>2, <1>4 DEF SeenText
  <2> QED
    BY <2>1, <2>2, ViewsSeen
<1>5. ASSUME NEW c, ~Owned(c, focus)
      PROVE  View(c) = W(c)
  <2>1. SeenFocus(c) = NoHandle /\ SeenKeys(c) = {}
    BY <1>5 DEF SeenFocus, SeenKeys
  <2>2. SeenText(c) = FALSE
    BY <1>2, <1>5 DEF SeenText
  <2> QED
    BY <2>1, <2>2, ViewsSeen
<1>6. ASSUME NEW c
      PROVE  View(c)' = IF Owned(c, t)
                        THEN Seen(t, {}, FALSE, SeenInside(c), SeenButtons(c), SeenTouches(c))
                        ELSE W(c)
  <2>1. /\ SeenFocus(c)' = IF Owned(c, t) THEN t ELSE NoHandle
        /\ SeenKeys(c)' = {}
    BY <1>1, PartsAfter
  <2>2. SeenText(c)' = FALSE
    BY <1>1, PartsAfter
  <2>3. /\ SeenInside(c)' = SeenInside(c) /\ SeenButtons(c)' = SeenButtons(c)
        /\ SeenTouches(c)' = SeenTouches(c)
    BY <1>1, PartsAfter DEF SeenInside, SeenButtons, SeenTouches
  <2> QED
    BY <2>1, <2>2, <2>3, ViewsSeen
<1>7. ASSUME NEW c \in ClientHandle
      PROVE  Reads(View(c), Farewell[c].news, W(c))
  <2>1. CASE ~Owned(c, focus)
    <3>1. Farewell[c].news = <<>>
      <4>1. focus # NoHandle => c # Owner(focus)
        BY <1>1, <2>1, AboutTarget
      <4> QED
        BY <4>1 DEF Farewell, Mail, NoMail
    <3>2. View(c) = W(c)
      BY <1>5, <2>1
    <3> HIDE DEF W
    <3> QED
      BY <3>1, <3>2, ReadsNothing
  <2>2. CASE Owned(c, focus)
    <3> DEFINE ups == Ups("KEY_UP", focus, keys)
               cancel == IF ime_active THEN <<Event("CANCEL", focus, 0)>> ELSE <<>>
               out == <<Event("FOCUS_OUT", focus, 0)>>
    <3>1. Farewell[c].news = (ups \o cancel) \o out
      <4>1. focus # NoHandle /\ c = Owner(focus)
        BY <1>1, <1>3, <2>2, AboutTarget
      <4> QED
        BY <4>1 DEF Farewell, Mail, NoMail
    <3>2. IsEventQueue(ups) /\ IsEventQueue(cancel) /\ IsEventQueue(out)
      <4>1. {"KEY_UP", "CANCEL", "FOCUS_OUT"} \subseteq EventType
        BY DEF EventType
      <4>2. IsEvent(Event("CANCEL", focus, 0)) /\ IsEvent(Event("FOCUS_OUT", focus, 0))
        BY <1>2, <4>1 DEF IsEvent, Event
      <4>3. IsEventQueue(ups)
        BY <1>2, <4>1, UpsType
      <4> QED
        BY <4>2, <4>3, ShortQueues
    <3>3. Reads(V(c, keys, ime_active), ups, V(c, {}, ime_active))
      BY <1>2, ReadsKeyUps
    <3>4. Reads(V(c, {}, ime_active), cancel, V(c, {}, FALSE))
      <4>1. CASE ime_active
        <5>1. V(c, {}, FALSE) \in Reading(V(c, {}, ime_active), Event("CANCEL", focus, 0))
          BY <4>1, FocusReadings
        <5> HIDE DEF V
        <5> QED
          BY <4>1, <5>1, ReadsOne
      <4>2. CASE ~ime_active
        <5>1. ime_active = FALSE
          BY <1>2, <4>2
        <5> HIDE DEF V
        <5> QED
          BY <4>2, <5>1, ReadsNothing
      <4> QED
        BY <4>1, <4>2
    <3>5. Reads(V(c, {}, FALSE), out, W(c))
      <4>1. W(c) \in Reading(V(c, {}, FALSE), Event("FOCUS_OUT", focus, 0))
        BY FocusReadings
      <4> HIDE DEF V, W
      <4> QED
        BY <4>1, ReadsOne
    <3>6. View(c) = V(c, keys, ime_active)
      BY <1>4, <2>2
    <3> HIDE DEF ups, cancel, out, V, W
    <3>7. /\ IsEventQueue(ups \o cancel)
          /\ Reads(View(c), ups \o cancel, V(c, {}, FALSE))
      BY <3>2, <3>3, <3>4, <3>6, Concatenation, ReadsBoth
    <3> QED
      BY <3>1, <3>2, <3>5, <3>7, ReadsBoth
  <2> QED
    BY <2>1, <2>2
<1>8. ASSUME NEW c \in ClientHandle
      PROVE  Reads(W(c), hello[c].news, View(c)')
  <2>1. CASE ~Owned(c, t)
    <3>1. hello[c].news = <<>>
      <4>1. t # NoHandle => c # Owner(t)
        BY <1>1, <2>1, AboutTarget
      <4> QED
        BY <4>1 DEF Greeting, Mail, NoMail
    <3>2. View(c)' = W(c)
      BY <1>6, <2>1
    <3> HIDE DEF W
    <3> QED
      BY <3>1, <3>2, ReadsNothing
  <2>2. CASE Owned(c, t)
    <3>1. hello[c].news = <<Event("FOCUS_IN", t, 0)>>
      <4>1. t # NoHandle /\ c = Owner(t)
        BY <1>1, <1>3, <2>2, AboutTarget
      <4> QED
        BY <4>1 DEF Greeting, Mail, NoMail
    <3>2. Seen(t, {}, FALSE, SeenInside(c), SeenButtons(c), SeenTouches(c))
            \in Reading(W(c), Event("FOCUS_IN", t, 0))
      BY FocusReadings
    <3>3. View(c)' = Seen(t, {}, FALSE, SeenInside(c), SeenButtons(c), SeenTouches(c))
      BY <1>6, <2>2
    <3> HIDE DEF W
    <3> QED
      BY <3>1, <3>2, <3>3, ReadsOne
  <2> QED
    BY <2>1, <2>2
<1> HIDE DEF W, V
<1>9. IsMail(Farewell) /\ IsMail(hello)
  <2>1. "FOCUS_IN" \in EventType
    BY DEF EventType
  <2> QED
    BY <2>1, FarewellMail, GreetingMail
<1> HIDE DEF hello
<1>10. IsMail(m) /\ \A c \in ClientHandle : m[c].news = Farewell[c].news \o hello[c].news
  BY <1>9, ThenIsMail
<1> HIDE DEF m
<1>11. ASSUME NEW c \in ClientHandle
       PROVE  Reads(View(c), m[c].news, View(c)')
  <2>1. IsEventQueue(Farewell[c].news) /\ IsEventQueue(hello[c].news)
    BY <1>9 DEF IsMail
  <2> QED
    BY <1>7, <1>8, <1>10, <2>1, ReadsBoth
<1> QED
  BY <1>1, <1>10, <1>11, ToldByMail

\* Targets that come or go are none that a client holds.
LEMMA ToldTargets ==
  ASSUME InputInv, NEW c \in ClientHandle,
         \/ \E mode \in TextMode : TargetCreate(c, mode)
         \/ \E t \in TargetHandle : TargetDestroy(c, t),
         NEW d \in ClientHandle
  PROVE  Told(d)
<1>1. UNCHANGED <<clients, events, focus, keys, ime_active, ime_target, pointer_target,
                  pointer_capture, buttons, touches>>
  BY DEF TargetCreate, TargetDestroy, seatVars, focusVars, textVars, pointerVars
<1>2. \A u \in Pointed : Owned(d, u)' <=> Owned(d, u)
  BY PointedStays DEF Owned, TargetOk, IsLive, Owner
<1>3. /\ Owned(d, focus)' <=> Owned(d, focus)
      /\ Owned(d, pointer_target)' <=> Owned(d, pointer_target)
      /\ Owned(d, pointer_capture)' <=> Owned(d, pointer_capture)
      /\ \A id \in TouchId : Owned(d, touches[id])' <=> Owned(d, touches[id])
  BY <1>1, <1>2 DEF Pointed
<1>4. SeenText(d)' = SeenText(d)
  <2>1. ime_active => ime_target = focus
    BY DEF InputInv, SeatInv, SeatLinks
  <2> QED
    BY <1>1, <1>3, <2>1 DEF SeenText
<1>5. SeenTouches(d)' = SeenTouches(d)
  BY <1>1, <1>3 DEF SeenTouches
<1>6. View(d)' = View(d)
  <2>1. /\ SeenFocus(d)' = SeenFocus(d) /\ SeenKeys(d)' = SeenKeys(d)
        /\ SeenInside(d)' = SeenInside(d) /\ SeenButtons(d)' = SeenButtons(d)
    BY <1>1, <1>3 DEF SeenFocus, SeenKeys, SeenInside, SeenButtons
  <2> QED
    BY <1>4, <1>5, <2>1, ViewsSeen
<1>7. IsEventQueue(events[d]) /\ (ClientOk(d)' => ClientOk(d))
  BY <1>1 DEF InputInv, QueuesInv, ClientOk
<1> QED
  BY <1>1, <1>6, <1>7, ToldNothing

\* A new client holds nothing.
LEMMA ToldNewClient ==
  ASSUME InputInv, UNCHANGED <<targets, events, seatVars>>, NEW d \in ClientHandle
  PROVE  Told(d)
<1>1. View(d)' = View(d)
  BY ViewUnchanged
<1>2. IsEventQueue(events[d])
  BY DEF InputInv, QueuesInv
<1>3. CASE ClientOk(d)
  BY <1>1, <1>2, <1>3, ToldNothing
<1>4. CASE ~ClientOk(d)
  <2>1. events'[d] = <<>>
    BY <1>4 DEF InputInv, QueuesInv
  <2>2. \A t \in TargetHandle \cup {NoHandle} : ~Owned(d, t)
    BY <1>4, LiveHandle DEF InputInv, Owned
  <2>3. /\ {focus, ime_target, pointer_target, pointer_capture}
             \subseteq TargetHandle \cup {NoHandle}
        /\ \A id \in TouchId : touches[id] \in TargetHandle \cup {NoHandle}
    BY DEF InputInv, SeatInv, SeatType
  <2>4. /\ SeenFocus(d) = NoHandle /\ SeenKeys(d) = {} /\ SeenInside(d) = NoHandle
        /\ SeenButtons(d) = {} /\ SeenTouches(d) = {}
    BY <2>2, <2>3 DEF SeenFocus, SeenKeys, SeenInside, SeenButtons, SeenTouches
  <2>5. SeenText(d) = FALSE
    BY <2>2, <2>3 DEF SeenText
  <2>6. View(d) = NothingHeld
    <3>1. View(d) = Seen(NoHandle, {}, FALSE, NoHandle, {}, {})
      BY <2>4, <2>5, ViewsSeen
    <3> QED
      BY <3>1 DEF Seen, NothingHeld
  <2> QED
    BY <1>1, <1>4, <2>1, <2>6 DEF Told
<1> QED
  BY <1>3, <1>4

\* A client that disconnects takes nothing from the others.
LEMMA ToldDisconnect ==
  ASSUME InputInv, NEW c \in ClientHandle, ClientDisconnect(c), NEW d \in ClientHandle
  PROVE  Told(d)
<1>1. ClientOk(d)' <=> ClientOk(d) /\ d # c
  BY DisconnectSlots DEF ClientOk
<1>2. CASE ~(ClientOk(d) /\ d # c)
  <2>1. ClientOk(c)
    BY DEF ClientDisconnect
  <2> QED
    BY <1>1, <1>2, <2>1 DEF Told
<1>3. CASE ClientOk(d) /\ d # c
  <2>1. \A t : Owned(d, t)' <=> OwnedIn(targets', d, t')
    BY DEF Owned, OwnedIn, TargetOk, IsLive, Owner
  <2>2. SeenFocus(d)' = SeenFocus(d) /\ SeenKeys(d)' = SeenKeys(d)
    BY <1>3, DisconnectOthers DEF SeenFocus, SeenKeys, Owned, OwnedIn, TargetOk, Owner
  <2>3. SeenInside(d)' = SeenInside(d) /\ SeenButtons(d)' = SeenButtons(d)
    BY <1>3, DisconnectOthers DEF SeenInside, SeenButtons, Owned, OwnedIn, TargetOk, Owner
  <2>4. SeenTouches(d)' = SeenTouches(d)
    <3>1. {id \in TouchId : OwnedIn(targets', d, touches'[id])}
            = {id \in TouchId : Owned(d, touches[id])}
      BY <1>3, DisconnectOthers
    <3>2. SeenTouches(d)' = {<<id, touches'[id]>> :
                               id \in {j \in TouchId : OwnedIn(targets', d, touches'[j])}}
      BY DEF SeenTouches, Owned, OwnedIn, TargetOk, Owner
    <3>3. \A id \in {j \in TouchId : Owned(d, touches[j])} : touches'[id] = touches[id]
      BY <1>3, DisconnectOthers
    <3> QED
      BY <3>1, <3>2, <3>3 DEF SeenTouches
  <2>5. SeenText(d)' = SeenText(d)
    <3>1. /\ ime_active => ime_target = focus
          /\ ime_active' => ime_target' = focus'
      BY DisconnectSeat DEF InputInv, SeatInv, SeatLinks
    <3>2. SeenText(d)' = (ime_active' /\ OwnedIn(targets', d, ime_target'))
      BY DEF SeenText, Owned, OwnedIn, TargetOk, Owner
    <3>3. /\ OwnedIn(targets', d, focus') <=> Owned(d, focus)
          /\ Owned(d, focus) => ime_active' = ime_active
      BY <1>3, DisconnectOthers
    <3> QED
      BY <3>1, <3>2, <3>3 DEF SeenText
  <2>6. View(d)' = View(d)
    BY <2>2, <2>3, <2>4, <2>5, ViewsSeen
  <2>7. IsEventQueue(events[d]) /\ events'[d] = events[d]
    BY <1>3 DEF InputInv, QueuesInv, ClientDisconnect
  <2> QED
    BY <1>1, <2>6, <2>7, ToldNothing
<1> QED
  BY <1>2, <1>3

\* Taking an event from a queue changes no view.
LEMMA ToldNextEvent ==
  ASSUME InputInv, NEW c \in ClientHandle, NextEvent(c), NEW d \in ClientHandle
  PROVE  Told(d)
<1>1. /\ ClientOk(c) /\ events[c] # <<>>
      /\ events' = [events EXCEPT ![c] = Tail(@)]
      /\ clients' = [clients EXCEPT ![c[1]].queued = @ - 1]
      /\ UNCHANGED <<targets, seatVars>>
  BY DEF NextEvent
<1>2. View(d)' = View(d)
  BY <1>1, ViewUnchanged
<1>3. ClientOk(d)' <=> ClientOk(d)
  <2>1. clients \in [ClientSlot -> ClientSlotType]
    BY DEF InputInv, TableInv
  <2>2. c[1] \in ClientSlot /\ d[1] \in ClientSlot
    BY HandleParts
  <2>3. /\ clients'[d[1]].live = clients[d[1]].live
        /\ clients'[d[1]].generation = clients[d[1]].generation
    BY <1>1, <2>1, <2>2 DEF ClientSlotType
  <2> QED
    BY <2>3 DEF ClientOk, IsLive
<1>4. /\ events'[d] = IF d = c THEN Tail(events[c]) ELSE events[d]
      /\ IsEventQueue(events[d])
  BY <1>1 DEF InputInv, QueuesInv
<1>5. CASE d = c
  BY <1>1, <1>2, <1>3, <1>4, <1>5 DEF Told
<1>6. CASE d # c
  BY <1>2, <1>3, <1>4, <1>6, ToldNothing
<1> QED
  BY <1>5, <1>6

\* The calls that send data and nothing else.
LEMMA ToldDataSteps ==
  ASSUME InputInv,
         \/ PointerAxis
         \/ \E t \in TargetHandle : Stylus(t)
         \/ \E id \in TouchId : TouchMove(id)
         \/ \E k \in Key : KeyRepeat(k)
  PROVE  \A c \in ClientHandle : Told(c)
<1>1. /\ {focus, pointer_target, pointer_capture} \subseteq TargetHandle \cup {NoHandle}
      /\ \A id \in TouchId : touches[id] \in TargetHandle \cup {NoHandle}
  BY DEF InputInv, SeatInv, SeatType
<1>2. CASE PointerAxis
  BY <1>1, <1>2, ToldData DEF PointerAxis, Dispatch
<1>3. CASE \E t \in TargetHandle : Stylus(t)
  BY <1>3, ToldData DEF Stylus
<1>4. CASE \E id \in TouchId : TouchMove(id)
  BY <1>1, <1>4, ToldData DEF TouchMove
<1>5. CASE \E k \in Key : KeyRepeat(k)
  BY <1>1, <1>5, ToldData DEF KeyRepeat
<1> QED
  BY <1>2, <1>3, <1>4, <1>5

\* Every call tells every client what it changes for it.
LEMMA EveryStepTells ==
  ASSUME InputInv, [Next]_vars
  PROVE  \A c \in ClientHandle : Told(c)
<1>1. UNCHANGED <<targets, events, seatVars>> => \A c \in ClientHandle : Told(c)
  BY ToldNewClient
<1>2. CASE UNCHANGED vars
  BY <1>1, <1>2 DEF vars
<1>3. CASE ClientCreate
  BY <1>1, <1>3 DEF ClientCreate
<1>4. CASE \/ \E c \in ClientHandle, t \in TargetHandle, id \in ShortcutId, k \in Key :
                ShortcutRegister(c, t, id, k)
           \/ \E c \in ClientHandle, id \in ShortcutId : ShortcutUnregister(c, id)
  BY <1>1, <1>4 DEF ShortcutRegister, ShortcutUnregister
<1>5. CASE SetPreferences
  BY <1>5, ToldPreferences
<1>6. CASE PointerCancel
  BY <1>6, ToldPointerCancel
<1>7. ASSUME NEW c \in ClientHandle, NextEvent(c)
      PROVE  \A d \in ClientHandle : Told(d)
  BY <1>7, ToldNextEvent
<1>8. ASSUME NEW c \in ClientHandle,
             \/ \E mode \in TextMode : TargetCreate(c, mode)
             \/ \E t \in TargetHandle : TargetDestroy(c, t)
      PROVE  \A d \in ClientHandle : Told(d)
  BY <1>8, ToldTargets
<1>9. ASSUME NEW t \in TargetHandle \cup {NoHandle}, SetFocus(t) \/ PointerMotion(t)
      PROVE  \A c \in ClientHandle : Told(c)
  BY <1>9, ToldFocus, ToldMotion
<1>10. ASSUME NEW id \in TouchId, TouchUp(id) \/ \E t \in TargetHandle : TouchDown(t, id)
       PROVE  \A c \in ClientHandle : Told(c)
  BY <1>10, ToldTouches
<1>11. ASSUME NEW k \in Key, KeyDown(k) \/ KeyUp(k)
       PROVE  \A c \in ClientHandle : Told(c)
  BY <1>11, ToldKeys
<1>12. ASSUME NEW b \in Button, ButtonDown(b) \/ ButtonUp(b)
       PROVE  \A c \in ClientHandle : Told(c)
  BY <1>12, ToldButtons
<1>13. ASSUME NEW epoch \in 1 .. MaxEpoch, NEW revision \in 1 .. MaxRevision,
              \/ TextPreedit(epoch, revision)
              \/ TextCommit(epoch, revision)
              \/ TextCancel(epoch, revision)
       PROVE  \A c \in ClientHandle : Told(c)
  BY <1>13, ToldText
<1>14. CASE \/ PointerAxis
            \/ \E t \in TargetHandle : Stylus(t)
            \/ \E id \in TouchId : TouchMove(id)
            \/ \E k \in Key : KeyRepeat(k)
  BY <1>14, ToldDataSteps
<1>15. ASSUME NEW c \in ClientHandle, ClientDisconnect(c)
       PROVE  \A d \in ClientHandle : Told(d)
  BY <1>15, ToldDisconnect
<1>16. CASE SeatNext
  BY <1>3, <1>4, <1>5, <1>6, <1>7, <1>8, <1>9, <1>10, <1>11, <1>12, <1>13, <1>14, <1>16
     DEF SeatNext
<1> QED
  BY <1>2, <1>8, <1>15, <1>16 DEF Next

\* Whatever a call changes of what a client holds, it queues for that client
\* the events that say so, each meaningful after those before it; so a client
\* that has read its queue knows what it holds.
THEOREM EventsAreComplete == Spec => EventsTellTheState
<1>1. InputInv /\ [Next]_vars => \A c \in ClientHandle : Told(c)
  BY EveryStepTells
<1> QED
  BY <1>1, InputInvariant, PTL DEF Spec, EventsTellTheState, Told

(***************************************************************************)
(* The accessibility trees.                                                *)
(***************************************************************************)
-----------------------------------------------------------------------------
(* The way up from a node.                                                 *)

\* f is the way up from parent, as far as n nodes.
IsWay(f, change, parent, n) ==
  f = [k \in 0 .. n |->
         IF k = 0 THEN parent
         ELSE IF f[k - 1] = NoHandle THEN NoHandle
         ELSE ParentIn(change, f[k - 1])]

LEMMA WayExists ==
  ASSUME NEW change, NEW parent, NEW n \in Nat
  PROVE  \E f : IsWay(f, change, parent, n)
<1> DEFINE Bad == {m \in Nat : ~ \E f : IsWay(f, change, parent, m)}
<1> SUFFICES ASSUME Bad # {}
             PROVE  FALSE
  OBVIOUS
<1> DEFINE m == Lowest(Bad)
<1>1. m \in Bad /\ \A j \in Bad : m <= j
  <2>1. Bad \subseteq Nat
    OBVIOUS
  <2> HIDE DEF Bad
  <2> QED
    BY <2>1, LowestIn
<1>2. m \in Nat /\ ~ \E f : IsWay(f, change, parent, m)
  BY <1>1
<1>3. \A j \in Nat : j < m => \E f : IsWay(f, change, parent, j)
  <2> SUFFICES ASSUME NEW j \in Nat, j < m, j \in Bad
               PROVE  FALSE
    OBVIOUS
  <2>1. m <= j
    BY <1>1
  <2> QED
    BY <1>2, <2>1
<1> HIDE DEF m, Bad
<1>4. m # 0
  <2>1. IsWay([k \in 0 .. 0 |-> parent], change, parent, 0)
    <3>1. \A k \in 0 .. 0 : k = 0
      OBVIOUS
    <3> QED
      BY <3>1 DEF IsWay
  <2> QED
    BY <1>2, <2>1
<1>5. PICK f : IsWay(f, change, parent, m - 1)
  BY <1>2, <1>3, <1>4
<1> DEFINE next == IF f[m - 1] = NoHandle THEN NoHandle ELSE ParentIn(change, f[m - 1])
           g == [k \in 0 .. m |-> IF k = m THEN next ELSE f[k]]
<1>6. \A k \in 0 .. (m - 1) :
        f[k] = IF k = 0 THEN parent
               ELSE IF f[k - 1] = NoHandle THEN NoHandle
               ELSE ParentIn(change, f[k - 1])
  BY <1>5 DEF IsWay
<1>7. \A k \in 0 .. m : /\ k = m \/ k \in 0 .. (m - 1)
                        /\ k # 0 => k - 1 \in 0 .. m /\ k - 1 # m
  BY <1>2, <1>4
<1>8. ASSUME NEW k \in 0 .. m
      PROVE  g[k] = IF k = 0 THEN parent
                    ELSE IF g[k - 1] = NoHandle THEN NoHandle
                    ELSE ParentIn(change, g[k - 1])
  <2>1. k # 0 => g[k - 1] = f[k - 1]
    BY <1>7
  <2>2. CASE k = m
    BY <1>4, <2>1, <2>2
  <2>3. CASE k # m
    <3>1. g[k] = f[k] /\ k \in 0 .. (m - 1)
      BY <1>7, <2>3
    <3> HIDE DEF g
    <3> QED
      BY <1>6, <2>1, <3>1
  <2> QED
    BY <2>2, <2>3
<1>9. IsWay(g, change, parent, m)
  <2>1. g = [k \in 0 .. m |-> g[k]]
    OBVIOUS
  <2> HIDE DEF g
  <2> QED
    BY <1>8, <2>1 DEF IsWay
<1> QED
  BY <1>2, <1>9

LEMMA WayUpSteps ==
  ASSUME NEW change, NEW parent
  PROVE  /\ WayUp(change, parent)[0] = parent
         /\ \A k \in 1 .. MaxDepth :
              WayUp(change, parent)[k]
                = IF WayUp(change, parent)[k - 1] = NoHandle THEN NoHandle
                  ELSE ParentIn(change, WayUp(change, parent)[k - 1])
<1> DEFINE up == WayUp(change, parent)
<1>1. MaxDepth \in Nat
  BY NodeAssumption
<1>2. up = CHOOSE f : IsWay(f, change, parent, MaxDepth)
  BY DEF WayUp, IsWay
<1>3. IsWay(up, change, parent, MaxDepth)
  BY <1>1, <1>2, WayExists
<1> HIDE DEF up
<1>4. \A k \in 0 .. MaxDepth :
        up[k] = IF k = 0 THEN parent
                ELSE IF up[k - 1] = NoHandle THEN NoHandle
                ELSE ParentIn(change, up[k - 1])
  BY <1>3 DEF IsWay
<1>5. up[0] = parent
  BY <1>1, <1>4
<1>6. \A k \in 1 .. MaxDepth : k \in 0 .. MaxDepth /\ k # 0
  BY <1>1
<1> QED
  BY <1>4, <1>5, <1>6 DEF up

\* A parent that passes the check is a node of the tree, and not the node itself.
LEMMA ParentInTree ==
  ASSUME NEW change, NEW c, NEW t, NEW self, NEW parent,
         ChainOk(change, c, t, self, parent), parent # NoHandle
  PROVE  SameTree(c, t, parent) /\ parent # self
<1>1. PICK k \in 0 .. MaxDepth :
        /\ WayUp(change, parent)[k] = NoHandle
        /\ \A j \in 0 .. k - 1 : /\ SameTree(c, t, WayUp(change, parent)[j])
                                 /\ WayUp(change, parent)[j] # self
  BY DEF ChainOk
<1>2. WayUp(change, parent)[0] = parent
  BY WayUpSteps
<1>3. k # 0
  BY <1>1, <1>2
<1>4. 0 \in 0 .. k - 1
  BY <1>3, NodeAssumption
<1> QED
  BY <1>1, <1>2, <1>4

\* A parent that passes the check is in no set of nodes that holds the parents
\* of its members, but for the node itself: the way up leaves it.
LEMMA WayLeaves ==
  ASSUME NEW change, NEW c, NEW t, NEW self, NEW parent \in NodeHandle, NEW S,
         ChainOk(change, c, t, self, parent), parent[1] \in S,
         \A h \in NodeHandle : SameTree(c, t, h) /\ h # self /\ h[1] \in S =>
           ParentIn(change, h) \in NodeHandle /\ ParentIn(change, h)[1] \in S
  PROVE  FALSE
<1> DEFINE up == WayUp(change, parent)
           In(h) == h \in NodeHandle /\ h[1] \in S
<1>1. PICK k \in 0 .. MaxDepth :
        /\ up[k] = NoHandle
        /\ \A j \in 0 .. k - 1 : SameTree(c, t, up[j]) /\ up[j] # self
  BY DEF ChainOk
<1>2. /\ up[0] = parent
      /\ \A j \in 1 .. MaxDepth :
           up[j] = IF up[j - 1] = NoHandle THEN NoHandle ELSE ParentIn(change, up[j - 1])
  BY WayUpSteps
<1>3. NoHandle \notin NodeHandle /\ MaxDepth \in Nat
  BY NodeAssumption, InputAssumption DEF NoHandle, NodeHandle, NodeSlot, Generation
<1> HIDE DEF up
<1> DEFINE Out == {j \in 0 .. k : ~In(up[j])}
<1>4. k \in Out
  BY <1>1, <1>3
<1>5. Out \subseteq Nat /\ Out # {}
  BY <1>4
<1> HIDE DEF Out
<1> DEFINE j == Lowest(Out)
<1>6. j \in Out /\ \A i \in Out : j <= i
  BY <1>5, LowestIn
<1> HIDE DEF j
<1>7. j \in 0 .. k /\ ~In(up[j])
  BY <1>6 DEF Out
<1>8. j # 0
  BY <1>2, <1>7
<1>9. j - 1 \in 0 .. k - 1 /\ j \in 1 .. MaxDepth /\ j - 1 \in 0 .. k
  BY <1>3, <1>7, <1>8
<1>10. In(up[j - 1])
  <2> SUFFICES ASSUME j - 1 \in Out
               PROVE  FALSE
    BY <1>9 DEF Out
  <2>1. j <= j - 1
    BY <1>6
  <2> QED
    BY <1>7, <2>1
<1>11. SameTree(c, t, up[j - 1]) /\ up[j - 1] # self
  BY <1>1, <1>9
<1>12. ParentIn(change, up[j - 1]) \in NodeHandle /\ ParentIn(change, up[j - 1])[1] \in S
  BY <1>10, <1>11
<1>13. up[j] = ParentIn(change, up[j - 1])
  BY <1>2, <1>3, <1>9, <1>10
<1> QED
  BY <1>7, <1>12, <1>13

-----------------------------------------------------------------------------
(* The inductive invariant, as relations of table values, to speak of both  *)
(* sides of a step.                                                        *)

NodeSlotType ==
  [live : BOOLEAN, generation : 0 .. MaxGeneration,
   owner : ClientHandle \cup {NoHandle},
   target : TargetHandle \cup {NoHandle}, data : NodeData]

LiveNodes(N)    == {i \in NodeSlot : N[i].live}
TreeNodes(N, t) == {i \in LiveNodes(N) : N[i].target = t}
Roots(N, t)     == {i \in TreeNodes(N, t) : N[i].data.parent = NoHandle}

InTree(N, c, t, n) == IsLive(N, n) /\ N[n[1]].owner = c /\ N[n[1]].target = t

RefersTo(N, i, n) == n = N[i].data.parent \/ n \in N[i].data.relations

NodeType(N) ==
  /\ N \in [NodeSlot -> NodeSlotType]
  /\ \A i \in LiveNodes(N) : N[i].generation # 0

\* Every node belongs to the owner of a live target.
Homes(T, N) == \A i \in LiveNodes(N) : OwnedIn(T, N[i].owner, N[i].target)

\* Every edge ends in the same tree, and not where it starts.
Edges(N) ==
  \A i \in LiveNodes(N) : \A n \in NodeHandle : RefersTo(N, i, n) =>
    InTree(N, N[i].owner, N[i].target, n) /\ n # <<i, N[i].generation>>

\* Every tree has one root.
Rooted(N) ==
  \A t \in TargetHandle : TreeNodes(N, t) # {} => \E root : Roots(N, t) = {root}

\* No cycle: a parent leads out of every set of nodes that holds no root.
Grounded(N) ==
  \A S \in SUBSET LiveNodes(N) : S # {} =>
    \E i \in S : \/ N[i].data.parent = NoHandle
                 \/ N[i].data.parent[1] \notin S

TreeInv ==
  NodeType(nodes) /\ Homes(targets, nodes) /\ Edges(nodes) /\ Rooted(nodes) /\ Grounded(nodes)

\* Handles of nodes, as HandleParts has it for clients and targets.
LEMMA NodeHandleParts ==
  /\ \A n \in NodeHandle : n[1] \in NodeSlot /\ n[2] \in Generation /\ n = <<n[1], n[2]>>
  /\ NoHandle \notin NodeHandle
  BY InputAssumption DEF NodeHandle, NodeSlot, Generation, NoHandle

LEMMA LiveNode ==
  ASSUME NEW N, NodeType(N)
  PROVE  /\ \A n \in NodeHandle : IsLive(N, n) <=>
              n[1] \in LiveNodes(N) /\ N[n[1]].generation = n[2]
         /\ \A i \in LiveNodes(N) :
              /\ <<i, N[i].generation>> \in NodeHandle /\ IsLive(N, <<i, N[i].generation>>)
              /\ N[i].data.parent \in NodeHandle \cup {NoHandle}
              /\ N[i].data.relations \subseteq NodeHandle
<1>1. \A n \in NodeHandle : IsLive(N, n) <=>
        n[1] \in LiveNodes(N) /\ N[n[1]].generation = n[2]
  BY NodeHandleParts DEF IsLive, LiveNodes
<1>2. ASSUME NEW i \in LiveNodes(N)
      PROVE  /\ <<i, N[i].generation>> \in NodeHandle
             /\ N[i].data.parent \in NodeHandle \cup {NoHandle}
             /\ N[i].data.relations \subseteq NodeHandle
  <2>1. /\ i \in NodeSlot /\ N[i].generation # 0
        /\ N[i].generation \in 0 .. MaxGeneration /\ N[i].data \in NodeData
    BY DEF LiveNodes, NodeType, NodeSlotType
  <2>2. N[i].generation \in Generation
    BY <2>1, InputAssumption DEF Generation
  <2> QED
    BY <2>1, <2>2 DEF NodeHandle, NodeData
<1>3. \A i \in LiveNodes(N) : IsLive(N, <<i, N[i].generation>>)
  BY <1>1, <1>2
<1> QED
  BY <1>1, <1>2, <1>3

\* One root, counted, is one root.
LEMMA OneRootIs ==
  ASSUME NEW change, NEW t
  PROVE  OneRoot(change, t) <=> \E root : RootsIn(change, t) = {root}
<1>1. IsFiniteSet(RootsIn(change, t))
  <2>1. IsFiniteSet(NodeSlot)
    BY NodeAssumption, FS_Interval DEF NodeSlot
  <2>2. RootsIn(change, t) \subseteq NodeSlot
    BY DEF RootsIn, NodesOf
  <2> QED
    BY <2>1, <2>2, FS_Subset
<1> QED
  BY <1>1, FS_Singleton DEF OneRoot

LEMMA RootsAsIs ==
  /\ \A t : NodesOf(t) = TreeNodes(nodes, t) /\ RootsIn(Unchanged, t) = Roots(nodes, t)
  /\ \A n : ParentIn(Unchanged, n) = nodes[n[1]].data.parent
<1>1. \A n : ParentIn(Unchanged, n) = nodes[n[1]].data.parent
  BY DEF ParentIn, Unchanged
<1> QED
  BY <1>1 DEF RootsIn, Handle, NodesOf, Roots, TreeNodes, LiveNodes

\* What the invariant says of edges and trees.
LEMMA TreeInvMeans ==
  ASSUME InputInv, TreeInv
  PROVE  EdgesInside /\ OneRootedTree
<1>1. /\ NodeType(nodes) /\ Homes(targets, nodes) /\ Edges(nodes) /\ Rooted(nodes)
      /\ Grounded(nodes) /\ TableInv
  BY DEF TreeInv, InputInv
<1>2. EdgesInside
  <2>1. TreeTypeOK
    BY <1>1 DEF NodeType, NodeSlotType, TreeTypeOK
  <2>2. ASSUME NEW i \in NodeSlot, nodes[i].live
        PROVE  /\ ClientOk(nodes[i].owner)
               /\ Owned(nodes[i].owner, nodes[i].target)
               /\ \A n \in ({nodes[i].data.parent} \cup nodes[i].data.relations)
                             \ {NoHandle} :
                    SameTree(nodes[i].owner, nodes[i].target, n) /\ n # Handle(i)
    <3>1. i \in LiveNodes(nodes)
      BY <2>2 DEF LiveNodes
    <3>2. Owned(nodes[i].owner, nodes[i].target)
      BY <1>1, <3>1 DEF Homes, OwnedIn, Owned, TargetOk, Owner
    <3>3. nodes[i].target \in TargetHandle
      BY <1>1, <3>2, LiveHandle DEF NodeType, NodeSlotType
    <3>4. ClientOk(nodes[i].owner)
      BY <1>1, <3>2, <3>3, LiveHandle DEF Owned
    <3>5. \A n \in NodeHandle : RefersTo(nodes, i, n) =>
            InTree(nodes, nodes[i].owner, nodes[i].target, n) /\ n # <<i, nodes[i].generation>>
      BY <1>1, <3>1 DEF Edges
    <3>6. /\ nodes[i].data.parent \in NodeHandle \cup {NoHandle}
          /\ nodes[i].data.relations \subseteq NodeHandle
      BY <1>1, <3>1, LiveNode
    <3> QED
      BY <3>2, <3>4, <3>5, <3>6 DEF RefersTo, InTree, SameTree, OwnedNode, NodeOk, Handle
  <2> QED
    BY <2>1, <2>2 DEF EdgesInside
<1>3. ASSUME NEW t \in TargetHandle, NodesOf(t) # {}
      PROVE  \E root \in NodesOf(t) :
               /\ nodes[root].data.parent = NoHandle
               /\ \A S \in (SUBSET NodesOf(t)) \ {{}} :
                    (\A i \in S : nodes[i].data.parent # NoHandle =>
                                    nodes[i].data.parent[1] \in S) => root \in S
  <2>1. NodesOf(t) = TreeNodes(nodes, t)
    BY RootsAsIs
  <2>2. PICK root : Roots(nodes, t) = {root}
    BY <1>1, <1>3, <2>1 DEF Rooted
  <2>3. root \in NodesOf(t) /\ nodes[root].data.parent = NoHandle
    BY <2>1, <2>2 DEF Roots
  <2>4. ASSUME NEW S \in (SUBSET NodesOf(t)) \ {{}},
               \A i \in S : nodes[i].data.parent # NoHandle => nodes[i].data.parent[1] \in S
        PROVE  root \in S
    <3>1. S \subseteq TreeNodes(nodes, t) /\ S \subseteq LiveNodes(nodes) /\ S # {}
      BY <2>1 DEF TreeNodes
    <3>2. PICK i \in S : \/ nodes[i].data.parent = NoHandle
                         \/ nodes[i].data.parent[1] \notin S
      BY <1>1, <3>1 DEF Grounded
    <3>3. i \in Roots(nodes, t)
      BY <2>4, <3>1, <3>2 DEF Roots
    <3> QED
      BY <2>2, <3>3
  <2> QED
    BY <2>3, <2>4
<1>4. OneRootedTree
  BY <1>3 DEF OneRootedTree
<1> QED
  BY <1>2, <1>4

-----------------------------------------------------------------------------
(* Steps that change nodes.                                                *)

\* The nodes D get new data whose edges are as they should be, the trees they
\* are in have one root, and no set of nodes closes over one of them.
LEMMA SetDataStep ==
  ASSUME TreeInv, NEW D \in SUBSET LiveNodes(nodes), UNCHANGED targets,
         nodes' = [i \in NodeSlot |-> nodes'[i]],
         \A i \in NodeSlot \ D : nodes'[i] = nodes[i],
         \A i \in D : \E data \in NodeData : nodes'[i] = [nodes[i] EXCEPT !.data = data],
         \A i \in D : \A n \in NodeHandle : RefersTo(nodes', i, n) =>
           /\ InTree(nodes, nodes[i].owner, nodes[i].target, n)
           /\ n # <<i, nodes[i].generation>>,
         \A i \in D : \E root : Roots(nodes', nodes[i].target) = {root},
         \A S \in SUBSET LiveNodes(nodes) : \A i \in D \cap S :
           ~ \A j \in S : nodes'[j].data.parent \in NodeHandle /\ nodes'[j].data.parent[1] \in S
  PROVE  TreeInv'
<1>1. NodeType(nodes) /\ Homes(targets, nodes) /\ Edges(nodes) /\ Rooted(nodes) /\ Grounded(nodes)
  BY DEF TreeInv
<1>2. /\ \A i \in NodeSlot : /\ nodes'[i] \in NodeSlotType
                             /\ nodes'[i].live = nodes[i].live
                             /\ nodes'[i].generation = nodes[i].generation
                             /\ nodes'[i].owner = nodes[i].owner
                             /\ nodes'[i].target = nodes[i].target
      /\ \A i \in NodeSlot \ D : nodes'[i].data = nodes[i].data
  <2>1. \A i \in NodeSlot : nodes[i] \in NodeSlotType
    BY <1>1 DEF NodeType
  <2>2. ASSUME NEW i \in D
        PROVE  /\ nodes'[i] \in NodeSlotType
               /\ nodes'[i].live = nodes[i].live
               /\ nodes'[i].generation = nodes[i].generation
               /\ nodes'[i].owner = nodes[i].owner
               /\ nodes'[i].target = nodes[i].target
    <3>1. PICK data \in NodeData : nodes'[i] = [nodes[i] EXCEPT !.data = data]
      OBVIOUS
    <3>2. nodes[i] \in NodeSlotType
      BY <2>1 DEF LiveNodes
    <3> QED
      BY <3>1, <3>2 DEF NodeSlotType
  <2>3. \A i \in NodeSlot \ D : nodes'[i] = nodes[i]
    OBVIOUS
  <2> QED
    BY <2>1, <2>2, <2>3
<1>3. LiveNodes(nodes') = LiveNodes(nodes)
  BY <1>2 DEF LiveNodes
<1>4. NodeType(nodes')
  <2>1. nodes' \in [NodeSlot -> NodeSlotType]
    BY <1>2
  <2>2. \A i \in LiveNodes(nodes) : nodes'[i].generation # 0
    BY <1>1, <1>2 DEF NodeType, LiveNodes
  <2> QED
    BY <1>3, <2>1, <2>2 DEF NodeType
<1>5. Homes(targets', nodes')
  BY <1>1, <1>2, <1>3 DEF Homes, LiveNodes
<1>6. \A n \in NodeHandle : \A c, t : InTree(nodes', c, t, n) <=> InTree(nodes, c, t, n)
  BY <1>2, NodeHandleParts DEF InTree, IsLive
<1>7. Edges(nodes')
  <2> SUFFICES ASSUME NEW i \in LiveNodes(nodes), NEW n \in NodeHandle, RefersTo(nodes', i, n)
               PROVE  /\ InTree(nodes, nodes[i].owner, nodes[i].target, n)
                      /\ n # <<i, nodes[i].generation>>
    BY <1>2, <1>3, <1>6 DEF Edges, LiveNodes
  <2>1. CASE i \in D
    BY <2>1
  <2>2. CASE i \notin D
    <3>1. RefersTo(nodes, i, n)
      BY <2>2 DEF RefersTo, LiveNodes
    <3> QED
      BY <1>1, <3>1 DEF Edges
  <2> QED
    BY <2>1, <2>2
<1>8. Rooted(nodes')
  <2> SUFFICES ASSUME NEW t \in TargetHandle, TreeNodes(nodes', t) # {}
               PROVE  \E root : Roots(nodes', t) = {root}
    BY DEF Rooted
  <2>1. TreeNodes(nodes', t) = TreeNodes(nodes, t)
    BY <1>2, <1>3 DEF TreeNodes, LiveNodes
  <2>2. CASE \E i \in D : nodes[i].target = t
    BY <2>2
  <2>3. CASE \A i \in D : nodes[i].target # t
    <3>1. \A i \in TreeNodes(nodes, t) : nodes'[i].data = nodes[i].data
      BY <1>2, <2>3 DEF TreeNodes, LiveNodes
    <3>2. Roots(nodes', t) = Roots(nodes, t)
      BY <2>1, <3>1 DEF Roots
    <3> QED
      BY <1>1, <2>1, <3>2 DEF Rooted
  <2> QED
    BY <2>2, <2>3
<1>9. Grounded(nodes')
  <2> SUFFICES ASSUME NEW S \in SUBSET LiveNodes(nodes), S # {},
                      \A i \in S : /\ nodes'[i].data.parent # NoHandle
                                   /\ nodes'[i].data.parent[1] \in S
               PROVE  FALSE
    BY <1>3 DEF Grounded
  <2>1. \A i \in S : nodes'[i].data.parent \in NodeHandle
    BY <1>3, <1>4, LiveNode
  <2>2. D \cap S = {}
    BY <2>1
  <2>3. \A i \in S : nodes'[i].data = nodes[i].data
    BY <1>2, <2>2 DEF LiveNodes
  <2> QED
    BY <1>1, <2>3 DEF Grounded
<1> QED
  BY <1>4, <1>5, <1>7, <1>8, <1>9 DEF TreeInv

\* Data that passes the checks for node self of tree (c, t).
LEMMA DataIsOk ==
  ASSUME NEW c, NEW t, NEW self, NEW data \in NodeData, DataOk(c, t, self, data)
  PROVE  /\ data.parent \in NodeHandle \cup {NoHandle}
         /\ data.parent # NoHandle => InTree(nodes, c, t, data.parent) /\ data.parent # self
         /\ \A n \in data.relations : InTree(nodes, c, t, n) /\ n # self
<1>1. /\ ChainOk(Unchanged, c, t, self, data.parent)
      /\ \A r \in data.relations : SameTree(c, t, r) /\ r # self
  BY DEF DataOk
<1>2. data.parent # NoHandle => SameTree(c, t, data.parent) /\ data.parent # self
  BY <1>1, ParentInTree
<1>3. data.parent \in NodeHandle \cup {NoHandle}
  BY DEF NodeData
<1> QED
  BY <1>1, <1>2, <1>3 DEF SameTree, OwnedNode, NodeOk, InTree

\* A node of the owner's: its slot and its handle.
LEMMA AboutNode ==
  ASSUME TreeInv, NEW c, NEW n \in NodeHandle, OwnedNode(c, n)
  PROVE  /\ n[1] \in LiveNodes(nodes) /\ nodes[n[1]].generation = n[2]
         /\ n = <<n[1], nodes[n[1]].generation>>
         /\ nodes[n[1]].owner = c
  BY NodeHandleParts, LiveNode DEF TreeInv, OwnedNode, NodeOk

LEMMA NodeUpdateStep ==
  ASSUME TreeInv, NEW c \in ClientHandle, NEW n \in NodeHandle, NEW data \in NodeData,
         NodeUpdate(c, n, data)
  PROVE  TreeInv'
<1> DEFINE i == n[1]
           t == nodes[i].target
           change == [m \in {n} |-> data]
<1>1. /\ OwnedNode(c, n) /\ DataOk(c, t, n, data) /\ OneRoot(change, t)
      /\ nodes' = [nodes EXCEPT ![i].data = data]
      /\ UNCHANGED targets
  BY DEF NodeUpdate, vars
<1>2. /\ i \in LiveNodes(nodes) /\ n = <<i, nodes[i].generation>> /\ nodes[i].owner = c
      /\ i \in NodeSlot /\ nodes \in [NodeSlot -> NodeSlotType]
  BY <1>1, AboutNode DEF LiveNodes, TreeInv, NodeType
<1>3. /\ nodes' = [j \in NodeSlot |-> nodes'[j]]
      /\ \A j \in NodeSlot \ {i} : nodes'[j] = nodes[j]
      /\ nodes'[i] = [nodes[i] EXCEPT !.data = data]
  BY <1>1, <1>2
<1>4. /\ nodes'[i].data = data /\ nodes'[i].live /\ nodes'[i].target = t
      /\ nodes'[i].generation = nodes[i].generation
  BY <1>2, <1>3 DEF NodeSlotType, LiveNodes
<1> HIDE DEF i
<1>5. \A m \in NodeHandle : RefersTo(nodes', i, m) =>
        InTree(nodes, nodes[i].owner, nodes[i].target, m) /\ m # <<i, nodes[i].generation>>
  BY <1>1, <1>2, <1>4, DataIsOk, NodeHandleParts DEF RefersTo
<1>6. \A j \in LiveNodes(nodes) : ParentIn(change, <<j, nodes[j].generation>>)
                                    = nodes'[j].data.parent
  <2> SUFFICES ASSUME NEW j \in LiveNodes(nodes)
               PROVE  ParentIn(change, <<j, nodes[j].generation>>) = nodes'[j].data.parent
    OBVIOUS
  <2>1. CASE j = i
    BY <1>2, <1>4, <2>1 DEF ParentIn
  <2>2. CASE j # i
    <3>1. <<j, nodes[j].generation>> # n
      BY <1>2, <2>2
    <3>2. nodes'[j] = nodes[j]
      BY <1>3, <2>2 DEF LiveNodes
    <3> QED
      BY <3>1, <3>2 DEF ParentIn
  <2> QED
    BY <2>1, <2>2
<1>7. TreeNodes(nodes', t) = NodesOf(t)
  <2>1. \A j \in NodeSlot : nodes'[j].live = nodes[j].live /\ nodes'[j].target = nodes[j].target
    BY <1>2, <1>3, <1>4 DEF LiveNodes
  <2> QED
    BY <2>1 DEF TreeNodes, LiveNodes, NodesOf
<1>8. Roots(nodes', t) = RootsIn(change, t)
  BY <1>6, <1>7 DEF Roots, RootsIn, NodesOf, Handle, LiveNodes
<1>9. \E root : Roots(nodes', t) = {root}
  BY <1>1, <1>8, OneRootIs
<1>10. ASSUME NEW S \in SUBSET LiveNodes(nodes), i \in S,
              \A j \in S : nodes'[j].data.parent \in NodeHandle /\ nodes'[j].data.parent[1] \in S
       PROVE  FALSE
  <2>1. data.parent \in NodeHandle /\ data.parent[1] \in S
    BY <1>4, <1>10
  <2>2. ASSUME NEW h \in NodeHandle, SameTree(c, t, h), h # n, h[1] \in S
        PROVE  /\ ParentIn(Unchanged, h) \in NodeHandle
               /\ ParentIn(Unchanged, h)[1] \in S
    <3>1. h = <<h[1], nodes[h[1]].generation>> /\ h[1] \in NodeSlot
      BY <2>2, AboutNode DEF SameTree, LiveNodes
    <3>2. h[1] # i
      BY <1>2, <2>2, <3>1
    <3>3. nodes'[h[1]] = nodes[h[1]]
      BY <1>3, <3>1, <3>2
    <3> QED
      BY <1>10, <2>2, <3>3, RootsAsIs
  <2>3. ChainOk(Unchanged, c, t, n, data.parent)
    BY <1>1 DEF DataOk
  <2> QED
    BY <2>1, <2>2, <2>3, WayLeaves
<1>11. {i} \in SUBSET LiveNodes(nodes)
  BY <1>2
<1>12. /\ \A j \in {i} : \E d \in NodeData : nodes'[j] = [nodes[j] EXCEPT !.data = d]
       /\ \A j \in {i} : \E root : Roots(nodes', nodes[j].target) = {root}
       /\ \A j \in {i} : \A m \in NodeHandle : RefersTo(nodes', j, m) =>
            InTree(nodes, nodes[j].owner, nodes[j].target, m) /\ m # <<j, nodes[j].generation>>
       /\ \A S \in SUBSET LiveNodes(nodes) : \A j \in {i} \cap S :
            ~ \A k \in S : nodes'[k].data.parent \in NodeHandle /\ nodes'[k].data.parent[1] \in S
  BY <1>3, <1>5, <1>9, <1>10
<1> QED
  BY <1>1, <1>3, <1>11, <1>12, SetDataStep

LEMMA NodesUpdateStep ==
  ASSUME TreeInv, NEW c \in ClientHandle, NEW U \in SUBSET NodeHandle,
         NodesUpdateAtomic(c, U)
  PROVE  TreeInv'
<1>1. PICK change \in Changes(c, U) :
        /\ \A n \in U : ChainOk(change, c, nodes[n[1]].target, n, change[n].parent)
        /\ \A n \in U : OneRoot(change, nodes[n[1]].target)
        /\ nodes' = [i \in NodeSlot |->
                       IF nodes[i].live /\ Handle(i) \in U
                       THEN [nodes[i] EXCEPT !.data = change[Handle(i)]]
                       ELSE nodes[i]]
  BY DEF NodesUpdateAtomic
<1>2. (\A n \in U : OwnedNode(c, n)) /\ UNCHANGED targets
  BY DEF NodesUpdateAtomic, vars
<1>3. /\ DOMAIN change = U
      /\ \A n \in U : change[n] \in NodeData /\ DataOk(c, nodes[n[1]].target, n, change[n])
  BY <1>1 DEF Changes
<1> DEFINE D == {i \in LiveNodes(nodes) : Handle(i) \in U}
<1>4. nodes \in [NodeSlot -> NodeSlotType]
  BY DEF TreeInv, NodeType
<1>5. /\ nodes' = [i \in NodeSlot |-> nodes'[i]]
      /\ \A i \in NodeSlot \ D : nodes'[i] = nodes[i]
      /\ \A i \in D : nodes'[i] = [nodes[i] EXCEPT !.data = change[Handle(i)]]
  BY <1>1 DEF LiveNodes
<1>6. /\ \A i \in NodeSlot : nodes'[i].live = nodes[i].live /\ nodes'[i].target = nodes[i].target
      /\ \A i \in D : nodes'[i].data = change[Handle(i)]
  BY <1>4, <1>5 DEF NodeSlotType, LiveNodes
<1>7. \A n \in U : /\ n[1] \in D /\ n = Handle(n[1])
                   /\ nodes[n[1]].owner = c
  BY <1>2, AboutNode DEF Handle
<1>8. \A i \in D : /\ Handle(i) \in U /\ Handle(i)[1] = i /\ Handle(i) = <<i, nodes[i].generation>>
                   /\ nodes[i].owner = c
  BY <1>7 DEF Handle
<1>9. \A i \in D : change[Handle(i)] \in NodeData /\ D \in SUBSET LiveNodes(nodes)
  BY <1>3, <1>8
<1>10. ASSUME NEW i \in D, NEW n \in NodeHandle, RefersTo(nodes', i, n)
       PROVE  /\ InTree(nodes, nodes[i].owner, nodes[i].target, n)
              /\ n # <<i, nodes[i].generation>>
  <2>1. /\ change[Handle(i)] \in NodeData
        /\ DataOk(c, nodes[i].target, Handle(i), change[Handle(i)])
    BY <1>3, <1>8
  <2>2. n = change[Handle(i)].parent \/ n \in change[Handle(i)].relations
    BY <1>6, <1>10 DEF RefersTo
  <2>3. InTree(nodes, c, nodes[i].target, n) /\ n # Handle(i)
    BY <2>1, <2>2, DataIsOk, NodeHandleParts
  <2> QED
    BY <1>8, <2>3
<1> HIDE DEF D
<1>11. \A i \in LiveNodes(nodes) : ParentIn(change, Handle(i)) = nodes'[i].data.parent
  <2> SUFFICES ASSUME NEW i \in LiveNodes(nodes)
               PROVE  ParentIn(change, Handle(i)) = nodes'[i].data.parent
    OBVIOUS
  <2>1. CASE i \in D
    BY <1>3, <1>6, <1>8, <2>1 DEF ParentIn
  <2>2. CASE i \notin D
    <3>1. Handle(i) \notin U /\ Handle(i)[1] = i
      BY <2>2 DEF D, Handle
    <3>2. nodes'[i] = nodes[i]
      BY <1>5, <2>2 DEF LiveNodes
    <3> QED
      BY <1>3, <3>1, <3>2 DEF ParentIn
  <2> QED
    BY <2>1, <2>2
<1>12. \A t : Roots(nodes', t) = RootsIn(change, t)
  <2>1. \A t : TreeNodes(nodes', t) = NodesOf(t)
    BY <1>6 DEF TreeNodes, LiveNodes, NodesOf
  <2> QED
    BY <1>11, <2>1 DEF Roots, RootsIn, NodesOf, LiveNodes
<1>13. ASSUME NEW i \in D
       PROVE  \E root : Roots(nodes', nodes[i].target) = {root}
  <2>1. OneRoot(change, nodes[i].target)
    BY <1>1, <1>8
  <2> QED
    BY <1>12, <2>1, OneRootIs
<1>14. ASSUME NEW S \in SUBSET LiveNodes(nodes), NEW i \in D \cap S,
              \A j \in S : nodes'[j].data.parent \in NodeHandle /\ nodes'[j].data.parent[1] \in S
       PROVE  FALSE
  <2> DEFINE n == Handle(i)
             t == nodes[i].target
  <2>1. /\ change[n].parent \in NodeHandle /\ change[n].parent[1] \in S
        /\ ChainOk(change, c, t, n, change[n].parent)
    BY <1>1, <1>6, <1>8, <1>14
  <2>2. ASSUME NEW h \in NodeHandle, SameTree(c, t, h), h # n, h[1] \in S
        PROVE  /\ ParentIn(change, h) \in NodeHandle
               /\ ParentIn(change, h)[1] \in S
    <3>1. h = Handle(h[1]) /\ h[1] \in LiveNodes(nodes)
      BY <2>2, AboutNode DEF SameTree, Handle
    <3>2. ParentIn(change, h) = nodes'[h[1]].data.parent
      BY <1>11, <3>1
    <3> QED
      BY <1>14, <2>2, <3>2
  <2> HIDE DEF n, t
  <2> QED
    BY <2>1, <2>2, WayLeaves
<1>15. \A i \in D : \E data \in NodeData : nodes'[i] = [nodes[i] EXCEPT !.data = data]
  BY <1>5, <1>9
<1>16. D \in SUBSET LiveNodes(nodes)
  BY DEF D
<1>17. \A S \in SUBSET LiveNodes(nodes) : \A i \in D \cap S :
         ~ \A j \in S : nodes'[j].data.parent \in NodeHandle /\ nodes'[j].data.parent[1] \in S
  BY <1>14
<1> QED
  BY <1>2, <1>5, <1>10, <1>13, <1>15, <1>16, <1>17, SetDataStep

LEMMA NodeCreateStep ==
  ASSUME TreeInv, NEW c \in ClientHandle, NEW t \in TargetHandle, NEW data \in NodeData,
         NodeCreate(c, t, data)
  PROVE  TreeInv'
<1> DEFINE i == Lowest(Allocatable(nodes))
<1>1. /\ nodes \in [NodeSlot -> NodeSlotType] /\ NodeType(nodes) /\ Homes(targets, nodes)
      /\ Edges(nodes) /\ Rooted(nodes) /\ Grounded(nodes)
  BY DEF TreeInv, NodeType
<1>2. /\ Owned(c, t) /\ DataOk(c, t, NoHandle, data) /\ UNCHANGED targets
      /\ IF NodesOf(t) = {} THEN data.parent = NoHandle
         ELSE data.parent # NoHandle
      /\ nodes' = [nodes EXCEPT ![i].live = TRUE, ![i].owner = c, ![i].target = t,
                                ![i].data = data]
  BY DEF NodeCreate, vars
<1>3. i \in NodeSlot /\ ~nodes[i].live /\ nodes[i].generation # 0
  <2>1. Allocatable(nodes) # {} /\ NodeCapacity \in Nat
    BY NodeAssumption DEF NodeCreate
  <2> QED
    BY <1>1, <2>1, AllocatableIn DEF NodeSlot
<1> HIDE DEF i
<1>4. /\ nodes' \in [NodeSlot -> NodeSlotType]
      /\ nodes'[i].live /\ nodes'[i].generation = nodes[i].generation
      /\ nodes'[i].owner = c /\ nodes'[i].target = t /\ nodes'[i].data = data
      /\ \A j \in NodeSlot \ {i} : nodes'[j] = nodes[j]
  BY <1>1, <1>2, <1>3 DEF NodeSlotType
<1>5. LiveNodes(nodes') = LiveNodes(nodes) \cup {i} /\ i \notin LiveNodes(nodes)
  BY <1>3, <1>4 DEF LiveNodes
<1>6. NodeType(nodes')
  BY <1>1, <1>3, <1>4, <1>5 DEF NodeType, LiveNodes
<1>7. Homes(targets', nodes')
  <2>1. OwnedIn(targets, c, t)
    BY <1>2 DEF Owned, OwnedIn, TargetOk, Owner
  <2> QED
    BY <1>1, <1>2, <1>3, <1>4, <1>5, <2>1 DEF Homes, LiveNodes
<1>8. ASSUME NEW d, NEW u, NEW n \in NodeHandle, InTree(nodes, d, u, n)
      PROVE  /\ InTree(nodes', d, u, n)
             /\ n[1] \in LiveNodes(nodes) /\ n[1] # i
  <2>1. n[1] \in LiveNodes(nodes)
    BY <1>1, <1>8, LiveNode DEF InTree
  <2>2. nodes'[n[1]] = nodes[n[1]]
    BY <1>4, <1>5, <2>1 DEF LiveNodes
  <2> QED
    BY <1>5, <1>8, <2>1, <2>2 DEF InTree, IsLive
<1>9. \A n \in NodeHandle : RefersTo(nodes', i, n) => InTree(nodes, c, t, n)
  BY <1>2, <1>4, DataIsOk, NodeHandleParts DEF RefersTo
<1>10. Edges(nodes')
  <2> SUFFICES ASSUME NEW j \in LiveNodes(nodes'), NEW n \in NodeHandle,
                      RefersTo(nodes', j, n)
               PROVE  /\ InTree(nodes', nodes'[j].owner, nodes'[j].target, n)
                      /\ n # <<j, nodes'[j].generation>>
    BY DEF Edges
  <2>1. CASE j = i
    <3>1. InTree(nodes, c, t, n)
      BY <1>9, <2>1
    <3>2. InTree(nodes', c, t, n) /\ n[1] # i
      BY <1>8, <3>1
    <3> QED
      BY <1>4, <2>1, <3>2
  <2>2. CASE j # i
    <3>1. j \in LiveNodes(nodes) /\ nodes'[j] = nodes[j]
      BY <1>4, <1>5, <2>2 DEF LiveNodes
    <3>2. RefersTo(nodes, j, n)
      BY <3>1 DEF RefersTo
    <3>3. InTree(nodes, nodes[j].owner, nodes[j].target, n) /\ n # <<j, nodes[j].generation>>
      BY <1>1, <3>1, <3>2 DEF Edges
    <3> QED
      BY <1>8, <3>1, <3>3
  <2> QED
    BY <2>1, <2>2
<1>11. Rooted(nodes')
  <2> SUFFICES ASSUME NEW u \in TargetHandle, TreeNodes(nodes', u) # {}
               PROVE  \E root : Roots(nodes', u) = {root}
    BY DEF Rooted
  <2>1. \A j \in LiveNodes(nodes) : nodes'[j] = nodes[j]
    BY <1>4, <1>5 DEF LiveNodes
  <2>2. CASE u # t
    <3>1. TreeNodes(nodes', u) = TreeNodes(nodes, u)
      BY <1>4, <1>5, <2>1, <2>2 DEF TreeNodes
    <3>2. Roots(nodes', u) = Roots(nodes, u)
      BY <2>1, <3>1 DEF Roots, TreeNodes
    <3> QED
      BY <1>1, <3>1, <3>2 DEF Rooted
  <2>3. CASE u = t /\ NodesOf(t) = {}
    <3>1. TreeNodes(nodes, t) = {}
      BY <2>3, RootsAsIs
    <3>2. TreeNodes(nodes', t) = {i}
      BY <1>4, <1>5, <2>1, <3>1 DEF TreeNodes
    <3>3. Roots(nodes', t) = {i}
      BY <1>2, <1>4, <2>3, <3>2 DEF Roots
    <3> QED
      BY <2>3, <3>3
  <2>4. CASE u = t /\ NodesOf(t) # {}
    <3>1. TreeNodes(nodes, t) # {}
      BY <2>4, RootsAsIs
    <3>2. TreeNodes(nodes', t) = TreeNodes(nodes, t) \cup {i}
      BY <1>4, <1>5, <2>1 DEF TreeNodes
    <3>3. Roots(nodes', t) = Roots(nodes, t)
      BY <1>2, <1>4, <2>1, <2>4, <3>2 DEF Roots, TreeNodes
    <3> QED
      BY <1>1, <2>4, <3>1, <3>3 DEF Rooted
  <2> QED
    BY <2>2, <2>3, <2>4
<1>12. Grounded(nodes')
  <2> SUFFICES ASSUME NEW S \in SUBSET LiveNodes(nodes'), S # {}
               PROVE  \E j \in S : \/ nodes'[j].data.parent = NoHandle
                                   \/ nodes'[j].data.parent[1] \notin S
    BY DEF Grounded
  <2> DEFINE R == S \ {i}
  <2>1. R \in SUBSET LiveNodes(nodes) /\ \A j \in R : nodes'[j] = nodes[j]
    BY <1>4, <1>5 DEF LiveNodes
  <2>2. CASE R = {}
    <3>1. S = {i}
      BY <2>2
    <3>2. data.parent \in NodeHandle \cup {NoHandle}
      BY DEF NodeData
    <3>3. data.parent # NoHandle => data.parent[1] # i
      BY <1>2, <1>8, <3>2, DataIsOk
    <3> QED
      BY <1>4, <3>1, <3>3
  <2>3. CASE R # {}
    <3>1. PICK j \in R : nodes[j].data.parent = NoHandle \/ nodes[j].data.parent[1] \notin R
      BY <1>1, <2>1, <2>3 DEF Grounded
    <3>2. j \in LiveNodes(nodes) /\ nodes'[j] = nodes[j]
      BY <2>1
    <3>3. nodes[j].data.parent # NoHandle => nodes[j].data.parent[1] # i
      <4>1. nodes[j].data.parent \in NodeHandle \cup {NoHandle}
        BY <1>1, <3>2, LiveNode
      <4>2. nodes[j].data.parent # NoHandle =>
              InTree(nodes, nodes[j].owner, nodes[j].target, nodes[j].data.parent)
        BY <1>1, <3>2, <4>1 DEF Edges, RefersTo
      <4> QED
        BY <1>8, <4>1, <4>2
    <3> QED
      BY <3>1, <3>2, <3>3
  <2> QED
    BY <2>2, <2>3
<1> QED
  BY <1>6, <1>7, <1>10, <1>11, <1>12 DEF TreeInv

\* The nodes G go: no node that stays refers to them, and of every tree either
\* all nodes go or the root stays.
LEMMA NodesGoStep ==
  ASSUME TreeInv, NEW G \in SUBSET LiveNodes(nodes),
         NodeType(nodes'),
         \A i \in G : ~nodes'[i].live,
         \A i \in NodeSlot \ G : nodes'[i] = nodes[i],
         Homes(targets', nodes'),
         \A i \in LiveNodes(nodes) \ G : \A n \in NodeHandle :
           RefersTo(nodes, i, n) => n[1] \notin G,
         \A t \in TargetHandle : \/ TreeNodes(nodes, t) \subseteq G
                                 \/ Roots(nodes, t) \cap G = {}
  PROVE  TreeInv'
<1>1. /\ nodes \in [NodeSlot -> NodeSlotType] /\ NodeType(nodes) /\ Homes(targets, nodes)
      /\ Edges(nodes) /\ Rooted(nodes) /\ Grounded(nodes)
  BY DEF TreeInv, NodeType
<1>2. /\ LiveNodes(nodes') = LiveNodes(nodes) \ G
      /\ \A i \in LiveNodes(nodes) \ G : nodes'[i] = nodes[i]
  BY DEF LiveNodes
<1>3. Edges(nodes')
  <2> SUFFICES ASSUME NEW j \in LiveNodes(nodes) \ G, NEW n \in NodeHandle,
                      RefersTo(nodes, j, n)
               PROVE  /\ InTree(nodes', nodes[j].owner, nodes[j].target, n)
                      /\ n # <<j, nodes[j].generation>>
    BY <1>2 DEF Edges, RefersTo
  <2>1. InTree(nodes, nodes[j].owner, nodes[j].target, n) /\ n # <<j, nodes[j].generation>>
    BY <1>1 DEF Edges
  <2>2. n[1] \in LiveNodes(nodes) \ G
    BY <1>1, <2>1, LiveNode DEF InTree
  <2> QED
    BY <1>2, <2>1, <2>2 DEF InTree, IsLive
<1>4. Rooted(nodes')
  <2> SUFFICES ASSUME NEW t \in TargetHandle, TreeNodes(nodes', t) # {}
               PROVE  \E root : Roots(nodes', t) = {root}
    BY DEF Rooted
  <2>1. TreeNodes(nodes', t) = TreeNodes(nodes, t) \ G
    BY <1>2 DEF TreeNodes
  <2>2. Roots(nodes, t) \cap G = {} /\ TreeNodes(nodes, t) # {}
    BY <2>1
  <2>3. Roots(nodes', t) = Roots(nodes, t)
    BY <1>2, <2>1, <2>2 DEF Roots, TreeNodes
  <2> QED
    BY <1>1, <2>2, <2>3 DEF Rooted
<1>5. Grounded(nodes')
  <2> SUFFICES ASSUME NEW S \in SUBSET (LiveNodes(nodes) \ G), S # {}
               PROVE  \E j \in S : \/ nodes'[j].data.parent = NoHandle
                                   \/ nodes'[j].data.parent[1] \notin S
    BY <1>2 DEF Grounded
  <2>1. PICK j \in S : nodes[j].data.parent = NoHandle \/ nodes[j].data.parent[1] \notin S
    BY <1>1 DEF Grounded
  <2> QED
    BY <1>2, <2>1
<1> QED
  BY <1>3, <1>4, <1>5 DEF TreeInv

\* What is left of a node that goes.
LEMMA DeadNodeType ==
  ASSUME NEW g \in Generation
  PROVE  DeadNode(NextGeneration(g)) \in NodeSlotType /\ ~DeadNode(NextGeneration(g)).live
<1>1. NextGeneration(g) \in 0 .. MaxGeneration
  BY NextGenerationType, InputAssumption DEF Generation
<1>2. NoData \in NodeData
  <2>1. Cardinality({}) <= MaxRelations
    BY FS_EmptySet, NodeAssumption
  <2> QED
    BY <2>1 DEF NoData, NodeData
<1> QED
  BY <1>1, <1>2 DEF DeadNode, NodeSlotType

LEMMA NodeDestroyStep ==
  ASSUME TreeInv, NEW c \in ClientHandle, NEW n \in NodeHandle, NodeDestroy(c, n)
  PROVE  TreeInv'
<1> DEFINE i == n[1]
<1>1. /\ nodes \in [NodeSlot -> NodeSlotType] /\ NodeType(nodes) /\ Homes(targets, nodes)
      /\ Edges(nodes) /\ Rooted(nodes) /\ Grounded(nodes)
  BY DEF TreeInv, NodeType
<1>2. /\ OwnedNode(c, n) /\ UNCHANGED targets
      /\ \A j \in LiveNodes(nodes) : ~RefersTo(nodes, j, n)
      /\ nodes' = [nodes EXCEPT ![i] = DeadNode(NextGeneration(n[2]))]
  BY DEF NodeDestroy, vars, LiveNodes, RefersTo
<1>3. i \in LiveNodes(nodes) /\ n = <<i, nodes[i].generation>> /\ i \in NodeSlot
  BY <1>2, AboutNode DEF LiveNodes
<1>4. DeadNode(NextGeneration(n[2])) \in NodeSlotType /\ ~DeadNode(NextGeneration(n[2])).live
  BY NodeHandleParts, DeadNodeType
<1>5. /\ nodes' \in [NodeSlot -> NodeSlotType]
      /\ ~nodes'[i].live
      /\ \A j \in NodeSlot \ {i} : nodes'[j] = nodes[j]
  BY <1>1, <1>2, <1>3, <1>4
<1> HIDE DEF i
<1>6. LiveNodes(nodes') = LiveNodes(nodes) \ {i}
  BY <1>5 DEF LiveNodes
<1>7. NodeType(nodes') /\ Homes(targets', nodes')
  BY <1>1, <1>2, <1>5, <1>6 DEF NodeType, Homes, LiveNodes
<1>8. \A j \in LiveNodes(nodes) \ {i} : \A m \in NodeHandle :
        RefersTo(nodes, j, m) => m[1] # i
  <2> SUFFICES ASSUME NEW j \in LiveNodes(nodes), NEW m \in NodeHandle,
                      RefersTo(nodes, j, m), m[1] = i
               PROVE  FALSE
    OBVIOUS
  <2>1. IsLive(nodes, m)
    BY <1>1 DEF Edges, InTree
  <2>2. m = n
    BY <1>1, <1>3, <2>1, LiveNode, NodeHandleParts
  <2> QED
    BY <1>2, <2>2
<1>9. ASSUME NEW t \in TargetHandle, i \in Roots(nodes, t)
      PROVE  TreeNodes(nodes, t) \subseteq {i}
  <2> DEFINE S == TreeNodes(nodes, t) \ {i}
  <2> SUFFICES ASSUME S # {}
               PROVE  FALSE
    OBVIOUS
  <2>1. S \in SUBSET LiveNodes(nodes)
    BY DEF TreeNodes
  <2>2. PICK j \in S : nodes[j].data.parent = NoHandle \/ nodes[j].data.parent[1] \notin S
    BY <1>1, <2>1 DEF Grounded
  <2>3. Roots(nodes, t) = {i}
    BY <1>1, <1>9 DEF Rooted, Roots
  <2>4. nodes[j].data.parent # NoHandle
    BY <2>2, <2>3 DEF Roots
  <2> DEFINE p == nodes[j].data.parent
  <2>5. j \in LiveNodes(nodes) \ {i} /\ nodes[j].target = t
    BY DEF TreeNodes
  <2>6. p \in NodeHandle /\ RefersTo(nodes, j, p)
    BY <1>1, <2>4, <2>5, LiveNode DEF RefersTo
  <2>7. InTree(nodes, nodes[j].owner, t, p)
    BY <1>1, <2>5, <2>6 DEF Edges
  <2>8. p[1] \in TreeNodes(nodes, t)
    BY <1>1, <2>6, <2>7, LiveNode DEF InTree, TreeNodes
  <2>9. p[1] # i
    BY <1>8, <2>5, <2>6
  <2> QED
    BY <2>2, <2>4, <2>8, <2>9
<1>10. \A t \in TargetHandle : \/ TreeNodes(nodes, t) \subseteq {i}
                               \/ Roots(nodes, t) \cap {i} = {}
  BY <1>9
<1>11. /\ {i} \in SUBSET LiveNodes(nodes)
       /\ \A j \in {i} : ~nodes'[j].live
       /\ \A j \in LiveNodes(nodes) \ {i} : \A m \in NodeHandle :
            RefersTo(nodes, j, m) => m[1] \notin {i}
  BY <1>3, <1>5, <1>8
<1> QED
  BY <1>5, <1>7, <1>10, <1>11, NodesGoStep

LEMMA TreeDisconnectStep ==
  ASSUME InputInv, TreeInv, NEW c \in ClientHandle, TreeClientDisconnect(c)
  PROVE  TreeInv'
<1> DEFINE G == {i \in LiveNodes(nodes) : nodes[i].owner = c}
<1>1. /\ nodes \in [NodeSlot -> NodeSlotType] /\ NodeType(nodes) /\ Homes(targets, nodes)
      /\ Edges(nodes)
  BY DEF TreeInv, NodeType
<1>2. /\ ClientDisconnect(c)
      /\ nodes' = [i \in NodeSlot |->
                     IF nodes[i].live /\ nodes[i].owner = c
                     THEN DeadNode(NextGeneration(nodes[i].generation))
                     ELSE nodes[i]]
  BY DEF TreeClientDisconnect
<1>3. /\ \A i \in LiveNodes(nodes) :
           /\ DeadNode(NextGeneration(nodes[i].generation)) \in NodeSlotType
           /\ ~DeadNode(NextGeneration(nodes[i].generation)).live
  <2>1. \A i \in LiveNodes(nodes) : nodes[i].generation \in Generation
    BY <1>1, LiveNode, NodeHandleParts DEF NodeHandle
  <2> QED
    BY <2>1, DeadNodeType
<1>4. /\ nodes' \in [NodeSlot -> NodeSlotType]
      /\ \A i \in G : ~nodes'[i].live
      /\ \A i \in NodeSlot \ G : nodes'[i] = nodes[i]
  BY <1>1, <1>2, <1>3 DEF LiveNodes
<1>5. G \in SUBSET LiveNodes(nodes)
  OBVIOUS
<1>6. \A i \in LiveNodes(nodes) : i \in G <=> nodes[i].owner = c
  OBVIOUS
<1> HIDE DEF G
<1>7. /\ LiveNodes(nodes') = LiveNodes(nodes) \ G
      /\ \A i \in LiveNodes(nodes) \ G : nodes'[i] = nodes[i]
  BY <1>4 DEF LiveNodes
<1>8. NodeType(nodes')
  BY <1>1, <1>4, <1>7 DEF NodeType
<1>9. Homes(targets', nodes')
  <2> SUFFICES ASSUME NEW i \in LiveNodes(nodes) \ G
               PROVE  OwnedIn(targets', nodes[i].owner, nodes[i].target)
    BY <1>7 DEF Homes
  <2>1. Owned(nodes[i].owner, nodes[i].target)
    BY <1>1 DEF Homes, OwnedIn, Owned, TargetOk, Owner
  <2>2. nodes[i].target \in TargetHandle
    BY <1>1, <2>1, LiveHandle DEF InputInv, NodeSlotType, LiveNodes
  <2>3. nodes[i].owner # c
    BY <1>6
  <2>4. nodes[i].target \notin Lost(c)
    BY <2>1, <2>3 DEF Lost, Owned
  <2> QED
    BY <1>2, <2>1, <2>2, <2>4, DisconnectSlots
<1>10. \A i \in LiveNodes(nodes) \ G : \A n \in NodeHandle :
         RefersTo(nodes, i, n) => n[1] \notin G
  <2> SUFFICES ASSUME NEW i \in LiveNodes(nodes) \ G, NEW n \in NodeHandle,
                      RefersTo(nodes, i, n)
               PROVE  n[1] \notin G
    OBVIOUS
  <2>1. InTree(nodes, nodes[i].owner, nodes[i].target, n)
    BY <1>1 DEF Edges
  <2>2. n[1] \in LiveNodes(nodes) /\ nodes[n[1]].owner = nodes[i].owner
    BY <1>1, <2>1, LiveNode DEF InTree
  <2> QED
    BY <1>6, <2>2
<1>11. \A t \in TargetHandle : \/ TreeNodes(nodes, t) \subseteq G
                               \/ Roots(nodes, t) \cap G = {}
  <2> SUFFICES ASSUME NEW t \in TargetHandle
               PROVE  \/ TreeNodes(nodes, t) \subseteq G
                      \/ TreeNodes(nodes, t) \cap G = {}
    BY DEF Roots
  <2>1. \A i \in TreeNodes(nodes, t) :
          i \in LiveNodes(nodes) /\ nodes[i].owner = targets[t[1]].owner
    BY <1>1 DEF TreeNodes, Homes, OwnedIn
  <2> QED
    BY <1>6, <2>1
<1> QED
  BY <1>4, <1>5, <1>8, <1>9, <1>10, <1>11, NodesGoStep

-----------------------------------------------------------------------------
(* Steps of the seat.                                                      *)

\* The nodes stay, and so do the targets they are on.
LEMMA NodesStayStep ==
  ASSUME TreeInv, UNCHANGED nodes,
         \A i \in LiveNodes(nodes) : OwnedIn(targets', nodes[i].owner, nodes[i].target)
  PROVE  TreeInv'
<1>1. Homes(targets', nodes')
  BY DEF Homes, LiveNodes
<1>2. nodes' = nodes
  OBVIOUS
<1> QED
  BY <1>1, <1>2 DEF TreeInv

LEMMA TargetsStayStep ==
  ASSUME TreeInv, UNCHANGED <<nodes, targets>>
  PROVE  TreeInv'
  BY NodesStayStep DEF TreeInv, Homes

LEMMA TreeTargetCreateStep ==
  ASSUME InputInv, TreeInv, UNCHANGED nodes,
         NEW c \in ClientHandle, NEW mode \in TextMode, TargetCreate(c, mode)
  PROVE  TreeInv'
<1> DEFINE i == Lowest(Allocatable(targets))
<1>1. targets \in [TargetSlot -> TargetSlotType] /\ TableInv
  BY DEF InputInv, TableInv
<1>2. i \in TargetSlot /\ ~targets[i].live
  <2>1. Allocatable(targets) # {} /\ TargetCapacity \in Nat
    BY InputAssumption DEF TargetCreate
  <2> QED
    BY <1>1, <2>1, AllocatableIn DEF TargetSlot
<1>3. \A j \in TargetSlot \ {i} : targets'[j] = targets[j]
  BY <1>1, <1>2 DEF TargetCreate
<1> HIDE DEF i
<1>4. ASSUME NEW j \in LiveNodes(nodes)
      PROVE  OwnedIn(targets', nodes[j].owner, nodes[j].target)
  <2> DEFINE t == nodes[j].target
  <2>1. OwnedIn(targets, nodes[j].owner, t)
    BY DEF TreeInv, Homes
  <2>2. t \in TargetHandle
    BY <2>1 DEF TreeInv, NodeType, NodeSlotType, LiveNodes, OwnedIn, IsLive
  <2>3. t[1] \in TargetSlot /\ t[1] # i
    BY <1>2, <2>1, <2>2, HandleParts DEF OwnedIn, IsLive
  <2> QED
    BY <1>3, <2>1, <2>3 DEF OwnedIn, IsLive
<1> QED
  BY <1>4, NodesStayStep

LEMMA TreeTargetDestroyStep ==
  ASSUME InputInv, TreeInv, NEW c \in ClientHandle, NEW t \in TargetHandle,
         TreeTargetDestroy(c, t)
  PROVE  TreeInv'
<1>1. /\ NodesOf(t) = {} /\ Owned(c, t) /\ UNCHANGED nodes
      /\ targets' = [targets EXCEPT ![t[1]] = DeadTarget(NextGeneration(t[2]))]
      /\ targets \in [TargetSlot -> TargetSlotType]
  BY DEF TreeTargetDestroy, TargetDestroy, InputInv, TableInv
<1>2. targets[t[1]].generation = t[2]
  BY <1>1 DEF Owned, TargetOk, IsLive
<1>3. ASSUME NEW j \in LiveNodes(nodes)
      PROVE  OwnedIn(targets', nodes[j].owner, nodes[j].target)
  <2> DEFINE u == nodes[j].target
  <2>1. OwnedIn(targets, nodes[j].owner, u)
    BY DEF TreeInv, Homes
  <2>2. u \in TargetHandle
    BY <2>1 DEF TreeInv, NodeType, NodeSlotType, LiveNodes, OwnedIn, IsLive
  <2>3. u # t
    BY <1>1 DEF NodesOf, LiveNodes
  <2>4. u[1] \in TargetSlot /\ u[1] # t[1]
    BY <1>2, <2>1, <2>2, <2>3, HandleParts DEF OwnedIn, IsLive
  <2>5. targets'[u[1]] = targets[u[1]]
    BY <1>1, <2>4
  <2> QED
    BY <2>1, <2>5 DEF OwnedIn, IsLive
<1> QED
  BY <1>1, <1>3, NodesStayStep

\* An action is one more event for the owner of the node's target.
LEMMA ActionStep ==
  ASSUME InputInv, TreeInv, NEW c \in ClientHandle, NEW n \in NodeHandle, Action(c, n),
         UNCHANGED features
  PROVE  InputInv' /\ TreeInv'
<1> DEFINE news == <<Event("DATA", nodes[n[1]].target, 0)>>
           m    == Mail(nodes[n[1]].owner, news, 0)
<1>1. /\ Deliver(m) /\ NodeOk(n)
      /\ UNCHANGED <<targets, seatVars, shortcuts, nodes>>
  BY DEF Action
<1>2. TreeInv'
  BY <1>1, TargetsStayStep
<1>3. IsEventQueue(news) /\ news # <<>>
  <2>1. nodes[n[1]].target \in TargetHandle \cup {NoHandle}
    BY NodeHandleParts DEF TreeInv, NodeType, NodeSlotType
  <2>2. IsEvent(Event("DATA", nodes[n[1]].target, 0))
    BY <2>1 DEF IsEvent, Event, EventType
  <2> QED
    BY <2>2, ShortQueues
<1> HIDE DEF news
<1>4. Reserves(m, nodes[n[1]].owner, 0)
  BY <1>3, MailIsMail
<1> HIDE DEF m
<1>5. IsMail(m) /\ \A d \in ClientHandle : m[d].reserve = 0
  BY <1>4 DEF Reserves
<1>6. SeatInv' /\ \A d : Owed(d)' = Owed(d) + 0
  BY <1>1, SeatUnchanged
<1>7. InputInv'
  BY <1>1, <1>5, <1>6, AfterDelivery
<1> QED
  BY <1>2, <1>7

-----------------------------------------------------------------------------
(* The invariant holds.                                                    *)

LEMMA TreeInitInv ==
  ASSUME TreeInit
  PROVE  InputInv /\ TreeInv
<1>1. InputInv
  BY InitInv DEF TreeInit
<1>2. nodes = [i \in NodeSlot |-> DeadNode(1)]
  BY DEF TreeInit
<1>3. DeadNode(1) \in NodeSlotType /\ ~DeadNode(1).live
  <2>1. NoData \in NodeData
    <3>1. Cardinality({}) <= MaxRelations
      BY FS_EmptySet, NodeAssumption
    <3> QED
      BY <3>1 DEF NoData, NodeData
  <2>2. 1 \in 0 .. MaxGeneration
    BY InputAssumption
  <2> QED
    BY <2>1, <2>2 DEF DeadNode, NodeSlotType
<1>4. LiveNodes(nodes) = {} /\ nodes \in [NodeSlot -> NodeSlotType]
  BY <1>2, <1>3 DEF LiveNodes
<1>5. TreeInv
  BY <1>4 DEF TreeInv, NodeType, Homes, Edges, Rooted, TreeNodes, Grounded
<1> QED
  BY <1>1, <1>5

LEMMA TreeNextInv ==
  ASSUME InputInv, TreeInv, [TreeNext]_treeVars
  PROVE  InputInv' /\ TreeInv'
<1>1. CASE UNCHANGED treeVars
  <2>1. UNCHANGED vars /\ UNCHANGED <<nodes, targets>>
    BY <1>1 DEF treeVars, vars
  <2> QED
    BY <2>1, StutterInv, TargetsStayStep
<1>2. CASE UNCHANGED vars /\ TreeInv'
  BY <1>2, StutterInv
<1>3. CASE SeatNext /\ UNCHANGED <<features, nodes>>
  <2>1. InputInv'
    BY <1>3, SeatNextInv
  <2>2. \/ UNCHANGED targets
        \/ \E c \in ClientHandle, mode \in TextMode : TargetCreate(c, mode)
    BY <1>3 DEF SeatNext, ClientCreate, SetPreferences, PointerAxis, PointerCancel, NextEvent,
                ShortcutRegister, ShortcutUnregister, SetFocus, PointerMotion, Stylus,
                TouchDown, TouchMove, TouchUp, KeyDown, KeyUp, KeyRepeat, ButtonDown,
                ButtonUp, TextPreedit, TextCommit, TextCancel, TextAccepted
  <2>3. TreeInv'
    BY <1>3, <2>2, TargetsStayStep, TreeTargetCreateStep
  <2> QED
    BY <2>1, <2>3
<1>4. ASSUME NEW c \in ClientHandle, TreeClientDisconnect(c), UNCHANGED features
      PROVE  InputInv' /\ TreeInv'
  BY <1>4, ClientDisconnectStep, TreeDisconnectStep DEF TreeClientDisconnect
<1>5. ASSUME NEW c \in ClientHandle, NEW t \in TargetHandle, TreeTargetDestroy(c, t),
             UNCHANGED features
      PROVE  InputInv' /\ TreeInv'
  BY <1>5, TargetDestroyStep, TreeTargetDestroyStep DEF TreeTargetDestroy
<1>6. ASSUME NEW c \in ClientHandle, NEW t \in TargetHandle, NEW data \in NodeData,
             NodeCreate(c, t, data)
      PROVE  InputInv' /\ TreeInv'
  BY <1>2, <1>6, NodeCreateStep DEF NodeCreate
<1>7. ASSUME NEW c \in ClientHandle, NEW n \in NodeHandle, NEW data \in NodeData,
             NodeUpdate(c, n, data)
      PROVE  InputInv' /\ TreeInv'
  BY <1>2, <1>7, NodeUpdateStep DEF NodeUpdate
<1>8. ASSUME NEW c \in ClientHandle, NEW n \in NodeHandle, NodeDestroy(c, n)
      PROVE  InputInv' /\ TreeInv'
  BY <1>2, <1>8, NodeDestroyStep DEF NodeDestroy
<1>9. ASSUME NEW c \in ClientHandle, NEW n \in NodeHandle, Action(c, n), UNCHANGED features
      PROVE  InputInv' /\ TreeInv'
  BY <1>9, ActionStep
<1>10. ASSUME NEW c \in ClientHandle, NEW S \in SUBSET NodeHandle, NodesUpdateAtomic(c, S)
       PROVE  InputInv' /\ TreeInv'
  BY <1>2, <1>10, NodesUpdateStep DEF NodesUpdateAtomic
<1> QED
  BY <1>1, <1>3, <1>4, <1>5, <1>6, <1>7, <1>8, <1>9, <1>10 DEF TreeNext

\* The inductive invariants hold in every reachable state, whatever the number
\* of nodes and the depth, with all that goes on at the seat.
THEOREM TreeInvariant == TreeSpec => [](InputInv /\ TreeInv)
<1>1. TreeInit => InputInv /\ TreeInv
  BY TreeInitInv
<1>2. InputInv /\ TreeInv /\ [TreeNext]_treeVars => (InputInv /\ TreeInv)'
  BY TreeNextInv
<1> QED
  BY <1>1, <1>2, PTL DEF TreeSpec

\* Every edge ends at a live node of the same owner and target: no call, and no
\* client that leaves, makes an edge dangle.
THEOREM EdgesStayInside == TreeSpec => []EdgesInside
<1>1. InputInv /\ TreeInv => EdgesInside
  BY TreeInvMeans
<1> QED
  BY <1>1, TreeInvariant, PTL

\* Every target with nodes has one root and no cycle, whichever nodes are moved
\* one by one or several at once.
THEOREM TreesStayRooted == TreeSpec => []OneRootedTree
<1>1. InputInv /\ TreeInv => OneRootedTree
  BY TreeInvMeans
<1> QED
  BY <1>1, TreeInvariant, PTL

\* The seat and its reservations are sound with the nodes and their actions, too.
THEOREM SeatWithTrees == TreeSpec => [](SeatConsistent /\ Reservations)
<1>1. InputInv => SeatConsistent /\ Reservations
  BY InvIsConsistent DEF InputInv
<1> QED
  BY <1>1, TreeInvariant, PTL
=============================================================================
