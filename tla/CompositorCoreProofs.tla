------------------------ MODULE CompositorCoreProofs ------------------------
(***************************************************************************)
(* What holds of moo_compositor_core.c for every capacity, every width of  *)
(* the counters and every set of tokens.                                   *)
(***************************************************************************)
EXTENDS CompositorCore, TLAPS, FiniteSetTheorems, SequenceTheorems,
        WellFoundedInduction

-----------------------------------------------------------------------------
(* Slots and handles.                                                      *)

\* The scan for a free slot ends at the first of the slots it looks for.
LEMMA LowestIn ==
  ASSUME NEW S, S \subseteq Nat, S # {}
  PROVE  Lowest(S) \in S /\ \A j \in S : Lowest(S) <= j
<1> DEFINE Less == {p \in Nat \X Nat : p[1] < p[2]}
<1>1. IsWellFoundedOn(Less, Nat)
  BY NatLessThanWellFounded DEF OpToRel
<1> HIDE DEF Less
<1>2. PICK i \in S : \A j \in S : ~ (<<j, i>> \in Less)
  BY <1>1, WFMin
<1>3. ASSUME NEW j \in S
      PROVE  i <= j
  <2>1. i \in Nat /\ j \in Nat
    OBVIOUS
  <2>2. <<j, i>> \in Nat \X Nat /\ ~ (<<j, i>> \in Less)
    BY <1>2, <2>1
  <2> QED
    BY <2>1, <2>2 DEF Less
<1> QED
  BY <1>3 DEF Lowest

\* The next generation of a slot is again a generation or 0.
LEMMA NextGenerationType ==
  ASSUME NEW g \in Generation \cup {0}
  PROVE  NextGeneration(g) \in Generation \cup {0}
  BY CapacityAssumption DEF NextGeneration, Generation

\* The parts of a handle, and that no handle is the invalid one.
LEMMA HandleParts ==
  /\ \A c \in ClientHandle : c[1] \in ClientSlot /\ c[2] \in Generation
  /\ \A s \in SurfaceHandle : s[1] \in SurfaceSlot /\ s[2] \in Generation
  /\ \A b \in BufferHandle : b[1] \in BufferSlot /\ b[2] \in Generation
  /\ NoHandle \notin ClientHandle
  /\ NoHandle \notin SurfaceHandle
  /\ NoHandle \notin BufferHandle
  BY CapacityAssumption
     DEF ClientHandle, SurfaceHandle, BufferHandle, ClientSlot, SurfaceSlot,
         BufferSlot, Generation, NoHandle

\* Allocation takes a slot of the table.
LEMMA AllocatableIn ==
  ASSUME NEW N \in Nat, NEW T, NEW slots \in [1 .. N -> T],
         Allocatable(slots) # {}
  PROVE  /\ Lowest(Allocatable(slots)) \in 1 .. N
         /\ ~slots[Lowest(Allocatable(slots))].live
         /\ slots[Lowest(Allocatable(slots))].generation # 0
<1>1. Allocatable(slots) \subseteq Nat
  BY DEF Allocatable
<1>2. Lowest(Allocatable(slots)) \in Allocatable(slots)
  BY <1>1, LowestIn
<1> QED
  BY <1>2 DEF Allocatable

-----------------------------------------------------------------------------
(* Type correctness.  A frame slot in use names a surface and a token, and *)
(* one in flight says how it ends: without these facts a FRAME_DONE event  *)
(* need not have its type.                                                 *)

Filled(f) ==
  f.state # "FREE" =>
    /\ f.surface \in SurfaceHandle
    /\ f.token \in Token
    /\ f.state = "ASSIGNED" => f.status # "NONE"

FramesNamed == \A i \in FrameSlot : Filled(frames[i])

TypeInv == TypeOK /\ FramesNamed

\* A frame slot in use names a surface.
LEMMA NamedSurface ==
  ASSUME FramesNamed
  PROVE  \A i \in FrameSlot : frames[i].state # "FREE" => frames[i].surface \in SurfaceHandle
  BY DEF FramesNamed, Filled

\* A reference taken or given up leaves buffer slots behind.
LEMMA RefType ==
  ASSUME NEW B \in [BufferSlot -> BufferSlotType],
         NEW b \in BufferHandle \cup {NoHandle}
  PROVE  Ref(B, b) \in [BufferSlot -> BufferSlotType]
<1>1. CASE b = NoHandle
  BY <1>1 DEF Ref
<1>2. CASE b # NoHandle
  <2> DEFINE armed == B[b[1]].ref_count = 0 \/ B[b[1]].release_armed
  <2>1. b[1] \in BufferSlot
    BY <1>2, HandleParts
  <2>2. armed \in BOOLEAN
    OBVIOUS
  <2>3. Ref(B, b) = [B EXCEPT ![b[1]].ref_count = @ + 1,
                              ![b[1]].release_armed = armed]
    BY <1>2 DEF Ref
  <2> HIDE DEF armed
  <2> QED
    BY <2>1, <2>2, <2>3 DEF BufferSlotType
<1> QED
  BY <1>1, <1>2

LEMMA UnrefType ==
  ASSUME NEW B \in [BufferSlot -> BufferSlotType],
         NEW b \in BufferHandle \cup {NoHandle}
  PROVE  Unref(B, b) \in [BufferSlot -> BufferSlotType]
<1>1. CASE b = NoHandle
  BY <1>1 DEF Unref
<1>2. CASE b # NoHandle
  <2>1. b[1] \in BufferSlot
    BY <1>2, HandleParts
  <2> DEFINE gone == IsLastUse(b) /\ CanPushEvent(B[b[1]].owner)
  <2> HIDE DEF gone
  <2>2. CASE B[b[1]].ref_count = 0
    BY <1>2, <2>2 DEF Unref
  <2>3. CASE B[b[1]].ref_count # 0
    <3>1. B[b[1]].ref_count - 1 \in Nat
      BY <2>1, <2>3 DEF BufferSlotType
    <3>2. Unref(B, b) = [B EXCEPT ![b[1]].ref_count = @ - 1,
                                  ![b[1]].release_armed = @ /\ ~gone]
      BY <1>2, <2>3 DEF Unref, gone
    <3> QED
      BY <2>1, <3>1, <3>2 DEF BufferSlotType
  <2> QED
    BY <2>2, <2>3
<1> QED
  BY <1>1, <1>2

\* The release event that giving up a reference may leave is an event.
LEMMA EventsAfterUnrefType ==
  ASSUME TypeOK, NEW b \in BufferHandle \cup {NoHandle}
  PROVE  EventsAfterUnref(b) \in [ClientHandle -> Seq(Event)]
<1>1. CASE b = NoHandle
  BY <1>1 DEF EventsAfterUnref, IsLastUse, TypeOK
<1>2. CASE b # NoHandle
  <2>1. ReleaseEvent(b) \in Event
    BY <1>2 DEF ReleaseEvent, Event, Status
  <2>2. events \in [ClientHandle -> Seq(Event)]
    BY DEF TypeOK
  <2>3. \A c \in ClientHandle : Append(events[c], ReleaseEvent(b)) \in Seq(Event)
    BY <2>1, <2>2, AppendProperties
  <2> QED
    BY <2>2, <2>3 DEF EventsAfterUnref
<1> QED
  BY <1>1, <1>2

\* A token that moves into a frame slot makes it a named frame.
LEMMA TokenToFrameType ==
  ASSUME TypeOK, FramesNamed, NEW c \in ClientHandle, NEW s \in SurfaceHandle,
         NEW sequence \in 0 .. MaxCommit, NEW status \in Status,
         surfaces[s[1]].frame_token # NoToken => FreeFrameSlots # {}
  PROVE  LET F == TokenToFrame(c, s, sequence, status)
         IN  /\ F \in [FrameSlot -> FrameSlotType]
             /\ \A i \in FrameSlot : Filled(F[i])
<1>1. CASE surfaces[s[1]].frame_token = NoToken
  BY <1>1 DEF TokenToFrame, TypeOK, FramesNamed
<1>2. CASE surfaces[s[1]].frame_token # NoToken
  <2>1. Lowest(FreeFrameSlots) \in FrameSlot
    <3>1. FreeFrameSlots \subseteq Nat
      BY CapacityAssumption DEF FreeFrameSlots, FrameSlot
    <3>2. Lowest(FreeFrameSlots) \in FreeFrameSlots
      BY <1>2, <3>1, LowestIn
    <3> QED
      BY <3>2 DEF FreeFrameSlots
  <2>2. surfaces[s[1]].frame_token \in Token
    BY <1>2, HandleParts DEF TypeOK, SurfaceSlotType
  <2> DEFINE f == [state |-> "WAITING", owner |-> c, surface |-> s,
                   token |-> surfaces[s[1]].frame_token,
                   commit_sequence |-> sequence, status |-> status]
  <2>3. f \in FrameSlotType
    BY <2>2 DEF FrameSlotType
  <2>4. Filled(f)
    BY <2>2 DEF Filled
  <2>5. TokenToFrame(c, s, sequence, status)
          = [frames EXCEPT ![Lowest(FreeFrameSlots)] = f]
    BY <1>2 DEF TokenToFrame
  <2> HIDE DEF f
  <2> QED
    BY <2>1, <2>3, <2>4, <2>5 DEF TypeOK, FramesNamed
<1> QED
  BY <1>1, <1>2

\* The rank of a slot in a set: how many of the set are not above it.
Rank(S) == [i \in S |-> Cardinality({j \in S : j <= i})]

LEMMA RankIsBijection ==
  ASSUME NEW n \in Nat, NEW S \in SUBSET (1 .. n)
  PROVE  /\ Cardinality(S) \in Nat
         /\ \A i \in S : Rank(S)[i] \in 1 .. Cardinality(S)
         /\ \A i, j \in S : Rank(S)[i] = Rank(S)[j] => i = j
         /\ \A k \in 1 .. Cardinality(S) : \E i \in S : Rank(S)[i] = k
<1> DEFINE UpTo(i) == {j \in S : j <= i}
           rank == [i \in S |-> Cardinality(UpTo(i))]
           m == Cardinality(S)
<1>1. IsFiniteSet(S) /\ m \in Nat
  <2>1. IsFiniteSet(1 .. n)
    BY FS_Interval
  <2>2. IsFiniteSet(S)
    BY <2>1, FS_Subset
  <2> QED
    BY <2>2, FS_CardinalityType
<1>2. \A i \in S : IsFiniteSet(UpTo(i)) /\ Cardinality(UpTo(i)) \in 1 .. m
  <2> SUFFICES ASSUME NEW i \in S
               PROVE  IsFiniteSet(UpTo(i)) /\ Cardinality(UpTo(i)) \in 1 .. m
    OBVIOUS
  <2>1. UpTo(i) \in SUBSET S /\ i \in UpTo(i)
    OBVIOUS
  <2>2. IsFiniteSet(UpTo(i)) /\ Cardinality(UpTo(i)) <= m
    BY <1>1, <2>1, FS_Subset
  <2>3. Cardinality(UpTo(i)) \in Nat /\ Cardinality(UpTo(i)) # 0
    BY <2>1, <2>2, FS_CardinalityType, FS_EmptySet
  <2> QED
    BY <1>1, <2>2, <2>3
<1>3. ASSUME NEW i \in S, NEW j \in S, i < j
      PROVE  rank[i] # rank[j]
  <2>0. \A x \in S : x \in Int
    OBVIOUS
  <2>1. UpTo(i) \in SUBSET UpTo(j) /\ j \in UpTo(j) /\ j \notin UpTo(i)
    <3>1. i < j /\ i \in Int /\ j \in Int
      BY <1>3, <2>0
    <3>2. \A x \in S : x <= i => x <= j
      BY <2>0, <3>1
    <3>3. j <= j /\ ~ (j <= i)
      BY <3>1
    <3> QED
      BY <3>2, <3>3
  <2>2. Cardinality(UpTo(i)) # Cardinality(UpTo(j))
    BY <1>2, <2>1, FS_Subset
  <2> QED
    BY <2>2
<1>4. rank \in Injection(S, 1 .. m)
  <2>1. rank \in [S -> 1 .. m]
    BY <1>2
  <2>2. \A i, j \in S : rank[i] = rank[j] => i = j
    BY <1>3
  <2> QED
    BY <2>1, <2>2 DEF Injection, IsInjective
<1>5. IsFiniteSet(1 .. m) /\ Cardinality(1 .. m) = m
  BY <1>1, FS_Interval
<1>6. rank \in Surjection(S, 1 .. m)
  BY <1>4, <1>5, FS_Injection
<1>7. /\ \A i \in S : rank[i] \in 1 .. m
      /\ \A i, j \in S : rank[i] = rank[j] => i = j
  BY <1>4 DEF Injection, IsInjective
<1>8. \A k \in 1 .. m : \E i \in S : rank[i] = k
  BY <1>6 DEF Surjection
<1>9. Rank(S) = rank
  BY DEF Rank
<1> HIDE DEF rank
<1> QED
  BY <1>1, <1>7, <1>8, <1>9

\* Slot order enumerates the slots of the set, each at its rank.
LEMMA InSlotOrderRank ==
  ASSUME NEW n \in Nat, NEW S \in SUBSET (1 .. n), NEW k \in 1 .. Cardinality(S)
  PROVE  InSlotOrder(S)[k] \in S /\ Rank(S)[InSlotOrder(S)[k]] = k
<1>1. PICK i \in S : Rank(S)[i] = k
  BY RankIsBijection
<1> QED
  BY <1>1 DEF InSlotOrder, Rank

LEMMA InSlotOrderIn ==
  ASSUME NEW n \in Nat, NEW S \in SUBSET (1 .. n), NEW k \in 1 .. Cardinality(S)
  PROVE  InSlotOrder(S)[k] \in S
  BY InSlotOrderRank

\* How far a client is over its quota is a number.
LEMMA OverdraftInt ==
  ASSUME TypeOK, NEW c \in ClientHandle
  PROVE  EventsOwned(c) + FramesOwned(c) - EventQuota \in Int
<1>1. EventsOwned(c) \in Nat
  BY LenProperties DEF TypeOK, EventsOwned
<1>2. FramesOwned(c) \in Nat
  <2>1. /\ FrameSlotsOf(c) \in SUBSET (1 .. FrameCapacity)
        /\ PendingTokensOf(c) \in SUBSET (1 .. SurfaceCapacity)
    BY DEF FrameSlotsOf, PendingTokensOf, FrameSlot, SurfaceSlot
  <2>2. /\ IsFiniteSet(1 .. FrameCapacity)
        /\ IsFiniteSet(1 .. SurfaceCapacity)
    BY CapacityAssumption, FS_Interval
  <2>3. /\ Cardinality(FrameSlotsOf(c)) \in Nat
        /\ Cardinality(PendingTokensOf(c)) \in Nat
    BY <2>1, <2>2, FS_Subset, FS_CardinalityType
  <2> QED
    BY <2>3 DEF FramesOwned
<1>3. EventQuota \in Int
  BY CapacityAssumption DEF EventQuota
<1> QED
  BY <1>1, <1>2, <1>3

\* The events of one present are events.
LEMMA FrameDoneBatchType ==
  ASSUME TypeInv, NEW c \in ClientHandle
  PROVE  FrameDoneBatch(c) \in Seq(Event)
<1> DEFINE A == AssignedOf(c)
           n == Cardinality(A) - Overdraft(c)
<1>1. A \in SUBSET (1 .. FrameCapacity) /\ FrameCapacity \in Nat
  BY CapacityAssumption DEF AssignedOf, FrameSlotsOf, FrameSlot
<1>2. IsFiniteSet(A) /\ Cardinality(A) \in Nat
  <2>1. IsFiniteSet(1 .. FrameCapacity)
    BY <1>1, FS_Interval
  <2>2. IsFiniteSet(A)
    BY <1>1, <2>1, FS_Subset
  <2> QED
    BY <2>2, FS_CardinalityType
<1>3. Overdraft(c) \in 0 .. Cardinality(A)
  <2>1. EventsOwned(c) + FramesOwned(c) - EventQuota \in Int
    BY OverdraftInt DEF TypeInv
  <2> QED
    BY <1>2, <2>1 DEF Overdraft
<1>4. n \in Nat
  BY <1>2, <1>3
<1>5. ASSUME NEW k \in 1 .. n
      PROVE  FrameDoneEvent(frames[InSlotOrder(A)[k + Overdraft(c)]]) \in Event
  <2>1. k + Overdraft(c) \in 1 .. Cardinality(A)
    BY <1>2, <1>3
  <2>2. InSlotOrder(A)[k + Overdraft(c)] \in A
    BY <1>1, <2>1, InSlotOrderIn
  <2> DEFINE f == frames[InSlotOrder(A)[k + Overdraft(c)]]
  <2>3. f \in FrameSlotType /\ Filled(f) /\ f.state = "ASSIGNED"
    BY <2>2 DEF AssignedOf, FrameSlotsOf, TypeInv, TypeOK, FramesNamed
  <2> HIDE DEF f
  <2>4. f.surface \in SurfaceHandle /\ f.token \in Token /\ f.status \in Status \ {"NONE"}
    BY <2>3 DEF Filled, FrameSlotType
  <2>5. FrameDoneEvent(f) \in Event
    BY <2>4 DEF FrameDoneEvent, Event
  <2> QED
    BY <2>5 DEF f
<1>6. FrameDoneBatch(c) =
        [k \in 1 .. n |-> FrameDoneEvent(frames[InSlotOrder(A)[k + Overdraft(c)]])]
  BY DEF FrameDoneBatch
<1>7. FrameDoneBatch(c) \in [1 .. n -> Event]
  <2> HIDE DEF n, A
  <2> QED
    BY <1>5, <1>6
<1> QED
  BY <1>4, <1>7, SeqDef

LEMMA InitTypeInv == Init => TypeInv
<1> SUFFICES ASSUME Init PROVE TypeInv
  OBVIOUS
<1>0. 1 \in Generation /\ 0 \in 0 .. MaxCommit
  BY CapacityAssumption DEF Generation
<1>1. clients \in [ClientSlot -> ClientSlotType]
  BY <1>0 DEF Init, DeadClient, ClientSlotType
<1>2. surfaces \in [SurfaceSlot -> SurfaceSlotType]
  BY <1>0 DEF Init, BlankSurface, SurfaceSlotType
<1>3. buffers \in [BufferSlot -> BufferSlotType]
  BY <1>0 DEF Init, DeadBuffer, BufferSlotType
<1>4. frames \in [FrameSlot -> FrameSlotType]
  BY <1>0 DEF Init, FreeFrame, FrameSlotType, Status
<1>5. events \in [ClientHandle -> Seq(Event)]
  BY EmptySeq DEF Init
<1>6. FramesNamed
  BY DEF Init, FramesNamed, Filled, FreeFrame
<1> QED
  BY <1>0, <1>1, <1>2, <1>3, <1>4, <1>5, <1>6
     DEF Init, TypeInv, TypeOK, CursorType

LEMMA ClientCreateType ==
  ASSUME TypeInv, ClientCreate
  PROVE  TypeInv'
<1> DEFINE i == Lowest(Allocatable(clients))
<1>1. i \in ClientSlot
  BY CapacityAssumption, AllocatableIn
     DEF TypeInv, TypeOK, ClientCreate, ClientSlot
<1>2. clients' = [clients EXCEPT ![i].live = TRUE]
  BY DEF ClientCreate
<1>3. clients' \in [ClientSlot -> ClientSlotType]
  <2> HIDE DEF i
  <2> QED
    BY <1>1, <1>2 DEF TypeInv, TypeOK, ClientSlotType
<1> QED
  BY <1>3 DEF TypeInv, TypeOK, FramesNamed, ClientCreate

LEMMA BufferRegisterType ==
  ASSUME TypeInv, NEW c \in ClientHandle, BufferRegister(c)
  PROVE  TypeInv'
<1> DEFINE i == Lowest(Allocatable(buffers))
<1>1. i \in BufferSlot
  BY CapacityAssumption, AllocatableIn
     DEF TypeInv, TypeOK, BufferRegister, BufferSlot
<1>2. buffers' = [buffers EXCEPT
                    ![i] = [live |-> TRUE, generation |-> @.generation,
                            owner |-> c, ref_count |-> 0,
                            release_armed |-> FALSE]]
  BY DEF BufferRegister
<1>3. buffers' \in [BufferSlot -> BufferSlotType]
  <2> HIDE DEF i
  <2> QED
    BY <1>1, <1>2 DEF TypeInv, TypeOK, BufferSlotType
<1> QED
  BY <1>3 DEF TypeInv, TypeOK, FramesNamed, BufferRegister

LEMMA BufferUnregisterType ==
  ASSUME TypeInv, NEW c \in ClientHandle, NEW b \in BufferHandle,
         BufferUnregister(c, b)
  PROVE  TypeInv'
<1>1. NextGeneration(b[2]) \in Generation \cup {0} /\ b[1] \in BufferSlot
  BY HandleParts, NextGenerationType
<1>2. buffers' \in [BufferSlot -> BufferSlotType]
  BY <1>1 DEF TypeInv, TypeOK, BufferUnregister, DeadBuffer, BufferSlotType
<1> QED
  BY <1>2 DEF TypeInv, TypeOK, FramesNamed, BufferUnregister

LEMMA SurfaceCreateType ==
  ASSUME TypeInv, NEW c \in ClientHandle, SurfaceCreate(c)
  PROVE  TypeInv'
<1> DEFINE i == Lowest(Allocatable(surfaces))
<1>1. i \in SurfaceSlot
  BY CapacityAssumption, AllocatableIn
     DEF TypeInv, TypeOK, SurfaceCreate, SurfaceSlot
<1>2. surfaces' = [surfaces EXCEPT ![i] = BlankSurface(TRUE, @.generation, c)]
  BY DEF SurfaceCreate
<1>3. surfaces' \in [SurfaceSlot -> SurfaceSlotType]
  <2>1. 0 \in 0 .. MaxCommit
    BY CapacityAssumption
  <2> HIDE DEF i
  <2> QED
    BY <1>1, <1>2, <2>1 DEF TypeInv, TypeOK, SurfaceSlotType, BlankSurface
<1> QED
  BY <1>3 DEF TypeInv, TypeOK, FramesNamed, SurfaceCreate

LEMMA SurfaceAttachType ==
  ASSUME TypeInv, NEW c \in ClientHandle, NEW s \in SurfaceHandle,
         NEW b \in BufferHandle \cup {NoHandle}, SurfaceAttach(c, s, b)
  PROVE  TypeInv'
<1>1. s[1] \in SurfaceSlot /\ surfaces[s[1]] \in SurfaceSlotType
  BY HandleParts DEF TypeInv, TypeOK
<1> DEFINE slot == [surfaces[s[1]] EXCEPT !.pending_buffer = b, !.attach = TRUE]
<1>2. slot \in SurfaceSlotType
  BY <1>1 DEF SurfaceSlotType
<1>3. surfaces' = [surfaces EXCEPT ![s[1]] = slot]
  BY <1>1 DEF SurfaceAttach, TypeInv, TypeOK, SurfaceSlotType
<1> HIDE DEF slot
<1>4. surfaces' \in [SurfaceSlot -> SurfaceSlotType]
  BY <1>2, <1>3 DEF TypeInv, TypeOK
<1> QED
  BY <1>4 DEF TypeInv, TypeOK, FramesNamed, SurfaceAttach

LEMMA SurfaceFrameType ==
  ASSUME TypeInv, NEW c \in ClientHandle, NEW s \in SurfaceHandle,
         NEW t \in Token, SurfaceFrame(c, s, t)
  PROVE  TypeInv'
<1>1. s[1] \in SurfaceSlot /\ surfaces[s[1]] \in SurfaceSlotType
  BY HandleParts DEF TypeInv, TypeOK
<1> DEFINE slot == [surfaces[s[1]] EXCEPT !.frame_token = t]
<1>2. slot \in SurfaceSlotType
  BY <1>1 DEF SurfaceSlotType
<1>3. surfaces' = [surfaces EXCEPT ![s[1]] = slot]
  BY <1>1 DEF SurfaceFrame, TypeInv, TypeOK, SurfaceSlotType
<1> HIDE DEF slot
<1>4. surfaces' \in [SurfaceSlot -> SurfaceSlotType]
  BY <1>2, <1>3 DEF TypeInv, TypeOK
<1> QED
  BY <1>4 DEF TypeInv, TypeOK, FramesNamed, SurfaceFrame

LEMMA SurfaceCommitType ==
  ASSUME TypeInv, NEW c \in ClientHandle, NEW s \in SurfaceHandle,
         SurfaceCommit(c, s)
  PROVE  TypeInv'
<1> DEFINE slot == surfaces[s[1]]
           old  == slot.buffer
           new  == IF slot.attach THEN slot.pending_buffer ELSE old
           seq  == commit_sequence + 1
<1>1. /\ slot \in SurfaceSlotType
      /\ old \in BufferHandle \cup {NoHandle}
      /\ new \in BufferHandle \cup {NoHandle}
  BY HandleParts DEF TypeInv, TypeOK, SurfaceSlotType
<1>2. seq \in 0 .. MaxCommit
  BY CapacityAssumption DEF TypeInv, TypeOK, SurfaceCommit
<1>3. surfaces' \in [SurfaceSlot -> SurfaceSlotType]
  <2>1. surfaces' = [surfaces EXCEPT ![s[1]] =
                       [@ EXCEPT !.buffer = new, !.commit_sequence = seq,
                                 !.attach = FALSE, !.frame_token = NoToken]]
    BY DEF SurfaceCommit
  <2> HIDE DEF new, seq
  <2>2. [slot EXCEPT !.buffer = new, !.commit_sequence = seq,
                     !.attach = FALSE, !.frame_token = NoToken]
          \in SurfaceSlotType
    BY <1>1, <1>2 DEF SurfaceSlotType
  <2> QED
    BY <2>1, <2>2 DEF TypeInv, TypeOK
<1>4. /\ frames' \in [FrameSlot -> FrameSlotType]
      /\ FramesNamed'
  <2>1. frames' = TokenToFrame(c, s, seq, "NONE") /\ "NONE" \in Status
    BY DEF SurfaceCommit, Status
  <2>2. slot.frame_token # NoToken => FreeFrameSlots # {}
    BY DEF SurfaceCommit
  <2> QED
    BY <1>2, <2>1, <2>2, TokenToFrameType DEF TypeInv, FramesNamed
<1>5. buffers' \in [BufferSlot -> BufferSlotType]
  <2>1. CASE new = old
    BY <2>1 DEF TypeInv, TypeOK, SurfaceCommit
  <2>2. CASE new # old
    <3>1. buffers' = Unref(Ref(buffers, new), old)
      BY <2>2 DEF SurfaceCommit
    <3> QED
      BY <1>1, <3>1, RefType, UnrefType DEF TypeInv, TypeOK
  <2> QED
    BY <2>1, <2>2
<1>6. events' \in [ClientHandle -> Seq(Event)]
  <2>1. CASE new = old
    BY <2>1 DEF TypeInv, TypeOK, SurfaceCommit
  <2>2. CASE new # old
    BY <1>1, <2>2, EventsAfterUnrefType DEF TypeInv, SurfaceCommit
  <2> QED
    BY <2>1, <2>2
<1> QED
  BY <1>2, <1>3, <1>4, <1>5, <1>6 DEF TypeInv, TypeOK, SurfaceCommit

LEMMA SurfaceDestroyType ==
  ASSUME TypeInv, NEW c \in ClientHandle, NEW s \in SurfaceHandle,
         SurfaceDestroy(c, s)
  PROVE  TypeInv'
<1> DEFINE slot == surfaces[s[1]]
           F == TokenToFrame(c, s, slot.commit_sequence, "CANCELLED")
<1>1. /\ slot \in SurfaceSlotType
      /\ s[1] \in SurfaceSlot
      /\ NextGeneration(s[2]) \in Generation \cup {0}
  BY HandleParts, NextGenerationType DEF TypeInv, TypeOK
<1>2. surfaces' \in [SurfaceSlot -> SurfaceSlotType]
  <2>1. 0 \in 0 .. MaxCommit
    BY CapacityAssumption
  <2> QED
    BY <1>1, <2>1
       DEF TypeInv, TypeOK, SurfaceDestroy, BlankSurface, SurfaceSlotType
<1>3. /\ F \in [FrameSlot -> FrameSlotType]
      /\ \A i \in FrameSlot : Filled(F[i])
  <2>1. slot.commit_sequence \in 0 .. MaxCommit /\ "CANCELLED" \in Status
    BY <1>1 DEF SurfaceSlotType, Status
  <2>2. slot.frame_token # NoToken => FreeFrameSlots # {}
    BY DEF SurfaceDestroy
  <2> QED
    BY <2>1, <2>2, TokenToFrameType DEF TypeInv
<1>4. frames' \in [FrameSlot -> FrameSlotType] /\ FramesNamed'
  <2>1. frames' = CancelFrames(F, s)
    BY DEF SurfaceDestroy
  <2> HIDE DEF F
  <2>2. ASSUME NEW f \in FrameSlotType, Filled(f)
        PROVE  /\ [f EXCEPT !.status = "CANCELLED"] \in FrameSlotType
               /\ Filled([f EXCEPT !.status = "CANCELLED"])
    BY <2>2 DEF FrameSlotType, Filled, Status
  <2> QED
    BY <1>3, <2>1, <2>2 DEF CancelFrames, FramesNamed
<1>5. /\ buffers' \in [BufferSlot -> BufferSlotType]
      /\ events' \in [ClientHandle -> Seq(Event)]
  <2>1. slot.buffer \in BufferHandle \cup {NoHandle}
    BY <1>1 DEF SurfaceSlotType
  <2>2. /\ buffers' = Unref(buffers, slot.buffer)
        /\ events' = EventsAfterUnref(slot.buffer)
    BY DEF SurfaceDestroy
  <2> QED
    BY <2>1, <2>2, UnrefType, EventsAfterUnrefType DEF TypeInv, TypeOK
<1> QED
  BY <1>2, <1>4, <1>5 DEF TypeInv, TypeOK, SurfaceDestroy

LEMMA PointerFocusType ==
  ASSUME TypeInv, NEW c \in ClientHandle \cup {NoHandle}, PointerFocus(c)
  PROVE  TypeInv'
<1>1. cursor.buffer \in BufferHandle \cup {NoHandle}
  BY DEF TypeInv, TypeOK, CursorType
<1>2. /\ buffers' \in [BufferSlot -> BufferSlotType]
      /\ events' \in [ClientHandle -> Seq(Event)]
  BY <1>1, UnrefType, EventsAfterUnrefType DEF TypeInv, TypeOK, PointerFocus
<1> QED
  BY <1>2 DEF TypeInv, TypeOK, FramesNamed, PointerFocus, CursorType

LEMMA CursorSetBufferType ==
  ASSUME TypeInv, NEW c \in ClientHandle, NEW b \in BufferHandle,
         CursorSetBuffer(c, b)
  PROVE  TypeInv'
<1>1. cursor.buffer \in BufferHandle \cup {NoHandle}
  BY DEF TypeInv, TypeOK, CursorType
<1>2. /\ buffers' \in [BufferSlot -> BufferSlotType]
      /\ events' \in [ClientHandle -> Seq(Event)]
  <2>1. CASE b = cursor.buffer
    BY <2>1 DEF TypeInv, TypeOK, CursorSetBuffer
  <2>2. CASE b # cursor.buffer
    <3>1. /\ buffers' = Unref(Ref(buffers, b), cursor.buffer)
          /\ events' = EventsAfterUnref(cursor.buffer)
      BY <2>2 DEF CursorSetBuffer
    <3> QED
      BY <1>1, <3>1, RefType, UnrefType, EventsAfterUnrefType
         DEF TypeInv, TypeOK
  <2> QED
    BY <2>1, <2>2
<1> QED
  BY <1>2 DEF TypeInv, TypeOK, FramesNamed, CursorSetBuffer, CursorType

LEMMA CursorHideType ==
  ASSUME TypeInv, NEW c \in ClientHandle, CursorHide(c)
  PROVE  TypeInv'
<1>1. cursor.buffer \in BufferHandle \cup {NoHandle}
  BY DEF TypeInv, TypeOK, CursorType
<1>2. /\ buffers' \in [BufferSlot -> BufferSlotType]
      /\ events' \in [ClientHandle -> Seq(Event)]
  BY <1>1, UnrefType, EventsAfterUnrefType DEF TypeInv, TypeOK, CursorHide
<1> QED
  BY <1>2 DEF TypeInv, TypeOK, FramesNamed, CursorHide, CursorType

LEMMA ClientDisconnectType ==
  ASSUME TypeInv, NEW c \in ClientHandle, ClientDisconnect(c)
  PROVE  TypeInv'
<1>1. clients' \in [ClientSlot -> ClientSlotType]
  <2>1. NextGeneration(c[2]) \in Generation \cup {0} /\ c[1] \in ClientSlot
    BY HandleParts, NextGenerationType
  <2> QED
    BY <2>1
       DEF TypeInv, TypeOK, ClientDisconnect, DeadClient, ClientSlotType
<1>2. surfaces' \in [SurfaceSlot -> SurfaceSlotType]
  <2>1. 0 \in 0 .. MaxCommit
    BY CapacityAssumption
  <2>2. ASSUME NEW s \in SurfaceSlot
        PROVE  /\ surfaces[s] \in SurfaceSlotType
               /\ BlankSurface(FALSE, NextGeneration(surfaces[s].generation),
                               NoHandle) \in SurfaceSlotType
    <3>1. surfaces[s].generation \in Generation \cup {0}
      BY DEF TypeInv, TypeOK, SurfaceSlotType
    <3> QED
      BY <2>1, <3>1, NextGenerationType
         DEF TypeInv, TypeOK, BlankSurface, SurfaceSlotType
  <2> QED
    BY <2>2 DEF ClientDisconnect, SurfacesWithout
<1>3. buffers' \in [BufferSlot -> BufferSlotType]
  <2> SUFFICES ASSUME NEW i \in BufferSlot
               PROVE  BuffersWithout(c)[i] \in BufferSlotType
    BY DEF ClientDisconnect, BuffersWithout
  <2> DEFINE dropped == RefsDropped(c, <<i, buffers[i].generation>>)
             left == IF dropped < buffers[i].ref_count
                     THEN buffers[i].ref_count - dropped ELSE 0
  <2>1. buffers[i] \in BufferSlotType
    BY DEF TypeInv, TypeOK
  <2>2. dropped \in Nat
    <3> DEFINE S == {s \in SurfacesOf(c) :
                       surfaces[s].buffer = <<i, buffers[i].generation>>}
    <3>1. S \in SUBSET (1 .. SurfaceCapacity)
      BY DEF SurfacesOf, SurfaceSlot
    <3>2. IsFiniteSet(1 .. SurfaceCapacity)
      BY CapacityAssumption, FS_Interval
    <3>3. IsFiniteSet(S)
      BY <3>1, <3>2, FS_Subset
    <3>4. Cardinality(S) \in Nat
      BY <3>3, FS_CardinalityType
    <3> QED
      BY <3>4 DEF RefsDropped
  <2>3. left \in Nat
    BY <2>1, <2>2 DEF BufferSlotType
  <2>4. DeadBuffer(NextGeneration(buffers[i].generation)) \in BufferSlotType
    BY <2>1, NextGenerationType DEF DeadBuffer, BufferSlotType
  <2> DEFINE armed == buffers[i].release_armed /\ (dropped = 0 \/ left > 0)
  <2>5. armed \in BOOLEAN
    OBVIOUS
  <2>6. BuffersWithout(c)[i] =
          IF ~buffers[i].live THEN buffers[i]
          ELSE IF buffers[i].owner = c
          THEN DeadBuffer(NextGeneration(buffers[i].generation))
          ELSE [buffers[i] EXCEPT !.ref_count = left, !.release_armed = armed]
    BY DEF BuffersWithout
  <2> HIDE DEF left, armed, dropped
  <2>7. [buffers[i] EXCEPT !.ref_count = left, !.release_armed = armed]
          \in BufferSlotType
    BY <2>1, <2>3, <2>5 DEF BufferSlotType
  <2> QED
    BY <2>1, <2>4, <2>6, <2>7
<1>4. frames' \in [FrameSlot -> FrameSlotType] /\ FramesNamed'
  <2>1. 0 \in 0 .. MaxCommit
    BY CapacityAssumption
  <2>2. ASSUME NEW i \in FrameSlot
        PROVE  /\ FramesWithout(c)[i] \in FrameSlotType
               /\ Filled(FramesWithout(c)[i])
    <3>1. FreeFrame \in FrameSlotType /\ Filled(FreeFrame)
      BY <2>1 DEF FreeFrame, FrameSlotType, Status, Filled
    <3>2. frames[i] \in FrameSlotType /\ Filled(frames[i])
      BY DEF TypeInv, TypeOK, FramesNamed
    <3>3. /\ [frames[i] EXCEPT !.status = "CANCELLED"] \in FrameSlotType
          /\ Filled([frames[i] EXCEPT !.status = "CANCELLED"])
      BY <3>2 DEF FrameSlotType, Filled, Status
    <3> QED
      BY <3>1, <3>2, <3>3 DEF FramesWithout
  <2> QED
    BY <2>2 DEF ClientDisconnect, FramesWithout, FramesNamed
<1>5. events' \in [ClientHandle -> Seq(Event)]
  BY EmptySeq DEF TypeInv, TypeOK, ClientDisconnect
<1>6. cursor' \in CursorType
  BY DEF TypeInv, TypeOK, ClientDisconnect, CursorWithout, CursorType
<1> QED
  BY <1>1, <1>2, <1>3, <1>4, <1>5, <1>6
     DEF TypeInv, TypeOK, ClientDisconnect

LEMMA BuildFrameType ==
  ASSUME TypeInv, BuildFrame
  PROVE  TypeInv'
<1>1. PICK shown \in SUBSET Mapped :
        frames' = [i \in FrameSlot |->
                     IF frames[i].state = "WAITING"
                     THEN [frames[i] EXCEPT
                             !.state = "ASSIGNED",
                             !.status = Completion(frames[i], shown)]
                     ELSE frames[i]]
  BY DEF BuildFrame
<1>2. \A f : Completion(f, shown) \in Status \ {"NONE"}
  BY DEF Completion, Status
<1>3. ASSUME NEW f \in FrameSlotType, Filled(f), f.state = "WAITING",
             NEW status \in Status \ {"NONE"}
      PROVE  LET g == [f EXCEPT !.state = "ASSIGNED", !.status = status]
             IN  g \in FrameSlotType /\ Filled(g)
  BY <1>3 DEF FrameSlotType, Filled
<1>4. frames' \in [FrameSlot -> FrameSlotType] /\ FramesNamed'
  BY <1>1, <1>2, <1>3 DEF TypeInv, TypeOK, FramesNamed
<1> QED
  BY <1>4 DEF TypeInv, TypeOK, BuildFrame

LEMMA PresentDoneType ==
  ASSUME TypeInv, PresentDone
  PROVE  TypeInv'
<1>1. frames' \in [FrameSlot -> FrameSlotType] /\ FramesNamed'
  <2>1. 0 \in 0 .. MaxCommit
    BY CapacityAssumption
  <2>2. FreeFrame \in FrameSlotType
    BY <2>1 DEF FreeFrame, FrameSlotType, Status
  <2> QED
    BY <2>2 DEF TypeInv, TypeOK, FramesNamed, Filled, PresentDone, FreeFrame
<1>2. events' \in [ClientHandle -> Seq(Event)]
  <2>1. ASSUME NEW c \in ClientHandle
        PROVE  events[c] \o FrameDoneBatch(c) \in Seq(Event)
    BY FrameDoneBatchType, ConcatProperties DEF TypeInv, TypeOK
  <2> QED
    BY <2>1 DEF PresentDone
<1> QED
  BY <1>1, <1>2 DEF TypeInv, TypeOK, PresentDone

LEMMA NextEventType ==
  ASSUME TypeInv, NEW c \in ClientHandle, NextEvent(c)
  PROVE  TypeInv'
<1>1. Tail(events[c]) \in Seq(Event)
  BY HeadTailProperties DEF TypeInv, TypeOK, NextEvent
<1>2. events' \in [ClientHandle -> Seq(Event)]
  BY <1>1 DEF TypeInv, TypeOK, NextEvent
<1> QED
  BY <1>2 DEF TypeInv, TypeOK, FramesNamed, NextEvent

\* Every call preserves the types.
LEMMA NextTypeInv ==
  ASSUME TypeInv, [Next]_vars
  PROVE  TypeInv'
<1>1. CASE ClientCreate
  BY <1>1, ClientCreateType
<1>2. CASE \E c \in ClientHandle :
             \/ ClientDisconnect(c)
             \/ BufferRegister(c)
             \/ SurfaceCreate(c)
             \/ CursorHide(c)
             \/ NextEvent(c)
  BY <1>2, ClientDisconnectType, BufferRegisterType, SurfaceCreateType,
     CursorHideType, NextEventType
<1>3. CASE \E c \in ClientHandle, b \in BufferHandle :
             BufferUnregister(c, b) \/ CursorSetBuffer(c, b)
  BY <1>3, BufferUnregisterType, CursorSetBufferType
<1>4. CASE \E c \in ClientHandle, s \in SurfaceHandle :
             \/ \E b \in BufferHandle \cup {NoHandle} : SurfaceAttach(c, s, b)
             \/ \E t \in Token : SurfaceFrame(c, s, t)
             \/ SurfaceCommit(c, s)
             \/ SurfaceDestroy(c, s)
  BY <1>4, SurfaceAttachType, SurfaceFrameType, SurfaceCommitType,
     SurfaceDestroyType
<1>5. CASE \E c \in ClientHandle \cup {NoHandle} : PointerFocus(c)
  BY <1>5, PointerFocusType
<1>6. CASE BuildFrame
  BY <1>6, BuildFrameType
<1>7. CASE PresentDone
  BY <1>7, PresentDoneType
<1>8. CASE UNCHANGED vars
  BY <1>8 DEF vars, TypeInv, TypeOK, FramesNamed
<1> QED
  BY <1>1, <1>2, <1>3, <1>4, <1>5, <1>6, <1>7, <1>8 DEF Next

\* Every variable keeps its type, and every frame slot in use names the
\* surface its FRAME_DONE event will carry.
THEOREM TypeInvariance == Spec => []TypeInv
<1>1. Init => TypeInv
  BY InitTypeInv
<1>2. TypeInv /\ [Next]_vars => TypeInv'
  BY NextTypeInv
<1> QED
  BY <1>1, <1>2, PTL DEF Spec

\* Whatever calls the clients make, in whatever order, every variable keeps
\* its type: counters stay within their width and events name objects.
THEOREM TypeCorrect == Spec => []TypeOK
<1>1. TypeInv => TypeOK
  BY DEF TypeInv
<1> QED
  BY <1>1, TypeInvariance, PTL

-----------------------------------------------------------------------------
(* Stale handles.  One step leaves the generation of a slot alone or, when *)
(* a live slot dies, advances it; a slot of generation 0 is never live, so *)
(* it is never advanced back to 1.                                         *)

LiveNamed(slots) == \A i \in DOMAIN slots : slots[i].live => slots[i].generation # 0

Advances(slots, next) ==
  \A i \in DOMAIN slots :
    \/ /\ next[i].generation = slots[i].generation
       /\ next[i].live = slots[i].live \/ (next[i].live /\ slots[i].generation # 0)
    \/ /\ slots[i].live /\ ~next[i].live
       /\ next[i].generation = NextGeneration(slots[i].generation)

GenerationInv ==
  /\ TypeInv
  /\ LiveNamed(clients)
  /\ LiveNamed(surfaces)
  /\ LiveNamed(buffers)

\* The slots of a table, as far as handles see them.
Named(slots) ==
  \A i \in DOMAIN slots :
    slots[i].live \in BOOLEAN /\ slots[i].generation \in Generation \cup {0}

LEMMA AdvanceStale ==
  ASSUME NEW slots, NEW next, DOMAIN next = DOMAIN slots,
         Named(slots), Named(next), LiveNamed(slots), Advances(slots, next),
         NEW h \in (DOMAIN slots) \X Generation
  PROVE  /\ IsLive(slots, h) /\ ~IsLive(next, h) => Stale(next, h)
         /\ Stale(slots, h) => Stale(next, h) /\ ~IsLive(next, h)
<1> DEFINE i == h[1]
           k == h[2]
           g == slots[i].generation
           n == next[i].generation
           was == slots[i].live
           is == next[i].live
<1>1. /\ i \in DOMAIN slots
      /\ g \in Generation \cup {0}
      /\ n \in Generation \cup {0}
      /\ was \in BOOLEAN /\ is \in BOOLEAN
  BY DEF Named
<1>2. k \in Nat \ {0} /\ g \in Nat /\ n \in Nat
  BY <1>1, CapacityAssumption DEF Generation
<1>3. /\ IsLive(slots, h) <=> was /\ g = k
      /\ IsLive(next, h) <=> is /\ n = k
  <2>1. h # NoHandle
    BY <1>2 DEF NoHandle
  <2> QED
    BY <2>1 DEF IsLive
<1>4. /\ Stale(slots, h) <=> g = 0 \/ g > k
      /\ Stale(next, h) <=> n = 0 \/ n > k
  BY DEF Stale
<1>5. was => g # 0
  BY <1>1 DEF LiveNamed
<1>6. \/ n = g /\ (is = was \/ (is /\ g # 0))
      \/ was /\ ~is /\ n = NextGeneration(g)
  BY <1>1 DEF Advances
<1> HIDE DEF i, k, g, n, was, is
<1>7. NextGeneration(g) = 0 \/ NextGeneration(g) > g
  BY <1>2 DEF NextGeneration
<1> QED
  BY <1>1, <1>2, <1>3, <1>4, <1>5, <1>6, <1>7

LEMMA AdvanceLiveNamed ==
  ASSUME NEW slots, NEW next, DOMAIN next = DOMAIN slots,
         LiveNamed(slots), Advances(slots, next)
  PROVE  LiveNamed(next)
  BY DEF LiveNamed, Advances

LEMMA UnchangedAdvances ==
  ASSUME NEW slots
  PROVE  Advances(slots, slots)
  BY DEF Advances

\* References do not touch what a handle sees of a buffer slot.
LEMMA RefKeeps ==
  ASSUME NEW B \in [BufferSlot -> BufferSlotType],
         NEW b \in BufferHandle \cup {NoHandle}
  PROVE  \A i \in BufferSlot :
           /\ Ref(B, b)[i].live = B[i].live
           /\ Ref(B, b)[i].generation = B[i].generation
           /\ Ref(B, b)[i].owner = B[i].owner
  BY HandleParts DEF Ref, BufferSlotType

LEMMA UnrefKeeps ==
  ASSUME NEW B \in [BufferSlot -> BufferSlotType],
         NEW b \in BufferHandle \cup {NoHandle}
  PROVE  \A i \in BufferSlot :
           /\ Unref(B, b)[i].live = B[i].live
           /\ Unref(B, b)[i].generation = B[i].generation
           /\ Unref(B, b)[i].owner = B[i].owner
  BY HandleParts DEF Unref, BufferSlotType

LEMMA InitGenerationInv == Init => GenerationInv
  BY InitTypeInv
     DEF Init, GenerationInv, LiveNamed, DeadClient, BlankSurface, DeadBuffer

\* Which calls change the client table, and which the surface table.
LEMMA WhoChangesClients ==
  ASSUME [Next]_vars
  PROVE  \/ UNCHANGED clients
         \/ ClientCreate
         \/ \E c \in ClientHandle : ClientDisconnect(c)
<1>1. CASE \E c \in ClientHandle :
             BufferRegister(c) \/ SurfaceCreate(c) \/ CursorHide(c) \/ NextEvent(c)
  BY <1>1 DEF BufferRegister, SurfaceCreate, CursorHide, NextEvent
<1>2. CASE \E c \in ClientHandle, b \in BufferHandle :
             BufferUnregister(c, b) \/ CursorSetBuffer(c, b)
  BY <1>2 DEF BufferUnregister, CursorSetBuffer
<1>3. CASE \E c \in ClientHandle, s \in SurfaceHandle :
             \/ \E b \in BufferHandle \cup {NoHandle} : SurfaceAttach(c, s, b)
             \/ \E t \in Token : SurfaceFrame(c, s, t)
             \/ SurfaceCommit(c, s)
             \/ SurfaceDestroy(c, s)
  BY <1>3 DEF SurfaceAttach, SurfaceFrame, SurfaceCommit, SurfaceDestroy
<1>4. CASE \/ \E c \in ClientHandle \cup {NoHandle} : PointerFocus(c)
           \/ BuildFrame
           \/ PresentDone
           \/ UNCHANGED vars
  BY <1>4 DEF PointerFocus, BuildFrame, PresentDone, vars
<1> QED
  BY <1>1, <1>2, <1>3, <1>4 DEF Next

LEMMA WhoChangesSurfaces ==
  ASSUME [Next]_vars
  PROVE  \/ UNCHANGED surfaces
         \/ \E c \in ClientHandle : ClientDisconnect(c) \/ SurfaceCreate(c)
         \/ \E c \in ClientHandle, s \in SurfaceHandle :
              \/ \E b \in BufferHandle \cup {NoHandle} : SurfaceAttach(c, s, b)
              \/ \E t \in Token : SurfaceFrame(c, s, t)
              \/ SurfaceCommit(c, s)
              \/ SurfaceDestroy(c, s)
<1>1. CASE \E c \in ClientHandle : BufferRegister(c) \/ CursorHide(c) \/ NextEvent(c)
  BY <1>1 DEF BufferRegister, CursorHide, NextEvent
<1>2. CASE \E c \in ClientHandle, b \in BufferHandle :
             BufferUnregister(c, b) \/ CursorSetBuffer(c, b)
  BY <1>2 DEF BufferUnregister, CursorSetBuffer
<1>3. CASE \/ ClientCreate
           \/ \E c \in ClientHandle \cup {NoHandle} : PointerFocus(c)
           \/ BuildFrame
           \/ PresentDone
           \/ UNCHANGED vars
  BY <1>3 DEF ClientCreate, PointerFocus, BuildFrame, PresentDone, vars
<1> QED
  BY <1>1, <1>2, <1>3 DEF Next

LEMMA ClientsAdvance ==
  ASSUME GenerationInv, [Next]_vars
  PROVE  Advances(clients, clients')
<1>0. TypeOK
  BY DEF GenerationInv, TypeInv
<1>1. CASE UNCHANGED clients
  BY <1>1, UnchangedAdvances
<1>2. CASE ClientCreate
  <2> DEFINE i == Lowest(Allocatable(clients))
  <2>1. i \in ClientSlot /\ ~clients[i].live /\ clients[i].generation # 0
    BY <1>0, <1>2, CapacityAssumption, AllocatableIn
       DEF TypeOK, ClientCreate, ClientSlot
  <2>2. clients' = [clients EXCEPT ![i].live = TRUE]
    BY <1>2 DEF ClientCreate
  <2> HIDE DEF i
  <2> QED
    BY <1>0, <2>1, <2>2 DEF Advances, TypeOK, ClientSlotType
<1>3. ASSUME NEW c \in ClientHandle, ClientDisconnect(c)
      PROVE  Advances(clients, clients')
  <2>1. c[1] \in ClientSlot /\ clients[c[1]].live /\ clients[c[1]].generation = c[2]
    BY <1>3, HandleParts DEF ClientDisconnect, ClientOk, IsLive
  <2> QED
    BY <1>0, <1>3, <2>1 DEF ClientDisconnect, DeadClient, Advances, TypeOK
<1> QED
  BY <1>1, <1>2, <1>3, WhoChangesClients

LEMMA SurfacesAdvance ==
  ASSUME GenerationInv, [Next]_vars
  PROVE  Advances(surfaces, surfaces')
<1>0. TypeOK
  BY DEF GenerationInv, TypeInv
<1>1. CASE UNCHANGED surfaces
  BY <1>1, UnchangedAdvances
<1>2. ASSUME NEW c \in ClientHandle, SurfaceCreate(c)
      PROVE  Advances(surfaces, surfaces')
  <2> DEFINE i == Lowest(Allocatable(surfaces))
  <2>1. i \in SurfaceSlot /\ ~surfaces[i].live /\ surfaces[i].generation # 0
    BY <1>0, <1>2, CapacityAssumption, AllocatableIn
       DEF TypeOK, SurfaceCreate, SurfaceSlot
  <2>2. surfaces' = [surfaces EXCEPT ![i] = BlankSurface(TRUE, @.generation, c)]
    BY <1>2 DEF SurfaceCreate
  <2> HIDE DEF i
  <2> QED
    BY <1>0, <2>1, <2>2 DEF Advances, TypeOK, BlankSurface
<1>3. ASSUME NEW c \in ClientHandle, NEW s \in SurfaceHandle,
             \/ \E b \in BufferHandle \cup {NoHandle} : SurfaceAttach(c, s, b)
             \/ \E t \in Token : SurfaceFrame(c, s, t)
             \/ SurfaceCommit(c, s)
      PROVE  Advances(surfaces, surfaces')
  <2>1. s[1] \in SurfaceSlot
    BY HandleParts
  <2>2. \A i \in SurfaceSlot : /\ surfaces'[i].live = surfaces[i].live
                               /\ surfaces'[i].generation = surfaces[i].generation
    <3>1. CASE \E b \in BufferHandle \cup {NoHandle} : SurfaceAttach(c, s, b)
      BY <1>0, <2>1, <3>1 DEF SurfaceAttach, TypeOK, SurfaceSlotType
    <3>2. CASE \E t \in Token : SurfaceFrame(c, s, t)
      BY <1>0, <2>1, <3>2 DEF SurfaceFrame, TypeOK, SurfaceSlotType
    <3>3. CASE SurfaceCommit(c, s)
      <4>1. PICK new, seq :
              surfaces' = [surfaces EXCEPT ![s[1]] =
                             [@ EXCEPT !.buffer = new, !.commit_sequence = seq,
                                       !.attach = FALSE, !.frame_token = NoToken]]
        BY <3>3 DEF SurfaceCommit
      <4> QED
        BY <1>0, <2>1, <4>1 DEF TypeOK, SurfaceSlotType
    <3> QED
      BY <1>3, <3>1, <3>2, <3>3
  <2> QED
    BY <1>0, <2>2 DEF Advances, TypeOK
<1>4. ASSUME NEW c \in ClientHandle, NEW s \in SurfaceHandle, SurfaceDestroy(c, s)
      PROVE  Advances(surfaces, surfaces')
  <2>1. /\ s[1] \in SurfaceSlot
        /\ surfaces[s[1]].live /\ surfaces[s[1]].generation = s[2]
    BY <1>4, HandleParts DEF SurfaceDestroy, OwnedSurface, SurfaceOk, IsLive
  <2>2. surfaces' = [surfaces EXCEPT
                       ![s[1]] = BlankSurface(FALSE, NextGeneration(s[2]), NoHandle)]
    BY <1>4 DEF SurfaceDestroy
  <2> QED
    BY <1>0, <2>1, <2>2 DEF BlankSurface, Advances, TypeOK
<1>5. ASSUME NEW c \in ClientHandle, ClientDisconnect(c)
      PROVE  Advances(surfaces, surfaces')
  BY <1>0, <1>5
     DEF ClientDisconnect, SurfacesWithout, SurfacesOf, BlankSurface, Advances,
         TypeOK
<1> QED
  BY <1>1, <1>2, <1>3, <1>4, <1>5, WhoChangesSurfaces

LEMMA BuffersAdvance ==
  ASSUME GenerationInv, [Next]_vars
  PROVE  Advances(buffers, buffers')
<1>0. TypeOK
  BY DEF GenerationInv, TypeInv
<1>1. CASE UNCHANGED buffers
  BY <1>1, UnchangedAdvances
<1>2. ASSUME NEW c \in ClientHandle, BufferRegister(c)
      PROVE  Advances(buffers, buffers')
  <2> DEFINE i == Lowest(Allocatable(buffers))
  <2>1. i \in BufferSlot /\ ~buffers[i].live /\ buffers[i].generation # 0
    BY <1>0, <1>2, CapacityAssumption, AllocatableIn
       DEF TypeOK, BufferRegister, BufferSlot
  <2>2. buffers' = [buffers EXCEPT
                      ![i] = [live |-> TRUE, generation |-> @.generation,
                              owner |-> c, ref_count |-> 0,
                              release_armed |-> FALSE]]
    BY <1>2 DEF BufferRegister
  <2> HIDE DEF i
  <2> QED
    BY <1>0, <2>1, <2>2 DEF Advances, TypeOK
<1>3. ASSUME NEW c \in ClientHandle, NEW b \in BufferHandle, BufferUnregister(c, b)
      PROVE  Advances(buffers, buffers')
  <2>1. /\ b[1] \in BufferSlot
        /\ buffers[b[1]].live /\ buffers[b[1]].generation = b[2]
    BY <1>3, HandleParts DEF BufferUnregister, OwnedBuffer, BufferOk, IsLive
  <2>2. buffers' = [buffers EXCEPT ![b[1]] = DeadBuffer(NextGeneration(b[2]))]
    BY <1>3 DEF BufferUnregister
  <2> QED
    BY <1>0, <2>1, <2>2 DEF DeadBuffer, Advances, TypeOK
<1>4. ASSUME NEW new \in BufferHandle \cup {NoHandle},
             NEW old \in BufferHandle \cup {NoHandle},
             buffers' = Unref(Ref(buffers, new), old) \/ buffers' = Unref(buffers, old)
      PROVE  Advances(buffers, buffers')
  <2>1. Ref(buffers, new) \in [BufferSlot -> BufferSlotType]
    BY <1>0, RefType DEF TypeOK
  <2>2. \A i \in BufferSlot : /\ buffers'[i].live = buffers[i].live
                              /\ buffers'[i].generation = buffers[i].generation
    BY <1>0, <1>4, <2>1, RefKeeps, UnrefKeeps DEF TypeOK
  <2> QED
    BY <1>0, <2>2 DEF Advances, TypeOK
<1>5. ASSUME NEW c \in ClientHandle, NEW s \in SurfaceHandle,
             SurfaceCommit(c, s) \/ SurfaceDestroy(c, s)
      PROVE  Advances(buffers, buffers')
  <2>1. /\ surfaces[s[1]].buffer \in BufferHandle \cup {NoHandle}
        /\ surfaces[s[1]].pending_buffer \in BufferHandle \cup {NoHandle}
    BY <1>0, HandleParts DEF TypeOK, SurfaceSlotType
  <2>2. CASE SurfaceCommit(c, s)
    BY <1>1, <1>4, <2>1, <2>2 DEF SurfaceCommit
  <2>3. CASE SurfaceDestroy(c, s)
    BY <1>4, <2>1, <2>3 DEF SurfaceDestroy
  <2> QED
    BY <1>5, <2>2, <2>3
<1>6. CASE \/ \E c \in ClientHandle \cup {NoHandle} : PointerFocus(c)
           \/ \E c \in ClientHandle, b \in BufferHandle : CursorSetBuffer(c, b)
           \/ \E c \in ClientHandle : CursorHide(c)
  <2>1. cursor.buffer \in BufferHandle \cup {NoHandle}
    BY <1>0 DEF TypeOK, CursorType
  <2> QED
    BY <1>1, <1>4, <1>6, <2>1 DEF PointerFocus, CursorSetBuffer, CursorHide
<1>7. ASSUME NEW c \in ClientHandle, ClientDisconnect(c)
      PROVE  Advances(buffers, buffers')
  <2> SUFFICES ASSUME NEW i \in BufferSlot
               PROVE  \/ /\ buffers'[i].generation = buffers[i].generation
                         /\ buffers'[i].live = buffers[i].live
                      \/ /\ buffers[i].live /\ ~buffers'[i].live
                         /\ buffers'[i].generation = NextGeneration(buffers[i].generation)
    BY <1>0 DEF Advances, TypeOK
  <2>1. buffers'[i] = BuffersWithout(c)[i] /\ buffers[i] \in BufferSlotType
    BY <1>0, <1>7 DEF ClientDisconnect, TypeOK, BuffersWithout
  <2>2. PICK n, armed :
          BuffersWithout(c)[i] =
            IF ~buffers[i].live THEN buffers[i]
            ELSE IF buffers[i].owner = c
            THEN DeadBuffer(NextGeneration(buffers[i].generation))
            ELSE [buffers[i] EXCEPT !.ref_count = n, !.release_armed = armed]
    BY DEF BuffersWithout
  <2>3. CASE ~buffers[i].live
    BY <2>1, <2>2, <2>3
  <2>4. CASE buffers[i].live /\ buffers[i].owner = c
    BY <2>1, <2>2, <2>4 DEF DeadBuffer
  <2>5. CASE buffers[i].live /\ buffers[i].owner # c
    BY <2>1, <2>2, <2>5 DEF BufferSlotType
  <2> QED
    BY <2>3, <2>4, <2>5
<1>8. \/ UNCHANGED buffers
      \/ \E c \in ClientHandle :
           ClientDisconnect(c) \/ BufferRegister(c) \/ CursorHide(c)
      \/ \E c \in ClientHandle, b \in BufferHandle :
           BufferUnregister(c, b) \/ CursorSetBuffer(c, b)
      \/ \E c \in ClientHandle, s \in SurfaceHandle :
           SurfaceCommit(c, s) \/ SurfaceDestroy(c, s)
      \/ \E c \in ClientHandle \cup {NoHandle} : PointerFocus(c)
  BY DEF Next, vars, ClientCreate, SurfaceCreate, SurfaceAttach, SurfaceFrame,
         BuildFrame, PresentDone, NextEvent
<1> QED
  BY <1>1, <1>2, <1>3, <1>5, <1>6, <1>7, <1>8

\* The tables keep their slots, and every slot has a generation.
LEMMA TablesNamed ==
  ASSUME TypeOK
  PROVE  /\ Named(clients) /\ DOMAIN clients = ClientSlot
         /\ Named(surfaces) /\ DOMAIN surfaces = SurfaceSlot
         /\ Named(buffers) /\ DOMAIN buffers = BufferSlot
<1>1. Named(clients) /\ DOMAIN clients = ClientSlot
  BY DEF TypeOK, Named, ClientSlotType
<1>2. Named(surfaces) /\ DOMAIN surfaces = SurfaceSlot
  BY DEF TypeOK, Named, SurfaceSlotType
<1>3. Named(buffers) /\ DOMAIN buffers = BufferSlot
  BY DEF TypeOK, Named, BufferSlotType
<1> QED
  BY <1>1, <1>2, <1>3

LEMMA TablesNamedNext ==
  ASSUME TypeOK'
  PROVE  /\ Named(clients') /\ DOMAIN clients' = ClientSlot
         /\ Named(surfaces') /\ DOMAIN surfaces' = SurfaceSlot
         /\ Named(buffers') /\ DOMAIN buffers' = BufferSlot
<1>1. Named(clients') /\ DOMAIN clients' = ClientSlot
  BY DEF TypeOK, Named, ClientSlotType
<1>2. Named(surfaces') /\ DOMAIN surfaces' = SurfaceSlot
  BY DEF TypeOK, Named, SurfaceSlotType
<1>3. Named(buffers') /\ DOMAIN buffers' = BufferSlot
  BY DEF TypeOK, Named, BufferSlotType
<1> QED
  BY <1>1, <1>2, <1>3

LEMMA NextGenerationInv ==
  ASSUME GenerationInv, [Next]_vars
  PROVE  GenerationInv'
<1>1. TypeInv'
  BY NextTypeInv DEF GenerationInv
<1>2. /\ DOMAIN clients' = DOMAIN clients
      /\ DOMAIN surfaces' = DOMAIN surfaces
      /\ DOMAIN buffers' = DOMAIN buffers
  BY <1>1, TablesNamed, TablesNamedNext DEF GenerationInv, TypeInv
<1>3. LiveNamed(clients) /\ LiveNamed(surfaces) /\ LiveNamed(buffers)
  BY DEF GenerationInv
<1>4. LiveNamed(clients')
  BY <1>2, <1>3, ClientsAdvance, AdvanceLiveNamed
<1>5. LiveNamed(surfaces')
  BY <1>2, <1>3, SurfacesAdvance, AdvanceLiveNamed
<1>6. LiveNamed(buffers')
  BY <1>2, <1>3, BuffersAdvance, AdvanceLiveNamed
<1> QED
  BY <1>1, <1>4, <1>5, <1>6 DEF GenerationInv, LiveNamed

\* No live slot carries generation 0, the mark of a slot retired for good.
THEOREM GenerationInvariance == Spec => []GenerationInv
<1>1. GenerationInv /\ [Next]_vars => GenerationInv'
  BY NextGenerationInv
<1> QED
  BY <1>1, InitGenerationInv, PTL DEF Spec

\* What StaleForever says of one step.
StaleStep ==
  /\ \A h \in ClientHandle :
       /\ ClientOk(h) /\ ~ClientOk(h)' => Stale(clients, h)'
       /\ Stale(clients, h) => Stale(clients, h)' /\ ~ClientOk(h)'
  /\ \A h \in SurfaceHandle :
       /\ SurfaceOk(h) /\ ~SurfaceOk(h)' => Stale(surfaces, h)'
       /\ Stale(surfaces, h) => Stale(surfaces, h)' /\ ~SurfaceOk(h)'
  /\ \A h \in BufferHandle :
       /\ BufferOk(h) /\ ~BufferOk(h)' => Stale(buffers, h)'
       /\ Stale(buffers, h) => Stale(buffers, h)' /\ ~BufferOk(h)'

\* However often slots are reused, a handle that was destroyed, unregistered
\* or disconnected is never accepted again.
THEOREM StaleHandlesStayStale == Spec => StaleForever
<1>1. ASSUME GenerationInv, GenerationInv', [Next]_vars
      PROVE  StaleStep
  <2>1. /\ Named(clients) /\ Named(clients') /\ LiveNamed(clients)
        /\ DOMAIN clients = ClientSlot /\ DOMAIN clients' = ClientSlot
        /\ Named(surfaces) /\ Named(surfaces') /\ LiveNamed(surfaces)
        /\ DOMAIN surfaces = SurfaceSlot /\ DOMAIN surfaces' = SurfaceSlot
        /\ Named(buffers) /\ Named(buffers') /\ LiveNamed(buffers)
        /\ DOMAIN buffers = BufferSlot /\ DOMAIN buffers' = BufferSlot
    BY <1>1, TablesNamed, TablesNamedNext DEF GenerationInv, TypeInv
  <2>2. ASSUME NEW h \in ClientHandle
        PROVE  /\ ClientOk(h) /\ ~ClientOk(h)' => Stale(clients, h)'
               /\ Stale(clients, h) => Stale(clients, h)' /\ ~ClientOk(h)'
    <3>1. /\ IsLive(clients, h) /\ ~IsLive(clients', h) => Stale(clients', h)
          /\ Stale(clients, h) => Stale(clients', h) /\ ~IsLive(clients', h)
      BY <1>1, <2>1, ClientsAdvance, AdvanceStale DEF ClientHandle
    <3> QED
      BY <3>1 DEF ClientOk, IsLive, Stale
  <2>3. ASSUME NEW h \in SurfaceHandle
        PROVE  /\ SurfaceOk(h) /\ ~SurfaceOk(h)' => Stale(surfaces, h)'
               /\ Stale(surfaces, h) => Stale(surfaces, h)' /\ ~SurfaceOk(h)'
    <3>1. /\ IsLive(surfaces, h) /\ ~IsLive(surfaces', h) => Stale(surfaces', h)
          /\ Stale(surfaces, h) => Stale(surfaces', h) /\ ~IsLive(surfaces', h)
      BY <1>1, <2>1, SurfacesAdvance, AdvanceStale DEF SurfaceHandle
    <3> QED
      BY <3>1 DEF SurfaceOk, IsLive, Stale
  <2>4. ASSUME NEW h \in BufferHandle
        PROVE  /\ BufferOk(h) /\ ~BufferOk(h)' => Stale(buffers, h)'
               /\ Stale(buffers, h) => Stale(buffers, h)' /\ ~BufferOk(h)'
    <3>1. /\ IsLive(buffers, h) /\ ~IsLive(buffers', h) => Stale(buffers', h)
          /\ Stale(buffers, h) => Stale(buffers', h) /\ ~IsLive(buffers', h)
      BY <1>1, <2>1, BuffersAdvance, AdvanceStale DEF BufferHandle
    <3> QED
      BY <3>1 DEF BufferOk, IsLive, Stale
  <2> QED
    BY <2>2, <2>3, <2>4 DEF StaleStep
<1>2. GenerationInv /\ GenerationInv' /\ [Next]_vars => [StaleStep]_vars
  BY <1>1
<1>3. StaleForever <=> [][StaleStep]_vars
  BY PTL DEF StaleForever, StaleStep
<1> QED
  BY <1>2, <1>3, GenerationInvariance, PTL DEF Spec

-----------------------------------------------------------------------------
(* Ownership: whatever names an owner names a live client, reference       *)
(* counts count the surfaces and the cursor that show a buffer, and no     *)
(* shown buffer is ever taken away.  The three hold only together: a       *)
(* buffer is unregistered on the strength of its count, and the count is   *)
(* right because nothing else takes shown buffers away.                    *)

-----------------------------------------------------------------------------
(* The invariants as relations of table values, to speak of both sides of  *)
(* a step.                                                                 *)

Held(C, B, c, b) == IsLive(C, c) /\ IsLive(B, b) /\ B[b[1]].owner = c

Shows(S, s, b) == S[s].live /\ S[s].buffer = b

Showing(S, b) == {s \in SurfaceSlot : Shows(S, s, b)}

RefsIn(S, cu, b) == Cardinality(Showing(S, b)) + IF cu.buffer = b THEN 1 ELSE 0

Exact(B, S, cu) ==
  \A i \in BufferSlot : B[i].live =>
    /\ B[i].ref_count = RefsIn(S, cu, <<i, B[i].generation>>)
    /\ B[i].release_armed <=> B[i].ref_count > 0

ShownIsHeld(C, B, S, cu) ==
  /\ \A s \in SurfaceSlot : S[s].live =>
       /\ S[s].buffer # NoHandle => Held(C, B, S[s].owner, S[s].buffer)
       /\ S[s].attach /\ S[s].pending_buffer # NoHandle =>
            Held(C, B, S[s].owner, S[s].pending_buffer)
  /\ cu.buffer # NoHandle => Held(C, B, cu.focus_owner, cu.buffer)

SurfacesLive(C, S) == \A s \in SurfaceSlot : S[s].live => IsLive(C, S[s].owner)
BuffersLive(C, B)  == \A b \in BufferSlot : B[b].live => IsLive(C, B[b].owner)
FramesLive(C, F)   ==
  \A i \in FrameSlot : F[i].state # "FREE" => IsLive(C, F[i].owner)
EventsLive(C, E)   == \A c \in ClientHandle : E[c] # <<>> => IsLive(C, c)
FocusLive(C, cu)   == cu.focus_owner # NoHandle => IsLive(C, cu.focus_owner)

OwnershipInv ==
  /\ GenerationInv
  /\ SurfacesLive(clients, surfaces)
  /\ BuffersLive(clients, buffers)
  /\ FramesLive(clients, frames)
  /\ EventsLive(clients, events)
  /\ FocusLive(clients, cursor)
  /\ ShownIsHeld(clients, buffers, surfaces, cursor)
  /\ Exact(buffers, surfaces, cursor)

-----------------------------------------------------------------------------
(* Counting.                                                               *)

LEMMA ShowingFinite ==
  ASSUME NEW S, NEW b
  PROVE  IsFiniteSet(Showing(S, b)) /\ Cardinality(Showing(S, b)) \in Nat
<1>1. IsFiniteSet(SurfaceSlot)
  BY CapacityAssumption, FS_Interval DEF SurfaceSlot
<1>2. IsFiniteSet(Showing(S, b))
  BY <1>1, FS_Subset DEF Showing
<1> QED
  BY <1>2, FS_CardinalityType

LEMMA RefsInNat ==
  ASSUME NEW S, NEW cu, NEW b
  PROVE  /\ RefsIn(S, cu, b) \in Nat
         /\ RefsIn(S, cu, b) = 0 <=> Showing(S, b) = {} /\ cu.buffer # b
<1>1. IsFiniteSet(Showing(S, b)) /\ Cardinality(Showing(S, b)) \in Nat
  BY ShowingFinite
<1>2. Cardinality(Showing(S, b)) = 0 <=> Showing(S, b) = {}
  BY <1>1, FS_EmptySet
<1> QED
  BY <1>1, <1>2 DEF RefsIn

\* The same surfaces and the same cursor image give the same counts.
LEMMA SameRefs ==
  ASSUME NEW S, NEW S2, NEW cu, NEW cu2, NEW b,
         \A s \in SurfaceSlot : Shows(S2, s, b) <=> Shows(S, s, b),
         cu2.buffer = b <=> cu.buffer = b
  PROVE  RefsIn(S2, cu2, b) = RefsIn(S, cu, b)
<1>1. Showing(S2, b) = Showing(S, b)
  BY DEF Showing
<1> QED
  BY <1>1 DEF RefsIn

\* What one surface or the cursor gives up and takes: one reference each.
Moved(old, new, b) ==
  (IF b = new THEN 1 ELSE 0) - (IF b = old THEN 1 ELSE 0)

LEMMA SurfaceMovesRef ==
  ASSUME NEW S, NEW S2, NEW cu, NEW b, NEW k \in SurfaceSlot,
         NEW old, NEW new, new # old,
         \A s \in SurfaceSlot \ {k} : Shows(S2, s, b) <=> Shows(S, s, b),
         Shows(S, k, b) <=> b = old,
         Shows(S2, k, b) <=> b = new
  PROVE  RefsIn(S2, cu, b) = RefsIn(S, cu, b) + Moved(old, new, b)
<1>1. IsFiniteSet(Showing(S, b)) /\ Cardinality(Showing(S, b)) \in Nat
  BY ShowingFinite
<1>2. CASE b = new
  <2>1. k \notin Showing(S, b) /\ Showing(S2, b) = Showing(S, b) \cup {k}
    BY <1>2 DEF Showing
  <2>2. Cardinality(Showing(S, b) \cup {k}) = Cardinality(Showing(S, b)) + 1
    <3> HIDE DEF Showing
    <3> QED
      BY <1>1, <2>1, FS_AddElement
  <2> QED
    BY <1>1, <1>2, <2>1, <2>2 DEF RefsIn, Moved
<1>3. CASE b = old
  <2>1. k \in Showing(S, b) /\ Showing(S2, b) = Showing(S, b) \ {k}
    BY <1>3 DEF Showing
  <2>2. Cardinality(Showing(S2, b)) = Cardinality(Showing(S, b)) - 1
    BY <1>1, <2>1, FS_RemoveElement
  <2> QED
    BY <1>1, <1>3, <2>2 DEF RefsIn, Moved
<1>4. CASE b # new /\ b # old
  <2>1. Showing(S2, b) = Showing(S, b)
    BY <1>4 DEF Showing
  <2> QED
    BY <1>1, <1>4, <2>1 DEF RefsIn, Moved
<1> QED
  BY <1>2, <1>3, <1>4

LEMMA CursorMovesRef ==
  ASSUME NEW S, NEW cu, NEW cu2, NEW b, cu2.buffer # cu.buffer
  PROVE  RefsIn(S, cu2, b) = RefsIn(S, cu, b) + Moved(cu.buffer, cu2.buffer, b)
<1>1. Cardinality(Showing(S, b)) \in Nat
  BY ShowingFinite
<1> QED
  BY <1>1 DEF RefsIn, Moved

-----------------------------------------------------------------------------
(* Moving a reference keeps the counts exact.  The check before it, that   *)
(* the release event has room, is what keeps release_armed in step.        *)

LEMMA MoveKeepsExact ==
  ASSUME GenerationInv, Exact(buffers, surfaces, cursor),
         NEW old \in BufferHandle \cup {NoHandle},
         NEW new \in BufferHandle \cup {NoHandle}, new # old,
         old # NoHandle =>
           /\ BufferOk(old)
           /\ buffers[old[1]].ref_count > 0
           /\ ReleaseHasRoom(old, buffers[old[1]].owner),
         new # NoHandle => BufferOk(new),
         NEW S, NEW cu,
         \A b \in BufferHandle :
           RefsIn(S, cu, b) = RefsIn(surfaces, cursor, b) + Moved(old, new, b)
  PROVE  Exact(Unref(Ref(buffers, new), old), S, cu)
<1> DEFINE R == Ref(buffers, new)
           U == Unref(R, old)
<1>1. buffers \in [BufferSlot -> BufferSlotType] /\ LiveNamed(buffers)
  BY DEF GenerationInv, TypeInv, TypeOK
<1>2. R \in [BufferSlot -> BufferSlotType]
  BY <1>1, RefType
<1> SUFFICES ASSUME NEW i \in BufferSlot, U[i].live
             PROVE  /\ U[i].ref_count = RefsIn(S, cu, <<i, U[i].generation>>)
                    /\ U[i].release_armed <=> U[i].ref_count > 0
  BY DEF Exact
<1> DEFINE b == <<i, buffers[i].generation>>
           n == buffers[i].ref_count
<1>3. /\ buffers[i].live /\ U[i].generation = buffers[i].generation
      /\ R[i].owner = buffers[i].owner
  BY <1>1, <1>2, RefKeeps, UnrefKeeps
<1>4. b \in BufferHandle
  <2>1. buffers[i].generation \in Generation
    BY <1>1, <1>3 DEF LiveNamed, BufferSlotType
  <2> QED
    BY <2>1 DEF BufferHandle
<1>5. /\ n = RefsIn(surfaces, cursor, b) /\ n \in Nat
      /\ buffers[i].release_armed <=> n > 0
  BY <1>1, <1>3 DEF Exact, BufferSlotType
<1>6. RefsIn(S, cu, <<i, U[i].generation>>) = n + Moved(old, new, b)
  BY <1>3, <1>4, <1>5
<1>7. new # NoHandle => (new[1] = i <=> new = b)
  BY <1>1, HandleParts DEF BufferOk, IsLive, BufferHandle
<1>8. old # NoHandle => (old[1] = i <=> old = b)
  BY <1>1, HandleParts DEF BufferOk, IsLive, BufferHandle
<1>9. b # NoHandle
  BY <1>4, HandleParts
<1>10. CASE b = new
  <2>1. R[i].ref_count = n + 1 /\ R[i].release_armed
    <3>1. R = [buffers EXCEPT ![i].ref_count = @ + 1,
                              ![i].release_armed = (n = 0) \/ @]
      BY <1>9, <1>10 DEF Ref
    <3>2. n = 0 \/ buffers[i].release_armed
      BY <1>5
    <3> QED
      BY <1>1, <3>1, <3>2 DEF BufferSlotType
  <2>2. U[i] = R[i]
    <3>1. CASE old = NoHandle
      BY <3>1 DEF Unref
    <3>2. CASE old # NoHandle
      <4>1. old[1] # i /\ old[1] \in BufferSlot
        BY <1>8, <1>10, <3>2, HandleParts
      <4> QED
        BY <1>2, <4>1 DEF Unref
    <3> QED
      BY <3>1, <3>2
  <2> QED
    BY <1>5, <1>6, <1>10, <2>1, <2>2 DEF Moved
<1>11. CASE b = old
  <2>1. R[i] = buffers[i]
    <3>1. CASE new = NoHandle
      BY <3>1 DEF Ref
    <3>2. CASE new # NoHandle
      <4>1. new[1] # i /\ new[1] \in BufferSlot
        BY <1>7, <1>11, <3>2, HandleParts
      <4> QED
        BY <1>1, <4>1 DEF Ref
    <3> QED
      BY <3>1, <3>2
  <2> DEFINE gone == IsLastUse(b) /\ CanPushEvent(buffers[i].owner)
  <2>2. n > 0 /\ buffers[i].release_armed
    BY <1>5, <1>9, <1>11
  <2>3. gone <=> n = 1
    BY <1>9, <1>11, <2>2 DEF IsLastUse, ReleaseHasRoom
  <2>4. Unref(R, b) = [R EXCEPT ![i].ref_count = @ - 1,
                                ![i].release_armed = @ /\ ~gone]
    <3>1. R[i].ref_count # 0 /\ R[i].owner = buffers[i].owner
      BY <1>3, <1>5, <2>1, <2>2
    <3> QED
      BY <1>9, <3>1 DEF Unref
  <2>5. U = [R EXCEPT ![i].ref_count = @ - 1, ![i].release_armed = @ /\ ~gone]
    BY <1>11, <2>4
  <2>6. gone \in BOOLEAN
    OBVIOUS
  <2> HIDE DEF gone, U, R
  <2>7. U[i].ref_count = n - 1 /\ U[i].release_armed = (R[i].release_armed /\ ~gone)
    BY <1>2, <2>1, <2>5, <2>6 DEF BufferSlotType
  <2> HIDE DEF n, b
  <2>8. Moved(old, new, b) = -1
    BY <1>11 DEF Moved
  <2>9. U[i].ref_count = RefsIn(S, cu, <<i, U[i].generation>>)
    BY <1>5, <1>6, <2>7, <2>8
  <2>10. n - 1 > 0 <=> ~gone
    BY <1>5, <2>2, <2>3
  <2>11. U[i].release_armed <=> ~gone
    BY <2>1, <2>2, <2>7
  <2> QED
    BY <2>7, <2>9, <2>10, <2>11
<1>12. CASE b # old /\ b # new
  <2>1. R[i] = buffers[i]
    <3>1. CASE new = NoHandle
      BY <3>1 DEF Ref
    <3>2. CASE new # NoHandle
      <4>1. new[1] # i /\ new[1] \in BufferSlot
        BY <1>7, <1>12, <3>2, HandleParts
      <4> QED
        BY <1>1, <4>1 DEF Ref
    <3> QED
      BY <3>1, <3>2
  <2>2. U[i] = R[i]
    <3>1. CASE old = NoHandle
      BY <3>1 DEF Unref
    <3>2. CASE old # NoHandle
      <4>1. old[1] # i /\ old[1] \in BufferSlot
        BY <1>8, <1>12, <3>2, HandleParts
      <4> QED
        BY <1>2, <4>1 DEF Unref
    <3> QED
      BY <3>1, <3>2
  <2> QED
    BY <1>5, <1>6, <1>12, <2>1, <2>2 DEF Moved
<1> QED
  BY <1>10, <1>11, <1>12
-----------------------------------------------------------------------------
(* Steps.                                                                  *)

\* A client is counted on by what it owns: nothing is lost when the clients
\* only become more.
LEMMA OwnershipClientCreate ==
  ASSUME OwnershipInv, ClientCreate
  PROVE  OwnershipInv'
<1>0. [Next]_vars /\ GenerationInv
  BY DEF Next, OwnershipInv
<1>1. GenerationInv'
  BY <1>0, NextGenerationInv
<1> DEFINE i == Lowest(Allocatable(clients))
<1>2. \A c : IsLive(clients, c) => IsLive(clients', c)
  <2>1. i \in ClientSlot /\ clients' = [clients EXCEPT ![i].live = TRUE]
    BY <1>0, CapacityAssumption, AllocatableIn
       DEF GenerationInv, TypeInv, TypeOK, ClientCreate, ClientSlot
  <2>2. \A j : clients[j].live => clients'[j].live
    BY <1>0, <2>1 DEF GenerationInv, TypeInv, TypeOK, ClientSlotType
  <2>3. \A j : clients'[j].generation = clients[j].generation
    BY <1>0, <2>1 DEF GenerationInv, TypeInv, TypeOK, ClientSlotType
  <2> QED
    BY <2>2, <2>3 DEF IsLive
<1>3. UNCHANGED <<surfaces, buffers, frames, events, cursor>>
  BY DEF ClientCreate
<1> QED
  BY <1>1, <1>2, <1>3
     DEF OwnershipInv, SurfacesLive, BuffersLive, FramesLive, EventsLive,
         FocusLive, ShownIsHeld, Held, Exact, RefsIn, Showing, Shows

LEMMA OwnershipBufferRegister ==
  ASSUME OwnershipInv, NEW c \in ClientHandle, BufferRegister(c)
  PROVE  OwnershipInv'
<1>0. [Next]_vars /\ GenerationInv
  BY DEF Next, OwnershipInv
<1>1. GenerationInv'
  BY <1>0, NextGenerationInv
<1>2. UNCHANGED <<clients, surfaces, frames, events, cursor>> /\ IsLive(clients, c)
  BY DEF BufferRegister, ClientOk
<1> DEFINE i == Lowest(Allocatable(buffers))
           g == buffers[i].generation
<1>3. i \in BufferSlot /\ ~buffers[i].live /\ g # 0
  BY <1>0, CapacityAssumption, AllocatableIn
     DEF GenerationInv, TypeInv, TypeOK, BufferRegister, BufferSlot
<1>4. buffers' = [buffers EXCEPT
                    ![i] = [live |-> TRUE, generation |-> g, owner |-> c,
                            ref_count |-> 0, release_armed |-> FALSE]]
  BY DEF BufferRegister
<1>5. buffers \in [BufferSlot -> BufferSlotType]
  BY <1>0 DEF GenerationInv, TypeInv, TypeOK
<1> HIDE DEF i
<1>6. \A d, b : Held(clients, buffers, d, b) => Held(clients', buffers', d, b)
  BY <1>2, <1>3, <1>4, <1>5 DEF Held, IsLive
<1>7. RefsIn(surfaces, cursor, <<i, g>>) = 0
  <2>1. ~IsLive(buffers, <<i, g>>) /\ <<i, g>> # NoHandle
    BY <1>3 DEF IsLive, NoHandle
  <2>2. Showing(surfaces, <<i, g>>) = {} /\ cursor.buffer # <<i, g>>
    BY <2>1 DEF OwnershipInv, ShownIsHeld, Held, Showing, Shows
  <2> QED
    BY <2>2, RefsInNat
<1>8. Exact(buffers', surfaces, cursor)
  <2> SUFFICES ASSUME NEW j \in BufferSlot, buffers'[j].live
               PROVE  /\ buffers'[j].ref_count
                           = RefsIn(surfaces, cursor, <<j, buffers'[j].generation>>)
                      /\ buffers'[j].release_armed <=> buffers'[j].ref_count > 0
    BY DEF Exact
  <2>1. CASE j = i
    BY <1>3, <1>4, <1>5, <1>7, <2>1
  <2>2. CASE j # i
    <3>1. buffers'[j] = buffers[j]
      BY <1>4, <1>5, <2>2
    <3> QED
      BY <3>1 DEF OwnershipInv, Exact
  <2> QED
    BY <2>1, <2>2
<1>9. BuffersLive(clients', buffers')
  BY <1>2, <1>3, <1>4, <1>5 DEF OwnershipInv, BuffersLive
<1> QED
  BY <1>1, <1>2, <1>6, <1>8, <1>9
     DEF OwnershipInv, SurfacesLive, FramesLive, EventsLive, FocusLive, ShownIsHeld,
         Exact, RefsIn, Showing, Shows

\* The buffer may go because its count says that nothing shows it.
LEMMA OwnershipBufferUnregister ==
  ASSUME OwnershipInv, NEW c \in ClientHandle, NEW b \in BufferHandle,
         BufferUnregister(c, b)
  PROVE  OwnershipInv'
<1>0. [Next]_vars /\ GenerationInv
  BY DEF Next, OwnershipInv
<1>1. GenerationInv'
  BY <1>0, NextGenerationInv
<1>2. /\ UNCHANGED <<clients, surfaces, frames, events, cursor>>
      /\ buffers' = [buffers EXCEPT ![b[1]] = DeadBuffer(NextGeneration(b[2]))]
  BY DEF BufferUnregister
<1>3. buffers \in [BufferSlot -> BufferSlotType] /\ b[1] \in BufferSlot
  BY <1>0, HandleParts DEF GenerationInv, TypeInv, TypeOK
<1>4. /\ buffers[b[1]].live /\ buffers[b[1]].generation = b[2]
      /\ buffers[b[1]].ref_count = 0
      /\ b = <<b[1], buffers[b[1]].generation>>
  BY DEF BufferUnregister, OwnedBuffer, BufferOk, IsLive, BufferHandle
<1>5. Showing(surfaces, b) = {} /\ cursor.buffer # b
  <2>1. RefsIn(surfaces, cursor, b) = 0
    BY <1>3, <1>4 DEF OwnershipInv, Exact
  <2> QED
    BY <2>1, RefsInNat
<1>6. \A j \in BufferSlot : j # b[1] => buffers'[j] = buffers[j]
  BY <1>2, <1>3
<1>7. ~buffers'[b[1]].live
  BY <1>2, <1>3 DEF DeadBuffer
<1>8. ASSUME NEW d, NEW h \in BufferHandle, Held(clients, buffers, d, h), h # b
      PROVE  Held(clients', buffers', d, h)
  <2>1. h[1] \in BufferSlot /\ h[1] # b[1]
    BY <1>4, <1>8, HandleParts DEF Held, IsLive, BufferHandle
  <2> QED
    BY <1>2, <1>6, <1>8, <2>1 DEF Held, IsLive
<1>9. ShownIsHeld(clients', buffers', surfaces', cursor')
  <2>1. ASSUME NEW s \in SurfaceSlot, surfaces[s].live, surfaces[s].buffer # NoHandle
        PROVE  Held(clients', buffers', surfaces[s].owner, surfaces[s].buffer)
    BY <1>0, <1>5, <1>8, <2>1
       DEF OwnershipInv, ShownIsHeld, Showing, Shows, GenerationInv, TypeInv, TypeOK,
           SurfaceSlotType
  <2>2. ASSUME NEW s \in SurfaceSlot, surfaces[s].live, surfaces[s].attach,
               surfaces[s].pending_buffer # NoHandle
        PROVE  Held(clients', buffers', surfaces[s].owner, surfaces[s].pending_buffer)
    <3>1. surfaces[s].pending_buffer # b
      BY <2>2 DEF BufferUnregister
    <3> QED
      BY <1>0, <1>8, <2>2, <3>1
         DEF OwnershipInv, ShownIsHeld, GenerationInv, TypeInv, TypeOK, SurfaceSlotType
  <2>3. cursor.buffer # NoHandle =>
          Held(clients', buffers', cursor.focus_owner, cursor.buffer)
    BY <1>0, <1>5, <1>8
       DEF OwnershipInv, ShownIsHeld, GenerationInv, TypeInv, TypeOK, CursorType
  <2> QED
    BY <1>2, <2>1, <2>2, <2>3 DEF ShownIsHeld
<1>10. Exact(buffers', surfaces', cursor') /\ BuffersLive(clients', buffers')
  BY <1>2, <1>6, <1>7 DEF OwnershipInv, Exact, BuffersLive
<1> QED
  BY <1>1, <1>2, <1>9, <1>10
     DEF OwnershipInv, SurfacesLive, FramesLive, EventsLive, FocusLive
\* What the calls that only prepare a surface have in common: no surface
\* comes to show another buffer.
LEMMA SameShown ==
  ASSUME OwnershipInv, GenerationInv',
         UNCHANGED <<clients, buffers, events, cursor>>,
         frames' = frames \/ FramesLive(clients, frames'),
         SurfacesLive(clients, surfaces'),
         \A s \in SurfaceSlot, b \in BufferHandle :
           Shows(surfaces', s, b) <=> Shows(surfaces, s, b),
         ShownIsHeld(clients, buffers, surfaces', cursor)
  PROVE  OwnershipInv'
<1>1. \A b \in BufferHandle : RefsIn(surfaces', cursor, b) = RefsIn(surfaces, cursor, b)
  BY SameRefs
<1>2. \A i \in BufferSlot : buffers[i].live => <<i, buffers[i].generation>> \in BufferHandle
  BY DEF OwnershipInv, GenerationInv, TypeInv, TypeOK, LiveNamed, BufferSlotType,
         BufferHandle
<1>3. Exact(buffers, surfaces', cursor)
  BY <1>1, <1>2 DEF OwnershipInv, Exact
<1> QED
  BY <1>3 DEF OwnershipInv, SurfacesLive, BuffersLive, FramesLive, EventsLive,
              FocusLive, ShownIsHeld, Held, Exact, RefsIn, Showing, Shows

LEMMA OwnershipSurfaceCreate ==
  ASSUME OwnershipInv, NEW c \in ClientHandle, SurfaceCreate(c)
  PROVE  OwnershipInv'
<1>0. [Next]_vars /\ GenerationInv
  BY DEF Next, OwnershipInv
<1>1. GenerationInv'
  BY <1>0, NextGenerationInv
<1>2. UNCHANGED <<clients, buffers, frames, events, cursor>> /\ IsLive(clients, c)
  BY DEF SurfaceCreate, ClientOk
<1> DEFINE i == Lowest(Allocatable(surfaces))
<1>3. i \in SurfaceSlot /\ ~surfaces[i].live
  BY <1>0, CapacityAssumption, AllocatableIn
     DEF GenerationInv, TypeInv, TypeOK, SurfaceCreate, SurfaceSlot
<1>4. surfaces' = [surfaces EXCEPT ![i] = BlankSurface(TRUE, @.generation, c)]
  BY DEF SurfaceCreate
<1>5. surfaces \in [SurfaceSlot -> SurfaceSlotType]
  BY <1>0 DEF GenerationInv, TypeInv, TypeOK
<1> HIDE DEF i
<1>6. /\ surfaces'[i].owner = c /\ surfaces'[i].buffer = NoHandle
      /\ ~surfaces'[i].attach
  BY <1>3, <1>4, <1>5 DEF BlankSurface
<1>7. \A s \in SurfaceSlot \ {i} : surfaces'[s] = surfaces[s]
  BY <1>4, <1>5
<1>8. SurfacesLive(clients, surfaces')
  BY <1>2, <1>6, <1>7 DEF OwnershipInv, SurfacesLive
<1>9. ShownIsHeld(clients, buffers, surfaces', cursor)
  BY <1>6, <1>7 DEF OwnershipInv, ShownIsHeld
<1>10. \A s \in SurfaceSlot, b \in BufferHandle :
         Shows(surfaces', s, b) <=> Shows(surfaces, s, b)
  BY <1>3, <1>6, <1>7, HandleParts DEF Shows
<1> QED
  BY <1>1, <1>2, <1>8, <1>9, <1>10, SameShown

LEMMA OwnershipSurfaceAttach ==
  ASSUME OwnershipInv, NEW c \in ClientHandle, NEW s \in SurfaceHandle,
         NEW b \in BufferHandle \cup {NoHandle}, SurfaceAttach(c, s, b)
  PROVE  OwnershipInv'
<1>0. [Next]_vars /\ GenerationInv
  BY DEF Next, OwnershipInv
<1>1. GenerationInv'
  BY <1>0, NextGenerationInv
<1>2. /\ UNCHANGED <<clients, buffers, frames, events, cursor>>
      /\ surfaces[s[1]].owner = c
      /\ b # NoHandle => Held(clients, buffers, c, b)
  BY DEF SurfaceAttach, OwnedSurface, OwnedBuffer, ClientOk, BufferOk, Held
<1>3. surfaces \in [SurfaceSlot -> SurfaceSlotType] /\ s[1] \in SurfaceSlot
  BY <1>0, HandleParts DEF GenerationInv, TypeInv, TypeOK
<1>4. surfaces' = [surfaces EXCEPT ![s[1]].pending_buffer = b, ![s[1]].attach = TRUE]
  BY DEF SurfaceAttach
<1>5. \A k \in SurfaceSlot :
        /\ surfaces'[k].live = surfaces[k].live
        /\ surfaces'[k].owner = surfaces[k].owner
        /\ surfaces'[k].buffer = surfaces[k].buffer
  BY <1>3, <1>4 DEF SurfaceSlotType
<1>6. /\ surfaces'[s[1]].pending_buffer = b
      /\ \A k \in SurfaceSlot \ {s[1]} : surfaces'[k] = surfaces[k]
  BY <1>3, <1>4 DEF SurfaceSlotType
<1>7. SurfacesLive(clients, surfaces')
  BY <1>5 DEF OwnershipInv, SurfacesLive
<1>8. ShownIsHeld(clients, buffers, surfaces', cursor)
  BY <1>2, <1>5, <1>6 DEF OwnershipInv, ShownIsHeld
<1>9. \A k \in SurfaceSlot, h \in BufferHandle :
        Shows(surfaces', k, h) <=> Shows(surfaces, k, h)
  BY <1>5 DEF Shows
<1> QED
  BY <1>1, <1>2, <1>7, <1>8, <1>9, SameShown

LEMMA OwnershipSurfaceFrame ==
  ASSUME OwnershipInv, NEW c \in ClientHandle, NEW s \in SurfaceHandle,
         NEW t \in Token, SurfaceFrame(c, s, t)
  PROVE  OwnershipInv'
<1>0. [Next]_vars /\ GenerationInv
  BY DEF Next, OwnershipInv
<1>1. GenerationInv'
  BY <1>0, NextGenerationInv
<1>2. UNCHANGED <<clients, buffers, frames, events, cursor>>
  BY DEF SurfaceFrame
<1>3. \A k \in SurfaceSlot :
        /\ surfaces'[k].live = surfaces[k].live
        /\ surfaces'[k].owner = surfaces[k].owner
        /\ surfaces'[k].buffer = surfaces[k].buffer
        /\ surfaces'[k].attach = surfaces[k].attach
        /\ surfaces'[k].pending_buffer = surfaces[k].pending_buffer
  BY <1>0 DEF SurfaceFrame, GenerationInv, TypeInv, TypeOK, SurfaceSlotType
<1>4. SurfacesLive(clients, surfaces')
  BY <1>3 DEF OwnershipInv, SurfacesLive
<1>5. ShownIsHeld(clients, buffers, surfaces', cursor)
  BY <1>3 DEF OwnershipInv, ShownIsHeld
<1>6. \A k \in SurfaceSlot, b \in BufferHandle :
        Shows(surfaces', k, b) <=> Shows(surfaces, k, b)
  BY <1>3 DEF Shows
<1> QED
  BY <1>1, <1>2, <1>4, <1>5, <1>6, SameShown

\* Frames and events come from frames and go to the queues of their owners.
LEMMA OwnershipFrames ==
  ASSUME OwnershipInv,
         BuildFrame \/ PresentDone \/ \E c \in ClientHandle : NextEvent(c)
  PROVE  OwnershipInv'
<1>0. [Next]_vars /\ GenerationInv
  BY DEF Next, OwnershipInv
<1>1. GenerationInv'
  BY <1>0, NextGenerationInv
<1>2. UNCHANGED <<clients, surfaces, buffers, cursor>>
  BY DEF BuildFrame, PresentDone, NextEvent
<1>3. frames \in [FrameSlot -> FrameSlotType] /\ events \in [ClientHandle -> Seq(Event)]
  BY <1>0 DEF GenerationInv, TypeInv, TypeOK
<1>4. FramesLive(clients, frames')
  <2> SUFFICES ASSUME NEW i \in FrameSlot, frames'[i].state # "FREE"
               PROVE  IsLive(clients, frames'[i].owner)
    BY DEF FramesLive
  <2>1. frames[i].state # "FREE" /\ frames'[i].owner = frames[i].owner
    <3>1. CASE BuildFrame
      <4>1. PICK shown \in SUBSET Mapped :
              frames' = [j \in FrameSlot |->
                           IF frames[j].state = "WAITING"
                           THEN [frames[j] EXCEPT
                                   !.state = "ASSIGNED",
                                   !.status = Completion(frames[j], shown)]
                           ELSE frames[j]]
        BY <3>1 DEF BuildFrame
      <4> QED
        BY <1>3, <4>1 DEF FrameSlotType
    <3>2. CASE PresentDone
      BY <1>3, <3>2 DEF PresentDone, FreeFrame
    <3>3. CASE \E c \in ClientHandle : NextEvent(c)
      BY <3>3 DEF NextEvent
    <3> QED
      BY <3>1, <3>2, <3>3
  <2> QED
    BY <2>1 DEF OwnershipInv, FramesLive
<1>5. EventsLive(clients, events')
  <2> SUFFICES ASSUME NEW c \in ClientHandle, events'[c] # <<>>
               PROVE  IsLive(clients, c)
    BY DEF EventsLive
  <2>1. CASE events[c] # <<>>
    BY <2>1 DEF OwnershipInv, EventsLive
  <2>2. CASE events[c] = <<>> /\ PresentDone
    <3>1. AssignedOf(c) # {}
      <4> SUFFICES ASSUME AssignedOf(c) = {} PROVE FALSE
        OBVIOUS
      <4>1. Cardinality(AssignedOf(c)) = 0
        BY FS_EmptySet
      <4>2. FrameDoneBatch(c) = <<>>
        <5>1. Overdraft(c) = 0
          BY <1>0, <4>1, OverdraftInt DEF Overdraft, GenerationInv, TypeInv
        <5> QED
          BY <4>1, <5>1 DEF FrameDoneBatch
      <4>3. events'[c] = events[c] \o FrameDoneBatch(c)
        BY <2>2 DEF PresentDone
      <4> QED
        BY <2>2, <4>2, <4>3
    <3>2. PICK i \in FrameSlot : frames[i].state # "FREE" /\ frames[i].owner = c
      BY <3>1 DEF AssignedOf, FrameSlotsOf
    <3> QED
      BY <3>2 DEF OwnershipInv, FramesLive
  <2>3. CASE events[c] = <<>> /\ BuildFrame
    BY <2>3 DEF BuildFrame
  <2>4. CASE events[c] = <<>> /\ \E d \in ClientHandle : NextEvent(d)
    BY <1>3, <2>4 DEF NextEvent
  <2> QED
    BY <2>1, <2>2, <2>3, <2>4
<1> QED
  BY <1>1, <1>2, <1>4, <1>5
     DEF OwnershipInv, SurfacesLive, BuffersLive, FramesLive, EventsLive,
         FocusLive, ShownIsHeld, Held, Exact, RefsIn, Showing, Shows
\* A shown buffer is counted.
LEMMA ShownIsCounted ==
  ASSUME OwnershipInv, NEW b \in BufferHandle, BufferOk(b),
         cursor.buffer = b \/ \E s \in SurfaceSlot : surfaces[s].live /\ surfaces[s].buffer = b
  PROVE  buffers[b[1]].ref_count > 0
<1>1. /\ b[1] \in BufferSlot /\ buffers[b[1]].live
      /\ b = <<b[1], buffers[b[1]].generation>>
  BY HandleParts DEF BufferOk, IsLive, BufferHandle
<1>2. buffers[b[1]].ref_count = RefsIn(surfaces, cursor, b)
  BY <1>1 DEF OwnershipInv, Exact
<1> QED
  BY <1>2, RefsInNat DEF Showing, Shows

\* What the calls that exchange a shown buffer have in common.
LEMMA MoveStep ==
  ASSUME OwnershipInv, GenerationInv', UNCHANGED clients,
         NEW old \in BufferHandle \cup {NoHandle},
         NEW new \in BufferHandle \cup {NoHandle}, new # old,
         old # NoHandle =>
           /\ BufferOk(old)
           /\ buffers[old[1]].ref_count > 0
           /\ ReleaseHasRoom(old, buffers[old[1]].owner),
         new # NoHandle => BufferOk(new),
         buffers' = Unref(Ref(buffers, new), old),
         events' = EventsAfterUnref(old),
         \A b \in BufferHandle :
           RefsIn(surfaces', cursor', b)
             = RefsIn(surfaces, cursor, b) + Moved(old, new, b),
         SurfacesLive(clients, surfaces'),
         FramesLive(clients, frames'),
         FocusLive(clients, cursor'),
         ShownIsHeld(clients, buffers, surfaces', cursor')
  PROVE  OwnershipInv'
<1>1. buffers \in [BufferSlot -> BufferSlotType]
  BY DEF OwnershipInv, GenerationInv, TypeInv, TypeOK
<1>2. \A i \in BufferSlot : /\ buffers'[i].live = buffers[i].live
                            /\ buffers'[i].generation = buffers[i].generation
                            /\ buffers'[i].owner = buffers[i].owner
  BY <1>1, RefType, RefKeeps, UnrefKeeps
<1>3. \A d, h \in BufferHandle :
        Held(clients, buffers, d, h) => Held(clients', buffers', d, h)
  BY <1>2, HandleParts DEF Held, IsLive
<1>4. ShownIsHeld(clients', buffers', surfaces', cursor')
  <2>1. /\ \A s \in SurfaceSlot :
             /\ surfaces'[s].buffer \in BufferHandle \cup {NoHandle}
             /\ surfaces'[s].pending_buffer \in BufferHandle \cup {NoHandle}
        /\ cursor'.buffer \in BufferHandle \cup {NoHandle}
    BY DEF GenerationInv, TypeInv, TypeOK, SurfaceSlotType, CursorType
  <2>2. ASSUME NEW d, NEW h \in BufferHandle \cup {NoHandle}, h # NoHandle,
               Held(clients, buffers, d, h)
        PROVE  Held(clients', buffers', d, h)
    <3>1. h \in BufferHandle
      BY <2>2
    <3> QED
      BY <1>2, <2>2, <3>1, HandleParts DEF Held, IsLive
  <2> QED
    BY <2>1, <2>2 DEF ShownIsHeld
<1>5. Exact(buffers', surfaces', cursor')
  BY MoveKeepsExact DEF OwnershipInv
<1>6. BuffersLive(clients', buffers')
  BY <1>2 DEF OwnershipInv, BuffersLive
<1>7. EventsLive(clients', events')
  <2>1. CASE events' = events
    BY <2>1 DEF OwnershipInv, EventsLive
  <2>2. CASE events' # events
    <3>1. /\ old # NoHandle
          /\ events' = [events EXCEPT ![buffers[old[1]].owner]
                          = Append(@, ReleaseEvent(old))]
      BY <2>2 DEF EventsAfterUnref, IsLastUse
    <3>2. IsLive(clients, buffers[old[1]].owner)
      BY <3>1, HandleParts DEF OwnershipInv, BuffersLive, BufferOk, IsLive
    <3> QED
      BY <3>1, <3>2 DEF OwnershipInv, EventsLive, GenerationInv, TypeInv, TypeOK
  <2> QED
    BY <2>1, <2>2
<1> QED
  BY <1>4, <1>5, <1>6, <1>7 DEF OwnershipInv, SurfacesLive, FramesLive, FocusLive

LEMMA TokenToFrameLive ==
  ASSUME OwnershipInv, NEW c, IsLive(clients, c), NEW s, NEW sequence, NEW status
  PROVE  FramesLive(clients, TokenToFrame(c, s, sequence, status))
<1>1. FramesLive(clients, frames) /\ frames \in [FrameSlot -> FrameSlotType]
  BY DEF OwnershipInv, GenerationInv, TypeInv, TypeOK
<1> DEFINE f == [state |-> "WAITING", owner |-> c, surface |-> s,
                 token |-> surfaces[s[1]].frame_token,
                 commit_sequence |-> sequence, status |-> status]
<1>2. f.owner = c
  OBVIOUS
<1>3. \/ TokenToFrame(c, s, sequence, status) = frames
      \/ TokenToFrame(c, s, sequence, status)
           = [frames EXCEPT ![Lowest(FreeFrameSlots)] = f]
  BY DEF TokenToFrame
<1> HIDE DEF f
<1> QED
  BY <1>1, <1>2, <1>3 DEF FramesLive

LEMMA OwnershipSurfaceCommit ==
  ASSUME OwnershipInv, NEW c \in ClientHandle, NEW s \in SurfaceHandle,
         SurfaceCommit(c, s)
  PROVE  OwnershipInv'
<1>0. [Next]_vars /\ GenerationInv
  BY DEF Next, OwnershipInv
<1>1. GenerationInv'
  BY <1>0, NextGenerationInv
<1> DEFINE k == s[1]
           old == surfaces[k].buffer
           new == IF surfaces[k].attach THEN surfaces[k].pending_buffer ELSE old
<1>2. /\ surfaces \in [SurfaceSlot -> SurfaceSlotType]
      /\ k \in SurfaceSlot
      /\ old \in BufferHandle \cup {NoHandle}
      /\ new \in BufferHandle \cup {NoHandle}
  BY <1>0, HandleParts DEF GenerationInv, TypeInv, TypeOK, SurfaceSlotType
<1>3. /\ surfaces[k].live /\ surfaces[k].owner = c
      /\ IsLive(clients, c)
      /\ new # NoHandle => Held(clients, buffers, c, new)
      /\ new # old => ReleaseHasRoom(old, c)
      /\ UNCHANGED <<clients, cursor>>
      /\ IF new = old THEN UNCHANGED <<buffers, events>>
         ELSE /\ buffers' = Unref(Ref(buffers, new), old)
              /\ events' = EventsAfterUnref(old)
  BY DEF SurfaceCommit, OwnedSurface, OwnedBuffer, ClientOk, SurfaceOk, BufferOk,
         Held, IsLive
<1>4. PICK seq :
        /\ surfaces' = [surfaces EXCEPT ![k] =
                          [@ EXCEPT !.buffer = new, !.commit_sequence = seq,
                                    !.attach = FALSE, !.frame_token = NoToken]]
        /\ frames' = TokenToFrame(c, s, seq, "NONE")
  BY DEF SurfaceCommit
<1> HIDE DEF new
<1>5. /\ surfaces'[k].live /\ surfaces'[k].owner = c
      /\ surfaces'[k].buffer = new /\ ~surfaces'[k].attach
  BY <1>2, <1>3, <1>4 DEF SurfaceSlotType
<1>6. \A j \in SurfaceSlot \ {k} : surfaces'[j] = surfaces[j]
  BY <1>2, <1>4
<1> HIDE DEF k
<1>7. SurfacesLive(clients, surfaces')
  BY <1>3, <1>5, <1>6 DEF OwnershipInv, SurfacesLive
<1>8. FramesLive(clients, frames')
  BY <1>3, <1>4, TokenToFrameLive
<1>9. ShownIsHeld(clients, buffers, surfaces', cursor')
  BY <1>3, <1>5, <1>6 DEF OwnershipInv, ShownIsHeld
<1>10. CASE new = old
  <2>1. \A j \in SurfaceSlot, b \in BufferHandle :
          Shows(surfaces', j, b) <=> Shows(surfaces, j, b)
    BY <1>3, <1>5, <1>6, <1>10 DEF Shows
  <2> QED
    BY <1>1, <1>3, <1>7, <1>8, <1>9, <1>10, <2>1, SameShown
<1>11. CASE new # old
  <2>1. old # NoHandle =>
          /\ BufferOk(old)
          /\ buffers[old[1]].ref_count > 0
          /\ ReleaseHasRoom(old, buffers[old[1]].owner)
    <3> SUFFICES ASSUME old # NoHandle
                 PROVE  /\ BufferOk(old)
                        /\ buffers[old[1]].ref_count > 0
                        /\ ReleaseHasRoom(old, buffers[old[1]].owner)
      OBVIOUS
    <3>1. BufferOk(old) /\ buffers[old[1]].owner = c
      BY <1>2, <1>3 DEF OwnershipInv, ShownIsHeld, Held, BufferOk
    <3>2. buffers[old[1]].ref_count > 0
      BY <1>2, <1>3, <3>1, ShownIsCounted
    <3> QED
      BY <1>3, <1>11, <3>1, <3>2
  <2>2. new # NoHandle => BufferOk(new)
    BY <1>3 DEF Held, BufferOk
  <2>3. ASSUME NEW b \in BufferHandle
        PROVE  RefsIn(surfaces', cursor', b)
                 = RefsIn(surfaces, cursor, b) + Moved(old, new, b)
    <3>1. \A j \in SurfaceSlot \ {k} :
            Shows(surfaces', j, b) <=> Shows(surfaces, j, b)
      BY <1>6 DEF Shows
    <3>2. Shows(surfaces', k, b) <=> b = new
      BY <1>5 DEF Shows
    <3>3. Shows(surfaces, k, b) <=> b = old
      BY <1>3 DEF Shows
    <3>4. RefsIn(surfaces', cursor, b)
            = RefsIn(surfaces, cursor, b) + Moved(old, new, b)
      <4> HIDE DEF old
      <4> QED
        BY <1>2, <1>11, <3>1, <3>2, <3>3, SurfaceMovesRef
    <3> QED
      BY <1>3, <3>4
  <2> QED
    BY <1>1, <1>2, <1>3, <1>7, <1>8, <1>9, <1>11, <2>1, <2>2, <2>3, MoveStep
       DEF OwnershipInv, FocusLive
<1> QED
  BY <1>10, <1>11

LEMMA OwnershipSurfaceDestroy ==
  ASSUME OwnershipInv, NEW c \in ClientHandle, NEW s \in SurfaceHandle,
         SurfaceDestroy(c, s)
  PROVE  OwnershipInv'
<1>0. [Next]_vars /\ GenerationInv
  BY DEF Next, OwnershipInv
<1>1. GenerationInv'
  BY <1>0, NextGenerationInv
<1> DEFINE k == s[1]
           old == surfaces[k].buffer
<1>2. /\ surfaces \in [SurfaceSlot -> SurfaceSlotType]
      /\ k \in SurfaceSlot
      /\ old \in BufferHandle \cup {NoHandle}
      /\ surfaces[k].commit_sequence \in 0 .. MaxCommit
  BY <1>0, HandleParts DEF GenerationInv, TypeInv, TypeOK, SurfaceSlotType
<1>3. /\ surfaces[k].live /\ surfaces[k].owner = c
      /\ IsLive(clients, c)
      /\ ReleaseHasRoom(old, c)
      /\ UNCHANGED <<clients, cursor>>
      /\ buffers' = Unref(buffers, old)
      /\ events' = EventsAfterUnref(old)
      /\ surfaces' = [surfaces EXCEPT
                        ![k] = BlankSurface(FALSE, NextGeneration(s[2]), NoHandle)]
  BY DEF SurfaceDestroy, OwnedSurface, ClientOk, SurfaceOk, IsLive
<1>4. /\ ~surfaces'[k].live
      /\ \A j \in SurfaceSlot \ {k} : surfaces'[j] = surfaces[j]
  BY <1>2, <1>3 DEF BlankSurface
<1>5. FramesLive(clients, frames')
  <2> DEFINE F == TokenToFrame(c, s, surfaces[k].commit_sequence, "CANCELLED")
  <2>1. F \in [FrameSlot -> FrameSlotType]
    BY <1>0, <1>2, TokenToFrameType
       DEF SurfaceDestroy, GenerationInv, TypeInv, TypeOK, Status
  <2>2. FramesLive(clients, F)
    BY <1>3, TokenToFrameLive
  <2>3. frames' = CancelFrames(F, s)
    BY DEF SurfaceDestroy
  <2> HIDE DEF F
  <2> QED
    BY <2>1, <2>2, <2>3 DEF FramesLive, CancelFrames, FrameSlotType
<1> HIDE DEF k
<1>6. SurfacesLive(clients, surfaces')
  BY <1>4 DEF OwnershipInv, SurfacesLive
<1>7. ShownIsHeld(clients, buffers, surfaces', cursor')
  BY <1>3, <1>4 DEF OwnershipInv, ShownIsHeld
<1>8. CASE old = NoHandle
  <2>1. UNCHANGED <<buffers, events>>
    BY <1>3, <1>8 DEF Unref, EventsAfterUnref, IsLastUse
  <2>2. \A j \in SurfaceSlot, b \in BufferHandle :
          Shows(surfaces', j, b) <=> Shows(surfaces, j, b)
    BY <1>4, <1>8, HandleParts DEF Shows
  <2> QED
    BY <1>1, <1>3, <1>5, <1>6, <1>7, <2>1, <2>2, SameShown
<1>9. CASE old # NoHandle
  <2>1. BufferOk(old) /\ buffers[old[1]].owner = c
    BY <1>2, <1>3, <1>9 DEF OwnershipInv, ShownIsHeld, Held, BufferOk
  <2>2. buffers[old[1]].ref_count > 0
    BY <1>2, <1>3, <1>9, <2>1, ShownIsCounted
  <2>3. ASSUME NEW b \in BufferHandle
        PROVE  RefsIn(surfaces', cursor', b)
                 = RefsIn(surfaces, cursor, b) + Moved(old, NoHandle, b)
    <3>1. b # NoHandle
      BY HandleParts
    <3>2. \A j \in SurfaceSlot \ {k} :
            Shows(surfaces', j, b) <=> Shows(surfaces, j, b)
      BY <1>4 DEF Shows
    <3>3. Shows(surfaces', k, b) <=> b = NoHandle
      BY <1>4, <3>1 DEF Shows
    <3>4. Shows(surfaces, k, b) <=> b = old
      BY <1>3 DEF Shows
    <3>5. RefsIn(surfaces', cursor, b)
            = RefsIn(surfaces, cursor, b) + Moved(old, NoHandle, b)
      <4> HIDE DEF old
      <4> QED
        BY <1>2, <1>9, <3>2, <3>3, <3>4, SurfaceMovesRef
    <3> QED
      BY <1>3, <3>5
  <2>4. buffers' = Unref(Ref(buffers, NoHandle), old)
    BY <1>3 DEF Ref
  <2> QED
    BY <1>1, <1>2, <1>3, <1>5, <1>6, <1>7, <1>9, <2>1, <2>2, <2>3, <2>4, MoveStep
       DEF OwnershipInv, FocusLive
<1> QED
  BY <1>8, <1>9
\* The cursor gives up its image, takes one, or exchanges one for another.
LEMMA CursorMove ==
  ASSUME OwnershipInv, GenerationInv',
         UNCHANGED <<clients, surfaces, frames>>,
         NEW new \in BufferHandle \cup {NoHandle}, new # cursor.buffer,
         cursor'.buffer = new,
         FocusLive(clients, cursor'),
         new # NoHandle => Held(clients, buffers, cursor'.focus_owner, new),
         cursor.buffer # NoHandle =>
           ReleaseHasRoom(cursor.buffer, buffers[cursor.buffer[1]].owner),
         buffers' = Unref(Ref(buffers, new), cursor.buffer),
         events' = EventsAfterUnref(cursor.buffer)
  PROVE  OwnershipInv'
<1>1. cursor.buffer \in BufferHandle \cup {NoHandle}
  BY DEF OwnershipInv, GenerationInv, TypeInv, TypeOK, CursorType
<1>2. cursor.buffer # NoHandle =>
        /\ BufferOk(cursor.buffer)
        /\ buffers[cursor.buffer[1]].ref_count > 0
        /\ ReleaseHasRoom(cursor.buffer, buffers[cursor.buffer[1]].owner)
  <2> SUFFICES ASSUME cursor.buffer # NoHandle
               PROVE  /\ BufferOk(cursor.buffer)
                      /\ buffers[cursor.buffer[1]].ref_count > 0
    OBVIOUS
  <2>1. BufferOk(cursor.buffer)
    BY DEF OwnershipInv, ShownIsHeld, Held, BufferOk
  <2> QED
    BY <1>1, <2>1, ShownIsCounted
<1>3. new # NoHandle => BufferOk(new)
  BY DEF Held, BufferOk
<1>4. \A b \in BufferHandle :
        RefsIn(surfaces', cursor', b)
          = RefsIn(surfaces, cursor, b) + Moved(cursor.buffer, new, b)
  <2> SUFFICES ASSUME NEW b \in BufferHandle
               PROVE  RefsIn(surfaces', cursor', b)
                        = RefsIn(surfaces, cursor, b) + Moved(cursor.buffer, new, b)
    OBVIOUS
  <2>1. RefsIn(surfaces, cursor', b)
          = RefsIn(surfaces, cursor, b) + Moved(cursor.buffer, cursor'.buffer, b)
    BY CursorMovesRef
  <2> QED
    BY <2>1
<1>5. ShownIsHeld(clients, buffers, surfaces', cursor')
  BY DEF OwnershipInv, ShownIsHeld
<1> QED
  BY <1>1, <1>2, <1>3, <1>4, <1>5, MoveStep DEF OwnershipInv

LEMMA OwnershipPointerFocus ==
  ASSUME OwnershipInv, NEW c \in ClientHandle \cup {NoHandle}, PointerFocus(c)
  PROVE  OwnershipInv'
<1>0. [Next]_vars /\ GenerationInv
  BY DEF Next, OwnershipInv
<1>1. GenerationInv'
  BY <1>0, NextGenerationInv
<1>2. /\ UNCHANGED <<clients, surfaces, frames>>
      /\ cursor' = [focus_owner |-> c, buffer |-> NoHandle]
      /\ buffers' = Unref(buffers, cursor.buffer)
      /\ events' = EventsAfterUnref(cursor.buffer)
      /\ FocusLive(clients, cursor')
  BY DEF PointerFocus, FocusLive, ClientOk
<1>3. CASE cursor.buffer = NoHandle
  <2>1. UNCHANGED <<buffers, events>>
    BY <1>2, <1>3 DEF Unref, EventsAfterUnref, IsLastUse
  <2>2. cursor'.buffer = cursor.buffer
    BY <1>2, <1>3
  <2> QED
    BY <1>1, <1>2, <1>3, <2>1, <2>2
       DEF OwnershipInv, SurfacesLive, BuffersLive, FramesLive, EventsLive,
           FocusLive, ShownIsHeld, Held, Exact, RefsIn, Showing, Shows
<1>4. CASE cursor.buffer # NoHandle
  <2>1. buffers' = Unref(Ref(buffers, NoHandle), cursor.buffer)
    BY <1>2 DEF Ref
  <2>2. ReleaseHasRoom(cursor.buffer, buffers[cursor.buffer[1]].owner)
    BY <1>4 DEF PointerFocus
  <2> QED
    BY <1>1, <1>2, <1>4, <2>1, <2>2, CursorMove
<1> QED
  BY <1>3, <1>4

LEMMA OwnershipCursorSetBuffer ==
  ASSUME OwnershipInv, NEW c \in ClientHandle, NEW b \in BufferHandle,
         CursorSetBuffer(c, b)
  PROVE  OwnershipInv'
<1>0. [Next]_vars /\ GenerationInv
  BY DEF Next, OwnershipInv
<1>1. GenerationInv'
  BY <1>0, NextGenerationInv
<1>2. cursor \in CursorType
  BY <1>0 DEF GenerationInv, TypeInv, TypeOK
<1>3. /\ UNCHANGED <<clients, surfaces, frames>>
      /\ cursor.focus_owner = c
      /\ Held(clients, buffers, c, b)
      /\ cursor' = [cursor EXCEPT !.buffer = b]
  BY DEF CursorSetBuffer, OwnedBuffer, ClientOk, BufferOk, Held
<1>4. cursor'.buffer = b /\ cursor'.focus_owner = c
  BY <1>2, <1>3 DEF CursorType
<1>5. CASE b = cursor.buffer
  <2>1. UNCHANGED <<buffers, events>>
    BY <1>5 DEF CursorSetBuffer
  <2> QED
    BY <1>1, <1>3, <1>4, <1>5, <2>1
       DEF OwnershipInv, SurfacesLive, BuffersLive, FramesLive, EventsLive,
           FocusLive, ShownIsHeld, Held, Exact, RefsIn, Showing, Shows
<1>6. CASE b # cursor.buffer
  <2>1. FocusLive(clients, cursor')
    BY <1>3, <1>4 DEF FocusLive, Held
  <2>2. cursor.buffer # NoHandle =>
          ReleaseHasRoom(cursor.buffer, buffers[cursor.buffer[1]].owner)
    BY <1>3, <1>6 DEF CursorSetBuffer, OwnershipInv, ShownIsHeld, Held
  <2>3. /\ buffers' = Unref(Ref(buffers, b), cursor.buffer)
        /\ events' = EventsAfterUnref(cursor.buffer)
    BY <1>6 DEF CursorSetBuffer
  <2> QED
    BY <1>1, <1>3, <1>4, <1>6, <2>1, <2>2, <2>3, CursorMove
<1> QED
  BY <1>5, <1>6

LEMMA OwnershipCursorHide ==
  ASSUME OwnershipInv, NEW c \in ClientHandle, CursorHide(c)
  PROVE  OwnershipInv'
<1>0. [Next]_vars /\ GenerationInv
  BY DEF Next, OwnershipInv
<1>1. GenerationInv'
  BY <1>0, NextGenerationInv
<1>2. cursor'.buffer = NoHandle /\ cursor'.focus_owner = cursor.focus_owner
  BY <1>0 DEF CursorHide, GenerationInv, TypeInv, TypeOK, CursorType
<1>3. FocusLive(clients, cursor')
  BY <1>2 DEF OwnershipInv, FocusLive
<1>4. ReleaseHasRoom(cursor.buffer, buffers[cursor.buffer[1]].owner)
  BY DEF CursorHide, OwnershipInv, ShownIsHeld, Held
<1>5. buffers' = Unref(Ref(buffers, NoHandle), cursor.buffer)
  BY DEF CursorHide, Ref
<1> QED
  BY <1>1, <1>2, <1>3, <1>4, <1>5, CursorMove DEF CursorHide

LEMMA SameCount ==
  ASSUME NEW r \in BufferSlotType
  PROVE  [r EXCEPT !.ref_count = r.ref_count, !.release_armed = r.release_armed] = r
  BY DEF BufferSlotType

\* The buffers of the other clients stay as they are, and as much shown.
LEMMA DisconnectKeepsBuffers ==
  ASSUME OwnershipInv, NEW c \in ClientHandle, ClientDisconnect(c),
         NEW i \in BufferSlot, buffers[i].live, buffers[i].owner # c
  PROVE  /\ buffers'[i] = buffers[i]
         /\ RefsIn(surfaces', cursor', <<i, buffers[i].generation>>)
              = RefsIn(surfaces, cursor, <<i, buffers[i].generation>>)
<1>1. /\ surfaces' = SurfacesWithout(c)
      /\ buffers' = BuffersWithout(c)
      /\ cursor' = CursorWithout(c)
  BY DEF ClientDisconnect
<1>2. buffers \in [BufferSlot -> BufferSlotType]
  BY DEF OwnershipInv, GenerationInv, TypeInv, TypeOK
<1>3. \A s \in SurfaceSlot : surfaces'[s].live =>
        surfaces[s].live /\ surfaces'[s] = surfaces[s]
  BY <1>1 DEF SurfacesWithout, SurfacesOf, BlankSurface
<1>4. \A s \in SurfaceSlot : surfaces[s].live /\ surfaces[s].owner # c =>
        surfaces'[s] = surfaces[s]
  BY <1>1 DEF SurfacesWithout, SurfacesOf
<1> DEFINE b == <<i, buffers[i].generation>>
<1>5. b # NoHandle /\ b[1] = i
  BY DEF OwnershipInv, GenerationInv, LiveNamed, NoHandle, BufferSlot
<1> HIDE DEF b
<1>6. \A s \in SurfacesOf(c) : surfaces[s].buffer # b
  BY <1>5 DEF OwnershipInv, ShownIsHeld, Held, SurfacesOf
<1>7. ~ (cursor.focus_owner = c /\ cursor.buffer = b)
  BY <1>5 DEF OwnershipInv, ShownIsHeld, Held
<1>8. RefsDropped(c, b) = 0
  <2>1. {s \in SurfacesOf(c) : surfaces[s].buffer = b} = {}
    BY <1>6
  <2>2. Cardinality({s \in SurfacesOf(c) : surfaces[s].buffer = b}) = 0
    BY <2>1, FS_EmptySet
  <2> QED
    BY <1>7, <2>2 DEF RefsDropped
<1>9. buffers'[i] = buffers[i]
  <2> DEFINE n == buffers[i].ref_count
             left == IF RefsDropped(c, b) < n THEN n - RefsDropped(c, b) ELSE 0
             armed == /\ buffers[i].release_armed
                      /\ RefsDropped(c, b) = 0 \/ left > 0
  <2>1. buffers'[i] = [buffers[i] EXCEPT !.ref_count = left, !.release_armed = armed]
    BY <1>1 DEF BuffersWithout, b
  <2>2. left = n
    BY <1>2, <1>8 DEF BufferSlotType
  <2>3. armed = buffers[i].release_armed
    BY <1>2, <1>8 DEF BufferSlotType
  <2> HIDE DEF left, armed
  <2> QED
    BY <1>2, <2>1, <2>2, <2>3, SameCount
<1>10. \A s \in SurfaceSlot : Shows(surfaces', s, b) <=> Shows(surfaces, s, b)
  BY <1>3, <1>4, <1>6 DEF Shows, SurfacesOf
<1>11. cursor'.buffer = b <=> cursor.buffer = b
  BY <1>1, <1>5, <1>7 DEF CursorWithout
<1> QED
  BY <1>9, <1>10, <1>11, SameRefs DEF b

\* A disconnect takes the client's buffers and, with them, everything that
\* shows them: nobody else can show a buffer of this client.
LEMMA OwnershipClientDisconnect ==
  ASSUME OwnershipInv, NEW c \in ClientHandle, ClientDisconnect(c)
  PROVE  OwnershipInv'
<1>0. [Next]_vars /\ GenerationInv
  BY DEF Next, OwnershipInv
<1>1. GenerationInv'
  BY <1>0, NextGenerationInv
<1>2. /\ clients' = [clients EXCEPT ![c[1]] = DeadClient(NextGeneration(c[2]))]
      /\ surfaces' = SurfacesWithout(c)
      /\ buffers' = BuffersWithout(c)
      /\ frames' = FramesWithout(c)
      /\ events' = [events EXCEPT ![c] = <<>>]
      /\ cursor' = CursorWithout(c)
      /\ IsLive(clients, c)
  BY DEF ClientDisconnect, ClientOk
<1>3. /\ clients \in [ClientSlot -> ClientSlotType]
      /\ surfaces \in [SurfaceSlot -> SurfaceSlotType]
      /\ buffers \in [BufferSlot -> BufferSlotType]
      /\ frames \in [FrameSlot -> FrameSlotType]
      /\ events \in [ClientHandle -> Seq(Event)]
      /\ cursor \in CursorType
  BY <1>0 DEF GenerationInv, TypeInv, TypeOK
<1>4. ASSUME NEW d \in ClientHandle, IsLive(clients, d), d # c
      PROVE  IsLive(clients', d)
  <2>1. d[1] # c[1]
    BY <1>2, <1>4 DEF IsLive, ClientHandle
  <2> QED
    BY <1>2, <1>3, <1>4, <2>1, HandleParts DEF IsLive
<1>5. \A s \in SurfaceSlot : surfaces'[s].live =>
        /\ surfaces[s].live /\ surfaces[s].owner # c
        /\ surfaces'[s] = surfaces[s]
  BY <1>2 DEF SurfacesWithout, SurfacesOf, BlankSurface
<1>6. \A s \in SurfaceSlot : surfaces[s].live /\ surfaces[s].owner # c =>
        surfaces'[s] = surfaces[s]
  BY <1>2 DEF SurfacesWithout, SurfacesOf
<1>7. cursor'.focus_owner # c
      /\ (cursor'.focus_owner # NoHandle => cursor' = cursor)
      /\ (cursor.focus_owner # c => cursor' = cursor)
  BY <1>2, HandleParts DEF CursorWithout
<1>8. \A s \in SurfaceSlot : surfaces[s].live => surfaces[s].owner \in ClientHandle
  BY <1>3 DEF OwnershipInv, SurfacesLive, IsLive, SurfaceSlotType
<1>9. \A i \in BufferSlot : buffers[i].live => buffers[i].owner \in ClientHandle
  BY <1>3 DEF OwnershipInv, BuffersLive, IsLive, BufferSlotType
<1>10. SurfacesLive(clients', surfaces')
  BY <1>4, <1>5, <1>8 DEF OwnershipInv, SurfacesLive
<1>11. FramesLive(clients', frames')
  <2> SUFFICES ASSUME NEW i \in FrameSlot, frames'[i].state # "FREE"
               PROVE  IsLive(clients', frames'[i].owner)
    BY DEF FramesLive
  <2>1. /\ frames[i].state # "FREE" /\ frames[i].owner # c
        /\ frames'[i].owner = frames[i].owner
    <3>1. frames'[i] = FramesWithout(c)[i] /\ frames[i] \in FrameSlotType
      BY <1>2, <1>3
    <3> QED
      BY <3>1 DEF FramesWithout, FreeFrame, FrameSlotType
  <2>2. IsLive(clients, frames[i].owner) /\ frames[i].owner \in ClientHandle
    BY <1>3, <2>1 DEF OwnershipInv, FramesLive, IsLive, FrameSlotType
  <2> QED
    BY <1>4, <2>1, <2>2
<1>12. EventsLive(clients', events')
  BY <1>2, <1>3, <1>4 DEF OwnershipInv, EventsLive
<1>13. FocusLive(clients', cursor')
  BY <1>3, <1>4, <1>7 DEF OwnershipInv, FocusLive, CursorType
<1>14. ASSUME NEW i \in BufferSlot, buffers[i].live, buffers[i].owner # c
       PROVE  /\ buffers'[i] = buffers[i]
              /\ RefsIn(surfaces', cursor', <<i, buffers[i].generation>>)
                   = RefsIn(surfaces, cursor, <<i, buffers[i].generation>>)
  BY <1>14, DisconnectKeepsBuffers
<1>15. \A i \in BufferSlot : buffers'[i].live =>
         buffers[i].live /\ buffers[i].owner # c
  <2> SUFFICES ASSUME NEW i \in BufferSlot, ~buffers[i].live \/ buffers[i].owner = c
               PROVE  ~buffers'[i].live
    OBVIOUS
  <2> QED
    BY <1>2 DEF BuffersWithout, DeadBuffer
<1>16. Exact(buffers', surfaces', cursor')
  BY <1>14, <1>15 DEF OwnershipInv, Exact
<1>17. BuffersLive(clients', buffers')
  BY <1>4, <1>9, <1>14, <1>15 DEF OwnershipInv, BuffersLive
<1>18. ASSUME NEW d \in ClientHandle, d # c, NEW b \in BufferHandle,
              Held(clients, buffers, d, b)
       PROVE  Held(clients', buffers', d, b)
  <2>1. b[1] \in BufferSlot /\ buffers[b[1]].live /\ buffers[b[1]].owner # c
    BY <1>18, HandleParts DEF Held, IsLive
  <2>2. buffers'[b[1]] = buffers[b[1]]
    BY <1>14, <2>1
  <2> QED
    BY <1>4, <1>18, <2>2 DEF Held, IsLive
<1>19. ShownIsHeld(clients', buffers', surfaces', cursor')
  <2>1. ASSUME NEW s \in SurfaceSlot, surfaces'[s].live
        PROVE  /\ surfaces'[s].buffer # NoHandle =>
                    Held(clients', buffers', surfaces'[s].owner, surfaces'[s].buffer)
               /\ surfaces'[s].attach /\ surfaces'[s].pending_buffer # NoHandle =>
                    Held(clients', buffers', surfaces'[s].owner,
                         surfaces'[s].pending_buffer)
    <3>1. /\ surfaces[s].live /\ surfaces[s].owner # c
          /\ surfaces'[s] = surfaces[s]
          /\ surfaces[s].owner \in ClientHandle
          /\ surfaces[s].buffer \in BufferHandle \cup {NoHandle}
          /\ surfaces[s].pending_buffer \in BufferHandle \cup {NoHandle}
      BY <1>3, <1>5, <1>8, <2>1 DEF SurfaceSlotType
    <3> QED
      BY <1>18, <3>1 DEF OwnershipInv, ShownIsHeld
  <2>2. cursor'.buffer # NoHandle =>
          Held(clients', buffers', cursor'.focus_owner, cursor'.buffer)
    <3> SUFFICES ASSUME cursor'.buffer # NoHandle
                 PROVE  Held(clients', buffers', cursor'.focus_owner, cursor'.buffer)
      OBVIOUS
    <3>1. cursor' = cursor /\ cursor.focus_owner # c
      BY <1>2 DEF CursorWithout
    <3>2. Held(clients, buffers, cursor.focus_owner, cursor.buffer)
      BY <3>1 DEF OwnershipInv, ShownIsHeld
    <3>3. cursor.focus_owner \in ClientHandle /\ cursor.buffer \in BufferHandle
      BY <1>3, <3>1, <3>2 DEF CursorType, Held, IsLive
    <3> QED
      BY <1>18, <3>1, <3>2, <3>3
  <2> QED
    BY <2>1, <2>2 DEF ShownIsHeld
<1> QED
  BY <1>1, <1>10, <1>11, <1>12, <1>13, <1>16, <1>17, <1>19 DEF OwnershipInv

-----------------------------------------------------------------------------
(* Theorems.                                                               *)

LEMMA InitOwnershipInv == Init => OwnershipInv
<1> SUFFICES ASSUME Init PROVE OwnershipInv
  OBVIOUS
<1>1. GenerationInv
  BY InitGenerationInv
<1> QED
  BY <1>1
     DEF Init, OwnershipInv, SurfacesLive, BuffersLive, FramesLive, EventsLive,
         FocusLive, ShownIsHeld, Exact, BlankSurface, DeadBuffer, FreeFrame

LEMMA NextOwnershipInv ==
  ASSUME OwnershipInv, [Next]_vars
  PROVE  OwnershipInv'
<1>1. CASE UNCHANGED vars
  <2>1. GenerationInv'
    BY NextGenerationInv DEF OwnershipInv
  <2> QED
    BY <1>1, <2>1
       DEF vars, OwnershipInv, SurfacesLive, BuffersLive, FramesLive, EventsLive,
           FocusLive, ShownIsHeld, Held, Exact, RefsIn, Showing, Shows
<1>2. CASE ClientCreate
  BY <1>2, OwnershipClientCreate
<1>3. ASSUME NEW c \in ClientHandle,
             \/ ClientDisconnect(c)
             \/ BufferRegister(c)
             \/ SurfaceCreate(c)
             \/ CursorHide(c)
      PROVE  OwnershipInv'
  BY <1>3, OwnershipClientDisconnect, OwnershipBufferRegister,
     OwnershipSurfaceCreate, OwnershipCursorHide
<1>4. ASSUME NEW c \in ClientHandle, NEW b \in BufferHandle,
             BufferUnregister(c, b) \/ CursorSetBuffer(c, b)
      PROVE  OwnershipInv'
  BY <1>4, OwnershipBufferUnregister, OwnershipCursorSetBuffer
<1>5. ASSUME NEW c \in ClientHandle, NEW s \in SurfaceHandle,
             \/ \E b \in BufferHandle \cup {NoHandle} : SurfaceAttach(c, s, b)
             \/ \E t \in Token : SurfaceFrame(c, s, t)
             \/ SurfaceCommit(c, s)
             \/ SurfaceDestroy(c, s)
      PROVE  OwnershipInv'
  BY <1>5, OwnershipSurfaceAttach, OwnershipSurfaceFrame, OwnershipSurfaceCommit,
     OwnershipSurfaceDestroy
<1>6. ASSUME NEW c \in ClientHandle \cup {NoHandle}, PointerFocus(c)
      PROVE  OwnershipInv'
  BY <1>6, OwnershipPointerFocus
<1>7. CASE BuildFrame \/ PresentDone \/ \E c \in ClientHandle : NextEvent(c)
  BY <1>7, OwnershipFrames
<1> QED
  BY <1>1, <1>2, <1>3, <1>4, <1>5, <1>6, <1>7 DEF Next

\* Ownership, shown buffers and reference counts hold together.
THEOREM OwnershipInvariance == Spec => []OwnershipInv
<1>1. OwnershipInv /\ [Next]_vars => OwnershipInv'
  BY NextOwnershipInv
<1> QED
  BY <1>1, InitOwnershipInv, PTL DEF Spec

\* Nothing outlives the client it belongs to, however many clients, surfaces,
\* buffers, frames and events there are.
THEOREM NothingOutlivesItsClient == Spec => []OwnersLive
<1>1. OwnershipInv => OwnersLive
  BY DEF OwnershipInv, SurfacesLive, BuffersLive, FramesLive, EventsLive,
         FocusLive, OwnersLive, ClientOk
<1> QED
  BY <1>1, OwnershipInvariance, PTL

\* No surface and no cursor ever shows, or waits to show, a buffer that is
\* not registered any more: borrowed pixels are read only while they are lent.
THEOREM NoBufferDangles == Spec => []NoDanglingBuffer
<1>1. OwnershipInv => NoDanglingBuffer
  BY DEF OwnershipInv, ShownIsHeld, Held, NoDanglingBuffer, OwnedBuffer, ClientOk,
         BufferOk
<1> QED
  BY <1>1, OwnershipInvariance, PTL

\* ref_count is the number of surfaces and cursors that show the buffer.
THEOREM RefCountsAreExact == Spec => []RefCountExact
<1>1. OwnershipInv => RefCountExact
  BY DEF OwnershipInv, Exact, RefsIn, Showing, Shows, RefCountExact, RefsTo
<1> QED
  BY <1>1, OwnershipInvariance, PTL
-----------------------------------------------------------------------------
(* Isolation.  A disconnect cancels the frames of the client's surfaces:   *)
(* nobody else's frame is one of them, since a frame belongs to the owner  *)
(* of its surface for as long as that surface lives.                       *)

FrameFollowsSurface(F, S) ==
  \A i \in FrameSlot : F[i].state # "FREE" =>
    \/ IsLive(S, F[i].surface) /\ S[F[i].surface[1]].owner = F[i].owner
    \/ Stale(S, F[i].surface)

IsolationInv == OwnershipInv /\ FrameFollowsSurface(frames, surfaces)

\* A surface has one owner all its life.
LEMMA SurfaceKeepsOwner ==
  ASSUME OwnershipInv, [Next]_vars, NEW k \in SurfaceSlot,
         surfaces[k].live, surfaces'[k].live
  PROVE  surfaces'[k].owner = surfaces[k].owner
<1>0. surfaces \in [SurfaceSlot -> SurfaceSlotType]
  BY DEF OwnershipInv, GenerationInv, TypeInv, TypeOK
<1>1. ASSUME NEW c \in ClientHandle, SurfaceCreate(c)
      PROVE  surfaces'[k] = surfaces[k]
  <2>1. Lowest(Allocatable(surfaces)) # k
    BY <1>0, <1>1, CapacityAssumption, AllocatableIn DEF SurfaceCreate, SurfaceSlot
  <2> QED
    BY <1>0, <1>1, <2>1 DEF SurfaceCreate
<1>2. ASSUME NEW c \in ClientHandle, NEW s \in SurfaceHandle,
             \/ \E b \in BufferHandle \cup {NoHandle} : SurfaceAttach(c, s, b)
             \/ \E t \in Token : SurfaceFrame(c, s, t)
      PROVE  surfaces'[k].owner = surfaces[k].owner
  <2>1. CASE \E b \in BufferHandle \cup {NoHandle} : SurfaceAttach(c, s, b)
    BY <1>0, <2>1 DEF SurfaceAttach, SurfaceSlotType
  <2>2. CASE \E t \in Token : SurfaceFrame(c, s, t)
    BY <1>0, <2>2 DEF SurfaceFrame, SurfaceSlotType
  <2> QED
    BY <1>2, <2>1, <2>2
<1>3. ASSUME NEW c \in ClientHandle, NEW s \in SurfaceHandle, SurfaceCommit(c, s)
      PROVE  surfaces'[k].owner = surfaces[k].owner
  <2>1. PICK new, seq :
          surfaces' = [surfaces EXCEPT ![s[1]] =
                         [@ EXCEPT !.buffer = new, !.commit_sequence = seq,
                                   !.attach = FALSE, !.frame_token = NoToken]]
    BY <1>3 DEF SurfaceCommit
  <2> QED
    BY <1>0, <2>1 DEF SurfaceSlotType
<1>4. ASSUME NEW c \in ClientHandle, NEW s \in SurfaceHandle, SurfaceDestroy(c, s)
      PROVE  surfaces'[k].owner = surfaces[k].owner
  <2>1. surfaces' = [surfaces EXCEPT
                       ![s[1]] = BlankSurface(FALSE, NextGeneration(s[2]), NoHandle)]
    BY <1>4 DEF SurfaceDestroy
  <2>2. k # s[1]
    BY <1>0, <2>1 DEF BlankSurface
  <2> QED
    BY <1>0, <2>1, <2>2
<1>5. ASSUME NEW c \in ClientHandle, ClientDisconnect(c)
      PROVE  surfaces'[k].owner = surfaces[k].owner
  BY <1>0, <1>5 DEF ClientDisconnect, SurfacesWithout, BlankSurface
<1> QED
  BY <1>1, <1>2, <1>3, <1>4, <1>5, WhoChangesSurfaces

\* A new frame belongs to the owner of its surface; the others stay with the
\* surface and the owner they have.
LEMMA FrameSource ==
  ASSUME OwnershipInv, [Next]_vars, NEW i \in FrameSlot, frames'[i].state # "FREE"
  PROVE  \/ /\ frames[i].state # "FREE"
            /\ frames'[i].surface = frames[i].surface
            /\ frames'[i].owner = frames[i].owner
         \/ /\ SurfaceOk(frames'[i].surface)
            /\ surfaces[frames'[i].surface[1]].owner = frames'[i].owner
<1> DEFINE Goal(f) ==
             \/ /\ frames[i].state # "FREE"
                /\ f.surface = frames[i].surface
                /\ f.owner = frames[i].owner
             \/ /\ SurfaceOk(f.surface)
                /\ surfaces[f.surface[1]].owner = f.owner
<1>0. TypeOK /\ FramesNamed /\ frames \in [FrameSlot -> FrameSlotType]
  BY DEF OwnershipInv, GenerationInv, TypeInv, TypeOK
<1>1. ASSUME NEW c \in ClientHandle, NEW s \in SurfaceHandle, OwnedSurface(c, s),
             NEW sequence, NEW status,
             TokenToFrame(c, s, sequence, status)[i].state # "FREE"
      PROVE  Goal(TokenToFrame(c, s, sequence, status)[i])
  <2> DEFINE f == [state |-> "WAITING", owner |-> c, surface |-> s,
                   token |-> surfaces[s[1]].frame_token,
                   commit_sequence |-> sequence, status |-> status]
             F == TokenToFrame(c, s, sequence, status)
  <2>1. f.owner = c /\ f.surface = s
    OBVIOUS
  <2>2. F = frames \/ F = [frames EXCEPT ![Lowest(FreeFrameSlots)] = f]
    BY DEF TokenToFrame
  <2> HIDE DEF f
  <2>3. F[i] = frames[i] \/ F[i] = f
    BY <1>0, <2>2
  <2> QED
    BY <1>1, <2>1, <2>3 DEF OwnedSurface
<1>2. ASSUME NEW c \in ClientHandle, NEW s \in SurfaceHandle, SurfaceCommit(c, s)
      PROVE  Goal(frames'[i])
  <2>1. PICK seq : frames' = TokenToFrame(c, s, seq, "NONE")
    BY <1>2 DEF SurfaceCommit
  <2> QED
    BY <1>1, <1>2, <2>1 DEF SurfaceCommit
<1>3. ASSUME NEW c \in ClientHandle, NEW s \in SurfaceHandle, SurfaceDestroy(c, s)
      PROVE  Goal(frames'[i])
  <2> DEFINE F == TokenToFrame(c, s, surfaces[s[1]].commit_sequence, "CANCELLED")
  <2>1. F[i] \in FrameSlotType
    <3>1. surfaces[s[1]].commit_sequence \in 0 .. MaxCommit
      BY <1>0, HandleParts DEF TypeOK, SurfaceSlotType
    <3> QED
      BY <1>0, <1>3, <3>1, TokenToFrameType DEF SurfaceDestroy, Status
  <2>2. OwnedSurface(c, s) /\ frames' = CancelFrames(F, s)
    BY <1>3 DEF SurfaceDestroy
  <2>3. /\ frames'[i].state = F[i].state
        /\ frames'[i].surface = F[i].surface
        /\ frames'[i].owner = F[i].owner
    <3> HIDE DEF F
    <3> QED
      BY <2>1, <2>2 DEF CancelFrames, FrameSlotType
  <2>4. Goal(F[i])
    BY <1>1, <2>2, <2>3
  <2> QED
    BY <2>3, <2>4
<1>4. ASSUME NEW c \in ClientHandle, ClientDisconnect(c)
      PROVE  Goal(frames'[i])
  <2>1. frames'[i] = FramesWithout(c)[i] /\ frames[i] \in FrameSlotType
    BY <1>0, <1>4 DEF ClientDisconnect
  <2> QED
    BY <2>1 DEF FramesWithout, FreeFrame, FrameSlotType
<1>5. CASE BuildFrame
  <2>1. PICK shown \in SUBSET Mapped :
          frames' = [j \in FrameSlot |->
                       IF frames[j].state = "WAITING"
                       THEN [frames[j] EXCEPT
                               !.state = "ASSIGNED",
                               !.status = Completion(frames[j], shown)]
                       ELSE frames[j]]
    BY <1>5 DEF BuildFrame
  <2> QED
    BY <1>0, <2>1 DEF FrameSlotType
<1>6. CASE PresentDone
  BY <1>0, <1>6 DEF PresentDone, FreeFrame
<1>7. \/ UNCHANGED frames
      \/ \E c \in ClientHandle : ClientDisconnect(c)
      \/ \E c \in ClientHandle, s \in SurfaceHandle :
           SurfaceCommit(c, s) \/ SurfaceDestroy(c, s)
      \/ BuildFrame
      \/ PresentDone
  BY DEF Next, vars, ClientCreate, BufferRegister, BufferUnregister, SurfaceCreate,
         SurfaceAttach, SurfaceFrame, PointerFocus, CursorSetBuffer, CursorHide,
         NextEvent
<1> QED
  BY <1>2, <1>3, <1>4, <1>5, <1>6, <1>7

LEMMA NextIsolationInv ==
  ASSUME IsolationInv, [Next]_vars
  PROVE  IsolationInv'
<1>1. OwnershipInv /\ OwnershipInv'
  BY NextOwnershipInv DEF IsolationInv
<1>2. FrameFollowsSurface(frames', surfaces')
  <2> SUFFICES ASSUME NEW i \in FrameSlot, frames'[i].state # "FREE"
               PROVE  \/ /\ IsLive(surfaces', frames'[i].surface)
                         /\ surfaces'[frames'[i].surface[1]].owner = frames'[i].owner
                      \/ Stale(surfaces', frames'[i].surface)
    BY DEF FrameFollowsSurface
  <2> DEFINE h == frames'[i].surface
  <2>1. h \in SurfaceHandle
    <3>1. FramesNamed'
      BY <1>1 DEF OwnershipInv, GenerationInv, TypeInv
    <3> QED
      BY <3>1 DEF FramesNamed, Filled
  <2>2. \/ IsLive(surfaces, h) /\ surfaces[h[1]].owner = frames'[i].owner
        \/ Stale(surfaces, h)
    BY <1>1, FrameSource DEF IsolationInv, FrameFollowsSurface, SurfaceOk
  <2>3. /\ IsLive(surfaces, h) /\ ~IsLive(surfaces', h) => Stale(surfaces', h)
        /\ Stale(surfaces, h) => Stale(surfaces', h)
    <3>1. /\ Named(surfaces) /\ Named(surfaces') /\ LiveNamed(surfaces)
          /\ DOMAIN surfaces = SurfaceSlot /\ DOMAIN surfaces' = SurfaceSlot
      BY <1>1, TablesNamed, TablesNamedNext DEF OwnershipInv, GenerationInv, TypeInv
    <3>2. Advances(surfaces, surfaces')
      BY <1>1, SurfacesAdvance DEF OwnershipInv
    <3> QED
      BY <2>1, <3>1, <3>2, AdvanceStale DEF SurfaceHandle
  <2>4. IsLive(surfaces, h) /\ IsLive(surfaces', h) =>
          surfaces'[h[1]].owner = surfaces[h[1]].owner
    BY <1>1, <2>1, HandleParts, SurfaceKeepsOwner DEF IsLive
  <2> QED
    BY <2>2, <2>3, <2>4
<1> QED
  BY <1>1, <1>2 DEF IsolationInv

\* A live surface has the same owner as each of its frames.
THEOREM IsolationInvariance == Spec => []IsolationInv
<1>1. Init => IsolationInv
  <2> SUFFICES ASSUME Init PROVE IsolationInv
    OBVIOUS
  <2>1. \A i \in FrameSlot : frames[i].state = "FREE"
    BY DEF Init, FreeFrame
  <2> QED
    BY <2>1, InitOwnershipInv DEF IsolationInv, FrameFollowsSurface
<1>2. IsolationInv /\ [Next]_vars => IsolationInv'
  BY NextIsolationInv
<1> QED
  BY <1>1, <1>2, PTL DEF Spec

\* Only its own disconnect ends a client.
LEMMA ClientEndsByDisconnect ==
  ASSUME GenerationInv, [Next]_vars, NEW c \in ClientHandle,
         ClientOk(c), ~IsLive(clients', c)
  PROVE  ClientDisconnect(c)
<1>0. clients \in [ClientSlot -> ClientSlotType] /\ c[1] \in ClientSlot
  BY HandleParts DEF GenerationInv, TypeInv, TypeOK
<1>1. CASE UNCHANGED clients
  BY <1>1 DEF ClientOk, IsLive
<1>2. CASE ClientCreate
  <2>1. PICK i : clients' = [clients EXCEPT ![i].live = TRUE]
    BY <1>2 DEF ClientCreate
  <2> QED
    BY <1>0, <2>1 DEF ClientOk, IsLive, ClientSlotType
<1>3. ASSUME NEW d \in ClientHandle, ClientDisconnect(d)
      PROVE  ClientDisconnect(c)
  <2>1. CASE d = c
    BY <1>3, <2>1
  <2>2. CASE d # c
    <3>1. d[1] # c[1]
      BY <1>3, <2>2 DEF ClientDisconnect, ClientOk, IsLive, ClientHandle
    <3>2. clients'[c[1]] = clients[c[1]]
      BY <1>0, <1>3, <3>1 DEF ClientDisconnect
    <3> QED
      BY <3>2 DEF ClientOk, IsLive
  <2> QED
    BY <2>1, <2>2
<1> QED
  BY <1>1, <1>2, <1>3, WhoChangesClients

\* What DisconnectIsolated says of one step.
IsolatedStep ==
  \A c, d \in ClientHandle :
    ClientOk(c) /\ ~ClientOk(c)' /\ ClientOk(d) /\ d # c =>
      /\ \A s \in SurfaceSlot :
           surfaces[s].live /\ surfaces[s].owner = d => surfaces'[s] = surfaces[s]
      /\ \A b \in BufferSlot :
           buffers[b].live /\ buffers[b].owner = d => buffers'[b] = buffers[b]
      /\ \A i \in FrameSlotsOf(d) : frames'[i] = frames[i]
      /\ events'[d] = events[d]
      /\ cursor.focus_owner = d => cursor' = cursor

\* When a client disconnects, nothing that another client owns changes.
THEOREM DisconnectsAreIsolated == Spec => DisconnectIsolated
<1>1. ASSUME IsolationInv, [Next]_vars
      PROVE  IsolatedStep
  <2> SUFFICES ASSUME NEW c \in ClientHandle, NEW d \in ClientHandle,
                      ClientOk(c), ~ClientOk(c)', ClientOk(d), d # c
               PROVE  /\ \A s \in SurfaceSlot :
                           surfaces[s].live /\ surfaces[s].owner = d
                             => surfaces'[s] = surfaces[s]
                      /\ \A b \in BufferSlot :
                           buffers[b].live /\ buffers[b].owner = d
                             => buffers'[b] = buffers[b]
                      /\ \A i \in FrameSlotsOf(d) : frames'[i] = frames[i]
                      /\ events'[d] = events[d]
                      /\ cursor.focus_owner = d => cursor' = cursor
    BY DEF IsolatedStep
  <2>0. OwnershipInv /\ GenerationInv /\ TypeOK
    BY <1>1 DEF IsolationInv, OwnershipInv, GenerationInv, TypeInv
  <2>1. ClientDisconnect(c)
    BY <1>1, <2>0, ClientEndsByDisconnect DEF ClientOk, IsLive
  <2>2. \A s \in SurfaceSlot :
          surfaces[s].live /\ surfaces[s].owner = d => surfaces'[s] = surfaces[s]
    BY <2>1 DEF ClientDisconnect, SurfacesWithout, SurfacesOf
  <2>3. \A b \in BufferSlot :
          buffers[b].live /\ buffers[b].owner = d => buffers'[b] = buffers[b]
    BY <2>0, <2>1, DisconnectKeepsBuffers
  <2>4. ASSUME NEW i \in FrameSlotsOf(d)
        PROVE  frames'[i] = frames[i]
    <3>1. i \in FrameSlot /\ frames[i].state # "FREE" /\ frames[i].owner = d
      BY DEF FrameSlotsOf
    <3>2. frames[i].surface \in SurfaceHandle
      BY <2>0, <3>1, NamedSurface DEF GenerationInv, TypeInv
    <3>3. ~ \E s \in SurfacesOf(c) : frames[i].surface = <<s, surfaces[s].generation>>
      <4> SUFFICES ASSUME NEW s \in SurfacesOf(c),
                          frames[i].surface = <<s, surfaces[s].generation>>
                   PROVE  FALSE
        OBVIOUS
      <4> DEFINE h == frames[i].surface
                 g == surfaces[s].generation
      <4>1. /\ s \in SurfaceSlot /\ surfaces[s].live /\ surfaces[s].owner = c
            /\ h[1] = s /\ h[2] = g
        BY DEF SurfacesOf
      <4>2. g \in Generation
        BY <3>2, <4>1, HandleParts
      <4>3. ~Stale(surfaces, h)
        BY <4>1, <4>2, CapacityAssumption DEF Stale, Generation
      <4>4. surfaces[h[1]].owner = frames[i].owner
        BY <1>1, <3>1, <4>3 DEF IsolationInv, FrameFollowsSurface
      <4> QED
        BY <3>1, <4>1, <4>4
    <3> QED
      BY <2>1, <3>1, <3>3 DEF ClientDisconnect, FramesWithout
  <2>5. events'[d] = events[d]
    BY <2>0, <2>1 DEF ClientDisconnect, TypeOK
  <2>6. cursor.focus_owner = d => cursor' = cursor
    BY <2>1 DEF ClientDisconnect, CursorWithout
  <2> QED
    BY <2>2, <2>3, <2>4, <2>5, <2>6
<1>2. IsolationInv /\ [Next]_vars => [IsolatedStep]_vars
  BY <1>1
<1>3. DisconnectIsolated <=> [][IsolatedStep]_vars
  BY PTL DEF DisconnectIsolated, IsolatedStep
<1> QED
  BY <1>2, <1>3, IsolationInvariance, PTL DEF Spec
-----------------------------------------------------------------------------
(* Release events.  A step either leaves a client's queue and the count of *)
(* its buffer alone, or exchanges one reference for another, or reads or   *)
(* reports events, which releases nothing.                                 *)

Announced(b) ==
  LET c == buffers[b[1]].owner
  IN  buffers[b[1]].ref_count > 0 /\ buffers'[b[1]].ref_count = 0
        <=> events'[c] = Append(events[c], ReleaseEvent(b))

AnnouncedStep ==
  \A b \in BufferHandle : BufferOk(b) /\ IsLive(buffers', b) => Announced(b)

\* What is known of a live buffer and its owner's queue.
LEMMA LiveBuffer ==
  ASSUME OwnershipInv, NEW b \in BufferHandle, BufferOk(b)
  PROVE  /\ b[1] \in BufferSlot /\ buffers[b[1]] \in BufferSlotType
         /\ buffers[b[1]].live /\ b = <<b[1], buffers[b[1]].generation>>
         /\ buffers[b[1]].ref_count \in Nat
         /\ buffers[b[1]].release_armed <=> buffers[b[1]].ref_count > 0
         /\ buffers[b[1]].owner \in ClientHandle
         /\ events[buffers[b[1]].owner] \in Seq(Event)
<1>1. /\ b[1] \in BufferSlot /\ buffers[b[1]].live
      /\ b = <<b[1], buffers[b[1]].generation>>
  BY HandleParts DEF BufferOk, IsLive, BufferHandle
<1>2. buffers[b[1]] \in BufferSlotType
  BY <1>1 DEF OwnershipInv, GenerationInv, TypeInv, TypeOK
<1>3. buffers[b[1]].owner \in ClientHandle
  BY <1>1, <1>2 DEF OwnershipInv, BuffersLive, IsLive, BufferSlotType
<1> QED
  BY <1>1, <1>2, <1>3
     DEF OwnershipInv, Exact, BufferSlotType, GenerationInv, TypeInv, TypeOK

LEMMA NotAppended ==
  ASSUME NEW s \in Seq(Event), NEW e
  PROVE  /\ s # Append(s, e)
         /\ \A d : Append(s, d) = Append(s, e) => d = e
         /\ s # <<>> => Tail(s) # Append(s, e)
         /\ <<>> # Append(s, e)
<1>1. Len(s) \in Nat /\ Len(Append(s, e)) = Len(s) + 1
  OBVIOUS
<1>2. \A d : Append(s, d)[Len(s) + 1] = d
  BY <1>1
<1>3. s # <<>> => Len(Tail(s)) = Len(s) - 1
  OBVIOUS
<1>4. Len(<<>>) = 0
  OBVIOUS
<1>5. s # Append(s, e) /\ <<>> # Append(s, e)
  BY <1>1, <1>4
<1>6. s # <<>> => Tail(s) # Append(s, e)
  BY <1>1, <1>3
<1> QED
  BY <1>2, <1>5, <1>6

\* Nothing about the buffer changes.
LEMMA KeptAnnounced ==
  ASSUME OwnershipInv, NEW b \in BufferHandle, BufferOk(b),
         buffers'[b[1]].ref_count = buffers[b[1]].ref_count,
         events'[buffers[b[1]].owner] = events[buffers[b[1]].owner]
  PROVE  Announced(b)
  BY LiveBuffer, NotAppended DEF Announced

\* A shown buffer is exchanged for another.
LEMMA MoveAnnounced ==
  ASSUME OwnershipInv, NEW b \in BufferHandle, BufferOk(b),
         NEW old \in BufferHandle \cup {NoHandle},
         NEW new \in BufferHandle \cup {NoHandle}, new # old,
         old # NoHandle =>
           /\ BufferOk(old)
           /\ buffers[old[1]].ref_count > 0
           /\ ReleaseHasRoom(old, buffers[old[1]].owner),
         new # NoHandle => BufferOk(new),
         buffers' = Unref(Ref(buffers, new), old),
         events' = EventsAfterUnref(old)
  PROVE  Announced(b)
<1> DEFINE R == Ref(buffers, new)
           c == buffers[b[1]].owner
           n == buffers[b[1]].ref_count
<1>0. /\ buffers \in [BufferSlot -> BufferSlotType] /\ R \in [BufferSlot -> BufferSlotType]
      /\ events \in [ClientHandle -> Seq(Event)]
  BY RefType DEF OwnershipInv, GenerationInv, TypeInv, TypeOK
<1>1. /\ b[1] \in BufferSlot /\ n \in Nat /\ c \in ClientHandle
      /\ events[c] \in Seq(Event) /\ b # NoHandle
  BY LiveBuffer, HandleParts
<1>2. R[b[1]].ref_count \in Nat /\ R[b[1]].ref_count >= n /\ (new # NoHandle => R[b[1]].ref_count = IF b[1] = new[1] THEN n + 1 ELSE n)
      /\ (new = NoHandle => R[b[1]].ref_count = n)
  <2>1. CASE new = NoHandle
    BY <1>1, <2>1 DEF Ref
  <2>2. CASE new # NoHandle
    <3> DEFINE armed == buffers[new[1]].ref_count = 0 \/ buffers[new[1]].release_armed
    <3>1. R = [buffers EXCEPT ![new[1]].ref_count = @ + 1, ![new[1]].release_armed = armed]
      BY <2>2 DEF Ref
    <3>2. new[1] \in BufferSlot
      BY <2>2, HandleParts
    <3> HIDE DEF armed, R
    <3>3. R[b[1]].ref_count = IF b[1] = new[1] THEN n + 1 ELSE n
      BY <1>0, <1>1, <3>1, <3>2 DEF BufferSlotType
    <3> QED
      BY <1>1, <2>2, <3>3
  <2> QED
    BY <2>1, <2>2
<1>3. \A h \in BufferHandle : BufferOk(h) /\ h # b => h[1] # b[1]
  BY LiveBuffer
<1>4. CASE b = old
  <2>1. n > 0 /\ (buffers[b[1]].release_armed <=> n > 0) /\ ReleaseHasRoom(b, c)
    BY <1>1, <1>4, LiveBuffer
  <2>2. R[b[1]].ref_count = n
    BY <1>2, <1>3, <1>4
  <2>3. buffers'[b[1]].ref_count = n - 1
    <3> DEFINE gone == IsLastUse(b) /\ CanPushEvent(R[b[1]].owner)
    <3> HIDE DEF gone, R
    <3>1. Unref(R, b) = [R EXCEPT ![b[1]].ref_count = @ - 1, ![b[1]].release_armed = @ /\ ~gone]
      <4>1. R[b[1]].ref_count # 0
        BY <1>1, <2>1, <2>2
      <4> QED
        BY <1>1, <4>1 DEF Unref, gone
    <3>2. Unref(R, b)[b[1]].ref_count = R[b[1]].ref_count - 1
      BY <1>0, <1>1, <3>1 DEF BufferSlotType
    <3> QED
      BY <1>4, <2>2, <3>2 DEF R
  <2>4. IsLastUse(b) <=> n = 1
    BY <1>1, <2>1 DEF IsLastUse
  <2>5. CASE n = 1
    <3>1. CanPushEvent(c)
      BY <2>1, <2>4, <2>5 DEF ReleaseHasRoom
    <3>2. events' = [events EXCEPT ![c] = Append(@, ReleaseEvent(b))]
      BY <1>4, <2>4, <2>5, <3>1 DEF EventsAfterUnref
    <3>3. events'[c] = Append(events[c], ReleaseEvent(b))
      BY <1>0, <1>1, <3>2
    <3> QED
      BY <2>1, <2>3, <2>5, <3>3 DEF Announced
  <2>6. CASE n # 1
    <3>1. events' = events
      BY <1>4, <2>4, <2>6 DEF EventsAfterUnref
    <3>2. buffers'[b[1]].ref_count # 0
      BY <1>1, <2>3, <2>6
    <3>3. events'[c] # Append(events[c], ReleaseEvent(b))
      BY <1>1, <3>1, NotAppended
    <3> QED
      BY <3>2, <3>3 DEF Announced
  <2> QED
    BY <2>5, <2>6
<1>5. CASE b # old
  <2>1. buffers'[b[1]].ref_count = R[b[1]].ref_count
    <3>1. CASE old = NoHandle
      BY <3>1 DEF Unref
    <3>2. CASE old # NoHandle
      <4> DEFINE gone == IsLastUse(old) /\ CanPushEvent(R[old[1]].owner)
      <4> HIDE DEF gone, R
      <4>1. old[1] # b[1]
        BY <1>3, <1>5, <3>2
      <4>2. \/ Unref(R, old) = R
            \/ Unref(R, old) = [R EXCEPT ![old[1]].ref_count = @ - 1,
                                         ![old[1]].release_armed = @ /\ ~gone]
        BY <3>2 DEF Unref, gone
      <4>3. Unref(R, old)[b[1]] = R[b[1]]
        BY <1>0, <1>1, <4>1, <4>2
      <4> QED
        BY <4>3 DEF R
    <3> QED
      BY <3>1, <3>2
  <2>2. ~ (n > 0 /\ buffers'[b[1]].ref_count = 0)
    BY <1>1, <1>2, <2>1
  <2>3. events'[c] # Append(events[c], ReleaseEvent(b))
    <3>1. CASE events' = events
      BY <1>1, <3>1, NotAppended
    <3>2. CASE events' # events
      <4> DEFINE d == buffers[old[1]].owner
      <4>1. events' = [events EXCEPT ![d] = Append(@, ReleaseEvent(old))]
        BY <3>2 DEF EventsAfterUnref
      <4>2. events'[c] = events[c] \/ events'[c] = Append(events[c], ReleaseEvent(old))
        BY <1>0, <1>1, <4>1
      <4>3. ReleaseEvent(old) # ReleaseEvent(b)
        <5>1. ReleaseEvent(old).object = old /\ ReleaseEvent(b).object = b
          BY DEF ReleaseEvent
        <5> QED
          BY <1>5, <5>1
      <4> QED
        BY <1>1, <4>2, <4>3, NotAppended
    <3> QED
      BY <3>1, <3>2
  <2> QED
    BY <2>2, <2>3 DEF Announced
<1> QED
  BY <1>4, <1>5

LEMMA CommitAnnounced ==
  ASSUME OwnershipInv, NEW c \in ClientHandle, NEW s \in SurfaceHandle,
         SurfaceCommit(c, s)
  PROVE  AnnouncedStep
<1> DEFINE k == s[1]
           old == surfaces[k].buffer
           new == IF surfaces[k].attach THEN surfaces[k].pending_buffer ELSE old
<1>1. /\ surfaces \in [SurfaceSlot -> SurfaceSlotType] /\ k \in SurfaceSlot
      /\ old \in BufferHandle \cup {NoHandle} /\ new \in BufferHandle \cup {NoHandle}
  BY HandleParts DEF OwnershipInv, GenerationInv, TypeInv, TypeOK, SurfaceSlotType
<1>2. /\ surfaces[k].live /\ surfaces[k].owner = c
      /\ new # NoHandle => BufferOk(new)
      /\ new # old => ReleaseHasRoom(old, c)
      /\ IF new = old THEN UNCHANGED <<buffers, events>>
         ELSE /\ buffers' = Unref(Ref(buffers, new), old)
              /\ events' = EventsAfterUnref(old)
  BY DEF SurfaceCommit, OwnedSurface, OwnedBuffer, SurfaceOk, IsLive
<1> HIDE DEF new
<1>3. CASE new = old
  BY <1>2, <1>3, KeptAnnounced DEF AnnouncedStep
<1>4. CASE new # old
  <2>1. old # NoHandle => BufferOk(old) /\ buffers[old[1]].owner = c
    BY <1>1, <1>2 DEF OwnershipInv, ShownIsHeld, Held, BufferOk
  <2>2. old # NoHandle => buffers[old[1]].ref_count > 0
    BY <1>1, <1>2, <2>1, ShownIsCounted
  <2> HIDE DEF old
  <2> QED
    BY <1>1, <1>2, <1>4, <2>1, <2>2, MoveAnnounced DEF AnnouncedStep
<1> QED
  BY <1>3, <1>4

LEMMA DestroyAnnounced ==
  ASSUME OwnershipInv, NEW c \in ClientHandle, NEW s \in SurfaceHandle,
         SurfaceDestroy(c, s)
  PROVE  AnnouncedStep
<1> DEFINE k == s[1]
           old == surfaces[k].buffer
<1>1. k \in SurfaceSlot /\ old \in BufferHandle \cup {NoHandle}
  BY HandleParts DEF OwnershipInv, GenerationInv, TypeInv, TypeOK, SurfaceSlotType
<1>2. /\ surfaces[k].live /\ surfaces[k].owner = c
      /\ ReleaseHasRoom(old, c)
      /\ buffers' = Unref(buffers, old)
      /\ events' = EventsAfterUnref(old)
  BY DEF SurfaceDestroy, OwnedSurface, SurfaceOk, IsLive
<1>3. CASE old = NoHandle
  <2>1. UNCHANGED <<buffers, events>>
    BY <1>2, <1>3 DEF Unref, EventsAfterUnref, IsLastUse
  <2> QED
    BY <2>1, KeptAnnounced DEF AnnouncedStep
<1>4. CASE old # NoHandle
  <2>1. BufferOk(old) /\ buffers[old[1]].owner = c
    BY <1>1, <1>2, <1>4 DEF OwnershipInv, ShownIsHeld, Held, BufferOk
  <2>2. buffers[old[1]].ref_count > 0
    BY <1>1, <1>2, <1>4, <2>1, ShownIsCounted
  <2>3. buffers' = Unref(Ref(buffers, NoHandle), old)
    BY <1>2 DEF Ref
  <2> HIDE DEF old
  <2> QED
    BY <1>1, <1>2, <1>4, <2>1, <2>2, <2>3, MoveAnnounced DEF AnnouncedStep
<1> QED
  BY <1>3, <1>4

LEMMA CursorAnnounced ==
  ASSUME OwnershipInv,
         \/ \E c \in ClientHandle \cup {NoHandle} : PointerFocus(c)
         \/ \E c \in ClientHandle : CursorHide(c)
         \/ \E c \in ClientHandle, b \in BufferHandle : CursorSetBuffer(c, b)
  PROVE  AnnouncedStep
<1> DEFINE old == cursor.buffer
<1>1. /\ old \in BufferHandle \cup {NoHandle}
      /\ old # NoHandle => BufferOk(old) /\ buffers[old[1]].owner = cursor.focus_owner
  BY DEF OwnershipInv, GenerationInv, TypeInv, TypeOK, CursorType, ShownIsHeld, Held,
         BufferOk
<1>2. old # NoHandle => buffers[old[1]].ref_count > 0
  BY <1>1, ShownIsCounted
<1>3. PICK new \in BufferHandle \cup {NoHandle} :
        /\ new # NoHandle => BufferOk(new)
        /\ \/ UNCHANGED <<buffers, events>>
           \/ /\ new # old
              /\ old # NoHandle => ReleaseHasRoom(old, buffers[old[1]].owner)
              /\ buffers' = Unref(Ref(buffers, new), old)
              /\ events' = EventsAfterUnref(old)
  <2>1. CASE \E c \in ClientHandle \cup {NoHandle} : PointerFocus(c)
    <3>1. /\ old # NoHandle => ReleaseHasRoom(old, buffers[old[1]].owner)
          /\ buffers' = Unref(buffers, old) /\ events' = EventsAfterUnref(old)
      BY <2>1 DEF PointerFocus
    <3>2. old = NoHandle => UNCHANGED <<buffers, events>>
      BY <3>1 DEF Unref, EventsAfterUnref, IsLastUse
    <3>3. buffers' = Unref(Ref(buffers, NoHandle), old)
      BY <3>1 DEF Ref
    <3> HIDE DEF old
    <3>4. CASE old = NoHandle
      BY <3>2, <3>4
    <3>5. CASE old # NoHandle
      BY <3>1, <3>3, <3>5
    <3> QED
      BY <3>4, <3>5
  <2>2. CASE \E c \in ClientHandle : CursorHide(c)
    <3>1. /\ old # NoHandle /\ ReleaseHasRoom(old, cursor.focus_owner)
          /\ buffers' = Unref(buffers, old) /\ events' = EventsAfterUnref(old)
      BY <2>2 DEF CursorHide
    <3>2. buffers' = Unref(Ref(buffers, NoHandle), old)
      BY <3>1 DEF Ref
    <3> HIDE DEF old
    <3> QED
      BY <1>1, <3>1, <3>2
  <2>3. ASSUME NEW c \in ClientHandle, NEW b \in BufferHandle, CursorSetBuffer(c, b)
        PROVE  /\ b # NoHandle => BufferOk(b)
               /\ \/ UNCHANGED <<buffers, events>>
                  \/ /\ b # old
                     /\ old # NoHandle => ReleaseHasRoom(old, buffers[old[1]].owner)
                     /\ buffers' = Unref(Ref(buffers, b), old)
                     /\ events' = EventsAfterUnref(old)
    <3>1. /\ BufferOk(b) /\ cursor.focus_owner = c
          /\ b # old => ReleaseHasRoom(old, c)
          /\ IF b = old THEN UNCHANGED <<buffers, events>>
             ELSE /\ buffers' = Unref(Ref(buffers, b), old)
                  /\ events' = EventsAfterUnref(old)
      BY <2>3 DEF CursorSetBuffer, OwnedBuffer
    <3> HIDE DEF old
    <3> QED
      BY <1>1, <3>1
  <2> HIDE DEF old
  <2> QED
    BY <2>1, <2>2, <2>3
<1> HIDE DEF old
<1> QED
  BY <1>1, <1>2, <1>3, MoveAnnounced, KeptAnnounced DEF AnnouncedStep

LEMMA DisconnectAnnounced ==
  ASSUME OwnershipInv, NEW c \in ClientHandle, ClientDisconnect(c)
  PROVE  AnnouncedStep
<1> SUFFICES ASSUME NEW b \in BufferHandle, BufferOk(b), IsLive(buffers', b)
             PROVE  Announced(b)
  BY DEF AnnouncedStep
<1>1. b[1] \in BufferSlot /\ buffers[b[1]].live /\ buffers[b[1]].owner \in ClientHandle
  BY LiveBuffer
<1>2. buffers[b[1]].owner # c
  <2>1. buffers' = BuffersWithout(c)
    BY DEF ClientDisconnect
  <2>2. buffers[b[1]].owner = c =>
          buffers'[b[1]] = DeadBuffer(NextGeneration(buffers[b[1]].generation))
    BY <1>1, <2>1 DEF BuffersWithout
  <2> QED
    BY <2>2 DEF IsLive, DeadBuffer
<1>3. buffers'[b[1]] = buffers[b[1]]
  BY <1>1, <1>2, DisconnectKeepsBuffers
<1>4. events'[buffers[b[1]].owner] = events[buffers[b[1]].owner]
  BY <1>1, <1>2 DEF ClientDisconnect, OwnershipInv, GenerationInv, TypeInv, TypeOK
<1> QED
  BY <1>3, <1>4, KeptAnnounced

\* FRAME_DONE events release nothing.
LEMMA PresentAnnounced ==
  ASSUME OwnershipInv, PresentDone
  PROVE  AnnouncedStep
<1> SUFFICES ASSUME NEW b \in BufferHandle, BufferOk(b)
             PROVE  Announced(b)
  BY DEF AnnouncedStep
<1> DEFINE c == buffers[b[1]].owner
           batch == FrameDoneBatch(c)
           e == ReleaseEvent(b)
<1>1. /\ c \in ClientHandle /\ events[c] \in Seq(Event) /\ batch \in Seq(Event)
      /\ buffers[b[1]].ref_count \in Nat
  BY LiveBuffer, FrameDoneBatchType DEF OwnershipInv, GenerationInv
<1>2. buffers' = buffers /\ events'[c] = events[c] \o batch
  BY <1>1 DEF PresentDone
<1>3. \A k \in DOMAIN batch : batch[k].type = "FRAME_DONE"
  BY DEF FrameDoneBatch, FrameDoneEvent
<1>4. e.type = "BUFFER_RELEASE"
  BY DEF ReleaseEvent
<1>5. ASSUME events[c] \o batch = Append(events[c], e) PROVE FALSE
  <2> DEFINE q == events[c]
             x == q \o batch
             y == Append(q, e)
  <2>1. /\ Len(q) \in Nat /\ Len(batch) \in Nat
        /\ Len(x) = Len(q) + Len(batch) /\ Len(y) = Len(q) + 1
        /\ DOMAIN batch = 1 .. Len(batch)
    BY <1>1, ConcatProperties, AppendProperties, LenProperties
  <2>2. y[Len(q) + 1] = e
    BY <1>1
  <2>3. Len(batch) = 1
    <3>1. Len(x) = Len(y)
      BY <1>5
    <3> HIDE DEF x, y, q, batch
    <3> QED
      BY <2>1, <3>1
  <2>4. 1 \in DOMAIN batch
    <3> HIDE DEF batch
    <3> QED
      BY <2>1, <2>3
  <2>5. x[Len(q) + 1] = batch[1]
    <3> HIDE DEF batch, q
    <3> QED
      BY <1>1, <2>1, <2>3 DEF q
  <2>6. batch[1] = e
    BY <1>5, <2>2, <2>5
  <2> HIDE DEF batch, e
  <2> QED
    BY <1>3, <1>4, <2>4, <2>6
<1>6. events'[c] # Append(events[c], e)
  BY <1>2, <1>5
<1>7. ~ (buffers[b[1]].ref_count > 0 /\ buffers'[b[1]].ref_count = 0)
  BY <1>1, <1>2
<1> QED
  BY <1>6, <1>7 DEF Announced

LEMMA NextAnnounced ==
  ASSUME OwnershipInv, [Next]_vars
  PROVE  AnnouncedStep
<1>0. TypeOK
  BY DEF OwnershipInv, GenerationInv, TypeInv
<1>1. ASSUME UNCHANGED <<buffers, events>>
      PROVE  AnnouncedStep
  BY <1>1, KeptAnnounced DEF AnnouncedStep
<1>2. CASE \/ ClientCreate
           \/ \E c \in ClientHandle : SurfaceCreate(c)
           \/ \E c \in ClientHandle, s \in SurfaceHandle :
                \/ \E b \in BufferHandle \cup {NoHandle} : SurfaceAttach(c, s, b)
                \/ \E t \in Token : SurfaceFrame(c, s, t)
           \/ BuildFrame
           \/ UNCHANGED vars
  <2>1. UNCHANGED <<buffers, events>>
    BY <1>2 DEF ClientCreate, SurfaceCreate, SurfaceAttach, SurfaceFrame, BuildFrame, vars
  <2> QED
    BY <1>1, <2>1
<1>3. ASSUME NEW c \in ClientHandle, BufferRegister(c)
      PROVE  AnnouncedStep
  <2> DEFINE i == Lowest(Allocatable(buffers))
  <2>1. /\ i \in BufferSlot /\ ~buffers[i].live
        /\ \E r : buffers' = [buffers EXCEPT ![i] = r]
        /\ events' = events
    BY <1>0, <1>3, CapacityAssumption, AllocatableIn
       DEF TypeOK, BufferRegister, BufferSlot
  <2> HIDE DEF i
  <2>2. \A b \in BufferHandle : BufferOk(b) => buffers'[b[1]] = buffers[b[1]]
    BY <1>0, <2>1, LiveBuffer DEF TypeOK
  <2> QED
    BY <2>1, <2>2, KeptAnnounced DEF AnnouncedStep
<1>4. ASSUME NEW c \in ClientHandle, NEW h \in BufferHandle, BufferUnregister(c, h)
      PROVE  AnnouncedStep
  <2>1. /\ buffers' = [buffers EXCEPT ![h[1]] = DeadBuffer(NextGeneration(h[2]))]
        /\ events' = events /\ BufferOk(h)
    BY <1>4 DEF BufferUnregister, OwnedBuffer
  <2>2. \A b \in BufferHandle : BufferOk(b) /\ IsLive(buffers', b) =>
          buffers'[b[1]] = buffers[b[1]]
    BY <1>0, <2>1, LiveBuffer DEF TypeOK, IsLive, DeadBuffer
  <2> QED
    BY <2>1, <2>2, KeptAnnounced DEF AnnouncedStep
<1>5. ASSUME NEW c \in ClientHandle, NextEvent(c)
      PROVE  AnnouncedStep
  <2> SUFFICES ASSUME NEW b \in BufferHandle, BufferOk(b) PROVE Announced(b)
    BY DEF AnnouncedStep
  <2> DEFINE d == buffers[b[1]].owner
  <2>1. buffers' = buffers /\ d \in ClientHandle /\ events[d] \in Seq(Event)
        /\ buffers[b[1]].ref_count \in Nat
    BY <1>5, LiveBuffer DEF NextEvent
  <2>2. events'[d] = events[d] \/ (events[d] # <<>> /\ events'[d] = Tail(events[d]))
    BY <1>0, <1>5, <2>1 DEF NextEvent, TypeOK
  <2>3. events'[d] # Append(events[d], ReleaseEvent(b))
    <3> HIDE DEF d
    <3> QED
      BY <2>1, <2>2, NotAppended
  <2>4. ~ (buffers[b[1]].ref_count > 0 /\ buffers'[b[1]].ref_count = 0)
    BY <2>1
  <2> QED
    BY <2>3, <2>4 DEF Announced
<1> QED
  BY <1>2, <1>3, <1>4, <1>5, CommitAnnounced, DestroyAnnounced, CursorAnnounced,
     DisconnectAnnounced, PresentAnnounced DEF Next

\* A release event is queued exactly when the last reference goes, whichever
\* of the five calls gives it up and whoever else is connected.
THEOREM ReleasesAreAnnounced == Spec => ReleaseAnnounced
<1>1. OwnershipInv /\ [Next]_vars => AnnouncedStep
  BY NextAnnounced
<1>2. AnnouncedStep \/ UNCHANGED vars =>
        [\A b \in BufferHandle : BufferOk(b) /\ BufferOk(b)' =>
           LET c == buffers[b[1]].owner
           IN  buffers[b[1]].ref_count > 0 /\ buffers'[b[1]].ref_count = 0
                 <=> events'[c] = Append(events[c], ReleaseEvent(b))]_vars
  BY DEF AnnouncedStep, Announced, BufferOk, IsLive
<1> QED
  BY <1>1, <1>2, OwnershipInvariance, PTL DEF Spec, ReleaseAnnounced

-----------------------------------------------------------------------------
(* Frame tokens: an accepted token keeps its share of the frame and event  *)
(* tables, is in one place at a time, and ends by delivery or by the end   *)
(* of its client.  Every call has one of six effects on what a client is   *)
(* owed; these results and the frame callback protocol are proved from the *)
(* effects.  The last section is about the commits the frames belong to.   *)

-----------------------------------------------------------------------------
(* The effects of a step on the pending tokens, the frame slots and the    *)
(* queue of a client c.                                                    *)

TokensPending(S, c) ==
  {k \in SurfaceSlot : /\ S[k].live
                       /\ S[k].owner = c
                       /\ S[k].frame_token # NoToken}

SlotsHeld(F, c) == {i \in FrameSlot : F[i].state # "FREE" /\ F[i].owner = c}

PendingKept(S, S2, K) == \A k \in K : S2[k].frame_token = S[k].frame_token
TokensKept(F, F2, I)  == \A i \in I : F2[i].token = F[i].token

SamePending(S, S2, c) ==
  /\ TokensPending(S2, c) = TokensPending(S, c)
  /\ PendingKept(S, S2, TokensPending(S, c))

SameFrames(F, F2, c) ==
  /\ SlotsHeld(F2, c) = SlotsHeld(F, c)
  /\ TokensKept(F, F2, SlotsHeld(F, c))

\* At most a release event is queued, and only where it has room.
QueueKept(c) ==
  \/ events'[c] = events[c]
  \/ /\ EventReservationAvailable(c)
     /\ \E b : events'[c] = Append(events[c], ReleaseEvent(b))

Rests(c) ==
  /\ SamePending(surfaces, surfaces', c)
  /\ SameFrames(frames, frames', c)
  /\ QueueKept(c)

\* surface_frame: surface k asks for t.
Requests(c, k, t) ==
  /\ TokenAvailable(c, t)
  /\ FramesOwned(c) < FrameQuota
  /\ EventReservationAvailable(c)
  /\ k \in SurfaceSlot \ TokensPending(surfaces, c)
  /\ TokensPending(surfaces', c) = TokensPending(surfaces, c) \cup {k}
  /\ PendingKept(surfaces, surfaces', TokensPending(surfaces, c))
  /\ surfaces'[k].frame_token = t
  /\ UNCHANGED <<frames, events>>

\* commit or destroy: the token of surface k moves to frame slot i.
Moves(c, k, i) ==
  /\ k \in TokensPending(surfaces, c)
  /\ TokensPending(surfaces', c) = TokensPending(surfaces, c) \ {k}
  /\ PendingKept(surfaces, surfaces', TokensPending(surfaces', c))
  /\ i \in FrameSlot \ SlotsHeld(frames, c)
  /\ SlotsHeld(frames', c) = SlotsHeld(frames, c) \cup {i}
  /\ TokensKept(frames, frames', SlotsHeld(frames, c))
  /\ frames'[i].token = surfaces[k].frame_token
  /\ QueueKept(c)

\* present_done: the frames in flight become events.
Presents(c) ==
  /\ UNCHANGED surfaces
  /\ SlotsHeld(frames', c) = SlotsHeld(frames, c) \ AssignedOf(c)
  /\ TokensKept(frames, frames', SlotsHeld(frames', c))
  /\ events'[c] = events[c] \o FrameDoneBatch(c)

Reads(c) ==
  /\ UNCHANGED <<surfaces, frames>>
  /\ events[c] # <<>>
  /\ events'[c] = Tail(events[c])

Leaves(c) ==
  /\ ClientDisconnect(c)
  /\ TokensPending(surfaces', c) = {}
  /\ SlotsHeld(frames', c) = {}
  /\ events'[c] = <<>>

Acts(c) ==
  \/ \E k \in SurfaceSlot, t \in Token : Requests(c, k, t)
  \/ \E k \in SurfaceSlot, i \in FrameSlot : Moves(c, k, i)
  \/ Reads(c)
  \/ Leaves(c)

Effect(c) == Rests(c) \/ Acts(c) \/ Presents(c)

\* One client acts and the others rest, or a frame is presented to all.
WholeEffect ==
  \/ \E d \in ClientHandle : \A c \in ClientHandle : Rests(c) \/ (c = d /\ Acts(c))
  \/ \A c \in ClientHandle : Presents(c)

-----------------------------------------------------------------------------
(* Every step has one of the effects.                                      *)

LEMMA SameSelf ==
  ASSUME NEW c
  PROVE  SamePending(surfaces, surfaces, c) /\ SameFrames(frames, frames, c)
  BY DEF SamePending, SameFrames, PendingKept, TokensKept

\* A reference given up may queue a release event, and nothing else.
LEMMA QueueAfterUnref ==
  ASSUME TypeOK, NEW b, NEW c \in ClientHandle,
         events' = events \/ events' = EventsAfterUnref(b)
  PROVE  QueueKept(c)
<1>1. CASE events' = events
  BY <1>1 DEF QueueKept
<1>2. CASE events' # events
  <2> DEFINE owner == buffers[b[1]].owner
  <2>1. /\ CanPushEvent(owner)
        /\ events' = [events EXCEPT ![owner] = Append(@, ReleaseEvent(b))]
    BY <1>2 DEF EventsAfterUnref
  <2>2. events \in [ClientHandle -> Seq(Event)]
    BY DEF TypeOK
  <2>3. CASE c = owner
    <3>1. events'[c] = Append(events[c], ReleaseEvent(b))
      BY <2>1, <2>2, <2>3
    <3> QED
      BY <2>1, <2>3, <3>1 DEF QueueKept, CanPushEvent
  <2>4. CASE c # owner
    <3>1. events'[c] = events[c]
      BY <2>1, <2>2, <2>4
    <3> QED
      BY <3>1 DEF QueueKept
  <2> QED
    BY <2>3, <2>4
<1> QED
  BY <1>1, <1>2

\* The token of surface s leaves the table of surfaces.
LEMMA PendingAfterMove ==
  ASSUME TypeOK, NEW c \in ClientHandle, NEW d \in ClientHandle,
         NEW k \in SurfaceSlot, surfaces[k].live, surfaces[k].owner = d,
         \A j \in SurfaceSlot \ {k} : surfaces'[j] = surfaces[j],
         ~surfaces'[k].live \/ surfaces'[k].frame_token = NoToken
  PROVE  /\ c # d \/ surfaces[k].frame_token = NoToken =>
              SamePending(surfaces, surfaces', c)
         /\ c = d /\ surfaces[k].frame_token # NoToken =>
              /\ k \in TokensPending(surfaces, c)
              /\ TokensPending(surfaces', c) = TokensPending(surfaces, c) \ {k}
              /\ PendingKept(surfaces, surfaces', TokensPending(surfaces', c))
<1>1. k \notin TokensPending(surfaces', c)
  BY DEF TokensPending
<1>2. \A j \in SurfaceSlot \ {k} :
        /\ j \in TokensPending(surfaces', c) <=> j \in TokensPending(surfaces, c)
        /\ surfaces'[j].frame_token = surfaces[j].frame_token
  BY DEF TokensPending
<1>3. k \in TokensPending(surfaces, c) <=>
        c = d /\ surfaces[k].frame_token # NoToken
  BY DEF TokensPending
<1>4. /\ TokensPending(surfaces, c) \subseteq SurfaceSlot
      /\ TokensPending(surfaces', c) \subseteq SurfaceSlot
  BY DEF TokensPending
<1> DEFINE P == TokensPending(surfaces, c)
           Q == TokensPending(surfaces', c)
<1> HIDE DEF P, Q
<1>5. CASE c # d \/ surfaces[k].frame_token = NoToken
  <2>1. k \notin P /\ \A j : j \in Q <=> j \in P
    BY <1>1, <1>2, <1>3, <1>4, <1>5 DEF P, Q
  <2>2. Q = P
    BY <2>1
  <2>3. PendingKept(surfaces, surfaces', P)
    BY <1>2, <1>4, <2>1 DEF PendingKept, P
  <2> QED
    BY <1>5, <2>2, <2>3 DEF SamePending, P, Q
<1>6. CASE c = d /\ surfaces[k].frame_token # NoToken
  <2>1. k \in P /\ Q = P \ {k}
    BY <1>1, <1>2, <1>3, <1>4, <1>6 DEF P, Q
  <2>2. PendingKept(surfaces, surfaces', Q)
    BY <1>2, <1>4, <2>1 DEF PendingKept, P, Q
  <2> QED
    BY <1>6, <2>1, <2>2 DEF P, Q
<1> QED
  BY <1>5, <1>6

\* ... and enters that of the frames.
LEMMA FramesAfterMove ==
  ASSUME TypeOK, NEW c \in ClientHandle, NEW d \in ClientHandle,
         NEW s \in SurfaceHandle, NEW sequence, NEW status,
         surfaces[s[1]].frame_token # NoToken => FreeFrameSlots # {},
         NEW F, F = TokenToFrame(d, s, sequence, status)
  PROVE  /\ c # d \/ surfaces[s[1]].frame_token = NoToken =>
              SameFrames(frames, F, c)
         /\ c = d /\ surfaces[s[1]].frame_token # NoToken =>
              \E i \in FrameSlot \ SlotsHeld(frames, c) :
                /\ SlotsHeld(F, c) = SlotsHeld(frames, c) \cup {i}
                /\ TokensKept(frames, F, SlotsHeld(frames, c))
                /\ F[i].token = surfaces[s[1]].frame_token
<1>1. CASE surfaces[s[1]].frame_token = NoToken
  <2>1. F = frames
    BY <1>1 DEF TokenToFrame
  <2> QED
    BY <1>1, <2>1, SameSelf
<1>2. CASE surfaces[s[1]].frame_token # NoToken
  <2> DEFINE i == Lowest(FreeFrameSlots)
             f == [state |-> "WAITING", owner |-> d, surface |-> s,
                   token |-> surfaces[s[1]].frame_token,
                   commit_sequence |-> sequence, status |-> status]
  <2>1. i \in FrameSlot /\ frames[i].state = "FREE"
    <3>1. FreeFrameSlots \subseteq Nat
      BY CapacityAssumption DEF FreeFrameSlots, FrameSlot
    <3>2. i \in FreeFrameSlots
      BY <1>2, <3>1, LowestIn
    <3> QED
      BY <3>2 DEF FreeFrameSlots
  <2>2. F = [frames EXCEPT ![i] = f]
    BY <1>2 DEF TokenToFrame
  <2>3. /\ f.state # "FREE" /\ f.owner = d
        /\ f.token = surfaces[s[1]].frame_token
    OBVIOUS
  <2> HIDE DEF i, f
  <2>4. F[i] = f /\ \A j \in FrameSlot \ {i} : F[j] = frames[j]
    BY <2>1, <2>2 DEF TypeOK
  <2>5. i \notin SlotsHeld(frames, c)
    BY <2>1 DEF SlotsHeld
  <2>6. i \in SlotsHeld(F, c) <=> c = d
    BY <2>1, <2>3, <2>4 DEF SlotsHeld
  <2>7. \A j \in FrameSlot \ {i} :
          /\ j \in SlotsHeld(F, c) <=> j \in SlotsHeld(frames, c)
          /\ F[j].token = frames[j].token
    BY <2>4 DEF SlotsHeld
  <2>8. SlotsHeld(F, c) \subseteq FrameSlot /\ SlotsHeld(frames, c) \subseteq FrameSlot
    BY DEF SlotsHeld
  <2>9. CASE c # d
    <3>1. SlotsHeld(F, c) = SlotsHeld(frames, c)
      <4>1. \A j : j \in SlotsHeld(F, c) <=> j \in SlotsHeld(frames, c)
        BY <2>5, <2>6, <2>7, <2>8, <2>9
      <4> QED
        BY <4>1
    <3>2. TokensKept(frames, F, SlotsHeld(frames, c))
      BY <2>5, <2>7, <2>8 DEF TokensKept
    <3> QED
      BY <2>9, <3>1, <3>2 DEF SameFrames
  <2>10. CASE c = d
    <3>1. SlotsHeld(F, c) = SlotsHeld(frames, c) \cup {i}
      BY <2>1, <2>5, <2>6, <2>7, <2>8, <2>10
    <3>2. TokensKept(frames, F, SlotsHeld(frames, c))
      BY <2>5, <2>7, <2>8 DEF TokensKept
    <3> QED
      BY <1>2, <2>1, <2>3, <2>4, <2>5, <2>10, <3>1, <3>2
  <2> QED
    BY <2>9, <2>10
<1> QED
  BY <1>1, <1>2

LEMMA CommitEffect ==
  ASSUME TypeOK, NEW c \in ClientHandle, NEW d \in ClientHandle,
         NEW s \in SurfaceHandle, SurfaceCommit(d, s)
  PROVE  Rests(c) \/ (c = d /\ Acts(c))
<1> DEFINE k == s[1]
<1>1. /\ k \in SurfaceSlot /\ surfaces[k].live /\ surfaces[k].owner = d
      /\ surfaces[k].frame_token # NoToken => FreeFrameSlots # {}
  BY HandleParts DEF SurfaceCommit, OwnedSurface, SurfaceOk, IsLive
<1>2. PICK new, seq :
        /\ surfaces' = [surfaces EXCEPT ![k] =
                          [@ EXCEPT !.buffer = new, !.commit_sequence = seq,
                                    !.attach = FALSE, !.frame_token = NoToken]]
        /\ frames' = TokenToFrame(d, s, seq, "NONE")
  BY DEF SurfaceCommit
<1>3. surfaces'[k].frame_token = NoToken
  BY <1>1, <1>2 DEF TypeOK, SurfaceSlotType
<1>4. \A j \in SurfaceSlot \ {k} : surfaces'[j] = surfaces[j]
  BY <1>1, <1>2 DEF TypeOK
<1>5. QueueKept(c)
  BY QueueAfterUnref DEF SurfaceCommit
<1>6. CASE c # d \/ surfaces[k].frame_token = NoToken
  <2>1. SamePending(surfaces, surfaces', c)
    BY <1>1, <1>3, <1>4, <1>6, PendingAfterMove
  <2>2. SameFrames(frames, frames', c)
    BY <1>1, <1>2, <1>6, FramesAfterMove
  <2> QED
    BY <1>5, <2>1, <2>2 DEF Rests
<1>7. CASE c = d /\ surfaces[k].frame_token # NoToken
  <2>1. /\ k \in TokensPending(surfaces, c)
        /\ TokensPending(surfaces', c) = TokensPending(surfaces, c) \ {k}
        /\ PendingKept(surfaces, surfaces', TokensPending(surfaces', c))
    BY <1>1, <1>3, <1>4, <1>7, PendingAfterMove
  <2>2. PICK i \in FrameSlot \ SlotsHeld(frames, c) :
          /\ SlotsHeld(frames', c) = SlotsHeld(frames, c) \cup {i}
          /\ TokensKept(frames, frames', SlotsHeld(frames, c))
          /\ frames'[i].token = surfaces[k].frame_token
    BY <1>1, <1>2, <1>7, FramesAfterMove
  <2>3. Moves(c, k, i)
    BY <1>5, <2>1, <2>2 DEF Moves
  <2> QED
    BY <1>1, <1>7, <2>3 DEF Acts
<1> QED
  BY <1>6, <1>7

LEMMA DestroyEffect ==
  ASSUME TypeOK, FramesNamed, NEW c \in ClientHandle, NEW d \in ClientHandle,
         NEW s \in SurfaceHandle, SurfaceDestroy(d, s)
  PROVE  Rests(c) \/ (c = d /\ Acts(c))
<1> DEFINE k == s[1]
           F == TokenToFrame(d, s, surfaces[k].commit_sequence, "CANCELLED")
<1>1. /\ k \in SurfaceSlot /\ surfaces[k].live /\ surfaces[k].owner = d
      /\ surfaces[k].frame_token # NoToken => FreeFrameSlots # {}
  BY HandleParts DEF SurfaceDestroy, OwnedSurface, SurfaceOk, IsLive
<1>2. /\ frames' = CancelFrames(F, s)
      /\ surfaces' = [surfaces EXCEPT
                        ![k] = BlankSurface(FALSE, NextGeneration(s[2]), NoHandle)]
  BY DEF SurfaceDestroy
<1>3. ~surfaces'[k].live /\ \A j \in SurfaceSlot \ {k} : surfaces'[j] = surfaces[j]
  BY <1>1, <1>2 DEF BlankSurface, TypeOK
<1>4. QueueKept(c)
  BY QueueAfterUnref DEF SurfaceDestroy
<1>5. F \in [FrameSlot -> FrameSlotType]
  <2>1. surfaces[k].commit_sequence \in 0 .. MaxCommit
    BY <1>1 DEF TypeOK, SurfaceSlotType
  <2> QED
    BY <1>1, <2>1, TokenToFrameType DEF Status
<1>6. SlotsHeld(frames', c) = SlotsHeld(F, c)
      /\ \A i \in FrameSlot : frames'[i].token = F[i].token
  <2> HIDE DEF F
  <2>1. \A i \in FrameSlot : /\ frames'[i].state = F[i].state
                             /\ frames'[i].owner = F[i].owner
                             /\ frames'[i].token = F[i].token
    BY <1>2, <1>5 DEF CancelFrames, FrameSlotType
  <2> QED
    BY <2>1 DEF SlotsHeld
<1>7. SlotsHeld(frames, c) \subseteq FrameSlot
  BY DEF SlotsHeld
<1>8. CASE c # d \/ surfaces[k].frame_token = NoToken
  <2>1. SamePending(surfaces, surfaces', c)
    BY <1>1, <1>3, <1>8, PendingAfterMove
  <2>2. SameFrames(frames, F, c)
    BY <1>1, <1>8, FramesAfterMove
  <2>3. SameFrames(frames, frames', c)
    <3> HIDE DEF F
    <3> QED
      BY <1>6, <1>7, <2>2 DEF SameFrames, TokensKept
  <2> QED
    BY <1>4, <2>1, <2>3 DEF Rests
<1>9. CASE c = d /\ surfaces[k].frame_token # NoToken
  <2>1. /\ k \in TokensPending(surfaces, c)
        /\ TokensPending(surfaces', c) = TokensPending(surfaces, c) \ {k}
        /\ PendingKept(surfaces, surfaces', TokensPending(surfaces', c))
    BY <1>1, <1>3, <1>9, PendingAfterMove
  <2>2. PICK i \in FrameSlot \ SlotsHeld(frames, c) :
          /\ SlotsHeld(F, c) = SlotsHeld(frames, c) \cup {i}
          /\ TokensKept(frames, F, SlotsHeld(frames, c))
          /\ F[i].token = surfaces[k].frame_token
    BY <1>1, <1>9, FramesAfterMove
  <2>3. Moves(c, k, i)
    <3> HIDE DEF F
    <3>1. /\ SlotsHeld(frames', c) = SlotsHeld(frames, c) \cup {i}
          /\ TokensKept(frames, frames', SlotsHeld(frames, c))
          /\ frames'[i].token = surfaces[k].frame_token
      BY <1>6, <1>7, <2>2 DEF TokensKept
    <3> QED
      BY <1>4, <2>1, <3>1 DEF Moves
  <2> QED
    BY <1>1, <1>9, <2>3 DEF Acts
<1> QED
  BY <1>8, <1>9

LEMMA DisconnectEffect ==
  ASSUME TypeOK, NEW c \in ClientHandle, NEW d \in ClientHandle,
         ClientDisconnect(d)
  PROVE  Rests(c) \/ (c = d /\ Acts(c))
<1>1. /\ surfaces' = SurfacesWithout(d)
      /\ frames' = FramesWithout(d)
      /\ events' = [events EXCEPT ![d] = <<>>]
  BY DEF ClientDisconnect
<1>2. CASE c = d
  <2>1. TokensPending(surfaces', c) = {}
    BY <1>1, <1>2 DEF SurfacesWithout, SurfacesOf, BlankSurface, TokensPending
  <2>2. SlotsHeld(frames', c) = {}
    <3>1. ASSUME NEW i \in FrameSlot
          PROVE  ~ (frames'[i].state # "FREE" /\ frames'[i].owner = c)
      BY <1>1, <1>2 DEF FramesWithout, FreeFrame, TypeOK, FrameSlotType
    <3> QED
      BY <3>1 DEF SlotsHeld
  <2>3. events'[c] = <<>>
    BY <1>1, <1>2 DEF TypeOK
  <2> QED
    BY <1>2, <2>1, <2>2, <2>3 DEF Acts, Leaves
<1>3. CASE c # d
  <2>1. SamePending(surfaces, surfaces', c)
    <3>1. \A k \in SurfaceSlot :
            IF k \in SurfacesOf(d)
            THEN ~surfaces'[k].live /\ surfaces[k].owner # c
            ELSE surfaces'[k] = surfaces[k]
      BY <1>1, <1>3 DEF SurfacesWithout, SurfacesOf, BlankSurface
    <3> QED
      BY <3>1 DEF SamePending, PendingKept, TokensPending
  <2>2. SameFrames(frames, frames', c)
    <3>1. \A i \in FrameSlot :
            \/ /\ frames'[i].state = frames[i].state
               /\ frames'[i].owner = frames[i].owner
               /\ frames'[i].token = frames[i].token
            \/ frames'[i].state = "FREE" /\ frames[i].owner # c
      BY <1>1, <1>3 DEF FramesWithout, FreeFrame, TypeOK, FrameSlotType
    <3> QED
      BY <3>1 DEF SameFrames, TokensKept, SlotsHeld
  <2>3. QueueKept(c)
    BY <1>1, <1>3 DEF QueueKept, TypeOK
  <2> QED
    BY <2>1, <2>2, <2>3 DEF Rests
<1> QED
  BY <1>2, <1>3

LEMMA FrameRequestEffect ==
  ASSUME TypeOK, NEW c \in ClientHandle, NEW d \in ClientHandle,
         NEW s \in SurfaceHandle, NEW t \in Token, SurfaceFrame(d, s, t)
  PROVE  Rests(c) \/ (c = d /\ Acts(c))
<1> DEFINE k == s[1]
<1>1. /\ k \in SurfaceSlot /\ surfaces[k].live /\ surfaces[k].owner = d
      /\ surfaces[k].frame_token = NoToken /\ t # NoToken
      /\ surfaces' = [surfaces EXCEPT ![k].frame_token = t]
      /\ UNCHANGED <<frames, events>>
  BY HandleParts, TokenAssumption DEF SurfaceFrame, OwnedSurface, SurfaceOk, IsLive
<1>2. /\ surfaces'[k].live /\ surfaces'[k].owner = d /\ surfaces'[k].frame_token = t
      /\ \A j \in SurfaceSlot \ {k} : surfaces'[j] = surfaces[j]
  BY <1>1 DEF TypeOK, SurfaceSlotType
<1>3. CASE c = d
  <2>1. k \in SurfaceSlot \ TokensPending(surfaces, c)
    BY <1>1 DEF TokensPending
  <2>2. TokensPending(surfaces', c) = TokensPending(surfaces, c) \cup {k}
    BY <1>1, <1>2, <1>3 DEF TokensPending
  <2>3. PendingKept(surfaces, surfaces', TokensPending(surfaces, c))
    BY <1>2, <2>1 DEF PendingKept, TokensPending
  <2>4. Requests(c, k, t)
    BY <1>1, <1>2, <1>3, <2>1, <2>2, <2>3 DEF Requests, SurfaceFrame
  <2> QED
    BY <1>1, <1>3, <2>4 DEF Acts
<1>4. CASE c # d
  <2>1. SamePending(surfaces, surfaces', c)
    BY <1>1, <1>2, <1>4 DEF SamePending, PendingKept, TokensPending
  <2> QED
    BY <1>1, <2>1, SameSelf DEF Rests, QueueKept, SameFrames, TokensKept
<1> QED
  BY <1>3, <1>4

LEMMA FramesEffect ==
  ASSUME TypeOK, NEW c \in ClientHandle
  PROVE  /\ BuildFrame => Rests(c)
         /\ PresentDone => Presents(c)
         /\ \A d \in ClientHandle : NextEvent(d) => Rests(c) \/ (c = d /\ Reads(c))
<1>1. UNCHANGED surfaces => SamePending(surfaces, surfaces', c)
  BY SameSelf
<1>3. ASSUME BuildFrame
      PROVE  Rests(c)
  <2>1. PICK shown \in SUBSET Mapped :
          frames' = [j \in FrameSlot |->
                       IF frames[j].state = "WAITING"
                       THEN [frames[j] EXCEPT
                               !.state = "ASSIGNED",
                               !.status = Completion(frames[j], shown)]
                       ELSE frames[j]]
    BY <1>3 DEF BuildFrame
  <2>2. \A i \in FrameSlot : /\ frames'[i].state = "FREE" <=> frames[i].state = "FREE"
                             /\ frames'[i].owner = frames[i].owner
                             /\ frames'[i].token = frames[i].token
    BY <2>1 DEF TypeOK, FrameSlotType
  <2>3. SameFrames(frames, frames', c)
    BY <2>2 DEF SameFrames, TokensKept, SlotsHeld
  <2> QED
    BY <1>1, <1>3, <2>3 DEF Rests, QueueKept, BuildFrame
<1>4. ASSUME PresentDone
      PROVE  Presents(c)
  <2>1. \A i \in FrameSlot :
          IF frames[i].state = "ASSIGNED" THEN frames'[i].state = "FREE"
          ELSE frames'[i] = frames[i]
    BY <1>4 DEF PresentDone, Assigned, FreeFrame
  <2>2. SlotsHeld(frames', c) = SlotsHeld(frames, c) \ AssignedOf(c)
    BY <2>1 DEF SlotsHeld, AssignedOf, FrameSlotsOf
  <2>3. TokensKept(frames, frames', SlotsHeld(frames', c))
    BY <2>1 DEF SlotsHeld, TokensKept
  <2>4. events'[c] = events[c] \o FrameDoneBatch(c)
    BY <1>4 DEF PresentDone
  <2> QED
    BY <1>4, <2>2, <2>3, <2>4 DEF Presents, PresentDone
<1>5. ASSUME NEW d \in ClientHandle, NextEvent(d)
      PROVE  Rests(c) \/ (c = d /\ Reads(c))
  <2>1. UNCHANGED <<surfaces, frames>> /\ events' = [events EXCEPT ![d] = Tail(@)] /\ events[d] # <<>>
    BY <1>5 DEF NextEvent
  <2>2. CASE c = d
    <3>1. events'[c] = Tail(events[c])
      BY <2>1, <2>2 DEF TypeOK
    <3> QED
      BY <2>1, <2>2, <3>1 DEF Reads
  <2>3. CASE c # d
    <3>1. events'[c] = events[c]
      BY <2>1, <2>3 DEF TypeOK
    <3>2. SameFrames(frames, frames', c)
      BY <2>1, SameSelf
    <3> QED
      BY <1>1, <2>1, <3>1, <3>2 DEF Rests, QueueKept
  <2> QED
    BY <2>2, <2>3
<1> QED
  BY <1>3, <1>4, <1>5

\* The calls that leave tokens and frames alone.
LEMMA RestEffect ==
  ASSUME TypeOK, NEW c \in ClientHandle,
         UNCHANGED frames,
         SamePending(surfaces, surfaces', c),
         NEW b, events' = events \/ events' = EventsAfterUnref(b)
  PROVE  Rests(c)
<1>1. SameFrames(frames, frames', c)
  BY SameSelf
<1> QED
  BY <1>1, QueueAfterUnref DEF Rests

\* Whatever is called, a client's tokens rest, are requested, move, are
\* presented, are read or go with their client.
LEMMA StepEffect ==
  ASSUME TypeInv, [Next]_vars
  PROVE  WholeEffect
<1>0. TypeOK /\ FramesNamed
  BY DEF TypeInv
<1> DEFINE AllRest == \A c \in ClientHandle : Rests(c)
<1>1. ASSUME UNCHANGED <<surfaces, frames, events>>
      PROVE  AllRest
  BY <1>0, <1>1, SameSelf, RestEffect
<1>2. ASSUME NEW d \in ClientHandle, ClientDisconnect(d)
      PROVE  WholeEffect
  BY <1>0, <1>2, DisconnectEffect DEF WholeEffect
<1>3. ASSUME NEW d \in ClientHandle, SurfaceCreate(d)
      PROVE  AllRest
  <2> DEFINE i == Lowest(Allocatable(surfaces))
  <2>1. /\ i \in SurfaceSlot /\ ~surfaces[i].live
        /\ surfaces' = [surfaces EXCEPT ![i] = BlankSurface(TRUE, @.generation, d)]
        /\ UNCHANGED <<frames, events>>
    BY <1>0, <1>3, CapacityAssumption, AllocatableIn
       DEF TypeOK, SurfaceCreate, SurfaceSlot
  <2> HIDE DEF i
  <2>2. /\ surfaces'[i].frame_token = NoToken
        /\ \A j \in SurfaceSlot \ {i} : surfaces'[j] = surfaces[j]
    BY <1>0, <2>1 DEF TypeOK, BlankSurface
  <2>3. \A c \in ClientHandle : SamePending(surfaces, surfaces', c)
    BY <2>1, <2>2 DEF SamePending, PendingKept, TokensPending
  <2> QED
    BY <1>0, <2>1, <2>3, RestEffect
<1>4. ASSUME NEW d \in ClientHandle, NEW s \in SurfaceHandle,
             NEW b \in BufferHandle \cup {NoHandle}, SurfaceAttach(d, s, b)
      PROVE  AllRest
  <2>1. /\ surfaces' = [surfaces EXCEPT ![s[1]].pending_buffer = b,
                                        ![s[1]].attach = TRUE]
        /\ UNCHANGED <<frames, events>>
    BY <1>4 DEF SurfaceAttach
  <2>2. \A k \in SurfaceSlot : /\ surfaces'[k].live = surfaces[k].live
                               /\ surfaces'[k].owner = surfaces[k].owner
                               /\ surfaces'[k].frame_token = surfaces[k].frame_token
    BY <1>0, <2>1 DEF TypeOK, SurfaceSlotType
  <2>3. \A c \in ClientHandle : SamePending(surfaces, surfaces', c)
    BY <2>2 DEF SamePending, PendingKept, TokensPending
  <2> QED
    BY <1>0, <2>1, <2>3, RestEffect
<1>5. ASSUME NEW d \in ClientHandle, NEW s \in SurfaceHandle,
             \/ \E t \in Token : SurfaceFrame(d, s, t)
             \/ SurfaceCommit(d, s)
             \/ SurfaceDestroy(d, s)
      PROVE  WholeEffect
  BY <1>0, <1>5, FrameRequestEffect, CommitEffect, DestroyEffect DEF WholeEffect
<1>6. ASSUME \/ \E d \in ClientHandle \cup {NoHandle} : PointerFocus(d)
             \/ \E d \in ClientHandle, b \in BufferHandle : CursorSetBuffer(d, b)
             \/ \E d \in ClientHandle : CursorHide(d)
      PROVE  AllRest
  <2>1. /\ UNCHANGED <<surfaces, frames>>
        /\ events' = events \/ events' = EventsAfterUnref(cursor.buffer)
    BY <1>6 DEF PointerFocus, CursorSetBuffer, CursorHide
  <2> QED
    BY <1>0, <2>1, SameSelf, RestEffect
<1>7. ASSUME NEW d \in ClientHandle, NextEvent(d)
      PROVE  WholeEffect
  BY <1>0, <1>7, FramesEffect DEF WholeEffect, Acts
<1>8. ASSUME \/ ClientCreate
             \/ \E d \in ClientHandle : BufferRegister(d)
             \/ \E d \in ClientHandle, b \in BufferHandle : BufferUnregister(d, b)
             \/ UNCHANGED vars
      PROVE  AllRest
  <2>1. UNCHANGED <<surfaces, frames, events>>
    BY <1>8 DEF ClientCreate, BufferRegister, BufferUnregister, vars
  <2> QED
    BY <1>1, <2>1
<1>9. BuildFrame => AllRest
  BY <1>0, FramesEffect
<1>10. PresentDone => WholeEffect
  BY <1>0, FramesEffect DEF WholeEffect
<1>11. AllRest => WholeEffect
  <2>1. <<1, 1>> \in ClientHandle
    <3>1. 1 \in ClientSlot /\ 1 \in Generation
      BY CapacityAssumption DEF ClientSlot, Generation
    <3> QED
      BY <3>1 DEF ClientHandle
  <2> QED
    BY <2>1 DEF WholeEffect
<1> HIDE DEF AllRest
<1> QED
  BY <1>2, <1>3, <1>4, <1>5, <1>6, <1>7, <1>8, <1>9, <1>10, <1>11 DEF Next

LEMMA ClientEffect ==
  ASSUME WholeEffect, NEW c \in ClientHandle
  PROVE  Effect(c)
  BY DEF WholeEffect, Effect

-----------------------------------------------------------------------------
(* Room.  No step gives away the event slot that an accepted token or a    *)
(* waiting frame will need.                                                *)

Load(S, F, c) == Cardinality(SlotsHeld(F, c)) + Cardinality(TokensPending(S, c))

Room(S, F, E, c) ==
  /\ Len(E[c]) + Load(S, F, c) <= EventQuota
  /\ Load(S, F, c) <= FrameQuota

RoomInv == TypeInv /\ \A c \in ClientHandle : Room(surfaces, frames, events, c)

LEMMA LoadFinite ==
  ASSUME NEW S, NEW F, NEW c
  PROVE  /\ IsFiniteSet(SlotsHeld(F, c)) /\ Cardinality(SlotsHeld(F, c)) \in Nat
         /\ IsFiniteSet(TokensPending(S, c)) /\ Cardinality(TokensPending(S, c)) \in Nat
<1>1. IsFiniteSet(FrameSlot) /\ IsFiniteSet(SurfaceSlot)
  BY CapacityAssumption, FS_Interval DEF FrameSlot, SurfaceSlot
<1>2. IsFiniteSet(SlotsHeld(F, c)) /\ IsFiniteSet(TokensPending(S, c))
  BY <1>1, FS_Subset DEF SlotsHeld, TokensPending
<1> QED
  BY <1>2, FS_CardinalityType

LEMMA FramesOwnedIsLoad ==
  ASSUME NEW c
  PROVE  FramesOwned(c) = Load(surfaces, frames, c)
  BY DEF FramesOwned, FrameSlotsOf, PendingTokensOf, Load, SlotsHeld, TokensPending

LEMMA QuotaInt == EventQuota \in Int /\ EventQuota >= 0 /\ FrameQuota \in Int /\ FrameQuota >= 0
  BY CapacityAssumption DEF EventQuota, FrameQuota

\* Within the quota every frame in flight becomes an event.
LEMMA BatchComplete ==
  ASSUME TypeInv, NEW c \in ClientHandle, Room(surfaces, frames, events, c)
  PROVE  /\ Overdraft(c) = 0
         /\ FrameDoneBatch(c) \in Seq(Event)
         /\ Len(FrameDoneBatch(c)) = Cardinality(AssignedOf(c))
         /\ \A k \in 1 .. Cardinality(AssignedOf(c)) :
              FrameDoneBatch(c)[k] = FrameDoneEvent(frames[InSlotOrder(AssignedOf(c))[k]])
<1> DEFINE n == Cardinality(AssignedOf(c))
<1>1. n \in Nat
  <2>1. AssignedOf(c) \in SUBSET SlotsHeld(frames, c)
    BY DEF AssignedOf, FrameSlotsOf, SlotsHeld
  <2> QED
    BY <2>1, LoadFinite, FS_Subset, FS_CardinalityType
<1>2. Overdraft(c) = 0
  <2>1. Len(events[c]) \in Nat
    BY LenProperties DEF TypeInv, TypeOK
  <2>2. Load(surfaces, frames, c) \in Nat
    BY LoadFinite DEF Load
  <2>3. EventsOwned(c) + FramesOwned(c) - EventQuota <= 0
    BY <2>1, <2>2, QuotaInt, FramesOwnedIsLoad DEF Room, EventsOwned
  <2> QED
    BY <1>1, <2>3, OverdraftInt DEF Overdraft, TypeInv
<1>3. FrameDoneBatch(c) =
        [k \in 1 .. n |-> FrameDoneEvent(frames[InSlotOrder(AssignedOf(c))[k]])]
  <2>1. n - 0 = n /\ \A k \in 1 .. n : k + 0 = k
    BY <1>1
  <2> HIDE DEF n
  <2> QED
    BY <1>2, <2>1 DEF FrameDoneBatch, n
<1>4. FrameDoneBatch(c) \in Seq(Event)
  BY FrameDoneBatchType
<1>5. Len(FrameDoneBatch(c)) = n
  <2>1. DOMAIN FrameDoneBatch(c) = 1 .. n
    BY <1>3
  <2> HIDE DEF n
  <2> QED
    BY <1>1, <1>4, <2>1, LenProperties
<1> QED
  BY <1>2, <1>3, <1>4, <1>5

LEMMA RoomStep ==
  ASSUME TypeInv, NEW c \in ClientHandle, Effect(c),
         Room(surfaces, frames, events, c)
  PROVE  Room(surfaces', frames', events', c)
<1> DEFINE P  == TokensPending(surfaces, c)
           P2 == TokensPending(surfaces', c)
           H  == SlotsHeld(frames, c)
           H2 == SlotsHeld(frames', c)
           L  == Len(events[c])
           L2 == Len(events'[c])
           q  == EventQuota
<1>0. events[c] \in Seq(Event)
  BY DEF TypeInv, TypeOK
<1>1. /\ IsFiniteSet(P) /\ Cardinality(P) \in Nat
      /\ IsFiniteSet(P2) /\ Cardinality(P2) \in Nat
      /\ IsFiniteSet(H) /\ Cardinality(H) \in Nat
      /\ IsFiniteSet(H2) /\ Cardinality(H2) \in Nat
  BY LoadFinite
<1>2. L \in Nat
  BY <1>0, LenProperties
<1>3. L + (Cardinality(H) + Cardinality(P)) <= q /\ Cardinality(H) + Cardinality(P) <= FrameQuota
  BY DEF Room, Load
<1>4. EventReservationAvailable(c) =>
        L + (Cardinality(H) + Cardinality(P)) <= q - 1
  BY <1>1, <1>2, QuotaInt, FramesOwnedIsLoad
     DEF EventReservationAvailable, EventsOwned, Load
<1>5. QueueKept(c) => L2 + (Cardinality(H) + Cardinality(P)) <= q
  <2>1. CASE events'[c] = events[c]
    BY <1>3, <2>1
  <2>2. ASSUME EventReservationAvailable(c), NEW b,
               events'[c] = Append(events[c], ReleaseEvent(b))
        PROVE  L2 + (Cardinality(H) + Cardinality(P)) <= q
    <3>1. L2 = L + 1
      <4>1. Append(events[c], ReleaseEvent(b)) = events[c] \o <<ReleaseEvent(b)>>
        BY <1>0
      <4>2. events[c] \in Seq(Event \cup {ReleaseEvent(b)})
        BY <1>0
      <4> QED
        BY <2>2, <4>2, AppendProperties
    <3> HIDE DEF P, H, L, L2, q
    <3> QED
      BY <1>1, <1>2, <1>4, <2>2, <3>1, QuotaInt DEF q
  <2> QED
    BY <2>1, <2>2 DEF QueueKept
<1>6. L2 + (Cardinality(H2) + Cardinality(P2)) <= q /\ Cardinality(H2) + Cardinality(P2) <= FrameQuota
  <2>1. CASE Rests(c)
    <3>1. P2 = P /\ H2 = H
      BY <2>1 DEF Rests, SamePending, SameFrames
    <3> QED
      BY <1>3, <1>5, <2>1, <3>1 DEF Rests
  <2>2. ASSUME NEW k \in SurfaceSlot, NEW t \in Token, Requests(c, k, t)
        PROVE  /\ L2 + (Cardinality(H2) + Cardinality(P2)) <= q
               /\ Cardinality(H2) + Cardinality(P2) <= FrameQuota
    <3>1. P2 = P \cup {k} /\ k \notin P /\ H2 = H /\ L2 = L
      BY <2>2 DEF Requests
    <3>2. Cardinality(P2) = Cardinality(P) + 1
      <4> HIDE DEF P, P2
      <4> QED
        BY <1>1, <3>1, FS_AddElement
    <3>3. Cardinality(H) + Cardinality(P) < FrameQuota
      BY <2>2, FramesOwnedIsLoad DEF Requests, Load
    <3>4. L + (Cardinality(H) + Cardinality(P)) <= q - 1
      BY <1>4, <2>2 DEF Requests
    <3> HIDE DEF P, P2, H, H2, L, L2, q
    <3> QED
      BY <1>1, <1>2, <3>1, <3>2, <3>3, <3>4, QuotaInt DEF q
  <2>3. ASSUME NEW k \in SurfaceSlot, NEW i \in FrameSlot, Moves(c, k, i)
        PROVE  /\ L2 + (Cardinality(H2) + Cardinality(P2)) <= q
               /\ Cardinality(H2) + Cardinality(P2) <= FrameQuota
    <3>1. /\ P2 = P \ {k} /\ k \in P /\ H2 = H \cup {i} /\ i \notin H
          /\ QueueKept(c)
      BY <2>3 DEF Moves
    <3>2. Cardinality(P2) = Cardinality(P) - 1 /\ Cardinality(H2) = Cardinality(H) + 1
      <4> HIDE DEF P, P2, H, H2
      <4> QED
        BY <1>1, <3>1, FS_AddElement, FS_RemoveElement
    <3>3. Cardinality(H2) + Cardinality(P2) = Cardinality(H) + Cardinality(P)
      <4> HIDE DEF P, P2, H, H2
      <4> QED
        BY <1>1, <3>2
    <3> QED
      BY <1>3, <1>5, <3>1, <3>3
  <2>4. CASE Presents(c)
    <3> DEFINE A == AssignedOf(c)
    <3>1. /\ P2 = P /\ H2 = H \ A /\ A \in SUBSET H
          /\ events'[c] = events[c] \o FrameDoneBatch(c)
      BY <2>4 DEF Presents, AssignedOf, FrameSlotsOf, SlotsHeld
    <3>2. IsFiniteSet(A) /\ Cardinality(A) \in Nat
      BY <1>1, <3>1, FS_Subset, FS_CardinalityType
    <3>3. Cardinality(H2) = Cardinality(H) - Cardinality(A)
      <4>1. H \cap A = A
        BY <3>1
      <4> HIDE DEF H, H2, A
      <4> QED
        BY <1>1, <3>1, <3>2, <4>1, FS_Difference
    <3>4. L2 = L + Cardinality(A)
      <4>1. /\ FrameDoneBatch(c) \in Seq(Event)
            /\ Len(FrameDoneBatch(c)) = Cardinality(A)
        BY BatchComplete
      <4>2. Len(events[c] \o FrameDoneBatch(c)) = Len(events[c]) + Len(FrameDoneBatch(c))
        BY <1>0, <4>1, ConcatProperties
      <4> HIDE DEF A
      <4> QED
        BY <3>1, <4>1, <4>2
    <3> HIDE DEF P, P2, H, H2, L, L2, q, A
    <3> QED
      BY <1>1, <1>2, <1>3, <3>1, <3>2, <3>3, <3>4, QuotaInt DEF q
  <2>5. CASE Reads(c)
    <3>1. P2 = P /\ H2 = H
      BY <2>5 DEF Reads
    <3>2. L2 = L - 1
      BY <1>0, <2>5, HeadTailProperties DEF Reads
    <3> HIDE DEF P, P2, H, H2, L, L2, q
    <3> QED
      BY <1>1, <1>2, <1>3, <3>1, <3>2, QuotaInt DEF q
  <2>6. CASE Leaves(c)
    <3>1. Cardinality(P2) = 0 /\ Cardinality(H2) = 0 /\ L2 = 0
      BY <2>6, FS_EmptySet DEF Leaves
    <3> HIDE DEF P, P2, H, H2, L, L2
    <3> QED
      BY <3>1, QuotaInt
  <2> QED
    BY <2>1, <2>2, <2>3, <2>4, <2>5, <2>6 DEF Effect, Acts
<1> QED
  BY <1>6 DEF Room, Load

LEMMA InitRoomInv == Init => RoomInv
<1> SUFFICES ASSUME Init, NEW c \in ClientHandle
             PROVE  Room(surfaces, frames, events, c)
  BY InitTypeInv DEF RoomInv
<1>1. TokensPending(surfaces, c) = {} /\ SlotsHeld(frames, c) = {}
  BY DEF Init, TokensPending, SlotsHeld, BlankSurface, FreeFrame
<1>2. Load(surfaces, frames, c) = 0
  BY <1>1, FS_EmptySet DEF Load
<1>3. Len(events[c]) = 0
  BY DEF Init
<1> QED
  BY <1>2, <1>3, QuotaInt DEF Room

LEMMA NextRoomInv ==
  ASSUME RoomInv, [Next]_vars
  PROVE  RoomInv'
<1>1. TypeInv'
  BY NextTypeInv DEF RoomInv
<1>2. \A c \in ClientHandle : Room(surfaces', frames', events', c)
  BY StepEffect, ClientEffect, RoomStep DEF RoomInv
<1> QED
  BY <1>1, <1>2 DEF RoomInv, Room, Load, SlotsHeld, TokensPending

\* Every client stays within its share.
THEOREM RoomInvariance == Spec => []RoomInv
<1>1. RoomInv /\ [Next]_vars => RoomInv'
  BY NextRoomInv
<1> QED
  BY <1>1, InitRoomInv, PTL DEF Spec

\* The push in moo_comp_present_done, whose result the code throws away, never
\* fails: no client ever holds more events, frames and accepted tokens than
\* its share of the two tables.
THEOREM AcceptedTokensHaveRoom == Spec => []AcceptedTokenHasRoom
<1>1. RoomInv => AcceptedTokenHasRoom
  BY FramesOwnedIsLoad DEF RoomInv, Room, AcceptedTokenHasRoom, EventsOwned
<1> QED
  BY <1>1, RoomInvariance, PTL
-----------------------------------------------------------------------------
(* Places.  The places of one token of one client: surfaces that ask for   *)
(* it, frame slots that carry it, positions of its event in the queue.     *)

PendingFor(S, c, t) == {k \in TokensPending(S, c) : S[k].frame_token = t}
FramesFor(F, c, t)  == {i \in SlotsHeld(F, c) : F[i].token = t}
Names(e, t)         == e.type = "FRAME_DONE" /\ e.token = t
EventsFor(E, c, t)  == {k \in DOMAIN E[c] : Names(E[c][k], t)}

OnePlace(P, F, E) ==
  \/ P = {} /\ F = {} /\ E = {}
  \/ \E k : P = {k} /\ F = {} /\ E = {}
  \/ \E i : P = {} /\ F = {i} /\ E = {}
  \/ \E n : P = {} /\ F = {} /\ E = {n}

\* How a step may move a token from one place to the next.
Path(c, P, F, E, P2, F2, E2) ==
  \/ P2 = P /\ F2 = F /\ E2 = E
  \/ /\ P = {} /\ F = {} /\ E = {}
     /\ \E k : P2 = {k} /\ F2 = {} /\ E2 = {}
  \/ /\ \E k : P = {k} /\ F = {} /\ E = {}
     /\ \E i : P2 = {} /\ F2 = {i} /\ E2 = {}
  \/ /\ \E i : P = {} /\ F = {i} /\ E = {}
     /\ \E n : P2 = {} /\ F2 = {} /\ E2 = {n}
  \/ /\ \E n : P = {} /\ F = {} /\ E = {n}
     /\ \E n : P2 = {} /\ F2 = {} /\ E2 = {n}
  \/ /\ P = {} /\ F = {} /\ E = {1} /\ Reads(c)
     /\ P2 = {} /\ F2 = {} /\ E2 = {}
  \/ Leaves(c) /\ P2 = {} /\ F2 = {} /\ E2 = {}

LEMMA PathKeepsOnePlace ==
  ASSUME NEW c, NEW P, NEW F, NEW E, NEW P2, NEW F2, NEW E2,
         OnePlace(P, F, E), Path(c, P, F, E, P2, F2, E2)
  PROVE  OnePlace(P2, F2, E2)
  BY DEF OnePlace, Path

LEMMA SamePlaces ==
  ASSUME NEW c, NEW t
  PROVE  /\ SamePending(surfaces, surfaces', c) =>
              PendingFor(surfaces', c, t) = PendingFor(surfaces, c, t)
         /\ SameFrames(frames, frames', c) =>
              FramesFor(frames', c, t) = FramesFor(frames, c, t)
<1>1. ASSUME SamePending(surfaces, surfaces', c)
      PROVE  PendingFor(surfaces', c, t) = PendingFor(surfaces, c, t)
  BY <1>1 DEF SamePending, PendingKept, PendingFor
<1>2. ASSUME SameFrames(frames, frames', c)
      PROVE  FramesFor(frames', c, t) = FramesFor(frames, c, t)
  BY <1>2 DEF SameFrames, TokensKept, FramesFor
<1> QED
  BY <1>1, <1>2

\* A release event names no token.
LEMMA QueueKeptPlaces ==
  ASSUME TypeOK, NEW c \in ClientHandle, NEW t, QueueKept(c)
  PROVE  EventsFor(events', c, t) = EventsFor(events, c, t)
<1>0. events[c] \in Seq(Event)
  BY DEF TypeOK
<1>1. CASE events'[c] = events[c]
  BY <1>1 DEF EventsFor
<1>2. ASSUME NEW b, events'[c] = Append(events[c], ReleaseEvent(b))
      PROVE  EventsFor(events', c, t) = EventsFor(events, c, t)
  <2> DEFINE e == ReleaseEvent(b)
             q == events[c]
             r == events'[c]
             n == Len(q)
  <2>1. e.type = "BUFFER_RELEASE"
    BY DEF ReleaseEvent
  <2> HIDE DEF e
  <2>2. q \in Seq(Event \cup {e}) /\ e \in Event \cup {e} /\ r = Append(q, e)
    BY <1>0, <1>2 DEF e
  <2>3. /\ n \in Nat /\ DOMAIN q = 1 .. n /\ DOMAIN r = 1 .. (n + 1)
        /\ r[n + 1] = e /\ \A k \in 1 .. n : r[k] = q[k]
    <3> HIDE DEF q, r
    <3> QED
      BY <2>2, AppendProperties, LenProperties
  <2>4. \A k : k \in EventsFor(events', c, t) <=> k \in EventsFor(events, c, t)
    <3> SUFFICES ASSUME NEW k
                 PROVE  k \in DOMAIN r /\ Names(r[k], t) <=> k \in DOMAIN q /\ Names(q[k], t)
      BY DEF EventsFor
    <3> HIDE DEF q, r, n
    <3>1. CASE k = n + 1
      BY <2>1, <2>3, <3>1 DEF Names
    <3>2. CASE k # n + 1
      <4>1. k \in 1 .. (n + 1) <=> k \in 1 .. n
        BY <2>3, <3>2
      <4> QED
        BY <2>3, <4>1
    <3> QED
      BY <3>1, <3>2
  <2> QED
    BY <2>4
<1> QED
  BY <1>1, <1>2 DEF QueueKept

\* One present turns the frames in flight into events, each once: the batch
\* holds the event of slot i at the rank of i.
LEMMA PresentPlaces ==
  ASSUME TypeInv, NEW c \in ClientHandle, NEW t \in Token,
         Room(surfaces, frames, events, c), Presents(c),
         OnePlace(PendingFor(surfaces, c, t), FramesFor(frames, c, t),
                  EventsFor(events, c, t))
  PROVE  \/ /\ FramesFor(frames', c, t) = FramesFor(frames, c, t)
            /\ EventsFor(events', c, t) = EventsFor(events, c, t)
         \/ /\ \E i : FramesFor(frames, c, t) = {i}
            /\ PendingFor(surfaces, c, t) = {} /\ EventsFor(events, c, t) = {}
            /\ FramesFor(frames', c, t) = {}
            /\ \E n : EventsFor(events', c, t) = {n}
<1> DEFINE A == AssignedOf(c)
           m == Cardinality(A)
           q == events[c]
           batch == FrameDoneBatch(c)
           n == Len(q)
           F == FramesFor(frames, c, t)
<1>0. q \in Seq(Event) /\ n \in Nat /\ DOMAIN q = 1 .. n
  BY LenProperties DEF TypeInv, TypeOK
<1>1. A \in SUBSET (1 .. FrameCapacity) /\ FrameCapacity \in Nat /\ m \in Nat
  <2>1. A \in SUBSET (1 .. FrameCapacity) /\ FrameCapacity \in Nat
    BY CapacityAssumption DEF AssignedOf, FrameSlotsOf, FrameSlot
  <2> QED
    BY <2>1, RankIsBijection
<1>2. /\ batch \in Seq(Event) /\ Len(batch) = m
      /\ \A k \in 1 .. m : batch[k] = FrameDoneEvent(frames[InSlotOrder(A)[k]])
  BY BatchComplete
<1>3. \A k \in 1 .. m : /\ InSlotOrder(A)[k] \in A
                        /\ Rank(A)[InSlotOrder(A)[k]] = k
                        /\ Names(batch[k], t) <=> frames[InSlotOrder(A)[k]].token = t
  <2> SUFFICES ASSUME NEW k \in 1 .. m
               PROVE  /\ InSlotOrder(A)[k] \in A
                      /\ Rank(A)[InSlotOrder(A)[k]] = k
                      /\ Names(batch[k], t) <=> frames[InSlotOrder(A)[k]].token = t
    OBVIOUS
  <2>1. InSlotOrder(A)[k] \in A /\ Rank(A)[InSlotOrder(A)[k]] = k
    BY <1>1, InSlotOrderRank
  <2>2. batch[k] = FrameDoneEvent(frames[InSlotOrder(A)[k]])
    BY <1>2
  <2> HIDE DEF A, batch
  <2> QED
    BY <2>1, <2>2 DEF Names, FrameDoneEvent
<1>4. /\ DOMAIN events'[c] = 1 .. (n + m)
      /\ \A k \in 1 .. n : events'[c][k] = q[k]
      /\ \A k \in 1 .. m : events'[c][n + k] = batch[k]
  <2>1. events'[c] = q \o batch
    BY DEF Presents
  <2> HIDE DEF q, batch, m
  <2>2. Len(q \o batch) = n + m /\ q \o batch \in Seq(Event)
    BY <1>0, <1>2, ConcatProperties
  <2>3. DOMAIN (q \o batch) = 1 .. (n + m)
    BY <2>2, LenProperties
  <2>4. \A k \in 1 .. (n + m) : (q \o batch)[k] = IF k <= n THEN q[k] ELSE batch[k - n]
    BY <1>0, <1>1, <1>2, ConcatProperties DEF m
  <2>5. \A k \in 1 .. n : k \in 1 .. (n + m) /\ k <= n
    BY <1>0, <1>1 DEF m
  <2>6. \A k \in 1 .. m : n + k \in 1 .. (n + m) /\ ~ (n + k <= n) /\ n + k - n = k
    BY <1>0, <1>1 DEF m
  <2>7. \A k \in 1 .. n : (q \o batch)[k] = q[k]
    BY <2>4, <2>5
  <2>8. \A k \in 1 .. m : (q \o batch)[n + k] = batch[k]
    <3> SUFFICES ASSUME NEW k \in 1 .. m
                 PROVE  (q \o batch)[n + k] = batch[k]
      OBVIOUS
    <3> DEFINE x == n + k
    <3>1. x \in 1 .. (n + m) /\ ~ (x <= n) /\ x - n = k
      BY <2>6
    <3> HIDE DEF x
    <3>2. (q \o batch)[x] = batch[x - n]
      BY <2>4, <3>1
    <3> QED
      BY <3>1, <3>2 DEF x
  <2> QED
    BY <2>1, <2>3, <2>7, <2>8
<1>5. \A x : x \in EventsFor(events', c, t) <=>
        \/ x \in EventsFor(events, c, t)
        \/ \E k \in 1 .. m : x = n + k /\ frames[InSlotOrder(A)[k]].token = t
  <2> SUFFICES ASSUME NEW x
               PROVE  x \in 1 .. (n + m) /\ Names(events'[c][x], t) <=>
                        \/ x \in 1 .. n /\ Names(q[x], t)
                        \/ \E k \in 1 .. m :
                             x = n + k /\ frames[InSlotOrder(A)[k]].token = t
    BY <1>0, <1>4 DEF EventsFor
  <2> HIDE DEF q, n, m, A, batch
  <2>1. x \in 1 .. (n + m) <=> x \in 1 .. n \/ \E k \in 1 .. m : x = n + k
    <3>1. n \in Nat /\ m \in Nat
      BY <1>0, <1>1 DEF n, m
    <3>2. ASSUME x \in 1 .. (n + m), ~ (x \in 1 .. n)
          PROVE  \E k \in 1 .. m : x = n + k
      <4>1. x - n \in 1 .. m /\ x = n + (x - n)
        BY <3>1, <3>2
      <4> QED
        BY <4>1
    <3>3. \A k \in 1 .. m : n + k \in 1 .. (n + m)
      BY <3>1
    <3>4. \A k \in 1 .. n : k \in 1 .. (n + m)
      BY <3>1
    <3> QED
      BY <3>2, <3>3, <3>4
  <2>2. \A k \in 1 .. m : n + k \notin 1 .. n
    <3>1. n \in Nat /\ m \in Nat
      BY <1>0, <1>1 DEF n, m
    <3> QED
      BY <3>1
  <2> QED
    BY <1>3, <1>4, <2>1, <2>2
<1>6. A \subseteq SlotsHeld(frames, c)
  BY DEF AssignedOf, FrameSlotsOf, SlotsHeld
<1>7. \A i : i \in FramesFor(frames', c, t) <=> i \in F /\ i \notin A
  BY DEF Presents, FramesFor, TokensKept
<1>8. \A k \in 1 .. m : frames[InSlotOrder(A)[k]].token = t => InSlotOrder(A)[k] \in F \cap A
  BY <1>3, <1>6 DEF FramesFor
<1>9. CASE F \cap A = {}
  <2>1. \A x : x \in EventsFor(events', c, t) <=> x \in EventsFor(events, c, t)
    <3> HIDE DEF A, F, n, m
    <3> QED
      BY <1>5, <1>8, <1>9
  <2>2. EventsFor(events', c, t) = EventsFor(events, c, t)
    BY <2>1
  <2>3. FramesFor(frames', c, t) = F
    <3>1. \A i : i \in FramesFor(frames', c, t) <=> i \in F
      <4> HIDE DEF A, F
      <4> QED
        BY <1>7, <1>9
    <3> HIDE DEF F
    <3> QED
      BY <3>1
  <2> QED
    BY <2>2, <2>3
<1>10. ASSUME NEW i \in F \cap A
       PROVE  /\ F = {i}
              /\ PendingFor(surfaces, c, t) = {} /\ EventsFor(events, c, t) = {}
              /\ FramesFor(frames', c, t) = {}
              /\ EventsFor(events', c, t) = {n + Rank(A)[i]}
  <2>1. F = {i} /\ PendingFor(surfaces, c, t) = {} /\ EventsFor(events, c, t) = {}
    <3> HIDE DEF F, A
    <3> QED
      BY <1>10 DEF OnePlace, F
  <2>2. FramesFor(frames', c, t) = {}
    <3> HIDE DEF F, A
    <3> QED
      BY <1>7, <2>1
  <2>3. Rank(A)[i] \in 1 .. m /\ InSlotOrder(A)[Rank(A)[i]] = i
    <3>1. Rank(A)[i] \in 1 .. m
      BY <1>1, RankIsBijection
    <3>2. /\ InSlotOrder(A)[Rank(A)[i]] \in A
          /\ Rank(A)[InSlotOrder(A)[Rank(A)[i]]] = Rank(A)[i]
      BY <1>3, <3>1
    <3> QED
      BY <1>1, <3>1, <3>2, RankIsBijection
  <2>4. frames[i].token = t
    BY DEF FramesFor
  <2>5. \A k \in 1 .. m : frames[InSlotOrder(A)[k]].token = t => k = Rank(A)[i]
    <3> HIDE DEF F, A, m
    <3> QED
      BY <1>3, <1>8, <2>1
  <2>6. \A x : x \in EventsFor(events', c, t) <=> x = n + Rank(A)[i]
    <3> HIDE DEF F, A, m, n
    <3> QED
      BY <1>5, <2>1, <2>3, <2>4, <2>5
  <2> QED
    <3> HIDE DEF F, A, n
    <3> QED
      BY <2>1, <2>2, <2>6
<1>11. CASE F \cap A # {}
  <2>1. PICK i : i \in F \cap A
    BY <1>11
  <2> HIDE DEF A, F, n
  <2> QED
    BY <1>10, <2>1 DEF F
<1> QED
  BY <1>9, <1>11

\* Reading takes the first event and moves the others up.
LEMMA ReadPlaces ==
  ASSUME TypeOK, NEW c \in ClientHandle, NEW t, Reads(c)
  PROVE  EventsFor(events', c, t) = {k - 1 : k \in EventsFor(events, c, t) \ {1}}
<1> DEFINE q == events[c]
           n == Len(q)
           E == EventsFor(events, c, t)
<1>1. /\ q \in Seq(Event) /\ n \in Nat /\ n # 0 /\ DOMAIN q = 1 .. n
      /\ DOMAIN events'[c] = 1 .. (n - 1)
      /\ \A k \in 1 .. (n - 1) : events'[c][k] = q[k + 1]
  <2>1. q \in Seq(Event) /\ q # <<>> /\ events'[c] = Tail(q)
    BY DEF TypeOK, Reads
  <2> HIDE DEF q
  <2>2. n \in Nat /\ n # 0 /\ DOMAIN q = 1 .. n
    BY <2>1, LenProperties, EmptySeq
  <2>3. Tail(q) \in Seq(Event) /\ Len(Tail(q)) = n - 1
        /\ \A k \in 1 .. Len(Tail(q)) : Tail(q)[k] = q[k + 1]
    BY <2>1, HeadTailProperties
  <2> QED
    BY <2>1, <2>2, <2>3, LenProperties
<1>2. E = {k \in 1 .. n : Names(q[k], t)}
  BY <1>1 DEF EventsFor
<1>3. EventsFor(events', c, t) = {k \in 1 .. (n - 1) : Names(q[k + 1], t)}
  BY <1>1 DEF EventsFor
<1> HIDE DEF q, n, E
<1>4. \A x : x \in {k \in 1 .. (n - 1) : Names(q[k + 1], t)}
               <=> x \in {k - 1 : k \in E \ {1}}
  <2> SUFFICES ASSUME NEW x
               PROVE  x \in 1 .. (n - 1) /\ Names(q[x + 1], t)
                        <=> \E k \in 1 .. n : k # 1 /\ Names(q[k], t) /\ x = k - 1
    BY <1>2
  <2>1. ASSUME x \in 1 .. (n - 1), Names(q[x + 1], t)
        PROVE  \E k \in 1 .. n : k # 1 /\ Names(q[k], t) /\ x = k - 1
    <3>1. x + 1 \in 1 .. n /\ x + 1 # 1 /\ x = (x + 1) - 1
      BY <1>1, <2>1
    <3> QED
      BY <2>1, <3>1
  <2>2. ASSUME NEW k \in 1 .. n, k # 1, Names(q[k], t), x = k - 1
        PROVE  x \in 1 .. (n - 1) /\ Names(q[x + 1], t)
    <3>1. k - 1 \in 1 .. (n - 1) /\ k - 1 + 1 = k
      BY <1>1, <2>2
    <3> QED
      BY <2>2, <3>1
  <2> QED
    BY <2>1, <2>2
<1> QED
  BY <1>3, <1>4 DEF E

\* A request finds its token nowhere and puts it at its surface.
LEMMA RequestPlaces ==
  ASSUME NEW c, NEW k, NEW u \in Token, NEW t \in Token, Requests(c, k, u)
  PROVE  /\ FramesFor(frames', c, t) = FramesFor(frames, c, t)
         /\ EventsFor(events', c, t) = EventsFor(events, c, t)
         /\ u # t => PendingFor(surfaces', c, t) = PendingFor(surfaces, c, t)
         /\ u = t => /\ PendingFor(surfaces, c, t) = {}
                     /\ FramesFor(frames, c, t) = {}
                     /\ EventsFor(events, c, t) = {}
                     /\ PendingFor(surfaces', c, t) = {k}
<1>1. /\ FramesFor(frames', c, t) = FramesFor(frames, c, t)
      /\ EventsFor(events', c, t) = EventsFor(events, c, t)
  BY DEF Requests
<1>2. CASE u # t
  <2>1. PendingFor(surfaces', c, t) = PendingFor(surfaces, c, t)
    BY <1>2 DEF Requests, PendingFor, PendingKept
  <2> QED
    BY <1>1, <1>2, <2>1
<1>3. CASE u = t
  <2>1. /\ PendingFor(surfaces, c, t) = {}
        /\ FramesFor(frames, c, t) = {}
        /\ EventsFor(events, c, t) = {}
    BY <1>3 DEF Requests, TokenAvailable, PendingFor, TokensPending, FramesFor,
                SlotsHeld, FrameSlotsOf, EventsFor, Names
  <2>2. PendingFor(surfaces', c, t) = {k}
    BY <1>3, <2>1 DEF Requests, PendingFor, PendingKept
  <2> QED
    BY <1>1, <1>3, <2>1, <2>2
<1> QED
  BY <1>2, <1>3

\* A commit or destroy moves the token of its surface, and no other.
LEMMA MovePlaces ==
  ASSUME TypeOK, NEW c \in ClientHandle, NEW k, NEW i, NEW t, Moves(c, k, i),
         OnePlace(PendingFor(surfaces, c, t), FramesFor(frames, c, t),
                  EventsFor(events, c, t))
  PROVE  /\ EventsFor(events', c, t) = EventsFor(events, c, t)
         /\ surfaces[k].frame_token # t =>
              /\ PendingFor(surfaces', c, t) = PendingFor(surfaces, c, t)
              /\ FramesFor(frames', c, t) = FramesFor(frames, c, t)
         /\ surfaces[k].frame_token = t =>
              /\ PendingFor(surfaces, c, t) = {k}
              /\ FramesFor(frames, c, t) = {}
              /\ EventsFor(events, c, t) = {}
              /\ PendingFor(surfaces', c, t) = {}
              /\ FramesFor(frames', c, t) = {i}
<1> DEFINE P == PendingFor(surfaces, c, t)
           F == FramesFor(frames, c, t)
           E == EventsFor(events, c, t)
<1>1. EventsFor(events', c, t) = E
  BY QueueKeptPlaces DEF Moves
<1>2. CASE surfaces[k].frame_token # t
  <2>1. PendingFor(surfaces', c, t) = P
    BY <1>2 DEF Moves, PendingFor, PendingKept
  <2>2. FramesFor(frames', c, t) = F
    BY <1>2 DEF Moves, FramesFor, TokensKept
  <2> QED
    BY <1>1, <1>2, <2>1, <2>2
<1>3. CASE surfaces[k].frame_token = t
  <2>1. k \in P
    BY <1>3 DEF Moves, PendingFor
  <2>2. P = {k} /\ F = {} /\ E = {}
    <3> HIDE DEF P, F, E
    <3> QED
      BY <2>1 DEF OnePlace, P, F, E
  <2>3. PendingFor(surfaces', c, t) = {}
    BY <1>3, <2>2 DEF Moves, PendingFor, PendingKept
  <2>4. FramesFor(frames', c, t) = {i}
    BY <1>3, <2>2 DEF Moves, FramesFor, TokensKept
  <2> QED
    BY <1>1, <1>3, <2>2, <2>3, <2>4
<1> QED
  BY <1>2, <1>3

LEMMA TokenPath ==
  ASSUME TypeInv, NEW c \in ClientHandle, NEW t \in Token, Effect(c),
         Room(surfaces, frames, events, c),
         OnePlace(PendingFor(surfaces, c, t), FramesFor(frames, c, t),
                  EventsFor(events, c, t))
  PROVE  Path(c, PendingFor(surfaces, c, t), FramesFor(frames, c, t),
              EventsFor(events, c, t), PendingFor(surfaces', c, t),
              FramesFor(frames', c, t), EventsFor(events', c, t))
<1> DEFINE P  == PendingFor(surfaces, c, t)
           P2 == PendingFor(surfaces', c, t)
           F  == FramesFor(frames, c, t)
           F2 == FramesFor(frames', c, t)
           E  == EventsFor(events, c, t)
           E2 == EventsFor(events', c, t)
<1>0. TypeOK
  BY DEF TypeInv
<1>1. CASE Rests(c)
  <2>1. P2 = P /\ F2 = F /\ E2 = E
    BY <1>0, <1>1, SamePlaces, QueueKeptPlaces DEF Rests
  <2> QED
    BY <2>1 DEF Path
<1>2. ASSUME NEW k \in SurfaceSlot, NEW u \in Token, Requests(c, k, u)
      PROVE  Path(c, P, F, E, P2, F2, E2)
  <2>1. /\ F2 = F /\ E2 = E
        /\ u # t => P2 = P
        /\ u = t => P = {} /\ F = {} /\ E = {} /\ P2 = {k}
    BY <1>2, RequestPlaces
  <2> HIDE DEF P, P2, F, F2, E, E2
  <2>2. Path(c, P, F, E, P2, F2, E2)
    BY <2>1 DEF Path
  <2> QED
    BY <2>2
<1>3. ASSUME NEW k \in SurfaceSlot, NEW i \in FrameSlot, Moves(c, k, i)
      PROVE  Path(c, P, F, E, P2, F2, E2)
  <2>1. /\ E2 = E
        /\ surfaces[k].frame_token # t => P2 = P /\ F2 = F
        /\ surfaces[k].frame_token = t =>
             P = {k} /\ F = {} /\ E = {} /\ P2 = {} /\ F2 = {i}
    BY <1>0, <1>3, MovePlaces
  <2> HIDE DEF P, P2, F, F2, E, E2
  <2>2. Path(c, P, F, E, P2, F2, E2)
    BY <2>1 DEF Path
  <2> QED
    BY <2>2
<1>4. CASE Presents(c)
  <2>1. P2 = P
    BY <1>4 DEF Presents
  <2>2. \/ F2 = F /\ E2 = E
        \/ /\ \E i : F = {i}
           /\ P = {} /\ E = {}
           /\ F2 = {}
           /\ \E n : E2 = {n}
    BY <1>4, PresentPlaces
  <2> HIDE DEF P, P2, F, F2, E, E2
  <2>3. Path(c, P, F, E, P2, F2, E2)
    BY <2>1, <2>2 DEF Path
  <2> QED
    BY <2>3 DEF P, P2, F, F2, E, E2
<1>5. CASE Reads(c)
  <2>1. P2 = P /\ F2 = F
    BY <1>5 DEF Reads
  <2>2. E2 = {k - 1 : k \in E \ {1}}
    BY <1>0, <1>5, ReadPlaces
  <2>3. CASE E = {}
    <3>1. E2 = E
      BY <2>2, <2>3
    <3> QED
      BY <2>1, <3>1 DEF Path
  <2>4. CASE E # {}
    <3>1. PICK n : P = {} /\ F = {} /\ E = {n}
      <4> HIDE DEF P, F, E
      <4> QED
        BY <2>4 DEF OnePlace, P, F, E
    <3>2. CASE n = 1
      <4>1. E2 = {}
        BY <2>2, <3>1, <3>2
      <4> QED
        BY <1>5, <2>1, <3>1, <3>2, <4>1 DEF Path
    <3>3. CASE n # 1
      <4>1. E2 = {n - 1}
        BY <2>2, <3>1, <3>3
      <4> QED
        BY <2>1, <3>1, <4>1 DEF Path
    <3> QED
      BY <3>2, <3>3
  <2> QED
    BY <2>3, <2>4
<1>6. CASE Leaves(c)
  <2>1. P2 = {} /\ F2 = {} /\ E2 = {}
    BY <1>6 DEF Leaves, PendingFor, FramesFor, EventsFor
  <2> QED
    BY <1>6, <2>1 DEF Path
<1> QED
  BY <1>1, <1>2, <1>3, <1>4, <1>5, <1>6 DEF Effect, Acts

TokenInv ==
  /\ RoomInv
  /\ \A c \in ClientHandle, t \in Token :
       OnePlace(PendingFor(surfaces, c, t), FramesFor(frames, c, t),
                EventsFor(events, c, t))

\* A token is never in two places.
THEOREM TokenInvariance == Spec => []TokenInv
<1>1. Init => TokenInv
  <2> SUFFICES ASSUME Init, NEW c \in ClientHandle, NEW t \in Token
               PROVE  OnePlace(PendingFor(surfaces, c, t), FramesFor(frames, c, t),
                               EventsFor(events, c, t))
    BY InitRoomInv DEF TokenInv
  <2>1. TokensPending(surfaces, c) = {} /\ SlotsHeld(frames, c) = {}
    BY DEF Init, TokensPending, SlotsHeld, BlankSurface, FreeFrame
  <2>2. EventsFor(events, c, t) = {}
    BY DEF Init, EventsFor
  <2> QED
    BY <2>1, <2>2 DEF OnePlace, PendingFor, FramesFor
<1>2. TokenInv /\ [Next]_vars => TokenInv'
  <2> SUFFICES ASSUME TokenInv, [Next]_vars
               PROVE  TokenInv'
    OBVIOUS
  <2>1. RoomInv'
    BY NextRoomInv DEF TokenInv
  <2>2. \A c \in ClientHandle, t \in Token :
          OnePlace(PendingFor(surfaces', c, t), FramesFor(frames', c, t),
                   EventsFor(events', c, t))
    <3> SUFFICES ASSUME NEW c \in ClientHandle, NEW t \in Token
                 PROVE  OnePlace(PendingFor(surfaces', c, t), FramesFor(frames', c, t),
                                 EventsFor(events', c, t))
      OBVIOUS
    <3>1. Effect(c)
      BY StepEffect, ClientEffect DEF TokenInv, RoomInv
    <3> QED
      BY <3>1, TokenPath, PathKeepsOnePlace DEF TokenInv, RoomInv
  <2> QED
    BY <2>1, <2>2
       DEF TokenInv, OnePlace, PendingFor, TokensPending, FramesFor, SlotsHeld, EventsFor
<1> QED
  BY <1>1, <1>2, PTL DEF Spec

LEMMA PlacesAre ==
  ASSUME NEW c, NEW t
  PROVE  /\ PendingPlaces(c, t) = PendingFor(surfaces, c, t)
         /\ FramePlaces(c, t) = FramesFor(frames, c, t)
         /\ EventPlaces(c, t) = EventsFor(events, c, t)
  BY DEF PendingPlaces, FramePlaces, EventPlaces, PendingFor, FramesFor, EventsFor,
         PendingTokensOf, TokensPending, FrameSlotsOf, SlotsHeld, IsDone, Names

\* No token is reported twice: on its way from the request over the frame to
\* the event it is in at most one place.
THEOREM TokensAreInOnePlace == Spec => []TokenInOnePlace
<1>1. ASSUME TokenInv PROVE TokenInOnePlace
  <2> SUFFICES ASSUME NEW c \in ClientHandle, NEW t \in Token
               PROVE  Cardinality(PendingPlaces(c, t)) + Cardinality(FramePlaces(c, t))
                        + Cardinality(EventPlaces(c, t)) <= 1
    BY DEF TokenInOnePlace
  <2>1. OnePlace(PendingPlaces(c, t), FramePlaces(c, t), EventPlaces(c, t))
    BY <1>1, PlacesAre DEF TokenInv
  <2>2. Cardinality({}) = 0 /\ \A x : Cardinality({x}) = 1
    BY FS_EmptySet, FS_Singleton
  <2> DEFINE P == PendingPlaces(c, t)
             F == FramePlaces(c, t)
             E == EventPlaces(c, t)
  <2> HIDE DEF P, F, E
  <2>3. OnePlace(P, F, E)
    BY <2>1 DEF P, F, E
  <2>4. /\ Cardinality(P) \in {0, 1}
        /\ Cardinality(F) \in {0, 1}
        /\ Cardinality(E) \in {0, 1}
        /\ \/ Cardinality(F) = 0 /\ Cardinality(E) = 0
           \/ Cardinality(P) = 0 /\ Cardinality(E) = 0
           \/ Cardinality(P) = 0 /\ Cardinality(F) = 0
    BY <2>2, <2>3, Zenon DEF OnePlace
  <2>5. Cardinality(P) + Cardinality(F) + Cardinality(E) <= 1
    BY <2>4
  <2> QED
    BY <2>5 DEF P, F, E
<1> QED
  BY <1>1, TokenInvariance, PTL

\* What TokenEndsByDelivery says of one step.
DeliveryStep ==
  \A c \in ClientHandle, t \in Token :
    Outstanding(c, t) /\ ~Outstanding(c, t)' =>
      \/ ~ClientOk(c)'
      \/ /\ events[c] # <<>> /\ IsDone(c, t, 1)
         /\ events'[c] = Tail(events[c])

\* No accepted token is lost: it ends when its client reads the FRAME_DONE
\* event, or with its client.
THEOREM TokensEndByDelivery == Spec => TokenEndsByDelivery
<1>1. ASSUME TokenInv, TokenInv', [Next]_vars
      PROVE  DeliveryStep
  <2> SUFFICES ASSUME NEW c \in ClientHandle, NEW t \in Token,
                      Outstanding(c, t), ~Outstanding(c, t)'
               PROVE  \/ ~ClientOk(c)'
                      \/ /\ events[c] # <<>> /\ IsDone(c, t, 1)
                         /\ events'[c] = Tail(events[c])
    BY DEF DeliveryStep
  <2> DEFINE P  == PendingFor(surfaces, c, t)
             P2 == PendingFor(surfaces', c, t)
             F  == FramesFor(frames, c, t)
             F2 == FramesFor(frames', c, t)
             E  == EventsFor(events, c, t)
             E2 == EventsFor(events', c, t)
  <2>1. P \cup F \cup E # {}
    BY PlacesAre DEF Outstanding
  <2>2. P2 \cup F2 \cup E2 = {}
    BY DEF Outstanding, PendingPlaces, FramePlaces, EventPlaces, PendingFor, FramesFor,
           EventsFor, PendingTokensOf, TokensPending, FrameSlotsOf, SlotsHeld, IsDone, Names
  <2>3. Path(c, P, F, E, P2, F2, E2)
    <3>1. Effect(c)
      BY <1>1, StepEffect, ClientEffect DEF TokenInv, RoomInv
    <3> QED
      BY <1>1, <3>1, TokenPath DEF TokenInv, RoomInv
  <2>4. Leaves(c) \/ (Reads(c) /\ E = {1})
    <3> HIDE DEF P, P2, F, F2, E, E2
    <3> QED
      BY <2>1, <2>2, <2>3 DEF Path
  <2>5. CASE Leaves(c)
    <3>1. clients' = [clients EXCEPT ![c[1]] = DeadClient(NextGeneration(c[2]))]
      BY <2>5 DEF Leaves, ClientDisconnect
    <3>2. clients \in [ClientSlot -> ClientSlotType] /\ c[1] \in ClientSlot
      BY <1>1, HandleParts DEF TokenInv, RoomInv, TypeInv, TypeOK
    <3>3. ~ClientOk(c)'
      BY <3>1, <3>2 DEF ClientOk, IsLive, DeadClient
    <3> QED
      BY <3>3
  <2>6. CASE Reads(c) /\ E = {1}
    BY <2>6 DEF Reads, EventsFor, Names, IsDone
  <2> QED
    BY <2>4, <2>5, <2>6
<1>2. TokenInv /\ TokenInv' /\ [Next]_vars => [DeliveryStep]_vars
  BY <1>1
<1>3. TokenEndsByDelivery <=> [][DeliveryStep]_vars
  BY PTL DEF TokenEndsByDelivery, DeliveryStep
<1> QED
  BY <1>2, <1>3, TokenInvariance, PTL DEF Spec
-----------------------------------------------------------------------------
(* The compositor implements the frame callback protocol.                  *)

Phase == {"idle", "requested", "committed", "done"}

PhaseOf(P, F, E) ==
  CASE P # {} -> "requested"
    [] F # {} -> "committed"
    [] E # {} -> "done"
    [] OTHER  -> "idle"

PhaseIn(S, F, E, c, t) == PhaseOf(PendingFor(S, c, t), FramesFor(F, c, t), EventsFor(E, c, t))

PhaseTable(S, F, E) ==
  [c \in ClientHandle |-> [t \in Token |-> PhaseIn(S, F, E, c, t)]]

Phases == [c \in ClientHandle |-> [t \in Token |-> TokenPhase(c, t)]]

LEMMA PhasesAre ==
  /\ Phases = PhaseTable(surfaces, frames, events)
  /\ Phases' = PhaseTable(surfaces', frames', events')
<1>1. \A c, t : TokenPhase(c, t) = PhaseIn(surfaces, frames, events, c, t)
  BY PlacesAre DEF TokenPhase, PhaseIn, PhaseOf
<1>2. \A c, t : TokenPhase(c, t)' = PhaseIn(surfaces', frames', events', c, t)
  <2> SUFFICES ASSUME NEW CONSTANT c, NEW CONSTANT t
               PROVE  TokenPhase(c, t)' = PhaseIn(surfaces', frames', events', c, t)
    OBVIOUS
  <2>1. /\ PendingPlaces(c, t)' = PendingFor(surfaces', c, t)
        /\ FramePlaces(c, t)' = FramesFor(frames', c, t)
        /\ EventPlaces(c, t)' = EventsFor(events', c, t)
    BY DEF PendingPlaces, FramePlaces, EventPlaces, PendingFor, FramesFor, EventsFor,
           PendingTokensOf, TokensPending, FrameSlotsOf, SlotsHeld, IsDone, Names
  <2> QED
    BY <2>1 DEF TokenPhase, PhaseIn, PhaseOf
<1> QED
  BY <1>1, <1>2 DEF Phases, PhaseTable

\* One entry of a table changes.
LEMMA OneChange ==
  ASSUME NEW X, NEW Y, NEW V, NEW p \in [X -> [Y -> V]], NEW p2 \in [X -> [Y -> V]],
         NEW x \in X, NEW y \in Y, NEW v, p2[x][y] = v,
         \A x2 \in X, y2 \in Y : x2 # x \/ y2 # y => p2[x2][y2] = p[x2][y2]
  PROVE  p2 = [p EXCEPT ![x][y] = v]
<1> DEFINE q == [p EXCEPT ![x][y] = v]
<1>1. q \in [X -> [Y -> V]]
  <2>1. v \in V
    OBVIOUS
  <2> QED
    BY <2>1
<1>2. \A x2 \in X, y2 \in Y : p2[x2][y2] = q[x2][y2]
  OBVIOUS
<1> HIDE DEF q
<1>3. \A x2 \in X : p2[x2] = q[x2]
  <2> SUFFICES ASSUME NEW x2 \in X PROVE p2[x2] = q[x2]
    OBVIOUS
  <2>1. p2[x2] \in [Y -> V] /\ q[x2] \in [Y -> V]
    BY <1>1
  <2> QED
    BY <1>2, <2>1
<1>4. p2 = q
  BY <1>1, <1>3
<1> QED
  BY <1>4 DEF q

LEMMA PhaseOfPlaces ==
  ASSUME NEW P, NEW F, NEW E, OnePlace(P, F, E)
  PROVE  /\ P # {} => PhaseOf(P, F, E) = "requested"
         /\ P = {} /\ F # {} => PhaseOf(P, F, E) = "committed"
         /\ P = {} /\ F = {} /\ E = {} => PhaseOf(P, F, E) = "idle"
  BY DEF OnePlace, PhaseOf

LEMMA RestsPhase ==
  ASSUME TypeOK, NEW c \in ClientHandle, NEW t \in Token, Rests(c)
  PROVE  PhaseIn(surfaces', frames', events', c, t)
           = PhaseIn(surfaces, frames, events, c, t)
  BY SamePlaces, QueueKeptPlaces DEF Rests, PhaseIn

LEMMA ActPhase ==
  ASSUME TokenInv, TokenInv', NEW d \in ClientHandle, Acts(d),
         NEW p, p = PhaseTable(surfaces, frames, events),
         NEW p2, p2 = PhaseTable(surfaces', frames', events')
  PROVE  \/ \A t \in Token : p2[d][t] = p[d][t]
         \/ \E u \in Token :
              /\ <<p[d][u], p2[d][u]>> \in {<<"idle", "requested">>,
                                            <<"requested", "committed">>,
                                            <<"done", "idle">>}
              /\ \A t \in Token \ {u} : p2[d][t] = p[d][t]
         \/ \A t \in Token : p2[d][t] = "idle"
<1>0. TypeOK
  BY DEF TokenInv, RoomInv, TypeInv
<1>1. \A t \in Token :
        /\ p[d][t] = PhaseOf(PendingFor(surfaces, d, t), FramesFor(frames, d, t),
                             EventsFor(events, d, t))
        /\ p2[d][t] = PhaseOf(PendingFor(surfaces', d, t), FramesFor(frames', d, t),
                              EventsFor(events', d, t))
  BY DEF PhaseTable, PhaseIn
<1>2. \A t \in Token :
        /\ OnePlace(PendingFor(surfaces, d, t), FramesFor(frames, d, t),
                    EventsFor(events, d, t))
        /\ OnePlace(PendingFor(surfaces', d, t), FramesFor(frames', d, t),
                    EventsFor(events', d, t))
  BY DEF TokenInv
<1>3. ASSUME NEW k \in SurfaceSlot, NEW u \in Token, Requests(d, k, u)
      PROVE  /\ p[d][u] = "idle" /\ p2[d][u] = "requested"
             /\ \A t \in Token \ {u} : p2[d][t] = p[d][t]
  <2>1. /\ PendingFor(surfaces, d, u) = {} /\ FramesFor(frames, d, u) = {}
        /\ EventsFor(events, d, u) = {} /\ PendingFor(surfaces', d, u) = {k}
    BY <1>3, RequestPlaces
  <2>2. \A t \in Token \ {u} :
          /\ PendingFor(surfaces', d, t) = PendingFor(surfaces, d, t)
          /\ FramesFor(frames', d, t) = FramesFor(frames, d, t)
          /\ EventsFor(events', d, t) = EventsFor(events, d, t)
    BY <1>3, RequestPlaces
  <2>3. p[d][u] = "idle"
    BY <1>1, <1>2, <2>1, PhaseOfPlaces
  <2>4. PendingFor(surfaces', d, u) # {}
    <3> DEFINE S == PendingFor(surfaces', d, u)
    <3>1. k \in S
      BY <2>1
    <3> HIDE DEF S
    <3> QED
      BY <3>1 DEF S
  <2>5. p2[d][u] = "requested"
    BY <1>1, <1>2, <2>4, PhaseOfPlaces
  <2> QED
    BY <1>1, <2>2, <2>3, <2>5
<1>4. ASSUME NEW k \in SurfaceSlot, NEW i \in FrameSlot, Moves(d, k, i)
      PROVE  \E u \in Token :
               /\ p[d][u] = "requested" /\ p2[d][u] = "committed"
               /\ \A t \in Token \ {u} : p2[d][t] = p[d][t]
  <2> DEFINE u == surfaces[k].frame_token
  <2>1. u \in Token
    BY <1>0, <1>4 DEF Moves, TokensPending, TypeOK, SurfaceSlotType
  <2>2. /\ PendingFor(surfaces, d, u) = {k} /\ FramesFor(frames, d, u) = {}
        /\ PendingFor(surfaces', d, u) = {} /\ FramesFor(frames', d, u) = {i}
    BY <1>0, <1>2, <1>4, <2>1, MovePlaces
  <2>3. \A t \in Token \ {u} :
          /\ PendingFor(surfaces', d, t) = PendingFor(surfaces, d, t)
          /\ FramesFor(frames', d, t) = FramesFor(frames, d, t)
          /\ EventsFor(events', d, t) = EventsFor(events, d, t)
    BY <1>0, <1>2, <1>4, MovePlaces
  <2> HIDE DEF u
  <2>4. p[d][u] = "requested" /\ p2[d][u] = "committed"
    <3> DEFINE S == PendingFor(surfaces, d, u)
               R == FramesFor(frames', d, u)
    <3>1. k \in S /\ i \in R
      BY <2>2
    <3>2. S # {} /\ R # {}
      <4> HIDE DEF S, R
      <4> QED
        BY <3>1
    <3> QED
      BY <1>1, <1>2, <2>1, <2>2, <3>2, PhaseOfPlaces
  <2>5. \A t \in Token \ {u} : p2[d][t] = p[d][t]
    BY <1>1, <2>3
  <2> QED
    BY <2>1, <2>4, <2>5
<1>5. ASSUME Reads(d)
      PROVE  \/ \A t \in Token : p2[d][t] = p[d][t]
             \/ \E u \in Token :
                  /\ p[d][u] = "done" /\ p2[d][u] = "idle"
                  /\ \A t \in Token \ {u} : p2[d][t] = p[d][t]
  <2>1. \A t \in Token :
          /\ PendingFor(surfaces', d, t) = PendingFor(surfaces, d, t)
          /\ FramesFor(frames', d, t) = FramesFor(frames, d, t)
          /\ EventsFor(events', d, t)
               = {k - 1 : k \in EventsFor(events, d, t) \ {1}}
    <3>1. surfaces' = surfaces /\ frames' = frames
      BY <1>5 DEF Reads
    <3> QED
      BY <1>0, <1>5, <3>1, ReadPlaces
  <2>2. ASSUME NEW t \in Token, EventsFor(events, d, t) # {1}
        PROVE  p2[d][t] = p[d][t]
    <3> DEFINE E  == EventsFor(events, d, t)
               E2 == EventsFor(events', d, t)
    <3>1. E = {} \/ \E n : E = {n} /\ n # 1
      BY <1>2, <2>2 DEF OnePlace
    <3>2. E2 = {} <=> E = {}
      <4> HIDE DEF E, E2
      <4> QED
        BY <2>1, <3>1 DEF E, E2
    <3> HIDE DEF E, E2
    <3> QED
      BY <1>1, <2>1, <3>2 DEF PhaseOf, E, E2
  <2>3. ASSUME NEW u \in Token, EventsFor(events, d, u) = {1}
        PROVE  /\ p[d][u] = "done" /\ p2[d][u] = "idle"
               /\ \A t \in Token \ {u} : p2[d][t] = p[d][t]
    <3>1. PendingFor(surfaces, d, u) = {} /\ FramesFor(frames, d, u) = {}
      BY <1>2, <2>3 DEF OnePlace
    <3>2. EventsFor(events', d, u) = {}
      BY <2>1, <2>3
    <3>3. p[d][u] = "done" /\ p2[d][u] = "idle"
      BY <1>1, <2>1, <2>3, <3>1, <3>2 DEF PhaseOf
    <3>4. \A t \in Token \ {u} : EventsFor(events, d, t) # {1}
      BY <2>3 DEF EventsFor, Names
    <3> QED
      BY <2>2, <3>3, <3>4
  <2> QED
    BY <2>2, <2>3
<1>6. ASSUME Leaves(d)
      PROVE  \A t \in Token : p2[d][t] = "idle"
  <2>1. \A t \in Token : /\ PendingFor(surfaces', d, t) = {}
                         /\ FramesFor(frames', d, t) = {}
                         /\ EventsFor(events', d, t) = {}
    BY <1>6 DEF Leaves, PendingFor, FramesFor, EventsFor
  <2> QED
    BY <1>1, <2>1 DEF PhaseOf
<1> QED
  BY <1>3, <1>4, <1>5, <1>6 DEF Acts

LEMMA CallbackStep ==
  ASSUME TokenInv, TokenInv', [Next]_vars
  PROVE  [Callbacks!Next]_Phases
<1> DEFINE p  == PhaseTable(surfaces, frames, events)
           p2 == PhaseTable(surfaces', frames', events')
<1>0. p = Phases /\ p2 = Phases' /\ TypeOK
  BY PhasesAre DEF TokenInv, RoomInv, TypeInv
<1>1. p \in [ClientHandle -> [Token -> Phase]] /\ p2 \in [ClientHandle -> [Token -> Phase]]
  BY DEF PhaseTable, PhaseIn, PhaseOf, Phase
<1>2. WholeEffect
  BY StepEffect DEF TokenInv, RoomInv
<1> SUFFICES \/ p2 = p
             \/ \E c \in ClientHandle, u \in Token :
                  \/ p[c][u] = "idle" /\ p2 = [p EXCEPT ![c][u] = "requested"]
                  \/ p[c][u] = "requested" /\ p2 = [p EXCEPT ![c][u] = "committed"]
                  \/ p[c][u] = "done" /\ p2 = [p EXCEPT ![c][u] = "idle"]
             \/ \E c \in ClientHandle : p2 = [p EXCEPT ![c] = [t \in Token |-> "idle"]]
             \/ \E done \in SUBSET (ClientHandle \X Token) :
                  /\ \A k \in done : p[k[1]][k[2]] = "committed"
                  /\ p2 = [c \in ClientHandle |->
                             [t \in Token |->
                                IF <<c, t>> \in done THEN "done" ELSE p[c][t]]]
  <2> HIDE DEF p, p2
  <2>1. CASE p2 = p
    BY <1>0, <2>1
  <2>2. ASSUME NEW c \in ClientHandle, NEW u \in Token,
               \/ p[c][u] = "idle" /\ p2 = [p EXCEPT ![c][u] = "requested"]
               \/ p[c][u] = "requested" /\ p2 = [p EXCEPT ![c][u] = "committed"]
               \/ p[c][u] = "done" /\ p2 = [p EXCEPT ![c][u] = "idle"]
        PROVE  Callbacks!Next
    <3>1. \/ Callbacks!Move(c, u, "idle", "requested")
          \/ Callbacks!Move(c, u, "requested", "committed")
          \/ Callbacks!Move(c, u, "done", "idle")
      BY <1>0, <2>2 DEF Callbacks!Move, Phases
    <3>2. Callbacks!Request(c, u) \/ Callbacks!Commit(c, u) \/ Callbacks!Deliver(c, u)
      BY <3>1 DEF Callbacks!Request, Callbacks!Commit, Callbacks!Deliver
    <3> QED
      BY <3>2 DEF Callbacks!Next
  <2>3. ASSUME NEW c \in ClientHandle, p2 = [p EXCEPT ![c] = [t \in Token |-> "idle"]]
        PROVE  Callbacks!Next
    <3>1. Callbacks!Disconnect(c)
      BY <1>0, <2>3 DEF Callbacks!Disconnect, Phases
    <3> QED
      BY <3>1 DEF Callbacks!Next
  <2>4. ASSUME NEW done \in SUBSET (ClientHandle \X Token),
               \A k \in done : p[k[1]][k[2]] = "committed",
               p2 = [c \in ClientHandle |->
                       [t \in Token |-> IF <<c, t>> \in done THEN "done" ELSE p[c][t]]]
        PROVE  Callbacks!Next
    <3>1. Callbacks!Present(done)
      BY <1>0, <2>4 DEF Callbacks!Present, Phases
    <3> QED
      BY <3>1 DEF Callbacks!Next
  <2> QED
    BY <2>1, <2>2, <2>3, <2>4
<1>3. ASSUME NEW d \in ClientHandle,
             \A c \in ClientHandle : Rests(c) \/ (c = d /\ Acts(c))
      PROVE  \/ p2 = p
             \/ \E u \in Token :
                  \/ p[d][u] = "idle" /\ p2 = [p EXCEPT ![d][u] = "requested"]
                  \/ p[d][u] = "requested" /\ p2 = [p EXCEPT ![d][u] = "committed"]
                  \/ p[d][u] = "done" /\ p2 = [p EXCEPT ![d][u] = "idle"]
             \/ p2 = [p EXCEPT ![d] = [t \in Token |-> "idle"]]
  <2>1. \A c \in ClientHandle : Rests(c) => \A t \in Token : p2[c][t] = p[c][t]
    BY <1>0, RestsPhase DEF PhaseTable
  <2>2. \A c \in ClientHandle \ {d} : \A t \in Token : p2[c][t] = p[c][t]
    BY <1>3, <2>1
  <2>3. \/ \A t \in Token : p2[d][t] = p[d][t]
        \/ \E u \in Token :
             /\ <<p[d][u], p2[d][u]>> \in {<<"idle", "requested">>,
                                           <<"requested", "committed">>,
                                           <<"done", "idle">>}
             /\ \A t \in Token \ {u} : p2[d][t] = p[d][t]
        \/ \A t \in Token : p2[d][t] = "idle"
    <3>1. CASE Rests(d)
      BY <2>1, <3>1
    <3>2. CASE Acts(d)
      BY <3>2, ActPhase
    <3> QED
      BY <1>3, <3>1, <3>2
  <2> HIDE DEF p, p2
  <2>4. CASE \A t \in Token : p2[d][t] = p[d][t]
    <3>1. \A c \in ClientHandle : p2[c] = p[c]
      BY <1>1, <2>2, <2>4
    <3>2. p2 = p
      BY <1>1, <3>1
    <3> QED
      BY <3>2
  <2>5. ASSUME NEW u \in Token,
               <<p[d][u], p2[d][u]>> \in {<<"idle", "requested">>,
                                          <<"requested", "committed">>,
                                          <<"done", "idle">>},
               \A t \in Token \ {u} : p2[d][t] = p[d][t]
        PROVE  \/ p[d][u] = "idle" /\ p2 = [p EXCEPT ![d][u] = "requested"]
               \/ p[d][u] = "requested" /\ p2 = [p EXCEPT ![d][u] = "committed"]
               \/ p[d][u] = "done" /\ p2 = [p EXCEPT ![d][u] = "idle"]
    <3>1. \A c \in ClientHandle, t \in Token : c # d \/ t # u => p2[c][t] = p[c][t]
      BY <2>2, <2>5
    <3>2. p2 = [p EXCEPT ![d][u] = p2[d][u]]
      BY <1>1, <3>1, OneChange
    <3>3. \/ p[d][u] = "idle" /\ p2[d][u] = "requested"
          \/ p[d][u] = "requested" /\ p2[d][u] = "committed"
          \/ p[d][u] = "done" /\ p2[d][u] = "idle"
      BY <2>5
    <3> DEFINE v == p2[d][u]
    <3>4. p2 = [p EXCEPT ![d][u] = v]
      BY <3>2
    <3>5. \/ p[d][u] = "idle" /\ v = "requested"
          \/ p[d][u] = "requested" /\ v = "committed"
          \/ p[d][u] = "done" /\ v = "idle"
      BY <3>3
    <3> HIDE DEF v
    <3> QED
      BY <3>4, <3>5
  <2>6. CASE \A t \in Token : p2[d][t] = "idle"
    <3> DEFINE idle == [t \in Token |-> "idle"]
    <3>1. p2[d] = idle
      BY <1>1, <2>6
    <3>2. \A c \in ClientHandle \ {d} : p2[c] = p[c]
      BY <1>1, <2>2
    <3> HIDE DEF idle
    <3>3. p2 = [p EXCEPT ![d] = idle]
      BY <1>1, <3>1, <3>2
    <3> QED
      BY <3>3 DEF idle
  <2> QED
    BY <2>3, <2>4, <2>5, <2>6
<1>4. ASSUME \A c \in ClientHandle : Presents(c)
      PROVE  \E done \in SUBSET (ClientHandle \X Token) :
               /\ \A k \in done : p[k[1]][k[2]] = "committed"
               /\ p2 = [c \in ClientHandle |->
                          [t \in Token |->
                             IF <<c, t>> \in done THEN "done" ELSE p[c][t]]]
  <2>1. ASSUME NEW c \in ClientHandle, NEW t \in Token
        PROVE  p2[c][t] = p[c][t] \/ (p[c][t] = "committed" /\ p2[c][t] = "done")
    <3> DEFINE P  == PendingFor(surfaces, c, t)
               P2 == PendingFor(surfaces', c, t)
               F  == FramesFor(frames, c, t)
               F2 == FramesFor(frames', c, t)
               E  == EventsFor(events, c, t)
               E2 == EventsFor(events', c, t)
    <3>1. P2 = P
      BY <1>4 DEF Presents
    <3>2. \/ F2 = F /\ E2 = E
          \/ /\ \E i : F = {i}
             /\ P = {} /\ E = {} /\ F2 = {}
             /\ \E n : E2 = {n}
      BY <1>4, PresentPlaces DEF TokenInv, RoomInv
    <3>3. p[c][t] = PhaseOf(P, F, E) /\ p2[c][t] = PhaseOf(P2, F2, E2)
      BY DEF PhaseTable, PhaseIn
    <3> HIDE DEF P, P2, F, F2, E, E2, p, p2
    <3> QED
      BY <3>1, <3>2, <3>3 DEF PhaseOf
  <2> DEFINE done == {k \in ClientHandle \X Token :
                        p[k[1]][k[2]] = "committed" /\ p2[k[1]][k[2]] = "done"}
             r == [c \in ClientHandle |->
                     [t \in Token |-> IF <<c, t>> \in done THEN "done" ELSE p[c][t]]]
  <2> HIDE DEF p, p2
  <2>2. ASSUME NEW c \in ClientHandle, NEW t \in Token
        PROVE  p2[c][t] = r[c][t]
    BY <2>1
  <2>3. \A c \in ClientHandle : p2[c] = r[c]
    <3> SUFFICES ASSUME NEW c \in ClientHandle PROVE p2[c] = r[c]
      OBVIOUS
    <3>1. p2[c] \in [Token -> Phase] /\ r[c] = [t \in Token |-> r[c][t]]
      BY <1>1
    <3> HIDE DEF r
    <3> QED
      BY <2>2, <3>1
  <2>4. p2 = r
    <3>1. r = [c \in ClientHandle |-> r[c]]
      OBVIOUS
    <3> HIDE DEF r
    <3> QED
      BY <1>1, <2>3, <3>1
  <2>5. done \in SUBSET (ClientHandle \X Token) /\ \A k \in done : p[k[1]][k[2]] = "committed"
    OBVIOUS
  <2> QED
    BY <2>4, <2>5
<1> QED
  <2> HIDE DEF p, p2
  <2> QED
    BY <1>2, <1>3, <1>4 DEF WholeEffect

\* To a client, each of its tokens goes from idle over requested and
\* committed to done and back, one step at a time and never backwards: the
\* tables and queues of moo_compositor_core.c implement the callback protocol.
THEOREM CompositorImplementsCallbacks == Spec => CallbacksSpec
<1>1. Init => Callbacks!Init
  <2> SUFFICES ASSUME Init PROVE Callbacks!Init
    OBVIOUS
  <2>1. ASSUME NEW c \in ClientHandle, NEW t \in Token
        PROVE  TokenPhase(c, t) = "idle"
    <3>1. PendingPlaces(c, t) = {} /\ FramePlaces(c, t) = {} /\ EventPlaces(c, t) = {}
      BY DEF Init, PendingPlaces, FramePlaces, EventPlaces, PendingTokensOf, FrameSlotsOf,
             BlankSurface, FreeFrame
    <3> QED
      BY <3>1 DEF TokenPhase
  <2> QED
    BY <2>1 DEF Callbacks!Init
<1>2. TokenInv /\ TokenInv' /\ [Next]_vars => [Callbacks!Next]_Phases
  BY CallbackStep
<1>3. CallbacksSpec <=> Callbacks!Init /\ [][Callbacks!Next]_Phases
  BY PTL DEF CallbacksSpec, Callbacks!Spec, Phases
<1> QED
  BY <1>1, <1>2, <1>3, TokenInvariance, PTL DEF Spec
-----------------------------------------------------------------------------
(* At most one commit of a surface is shown.  Frames that were not         *)
(* cancelled belong to live surfaces and to different commits, and only a  *)
(* frame in flight holds assigned slots.                                   *)

Open(F, i) == F[i].state # "FREE" /\ F[i].status # "CANCELLED"

Shown(F, i) == F[i].state = "ASSIGNED" /\ F[i].status \in {"PRESENTED", "OCCLUDED"}

ShownInv ==
  /\ TypeInv
  /\ \A i \in FrameSlot : Open(frames, i) =>
       frames[i].commit_sequence <= commit_sequence /\ IsLive(surfaces, frames[i].surface)
  /\ \A i, j \in FrameSlot :
       Open(frames, i) /\ Open(frames, j) /\ i # j
         /\ frames[i].surface = frames[j].surface
         => frames[i].commit_sequence # frames[j].commit_sequence
  /\ \A i, j \in FrameSlot :
       Shown(frames, i) /\ Shown(frames, j) /\ i # j
         => frames[i].surface # frames[j].surface
  /\ \A i \in FrameSlot : frames[i].state = "ASSIGNED" => in_flight

\* A step that adds no commit leaves open frames as they were and their
\* surfaces alive.
Fades ==
  /\ commit_sequence' = commit_sequence
  /\ \A i \in FrameSlot :
       /\ Open(frames', i) => /\ frames'[i] = frames[i]
                              /\ IsLive(surfaces, frames[i].surface)
                                   => IsLive(surfaces', frames[i].surface)
       /\ frames'[i].state = "ASSIGNED" =>
            frames[i].state = "ASSIGNED" /\ in_flight' = in_flight

LEMMA FadesKeepShown ==
  ASSUME ShownInv, TypeInv', Fades
  PROVE  ShownInv'
<1>1. \A i \in FrameSlot : Open(frames', i) =>
        /\ frames'[i] = frames[i] /\ Open(frames, i)
        /\ IsLive(surfaces', frames[i].surface)
  BY DEF Fades, Open, ShownInv
<1>2. \A i \in FrameSlot : Shown(frames', i) => Open(frames', i)
  BY DEF Shown, Open
<1>3. \A i \in FrameSlot : Open(frames', i) =>
        frames'[i].commit_sequence <= commit_sequence' /\ IsLive(surfaces', frames'[i].surface)
  BY <1>1 DEF Fades, ShownInv
<1>4. \A i, j \in FrameSlot :
        Open(frames', i) /\ Open(frames', j) /\ i # j
          /\ frames'[i].surface = frames'[j].surface
          => frames'[i].commit_sequence # frames'[j].commit_sequence
  BY <1>1 DEF ShownInv
<1>5. \A i, j \in FrameSlot :
        Shown(frames', i) /\ Shown(frames', j) /\ i # j
          => frames'[i].surface # frames'[j].surface
  BY <1>1, <1>2 DEF ShownInv, Shown
<1>6. \A i \in FrameSlot : frames'[i].state = "ASSIGNED" => in_flight'
  BY DEF Fades, ShownInv
<1> QED
  BY <1>3, <1>4, <1>5, <1>6 DEF ShownInv, Open, Shown, SurfaceOk, IsLive

\* Surfaces stay valid while nothing is destroyed.
LEMMA SurfacesStay ==
  ASSUME TypeOK, NEW h \in SurfaceHandle, IsLive(surfaces, h), [Next]_vars,
         \A c \in ClientHandle, s \in SurfaceHandle : ~SurfaceDestroy(c, s),
         \A c \in ClientHandle : ~ClientDisconnect(c)
  PROVE  IsLive(surfaces', h)
<1>1. h[1] \in SurfaceSlot /\ surfaces[h[1]].live
  BY HandleParts DEF IsLive
<1>2. ASSUME NEW c \in ClientHandle, SurfaceCreate(c)
      PROVE  surfaces'[h[1]] = surfaces[h[1]]
  <2> DEFINE i == Lowest(Allocatable(surfaces))
  <2>1. i \in SurfaceSlot /\ ~surfaces[i].live
    BY <1>2, CapacityAssumption, AllocatableIn DEF TypeOK, SurfaceCreate, SurfaceSlot
  <2>2. surfaces' = [surfaces EXCEPT ![i] = BlankSurface(TRUE, @.generation, c)]
    BY <1>2 DEF SurfaceCreate
  <2> HIDE DEF i
  <2> QED
    BY <1>1, <2>1, <2>2 DEF TypeOK
<1>3. ASSUME NEW c \in ClientHandle, NEW s \in SurfaceHandle,
             \/ \E b \in BufferHandle \cup {NoHandle} : SurfaceAttach(c, s, b)
             \/ \E t \in Token : SurfaceFrame(c, s, t)
             \/ SurfaceCommit(c, s)
      PROVE  /\ surfaces'[h[1]].live = surfaces[h[1]].live
             /\ surfaces'[h[1]].generation = surfaces[h[1]].generation
  <2>1. s[1] \in SurfaceSlot
    BY HandleParts
  <2>2. ASSUME NEW b \in BufferHandle \cup {NoHandle}, SurfaceAttach(c, s, b)
        PROVE  \A k \in SurfaceSlot : /\ surfaces'[k].live = surfaces[k].live
                                      /\ surfaces'[k].generation = surfaces[k].generation
    BY <2>1, <2>2 DEF SurfaceAttach, TypeOK, SurfaceSlotType
  <2>3. ASSUME NEW t \in Token, SurfaceFrame(c, s, t)
        PROVE  \A k \in SurfaceSlot : /\ surfaces'[k].live = surfaces[k].live
                                      /\ surfaces'[k].generation = surfaces[k].generation
    BY <2>1, <2>3 DEF SurfaceFrame, TypeOK, SurfaceSlotType
  <2>4. CASE SurfaceCommit(c, s)
    <3>1. PICK new, seq :
            surfaces' = [surfaces EXCEPT ![s[1]] =
                           [@ EXCEPT !.buffer = new, !.commit_sequence = seq,
                                     !.attach = FALSE, !.frame_token = NoToken]]
      BY <2>4 DEF SurfaceCommit
    <3> QED
      BY <1>1, <2>1, <3>1 DEF TypeOK, SurfaceSlotType
  <2> QED
    BY <1>1, <1>3, <2>2, <2>3, <2>4
<1>4. /\ surfaces'[h[1]].live = surfaces[h[1]].live
      /\ surfaces'[h[1]].generation = surfaces[h[1]].generation
  BY <1>2, <1>3, WhoChangesSurfaces
<1> QED
  BY <1>4 DEF IsLive

\* Only four calls and the display touch the frame slots.
LEMMA WhoChangesFrames ==
  ASSUME [Next]_vars
  PROVE  \/ UNCHANGED <<frames, commit_sequence, in_flight>>
         \/ \E c \in ClientHandle : ClientDisconnect(c)
         \/ \E c \in ClientHandle, s \in SurfaceHandle :
              SurfaceCommit(c, s) \/ SurfaceDestroy(c, s)
         \/ BuildFrame
         \/ PresentDone
<1>1. CASE \E c \in ClientHandle : BufferRegister(c) \/ CursorHide(c) \/ NextEvent(c) \/ SurfaceCreate(c)
  BY <1>1 DEF BufferRegister, CursorHide, NextEvent, SurfaceCreate
<1>2. CASE \E c \in ClientHandle, b \in BufferHandle :
             BufferUnregister(c, b) \/ CursorSetBuffer(c, b)
  BY <1>2 DEF BufferUnregister, CursorSetBuffer
<1>3. CASE \/ ClientCreate
           \/ \E c \in ClientHandle \cup {NoHandle} : PointerFocus(c)
           \/ UNCHANGED vars
  BY <1>3 DEF ClientCreate, PointerFocus, vars
<1>4. CASE \E c \in ClientHandle, s \in SurfaceHandle :
             \/ \E b \in BufferHandle \cup {NoHandle} : SurfaceAttach(c, s, b)
             \/ \E t \in Token : SurfaceFrame(c, s, t)
  BY <1>4 DEF SurfaceAttach, SurfaceFrame
<1> QED
  BY <1>1, <1>2, <1>3, <1>4 DEF Next

LEMMA ShownRest ==
  ASSUME ShownInv, [Next]_vars, UNCHANGED <<frames, commit_sequence, in_flight>>,
         \A c \in ClientHandle, s \in SurfaceHandle : ~SurfaceDestroy(c, s),
         \A c \in ClientHandle : ~ClientDisconnect(c)
  PROVE  Fades
<1>1. \A i \in FrameSlot : Open(frames, i) /\ IsLive(surfaces, frames[i].surface)
        => IsLive(surfaces', frames[i].surface)
  BY SurfacesStay, NamedSurface DEF ShownInv, TypeInv, Open
<1> QED
  BY <1>1 DEF Fades, Open

\* The slot a pending token moves into.
LEMMA TokenToFrameSlots ==
  ASSUME TypeOK, NEW c, NEW s, NEW sequence, NEW status,
         surfaces[s[1]].frame_token # NoToken => FreeFrameSlots # {}
  PROVE  LET F == TokenToFrame(c, s, sequence, status)
         IN  \/ F = frames
             \/ \E k \in FrameSlot :
                  /\ frames[k].state = "FREE"
                  /\ F = [frames EXCEPT ![k] =
                            [state |-> "WAITING", owner |-> c, surface |-> s,
                             token |-> surfaces[s[1]].frame_token,
                             commit_sequence |-> sequence, status |-> status]]
<1>1. CASE surfaces[s[1]].frame_token = NoToken
  BY <1>1 DEF TokenToFrame
<1>2. CASE surfaces[s[1]].frame_token # NoToken
  <2> DEFINE k == Lowest(FreeFrameSlots)
  <2>1. FreeFrameSlots \subseteq Nat
    BY CapacityAssumption DEF FreeFrameSlots, FrameSlot
  <2>2. k \in FreeFrameSlots
    BY <1>2, <2>1, LowestIn
  <2>3. k \in FrameSlot /\ frames[k].state = "FREE"
    BY <2>2 DEF FreeFrameSlots
  <2>4. TokenToFrame(c, s, sequence, status)
          = [frames EXCEPT ![k] =
               [state |-> "WAITING", owner |-> c, surface |-> s,
                token |-> surfaces[s[1]].frame_token,
                commit_sequence |-> sequence, status |-> status]]
    BY <1>2 DEF TokenToFrame
  <2> HIDE DEF k
  <2> QED
    BY <2>3, <2>4
<1> QED
  BY <1>1, <1>2

\* A destroyed surface takes its frames with it.
LEMMA ShownDestroy ==
  ASSUME ShownInv, NEW c \in ClientHandle, NEW s \in SurfaceHandle, SurfaceDestroy(c, s)
  PROVE  Fades
<1> DEFINE F == TokenToFrame(c, s, surfaces[s[1]].commit_sequence, "CANCELLED")
<1>0. TypeOK /\ FramesNamed
  BY DEF ShownInv, TypeInv
<1>1. /\ frames' = CancelFrames(F, s)
      /\ surfaces' = [surfaces EXCEPT
                        ![s[1]] = BlankSurface(FALSE, NextGeneration(s[2]), NoHandle)]
      /\ commit_sequence' = commit_sequence /\ in_flight' = in_flight
      /\ surfaces[s[1]].frame_token # NoToken => FreeFrameSlots # {}
      /\ s[1] \in SurfaceSlot /\ surfaces[s[1]].generation = s[2]
  BY HandleParts DEF SurfaceDestroy, OwnedSurface, SurfaceOk, IsLive
<1>2. \A i \in FrameSlot :
        \/ F[i] = frames[i]
        \/ F[i].status = "CANCELLED" /\ F[i].state = "WAITING"
  BY <1>0, <1>1, TokenToFrameSlots DEF TypeOK
<1>3. \A i \in FrameSlot :
        /\ frames'[i] = IF F[i].state # "FREE" /\ F[i].surface = s
                        THEN [F[i] EXCEPT !.status = "CANCELLED"] ELSE F[i]
        /\ [F[i] EXCEPT !.status = "CANCELLED"].state = F[i].state
        /\ [F[i] EXCEPT !.status = "CANCELLED"].status = "CANCELLED"
  <2>1. F \in [FrameSlot -> FrameSlotType]
    <3>1. surfaces[s[1]].commit_sequence \in 0 .. MaxCommit
      BY <1>0, <1>1 DEF TypeOK, SurfaceSlotType
    <3> QED
      BY <1>0, <1>1, <3>1, TokenToFrameType DEF Status
  <2> HIDE DEF F
  <2> QED
    BY <1>1, <2>1 DEF CancelFrames, FrameSlotType
<1> HIDE DEF F
<1>4. ASSUME NEW i \in FrameSlot
      PROVE  /\ Open(frames', i) => frames'[i] = frames[i] /\ frames[i].surface # s
             /\ frames'[i].state = "ASSIGNED" => frames[i].state = "ASSIGNED"
  <2>1. CASE F[i].state # "FREE" /\ F[i].surface = s
    BY <1>2, <1>3, <2>1 DEF Open
  <2>2. CASE ~(F[i].state # "FREE" /\ F[i].surface = s)
    BY <1>2, <1>3, <2>2 DEF Open
  <2> QED
    BY <2>1, <2>2
<1>5. ASSUME NEW h \in SurfaceHandle, h # s, IsLive(surfaces, h)
      PROVE  IsLive(surfaces', h)
  <2>1. h[1] \in SurfaceSlot /\ h = <<h[1], h[2]>> /\ s = <<s[1], s[2]>>
    BY DEF SurfaceHandle
  <2>2. h[1] # s[1]
    BY <1>1, <1>5, <2>1 DEF SurfaceOk, IsLive
  <2>3. surfaces'[h[1]] = surfaces[h[1]]
    BY <1>0, <1>1, <2>1, <2>2 DEF TypeOK
  <2> QED
    BY <1>5, <2>3 DEF SurfaceOk, IsLive
<1>6. \A i \in FrameSlot : Open(frames', i) =>
        /\ frames[i].surface \in SurfaceHandle
        /\ IsLive(surfaces, frames[i].surface) => IsLive(surfaces', frames[i].surface)
  BY <1>0, <1>4, <1>5, NamedSurface DEF Open
<1> QED
  BY <1>1, <1>4, <1>6 DEF Fades

LEMMA ShownDisconnect ==
  ASSUME ShownInv, NEW c \in ClientHandle, ClientDisconnect(c)
  PROVE  Fades
<1>0. TypeOK /\ FramesNamed
  BY DEF ShownInv, TypeInv
<1>1. /\ frames' = FramesWithout(c) /\ surfaces' = SurfacesWithout(c)
      /\ commit_sequence' = commit_sequence /\ in_flight' = in_flight
  BY DEF ClientDisconnect
<1>2. \A i \in FrameSlot :
        /\ [frames[i] EXCEPT !.status = "CANCELLED"].state = frames[i].state
        /\ [frames[i] EXCEPT !.status = "CANCELLED"].status = "CANCELLED"
  BY <1>0 DEF TypeOK, FrameSlotType
<1>3. ASSUME NEW i \in FrameSlot
      PROVE  /\ Open(frames', i) =>
                  /\ frames'[i] = frames[i]
                  /\ \A s \in SurfacesOf(c) :
                       frames[i].surface # <<s, surfaces[s].generation>>
             /\ frames'[i].state = "ASSIGNED" => frames[i].state = "ASSIGNED"
  <2>1. frames'[i] = IF frames[i].state = "FREE" THEN frames[i]
                     ELSE IF frames[i].owner = c THEN FreeFrame
                     ELSE IF \E s \in SurfacesOf(c) :
                               frames[i].surface = <<s, surfaces[s].generation>>
                     THEN [frames[i] EXCEPT !.status = "CANCELLED"]
                     ELSE frames[i]
    BY <1>1 DEF FramesWithout
  <2>2. FreeFrame.state = "FREE"
    BY DEF FreeFrame
  <2> DEFINE x == [frames[i] EXCEPT !.status = "CANCELLED"]
             hit == \E s \in SurfacesOf(c) : frames[i].surface = <<s, surfaces[s].generation>>
  <2>3. x.state = frames[i].state /\ x.status = "CANCELLED"
    BY <1>2
  <2>4. frames'[i] = IF frames[i].state = "FREE" THEN frames[i]
                     ELSE IF frames[i].owner = c THEN FreeFrame
                     ELSE IF hit THEN x ELSE frames[i]
    BY <2>1
  <2>5. Open(frames', i) => frames'[i] = frames[i] /\ ~hit
    <3> HIDE DEF x, hit
    <3> QED
      BY <2>2, <2>3, <2>4 DEF Open
  <2>6. frames'[i].state = "ASSIGNED" => frames[i].state = "ASSIGNED"
    <3> HIDE DEF x, hit
    <3> QED
      BY <2>2, <2>3, <2>4
  <2> QED
    BY <2>5, <2>6
<1>4. ASSUME NEW h \in SurfaceHandle, IsLive(surfaces, h),
             \A s \in SurfacesOf(c) : h # <<s, surfaces[s].generation>>
      PROVE  IsLive(surfaces', h)
  <2>1. h[1] \in SurfaceSlot /\ h = <<h[1], h[2]>> /\ surfaces[h[1]].generation = h[2]
    BY <1>4 DEF SurfaceHandle, IsLive
  <2>2. h[1] \notin SurfacesOf(c)
    BY <1>4, <2>1
  <2>3. surfaces'[h[1]] = surfaces[h[1]]
    BY <1>1, <2>1, <2>2 DEF SurfacesWithout
  <2> QED
    BY <1>4, <2>3 DEF IsLive
<1>5. \A i \in FrameSlot : Open(frames', i) =>
        /\ frames[i].surface \in SurfaceHandle
        /\ IsLive(surfaces, frames[i].surface) => IsLive(surfaces', frames[i].surface)
  BY <1>0, <1>3, <1>4, NamedSurface DEF Open
<1> QED
  BY <1>1, <1>3, <1>5 DEF Fades

LEMMA ShownPresent ==
  ASSUME ShownInv, PresentDone
  PROVE  Fades
<1>1. \A i \in FrameSlot :
        IF frames[i].state = "ASSIGNED" THEN frames'[i].state = "FREE"
        ELSE frames'[i] = frames[i]
  BY DEF PresentDone, Assigned, FreeFrame
<1>2. UNCHANGED <<surfaces, commit_sequence>>
  BY DEF PresentDone
<1> QED
  BY <1>1, <1>2 DEF Fades, Open

\* A commit adds one frame, of a commit no other frame belongs to.
LEMMA ShownCommit ==
  ASSUME ShownInv, TypeInv', NEW c \in ClientHandle, NEW s \in SurfaceHandle,
         SurfaceCommit(c, s)
  PROVE  ShownInv'
<1>0. TypeOK /\ FramesNamed
  BY DEF ShownInv, TypeInv
<1>1. /\ frames' = TokenToFrame(c, s, commit_sequence + 1, "NONE")
      /\ commit_sequence' = commit_sequence + 1 /\ in_flight' = in_flight
      /\ surfaces[s[1]].frame_token # NoToken => FreeFrameSlots # {}
      /\ IsLive(surfaces, s) /\ commit_sequence \in Nat
      /\ \A i \in FrameSlot : frames[i].commit_sequence \in Nat
  BY <1>0, CapacityAssumption
     DEF SurfaceCommit, OwnedSurface, SurfaceOk, TypeOK, FrameSlotType
<1>2. \A h \in SurfaceHandle : IsLive(surfaces, h) => IsLive(surfaces', h)
  <2>1. s[1] \in SurfaceSlot
    BY HandleParts
  <2>2. PICK new, seq :
          surfaces' = [surfaces EXCEPT ![s[1]] =
                         [@ EXCEPT !.buffer = new, !.commit_sequence = seq,
                                   !.attach = FALSE, !.frame_token = NoToken]]
    BY DEF SurfaceCommit
  <2>3. \A k \in SurfaceSlot : /\ surfaces'[k].live = surfaces[k].live
                               /\ surfaces'[k].generation = surfaces[k].generation
    BY <1>0, <2>1, <2>2 DEF TypeOK, SurfaceSlotType
  <2> QED
    BY <2>3, HandleParts DEF IsLive
<1>3. \A i \in FrameSlot : Open(frames, i) =>
        /\ IsLive(surfaces', frames[i].surface)
        /\ frames[i].commit_sequence < commit_sequence'
  BY <1>0, <1>1, <1>2, NamedSurface DEF ShownInv, Open
<1>4. CASE frames' = frames
  BY <1>1, <1>3, <1>4 DEF ShownInv, Open, Shown
<1>5. ASSUME NEW k \in FrameSlot, NEW f,
             f.state = "WAITING", f.surface = s, f.commit_sequence = commit_sequence + 1,
             frames' = [frames EXCEPT ![k] = f]
      PROVE  ShownInv'
  <2>1. frames'[k] = f /\ \A i \in FrameSlot \ {k} : frames'[i] = frames[i]
    BY <1>0, <1>5 DEF TypeOK
  <2>2. \A i \in FrameSlot : Open(frames', i) =>
          frames'[i].commit_sequence <= commit_sequence'
            /\ IsLive(surfaces', frames'[i].surface)
    BY <1>1, <1>2, <1>3, <1>5, <2>1 DEF Open
  <2>3. ASSUME NEW i \in FrameSlot, NEW j \in FrameSlot,
               Open(frames', i), Open(frames', j), i # j,
               frames'[i].surface = frames'[j].surface
        PROVE  frames'[i].commit_sequence # frames'[j].commit_sequence
    <3>1. CASE i # k /\ j # k
      BY <2>1, <2>3, <3>1 DEF ShownInv, Open
    <3>2. CASE i = k
      BY <1>1, <1>3, <1>5, <2>1, <2>3, <3>2 DEF Open
    <3>3. CASE j = k
      BY <1>1, <1>3, <1>5, <2>1, <2>3, <3>3 DEF Open
    <3> QED
      BY <3>1, <3>2, <3>3
  <2>4. \A i, j \in FrameSlot :
          Shown(frames', i) /\ Shown(frames', j) /\ i # j
            => frames'[i].surface # frames'[j].surface
    BY <1>5, <2>1 DEF ShownInv, Shown
  <2>5. \A i \in FrameSlot : frames'[i].state = "ASSIGNED" => in_flight'
    BY <1>1, <1>5, <2>1 DEF ShownInv
  <2> QED
    BY <2>2, <2>3, <2>4, <2>5 DEF ShownInv, Open, Shown
<1>6. \/ frames' = frames
      \/ \E k \in FrameSlot :
           frames' = [frames EXCEPT ![k] =
                        [state |-> "WAITING", owner |-> c, surface |-> s,
                         token |-> surfaces[s[1]].frame_token,
                         commit_sequence |-> commit_sequence + 1, status |-> "NONE"]]
  BY <1>0, <1>1, TokenToFrameSlots
<1> QED
  BY <1>4, <1>5, <1>6

\* A frame shows a surface's latest commit or none.
LEMMA ShownBuild ==
  ASSUME ShownInv, TypeInv', BuildFrame
  PROVE  ShownInv'
<1>0. TypeOK /\ FramesNamed
  BY DEF ShownInv, TypeInv
<1>1. UNCHANGED <<surfaces, commit_sequence>> /\ in_flight'
      /\ \A i \in FrameSlot : frames[i].state # "ASSIGNED"
  BY DEF BuildFrame, ShownInv
<1>2. PICK shown \in SUBSET Mapped :
        frames' = [i \in FrameSlot |->
                     IF frames[i].state = "WAITING"
                     THEN [frames[i] EXCEPT
                             !.state = "ASSIGNED",
                             !.status = Completion(frames[i], shown)]
                     ELSE frames[i]]
  BY DEF BuildFrame
<1>3. ASSUME NEW i \in FrameSlot, Open(frames', i)
      PROVE  /\ Open(frames, i) /\ IsLive(surfaces, frames[i].surface)
             /\ frames'[i].surface = frames[i].surface
             /\ frames'[i].commit_sequence = frames[i].commit_sequence
             /\ frames'[i].status \in {"PRESENTED", "OCCLUDED"} =>
                  surfaces[frames[i].surface[1]].commit_sequence = frames[i].commit_sequence
  <2>1. frames[i].state = "WAITING"
    BY <1>0, <1>1, <1>2, <1>3 DEF TypeOK, FrameSlotType, Open
  <2>2. /\ frames'[i].state = "ASSIGNED"
        /\ frames'[i].status = Completion(frames[i], shown)
        /\ frames'[i].surface = frames[i].surface
        /\ frames'[i].commit_sequence = frames[i].commit_sequence
    BY <1>0, <1>2, <2>1 DEF TypeOK, FrameSlotType
  <2>3. Completion(frames[i], shown) # "CANCELLED"
    BY <1>3, <2>2 DEF Open
  <2>4. /\ frames[i].status # "CANCELLED" /\ IsLive(surfaces, frames[i].surface)
        /\ Completion(frames[i], shown) \in {"PRESENTED", "OCCLUDED"} =>
             surfaces[frames[i].surface[1]].commit_sequence = frames[i].commit_sequence
    BY <2>3 DEF Completion, SurfaceOk
  <2> QED
    BY <2>1, <2>2, <2>4 DEF Open
<1>4. \A i \in FrameSlot : Open(frames', i) =>
        frames'[i].commit_sequence <= commit_sequence'
          /\ IsLive(surfaces', frames'[i].surface)
  BY <1>1, <1>3 DEF ShownInv
<1>5. \A i, j \in FrameSlot :
        Open(frames', i) /\ Open(frames', j) /\ i # j
          /\ frames'[i].surface = frames'[j].surface
          => frames'[i].commit_sequence # frames'[j].commit_sequence
  BY <1>3 DEF ShownInv
<1>6. \A i, j \in FrameSlot :
        Shown(frames', i) /\ Shown(frames', j) /\ i # j
          => frames'[i].surface # frames'[j].surface
  <2>1. \A i \in FrameSlot : Shown(frames', i) =>
          Open(frames', i) /\ frames'[i].status \in {"PRESENTED", "OCCLUDED"}
    BY DEF Shown, Open
  <2> QED
    BY <1>3, <1>5, <2>1
<1> QED
  BY <1>1, <1>4, <1>5, <1>6 DEF ShownInv, Open, Shown

LEMMA InitShownInv == Init => ShownInv
<1> SUFFICES ASSUME Init PROVE ShownInv
  OBVIOUS
<1>1. \A i \in FrameSlot : frames[i].state = "FREE"
  BY DEF Init, FreeFrame
<1> QED
  BY <1>1, InitTypeInv DEF ShownInv, Open, Shown

LEMMA NextShownInv ==
  ASSUME ShownInv, [Next]_vars
  PROVE  ShownInv'
<1>0. TypeInv /\ TypeInv'
  BY NextTypeInv DEF ShownInv
<1>1. CASE \E c \in ClientHandle : ClientDisconnect(c)
  BY <1>0, <1>1, ShownDisconnect, FadesKeepShown
<1>2. CASE \E c \in ClientHandle, s \in SurfaceHandle : SurfaceDestroy(c, s)
  BY <1>0, <1>2, ShownDestroy, FadesKeepShown
<1>3. CASE \E c \in ClientHandle, s \in SurfaceHandle : SurfaceCommit(c, s)
  BY <1>0, <1>3, ShownCommit
<1>4. CASE BuildFrame
  BY <1>0, <1>4, ShownBuild
<1>5. CASE PresentDone
  BY <1>0, <1>5, ShownPresent, FadesKeepShown
<1>6. CASE /\ UNCHANGED <<frames, commit_sequence, in_flight>>
           /\ \A c \in ClientHandle, s \in SurfaceHandle : ~SurfaceDestroy(c, s)
           /\ \A c \in ClientHandle : ~ClientDisconnect(c)
  BY <1>0, <1>6, ShownRest, FadesKeepShown
<1> QED
  BY <1>1, <1>2, <1>3, <1>4, <1>5, <1>6, WhoChangesFrames

THEOREM ShownInvariance == Spec => []ShownInv
<1> QED
  BY InitShownInv, NextShownInv, PTL DEF Spec

\* Of the commits of one surface a frame reports at most one as shown, and a
\* destroyed surface's frame is cancelled even while it is in flight.
THEOREM OneCommitIsShown == Spec => []OneShownCommit
<1>1. ShownInv => OneShownCommit
  <2> SUFFICES ASSUME ShownInv PROVE OneShownCommit
    OBVIOUS
  <2>1. \A i \in Assigned : ~SurfaceOk(frames[i].surface) => frames[i].status = "CANCELLED"
    BY DEF ShownInv, Open, Assigned, SurfaceOk
  <2>2. \A i, j \in Assigned : frames[i].surface = frames[j].surface /\ i # j
          => ~ {frames[i].status, frames[j].status} \subseteq {"PRESENTED", "OCCLUDED"}
    BY DEF ShownInv, Shown, Assigned
  <2> QED
    BY <2>1, <2>2 DEF OneShownCommit
<1> QED
  BY <1>1, ShownInvariance, PTL
-----------------------------------------------------------------------------
(* The shared tables.  Every live client occupies a slot of its own and    *)
(* takes no more than its quota, so all of them together fit.              *)

UpTo(n)        == {c \in ClientHandle : c[1] <= n}
PendingUpTo(n) == {s \in PendingTokens : surfaces[s].owner[1] <= n}
FramesUpTo(n)  == {i \in FramesInUse : frames[i].owner[1] <= n}
EventsUpTo(n)  == {x \in EventSlotsInUse : x[1][1] <= n}

\* The one handle that can be valid for a client slot.
HandleAt(i) == <<i, clients[i].generation>>

\* What grows by at most q with each of N steps stays within N * q.
LEMMA StepwiseBound ==
  ASSUME NEW N \in Nat, NEW q \in Nat, NEW f \in [0 .. N -> Int],
         f[0] <= 0, \A n \in 0 .. N - 1 : f[n + 1] <= f[n] + q
  PROVE  f[N] <= N * q
<1> DEFINE Bad == {n \in 0 .. N : f[n] > n * q}
<1>1. ASSUME Bad # {} PROVE FALSE
  <2>1. Bad \subseteq Nat
    OBVIOUS
  <2> DEFINE m == Lowest(Bad)
  <2>2. m \in Bad /\ \A k \in Bad : m <= k
    BY <1>1, <2>1, LowestIn
  <2>3. m \in 0 .. N /\ f[m] > m * q
    BY <2>2
  <2> HIDE DEF m
  <2>4. m # 0
    BY <2>3
  <2>5. m - 1 \in 0 .. N - 1 /\ (m - 1) + 1 = m /\ m - 1 \in 0 .. N
    BY <2>3, <2>4
  <2>6. m - 1 \notin Bad
    BY <2>2, <2>5
  <2>7. f[m - 1] <= (m - 1) * q
    BY <2>5, <2>6
  <2>8. f[m] <= f[m - 1] + q
    BY <2>5
  <2>9. m * q = (m - 1) * q + q
    BY <2>3
  <2> QED
    BY <2>3, <2>5, <2>7, <2>8, <2>9
<1>2. N \notin Bad
  BY <1>1
<1>3. f[N] \in Int /\ N * q \in Int
  OBVIOUS
<1> QED
  BY <1>2, <1>3

\* Quotas are shares of the whole.
LEMMA SharesFit ==
  ASSUME NEW cap \in Nat
  PROVE  ClientCapacity * (cap \div ClientCapacity) <= cap
<1> DEFINE q == cap \div ClientCapacity
           r == cap % ClientCapacity
<1>1. ClientCapacity \in Nat \ {0}
  BY CapacityAssumption
<1>2. q \in Int /\ r \in 0 .. ClientCapacity - 1 /\ cap = ClientCapacity * q + r
  BY <1>1
<1> HIDE DEF q, r
<1>3. ClientCapacity * q \in Int
  BY <1>1, <1>2
<1>4. ClientCapacity * q <= cap
  BY <1>2, <1>3
<1> QED
  BY <1>4 DEF q

LEMMA DisjointUnion ==
  ASSUME NEW S, IsFiniteSet(S), NEW T, IsFiniteSet(T), S \cap T = {}
  PROVE  /\ IsFiniteSet(S \cup T)
         /\ Cardinality(S \cup T) = Cardinality(S) + Cardinality(T)
         /\ Cardinality(S) \in Nat /\ Cardinality(T) \in Nat
<1>1. Cardinality(S \cap T) = 0
  BY FS_EmptySet
<1>2. Cardinality(S) \in Nat /\ Cardinality(T) \in Nat
  BY FS_CardinalityType
<1>3. /\ IsFiniteSet(S \cup T)
      /\ Cardinality(S \cup T) = Cardinality(S) + Cardinality(T) - Cardinality(S \cap T)
  BY FS_Union
<1> QED
  BY <1>1, <1>2, <1>3

\* The events of one queue, counted.
LEMMA QueueCount ==
  ASSUME TypeOK, NEW c \in ClientHandle
  PROVE  /\ IsFiniteSet({c} \X DOMAIN events[c])
         /\ Cardinality({c} \X DOMAIN events[c]) = Len(events[c])
         /\ Len(events[c]) \in Nat
<1>1. events[c] \in Seq(Event)
  BY DEF TypeOK
<1>2. Len(events[c]) \in Nat /\ DOMAIN events[c] = 1 .. Len(events[c])
  BY <1>1, LenProperties
<1> DEFINE n == Len(events[c])
<1>3. IsFiniteSet(1 .. n) /\ Cardinality(1 .. n) = n
  <2> HIDE DEF n
  <2> QED
    BY <1>2, FS_Interval DEF n
<1>4. IsFiniteSet({c}) /\ Cardinality({c}) = 1
  BY FS_Singleton
<1>5. IsFiniteSet({c} \X (1 .. n)) /\ Cardinality({c} \X (1 .. n)) = 1 * n
  <2> HIDE DEF n
  <2> QED
    BY <1>3, <1>4, FS_Product
<1> QED
  BY <1>2, <1>5

\* What the first n + 1 client slots hold is what the first n hold and what
\* the client in the next slot holds, if there is one.
LEMMA OneMoreClient ==
  ASSUME OwnershipInv, RoomInv, NEW n \in 0 .. ClientCapacity - 1,
         IsFiniteSet(PendingUpTo(n)), IsFiniteSet(FramesUpTo(n)), IsFiniteSet(EventsUpTo(n))
  PROVE  /\ IsFiniteSet(PendingUpTo(n + 1)) /\ IsFiniteSet(FramesUpTo(n + 1))
         /\ IsFiniteSet(EventsUpTo(n + 1))
         /\ Cardinality(PendingUpTo(n + 1)) + Cardinality(FramesUpTo(n + 1))
              <= Cardinality(PendingUpTo(n)) + Cardinality(FramesUpTo(n)) + FrameQuota
         /\ Cardinality(PendingUpTo(n + 1)) + Cardinality(FramesUpTo(n + 1))
              + Cardinality(EventsUpTo(n + 1))
              <= Cardinality(PendingUpTo(n)) + Cardinality(FramesUpTo(n))
                   + Cardinality(EventsUpTo(n)) + EventQuota
<1> DEFINE h == HandleAt(n + 1)
<1>0. /\ TypeOK /\ n \in Int /\ n + 1 \in ClientSlot
      /\ surfaces \in [SurfaceSlot -> SurfaceSlotType]
      /\ frames \in [FrameSlot -> FrameSlotType]
  BY CapacityAssumption DEF OwnershipInv, GenerationInv, TypeInv, TypeOK, ClientSlot
<1>1. \A s \in PendingTokens : /\ ClientOk(surfaces[s].owner)
                               /\ surfaces[s].owner \in ClientHandle
  BY <1>0 DEF OwnershipInv, SurfacesLive, PendingTokens, ClientOk, IsLive, SurfaceSlotType
<1>2. \A i \in FramesInUse : /\ ClientOk(frames[i].owner)
                             /\ frames[i].owner \in ClientHandle
  BY <1>0 DEF OwnershipInv, FramesLive, FramesInUse, FreeFrameSlots, ClientOk, IsLive,
              FrameSlotType
<1>3. \A x \in EventSlotsInUse : /\ ClientOk(x[1]) /\ x[1] \in ClientHandle
                                 /\ x \in {x[1]} \X DOMAIN events[x[1]]
  <2> SUFFICES ASSUME NEW x \in EventSlotsInUse
               PROVE  /\ ClientOk(x[1]) /\ x[1] \in ClientHandle
                      /\ x \in {x[1]} \X DOMAIN events[x[1]]
    OBVIOUS
  <2>1. PICK c \in ClientHandle : x \in {c} \X DOMAIN events[c]
    BY DEF EventSlotsInUse
  <2>2. x[1] = c
    BY <2>1
  <2>3. events[c] # <<>>
    BY <2>1
  <2> QED
    BY <2>1, <2>2, <2>3 DEF OwnershipInv, EventsLive, ClientOk
<1>4. \A c \in ClientHandle : ClientOk(c) /\ c[1] <= n + 1 =>
        c[1] <= n \/ (c = h /\ c[1] = n + 1)
  BY <1>0 DEF ClientHandle, ClientSlot, ClientOk, IsLive, HandleAt
<1>5. h[1] = n + 1
  BY DEF HandleAt
<1>6. CASE ~ (h \in ClientHandle /\ ClientOk(h))
  <2>1. \A c \in ClientHandle : ClientOk(c) => (c[1] <= n + 1 <=> c[1] <= n)
    BY <1>0, <1>4, <1>6 DEF ClientHandle, ClientSlot
  <2>2. /\ PendingUpTo(n + 1) = PendingUpTo(n) /\ FramesUpTo(n + 1) = FramesUpTo(n)
        /\ EventsUpTo(n + 1) = EventsUpTo(n)
    BY <1>1, <1>2, <1>3, <2>1 DEF PendingUpTo, FramesUpTo, EventsUpTo
  <2>3. Cardinality(PendingUpTo(n)) \in Nat /\ Cardinality(FramesUpTo(n)) \in Nat
        /\ Cardinality(EventsUpTo(n)) \in Nat
    BY FS_CardinalityType
  <2> QED
    BY <2>2, <2>3, QuotaInt
<1>7. CASE h \in ClientHandle /\ ClientOk(h)
  <2> DEFINE P == TokensPending(surfaces, h)
             F == SlotsHeld(frames, h)
             E == {h} \X DOMAIN events[h]
  <2>1. /\ PendingUpTo(n + 1) = PendingUpTo(n) \cup P /\ PendingUpTo(n) \cap P = {}
        /\ FramesUpTo(n + 1) = FramesUpTo(n) \cup F /\ FramesUpTo(n) \cap F = {}
    <3>1. \A s \in SurfaceSlot : s \in P <=> s \in PendingTokens /\ surfaces[s].owner = h
      BY DEF TokensPending, PendingTokens
    <3>2. \A i \in FrameSlot : i \in F <=> i \in FramesInUse /\ frames[i].owner = h
      BY DEF SlotsHeld, FramesInUse, FreeFrameSlots
    <3>3. \A c \in ClientHandle : ClientOk(c) =>
            /\ c[1] <= n + 1 <=> c[1] <= n \/ c = h
            /\ ~ (c[1] <= n /\ c = h)
      BY <1>0, <1>4, <1>5 DEF ClientHandle, ClientSlot
    <3>4. P \subseteq SurfaceSlot /\ F \subseteq FrameSlot
          /\ PendingTokens \subseteq SurfaceSlot /\ FramesInUse \subseteq FrameSlot
      BY DEF TokensPending, SlotsHeld, PendingTokens, FramesInUse
    <3> HIDE DEF P, F, h
    <3>5. \A s : /\ s \in PendingUpTo(n + 1) <=> s \in PendingUpTo(n) \/ s \in P
                 /\ ~ (s \in PendingUpTo(n) /\ s \in P)
      BY <1>1, <3>1, <3>3, <3>4 DEF PendingUpTo
    <3>6. \A i : /\ i \in FramesUpTo(n + 1) <=> i \in FramesUpTo(n) \/ i \in F
                 /\ ~ (i \in FramesUpTo(n) /\ i \in F)
      BY <1>2, <3>2, <3>3, <3>4 DEF FramesUpTo
    <3> QED
      BY <3>5, <3>6
  <2>2. EventsUpTo(n + 1) = EventsUpTo(n) \cup E /\ EventsUpTo(n) \cap E = {}
    <3>1. E \subseteq EventSlotsInUse /\ \A x \in E : x[1] = h
      BY <1>7 DEF EventSlotsInUse
    <3>2. \A x \in EventSlotsInUse : x[1] = h => x \in E
      BY <1>3
    <3>3. \A c \in ClientHandle : ClientOk(c) =>
            /\ c[1] <= n + 1 <=> c[1] <= n \/ c = h
            /\ ~ (c[1] <= n /\ c = h)
      BY <1>0, <1>4, <1>5 DEF ClientHandle, ClientSlot
    <3> HIDE DEF E, h
    <3>4. \A x : /\ x \in EventsUpTo(n + 1) <=> x \in EventsUpTo(n) \/ x \in E
                 /\ ~ (x \in EventsUpTo(n) /\ x \in E)
      BY <1>3, <3>1, <3>2, <3>3 DEF EventsUpTo
    <3> QED
      BY <3>4
  <2>3. /\ IsFiniteSet(P) /\ Cardinality(P) \in Nat
        /\ IsFiniteSet(F) /\ Cardinality(F) \in Nat
        /\ IsFiniteSet(E) /\ Cardinality(E) = Len(events[h]) /\ Len(events[h]) \in Nat
    BY <1>0, <1>7, LoadFinite, QueueCount
  <2>4. /\ Cardinality(P) + Cardinality(F) <= FrameQuota
        /\ Cardinality(P) + Cardinality(F) + Cardinality(E) <= EventQuota
    <3>1. /\ Len(events[h]) + (Cardinality(F) + Cardinality(P)) <= EventQuota
          /\ Cardinality(F) + Cardinality(P) <= FrameQuota
      BY <1>7 DEF RoomInv, Room, Load
    <3> HIDE DEF P, F, E, h
    <3> QED
      BY <2>3, <3>1, QuotaInt
  <2> HIDE DEF P, F, E, h
  <2>5. /\ IsFiniteSet(PendingUpTo(n + 1))
        /\ Cardinality(PendingUpTo(n + 1)) = Cardinality(PendingUpTo(n)) + Cardinality(P)
        /\ IsFiniteSet(FramesUpTo(n + 1))
        /\ Cardinality(FramesUpTo(n + 1)) = Cardinality(FramesUpTo(n)) + Cardinality(F)
        /\ IsFiniteSet(EventsUpTo(n + 1))
        /\ Cardinality(EventsUpTo(n + 1)) = Cardinality(EventsUpTo(n)) + Cardinality(E)
        /\ Cardinality(PendingUpTo(n)) \in Nat /\ Cardinality(FramesUpTo(n)) \in Nat
        /\ Cardinality(EventsUpTo(n)) \in Nat
    BY <2>1, <2>2, <2>3, DisjointUnion
  <2> DEFINE p  == Cardinality(PendingUpTo(n))
             u  == Cardinality(FramesUpTo(n))
             e  == Cardinality(EventsUpTo(n))
             dp == Cardinality(P)
             du == Cardinality(F)
             de == Cardinality(E)
  <2>6. /\ p \in Int /\ u \in Int /\ e \in Int /\ dp \in Int /\ du \in Int /\ de \in Int
        /\ dp + du <= FrameQuota /\ dp + du + de <= EventQuota
    BY <2>3, <2>4, <2>5
  <2> HIDE DEF p, u, e, dp, du, de
  <2>7. /\ (p + dp) + (u + du) <= p + u + FrameQuota
        /\ (p + dp) + (u + du) + (e + de) <= p + u + e + EventQuota
    BY <2>6, QuotaInt
  <2> QED
    BY <2>5, <2>7 DEF p, u, e, dp, du, de
<1> QED
  BY <1>6, <1>7

\* All clients together.
LEMMA AllClients ==
  ASSUME OwnershipInv, RoomInv
  PROVE  /\ IsFiniteSet(PendingTokens) /\ IsFiniteSet(FramesInUse)
         /\ IsFiniteSet(EventSlotsInUse)
         /\ Cardinality(PendingTokens) + Cardinality(FramesInUse) <= FrameCapacity
         /\ Cardinality(PendingTokens) + Cardinality(FramesInUse)
              + Cardinality(EventSlotsInUse) <= EventCapacity
<1> DEFINE N == ClientCapacity
           Fin(n) == /\ IsFiniteSet(PendingUpTo(n)) /\ IsFiniteSet(FramesUpTo(n))
                     /\ IsFiniteSet(EventsUpTo(n))
           f == [n \in 0 .. N |-> Cardinality(PendingUpTo(n)) + Cardinality(FramesUpTo(n))]
           g == [n \in 0 .. N |-> Cardinality(PendingUpTo(n)) + Cardinality(FramesUpTo(n))
                                    + Cardinality(EventsUpTo(n))]
<1>0. /\ N \in Nat /\ FrameCapacity \in Nat /\ EventCapacity \in Nat
      /\ \A c \in ClientHandle : c[1] \in 1 .. N
      /\ surfaces \in [SurfaceSlot -> SurfaceSlotType]
      /\ frames \in [FrameSlot -> FrameSlotType]
  BY CapacityAssumption
     DEF ClientHandle, ClientSlot, OwnershipInv, GenerationInv, TypeInv, TypeOK
<1>1. /\ \A s \in PendingTokens : surfaces[s].owner \in ClientHandle
      /\ \A i \in FramesInUse : frames[i].owner \in ClientHandle
      /\ \A x \in EventSlotsInUse : x[1] \in ClientHandle
  <2>1. \A s \in PendingTokens : surfaces[s].owner \in ClientHandle
    BY <1>0 DEF OwnershipInv, SurfacesLive, PendingTokens, IsLive, SurfaceSlotType
  <2>2. \A i \in FramesInUse : frames[i].owner \in ClientHandle
    BY <1>0 DEF OwnershipInv, FramesLive, FramesInUse, FreeFrameSlots, IsLive,
                FrameSlotType
  <2>3. \A x \in EventSlotsInUse : x[1] \in ClientHandle
    BY DEF EventSlotsInUse
  <2> QED
    BY <2>1, <2>2, <2>3
<1>2. /\ PendingUpTo(0) = {} /\ FramesUpTo(0) = {} /\ EventsUpTo(0) = {}
      /\ PendingUpTo(N) = PendingTokens /\ FramesUpTo(N) = FramesInUse
      /\ EventsUpTo(N) = EventSlotsInUse
  BY <1>0, <1>1 DEF PendingUpTo, FramesUpTo, EventsUpTo
<1>3. Fin(0)
  BY <1>2, FS_EmptySet
<1>4. \A n \in 0 .. N - 1 : Fin(n) => Fin(n + 1)
  BY OneMoreClient
<1>5. ASSUME NEW k \in 0 .. N PROVE Fin(k)
  <2> DEFINE Bad == {n \in 0 .. N : ~Fin(n)}
  <2> HIDE DEF Fin
  <2> SUFFICES ASSUME Bad # {} PROVE FALSE
    BY <1>5
  <2> DEFINE m == Lowest(Bad)
  <2>1. m \in Bad /\ \A j \in Bad : m <= j
    BY LowestIn
  <2>2. m \in 0 .. N /\ ~Fin(m)
    BY <2>1
  <2> HIDE DEF m
  <2>3. m # 0
    BY <1>3, <2>2
  <2>4. m - 1 \in 0 .. N - 1 /\ (m - 1) + 1 = m /\ m - 1 \in 0 .. N
    BY <1>0, <2>2, <2>3
  <2>5. m - 1 \notin Bad
    BY <2>1, <2>4
  <2> QED
    BY <1>4, <2>2, <2>4, <2>5
<1>6. \A n \in 0 .. N : /\ Cardinality(PendingUpTo(n)) \in Nat
                         /\ Cardinality(FramesUpTo(n)) \in Nat
                         /\ Cardinality(EventsUpTo(n)) \in Nat
  BY <1>5, FS_CardinalityType
<1>7. f \in [0 .. N -> Int] /\ g \in [0 .. N -> Int]
  BY <1>6
<1>8. f[0] <= 0 /\ g[0] <= 0
  <2>1. f[0] = 0 /\ g[0] = 0
    BY <1>0, <1>2, FS_EmptySet
  <2> QED
    BY <2>1
<1>9. \A n \in 0 .. N - 1 : f[n + 1] <= f[n] + FrameQuota /\ g[n + 1] <= g[n] + EventQuota
  <2> SUFFICES ASSUME NEW n \in 0 .. N - 1
               PROVE  f[n + 1] <= f[n] + FrameQuota /\ g[n + 1] <= g[n] + EventQuota
    OBVIOUS
  <2>1. n \in 0 .. N /\ n + 1 \in 0 .. N
    BY <1>0
  <2>2. Fin(n)
    BY <1>5, <2>1
  <2> QED
    BY <2>1, <2>2, OneMoreClient
<1> HIDE DEF f, g
<1>10. f[N] <= N * FrameQuota /\ g[N] <= N * EventQuota
  <2>1. FrameQuota \in Nat /\ EventQuota \in Nat
    BY QuotaInt
  <2> HIDE DEF N
  <2>2. f[N] <= N * FrameQuota
    BY <1>0, <1>7, <1>8, <1>9, <2>1, StepwiseBound
  <2>3. g[N] <= N * EventQuota
    BY <1>0, <1>7, <1>8, <1>9, <2>1, StepwiseBound
  <2> QED
    BY <2>2, <2>3
<1>11. N * FrameQuota <= FrameCapacity /\ N * EventQuota <= EventCapacity
  BY <1>0, SharesFit DEF FrameQuota, EventQuota
<1>12. N * FrameQuota \in Int /\ N * EventQuota \in Int /\ f[N] \in Int /\ g[N] \in Int
  BY <1>0, <1>7, QuotaInt
<1>13. f[N] <= FrameCapacity /\ g[N] <= EventCapacity
  <2> HIDE DEF N
  <2> QED
    BY <1>0, <1>10, <1>11, <1>12
<1>14. /\ f[N] = Cardinality(PendingTokens) + Cardinality(FramesInUse)
       /\ g[N] = Cardinality(PendingTokens) + Cardinality(FramesInUse)
                   + Cardinality(EventSlotsInUse)
  BY <1>0, <1>2 DEF f, g
<1>15. /\ IsFiniteSet(PendingTokens) /\ IsFiniteSet(FramesInUse)
       /\ IsFiniteSet(EventSlotsInUse)
  BY <1>0, <1>2, <1>5
<1> QED
  BY <1>13, <1>14, <1>15

\* Whatever the other clients have queued, the shared tables have room for
\* every token that was accepted and every frame that was committed.
THEOREM ClientsDoNotBlockEachOther == Spec => []NoCrossClientBlocking
<1>1. OwnershipInv /\ RoomInv => NoCrossClientBlocking
  <2> SUFFICES ASSUME OwnershipInv, RoomInv PROVE NoCrossClientBlocking
    OBVIOUS
  <2> DEFINE p == Cardinality(PendingTokens)
             u == Cardinality(FramesInUse)
             e == Cardinality(EventSlotsInUse)
             r == Cardinality(FreeFrameSlots)
  <2>1. /\ p + u <= FrameCapacity /\ p + u + e <= EventCapacity
        /\ IsFiniteSet(PendingTokens) /\ IsFiniteSet(FramesInUse)
        /\ IsFiniteSet(EventSlotsInUse)
    BY AllClients
  <2>2. p \in Nat /\ u \in Nat /\ e \in Nat
    BY <2>1, FS_CardinalityType
  <2>3. r = FrameCapacity - u /\ r \in Nat
    <3>1. IsFiniteSet(FrameSlot) /\ Cardinality(FrameSlot) = FrameCapacity
      BY CapacityAssumption, FS_Interval DEF FrameSlot
    <3>2. /\ FreeFrameSlots \cup FramesInUse = FrameSlot
          /\ FreeFrameSlots \cap FramesInUse = {}
          /\ FreeFrameSlots \subseteq FrameSlot
      BY DEF FramesInUse, FreeFrameSlots
    <3>3. IsFiniteSet(FreeFrameSlots)
      BY <3>1, <3>2, FS_Subset
    <3>4. FrameCapacity = r + u /\ r \in Nat
      BY <2>1, <3>1, <3>2, <3>3, DisjointUnion
    <3> HIDE DEF r, u
    <3> QED
      BY <2>2, <3>4
  <2> HIDE DEF p, u, e, r
  <2>4. p <= r /\ p + u <= EventCapacity - e
    BY <2>1, <2>2, <2>3, CapacityAssumption
  <2> QED
    BY <2>4 DEF NoCrossClientBlocking, FreeEventCount, p, u, e, r
<1> QED
  BY <1>1, OwnershipInvariance, RoomInvariance, PTL
=============================================================================
