----------------------- MODULE CompositorEffectsProofs -----------------------
(***************************************************************************)
(* What holds of the effect protocol of moo_compositor_core.c for every    *)
(* number of clients, surfaces, animations and event slots: the four       *)
(* tables agree, so that no call is ever refused because they do not, and  *)
(* a client is told exactly once that an animation has ended.              *)
(***************************************************************************)
EXTENDS CompositorEffects, TLAPS, FiniteSetTheorems, SequenceTheorems,
        WellFoundedInduction

-----------------------------------------------------------------------------
(* Slots, and sequences that name each element of a set once.              *)

\* The scan for a free slot ends at the first of the slots it looks for.
LEMMA LowestIn ==
  ASSUME NEW S, S \subseteq Nat, S # {}
  PROVE  Lowest(S) \in S /\ \A j \in S : Lowest(S) <= j
<1> DEFINE Less == {p \in Nat \X Nat : p[1] < p[2]}
<1>1. IsWellFoundedOn(Less, Nat)
  BY NatLessThanWellFounded DEF OpToRel
<1> HIDE DEF Less
<1>2. PICK i \in S : \A j \in S : ~ (<<j, i>> \in Less)
  BY <1>1, WFMin
<1>3. ASSUME NEW j \in S
      PROVE  i <= j
  <2>1. i \in Nat /\ j \in Nat
    OBVIOUS
  <2>2. <<j, i>> \in Nat \X Nat /\ ~ (<<j, i>> \in Less)
    BY <1>2, <2>1
  <2> QED
    BY <2>1, <2>2 DEF Less
<1> QED
  BY <1>3 DEF Lowest

\* The next generation of a slot is again a generation or 0.
LEMMA NextGenerationType ==
  ASSUME NEW g \in Generation \cup {0}
  PROVE  NextGeneration(g) \in Generation \cup {0}
  BY EffectCapacityAssumption DEF NextGeneration, Generation

\* The rank of a slot in a set: how many of the set are not above it.
Rank(S) == [i \in S |-> Cardinality({j \in S : j <= i})]

LEMMA RankIsBijection ==
  ASSUME NEW n \in Nat, NEW S \in SUBSET (1 .. n)
  PROVE  /\ Cardinality(S) \in Nat
         /\ \A i \in S : Rank(S)[i] \in 1 .. Cardinality(S)
         /\ \A i, j \in S : Rank(S)[i] = Rank(S)[j] => i = j
         /\ \A k \in 1 .. Cardinality(S) : \E i \in S : Rank(S)[i] = k
<1> DEFINE UpTo(i) == {j \in S : j <= i}
           rank == [i \in S |-> Cardinality(UpTo(i))]
           m == Cardinality(S)
<1>1. IsFiniteSet(S) /\ m \in Nat
  <2>1. IsFiniteSet(1 .. n)
    BY FS_Interval
  <2>2. IsFiniteSet(S)
    BY <2>1, FS_Subset
  <2> QED
    BY <2>2, FS_CardinalityType
<1>2. \A i \in S : IsFiniteSet(UpTo(i)) /\ Cardinality(UpTo(i)) \in 1 .. m
  <2> SUFFICES ASSUME NEW i \in S
               PROVE  IsFiniteSet(UpTo(i)) /\ Cardinality(UpTo(i)) \in 1 .. m
    OBVIOUS
  <2>1. UpTo(i) \in SUBSET S /\ i \in UpTo(i)
    OBVIOUS
  <2>2. IsFiniteSet(UpTo(i)) /\ Cardinality(UpTo(i)) <= m
    BY <1>1, <2>1, FS_Subset
  <2>3. Cardinality(UpTo(i)) \in Nat /\ Cardinality(UpTo(i)) # 0
    BY <2>1, <2>2, FS_CardinalityType, FS_EmptySet
  <2> QED
    BY <1>1, <2>2, <2>3
<1>3. ASSUME NEW i \in S, NEW j \in S, i < j
      PROVE  rank[i] # rank[j]
  <2>0. \A x \in S : x \in Int
    OBVIOUS
  <2>1. UpTo(i) \in SUBSET UpTo(j) /\ j \in UpTo(j) /\ j \notin UpTo(i)
    <3>1. i < j /\ i \in Int /\ j \in Int
      BY <1>3, <2>0
    <3>2. \A x \in S : x <= i => x <= j
      BY <2>0, <3>1
    <3>3. j <= j /\ ~ (j <= i)
      BY <3>1
    <3> QED
      BY <3>2, <3>3
  <2>2. Cardinality(UpTo(i)) # Cardinality(UpTo(j))
    BY <1>2, <2>1, FS_Subset
  <2> QED
    BY <2>2
<1>4. rank \in Injection(S, 1 .. m)
  <2>1. rank \in [S -> 1 .. m]
    BY <1>2
  <2>2. \A i, j \in S : rank[i] = rank[j] => i = j
    BY <1>3
  <2> QED
    BY <2>1, <2>2 DEF Injection, IsInjective
<1>5. IsFiniteSet(1 .. m) /\ Cardinality(1 .. m) = m
  BY <1>1, FS_Interval
<1>6. rank \in Surjection(S, 1 .. m)
  BY <1>4, <1>5, FS_Injection
<1>7. /\ \A i \in S : rank[i] \in 1 .. m
      /\ \A i, j \in S : rank[i] = rank[j] => i = j
  BY <1>4 DEF Injection, IsInjective
<1>8. \A k \in 1 .. m : \E i \in S : rank[i] = k
  BY <1>6 DEF Surjection
<1>9. Rank(S) = rank
  BY DEF Rank
<1> HIDE DEF rank
<1> QED
  BY <1>1, <1>7, <1>8, <1>9

\* Slot order enumerates the slots of the set, each at its rank.
LEMMA InSlotOrderRank ==
  ASSUME NEW n \in Nat, NEW S \in SUBSET (1 .. n), NEW k \in 1 .. Cardinality(S)
  PROVE  InSlotOrder(S)[k] \in S /\ Rank(S)[InSlotOrder(S)[k]] = k
<1>1. PICK i \in S : Rank(S)[i] = k
  BY RankIsBijection
<1> QED
  BY <1>1 DEF InSlotOrder, Rank

LEMMA InSlotOrderEnumerates ==
  ASSUME NEW n \in Nat, NEW S \in SUBSET (1 .. n)
  PROVE  /\ Enumerates(InSlotOrder(S), S)
         /\ DOMAIN InSlotOrder(S) = 1 .. Cardinality(S)
<1> DEFINE q == InSlotOrder(S)
<1>1. Cardinality(S) \in Nat
  BY RankIsBijection
<1>2. q = [k \in 1 .. Cardinality(S) |->
             CHOOSE i \in S : Cardinality({j \in S : j <= i}) = k]
  BY DEF InSlotOrder
<1>3. DOMAIN q = 1 .. Cardinality(S)
  BY <1>2
<1>4. \A k \in DOMAIN q : q[k] \in S /\ Rank(S)[q[k]] = k
  BY <1>3, InSlotOrderRank
<1>5. \A k, m \in DOMAIN q : q[k] = q[m] => k = m
  BY <1>4
<1>6. ASSUME NEW a \in S
      PROVE  \E k \in DOMAIN q : q[k] = a
  <2>1. Rank(S)[a] \in DOMAIN q
    BY <1>3, RankIsBijection
  <2>2. q[Rank(S)[a]] \in S /\ Rank(S)[q[Rank(S)[a]]] = Rank(S)[a]
    BY <1>4, <2>1
  <2>3. q[Rank(S)[a]] = a
    BY <2>2, RankIsBijection
  <2> QED
    BY <2>1, <2>3
<1>7. q \in Seq(S)
  <2> HIDE DEF q
  <2>1. q \in [1 .. Cardinality(S) -> S]
    BY <1>2, <1>3, <1>4
  <2> QED
    BY <1>1, <2>1, SeqDef
<1> QED
  BY <1>3, <1>5, <1>6, <1>7 DEF Enumerates

\* A sequence that enumerates is a function from an interval.
LEMMA EnumerationIs ==
  ASSUME NEW A, NEW q, Enumerates(q, A)
  PROVE  /\ q \in Seq(A) /\ Len(q) \in Nat /\ DOMAIN q = 1 .. Len(q)
         /\ q \in [1 .. Len(q) -> A]
         /\ \A n \in DOMAIN q : q[n] \in A
         /\ IsFiniteSet(A) /\ Cardinality(A) = Len(q)
<1>1. q \in Seq(A) /\ Len(q) \in Nat /\ DOMAIN q = 1 .. Len(q)
  BY LenProperties DEF Enumerates
<1>2. q \in [1 .. Len(q) -> A]
  BY <1>1, ElementOfSeq, LenProperties
<1>3. q \in Bijection(1 .. Len(q), A)
  <2>1. \A m, n \in 1 .. Len(q) : q[m] = q[n] => m = n
    BY <1>1 DEF Enumerates
  <2>2. \A a \in A : \E n \in 1 .. Len(q) : q[n] = a
    BY <1>1 DEF Enumerates
  <2>3. q \in Injection(1 .. Len(q), A)
    BY <1>2, <2>1 DEF Injection, IsInjective
  <2>4. q \in Surjection(1 .. Len(q), A)
    BY <1>2, <2>2 DEF Surjection
  <2> QED
    BY <2>3, <2>4 DEF Bijection
<1>4. ExistsBijection(1 .. Len(q), A)
  BY <1>3 DEF ExistsBijection
<1>5. IsFiniteSet(1 .. Len(q)) /\ Cardinality(1 .. Len(q)) = Len(q)
  BY <1>1, FS_Interval
<1>6. IsFiniteSet(A) /\ Cardinality(A) = Len(q)
  BY <1>4, <1>5, FS_Bijection
<1> QED
  BY <1>1, <1>2, <1>6

\* A function of a position enumerates its values if they are all different.
LEMMA FunctionEnumerates ==
  ASSUME NEW n \in Nat, NEW f, f = [k \in 1 .. n |-> f[k]], NEW A,
         \A k \in 1 .. n : f[k] \in A,
         \A k, m \in 1 .. n : f[k] = f[m] => k = m,
         \A a \in A : \E k \in 1 .. n : f[k] = a
  PROVE  Enumerates(f, A)
<1>1. f \in [1 .. n -> A] /\ DOMAIN f = 1 .. n
  OBVIOUS
<1>2. f \in Seq(A)
  BY <1>1, SeqDef
<1> QED
  BY <1>1, <1>2 DEF Enumerates

LEMMA ConcatEnumerates ==
  ASSUME NEW A, NEW B, NEW q, NEW s,
         Enumerates(q, A), Enumerates(s, B), A \cap B = {}
  PROVE  Enumerates(q \o s, A \cup B)
<1> DEFINE m == Len(q)
           n == Len(s)
           f == q \o s
<1>1. /\ q \in Seq(A \cup B) /\ m \in Nat /\ DOMAIN q = 1 .. m
      /\ s \in Seq(A \cup B) /\ n \in Nat /\ DOMAIN s = 1 .. n
      /\ \A k \in 1 .. m : q[k] \in A
      /\ \A k \in 1 .. n : s[k] \in B
  <2>1. /\ q \in Seq(A) /\ m \in Nat /\ DOMAIN q = 1 .. m
        /\ s \in Seq(B) /\ n \in Nat /\ DOMAIN s = 1 .. n
        /\ \A k \in 1 .. m : q[k] \in A
        /\ \A k \in 1 .. n : s[k] \in B
    BY EnumerationIs
  <2>2. q \in [1 .. m -> A \cup B] /\ s \in [1 .. n -> A \cup B]
    BY <2>1, EnumerationIs
  <2> HIDE DEF m, n
  <2>3. q \in Seq(A \cup B) /\ s \in Seq(A \cup B)
    BY <2>1, <2>2, SeqDef
  <2> QED
    BY <2>1, <2>3
<1>2. /\ f \in Seq(A \cup B) /\ Len(f) = m + n
      /\ \A k \in 1 .. m + n : f[k] = IF k <= m THEN q[k] ELSE s[k - m]
  BY <1>1, ConcatProperties
<1>3. DOMAIN f = 1 .. m + n
  BY <1>2, LenProperties
<1> HIDE DEF f, m, n
<1>4. \A k \in 1 .. m + n :
        \/ k \in 1 .. m /\ f[k] = q[k] /\ f[k] \in A
        \/ k - m \in 1 .. n /\ f[k] = s[k - m] /\ f[k] \in B
  <2> TAKE k \in 1 .. m + n
  <2>1. CASE k <= m
    BY <1>1, <1>2, <2>1
  <2>2. CASE ~ (k <= m)
    <3>1. k - m \in 1 .. n
      BY <1>1, <2>2
    <3> QED
      BY <1>1, <1>2, <2>2, <3>1
  <2> QED
    BY <2>1, <2>2
<1>5. ASSUME NEW j \in 1 .. m + n, NEW k \in 1 .. m + n, f[j] = f[k]
      PROVE  j = k
  <2>1. CASE j \in 1 .. m /\ f[j] = q[j] /\ f[j] \in A
    <3>1. k \in 1 .. m /\ f[k] = q[k]
      BY <1>4, <1>5, <2>1
    <3> QED
      BY <1>1, <1>5, <2>1, <3>1 DEF Enumerates
  <2>2. CASE j - m \in 1 .. n /\ f[j] = s[j - m] /\ f[j] \in B
    <3>1. k - m \in 1 .. n /\ f[k] = s[k - m]
      BY <1>4, <1>5, <2>2
    <3>2. j - m = k - m
      BY <1>1, <1>5, <2>2, <3>1 DEF Enumerates
    <3> QED
      BY <1>1, <3>2
  <2> QED
    BY <1>4, <2>1, <2>2
<1>6. ASSUME NEW a \in A \cup B
      PROVE  \E k \in 1 .. m + n : f[k] = a
  <2>1. CASE a \in A
    <3>1. PICK k \in 1 .. m : q[k] = a
      BY <1>1, <2>1 DEF Enumerates
    <3> QED
      BY <1>1, <1>2, <3>1
  <2>2. CASE a \in B
    <3>1. PICK k \in 1 .. n : s[k] = a
      BY <1>1, <2>2 DEF Enumerates
    <3>2. k + m \in 1 .. m + n /\ ~ (k + m <= m) /\ (k + m) - m = k
      BY <1>1
    <3> QED
      BY <1>2, <3>1, <3>2
  <2> QED
    BY <2>1, <2>2
<1> QED
  BY <1>2, <1>3, <1>5, <1>6 DEF Enumerates, f

LEMMA SingletonEnumerates ==
  ASSUME NEW a
  PROVE  Enumerates(<<a>>, {a}) /\ Enumerates(<<>>, {})
<1>1. <<a>> \in Seq({a}) /\ Len(<<a>>) = 1 /\ DOMAIN <<a>> = {1}
  OBVIOUS
<1>2. <<>> \in Seq({}) /\ DOMAIN <<>> = {}
  OBVIOUS
<1> QED
  BY <1>1, <1>2 DEF Enumerates

LEMMA AppendEnumerates ==
  ASSUME NEW A, NEW q, NEW a, Enumerates(q, A), a \notin A
  PROVE  Enumerates(Append(q, a), A \cup {a})
<1>1. q \in Seq(A \cup {a})
  BY EnumerationIs, SeqDef
<1>2. Append(q, a) = q \o <<a>>
  BY <1>1, AppendIsConcat
<1>3. Enumerates(<<a>>, {a}) /\ A \cap {a} = {}
  BY SingletonEnumerates
<1>4. Enumerates(q \o <<a>>, A \cup {a})
  BY <1>3, ConcatEnumerates
<1> QED
  BY <1>2, <1>4

\* Without its head a sequence enumerates the rest.
LEMMA TailEnumerates ==
  ASSUME NEW A, NEW q, Enumerates(q, A), q # <<>>
  PROVE  Head(q) \in A /\ Enumerates(Tail(q), A \ {Head(q)})
<1> DEFINE n == Len(q)
           f == Tail(q)
<1>1. q \in Seq(A) /\ n \in Nat /\ n # 0 /\ DOMAIN q = 1 .. n
  BY EnumerationIs, EmptySeq
<1>2. /\ f \in Seq(A) /\ Len(f) = n - 1
      /\ \A k \in 1 .. n - 1 : f[k] = q[k + 1]
      /\ Head(q) = q[1] /\ Head(q) \in A
  BY <1>1, HeadTailProperties
<1>3. DOMAIN f = 1 .. n - 1
  BY <1>2, LenProperties
<1>0. /\ \A k \in 1 .. n : q[k] \in A
      /\ \A j, k \in 1 .. n : q[j] = q[k] => j = k
  BY <1>1, EnumerationIs DEF Enumerates
<1> HIDE DEF f, n
<1>4. \A k \in 1 .. n - 1 : f[k] \in A /\ f[k] # q[1]
  <2> TAKE k \in 1 .. n - 1
  <2>1. k + 1 \in 1 .. n /\ 1 \in 1 .. n /\ k + 1 # 1
    BY <1>1
  <2> QED
    BY <1>0, <1>2, <2>1
<1>5. ASSUME NEW j \in 1 .. n - 1, NEW k \in 1 .. n - 1, f[j] = f[k]
      PROVE  j = k
  <2>1. j + 1 \in 1 .. n /\ k + 1 \in 1 .. n
    BY <1>1
  <2>2. j + 1 = k + 1
    BY <1>0, <1>2, <1>5, <2>1
  <2> QED
    BY <2>2
<1>6. ASSUME NEW a \in A \ {q[1]}
      PROVE  \E k \in 1 .. n - 1 : f[k] = a
  <2>1. PICK k \in 1 .. n : q[k] = a
    BY <1>1 DEF Enumerates
  <2>2. k - 1 \in 1 .. n - 1 /\ (k - 1) + 1 = k
    BY <1>1, <2>1
  <2> QED
    BY <1>2, <2>1, <2>2
<1>7. f = [k \in 1 .. n - 1 |-> f[k]] /\ n - 1 \in Nat
  BY <1>1, <1>2, <1>3
<1>8. Enumerates(f, A \ {q[1]})
  BY <1>4, <1>5, <1>6, <1>7, FunctionEnumerates
<1> QED
  BY <1>2, <1>8 DEF f

-----------------------------------------------------------------------------
(* The links between the tables, for tables S of surfaces, E of events, B  *)
(* of bindings, T of animations and R of reservations.                     *)

RunningIn(T)  == {k \in TimelineSlot : T[k].active}
ReservedIn(R) == {r \in ReservationSlot : R[r].state = "RESERVED"}

\* Reservation r is the one for the animation in slot k.
Pair(T, k, R, r) == /\ R[r].surface = T[k].surface
                    /\ R[r].token = T[k].token

AnimationLinked(S, B, T, k) ==
  /\ T[k].surface \in SurfaceHandle
  /\ T[k].token \in EffectToken
  /\ S[T[k].surface[1]].live
  /\ S[T[k].surface[1]].generation = T[k].surface[2]
  /\ B[T[k].surface[1]].active

ReservationLinked(S, E, R, r) ==
  /\ R[r].event \in EventSlot
  /\ R[r].owner \in Client
  /\ S[R[r].surface[1]].owner = R[r].owner
  /\ E[R[r].event].state = "RESERVED"
  /\ E[R[r].event].owner = R[r].owner
  /\ E[R[r].event].reserved_slot = r

\* Animations and reservations come in pairs; a token is enough to tell them
\* apart, and reserved_slot tells whose an event slot is.
Paired(T, R) ==
  /\ \A k \in RunningIn(T) : \E r \in ReservedIn(R) : Pair(T, k, R, r)
  /\ \A r \in ReservedIn(R) : \E k \in RunningIn(T) : Pair(T, k, R, r)
  /\ \A j, k \in RunningIn(T) : T[j].token = T[k].token => j = k
  /\ \A q, r \in ReservedIn(R) : R[q].token = R[r].token => q = r

EventsLinked(E, R) ==
  \A i \in EventSlot :
    E[i].state = "RESERVED" => \E r \in ReservedIn(R) : R[r].event = i

Links(S, E, B, T, R) ==
  /\ \A k \in RunningIn(T) : AnimationLinked(S, B, T, k)
  /\ \A r \in ReservedIn(R) : ReservationLinked(S, E, R, r)
  /\ Paired(T, R)
  /\ EventsLinked(E, R)

BindingLinked(S, B, b, i) ==
  /\ B[i].active => /\ b /\ S[i].live
                    /\ B[i].surface = <<i, S[i].generation>>
                    /\ B[i].owner = S[i].owner
  /\ ~B[i].active => B[i].surface = NoHandle /\ B[i].owner = NoClient

BindingsLinked(S, B, b) == \A i \in SurfaceSlot : BindingLinked(S, B, b, i)

\* The animations on the surface in slot i.
RunningOn(T, i) == {k \in RunningIn(T) : T[k].surface[1] = i}

CountsExact(B, T) ==
  \A i \in SurfaceSlot :
    B[i].reserved_completion_events = Cardinality(RunningOn(T, i))

\* A surface has one animation of a property at most.
OnePerProperty(T) ==
  \A j, k \in RunningIn(T) :
    T[j].surface = T[k].surface /\ T[j].property = T[k].property => j = k

LiveNamed(S) ==
  \A i \in SurfaceSlot :
    S[i].live => S[i].generation \in Generation /\ S[i].owner \in Client

\* The inductive invariant.  IntegrationValid follows from it, also before
\* the core has effects, when nothing is bound, running or reserved.
EffectInv ==
  /\ TypeOK
  /\ LiveNamed(surfaces)
  /\ Links(surfaces, events, bindings, timeline, reservations)
  /\ BindingsLinked(surfaces, bindings, bound)
  /\ CountsExact(bindings, timeline)
  /\ OnePerProperty(timeline)

LEMMA HandleParts ==
  ASSUME NEW s \in SurfaceHandle
  PROVE  /\ s[1] \in SurfaceSlot /\ s[2] \in Generation
         /\ s = <<s[1], s[2]>> /\ s # NoHandle
  BY DEF SurfaceHandle, SurfaceSlot, Generation, NoHandle

LEMMA SlotsFinite ==
  /\ \A A \in SUBSET TimelineSlot :
       IsFiniteSet(A) /\ Cardinality(A) \in Nat
  /\ \A A \in SUBSET ReservationSlot :
       IsFiniteSet(A) /\ Cardinality(A) \in Nat
  /\ \A A \in SUBSET EventSlot :
       IsFiniteSet(A) /\ Cardinality(A) \in Nat
<1>1. /\ IsFiniteSet(TimelineSlot) /\ IsFiniteSet(ReservationSlot)
      /\ IsFiniteSet(EventSlot)
  BY EffectCapacityAssumption, FS_Interval
     DEF TimelineSlot, ReservationSlot, EventSlot
<1> QED
  BY <1>1, FS_Subset, FS_CardinalityType

LEMMA OneElement ==
  ASSUME NEW A, NEW x, A = {x}
  PROVE  Cardinality(A) = 1
  BY FS_Singleton

\* The surface of an animation is the one its binding is for.
LEMMA AnimationSurface ==
  ASSUME EffectInv, NEW k \in Running
  PROVE  /\ timeline[k].surface \in SurfaceHandle
         /\ timeline[k].token \in EffectToken
         /\ timeline[k].surface[1] \in SurfaceSlot
         /\ SurfaceOk(timeline[k].surface)
         /\ bindings[timeline[k].surface[1]].active
         /\ bindings[timeline[k].surface[1]].surface = timeline[k].surface
         /\ bindings[timeline[k].surface[1]].owner
              = surfaces[timeline[k].surface[1]].owner
<1> DEFINE s == timeline[k].surface
<1>1. AnimationLinked(surfaces, bindings, timeline, k)
  BY DEF EffectInv, Links, Running, RunningIn
<1>2. s \in SurfaceHandle /\ s[1] \in SurfaceSlot /\ s = <<s[1], s[2]>>
  BY <1>1, HandleParts DEF AnimationLinked
<1>3. BindingLinked(surfaces, bindings, bound, s[1])
  BY <1>2 DEF EffectInv, BindingsLinked
<1> QED
  BY <1>1, <1>2, <1>3 DEF AnimationLinked, BindingLinked, SurfaceOk

\* Each animation has one reservation and each reservation one animation.
LEMMA OnePair ==
  ASSUME EffectInv
  PROVE  /\ \A k \in Running : \E r \in Reserved :
              /\ Pair(timeline, k, reservations, r)
              /\ ReservationsFor(reservations, timeline[k].surface,
                                 timeline[k].token) = {r}
         /\ \A r \in Reserved : \E k \in Running :
              /\ Pair(timeline, k, reservations, r)
              /\ {j \in Running :
                    /\ timeline[j].surface = reservations[r].surface
                    /\ timeline[j].token = reservations[r].token} = {k}
<1>0. Paired(timeline, reservations)
  BY DEF EffectInv, Links
<1>1. ASSUME NEW k \in Running
      PROVE  \E r \in Reserved :
               /\ Pair(timeline, k, reservations, r)
               /\ ReservationsFor(reservations, timeline[k].surface,
                                  timeline[k].token) = {r}
  <2>1. PICK r \in Reserved : Pair(timeline, k, reservations, r)
    BY <1>0 DEF Paired, Running, RunningIn, Reserved, ReservedIn
  <2>2. \A q \in Reserved :
          reservations[q].token = reservations[r].token => q = r
    BY <1>0, <2>1 DEF Paired, Reserved, ReservedIn
  <2> QED
    BY <2>1, <2>2 DEF ReservationsFor, Pair, Reserved
<1>2. ASSUME NEW r \in Reserved
      PROVE  \E k \in Running :
               /\ Pair(timeline, k, reservations, r)
               /\ {j \in Running :
                     /\ timeline[j].surface = reservations[r].surface
                     /\ timeline[j].token = reservations[r].token} = {k}
  <2>1. PICK k \in Running : Pair(timeline, k, reservations, r)
    BY <1>0 DEF Paired, Running, RunningIn, Reserved, ReservedIn
  <2>2. \A j \in Running : timeline[j].token = timeline[k].token => j = k
    BY <1>0, <2>1 DEF Paired, Running, RunningIn
  <2> QED
    BY <2>1, <2>2 DEF Pair
<1> QED
  BY <1>1, <1>2

\* A reservation, its animation, its surface and its event slot.
LEMMA ReservationGraphOf ==
  ASSUME EffectInv, NEW r \in Reserved
  PROVE  /\ r \in ReservationSlot
         /\ reservations[r].surface \in SurfaceHandle
         /\ reservations[r].token \in EffectToken
         /\ SurfaceOk(reservations[r].surface)
         /\ reservations[r].owner \in Client
         /\ surfaces[reservations[r].surface[1]].owner = reservations[r].owner
         /\ bindings[reservations[r].surface[1]].active
         /\ bindings[reservations[r].surface[1]].surface
              = reservations[r].surface
         /\ bindings[reservations[r].surface[1]].owner = reservations[r].owner
         /\ reservations[r].event \in EventSlot
         /\ events[reservations[r].event].state = "RESERVED"
         /\ events[reservations[r].event].owner = reservations[r].owner
         /\ events[reservations[r].event].reserved_slot = r
<1>1. PICK k \in Running : Pair(timeline, k, reservations, r)
  BY OnePair
<1>2. ReservationLinked(surfaces, events, reservations, r)
  BY DEF EffectInv, Links, Reserved, ReservedIn
<1> QED
  BY <1>1, <1>2, AnimationSurface DEF Pair, ReservationLinked, Reserved

\* The reservations on a surface are as many as its animations.
LEMMA ReservationsCounted ==
  ASSUME EffectInv, NEW i \in SurfaceSlot
  PROVE  Cardinality({r \in Reserved :
                        /\ reservations[r].surface = bindings[i].surface
                        /\ reservations[r].owner = bindings[i].owner})
           = Cardinality(RunningOn(timeline, i))
<1> DEFINE P == {r \in Reserved :
                   /\ reservations[r].surface = bindings[i].surface
                   /\ reservations[r].owner = bindings[i].owner}
           Q == RunningOn(timeline, i)
           f == [k \in Q |-> CHOOSE r \in Reserved :
                               Pair(timeline, k, reservations, r)]
<1>1. Q \subseteq Running /\ \A k \in Q : timeline[k].surface[1] = i
  BY DEF RunningOn, RunningIn, Running
<1>2. \A k \in Q : f[k] \in Reserved /\ Pair(timeline, k, reservations, f[k])
  BY <1>1, OnePair
<1>3. ASSUME NEW k \in Q
      PROVE  f[k] \in P
  BY <1>1, <1>2, AnimationSurface, ReservationGraphOf DEF Pair
<1>4. ASSUME NEW j \in Q, NEW k \in Q, f[j] = f[k]
      PROVE  j = k
  <2>1. timeline[j].token = timeline[k].token
    BY <1>2, <1>4 DEF Pair
  <2> QED
    BY <1>1, <2>1 DEF EffectInv, Links, Paired, Running, RunningIn
<1>5. ASSUME NEW r \in P
      PROVE  \E k \in Q : f[k] = r
  <2>1. PICK k \in Running : Pair(timeline, k, reservations, r)
    BY OnePair
  <2>2. k \in Q
    <3>1. bindings[i].active
      BY ReservationGraphOf, HandleParts
         DEF EffectInv, BindingsLinked, BindingLinked
    <3>2. reservations[r].surface[1] = i
      BY <3>1 DEF EffectInv, BindingsLinked, BindingLinked
    <3> QED
      BY <2>1, <3>2 DEF Pair, RunningOn, RunningIn, Running
  <2>3. reservations[f[k]].token = reservations[r].token
    BY <1>2, <2>1, <2>2 DEF Pair
  <2>4. f[k] = r
    BY <1>2, <2>2, <2>3 DEF EffectInv, Links, Paired, Reserved, ReservedIn
  <2> QED
    BY <2>2, <2>4
<1>6. f \in Bijection(Q, P)
  <2> HIDE DEF P, Q
  <2>1. f \in [Q -> P]
    BY <1>3
  <2> HIDE DEF f
  <2> QED
    BY <2>1, <1>4, <1>5 DEF Bijection, Injection, IsInjective, Surjection
<1>7. IsFiniteSet(Q)
  BY SlotsFinite DEF RunningOn, RunningIn
<1> QED
  BY <1>6, <1>7, FS_Bijection DEF ExistsBijection

\* The tables agree, as every call of the effect protocol asks them to.
LEMMA EffectInvIsValid ==
  ASSUME EffectInv
  PROVE  IntegrationValid
<1>1. AnimationsReserved
  <2> SUFFICES ASSUME NEW k \in Running
               PROVE  LET s == timeline[k].surface
                          b == bindings[s[1]]
                          R == ReservationsFor(reservations, s,
                                               timeline[k].token)
                      IN  /\ SurfaceOk(s)
                          /\ b.active /\ b.surface = s
                          /\ b.owner = surfaces[s[1]].owner
                          /\ Cardinality({r \in R : reservations[r].owner
                                                      = b.owner}) = 1
    BY DEF AnimationsReserved
  <2>1. PICK r \in Reserved :
          /\ Pair(timeline, k, reservations, r)
          /\ ReservationsFor(reservations, timeline[k].surface,
                             timeline[k].token) = {r}
    BY OnePair
  <2>2. reservations[r].owner = bindings[timeline[k].surface[1]].owner
    BY <2>1, ReservationGraphOf DEF Pair
  <2>3. {q \in {r} : reservations[q].owner
                       = bindings[timeline[k].surface[1]].owner} = {r}
    BY <2>2
  <2> QED
    BY <2>1, <2>3, AnimationSurface, OneElement
<1>2. ReservationsHeld
  <2> SUFFICES ASSUME NEW r \in Reserved
               PROVE  Cardinality({k \in Running :
                        /\ timeline[k].surface = reservations[r].surface
                        /\ timeline[k].token = reservations[r].token}) = 1
    BY ReservationGraphOf DEF ReservationsHeld
  <2> QED
    BY OnePair, OneElement
<1>3. ReservationsDistinct
  <2> SUFFICES ASSUME NEW q \in Reserved, NEW r \in Reserved, q # r
               PROVE  /\ reservations[q].event # reservations[r].event
                      /\ reservations[q].token # reservations[r].token
    BY DEF ReservationsDistinct
  <2>1. reservations[q].token # reservations[r].token
    BY DEF EffectInv, Links, Paired, Reserved, ReservedIn
  <2> QED
    BY <2>1, ReservationGraphOf
<1>4. EventsReserved
  <2> SUFFICES ASSUME NEW i \in EventSlot, events[i].state = "RESERVED"
               PROVE  Cardinality({r \in Reserved :
                                     reservations[r].event = i}) = 1
    BY DEF EventsReserved
  <2>1. PICK r \in Reserved : reservations[r].event = i
    BY DEF EffectInv, Links, EventsLinked, Reserved, ReservedIn
  <2>2. {q \in Reserved : reservations[q].event = i} = {r}
    BY <2>1, ReservationGraphOf
  <2> QED
    BY <2>2, OneElement
<1>5. BindingsCount
  <2> SUFFICES ASSUME NEW i \in SurfaceSlot
               PROVE  /\ bindings[i].active =>
                           /\ surfaces[i].live /\ bindings[i].surface = Handle(i)
                           /\ bindings[i].owner = surfaces[i].owner
                      /\ bindings[i].reserved_completion_events =
                           Cardinality({r \in Reserved :
                             /\ reservations[r].surface = bindings[i].surface
                             /\ reservations[r].owner = bindings[i].owner})
    BY DEF BindingsCount
  <2>1. BindingLinked(surfaces, bindings, bound, i)
    BY DEF EffectInv, BindingsLinked
  <2>2. bindings[i].reserved_completion_events
          = Cardinality(RunningOn(timeline, i))
    BY DEF EffectInv, CountsExact
  <2> QED
    BY <2>1, <2>2, ReservationsCounted DEF BindingLinked, Handle
<1> QED
  BY <1>1, <1>2, <1>3, <1>4, <1>5 DEF IntegrationValid

-----------------------------------------------------------------------------
(* How the links change.                                                   *)

\* Event slots that are not held back do not matter.
LEMMA LinksOfEvents ==
  ASSUME NEW S, NEW E, NEW E2, NEW B, NEW T, NEW R,
         Links(S, E, B, T, R),
         \A i \in EventSlot : IF E[i].state = "RESERVED" THEN E2[i] = E[i]
                              ELSE E2[i].state # "RESERVED"
  PROVE  Links(S, E2, B, T, R)
<1>1. \A r \in ReservedIn(R) : ReservationLinked(S, E2, R, r)
  BY DEF Links, ReservationLinked
<1>2. EventsLinked(E2, R)
  BY DEF Links, EventsLinked
<1> QED
  BY <1>1, <1>2 DEF Links

\* Only the surfaces matter on which something runs.
LEMMA LinksOfSurfaces ==
  ASSUME NEW S, NEW S2, NEW E, NEW B, NEW B2, NEW T, NEW R,
         Links(S, E, B, T, R),
         \A k \in RunningIn(T) :
           /\ S2[T[k].surface[1]].live = S[T[k].surface[1]].live
           /\ S2[T[k].surface[1]].generation = S[T[k].surface[1]].generation
           /\ S2[T[k].surface[1]].owner = S[T[k].surface[1]].owner
           /\ B2[T[k].surface[1]].active
  PROVE  Links(S2, E, B2, T, R)
<1>1. \A k \in RunningIn(T) : AnimationLinked(S2, B2, T, k)
  BY DEF Links, AnimationLinked
<1>2. ASSUME NEW r \in ReservedIn(R)
      PROVE  ReservationLinked(S2, E, R, r)
  <2>1. PICK k \in RunningIn(T) : Pair(T, k, R, r)
    BY DEF Links, Paired
  <2>2. ReservationLinked(S, E, R, r)
    BY DEF Links
  <2>3. S2[R[r].surface[1]].owner = S[R[r].surface[1]].owner
    BY <2>1 DEF Pair
  <2> QED
    BY <2>2, <2>3 DEF ReservationLinked
<1> QED
  BY <1>1, <1>2 DEF Links

LEMMA LiveEventState ==
  \A c, type, t : /\ LiveEvent(c, type, t).state = "LIVE"
                  /\ LiveEvent(c, type, t).owner = c
                  /\ LiveEvent(c, type, t).type = type
                  /\ LiveEvent(c, type, t).token = t
  BY DEF LiveEvent

\* moo_i1_complete2, slot by slot, for the reservations in D.
Completed(E, E2, R, R2, D) ==
  /\ \A r \in ReservationSlot : R2[r] = IF r \in D THEN FreeReservation
                                        ELSE R[r]
  /\ \A r \in D : E2[R[r].event] =
                    LiveEvent(R[r].owner, "ANIMATION_DONE", R[r].token)
  /\ \A i \in EventSlot : (\A r \in D : R[r].event # i) => E2[i] = E[i]

SlotsLinked(E, R) ==
  \A r \in ReservedIn(R) : /\ R[r].event \in EventSlot
                           /\ E[R[r].event].reserved_slot = r

LEMMA CompletedAt ==
  ASSUME NEW E, NEW R, NEW D, D \subseteq ReservedIn(R), NEW rs,
         Enumerates(rs, D), SlotsLinked(E, R)
  PROVE  Completed(E, EventsCompleted(E, R, rs), R,
                   ReservationsCompleted(R, rs), D)
<1>1. \A r : r \in D <=> \E n \in DOMAIN rs : rs[n] = r
  BY EnumerationIs DEF Enumerates
<1>2. D \subseteq ReservationSlot
  BY DEF ReservedIn
<1>3. \A r \in ReservationSlot :
        ReservationsCompleted(R, rs)[r] =
          IF r \in D THEN FreeReservation ELSE R[r]
  BY <1>1 DEF ReservationsCompleted
<1>4. \A i \in EventSlot :
        EventsCompleted(E, R, rs)[i] =
          IF \E n \in DOMAIN rs : R[rs[n]].event = i
          THEN LET r == CHOOSE r \in ReservationSlot :
                          R[r].event = i /\ \E n \in DOMAIN rs : rs[n] = r
               IN  LiveEvent(R[r].owner, "ANIMATION_DONE", R[r].token)
          ELSE E[i]
  BY DEF EventsCompleted
<1>5. ASSUME NEW r \in D
      PROVE  EventsCompleted(E, R, rs)[R[r].event] =
               LiveEvent(R[r].owner, "ANIMATION_DONE", R[r].token)
  <2>1. /\ R[r].event \in EventSlot
        /\ \E n \in DOMAIN rs : R[rs[n]].event = R[r].event
    BY <1>1 DEF SlotsLinked
  <2> DEFINE Chosen(q) == /\ R[q].event = R[r].event
                          /\ \E n \in DOMAIN rs : rs[n] = q
             q0 == CHOOSE q \in ReservationSlot : Chosen(q)
  <2>2. r \in ReservationSlot /\ Chosen(r)
    BY <1>1, <1>2
  <2>3. q0 \in ReservationSlot /\ Chosen(q0)
    BY <2>2
  <2>4. q0 \in D /\ R[q0].event = R[r].event
    BY <1>1, <2>3
  <2> HIDE DEF q0
  <2>5. q0 = r
    BY <2>4 DEF SlotsLinked
  <2> QED
    BY <1>4, <2>1, <2>5 DEF q0
<1>6. ASSUME NEW i \in EventSlot, \A r \in D : R[r].event # i
      PROVE  EventsCompleted(E, R, rs)[i] = E[i]
  <2>1. ~ \E n \in DOMAIN rs : R[rs[n]].event = i
    BY <1>1, <1>6
  <2> QED
    BY <1>4, <2>1
<1> QED
  BY <1>3, <1>5, <1>6 DEF Completed

LEMMA LinksCompleted ==
  ASSUME NEW S, NEW E, NEW B, NEW T, NEW T2, NEW R,
         Links(S, E, B, T, R),
         NEW K \in SUBSET RunningIn(T), NEW D \in SUBSET ReservedIn(R),
         \A k \in RunningIn(T), r \in ReservedIn(R) :
           Pair(T, k, R, r) => (k \in K <=> r \in D),
         NEW rs, Enumerates(rs, D),
         \A k \in TimelineSlot : IF k \in K THEN ~T2[k].active
                                 ELSE T2[k] = T[k]
  PROVE  Links(S, EventsCompleted(E, R, rs), B, T2,
               ReservationsCompleted(R, rs))
<1> DEFINE E2 == EventsCompleted(E, R, rs)
           R2 == ReservationsCompleted(R, rs)
<1>1. /\ \A k \in RunningIn(T) : AnimationLinked(S, B, T, k)
      /\ \A r \in ReservedIn(R) : ReservationLinked(S, E, R, r)
      /\ Paired(T, R) /\ EventsLinked(E, R)
  BY DEF Links
<1>2. /\ \A r \in ReservationSlot :
           R2[r] = IF r \in D THEN FreeReservation ELSE R[r]
      /\ \A r \in D : E2[R[r].event] =
                        LiveEvent(R[r].owner, "ANIMATION_DONE", R[r].token)
      /\ \A i \in EventSlot : (\A r \in D : R[r].event # i) => E2[i] = E[i]
  <2>1. SlotsLinked(E, R)
    BY <1>1 DEF ReservationLinked, SlotsLinked
  <2>2. Completed(E, E2, R, R2, D)
    BY <2>1, CompletedAt
  <2> HIDE DEF E2, R2
  <2> QED
    BY <2>2 DEF Completed
<1> HIDE DEF E2, R2
<1>3. /\ RunningIn(T2) = RunningIn(T) \ K
      /\ \A k \in RunningIn(T2) : T2[k] = T[k]
  BY DEF RunningIn
<1>4. /\ ReservedIn(R2) = ReservedIn(R) \ D
      /\ \A r \in ReservedIn(R2) : R2[r] = R[r]
  BY <1>2 DEF ReservedIn, FreeReservation
<1>5. \A k \in RunningIn(T2) : AnimationLinked(S, B, T2, k)
  BY <1>1, <1>3 DEF AnimationLinked
<1>6. ASSUME NEW r \in ReservedIn(R2)
      PROVE  ReservationLinked(S, E2, R2, r)
  <2>1. r \in ReservedIn(R) /\ r \notin D /\ R2[r] = R[r]
    BY <1>4
  <2>2. ReservationLinked(S, E, R, r)
    BY <1>1, <2>1
  <2>3. \A q \in D : R[q].event # R[r].event
    BY <1>1, <2>1 DEF ReservationLinked
  <2>4. E2[R[r].event] = E[R[r].event]
    BY <1>2, <2>2, <2>3 DEF ReservationLinked
  <2> QED
    BY <2>1, <2>2, <2>4 DEF ReservationLinked
<1>7. Paired(T2, R2)
  <2>1. ASSUME NEW k \in RunningIn(T2)
        PROVE  \E r \in ReservedIn(R2) : Pair(T2, k, R2, r)
    <3>1. PICK r \in ReservedIn(R) : Pair(T, k, R, r)
      BY <1>1, <1>3 DEF Paired
    <3>2. r \in ReservedIn(R2)
      BY <1>3, <1>4, <3>1
    <3> QED
      BY <1>3, <1>4, <3>1, <3>2 DEF Pair
  <2>2. ASSUME NEW r \in ReservedIn(R2)
        PROVE  \E k \in RunningIn(T2) : Pair(T2, k, R2, r)
    <3>1. PICK k \in RunningIn(T) : Pair(T, k, R, r)
      BY <1>1, <1>4 DEF Paired
    <3>2. k \in RunningIn(T2)
      BY <1>3, <1>4, <3>1
    <3> QED
      BY <1>3, <1>4, <3>1, <3>2 DEF Pair
  <2>3. \A j, k \in RunningIn(T2) : T2[j].token = T2[k].token => j = k
    BY <1>1, <1>3 DEF Paired
  <2>4. \A q, r \in ReservedIn(R2) : R2[q].token = R2[r].token => q = r
    BY <1>1, <1>4 DEF Paired
  <2> QED
    BY <2>1, <2>2, <2>3, <2>4 DEF Paired
<1>8. ASSUME NEW i \in EventSlot, E2[i].state = "RESERVED"
      PROVE  \E r \in ReservedIn(R2) : R2[r].event = i
  <2>1. ASSUME NEW r \in D
        PROVE  R[r].event # i
    <3>1. E2[R[r].event].state = "LIVE"
      BY <1>2, LiveEventState
    <3> QED
      BY <1>8, <3>1
  <2>2. E[i].state = "RESERVED"
    BY <1>2, <1>8, <2>1
  <2>3. PICK r \in ReservedIn(R) : R[r].event = i
    BY <1>1, <2>2 DEF EventsLinked
  <2> QED
    BY <1>4, <2>1, <2>3
<1> QED
  BY <1>5, <1>6, <1>7, <1>8 DEF Links, EventsLinked, E2, R2

\* A new animation of c on surface s, in timeline slot k, with reservation r
\* and event slot e.
LEMMA LinksAdded ==
  ASSUME NEW S, NEW E, NEW E2, NEW B, NEW T, NEW T2, NEW R, NEW R2,
         Links(S, E, B, T, R),
         NEW c \in Client, NEW s \in SurfaceHandle, NEW t \in EffectToken,
         S[s[1]].live, S[s[1]].generation = s[2], S[s[1]].owner = c,
         B[s[1]].active,
         NEW k \in TimelineSlot \ RunningIn(T),
         NEW r \in ReservationSlot \ ReservedIn(R),
         NEW e \in EventSlot, E[e].state # "RESERVED",
         \A j \in RunningIn(T) : T[j].token # t,
         T2[k].active, T2[k].surface = s, T2[k].token = t,
         \A j \in TimelineSlot \ {k} : T2[j] = T[j],
         R2[r] = [state |-> "RESERVED", event |-> e, owner |-> c,
                  surface |-> s, token |-> t],
         \A q \in ReservationSlot \ {r} : R2[q] = R[q],
         E2[e] = ReservedEvent(c, r),
         \A i \in EventSlot \ {e} : E2[i] = E[i]
  PROVE  Links(S, E2, B, T2, R2)
<1>1. /\ \A j \in RunningIn(T) : AnimationLinked(S, B, T, j)
      /\ \A q \in ReservedIn(R) : ReservationLinked(S, E, R, q)
      /\ Paired(T, R) /\ EventsLinked(E, R)
  BY DEF Links
<1>2. /\ RunningIn(T2) = RunningIn(T) \cup {k}
      /\ \A j \in RunningIn(T) : j # k /\ T2[j] = T[j]
  BY DEF RunningIn
<1>3. /\ ReservedIn(R2) = ReservedIn(R) \cup {r}
      /\ \A q \in ReservedIn(R) : q # r /\ R2[q] = R[q]
  BY DEF ReservedIn
<1>4. \A j \in RunningIn(T2) : AnimationLinked(S, B, T2, j)
  BY <1>1, <1>2 DEF AnimationLinked
<1>5. \A q \in ReservedIn(R) : R[q].event # e /\ R[q].token # t
  BY <1>1 DEF ReservationLinked, Paired, Pair
<1>6. ASSUME NEW q \in ReservedIn(R2)
      PROVE  ReservationLinked(S, E2, R2, q)
  <2>1. CASE q = r
    BY <2>1 DEF ReservationLinked, ReservedEvent
  <2>2. CASE q # r
    <3>1. q \in ReservedIn(R) /\ R2[q] = R[q]
      BY <1>3, <2>2
    <3>2. ReservationLinked(S, E, R, q)
      BY <1>1, <3>1
    <3>3. E2[R[q].event] = E[R[q].event]
      BY <1>5, <3>1, <3>2 DEF ReservationLinked
    <3> QED
      BY <3>1, <3>2, <3>3 DEF ReservationLinked
  <2> QED
    BY <2>1, <2>2
<1>7. Paired(T2, R2)
  <2>1. Pair(T2, k, R2, r)
    BY DEF Pair
  <2>2. \A j \in RunningIn(T2) : \E q \in ReservedIn(R2) : Pair(T2, j, R2, q)
    BY <1>1, <1>2, <1>3, <2>1 DEF Paired, Pair
  <2>3. \A q \in ReservedIn(R2) : \E j \in RunningIn(T2) : Pair(T2, j, R2, q)
    BY <1>1, <1>2, <1>3, <2>1 DEF Paired, Pair
  <2>4. \A i, j \in RunningIn(T2) : T2[i].token = T2[j].token => i = j
    BY <1>1, <1>2 DEF Paired
  <2>5. \A p, q \in ReservedIn(R2) : R2[p].token = R2[q].token => p = q
    BY <1>1, <1>3, <1>5 DEF Paired
  <2> QED
    BY <2>2, <2>3, <2>4, <2>5 DEF Paired
<1>8. EventsLinked(E2, R2)
  BY <1>1, <1>3 DEF EventsLinked
<1> QED
  BY <1>4, <1>6, <1>7, <1>8 DEF Links

-----------------------------------------------------------------------------
(* The terminal events of several animations at once.                      *)

\* The reservations of the animations K.
EndedBy(K) == {r \in Reserved : \E k \in K : Pair(timeline, k, reservations, r)}

LEMMA EndedInPairs ==
  ASSUME EffectInv, NEW K \in SUBSET Running
  PROVE  \A k \in Running, r \in Reserved :
           Pair(timeline, k, reservations, r) =>
             (k \in K <=> r \in EndedBy(K))
<1> SUFFICES ASSUME NEW k \in Running, NEW r \in Reserved,
                    Pair(timeline, k, reservations, r)
             PROVE  k \in K <=> r \in EndedBy(K)
  OBVIOUS
<1>1. k \in K => r \in EndedBy(K)
  BY DEF EndedBy
<1>2. ASSUME r \in EndedBy(K)
      PROVE  k \in K
  <2>1. PICK j \in K : Pair(timeline, j, reservations, r)
    BY <1>2 DEF EndedBy
  <2>2. timeline[j].token = timeline[k].token
    BY <2>1 DEF Pair
  <2> QED
    BY <2>1, <2>2 DEF EffectInv, Links, Paired, Running, RunningIn
<1> QED
  BY <1>1, <1>2

LEMMA ReservationsOfEnumerates ==
  ASSUME EffectInv, NEW K \in SUBSET Running
  PROVE  /\ Enumerates(ReservationsOf(K), EndedBy(K))
         /\ Len(ReservationsOf(K)) = Cardinality(K)
<1> DEFINE order == InSlotOrder(K)
           n == Cardinality(K)
           f == ReservationsOf(K)
           For(k) == ReservationsFor(reservations, timeline[k].surface,
                                     timeline[k].token)
<1>1. /\ Enumerates(order, K) /\ DOMAIN order = 1 .. n /\ n \in Nat
      /\ \A m \in 1 .. n : order[m] \in K
  <2>1. TimelineCapacity \in Nat /\ K \in SUBSET (1 .. TimelineCapacity)
    BY EffectCapacityAssumption DEF Running, TimelineSlot
  <2>2. Enumerates(order, K) /\ DOMAIN order = 1 .. n
    BY <2>1, InSlotOrderEnumerates
  <2>3. n \in Nat
    BY <2>1, RankIsBijection
  <2> QED
    BY <2>2, <2>3, EnumerationIs
<1>2. f = [m \in 1 .. n |-> CHOOSE r \in ReservationSlot : r \in For(order[m])]
  BY DEF ReservationsOf
<1>3. \A m \in 1 .. n : /\ f[m] \in Reserved
                        /\ Pair(timeline, order[m], reservations, f[m])
  <2> SUFFICES ASSUME NEW m \in 1 .. n
               PROVE  /\ f[m] \in Reserved
                      /\ Pair(timeline, order[m], reservations, f[m])
    OBVIOUS
  <2>1. order[m] \in Running
    BY <1>1
  <2>2. PICK r \in Reserved : /\ Pair(timeline, order[m], reservations, r)
                              /\ For(order[m]) = {r}
    BY <2>1, OnePair
  <2>3. r \in ReservationSlot
    BY DEF Reserved
  <2>4. (CHOOSE q \in ReservationSlot : q \in For(order[m])) = r
    BY <2>2, <2>3
  <2>5. f[m] = r
    BY <1>2, <2>4
  <2> QED
    BY <2>2, <2>5
<1> HIDE DEF f, order
<1>4. \A m \in 1 .. n : f[m] \in EndedBy(K)
  BY <1>1, <1>3 DEF EndedBy
<1>5. ASSUME NEW j \in 1 .. n, NEW m \in 1 .. n, f[j] = f[m]
      PROVE  j = m
  <2>1. timeline[order[j]].token = timeline[order[m]].token
    BY <1>3, <1>5 DEF Pair
  <2>2. order[j] \in Running /\ order[m] \in Running
    BY <1>1
  <2>3. order[j] = order[m]
    BY <2>1, <2>2 DEF EffectInv, Links, Paired, Running, RunningIn
  <2> QED
    BY <1>1, <2>3 DEF Enumerates
<1>6. ASSUME NEW r \in EndedBy(K)
      PROVE  \E m \in 1 .. n : f[m] = r
  <2>1. r \in Reserved
    BY DEF EndedBy
  <2>2. PICK k \in K : Pair(timeline, k, reservations, r)
    BY DEF EndedBy
  <2>3. PICK m \in 1 .. n : order[m] = k
    BY <1>1 DEF Enumerates
  <2>4. reservations[f[m]].token = reservations[r].token /\ f[m] \in Reserved
    BY <1>3, <2>2, <2>3 DEF Pair
  <2>5. f[m] = r
    BY <2>1, <2>4 DEF EffectInv, Links, Paired, Reserved, ReservedIn
  <2> QED
    BY <2>5
<1>7. f = [m \in 1 .. n |-> f[m]]
  BY <1>2
<1>8. Enumerates(f, EndedBy(K))
  BY <1>1, <1>4, <1>5, <1>6, <1>7, FunctionEnumerates
<1>9. Len(f) = n
  <2>1. DOMAIN f = 1 .. n /\ DOMAIN f = 1 .. Len(f) /\ Len(f) \in Nat
    BY <1>7, <1>8, EnumerationIs
  <2> HIDE DEF n
  <2> QED
    BY <1>1, <2>1
<1> QED
  BY <1>8, <1>9 DEF f

\* The queues hold the live events, each client's own.
QueuesHold(Q, E) == \A c \in Client : Enumerates(Q[c], LiveEventsOf(E, c))

LEMMA QueuesType ==
  ASSUME NEW Q, NEW E, Q = [c \in Client |-> Q[c]], QueuesHold(Q, E)
  PROVE  Q \in [Client -> Seq(EventSlot)]
<1> SUFFICES ASSUME NEW c \in Client
             PROVE  Q[c] \in Seq(EventSlot)
  OBVIOUS
<1>1. Enumerates(Q[c], LiveEventsOf(E, c))
  BY DEF QueuesHold
<1>2. Q[c] \in [1 .. Len(Q[c]) -> EventSlot] /\ Len(Q[c]) \in Nat
  BY <1>1, EnumerationIs DEF LiveEventsOf
<1> QED
  BY <1>2, SeqDef

LEMMA QueuesCompleted ==
  ASSUME NEW E, NEW E2, NEW R, NEW R2, NEW D, D \subseteq ReservedIn(R),
         NEW rs, Enumerates(rs, D), SlotsLinked(E, R),
         Completed(E, E2, R, R2, D),
         \A r \in ReservedIn(R) : E[R[r].event].state = "RESERVED",
         QueuesHold(queue, E)
  PROVE  QueuesHold(QueueCompleted(R, rs), E2)
<1> SUFFICES ASSUME NEW c \in Client
             PROVE  Enumerates(QueueCompleted(R, rs)[c], LiveEventsOf(E2, c))
  BY DEF QueuesHold
<1> DEFINE P == {n \in DOMAIN rs : R[rs[n]].owner = c}
           own == InSlotOrder(P)
           m == Cardinality(P)
           f == [n \in DOMAIN own |-> R[rs[own[n]]].event]
           A == {R[r].event : r \in {r \in D : R[r].owner = c}}
<1>1. /\ DOMAIN rs = 1 .. Len(rs) /\ Len(rs) \in Nat
      /\ \A n \in DOMAIN rs : rs[n] \in D
      /\ \A j, k \in DOMAIN rs : rs[j] = rs[k] => j = k
      /\ \A r \in D : \E n \in DOMAIN rs : rs[n] = r
  BY EnumerationIs DEF Enumerates
<1>2. /\ Enumerates(own, P) /\ DOMAIN own = 1 .. m /\ m \in Nat
      /\ \A n \in 1 .. m : own[n] \in P
      /\ \A j, k \in 1 .. m : own[j] = own[k] => j = k
      /\ \A p \in P : \E n \in 1 .. m : own[n] = p
  <2>1. P \in SUBSET (1 .. Len(rs))
    BY <1>1
  <2>2. Enumerates(own, P) /\ DOMAIN own = 1 .. m
    BY <1>1, <2>1, InSlotOrderEnumerates
  <2>3. m \in Nat
    BY <1>1, <2>1, RankIsBijection
  <2> QED
    BY <2>2, <2>3, EnumerationIs DEF Enumerates
<1>3. f = [n \in 1 .. m |-> R[rs[own[n]]].event]
  BY <1>2
<1> HIDE DEF own, m
<1>4. \A n \in 1 .. m : /\ rs[own[n]] \in D /\ R[rs[own[n]]].owner = c
                        /\ f[n] = R[rs[own[n]]].event
  BY <1>1, <1>2, <1>3
<1> HIDE DEF f
<1>5. \A n \in 1 .. m : f[n] \in A
  BY <1>4
<1>6. ASSUME NEW j \in 1 .. m, NEW k \in 1 .. m, f[j] = f[k]
      PROVE  j = k
  <2>1. rs[own[j]] = rs[own[k]]
    BY <1>4, <1>6 DEF SlotsLinked
  <2> QED
    BY <1>1, <1>2, <2>1
<1>7. ASSUME NEW a \in A
      PROVE  \E n \in 1 .. m : f[n] = a
  <2>1. PICK r \in D : R[r].owner = c /\ a = R[r].event
    OBVIOUS
  <2>2. PICK p \in DOMAIN rs : rs[p] = r
    BY <1>1
  <2>3. PICK n \in 1 .. m : own[n] = p
    BY <1>2, <2>1, <2>2
  <2> QED
    BY <1>4, <2>1, <2>2, <2>3
<1>8. Enumerates(f, A)
  <2>1. f = [n \in 1 .. m |-> f[n]]
    BY <1>3
  <2> HIDE DEF A
  <2> QED
    BY <1>2, <1>5, <1>6, <1>7, <2>1, FunctionEnumerates
<1>9. /\ A \subseteq EventSlot
      /\ \A a \in A : E[a].state = "RESERVED"
      /\ \A a \in A : E2[a].state = "LIVE" /\ E2[a].owner = c
  BY LiveEventState DEF SlotsLinked, Completed
<1>10. ASSUME NEW i \in EventSlot \ A
       PROVE  i \in LiveEventsOf(E, c) <=> i \in LiveEventsOf(E2, c)
  <2>1. CASE \A r \in D : R[r].event # i
    BY <2>1 DEF Completed, LiveEventsOf
  <2>2. CASE \E r \in D : R[r].event = i
    <3>1. PICK r \in D : R[r].event = i
      BY <2>2
    <3>2. R[r].owner # c
      BY <3>1
    <3>3. E[i].state = "RESERVED" /\ E2[i].owner # c
      BY <3>1, <3>2, LiveEventState DEF Completed
    <3> QED
      BY <3>3 DEF LiveEventsOf
  <2> QED
    BY <2>1, <2>2
<1>11. \A i : i \in LiveEventsOf(E2, c) <=> i \in LiveEventsOf(E, c) \cup A
  BY <1>9, <1>10 DEF LiveEventsOf
<1>12. LiveEventsOf(E, c) \cap A = {}
  BY <1>9 DEF LiveEventsOf
<1>13. Enumerates(queue[c], LiveEventsOf(E, c))
  BY DEF QueuesHold
<1>14. QueueCompleted(R, rs)[c] = queue[c] \o f
  BY DEF QueueCompleted, f, own
<1>15. Enumerates(queue[c] \o f, LiveEventsOf(E, c) \cup A)
  <2> HIDE DEF A
  <2> QED
    BY <1>8, <1>12, <1>13, ConcatEnumerates
<1>16. LiveEventsOf(E2, c) = LiveEventsOf(E, c) \cup A
  <2> HIDE DEF A
  <2> QED
    BY <1>11
<1> QED
  BY <1>14, <1>15, <1>16

-----------------------------------------------------------------------------
(* Calls that end no animation and start none.                             *)

LEMMA InitEffectInv == Init => EffectInv
<1> SUFFICES ASSUME Init
             PROVE  EffectInv
  OBVIOUS
<1>1. TypeOK
  <2>1. /\ surfaces \in [SurfaceSlot -> SurfaceSlotType]
        /\ bindings \in [SurfaceSlot -> BindingType]
    BY EffectCapacityAssumption
       DEF Init, DeadSurface, SurfaceSlotType, Generation, Unbound, BindingType
  <2>2. /\ frames \in [FrameSlot -> FrameSlotType]
        /\ events \in [EventSlot -> EventSlotType]
    BY DEF Init, FreeFrame, FrameSlotType, FreeEvent, EventSlotType
  <2>3. timeline \in [TimelineSlot -> AnimationType]
    <3>1. NoAnimation \in AnimationType
      BY EffectCapacityAssumption DEF NoAnimation, AnimationType
    <3> QED
      BY <3>1 DEF Init
  <2>4. reservations \in [ReservationSlot -> ReservationType]
    BY DEF Init, FreeReservation, ReservationType
  <2>5. \A c \in Client : Enumerates(queue[c], LiveEventsOf(events, c))
    <3> SUFFICES ASSUME NEW c \in Client
                 PROVE  Enumerates(queue[c], LiveEventsOf(events, c))
      OBVIOUS
    <3>1. LiveEventsOf(events, c) = {}
      BY DEF Init, LiveEventsOf, FreeEvent
    <3>2. queue[c] = <<>>
      BY DEF Init
    <3> QED
      BY <3>1, <3>2, SingletonEnumerates
  <2>6. queue \in [Client -> Seq(EventSlot)]
    BY DEF Init
  <2>7. /\ live \subseteq Client /\ commit_sequence \in 0 .. MaxCommit
        /\ in_flight \in BOOLEAN /\ bound \in BOOLEAN
    <3>1. 0 \in 0 .. MaxCommit
      BY EffectCapacityAssumption
    <3>2. live = Client /\ commit_sequence = 0 /\ in_flight = FALSE
          /\ bound = FALSE
      BY DEF Init
    <3> QED
      BY <3>1, <3>2
  <2> QED
    BY <2>1, <2>2, <2>3, <2>4, <2>5, <2>6, <2>7 DEF TypeOK
<1>2. LiveNamed(surfaces)
  BY DEF Init, LiveNamed, DeadSurface
<1>3. RunningIn(timeline) = {} /\ ReservedIn(reservations) = {}
  BY DEF Init, RunningIn, ReservedIn, NoAnimation, FreeReservation
<1>4. Links(surfaces, events, bindings, timeline, reservations)
  <2>1. EventsLinked(events, reservations)
    BY DEF Init, EventsLinked, FreeEvent
  <2> QED
    BY <1>3, <2>1 DEF Links, Paired
<1>5. BindingsLinked(surfaces, bindings, bound)
  BY DEF Init, BindingsLinked, BindingLinked, Unbound
<1>6. CountsExact(bindings, timeline)
  <2>1. \A i : RunningOn(timeline, i) = {}
    BY <1>3 DEF RunningOn
  <2> QED
    BY <2>1, FS_EmptySet DEF Init, CountsExact, Unbound
<1>7. OnePerProperty(timeline)
  BY <1>3 DEF OnePerProperty
<1> QED
  BY <1>1, <1>2, <1>4, <1>5, <1>6, <1>7 DEF EffectInv

ReservedKept(E, E2) ==
  \A i \in EventSlot : IF E[i].state = "RESERVED" THEN E2[i] = E[i]
                       ELSE E2[i].state # "RESERVED"

SurfacesKept(S, S2, B) ==
  \A i \in SurfaceSlot : B[i].active => /\ S2[i].live = S[i].live
                                        /\ S2[i].generation = S[i].generation
                                        /\ S2[i].owner = S[i].owner

BindingsKept(B, B2) ==
  \A i \in SurfaceSlot :
    /\ B2[i].active = B[i].active
    /\ B2[i].surface = B[i].surface
    /\ B2[i].owner = B[i].owner
    /\ B2[i].reserved_completion_events = B[i].reserved_completion_events

\* A call that leaves animations alone, reserved events, and the surfaces
\* with a binding.
LEMMA QuietStep ==
  ASSUME EffectInv, TypeOK', LiveNamed(surfaces'),
         UNCHANGED <<timeline, reservations, bound>>,
         ReservedKept(events, events'),
         BindingsKept(bindings, bindings'),
         SurfacesKept(surfaces, surfaces', bindings)
  PROVE  EffectInv'
<1>1. Links(surfaces, events', bindings, timeline, reservations)
  BY LinksOfEvents DEF EffectInv, ReservedKept
<1>2. \A k \in RunningIn(timeline) :
        /\ timeline[k].surface[1] \in SurfaceSlot
        /\ bindings[timeline[k].surface[1]].active
  BY AnimationSurface DEF Running, RunningIn
<1>3. Links(surfaces', events', bindings', timeline, reservations)
  <2> DEFINE S == surfaces
             S2 == surfaces'
             E == events'
             B == bindings
             B2 == bindings'
             T == timeline
             R == reservations
  <2>1. \A k \in RunningIn(T) :
          /\ S2[T[k].surface[1]].live = S[T[k].surface[1]].live
          /\ S2[T[k].surface[1]].generation = S[T[k].surface[1]].generation
          /\ S2[T[k].surface[1]].owner = S[T[k].surface[1]].owner
          /\ B2[T[k].surface[1]].active
    BY <1>2 DEF SurfacesKept, BindingsKept
  <2>2. Links(S, E, B, T, R)
    BY <1>1
  <2> HIDE DEF S, S2, E, B, B2, T, R
  <2>3. Links(S2, E, B2, T, R)
    BY <2>1, <2>2, LinksOfSurfaces
  <2> QED
    BY <2>3 DEF S, S2, E, B, B2, T, R
<1>4. BindingsLinked(surfaces', bindings', bound')
  BY DEF EffectInv, BindingsLinked, BindingLinked, SurfacesKept, BindingsKept
<1>5. CountsExact(bindings', timeline')
  BY DEF EffectInv, CountsExact, BindingsKept
<1>6. OnePerProperty(timeline')
  BY DEF EffectInv
<1> QED
  BY <1>3, <1>4, <1>5, <1>6 DEF EffectInv

\* The surface slot of an owned handle.
LEMMA OwnedSlot ==
  ASSUME EffectInv, NEW c, NEW s \in SurfaceHandle, OwnedSurface(c, s)
  PROVE  /\ c \in Client /\ c \in live
         /\ s[1] \in SurfaceSlot /\ s[2] \in Generation /\ s # NoHandle
         /\ surfaces[s[1]].live /\ surfaces[s[1]].generation = s[2]
         /\ surfaces[s[1]].owner = c
         /\ surfaces[s[1]] \in SurfaceSlotType
         /\ Handle(s[1]) = s
  BY HandleParts DEF EffectInv, TypeOK, OwnedSurface, SurfaceOk, Handle

LEMMA MaybeReleaseKeeps ==
  ASSUME EffectInv, NEW S, NEW c \in Client, NEW s, MaybeRelease(S, c, s)
  PROVE  /\ events' \in [EventSlot -> EventSlotType]
         /\ queue' \in [Client -> Seq(EventSlot)]
         /\ QueuesHold(queue', events')
         /\ ReservedKept(events, events')
<1>0. /\ events \in [EventSlot -> EventSlotType]
      /\ queue \in [Client -> Seq(EventSlot)]
      /\ QueuesHold(queue, events)
  BY DEF EffectInv, TypeOK, QueuesHold
<1>1. CASE UNCHANGED <<events, queue>>
  <2>1. \A i \in EventSlot : events[i].state # "RESERVED"
                               => events'[i].state # "RESERVED"
    BY <1>1
  <2> QED
    BY <1>0, <1>1, <2>1 DEF ReservedKept
<1>2. ASSUME NEW i, i = Lowest(FreeEvents), FreeEvents # {},
             events' = [events EXCEPT
                          ![i] = LiveEvent(c, "BUFFER_RELEASE", NoToken)],
             queue' = [queue EXCEPT ![c] = Append(@, i)]
      PROVE  /\ events' \in [EventSlot -> EventSlotType]
             /\ queue' \in [Client -> Seq(EventSlot)]
             /\ QueuesHold(queue', events')
             /\ ReservedKept(events, events')
  <2>1. i \in EventSlot /\ events[i].state = "FREE"
    <3>1. FreeEvents \subseteq Nat
      BY EffectCapacityAssumption DEF FreeEvents, EventSlot
    <3>2. i \in FreeEvents
      BY <1>2, <3>1, LowestIn
    <3> QED
      BY <3>2 DEF FreeEvents
  <2>2. LiveEvent(c, "BUFFER_RELEASE", NoToken) \in EventSlotType
    BY DEF LiveEvent, EventSlotType
  <2>3. events' \in [EventSlot -> EventSlotType]
    BY <1>0, <1>2, <2>2
  <2>4. ReservedKept(events, events')
    BY <1>0, <1>2, <2>1, LiveEventState DEF ReservedKept
  <2>5. ASSUME NEW d \in Client
        PROVE  Enumerates(queue'[d], LiveEventsOf(events', d))
    <3>1. Enumerates(queue[d], LiveEventsOf(events, d))
      BY <1>0 DEF QueuesHold
    <3>2. CASE d = c
      <4>1. \A j : j \in LiveEventsOf(events', c)
                     <=> j \in LiveEventsOf(events, c) \cup {i}
        BY <1>0, <1>2, <2>1, LiveEventState DEF LiveEventsOf
      <4>2. LiveEventsOf(events', c) = LiveEventsOf(events, c) \cup {i}
        BY <4>1
      <4>3. i \notin LiveEventsOf(events, c)
        BY <2>1 DEF LiveEventsOf
      <4>4. queue'[c] = Append(queue[c], i)
        BY <1>0, <1>2
      <4> QED
        BY <3>1, <3>2, <4>2, <4>3, <4>4, AppendEnumerates
    <3>3. CASE d # c
      <4>1. \A j : j \in LiveEventsOf(events', d)
                     <=> j \in LiveEventsOf(events, d)
        BY <1>0, <1>2, <2>1, <3>3, LiveEventState DEF LiveEventsOf
      <4>2. LiveEventsOf(events', d) = LiveEventsOf(events, d)
        BY <4>1
      <4>3. queue'[d] = queue[d]
        BY <1>0, <1>2, <3>3
      <4> QED
        BY <3>1, <4>2, <4>3
    <3> QED
      BY <3>2, <3>3
  <2>6. queue' \in [Client -> Seq(EventSlot)]
    <3>1. Append(queue[c], i) \in Seq(EventSlot)
      BY <1>0, <2>1
    <3> QED
      BY <1>0, <1>2, <3>1
  <2> QED
    BY <2>3, <2>4, <2>5, <2>6 DEF QueuesHold
<1> QED
  BY <1>1, <1>2 DEF MaybeRelease

LEMMA TokenToFrameType ==
  ASSUME EffectInv, NEW c \in Client, NEW s \in SurfaceHandle,
         NEW t \in Token \cup {NoToken}, t # NoToken => FreeFrames # {}
  PROVE  TokenToFrame(c, s, t) \in [FrameSlot -> FrameSlotType]
<1>1. frames \in [FrameSlot -> FrameSlotType]
  BY DEF EffectInv, TypeOK
<1>2. CASE t # NoToken
  <2> DEFINE f == [state |-> "WAITING", owner |-> c, surface |-> s, token |-> t]
  <2>1. f \in FrameSlotType
    BY DEF FrameSlotType
  <2>2. TokenToFrame(c, s, t) = [frames EXCEPT ![Lowest(FreeFrames)] = f]
    BY <1>2 DEF TokenToFrame
  <2> HIDE DEF f
  <2> QED
    BY <1>1, <2>1, <2>2
<1> QED
  BY <1>1, <1>2 DEF TokenToFrame

\* What stays the same is kept.
LEMMA SameIsKept ==
  /\ \A E : ReservedKept(E, E)
  /\ \A B : BindingsKept(B, B)
  /\ \A S, B : SurfacesKept(S, S, B)
  BY DEF ReservedKept, BindingsKept, SurfacesKept

LEMMA SurfaceCreateKeeps ==
  ASSUME EffectInv, NEW c \in Client, SurfaceCreate(c)
  PROVE  EffectInv'
<1> DEFINE free == {i \in SurfaceSlot : /\ ~surfaces[i].live
                                        /\ surfaces[i].generation # 0}
           i == Lowest(free)
           new == [live |-> TRUE, owner |-> c,
                   generation |-> surfaces[i].generation, mapped |-> FALSE,
                   frame_token |-> NoToken]
<1>1. i \in SurfaceSlot /\ ~surfaces[i].live /\ surfaces[i].generation # 0
  <2>1. free # {} /\ free \subseteq Nat
    BY EffectCapacityAssumption DEF SurfaceCreate, SurfaceSlot
  <2>2. i \in free
    <3> HIDE DEF free
    <3> QED
      BY <2>1, LowestIn
  <2> QED
    BY <2>2
<1>2. /\ surfaces' = [surfaces EXCEPT ![i] = new]
      /\ UNCHANGED <<live, frames, events, queue, commit_sequence, in_flight,
                     bound, bindings, timeline, reservations>>
  BY DEF SurfaceCreate, effectVars
<1> HIDE DEF free, i
<1>3. surfaces \in [SurfaceSlot -> SurfaceSlotType]
  BY DEF EffectInv, TypeOK
<1>4. new \in SurfaceSlotType /\ new.generation \in Generation
  <2>1. surfaces[i].generation \in Generation
    BY <1>1, <1>3 DEF SurfaceSlotType
  <2> QED
    BY <2>1 DEF SurfaceSlotType
<1>5. TypeOK'
  <2>1. surfaces' \in [SurfaceSlot -> SurfaceSlotType]
    <3> HIDE DEF new
    <3> QED
      BY <1>2, <1>3, <1>4
  <2> QED
    BY <1>2, <2>1 DEF EffectInv, TypeOK, LiveEventsOf
<1>6. LiveNamed(surfaces')
  BY <1>2, <1>3, <1>4 DEF EffectInv, LiveNamed
<1>7. SurfacesKept(surfaces, surfaces', bindings)
  <2>1. \A j \in SurfaceSlot : bindings[j].active => surfaces[j].live
    BY DEF EffectInv, BindingsLinked, BindingLinked
  <2> QED
    BY <1>1, <1>2, <1>3, <2>1 DEF SurfacesKept
<1> QED
  BY <1>2, <1>5, <1>6, <1>7, QuietStep, SameIsKept

LEMMA SurfaceFrameKeeps ==
  ASSUME EffectInv, NEW c \in Client, NEW s \in SurfaceHandle,
         NEW t \in FrameToken, SurfaceFrame(c, s, t)
  PROVE  EffectInv'
<1>1. /\ surfaces' = [surfaces EXCEPT ![s[1]].frame_token = t]
      /\ UNCHANGED <<live, frames, events, queue, commit_sequence, in_flight,
                     bound, bindings, timeline, reservations>>
  BY DEF SurfaceFrame, effectVars
<1>2. surfaces \in [SurfaceSlot -> SurfaceSlotType]
  BY DEF EffectInv, TypeOK
<1>3. \A i \in SurfaceSlot :
        /\ surfaces'[i].live = surfaces[i].live
        /\ surfaces'[i].generation = surfaces[i].generation
        /\ surfaces'[i].owner = surfaces[i].owner
  BY <1>1, <1>2 DEF SurfaceSlotType
<1>4. surfaces' \in [SurfaceSlot -> SurfaceSlotType]
  BY <1>1, <1>2 DEF SurfaceSlotType, Token
<1>5. TypeOK'
  BY <1>1, <1>4 DEF EffectInv, TypeOK, LiveEventsOf
<1>6. LiveNamed(surfaces')
  BY <1>3 DEF EffectInv, LiveNamed
<1>7. SurfacesKept(surfaces, surfaces', bindings)
  BY <1>3 DEF SurfacesKept
<1> QED
  BY <1>1, <1>5, <1>6, <1>7, QuietStep, SameIsKept

\* surface_commit and surface_commit_ex, the bindings apart.
LEMMA CommitKeeps ==
  ASSUME EffectInv, NEW c \in Client, NEW s \in SurfaceHandle,
         OwnedSurface(c, s), NEW t \in Token \cup {NoToken}, Commit(c, s, t),
         UNCHANGED <<live, in_flight, bound, timeline, reservations>>,
         BindingsKept(bindings, bindings'),
         bindings' \in [SurfaceSlot -> BindingType]
  PROVE  EffectInv'
<1>1. PICK mapped \in BOOLEAN :
        surfaces' = [surfaces EXCEPT ![s[1]].frame_token = NoToken,
                                     ![s[1]].mapped = mapped]
  BY DEF Commit
<1>2. surfaces \in [SurfaceSlot -> SurfaceSlotType]
  BY DEF EffectInv, TypeOK
<1>3. \A i \in SurfaceSlot :
        /\ surfaces'[i].live = surfaces[i].live
        /\ surfaces'[i].generation = surfaces[i].generation
        /\ surfaces'[i].owner = surfaces[i].owner
  BY <1>1, <1>2 DEF SurfaceSlotType
<1>4. surfaces' \in [SurfaceSlot -> SurfaceSlotType]
  BY <1>1, <1>2 DEF SurfaceSlotType
<1>5. PICK S : MaybeRelease(S, c, s)
  BY DEF Commit
<1>6. /\ events' \in [EventSlot -> EventSlotType]
      /\ queue' \in [Client -> Seq(EventSlot)]
      /\ QueuesHold(queue', events')
      /\ ReservedKept(events, events')
  BY <1>5, MaybeReleaseKeeps
<1>7. frames' \in [FrameSlot -> FrameSlotType]
  BY TokenToFrameType DEF Commit
<1>8. commit_sequence' \in 0 .. MaxCommit
  BY EffectCapacityAssumption DEF Commit, EffectInv, TypeOK
<1>9. TypeOK'
  BY <1>4, <1>6, <1>7, <1>8 DEF EffectInv, TypeOK, QueuesHold
<1>10. LiveNamed(surfaces')
  BY <1>3 DEF EffectInv, LiveNamed
<1>11. SurfacesKept(surfaces, surfaces', bindings)
  BY <1>3 DEF SurfacesKept
<1> QED
  BY <1>6, <1>9, <1>10, <1>11, QuietStep

LEMMA SurfaceCommitKeeps ==
  ASSUME EffectInv, NEW c \in Client, NEW s \in SurfaceHandle,
         SurfaceCommit(c, s)
  PROVE  EffectInv'
<1>1. /\ OwnedSurface(c, s)
      /\ Commit(c, s, surfaces[s[1]].frame_token)
      /\ UNCHANGED <<live, in_flight, bound, bindings, timeline, reservations>>
  BY DEF SurfaceCommit, effectVars
<1>2. surfaces[s[1]].frame_token \in Token \cup {NoToken}
  BY <1>1, OwnedSlot DEF SurfaceSlotType
<1>3. bindings' \in [SurfaceSlot -> BindingType]
  BY <1>1 DEF EffectInv, TypeOK
<1>4. BindingsKept(bindings, bindings')
  BY <1>1, SameIsKept
<1> QED
  BY <1>1, <1>2, <1>3, <1>4, CommitKeeps

LEMMA SurfaceCommitExKeeps ==
  ASSUME EffectInv, NEW c \in Client, NEW s \in SurfaceHandle,
         NEW t \in FrameToken \cup {NoToken}, SurfaceCommitEx(c, s, t)
  PROVE  EffectInv'
<1>1. /\ OwnedSurface(c, s)
      /\ Commit(c, s, t)
      /\ UNCHANGED <<live, in_flight, bound, timeline, reservations>>
      /\ bindings' = [bindings EXCEPT
                        ![s[1]].effect = bindings[s[1]].pending,
                        ![s[1]].pending = {}, ![s[1]].dirty = FALSE]
  BY DEF SurfaceCommitEx
<1>2. bindings \in [SurfaceSlot -> BindingType] /\ s[1] \in SurfaceSlot
  BY <1>1, OwnedSlot DEF EffectInv, TypeOK
<1>3. /\ bindings' \in [SurfaceSlot -> BindingType]
      /\ BindingsKept(bindings, bindings')
  BY <1>1, <1>2 DEF BindingType, BindingsKept
<1>4. t \in Token \cup {NoToken}
  BY DEF Token
<1> QED
  BY <1>1, <1>3, <1>4, CommitKeeps

LEMMA EffectSetKeeps ==
  ASSUME EffectInv, NEW c \in Client, NEW s \in SurfaceHandle,
         NEW enabled \in SUBSET Optional, EffectSet(c, s, enabled)
  PROVE  EffectInv'
<1>1. /\ OwnedSurface(c, s)
      /\ UNCHANGED <<live, surfaces, frames, events, queue, commit_sequence,
                     in_flight, bound, timeline, reservations>>
      /\ bindings' = [bindings EXCEPT ![s[1]].pending = enabled,
                                      ![s[1]].dirty = TRUE]
  BY DEF EffectSet, coreVars
<1>2. bindings \in [SurfaceSlot -> BindingType] /\ s[1] \in SurfaceSlot
  BY <1>1, OwnedSlot DEF EffectInv, TypeOK
<1>3. /\ bindings' \in [SurfaceSlot -> BindingType]
      /\ BindingsKept(bindings, bindings')
  BY <1>1, <1>2 DEF BindingType, BindingsKept
<1>4. TypeOK'
  BY <1>1, <1>3 DEF EffectInv, TypeOK, LiveEventsOf
<1>5. LiveNamed(surfaces')
  BY <1>1 DEF EffectInv
<1> QED
  BY <1>1, <1>3, <1>4, <1>5, QuietStep, SameIsKept

LEMMA SurfaceGoneType ==
  ASSUME EffectInv, NEW c, NEW s \in SurfaceHandle, OwnedSurface(c, s)
  PROVE  /\ SurfaceGone(s) \in [SurfaceSlot -> SurfaceSlotType]
         /\ LiveNamed(SurfaceGone(s))
         /\ ~SurfaceGone(s)[s[1]].live
         /\ \A i \in SurfaceSlot \ {s[1]} : SurfaceGone(s)[i] = surfaces[i]
<1> DEFINE d == DeadSurface(NextGeneration(s[2]))
<1>1. surfaces \in [SurfaceSlot -> SurfaceSlotType] /\ s[1] \in SurfaceSlot
  BY OwnedSlot DEF EffectInv, TypeOK
<1>2. NextGeneration(s[2]) \in Generation \cup {0}
  BY OwnedSlot, NextGenerationType
<1>3. d \in SurfaceSlotType /\ ~d.live
  BY <1>2 DEF DeadSurface, SurfaceSlotType
<1>4. SurfaceGone(s) = [surfaces EXCEPT ![s[1]] = d]
  BY DEF SurfaceGone
<1> HIDE DEF d
<1> QED
  BY <1>1, <1>3, <1>4 DEF EffectInv, LiveNamed

LEMMA SurfaceDestroyKeeps ==
  ASSUME EffectInv, NEW c \in Client, NEW s \in SurfaceHandle,
         SurfaceDestroy(c, s)
  PROVE  EffectInv'
<1>1. /\ OwnedSurface(c, s)
      /\ ~EffectBound(s[1])
      /\ MaybeRelease(surfaces, c, s)
      /\ surfaces' = SurfaceGone(s)
      /\ UNCHANGED <<live, commit_sequence, in_flight, bound, bindings,
                     timeline, reservations>>
  BY DEF SurfaceDestroy, effectVars
<1>2. frames' \in [FrameSlot -> FrameSlotType]
  <2>1. surfaces[s[1]].frame_token \in Token \cup {NoToken}
    BY <1>1, OwnedSlot DEF SurfaceSlotType
  <2> QED
    BY <2>1, TokenToFrameType DEF SurfaceDestroy
<1>3. /\ events' \in [EventSlot -> EventSlotType]
      /\ queue' \in [Client -> Seq(EventSlot)]
      /\ QueuesHold(queue', events')
      /\ ReservedKept(events, events')
  BY <1>1, MaybeReleaseKeeps
<1>4. /\ surfaces' \in [SurfaceSlot -> SurfaceSlotType]
      /\ LiveNamed(surfaces')
      /\ \A i \in SurfaceSlot \ {s[1]} : surfaces'[i] = surfaces[i]
  BY <1>1, SurfaceGoneType
<1>5. ~bindings[s[1]].active
  <2>1. s[1] \in SurfaceSlot
    BY <1>1, OwnedSlot
  <2> QED
    BY <1>1, <2>1
       DEF EffectBound, EffectInv, BindingsLinked, BindingLinked
<1>6. SurfacesKept(surfaces, surfaces', bindings)
  BY <1>4, <1>5 DEF SurfacesKept
<1>7. TypeOK'
  BY <1>1, <1>2, <1>3, <1>4 DEF EffectInv, TypeOK, QueuesHold
<1> QED
  BY <1>1, <1>3, <1>4, <1>6, <1>7, QuietStep, SameIsKept

LEMMA BuildFrameKeeps ==
  ASSUME EffectInv, BuildFrame
  PROVE  EffectInv'
<1>1. /\ UNCHANGED <<live, surfaces, events, queue, commit_sequence, bound,
                     bindings, timeline, reservations>>
      /\ in_flight' = TRUE
  BY DEF BuildFrame, effectVars
<1>2. frames' \in [FrameSlot -> FrameSlotType]
  <2>1. \A i \in FrameSlot : /\ frames[i] \in FrameSlotType
                             /\ [frames[i] EXCEPT !.state = "ASSIGNED"]
                                  \in FrameSlotType
    BY DEF EffectInv, TypeOK, FrameSlotType
  <2> QED
    BY <2>1 DEF BuildFrame
<1>3. TypeOK'
  BY <1>1, <1>2 DEF EffectInv, TypeOK, LiveEventsOf
<1>4. LiveNamed(surfaces')
  BY <1>1 DEF EffectInv
<1> QED
  BY <1>1, <1>3, <1>4, QuietStep, SameIsKept

LEMMA EffectsBindKeeps ==
  ASSUME EffectInv, EffectsBind
  PROVE  EffectInv'
<1>1. /\ ~bound /\ bound' = TRUE
      /\ UNCHANGED <<live, surfaces, frames, events, queue, commit_sequence,
                     in_flight, timeline, reservations>>
  BY DEF EffectsBind, coreVars
<1>2. ASSUME NEW i \in SurfaceSlot
      PROVE  /\ bindings'[i] \in BindingType
             /\ BindingLinked(surfaces, bindings', TRUE, i)
             /\ bindings'[i].reserved_completion_events = 0
  <2>1. bindings'[i] = IF ~surfaces[i].live THEN Unbound
                       ELSE [Unbound EXCEPT !.active = TRUE,
                                            !.surface = Handle(i),
                                            !.owner = surfaces[i].owner]
    BY DEF EffectsBind
  <2>2. CASE ~surfaces[i].live
    BY <2>1, <2>2 DEF Unbound, BindingType, BindingLinked
  <2>3. CASE surfaces[i].live
    <3>1. Handle(i) \in SurfaceHandle /\ surfaces[i].owner \in Client
      BY <2>3 DEF EffectInv, LiveNamed, Handle, SurfaceHandle
    <3>2. bindings'[i] = [active |-> TRUE, surface |-> Handle(i),
                          owner |-> surfaces[i].owner, dirty |-> FALSE,
                          pending |-> {}, effect |-> {},
                          reserved_completion_events |-> 0]
      BY <2>1, <2>3 DEF Unbound
    <3>3. bindings'[i] \in BindingType
      BY <3>1, <3>2 DEF BindingType
    <3> QED
      BY <2>3, <3>2, <3>3 DEF BindingLinked, Handle
  <2> QED
    BY <2>2, <2>3
<1>3. RunningIn(timeline) = {}
  <2>1. \A i \in SurfaceSlot : ~bindings[i].active
    BY <1>1 DEF EffectInv, BindingsLinked, BindingLinked
  <2> QED
    BY <2>1, AnimationSurface DEF Running, RunningIn
<1>4. ReservedIn(reservations) = {}
  BY <1>3, OnePair DEF Running, RunningIn, Reserved, ReservedIn
<1>5. bindings' \in [SurfaceSlot -> BindingType]
  <2>1. bindings' = [i \in SurfaceSlot |-> bindings'[i]]
    BY DEF EffectsBind
  <2> QED
    BY <1>2, <2>1
<1>6. TypeOK'
  BY <1>1, <1>5 DEF EffectInv, TypeOK, LiveEventsOf
<1>7. LiveNamed(surfaces')
  BY <1>1 DEF EffectInv
<1>8. Links(surfaces', events', bindings', timeline', reservations')
  <2>1. Links(surfaces, events, bindings', timeline, reservations)
    BY <1>3, <1>4 DEF EffectInv, Links
  <2> QED
    BY <1>1, <2>1
<1>9. BindingsLinked(surfaces', bindings', bound')
  BY <1>1, <1>2 DEF BindingsLinked, BindingLinked
<1>10. CountsExact(bindings', timeline')
  <2>1. \A i : RunningOn(timeline, i) = {}
    BY <1>3 DEF RunningOn
  <2> QED
    BY <1>1, <1>2, <2>1, FS_EmptySet DEF CountsExact
<1>11. OnePerProperty(timeline')
  BY <1>1 DEF EffectInv
<1> QED
  BY <1>6, <1>7, <1>8, <1>9, <1>10, <1>11 DEF EffectInv

\* The event read was live, so no reservation loses its slot.
LEMMA NextEventKeeps ==
  ASSUME EffectInv, NEW c \in Client, NextEvent(c)
  PROVE  EffectInv'
<1> DEFINE i == Head(queue[c])
<1>1. /\ queue[c] # <<>>
      /\ events' = [events EXCEPT ![i] = FreeEvent]
      /\ queue' = [queue EXCEPT ![c] = Tail(@)]
      /\ UNCHANGED <<live, surfaces, frames, commit_sequence, in_flight, bound,
                     bindings, timeline, reservations>>
  BY DEF NextEvent, effectVars
<1>2. /\ events \in [EventSlot -> EventSlotType]
      /\ queue \in [Client -> Seq(EventSlot)]
      /\ \A d \in Client : Enumerates(queue[d], LiveEventsOf(events, d))
  BY DEF EffectInv, TypeOK
<1>3. /\ i \in LiveEventsOf(events, c)
      /\ Enumerates(Tail(queue[c]), LiveEventsOf(events, c) \ {i})
  BY <1>1, <1>2, TailEnumerates
<1> HIDE DEF i
<1>4. i \in EventSlot /\ events[i].state = "LIVE" /\ events[i].owner = c
  BY <1>3 DEF LiveEventsOf
<1>5. events' \in [EventSlot -> EventSlotType]
  <2>1. FreeEvent \in EventSlotType
    BY DEF FreeEvent, EventSlotType
  <2> QED
    BY <1>1, <1>2, <2>1
<1>6. ReservedKept(events, events')
  <2>1. FreeEvent.state = "FREE"
    BY DEF FreeEvent
  <2> QED
    BY <1>1, <1>2, <1>4, <2>1 DEF ReservedKept
<1>7. ASSUME NEW d \in Client
      PROVE  Enumerates(queue'[d], LiveEventsOf(events', d))
  <2>0. FreeEvent.state = "FREE"
    BY DEF FreeEvent
  <2>1. CASE d = c
    <3>1. \A j : j \in LiveEventsOf(events', c)
                   <=> j \in LiveEventsOf(events, c) \ {i}
      BY <1>1, <1>2, <1>4, <2>0 DEF LiveEventsOf
    <3>2. LiveEventsOf(events', c) = LiveEventsOf(events, c) \ {i}
      BY <3>1
    <3>3. queue'[c] = Tail(queue[c])
      BY <1>1, <1>2
    <3> QED
      BY <1>3, <2>1, <3>2, <3>3
  <2>2. CASE d # c
    <3>1. \A j : j \in LiveEventsOf(events', d)
                   <=> j \in LiveEventsOf(events, d)
      BY <1>1, <1>2, <1>4, <2>0, <2>2 DEF LiveEventsOf
    <3>2. LiveEventsOf(events', d) = LiveEventsOf(events, d)
      BY <3>1
    <3>3. queue'[d] = queue[d]
      BY <1>1, <1>2, <2>2
    <3> QED
      BY <1>2, <3>2, <3>3
  <2> QED
    BY <2>1, <2>2
<1>8. queue' \in [Client -> Seq(EventSlot)]
  <2>1. queue' = [d \in Client |-> queue'[d]]
    BY <1>1, <1>2
  <2> QED
    BY <1>7, <2>1, QueuesType DEF QueuesHold
<1>9. TypeOK'
  BY <1>1, <1>5, <1>7, <1>8 DEF EffectInv, TypeOK
<1>10. LiveNamed(surfaces')
  BY <1>1 DEF EffectInv
<1> QED
  BY <1>1, <1>6, <1>9, <1>10, QuietStep, SameIsKept

\* There are as many free event slots as frames are reported.
LEMMA PresentRoom ==
  ASSUME RoomForFrames
  PROVE  /\ Cardinality(Reported) \in Nat
         /\ Cardinality(Reported) <= Cardinality(FreeEvents)
         /\ Cardinality(FreeEvents) \in Nat
<1>1. /\ FrameCapacity \in Nat /\ EventCapacity \in Nat
      /\ FreeEvents \in SUBSET (1 .. EventCapacity)
  BY EffectCapacityAssumption DEF FreeEvents, EventSlot
<1>2. Reported \subseteq Assigned /\ Assigned \in SUBSET (1 .. FrameCapacity)
  BY DEF Reported, Assigned, FrameSlot
<1>3. IsFiniteSet(Assigned)
  <2>1. IsFiniteSet(1 .. FrameCapacity)
    BY <1>1, FS_Interval
  <2> QED
    BY <1>2, <2>1, FS_Subset
<1>4. /\ Cardinality(Reported) \in Nat
      /\ Cardinality(Reported) <= Cardinality(Assigned)
      /\ Cardinality(Assigned) \in Nat
  BY <1>2, <1>3, FS_Subset, FS_CardinalityType
<1>5. Cardinality(FreeEvents) \in Nat
  BY <1>1, RankIsBijection
<1>6. Cardinality(FreeEvents) >= Cardinality(Assigned)
  BY DEF RoomForFrames
<1> QED
  BY <1>4, <1>5, <1>6

\* The reported frames take free event slots, the first frame the first slot.
LEMMA PresentDoneKeeps ==
  ASSUME EffectInv, PresentDone
  PROVE  EffectInv'
<1> DEFINE done  == InSlotOrder(Reported)
           slots == InSlotOrder(FreeEvents)
           n     == Cardinality(Reported)
           P(c)  == {k \in 1 .. n : frames[done[k]].owner = c}
           own(c) == InSlotOrder(P(c))
           Fresh(k) == LiveEvent(frames[done[k]].owner, "FRAME_DONE",
                                 frames[done[k]].token)
<1>1. /\ events' = [i \in EventSlot |->
                      IF \E k \in 1 .. n : slots[k] = i
                      THEN Fresh(CHOOSE k \in 1 .. n : slots[k] = i)
                      ELSE events[i]]
      /\ queue' = [c \in Client |->
                     queue[c] \o [k \in DOMAIN own(c) |-> slots[own(c)[k]]]]
      /\ frames' = [i \in FrameSlot |-> IF i \in Assigned THEN FreeFrame
                                        ELSE frames[i]]
      /\ in_flight' = FALSE
      /\ UNCHANGED <<live, surfaces, commit_sequence, bound, bindings,
                     timeline, reservations>>
  BY DEF PresentDone, FrameOver, effectVars
<1>2. /\ events \in [EventSlot -> EventSlotType]
      /\ frames \in [FrameSlot -> FrameSlotType]
      /\ queue \in [Client -> Seq(EventSlot)]
      /\ \A d \in Client : Enumerates(queue[d], LiveEventsOf(events, d))
  BY DEF EffectInv, TypeOK
<1>3. /\ FrameCapacity \in Nat /\ EventCapacity \in Nat
      /\ Reported \in SUBSET (1 .. FrameCapacity)
      /\ FreeEvents \in SUBSET (1 .. EventCapacity)
  BY EffectCapacityAssumption
     DEF Reported, Assigned, FreeEvents, FrameSlot, EventSlot
<1>4. n \in Nat /\ n <= Cardinality(FreeEvents)
                /\ Cardinality(FreeEvents) \in Nat
  BY PresentRoom DEF PresentDone
<1>5. \A k \in 1 .. n : done[k] \in FrameSlot
  <2>1. \A k \in 1 .. n : done[k] \in Reported
    BY <1>3, InSlotOrderRank
  <2> QED
    BY <1>3, <2>1 DEF FrameSlot
<1>6. /\ \A k \in 1 .. n : slots[k] \in FreeEvents
      /\ \A j, k \in 1 .. n : slots[j] = slots[k] => j = k
  <2>1. /\ Enumerates(slots, FreeEvents)
        /\ DOMAIN slots = 1 .. Cardinality(FreeEvents)
    BY <1>3, InSlotOrderEnumerates
  <2>2. \A k \in 1 .. n : k \in 1 .. Cardinality(FreeEvents)
    <3> HIDE DEF n
    <3> QED
      BY <1>4
  <2> HIDE DEF slots, n
  <2> QED
    BY <2>1, <2>2, EnumerationIs DEF Enumerates
<1> HIDE DEF n, done, slots
<1>7. \A k \in 1 .. n : events'[slots[k]] = Fresh(k)
  <2> SUFFICES ASSUME NEW k \in 1 .. n
               PROVE  events'[slots[k]] = Fresh(k)
    OBVIOUS
  <2>1. slots[k] \in EventSlot
    BY <1>6 DEF FreeEvents
  <2>2. (CHOOSE j \in 1 .. n : slots[j] = slots[k]) = k
    BY <1>6
  <2> HIDE DEF Fresh
  <2> QED
    BY <1>1, <2>1, <2>2
<1>8. \A i \in EventSlot : (\A k \in 1 .. n : slots[k] # i)
                             => events'[i] = events[i]
  BY <1>1
<1>9. /\ \A k \in 1 .. n : Fresh(k) \in EventSlotType
      /\ \A k \in 1 .. n : Fresh(k).state = "LIVE"
      /\ \A k \in 1 .. n : Fresh(k).owner = frames[done[k]].owner
  <2>1. \A k \in 1 .. n : /\ frames[done[k]].owner \in Client \cup {NoClient}
                          /\ frames[done[k]].token \in Token \cup {NoToken}
    BY <1>2, <1>5 DEF FrameSlotType
  <2> QED
    BY <2>1, LiveEventState DEF LiveEvent, EventSlotType
<1> HIDE DEF Fresh
<1>10. events' \in [EventSlot -> EventSlotType]
  <2>1. \A i \in EventSlot : events'[i] \in EventSlotType
    BY <1>2, <1>7, <1>8, <1>9
  <2>2. events' = [i \in EventSlot |-> events'[i]]
    BY <1>1
  <2> QED
    BY <2>1, <2>2
<1>11. ReservedKept(events, events')
  <2> SUFFICES ASSUME NEW i \in EventSlot
               PROVE  IF events[i].state = "RESERVED"
                      THEN events'[i] = events[i]
                      ELSE events'[i].state # "RESERVED"
    BY DEF ReservedKept
  <2>1. CASE \A k \in 1 .. n : slots[k] # i
    BY <1>8, <2>1
  <2>2. CASE \E k \in 1 .. n : slots[k] = i
    <3>1. events[i].state = "FREE" /\ events'[i].state = "LIVE"
      BY <1>6, <1>7, <1>9, <2>2 DEF FreeEvents
    <3> QED
      BY <3>1
  <2> QED
    BY <2>1, <2>2
<1>12. ASSUME NEW c \in Client
       PROVE  Enumerates(queue'[c], LiveEventsOf(events', c))
  <2> DEFINE m == Cardinality(P(c))
             f == [k \in DOMAIN own(c) |-> slots[own(c)[k]]]
             A == {slots[k] : k \in P(c)}
  <2>1. /\ DOMAIN own(c) = 1 .. m /\ m \in Nat
        /\ \A k \in 1 .. m : own(c)[k] \in P(c)
        /\ \A j, k \in 1 .. m : own(c)[j] = own(c)[k] => j = k
        /\ \A p \in P(c) : \E k \in 1 .. m : own(c)[k] = p
    <3>1. P(c) \in SUBSET (1 .. n)
      OBVIOUS
    <3>2. Enumerates(own(c), P(c)) /\ DOMAIN own(c) = 1 .. m
      BY <1>4, <3>1, InSlotOrderEnumerates
    <3>3. m \in Nat
      BY <1>4, <3>1, RankIsBijection
    <3> HIDE DEF own, m, P
    <3> QED
      BY <3>2, <3>3, EnumerationIs DEF Enumerates
  <2>2. \A p \in P(c) : p \in 1 .. n /\ frames[done[p]].owner = c
    OBVIOUS
  <2>3. f = [k \in 1 .. m |-> slots[own(c)[k]]]
    BY <2>1
  <2>4. queue'[c] = queue[c] \o f
    BY <1>1
  <2> HIDE DEF own, m, f
  <2>5. /\ \A k \in 1 .. m : f[k] \in A
        /\ \A j, k \in 1 .. m : f[j] = f[k] => j = k
        /\ \A a \in A : \E k \in 1 .. m : f[k] = a
    <3>1. \A k \in 1 .. m : f[k] = slots[own(c)[k]]
      BY <2>3
    <3> QED
      BY <1>6, <2>1, <2>2, <3>1
  <2>6. Enumerates(f, A)
    <3>1. f = [k \in 1 .. m |-> f[k]]
      BY <2>3
    <3> HIDE DEF A
    <3> QED
      BY <2>1, <2>5, <3>1, FunctionEnumerates
  <2>7. ASSUME NEW i \in EventSlot
        PROVE  i \in LiveEventsOf(events', c)
                 <=> i \in LiveEventsOf(events, c) \cup A
    <3>1. CASE \A k \in 1 .. n : slots[k] # i
      <4>1. i \notin A /\ events'[i] = events[i]
        BY <1>8, <2>2, <3>1
      <4> QED
        BY <4>1 DEF LiveEventsOf
    <3>2. CASE \E k \in 1 .. n : slots[k] = i
      <4>1. PICK k \in 1 .. n : slots[k] = i
        BY <3>2
      <4>2. events[i].state = "FREE"
        BY <1>6, <4>1 DEF FreeEvents
      <4>3. events'[i].state = "LIVE" /\ events'[i].owner = frames[done[k]].owner
        BY <1>7, <1>9, <4>1
      <4>4. i \in A <=> frames[done[k]].owner = c
        BY <1>6, <4>1
      <4> HIDE DEF A
      <4> QED
        BY <4>2, <4>3, <4>4 DEF LiveEventsOf
    <3> QED
      BY <3>1, <3>2
  <2>8. A \subseteq EventSlot /\ LiveEventsOf(events, c) \cap A = {}
    <3>1. \A a \in A : a \in FreeEvents
      BY <1>6, <2>2
    <3> HIDE DEF A
    <3> QED
      BY <3>1 DEF FreeEvents, LiveEventsOf
  <2> HIDE DEF A
  <2>9. LiveEventsOf(events', c) = LiveEventsOf(events, c) \cup A
    <3>1. \A i : i \in LiveEventsOf(events', c)
                   <=> i \in LiveEventsOf(events, c) \cup A
      BY <2>7, <2>8 DEF LiveEventsOf
    <3> QED
      BY <3>1
  <2>10. Enumerates(queue[c], LiveEventsOf(events, c))
    BY <1>2
  <2> QED
    BY <2>4, <2>6, <2>8, <2>9, <2>10, ConcatEnumerates
<1>13. queue' \in [Client -> Seq(EventSlot)]
  <2>1. queue' = [c \in Client |-> queue'[c]]
    BY <1>1
  <2> QED
    BY <1>12, <2>1, QueuesType DEF QueuesHold
<1>14. frames' \in [FrameSlot -> FrameSlotType]
  <2>1. FreeFrame \in FrameSlotType
    BY DEF FreeFrame, FrameSlotType
  <2> QED
    BY <1>1, <1>2, <2>1
<1>15. TypeOK'
  BY <1>1, <1>10, <1>12, <1>13, <1>14 DEF EffectInv, TypeOK
<1>16. LiveNamed(surfaces')
  BY <1>1 DEF EffectInv
<1> QED
  BY <1>1, <1>11, <1>15, <1>16, QuietStep, SameIsKept

-----------------------------------------------------------------------------
(* Calls that end animations.                                              *)

\* What the invariant says of reservations and their event slots.
LEMMA ReservationsLinked ==
  ASSUME EffectInv
  PROVE  /\ SlotsLinked(events, reservations)
         /\ \A r \in ReservedIn(reservations) :
              /\ events[reservations[r].event].state = "RESERVED"
              /\ reservations[r].owner \in Client
              /\ reservations[r].token \in EffectToken
  BY ReservationGraphOf DEF SlotsLinked, Reserved, ReservedIn

\* The tables of events and reservations keep their types.
LEMMA CompletedType ==
  ASSUME NEW E \in [EventSlot -> EventSlotType],
         NEW R \in [ReservationSlot -> ReservationType],
         NEW D, D \subseteq ReservedIn(R), NEW rs, Enumerates(rs, D),
         SlotsLinked(E, R)
  PROVE  /\ EventsCompleted(E, R, rs) \in [EventSlot -> EventSlotType]
         /\ ReservationsCompleted(R, rs) \in [ReservationSlot -> ReservationType]
<1> DEFINE E2 == EventsCompleted(E, R, rs)
           R2 == ReservationsCompleted(R, rs)
<1>1. /\ E2 = [i \in EventSlot |-> E2[i]]
      /\ R2 = [r \in ReservationSlot |-> R2[r]]
  BY DEF EventsCompleted, ReservationsCompleted
<1>2. Completed(E, E2, R, R2, D)
  BY CompletedAt
<1> HIDE DEF E2, R2
<1>3. FreeReservation \in ReservationType
  BY DEF FreeReservation, ReservationType
<1>4. \A r \in ReservationSlot : R2[r] \in ReservationType
  BY <1>2, <1>3 DEF Completed
<1>5. ASSUME NEW i \in EventSlot
      PROVE  E2[i] \in EventSlotType
  <2>1. CASE \A r \in D : R[r].event # i
    BY <1>2, <2>1 DEF Completed
  <2>2. ASSUME NEW r \in D, R[r].event = i
        PROVE  E2[i] \in EventSlotType
    <3>1. r \in ReservationSlot
      BY DEF ReservedIn
    <3>2. R[r].owner \in Client \cup {NoClient} /\ R[r].token \in Token \cup {NoToken}
      BY <3>1 DEF ReservationType
    <3>3. LiveEvent(R[r].owner, "ANIMATION_DONE", R[r].token) \in EventSlotType
      BY <3>2 DEF LiveEvent, EventSlotType
    <3> QED
      BY <1>2, <2>2, <3>3 DEF Completed
  <2> QED
    BY <2>1, <2>2
<1> QED
  BY <1>1, <1>4, <1>5 DEF E2, R2

LEMMA StoppedIs ==
  ASSUME EffectInv, NEW K \in SUBSET Running
  PROVE  /\ Stopped(timeline, K) \in [TimelineSlot -> AnimationType]
         /\ \A k \in TimelineSlot :
              IF k \in K THEN ~Stopped(timeline, K)[k].active
              ELSE Stopped(timeline, K)[k] = timeline[k]
         /\ RunningIn(Stopped(timeline, K)) = Running \ K
         /\ \A k \in Running \ K : Stopped(timeline, K)[k] = timeline[k]
         /\ OnePerProperty(Stopped(timeline, K))
<1>1. timeline \in [TimelineSlot -> AnimationType]
  BY DEF EffectInv, TypeOK
<1>2. NoAnimation \in AnimationType /\ ~NoAnimation.active
  BY EffectCapacityAssumption DEF NoAnimation, AnimationType
<1>3. \A k \in TimelineSlot :
        Stopped(timeline, K)[k] = IF k \in K THEN NoAnimation ELSE timeline[k]
  BY DEF Stopped
<1>4. Stopped(timeline, K) \in [TimelineSlot -> AnimationType]
  BY <1>1, <1>2 DEF Stopped
<1>5. /\ RunningIn(Stopped(timeline, K)) = Running \ K
      /\ \A k \in Running \ K : Stopped(timeline, K)[k] = timeline[k]
  BY <1>2, <1>3 DEF RunningIn, Running
<1>6. OnePerProperty(Stopped(timeline, K))
  BY <1>5 DEF EffectInv, OnePerProperty, Running, RunningIn
<1> QED
  BY <1>2, <1>3, <1>4, <1>5, <1>6

\* The tables after the animations K have ended.
LEMMA EndedTables ==
  ASSUME EffectInv, NEW K \in SUBSET Running, NEW rs, NEW E2, NEW R2, NEW Q2,
         NEW T2,
         rs = ReservationsOf(K),
         E2 = EventsCompleted(events, reservations, rs),
         R2 = ReservationsCompleted(reservations, rs),
         Q2 = QueueCompleted(reservations, rs),
         T2 = Stopped(timeline, K)
  PROVE  /\ E2 \in [EventSlot -> EventSlotType]
         /\ R2 \in [ReservationSlot -> ReservationType]
         /\ T2 \in [TimelineSlot -> AnimationType]
         /\ Q2 \in [Client -> Seq(EventSlot)]
         /\ QueuesHold(Q2, E2)
         /\ Links(surfaces, E2, bindings, T2, R2)
         /\ Completed(events, E2, reservations, R2, EndedBy(K))
<1> DEFINE D == EndedBy(K)
<1>1. /\ events \in [EventSlot -> EventSlotType]
      /\ reservations \in [ReservationSlot -> ReservationType]
      /\ QueuesHold(queue, events)
      /\ Links(surfaces, events, bindings, timeline, reservations)
  BY DEF EffectInv, TypeOK, QueuesHold
<1>2. Enumerates(rs, D) /\ D \subseteq ReservedIn(reservations)
  BY ReservationsOfEnumerates DEF EndedBy, Reserved, ReservedIn
<1>3. SlotsLinked(events, reservations)
  BY ReservationsLinked
<1>4. Completed(events, E2, reservations, R2, D)
  BY <1>2, <1>3, CompletedAt
<1>5. /\ E2 \in [EventSlot -> EventSlotType]
      /\ R2 \in [ReservationSlot -> ReservationType]
  BY <1>1, <1>2, <1>3, CompletedType
<1>6. QueuesHold(Q2, E2)
  BY <1>1, <1>2, <1>3, <1>4, ReservationsLinked, QueuesCompleted
<1>7. Q2 \in [Client -> Seq(EventSlot)]
  <2>1. Q2 = [c \in Client |-> Q2[c]]
    BY DEF QueueCompleted
  <2> QED
    BY <1>6, <2>1, QueuesType
<1>8. Links(surfaces, E2, bindings, T2, R2)
  <2>1. K \subseteq RunningIn(timeline)
    BY DEF Running, RunningIn
  <2>2. \A k \in RunningIn(timeline), r \in ReservedIn(reservations) :
          Pair(timeline, k, reservations, r) => (k \in K <=> r \in D)
    BY EndedInPairs DEF Running, RunningIn, Reserved, ReservedIn
  <2>3. \A k \in TimelineSlot : IF k \in K THEN ~T2[k].active
                                ELSE T2[k] = timeline[k]
    BY StoppedIs
  <2> HIDE DEF D
  <2> QED
    BY <1>1, <1>2, <2>1, <2>2, <2>3, LinksCompleted
<1>9. T2 \in [TimelineSlot -> AnimationType]
  BY StoppedIs
<1> QED
  BY <1>4, <1>5, <1>6, <1>7, <1>8, <1>9

\* The animations left on a surface.
LEMMA RunningAfter ==
  ASSUME EffectInv, NEW K \in SUBSET Running, NEW i
  PROVE  /\ RunningOn(Stopped(timeline, K), i) = RunningOn(timeline, i) \ K
         /\ Cardinality(RunningOn(Stopped(timeline, K), i)) =
              Cardinality(RunningOn(timeline, i))
                - Cardinality({k \in K : timeline[k].surface[1] = i})
         /\ Cardinality(RunningOn(Stopped(timeline, K), i)) \in Nat
<1> DEFINE A == RunningOn(timeline, i)
           C == {k \in K : timeline[k].surface[1] = i}
<1>1. RunningOn(Stopped(timeline, K), i) = A \ K
  <2>1. \A k : k \in RunningOn(Stopped(timeline, K), i) <=> k \in A \ K
    BY StoppedIs DEF RunningOn, RunningIn, Running
  <2> QED
    BY <2>1
<1>2. A \ K = A \ C /\ A \cap C = C
  BY DEF RunningOn, RunningIn, Running
<1>3. A \in SUBSET TimelineSlot
  BY DEF RunningOn, RunningIn
<1>4. IsFiniteSet(A) /\ A \ C \in SUBSET TimelineSlot
  BY <1>3, SlotsFinite
<1> HIDE DEF A, C
<1>5. Cardinality(A \ C) = Cardinality(A) - Cardinality(A \cap C)
  BY <1>4, FS_Difference
<1>6. Cardinality(A \ C) \in Nat
  BY <1>4, SlotsFinite
<1> QED
  BY <1>1, <1>2, <1>5, <1>6 DEF A, C

LEMMA EndKeeps ==
  ASSUME EffectInv, NEW K \in SUBSET Running, End(K), in_flight' \in BOOLEAN,
         UNCHANGED <<live, surfaces, frames, commit_sequence, bound>>
  PROVE  EffectInv'
<1>1. /\ events' = EventsCompleted(events, reservations, ReservationsOf(K))
      /\ reservations' = ReservationsCompleted(reservations, ReservationsOf(K))
      /\ queue' = QueueCompleted(reservations, ReservationsOf(K))
      /\ timeline' = Stopped(timeline, K)
      /\ bindings' = CountsAfter(K)
  BY DEF End
<1>2. /\ events' \in [EventSlot -> EventSlotType]
      /\ reservations' \in [ReservationSlot -> ReservationType]
      /\ timeline' \in [TimelineSlot -> AnimationType]
      /\ queue' \in [Client -> Seq(EventSlot)]
      /\ QueuesHold(queue', events')
      /\ Links(surfaces, events', bindings, timeline', reservations')
  BY <1>1, EndedTables
<1>3. bindings \in [SurfaceSlot -> BindingType]
  BY DEF EffectInv, TypeOK
<1>4. CountsExact(bindings', timeline')
  <2> SUFFICES ASSUME NEW i \in SurfaceSlot
               PROVE  bindings'[i].reserved_completion_events
                        = Cardinality(RunningOn(timeline', i))
    BY DEF CountsExact
  <2>1. bindings[i].reserved_completion_events
          = Cardinality(RunningOn(timeline, i))
    BY DEF EffectInv, CountsExact
  <2>2. bindings'[i].reserved_completion_events =
          bindings[i].reserved_completion_events
            - Cardinality({k \in K : timeline[k].surface[1] = i})
    BY <1>1, <1>3 DEF CountsAfter, BindingType
  <2> QED
    BY <1>1, <2>1, <2>2, RunningAfter
<1>5. \A i \in SurfaceSlot : /\ bindings'[i].active = bindings[i].active
                             /\ bindings'[i].surface = bindings[i].surface
                             /\ bindings'[i].owner = bindings[i].owner
  BY <1>1, <1>3 DEF CountsAfter, BindingType
<1>6. bindings' \in [SurfaceSlot -> BindingType]
  <2>1. ASSUME NEW i \in SurfaceSlot
        PROVE  bindings'[i] \in BindingType
    <3>1. bindings'[i] = [bindings[i] EXCEPT !.reserved_completion_events =
                            @ - Cardinality({k \in K :
                                               timeline[k].surface[1] = i})]
      BY <1>1 DEF CountsAfter
    <3>2. bindings'[i].reserved_completion_events \in Nat
      <4>1. bindings'[i].reserved_completion_events
              = Cardinality(RunningOn(timeline', i))
        BY <1>4 DEF CountsExact
      <4>2. Cardinality(RunningOn(Stopped(timeline, K), i)) \in Nat
        BY RunningAfter
      <4> QED
        BY <1>1, <4>1, <4>2
    <3> QED
      BY <1>3, <3>1, <3>2 DEF BindingType
  <2>2. bindings' = [i \in SurfaceSlot |-> bindings'[i]]
    BY <1>1 DEF CountsAfter
  <2> QED
    BY <2>1, <2>2
<1>7. TypeOK'
  BY <1>2, <1>6 DEF EffectInv, TypeOK, QueuesHold
<1>8. LiveNamed(surfaces')
  BY DEF EffectInv
<1>9. Links(surfaces', events', bindings', timeline', reservations')
  <2>1. \A k \in RunningIn(timeline') :
          /\ bindings'[timeline'[k].surface[1]].active
    BY <1>1, <1>5, StoppedIs, AnimationSurface
  <2> DEFINE S == surfaces
             E == events'
             B == bindings
             B2 == bindings'
             T == timeline'
             R == reservations'
  <2>2. Links(S, E, B, T, R) /\ \A k \in RunningIn(T) : B2[T[k].surface[1]].active
    BY <1>2, <2>1
  <2> HIDE DEF S, E, B, B2, T, R
  <2>3. Links(S, E, B2, T, R)
    BY <2>2, LinksOfSurfaces
  <2> QED
    BY <2>3 DEF S, E, B2, T, R
<1>10. BindingsLinked(surfaces', bindings', bound')
  BY <1>5 DEF EffectInv, BindingsLinked, BindingLinked
<1>11. OnePerProperty(timeline')
  BY <1>1, StoppedIs
<1> QED
  BY <1>4, <1>7, <1>8, <1>9, <1>10, <1>11 DEF EffectInv

LEMMA AnimationCancelKeeps ==
  ASSUME EffectInv, NEW c \in Client, NEW s \in SurfaceHandle,
         NEW t \in EffectToken, AnimationCancel(c, s, t)
  PROVE  EffectInv'
<1>1. PICK k \in AnimationsOn(s) : End({k})
  BY DEF AnimationCancel
<1>2. {k} \in SUBSET Running
  BY DEF AnimationsOn
<1>3. /\ in_flight' \in BOOLEAN
      /\ UNCHANGED <<live, surfaces, frames, commit_sequence, bound>>
  BY DEF AnimationCancel, EffectInv, TypeOK
<1> QED
  BY <1>1, <1>2, <1>3, EndKeeps

LEMMA BuildFrameExKeeps ==
  ASSUME EffectInv, NEW K \in SUBSET Running, BuildFrameEx(K)
  PROVE  EffectInv'
  BY EndKeeps DEF BuildFrameEx

LEMMA SurfaceDestroyExKeeps ==
  ASSUME EffectInv, NEW c \in Client, NEW s \in SurfaceHandle,
         SurfaceDestroyEx(c, s)
  PROVE  EffectInv'
<1> DEFINE K == AnimationsOn(s)
<1>1. /\ OwnedSurface(c, s)
      /\ events' = EventsCompleted(events, reservations, ReservationsOf(K))
      /\ reservations' = ReservationsCompleted(reservations, ReservationsOf(K))
      /\ queue' = QueueCompleted(reservations, ReservationsOf(K))
      /\ timeline' = Stopped(timeline, K)
      /\ bindings' = [bindings EXCEPT ![s[1]] = Unbound]
      /\ surfaces' = SurfaceGone(s)
      /\ UNCHANGED <<live, commit_sequence, in_flight, bound>>
  BY DEF SurfaceDestroyEx
<1>2. K \in SUBSET Running
  BY DEF AnimationsOn
<1> HIDE DEF K
<1>3. /\ events' \in [EventSlot -> EventSlotType]
      /\ reservations' \in [ReservationSlot -> ReservationType]
      /\ timeline' \in [TimelineSlot -> AnimationType]
      /\ queue' \in [Client -> Seq(EventSlot)]
      /\ QueuesHold(queue', events')
      /\ Links(surfaces, events', bindings, timeline', reservations')
  BY <1>1, <1>2, EndedTables
<1>4. /\ surfaces' \in [SurfaceSlot -> SurfaceSlotType]
      /\ LiveNamed(surfaces')
      /\ ~surfaces'[s[1]].live
      /\ \A i \in SurfaceSlot \ {s[1]} : surfaces'[i] = surfaces[i]
  BY <1>1, SurfaceGoneType
<1>5. frames' \in [FrameSlot -> FrameSlotType]
  <2>1. surfaces[s[1]].frame_token \in Token \cup {NoToken}
    BY <1>1, OwnedSlot DEF SurfaceSlotType
  <2> QED
    BY <2>1, TokenToFrameType DEF SurfaceDestroyEx
<1>6. bindings \in [SurfaceSlot -> BindingType] /\ s[1] \in SurfaceSlot
  BY <1>1, OwnedSlot DEF EffectInv, TypeOK
<1>7. /\ bindings'[s[1]] = Unbound
      /\ \A i \in SurfaceSlot \ {s[1]} : bindings'[i] = bindings[i]
  BY <1>1, <1>6
<1>8. bindings' \in [SurfaceSlot -> BindingType]
  <2>1. Unbound \in BindingType
    BY DEF Unbound, BindingType
  <2> QED
    BY <1>1, <1>6, <2>1
<1>9. TypeOK'
  BY <1>1, <1>3, <1>4, <1>5, <1>8 DEF EffectInv, TypeOK, QueuesHold
<1>10. \A k \in Running : timeline[k].surface[1] = s[1] <=> k \in K
  <2> SUFFICES ASSUME NEW k \in Running
               PROVE  timeline[k].surface[1] = s[1] <=> k \in K
    OBVIOUS
  <2>1. timeline[k].surface \in SurfaceHandle /\ SurfaceOk(timeline[k].surface)
    BY AnimationSurface
  <2>2. timeline[k].surface[1] = s[1] => timeline[k].surface[2] = s[2]
    BY <1>1, <2>1, OwnedSlot DEF SurfaceOk
  <2>3. timeline[k].surface[1] = s[1] => timeline[k].surface = s
    BY <2>1, <2>2, HandleParts
  <2> QED
    BY <2>3 DEF K, AnimationsOn
<1>11. \A k \in RunningIn(timeline') :
         /\ timeline'[k] = timeline[k]
         /\ timeline[k].surface[1] \in SurfaceSlot \ {s[1]}
         /\ bindings[timeline[k].surface[1]].active
  BY <1>1, <1>2, <1>10, StoppedIs, AnimationSurface
<1>12. Links(surfaces', events', bindings', timeline', reservations')
  <2> DEFINE S == surfaces
             S2 == surfaces'
             E == events'
             B == bindings
             B2 == bindings'
             T == timeline'
             R == reservations'
  <2>1. \A k \in RunningIn(T) :
          /\ S2[T[k].surface[1]].live = S[T[k].surface[1]].live
          /\ S2[T[k].surface[1]].generation = S[T[k].surface[1]].generation
          /\ S2[T[k].surface[1]].owner = S[T[k].surface[1]].owner
          /\ B2[T[k].surface[1]].active
    BY <1>4, <1>7, <1>11
  <2>2. Links(S, E, B, T, R)
    BY <1>3
  <2> HIDE DEF S, S2, E, B, B2, T, R
  <2>3. Links(S2, E, B2, T, R)
    BY <2>1, <2>2, LinksOfSurfaces
  <2> QED
    BY <2>3 DEF S, S2, E, B, B2, T, R
<1>13. BindingsLinked(surfaces', bindings', bound')
  <2> SUFFICES ASSUME NEW i \in SurfaceSlot
               PROVE  BindingLinked(surfaces', bindings', bound', i)
    BY DEF BindingsLinked
  <2>1. CASE i = s[1]
    BY <1>7, <2>1 DEF BindingLinked, Unbound
  <2>2. CASE i # s[1]
    BY <1>1, <1>4, <1>7, <2>2 DEF EffectInv, BindingsLinked, BindingLinked
  <2> QED
    BY <2>1, <2>2
<1>14. CountsExact(bindings', timeline')
  <2> SUFFICES ASSUME NEW i \in SurfaceSlot
               PROVE  bindings'[i].reserved_completion_events
                        = Cardinality(RunningOn(timeline', i))
    BY DEF CountsExact
  <2>1. CASE i = s[1]
    <3>1. RunningOn(timeline', i) = {}
      BY <1>11, <2>1 DEF RunningOn
    <3> QED
      BY <1>7, <2>1, <3>1, FS_EmptySet DEF Unbound
  <2>2. CASE i # s[1]
    <3>1. RunningOn(timeline', i) = RunningOn(timeline, i) \ K
      BY <1>1, <1>2, RunningAfter
    <3>2. RunningOn(timeline, i) \cap K = {}
      BY <1>2, <1>10, <2>2 DEF RunningOn
    <3>3. RunningOn(timeline', i) = RunningOn(timeline, i)
      BY <3>1, <3>2
    <3> QED
      BY <1>7, <2>2, <3>3 DEF EffectInv, CountsExact
  <2> QED
    BY <2>1, <2>2
<1>15. OnePerProperty(timeline')
  BY <1>1, <1>2, StoppedIs
<1> QED
  BY <1>4, <1>9, <1>12, <1>13, <1>14, <1>15 DEF EffectInv

-----------------------------------------------------------------------------
(* A new animation.                                                        *)

\* Free reservation slots do not matter.
LEMMA LinksOfReservations ==
  ASSUME NEW S, NEW E, NEW B, NEW T, NEW R, NEW R2,
         Links(S, E, B, T, R),
         ReservedIn(R2) = ReservedIn(R),
         \A r \in ReservedIn(R) : R2[r] = R[r]
  PROVE  Links(S, E, B, T, R2)
  BY DEF Links, ReservationLinked, Paired, Pair, EventsLinked

\* The slots a new animation gets, and the state before it ends another one.
SlotFor(K) == Lowest(IF K # {} THEN K ELSE TimelineSlot \ Running)

LEMMA StartSlots ==
  ASSUME EffectInv, NEW c \in Client, NEW s \in SurfaceHandle,
         NEW t \in EffectToken, NEW p \in Property,
         OwnedSurface(c, s), EffectBound(s[1]), CanReserve(c, t),
         CanAnimate(s, t, p),
         NEW e, e = Lowest(FreeEvents),
         NEW r, r = Lowest(ReservationSlot \ Reserved),
         NEW slot, slot = SlotFor(ReplacedBy(s, p))
  PROVE  /\ e \in EventSlot /\ events[e].state = "FREE"
         /\ r \in ReservationSlot \ Reserved
         /\ slot \in TimelineSlot
         /\ IF ReplacedBy(s, p) # {} THEN ReplacedBy(s, p) = {slot}
            ELSE slot \notin Running
         /\ bindings[s[1]].active
<1>0. /\ TimelineCapacity \in Nat /\ EventCapacity \in Nat
      /\ FreeEvents \subseteq Nat /\ ReservationSlot \subseteq Nat
      /\ TimelineSlot \subseteq Nat
  BY EffectCapacityAssumption
     DEF FreeEvents, EventSlot, ReservationSlot, TimelineSlot
<1>1. e \in EventSlot /\ events[e].state = "FREE"
  <2>1. FreeEvents # {}
    BY DEF CanReserve
  <2>2. e \in FreeEvents
    BY <1>0, <2>1, LowestIn
  <2> QED
    BY <2>2 DEF FreeEvents
<1>2. r \in ReservationSlot \ Reserved
  <2>1. ReservationSlot \ Reserved # {}
    BY DEF CanReserve, Reserved
  <2>2. ReservationSlot \ Reserved \subseteq Nat
    BY <1>0
  <2> QED
    BY <2>1, <2>2, LowestIn
<1>3. CASE ReplacedBy(s, p) # {}
  <2>1. ReplacedBy(s, p) \subseteq TimelineSlot
    BY DEF ReplacedBy, AnimationsOn, Running
  <2>2. slot \in ReplacedBy(s, p)
    BY <1>0, <1>3, <2>1, LowestIn DEF SlotFor
  <2>3. \A k \in ReplacedBy(s, p) : k = slot
    BY <2>2 DEF EffectInv, OnePerProperty, ReplacedBy, AnimationsOn, Running,
                RunningIn
  <2>4. ReplacedBy(s, p) = {slot}
    BY <2>2, <2>3
  <2>5. slot \in TimelineSlot
    BY <2>1, <2>2
  <2> QED
    BY <1>1, <1>2, <1>3, <2>4, <2>5 DEF EffectBound
<1>4. CASE ReplacedBy(s, p) = {}
  <2>1. Cardinality(Running) < TimelineCapacity
    BY <1>4 DEF CanAnimate
  <2>2. Cardinality(TimelineSlot) = TimelineCapacity
    BY <1>0, FS_Interval DEF TimelineSlot
  <2>3. Running # TimelineSlot /\ Running \subseteq TimelineSlot
    <3>1. Running \subseteq TimelineSlot
      BY DEF Running
    <3>2. Cardinality(Running) # Cardinality(TimelineSlot)
      <4> HIDE DEF TimelineSlot
      <4>1. Cardinality(Running) \in Nat
        BY <3>1, SlotsFinite
      <4> QED
        BY <1>0, <2>1, <2>2, <4>1
    <3> QED
      BY <3>1, <3>2
  <2>4. TimelineSlot \ Running # {} /\ TimelineSlot \ Running \subseteq Nat
    BY <1>0, <2>3
  <2>5. slot \in TimelineSlot \ Running
    BY <1>4, <2>4, LowestIn DEF SlotFor
  <2> QED
    BY <1>1, <1>2, <1>4, <2>5 DEF EffectBound
<1> QED
  BY <1>3, <1>4

LEMMA ConcatLength ==
  ASSUME NEW A, NEW B, NEW q, NEW s, Enumerates(q, A), Enumerates(s, B)
  PROVE  Len(q \o s) = Len(q) + Len(s)
<1>1. /\ q \in [1 .. Len(q) -> A \cup B] /\ Len(q) \in Nat
      /\ s \in [1 .. Len(s) -> A \cup B] /\ Len(s) \in Nat
  BY EnumerationIs
<1>2. q \in Seq(A \cup B) /\ s \in Seq(A \cup B)
  BY <1>1, SeqDef
<1> QED
  BY <1>2, ConcatProperties

\* moo_i1_reserve2: the new reservation r and its event slot e.
Started(E, R, e, r) ==
  /\ R \in [ReservationSlot -> ReservationType]
  /\ E \in [EventSlot -> EventSlotType]
  /\ R[r].state = "RESERVED" /\ R[r].event = e
  /\ \A q \in ReservationSlot \ {r} : R[q] = reservations[q]
  /\ E[e].state = "RESERVED" /\ E[e].reserved_slot = r
  /\ \A i \in EventSlot \ {e} : E[i] = events[i]

\* The reservations that a start uses up.
UsedUp(K, r, reduced) == EndedBy(K) \cup (IF reduced THEN {r} ELSE {})

\* The event slot and the reservation slot a new animation gets are linked.
LEMMA StartLinks ==
  ASSUME EffectInv,
         NEW e \in EventSlot, events[e].state = "FREE",
         NEW r \in ReservationSlot \ Reserved,
         NEW E, NEW R, Started(E, R, e, r)
  PROVE  /\ ReservedIn(R) = Reserved \cup {r}
         /\ SlotsLinked(E, R)
         /\ \A q \in ReservedIn(R) : E[R[q].event].state = "RESERVED"
         /\ QueuesHold(queue, E)
<1>1. ReservedIn(R) = Reserved \cup {r}
  BY DEF Started, ReservedIn, Reserved
<1>2. \A q \in Reserved : /\ R[q].event \in EventSlot
                          /\ E[R[q].event].reserved_slot = q
                          /\ E[R[q].event].state = "RESERVED"
  <2> SUFFICES ASSUME NEW q \in Reserved
               PROVE  /\ R[q].event \in EventSlot
                      /\ E[R[q].event].reserved_slot = q
                      /\ E[R[q].event].state = "RESERVED"
    OBVIOUS
  <2>1. R[q] = reservations[q]
    BY DEF Started, Reserved
  <2>2. /\ reservations[q].event \in EventSlot \ {e}
        /\ events[reservations[q].event].state = "RESERVED"
        /\ events[reservations[q].event].reserved_slot = q
    BY ReservationGraphOf
  <2> QED
    BY <2>1, <2>2 DEF Started
<1>3. SlotsLinked(E, R)
  BY <1>1, <1>2 DEF Started, SlotsLinked
<1>4. \A q \in ReservedIn(R) : E[R[q].event].state = "RESERVED"
  BY <1>1, <1>2 DEF Started
<1>5. QueuesHold(queue, E)
  <2> SUFFICES ASSUME NEW d \in Client
               PROVE  Enumerates(queue[d], LiveEventsOf(E, d))
    BY DEF QueuesHold
  <2>1. \A i : i \in LiveEventsOf(E, d) <=> i \in LiveEventsOf(events, d)
    BY DEF Started, LiveEventsOf
  <2>2. LiveEventsOf(E, d) = LiveEventsOf(events, d)
    BY <2>1
  <2> QED
    BY <2>2 DEF EffectInv, TypeOK
<1> QED
  BY <1>1, <1>3, <1>4, <1>5

\* The new reservation and the ones that end with it, before they end.
LEMMA StartDone ==
  ASSUME EffectInv, NEW K \in SUBSET Running, NEW reduced \in BOOLEAN,
         NEW r \in ReservationSlot \ Reserved
  PROVE  /\ Enumerates(StartCompletions(K, r, reduced), UsedUp(K, r, reduced))
         /\ Len(StartCompletions(K, r, reduced))
              = Cardinality(K) + (IF reduced THEN 1 ELSE 0)
<1> DEFINE last == IF reduced THEN <<r>> ELSE <<>>
           L == IF reduced THEN {r} ELSE {}
<1>1. /\ Enumerates(ReservationsOf(K), EndedBy(K))
      /\ Len(ReservationsOf(K)) = Cardinality(K)
      /\ r \notin EndedBy(K)
  BY ReservationsOfEnumerates DEF EndedBy
<1>2. Enumerates(last, L) /\ EndedBy(K) \cap L = {}
  BY <1>1, SingletonEnumerates
<1>3. Len(last) = IF reduced THEN 1 ELSE 0
  OBVIOUS
<1>4. /\ StartCompletions(K, r, reduced) = ReservationsOf(K) \o last
      /\ UsedUp(K, r, reduced) = EndedBy(K) \cup L
  BY DEF StartCompletions, UsedUp
<1> HIDE DEF last, L
<1>5. Enumerates(ReservationsOf(K) \o last, EndedBy(K) \cup L)
  BY <1>1, <1>2, ConcatEnumerates
<1>6. Len(ReservationsOf(K) \o last) = Len(ReservationsOf(K)) + Len(last)
  BY <1>1, <1>2, ConcatLength
<1>7. Len(StartCompletions(K, r, reduced))
        = Cardinality(K) + (IF reduced THEN 1 ELSE 0)
  BY <1>1, <1>3, <1>4, <1>6
<1> QED
  BY <1>4, <1>5, <1>7

LEMMA StartTables ==
  ASSUME EffectInv, NEW K \in SUBSET Running, NEW reduced \in BOOLEAN,
         NEW e \in EventSlot, events[e].state = "FREE",
         NEW r \in ReservationSlot \ Reserved,
         NEW E, NEW R, Started(E, R, e, r),
         NEW done, done = StartCompletions(K, r, reduced)
  PROVE  /\ EventsCompleted(E, R, done) \in [EventSlot -> EventSlotType]
         /\ ReservationsCompleted(R, done)
              \in [ReservationSlot -> ReservationType]
         /\ QueueCompleted(R, done) \in [Client -> Seq(EventSlot)]
         /\ QueuesHold(QueueCompleted(R, done), EventsCompleted(E, R, done))
         /\ Completed(E, EventsCompleted(E, R, done), R,
                      ReservationsCompleted(R, done), UsedUp(K, r, reduced))
<1> DEFINE D == UsedUp(K, r, reduced)
           E2 == EventsCompleted(E, R, done)
           R2 == ReservationsCompleted(R, done)
           Q2 == QueueCompleted(R, done)
<1>1. /\ E \in [EventSlot -> EventSlotType]
      /\ R \in [ReservationSlot -> ReservationType]
  BY DEF Started
<1>2. Enumerates(done, D)
  BY StartDone
<1>3. /\ ReservedIn(R) = Reserved \cup {r}
      /\ SlotsLinked(E, R)
      /\ \A q \in ReservedIn(R) : E[R[q].event].state = "RESERVED"
      /\ QueuesHold(queue, E)
  BY StartLinks
<1>4. D \subseteq ReservedIn(R)
  BY <1>3 DEF EndedBy, UsedUp
<1> HIDE DEF D
<1>5. Completed(E, E2, R, R2, D)
  BY <1>2, <1>3, <1>4, CompletedAt
<1>6. /\ E2 \in [EventSlot -> EventSlotType]
      /\ R2 \in [ReservationSlot -> ReservationType]
  BY <1>1, <1>2, <1>3, <1>4, CompletedType
<1>7. Q2 = [d \in Client |-> Q2[d]]
  BY DEF QueueCompleted
<1> HIDE DEF E2, R2
<1>8. QueuesHold(Q2, E2)
  BY <1>2, <1>3, <1>4, <1>5, QueuesCompleted
<1> HIDE DEF Q2
<1>9. Q2 \in [Client -> Seq(EventSlot)]
  BY <1>7, <1>8, QueuesType
<1> QED
  BY <1>5, <1>6, <1>8, <1>9 DEF D, E2, R2, Q2

LEMMA AnimationStartKeeps ==
  ASSUME EffectInv, NEW c \in Client, NEW s \in SurfaceHandle,
         NEW t \in EffectToken, NEW p \in Property, NEW reduced \in BOOLEAN,
         AnimationStart(c, s, t, p, reduced)
  PROVE  EffectInv'
<1> DEFINE e == Lowest(FreeEvents)
           r == Lowest(ReservationSlot \ Reserved)
           K == ReplacedBy(s, p)
           new == [state |-> "RESERVED", event |-> e, owner |-> c,
                   surface |-> s, token |-> t]
           R == [reservations EXCEPT ![r] = new]
           E == [events EXCEPT ![e] = ReservedEvent(c, r)]
           done == StartCompletions(K, r, reduced)
           D == UsedUp(K, r, reduced)
           slot == SlotFor(K)
           a == [active |-> TRUE, surface |-> s, token |-> t, property |-> p]
           T1 == Stopped(timeline, K)
           E1 == EventsCompleted(events, reservations, ReservationsOf(K))
           R1 == ReservationsCompleted(reservations, ReservationsOf(K))
<1>1. /\ OwnedSurface(c, s) /\ EffectBound(s[1])
      /\ CanReserve(c, t) /\ CanAnimate(s, t, p)
      /\ reservations' = ReservationsCompleted(R, done)
      /\ events' = EventsCompleted(E, R, done)
      /\ queue' = QueueCompleted(R, done)
      /\ timeline' = IF reduced THEN T1 ELSE [timeline EXCEPT ![slot] = a]
      /\ bindings' = [bindings EXCEPT
                        ![s[1]].reserved_completion_events = @ + 1 - Len(done)]
      /\ UNCHANGED <<live, surfaces, frames, commit_sequence, in_flight, bound>>
  BY DEF AnimationStart, SlotFor
<1>2. K \in SUBSET Running
  BY DEF ReplacedBy, AnimationsOn
<1>3. /\ e \in EventSlot /\ events[e].state = "FREE"
      /\ r \in ReservationSlot \ Reserved
      /\ slot \in TimelineSlot
      /\ IF K # {} THEN K = {slot} ELSE slot \notin Running
      /\ bindings[s[1]].active
  <2> HIDE DEF e, r, slot
  <2>1. e = Lowest(FreeEvents) /\ r = Lowest(ReservationSlot \ Reserved)
        /\ slot = SlotFor(ReplacedBy(s, p))
    BY DEF e, r, slot
  <2> QED
    BY <1>1, <2>1, StartSlots
<1>4. \A k \in K : timeline[k].surface = s /\ timeline[k].property = p
  BY DEF ReplacedBy, AnimationsOn
<1> HIDE DEF e, r, K, slot
<1>5. /\ events' \in [EventSlot -> EventSlotType]
      /\ reservations' \in [ReservationSlot -> ReservationType]
      /\ queue' \in [Client -> Seq(EventSlot)]
      /\ QueuesHold(queue', events')
      /\ Completed(E, events', R, reservations', D)
      /\ Len(done) = Cardinality(K) + (IF reduced THEN 1 ELSE 0)
  <2>1. /\ events \in [EventSlot -> EventSlotType]
        /\ reservations \in [ReservationSlot -> ReservationType]
    BY DEF EffectInv, TypeOK
  <2>2. /\ new \in ReservationType
        /\ new.state = "RESERVED" /\ new.event = e
    BY <1>3 DEF ReservationType, Token
  <2> HIDE DEF new
  <2>3. /\ R \in [ReservationSlot -> ReservationType]
        /\ R[r].state = "RESERVED" /\ R[r].event = e
        /\ \A q \in ReservationSlot \ {r} : R[q] = reservations[q]
    BY <1>3, <2>1, <2>2
  <2>4. /\ ReservedEvent(c, r) \in EventSlotType
        /\ ReservedEvent(c, r).state = "RESERVED"
        /\ ReservedEvent(c, r).reserved_slot = r
    BY <1>3 DEF ReservedEvent, EventSlotType
  <2>5. /\ E \in [EventSlot -> EventSlotType]
        /\ E[e].state = "RESERVED" /\ E[e].reserved_slot = r
        /\ \A i \in EventSlot \ {e} : E[i] = events[i]
    BY <1>3, <2>1, <2>4
  <2> HIDE DEF R, E
  <2>6. Started(E, R, e, r)
    BY <2>3, <2>5 DEF Started
  <2>7. Len(done) = Cardinality(K) + (IF reduced THEN 1 ELSE 0)
    BY <1>2, <1>3, StartDone
  <2>8. done = StartCompletions(K, r, reduced)
    OBVIOUS
  <2> HIDE DEF done
  <2> QED
    BY <1>1, <1>2, <1>3, <2>6, <2>7, <2>8, StartTables
<1>6. /\ E1 \in [EventSlot -> EventSlotType]
      /\ R1 \in [ReservationSlot -> ReservationType]
      /\ T1 \in [TimelineSlot -> AnimationType]
      /\ Links(surfaces, E1, bindings, T1, R1)
      /\ Completed(events, E1, reservations, R1, EndedBy(K))
  BY <1>2, EndedTables
<1>7. /\ RunningIn(T1) = Running \ K
      /\ \A k \in TimelineSlot : k \notin K => T1[k] = timeline[k]
      /\ OnePerProperty(T1)
      /\ slot \notin RunningIn(T1)
  BY <1>2, <1>3, StoppedIs
<1>8. /\ s[1] \in SurfaceSlot
      /\ surfaces[s[1]].live /\ surfaces[s[1]].generation = s[2]
      /\ surfaces[s[1]].owner = c
      /\ bindings \in [SurfaceSlot -> BindingType]
      /\ timeline \in [TimelineSlot -> AnimationType]
      /\ events \in [EventSlot -> EventSlotType]
      /\ reservations \in [ReservationSlot -> ReservationType]
  BY <1>1, OwnedSlot DEF EffectInv, TypeOK
<1>9. /\ a.active /\ a.surface = s /\ a.token = t /\ a.property = p
      /\ a \in AnimationType
  BY DEF AnimationType, Token
<1> HIDE DEF a
<1>10. /\ R[r] = new
       /\ \A q \in ReservationSlot \ {r} : R[q] = reservations[q]
       /\ E[e] = ReservedEvent(c, r)
       /\ \A i \in EventSlot \ {e} : E[i] = events[i]
  <2> HIDE DEF new
  <2> QED
    BY <1>3, <1>8
<1>11. /\ new.state = "RESERVED" /\ new.event = e /\ new.owner = c
       /\ new.token = t
  OBVIOUS
<1> HIDE DEF new, R, E, T1, E1, R1, done
<1>12. /\ \A q \in EndedBy(K) : /\ q \in Reserved /\ q # r
                                /\ reservations[q].event \in EventSlot \ {e}
       /\ r \notin EndedBy(K)
       /\ \A q : q \in D <=> q \in EndedBy(K) \/ (reduced /\ q = r)
  <2>1. \A q \in EndedBy(K) : q \in Reserved
    BY DEF EndedBy
  <2>2. \A q : q \in D <=> q \in EndedBy(K) \/ (reduced /\ q = r)
    BY DEF UsedUp
  <2> QED
    BY <1>3, <2>1, <2>2, ReservationGraphOf
<1> HIDE DEF D
<1>13. \A q \in ReservationSlot \ {r} : reservations'[q] = R1[q]
  BY <1>5, <1>6, <1>10, <1>12 DEF Completed
<1>14. \A i \in EventSlot \ {e} : events'[i] = E1[i]
  <2> SUFFICES ASSUME NEW i \in EventSlot \ {e}
               PROVE  events'[i] = E1[i]
    OBVIOUS
  <2>1. ASSUME NEW q \in EndedBy(K), reservations[q].event = i
        PROVE  events'[i] = E1[i]
    <3>1. q \in D /\ R[q] = reservations[q]
      BY <1>10, <1>12 DEF Reserved
    <3>2. events'[i] = LiveEvent(reservations[q].owner, "ANIMATION_DONE",
                                 reservations[q].token)
      BY <1>5, <2>1, <3>1 DEF Completed
    <3>3. E1[i] = LiveEvent(reservations[q].owner, "ANIMATION_DONE",
                            reservations[q].token)
      BY <1>6, <2>1 DEF Completed
    <3> QED
      BY <3>2, <3>3
  <2>2. CASE \A q \in EndedBy(K) : reservations[q].event # i
    <3>1. \A q \in D : R[q].event # i
      <4>1. \A q \in EndedBy(K) : R[q].event # i
        BY <1>10, <1>12, <2>2 DEF Reserved
      <4>2. R[r].event # i
        BY <1>10, <1>11
      <4> QED
        BY <1>12, <4>1, <4>2
    <3>2. events'[i] = E[i]
      BY <1>5, <3>1 DEF Completed
    <3>3. E1[i] = events[i]
      BY <1>6, <2>2 DEF Completed
    <3> QED
      BY <1>10, <3>2, <3>3
  <2> QED
    BY <2>1, <2>2
<1>15. /\ E1[e] = events[e] /\ R1[r] = reservations[r]
       /\ r \notin ReservedIn(R1)
  <2>1. E1[e] = events[e] /\ R1[r] = reservations[r]
    BY <1>3, <1>6, <1>12 DEF Completed
  <2> QED
    BY <1>3, <2>1 DEF Reserved, ReservedIn
<1>16. /\ timeline' \in [TimelineSlot -> AnimationType]
       /\ reduced => timeline' = T1
       /\ ~reduced => /\ timeline'[slot] = a
                      /\ \A k \in TimelineSlot \ {slot} : timeline'[k] = T1[k]
  <2>1. CASE reduced
    BY <1>1, <1>6, <2>1
  <2>2. CASE ~reduced
    <3>1. timeline' = [timeline EXCEPT ![slot] = a]
      BY <1>1, <2>2
    <3>2. timeline'[slot] = a /\ timeline' \in [TimelineSlot -> AnimationType]
      BY <1>3, <1>8, <1>9, <3>1
    <3>3. \A k \in TimelineSlot \ {slot} : timeline'[k] = T1[k]
      BY <1>3, <1>7, <1>8, <3>1
    <3> QED
      BY <2>2, <3>2, <3>3
  <2> QED
    BY <2>1, <2>2
<1>17. Links(surfaces, events', bindings, timeline', reservations')
  <2>1. CASE reduced
    <3>1. events'[e].state = "LIVE"
      <4>1. r \in D /\ R[r].event = e
        BY <1>10, <1>11, <1>12, <2>1
      <4> QED
        BY <1>5, <4>1, LiveEventState DEF Completed
    <3>2. reservations'[r] = FreeReservation
      BY <1>3, <1>5, <1>12, <2>1 DEF Completed
    <3>3. /\ ReservedIn(reservations') = ReservedIn(R1)
          /\ \A q \in ReservedIn(R1) : reservations'[q] = R1[q]
      BY <1>13, <1>15, <3>2 DEF ReservedIn, FreeReservation
    <3>4. Links(surfaces, E1, bindings, T1, reservations')
      BY <1>6, <3>3, LinksOfReservations
    <3>5. \A i \in EventSlot : IF E1[i].state = "RESERVED"
                               THEN events'[i] = E1[i]
                               ELSE events'[i].state # "RESERVED"
      BY <1>3, <1>14, <1>15, <3>1
    <3>6. Links(surfaces, events', bindings, T1, reservations')
      BY <3>4, <3>5, LinksOfEvents
    <3> QED
      BY <1>16, <2>1, <3>6
  <2>2. CASE ~reduced
    <3>1. reservations'[r] = new
      BY <1>3, <1>5, <1>10, <1>12, <2>2 DEF Completed
    <3>2. events'[e] = ReservedEvent(c, r)
      <4>1. \A q \in D : R[q].event # e
        BY <1>10, <1>12, <2>2 DEF Reserved
      <4> QED
        BY <1>3, <1>5, <1>10, <4>1 DEF Completed
    <3>3. \A j \in RunningIn(T1) : T1[j].token # t
      <4>1. \A j \in Running : timeline[j].token # t
        BY <1>1 DEF CanAnimate
      <4>2. \A j \in Running \ K : T1[j] = timeline[j]
        BY <1>7 DEF Running
      <4> QED
        BY <1>7, <4>1, <4>2
    <3>4. E1[e].state # "RESERVED"
      BY <1>3, <1>15
    <3>5. slot \in TimelineSlot \ RunningIn(T1)
          /\ r \in ReservationSlot \ ReservedIn(R1)
      BY <1>3, <1>7, <1>15
    <3>6. /\ timeline'[slot].active /\ timeline'[slot].surface = s
          /\ timeline'[slot].token = t
          /\ \A j \in TimelineSlot \ {slot} : timeline'[j] = T1[j]
      BY <1>9, <1>16, <2>2
    <3>7. reservations'[r] = [state |-> "RESERVED", event |-> e, owner |-> c,
                              surface |-> s, token |-> t]
      BY <3>1 DEF new
    <3> QED
      BY <1>3, <1>6, <1>8, <1>13, <1>14, <3>2, <3>3, <3>4, <3>5, <3>6, <3>7,
         LinksAdded
  <2> QED
    BY <2>1, <2>2
<1>18. \A i \in SurfaceSlot : /\ bindings'[i].active = bindings[i].active
                              /\ bindings'[i].surface = bindings[i].surface
                              /\ bindings'[i].owner = bindings[i].owner
  BY <1>1, <1>8 DEF BindingType
<1>19. OnePerProperty(timeline')
  <2>1. CASE reduced
    BY <1>7, <1>16, <2>1
  <2>2. CASE ~reduced
    <3>1. \A k \in RunningIn(timeline') \ {slot} :
            k \in Running \ K /\ timeline'[k] = T1[k] /\ T1[k] = timeline[k]
      BY <1>7, <1>16, <2>2 DEF RunningIn, Running
    <3>2. \A k \in Running \ K :
            ~ (timeline[k].surface = s /\ timeline[k].property = p)
      BY DEF K, ReplacedBy, AnimationsOn
    <3>3. timeline'[slot].surface = s /\ timeline'[slot].property = p
      BY <1>9, <1>16, <2>2
    <3>4. \A j, k \in RunningIn(timeline') \ {slot} :
            timeline'[j].surface = timeline'[k].surface
              /\ timeline'[j].property = timeline'[k].property => j = k
      BY <3>1 DEF EffectInv, OnePerProperty, Running, RunningIn
    <3>5. \A k \in RunningIn(timeline') \ {slot} :
            ~ (timeline'[k].surface = s /\ timeline'[k].property = p)
      BY <3>1, <3>2
    <3> QED
      BY <3>3, <3>4, <3>5 DEF OnePerProperty
  <2> QED
    BY <2>1, <2>2
<1>20. CountsExact(bindings', timeline')
  <2> SUFFICES ASSUME NEW i \in SurfaceSlot
               PROVE  bindings'[i].reserved_completion_events
                        = Cardinality(RunningOn(timeline', i))
    BY DEF CountsExact
  <2> DEFINE before == bindings[i].reserved_completion_events
             left == Cardinality(RunningOn(T1, i))
  <2>1. /\ before = Cardinality(RunningOn(timeline, i))
        /\ left = before - Cardinality({k \in K : timeline[k].surface[1] = i})
        /\ before \in Nat /\ left \in Nat
    <3>1. before = Cardinality(RunningOn(timeline, i)) /\ before \in Nat
      BY <1>8 DEF EffectInv, CountsExact, BindingType
    <3>2. /\ left = Cardinality(RunningOn(timeline, i))
                      - Cardinality({k \in K : timeline[k].surface[1] = i})
          /\ left \in Nat
      BY <1>2, RunningAfter DEF T1
    <3> QED
      BY <3>1, <3>2
  <2>2. IsFiniteSet(RunningOn(T1, i)) /\ slot \notin RunningOn(T1, i)
    <3>1. RunningOn(T1, i) \in SUBSET TimelineSlot
      BY DEF RunningOn, RunningIn
    <3> QED
      BY <1>7, <3>1, SlotsFinite DEF RunningOn
  <2>3. CASE i # s[1]
    <3>1. {k \in K : timeline[k].surface[1] = i} = {}
      BY <1>4, <2>3
    <3>2. left = before
      <4>1. Cardinality({k \in K : timeline[k].surface[1] = i}) = 0
        BY <3>1, FS_EmptySet
      <4> HIDE DEF left, before
      <4> QED
        BY <2>1, <4>1
    <3>3. \A k : k \in RunningOn(timeline', i) <=> k \in RunningOn(T1, i)
      BY <1>7, <1>9, <1>16, <2>3 DEF RunningOn, RunningIn
    <3>4. RunningOn(timeline', i) = RunningOn(T1, i)
      BY <3>3
    <3>5. bindings'[i] = bindings[i]
      BY <1>1, <1>8, <2>3
    <3> QED
      BY <3>2, <3>4, <3>5
  <2>4. CASE i = s[1]
    <3>1. {k \in K : timeline[k].surface[1] = i} = K
      BY <1>4, <2>4
    <3>2. left = before - Cardinality(K) /\ Cardinality(K) \in Nat
      <4>1. K \in SUBSET TimelineSlot
        BY <1>2 DEF Running
      <4> QED
        BY <2>1, <3>1, <4>1, SlotsFinite
    <3>3. bindings'[i].reserved_completion_events = before + 1 - Len(done)
      BY <1>1, <1>8, <2>4 DEF BindingType
    <3>4. CASE reduced
      <4>1. bindings'[i].reserved_completion_events = left
        BY <1>5, <2>1, <3>2, <3>3, <3>4
      <4> QED
        BY <1>16, <3>4, <4>1
    <3>5. CASE ~reduced
      <4>1. bindings'[i].reserved_completion_events = left + 1
        BY <1>5, <2>1, <3>2, <3>3, <3>5
      <4>2. \A k : k \in RunningOn(timeline', i)
                     <=> k \in RunningOn(T1, i) \cup {slot}
        BY <1>3, <1>9, <1>16, <2>4, <3>5 DEF RunningOn, RunningIn
      <4>3. RunningOn(timeline', i) = RunningOn(T1, i) \cup {slot}
        BY <4>2
      <4>4. Cardinality(RunningOn(T1, i) \cup {slot}) = left + 1
        BY <2>2, FS_AddElement
      <4> QED
        BY <4>1, <4>3, <4>4
    <3> QED
      BY <3>4, <3>5
  <2> QED
    BY <2>3, <2>4
<1>21. bindings' \in [SurfaceSlot -> BindingType]
  <2>1. bindings'[s[1]].reserved_completion_events \in Nat
    <3>1. RunningOn(timeline', s[1]) \in SUBSET TimelineSlot
      BY DEF RunningOn, RunningIn
    <3>2. Cardinality(RunningOn(timeline', s[1])) \in Nat
      BY <3>1, SlotsFinite
    <3> QED
      BY <1>8, <1>20, <3>2 DEF CountsExact
  <2>2. bindings' = [bindings EXCEPT ![s[1]] =
                       [bindings[s[1]] EXCEPT !.reserved_completion_events =
                          bindings'[s[1]].reserved_completion_events]]
    BY <1>1, <1>8 DEF BindingType
  <2>3. [bindings[s[1]] EXCEPT !.reserved_completion_events =
           bindings'[s[1]].reserved_completion_events] \in BindingType
    BY <1>8, <2>1 DEF BindingType
  <2> QED
    BY <1>8, <2>2, <2>3
<1>22. TypeOK'
  BY <1>1, <1>5, <1>16, <1>21 DEF EffectInv, TypeOK, QueuesHold
<1>23. LiveNamed(surfaces')
  BY <1>1 DEF EffectInv
<1>24. Links(surfaces', events', bindings', timeline', reservations')
  <2> DEFINE S == surfaces
             E3 == events'
             B == bindings
             B2 == bindings'
             T == timeline'
             R3 == reservations'
  <2>1. \A k \in RunningIn(T) : B2[T[k].surface[1]].active
    <3>1. \A k \in RunningIn(T) : B[T[k].surface[1]].active
                                    /\ T[k].surface \in SurfaceHandle
      BY <1>17 DEF Links, AnimationLinked
    <3> QED
      BY <1>18, <3>1, HandleParts
  <2>2. Links(S, E3, B, T, R3)
    BY <1>17
  <2> HIDE DEF S, E3, B, B2, T, R3
  <2>3. Links(S, E3, B2, T, R3)
    BY <2>1, <2>2, LinksOfSurfaces
  <2> QED
    BY <1>1, <2>3 DEF S, E3, B2, T, R3
<1>25. BindingsLinked(surfaces', bindings', bound')
  BY <1>1, <1>18 DEF EffectInv, BindingsLinked, BindingLinked
<1> QED
  BY <1>19, <1>20, <1>22, <1>23, <1>24, <1>25 DEF EffectInv

-----------------------------------------------------------------------------
(* A client disconnects.                                                   *)

LEMMA ClientDisconnectKeeps ==
  ASSUME EffectInv, NEW c \in Client, ClientDisconnect(c)
  PROVE  EffectInv'
<1> DEFINE K == AnimationsOf(c)
           T2 == Stopped(timeline, K)
<1>1. /\ live' \subseteq Client
      /\ timeline' = T2
      /\ reservations' = ReservationsWithout(c)
      /\ bindings' = [i \in SurfaceSlot |-> IF bindings[i].owner = c
                                            THEN Unbound ELSE bindings[i]]
      /\ surfaces' = [i \in SurfaceSlot |->
                        IF i \in SurfacesOf(c)
                        THEN DeadSurface(NextGeneration(surfaces[i].generation))
                        ELSE surfaces[i]]
      /\ frames' = [i \in FrameSlot |-> IF frames[i].owner = c THEN FreeFrame
                                        ELSE frames[i]]
      /\ events' = [i \in EventSlot |-> IF events[i].owner = c THEN FreeEvent
                                        ELSE events[i]]
      /\ queue' = [queue EXCEPT ![c] = <<>>]
      /\ UNCHANGED <<commit_sequence, in_flight, bound>>
  BY DEF ClientDisconnect, TimelineWithout, EffectInv, TypeOK
<1>2. c # NoClient
  BY EffectCapacityAssumption
<1>3. K \in SUBSET Running
  BY DEF AnimationsOf
<1>4. /\ timeline' \in [TimelineSlot -> AnimationType]
      /\ RunningIn(timeline') = Running \ K
      /\ \A k \in Running \ K : timeline'[k] = timeline[k]
      /\ OnePerProperty(timeline')
  <2> HIDE DEF K
  <2> QED
    BY <1>1, <1>3, StoppedIs
<1>5. \A k \in Running :
        /\ timeline[k].surface[1] \in SurfaceSlot
        /\ surfaces[timeline[k].surface[1]].live
        /\ bindings[timeline[k].surface[1]].owner
             = surfaces[timeline[k].surface[1]].owner
        /\ k \in K <=> surfaces[timeline[k].surface[1]].owner = c
  BY AnimationSurface DEF AnimationsOf, SurfaceOk
<1> HIDE DEF K, T2
<1>6. /\ \A r \in ReservedIn(reservations') :
           /\ r \in Reserved /\ reservations[r].owner # c
           /\ reservations'[r] = reservations[r]
      /\ \A r \in Reserved : reservations[r].owner # c
                               => r \in ReservedIn(reservations')
  BY <1>1 DEF ReservationsWithout, ReservedIn, Reserved, FreeReservation
<1>7. \A i \in EventSlot :
        /\ events[i].owner # c => events'[i] = events[i]
        /\ events[i].owner = c => events'[i] = FreeEvent
  BY <1>1
<1>8. \A i \in SurfaceSlot :
        /\ surfaces[i].owner # c => surfaces'[i] = surfaces[i]
        /\ bindings[i].owner # c => bindings'[i] = bindings[i]
        /\ bindings[i].owner = c => bindings'[i] = Unbound
  BY <1>1 DEF SurfacesOf
<1>9. \A k \in RunningIn(timeline') :
        AnimationLinked(surfaces', bindings', timeline', k)
  <2> SUFFICES ASSUME NEW k \in RunningIn(timeline')
               PROVE  AnimationLinked(surfaces', bindings', timeline', k)
    OBVIOUS
  <2>1. k \in Running /\ k \notin K /\ timeline'[k] = timeline[k]
    BY <1>4
  <2>2. AnimationLinked(surfaces, bindings, timeline, k)
    BY <2>1 DEF EffectInv, Links, Running, RunningIn
  <2>3. LET i == timeline[k].surface[1]
        IN  surfaces'[i] = surfaces[i] /\ bindings'[i] = bindings[i]
    BY <1>5, <1>8, <2>1
  <2> QED
    BY <2>1, <2>2, <2>3 DEF AnimationLinked
<1>10. \A r \in ReservedIn(reservations') :
         ReservationLinked(surfaces', events', reservations', r)
  <2> SUFFICES ASSUME NEW r \in ReservedIn(reservations')
               PROVE  ReservationLinked(surfaces', events', reservations', r)
    OBVIOUS
  <2>1. r \in Reserved /\ reservations[r].owner # c
        /\ reservations'[r] = reservations[r]
    BY <1>6
  <2>2. ReservationLinked(surfaces, events, reservations, r)
    BY <2>1 DEF EffectInv, Links, Reserved, ReservedIn
  <2>3. events'[reservations[r].event] = events[reservations[r].event]
    BY <1>7, <2>1, <2>2 DEF ReservationLinked
  <2>4. reservations[r].surface[1] \in SurfaceSlot
    BY <2>1, ReservationGraphOf, HandleParts
  <2>5. surfaces'[reservations[r].surface[1]]
          = surfaces[reservations[r].surface[1]]
    BY <1>8, <2>1, <2>2, <2>4 DEF ReservationLinked
  <2> QED
    BY <2>1, <2>2, <2>3, <2>5 DEF ReservationLinked
<1>11. \A k \in Running, r \in Reserved :
         Pair(timeline, k, reservations, r)
           => (k \in K <=> reservations[r].owner = c)
  BY <1>5, ReservationGraphOf DEF Pair
<1>12. Paired(timeline', reservations')
  <2>0. Paired(timeline, reservations)
    BY DEF EffectInv, Links
  <2>1. ASSUME NEW k \in RunningIn(timeline')
        PROVE  \E r \in ReservedIn(reservations') :
                 Pair(timeline', k, reservations', r)
    <3>1. k \in Running /\ k \notin K /\ timeline'[k] = timeline[k]
      BY <1>4
    <3>2. PICK r \in Reserved : Pair(timeline, k, reservations, r)
      BY <3>1, OnePair
    <3>3. r \in ReservedIn(reservations') /\ reservations'[r] = reservations[r]
      BY <1>6, <1>11, <3>1, <3>2
    <3> QED
      BY <3>1, <3>2, <3>3 DEF Pair
  <2>2. ASSUME NEW r \in ReservedIn(reservations')
        PROVE  \E k \in RunningIn(timeline') :
                 Pair(timeline', k, reservations', r)
    <3>1. r \in Reserved /\ reservations[r].owner # c
          /\ reservations'[r] = reservations[r]
      BY <1>6
    <3>2. PICK k \in Running : Pair(timeline, k, reservations, r)
      BY <3>1, OnePair
    <3>3. k \in RunningIn(timeline') /\ timeline'[k] = timeline[k]
      BY <1>4, <1>11, <3>1, <3>2
    <3> QED
      BY <3>1, <3>2, <3>3 DEF Pair
  <2>3. \A j, k \in RunningIn(timeline') :
          timeline'[j].token = timeline'[k].token => j = k
    BY <1>4, <2>0 DEF Paired, Running, RunningIn
  <2>4. \A q, r \in ReservedIn(reservations') :
          reservations'[q].token = reservations'[r].token => q = r
    BY <1>6, <2>0 DEF Paired, Reserved, ReservedIn
  <2> QED
    BY <2>1, <2>2, <2>3, <2>4 DEF Paired
<1>13. EventsLinked(events', reservations')
  <2> SUFFICES ASSUME NEW i \in EventSlot, events'[i].state = "RESERVED"
               PROVE  \E r \in ReservedIn(reservations') :
                        reservations'[r].event = i
    BY DEF EventsLinked
  <2>1. events[i].owner # c /\ events[i].state = "RESERVED"
    BY <1>7 DEF FreeEvent
  <2>2. PICK r \in Reserved : reservations[r].event = i
    BY <2>1 DEF EffectInv, Links, EventsLinked, Reserved, ReservedIn
  <2>3. reservations[r].owner # c
    BY <2>1, <2>2, ReservationGraphOf
  <2> QED
    BY <1>6, <2>2, <2>3
<1>14. Links(surfaces', events', bindings', timeline', reservations')
  BY <1>9, <1>10, <1>12, <1>13 DEF Links
<1>15. BindingsLinked(surfaces', bindings', bound')
  <2> SUFFICES ASSUME NEW i \in SurfaceSlot
               PROVE  BindingLinked(surfaces', bindings', bound', i)
    BY DEF BindingsLinked
  <2>1. BindingLinked(surfaces, bindings, bound, i)
    BY DEF EffectInv, BindingsLinked
  <2>2. CASE bindings[i].owner = c
    BY <1>8, <2>2 DEF BindingLinked, Unbound
  <2>3. CASE bindings[i].owner # c
    BY <1>1, <1>8, <2>1, <2>3 DEF BindingLinked
  <2> QED
    BY <2>2, <2>3
<1>16. CountsExact(bindings', timeline')
  <2> SUFFICES ASSUME NEW i \in SurfaceSlot
               PROVE  bindings'[i].reserved_completion_events
                        = Cardinality(RunningOn(timeline', i))
    BY DEF CountsExact
  <2>1. CASE bindings[i].owner = c
    <3>1. \A k : k \notin RunningOn(timeline', i)
      BY <1>4, <1>5, <2>1 DEF RunningOn
    <3>2. RunningOn(timeline', i) = {}
      BY <3>1
    <3> QED
      BY <1>8, <2>1, <3>2, FS_EmptySet DEF Unbound
  <2>2. CASE bindings[i].owner # c
    <3>1. \A k : k \in RunningOn(timeline', i) <=> k \in RunningOn(timeline, i)
      BY <1>4, <1>5, <2>2 DEF RunningOn, RunningIn, Running
    <3>2. RunningOn(timeline', i) = RunningOn(timeline, i)
      BY <3>1
    <3> QED
      BY <1>8, <2>2, <3>2 DEF EffectInv, CountsExact
  <2> QED
    BY <2>1, <2>2
<1>17. /\ surfaces' \in [SurfaceSlot -> SurfaceSlotType]
       /\ LiveNamed(surfaces')
  <2>1. surfaces \in [SurfaceSlot -> SurfaceSlotType]
    BY DEF EffectInv, TypeOK
  <2>2. \A i \in SurfaceSlot :
          DeadSurface(NextGeneration(surfaces[i].generation))
            \in SurfaceSlotType
    <3> SUFFICES ASSUME NEW i \in SurfaceSlot
                 PROVE  DeadSurface(NextGeneration(surfaces[i].generation))
                          \in SurfaceSlotType
      OBVIOUS
    <3>1. surfaces[i].generation \in Generation \cup {0}
      BY <2>1 DEF SurfaceSlotType
    <3>2. NextGeneration(surfaces[i].generation) \in Generation \cup {0}
      BY <3>1, NextGenerationType
    <3> QED
      BY <3>2 DEF DeadSurface, SurfaceSlotType
  <2>3. surfaces' \in [SurfaceSlot -> SurfaceSlotType]
    BY <1>1, <2>1, <2>2
  <2>4. LiveNamed(surfaces')
    BY <1>1 DEF EffectInv, LiveNamed, DeadSurface
  <2> QED
    BY <2>3, <2>4
<1>18. /\ events' \in [EventSlot -> EventSlotType]
       /\ frames' \in [FrameSlot -> FrameSlotType]
       /\ reservations' \in [ReservationSlot -> ReservationType]
       /\ bindings' \in [SurfaceSlot -> BindingType]
  <2>1. /\ FreeEvent \in EventSlotType /\ FreeFrame \in FrameSlotType
        /\ FreeReservation \in ReservationType /\ Unbound \in BindingType
    BY DEF FreeEvent, EventSlotType, FreeFrame, FrameSlotType, FreeReservation,
           ReservationType, Unbound, BindingType
  <2> QED
    BY <1>1, <2>1 DEF EffectInv, TypeOK, ReservationsWithout
<1>19. /\ queue' \in [Client -> Seq(EventSlot)]
       /\ QueuesHold(queue', events')
  <2>1. queue \in [Client -> Seq(EventSlot)]
    BY DEF EffectInv, TypeOK
  <2>2. queue' \in [Client -> Seq(EventSlot)]
    BY <1>1, <2>1
  <2>3. ASSUME NEW d \in Client
        PROVE  Enumerates(queue'[d], LiveEventsOf(events', d))
    <3>1. CASE d = c
      <4>1. \A i : i \notin LiveEventsOf(events', d)
        BY <1>2, <1>7, <3>1 DEF LiveEventsOf, FreeEvent
      <4>2. LiveEventsOf(events', d) = {}
        BY <4>1
      <4>3. queue'[d] = <<>>
        BY <1>1, <2>1, <3>1
      <4> QED
        BY <4>2, <4>3, SingletonEnumerates
    <3>2. CASE d # c
      <4>1. \A i : i \in LiveEventsOf(events', d)
                     <=> i \in LiveEventsOf(events, d)
        BY <1>7, <3>2 DEF LiveEventsOf, FreeEvent
      <4>2. LiveEventsOf(events', d) = LiveEventsOf(events, d)
        BY <4>1
      <4>3. queue'[d] = queue[d]
        BY <1>1, <2>1, <3>2
      <4> QED
        BY <4>2, <4>3 DEF EffectInv, TypeOK
    <3> QED
      BY <3>1, <3>2
  <2> QED
    BY <2>2, <2>3 DEF QueuesHold
<1>20. TypeOK'
  BY <1>1, <1>4, <1>17, <1>18, <1>19 DEF EffectInv, TypeOK, QueuesHold
<1> QED
  BY <1>4, <1>14, <1>15, <1>16, <1>17, <1>20 DEF EffectInv

-----------------------------------------------------------------------------
(* Every step.                                                             *)

LEMMA EffectStepKeeps ==
  ASSUME EffectInv, EffectStep
  PROVE  EffectInv'
<1> SUFFICES ASSUME NEW c \in Client, NEW s \in SurfaceHandle,
                    \/ SurfaceDestroyEx(c, s)
                    \/ \E t \in FrameToken \cup {NoToken} :
                         SurfaceCommitEx(c, s, t)
                    \/ \E enabled \in SUBSET Optional : EffectSet(c, s, enabled)
                    \/ \E t \in EffectToken, p \in Property,
                          reduced \in BOOLEAN :
                         AnimationStart(c, s, t, p, reduced)
                    \/ \E t \in EffectToken : AnimationCancel(c, s, t)
             PROVE  EffectInv'
  BY DEF EffectStep
<1>1. CASE SurfaceDestroyEx(c, s)
  BY <1>1, SurfaceDestroyExKeeps
<1>2. ASSUME NEW t \in FrameToken \cup {NoToken}, SurfaceCommitEx(c, s, t)
      PROVE  EffectInv'
  BY <1>2, SurfaceCommitExKeeps
<1>3. ASSUME NEW enabled \in SUBSET Optional, EffectSet(c, s, enabled)
      PROVE  EffectInv'
  BY <1>3, EffectSetKeeps
<1>4. ASSUME NEW t \in EffectToken, NEW p \in Property, NEW reduced \in BOOLEAN,
             AnimationStart(c, s, t, p, reduced)
      PROVE  EffectInv'
  BY <1>4, AnimationStartKeeps
<1>5. ASSUME NEW t \in EffectToken, AnimationCancel(c, s, t)
      PROVE  EffectInv'
  BY <1>5, AnimationCancelKeeps
<1> QED
  BY <1>1, <1>2, <1>3, <1>4, <1>5

LEMMA StutterKeeps ==
  ASSUME EffectInv, UNCHANGED vars
  PROVE  EffectInv'
<1>1. /\ UNCHANGED <<live, surfaces, frames, events, queue, commit_sequence,
                     in_flight>>
      /\ UNCHANGED <<bound, bindings, timeline, reservations>>
  BY DEF vars, coreVars, effectVars
<1>2. TypeOK'
  BY <1>1 DEF EffectInv, TypeOK
<1>3. Links(surfaces, events, bindings, timeline, reservations)'
  BY <1>1 DEF EffectInv
<1> QED
  BY <1>1, <1>2, <1>3 DEF EffectInv

LEMMA NextKeeps ==
  ASSUME EffectInv, [Next]_vars
  PROVE  EffectInv'
<1>1. ASSUME NEW c \in Client, SurfaceCreate(c)
      PROVE  EffectInv'
  BY <1>1, SurfaceCreateKeeps
<1>2. ASSUME NEW c \in Client, NextEvent(c)
      PROVE  EffectInv'
  BY <1>2, NextEventKeeps
<1>3. ASSUME NEW c \in Client, ClientDisconnect(c)
      PROVE  EffectInv'
  BY <1>3, ClientDisconnectKeeps
<1>4. ASSUME NEW c \in Client, NEW s \in SurfaceHandle, SurfaceCommit(c, s)
      PROVE  EffectInv'
  BY <1>4, SurfaceCommitKeeps
<1>5. ASSUME NEW c \in Client, NEW s \in SurfaceHandle, SurfaceDestroy(c, s)
      PROVE  EffectInv'
  BY <1>5, SurfaceDestroyKeeps
<1>6. ASSUME NEW c \in Client, NEW s \in SurfaceHandle, NEW t \in FrameToken,
             SurfaceFrame(c, s, t)
      PROVE  EffectInv'
  BY <1>6, SurfaceFrameKeeps
<1>7. ASSUME NEW K \in SUBSET Running, BuildFrameEx(K)
      PROVE  EffectInv'
  BY <1>7, BuildFrameExKeeps
<1> QED
  BY <1>1, <1>2, <1>3, <1>4, <1>5, <1>6, <1>7, EffectStepKeeps,
     EffectsBindKeeps, BuildFrameKeeps, PresentDoneKeeps, StutterKeeps DEF Next

\* No sequence of calls, whoever makes them, takes the four tables out of
\* agreement: a call of the effect protocol is never answered with
\* MOO_COMP_BAD_STATE, and neither is the wish of a client to disconnect.
THEOREM ReservationGraphHolds == Spec => []ReservationGraph
<1>1. Init => EffectInv
  BY InitEffectInv
<1>2. EffectInv /\ [Next]_vars => EffectInv'
  BY NextKeeps
<1>3. EffectInv => ReservationGraph
  BY EffectInvIsValid DEF EffectInv, ReservationGraph
<1> QED
  BY <1>1, <1>2, <1>3, PTL DEF Spec

\* A surface never has two running animations of one property: the second
\* start replaces the first, also when the tables are full.
OneAnimationPerProperty ==
  \A j, k \in Running :
    /\ timeline[j].surface = timeline[k].surface
    /\ timeline[j].property = timeline[k].property
    => j = k

THEOREM AnimationsAreReplaced == Spec => []OneAnimationPerProperty
<1>1. Init => EffectInv
  BY InitEffectInv
<1>2. EffectInv /\ [Next]_vars => EffectInv'
  BY NextKeeps
<1>3. EffectInv => OneAnimationPerProperty
  BY DEF EffectInv, OnePerProperty, OneAnimationPerProperty, Running, RunningIn
<1> QED
  BY <1>1, <1>2, <1>3, PTL DEF Spec

-----------------------------------------------------------------------------
(* The tokens.  What a client is told of them is a matter of reservations  *)
(* and events: a token is active while it is reserved, and told as often   *)
(* as terminal events of it are not read.                                  *)

TokensIn(R, c) == {R[r].token : r \in {r \in ReservedIn(R) : R[r].owner = c}}

\* The tokens of c among those of the reservations D.
TokensAmong(R, D, c) == {R[r].token : r \in {r \in D : R[r].owner = c}}

TerminalsIn(E, c, t) == {i \in EventSlot : /\ E[i].state = "LIVE"
                                           /\ E[i].owner = c
                                           /\ E[i].type = "ANIMATION_DONE"
                                           /\ E[i].token = t}

\* The variables of EffectLifecycle, as CompositorEffects gives them.
Active == [c \in Client |-> RunningTokens(c)]
Told   == [c \in Client |-> [t \in EffectToken |-> ToldOf(c, t)]]

TokensNow(A, R) == A = [c \in Client |-> TokensIn(R, c)]
ToldNow(N, E) ==
  N = [c \in Client |-> [t \in EffectToken |-> Cardinality(TerminalsIn(E, c, t))]]

LEMMA ActiveIs == EffectInv => TokensNow(Active, reservations)
<1> SUFFICES ASSUME EffectInv, NEW c \in Client
             PROVE  RunningTokens(c) = TokensIn(reservations, c)
  BY DEF TokensNow, Active
<1>1. \A k \in Running, r \in Reserved :
        Pair(timeline, k, reservations, r)
          => surfaces[timeline[k].surface[1]].owner = reservations[r].owner
  BY ReservationGraphOf DEF Pair
<1>2. ASSUME NEW k \in AnimationsOf(c)
      PROVE  timeline[k].token \in TokensIn(reservations, c)
  <2>1. k \in Running /\ surfaces[timeline[k].surface[1]].owner = c
    BY DEF AnimationsOf
  <2>2. PICK r \in Reserved : Pair(timeline, k, reservations, r)
    BY <2>1, OnePair
  <2>3. reservations[r].owner = c /\ reservations[r].token = timeline[k].token
    BY <1>1, <2>1, <2>2 DEF Pair
  <2> QED
    BY <2>3 DEF TokensIn, Reserved, ReservedIn
<1>3. ASSUME NEW r \in Reserved, reservations[r].owner = c
      PROVE  \E k \in AnimationsOf(c) : timeline[k].token = reservations[r].token
  <2>1. PICK k \in Running : Pair(timeline, k, reservations, r)
    BY OnePair
  <2> QED
    BY <1>1, <1>3, <2>1 DEF Pair, AnimationsOf
<1>4. \A u : u \in RunningTokens(c) <=> u \in TokensIn(reservations, c)
  <2>1. \A u \in RunningTokens(c) : u \in TokensIn(reservations, c)
    BY <1>2 DEF RunningTokens
  <2>2. \A u \in TokensIn(reservations, c) : u \in RunningTokens(c)
    BY <1>3 DEF RunningTokens, TokensIn, Reserved, ReservedIn
  <2> QED
    BY <2>1, <2>2
<1> QED
  BY <1>4

LEMMA ActiveIsAfter == EffectInv' => TokensNow(Active', reservations')
<1>1. EffectInv => TokensNow(Active, reservations)
  BY ActiveIs
<1>2. EffectInv' => TokensNow(Active, reservations)'
  BY <1>1, PTL
<1>3. TokensNow(Active, reservations)' <=> TokensNow(Active', reservations')
  BY DEF TokensNow
<1> QED
  BY <1>2, <1>3

LEMMA ToldIs == ToldNow(Told, events) /\ ToldNow(Told', events')
  BY DEF ToldNow, Told, ToldOf, TerminalsIn

LEMMA TerminalsFinite ==
  ASSUME NEW E, NEW c, NEW t
  PROVE  IsFiniteSet(TerminalsIn(E, c, t)) /\ Cardinality(TerminalsIn(E, c, t)) \in Nat
<1>1. TerminalsIn(E, c, t) \in SUBSET EventSlot
  BY DEF TerminalsIn
<1> QED
  BY <1>1, SlotsFinite

\* moo_i1_complete2 ends the tokens of its reservations and tells each once.
LEMMA TokensCompleted ==
  ASSUME NEW E, NEW E2, NEW R, NEW R2, NEW D, D \subseteq ReservedIn(R),
         Completed(E, E2, R, R2, D), SlotsLinked(E, R),
         \A r \in ReservedIn(R) : E[R[r].event].state = "RESERVED",
         \A q, r \in ReservedIn(R) : R[q].token = R[r].token => q = r,
         NEW c \in Client
  PROVE  /\ TokensAmong(R, D, c) \subseteq TokensIn(R, c)
         /\ TokensIn(R2, c) = TokensIn(R, c) \ TokensAmong(R, D, c)
         /\ \A t : Cardinality(TerminalsIn(E2, c, t)) =
                     Cardinality(TerminalsIn(E, c, t))
                       + (IF t \in TokensAmong(R, D, c) THEN 1 ELSE 0)
<1>1. TokensAmong(R, D, c) \subseteq TokensIn(R, c)
  BY DEF TokensAmong, TokensIn
<1>2. /\ \A r \in ReservationSlot : r \in ReservedIn(R2)
                                      <=> r \in ReservedIn(R) /\ r \notin D
      /\ \A r \in ReservedIn(R2) : R2[r] = R[r]
  BY DEF Completed, ReservedIn, FreeReservation
<1>3. \A u : u \in TokensIn(R2, c)
               <=> u \in TokensIn(R, c) /\ u \notin TokensAmong(R, D, c)
  <2>1. ASSUME NEW u \in TokensIn(R2, c)
        PROVE  u \in TokensIn(R, c) /\ u \notin TokensAmong(R, D, c)
    <3>1. PICK r \in ReservedIn(R2) : R2[r].owner = c /\ R2[r].token = u
      BY DEF TokensIn
    <3>2. r \in ReservedIn(R) /\ r \notin D /\ R[r].owner = c /\ R[r].token = u
      BY <1>2, <3>1 DEF ReservedIn
    <3> QED
      BY <3>2 DEF TokensIn, TokensAmong
  <2>2. ASSUME NEW u \in TokensIn(R, c), u \notin TokensAmong(R, D, c)
        PROVE  u \in TokensIn(R2, c)
    <3>1. PICK r \in ReservedIn(R) : R[r].owner = c /\ R[r].token = u
      BY DEF TokensIn
    <3>2. r \notin D
      BY <2>2, <3>1 DEF TokensAmong
    <3>3. r \in ReservedIn(R2) /\ R2[r] = R[r]
      BY <1>2, <3>1, <3>2 DEF ReservedIn
    <3> QED
      BY <3>1, <3>3 DEF TokensIn
  <2> QED
    BY <2>1, <2>2
<1>4. ASSUME NEW t, t \notin TokensAmong(R, D, c)
      PROVE  TerminalsIn(E2, c, t) = TerminalsIn(E, c, t)
  <2>1. ASSUME NEW i \in EventSlot
        PROVE  i \in TerminalsIn(E2, c, t) <=> i \in TerminalsIn(E, c, t)
    <3>1. CASE \A r \in D : R[r].event # i
      BY <3>1 DEF Completed, TerminalsIn
    <3>2. ASSUME NEW r \in D, R[r].event = i
          PROVE  i \notin TerminalsIn(E2, c, t) /\ i \notin TerminalsIn(E, c, t)
      <4>1. E2[i] = LiveEvent(R[r].owner, "ANIMATION_DONE", R[r].token)
        BY <3>2 DEF Completed
      <4>2. ~ (R[r].owner = c /\ R[r].token = t)
        BY <1>4 DEF TokensAmong
      <4>3. E[i].state = "RESERVED"
        BY <3>2
      <4> QED
        BY <4>1, <4>2, <4>3, LiveEventState DEF TerminalsIn
    <3> QED
      BY <3>1, <3>2
  <2>2. \A i : i \in TerminalsIn(E2, c, t) <=> i \in TerminalsIn(E, c, t)
    BY <2>1 DEF TerminalsIn
  <2> QED
    BY <2>2
<1>5. ASSUME NEW t \in TokensAmong(R, D, c)
      PROVE  Cardinality(TerminalsIn(E2, c, t))
               = Cardinality(TerminalsIn(E, c, t)) + 1
  <2>1. PICK r \in D : R[r].owner = c /\ R[r].token = t
    BY DEF TokensAmong
  <2>2. R[r].event \in EventSlot /\ R[r].event \notin TerminalsIn(E, c, t)
    BY DEF SlotsLinked, TerminalsIn
  <2>3. E2[R[r].event] = LiveEvent(c, "ANIMATION_DONE", t)
    BY <2>1 DEF Completed
  <2>4. ASSUME NEW i \in EventSlot, i # R[r].event
        PROVE  i \in TerminalsIn(E2, c, t) <=> i \in TerminalsIn(E, c, t)
    <3>1. CASE \A q \in D : R[q].event # i
      BY <3>1 DEF Completed, TerminalsIn
    <3>2. ASSUME NEW q \in D, R[q].event = i
          PROVE  i \notin TerminalsIn(E2, c, t) /\ i \notin TerminalsIn(E, c, t)
      <4>1. E2[i] = LiveEvent(R[q].owner, "ANIMATION_DONE", R[q].token)
        BY <3>2 DEF Completed
      <4>2. R[q].token # t
        BY <2>1, <2>4, <3>2
      <4>3. E[i].state = "RESERVED"
        BY <3>2
      <4> QED
        BY <4>1, <4>2, <4>3, LiveEventState DEF TerminalsIn
    <3> QED
      BY <3>1, <3>2
  <2>5. \A i : i \in TerminalsIn(E2, c, t)
                 <=> i \in TerminalsIn(E, c, t) \cup {R[r].event}
    BY <2>2, <2>3, <2>4, LiveEventState DEF TerminalsIn
  <2>6. TerminalsIn(E2, c, t) = TerminalsIn(E, c, t) \cup {R[r].event}
    BY <2>5
  <2> QED
    BY <2>2, <2>6, TerminalsFinite, FS_AddElement
<1>6. \A t : Cardinality(TerminalsIn(E2, c, t)) =
               Cardinality(TerminalsIn(E, c, t))
                 + (IF t \in TokensAmong(R, D, c) THEN 1 ELSE 0)
  BY <1>4, <1>5, TerminalsFinite
<1> QED
  BY <1>1, <1>3, <1>6

TerminalsKept(E, E2) ==
  \A i \in EventSlot :
    E2[i] # E[i] => E[i].state = "FREE" /\ E2[i].type # "ANIMATION_DONE"

\* A call that ends and starts no animation, and of which no client is told.
LEMMA QuietTokens ==
  ASSUME EffectInv, EffectInv', reservations' = reservations,
         TerminalsKept(events, events')
  PROVE  UNCHANGED <<Active, Told>>
<1>1. TokensNow(Active, reservations) /\ TokensNow(Active', reservations)
  BY ActiveIs, ActiveIsAfter
<1>2. Active' = Active
  BY <1>1 DEF TokensNow
<1>3. ASSUME NEW c \in Client, NEW t \in EffectToken
      PROVE  TerminalsIn(events', c, t) = TerminalsIn(events, c, t)
  <2>1. \A i : i \in TerminalsIn(events', c, t) <=> i \in TerminalsIn(events, c, t)
    BY DEF TerminalsKept, TerminalsIn
  <2> QED
    BY <2>1
<1>4. Told' = Told
  BY <1>3, ToldIs DEF ToldNow
<1> QED
  BY <1>2, <1>4

\* Animations end, and each client is told of its own.
LEMMA FinishTokens ==
  ASSUME EffectInv, EffectInv', NEW D, D \subseteq Reserved,
         Completed(events, events', reservations, reservations', D)
  PROVE  Lifecycle!Finish
<1> DEFINE Gone(c) == TokensAmong(reservations, D, c)
<1>1. ASSUME NEW c \in Client
      PROVE  /\ Gone(c) \subseteq TokensIn(reservations, c)
             /\ TokensIn(reservations', c) = TokensIn(reservations, c) \ Gone(c)
             /\ \A t : Cardinality(TerminalsIn(events', c, t)) =
                         Cardinality(TerminalsIn(events, c, t))
                           + (IF t \in Gone(c) THEN 1 ELSE 0)
  <2>1. D \subseteq ReservedIn(reservations)
    BY DEF Reserved, ReservedIn
  <2>2. \A q, r \in ReservedIn(reservations) :
          reservations[q].token = reservations[r].token => q = r
    BY DEF EffectInv, Links, Paired
  <2> QED
    BY <2>1, <2>2, ReservationsLinked, TokensCompleted
<1>2. \A c \in Client : TokensIn(reservations, c) \subseteq EffectToken
  BY ReservationsLinked DEF TokensIn
<1> HIDE DEF Gone
<1>3. /\ \A c \in Client : Active[c] = TokensIn(reservations, c)
      /\ \A c \in Client : Active'[c] = TokensIn(reservations', c)
      /\ Active' = [c \in Client |-> Active'[c]]
  BY ActiveIs, ActiveIsAfter DEF TokensNow
<1>4. Active' \in [Client -> SUBSET EffectToken]
  BY <1>1, <1>2, <1>3
<1>5. \A c \in Client : Active'[c] \subseteq Active[c]
  BY <1>1, <1>3
<1>6. ASSUME NEW c \in Client, NEW t \in EffectToken
      PROVE  Told'[c][t] = IF t \in Active[c] \ Active'[c] THEN Told[c][t] + 1
                           ELSE Told[c][t]
  <2>1. /\ Told[c][t] = Cardinality(TerminalsIn(events, c, t))
        /\ Told'[c][t] = Cardinality(TerminalsIn(events', c, t))
    BY ToldIs DEF ToldNow
  <2>2. t \in Active[c] \ Active'[c] <=> t \in Gone(c)
    BY <1>1, <1>3
  <2> QED
    BY <1>1, <2>1, <2>2, TerminalsFinite
<1>7. Told' = [c \in Client |-> [t \in EffectToken |-> Told'[c][t]]]
  BY ToldIs DEF ToldNow
<1>8. Told' = [c \in Client |-> [t \in EffectToken |->
                 IF t \in Active[c] \ Active'[c] THEN Told[c][t] + 1
                 ELSE Told[c][t]]]
  BY <1>6, <1>7
<1> QED
  BY <1>4, <1>5, <1>8 DEF Lifecycle!Finish, Active, Told

\* A client reads an event; it may be a terminal one.
LEMMA ReadTokens ==
  ASSUME EffectInv, EffectInv', NEW c \in Client, NextEvent(c)
  PROVE  \/ \E t \in EffectToken : Lifecycle!Read(c, t)
         \/ UNCHANGED <<Active, Told>>
<1> DEFINE i == Head(queue[c])
<1>1. /\ events' = [events EXCEPT ![i] = FreeEvent]
      /\ queue[c] # <<>>
      /\ reservations' = reservations
  BY DEF NextEvent, effectVars
<1>2. i \in EventSlot /\ events[i].state = "LIVE" /\ events[i].owner = c
  <2>1. Enumerates(queue[c], LiveEventsOf(events, c))
    BY DEF EffectInv, TypeOK
  <2>2. i \in LiveEventsOf(events, c)
    BY <1>1, <2>1, TailEnumerates
  <2> QED
    BY <2>2 DEF LiveEventsOf
<1> HIDE DEF i
<1>3. /\ events \in [EventSlot -> EventSlotType]
      /\ \A j \in EventSlot \ {i} : events'[j] = events[j]
      /\ events'[i] = FreeEvent
  BY <1>1, <1>2 DEF EffectInv, TypeOK
<1>4. Active' = Active
  BY <1>1, ActiveIs, ActiveIsAfter DEF TokensNow
<1>5. ASSUME NEW d \in Client, NEW t \in EffectToken,
             ~ /\ d = c /\ events[i].type = "ANIMATION_DONE"
               /\ events[i].token = t
      PROVE  Told'[d][t] = Told[d][t]
  <2>1. \A j : j \in TerminalsIn(events', d, t) <=> j \in TerminalsIn(events, d, t)
    BY <1>2, <1>3, <1>5 DEF TerminalsIn, FreeEvent
  <2>2. TerminalsIn(events', d, t) = TerminalsIn(events, d, t)
    BY <2>1
  <2> QED
    BY <2>2, ToldIs DEF ToldNow
<1>6. /\ Told = [d \in Client |-> [t \in EffectToken |-> Told[d][t]]]
      /\ Told' = [d \in Client |-> [t \in EffectToken |-> Told'[d][t]]]
  BY ToldIs DEF ToldNow
<1>7. ASSUME NEW t \in EffectToken, events[i].type = "ANIMATION_DONE",
             events[i].token = t
      PROVE  Lifecycle!Read(c, t)
  <2>1. \A j : j \in TerminalsIn(events', c, t)
                 <=> j \in TerminalsIn(events, c, t) /\ j # i
    BY <1>3 DEF TerminalsIn, FreeEvent
  <2>2. /\ i \in TerminalsIn(events, c, t)
        /\ TerminalsIn(events', c, t) = TerminalsIn(events, c, t) \ {i}
    BY <1>2, <1>7, <2>1 DEF TerminalsIn
  <2>3. /\ Cardinality(TerminalsIn(events', c, t))
             = Cardinality(TerminalsIn(events, c, t)) - 1
        /\ Cardinality(TerminalsIn(events, c, t)) > 0
    <3>1. Cardinality(TerminalsIn(events, c, t) \ {i})
            = Cardinality(TerminalsIn(events, c, t)) - 1
      BY <2>2, TerminalsFinite, FS_RemoveElement
    <3>2. /\ Cardinality(TerminalsIn(events', c, t)) \in Nat
          /\ Cardinality(TerminalsIn(events, c, t)) \in Nat
      BY TerminalsFinite
    <3> QED
      BY <2>2, <3>1, <3>2
  <2>4. /\ Told[c][t] = Cardinality(TerminalsIn(events, c, t))
        /\ Told'[c][t] = Cardinality(TerminalsIn(events', c, t))
    BY ToldIs DEF ToldNow
  <2>5. Told' = [Told EXCEPT ![c][t] = @ - 1]
    <3> DEFINE N == [Told EXCEPT ![c][t] = @ - 1]
    <3>0. Told \in [Client -> [EffectToken -> Nat]]
      BY ToldIs, TerminalsFinite DEF ToldNow
    <3>1. \A d \in Client : \A u \in EffectToken :
            N[d][u] = IF d = c /\ u = t THEN Told[c][t] - 1 ELSE Told[d][u]
      BY <3>0
    <3>2. N = [d \in Client |-> [u \in EffectToken |-> N[d][u]]]
      <4>1. N \in [Client -> [EffectToken -> Int]]
        BY <3>0
      <4> HIDE DEF N
      <4> QED
        BY <4>1
    <3>3. \A d \in Client : \A u \in EffectToken : Told'[d][u] = N[d][u]
      BY <1>5, <1>7, <2>3, <2>4, <3>1
    <3> HIDE DEF N
    <3>4. [d \in Client |-> [u \in EffectToken |-> Told'[d][u]]]
            = [d \in Client |-> [u \in EffectToken |-> N[d][u]]]
      BY <3>3
    <3>5. Told' = N
      BY <1>6, <3>2, <3>4
    <3> QED
      BY <3>5 DEF N
  <2> QED
    BY <1>4, <2>3, <2>4, <2>5 DEF Lifecycle!Read, Active, Told
<1>8. CASE ~ /\ events[i].type = "ANIMATION_DONE"
             /\ events[i].token \in EffectToken
  <2>1. \A d \in Client, t \in EffectToken : Told'[d][t] = Told[d][t]
    BY <1>5, <1>8
  <2>2. Told' = Told
    BY <1>6, <2>1
  <2> QED
    BY <1>4, <2>2
<1> QED
  BY <1>7, <1>8

\* The tables between the reservation of a new animation and the end of those
\* it replaces.
LEMMA StartIs ==
  ASSUME EffectInv, NEW c \in Client, NEW s \in SurfaceHandle,
         NEW t \in EffectToken, NEW p \in Property, NEW reduced \in BOOLEAN,
         AnimationStart(c, s, t, p, reduced)
  PROVE  \E e \in EventSlot, r \in ReservationSlot \ Reserved : \E E, R :
           /\ events[e].state = "FREE"
           /\ Started(E, R, e, r)
           /\ R[r].owner = c /\ R[r].token = t
           /\ Completed(E, events', R, reservations',
                        UsedUp(ReplacedBy(s, p), r, reduced))
<1> DEFINE e == Lowest(FreeEvents)
           r == Lowest(ReservationSlot \ Reserved)
           K == ReplacedBy(s, p)
           new == [state |-> "RESERVED", event |-> e, owner |-> c,
                   surface |-> s, token |-> t]
           R == [reservations EXCEPT ![r] = new]
           E == [events EXCEPT ![e] = ReservedEvent(c, r)]
           done == StartCompletions(K, r, reduced)
<1>1. /\ OwnedSurface(c, s) /\ EffectBound(s[1])
      /\ CanReserve(c, t) /\ CanAnimate(s, t, p)
      /\ reservations' = ReservationsCompleted(R, done)
      /\ events' = EventsCompleted(E, R, done)
  BY DEF AnimationStart
<1>2. K \in SUBSET Running
  BY DEF ReplacedBy, AnimationsOn
<1>3. /\ e \in EventSlot /\ events[e].state = "FREE"
      /\ r \in ReservationSlot \ Reserved
  <2> HIDE DEF e, r
  <2>1. e = Lowest(FreeEvents) /\ r = Lowest(ReservationSlot \ Reserved)
    BY DEF e, r
  <2> QED
    BY <1>1, <2>1, StartSlots
<1> HIDE DEF e, r, K
<1>4. /\ events \in [EventSlot -> EventSlotType]
      /\ reservations \in [ReservationSlot -> ReservationType]
  BY DEF EffectInv, TypeOK
<1>5. /\ new \in ReservationType
      /\ new.state = "RESERVED" /\ new.event = e
      /\ new.owner = c /\ new.token = t
  BY <1>3 DEF ReservationType, Token
<1> HIDE DEF new
<1>6. /\ R \in [ReservationSlot -> ReservationType]
      /\ R[r] = new
      /\ \A q \in ReservationSlot \ {r} : R[q] = reservations[q]
  BY <1>3, <1>4, <1>5
<1>7. /\ ReservedEvent(c, r) \in EventSlotType
      /\ ReservedEvent(c, r).state = "RESERVED"
      /\ ReservedEvent(c, r).reserved_slot = r
  BY <1>3 DEF ReservedEvent, EventSlotType
<1>8. /\ E \in [EventSlot -> EventSlotType]
      /\ E[e].state = "RESERVED" /\ E[e].reserved_slot = r
      /\ \A i \in EventSlot \ {e} : E[i] = events[i]
  BY <1>3, <1>4, <1>7
<1> HIDE DEF R, E
<1>9. Started(E, R, e, r) /\ R[r].owner = c /\ R[r].token = t
  BY <1>5, <1>6, <1>8 DEF Started
<1>10. done = StartCompletions(K, r, reduced)
  OBVIOUS
<1> HIDE DEF done
<1>11. Completed(E, events', R, reservations', UsedUp(K, r, reduced))
  BY <1>1, <1>2, <1>3, <1>9, <1>10, StartTables
<1> QED
  BY <1>3, <1>9, <1>11 DEF K

\* An animation starts, and a client is told of those it replaces.
LEMMA StartTokens ==
  ASSUME EffectInv, EffectInv', NEW c \in Client, NEW s \in SurfaceHandle,
         NEW t \in EffectToken, NEW p \in Property, NEW reduced \in BOOLEAN,
         AnimationStart(c, s, t, p, reduced)
  PROVE  Lifecycle!Start(c, t) \/ Lifecycle!StartReduced(c, t)
<1> DEFINE K == ReplacedBy(s, p)
           gone == TokensAmong(reservations, EndedBy(K), c)
<1>1. PICK e \in EventSlot, r \in ReservationSlot \ Reserved : \E E, R :
           /\ events[e].state = "FREE"
           /\ Started(E, R, e, r)
           /\ R[r].owner = c /\ R[r].token = t
           /\ Completed(E, events', R, reservations', UsedUp(K, r, reduced))
  BY StartIs
<1>2. PICK E, R :
           /\ events[e].state = "FREE"
           /\ Started(E, R, e, r)
           /\ R[r].owner = c /\ R[r].token = t
           /\ Completed(E, events', R, reservations', UsedUp(K, r, reduced))
  BY <1>1
<1> DEFINE D == UsedUp(K, r, reduced)
<1>3. /\ ReservedIn(R) = Reserved \cup {r}
      /\ SlotsLinked(E, R)
      /\ \A q \in ReservedIn(R) : E[R[q].event].state = "RESERVED"
  BY <1>2, StartLinks
<1>4. \A q \in Reserved : /\ q # r /\ R[q] = reservations[q]
                          /\ reservations[q].token # t
                          /\ reservations[q].token \in EffectToken
  <2> SUFFICES ASSUME NEW q \in Reserved
               PROVE  /\ q # r /\ R[q] = reservations[q]
                      /\ reservations[q].token # t
                      /\ reservations[q].token \in EffectToken
    OBVIOUS
  <2>1. q # r /\ R[q] = reservations[q]
    BY <1>2 DEF Started, Reserved
  <2>2. PICK k \in Running : Pair(timeline, k, reservations, q)
    BY OnePair
  <2>3. timeline[k].token # t
    BY DEF AnimationStart, CanAnimate
  <2> QED
    BY <2>1, <2>2, <2>3, ReservationGraphOf DEF Pair
<1>5. \A q, u \in ReservedIn(R) : R[q].token = R[u].token => q = u
  BY <1>2, <1>3, <1>4 DEF EffectInv, Links, Paired, Reserved, ReservedIn
<1>6. \A q \in EndedBy(K) : q \in Reserved /\ reservations[q].owner = c
  <2> SUFFICES ASSUME NEW q \in EndedBy(K)
               PROVE  q \in Reserved /\ reservations[q].owner = c
    OBVIOUS
  <2>1. q \in Reserved /\ \E k \in K : Pair(timeline, k, reservations, q)
    BY DEF EndedBy
  <2>2. reservations[q].surface = s
    BY <2>1 DEF Pair, ReplacedBy, AnimationsOn
  <2>3. surfaces[s[1]].owner = c
    BY OwnedSlot DEF AnimationStart
  <2> QED
    BY <2>1, <2>2, <2>3, ReservationGraphOf
<1>7. D \subseteq ReservedIn(R)
  BY <1>3, <1>6 DEF UsedUp
<1>8. \A q \in D : \/ q \in EndedBy(K) /\ R[q] = reservations[q]
                   \/ reduced /\ q = r
  BY <1>4, <1>6 DEF UsedUp
<1>9. /\ TokensIn(R, c) = TokensIn(reservations, c) \cup {t}
      /\ TokensAmong(R, D, c) = gone \cup (IF reduced THEN {t} ELSE {})
  <2>1. \A u : u \in TokensIn(R, c)
                 <=> u \in TokensIn(reservations, c) \/ u = t
    <3>1. \A q : q \in ReservedIn(R) /\ R[q].owner = c
                   <=> \/ q \in Reserved /\ reservations[q].owner = c
                       \/ q = r
      BY <1>2, <1>3, <1>4
    <3>2. ASSUME NEW u \in TokensIn(R, c)
          PROVE  u \in TokensIn(reservations, c) \/ u = t
      <4>1. PICK q \in ReservedIn(R) : R[q].owner = c /\ R[q].token = u
        BY DEF TokensIn
      <4> QED
        BY <1>2, <1>4, <3>1, <4>1 DEF TokensIn, Reserved, ReservedIn
    <3>3. \A u \in TokensIn(reservations, c) : u \in TokensIn(R, c)
      BY <1>4, <3>1 DEF TokensIn, Reserved, ReservedIn
    <3>4. t \in TokensIn(R, c)
      BY <1>2, <1>3 DEF TokensIn
    <3> QED
      BY <3>2, <3>3, <3>4
  <2>2. \A u : u \in TokensAmong(R, D, c) <=> u \in gone \/ (reduced /\ u = t)
    <3>1. ASSUME NEW u \in TokensAmong(R, D, c)
          PROVE  u \in gone \/ (reduced /\ u = t)
      <4>1. PICK q \in D : R[q].owner = c /\ R[q].token = u
        BY DEF TokensAmong
      <4> QED
        BY <1>2, <1>8, <4>1 DEF TokensAmong
    <3>2. ASSUME NEW u \in gone
          PROVE  u \in TokensAmong(R, D, c)
      <4>1. PICK q \in EndedBy(K) : reservations[q].owner = c
                                    /\ reservations[q].token = u
        BY DEF TokensAmong
      <4>2. q \in D /\ R[q] = reservations[q]
        BY <1>4, <1>6, <4>1 DEF UsedUp
      <4> QED
        BY <4>1, <4>2 DEF TokensAmong
    <3>3. reduced => t \in TokensAmong(R, D, c)
      <4>1. reduced => r \in D
        BY DEF UsedUp
      <4> QED
        BY <1>2, <4>1 DEF TokensAmong
    <3> QED
      BY <3>1, <3>2, <3>3
  <2> QED
    BY <2>1, <2>2
<1>10. ASSUME NEW d \in Client, d # c
       PROVE  /\ TokensIn(R, d) = TokensIn(reservations, d)
              /\ TokensAmong(R, D, d) = {}
  <2>1. \A q : q \in ReservedIn(R) /\ R[q].owner = d
                 <=> q \in Reserved /\ reservations[q].owner = d
    BY <1>2, <1>3, <1>4, <1>10
  <2>2. \A u : u \in TokensIn(R, d) <=> u \in TokensIn(reservations, d)
    BY <1>4, <2>1 DEF TokensIn, Reserved, ReservedIn
  <2>3. \A q \in D : R[q].owner # d
    BY <1>2, <1>6, <1>8, <1>10
  <2> QED
    BY <2>2, <2>3 DEF TokensAmong
<1>11. ASSUME NEW d \in Client, NEW u
       PROVE  TerminalsIn(E, d, u) = TerminalsIn(events, d, u)
  <2>1. \A i : i \in TerminalsIn(E, d, u) <=> i \in TerminalsIn(events, d, u)
    BY <1>2 DEF Started, TerminalsIn
  <2> QED
    BY <2>1
<1>12. t \notin TokensIn(reservations, c) /\ gone \subseteq TokensIn(reservations, c)
  BY <1>4, <1>6 DEF TokensIn, TokensAmong, Reserved, ReservedIn
<1> HIDE DEF D, gone
<1>13. \A d \in Client :
         /\ TokensIn(reservations', d) = TokensIn(R, d) \ TokensAmong(R, D, d)
         /\ \A u : Cardinality(TerminalsIn(events', d, u)) =
                     Cardinality(TerminalsIn(E, d, u))
                       + (IF u \in TokensAmong(R, D, d) THEN 1 ELSE 0)
  <2>1. Completed(E, events', R, reservations', D)
    BY <1>2 DEF D
  <2> QED
    BY <1>3, <1>5, <1>7, <2>1, TokensCompleted
<1>14. /\ TokensNow(Active, reservations) /\ TokensNow(Active', reservations')
       /\ ToldNow(Told, events) /\ ToldNow(Told', events')
  BY ActiveIs, ActiveIsAfter, ToldIs
<1> DEFINE left == IF reduced THEN {} ELSE {t}
           ends == gone \cup (IF reduced THEN {t} ELSE {})
<1>15. Active' = [Active EXCEPT ![c] = (@ \ gone) \cup left]
  <2>1. \A d \in Client : /\ Active[d] = TokensIn(reservations, d)
                          /\ Active'[d] = TokensIn(reservations', d)
    BY <1>14 DEF TokensNow
  <2>2. Active'[c] = (Active[c] \ gone) \cup left
    BY <1>9, <1>12, <1>13, <2>1
  <2>3. \A d \in Client : d # c => Active'[d] = Active[d]
    BY <1>10, <1>13, <2>1
  <2>4. Active = [d \in Client |-> Active[d]] /\ Active' = [d \in Client |-> Active'[d]]
    BY <1>14 DEF TokensNow
  <2> HIDE DEF left
  <2> QED
    BY <2>2, <2>3, <2>4
<1>16. Told' = [Told EXCEPT ![c] = [u \in EffectToken |->
                  IF u \in ends THEN @[u] + 1 ELSE @[u]]]
  <2>1. \A d \in Client : \A u \in EffectToken :
          /\ Told[d][u] = Cardinality(TerminalsIn(events, d, u))
          /\ Told'[d][u] = Cardinality(TerminalsIn(events', d, u))
    BY <1>14 DEF ToldNow
  <2>2. \A u \in EffectToken :
          Told'[c][u] = IF u \in ends THEN Told[c][u] + 1 ELSE Told[c][u]
    BY <1>9, <1>11, <1>13, <2>1, TerminalsFinite
  <2>3. \A d \in Client : d # c =>
          \A u \in EffectToken : Told'[d][u] = Told[d][u]
    BY <1>10, <1>11, <1>13, <2>1, TerminalsFinite
  <2> HIDE DEF ends
  <2>4. /\ Told = [d \in Client |-> Told[d]] /\ Told' = [d \in Client |-> Told'[d]]
        /\ \A d \in Client : /\ Told[d] = [u \in EffectToken |-> Told[d][u]]
                             /\ Told'[d] = [u \in EffectToken |-> Told'[d][u]]
    BY <1>14 DEF ToldNow
  <2>5. Told'[c] = [u \in EffectToken |->
                      IF u \in ends THEN Told[c][u] + 1 ELSE Told[c][u]]
    BY <2>2, <2>4
  <2>6. \A d \in Client : d # c => Told'[d] = Told[d]
    BY <2>3, <2>4
  <2> QED
    BY <2>4, <2>5, <2>6
<1>17. t \notin Active[c] /\ gone \in SUBSET Active[c]
  BY <1>12, <1>14 DEF TokensNow
<1>18. CASE reduced
  <2>1. /\ Active' = [Active EXCEPT ![c] = @ \ gone]
        /\ Told' = [Told EXCEPT ![c] = [u \in EffectToken |->
                      IF u \in gone \cup {t} THEN @[u] + 1 ELSE @[u]]]
    BY <1>15, <1>16, <1>18
  <2> QED
    BY <1>17, <2>1 DEF Lifecycle!StartReduced, Active, Told
<1>19. CASE ~reduced
  <2>1. /\ Active' = [Active EXCEPT ![c] = (@ \ gone) \cup {t}]
        /\ Told' = [Told EXCEPT ![c] = [u \in EffectToken |->
                      IF u \in gone THEN @[u] + 1 ELSE @[u]]]
    BY <1>15, <1>16, <1>19
  <2> QED
    BY <1>17, <2>1 DEF Lifecycle!Start, Active, Told
<1> QED
  BY <1>18, <1>19

\* A client goes with its animations and is told nothing any more.
LEMMA DisconnectTokens ==
  ASSUME EffectInv, EffectInv', NEW c \in Client, ClientDisconnect(c)
  PROVE  Lifecycle!Disconnect(c)
<1>1. /\ reservations' = ReservationsWithout(c)
      /\ events' = [i \in EventSlot |-> IF events[i].owner = c THEN FreeEvent
                                        ELSE events[i]]
  BY DEF ClientDisconnect
<1>2. c # NoClient
  BY EffectCapacityAssumption
<1>3. /\ \A r \in ReservedIn(reservations') :
           /\ r \in ReservedIn(reservations) /\ reservations[r].owner # c
           /\ reservations'[r] = reservations[r]
      /\ \A r \in ReservedIn(reservations) :
           reservations[r].owner # c => /\ r \in ReservedIn(reservations')
                                        /\ reservations'[r] = reservations[r]
  BY <1>1 DEF ReservationsWithout, ReservedIn, FreeReservation
<1>4. TokensIn(reservations', c) = {}
  BY <1>3 DEF TokensIn
<1>5. ASSUME NEW d \in Client, d # c
      PROVE  TokensIn(reservations', d) = TokensIn(reservations, d)
  <2>1. \A u : u \in TokensIn(reservations', d) <=> u \in TokensIn(reservations, d)
    BY <1>3, <1>5 DEF TokensIn
  <2> QED
    BY <2>1
<1>6. \A u : TerminalsIn(events', c, u) = {}
  BY <1>1, <1>2 DEF TerminalsIn, FreeEvent
<1>7. ASSUME NEW d \in Client, d # c, NEW u
      PROVE  TerminalsIn(events', d, u) = TerminalsIn(events, d, u)
  <2>1. \A i : i \in TerminalsIn(events', d, u) <=> i \in TerminalsIn(events, d, u)
    BY <1>1, <1>7 DEF TerminalsIn, FreeEvent
  <2> QED
    BY <2>1
<1>8. Active' = [Active EXCEPT ![c] = {}]
  BY <1>4, <1>5, ActiveIs, ActiveIsAfter DEF TokensNow
<1>9. Told' = [Told EXCEPT ![c] = [t \in EffectToken |-> 0]]
  <2>1. Told'[c] = [t \in EffectToken |-> 0]
    BY <1>6, ToldIs, FS_EmptySet DEF ToldNow
  <2>2. \A d \in Client : d # c => Told'[d] = Told[d]
    BY <1>7, ToldIs DEF ToldNow
  <2>3. Told = [d \in Client |-> Told[d]] /\ Told' = [d \in Client |-> Told'[d]]
    BY ToldIs DEF ToldNow
  <2> QED
    BY <2>1, <2>2, <2>3
<1> QED
  BY <1>8, <1>9 DEF Lifecycle!Disconnect, Active, Told

LEMMA ReleaseTokens ==
  ASSUME EffectInv, NEW S, NEW c \in Client, NEW s, MaybeRelease(S, c, s)
  PROVE  TerminalsKept(events, events')
<1>1. FreeEvents \subseteq Nat
  BY EffectCapacityAssumption DEF FreeEvents, EventSlot
<1>2. FreeEvents # {} => Lowest(FreeEvents) \in FreeEvents
  BY <1>1, LowestIn
<1>3. events \in [EventSlot -> EventSlotType]
  BY DEF EffectInv, TypeOK
<1> QED
  BY <1>2, <1>3, LiveEventState DEF MaybeRelease, TerminalsKept, FreeEvents

LEMMA PresentTokens ==
  ASSUME EffectInv, PresentDone
  PROVE  TerminalsKept(events, events')
<1> DEFINE slots == InSlotOrder(FreeEvents)
           n == Cardinality(Reported)
<1>1. ASSUME NEW i \in EventSlot, events'[i] # events[i]
      PROVE  /\ \E k \in 1 .. n : slots[k] = i
             /\ events'[i].type = "FRAME_DONE"
  <2>1. \E k \in 1 .. n : slots[k] = i
    BY <1>1 DEF PresentDone
  <2>2. \E c, t : events'[i] = LiveEvent(c, "FRAME_DONE", t)
    BY <2>1 DEF PresentDone
  <2> QED
    BY <2>1, <2>2, LiveEventState
<1>2. \A k \in 1 .. n : slots[k] \in FreeEvents
  <2>1. EventCapacity \in Nat /\ FreeEvents \in SUBSET (1 .. EventCapacity)
    BY EffectCapacityAssumption DEF FreeEvents, EventSlot
  <2>2. /\ n \in Nat /\ n <= Cardinality(FreeEvents)
        /\ Cardinality(FreeEvents) \in Nat
    BY PresentRoom DEF PresentDone
  <2> HIDE DEF n
  <2>3. \A k \in 1 .. n : k \in 1 .. Cardinality(FreeEvents)
    BY <2>2
  <2> QED
    BY <2>1, <2>3, InSlotOrderRank
<1> HIDE DEF slots, n
<1> QED
  BY <1>1, <1>2 DEF TerminalsKept, FreeEvents

LifecycleStep == \/ Lifecycle!Next
                 \/ UNCHANGED <<Active, Told>>

LEMMA SilentStep ==
  ASSUME EffectInv, EffectInv', reservations' = reservations,
         TerminalsKept(events, events')
  PROVE  LifecycleStep
  BY QuietTokens DEF LifecycleStep

LEMMA FinishStep ==
  ASSUME EffectInv, EffectInv', NEW K \in SUBSET Running,
         events' = EventsCompleted(events, reservations, ReservationsOf(K)),
         reservations' = ReservationsCompleted(reservations, ReservationsOf(K))
  PROVE  LifecycleStep
<1>1. Completed(events, events', reservations, reservations', EndedBy(K))
  BY EndedTables
<1>2. EndedBy(K) \subseteq Reserved
  BY DEF EndedBy
<1>3. Lifecycle!Finish
  BY <1>1, <1>2, FinishTokens
<1> QED
  BY <1>3 DEF LifecycleStep, Lifecycle!Next

LEMMA EventsUnchanged == ASSUME events' = events
                         PROVE  TerminalsKept(events, events')
  BY DEF TerminalsKept

LEMMA PlainLifecycleStep ==
  ASSUME EffectInv, EffectInv', NEW c \in Client,
         \/ SurfaceCreate(c)
         \/ NextEvent(c)
         \/ ClientDisconnect(c)
         \/ \E s \in SurfaceHandle :
              \/ SurfaceCommit(c, s)
              \/ SurfaceDestroy(c, s)
              \/ \E t \in FrameToken : SurfaceFrame(c, s, t)
  PROVE  LifecycleStep
<1>1. CASE SurfaceCreate(c)
  <2>1. events' = events /\ reservations' = reservations
    BY <1>1 DEF SurfaceCreate, effectVars
  <2> QED
    BY <2>1, EventsUnchanged, SilentStep
<1>2. CASE NextEvent(c)
  <2>1. \/ \E t \in EffectToken : Lifecycle!Read(c, t)
        \/ UNCHANGED <<Active, Told>>
    BY <1>2, ReadTokens
  <2> QED
    BY <2>1 DEF LifecycleStep, Lifecycle!Next
<1>3. CASE ClientDisconnect(c)
  <2>1. Lifecycle!Disconnect(c)
    BY <1>3, DisconnectTokens
  <2> QED
    BY <2>1 DEF LifecycleStep, Lifecycle!Next
<1>4. ASSUME NEW s \in SurfaceHandle, SurfaceCommit(c, s)
      PROVE  LifecycleStep
  <2>1. /\ \E S : MaybeRelease(S, c, s)
        /\ reservations' = reservations
    BY <1>4 DEF SurfaceCommit, Commit, effectVars
  <2> QED
    BY <2>1, ReleaseTokens, SilentStep
<1>5. ASSUME NEW s \in SurfaceHandle, SurfaceDestroy(c, s)
      PROVE  LifecycleStep
  <2>1. /\ MaybeRelease(surfaces, c, s)
        /\ reservations' = reservations
    BY <1>5 DEF SurfaceDestroy, effectVars
  <2> QED
    BY <2>1, ReleaseTokens, SilentStep
<1>6. ASSUME NEW s \in SurfaceHandle, NEW t \in FrameToken, SurfaceFrame(c, s, t)
      PROVE  LifecycleStep
  <2>1. events' = events /\ reservations' = reservations
    BY <1>6 DEF SurfaceFrame, effectVars
  <2> QED
    BY <2>1, EventsUnchanged, SilentStep
<1> QED
  BY <1>1, <1>2, <1>3, <1>4, <1>5, <1>6

LEMMA EffectLifecycleStep ==
  ASSUME EffectInv, EffectInv', EffectStep
  PROVE  LifecycleStep
<1> SUFFICES ASSUME NEW c \in Client, NEW s \in SurfaceHandle,
                    \/ SurfaceDestroyEx(c, s)
                    \/ \E t \in FrameToken \cup {NoToken} :
                         SurfaceCommitEx(c, s, t)
                    \/ \E enabled \in SUBSET Optional : EffectSet(c, s, enabled)
                    \/ \E t \in EffectToken, p \in Property,
                          reduced \in BOOLEAN :
                         AnimationStart(c, s, t, p, reduced)
                    \/ \E t \in EffectToken : AnimationCancel(c, s, t)
             PROVE  LifecycleStep
  BY DEF EffectStep
<1>1. CASE SurfaceDestroyEx(c, s)
  <2>1. AnimationsOn(s) \in SUBSET Running
    BY DEF AnimationsOn
  <2>2. /\ events' = EventsCompleted(events, reservations,
                                     ReservationsOf(AnimationsOn(s)))
        /\ reservations' = ReservationsCompleted(reservations,
                                                 ReservationsOf(AnimationsOn(s)))
    BY <1>1 DEF SurfaceDestroyEx
  <2> QED
    BY <2>1, <2>2, FinishStep
<1>2. ASSUME NEW t \in FrameToken \cup {NoToken}, SurfaceCommitEx(c, s, t)
      PROVE  LifecycleStep
  <2>1. /\ \E S : MaybeRelease(S, c, s)
        /\ reservations' = reservations
    BY <1>2 DEF SurfaceCommitEx, Commit
  <2> QED
    BY <2>1, ReleaseTokens, SilentStep
<1>3. ASSUME NEW enabled \in SUBSET Optional, EffectSet(c, s, enabled)
      PROVE  LifecycleStep
  <2>1. events' = events /\ reservations' = reservations
    BY <1>3 DEF EffectSet, coreVars
  <2> QED
    BY <2>1, EventsUnchanged, SilentStep
<1>4. ASSUME NEW t \in EffectToken, NEW p \in Property, NEW reduced \in BOOLEAN,
             AnimationStart(c, s, t, p, reduced)
      PROVE  LifecycleStep
  <2>1. Lifecycle!Start(c, t) \/ Lifecycle!StartReduced(c, t)
    BY <1>4, StartTokens
  <2> QED
    BY <2>1 DEF LifecycleStep, Lifecycle!Next
<1>5. ASSUME NEW t \in EffectToken, AnimationCancel(c, s, t)
      PROVE  LifecycleStep
  <2>1. PICK k \in AnimationsOn(s) : End({k})
    BY <1>5 DEF AnimationCancel
  <2>2. {k} \in SUBSET Running
    BY DEF AnimationsOn
  <2>3. /\ events' = EventsCompleted(events, reservations, ReservationsOf({k}))
        /\ reservations' = ReservationsCompleted(reservations,
                                                 ReservationsOf({k}))
    BY <2>1 DEF End
  <2> QED
    BY <2>2, <2>3, FinishStep
<1> QED
  BY <1>1, <1>2, <1>3, <1>4, <1>5

LEMMA NextLifecycleStep ==
  ASSUME EffectInv, EffectInv', [Next]_vars
  PROVE  LifecycleStep
<1>1. ASSUME NEW c \in Client,
             \/ SurfaceCreate(c)
             \/ NextEvent(c)
             \/ ClientDisconnect(c)
             \/ \E s \in SurfaceHandle :
                  \/ SurfaceCommit(c, s)
                  \/ SurfaceDestroy(c, s)
                  \/ \E t \in FrameToken : SurfaceFrame(c, s, t)
      PROVE  LifecycleStep
  BY <1>1, PlainLifecycleStep
<1>2. CASE EffectsBind \/ BuildFrame \/ UNCHANGED vars
  <2>1. events' = events /\ reservations' = reservations
    BY <1>2 DEF EffectsBind, BuildFrame, vars, coreVars, effectVars
  <2> QED
    BY <2>1, EventsUnchanged, SilentStep
<1>3. CASE PresentDone
  <2>1. reservations' = reservations
    BY <1>3 DEF PresentDone, effectVars
  <2> QED
    BY <1>3, <2>1, PresentTokens, SilentStep
<1>4. ASSUME NEW K \in SUBSET Running, BuildFrameEx(K)
      PROVE  LifecycleStep
  <2>1. /\ events' = EventsCompleted(events, reservations, ReservationsOf(K))
        /\ reservations' = ReservationsCompleted(reservations, ReservationsOf(K))
    BY <1>4 DEF BuildFrameEx, End
  <2> QED
    BY <2>1, FinishStep
<1> QED
  BY <1>1, <1>2, <1>3, <1>4, EffectLifecycleStep DEF Next

\* To a client, a token is active from the call that accepts it until its one
\* terminal event is queued; replacing, cancelling, running out and the end
\* of the surface each tell it once, a disconnect tells nothing.  The four
\* tables, which change by moo_i1_reserve2 and moo_i1_complete2, implement
\* the effect protocol.
THEOREM EffectsImplementLifecycle == Spec => LifecycleSpec
<1>1. Init => Lifecycle!Init
  <2> SUFFICES ASSUME Init PROVE Lifecycle!Init
    OBVIOUS
  <2>1. ASSUME NEW c \in Client
        PROVE  RunningTokens(c) = {}
    BY DEF Init, RunningTokens, AnimationsOf, Running, NoAnimation
  <2>2. ASSUME NEW c \in Client, NEW t \in EffectToken
        PROVE  ToldOf(c, t) = 0
    <3>1. TerminalsIn(events, c, t) = {}
      BY DEF Init, TerminalsIn, FreeEvent
    <3> QED
      BY <3>1, FS_EmptySet DEF ToldOf, TerminalsIn
  <2> QED
    BY <2>1, <2>2 DEF Lifecycle!Init
<1>2. EffectInv /\ EffectInv' /\ [Next]_vars => [Lifecycle!Next]_<<Active, Told>>
  BY NextLifecycleStep DEF LifecycleStep
<1>3. LifecycleSpec <=> Lifecycle!Init /\ [][Lifecycle!Next]_<<Active, Told>>
  BY PTL DEF LifecycleSpec, Lifecycle!Spec, Lifecycle!vars, Active, Told
<1>4. Init => EffectInv
  BY InitEffectInv
<1>5. EffectInv /\ [Next]_vars => EffectInv'
  BY NextKeeps
<1> QED
  BY <1>1, <1>2, <1>3, <1>4, <1>5, PTL DEF Spec
=============================================================================
