--------------------------- MODULE DictTableProofs ---------------------------
(***************************************************************************)
(* Proofs about DictTable: for every set of keys and values, every hash    *)
(* function, capacity and load factor the table stays sound through sets,  *)
(* removes and growth, and what the searches find is what a map would hold.*)
(***************************************************************************)
EXTENDS DictTable, FiniteSetTheorems, WellFoundedInduction, TLAPS

-----------------------------------------------------------------------------
(* The way of a search through the table.                                  *)

Capacity == Nat \ {0}

\* A search sees every slot once.
LEMMA ProbesOnce ==
  ASSUME NEW k \in Key, NEW cap \in Capacity,
         NEW s \in Slot(cap), NEW r \in Slot(cap)
  PROVE  /\ Probes(k, s, cap) \in Slot(cap)
         /\ Probes(k, s, cap) = Probes(k, r, cap) => s = r
<1>1. HashString[k] \in Nat /\ cap \in Nat \ {0}
  BY LoadAssumption DEF Capacity
<1>2. Home(k, cap) \in 0 .. cap - 1 BY <1>1 DEF Home
<1> QED BY <1>1, <1>2 DEF Probes, Slot

\* There is a first one of the slots S.
LEMMA FirstOne ==
  ASSUME NEW k \in Key, NEW cap \in Capacity,
         NEW S \in SUBSET Slot(cap), S # {}
  PROVE  /\ First(S, k, cap) \in S
         /\ \A r \in S : Probes(k, First(S, k, cap), cap) <= Probes(k, r, cap)
<1> DEFINE Less == {p \in Nat \X Nat : p[1] < p[2]}
           N    == {Probes(k, s, cap) : s \in S}
<1>1. IsWellFoundedOn(Less, Nat) BY NatLessThanWellFounded DEF OpToRel
<1>2. \A s \in S : Probes(k, s, cap) \in Nat
  BY ProbesOnce DEF Slot, Capacity
<1>3. N \subseteq Nat /\ N # {} BY <1>2
<1>4. PICK n \in N : \A m \in N : ~ (<<m, n>> \in Less)
  <2> HIDE DEF Less, N
  <2> QED BY <1>1, <1>3, WFMin
<1>5. PICK s \in S : n = Probes(k, s, cap) BY <1>4
<1>6. \A r \in S : Probes(k, s, cap) <= Probes(k, r, cap)
  <2> SUFFICES ASSUME NEW r \in S
               PROVE  Probes(k, s, cap) <= Probes(k, r, cap)
    OBVIOUS
  <2>1. ~ (<<Probes(k, r, cap), n>> \in Less) BY <1>4
  <2>2. n \in Nat /\ Probes(k, r, cap) \in Nat BY <1>2, <1>5
  <2>3. ~ (Probes(k, r, cap) < n) BY <2>1, <2>2
  <2> QED BY <1>5, <2>2, <2>3
<1> QED BY <1>6 DEF First

-----------------------------------------------------------------------------
(* Tables.                                                                 *)

\* The entries of a table of cap slots.
Table(T, cap) ==
  /\ cap \in Capacity
  /\ T = [s \in Slot(cap) |-> T[s]]
  /\ \A s \in Slot(cap) :
       /\ T[s].state \in {"UNUSED", "DELETED", "OCCUPIED"}
       /\ T[s].state = "OCCUPIED" => T[s].key \in Key /\ T[s].value \in Value

\* What Sound says, slot by slot.
LEMMA SoundSlots ==
  ASSUME NEW T, NEW cap, Table(T, cap)
  PROVE  Sound(T, cap) <=>
           /\ \E s \in Slot(cap) : T[s].state = "UNUSED"
           /\ \A s \in Slot(cap), r \in Slot(cap), k \in Key :
                Holds(T, s, k) =>
                  /\ Probes(k, r, cap) < Probes(k, s, cap)
                       => T[r].state # "UNUSED"
                  /\ Holds(T, r, k) => r = s
<1>1. DOMAIN T = Slot(cap) BY DEF Table
<1>2. \A s \in Slot(cap) : s \in Occupied(T) <=> T[s].state = "OCCUPIED"
  BY <1>1 DEF Occupied
<1>3. \A s \in Occupied(T) : s \in Slot(cap) /\ T[s].key \in Key
                             /\ Holds(T, s, T[s].key)
  BY <1>1 DEF Occupied, Table, Holds
<1>4. \A s \in Slot(cap), k \in Key :
        Holds(T, s, k) => s \in Occupied(T) /\ T[s].key = k
  BY <1>2 DEF Holds
<1> QED BY <1>3, <1>4 DEF Sound

\* A key that is there is found.
LEMMA Finds ==
  ASSUME NEW T, NEW cap, Table(T, cap), Sound(T, cap),
         NEW k \in Key, NEW s \in Slot(cap), Holds(T, s, k)
  PROVE  FindSlot(T, k, cap) = s
<1> DEFINE ends == Ends(T, k, cap)
           end  == First(ends, k, cap)
<1>1. cap \in Capacity BY DEF Table
<1>2. ends \in SUBSET Slot(cap) /\ s \in ends BY DEF Ends
<1>3. end \in ends /\ Probes(k, end, cap) <= Probes(k, s, cap)
  BY <1>1, <1>2, FirstOne
<1>4. end \in Slot(cap) BY <1>2, <1>3
<1>5. CASE Probes(k, end, cap) = Probes(k, s, cap)
  <2>1. end = s BY <1>1, <1>4, <1>5, ProbesOnce
  <2>2. ends # {} BY <1>2
  <2> HIDE DEF ends, end
  <2>3. FindSlot(T, k, cap) = end BY <2>1, <2>2 DEF FindSlot, ends, end
  <2> QED BY <2>1, <2>3
<1>6. CASE Probes(k, end, cap) < Probes(k, s, cap)
  <2>1. T[end].state # "UNUSED" BY <1>4, <1>6, SoundSlots
  <2>2. Holds(T, end, k) BY <1>3, <2>1 DEF Ends
  <2>3. end = s BY <1>4, <2>2, SoundSlots
  <2>4. ends # {} BY <1>2
  <2> HIDE DEF ends, end
  <2>5. FindSlot(T, k, cap) = end BY <2>2, <2>4 DEF FindSlot, ends, end
  <2> QED BY <2>3, <2>5
<1>7. Probes(k, end, cap) \in Int /\ Probes(k, s, cap) \in Int
  BY <1>1, <1>4, ProbesOnce DEF Slot, Capacity
<1> QED BY <1>3, <1>5, <1>6, <1>7

Absent(T, cap, k) == \A s \in Slot(cap) : ~Holds(T, s, k)

\* For a key that is not there the search ends at a slot it may take, with no
\* unused slot before it.
LEMMA Misses ==
  ASSUME NEW T, NEW cap, Table(T, cap), Sound(T, cap),
         NEW k \in Key, Absent(T, cap, k)
  PROVE  LET f == FindSlot(T, k, cap)
         IN  /\ f \in Slot(cap)
             /\ T[f].state \in {"UNUSED", "DELETED"}
             /\ \A r \in Slot(cap) :
                  Probes(k, r, cap) < Probes(k, f, cap)
                    => T[r].state # "UNUSED"
<1> DEFINE ends   == Ends(T, k, cap)
           end    == First(ends, k, cap)
           passed == {s \in Deleted(T) :
                        ends = {} \/ Probes(k, s, cap) < Probes(k, end, cap)}
           f      == FindSlot(T, k, cap)
<1>1. cap \in Capacity /\ DOMAIN T = Slot(cap) BY DEF Table
<1>2. ends = {s \in Slot(cap) : T[s].state = "UNUSED"} BY DEF Ends, Absent
<1>3. ends \in SUBSET Slot(cap) /\ ends # {} BY <1>2, SoundSlots
<1>4. end \in ends /\ \A r \in ends : Probes(k, end, cap) <= Probes(k, r, cap)
  BY <1>1, <1>3, FirstOne
<1>5. end \in Slot(cap) /\ T[end].state = "UNUSED" BY <1>2, <1>4
<1>6. ~Holds(T, end, k) BY <1>5 DEF Absent
<1>7. \A r \in Slot(cap) : Probes(k, r, cap) \in Int
  BY <1>1, ProbesOnce DEF Slot, Capacity
<1>8. CASE passed # {}
  <2>1. passed \in SUBSET Slot(cap) BY <1>1 DEF Deleted
  <2>2. First(passed, k, cap) \in passed BY <1>1, <1>8, <2>1, FirstOne
  <2>3. f = First(passed, k, cap)
    <3> HIDE DEF ends, end, passed
    <3> QED BY <1>3, <1>6, <1>8 DEF FindSlot, ends, end, passed
  <2>4. /\ f \in Slot(cap) /\ T[f].state = "DELETED"
        /\ Probes(k, f, cap) < Probes(k, end, cap)
    BY <1>1, <1>3, <2>2, <2>3 DEF Deleted
  <2>5. ASSUME NEW r \in Slot(cap), Probes(k, r, cap) < Probes(k, f, cap)
        PROVE  T[r].state # "UNUSED"
    <3>1. Probes(k, r, cap) < Probes(k, end, cap)
      BY <1>5, <1>7, <2>4, <2>5
    <3> QED BY <1>2, <1>4, <1>5, <1>7, <3>1
  <2> QED BY <2>4, <2>5
<1>9. CASE passed = {}
  <2>1. f = end
    <3> HIDE DEF ends, end, passed
    <3> QED BY <1>3, <1>6, <1>9 DEF FindSlot, ends, end, passed
  <2>2. ASSUME NEW r \in Slot(cap), Probes(k, r, cap) < Probes(k, end, cap)
        PROVE  T[r].state # "UNUSED"
    BY <1>2, <1>4, <1>5, <1>7, <2>2
  <2> QED BY <1>5, <2>1, <2>2
<1> QED BY <1>8, <1>9

\* The search ends inside the table, at the key or at a slot without one.
LEMMA FoundSlot ==
  ASSUME NEW T, NEW cap, Table(T, cap), Sound(T, cap),
         NEW k \in Key
  PROVE  LET f == FindSlot(T, k, cap)
         IN  /\ f \in Slot(cap)
             /\ T[f].state = "OCCUPIED" => Holds(T, f, k)
             /\ T[f].state # "OCCUPIED" => Absent(T, cap, k)
             /\ \A r \in Slot(cap) :
                  Probes(k, r, cap) < Probes(k, f, cap)
                    => T[r].state # "UNUSED"
<1>1. CASE Absent(T, cap, k) BY <1>1, Misses
<1>2. CASE ~Absent(T, cap, k)
  <2>1. PICK s \in Slot(cap) : Holds(T, s, k) BY <1>2 DEF Absent
  <2>2. FindSlot(T, k, cap) = s BY <2>1, Finds
  <2>3. T[s].state = "OCCUPIED" BY <2>1 DEF Holds
  <2> QED BY <2>1, <2>2, <2>3, SoundSlots
<1> QED BY <1>1, <1>2

\* What is looked up.
LEMMA Looked ==
  ASSUME NEW T, NEW cap, Table(T, cap), Sound(T, cap),
         NEW k \in Key
  PROVE  /\ \A s \in Slot(cap) : Holds(T, s, k) => Get(T, k, cap) = T[s].value
         /\ Absent(T, cap, k) => Get(T, k, cap) = None
<1>1. ASSUME NEW s \in Slot(cap), Holds(T, s, k)
      PROVE  Get(T, k, cap) = T[s].value
  <2>1. FindSlot(T, k, cap) = s BY <1>1, Finds
  <2> QED BY <1>1, <2>1 DEF Get, Holds
<1>2. ASSUME Absent(T, cap, k) PROVE Get(T, k, cap) = None
  BY <1>2, Misses DEF Get
<1> QED BY <1>1, <1>2

\* Two tables with the same keys and values are looked up alike.
LEMMA SameLooked ==
  ASSUME NEW k \in Key,
         NEW T, NEW cap, Table(T, cap), Sound(T, cap),
         NEW U, NEW cup, Table(U, cup), Sound(U, cup),
         \A s \in Slot(cap) :
           Holds(T, s, k) => \E r \in Slot(cup) : U[r] = T[s],
         \A r \in Slot(cup) :
           Holds(U, r, k) => \E s \in Slot(cap) : T[s] = U[r]
  PROVE  Get(T, k, cap) = Get(U, k, cup)
<1>1. CASE Absent(T, cap, k)
  <2>1. Absent(U, cup, k)
    <3> SUFFICES ASSUME NEW r \in Slot(cup), Holds(U, r, k) PROVE FALSE
      BY DEF Absent
    <3>1. PICK s \in Slot(cap) : T[s] = U[r] OBVIOUS
    <3> QED BY <1>1, <3>1 DEF Absent, Holds
  <2> QED BY <1>1, <2>1, Looked
<1>2. CASE ~Absent(T, cap, k)
  <2>1. PICK s \in Slot(cap) : Holds(T, s, k) BY <1>2 DEF Absent
  <2>2. PICK r \in Slot(cup) : U[r] = T[s] BY <2>1
  <2>3. Holds(U, r, k) BY <2>1, <2>2 DEF Holds
  <2> QED BY <2>1, <2>2, <2>3, Looked
<1> QED BY <1>1, <1>2

-----------------------------------------------------------------------------
(* One slot changes.                                                       *)

\* The table T with x in the slot f.
With(T, f, x) == [T EXCEPT ![f] = x]

LEMMA WithSlot ==
  ASSUME NEW T, NEW cap, Table(T, cap), NEW f \in Slot(cap), NEW x,
         x.state \in {"UNUSED", "DELETED", "OCCUPIED"},
         x.state = "OCCUPIED" => x.key \in Key /\ x.value \in Value
  PROVE  /\ Table(With(T, f, x), cap)
         /\ With(T, f, x)[f] = x
         /\ \A s \in Slot(cap) \ {f} : With(T, f, x)[s] = T[s]
<1> DEFINE U == With(T, f, x)
<1>1. T = [s \in Slot(cap) |-> T[s]] BY DEF Table
<1>2. U = [s \in Slot(cap) |-> IF s = f THEN x ELSE T[s]] BY <1>1 DEF With
<1>3. /\ U = [s \in Slot(cap) |-> U[s]]
      /\ \A s \in Slot(cap) : U[s] = IF s = f THEN x ELSE T[s]
  BY <1>2
<1> HIDE DEF U
<1>4. Table(U, cap) BY <1>3 DEF Table
<1> QED BY <1>3, <1>4 DEF U

\* A key is stored where the search for it ends, if an unused slot is left.
LEMMA StoreSound ==
  ASSUME NEW T, NEW cap, Table(T, cap), Sound(T, cap),
         NEW k \in Key, NEW x, x.state = "OCCUPIED", x.key = k,
         x.value \in Value,
         \E u \in Slot(cap) :
           With(T, FindSlot(T, k, cap), x)[u].state = "UNUSED"
  PROVE  LET U == With(T, FindSlot(T, k, cap), x)
         IN  /\ Table(U, cap) /\ Sound(U, cap)
             /\ \A j \in Key : Get(U, j, cap) = IF j = k THEN x.value
                                                ELSE Get(T, j, cap)
<1> DEFINE f == FindSlot(T, k, cap)
           U == With(T, f, x)
<1>1. /\ f \in Slot(cap)
      /\ T[f].state = "OCCUPIED" => Holds(T, f, k)
      /\ T[f].state # "OCCUPIED" => Absent(T, cap, k)
      /\ \A r \in Slot(cap) :
           Probes(k, r, cap) < Probes(k, f, cap) => T[r].state # "UNUSED"
  BY FoundSlot
<1>2. \E u \in Slot(cap) : U[u].state = "UNUSED" OBVIOUS
<1> HIDE DEF f
<1>3. /\ Table(U, cap) /\ U[f] = x
      /\ \A s \in Slot(cap) \ {f} : U[s] = T[s]
  BY <1>1, WithSlot
<1> HIDE DEF U
<1>4. \A r \in Slot(cap) : T[r].state # "UNUSED" => U[r].state # "UNUSED"
  BY <1>3
<1>5. \A s \in Slot(cap), j \in Key :
        Holds(U, s, j) <=> IF s = f THEN j = k ELSE Holds(T, s, j)
  BY <1>3 DEF Holds
<1>6. \A s \in Slot(cap) : s # f => ~Holds(T, s, k)
  BY <1>1, SoundSlots DEF Absent
<1>7. ASSUME NEW s \in Slot(cap), NEW r \in Slot(cap), NEW j \in Key,
             Holds(U, s, j)
      PROVE  /\ Probes(j, r, cap) < Probes(j, s, cap)
                  => U[r].state # "UNUSED"
             /\ Holds(U, r, j) => r = s
  <2>1. CASE s = f
    <3>1. j = k BY <1>5, <1>7, <2>1
    <3> QED BY <1>1, <1>4, <1>5, <1>6, <2>1, <3>1
  <2>2. CASE s # f
    <3>1. Holds(T, s, j) BY <1>5, <1>7, <2>2
    <3>2. j # k BY <1>6, <2>2, <3>1
    <3>3. /\ Probes(j, r, cap) < Probes(j, s, cap) => T[r].state # "UNUSED"
          /\ Holds(T, r, j) => r = s
      BY <3>1, SoundSlots
    <3> QED BY <1>4, <1>5, <3>2, <3>3
  <2> QED BY <2>1, <2>2
<1>8. Sound(U, cap) BY <1>2, <1>3, <1>7, SoundSlots
<1>9. ASSUME NEW j \in Key
      PROVE  Get(U, j, cap) = IF j = k THEN x.value ELSE Get(T, j, cap)
  <2>1. CASE j = k
    <3>1. Holds(U, f, k) BY <1>1, <1>5
    <3> QED BY <1>1, <1>3, <1>8, <2>1, <3>1, Looked
  <2>2. CASE j # k
    <3>1. \A s \in Slot(cap) : Holds(U, s, j) => U[s] = T[s]
      BY <1>3, <1>5, <2>2
    <3>2. \A s \in Slot(cap) : Holds(T, s, j) => U[s] = T[s]
      BY <1>1, <1>3, <2>2 DEF Holds, Absent
    <3>3. Get(U, j, cap) = Get(T, j, cap)
      BY <1>3, <1>8, <3>1, <3>2, SameLooked
    <3> QED BY <2>2, <3>3
  <2> QED BY <2>1, <2>2
<1> QED BY <1>3, <1>8, <1>9 DEF U, f

\* A key that is there is removed.
LEMMA RemoveSound ==
  ASSUME NEW T, NEW cap, Table(T, cap), Sound(T, cap),
         NEW k \in Key, T[FindSlot(T, k, cap)].state = "OCCUPIED"
  PROVE  LET U == With(T, FindSlot(T, k, cap), Tombstone)
         IN  /\ Table(U, cap) /\ Sound(U, cap)
             /\ \A j \in Key : Get(U, j, cap) = IF j = k THEN None
                                                ELSE Get(T, j, cap)
<1> DEFINE f == FindSlot(T, k, cap)
           U == With(T, f, Tombstone)
<1>1. f \in Slot(cap) /\ Holds(T, f, k) BY FoundSlot
<1>2. T[f].state = "OCCUPIED" /\ Tombstone.state = "DELETED" BY DEF Tombstone
<1> HIDE DEF f
<1>3. /\ Table(U, cap) /\ U[f].state = "DELETED"
      /\ \A s \in Slot(cap) \ {f} : U[s] = T[s]
  BY <1>1, <1>2, WithSlot
<1> HIDE DEF U
<1>4. \A r \in Slot(cap) : T[r].state = "UNUSED" <=> U[r].state = "UNUSED"
  BY <1>2, <1>3
<1>5. \A s \in Slot(cap), j \in Key :
        Holds(U, s, j) => s # f /\ U[s] = T[s] /\ Holds(T, s, j)
  BY <1>3 DEF Holds
<1>6. Sound(U, cap) BY <1>3, <1>4, <1>5, SoundSlots
<1>7. ASSUME NEW j \in Key
      PROVE  Get(U, j, cap) = IF j = k THEN None ELSE Get(T, j, cap)
  <2>1. CASE j = k
    <3>1. Absent(U, cap, k) BY <1>1, <1>5, SoundSlots DEF Absent
    <3> QED BY <1>3, <1>6, <2>1, <3>1, Looked
  <2>2. CASE j # k
    <3>1. \A s \in Slot(cap) : Holds(T, s, j) => U[s] = T[s]
      BY <1>1, <1>3, <2>2 DEF Holds
    <3>2. Get(U, j, cap) = Get(T, j, cap)
      BY <1>3, <1>5, <1>6, <3>1, SameLooked
    <3> QED BY <2>2, <3>2
  <2> QED BY <2>1, <2>2
<1> QED BY <1>3, <1>6, <1>7 DEF U, f

-----------------------------------------------------------------------------
(* Counting.                                                               *)

LEMMA CountsFinite ==
  ASSUME NEW T, NEW cap, Table(T, cap)
  PROVE  /\ Occupied(T) \subseteq Slot(cap) /\ IsFiniteSet(Occupied(T))
         /\ Deleted(T) \subseteq Slot(cap) /\ IsFiniteSet(Deleted(T))
         /\ Cardinality(Occupied(T)) \in Nat
         /\ Cardinality(Deleted(T)) \in Nat
         /\ IsFiniteSet(Slot(cap)) /\ Cardinality(Slot(cap)) = cap
<1>1. cap \in Nat \ {0} /\ DOMAIN T = Slot(cap) BY DEF Table, Capacity
<1>2. IsFiniteSet(Slot(cap)) /\ Cardinality(Slot(cap)) = cap
  BY <1>1, FS_Interval DEF Slot
<1>3. Occupied(T) \subseteq Slot(cap) /\ Deleted(T) \subseteq Slot(cap)
  BY <1>1 DEF Occupied, Deleted
<1>4. IsFiniteSet(Occupied(T)) /\ IsFiniteSet(Deleted(T))
  BY <1>2, <1>3, FS_Subset
<1> QED BY <1>2, <1>3, <1>4, FS_CardinalityType

\* As long as keys and tombstones do not fill the table, a slot is unused.
LEMMA RoomLeft ==
  ASSUME NEW T, NEW cap, Table(T, cap)
  PROVE  (\E u \in Slot(cap) : T[u].state = "UNUSED")
           <=> Cardinality(Occupied(T)) + Cardinality(Deleted(T)) < cap
<1> DEFINE O == Occupied(T)
           D == Deleted(T)
<1>1. /\ O \subseteq Slot(cap) /\ IsFiniteSet(O)
      /\ D \subseteq Slot(cap) /\ IsFiniteSet(D)
      /\ Cardinality(O) \in Nat /\ Cardinality(D) \in Nat
      /\ IsFiniteSet(Slot(cap)) /\ Cardinality(Slot(cap)) = cap
  BY CountsFinite
<1>2. O \cap D = {} BY DEF Occupied, Deleted
<1>3. IsFiniteSet(O \cup D)
      /\ Cardinality(O \cup D) = Cardinality(O) + Cardinality(D)
  <2> HIDE DEF O, D
  <2>1. Cardinality(O \cap D) = 0 BY <1>2, FS_EmptySet
  <2>2. IsFiniteSet(O \cup D) BY <1>1, FS_Union
  <2>3. Cardinality(O \cup D)
          = Cardinality(O) + Cardinality(D) - Cardinality(O \cap D)
    BY <1>1, FS_Union
  <2> QED BY <1>1, <2>1, <2>2, <2>3
<1>4. \A u \in Slot(cap) : T[u].state = "UNUSED" <=> u \notin O \cup D
  BY DEF Table, Occupied, Deleted
<1>5. cap \in Nat BY DEF Table, Capacity
<1> HIDE DEF O, D
<1>6. O \cup D \in SUBSET Slot(cap) BY <1>1
<1>7. /\ Cardinality(O \cup D) <= cap
      /\ Cardinality(O \cup D) = cap => Slot(cap) = O \cup D
  <2>1. /\ Cardinality(O \cup D) <= Cardinality(Slot(cap))
        /\ Cardinality(Slot(cap)) = Cardinality(O \cup D)
             => Slot(cap) = O \cup D
    BY <1>1, <1>6, FS_Subset
  <2> QED BY <1>1, <2>1
<1>8. O \cup D = Slot(cap) => Cardinality(O \cup D) = cap BY <1>1
<1>9. Cardinality(O \cup D) < cap <=> O \cup D # Slot(cap)
  <2>1. Cardinality(O \cup D) \in Nat BY <1>1, <1>3
  <2> QED BY <1>5, <1>7, <1>8, <2>1
<1>10. O \cup D # Slot(cap) <=> \E u \in Slot(cap) : u \notin O \cup D
  BY <1>6
<1>11. Cardinality(O \cup D) = Cardinality(O) + Cardinality(D) BY <1>3
<1>12. (\E u \in Slot(cap) : T[u].state = "UNUSED")
         <=> Cardinality(O) + Cardinality(D) < cap
  BY <1>4, <1>9, <1>10, <1>11
<1> QED BY <1>12 DEF O, D

\* The counts after a key is stored in slot f.
LEMMA StoreCounts ==
  ASSUME NEW T, NEW cap, Table(T, cap), NEW f \in Slot(cap), NEW x,
         x.state = "OCCUPIED", x.key \in Key, x.value \in Value
  PROVE  LET U == With(T, f, x)
         IN  /\ Cardinality(Occupied(U)) = Cardinality(Occupied(T))
                  + (IF T[f].state = "OCCUPIED" THEN 0 ELSE 1)
             /\ Cardinality(Deleted(U)) = Cardinality(Deleted(T))
                  - (IF T[f].state = "DELETED" THEN 1 ELSE 0)
<1> DEFINE U == With(T, f, x)
<1>1. /\ Table(U, cap) /\ U[f] = x
      /\ \A s \in Slot(cap) \ {f} : U[s] = T[s]
  BY WithSlot
<1> HIDE DEF U
<1>2. DOMAIN T = Slot(cap) /\ DOMAIN U = Slot(cap) BY <1>1 DEF Table
<1>3. Occupied(U) = Occupied(T) \cup {f} BY <1>1, <1>2 DEF Occupied
<1>4. Deleted(U) = Deleted(T) \ {f} BY <1>1, <1>2 DEF Deleted
<1>5. IsFiniteSet(Occupied(T)) /\ IsFiniteSet(Deleted(T))
      /\ Cardinality(Occupied(T)) \in Nat /\ Cardinality(Deleted(T)) \in Nat
  BY CountsFinite
<1>6. /\ f \in Occupied(T) <=> T[f].state = "OCCUPIED"
      /\ f \in Deleted(T) <=> T[f].state = "DELETED"
  BY <1>2 DEF Occupied, Deleted
<1>7. Cardinality(Occupied(T) \cup {f}) = Cardinality(Occupied(T))
        + (IF T[f].state = "OCCUPIED" THEN 0 ELSE 1)
  <2>1. Cardinality(Occupied(T) \cup {f})
          = IF f \in Occupied(T) THEN Cardinality(Occupied(T))
            ELSE Cardinality(Occupied(T)) + 1
    BY <1>5, FS_AddElement
  <2> QED BY <1>5, <1>6, <2>1
<1>8. Cardinality(Deleted(T) \ {f}) = Cardinality(Deleted(T))
        - (IF T[f].state = "DELETED" THEN 1 ELSE 0)
  <2>1. Cardinality(Deleted(T) \ {f})
          = IF f \in Deleted(T) THEN Cardinality(Deleted(T)) - 1
            ELSE Cardinality(Deleted(T))
    BY <1>5, FS_RemoveElement
  <2> QED BY <1>5, <1>6, <2>1
<1> QED BY <1>3, <1>4, <1>7, <1>8 DEF U

\* The counts after the key in slot f is removed.
LEMMA RemoveCounts ==
  ASSUME NEW T, NEW cap, Table(T, cap), NEW f \in Slot(cap),
         T[f].state = "OCCUPIED"
  PROVE  LET U == With(T, f, Tombstone)
         IN  /\ Cardinality(Occupied(U)) = Cardinality(Occupied(T)) - 1
             /\ Cardinality(Deleted(U)) = Cardinality(Deleted(T)) + 1
<1> DEFINE U == With(T, f, Tombstone)
<1>1. /\ Table(U, cap) /\ U[f].state = "DELETED"
      /\ \A s \in Slot(cap) \ {f} : U[s] = T[s]
  BY WithSlot DEF Tombstone
<1> HIDE DEF U
<1>2. DOMAIN T = Slot(cap) /\ DOMAIN U = Slot(cap) BY <1>1 DEF Table
<1>3. Occupied(U) = Occupied(T) \ {f} BY <1>1, <1>2 DEF Occupied
<1>4. Deleted(U) = Deleted(T) \cup {f} BY <1>1, <1>2 DEF Deleted
<1>5. IsFiniteSet(Occupied(T)) /\ IsFiniteSet(Deleted(T)) BY CountsFinite
<1>6. f \in Occupied(T) /\ f \notin Deleted(T)
  BY <1>2 DEF Occupied, Deleted
<1>7. Cardinality(Occupied(T) \ {f}) = Cardinality(Occupied(T)) - 1
  BY <1>5, <1>6, FS_RemoveElement
<1>8. Cardinality(Deleted(T) \cup {f}) = Cardinality(Deleted(T)) + 1
  BY <1>5, <1>6, FS_AddElement
<1> QED BY <1>3, <1>4, <1>7, <1>8 DEF U

-----------------------------------------------------------------------------
(* Load.                                                                   *)

LEMMA Products ==
  ASSUME NEW a \in Nat, NEW b \in Int, NEW c \in Int, b <= c
  PROVE  a * b <= a * c
  OBVIOUS

\* A table that need not grow has two slots to spare.
LEMMA TwoToSpare ==
  ASSUME NEW c \in Nat, NEW t \in Nat, NEW cap \in Nat,
         cap >= InitialCapacity, ~Overloaded(c, t, cap)
  PROVE  c + t + 2 <= cap
<1> DEFINE D == LoadDenominator
           N == LoadNumerator
           n == c + t
<1>1. /\ D \in Nat \ {0} /\ N \in Nat /\ N <= D
      /\ InitialCapacity \in Nat /\ InitialCapacity * (D - N) >= 2 * D
  BY LoadAssumption
<1>2. D * n <= N * cap
  <2>1. D * n \in Int /\ N * cap \in Int BY <1>1
  <2>2. ~ (D * n > N * cap) BY DEF Overloaded
  <2> QED BY <2>1, <2>2
<1> HIDE DEF D, N
<1>3. n \in Nat OBVIOUS
<1> HIDE DEF n
<1>4. (D - N) * InitialCapacity <= (D - N) * cap
  <2>1. D - N \in Nat BY <1>1
  <2> HIDE DEF D, N
  <2> QED BY <1>1, <2>1, Products
<1>5. (D - N) * cap = D * cap - N * cap BY <1>1
<1>6. (D - N) * InitialCapacity = InitialCapacity * (D - N) BY <1>1
<1>7. D * (n + 2) <= D * cap
  <2>1. D * (n + 2) = D * n + 2 * D BY <1>1, <1>3
  <2>2. /\ D * n \in Int /\ N * cap \in Int /\ D * cap \in Int
        /\ 2 * D \in Int /\ InitialCapacity * (D - N) \in Int
    BY <1>1, <1>3
  <2> QED BY <1>1, <1>2, <1>4, <1>5, <1>6, <2>1, <2>2
<1>8. ASSUME n + 2 > cap PROVE FALSE
  <2>1. cap + 1 <= n + 2 BY <1>3, <1>8
  <2>2. D * (cap + 1) <= D * (n + 2) BY <1>1, <1>3, <2>1, Products
  <2>3. D * (cap + 1) = D * cap + D BY <1>1
  <2>4. D * cap \in Int /\ D * (n + 2) \in Int BY <1>1, <1>3
  <2> QED BY <1>1, <1>7, <2>2, <2>3, <2>4
<1>9. n + 2 <= cap BY <1>3, <1>8
<1> QED BY <1>9 DEF n

LEMMA TwoAtFirst == InitialCapacity \in Nat /\ InitialCapacity >= 2
<1> DEFINE D == LoadDenominator
           N == LoadNumerator
<1>1. /\ D \in Nat \ {0} /\ N \in Nat /\ N <= D
      /\ InitialCapacity \in Nat /\ InitialCapacity * (D - N) >= 2 * D
  BY LoadAssumption
<1> HIDE DEF D, N
<1>2. InitialCapacity * (D - N) <= InitialCapacity * D
  BY <1>1, Products
<1>3. ASSUME InitialCapacity < 2 PROVE FALSE
  <2>1. InitialCapacity = 0 \/ InitialCapacity = 1 BY <1>1, <1>3
  <2> QED BY <1>1, <1>2, <2>1
<1> QED BY <1>1, <1>3

-----------------------------------------------------------------------------
(* Storing a key where there is room.                                      *)

LEMMA Stored ==
  ASSUME NEW T, NEW cap, Table(T, cap), Sound(T, cap), NEW k \in Key,
         NEW x, x.state = "OCCUPIED", x.key = k, x.value \in Value,
         Cardinality(Occupied(T)) + Cardinality(Deleted(T)) + 1 < cap
  PROVE  LET f == FindSlot(T, k, cap)
             U == With(T, f, x)
         IN  /\ f \in Slot(cap)
             /\ Table(U, cap) /\ Sound(U, cap)
             /\ \A j \in Key : Get(U, j, cap) = IF j = k THEN x.value
                                                ELSE Get(T, j, cap)
             /\ Cardinality(Occupied(U)) = Cardinality(Occupied(T))
                  + (IF T[f].state = "OCCUPIED" THEN 0 ELSE 1)
             /\ Cardinality(Deleted(U)) = Cardinality(Deleted(T))
                  - (IF T[f].state = "DELETED" THEN 1 ELSE 0)
<1> DEFINE f == FindSlot(T, k, cap)
           U == With(T, f, x)
<1>1. f \in Slot(cap) BY FoundSlot
<1>2. Table(U, cap) BY <1>1, WithSlot
<1>3. /\ Cardinality(Occupied(U)) = Cardinality(Occupied(T))
           + (IF T[f].state = "OCCUPIED" THEN 0 ELSE 1)
      /\ Cardinality(Deleted(U)) = Cardinality(Deleted(T))
           - (IF T[f].state = "DELETED" THEN 1 ELSE 0)
  BY <1>1, StoreCounts
<1>4. \E u \in Slot(cap) : U[u].state = "UNUSED"
  <2> HIDE DEF f, U
  <2>1. /\ Cardinality(Occupied(T)) \in Nat /\ Cardinality(Deleted(T)) \in Nat
        /\ cap \in Nat
    BY CountsFinite DEF Table, Capacity
  <2>2. Cardinality(Occupied(U)) + Cardinality(Deleted(U)) < cap
    BY <1>3, <2>1
  <2> QED BY <1>2, <2>2, RoomLeft
<1>5. /\ Sound(U, cap)
      /\ \A j \in Key : Get(U, j, cap) = IF j = k THEN x.value
                                         ELSE Get(T, j, cap)
  BY <1>4, StoreSound
<1> QED BY <1>1, <1>2, <1>3, <1>5

-----------------------------------------------------------------------------
(* The inductive invariant.                                                *)

TypeInv ==
  /\ frozen \in BOOLEAN
  /\ capacity \in Nat /\ capacity >= InitialCapacity
  /\ Table(entries, capacity)
  /\ pending = <<>> \/ pending \in Key \X Value

\* In the middle of growth the table holds what the slots of the old one
\* before i hold.
GrowInv ==
  pending # <<>> =>
    /\ ~frozen
    /\ OldCapacity \in Nat /\ OldCapacity >= InitialCapacity
    /\ capacity = 2 * OldCapacity
    /\ Table(old, OldCapacity) /\ Sound(old, OldCapacity)
    /\ i \in 0 .. OldCapacity
    /\ tombs = 0 /\ count <= i
    /\ \A s \in Slot(capacity) :
         entries[s].state = "OCCUPIED"
           => \E j \in Slot(OldCapacity) : j < i /\ old[j] = entries[s]
    /\ \A j \in Slot(OldCapacity) :
         j < i /\ old[j].state = "OCCUPIED"
           => \E s \in Slot(capacity) : entries[s] = old[j]

Inv == TypeInv /\ TableSound /\ GrowInv

LEMMA Counted == Inv => count \in Nat /\ tombs \in Nat
BY CountsFinite DEF Inv, TypeInv, TableSound

\* A table without a key in any slot.
LEMMA EmptyTable ==
  ASSUME NEW cap \in Capacity, NEW T, T = [s \in Slot(cap) |-> Unused]
  PROVE  /\ Table(T, cap) /\ Sound(T, cap)
         /\ Cardinality(Occupied(T)) = 0 /\ Cardinality(Deleted(T)) = 0
         /\ \A k \in Key : Get(T, k, cap) = None
         /\ \A s \in Slot(cap) : T[s].state # "OCCUPIED"
<1>1. /\ T = [s \in Slot(cap) |-> T[s]]
      /\ \A s \in Slot(cap) : T[s].state = "UNUSED"
  BY DEF Unused
<1>2. Table(T, cap) BY <1>1 DEF Table
<1>3. 0 \in Slot(cap) BY DEF Slot, Capacity
<1>4. \A s \in Slot(cap), k \in Key : ~Holds(T, s, k) BY <1>1 DEF Holds
<1>5. Sound(T, cap) BY <1>1, <1>2, <1>3, <1>4, SoundSlots
<1>6. Occupied(T) = {} /\ Deleted(T) = {} BY <1>1 DEF Occupied, Deleted
<1>7. \A k \in Key : Get(T, k, cap) = None
  BY <1>2, <1>4, <1>5, Looked DEF Absent
<1> QED BY <1>1, <1>2, <1>5, <1>6, <1>7, FS_EmptySet

LEMMA InitInv == Init => Inv /\ Contents!Init
<1> SUFFICES ASSUME Init PROVE Inv /\ Contents!Init
  OBVIOUS
<1>1. InitialCapacity \in Capacity BY LoadAssumption DEF Capacity
<1>2. /\ Table(entries, capacity) /\ Sound(entries, capacity)
      /\ Cardinality(Occupied(entries)) = 0
      /\ Cardinality(Deleted(entries)) = 0
      /\ \A k \in Key : Get(entries, k, capacity) = None
  BY <1>1, EmptyTable DEF Init
<1>3. TypeInv
  <2>1. frozen \in BOOLEAN BY DEF Init
  <2>2. capacity \in Nat /\ capacity >= InitialCapacity
    BY <1>1 DEF Init, Capacity
  <2>3. pending = <<>> BY DEF Init
  <2> QED BY <1>2, <2>1, <2>2, <2>3 DEF TypeInv
<1>4. TableSound BY <1>2 DEF Init, TableSound
<1>5. GrowInv BY DEF Init, GrowInv
<1>6. Map = [k \in Key |-> None] BY <1>2 DEF Init, Map
<1> QED BY <1>3, <1>4, <1>5, <1>6 DEF Init, Inv, Contents!Init

-----------------------------------------------------------------------------
(* Every step keeps the invariant and does what a map does.                *)

\* What Store does where there is room.
LEMMA StoreStep ==
  ASSUME Inv, NEW k \in Key, NEW v \in Value, Store(k, v),
         count + tombs + 1 < capacity, capacity' = capacity
  PROVE  /\ Table(entries', capacity') /\ TableSound'
         /\ \A j \in Key : Get(entries', j, capacity')
              = IF j = k THEN v ELSE Get(entries, j, capacity)
<1> DEFINE s == FindSlot(entries, k, capacity)
           x == Holding(k, v)
           U == With(entries, s, x)
<1>1. /\ Table(entries, capacity) /\ Sound(entries, capacity)
      /\ count = Cardinality(Occupied(entries))
      /\ tombs = Cardinality(Deleted(entries))
  BY DEF Inv, TypeInv, TableSound
<1>2. x.state = "OCCUPIED" /\ x.key = k /\ x.value = v BY DEF Holding
<1>3. Cardinality(Occupied(entries)) + Cardinality(Deleted(entries)) + 1
        < capacity
  BY <1>1
<1>4. x.value \in Value BY <1>2
<1> HIDE DEF x
<1>5. /\ Table(U, capacity) /\ Sound(U, capacity)
      /\ \A j \in Key : Get(U, j, capacity) = IF j = k THEN x.value
                                              ELSE Get(entries, j, capacity)
      /\ Cardinality(Occupied(U)) = Cardinality(Occupied(entries))
           + (IF entries[s].state = "OCCUPIED" THEN 0 ELSE 1)
      /\ Cardinality(Deleted(U)) = Cardinality(Deleted(entries))
           - (IF entries[s].state = "DELETED" THEN 1 ELSE 0)
  BY <1>1, <1>2, <1>3, <1>4, Stored
<1>6. /\ entries' = U
      /\ count' = IF entries[s].state = "OCCUPIED" THEN count ELSE count + 1
      /\ tombs' = IF entries[s].state = "DELETED" THEN tombs - 1 ELSE tombs
  BY DEF Store, With, x
<1>7. count \in Nat /\ tombs \in Nat BY Counted
<1> HIDE DEF s, U
<1>8. count' = Cardinality(Occupied(U)) BY <1>1, <1>5, <1>6, <1>7
<1>9. tombs' = Cardinality(Deleted(U)) BY <1>1, <1>5, <1>6, <1>7
<1>10. TableSound' BY <1>5, <1>6, <1>8, <1>9 DEF TableSound
<1> QED BY <1>2, <1>5, <1>6, <1>10

\* The map when nothing is pending.
LEMMA MapIs ==
  /\ pending = <<>> => Map = [j \in Key |-> Get(entries, j, capacity)]
  /\ (pending = <<>> => Map = [j \in Key |-> Get(entries, j, capacity)])'
BY DEF Map

LEMMA SetStep ==
  ASSUME Inv, NEW k \in Key, NEW v \in Value, Set(k, v)
  PROVE  Inv' /\ Contents!Put(k, v)
<1>1. /\ pending = <<>> /\ ~frozen /\ ~Overloaded(count, tombs, capacity)
      /\ Store(k, v)
      /\ frozen' = frozen /\ capacity' = capacity /\ pending' = pending
  BY DEF Set, growVars
<1>2. capacity \in Nat /\ capacity >= InitialCapacity BY DEF Inv, TypeInv
<1>3. count \in Nat /\ tombs \in Nat BY Counted
<1>4. count + tombs + 1 < capacity BY <1>1, <1>2, <1>3, TwoToSpare
<1>5. /\ Table(entries', capacity') /\ TableSound'
      /\ \A j \in Key : Get(entries', j, capacity')
           = IF j = k THEN v ELSE Get(entries, j, capacity)
  BY <1>1, <1>4, StoreStep
<1>6. TypeInv'
  <2>1. frozen' \in BOOLEAN BY <1>1 DEF Inv, TypeInv
  <2> QED BY <1>1, <1>2, <1>5, <2>1 DEF TypeInv
<1>7. GrowInv' BY <1>1 DEF GrowInv
<1>8. Map' = [Map EXCEPT ![k] = v] BY <1>1, <1>5, MapIs
<1> QED BY <1>1, <1>5, <1>6, <1>7, <1>8 DEF Inv, Contents!Put

LEMMA RemoveStep ==
  ASSUME Inv, NEW k \in Key, Remove(k)
  PROVE  Inv' /\ Contents!Remove(k)
<1> DEFINE s == FindSlot(entries, k, capacity)
           U == With(entries, s, Tombstone)
<1>1. /\ pending = <<>> /\ ~frozen
      /\ entries[s].state = "OCCUPIED"
      /\ entries' = U
      /\ count' = count - 1 /\ tombs' = tombs + 1
      /\ frozen' = frozen /\ capacity' = capacity /\ pending' = pending
  BY DEF Remove, growVars, With
<1>2. capacity \in Nat /\ capacity >= InitialCapacity BY DEF Inv, TypeInv
<1>3. /\ Table(entries, capacity) /\ Sound(entries, capacity)
      /\ count = Cardinality(Occupied(entries))
      /\ tombs = Cardinality(Deleted(entries))
  BY DEF Inv, TypeInv, TableSound
<1>4. s \in Slot(capacity) BY <1>3, FoundSlot
<1>5. /\ Table(U, capacity) /\ Sound(U, capacity)
      /\ \A j \in Key : Get(U, j, capacity) = IF j = k THEN None
                                              ELSE Get(entries, j, capacity)
  BY <1>1, <1>3, RemoveSound
<1>6. /\ Cardinality(Occupied(U)) = Cardinality(Occupied(entries)) - 1
      /\ Cardinality(Deleted(U)) = Cardinality(Deleted(entries)) + 1
  BY <1>1, <1>3, <1>4, RemoveCounts
<1> HIDE DEF s, U
<1>7. TypeInv'
  <2>1. frozen' \in BOOLEAN BY <1>1 DEF Inv, TypeInv
  <2> QED BY <1>1, <1>2, <1>5, <2>1 DEF TypeInv
<1>8. TableSound' BY <1>1, <1>3, <1>5, <1>6 DEF TableSound
<1>9. GrowInv' BY <1>1 DEF GrowInv
<1>10. Map' = [Map EXCEPT ![k] = None] BY <1>1, <1>5, MapIs
<1> QED BY <1>1, <1>7, <1>8, <1>9, <1>10 DEF Inv, Contents!Remove

\* Growth begins and changes nothing that is looked up.
LEMMA SetGrowingStep ==
  ASSUME Inv, NEW k \in Key, NEW v \in Value, SetGrowing(k, v)
  PROVE  Inv' /\ UNCHANGED Contents!vars
<1>1. /\ pending = <<>> /\ ~frozen /\ frozen' = frozen
      /\ pending' = <<k, v>> /\ old' = entries /\ i' = 0
      /\ capacity' = 2 * capacity
      /\ entries' = [s \in Slot(2 * capacity) |-> Unused]
      /\ count' = 0 /\ tombs' = 0
  BY DEF SetGrowing
<1>2. /\ capacity \in Nat /\ capacity >= InitialCapacity
      /\ Table(entries, capacity) /\ Sound(entries, capacity)
  BY DEF Inv, TypeInv, TableSound
<1>3. 2 * capacity \in Capacity BY <1>2, TwoAtFirst DEF Capacity
<1>4. /\ Table(entries', capacity') /\ Sound(entries', capacity')
      /\ Cardinality(Occupied(entries')) = 0
      /\ Cardinality(Deleted(entries')) = 0
      /\ \A s \in Slot(capacity') : entries'[s].state # "OCCUPIED"
  BY <1>1, <1>3, EmptyTable
<1>5. capacity' \div 2 = capacity /\ capacity' \in Nat
      /\ capacity' >= InitialCapacity
  BY <1>1, <1>2, TwoAtFirst
<1>6. pending' # <<>> /\ pending' \in Key \X Value BY <1>1
<1>7. TypeInv'
  <2>1. frozen' \in BOOLEAN BY <1>1 DEF Inv, TypeInv
  <2> QED BY <1>4, <1>5, <1>6, <2>1 DEF TypeInv
<1>8. TableSound' BY <1>1, <1>4 DEF TableSound
<1>9. GrowInv'
  <2>1. /\ OldCapacity' = capacity /\ OldCapacity' \in Nat
        /\ OldCapacity' >= InitialCapacity
        /\ capacity' = 2 * OldCapacity'
    BY <1>1, <1>2, <1>5 DEF OldCapacity
  <2>2. Table(old', OldCapacity') /\ Sound(old', OldCapacity')
    BY <1>1, <1>2, <2>1
  <2>3. i' \in 0 .. OldCapacity' /\ tombs' = 0 /\ count' <= i'
    BY <1>1, <2>1
  <2>4. \A j \in Slot(OldCapacity') : ~ (j < i')
    BY <1>1, <2>1 DEF Slot
  <2> QED BY <1>1, <1>4, <2>1, <2>2, <2>3, <2>4 DEF GrowInv
<1>10. Map' = Map
  <2>1. Map = [j \in Key |-> Get(entries, j, capacity)] BY <1>1, MapIs
  <2>2. Map' = [j \in Key |-> Get(old', j, OldCapacity')]
    BY <1>6 DEF Map
  <2> QED BY <1>1, <1>5, <2>1, <2>2 DEF OldCapacity
<1> QED BY <1>1, <1>7, <1>8, <1>9, <1>10 DEF Inv, Contents!vars

\* A key of the old table is stored in the new one, where it was not before.
LEMMA RehashKey ==
  ASSUME Inv, Rehash, old[i].state = "OCCUPIED"
  PROVE  \E f \in Slot(capacity) :
           /\ entries[f].state # "OCCUPIED"
           /\ Table(entries', capacity) /\ TableSound'
           /\ entries'[f] = old[i]
           /\ \A s \in Slot(capacity) \ {f} : entries'[s] = entries[s]
<1> DEFINE x == old[i]
           k == x.key
           f == FindSlot(entries, k, capacity)
           U == With(entries, f, x)
<1>1. /\ Table(entries, capacity) /\ Sound(entries, capacity)
      /\ count = Cardinality(Occupied(entries))
      /\ tombs = Cardinality(Deleted(entries))
      /\ capacity \in Nat
  BY DEF Inv, TypeInv, TableSound
<1>2. /\ pending # <<>> /\ i < OldCapacity /\ capacity' = capacity
      /\ entries' = U /\ count' = count + 1 /\ tombs' = tombs
  BY DEF Rehash, With
<1>3. /\ OldCapacity \in Nat /\ capacity = 2 * OldCapacity
      /\ Table(old, OldCapacity) /\ Sound(old, OldCapacity)
      /\ i \in 0 .. OldCapacity /\ tombs = 0 /\ count <= i
      /\ \A s \in Slot(capacity) :
           entries[s].state = "OCCUPIED"
             => \E j \in Slot(OldCapacity) : j < i /\ old[j] = entries[s]
  BY <1>2 DEF Inv, GrowInv
<1>4. i \in Slot(OldCapacity) BY <1>2, <1>3 DEF Slot
<1>5. k \in Key /\ x.value \in Value /\ Holds(old, i, k)
  BY <1>3, <1>4 DEF Table, Holds
<1>6. x.state = "OCCUPIED" /\ x.key = k OBVIOUS
<1> HIDE DEF x, k
<1>7. Absent(entries, capacity, k)
  <2> SUFFICES ASSUME NEW s \in Slot(capacity), Holds(entries, s, k)
               PROVE  FALSE
    BY DEF Absent
  <2>1. PICK j \in Slot(OldCapacity) : j < i /\ old[j] = entries[s]
    BY <1>3 DEF Holds
  <2>2. Holds(old, j, k) BY <2>1 DEF Holds
  <2>3. j = i BY <1>3, <1>4, <1>5, <2>2, SoundSlots
  <2> QED BY <1>3, <2>1, <2>3
<1>8. f \in Slot(capacity) /\ entries[f].state # "OCCUPIED"
  BY <1>1, <1>5, <1>7, Misses
<1>9. count \in Nat BY Counted
<1>10. Cardinality(Occupied(entries)) + Cardinality(Deleted(entries)) + 1
         < capacity
  BY <1>1, <1>2, <1>3, <1>9
<1>11. /\ Table(U, capacity) /\ Sound(U, capacity)
       /\ Cardinality(Occupied(U)) = Cardinality(Occupied(entries))
            + (IF entries[f].state = "OCCUPIED" THEN 0 ELSE 1)
       /\ Cardinality(Deleted(U)) = Cardinality(Deleted(entries))
            - (IF entries[f].state = "DELETED" THEN 1 ELSE 0)
  BY <1>1, <1>5, <1>6, <1>10, Stored
<1>12. U[f] = x /\ \A s \in Slot(capacity) \ {f} : U[s] = entries[s]
  BY <1>1, <1>5, <1>6, <1>8, WithSlot
<1> HIDE DEF f, U
<1>13. Cardinality(Deleted(U)) = 0
  <2>1. Cardinality(Deleted(U)) \in Nat BY <1>11, CountsFinite
  <2>2. Cardinality(Deleted(entries)) = 0 BY <1>1, <1>3
  <2>3. CASE entries[f].state = "DELETED"
    <3>1. Cardinality(Deleted(U)) = Cardinality(Deleted(entries)) - 1
      BY <1>11, <2>3
    <3> QED BY <2>1, <2>2, <3>1
  <2>4. CASE entries[f].state # "DELETED"
    <3>1. Cardinality(Deleted(U)) = Cardinality(Deleted(entries)) - 0
      BY <1>11, <2>4
    <3> QED BY <2>2, <3>1
  <2> QED BY <2>3, <2>4
<1>14. count' = Cardinality(Occupied(U)) BY <1>1, <1>2, <1>8, <1>11
<1>15. TableSound' BY <1>2, <1>3, <1>11, <1>13, <1>14 DEF TableSound
<1> QED BY <1>2, <1>8, <1>11, <1>12, <1>15 DEF x

LEMMA RehashStep ==
  ASSUME Inv, Rehash
  PROVE  Inv' /\ UNCHANGED Contents!vars
<1>1. /\ pending # <<>> /\ i < OldCapacity /\ i' = i + 1
      /\ frozen' = frozen /\ capacity' = capacity /\ tombs' = tombs
      /\ pending' = pending /\ old' = old
      /\ IF old[i].state = "OCCUPIED" THEN count' = count + 1
         ELSE entries' = entries /\ count' = count
  BY DEF Rehash
<1>2. OldCapacity' = OldCapacity BY <1>1 DEF OldCapacity
<1>3. /\ ~frozen
      /\ OldCapacity \in Nat /\ OldCapacity >= InitialCapacity
      /\ capacity = 2 * OldCapacity
      /\ Table(old, OldCapacity) /\ Sound(old, OldCapacity)
      /\ i \in 0 .. OldCapacity
      /\ tombs = 0 /\ count <= i
  BY <1>1 DEF Inv, GrowInv
<1>4. /\ \A s \in Slot(capacity) :
           entries[s].state = "OCCUPIED"
             => \E j \in Slot(OldCapacity) : j < i /\ old[j] = entries[s]
      /\ \A j \in Slot(OldCapacity) :
           j < i /\ old[j].state = "OCCUPIED"
             => \E s \in Slot(capacity) : entries[s] = old[j]
  BY <1>1 DEF Inv, GrowInv
<1>5. i \in Slot(OldCapacity) BY <1>1, <1>3 DEF Slot
<1>6. count \in Nat BY Counted
<1>7. Map' = Map BY <1>1, <1>2 DEF Map
<1>8. i' \in 0 .. OldCapacity /\ count' <= i' BY <1>1, <1>3, <1>6
<1>9. \A j \in Slot(OldCapacity) : j < i' <=> j < i \/ j = i
  BY <1>1, <1>3 DEF Slot
<1>10. /\ Table(entries', capacity) /\ TableSound'
       /\ \A s \in Slot(capacity) :
            entries'[s].state = "OCCUPIED"
              => \E j \in Slot(OldCapacity) : j < i' /\ old[j] = entries'[s]
       /\ \A j \in Slot(OldCapacity) :
            j < i' /\ old[j].state = "OCCUPIED"
              => \E s \in Slot(capacity) : entries'[s] = old[j]
  <2>1. CASE old[i].state = "OCCUPIED"
    <3>1. PICK f \in Slot(capacity) :
            /\ entries[f].state # "OCCUPIED"
            /\ Table(entries', capacity) /\ TableSound'
            /\ entries'[f] = old[i]
            /\ \A s \in Slot(capacity) \ {f} : entries'[s] = entries[s]
      BY <2>1, RehashKey
    <3>2. ASSUME NEW s \in Slot(capacity), entries'[s].state = "OCCUPIED"
          PROVE  \E j \in Slot(OldCapacity) : j < i' /\ old[j] = entries'[s]
      <4>1. CASE s = f BY <1>5, <1>9, <3>1, <4>1
      <4>2. CASE s # f
        <5>1. entries'[s] = entries[s] BY <3>1, <4>2
        <5>2. PICK j \in Slot(OldCapacity) : j < i /\ old[j] = entries[s]
          BY <1>4, <3>2, <5>1
        <5> QED BY <1>9, <5>1, <5>2
      <4> QED BY <4>1, <4>2
    <3>3. ASSUME NEW j \in Slot(OldCapacity), j < i',
                 old[j].state = "OCCUPIED"
          PROVE  \E s \in Slot(capacity) : entries'[s] = old[j]
      <4>1. CASE j = i BY <3>1, <4>1
      <4>2. CASE j < i
        <5>1. PICK s \in Slot(capacity) : entries[s] = old[j]
          BY <1>4, <3>3, <4>2
        <5>2. s # f BY <3>1, <3>3, <5>1
        <5> QED BY <3>1, <5>1, <5>2
      <4> QED BY <1>9, <3>3, <4>1, <4>2
    <3> QED BY <3>1, <3>2, <3>3
  <2>2. CASE old[i].state # "OCCUPIED"
    <3>1. entries' = entries /\ count' = count BY <1>1, <2>2
    <3>2. Table(entries', capacity) /\ TableSound'
      BY <1>1, <3>1 DEF Inv, TypeInv, TableSound
    <3>3. \A j \in Slot(OldCapacity) :
            j < i' /\ old[j].state = "OCCUPIED" => j < i
      BY <1>9, <2>2
    <3> QED BY <1>4, <1>9, <3>1, <3>2, <3>3
  <2> QED BY <2>1, <2>2
<1>11. TypeInv'
  <2>1. /\ frozen \in BOOLEAN /\ capacity \in Nat
        /\ capacity >= InitialCapacity
        /\ pending = <<>> \/ pending \in Key \X Value
    BY DEF Inv, TypeInv
  <2> QED BY <1>1, <1>10, <2>1 DEF TypeInv
<1>12. GrowInv' BY <1>1, <1>2, <1>3, <1>8, <1>10 DEF GrowInv
<1> QED BY <1>1, <1>7, <1>10, <1>11, <1>12 DEF Inv, Contents!vars

\* When growth is over, the new table is looked up like the old one.
LEMMA GrownAlike ==
  ASSUME Inv, pending # <<>>, i = OldCapacity, NEW k \in Key
  PROVE  Get(entries, k, capacity) = Get(old, k, OldCapacity)
<1>1. /\ OldCapacity \in Nat
      /\ Table(old, OldCapacity) /\ Sound(old, OldCapacity)
      /\ \A s \in Slot(capacity) :
           entries[s].state = "OCCUPIED"
             => \E j \in Slot(OldCapacity) : j < i /\ old[j] = entries[s]
      /\ \A j \in Slot(OldCapacity) :
           j < i /\ old[j].state = "OCCUPIED"
             => \E s \in Slot(capacity) : entries[s] = old[j]
  BY DEF Inv, GrowInv
<1>2. Table(entries, capacity) /\ Sound(entries, capacity)
  BY DEF Inv, TypeInv, TableSound
<1>3. \A j \in Slot(OldCapacity) : j < i BY <1>1 DEF Slot
<1>4. /\ \A s \in Slot(capacity) :
           Holds(entries, s, k)
             => \E j \in Slot(OldCapacity) : old[j] = entries[s]
      /\ \A j \in Slot(OldCapacity) :
           Holds(old, j, k) => \E s \in Slot(capacity) : entries[s] = old[j]
  BY <1>1, <1>3 DEF Holds
<1> QED BY <1>1, <1>2, <1>4, SameLooked

LEMMA SetGrownStep ==
  ASSUME Inv, SetGrown
  PROVE  Inv' /\ \E k \in Key, v \in Value : Contents!Put(k, v)
<1>1. /\ pending # <<>> /\ i = OldCapacity
      /\ Store(pending[1], pending[2])
      /\ pending' = <<>> /\ frozen' = frozen /\ capacity' = capacity
  BY DEF SetGrown
<1>2. pending \in Key \X Value BY <1>1 DEF Inv, TypeInv
<1>3. PICK k \in Key, v \in Value : k = pending[1] /\ v = pending[2]
  BY <1>2
<1>4. /\ ~frozen /\ tombs = 0 /\ count <= i /\ capacity = 2 * OldCapacity
      /\ OldCapacity \in Nat /\ OldCapacity >= InitialCapacity
  BY <1>1 DEF Inv, GrowInv
<1>5. count \in Nat BY Counted
<1>6. count + tombs + 1 < capacity
  BY <1>1, <1>4, <1>5, TwoAtFirst
<1>7. Store(k, v) BY <1>1, <1>3
<1>8. /\ Table(entries', capacity') /\ TableSound'
      /\ \A j \in Key : Get(entries', j, capacity')
           = IF j = k THEN v ELSE Get(entries, j, capacity)
  BY <1>1, <1>6, <1>7, StoreStep
<1>9. TypeInv'
  <2>1. frozen \in BOOLEAN /\ capacity \in Nat /\ capacity >= InitialCapacity
    BY DEF Inv, TypeInv
  <2> QED BY <1>1, <1>8, <2>1 DEF TypeInv
<1>10. GrowInv' BY <1>1 DEF GrowInv
<1>11. Map' = [Map EXCEPT ![k] = v]
  <2>1. Map = [j \in Key |-> Get(entries, j, capacity)]
    BY <1>1, GrownAlike DEF Map
  <2> QED BY <1>1, <1>8, <2>1, MapIs
<1> QED BY <1>1, <1>4, <1>8, <1>9, <1>10, <1>11 DEF Inv, Contents!Put

LEMMA FreezeStep ==
  ASSUME Inv, Freeze
  PROVE  Inv' /\ Contents!Freeze
<1>1. /\ pending = <<>> /\ frozen' = TRUE
      /\ capacity' = capacity /\ entries' = entries /\ count' = count
      /\ tombs' = tombs /\ pending' = pending
  BY DEF Freeze, growVars
<1>2. TypeInv' BY <1>1 DEF Inv, TypeInv
<1>3. TableSound' BY <1>1 DEF Inv, TableSound
<1>4. GrowInv' BY <1>1 DEF GrowInv
<1>5. Map' = Map BY <1>1, MapIs
<1> QED BY <1>1, <1>2, <1>3, <1>4, <1>5 DEF Inv, Contents!Freeze

LEMMA StutterStep ==
  ASSUME Inv, UNCHANGED vars
  PROVE  Inv' /\ UNCHANGED Contents!vars
<1>1. /\ frozen' = frozen /\ capacity' = capacity /\ entries' = entries
      /\ count' = count /\ tombs' = tombs /\ pending' = pending
      /\ old' = old /\ i' = i
  BY DEF vars, growVars
<1>2. OldCapacity' = OldCapacity BY <1>1 DEF OldCapacity
<1>3. TypeInv' BY <1>1 DEF Inv, TypeInv
<1>4. TableSound' BY <1>1 DEF Inv, TableSound
<1>5. GrowInv' BY <1>1, <1>2 DEF Inv, GrowInv
<1>6. Map' = Map BY <1>1, <1>2 DEF Map
<1> QED BY <1>1, <1>3, <1>4, <1>5, <1>6 DEF Inv, Contents!vars

LEMMA NextStep ==
  Inv /\ [Next]_vars => Inv' /\ [Contents!Next]_(Contents!vars)
<1> SUFFICES ASSUME Inv, [Next]_vars
             PROVE  Inv' /\ [Contents!Next]_(Contents!vars)
  OBVIOUS
<1>1. ASSUME NEW k \in Key, Remove(k)
      PROVE  Inv' /\ [Contents!Next]_(Contents!vars)
  BY <1>1, RemoveStep DEF Contents!Next
<1>2. ASSUME NEW k \in Key, NEW v \in Value, Set(k, v)
      PROVE  Inv' /\ [Contents!Next]_(Contents!vars)
  BY <1>2, SetStep DEF Contents!Next
<1>3. ASSUME NEW k \in Key, NEW v \in Value, SetGrowing(k, v)
      PROVE  Inv' /\ [Contents!Next]_(Contents!vars)
  BY <1>3, SetGrowingStep
<1>4. CASE Rehash BY <1>4, RehashStep
<1>5. CASE SetGrown BY <1>5, SetGrownStep DEF Contents!Next
<1>6. CASE Freeze BY <1>6, FreezeStep DEF Contents!Next
<1>7. CASE UNCHANGED vars BY <1>7, StutterStep
<1> QED BY <1>1, <1>2, <1>3, <1>4, <1>5, <1>6, <1>7 DEF Next

-----------------------------------------------------------------------------
(* The theorems.                                                           *)

\* The table stays sound and counts its keys and tombstones, in the middle of
\* dict_grow too: every key is found and every search ends.
THEOREM TableIsSound == Spec => []TableSound
<1>1. Init => Inv BY InitInv
<1>2. Inv /\ [Next]_vars => Inv' BY NextStep
<1>3. Inv => TableSound BY DEF Inv
<1> QED BY <1>1, <1>2, <1>3, PTL DEF Spec

\* moo_dict_set, moo_dict_remove and growth do to what is looked up what a
\* map of keys to values would do, and a frozen dictionary keeps it.
THEOREM TableImplementsMap == Spec => MapSpec
<1>1. Init => Inv /\ Contents!Init BY InitInv
<1>2. Inv /\ [Next]_vars => Inv' /\ [Contents!Next]_(Contents!vars)
  BY NextStep
<1> QED BY <1>1, <1>2, PTL DEF Spec, MapSpec, Contents!Spec
=============================================================================
