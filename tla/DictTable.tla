------------------------------ MODULE DictTable ------------------------------
(***************************************************************************)
(* The dictionaries of moo programs (moo_dict.c): a hash table with linear *)
(* probing, tombstones where a key was removed, and growth by rehashing.   *)
(*                                                                         *)
(* An action is one call on one dictionary, but growth is taken slot by    *)
(* slot, as its loop does.  A key is what moo_to_string makes of it, and   *)
(* its hash any number.  References to keys and values are left out.    *)
(* So is the refusal to grow beyond 2^30 slots.                            *)
(***************************************************************************)
EXTENDS Integers, FiniteSets

CONSTANTS
  Key, Value, None,
  InitialCapacity,    (* DICT_INITIAL_CAPACITY                             *)
  LoadNumerator, LoadDenominator,   (* DICT_LOAD_FACTOR, their quotient    *)
  HashString          (* hash_string                                       *)

\* A table that need not grow has two slots that were never used.
ASSUME LoadAssumption ==
  /\ InitialCapacity \in Nat \ {0}
  /\ LoadNumerator \in Nat /\ LoadDenominator \in Nat \ {0}
  /\ InitialCapacity * (LoadDenominator - LoadNumerator)
       >= 2 * LoadDenominator
  /\ LoadNumerator <= LoadDenominator
  /\ HashString \in [Key -> Nat]
  /\ None \notin Value

VARIABLES
  frozen,     (* d->frozen                                                 *)
  capacity,   (* d->capacity                                               *)
  entries,    (* d->entries                                                *)
  count,      (* d->count                                                  *)
  tombs,      (* d->tombs                                                  *)
  pending,    (* key and value of the moo_dict_set in which dict_grow      *)
              (* runs, <<>> when it does not                               *)
  old,        (* its entries before                                        *)
  i           (* its loop counter                                          *)

growVars == <<pending, old, i>>
vars     == <<frozen, capacity, entries, count, tombs, growVars>>

Slot(cap) == 0 .. cap - 1

Unused       == [state |-> "UNUSED"]
Tombstone    == [state |-> "DELETED"]
Holding(k, v) == [state |-> "OCCUPIED", key |-> k, value |-> v]

Occupied(T) == {s \in DOMAIN T : T[s].state = "OCCUPIED"}
Deleted(T)  == {s \in DOMAIN T : T[s].state = "DELETED"}
Holds(T, s, k) == T[s].state = "OCCUPIED" /\ T[s].key = k

-----------------------------------------------------------------------------
(* dict_find_slot.                                                         *)

Home(k, cap) == HashString[k] % cap

\* How many slots the search for k has seen when it comes to slot s.
Probes(k, s, cap) == IF s >= Home(k, cap) THEN s - Home(k, cap)
                     ELSE s - Home(k, cap) + cap

\* The first of the slots S on the way of the search for k.
First(S, k, cap) ==
  CHOOSE s \in S : \A r \in S : Probes(k, s, cap) <= Probes(k, r, cap)

\* Where the search ends: at the key or at a slot that was never used.
Ends(T, k, cap) ==
  {s \in Slot(cap) : T[s].state = "UNUSED" \/ Holds(T, s, k)}

\* Seeded fault: the search ends at a tombstone too.
FindSlotToTombstone(T, k, cap) ==
  First({s \in Slot(cap) : T[s].state # "OCCUPIED" \/ Holds(T, s, k)}, k, cap)

\* The slot of k; for a key that is not there the first tombstone passed, or
\* else the unused slot where the search ended, -1 if there is neither.
FindSlot(T, k, cap) ==
  LET ends   == Ends(T, k, cap)
      end    == First(ends, k, cap)
      passed == {s \in Deleted(T) :
                   ends = {} \/ Probes(k, s, cap) < Probes(k, end, cap)}
  IN  IF ends # {} /\ Holds(T, end, k) THEN end
      ELSE IF passed # {} THEN First(passed, k, cap)
      ELSE IF ends # {} THEN end ELSE -1

\* moo_dict_get; moo_dict_has is whether there is a value.
Get(T, k, cap) ==
  LET s == FindSlot(T, k, cap)
  IN  IF T[s].state = "OCCUPIED" THEN T[s].value ELSE None

-----------------------------------------------------------------------------
Init ==
  /\ frozen = FALSE
  /\ capacity = InitialCapacity
  /\ entries = [s \in Slot(InitialCapacity) |-> Unused]
  /\ count = 0
  /\ tombs = 0
  /\ pending = <<>>
  /\ old = <<>>
  /\ i = 0

-----------------------------------------------------------------------------
(* moo_dict_set.                                                           *)

\* Seeded fault: tombstones do not count.
OverloadedByKeys(c, t, cap) == LoadDenominator * c > LoadNumerator * cap

\* With c keys and t tombstones the table has to grow.
Overloaded(c, t, cap) == LoadDenominator * (c + t) > LoadNumerator * cap

\* The key is found, takes over a tombstone or takes a new slot.
Store(k, v) ==
  LET s == FindSlot(entries, k, capacity)
  IN  /\ entries' = [entries EXCEPT ![s] = Holding(k, v)]
      /\ count' = IF entries[s].state = "OCCUPIED" THEN count ELSE count + 1
      /\ tombs' = IF entries[s].state = "DELETED" THEN tombs - 1 ELSE tombs

Set(k, v) ==
  /\ pending = <<>>
  /\ ~frozen
  /\ ~Overloaded(count, tombs, capacity)
  /\ Store(k, v)
  /\ UNCHANGED <<frozen, capacity, growVars>>

\* dict_grow begins.
SetGrowing(k, v) ==
  /\ pending = <<>>
  /\ ~frozen
  /\ Overloaded(count, tombs, capacity)
  /\ pending' = <<k, v>>
  /\ old' = entries
  /\ i' = 0
  /\ capacity' = 2 * capacity
  /\ entries' = [s \in Slot(2 * capacity) |-> Unused]
  /\ count' = 0
  /\ tombs' = 0
  /\ UNCHANGED frozen

OldCapacity == capacity \div 2

\* One turn of the loop of dict_grow.
Rehash ==
  /\ pending # <<>>
  /\ i < OldCapacity
  /\ i' = i + 1
  /\ IF old[i].state = "OCCUPIED"
     THEN /\ entries' = [entries EXCEPT
                           ![FindSlot(entries, old[i].key, capacity)] = old[i]]
          /\ count' = count + 1
     ELSE UNCHANGED <<entries, count>>
  /\ UNCHANGED <<frozen, capacity, tombs, pending, old>>

\* dict_grow is over and moo_dict_set goes on.
SetGrown ==
  /\ pending # <<>>
  /\ i = OldCapacity
  /\ Store(pending[1], pending[2])
  /\ pending' = <<>>
  /\ old' = <<>>
  /\ i' = 0
  /\ UNCHANGED <<frozen, capacity>>

-----------------------------------------------------------------------------
\* moo_dict_remove of a key that is there
Remove(k) ==
  LET s == FindSlot(entries, k, capacity)
  IN  /\ pending = <<>>
      /\ ~frozen
      /\ entries[s].state = "OCCUPIED"
      /\ entries' = [entries EXCEPT ![s] = Tombstone]
      /\ count' = count - 1
      /\ tombs' = tombs + 1
      /\ UNCHANGED <<frozen, capacity, growVars>>

\* moo_freeze
Freeze ==
  /\ pending = <<>>
  /\ frozen' = TRUE
  /\ UNCHANGED <<capacity, entries, count, tombs, growVars>>

Next ==
  \/ \E k \in Key :
       \/ Remove(k)
       \/ \E v \in Value : Set(k, v) \/ SetGrowing(k, v)
  \/ Rehash
  \/ SetGrown
  \/ Freeze

Spec == Init /\ [][Next]_vars

-----------------------------------------------------------------------------
(* Properties.                                                             *)

\* A key is in one slot and the search for it gets there: no slot on its way
\* was never used.  And every search ends.
Sound(T, cap) ==
  /\ \E s \in Slot(cap) : T[s].state = "UNUSED"
  /\ \A s \in Occupied(T), r \in Slot(cap) :
       LET k == T[s].key
       IN  /\ Probes(k, r, cap) < Probes(k, s, cap) => T[r].state # "UNUSED"
           /\ Holds(T, r, k) => r = s

\* The table is sound and counts its keys and tombstones, whatever was set and
\* removed, in the middle of a rehash too: keys that chains of other keys and
\* tombstones have pushed around the end of the table stay where they are
\* looked for, and tombstones never use up the last free slot.
TableSound ==
  /\ Sound(entries, capacity)
  /\ count = Cardinality(Occupied(entries))
  /\ tombs = Cardinality(Deleted(entries))

\* The table looked up while it is rehashed is the old one.
Map ==
  [k \in Key |-> IF pending = <<>> THEN Get(entries, k, capacity)
                  ELSE Get(old, k, OldCapacity)]

Contents == INSTANCE FiniteMap WITH map <- Map

\* What the searches find is what a map would hold: a call changes its own
\* key only, and growth none.
MapSpec == Contents!Spec
=============================================================================
