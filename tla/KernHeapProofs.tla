--------------------------- MODULE KernHeapProofs ---------------------------
(***************************************************************************)
(* Proofs about KernHeap: for every alignment, header size, word width,    *)
(* region and sequence of requests the blocks tile the heap, the list      *)
(* holds the free ones, and the heap implements the allocator that hands   *)
(* out disjoint pieces.                                                    *)
(***************************************************************************)
EXTENDS KernHeap, SequenceTheorems, FiniteSetTheorems, TLAPS

-----------------------------------------------------------------------------
(* Multiples of m.                                                         *)

LEMMA MultipleOf ==
  ASSUME NEW m \in Nat \ {0}, NEW k \in Int
  PROVE  (m * k) % m = 0
  OBVIOUS

LEMMA SumOfMultiples ==
  ASSUME NEW m \in Nat \ {0}, NEW a \in Nat, NEW b \in Nat,
         a % m = 0, b % m = 0
  PROVE  (a + b) % m = 0
<1>1. /\ a = m * (a \div m) /\ b = m * (b \div m)
      /\ a \div m \in Int /\ b \div m \in Int
  OBVIOUS
<1>2. a + b = m * ((a \div m) + (b \div m))
  BY <1>1
<1>3. (m * ((a \div m) + (b \div m))) % m = 0
  BY <1>1, MultipleOf
<1> QED
  BY <1>2, <1>3

LEMMA DifferenceOfMultiples ==
  ASSUME NEW m \in Nat \ {0}, NEW a \in Nat, NEW b \in Nat,
         a % m = 0, b % m = 0
  PROVE  (a - b) % m = 0
<1>1. /\ a = m * (a \div m) /\ b = m * (b \div m)
      /\ a \div m \in Int /\ b \div m \in Int
  OBVIOUS
<1>2. a - b = m * ((a \div m) - (b \div m))
  BY <1>1
<1>3. (m * ((a \div m) - (b \div m))) % m = 0
  BY <1>1, MultipleOf
<1> QED
  BY <1>2, <1>3

LEMMA LeastMultiple ==
  ASSUME NEW m \in Nat \ {0}, NEW a \in Nat, a % m = 0, a > 0
  PROVE  a >= m
  OBVIOUS

LEMMA MultipleBelow ==
  ASSUME NEW m \in Nat \ {0}, NEW a \in Nat
  PROVE  /\ (a - (a % m)) % m = 0
         /\ a - (a % m) \in Nat
         /\ a - (a % m) <= a /\ a - (a % m) > a - m
<1>1. /\ a - (a % m) = m * (a \div m) /\ a \div m \in Int
      /\ a % m \in 0 .. m - 1
  OBVIOUS
<1>2. (a - (a % m)) % m = 0
  BY <1>1, MultipleOf
<1>3. a % m <= a
  BY <1>1
<1> QED
  BY <1>1, <1>2, <1>3

\* checked_align_up_u64 delivers the next multiple of the alignment.
LEMMA RoundedType ==
  ASSUME NEW n \in Word, Roundable(n)
  PROVE  /\ Rounded(n) \in Word
         /\ Rounded(n) % Align = 0
         /\ Rounded(n) >= n
         /\ n # 0 => Rounded(n) >= Align
<1>1. /\ Align \in Nat \ {0} /\ MaxWord \in Nat /\ n \in Nat
      /\ n + (Align - 1) \in Nat /\ n + (Align - 1) <= MaxWord
  BY SizeAssumption DEF Word, Roundable
<1> DEFINE sum == n + (Align - 1)
<1>2. sum % (MaxWord + 1) = sum
  BY <1>1
<1>3. Rounded(n) = sum - (sum % Align)
  BY <1>2 DEF Rounded
<1>4. /\ (sum - (sum % Align)) % Align = 0
      /\ sum - (sum % Align) \in Nat
      /\ sum - (sum % Align) <= sum /\ sum - (sum % Align) > sum - Align
  BY <1>1, MultipleBelow
<1>5. Rounded(n) \in Nat /\ Rounded(n) % Align = 0 /\ Rounded(n) >= n
  BY <1>1, <1>3, <1>4
<1>6. Rounded(n) \in Word
  BY <1>1, <1>3, <1>4 DEF Word
<1>7. n # 0 => Rounded(n) >= Align
  BY <1>1, <1>5, LeastMultiple
<1> QED
  BY <1>5, <1>6, <1>7

-----------------------------------------------------------------------------
(* Lists without repetition.                                               *)

Elements(s) == {s[k] : k \in DOMAIN s}
Distinct(s) == \A j, k \in DOMAIN s : s[j] = s[k] => j = k

LEMMA ListWithout ==
  ASSUME NEW S, NEW s \in Seq(S), NEW k \in DOMAIN s, Distinct(s)
  PROVE  /\ RemoveAt(s, k) \in Seq(S)
         /\ Elements(RemoveAt(s, k)) = Elements(s) \ {s[k]}
         /\ Distinct(RemoveAt(s, k))
<1> DEFINE left  == SubSeq(s, 1, k - 1)
           right == SubSeq(s, k + 1, Len(s))
           t     == RemoveAt(s, k)
<1>1. /\ Len(s) \in Nat /\ DOMAIN s = 1 .. Len(s) /\ k \in 1 .. Len(s)
      /\ \A i \in 1 .. Len(s) : s[i] \in S
  BY LenProperties, ElementOfSeq
<1>2. /\ left \in Seq(S) /\ Len(left) = k - 1
      /\ \A i \in 1 .. k - 1 : left[i] = s[i]
  <2>1. \A i \in 1 .. k - 1 : s[i] \in S
    BY <1>1
  <2> QED
    BY <1>1, <2>1, SubSeqProperties
<1>3. /\ right \in Seq(S) /\ Len(right) = Len(s) - k
      /\ \A i \in 1 .. Len(s) - k : right[i] = s[k + i]
  <2>1. \A i \in k + 1 .. Len(s) : s[i] \in S
    BY <1>1
  <2>2. /\ right \in Seq(S)
        /\ Len(right) = IF k + 1 <= Len(s) THEN Len(s) - (k + 1) + 1 ELSE 0
        /\ \A i \in 1 .. Len(s) - (k + 1) + 1 : right[i] = s[k + 1 + i - 1]
    BY <1>1, <2>1, SubSeqProperties
  <2>3. Len(s) - (k + 1) + 1 = Len(s) - k
    BY <1>1
  <2>4. \A i \in 1 .. Len(s) - k : k + 1 + i - 1 = k + i
    BY <1>1
  <2> QED
    BY <1>1, <2>2, <2>3, <2>4
<1>4. t = left \o right
  BY DEF RemoveAt
<1> HIDE DEF left, right, t
<1>5. /\ t \in Seq(S) /\ Len(t) = Len(s) - 1
      /\ DOMAIN t = 1 .. Len(s) - 1
      /\ \A i \in 1 .. Len(s) - 1 :
           t[i] = IF i < k THEN s[i] ELSE s[i + 1]
  <2>1. /\ t \in Seq(S) /\ Len(t) = Len(s) - 1
        /\ \A i \in 1 .. Len(s) - 1 :
             t[i] = IF i <= k - 1 THEN left[i] ELSE right[i - (k - 1)]
    <3>1. /\ t \in Seq(S) /\ Len(t) = Len(left) + Len(right)
          /\ \A i \in 1 .. Len(left) + Len(right) :
               t[i] = IF i <= Len(left) THEN left[i]
                      ELSE right[i - Len(left)]
      BY <1>2, <1>3, <1>4, ConcatProperties
    <3>2. Len(left) = k - 1 /\ Len(left) + Len(right) = Len(s) - 1
      BY <1>1, <1>2, <1>3
    <3> QED
      BY <3>1, <3>2
  <2>2. DOMAIN t = 1 .. Len(s) - 1
    BY <2>1, LenProperties
  <2>3. ASSUME NEW i \in 1 .. Len(s) - 1
        PROVE  t[i] = IF i < k THEN s[i] ELSE s[i + 1]
    <3>1. CASE i < k
      BY <1>1, <1>2, <2>1, <3>1
    <3>2. CASE i >= k
      <4>1. /\ i - (k - 1) \in 1 .. Len(s) - k
            /\ k + (i - (k - 1)) = i + 1
        BY <1>1, <3>2
      <4>2. t[i] = right[i - (k - 1)]
        BY <1>1, <2>1, <3>2
      <4> QED
        BY <1>1, <1>3, <3>2, <4>1, <4>2
    <3> QED
      BY <1>1, <3>1, <3>2
  <2> QED
    BY <2>1, <2>2, <2>3
<1>6. Elements(t) \subseteq Elements(s) \ {s[k]}
  BY <1>1, <1>5 DEF Elements, Distinct
<1>7. ASSUME NEW i \in DOMAIN s, s[i] # s[k]
      PROVE  s[i] \in Elements(t)
  <2>1. CASE i < k
    BY <1>1, <1>5, <2>1 DEF Elements
  <2>2. CASE i > k
    <3>1. i - 1 \in 1 .. Len(s) - 1 /\ ~(i - 1 < k) /\ (i - 1) + 1 = i
      BY <1>1, <2>2
    <3>2. t[i - 1] = s[i]
      BY <1>5, <3>1
    <3> QED
      BY <1>5, <3>1, <3>2 DEF Elements
  <2> QED
    BY <1>1, <1>7, <2>1, <2>2
<1>8. Elements(s) \ {s[k]} \subseteq Elements(t)
  BY <1>7 DEF Elements
<1>9. ASSUME NEW i \in DOMAIN t, NEW j \in DOMAIN t, t[i] = t[j]
      PROVE  i = j
  <2> DEFINE back(n) == IF n < k THEN n ELSE n + 1
  <2>1. \A n \in 1 .. Len(s) - 1 : back(n) \in DOMAIN s /\ t[n] = s[back(n)]
    BY <1>1, <1>5
  <2>2. i \in 1 .. Len(s) - 1 /\ j \in 1 .. Len(s) - 1
    BY <1>5
  <2>3. back(i) = back(j)
    <3> HIDE DEF back
    <3> QED
      BY <1>9, <2>1, <2>2 DEF Distinct
  <2> QED
    BY <1>1, <2>2, <2>3
<1>10. Distinct(t)
  BY <1>9 DEF Distinct
<1> QED
  BY <1>5, <1>6, <1>8, <1>10 DEF t

LEMMA ListWith ==
  ASSUME NEW S, NEW s \in Seq(S), NEW e \in S, e \notin Elements(s),
         Distinct(s)
  PROVE  /\ <<e>> \o s \in Seq(S)
         /\ Elements(<<e>> \o s) = Elements(s) \cup {e}
         /\ Distinct(<<e>> \o s)
<1> DEFINE t == <<e>> \o s
<1>1. Len(s) \in Nat /\ DOMAIN s = 1 .. Len(s)
  BY LenProperties
<1>2. /\ t \in Seq(S) /\ Len(t) = Len(s) + 1
      /\ \A i \in 1 .. Len(s) + 1 : t[i] = IF i <= 1 THEN e ELSE s[i - 1]
  <2>1. <<e>> \in Seq(S) /\ Len(<<e>>) = 1 /\ <<e>>[1] = e
    OBVIOUS
  <2> QED
    BY <1>1, <2>1, ConcatProperties
<1>3. DOMAIN t = 1 .. Len(s) + 1
  BY <1>2, LenProperties
<1> HIDE DEF t
<1>4. Elements(t) \subseteq Elements(s) \cup {e}
  BY <1>1, <1>2, <1>3 DEF Elements
<1>5. ASSUME NEW i \in DOMAIN s
      PROVE  s[i] \in Elements(t)
  <2>1. i + 1 \in 1 .. Len(s) + 1 /\ ~(i + 1 <= 1) /\ (i + 1) - 1 = i
    BY <1>1
  <2>2. t[i + 1] = s[i]
    BY <1>2, <2>1
  <2> QED
    BY <1>3, <2>1, <2>2 DEF Elements
<1>6. e \in Elements(t)
  BY <1>1, <1>2, <1>3 DEF Elements
<1>7. Elements(t) = Elements(s) \cup {e}
  BY <1>4, <1>5, <1>6 DEF Elements
<1>8. ASSUME NEW i \in DOMAIN t, NEW j \in DOMAIN t, t[i] = t[j]
      PROVE  i = j
  <2>1. i \in 1 .. Len(s) + 1 /\ j \in 1 .. Len(s) + 1
    BY <1>3
  <2>2. \A n \in 1 .. Len(s) + 1 : n > 1 => n - 1 \in DOMAIN s
    BY <1>1
  <2>3. \A n \in DOMAIN s : s[n] # e
    BY DEF Elements
  <2>4. CASE i = 1 /\ j > 1
    BY <1>1, <1>2, <1>8, <2>1, <2>2, <2>3, <2>4
  <2>5. CASE i > 1 /\ j = 1
    BY <1>1, <1>2, <1>8, <2>1, <2>2, <2>3, <2>5
  <2>6. CASE i > 1 /\ j > 1
    <3>1. s[i - 1] = s[j - 1] /\ i - 1 \in DOMAIN s /\ j - 1 \in DOMAIN s
      BY <1>1, <1>2, <1>8, <2>1, <2>2, <2>6
    <3>2. i - 1 = j - 1
      BY <3>1 DEF Distinct
    <3> QED
      BY <1>1, <2>1, <3>2
  <2> QED
    BY <1>1, <2>1, <2>4, <2>5, <2>6
<1>9. Distinct(t)
  BY <1>8 DEF Distinct
<1> QED
  BY <1>2, <1>7, <1>9 DEF t

LEMMA ListReplaced ==
  ASSUME NEW S, NEW s \in Seq(S), NEW k \in DOMAIN s, NEW e \in S,
         e \notin Elements(s), Distinct(s)
  PROVE  /\ [s EXCEPT ![k] = e] \in Seq(S)
         /\ Elements([s EXCEPT ![k] = e]) = (Elements(s) \ {s[k]}) \cup {e}
         /\ Distinct([s EXCEPT ![k] = e])
<1> DEFINE t == [s EXCEPT ![k] = e]
<1>1. Len(s) \in Nat /\ DOMAIN s = 1 .. Len(s)
  BY LenProperties
<1>2. t \in Seq(S) /\ DOMAIN t = DOMAIN s
      /\ \A j \in DOMAIN s : t[j] = IF j = k THEN e ELSE s[j]
  BY <1>1, ExceptSeq
<1> HIDE DEF t
<1>3. Elements(t) = (Elements(s) \ {s[k]}) \cup {e}
  BY <1>2 DEF Elements, Distinct
<1>4. Distinct(t)
  BY <1>2 DEF Elements, Distinct
<1> QED
  BY <1>2, <1>3, <1>4 DEF t

-----------------------------------------------------------------------------
(* The inductive invariant.                                                *)

\* Without a heap there are no blocks; the bump moves inside the region, in
\* multiples of the alignment, and only when a block is cut.
BumpInRegion ==
  /\ heap_start = 0 => bump = 0 /\ DOMAIN block = {}
  /\ DOMAIN block = {} => bump = heap_start
  /\ heap_start <= bump /\ bump <= heap_ende
  /\ heap_start % Align = 0 /\ bump % Align = 0

HeapInv == TypeOK /\ BumpInRegion /\ HeapTiled /\ ListHoldsFree

FreeBlocks == {h \in DOMAIN block : block[h].frei = TRUE}

LEMMA ListForm ==
  ListHoldsFree <=> Elements(freelist) = FreeBlocks /\ Distinct(freelist)
  BY DEF ListHoldsFree, Elements, Distinct, FreeBlocks

LEMMA BlockForm ==
  ASSUME HeapInv, NEW h \in DOMAIN block
  PROVE  /\ h \in Word /\ h \in Nat /\ block[h] \in HeaderType
         /\ block[h].size \in Nat /\ block[h].size <= MaxWord
         /\ heap_start # 0 /\ heap_start <= h /\ h % Align = 0
         /\ block[h].size >= Align /\ block[h].size % Align = 0
         /\ End(h) = h + HeaderSize + block[h].size
         /\ End(h) <= bump /\ Payload(h) < bump /\ h < bump
         /\ Payload(h) \in Word \ {0} /\ Payload(h) = h + HeaderSize
         /\ Payload(h) % Align = 0
<1>1. /\ h \in Nat /\ h \in Word /\ block[h] \in HeaderType
      /\ bump \in Nat /\ bump <= MaxWord
  BY DEF HeapInv, TypeOK, Word
<1>2. block[h].size \in Nat /\ block[h].size <= MaxWord
  BY <1>1 DEF HeaderType, Word
<1>3. /\ heap_start <= h /\ h % Align = 0
      /\ block[h].size >= Align /\ block[h].size % Align = 0
      /\ End(h) <= bump
  BY DEF HeapInv, HeapTiled
<1>4. heap_start # 0
  BY DEF HeapInv, BumpInRegion
<1>5. /\ Align \in Nat \ {0} /\ HeaderSize \in Nat \ {0}
      /\ HeaderSize % Align = 0 /\ MaxWord \in Nat
  BY SizeAssumption
<1>6. /\ Payload(h) = h + HeaderSize
      /\ End(h) = h + HeaderSize + block[h].size
  BY <1>1, <1>2, <1>5 DEF Payload, End
<1>7. Payload(h) % Align = 0
  BY <1>1, <1>3, <1>5, <1>6, SumOfMultiples
<1>8. Payload(h) < bump /\ h < bump /\ Payload(h) \in Word \ {0}
  BY <1>1, <1>2, <1>3, <1>5, <1>6 DEF Word
<1> QED
  BY <1>1, <1>2, <1>3, <1>4, <1>6, <1>7, <1>8

LEMMA InitInv == Init => HeapInv
<1> SUFFICES ASSUME Init PROVE HeapInv
  OBVIOUS
<1>1. /\ 0 \in Word /\ 0 % Align = 0
  BY SizeAssumption DEF Word
<1>2. DOMAIN block = {}
  BY DEF Init, NoBlock
<1>3. block \in [DOMAIN block -> HeaderType]
  BY DEF Init, NoBlock
<1>4. TypeOK
  <2>1. freelist \in Seq(Word) /\ answer \in Word \X Word
    BY <1>1 DEF Init
  <2>2. block \in [DOMAIN block -> HeaderType] /\ DOMAIN block \subseteq Word
    BY <1>2, <1>3
  <2>3. /\ heap_start \in Word /\ heap_ende \in Word /\ bump \in Word
        /\ belegt \in Int /\ peak \in Int
    BY <1>1 DEF Init
  <2>4. halted \in BOOLEAN
    BY DEF Init
  <2> QED
    BY <2>1, <2>2, <2>3, <2>4 DEF TypeOK
<1>5. BumpInRegion
  BY <1>1, <1>2 DEF Init, BumpInRegion
<1>6. HeapTiled /\ ListHoldsFree
  BY <1>2 DEF Init, HeapTiled, ListHoldsFree
<1> QED
  BY <1>4, <1>5, <1>6 DEF HeapInv

LEMMA HeapInitInv ==
  ASSUME HeapInv, NEW start \in Word, NEW ende \in Word, HeapInit(start, ende)
  PROVE  HeapInv'
<1>1. /\ 0 \in Word /\ 0 % Align = 0
  BY SizeAssumption DEF Word
<1>2. DOMAIN block' = {} /\ block' \in [DOMAIN block' -> HeaderType]
  BY DEF HeapInit, NoBlock
<1>3. /\ heap_start' \in Word /\ heap_ende' \in Word /\ bump' = heap_start'
      /\ heap_start' % Align = 0 /\ heap_start' <= heap_ende'
  <2>1. CASE Usable(start, ende)
    <3>1. Roundable(start) /\ Rounded(start) < ende
      BY <2>1 DEF Usable
    <3>2. Rounded(start) \in Word /\ Rounded(start) % Align = 0
      BY <3>1, RoundedType
    <3>3. heap_start' = Rounded(start) /\ heap_ende' = ende /\ bump' = heap_start'
      BY <2>1 DEF HeapInit
    <3> QED
      BY <3>1, <3>2, <3>3 DEF Word
  <2>2. CASE ~Usable(start, ende)
    BY <1>1, <2>2 DEF HeapInit
  <2> QED
    BY <2>1, <2>2
<1>4. TypeOK'
  BY <1>1, <1>2, <1>3 DEF HeapInv, TypeOK, HeapInit
<1>5. BumpInRegion'
  <2>1. bump' <= heap_ende' /\ heap_start' <= bump'
    BY <1>3 DEF Word
  <2> QED
    BY <1>2, <1>3, <2>1 DEF BumpInRegion
<1>6. HeapTiled' /\ ListHoldsFree'
  BY <1>2 DEF HeapInit, HeapTiled, ListHoldsFree
<1> QED
  BY <1>4, <1>5, <1>6 DEF HeapInv

\* The request of a search has been rounded to a size a block can have.
LEMMA NeedForm ==
  ASSUME NEW n \in Request, Searching(n)
  PROVE  /\ n \in Word /\ n \in Nat /\ heap_start # 0
         /\ Rounded(n) \in Word /\ Rounded(n) \in Nat
         /\ Rounded(n) <= MaxWord
         /\ Rounded(n) % Align = 0 /\ Rounded(n) >= n /\ Rounded(n) >= Align
<1>1. n \in Word /\ n \in Nat /\ n # 0 /\ Roundable(n) /\ heap_start # 0
  BY InputAssumption DEF Searching, Word
<1> QED
  BY <1>1, RoundedType, SizeAssumption DEF Word

LEMMA AllocBumpInv ==
  ASSUME HeapInv, NEW n \in Request, AllocBump(n)
  PROVE  HeapInv'
<1> DEFINE need == Rounded(n)
<1>1. /\ Align \in Nat \ {0} /\ HeaderSize \in Nat \ {0}
      /\ HeaderSize % Align = 0 /\ MaxWord \in Nat
  BY SizeAssumption
<1>2. /\ n \in Word /\ heap_start # 0 /\ need \in Word /\ need \in Nat
      /\ need % Align = 0 /\ need >= Align
  BY NeedForm DEF AllocBump
<1>3. /\ bump \in Nat /\ heap_start \in Nat /\ heap_ende \in Nat
      /\ heap_ende <= MaxWord /\ bump \in Word /\ bump % Align = 0
      /\ heap_start % Align = 0 /\ heap_start <= bump /\ bump <= heap_ende
  BY DEF HeapInv, TypeOK, BumpInRegion, Word
<1>4. bump \notin DOMAIN block /\ \A h \in DOMAIN block : h < bump
  BY <1>3, BlockForm
<1>5. /\ bump' = bump + HeaderSize + need
      /\ heap_start' = heap_start /\ heap_ende' = heap_ende
      /\ Payload(bump) = bump + HeaderSize
      /\ heap_ende - bump >= HeaderSize /\ need <= heap_ende - bump - HeaderSize
  BY DEF AllocBump, bounds, Payload
<1>6. /\ DOMAIN block' = DOMAIN block \cup {bump}
      /\ block'[bump] = Header(need, FALSE)
      /\ \A h \in DOMAIN block : block'[h] = block[h]
  BY <1>4 DEF AllocBump
<1>7. /\ block'[bump].size = need /\ block'[bump].frei = FALSE
      /\ Header(need, FALSE) \in HeaderType
  BY <1>2, <1>6 DEF Header, HeaderType
<1>8. /\ bump' \in Word /\ bump' <= heap_ende' /\ heap_start' <= bump'
      /\ Payload(bump) \in Word
  BY <1>1, <1>2, <1>3, <1>5 DEF Word
<1>9. bump' % Align = 0
  <2>1. bump + HeaderSize \in Nat
    BY <1>1, <1>3
  <2>2. (bump + HeaderSize) % Align = 0
    BY <1>1, <1>3, SumOfMultiples
  <2>3. ((bump + HeaderSize) + need) % Align = 0
    BY <1>1, <1>2, <2>1, <2>2, SumOfMultiples
  <2> QED
    BY <1>5, <2>3
<1>10. TypeOK'
  <2>1. DOMAIN block' \subseteq Word
    BY <1>3, <1>6 DEF HeapInv, TypeOK
  <2>2. block' \in [DOMAIN block' -> HeaderType]
    <3>1. \A h \in DOMAIN block : block[h] \in HeaderType
      BY DEF HeapInv, TypeOK
    <3>2. \A h \in DOMAIN block \cup {bump} : block'[h] \in HeaderType
      BY <1>6, <1>7, <3>1
    <3>3. block' = [h \in DOMAIN block \cup {bump} |-> block'[h]]
      BY DEF AllocBump
    <3> QED
      BY <1>6, <3>2, <3>3
  <2>3. /\ freelist' \in Seq(Word) /\ answer' \in Word \X Word
        /\ heap_start' \in Word /\ heap_ende' \in Word
    BY <1>2, <1>5, <1>8 DEF HeapInv, TypeOK, AllocBump
  <2>4. belegt' \in Int /\ peak' \in Int
    BY <1>2 DEF HeapInv, TypeOK, AllocBump, Book
  <2>5. halted' \in BOOLEAN
    BY DEF HeapInv, TypeOK, AllocBump
  <2> QED
    BY <1>8, <2>1, <2>2, <2>3, <2>4, <2>5 DEF TypeOK
<1>11. BumpInRegion'
  BY <1>2, <1>3, <1>5, <1>6, <1>8, <1>9 DEF BumpInRegion
<1>12. HeapTiled'
  <2>1. heap_start' \in DOMAIN block'
    BY <1>5, <1>6 DEF HeapInv, HeapTiled, BumpInRegion
  <2>2. ASSUME NEW h \in DOMAIN block
        PROVE  /\ heap_start' <= h /\ h % Align = 0
               /\ block'[h].size >= Align /\ block'[h].size % Align = 0
               /\ End(h)' = End(h) /\ End(h) <= bump'
               /\ End(h) = bump \/ End(h) \in DOMAIN block
               /\ \A g \in DOMAIN block' : g > h => g >= End(h)
    <3>1. End(h)' = End(h)
      BY <1>6 DEF End, Payload
    <3>2. /\ h \in Nat /\ heap_start <= h /\ h % Align = 0 /\ End(h) \in Nat
          /\ block[h].size >= Align /\ block[h].size % Align = 0
          /\ End(h) <= bump
      BY <1>1, BlockForm
    <3>3. /\ End(h) = bump \/ End(h) \in DOMAIN block
          /\ \A g \in DOMAIN block : g > h => g >= End(h)
      BY DEF HeapInv, HeapTiled
    <3> QED
      BY <1>1, <1>2, <1>3, <1>5, <1>6, <3>1, <3>2, <3>3
  <2>3. ASSUME NEW h, h = bump
        PROVE  /\ heap_start' <= h /\ End(h)' = bump'
               /\ \A g \in DOMAIN block' : ~(g > h)
    <3>1. End(h)' = h + HeaderSize + need
      BY <1>7, <2>3 DEF End, Payload
    <3>2. \A g \in DOMAIN block' : ~(g > h)
      <4>1. \A g \in DOMAIN block : g \in Nat
        BY BlockForm
      <4> QED
        BY <1>3, <1>4, <1>6, <2>3, <4>1
    <3> QED
      BY <1>3, <1>5, <2>3, <3>1, <3>2
  <2>4. ASSUME NEW h \in DOMAIN block'
        PROVE  /\ heap_start' <= h /\ h % Align = 0
               /\ block'[h].size >= Align /\ block'[h].size % Align = 0
               /\ End(h)' = bump' \/ End(h)' \in DOMAIN block'
               /\ End(h)' <= bump'
               /\ \A g \in DOMAIN block' : g > h => g >= End(h)'
    <3>1. CASE h = bump
      BY <1>2, <1>3, <1>7, <1>8, <2>3, <3>1 DEF Word
    <3>2. CASE h \in DOMAIN block
      BY <1>6, <2>2, <3>2
    <3> QED
      BY <1>6, <3>1, <3>2
  <2> QED
    BY <2>1, <2>4 DEF HeapTiled
<1>13. ListHoldsFree'
  <2>1. {h \in DOMAIN block' : block'[h].frei}
           = {h \in DOMAIN block : block[h].frei}
    BY <1>4, <1>6, <1>7
  <2>2. freelist' = freelist
    BY DEF AllocBump
  <2> QED
    BY <2>1, <2>2 DEF HeapInv, ListHoldsFree
<1> QED
  BY <1>10, <1>11, <1>12, <1>13 DEF HeapInv

\* Only sizes make the tiling.
LEMMA TilingKept ==
  ASSUME HeapInv, bump' = bump, heap_start' = heap_start,
         heap_ende' = heap_ende, DOMAIN block' = DOMAIN block,
         \A h \in DOMAIN block : block'[h].size = block[h].size
  PROVE  BumpInRegion' /\ HeapTiled'
<1>1. BumpInRegion'
  BY DEF HeapInv, BumpInRegion
<1>2. ASSUME NEW h \in DOMAIN block
      PROVE  End(h)' = End(h)
  BY DEF End, Payload
<1>3. HeapTiled'
  BY <1>2 DEF HeapInv, HeapTiled
<1> QED
  BY <1>1, <1>3

\* A block of the list is a free block.
LEMMA ListedBlock ==
  ASSUME HeapInv, NEW k \in DOMAIN freelist
  PROVE  /\ freelist[k] \in DOMAIN block /\ block[freelist[k]].frei = TRUE
         /\ Elements(freelist) = FreeBlocks /\ Distinct(freelist)
         /\ freelist \in Seq(Word)
<1>1. Elements(freelist) = FreeBlocks /\ Distinct(freelist)
  BY ListForm DEF HeapInv
<1>2. freelist[k] \in FreeBlocks
  BY <1>1 DEF Elements
<1> QED
  BY <1>1, <1>2 DEF FreeBlocks, HeapInv, TypeOK

LEMMA AllocWholeInv ==
  ASSUME HeapInv, NEW n \in Request, AllocWhole(n)
  PROVE  HeapInv'
<1>1. PICK k \in DOMAIN freelist :
        /\ block' = [block EXCEPT ![freelist[k]].frei = FALSE]
        /\ freelist' = RemoveAt(freelist, k)
        /\ answer' = <<n, Payload(freelist[k])>>
        /\ Book(block[freelist[k]].size)
  BY DEF AllocWhole
<1>2. n \in Word
  BY NeedForm DEF AllocWhole
<1>3. /\ bump' = bump /\ heap_start' = heap_start /\ heap_ende' = heap_ende
      /\ halted' = halted
  BY DEF AllocWhole, bounds
<1> DEFINE h == freelist[k]
<1>4. /\ h \in DOMAIN block /\ block[h].frei = TRUE
      /\ Elements(freelist) = FreeBlocks /\ Distinct(freelist)
      /\ freelist \in Seq(Word)
  BY ListedBlock
<1>5. /\ freelist' \in Seq(Word)
      /\ Elements(freelist') = FreeBlocks \ {h} /\ Distinct(freelist')
  BY <1>1, <1>4, ListWithout
<1>6. block[h].size \in Nat /\ Payload(h) \in Word /\ block[h] \in HeaderType
  BY <1>4, BlockForm
<1> HIDE DEF h
<1>7. /\ DOMAIN block' = DOMAIN block
      /\ \A g \in DOMAIN block : g # h => block'[g] = block[g]
      /\ block'[h] = [block[h] EXCEPT !.frei = FALSE]
  BY <1>1, <1>4 DEF h, HeapInv, TypeOK
<1>8. block'[h] \in HeaderType /\ block'[h].size = block[h].size
      /\ block'[h].frei = FALSE
  BY <1>6, <1>7 DEF HeaderType
<1>9. TypeOK'
  <2>1. DOMAIN block' \subseteq Word
    BY <1>7 DEF HeapInv, TypeOK
  <2>2. block' \in [DOMAIN block' -> HeaderType]
    <3>1. block \in [DOMAIN block -> HeaderType]
      BY DEF HeapInv, TypeOK
    <3>2. \A g \in DOMAIN block : block'[g] \in HeaderType
      BY <1>7, <1>8, <3>1
    <3>3. block' = [g \in DOMAIN block |-> block'[g]]
      BY <1>1, <3>1
    <3> QED
      BY <1>7, <3>2, <3>3
  <2>3. /\ answer' \in Word \X Word /\ bump' \in Word
        /\ heap_start' \in Word /\ heap_ende' \in Word
    BY <1>1, <1>2, <1>3, <1>6 DEF HeapInv, TypeOK, h
  <2>4. belegt' \in Int /\ peak' \in Int
    BY <1>1, <1>6 DEF HeapInv, TypeOK, Book, h
  <2>5. halted' \in BOOLEAN
    BY <1>3 DEF HeapInv, TypeOK
  <2> QED
    BY <1>5, <2>1, <2>2, <2>3, <2>4, <2>5 DEF TypeOK
<1>10. BumpInRegion' /\ HeapTiled'
  BY <1>3, <1>7, <1>8, TilingKept
<1>11. ListHoldsFree'
  <2>1. {g \in DOMAIN block' : block'[g].frei} = FreeBlocks \ {h}
    BY <1>7, <1>8 DEF FreeBlocks
  <2> QED
    BY <1>5, <2>1 DEF ListHoldsFree, Elements, Distinct
<1> QED
  BY <1>9, <1>10, <1>11 DEF HeapInv

LEMMA FreeInv ==
  ASSUME HeapInv, NEW p \in Word, Free(p)
  PROVE  HeapInv'
<1> DEFINE h == p - HeaderSize
<1>1. /\ h \in DOMAIN block /\ ~block[h].frei
      /\ block' = [block EXCEPT ![h].frei = TRUE]
      /\ freelist' = <<h>> \o freelist
      /\ belegt' = belegt - block[h].size /\ peak' = peak
      /\ answer' = <<0, 0>>
  BY DEF Free, GivenOut
<1>2. /\ bump' = bump /\ heap_start' = heap_start /\ heap_ende' = heap_ende
      /\ halted' = halted
  BY DEF Free, bounds
<1> HIDE DEF h
<1>3. /\ block[h].size \in Nat /\ block[h] \in HeaderType /\ h \in Word
  BY <1>1, BlockForm
<1>4. /\ Elements(freelist) = FreeBlocks /\ Distinct(freelist)
      /\ freelist \in Seq(Word) /\ h \notin FreeBlocks
  BY <1>1, ListForm DEF HeapInv, TypeOK, FreeBlocks
<1>5. /\ freelist' \in Seq(Word)
      /\ Elements(freelist') = FreeBlocks \cup {h} /\ Distinct(freelist')
  BY <1>1, <1>3, <1>4, ListWith
<1>6. /\ DOMAIN block' = DOMAIN block
      /\ \A g \in DOMAIN block : g # h => block'[g] = block[g]
      /\ block'[h] = [block[h] EXCEPT !.frei = TRUE]
  BY <1>1 DEF HeapInv, TypeOK
<1>7. block'[h] \in HeaderType /\ block'[h].size = block[h].size
      /\ block'[h].frei = TRUE
  BY <1>3, <1>6 DEF HeaderType
<1>8. TypeOK'
  <2>1. DOMAIN block' \subseteq Word
    BY <1>6 DEF HeapInv, TypeOK
  <2>2. block' \in [DOMAIN block' -> HeaderType]
    <3>1. block \in [DOMAIN block -> HeaderType]
      BY DEF HeapInv, TypeOK
    <3>2. \A g \in DOMAIN block : block'[g] \in HeaderType
      BY <1>6, <1>7, <3>1
    <3>3. block' = [g \in DOMAIN block |-> block'[g]]
      BY <1>1, <3>1
    <3> QED
      BY <1>6, <3>2, <3>3
  <2>3. answer' \in Word \X Word
    BY <1>1, SizeAssumption DEF Word
  <2>4. /\ bump' \in Word /\ heap_start' \in Word /\ heap_ende' \in Word
        /\ belegt' \in Int /\ peak' \in Int
    BY <1>1, <1>2, <1>3 DEF HeapInv, TypeOK
  <2>5. halted' \in BOOLEAN
    BY <1>2 DEF HeapInv, TypeOK
  <2> QED
    BY <1>5, <2>1, <2>2, <2>3, <2>4, <2>5 DEF TypeOK
<1>9. BumpInRegion' /\ HeapTiled'
  BY <1>2, <1>6, <1>7, TilingKept
<1>10. ListHoldsFree'
  <2>1. {g \in DOMAIN block' : block'[g].frei} = FreeBlocks \cup {h}
    BY <1>1, <1>6, <1>7 DEF FreeBlocks
  <2> QED
    BY <1>5, <2>1 DEF ListHoldsFree, Elements, Distinct
<1> QED
  BY <1>8, <1>9, <1>10 DEF HeapInv

\* A split cuts the block found in two; the rest is a block of its own.
LEMMA SplitForm ==
  ASSUME HeapInv, NEW n \in Request, Searching(n), NEW k \in DOMAIN freelist,
         NEW h, h = freelist[k], NEW need, need = Rounded(n),
         NEW rest, rest = Payload(h) + need,
         WorthSplitting(h, need)
  PROVE  /\ h \in DOMAIN block /\ rest \notin DOMAIN block
         /\ rest \in Word /\ rest % Align = 0 /\ h < rest
         /\ heap_start <= rest
         /\ End(h) - Payload(rest) \in Word
         /\ End(h) - Payload(rest) >= Align
         /\ (End(h) - Payload(rest)) % Align = 0
         /\ rest = h + HeaderSize + need /\ Payload(rest) = rest + HeaderSize
         /\ rest < End(h) /\ Payload(h) \in Word
<1>1. /\ Align \in Nat \ {0} /\ HeaderSize \in Nat \ {0}
      /\ HeaderSize % Align = 0 /\ MaxWord \in Nat
  BY SizeAssumption
<1>2. /\ need \in Nat /\ need % Align = 0 /\ need >= Align
      /\ need <= MaxWord
  BY NeedForm
<1>3. h \in DOMAIN block
  BY ListedBlock
<1>4. /\ h \in Nat /\ h % Align = 0 /\ heap_start <= h
      /\ block[h].size \in Nat /\ block[h].size % Align = 0
      /\ End(h) = h + HeaderSize + block[h].size
      /\ Payload(h) \in Word /\ Payload(h) = h + HeaderSize
      /\ Payload(h) % Align = 0 /\ End(h) <= bump
  BY <1>3, BlockForm
<1>5. bump \in Nat /\ bump <= MaxWord /\ heap_start \in Nat
  BY DEF HeapInv, TypeOK, Word
<1>6. block[h].size - need >= HeaderSize + Align
  BY DEF WorthSplitting, MinBlock
<1>7. /\ rest = h + HeaderSize + need /\ Payload(rest) = rest + HeaderSize
      /\ End(h) - Payload(rest) = block[h].size - need - HeaderSize
  <2>1. rest = h + HeaderSize + need
    BY <1>4
  <2>2. Payload(rest) = rest + HeaderSize
    BY DEF Payload
  <2>3. rest \in Nat /\ Payload(rest) \in Nat
    BY <1>1, <1>2, <1>4, <2>1, <2>2
  <2>4. End(h) - Payload(rest) = block[h].size - need - HeaderSize
    BY <1>1, <1>2, <1>4, <2>1, <2>2, <2>3
  <2> QED
    BY <2>1, <2>2, <2>4
<1>8. /\ rest \in Nat /\ h < rest /\ rest < End(h) /\ rest \in Word
      /\ heap_start <= rest
  BY <1>1, <1>2, <1>4, <1>5, <1>6, <1>7 DEF Word
<1>9. rest \notin DOMAIN block
  BY <1>1, <1>3, <1>4, <1>8 DEF HeapInv, HeapTiled
<1>10. rest % Align = 0
  <2>1. ((h + HeaderSize) + need) % Align = 0
    <3>1. h + HeaderSize \in Nat /\ (h + HeaderSize) % Align = 0
      BY <1>1, <1>4
    <3> QED
      BY <1>1, <1>2, <3>1, SumOfMultiples
  <2> QED
    BY <1>7, <2>1
<1>11. /\ End(h) - Payload(rest) \in Word /\ End(h) - Payload(rest) >= Align
  BY <1>1, <1>2, <1>4, <1>5, <1>6, <1>7 DEF Word
<1>12. (End(h) - Payload(rest)) % Align = 0
  <2>1. block[h].size - need \in Nat
    BY <1>1, <1>2, <1>4, <1>6
  <2>2. (block[h].size - need) % Align = 0
    BY <1>1, <1>2, <1>4, DifferenceOfMultiples
  <2>3. ((block[h].size - need) - HeaderSize) % Align = 0
    BY <1>1, <2>1, <2>2, DifferenceOfMultiples
  <2> QED
    BY <1>7, <2>3
<1> QED
  BY <1>3, <1>4, <1>7, <1>8, <1>9, <1>10, <1>11, <1>12

LEMMA AllocSplitInv ==
  ASSUME HeapInv, NEW n \in Request, AllocSplit(n)
  PROVE  HeapInv'
<1>0. Searching(n)
  BY DEF AllocSplit
<1>1. PICK k \in DOMAIN freelist :
        LET h    == freelist[k]
            need == Rounded(n)
            rest == Payload(h) + need
        IN  /\ WorthSplitting(h, need)
            /\ block' = [a \in DOMAIN block \cup {rest} |->
                           CASE a = h    -> Header(need, FALSE)
                             [] a = rest -> Header(End(h) - Payload(rest), TRUE)
                             [] OTHER    -> block[a]]
            /\ freelist' = [freelist EXCEPT ![k] = rest]
            /\ answer' = <<n, Payload(h)>>
            /\ Book(need)
  BY DEF AllocSplit
<1> DEFINE h    == freelist[k]
           need == Rounded(n)
           rest == Payload(h) + need
           left == End(h) - Payload(rest)
<1>2. /\ WorthSplitting(h, need)
      /\ block' = [a \in DOMAIN block \cup {rest} |->
                     CASE a = h    -> Header(need, FALSE)
                       [] a = rest -> Header(left, TRUE)
                       [] OTHER    -> block[a]]
      /\ freelist' = [freelist EXCEPT ![k] = rest]
      /\ answer' = <<n, Payload(h)>>
      /\ Book(need)
  BY <1>1
<1>3. /\ h \in DOMAIN block /\ rest \notin DOMAIN block
      /\ rest \in Word /\ rest % Align = 0 /\ h < rest
      /\ heap_start <= rest
      /\ left \in Word /\ left >= Align /\ left % Align = 0
      /\ rest = h + HeaderSize + need /\ Payload(rest) = rest + HeaderSize
      /\ rest < End(h) /\ Payload(h) \in Word
  BY <1>0, <1>2, SplitForm
<1>4. /\ n \in Word /\ need \in Word /\ need \in Nat
      /\ need % Align = 0 /\ need >= Align
  BY <1>0, NeedForm
<1>5. /\ block[h].frei = TRUE /\ Elements(freelist) = FreeBlocks
      /\ Distinct(freelist) /\ freelist \in Seq(Word) /\ freelist[k] = h
  BY ListedBlock
<1>6. /\ bump' = bump /\ heap_start' = heap_start /\ heap_ende' = heap_ende
      /\ halted' = halted
  BY DEF AllocSplit, bounds
<1> HIDE DEF h, need, rest, left
<1>7. /\ DOMAIN block' = DOMAIN block \cup {rest}
      /\ block'[h] = Header(need, FALSE) /\ block'[rest] = Header(left, TRUE)
      /\ \A g \in DOMAIN block : g # h => block'[g] = block[g]
  <2>1. h # rest
    BY <1>3
  <2> QED
    BY <1>2, <1>3, <2>1
<1>8. /\ block'[h].size = need /\ block'[h].frei = FALSE
      /\ block'[rest].size = left /\ block'[rest].frei = TRUE
      /\ Header(need, FALSE) \in HeaderType /\ Header(left, TRUE) \in HeaderType
  BY <1>3, <1>4, <1>7 DEF Header, HeaderType
<1>9. /\ freelist' \in Seq(Word)
      /\ Elements(freelist') = (FreeBlocks \ {h}) \cup {rest}
      /\ Distinct(freelist')
  <2>1. rest \notin Elements(freelist)
    BY <1>3, <1>5 DEF FreeBlocks
  <2> DEFINE t == [freelist EXCEPT ![k] = rest]
  <2>2. /\ t \in Seq(Word) /\ Distinct(t)
        /\ Elements(t) = (Elements(freelist) \ {freelist[k]}) \cup {rest}
    <3>1. rest \in Word /\ freelist \in Seq(Word) /\ Distinct(freelist)
      BY <1>3, <1>5
    <3>2. [freelist EXCEPT ![k] = rest] \in Seq(Word)
      BY <2>1, <3>1, ListReplaced
    <3>3. Distinct([freelist EXCEPT ![k] = rest])
      BY <2>1, <3>1, ListReplaced
    <3>4. Elements([freelist EXCEPT ![k] = rest])
             = (Elements(freelist) \ {freelist[k]}) \cup {rest}
      BY <2>1, <3>1, ListReplaced
    <3> QED
      BY <3>2, <3>3, <3>4
  <2>3. freelist' = t
    BY <1>2
  <2> HIDE DEF t
  <2> QED
    BY <1>5, <2>2, <2>3
<1>10. TypeOK'
  <2>1. DOMAIN block' \subseteq Word
    BY <1>3, <1>7 DEF HeapInv, TypeOK
  <2>2. block' \in [DOMAIN block' -> HeaderType]
    <3>1. \A g \in DOMAIN block : block[g] \in HeaderType
      BY DEF HeapInv, TypeOK
    <3>2. \A g \in DOMAIN block \cup {rest} : block'[g] \in HeaderType
      BY <1>7, <1>8, <3>1
    <3>3. block' = [g \in DOMAIN block \cup {rest} |-> block'[g]]
      <4> DEFINE cut(a) == CASE a = h    -> Header(need, FALSE)
                             [] a = rest -> Header(left, TRUE)
                             [] OTHER    -> block[a]
      <4>1. block' = [a \in DOMAIN block \cup {rest} |-> cut(a)]
        BY <1>2
      <4> HIDE DEF cut
      <4> QED
        BY <4>1
    <3> QED
      BY <1>7, <3>2, <3>3
  <2>3. /\ answer' \in Word \X Word /\ bump' \in Word
        /\ heap_start' \in Word /\ heap_ende' \in Word
    BY <1>2, <1>3, <1>4, <1>6 DEF HeapInv, TypeOK
  <2>4. belegt' \in Int /\ peak' \in Int
    BY <1>2, <1>4 DEF HeapInv, TypeOK, Book
  <2>5. halted' \in BOOLEAN
    BY <1>6 DEF HeapInv, TypeOK
  <2> QED
    BY <1>9, <2>1, <2>2, <2>3, <2>4, <2>5 DEF TypeOK
<1>11. BumpInRegion'
  BY <1>3, <1>6, <1>7 DEF HeapInv, BumpInRegion
<1>12. HeapTiled'
  <2>1. heap_start' \in DOMAIN block'
    BY <1>3, <1>6, <1>7 DEF HeapInv, HeapTiled
  <2>2. /\ Align \in Nat \ {0} /\ HeaderSize \in Nat \ {0}
        /\ bump \in Nat /\ heap_start \in Nat /\ need \in Nat /\ left \in Nat
        /\ rest \in Nat /\ h \in Nat /\ End(h) \in Nat
        /\ End(h) = rest + HeaderSize + left
    <3>1. h \in Nat /\ End(h) \in Nat
      <4>1. /\ h \in Nat /\ block[h].size \in Nat
            /\ End(h) = h + HeaderSize + block[h].size
        BY <1>3, BlockForm
      <4> QED
        BY <4>1, SizeAssumption
    <3>2. End(h) = rest + HeaderSize + left
      BY <1>3, <3>1, SizeAssumption DEF left, Word
    <3> QED
      BY <1>3, <1>4, <3>1, <3>2, SizeAssumption DEF HeapInv, TypeOK, Word
  <2>3. /\ heap_start <= h /\ h % Align = 0 /\ End(h) <= bump
        /\ End(h) = bump \/ End(h) \in DOMAIN block
        /\ \A g \in DOMAIN block : g \in Nat /\ (g > h => g >= End(h))
    BY <1>3, BlockForm DEF HeapInv, HeapTiled
  <2>4. ASSUME NEW a \in DOMAIN block'
        PROVE  /\ heap_start' <= a /\ a % Align = 0
               /\ block'[a].size >= Align /\ block'[a].size % Align = 0
               /\ End(a)' = bump' \/ End(a)' \in DOMAIN block'
               /\ End(a)' <= bump'
               /\ \A g \in DOMAIN block' : g > a => g >= End(a)'
    <3>1. CASE a = h
      <4>1. End(a)' = rest
        BY <1>3, <1>8, <2>2, <3>1 DEF End, Payload
      <4>2. \A g \in DOMAIN block' : g > a => g >= rest
        BY <1>3, <1>7, <2>2, <2>3, <3>1
      <4>3. heap_start' <= a /\ a % Align = 0
        BY <1>6, <2>3, <3>1
      <4>4. block'[a].size >= Align /\ block'[a].size % Align = 0
        BY <1>4, <1>8, <3>1
      <4>5. rest \in DOMAIN block' /\ rest <= bump'
        BY <1>3, <1>6, <1>7, <2>2, <2>3
      <4> QED
        BY <4>1, <4>2, <4>3, <4>4, <4>5
    <3>2. CASE a = rest
      <4>1. End(a)' = End(h)
        BY <1>3, <1>8, <2>2, <3>2 DEF End, Payload
      <4>2. \A g \in DOMAIN block' : g > a => g >= End(h)
        BY <1>3, <1>7, <2>2, <2>3, <3>2
      <4> QED
        BY <1>3, <1>6, <1>7, <1>8, <2>2, <2>3, <3>2, <4>1, <4>2
    <3>3. CASE a \in DOMAIN block /\ a # h
      <4>1. block'[a] = block[a]
        BY <1>7, <3>3
      <4>2. End(a)' = End(a)
        BY <4>1 DEF End, Payload
      <4>3. /\ a \in Nat /\ heap_start <= a /\ a % Align = 0
            /\ block[a].size >= Align /\ block[a].size % Align = 0
            /\ End(a) <= bump /\ End(a) \in Nat /\ a < End(a)
            /\ End(a) = bump \/ End(a) \in DOMAIN block
            /\ \A g \in DOMAIN block : g > a => g >= End(a)
        BY <2>2, <3>3, BlockForm DEF HeapInv, HeapTiled
      <4>4. rest > a => rest >= End(a)
        BY <1>3, <2>2, <2>3, <3>3, <4>3
      <4>5. \A g \in DOMAIN block' : g > a => g >= End(a)
        BY <1>7, <4>3, <4>4
      <4> QED
        BY <1>6, <1>7, <4>1, <4>2, <4>3, <4>5
    <3> QED
      BY <1>7, <3>1, <3>2, <3>3
  <2> QED
    BY <2>1, <2>4 DEF HeapTiled
<1>13. ListHoldsFree'
  <2>1. {g \in DOMAIN block' : block'[g].frei} = (FreeBlocks \ {h}) \cup {rest}
    BY <1>3, <1>7, <1>8 DEF FreeBlocks
  <2> QED
    BY <1>9, <2>1 DEF ListHoldsFree, Elements, Distinct
<1> QED
  BY <1>10, <1>11, <1>12, <1>13 DEF HeapInv

LEMMA NextInv ==
  ASSUME HeapInv, [Next]_vars
  PROVE  HeapInv'
<1>1. ASSUME NEW r \in Region, HeapInit(r[1], r[2])
      PROVE  HeapInv'
  <2>1. r[1] \in Word /\ r[2] \in Word
    BY InputAssumption
  <2> QED
    BY <1>1, <2>1, HeapInitInv
<1>2. ASSUME NEW n \in Request, AllocFails(n)
      PROVE  HeapInv'
  <2>1. /\ block' = block /\ freelist' = freelist /\ bump' = bump
        /\ heap_start' = heap_start /\ heap_ende' = heap_ende
        /\ belegt' = belegt /\ peak' = peak /\ halted' = halted
        /\ answer' = <<n, 0>>
    BY <1>2 DEF AllocFails, bounds, counters
  <2>2. n \in Word /\ 0 \in Word
    BY InputAssumption, SizeAssumption DEF Word
  <2>3. TypeOK'
    <3>1. answer' \in Word \X Word
      BY <2>1, <2>2
    <3>2. halted' \in BOOLEAN
      BY <2>1 DEF HeapInv, TypeOK
    <3> QED
      BY <2>1, <3>1, <3>2 DEF HeapInv, TypeOK
  <2>4. BumpInRegion' /\ HeapTiled'
    BY <2>1, TilingKept
  <2>5. ListHoldsFree'
    BY <2>1 DEF HeapInv, ListHoldsFree
  <2> QED
    BY <2>3, <2>4, <2>5 DEF HeapInv
<1>3. ASSUME NEW p \in Word, FreePanics(p)
      PROVE  HeapInv'
  <2>1. /\ block' = block /\ freelist' = freelist /\ bump' = bump
        /\ heap_start' = heap_start /\ heap_ende' = heap_ende
        /\ belegt' = belegt /\ peak' = peak /\ halted' = TRUE
        /\ answer' = answer
    BY <1>3 DEF FreePanics, bounds, counters
  <2>2. TypeOK'
    <3>1. halted' \in BOOLEAN
      BY <2>1
    <3> QED
      BY <2>1, <3>1 DEF HeapInv, TypeOK
  <2>3. BumpInRegion' /\ HeapTiled'
    BY <2>1, TilingKept
  <2>4. ListHoldsFree'
    BY <2>1 DEF HeapInv, ListHoldsFree
  <2> QED
    BY <2>2, <2>3, <2>4 DEF HeapInv
<1>4. CASE UNCHANGED vars
  <2>1. /\ block' = block /\ freelist' = freelist /\ bump' = bump
        /\ heap_start' = heap_start /\ heap_ende' = heap_ende
        /\ belegt' = belegt /\ peak' = peak /\ halted' = halted
        /\ answer' = answer
    BY <1>4 DEF vars, bounds, counters
  <2>2. TypeOK'
    <3>1. halted' \in BOOLEAN
      BY <2>1 DEF HeapInv, TypeOK
    <3> QED
      BY <2>1, <3>1 DEF HeapInv, TypeOK
  <2>3. BumpInRegion' /\ HeapTiled'
    BY <2>1, TilingKept
  <2>4. ListHoldsFree'
    BY <2>1 DEF HeapInv, ListHoldsFree
  <2> QED
    BY <2>2, <2>3, <2>4 DEF HeapInv
<1> QED
  BY <1>1, <1>2, <1>3, <1>4, AllocBumpInv, AllocWholeInv, AllocSplitInv,
     FreeInv DEF Next

\* The inductive invariant holds in every state of every behaviour.
THEOREM HeapInvariance == Spec => []HeapInv
<1>1. Init => HeapInv
  BY InitInv
<1>2. HeapInv /\ [Next]_vars => HeapInv'
  BY NextInv
<1> QED
  BY <1>1, <1>2, PTL DEF Spec

\* kern_heap_init_c, kern_alloc_c and kern_frei_c keep every address and
\* size inside a machine word: the checks against overflow are sufficient.
THEOREM TypeCorrect == Spec => []TypeOK
<1>1. HeapInv => TypeOK
  BY DEF HeapInv
<1> QED
  BY <1>1, HeapInvariance, PTL

\* The walk over the headers in kern_find_payload meets every block and
\* nothing else, whatever was allocated, split and given back before.
THEOREM BlocksTileTheHeap == Spec => []HeapTiled
<1>1. HeapInv => HeapTiled
  BY DEF HeapInv
<1> QED
  BY <1>1, HeapInvariance, PTL

\* The free list of kern_alloc_c holds the free blocks, each once: it has
\* no cycle, and no block in use is ever handed out again.
THEOREM ListHoldsTheFreeBlocks == Spec => []ListHoldsFree
<1>1. HeapInv => ListHoldsFree
  BY DEF HeapInv
<1> QED
  BY <1>1, HeapInvariance, PTL

-----------------------------------------------------------------------------
(* The heap implements the allocator.                                      *)

\* Every block lies inside the region, aligned, and apart from the others.
BlocksInRegion ==
  \A h \in DOMAIN block :
    /\ Payload(h) \in Word \ {0} /\ Payload(h) % Align = 0
    /\ block[h].size \in Nat /\ block[h].size <= MaxWord
    /\ heap_start <= Payload(h) /\ Payload(h) + block[h].size <= heap_ende

BlocksApart ==
  \A g, h \in DOMAIN block : g # h =>
    /\ Payload(g) # Payload(h)
    /\ \/ Payload(g) + block[g].size <= Payload(h)
       \/ Payload(h) + block[h].size <= Payload(g)

LEMMA BlocksSound == HeapInv => BlocksInRegion /\ BlocksApart
<1> SUFFICES ASSUME HeapInv PROVE BlocksInRegion /\ BlocksApart
  OBVIOUS
<1>1. HeaderSize \in Nat
  BY SizeAssumption
<1>2. BlocksInRegion
  <2> SUFFICES ASSUME NEW h \in DOMAIN block
               PROVE  /\ Payload(h) \in Word \ {0} /\ Payload(h) % Align = 0
                      /\ block[h].size \in Nat /\ block[h].size <= MaxWord
                      /\ heap_start <= Payload(h)
                      /\ Payload(h) + block[h].size <= heap_ende
    BY DEF BlocksInRegion
  <2>1. /\ Payload(h) \in Word \ {0} /\ Payload(h) % Align = 0
        /\ block[h].size \in Nat /\ block[h].size <= MaxWord
        /\ heap_start <= h /\ h \in Nat /\ Payload(h) = h + HeaderSize
        /\ End(h) = h + HeaderSize + block[h].size /\ End(h) <= bump
    BY BlockForm
  <2>2. /\ bump <= heap_ende /\ bump \in Nat /\ heap_ende \in Nat
        /\ heap_start \in Nat
    BY DEF HeapInv, BumpInRegion, TypeOK, Word
  <2> QED
    BY <1>1, <2>1, <2>2
<1>3. ASSUME NEW g \in DOMAIN block, NEW h \in DOMAIN block, g # h
      PROVE  /\ Payload(g) # Payload(h)
             /\ \/ Payload(g) + block[g].size <= Payload(h)
                \/ Payload(h) + block[h].size <= Payload(g)
  <2>1. /\ g \in Nat /\ h \in Nat
        /\ block[g].size \in Nat /\ block[h].size \in Nat
        /\ Payload(g) = g + HeaderSize /\ Payload(h) = h + HeaderSize
        /\ End(g) = g + HeaderSize + block[g].size
        /\ End(h) = h + HeaderSize + block[h].size
    BY BlockForm
  <2>2. (h > g => h >= End(g)) /\ (g > h => g >= End(h))
    BY DEF HeapInv, HeapTiled
  <2> QED
    BY <1>1, <1>3, <2>1, <2>2
<1>4. BlocksApart
  BY <1>3 DEF BlocksApart
<1> QED
  BY <1>2, <1>4

LEMMA BlocksSoundNext == HeapInv' => BlocksInRegion' /\ BlocksApart'
  BY BlocksSound, PTL

\* A block that was not in use becomes a piece of the right size.
LEMMA AllocationStep ==
  ASSUME HeapInv', NEW n \in Request, NEW h \in DOMAIN block',
         ~halted, bounds' = bounds, halted' = halted,
         answer' = <<n, Payload(h)>>, n <= block'[h].size,
         h \notin InUse, InUse' = InUse \cup {h}, InUse' \subseteq DOMAIN block',
         \A g \in InUse : block'[g].size = block[g].size
  PROVE  Allocator!Allocate(n)
<1> DEFINE piece == <<Payload(h), block'[h].size>>
<1>1. BlocksInRegion' /\ BlocksApart'
  BY BlocksSoundNext
<1>2. /\ Payload(h) \in Word \ {0} /\ Payload(h) % Align = 0
      /\ block'[h].size \in Nat /\ block'[h].size <= MaxWord
      /\ heap_start' <= Payload(h) /\ Payload(h) + block'[h].size <= heap_ende'
  BY <1>1 DEF BlocksInRegion, Payload
<1>3. heap_start' = heap_start /\ heap_ende' = heap_ende
  BY DEF bounds
<1>4. n \in Nat /\ MaxWord \in Nat
  BY InputAssumption, SizeAssumption DEF Word
<1>5. piece \in {answer'[2]} \X (n .. MaxWord)
  BY <1>2, <1>4
<1>6. Pieces' = Pieces \cup {piece}
  <2>1. Pieces' = {<<Payload(g), block'[g].size>> : g \in InUse'}
    BY DEF Pieces, Payload
  <2> QED
    BY <2>1 DEF Pieces
<1>7. ASSUME NEW old \in Pieces
      PROVE  ~Allocator!Overlap(old, piece)
  <2>1. PICK g \in InUse : old = <<Payload(g), block[g].size>>
    BY DEF Pieces
  <2>2. g \in DOMAIN block' /\ g # h /\ block'[g].size = block[g].size
    OBVIOUS
  <2>3. \/ Payload(g) + block[g].size <= Payload(h)
        \/ Payload(h) + block'[h].size <= Payload(g)
    BY <1>1, <2>2 DEF BlocksApart, Payload
  <2>4. Payload(g) \in Nat /\ block[g].size \in Nat
    BY <1>1, <2>2 DEF BlocksInRegion, Word, Payload
  <2>5. Payload(h) \in Nat /\ block'[h].size \in Nat
    BY <1>2 DEF Word
  <2>6. /\ old[1] = Payload(g) /\ old[2] = block[g].size
        /\ piece[1] = Payload(h) /\ piece[2] = block'[h].size
    BY <2>1
  <2> QED
    BY <2>3, <2>4, <2>5, <2>6 DEF Allocator!Overlap
<1>8. /\ piece[1] \in Word \ {0} /\ piece[1] % Align = 0
      /\ bounds[1] <= piece[1] /\ piece[1] + piece[2] <= bounds[2]
      /\ answer' = <<n, piece[1]>>
  BY <1>2, <1>3 DEF bounds
<1> HIDE DEF piece
<1> QED
  BY <1>5, <1>6, <1>7, <1>8 DEF Allocator!Allocate, Allocator!Word, Word

LEMMA AllocBumpStep ==
  ASSUME HeapInv, NEW n \in Request, AllocBump(n)
  PROVE  Allocator!Allocate(n)
<1>1. HeapInv'
  BY AllocBumpInv
<1>2. Rounded(n) >= n
  BY NeedForm DEF AllocBump
<1>3. bump \notin DOMAIN block
  <2>1. bump \in Nat
    BY DEF HeapInv, TypeOK, Word
  <2> QED
    BY <2>1, BlockForm
<1>4. /\ DOMAIN block' = DOMAIN block \cup {bump}
      /\ block'[bump] = Header(Rounded(n), FALSE)
      /\ \A g \in DOMAIN block : block'[g] = block[g]
      /\ answer' = <<n, Payload(bump)>>
      /\ bounds' = bounds /\ halted' = halted /\ ~halted
  BY <1>3 DEF AllocBump, Searching
<1>5. block'[bump].size = Rounded(n) /\ block'[bump].frei = FALSE
  BY <1>4 DEF Header
<1>6. InUse' = InUse \cup {bump}
  BY <1>3, <1>4, <1>5 DEF InUse
<1>7. /\ bump \notin InUse /\ InUse' \subseteq DOMAIN block'
      /\ \A g \in InUse : block'[g].size = block[g].size
  BY <1>3, <1>4 DEF InUse
<1>8. ASSUME NEW h, h = bump
      PROVE  Allocator!Allocate(n)
  BY <1>1, <1>2, <1>4, <1>5, <1>6, <1>7, <1>8, AllocationStep
<1> QED
  BY <1>8

LEMMA AllocWholeStep ==
  ASSUME HeapInv, NEW n \in Request, AllocWhole(n)
  PROVE  Allocator!Allocate(n)
<1>1. PICK k \in DOMAIN freelist :
        /\ FirstFit(k, Rounded(n))
        /\ block' = [block EXCEPT ![freelist[k]].frei = FALSE]
        /\ answer' = <<n, Payload(freelist[k])>>
  BY DEF AllocWhole
<1>2. HeapInv'
  BY AllocWholeInv
<1> DEFINE h == freelist[k]
<1>3. h \in DOMAIN block /\ block[h].frei = TRUE /\ block[h] \in HeaderType
  BY ListedBlock, BlockForm
<1>4. Rounded(n) >= n /\ Rounded(n) \in Nat /\ n \in Nat
  BY NeedForm DEF AllocWhole
<1>5. block[h].size >= Rounded(n)
  BY <1>1 DEF FirstFit, Fitting
<1>6. /\ bounds' = bounds /\ halted' = halted /\ ~halted
      /\ answer' = <<n, Payload(h)>>
  BY <1>1 DEF AllocWhole, Searching
<1>7. block' = [block EXCEPT ![h].frei = FALSE]
  BY <1>1
<1> HIDE DEF h
<1>8. /\ DOMAIN block' = DOMAIN block
      /\ \A g \in DOMAIN block : g # h => block'[g] = block[g]
      /\ block'[h] = [block[h] EXCEPT !.frei = FALSE]
  BY <1>3, <1>7 DEF HeapInv, TypeOK
<1>9. block'[h].size = block[h].size /\ block'[h].frei = FALSE
  BY <1>3, <1>8 DEF HeaderType
<1>10. InUse' = InUse \cup {h}
  BY <1>3, <1>8, <1>9 DEF InUse
<1>11. /\ h \notin InUse /\ h \in DOMAIN block' /\ InUse' \subseteq DOMAIN block'
       /\ \A g \in InUse : block'[g].size = block[g].size
  BY <1>3, <1>8 DEF InUse
<1>12. n <= block'[h].size
  <2>1. block[h].size \in Nat
    BY <1>3, BlockForm
  <2> QED
    BY <1>4, <1>5, <1>9, <2>1
<1> QED
  BY <1>2, <1>6, <1>10, <1>11, <1>12, AllocationStep

LEMMA AllocSplitStep ==
  ASSUME HeapInv, NEW n \in Request, AllocSplit(n)
  PROVE  Allocator!Allocate(n)
<1>1. HeapInv' /\ Searching(n)
  BY AllocSplitInv DEF AllocSplit
<1>2. PICK k \in DOMAIN freelist :
        LET h    == freelist[k]
            need == Rounded(n)
            rest == Payload(h) + need
        IN  /\ WorthSplitting(h, need)
            /\ block' = [a \in DOMAIN block \cup {rest} |->
                           CASE a = h    -> Header(need, FALSE)
                             [] a = rest -> Header(End(h) - Payload(rest), TRUE)
                             [] OTHER    -> block[a]]
            /\ answer' = <<n, Payload(h)>>
  BY DEF AllocSplit
<1> DEFINE h    == freelist[k]
           need == Rounded(n)
           rest == Payload(h) + need
           left == End(h) - Payload(rest)
<1>3. /\ WorthSplitting(h, need)
      /\ block' = [a \in DOMAIN block \cup {rest} |->
                     CASE a = h    -> Header(need, FALSE)
                       [] a = rest -> Header(left, TRUE)
                       [] OTHER    -> block[a]]
      /\ answer' = <<n, Payload(h)>>
  BY <1>2
<1>4. h \in DOMAIN block /\ rest \notin DOMAIN block
  BY <1>1, <1>3, SplitForm
<1>5. need >= n
  BY <1>1, NeedForm
<1>6. block[h].frei = TRUE
  BY ListedBlock
<1>7. bounds' = bounds /\ halted' = halted /\ ~halted
  BY DEF AllocSplit, Searching
<1> HIDE DEF h, need, rest, left
<1>8. /\ DOMAIN block' = DOMAIN block \cup {rest}
      /\ block'[h] = Header(need, FALSE) /\ block'[rest] = Header(left, TRUE)
      /\ \A g \in DOMAIN block : g # h => block'[g] = block[g]
  <2>1. h # rest
    BY <1>4
  <2> QED
    BY <1>3, <1>4, <2>1
<1>9. /\ block'[h].size = need /\ block'[h].frei = FALSE
      /\ block'[rest].frei = TRUE
  BY <1>8 DEF Header
<1>10. InUse' = InUse \cup {h}
  BY <1>4, <1>6, <1>8, <1>9 DEF InUse
<1>11. /\ h \notin InUse /\ h \in DOMAIN block' /\ InUse' \subseteq DOMAIN block'
       /\ \A g \in InUse : block'[g].size = block[g].size
  BY <1>4, <1>6, <1>8 DEF InUse
<1>12. n <= block'[h].size
  BY <1>5, <1>9
<1> QED
  BY <1>1, <1>3, <1>7, <1>10, <1>11, <1>12, AllocationStep

LEMMA FreeStep ==
  ASSUME HeapInv, NEW p \in Word, Free(p)
  PROVE  Allocator!GiveBack(p)
<1> DEFINE h == p - HeaderSize
           old == <<Payload(h), block[h].size>>
<1>1. /\ h \in DOMAIN block /\ ~block[h].frei
      /\ block' = [block EXCEPT ![h].frei = TRUE]
      /\ answer' = <<0, 0>>
      /\ bounds' = bounds /\ halted' = halted /\ ~halted
  BY DEF Free, GivenOut
<1>2. Payload(h) = p
  BY SizeAssumption DEF Payload, Word
<1> HIDE DEF h
<1>3. /\ DOMAIN block' = DOMAIN block
      /\ \A g \in DOMAIN block : g # h => block'[g] = block[g]
      /\ block'[h] = [block[h] EXCEPT !.frei = TRUE]
      /\ block[h] \in HeaderType
  BY <1>1 DEF HeapInv, TypeOK
<1>4. block'[h].frei = TRUE
  BY <1>3 DEF HeaderType
<1>5. InUse' = InUse \ {h} /\ h \in InUse
  BY <1>1, <1>3, <1>4 DEF InUse
<1>6. Pieces' = {<<Payload(g), block'[g].size>> : g \in InUse'}
  BY DEF Pieces, Payload
<1>7. \A g \in InUse' : block'[g].size = block[g].size
  BY <1>3, <1>5 DEF InUse
<1>8. \A g \in InUse : g # h => Payload(g) # Payload(h)
  BY <1>1, BlocksSound DEF InUse, BlocksApart
<1>9. Pieces' = Pieces \ {old}
  <2>1. Pieces' = {<<Payload(g), block[g].size>> : g \in InUse \ {h}}
    BY <1>5, <1>6, <1>7
  <2> QED
    BY <1>8, <2>1 DEF Pieces
<1>10. old \in Pieces /\ old[1] = p
  BY <1>2, <1>5 DEF Pieces
<1> HIDE DEF old
<1> QED
  BY <1>1, <1>9, <1>10 DEF Allocator!GiveBack

LEMMA FreePanicsStep ==
  ASSUME HeapInv, NEW p \in Word, FreePanics(p)
  PROVE  Allocator!Misuse(p)
<1>1. ASSUME NEW old \in Pieces, old[1] = p
      PROVE  FALSE
  <2>1. PICK h \in InUse : old = <<Payload(h), block[h].size>>
    BY DEF Pieces
  <2>2. h \in DOMAIN block /\ ~block[h].frei
    BY DEF InUse
  <2>3. /\ heap_start # 0 /\ heap_start <= h /\ h \in Nat
        /\ Payload(h) < bump /\ Payload(h) = h + HeaderSize
        /\ Payload(h) % Align = 0
    BY <2>2, BlockForm
  <2>4. p = Payload(h)
    BY <1>1, <2>1
  <2>5. HeaderSize \in Nat /\ heap_start \in Nat
    BY SizeAssumption DEF HeapInv, TypeOK, Word
  <2>6. Candidate(p)
    BY <2>3, <2>4, <2>5 DEF Candidate
  <2>7. p - HeaderSize = h
    BY <2>3, <2>4, <2>5
  <2>8. GivenOut(p)
    BY <2>2, <2>6, <2>7 DEF GivenOut
  <2> QED
    BY <2>8 DEF FreePanics
<1>2. /\ ~halted /\ halted' = TRUE /\ bounds' = bounds /\ answer' = answer
      /\ block' = block
  BY DEF FreePanics
<1>3. Pieces' = Pieces
  BY <1>2 DEF Pieces, InUse, Payload
<1> QED
  BY <1>1, <1>2, <1>3 DEF Allocator!Misuse

LEMMA NextStep ==
  ASSUME HeapInv, [Next]_vars
  PROVE  [Allocator!Next]_(Allocator!vars)
<1>1. ASSUME NEW r \in Region, HeapInit(r[1], r[2])
      PROVE  Allocator!Reset
  <2>1. HeapInv'
    <3>1. r[1] \in Word /\ r[2] \in Word
      BY InputAssumption
    <3> QED
      BY <1>1, <3>1, HeapInitInv
  <2>2. bounds' \in Word \X Word
    BY <2>1 DEF HeapInv, TypeOK, bounds
  <2>3. DOMAIN block' = {}
    BY <1>1 DEF HeapInit, NoBlock
  <2>4. Pieces' = {}
    BY <2>3 DEF Pieces, InUse
  <2>5. ~halted /\ halted' = halted /\ answer' = <<0, 0>>
    BY <1>1 DEF HeapInit
  <2> QED
    BY <2>2, <2>4, <2>5 DEF Allocator!Reset, Allocator!Word, Word
<1>2. ASSUME NEW n \in Request, AllocFails(n)
      PROVE  Allocator!Refuse(n)
  <2>1. /\ ~halted /\ halted' = halted /\ answer' = <<n, 0>>
        /\ bounds' = bounds /\ block' = block
    BY <1>2 DEF AllocFails
  <2>2. Pieces' = Pieces
    BY <2>1 DEF Pieces, InUse, Payload
  <2> QED
    BY <2>1, <2>2 DEF Allocator!Refuse
<1>3. CASE UNCHANGED vars
  <2>1. /\ block' = block /\ bounds' = bounds /\ halted' = halted
        /\ answer' = answer
    BY <1>3 DEF vars
  <2>2. Pieces' = Pieces
    BY <2>1 DEF Pieces, InUse, Payload
  <2> QED
    BY <2>1, <2>2 DEF Allocator!vars
<1>4. ASSUME NEW n \in Request,
             AllocWhole(n) \/ AllocSplit(n) \/ AllocBump(n) \/ AllocFails(n)
      PROVE  Allocator!Next
  BY <1>2, <1>4, AllocWholeStep, AllocSplitStep, AllocBumpStep
     DEF Allocator!Next
<1>5. ASSUME NEW p \in Word, Free(p) \/ FreePanics(p)
      PROVE  Allocator!Next
  BY <1>5, FreeStep, FreePanicsStep DEF Allocator!Next, Allocator!Word, Word
<1>6. ASSUME NEW r \in Region, HeapInit(r[1], r[2])
      PROVE  Allocator!Next
  BY <1>1, <1>6 DEF Allocator!Next
<1> QED
  BY <1>3, <1>4, <1>5, <1>6 DEF Next

\* kern_alloc_c never hands out memory that overlaps a piece in use, lies
\* outside the region or is too short, and kern_frei_c takes back exactly
\* what was handed out and stops the kernel at everything else.
THEOREM HeapImplementsAllocator == Spec => AllocatorSpec
<1>1. Init => Allocator!Init
  <2> SUFFICES ASSUME Init PROVE Allocator!Init
    OBVIOUS
  <2>1. DOMAIN block = {}
    BY DEF Init, NoBlock
  <2>2. Pieces = {}
    BY <2>1 DEF Pieces, InUse
  <2> QED
    BY <2>2 DEF Init, Allocator!Init, bounds
<1>2. HeapInv /\ [Next]_vars => [Allocator!Next]_(Allocator!vars)
  BY NextStep
<1> QED
  BY <1>1, <1>2, HeapInvariance, PTL DEF Spec, AllocatorSpec, Allocator!Spec
-----------------------------------------------------------------------------
(* The length of the free list.                                            *)

LEMMA QuotientsApart ==
  ASSUME NEW m \in Nat \ {0}, NEW a \in Nat, NEW b \in Nat, a + m <= b
  PROVE  a \div m < b \div m
<1>1. /\ a = m * (a \div m) + (a % m) /\ b = m * (b \div m) + (b % m)
      /\ a \div m \in Int /\ b \div m \in Int
      /\ a % m \in 0 .. m - 1 /\ b % m \in 0 .. m - 1
  OBVIOUS
<1> DEFINE p == a \div m
           q == b \div m
<1>2. p \in Int /\ q \in Int BY <1>1
<1> HIDE DEF p, q
<1>3. /\ m * p <= a /\ b < m * q + m /\ m * p \in Int /\ m * q \in Int
  BY <1>1, <1>2 DEF p, q
<1>4. m * (p + 1) < m * (q + 1)
  <2>1. m * (p + 1) = m * p + m /\ m * (q + 1) = m * q + m BY <1>2
  <2> QED BY <1>3, <2>1
<1>5. ASSUME q <= p PROVE FALSE
  <2>1. p - q \in Nat BY <1>2, <1>5
  <2>2. m * (p - q) \in Nat /\ m * (p - q) = m * (p + 1) - m * (q + 1)
    BY <1>2, <2>1
  <2> QED BY <1>2, <1>4, <2>2
<1> QED BY <1>2, <1>5 DEF p, q

\* Different blocks have different numbers of smallest blocks below them.
LEMMA BlockNumber ==
  ASSUME HeapInv, NEW h \in DOMAIN block
  PROVE  LET n(b) == (b - heap_start) \div MinBlock
         IN  /\ n(h) \in 0 .. (bump - heap_start) \div MinBlock
             /\ \A g \in DOMAIN block : n(g) = n(h) => g = h
<1> DEFINE n(b) == (b - heap_start) \div MinBlock
<1>1. /\ MinBlock \in Nat \ {0} /\ MinBlock = HeaderSize + Align
      /\ HeaderSize \in Nat /\ Align \in Nat
  BY SizeAssumption DEF MinBlock
<1>2. heap_start \in Nat /\ bump \in Nat BY DEF HeapInv, TypeOK, Word
<1>3. ASSUME NEW g \in DOMAIN block
      PROVE  g - heap_start \in Nat /\ g + MinBlock <= bump
             /\ g + MinBlock <= End(g)
  BY <1>1, <1>2, BlockForm
<1>4. ASSUME NEW g \in DOMAIN block, NEW k \in DOMAIN block, g < k
      PROVE  n(g) < n(k)
  <2>1. k >= End(g) BY <1>4 DEF HeapInv, HeapTiled
  <2>2. k \in Nat /\ g \in Nat /\ End(g) \in Nat
    BY <1>1, BlockForm
  <2>3. (g - heap_start) + MinBlock <= k - heap_start
    BY <1>1, <1>2, <1>3, <2>1, <2>2
  <2> QED BY <1>1, <1>3, <2>3, QuotientsApart
<1>5. \A g \in DOMAIN block : g \in Nat /\ n(g) \in Int
  BY <1>1, <1>3, BlockForm
<1>6. n(h) < (bump - heap_start) \div MinBlock
  <2>1. bump - heap_start \in Nat
    BY <1>2, <1>3, BlockForm
  <2>2. (h - heap_start) + MinBlock <= bump - heap_start
    BY <1>1, <1>2, <1>3, BlockForm
  <2> QED BY <1>1, <1>3, <2>1, <2>2, QuotientsApart
<1>7. n(h) >= 0 BY <1>1, <1>3
<1>8. (bump - heap_start) \div MinBlock \in Int BY <1>1, <1>2
<1>9. ASSUME NEW g \in DOMAIN block, n(g) = n(h) PROVE g = h
  <2> HIDE DEF n
  <2>1. ~(g < h) /\ ~(h < g) BY <1>4, <1>5, <1>9
  <2> QED BY <1>5, <2>1
<1> QED BY <1>5, <1>6, <1>7, <1>8, <1>9

\* The loops over the free list in kern_alloc_c and kern_frei_c end after at
\* most as many turns as smallest blocks fit below the bump.
THEOREM FreeListIsSound == Spec => []FreeListSound
<1>1. HeapInv => FreeListSound
  <2> SUFFICES ASSUME HeapInv PROVE FreeListSound
    OBVIOUS
  <2> DEFINE D    == (bump - heap_start) \div MinBlock
             n(b) == (b - heap_start) \div MinBlock
             f    == [k \in 1 .. Len(freelist) |-> n(freelist[k])]
  <2>1. /\ ListHoldsFree /\ freelist \in Seq(Word)
        /\ heap_start \in Nat /\ bump \in Nat /\ heap_start <= bump
    BY DEF HeapInv, TypeOK, BumpInRegion, Word
  <2>2. Len(freelist) \in Nat /\ DOMAIN freelist = 1 .. Len(freelist)
    BY <2>1
  <2>3. \A k \in 1 .. Len(freelist) : freelist[k] \in DOMAIN block
    BY <2>1, <2>2 DEF ListHoldsFree
  <2>4. \A k \in 1 .. Len(freelist) : n(freelist[k]) \in 0 .. D
    BY <2>3, BlockNumber
  <2>5. \A j, k \in 1 .. Len(freelist) :
          n(freelist[j]) = n(freelist[k]) => j = k
    <3> SUFFICES ASSUME NEW j \in 1 .. Len(freelist),
                        NEW k \in 1 .. Len(freelist),
                        n(freelist[j]) = n(freelist[k])
                 PROVE  j = k
      OBVIOUS
    <3>1. freelist[j] = freelist[k] BY <2>3, BlockNumber
    <3> QED BY <2>1, <2>2, <3>1 DEF ListHoldsFree
  <2>6. f \in Injection(1 .. Len(freelist), 0 .. D)
    <3> HIDE DEF n, D
    <3> QED BY <2>4, <2>5 DEF Injection, IsInjective
  <2>7. D \in Nat
    <3>1. MinBlock \in Nat \ {0} BY SizeAssumption DEF MinBlock
    <3>2. bump - heap_start \in Nat BY <2>1
    <3> QED BY <3>1, <3>2
  <2> HIDE DEF D, n, f
  <2>8. /\ IsFiniteSet(0 .. D) /\ Cardinality(0 .. D) = D + 1
        /\ Cardinality(1 .. Len(freelist)) = Len(freelist)
    <3>1. IsFiniteSet(0 .. D) /\ Cardinality(0 .. D) = D - 0 + 1
      BY <2>7, FS_Interval
    <3>2. \A l \in Nat : Cardinality(1 .. l) = IF 1 > l THEN 0 ELSE l - 1 + 1
      BY FS_Interval
    <3>3. \A l \in Nat : Cardinality(1 .. l) = l BY <3>2
    <3> QED BY <2>2, <2>7, <3>1, <3>3
  <2>9. Cardinality(1 .. Len(freelist)) <= Cardinality(0 .. D)
    BY <2>6, <2>8, FS_Injection
  <2>10. Len(freelist) <= D + 1 BY <2>8, <2>9
  <2> QED BY <2>1, <2>10 DEF FreeListSound, D
<1> QED
  BY <1>1, HeapInvariance, PTL

-----------------------------------------------------------------------------
(* The accounts.                                                           *)

IsTable(tbl) ==
  DOMAIN tbl \subseteq Word /\ \A h \in DOMAIN tbl : tbl[h].size \in Word

Used(tbl) == {h \in DOMAIN tbl : ~tbl[h].frei}

BytesIn(tbl, H) == UNION {{h} \X (0 .. tbl[h].size - 1) : h \in H}

Count(tbl, H) == Cardinality(BytesIn(tbl, H))

LEMMA TotalForm ==
  /\ InUse = Used(block) /\ InUse' = Used(block')
  /\ \A H : Total(H) = Count(block, H)
  /\ NothingLost =
       /\ belegt = Count(block, Used(block))
       /\ peak >= belegt
       /\ belegt + Count(block, DOMAIN block \ Used(block))
            + HeaderSize * Cardinality(DOMAIN block)
            + (heap_ende - bump) = heap_ende - heap_start
  /\ NothingLost' =
       /\ belegt' = Count(block', Used(block'))
       /\ peak' >= belegt'
       /\ belegt' + Count(block', DOMAIN block' \ Used(block'))
            + HeaderSize * Cardinality(DOMAIN block')
            + (heap_ende' - bump') = heap_ende' - heap_start'
  BY DEF NothingLost, Total, Bytes, InUse, Used, BytesIn, Count

LEMMA FiniteTable ==
  ASSUME NEW tbl, IsTable(tbl), NEW H, H \subseteq DOMAIN tbl
  PROVE  /\ IsFiniteSet(BytesIn(tbl, H)) /\ Count(tbl, H) \in Nat
         /\ IsFiniteSet(H) /\ Cardinality(H) \in Nat
<1>1. IsFiniteSet(Word)
  BY SizeAssumption, FS_Interval DEF Word
<1>2. IsFiniteSet(Word \X Word)
  BY <1>1, FS_Product
<1>3. BytesIn(tbl, H) \subseteq Word \X Word
  <2> SUFFICES ASSUME NEW h \in H
               PROVE  {h} \X (0 .. tbl[h].size - 1) \subseteq Word \X Word
    BY DEF BytesIn
  <2>1. h \in Word /\ tbl[h].size \in Word
    BY DEF IsTable
  <2>2. 0 .. tbl[h].size - 1 \subseteq Word
    BY <2>1, SizeAssumption DEF Word
  <2> QED
    BY <2>1, <2>2
<1>4. IsFiniteSet(BytesIn(tbl, H))
  BY <1>2, <1>3, FS_Subset
<1>5. IsFiniteSet(H)
  <2>1. H \subseteq Word
    BY DEF IsTable
  <2> QED
    BY <1>1, <2>1, FS_Subset
<1> QED
  BY <1>4, <1>5, FS_CardinalityType DEF Count

\* A block adds its size.
LEMMA CountWith ==
  ASSUME NEW tbl, IsTable(tbl), NEW H, H \subseteq DOMAIN tbl,
         NEW h \in DOMAIN tbl, h \notin H
  PROVE  Count(tbl, H \cup {h}) = Count(tbl, H) + tbl[h].size
<1> DEFINE old == BytesIn(tbl, H)
           range == 0 .. tbl[h].size - 1
           new == {h} \X range
<1>1. tbl[h].size \in Nat
  BY DEF IsTable, Word
<1>2. BytesIn(tbl, H \cup {h}) = old \cup new
  BY DEF BytesIn
<1>3. IsFiniteSet(new) /\ Cardinality(new) = tbl[h].size
  <2>1. IsFiniteSet({h}) /\ Cardinality({h}) = 1
    BY FS_Singleton
  <2>2. /\ IsFiniteSet(0 .. tbl[h].size - 1)
        /\ Cardinality(0 .. tbl[h].size - 1) = tbl[h].size
    <3>1. tbl[h].size - 1 \in Int
      BY <1>1
    <3>2. Cardinality(0 .. tbl[h].size - 1)
            = IF 0 > tbl[h].size - 1 THEN 0 ELSE (tbl[h].size - 1) - 0 + 1
      BY <3>1, FS_Interval
    <3> QED
      BY <1>1, <3>1, <3>2, FS_Interval
  <2> HIDE DEF range
  <2>3. IsFiniteSet(new) /\ Cardinality(new) = Cardinality({h}) * Cardinality(range)
    BY <2>1, <2>2, FS_Product DEF range
  <2> HIDE DEF new
  <2>4. \A i \in Nat : 1 * i = i
    OBVIOUS
  <2> QED
    BY <1>1, <2>1, <2>2, <2>3, <2>4 DEF range
<1>4. IsFiniteSet(old) /\ Cardinality(old) \in Nat
  BY FiniteTable DEF Count
<1>5. old \cap new = {}
  BY DEF BytesIn
<1> HIDE DEF old, range, new
<1>6. Cardinality(old \cup new)
        = Cardinality(old) + Cardinality(new) - Cardinality(old \cap new)
  BY <1>3, <1>4, FS_Union
<1>7. Cardinality(old \cap new) = 0
  BY <1>5, FS_EmptySet
<1>8. /\ Count(tbl, H) = Cardinality(old)
      /\ Count(tbl, H \cup {h}) = Cardinality(old \cup new)
  BY <1>2 DEF Count, old
<1> QED
  BY <1>1, <1>3, <1>4, <1>6, <1>7, <1>8

LEMMA CountWithout ==
  ASSUME NEW tbl, IsTable(tbl), NEW H, H \subseteq DOMAIN tbl, NEW h \in H
  PROVE  Count(tbl, H \ {h}) = Count(tbl, H) - tbl[h].size
<1>1. Count(tbl, (H \ {h}) \cup {h}) = Count(tbl, H \ {h}) + tbl[h].size
  <2>1. H \ {h} \subseteq DOMAIN tbl /\ h \in DOMAIN tbl /\ h \notin H \ {h}
    OBVIOUS
  <2> QED
    BY <2>1, CountWith
<1>2. (H \ {h}) \cup {h} = H
  OBVIOUS
<1>3. Count(tbl, (H \ {h}) \cup {h}) = Count(tbl, H)
  BY <1>2
<1>4. Count(tbl, H \ {h}) \in Nat
  <2>1. H \ {h} \subseteq DOMAIN tbl
    OBVIOUS
  <2> QED
    BY <2>1, FiniteTable
<1>5. tbl[h].size \in Nat
  BY DEF IsTable, Word
<1> QED
  BY <1>1, <1>3, <1>4, <1>5

\* Only sizes are counted.
LEMMA CountSame ==
  ASSUME NEW tbl, NEW other, NEW H, \A h \in H : other[h].size = tbl[h].size
  PROVE  Count(other, H) = Count(tbl, H)
<1>1. {{h} \X (0 .. other[h].size - 1) : h \in H}
        = {{h} \X (0 .. tbl[h].size - 1) : h \in H}
  OBVIOUS
<1> QED
  BY <1>1 DEF Count, BytesIn

LEMMA HeapTable ==
  ASSUME HeapInv
  PROVE  /\ IsTable(block)
         /\ heap_start \in Nat /\ heap_ende \in Nat /\ bump \in Nat
         /\ belegt \in Int /\ peak \in Int
         /\ HeaderSize \in Nat
<1>1. \A h \in DOMAIN block : block[h].size \in Word
  BY DEF HeapInv, TypeOK, HeaderType
<1> QED
  BY <1>1, SizeAssumption DEF IsTable, HeapInv, TypeOK, Word

LEMMA HeapTableNext ==
  ASSUME HeapInv'
  PROVE  /\ IsTable(block')
         /\ heap_start' \in Nat /\ heap_ende' \in Nat /\ bump' \in Nat
         /\ belegt' \in Int /\ peak' \in Int
<1>1. \A h \in DOMAIN block' : block'[h].size \in Word
  BY DEF HeapInv, TypeOK, HeaderType
<1> QED
  BY <1>1, SizeAssumption DEF IsTable, HeapInv, TypeOK, Word

LEMMA BookForm ==
  ASSUME NEW size \in Nat, belegt \in Int, peak \in Int, Book(size)
  PROVE  belegt' = belegt + size /\ peak' >= belegt'
  BY DEF Book

\* A block more is a header more.
LEMMA Cut ==
  ASSUME NEW H \in Nat, NEW n \in Nat
  PROVE  H * n \in Nat /\ H * (n + 1) = H * n + H
  OBVIOUS

LEMMA AllocWholeLosesNothing ==
  ASSUME HeapInv, NothingLost, NEW n \in Request, AllocWhole(n)
  PROVE  NothingLost'
<1>1. PICK k \in DOMAIN freelist :
        /\ block' = [block EXCEPT ![freelist[k]].frei = FALSE]
        /\ Book(block[freelist[k]].size)
  BY DEF AllocWhole
<1> DEFINE h == freelist[k]
           D == DOMAIN block
           U == Used(block)
           size == block[h].size
<1>2. HeapInv' /\ IsTable(block) /\ IsTable(block')
  BY AllocWholeInv, HeapTable, HeapTableNext
<1>3. /\ heap_start' = heap_start /\ heap_ende' = heap_ende /\ bump' = bump
  BY DEF AllocWhole, bounds
<1>4. h \in D /\ block[h].frei = TRUE /\ block[h] \in HeaderType /\ size \in Nat
  BY ListedBlock, BlockForm
<1>5. Book(size) /\ block' = [block EXCEPT ![h].frei = FALSE]
  BY <1>1
<1>6. belegt' = belegt + size /\ peak' >= belegt'
  <2>1. belegt \in Int /\ peak \in Int
    BY HeapTable
  <2> QED
    BY <1>4, <1>5, <2>1, BookForm
<1> HIDE DEF h
<1>7. /\ DOMAIN block' = D
      /\ \A g \in D : g # h => block'[g] = block[g]
      /\ block'[h] = [block[h] EXCEPT !.frei = FALSE]
  BY <1>4, <1>5 DEF HeapInv, TypeOK
<1>8. block'[h].size = size /\ block'[h].frei = FALSE
  BY <1>4, <1>7 DEF HeaderType
<1>9. /\ Used(block') = U \cup {h} /\ h \notin U /\ U \subseteq D
      /\ D \ (U \cup {h}) = (D \ U) \ {h} /\ h \in D \ U
      /\ \A g \in D : block'[g].size = block[g].size
  BY <1>4, <1>7, <1>8 DEF Used
<1> HIDE DEF D, U, size
<1>10. Count(block', U \cup {h}) = Count(block, U) + size
  <2>1. Count(block', U \cup {h}) = Count(block, U \cup {h})
    BY <1>4, <1>9, CountSame
  <2>2. Count(block, U \cup {h}) = Count(block, U) + size
    BY <1>2, <1>4, <1>9, CountWith DEF D, size
  <2> QED
    BY <2>1, <2>2
<1>11. Count(block', D \ (U \cup {h})) = Count(block, D \ U) - size
  <2>1. Count(block', (D \ U) \ {h}) = Count(block, (D \ U) \ {h})
    BY <1>9, CountSame
  <2>2. D \ U \subseteq DOMAIN block
    BY DEF D
  <2>3. Count(block, (D \ U) \ {h}) = Count(block, D \ U) - size
    BY <1>2, <1>9, <2>2, CountWithout DEF size
  <2>4. Count(block', D \ (U \cup {h})) = Count(block', (D \ U) \ {h})
    BY <1>9
  <2> QED
    BY <2>1, <2>3, <2>4
<1>12. /\ Count(block, U) \in Nat /\ Count(block, D \ U) \in Nat
       /\ Cardinality(D) \in Nat
  <2>1. D \ U \subseteq DOMAIN block /\ U \subseteq DOMAIN block /\ D \subseteq DOMAIN block
    BY <1>9 DEF D
  <2> QED
    BY <1>2, <2>1, FiniteTable
<1> DEFINE headers == HeaderSize * Cardinality(D)
           room    == heap_ende - bump
           all     == heap_ende - heap_start
<1>13. /\ belegt = Count(block, U)
       /\ belegt + Count(block, D \ U) + headers + room = all
  BY TotalForm DEF D, U
<1>14. headers \in Int /\ room \in Int /\ all \in Int /\ belegt \in Int
  BY <1>12, HeapTable, Cut
<1>15. /\ belegt' = Count(block', U \cup {h})
       /\ belegt' + Count(block', D \ (U \cup {h})) + headers + room = all
  <2> HIDE DEF headers, room, all
  <2> QED
    BY <1>4, <1>6, <1>10, <1>11, <1>12, <1>13, <1>14
<1> QED
  BY <1>3, <1>6, <1>7, <1>9, <1>15, TotalForm

LEMMA FreeLosesNothing ==
  ASSUME HeapInv, NothingLost, NEW p \in Word, Free(p)
  PROVE  NothingLost'
<1> DEFINE h == p - HeaderSize
           D == DOMAIN block
           U == Used(block)
           size == block[h].size
<1>1. /\ h \in D /\ ~block[h].frei
      /\ block' = [block EXCEPT ![h].frei = TRUE]
      /\ belegt' = belegt - size /\ peak' = peak
      /\ heap_start' = heap_start /\ heap_ende' = heap_ende /\ bump' = bump
  BY DEF Free, GivenOut, bounds
<1>2. HeapInv' /\ IsTable(block) /\ IsTable(block')
  BY FreeInv, HeapTable, HeapTableNext
<1> HIDE DEF h
<1>3. block[h] \in HeaderType /\ size \in Nat
  BY <1>1, BlockForm
<1>4. /\ DOMAIN block' = D
      /\ \A g \in D : g # h => block'[g] = block[g]
      /\ block'[h] = [block[h] EXCEPT !.frei = TRUE]
  BY <1>1 DEF HeapInv, TypeOK
<1>5. block'[h].size = size /\ block'[h].frei = TRUE
  BY <1>3, <1>4 DEF HeaderType
<1>6. /\ Used(block') = U \ {h} /\ h \in U /\ U \subseteq D
      /\ D \ (U \ {h}) = (D \ U) \cup {h} /\ h \notin D \ U
      /\ \A g \in D : block'[g].size = block[g].size
  BY <1>1, <1>4, <1>5 DEF Used
<1> HIDE DEF D, U, size
<1>7. Count(block', U \ {h}) = Count(block, U) - size
  <2>1. Count(block', U \ {h}) = Count(block, U \ {h})
    BY <1>6, CountSame
  <2>2. U \subseteq DOMAIN block
    BY <1>6 DEF D
  <2>3. Count(block, U \ {h}) = Count(block, U) - size
    BY <1>2, <1>6, <2>2, CountWithout DEF size
  <2> QED
    BY <2>1, <2>3
<1>8. Count(block', D \ (U \ {h})) = Count(block, D \ U) + size
  <2>1. Count(block', (D \ U) \cup {h}) = Count(block, (D \ U) \cup {h})
    <3>1. \A g \in (D \ U) \cup {h} : block'[g].size = block[g].size
      BY <1>1, <1>6
    <3> QED
      BY <3>1, CountSame
  <2>2. D \ U \subseteq DOMAIN block /\ h \in DOMAIN block
    BY <1>1 DEF D
  <2>3. Count(block, (D \ U) \cup {h}) = Count(block, D \ U) + size
    BY <1>2, <1>6, <2>2, CountWith DEF size
  <2>4. Count(block', D \ (U \ {h})) = Count(block', (D \ U) \cup {h})
    BY <1>6
  <2> QED
    BY <2>1, <2>3, <2>4
<1>9. /\ Count(block, U) \in Nat /\ Count(block, D \ U) \in Nat
      /\ Cardinality(D) \in Nat
  <2>1. D \ U \subseteq DOMAIN block /\ U \subseteq DOMAIN block /\ D \subseteq DOMAIN block
    BY <1>6 DEF D
  <2> QED
    BY <1>2, <2>1, FiniteTable
<1>10. /\ belegt \in Int /\ peak \in Int /\ peak >= belegt
  BY HeapTable DEF NothingLost
<1>11. peak' >= belegt'
  BY <1>1, <1>3, <1>10
<1> DEFINE headers == HeaderSize * Cardinality(D)
           room    == heap_ende - bump
           all     == heap_ende - heap_start
<1>12. /\ belegt = Count(block, U)
       /\ belegt + Count(block, D \ U) + headers + room = all
  BY TotalForm DEF D, U
<1>13. headers \in Int /\ room \in Int /\ all \in Int /\ belegt \in Int
  BY <1>9, HeapTable, Cut
<1>14. /\ belegt' = Count(block', U \ {h})
       /\ belegt' + Count(block', D \ (U \ {h})) + headers + room = all
  <2> HIDE DEF headers, room, all
  <2> QED
    BY <1>1, <1>3, <1>7, <1>8, <1>9, <1>12, <1>13
<1> QED
  BY <1>1, <1>4, <1>6, <1>11, <1>14, TotalForm

LEMMA AllocBumpLosesNothing ==
  ASSUME HeapInv, NothingLost, NEW n \in Request, AllocBump(n)
  PROVE  NothingLost'
<1> DEFINE D == DOMAIN block
           U == Used(block)
           need == Rounded(n)
<1>1. HeapInv' /\ IsTable(block) /\ IsTable(block')
  BY AllocBumpInv, HeapTable, HeapTableNext
<1>2. need \in Nat
  BY NeedForm DEF AllocBump
<1>3. bump \in Nat /\ bump \notin D
  BY HeapTable, BlockForm
<1>4. /\ bump' = bump + HeaderSize + need
      /\ heap_start' = heap_start /\ heap_ende' = heap_ende
      /\ DOMAIN block' = D \cup {bump}
      /\ block'[bump] = Header(need, FALSE)
      /\ \A g \in D : block'[g] = block[g]
  BY <1>3 DEF AllocBump, bounds, Payload
<1>5. belegt' = belegt + need /\ peak' >= belegt'
  <2>1. belegt \in Int /\ peak \in Int /\ Book(need)
    BY HeapTable DEF AllocBump
  <2> QED
    BY <1>2, <2>1, BookForm
<1>6. block'[bump].size = need /\ block'[bump].frei = FALSE
  BY <1>4 DEF Header
<1>7. /\ Used(block') = U \cup {bump} /\ bump \notin U /\ U \subseteq D
      /\ (D \cup {bump}) \ (U \cup {bump}) = D \ U
  BY <1>3, <1>4, <1>6 DEF Used
<1> HIDE DEF D, U, need
<1>8. Count(block', U \cup {bump}) = Count(block, U) + need
  <2>1. Count(block', U) = Count(block, U)
    BY <1>4, <1>7, CountSame
  <2>2. U \subseteq DOMAIN block' /\ bump \in DOMAIN block'
    BY <1>4, <1>7
  <2>3. Count(block', U \cup {bump}) = Count(block', U) + block'[bump].size
    BY <1>1, <1>7, <2>2, CountWith
  <2> QED
    BY <1>6, <2>1, <2>3
<1>9. Count(block', (D \cup {bump}) \ (U \cup {bump})) = Count(block, D \ U)
  <2>1. Count(block', D \ U) = Count(block, D \ U)
    BY <1>4, CountSame
  <2> QED
    BY <1>7, <2>1
<1>10. /\ Count(block, U) \in Nat /\ Count(block, D \ U) \in Nat
       /\ Cardinality(D) \in Nat /\ IsFiniteSet(D)
  <2>1. D \ U \subseteq DOMAIN block /\ U \subseteq DOMAIN block /\ D \subseteq DOMAIN block
    BY <1>7 DEF D
  <2> QED
    BY <1>1, <2>1, FiniteTable
<1>11. Cardinality(D \cup {bump}) = Cardinality(D) + 1
  BY <1>3, <1>10, FS_AddElement
<1> DEFINE headers == HeaderSize * Cardinality(D)
           room    == heap_ende - bump
           all     == heap_ende - heap_start
<1>12. /\ belegt = Count(block, U)
       /\ belegt + Count(block, D \ U) + headers + room = all
  BY TotalForm DEF D, U
<1>13. headers \in Int /\ room \in Int /\ all \in Int /\ belegt \in Int
  BY <1>10, HeapTable, Cut
<1>14. /\ HeaderSize * Cardinality(D \cup {bump}) = headers + HeaderSize
       /\ heap_ende' - bump' = room - HeaderSize - need
       /\ heap_ende' - heap_start' = all
       /\ HeaderSize \in Int
  <2>1. HeaderSize * Cardinality(D \cup {bump}) = headers + HeaderSize
    BY <1>10, <1>11, HeapTable, Cut
  <2>2. HeaderSize \in Int /\ heap_ende \in Int
    BY HeapTable
  <2> HIDE DEF headers
  <2>3. heap_ende' - bump' = room - HeaderSize - need
    BY <1>2, <1>3, <1>4, <2>2
  <2> QED
    BY <1>4, <2>1, <2>2, <2>3
<1>15. /\ belegt' = Count(block', U \cup {bump})
       /\ belegt' + Count(block', (D \cup {bump}) \ (U \cup {bump})) + (headers + HeaderSize)
           + (room - HeaderSize - need) = all
  <2> HIDE DEF headers, room, all
  <2> QED
    BY <1>2, <1>5, <1>8, <1>9, <1>10, <1>14, <1>12, <1>13
<1> QED
  BY <1>4, <1>5, <1>7, <1>14, <1>15, TotalForm

LEMMA AllocSplitLosesNothing ==
  ASSUME HeapInv, NothingLost, NEW n \in Request, AllocSplit(n)
  PROVE  NothingLost'
<1>1. HeapInv' /\ IsTable(block) /\ IsTable(block') /\ Searching(n)
  BY AllocSplitInv, HeapTable, HeapTableNext DEF AllocSplit
<1>2. PICK k \in DOMAIN freelist :
        LET h    == freelist[k]
            need == Rounded(n)
            rest == Payload(h) + need
        IN  /\ WorthSplitting(h, need)
            /\ block' = [a \in DOMAIN block \cup {rest} |->
                           CASE a = h    -> Header(need, FALSE)
                             [] a = rest -> Header(End(h) - Payload(rest), TRUE)
                             [] OTHER    -> block[a]]
            /\ Book(need)
  BY DEF AllocSplit
<1> DEFINE h    == freelist[k]
           need == Rounded(n)
           rest == Payload(h) + need
           left == End(h) - Payload(rest)
           D    == DOMAIN block
           U    == Used(block)
           size == block[h].size
<1>3. /\ WorthSplitting(h, need)
      /\ block' = [a \in D \cup {rest} |->
                     CASE a = h    -> Header(need, FALSE)
                       [] a = rest -> Header(left, TRUE)
                       [] OTHER    -> block[a]]
      /\ Book(need)
  BY <1>2
<1>4. /\ h \in D /\ rest \notin D /\ left \in Nat
      /\ rest = h + HeaderSize + need /\ Payload(rest) = rest + HeaderSize
  BY <1>1, <1>3, SplitForm DEF Word
<1>5. need \in Nat
  BY <1>1, NeedForm
<1>6. block[h].frei = TRUE
  BY ListedBlock
<1>7. size \in Nat /\ h \in Nat /\ End(h) = h + HeaderSize + size
  BY <1>4, BlockForm
<1>8. left = size - need - HeaderSize
  <2>1. HeaderSize \in Nat
    BY HeapTable
  <2> HIDE DEF h, need, size
  <2> QED
    BY <1>4, <1>5, <1>7, <2>1
<1>9. heap_start' = heap_start /\ heap_ende' = heap_ende /\ bump' = bump
  BY DEF AllocSplit, bounds
<1>10. belegt' = belegt + need /\ peak' >= belegt'
  <2>1. belegt \in Int /\ peak \in Int
    BY HeapTable
  <2> QED
    BY <1>3, <1>5, <2>1, BookForm
<1> HIDE DEF h, need, rest, left
<1>11. /\ DOMAIN block' = D \cup {rest} /\ h # rest
       /\ block'[h] = Header(need, FALSE) /\ block'[rest] = Header(left, TRUE)
       /\ \A g \in D : g # h => block'[g] = block[g]
  <2>1. h # rest
    BY <1>4
  <2> QED
    BY <1>3, <1>4, <2>1
<1>12. /\ block'[h].size = need /\ block'[h].frei = FALSE
       /\ block'[rest].size = left /\ block'[rest].frei = TRUE
  BY <1>11 DEF Header
<1>13. /\ Used(block') = U \cup {h} /\ h \notin U /\ rest \notin U /\ U \subseteq D
       /\ (D \cup {rest}) \ (U \cup {h}) = ((D \ U) \ {h}) \cup {rest}
       /\ h \in D \ U
       /\ \A g \in D \ {h} : block'[g].size = block[g].size
  BY <1>4, <1>6, <1>11, <1>12 DEF Used
<1> HIDE DEF D, U, size
<1>14. Count(block', U \cup {h}) = Count(block, U) + need
  <2>1. Count(block', U) = Count(block, U)
    BY <1>13, CountSame
  <2>2. U \subseteq DOMAIN block' /\ h \in DOMAIN block'
    BY <1>4, <1>11, <1>13
  <2>3. Count(block', U \cup {h}) = Count(block', U) + block'[h].size
    BY <1>1, <1>13, <2>2, CountWith
  <2> QED
    BY <1>12, <2>1, <2>3
<1> DEFINE F == (D \ U) \ {h}
<1>15. Count(block', F \cup {rest}) = Count(block, D \ U) - size + left
  <2>1. Count(block', F) = Count(block, F)
    BY <1>13, CountSame
  <2>2. /\ F \subseteq DOMAIN block' /\ rest \in DOMAIN block' /\ rest \notin F
        /\ D \ U \subseteq DOMAIN block
    BY <1>4, <1>11 DEF D
  <2>3. Count(block, F) = Count(block, D \ U) - size
    BY <1>1, <1>13, <2>2, CountWithout DEF size
  <2> HIDE DEF F
  <2>4. Count(block', F \cup {rest}) = Count(block', F) + block'[rest].size
    BY <1>1, <2>2, CountWith
  <2> QED
    BY <1>12, <2>1, <2>3, <2>4
<1>16. Count(block', (D \cup {rest}) \ (U \cup {h}))
         = Count(block, D \ U) - size + left
  BY <1>13, <1>15
<1>17. /\ Count(block, U) \in Nat /\ Count(block, D \ U) \in Nat
       /\ Cardinality(D) \in Nat /\ IsFiniteSet(D)
  <2>1. D \ U \subseteq DOMAIN block /\ U \subseteq DOMAIN block /\ D \subseteq DOMAIN block
    BY <1>13 DEF D
  <2> QED
    BY <1>1, <2>1, FiniteTable
<1>18. Cardinality(D \cup {rest}) = Cardinality(D) + 1
  BY <1>4, <1>17, FS_AddElement
<1> DEFINE headers == HeaderSize * Cardinality(D)
           room    == heap_ende - bump
           all     == heap_ende - heap_start
<1>19. /\ belegt = Count(block, U)
       /\ belegt + Count(block, D \ U) + headers + room = all
  BY TotalForm DEF D, U
<1>20. headers \in Int /\ room \in Int /\ all \in Int /\ belegt \in Int
  BY <1>17, HeapTable, Cut
<1>21. /\ HeaderSize * Cardinality(D \cup {rest}) = headers + HeaderSize
       /\ HeaderSize \in Int
  BY <1>17, <1>18, HeapTable, Cut
<1>22. /\ belegt' = Count(block', U \cup {h})
      /\ belegt' + Count(block', (D \cup {rest}) \ (U \cup {h})) + (headers + HeaderSize)
           + room = all
  <2> HIDE DEF headers, room, all
  <2> QED
    BY <1>4, <1>5, <1>7, <1>8, <1>10, <1>14, <1>16, <1>17, <1>21, <1>19, <1>20
<1> QED
  BY <1>9, <1>10, <1>11, <1>13, <1>21, <1>22, TotalForm

LEMMA LosesNothing ==
  ASSUME HeapInv, NothingLost, [Next]_vars
  PROVE  NothingLost'
<1>1. ASSUME NEW r \in Region, HeapInit(r[1], r[2])
      PROVE  NothingLost'
  <2>1. HeapInv'
    BY <1>1, InputAssumption, HeapInitInv
  <2>2. /\ belegt' = 0 /\ peak' = 0 /\ bump' = heap_start' /\ DOMAIN block' = {}
    BY <1>1 DEF HeapInit, NoBlock
  <2>3. heap_start' \in Nat /\ heap_ende' \in Nat /\ HeaderSize \in Nat
    BY <2>1, HeapTableNext, SizeAssumption
  <2>4. /\ Used(block') = {} /\ DOMAIN block' \ Used(block') = {}
        /\ Count(block', {}) = 0 /\ Cardinality(DOMAIN block') = 0
    <3>1. BytesIn(block', {}) = {}
      BY DEF BytesIn
    <3> QED
      BY <2>2, <3>1, FS_EmptySet DEF Used, Count
  <2>5. HeaderSize * 0 = 0
    BY <2>3
  <2>6. 0 + 0 + 0 + (heap_ende' - heap_start') = heap_ende' - heap_start'
    BY <2>3
  <2> QED
    BY <2>2, <2>4, <2>5, <2>6, TotalForm
<1>2. CASE UNCHANGED <<bounds, bump, block, counters>>
  BY <1>2, TotalForm DEF bounds, counters
<1>3. ASSUME NEW n \in Request, AllocFails(n)
      PROVE  UNCHANGED <<bounds, bump, block, counters>>
  BY <1>3 DEF AllocFails
<1>4. ASSUME NEW p \in Word, FreePanics(p)
      PROVE  UNCHANGED <<bounds, bump, block, counters>>
  BY <1>4 DEF FreePanics
<1>5. CASE UNCHANGED vars
  BY <1>2, <1>5 DEF vars
<1> QED
  BY <1>1, <1>2, <1>3, <1>4, <1>5, AllocWholeLosesNothing,
     AllocSplitLosesNothing, AllocBumpLosesNothing, FreeLosesNothing DEF Next

\* The counters that kern_speicher_belegt and kern_speicher_frei read agree
\* with the headers after every call: what is booked is what the blocks in
\* use hold, and used and free payloads, headers and the part above the bump
\* add up to the region, whatever the sequence of calls.
THEOREM NoByteIsLost == Spec => []NothingLost
<1>1. Init => NothingLost
  <2> SUFFICES ASSUME Init PROVE NothingLost
    OBVIOUS
  <2>1. /\ belegt = 0 /\ peak = 0 /\ bump = 0 /\ heap_start = 0 /\ heap_ende = 0
        /\ DOMAIN block = {}
    BY DEF Init, NoBlock
  <2>2. /\ Used(block) = {} /\ DOMAIN block \ Used(block) = {}
        /\ Count(block, {}) = 0 /\ Cardinality(DOMAIN block) = 0
    <3>1. BytesIn(block, {}) = {}
      BY DEF BytesIn
    <3> QED
      BY <2>1, <3>1, FS_EmptySet DEF Used, Count
  <2>3. HeaderSize * 0 = 0
    BY SizeAssumption
  <2> QED
    BY <2>1, <2>2, <2>3, TotalForm
<1>2. HeapInv /\ NothingLost /\ [Next]_vars => NothingLost'
  BY LosesNothing
<1> QED
  BY <1>1, <1>2, HeapInvariance, PTL DEF Spec
====
