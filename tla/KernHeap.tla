------------------------------ MODULE KernHeap ------------------------------
(***************************************************************************)
(* The heap of a moo kernel on bare metal (moo_bare_alloc.c): a region cut *)
(* from the bottom into blocks, each a header and a payload, and a list of *)
(* free blocks that is searched first-fit and splits a block that is too   *)
(* large.  Blocks are never joined again.                                  *)
(*                                                                         *)
(* Addresses are words in bytes.  block[h] is the header at address h; the *)
(* walk from header to header in kern_find_payload and the links of the    *)
(* free list are the domain of block and a sequence.  A kernel that writes *)
(* past its payload destroys headers; such kernels are not modelled.       *)
(***************************************************************************)
EXTENDS Integers, Sequences, FiniteSets, SequencesExt

CONSTANTS
  Align,       (* KERN_ALLOC_ALIGN                            *)
  HeaderSize,  (* sizeof(KernBlock)                           *)
  MaxWord,     (* stands for UINT64_MAX and UINTPTR_MAX       *)
  Region,      (* <<start, ende>> pairs the heap is given     *)
  Request      (* sizes the kernel asks for                   *)

ASSUME SizeAssumption ==
  /\ Align \in Nat \ {0}
  /\ HeaderSize \in Nat \ {0} /\ HeaderSize % Align = 0
  /\ MaxWord \in Nat /\ MaxWord >= Align /\ (MaxWord + 1) % Align = 0

Word == 0 .. MaxWord

ASSUME InputAssumption == Region \subseteq Word \X Word /\ Request \subseteq Word

VARIABLES
  heap_start,  (* g_heap_start, 0 if there is no heap         *)
  heap_ende,   (* g_heap_ende                                 *)
  bump,        (* g_bump                                      *)
  block,       (* the headers between g_heap_start and g_bump *)
  freelist,    (* g_freelist and the links from it            *)
  belegt,      (* g_belegt                                    *)
  peak,        (* g_peak                                      *)
  answer,      (* the size last asked for, what was returned  *)
  halted       (* kern_panic was called                       *)

bounds   == <<heap_start, heap_ende>>
counters == <<belegt, peak>>
vars     == <<bounds, bump, block, freelist, counters, answer, halted>>

-----------------------------------------------------------------------------
\* Seeded fault: sizes are rounded down.
RoundedDown(n) == n - (n % Align)

\* (n + mask) & ~mask, in the width of a word.
Rounded(n) ==
  LET sum == (n + (Align - 1)) % (MaxWord + 1)
  IN  sum - (sum % Align)

\* Seeded fault: nobody looks whether the sum wraps around.
RoundableAlways(n) == TRUE

\* checked_align_up_u64 succeeds.
Roundable(n) == n <= MaxWord - (Align - 1)

Payload(h) == h + HeaderSize
End(h)     == Payload(h) + block[h].size

Header(size, frei) == [size |-> size, frei |-> frei]

\* The smallest block there can be.
MinBlock == HeaderSize + Align

NoBlock == [h \in {} |-> Header(0, TRUE)]

Init ==
  /\ heap_start = 0 /\ heap_ende = 0
  /\ bump = 0
  /\ block = NoBlock
  /\ freelist = <<>>
  /\ belegt = 0 /\ peak = 0
  /\ answer = <<0, 0>>
  /\ halted = FALSE

\* The region can hold a block once its start is rounded up.
Usable(start, ende) ==
  /\ start # 0 /\ start < ende
  /\ Roundable(start)
  /\ Rounded(start) < ende
  /\ ende - Rounded(start) >= MinBlock

\* kern_heap_init_c: an unusable region leaves no heap at all.
HeapInit(start, ende) ==
  /\ ~halted
  /\ heap_start' = IF Usable(start, ende) THEN Rounded(start) ELSE 0
  /\ heap_ende' = IF Usable(start, ende) THEN ende ELSE 0
  /\ bump' = heap_start'
  /\ block' = NoBlock
  /\ freelist' = <<>>
  /\ belegt' = 0 /\ peak' = 0
  /\ answer' = <<0, 0>>
  /\ UNCHANGED halted

-----------------------------------------------------------------------------
(* kern_alloc_c                                                            *)

Book(size) ==
  /\ belegt' = belegt + size
  /\ peak' = IF belegt + size > peak THEN belegt + size ELSE peak

\* There is a heap and n can be rounded; the search starts.
Searching(n) == ~halted /\ heap_start # 0 /\ n # 0 /\ Roundable(n)

Fitting(need) == {k \in DOMAIN freelist : block[freelist[k]].size >= need}

\* The first block of the list that is large enough.
FirstFit(k, need) ==
  k \in Fitting(need) /\ \A j \in Fitting(need) : k <= j

WorthSplitting(h, need) == block[h].size - need >= MinBlock

\* Seeded fault: the block is handed out and stays in the list.
AllocWholeKept(n) ==
  /\ Searching(n)
  /\ \E k \in DOMAIN freelist :
       LET h == freelist[k]
       IN  /\ FirstFit(k, Rounded(n))
           /\ ~WorthSplitting(h, Rounded(n))
           /\ block' = [block EXCEPT ![h].frei = FALSE]
           /\ answer' = <<n, Payload(h)>>
           /\ Book(block[h].size)
  /\ UNCHANGED <<bounds, bump, freelist, halted>>

\* The block found is handed out whole.
AllocWhole(n) ==
  /\ Searching(n)
  /\ \E k \in DOMAIN freelist :
       LET h == freelist[k]
       IN  /\ FirstFit(k, Rounded(n))
           /\ ~WorthSplitting(h, Rounded(n))
           /\ block' = [block EXCEPT ![h].frei = FALSE]
           /\ freelist' = RemoveAt(freelist, k)
           /\ answer' = <<n, Payload(h)>>
           /\ Book(block[h].size)
  /\ UNCHANGED <<bounds, bump, halted>>

\* The block found is split; the rest takes its place in the list.
AllocSplit(n) ==
  /\ Searching(n)
  /\ \E k \in DOMAIN freelist :
       LET h    == freelist[k]
           need == Rounded(n)
           rest == Payload(h) + need
       IN  /\ FirstFit(k, need)
           /\ WorthSplitting(h, need)
           /\ block' = [a \in DOMAIN block \cup {rest} |->
                          CASE a = h    -> Header(need, FALSE)
                            [] a = rest -> Header(End(h) - Payload(rest), TRUE)
                            [] OTHER    -> block[a]]
           /\ freelist' = [freelist EXCEPT ![k] = rest]
           /\ answer' = <<n, Payload(h)>>
           /\ Book(need)
  /\ UNCHANGED <<bounds, bump, halted>>

\* No free block fits: a new one is cut from the rest of the region.
AllocBump(n) ==
  /\ Searching(n)
  /\ Fitting(Rounded(n)) = {}
  /\ heap_ende - bump >= HeaderSize
  /\ Rounded(n) <= heap_ende - bump - HeaderSize
  /\ block' = [a \in DOMAIN block \cup {bump} |->
                 IF a = bump THEN Header(Rounded(n), FALSE) ELSE block[a]]
  /\ bump' = Payload(bump) + Rounded(n)
  /\ answer' = <<n, Payload(bump)>>
  /\ Book(Rounded(n))
  /\ UNCHANGED <<bounds, freelist, halted>>

\* The size is 0 or too large to round, or there is no heap or no room.
AllocFails(n) ==
  /\ ~halted
  /\ ~Searching(n) \/ ( /\ Fitting(Rounded(n)) = {}
                        /\ \/ heap_ende - bump < HeaderSize
                           \/ Rounded(n) > heap_ende - bump - HeaderSize )
  /\ answer' = <<n, 0>>
  /\ UNCHANGED <<bounds, bump, block, freelist, counters, halted>>

-----------------------------------------------------------------------------
(* kern_frei_c; the null pointer is ignored.                               *)

\* p lies among the payloads and is aligned, so that the walk over the
\* headers can meet it.
Candidate(p) ==
  /\ heap_start # 0
  /\ heap_start <= p /\ p < bump
  /\ p - heap_start >= HeaderSize
  /\ p % Align = 0

\* Seeded fault: a block that is free already may be given back.
GivenOutTwice(p) == Candidate(p) /\ p - HeaderSize \in DOMAIN block

\* p is the payload of a block in use.
GivenOut(p) ==
  /\ Candidate(p)
  /\ p - HeaderSize \in DOMAIN block
  /\ ~block[p - HeaderSize].frei

Free(p) ==
  /\ ~halted
  /\ GivenOut(p)
  /\ LET h == p - HeaderSize
     IN  /\ block' = [block EXCEPT ![h].frei = TRUE]
         /\ freelist' = <<h>> \o freelist
         /\ belegt' = belegt - block[h].size
  /\ answer' = <<0, 0>>
  /\ UNCHANGED <<bounds, bump, peak, halted>>

\* kern_panic: outside the heap, not a block, or free already.
FreePanics(p) ==
  /\ ~halted
  /\ p # 0
  /\ ~GivenOut(p)
  /\ halted' = TRUE
  /\ UNCHANGED <<bounds, bump, block, freelist, counters, answer>>

Next ==
  \/ \E r \in Region : HeapInit(r[1], r[2])
  \/ \E n \in Request :
       AllocWhole(n) \/ AllocSplit(n) \/ AllocBump(n) \/ AllocFails(n)
  \/ \E p \in Word : Free(p) \/ FreePanics(p)

Spec == Init /\ [][Next]_vars

-----------------------------------------------------------------------------
HeaderType == [size : Word, frei : BOOLEAN]

\* Every variable keeps its type; addresses and sizes are words.
TypeOK ==
  /\ heap_start \in Word /\ heap_ende \in Word /\ bump \in Word
  /\ DOMAIN block \subseteq Word
  /\ block \in [DOMAIN block -> HeaderType]
  /\ freelist \in Seq(Word)
  /\ belegt \in Int /\ peak \in Int
  /\ answer \in Word \X Word
  /\ halted \in BOOLEAN

\* The blocks tile the heap up to the bump: the walk of kern_find_payload
\* from header to header meets every one of them, and ends at the bump.
HeapTiled ==
  /\ DOMAIN block # {} => heap_start \in DOMAIN block
  /\ \A h \in DOMAIN block :
       /\ heap_start <= h /\ h % Align = 0
       /\ block[h].size >= Align /\ block[h].size % Align = 0
       /\ End(h) = bump \/ End(h) \in DOMAIN block
       /\ End(h) <= bump
       /\ \A g \in DOMAIN block : g > h => g >= End(h)

\* The list holds exactly the free blocks, each once.
ListHoldsFree ==
  /\ {freelist[k] : k \in DOMAIN freelist} = {h \in DOMAIN block : block[h].frei}
  /\ \A j, k \in DOMAIN freelist : freelist[j] = freelist[k] => j = k

\* The searches of kern_alloc_c and kern_speicher_frei meet free blocks only
\* and no more of them than the region can hold: their checks, which call
\* kern_panic, never fail.
FreeListSound ==
  /\ ListHoldsFree
  /\ heap_start # 0 => Len(freelist) <= (bump - heap_start) \div MinBlock + 1

InUse == {h \in DOMAIN block : ~block[h].frei}

\* The bytes of the blocks in H, each with the header it lies behind.
Bytes(H) == UNION {{h} \X (0 .. block[h].size - 1) : h \in H}

Total(H) == Cardinality(Bytes(H))

\* No byte is lost: what is booked is what the blocks in use hold, and with
\* the free blocks, the headers and what is left above the bump it is the
\* whole region, so that kern_speicher_frei tells the truth.
NothingLost ==
  /\ belegt = Total(InUse)
  /\ peak >= belegt
  /\ belegt + Total(DOMAIN block \ InUse) + HeaderSize * Cardinality(DOMAIN block)
       + (heap_ende - bump) = heap_ende - heap_start

\* What the kernel sees of the heap.
Pieces == {<<Payload(h), block[h].size>> : h \in InUse}

Allocator == INSTANCE BlockAllocator
  WITH region <- bounds, pieces <- Pieces

\* The heap hands out disjoint memory inside its region, at least as much as
\* asked for, and stops the kernel at the first pointer given back that it
\* had not given out, or not any more.
AllocatorSpec == Allocator!Spec
=============================================================================
