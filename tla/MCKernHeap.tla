----------------------------- MODULE MCKernHeap -----------------------------
(***************************************************************************)
(* An instance of KernHeap for TLC: alignment 4 and headers of 8 bytes     *)
(* keep the proportion of 16 and 32.                                       *)
(***************************************************************************)
EXTENDS KernHeap

\* A region of full size, one that starts unaligned, the smallest one that
\* is usable, and three that are not: a byte too small, inverted, and with a
\* start that cannot be rounded up.
MCRegion ==
  {<<4, 60>>, <<3, 42>>, <<4, 16>>, <<4, 15>>, <<16, 8>>,
   <<MaxWord - 1, MaxWord>>}
=============================================================================
