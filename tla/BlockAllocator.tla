--------------------------- MODULE BlockAllocator ---------------------------
(***************************************************************************)
(* What the bare-metal heap of a moo kernel promises: pieces of memory     *)
(* that lie inside the region, are as long as asked for and overlap no     *)
(* other piece in use.  A piece ends when it is given back; giving back    *)
(* anything else halts the kernel.                                         *)
(***************************************************************************)
EXTENDS Naturals

CONSTANTS
  Align,    (* pieces begin at multiples of it          *)
  MaxWord,  (* the largest address and size             *)
  Request   (* sizes asked for                          *)

VARIABLES
  region,   (* <<first, end>> of the memory handed out        *)
  pieces,   (* the <<address, length>> of the pieces in use   *)
  answer,   (* <<size asked for, address returned or 0>>       *)
  halted    (* the kernel has stopped                         *)

vars == <<region, pieces, answer, halted>>

Word == 0 .. MaxWord

Overlap(p, q) == p[1] < q[1] + q[2] /\ q[1] < p[1] + p[2]

Init ==
  /\ region = <<0, 0>>
  /\ pieces = {}
  /\ answer = <<0, 0>>
  /\ halted = FALSE

\* All pieces handed out so far are forgotten.
Reset ==
  /\ ~halted
  /\ region' \in Word \X Word
  /\ pieces' = {}
  /\ answer' = <<0, 0>>
  /\ UNCHANGED halted

\* The piece is as long as asked for, or longer.
Allocate(n) ==
  /\ ~halted
  /\ \E piece \in {answer'[2]} \X (n .. MaxWord) :
       /\ piece[1] \in Word \ {0} /\ piece[1] % Align = 0
       /\ region[1] <= piece[1] /\ piece[1] + piece[2] <= region[2]
       /\ \A old \in pieces : ~Overlap(old, piece)
       /\ pieces' = pieces \cup {piece}
       /\ answer' = <<n, piece[1]>>
  /\ UNCHANGED <<region, halted>>

Refuse(n) ==
  /\ ~halted
  /\ answer' = <<n, 0>>
  /\ UNCHANGED <<region, pieces, halted>>

GiveBack(a) ==
  /\ ~halted
  /\ \E old \in pieces : old[1] = a /\ pieces' = pieces \ {old}
  /\ answer' = <<0, 0>>
  /\ UNCHANGED <<region, halted>>

Misuse(a) ==
  /\ ~halted
  /\ \A old \in pieces : old[1] # a
  /\ halted' = TRUE
  /\ UNCHANGED <<region, pieces, answer>>

Next ==
  \/ Reset
  \/ \E n \in Request : Allocate(n) \/ Refuse(n)
  \/ \E a \in Word : GiveBack(a) \/ Misuse(a)

Spec == Init /\ [][Next]_vars
=============================================================================
