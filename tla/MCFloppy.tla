------------------------------ MODULE MCFloppy ------------------------------
(***************************************************************************)
(* Floppy with two readers and blocks on both heads and on two cylinders   *)
(* of the disk, the first block past its end, and one whose cylinder, cut  *)
(* to a byte, is 0; the DMA chip holds anything at the start.              *)
(***************************************************************************)
EXTENDS FloppyDma, TLC

CONSTANTS r1, r2

MCReader == {r1, r2}
MCLba == {0, 35, 36, 2880, 9216}

Chip(flip, x, mask) ==
  [flip |-> flip, addr |-> [ch \in 0..3 |-> x], count |-> [ch \in 0..3 |-> x],
   mode |-> [ch \in 0..3 |-> x % 256], page |-> [ch \in 0..3 |-> x % 256], mask |-> mask]
MCFoundDmac == {Chip(0, 0, 0..3), Chip(1, 65535, {})}

Symmetry == Permutations(MCReader)
=============================================================================
