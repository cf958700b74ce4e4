---------------------------- MODULE MCProcesses -----------------------------
(***************************************************************************)
(* Processes with the kernel thread, two more thread blocks, two process   *)
(* blocks besides the kernel's, and so many slots.                         *)
(***************************************************************************)
EXTENDS Processes, TLC

CONSTANTS k, t1, t2, t3, kp, p1, p2, p3

MCThread == {k, t1, t2, t3}
MCThreadSmall == {k, t1, t2}
MCProc == {kp, p1, p2, p3}
KernelOnly == {k}
Symmetry == Permutations({t1, t2, t3}) \cup Permutations({p1, p2, p3})
=============================================================================
