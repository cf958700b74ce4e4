---------------------------- MODULE MCScheduler -----------------------------
(***************************************************************************)
(* Scheduler with the kernel thread, three more thread blocks and two      *)
(* processes.  The blocks other than the kernel's are interchangeable.     *)
(***************************************************************************)
EXTENDS Scheduler, TLC

CONSTANTS k, t1, t2, t3, kp, p1

MCThread == {k, t1, t2, t3}
MCThreadSmall == {k, t1, t2}
MCProc == {kp, p1}
MCOneProc == {kp}
Symmetry == Permutations({t1, t2, t3})
=============================================================================
