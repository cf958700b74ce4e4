--------------------------- MODULE MCSystemTimer ----------------------------
(***************************************************************************)
(* TimerPic with two sleepers and words of 10 values; a tick lasts a       *)
(* millisecond, as in kmain.  The timer, the floppy drive and a device of  *)
(* the slave interrupt; the chips are as the firmware left them.           *)
(***************************************************************************)
EXTENDS TimerPic, TLC

CONSTANTS s1, s2

MCThread == {s1, s2}
MCDuration == {0, 1, 3}
MCChips(base, imr, isr) ==
  [base |-> base, imr |-> imr, irr |-> {}, isr |-> isr, icw |-> 0]
MCFirmware ==
  {[c \in {"master", "slave"} |-> MCChips(IF c = "master" THEN 8 ELSE 112, imr, isr)] :
     imr \in {{}, {0, 3}}, isr \in {{}, {0}}}
Symmetry == Permutations(MCThread)
=============================================================================
