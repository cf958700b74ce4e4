---------------------------- MODULE BlockDevice -----------------------------
(***************************************************************************)
(* What driver/block.h promises the file systems: a read of a block in     *)
(* range returns, either with that block in the caller's buffer or with a  *)
(* failure and the buffer untouched; a read out of range fails.            *)
(***************************************************************************)
EXTENDS Integers

CONSTANTS Reader,   \* the threads that call blkread
          Lba,      \* the block numbers they ask for
          num_blocks,
          None

VARIABLES asked,    \* the block of the call under way, or None
          reply,    \* how the last call ended: "none", "ok" or "fail"
          data      \* the block in the caller's buffer, or None

bdVars == <<asked, reply, data>>

BDInit ==
  /\ asked = [r \in Reader |-> None]
  /\ reply = [r \in Reader |-> "none"]
  /\ data = [r \in Reader |-> None]

Begin(r, l) ==
  /\ asked[r] = None
  /\ asked' = [asked EXCEPT ![r] = l]
  /\ reply' = [reply EXCEPT ![r] = "none"]
  /\ data' = [data EXCEPT ![r] = None]

End(r) ==
  /\ asked[r] # None
  /\ asked' = [asked EXCEPT ![r] = None]
  /\ \/ /\ asked[r] < num_blocks
        /\ reply' = [reply EXCEPT ![r] = "ok"]
        /\ data' = [data EXCEPT ![r] = asked[r]]
     \/ /\ reply' = [reply EXCEPT ![r] = "fail"]
        /\ UNCHANGED data

BDNext == \E r \in Reader : End(r) \/ \E l \in Lba : Begin(r, l)

BDSafety == BDInit /\ [][BDNext]_bdVars
BDSpec == BDSafety /\ \A r \in Reader : WF_bdVars(End(r))
=============================================================================
