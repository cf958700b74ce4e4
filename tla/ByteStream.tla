----------------------------- MODULE ByteStream -----------------------------
(***************************************************************************)
(* What fs/vfs.h promises the readers of an open file: a file is a         *)
(* sequence of bytes with a position, and a read delivers the next bytes,  *)
(* as many as were asked for or are left, and moves the position behind    *)
(* them.  A read that fails delivers nothing and moves nothing.            *)
(***************************************************************************)
EXTENDS Integers, Sequences

CONSTANT Request     \* the sizes that are asked for

VARIABLES content,   \* the bytes of the file
          position,
          asked,     \* the size of the call under way, or -1
          reply,     \* what the last call returned
          got        \* what it delivered

bsVars == <<content, position, asked, reply, got>>

Idle == asked = -1

BSInit ==
  /\ position = 0 /\ asked = -1
  /\ reply = 0 /\ got = <<>>

Seek ==
  /\ Idle
  /\ position' \in Nat
  /\ UNCHANGED <<content, asked, reply, got>>

Call(n) ==
  /\ Idle
  /\ asked' = n /\ reply' = 0 /\ got' = <<>>
  /\ UNCHANGED <<content, position>>

Fail ==
  /\ ~ Idle
  /\ asked' = -1 /\ reply' = -1
  /\ UNCHANGED <<content, position, got>>

(* Nothing is left behind the end. *)
Left == IF position < Len(content) THEN Len(content) - position ELSE 0

Deliver ==
  LET k == IF asked < Left THEN asked ELSE Left
  IN  /\ asked > 0
      /\ asked' = -1 /\ reply' = k
      /\ got' = SubSeq(content, position + 1, position + k)
      /\ position' = position + k
      /\ UNCHANGED content

BSNext == Seek \/ Fail \/ Deliver \/ \E n \in Request : Call(n)

BSSafety == BSInit /\ [][BSNext]_bsVars
BSSpec == BSSafety /\ WF_bsVars(Fail \/ Deliver)
=============================================================================
