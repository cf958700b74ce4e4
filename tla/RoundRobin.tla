----------------------------- MODULE RoundRobin -----------------------------
(***************************************************************************)
(* What the scheduler of proc/process.c promises, with no pointers, no     *)
(* time slices and no interrupts: one thread runs, the others wait in      *)
(* first-come first-served order, and the running thread goes to the back  *)
(* of the line when its turn is over.                                      *)
(***************************************************************************)
EXTENDS Fifo

CONSTANTS Thread, kernel_thread

VARIABLES running,   \* the thread that has the processor
          waiting    \* the threads that wait for it, the next one first

rrVars == <<running, waiting>>

RRInit == running = kernel_thread /\ waiting = <<>>

(* A thread that is neither running nor waiting joins the back of the line. *)
Post(t) ==
  /\ t # running /\ t \notin Members(waiting)
  /\ waiting' = Append(waiting, t)
  /\ UNCHANGED running

(* The turn of the running thread is over: the first in line runs. *)
Rotate ==
  /\ waiting # <<>>
  /\ running' = Head(waiting)
  /\ waiting' = Append(Tail(waiting), running)

(* The running thread leaves for good. *)
Leave ==
  /\ waiting # <<>>
  /\ running' = Head(waiting)
  /\ waiting' = Tail(waiting)

(* A waiting thread is taken out of the line. *)
Drop(t) ==
  /\ t \in Members(waiting)
  /\ waiting' = Without(waiting, t)
  /\ UNCHANGED running

RRNext == Rotate \/ Leave \/ \E t \in Thread : Post(t) \/ Drop(t)

(* The safety part of the promise, which the proofs use. *)
RRSafety == RRInit /\ [][RRNext]_rrVars

(* Turns end: as long as somebody waits, the line moves. *)
RRSpec == RRSafety /\ WF_rrVars(Rotate \/ Leave)
=============================================================================
