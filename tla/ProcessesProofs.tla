--------------------------- MODULE ProcessesProofs --------------------------
(***************************************************************************)
(* Proofs about Scheduler and Processes.  The scheduler, alone: its safety *)
(* properties, and that it implements RoundRobin, for any set of threads,  *)
(* any SLICE and any MaxNested below SLICE.  Processes and their threads,  *)
(* for any number of them, with the operations called by the kernel        *)
(* thread, which runs kmain and the shell, and forks by all: no thread     *)
(* outlives its process, thread lists and process table are exact.         *)
(***************************************************************************)
EXTENDS Processes, ListTheorems

USE SchedulerAssumption

(* Linking in a thread keeps the queue a list and puts it last. *)
LEMMA EnqueueStep ==
  ASSUME TypeOK, ReadyQueueIntact,
         NEW t \in Thread, t \notin Members(ready), Enqueue(t)
  PROVE  /\ ReadyQueueIntact'
         /\ state' \in [Thread -> States]
         /\ next_ready' \in [Thread -> Thread \cup {NULL}]
         /\ queue' \in Thread \cup {NULL}
         /\ queue_tail' \in Thread \cup {NULL}
         /\ ready' \in Seq(Thread)
         /\ ready' # <<>> /\ ready'[Len(ready')] = t
         /\ Members(ready') = Members(ready) \cup {t}
<1>1. ready \in Seq(Thread) /\ next_ready \in [Thread -> Thread \cup {NULL}]
  BY DEF TypeOK
<1>2. IsList(ready, queue, queue_tail, next_ready, NULL)
  BY DEF ReadyQueueIntact
<1>3. ReadyQueueIntact'
  BY <1>1, <1>2, EnqueueList DEF ReadyQueueIntact, Enqueue
<1>4. /\ ready' \in Seq(Thread)
      /\ ready' # <<>> /\ ready'[Len(ready')] = t
      /\ Members(ready') = Members(ready) \cup {t}
  BY <1>1, AppendFacts DEF Enqueue
<1>5. state' \in [Thread -> States]
  BY DEF Enqueue, TypeOK, States
<1>6. next_ready' \in [Thread -> Thread \cup {NULL}]
  BY DEF Enqueue, TypeOK
<1>7. queue' \in Thread \cup {NULL} /\ queue_tail' \in Thread \cup {NULL}
  BY DEF Enqueue, TypeOK
<1> QED
  BY <1>3, <1>4, <1>5, <1>6, <1>7

(* Taking the first thread off the queue takes the first in line. *)
LEMMA DequeueStep ==
  ASSUME TypeOK, ReadyQueueIntact, queue # NULL, Dequeue, UNCHANGED queue_tail
  PROVE  /\ ReadyQueueIntact'
         /\ next_ready' \in [Thread -> Thread \cup {NULL}]
         /\ queue' \in Thread \cup {NULL}
         /\ ready' \in Seq(Thread)
         /\ ready # <<>> /\ queue = ready[1] /\ queue \in Members(ready)
         /\ queue \in Thread
         /\ ready' = Omit(ready, 1)
         /\ Members(ready') = Members(ready) \ {queue}
<1>1. ready \in Seq(Thread) /\ next_ready \in [Thread -> Thread \cup {NULL}]
  BY DEF TypeOK
<1>2. IsList(ready, queue, queue_tail, next_ready, NULL)
  BY DEF ReadyQueueIntact
<1>3. /\ ready # <<>> /\ queue = ready[1] /\ queue \in Thread
      /\ Without(ready, queue) = Omit(ready, 1)
      /\ IsList(Without(ready, queue), next_ready[queue], queue_tail,
                [next_ready EXCEPT ![queue] = NULL], NULL)
  BY <1>1, <1>2, DequeueList
<1>4. ReadyQueueIntact'
  BY <1>3 DEF ReadyQueueIntact, Dequeue
<1>5. 1 \in 1..Len(ready)
  BY <1>1, <1>3
<1>6. NoRepeats(ready)
  BY <1>2 DEF IsList
<1>7. /\ ready' = Omit(ready, 1) /\ ready' \in Seq(Thread)
      /\ Members(ready') = Members(ready) \ {queue}
  BY <1>1, <1>3, <1>5, <1>6, WithoutFacts DEF Dequeue
<1>8. queue \in Members(ready)
  BY <1>3, <1>5 DEF Members
<1>9. /\ next_ready' \in [Thread -> Thread \cup {NULL}]
      /\ queue' \in Thread \cup {NULL}
  BY <1>1, <1>3 DEF Dequeue
<1> QED
  BY <1>3, <1>4, <1>7, <1>8, <1>9

-----------------------------------------------------------------------------
(* The state after scheduler_init satisfies the invariant. *)
LEMMA InitInv == scheduler_init => Inv
<1> SUFFICES ASSUME scheduler_init PROVE Inv
  OBVIOUS
<1>1. Members(ready) = {} /\ Len(ready) = 0 /\ ready \in Seq(Thread)
  BY DEF scheduler_init, Members
<1>2. TypeOK
  <2>1. time_slice \in [Thread -> 1..SLICE] /\ nested \in 0..MaxNested
    BY DEF scheduler_init
  <2>2. next_ready \in [Thread -> Thread \cup {NULL}]
    BY DEF scheduler_init
  <2> QED
    BY <1>1, <2>1, <2>2 DEF scheduler_init, TypeOK, States, Frames, Cpu
<1>3. ReadyQueueIntact
  BY <1>1 DEF scheduler_init, ReadyQueueIntact, IsList, NoRepeats
<1>4. NeverSpins /\ AddressSpaceMatches /\ KernelStackMatches
  BY DEF scheduler_init, NeverSpins, AddressSpaceMatches, KernelStackMatches
<1> QED
  BY <1>1, <1>2, <1>3, <1>4 DEF scheduler_init, Inv, RUNNING, TERMINATED

(* A new thread is not in the queue and does not disturb it, even when its *)
(* block is one that queue_tail still points to.                           *)
LEMMA CreateInv ==
  ASSUME Inv, NEW t \in Thread, NEW p \in Proc, thread_create(t, p)
  PROVE  Inv'
<1>1. TypeOK'
  BY DEF Inv, TypeOK, thread_create, States, Frames
<1>2. \A u \in Members(ready) : u \in Thread /\ u # t
  BY DEF Inv, TypeOK, thread_create, Members
<1>3. ReadyQueueIntact'
  <2>1. ready \in Seq(Thread) /\ next_ready \in [Thread -> Thread \cup {NULL}]
    BY DEF Inv, TypeOK
  <2>2. \A i \in 1..Len(ready) : next_ready'[ready[i]] = next_ready[ready[i]]
    BY <1>2, <2>1 DEF thread_create, Members
  <2>3. IsList(ready, queue, queue_tail, next_ready, NULL)
    BY DEF Inv, ReadyQueueIntact
  <2>4. Len(ready) \in Nat /\ (ready # <<>> => Len(ready) > 0)
    BY <2>1
  <2>5. IsList(ready, queue, queue_tail, next_ready', NULL)
    BY <2>2, <2>3, <2>4 DEF IsList
  <2> QED
    BY <2>5 DEF ReadyQueueIntact, thread_create
<1>4. t # current_thread /\ t # kernel_thread
  BY DEF Inv, thread_create
<1>5. NeverSpins' /\ AddressSpaceMatches' /\ KernelStackMatches'
  BY <1>4 DEF Inv, TypeOK, thread_create, NeverSpins, AddressSpaceMatches,
              KernelStackMatches
<1>6. Members(ready') = Members(ready)
  BY DEF thread_create
<1>7. \A u \in Members(ready') : state'[u] = READY
  BY <1>2, <1>6 DEF Inv, TypeOK, thread_create
<1>8. state'[current_thread'] # TERMINATED
  BY <1>4 DEF Inv, TypeOK, thread_create
<1>9. \A u \in alloc' : trap_frame'[u] = "none" =>
          u = kernel_thread /\ u \notin Members(ready')
  BY <1>6 DEF Inv, TypeOK, thread_create
<1>10. time_slice'[current_thread'] = time_slice[current_thread]
  BY <1>4 DEF Inv, TypeOK, thread_create
<1> QED
  BY <1>1, <1>3, <1>5, <1>6, <1>7, <1>8, <1>9, <1>10 DEF Inv, thread_create

(* A posted thread becomes the last in line. *)
LEMMA PostInv ==
  ASSUME Inv, NEW t \in Thread, scheduler_post(t)
  PROVE  Inv'
<1>1. /\ ReadyQueueIntact'
      /\ state' \in [Thread -> States]
      /\ next_ready' \in [Thread -> Thread \cup {NULL}]
      /\ queue' \in Thread \cup {NULL}
      /\ queue_tail' \in Thread \cup {NULL}
      /\ ready' \in Seq(Thread)
      /\ Members(ready') = Members(ready) \cup {t}
  BY EnqueueStep DEF Inv, scheduler_post
<1>2. TypeOK'
  BY <1>1 DEF Inv, TypeOK, scheduler_post
<1>3. NeverSpins' /\ AddressSpaceMatches' /\ KernelStackMatches'
  BY <1>1 DEF Inv, scheduler_post, NeverSpins, AddressSpaceMatches, KernelStackMatches
<1>4. state' = [state EXCEPT ![t] = READY] /\ state \in [Thread -> States]
  BY DEF scheduler_post, Enqueue, Inv, TypeOK
<1>5. \A u \in Members(ready') : state'[u] = READY
  <2>1. \A u \in Members(ready) : u \in Thread
    BY DEF Inv, TypeOK, Members
  <2> QED
    BY <1>1, <1>4, <2>1 DEF Inv
<1>6. state'[current_thread'] # TERMINATED
  BY <1>4 DEF Inv, TypeOK, scheduler_post
<1>7. \A u \in alloc' : trap_frame'[u] = "none" =>
          u = kernel_thread /\ u \notin Members(ready')
  <2>1. t = kernel_thread => FALSE
    BY DEF Inv, NeverSpins, scheduler_post
  <2> QED
    BY <1>1, <2>1 DEF Inv, scheduler_post
<1>8. Members(ready') \cup {current_thread', kernel_thread} \subseteq alloc'
  BY <1>1 DEF Inv, scheduler_post
<1> QED
  BY <1>1, <1>2, <1>3, <1>5, <1>6, <1>7, <1>8 DEF Inv, scheduler_post

(* A destroyed thread is taken out of the queue and of the live threads. *)
LEMMA DestroyInv ==
  ASSUME Inv, NEW t \in Thread, LeavesTail(t), thread_destroy(t)
  PROVE  Inv'
<1>1. /\ ready \in Seq(Thread) /\ next_ready \in [Thread -> Thread \cup {NULL}]
      /\ IsList(ready, queue, queue_tail, next_ready, NULL)
      /\ NoRepeats(ready)
  BY DEF Inv, TypeOK, ReadyQueueIntact, IsList
<1>2. ReadyQueueIntact'
  BY <1>1, UnlinkList DEF ReadyQueueIntact, thread_destroy, LeavesTail, Queued
<1>3. ready' \in Seq(Thread) /\ Members(ready') = Members(ready) \ {t}
  <2>1. CASE t \notin Members(ready)
    BY <1>1, <2>1 DEF thread_destroy, Without
  <2>2. CASE t \in Members(ready)
    <3>1. PICK i \in 1..Len(ready) : t = ready[i]
      BY <2>2 DEF Members
    <3> QED
      BY <1>1, <3>1, WithoutFacts DEF thread_destroy
  <2> QED
    BY <2>1, <2>2
<1>4. TypeOK'
  BY <1>3 DEF Inv, TypeOK, thread_destroy
<1>5. t # current_thread /\ t # kernel_thread
  BY DEF thread_destroy
<1>6. NeverSpins' /\ AddressSpaceMatches' /\ KernelStackMatches'
  BY <1>3, <1>5 DEF Inv, thread_destroy, NeverSpins, AddressSpaceMatches,
                    KernelStackMatches
<1> QED
  BY <1>2, <1>3, <1>4, <1>5, <1>6 DEF Inv, thread_destroy

(* A tick in the middle of a turn. *)
LEMMA CountedInv ==
  ASSUME Inv, tick_counted
  PROVE  Inv'
<1>1. time_slice' \in [Thread -> 1..SLICE]
  BY DEF Inv, TypeOK, tick_counted
<1>2. trap_frame' \in [Thread -> Frames] /\ trap_frame'[current_thread] = "saved"
  BY DEF Inv, TypeOK, tick_counted, Frames
<1>3. TypeOK'
  BY <1>1, <1>2 DEF Inv, TypeOK, tick_counted
<1>4. ReadyQueueIntact' /\ NeverSpins' /\ AddressSpaceMatches' /\ KernelStackMatches'
  BY DEF Inv, tick_counted, ReadyQueueIntact, NeverSpins, AddressSpaceMatches,
         KernelStackMatches
<1>5. \A u \in alloc' : trap_frame'[u] = "none" =>
          u = kernel_thread /\ u \notin Members(ready')
  BY <1>2 DEF Inv, TypeOK, tick_counted
<1> QED
  BY <1>3, <1>4, <1>5 DEF Inv, tick_counted

(* The end of a turn: the current thread is queued with a full turn. *)
LEMMA ExpiredInv ==
  ASSUME Inv, tick_expired
  PROVE  Inv'
<1>1. current_thread \in Thread /\ current_thread \notin Members(ready)
      /\ Enqueue(current_thread)
  BY DEF Inv, TypeOK, tick_expired
<1>2. /\ ReadyQueueIntact'
      /\ state' \in [Thread -> States]
      /\ next_ready' \in [Thread -> Thread \cup {NULL}]
      /\ queue' \in Thread \cup {NULL}
      /\ queue_tail' \in Thread \cup {NULL}
      /\ ready' \in Seq(Thread)
      /\ ready' # <<>> /\ ready'[Len(ready')] = current_thread
      /\ Members(ready') = Members(ready) \cup {current_thread}
  BY <1>1, EnqueueStep DEF Inv
<1>3. time_slice' \in [Thread -> 1..SLICE] /\ time_slice'[current_thread] = SLICE
  BY DEF Inv, TypeOK, tick_expired
<1>4. trap_frame' \in [Thread -> Frames] /\ trap_frame'[current_thread] = "saved"
  BY DEF Inv, TypeOK, tick_expired, Frames
<1>5. TypeOK'
  BY <1>2, <1>3, <1>4 DEF Inv, TypeOK, tick_expired, Cpu
<1>6. NeverSpins' /\ AddressSpaceMatches' /\ KernelStackMatches'
  BY <1>2 DEF Inv, tick_expired, NeverSpins, AddressSpaceMatches, KernelStackMatches
<1>7. state' = [state EXCEPT ![current_thread] = READY] /\ state \in [Thread -> States]
  BY DEF tick_expired, Enqueue, Inv, TypeOK
<1>8. \A u \in Members(ready') : state'[u] = READY
  <2>1. \A u \in Members(ready) : u \in Thread
    BY DEF Inv, TypeOK, Members
  <2> QED
    BY <1>1, <1>2, <1>7, <2>1 DEF Inv
<1>9. state'[current_thread'] # TERMINATED
  BY <1>1, <1>7 DEF tick_expired, READY, TERMINATED
<1>10. \A u \in alloc' : trap_frame'[u] = "none" =>
           u = kernel_thread /\ u \notin Members(ready')
  BY <1>2, <1>4 DEF Inv, TypeOK, tick_expired
<1>11. Members(ready') \cup {current_thread', kernel_thread} \subseteq alloc'
  BY <1>2 DEF Inv, tick_expired
<1>12. time_slice'[current_thread'] = SLICE - nested'
  BY <1>3 DEF Inv, tick_expired
<1> QED
  BY <1>2, <1>5, <1>6, <1>8, <1>9, <1>10, <1>11, <1>12 DEF Inv, tick_expired

(* A nested tick only counts: SLICE - nested ticks are left, at least two. *)
LEMMA NestedInv ==
  ASSUME Inv, tick_nested
  PROVE  Inv'
<1>1. /\ nested \in Nat /\ nested < MaxNested
      /\ time_slice[current_thread] = SLICE - nested
      /\ time_slice \in [Thread -> 1..SLICE] /\ current_thread \in Thread
  BY DEF Inv, TypeOK, tick_nested
<1>2. time_slice[current_thread] - 1 \in 1..SLICE
  BY <1>1
<1>3. /\ time_slice' \in [Thread -> 1..SLICE]
      /\ time_slice'[current_thread] = SLICE - nested'
      /\ nested' \in 0..MaxNested
  BY <1>1, <1>2 DEF tick_nested
<1>4. trap_frame' \in [Thread -> Frames] /\ trap_frame'[current_thread] = "lost"
  BY DEF Inv, TypeOK, tick_nested, Frames
<1>5. TypeOK'
  BY <1>3, <1>4 DEF Inv, TypeOK, tick_nested
<1>6. ReadyQueueIntact' /\ NeverSpins' /\ AddressSpaceMatches' /\ KernelStackMatches'
  BY DEF Inv, tick_nested, ReadyQueueIntact, NeverSpins, AddressSpaceMatches,
         KernelStackMatches
<1>7. \A u \in alloc' : trap_frame'[u] = "none" =>
          u = kernel_thread /\ u \notin Members(ready')
  BY <1>4 DEF Inv, TypeOK, tick_nested
<1> QED
  BY <1>3, <1>5, <1>6, <1>7 DEF Inv, tick_nested

(* Dequeue and scheduler_switch, from a set of states st in which every    *)
(* queued thread is READY, lead to a state in which the first thread in    *)
(* line runs.                                                              *)
LEMMA SwitchStep ==
  ASSUME Inv, queue # NULL, Dequeue, NEW st \in [Thread -> States],
         scheduler_switch(queue, st),
         UNCHANGED <<alloc, parent, time_slice, trap_frame, queue_tail>>,
         nested' = 0, nested = 0 \/ cpu = "tick", cpu \in {"run", "tick"},
         \A u \in Members(ready) : st[u] = READY,
         cpu = "run" => current_thread # kernel_thread
  PROVE  Inv'
<1>1. /\ ReadyQueueIntact'
      /\ next_ready' \in [Thread -> Thread \cup {NULL}]
      /\ queue' \in Thread \cup {NULL}
      /\ ready' \in Seq(Thread)
      /\ ready # <<>> /\ queue = ready[1] /\ queue \in Members(ready)
      /\ queue \in Thread
      /\ ready' = Omit(ready, 1)
      /\ Members(ready') = Members(ready) \ {queue}
  BY DequeueStep DEF Inv
<1>2. current_thread' = queue /\ current_thread \in Thread
  BY DEF scheduler_switch, Inv, TypeOK
<1>3. queue \in alloc /\ Members(ready) \subseteq alloc /\ kernel_thread \in alloc
  BY <1>1 DEF Inv
<1>4. state' \in [Thread -> States] /\ \A u \in Thread \ {queue} : state'[u] = st[u]
  BY <1>1 DEF scheduler_switch, States
<1>5. state'[queue] # TERMINATED
  BY <1>1 DEF scheduler_switch, READY, RUNNING, TERMINATED
<1>6. cr3' \in Proc /\ AddressSpaceMatches'
  BY <1>1, <1>2 DEF scheduler_switch, Inv, TypeOK, AddressSpaceMatches
<1>7. tss_esp0' \in Thread \cup {NULL} /\ KernelStackMatches'
  BY <1>1, <1>2 DEF scheduler_switch, Inv, TypeOK, KernelStackMatches
<1>8. cpu' \in {"run", "fault"}
  BY DEF scheduler_switch
<1>9. TypeOK'
  BY <1>1, <1>2, <1>4, <1>6, <1>7, <1>8 DEF Inv, TypeOK, Cpu
<1>10. NeverSpins'
  <2>1. cpu = "tick" => current_thread \in Members(ready)
    <3>1. Len(ready) \in 1..Len(ready)
      BY <1>1 DEF Inv, TypeOK
    <3> QED
      BY <3>1 DEF Inv, Members
  <2>2. kernel_thread \in Members(ready)
    BY <2>1 DEF Inv, NeverSpins
  <2> QED
    BY <1>1, <1>2, <1>8, <2>2 DEF NeverSpins
<1>11. \A u \in Members(ready') : u \in Thread /\ state'[u] = READY
  BY <1>1, <1>4 DEF Inv, TypeOK, Members
<1>12. \A u \in alloc' : trap_frame'[u] = "none" =>
           u = kernel_thread /\ u \notin Members(ready')
  BY <1>1 DEF Inv
<1> QED
  BY <1>1, <1>2, <1>3, <1>5, <1>6, <1>7, <1>8, <1>9, <1>10, <1>11, <1>12 DEF Inv

(* The rest of scheduler_tick. *)
LEMMA SwitchInv ==
  ASSUME Inv, tick_switch
  PROVE  Inv'
<1>1. ready # <<>>
  BY DEF Inv, tick_switch
<1>2. queue # NULL
  BY <1>1 DEF Inv, TypeOK, ReadyQueueIntact, IsList
<1> QED
  BY <1>2, SwitchStep DEF Inv, TypeOK, tick_switch

(* The end of a thread: the queue is not empty, the kernel thread is in it. *)
LEMMA ExitInv ==
  ASSUME Inv, thread_exit
  PROVE  Inv'
<1>1. kernel_thread \in Members(ready)
  BY DEF Inv, thread_exit, NeverSpins
<1>2. queue # NULL
  <2>1. ready # <<>>
    BY <1>1 DEF Members
  <2> QED
    BY <2>1 DEF Inv, TypeOK, ReadyQueueIntact, IsList
<1> DEFINE st == [state EXCEPT ![current_thread] = TERMINATED]
<1>3. st \in [Thread -> States]
  BY DEF Inv, TypeOK, States
<1>4. \A u \in Members(ready) : st[u] = READY
  BY DEF Inv, TypeOK, thread_exit, Members
<1>5. /\ Dequeue /\ scheduler_switch(queue, st)
      /\ UNCHANGED <<alloc, parent, time_slice, trap_frame, queue_tail>>
      /\ cpu = "run" /\ current_thread # kernel_thread
      /\ nested' = nested
  BY <1>2 DEF thread_exit
<1>6. nested = 0 /\ nested' = 0
  BY <1>5 DEF Inv
<1> HIDE DEF st
<1> QED
  BY <1>2, <1>3, <1>4, <1>5, <1>6, SwitchStep

-----------------------------------------------------------------------------
(* The invariant is inductive. *)
LEMMA StepInv == Inv /\ [Next]_vars => Inv'
<1> SUFFICES ASSUME Inv, [Next]_vars PROVE Inv'
  OBVIOUS
<1>1. CASE \E t \in Thread, p \in Proc : thread_create(t, p)
  BY <1>1, CreateInv
<1>2. CASE \E t \in Thread : scheduler_post(t)
  BY <1>2, PostInv
<1>3. CASE \E t \in Thread : LeavesTail(t) /\ thread_destroy(t)
  BY <1>3, DestroyInv
<1>4. CASE tick_counted
  BY <1>4, CountedInv
<1>5. CASE tick_expired
  BY <1>5, ExpiredInv
<1>6. CASE tick_nested
  BY <1>6, NestedInv
<1>7. CASE tick_switch
  BY <1>7, SwitchInv
<1>8. CASE thread_exit
  BY <1>8, ExitInv
<1>9. CASE UNCHANGED vars
  BY <1>9 DEF vars, Inv, TypeOK, ReadyQueueIntact, NeverSpins,
              AddressSpaceMatches, KernelStackMatches
<1> QED
  BY <1>1, <1>2, <1>3, <1>4, <1>5, <1>6, <1>7, <1>8, <1>9 DEF Next

(* Every reachable state satisfies the inductive invariant: scheduler_init *)
(* establishes it and every operation of process.c keeps it.               *)
THEOREM SchedulerInvariant == SafeSpec => []Inv
  BY InitInv, StepInv, PTL DEF SafeSpec

(* What the invariant says about single states. *)
LEMMA InvImplies ==
  ASSUME Inv
  PROVE  /\ TypeOK /\ ReadyQueueIntact /\ NeverSpins
         /\ AddressSpaceMatches /\ KernelStackMatches
         /\ NoFreedThreadReached /\ QueuedHaveFrames /\ NestedTickReturns
<1>1. TypeOK /\ ReadyQueueIntact /\ NeverSpins /\ AddressSpaceMatches /\ KernelStackMatches
  BY DEF Inv
<1>2. NoFreedThreadReached
  <2>1. Queued = Members(ready)
    BY ReachedIsMembers DEF Inv, TypeOK, ReadyQueueIntact, Queued
  <2> QED
    BY <2>1 DEF Inv, NoFreedThreadReached
<1>3. QueuedHaveFrames
  BY DEF Inv, QueuedHaveFrames
<1>4. NestedTickReturns
  <2> SUFFICES ASSUME cpu = "tick" PROVE NestedTickReturns
    BY DEF NestedTickReturns
  <2>1. Len(ready) \in 1..Len(ready)
    BY DEF Inv, TypeOK
  <2>2. current_thread \in Members(ready)
    BY <2>1 DEF Inv, Members
  <2>3. nested < MaxNested => time_slice[current_thread] > 1
    BY DEF Inv, TypeOK
  <2> QED
    BY <2>2, <2>3 DEF NestedTickReturns
<1> QED
  BY <1>1, <1>2, <1>3, <1>4

(* Type correctness (TypeOK): in particular time_slice never reaches zero, *)
(* where the unsigned decrement of scheduler_tick would wrap.              *)
THEOREM TypeCorrect == SafeSpec => []TypeOK
  BY SchedulerInvariant, InvImplies, PTL

(* The linked ready queue is always exactly the posted threads in posting  *)
(* order, with queue_tail its last cell (scheduler_post, scheduler_tick,   *)
(* thread_exit, thread_destroy).                                           *)
THEOREM QueueCorrect == SafeSpec => []ReadyQueueIntact
  BY SchedulerInvariant, InvImplies, PTL

(* thread_exit never finds the queue empty: its endless loop is dead code. *)
THEOREM ExitFindsThread == SafeSpec => []NeverSpins
  BY SchedulerInvariant, InvImplies, PTL

(* Neither current_thread nor the queue ever leads to a freed thread_t. *)
THEOREM NoUseAfterFree == SafeSpec => []NoFreedThreadReached
  BY SchedulerInvariant, InvImplies, PTL

(* cr3 and esp0 belong to the thread that runs, and whoever is queued can  *)
(* be resumed, whatever sequence of switches led there (scheduler_switch). *)
THEOREM SwitchCorrect ==
  SafeSpec => [](AddressSpaceMatches /\ KernelStackMatches /\ QueuedHaveFrames)
  BY SchedulerInvariant, InvImplies, PTL

(* esp0 is the kernel stack of the running thread although the switch to   *)
(* the kernel thread leaves it alone.                                      *)
THEOREM StackCorrect == SafeSpec => []KernelStackMatches
  BY SwitchCorrect, PTL

(* What the queue leads to can be resumed. *)
THEOREM FramesCorrect == SafeSpec => []QueuedHaveFrames
  BY SwitchCorrect, PTL

(* No number of nested ticks below SLICE makes scheduler_tick queue the    *)
(* current thread twice.                                                   *)
THEOREM NoDoublePost == SafeSpec => []NestedTickReturns
  BY SchedulerInvariant, InvImplies, PTL

(* A terminated thread never gets the processor. *)
THEOREM TerminatedStaysOff == SafeSpec => TerminatedNeverRuns
<1>1. ASSUME Inv, [Next]_vars, NEW t \in alloc, state[t] = TERMINATED, vars' # vars
      PROVE  current_thread' # t
  <2>1. state[current_thread] # TERMINATED /\ current_thread # t
    BY <1>1 DEF Inv
  <2>2. queue # NULL => state[queue] = READY
    <3> SUFFICES ASSUME queue # NULL PROVE state[queue] = READY
      OBVIOUS
    <3>1. ready # <<>> /\ queue = ready[1] /\ ready \in Seq(Thread)
      BY <1>1 DEF Inv, ReadyQueueIntact, IsList, TypeOK
    <3>2. queue \in Members(ready)
      BY <3>1 DEF Members
    <3> QED
      BY <1>1, <3>2 DEF Inv
  <2>3. current_thread' \in {current_thread} \/ (queue # NULL /\ current_thread' = queue)
    BY <1>1 DEF Next, vars, thread_create, scheduler_post, thread_destroy, tick_counted,
                tick_expired, tick_nested, tick_switch, thread_exit, scheduler_switch
  <2> QED
    BY <1>1, <2>1, <2>2, <2>3 DEF READY, TERMINATED
<1>2. Inv /\ [Next]_vars => [\A t \in alloc : state[t] = TERMINATED => current_thread' # t]_vars
  BY <1>1 DEF vars
<1> QED
  BY <1>2, SchedulerInvariant, PTL DEF SafeSpec, TerminatedNeverRuns

-----------------------------------------------------------------------------
(* A switch taken with the line s in front of the processor gives it to    *)
(* the head of that line; s is nonempty whenever the queue is.             *)
LEMMA SwitchTakesFirst ==
  ASSUME Inv, queue # NULL, Dequeue, NEW st, scheduler_switch(queue, st)
  PROVE  /\ ready \in Seq(Thread) /\ ready # <<>>
         /\ current_thread' = ready[1]
         /\ ready' = Omit(ready, 1)
         /\ cpu' # "tick"
<1>1. ready \in Seq(Thread) /\ ready # <<>> /\ queue = ready[1]
  BY DEF Inv, TypeOK, ReadyQueueIntact, IsList
<1>2. NoRepeats(ready) /\ 1 \in 1..Len(ready)
  BY <1>1 DEF Inv, ReadyQueueIntact, IsList
<1>3. ready' = Omit(ready, 1)
  BY <1>1, <1>2, WithoutFacts DEF Dequeue
<1> QED
  BY <1>1, <1>3 DEF scheduler_switch

(* The second half of scheduler_tick is Rotate, or nothing when the        *)
(* current thread is alone.                                                *)
LEMMA SwitchRotates ==
  ASSUME Inv, tick_switch
  PROVE  RR!Rotate \/ UNCHANGED RR!rrVars
<1>1. cpu = "tick" /\ ready # <<>> /\ ready[Len(ready)] = current_thread
  BY DEF Inv, tick_switch
<1>2. queue # NULL
  BY <1>1 DEF Inv, TypeOK, ReadyQueueIntact, IsList
<1>3. /\ ready \in Seq(Thread)
      /\ current_thread' = ready[1] /\ ready' = Omit(ready, 1) /\ cpu' # "tick"
  BY <1>2, SwitchTakesFirst DEF tick_switch
<1>4. Len(ready) \in Nat /\ Len(ready) > 0
  BY <1>1, <1>3
<1>5. Waiting = Front(ready) /\ Waiting' = Omit(ready, 1)
  BY <1>1, <1>3 DEF Waiting
<1>6. CASE Len(ready) = 1
  <2>1. Front(ready) = <<>>
    BY <1>3, <1>6 DEF Front
  <2>2. Omit(ready, 1) = Tail(ready) /\ Tail(ready) \in Seq(Thread) /\ Len(Tail(ready)) = 0
    BY <1>1, <1>3, <1>6, SkipFirst
  <2>3. Omit(ready, 1) = <<>>
    BY <2>2
  <2> QED
    BY <1>1, <1>3, <1>5, <1>6, <2>1, <2>3 DEF RR!rrVars
<1>7. CASE Len(ready) > 1
  <2>1. /\ Front(ready) # <<>> /\ Head(Front(ready)) = ready[1]
        /\ Append(Tail(Front(ready)), ready[Len(ready)]) = Omit(ready, 1)
    BY <1>3, <1>7, RotateLine
  <2> QED
    BY <1>1, <1>3, <1>5, <2>1 DEF RR!Rotate
<1>8. \A m \in Nat : m > 0 => m = 1 \/ m > 1
  OBVIOUS
<1>9. Len(ready) = 1 \/ Len(ready) > 1
  BY <1>4, <1>8
<1> QED
  BY <1>6, <1>7, <1>9

(* Every step is a step of the abstract scheduler or none. *)
LEMMA StepImplements == Inv /\ [Next]_vars => [RR!RRNext]_(RR!rrVars)
<1> SUFFICES ASSUME Inv, [Next]_vars PROVE [RR!RRNext]_(RR!rrVars)
  OBVIOUS
<1> USE DEF RR!rrVars
<1>1. CASE \E t \in Thread, p \in Proc : thread_create(t, p)
  BY <1>1 DEF thread_create, Waiting
<1>2. CASE \E t \in Thread : scheduler_post(t)
  BY <1>2 DEF scheduler_post, Enqueue, Waiting, RR!RRNext, RR!Post, RR!Members, Members
<1>3. CASE \E t \in Thread : LeavesTail(t) /\ thread_destroy(t)
  <2>1. PICK t \in Thread : thread_destroy(t)
    BY <1>3
  <2>2. /\ Waiting = ready /\ Waiting' = Without(ready, t)
        /\ UNCHANGED current_thread
    BY <2>1 DEF thread_destroy, Waiting
  <2>3. CASE t \in Members(ready)
    <3>1. RR!Drop(t)
      BY <2>2, <2>3 DEF RR!Drop, RR!Members, RR!Without, RR!Omit, Members, Without, Omit
    <3> QED
      BY <3>1 DEF RR!RRNext
  <2>4. CASE t \notin Members(ready)
    BY <2>2, <2>4 DEF Without
  <2> QED
    BY <2>3, <2>4
<1>4. CASE tick_counted
  BY <1>4 DEF tick_counted, Waiting
<1>5. CASE tick_expired
  <2>1. ready \in Seq(Thread) /\ current_thread \in Thread
    BY DEF Inv, TypeOK
  <2>2. Waiting = ready /\ Waiting' = Front(Append(ready, current_thread))
    BY <1>5 DEF tick_expired, Enqueue, Waiting
  <2> QED
    BY <1>5, <2>1, <2>2, FrontOfAppend DEF tick_expired
<1>6. CASE tick_nested
  BY <1>6 DEF tick_nested, Waiting
<1>7. CASE tick_switch
  BY <1>7, SwitchRotates DEF RR!RRNext
<1>8. CASE thread_exit
  <2>1. kernel_thread \in Members(ready)
    BY <1>8 DEF Inv, thread_exit, NeverSpins
  <2>2. queue # NULL
    <3>1. ready # <<>>
      BY <2>1 DEF Members
    <3> QED
      BY <3>1 DEF Inv, TypeOK, ReadyQueueIntact, IsList
  <2>3. /\ ready \in Seq(Thread) /\ ready # <<>>
        /\ current_thread' = ready[1] /\ ready' = Omit(ready, 1) /\ cpu' # "tick"
    BY <1>8, <2>2, SwitchTakesFirst DEF thread_exit
  <2>4. ready' = Tail(ready) /\ Head(ready) = ready[1]
    BY <2>3, SkipFirst
  <2>5. Waiting = ready /\ Waiting' = Tail(ready)
    BY <1>8, <2>3, <2>4 DEF thread_exit, Waiting
  <2> QED
    BY <2>3, <2>4, <2>5 DEF RR!RRNext, RR!Leave
<1>9. CASE UNCHANGED vars
  BY <1>9 DEF vars, Waiting
<1> QED
  BY <1>1, <1>2, <1>3, <1>4, <1>5, <1>6, <1>7, <1>8, <1>9 DEF Next

(* The pointer-level scheduler of process.c, with its time slices and      *)
(* nested ticks, implements the abstract round-robin scheduler: nobody is  *)
(* skipped, nobody overtakes, nobody is in line twice.                     *)
THEOREM RefinesRoundRobin == SafeSpec => RR!RRSafety
<1>1. scheduler_init => RR!RRInit
  BY DEF scheduler_init, RR!RRInit, Waiting
<1> QED
  BY <1>1, StepImplements, SchedulerInvariant, PTL DEF SafeSpec, RR!RRSafety

-----------------------------------------------------------------------------
(* Processes. *)
USE ProcessAssumption

(* Only the kernel thread calls the operations.  The tests, which kmain    *)
(* starts, are the only C code that calls process_create and               *)
(* process_destroy besides process.c; process_spawn has no caller.         *)
KernelCalls == Caller \subseteq {kernel_thread}

(* The step the kernel thread, the only caller, is at, and its process. *)
Step == at[kernel_thread]
Subject == arg[kernel_thread]

ProcessTypeOK ==
  /\ alloc \subseteq Thread /\ ready \in Seq(Thread)
  /\ parent \in [Thread -> Proc] /\ state \in [Thread -> States]
  /\ next_ready \in [Thread -> Thread \cup {NULL}]
  /\ queue \in Thread \cup {NULL} /\ current_thread \in Thread
  /\ queue_tail \in Thread \cup {NULL}
  /\ palloc \subseteq Proc /\ pstate \in [Proc -> States]
  /\ threads \in [Proc -> Thread \cup {NULL}]
  /\ next \in [Thread -> Thread \cup {NULL}]
  /\ at \in [Thread -> Steps] /\ arg \in [Thread -> Proc \cup {NULL}]
  /\ ptr \in [Thread -> Thread \cup {NULL}]

(* What is left of the ready queue's order when the last thread of a       *)
(* longer queue may be destroyed and threads get lost behind it: a simple  *)
(* path of threads that have been posted.                                  *)
QueueInv ==
  /\ NoRepeats(ready)
  /\ Members(ready) \cup {current_thread, kernel_thread} \subseteq alloc
  /\ Queued \subseteq Members(ready)
  /\ IsPath(Thread, queue, next_ready, NULL)
  /\ queue # NULL => queue_tail # NULL
  /\ cpu = "tick" => queue # NULL /\ state[current_thread] # RUNNING
  /\ cpu = "run" => current_thread \notin Members(ready)
  /\ \A t \in alloc : state[t] = RUNNING => t = current_thread

(* Every thread list is a simple path of just the process's threads, and   *)
(* every thread belongs to a process that is allocated.                    *)
ListInv ==
  /\ \A t \in alloc : parent[t] \in palloc
  /\ \A p \in Proc : /\ Reached(Thread, threads[p], next, NULL)
                          = {t \in alloc : parent[t] = p}
                     /\ IsPath(Thread, threads[p], next, NULL)

(* The operation of the kernel thread, the only one under way, and the     *)
(* process it works on.  process_destroy has at every moment the first     *)
(* thread that is left in its hand.                                        *)
CallInv ==
  /\ kernel_process \in palloc /\ parent[kernel_thread] = kernel_process
  /\ \A t \in Thread \ {kernel_thread} : at[t] = "none"
  /\ Step # "none" => Subject \in palloc \ {kernel_process}
  /\ Step \in {"load_pid", "store_pid", "scan", "store"} =>
       \A t \in alloc : parent[t] # Subject
  /\ Step = "destroy" => ptr[kernel_thread] = threads[Subject]

LifeInv == ProcessTypeOK /\ QueueInv /\ ListInv /\ CallInv

(* process_create of the kernel thread is under way. *)
Enters == Step \in {"load_pid", "store_pid", "scan", "store"}

(* The processes the table is to list, and the first pid none of them has. *)
Listed == {p \in palloc \ {kernel_process} :
             pstate[p] # TERMINATED /\ ~ (Enters /\ p = Subject)}
Limit == IF Step \in {"scan", "store"} THEN current_pid - 1 ELSE current_pid

(* The table tb holds members of L, each in one slot, with distinct pids   *)
(* below m.                                                                *)
TableOf(tb, pd, L, m) ==
  /\ tb \in [1..SLOTS -> Proc \cup {NULL}]
  /\ \A i \in 1..SLOTS : tb[i] # NULL => tb[i] \in L /\ pd[tb[i]] \in 2..(m - 1)
  /\ \A i, j \in 1..SLOTS :
       tb[i] # NULL /\ tb[j] # NULL /\ i # j => tb[i] # tb[j] /\ pd[tb[i]] # pd[tb[j]]

(* There are slots for all processes that are ever created. *)
Room == MaxPid <= SLOTS + 1

TableInv ==
  /\ TableOf(process_table, Pid, Listed, Limit)
  /\ Pid \in [Proc -> Nat] /\ current_pid \in Nat /\ current_pid >= 2
  /\ val \in [Thread -> Nat]
  /\ Enters => pstate[Subject] # TERMINATED /\ Pid[Subject] = Limit /\ Limit <= MaxPid
  /\ Step = "store_pid" => val[kernel_thread] = current_pid
  /\ Step \in {"scan", "store"} => Limit >= 2
  /\ Step = "store" =>
       /\ \A i \in 1..SLOTS : i = val[kernel_thread] => process_table[i] = NULL
       /\ Room => val[kernel_thread] \in 1..SLOTS
  /\ Step = "destroy" => pstate[Subject] = TERMINATED
  /\ Room => \A p \in Listed : \E i \in 1..SLOTS : process_table[i] = p

-----------------------------------------------------------------------------
(* What scheduler_post does to the queue, also when the cached tail is a   *)
(* thread that has been destroyed.                                         *)
LEMMA EnqueueKeeps ==
  ASSUME ProcessTypeOK, QueueInv, NEW t \in Thread, t \notin Members(ready), Enqueue(t)
  PROVE  /\ ready' \in Seq(Thread) /\ next_ready' \in [Thread -> Thread \cup {NULL}]
         /\ queue' \in Thread /\ queue_tail' \in Thread
         /\ NoRepeats(ready') /\ Members(ready') = Members(ready) \cup {t}
         /\ Queued' \subseteq Members(ready')
         /\ IsPath(Thread, queue, next_ready, NULL)'
<1>1. /\ ready' \in Seq(Thread) /\ NoRepeats(ready') /\ Members(ready') = Members(ready) \cup {t}
  BY AppendFacts DEF ProcessTypeOK, QueueInv, Enqueue
<1>2. t \notin Reached(Thread, queue, next_ready, NULL)
  BY DEF QueueInv, Queued
<1>5. /\ NULL \notin Thread /\ queue \in Thread \cup {NULL}
      /\ next_ready \in [Thread -> Thread \cup {NULL}]
      /\ IsPath(Thread, queue, next_ready, NULL)
  BY DEF ProcessTypeOK, QueueInv
<1>3. CASE queue = NULL
  <2>1. next_ready' = [next_ready EXCEPT ![t] = queue] /\ queue' = t /\ queue_tail' = t
    BY <1>3 DEF Enqueue
  <2>2. /\ Reached(Thread, t, next_ready', NULL) = Queued \cup {t}
        /\ IsPath(Thread, t, next_ready', NULL)
    <3>1. /\ Reached(Thread, t, [next_ready EXCEPT ![t] = queue], NULL)
               = Reached(Thread, queue, next_ready, NULL) \cup {t}
          /\ IsPath(Thread, t, [next_ready EXCEPT ![t] = queue], NULL)
      BY <1>2, <1>5, PathPush
    <3> QED
      BY <2>1, <3>1 DEF Queued
  <2> QED
    BY <1>1, <2>1, <2>2 DEF ProcessTypeOK, QueueInv, Queued
<1>4. CASE queue # NULL
  <2>1. /\ next_ready' = [next_ready EXCEPT ![t] = NULL, ![queue_tail] = t]
        /\ queue' = queue /\ queue_tail' = t
    BY <1>4 DEF Enqueue
  <2>2. queue \in Thread /\ queue_tail \in Thread
    BY <1>4 DEF ProcessTypeOK, QueueInv
  <2>3. /\ Reached(Thread, queue, next_ready', NULL) \subseteq Queued \cup {t}
        /\ IsPath(Thread, queue, next_ready', NULL)
    BY <1>2, <2>1, <2>2, PathLinkBehind DEF ProcessTypeOK, QueueInv, Queued
  <2> QED
    BY <1>1, <2>1, <2>2, <2>3 DEF ProcessTypeOK, QueueInv, Queued
<1> QED
  BY <1>3, <1>4

(* The line of posted threads without one of them. *)
LEMMA LineWithout ==
  ASSUME NEW s \in Seq(Thread), NoRepeats(s), NEW t
  PROVE  /\ Without(s, t) \in Seq(Thread) /\ NoRepeats(Without(s, t))
         /\ Members(Without(s, t)) = Members(s) \ {t}
<1>1. CASE t \in Members(s)
  <2>1. PICK i \in 1..Len(s) : s[i] = t
    BY <1>1 DEF Members
  <2> QED
    BY <2>1, WithoutFacts
<1>2. CASE t \notin Members(s)
  BY <1>2 DEF Without
<1> QED
  BY <1>1, <1>2

(* What taking the first thread off the queue does. *)
LEMMA DequeueKeeps ==
  ASSUME ProcessTypeOK, QueueInv, queue # NULL, Dequeue
  PROVE  /\ queue \in Members(ready) /\ queue \in Thread
         /\ ready' \in Seq(Thread) /\ next_ready' \in [Thread -> Thread \cup {NULL}]
         /\ queue' \in Thread \cup {NULL}
         /\ NoRepeats(ready') /\ Members(ready') = Members(ready) \ {queue}
         /\ Queued' \subseteq Members(ready')
         /\ IsPath(Thread, queue, next_ready, NULL)'
<1>1. queue \in Thread
  BY DEF ProcessTypeOK
<1>2. queue \in Queued
  BY <1>1, ReachedIsLeast DEF ProcessTypeOK, Queued, Closed
<1>3. ready' \in Seq(Thread) /\ NoRepeats(ready') /\ Members(ready') = Members(ready) \ {queue}
  BY LineWithout DEF ProcessTypeOK, QueueInv, Dequeue
<1>4. /\ Reached(Thread, next_ready[queue], next_ready, NULL) = Queued \ {queue}
      /\ IsPath(Thread, next_ready[queue], next_ready, NULL)
  BY <1>1, PathTail DEF ProcessTypeOK, QueueInv, Queued
<1>5. /\ next_ready' = [next_ready EXCEPT ![queue] = NULL] /\ queue' = next_ready[queue]
      /\ next_ready' \in [Thread -> Thread \cup {NULL}] /\ queue' \in Thread \cup {NULL}
  BY <1>1 DEF Dequeue, ProcessTypeOK
<1>6. \A u \in Reached(Thread, next_ready[queue], next_ready, NULL) : next_ready'[u] = next_ready[u]
  BY <1>4, <1>5 DEF ProcessTypeOK, Queued, Reached
<1>7. /\ Reached(Thread, queue', next_ready', NULL) = Queued \ {queue}
      /\ IsPath(Thread, queue', next_ready', NULL)
  <2>1. next_ready \in [Thread -> Thread \cup {NULL}] /\ NULL \notin Thread
    BY DEF ProcessTypeOK
  <2>2. next_ready[queue] \in Thread \cup {NULL}
    BY <1>1, <2>1
  <2> DEFINE h == next_ready[queue]
             ny == next_ready'
  <2>3. /\ h \in Thread \cup {NULL} /\ ny \in [Thread -> Thread \cup {NULL}]
        /\ IsPath(Thread, h, next_ready, NULL)
        /\ \A u \in Reached(Thread, h, next_ready, NULL) : ny[u] = next_ready[u]
    BY <1>4, <1>5, <1>6, <2>2
  <2>4. /\ Reached(Thread, h, ny, NULL) = Reached(Thread, h, next_ready, NULL)
        /\ IsPath(Thread, h, ny, NULL)
    <3> HIDE DEF h, ny
    <3> QED
      BY <2>1, <2>3, PathFrame
  <2> QED
    BY <1>4, <1>5, <2>4
<1> QED
  BY <1>1, <1>2, <1>3, <1>5, <1>7 DEF QueueInv, Queued

(* What thread_destroy does to it. *)
LEMMA UnlinkKeeps ==
  ASSUME ProcessTypeOK, QueueInv, NEW t \in Thread, thread_destroy(t)
  PROVE  /\ ready' \in Seq(Thread) /\ next_ready' \in [Thread -> Thread \cup {NULL}]
         /\ queue' \in Thread \cup {NULL} /\ (queue' # NULL => queue # NULL)
         /\ NoRepeats(ready') /\ Members(ready') = Members(ready) \ {t}
         /\ Queued' \subseteq Members(ready')
         /\ IsPath(Thread, queue, next_ready, NULL)'
<1>1. ready' \in Seq(Thread) /\ NoRepeats(ready') /\ Members(ready') = Members(ready) \ {t}
  BY LineWithout DEF ProcessTypeOK, QueueInv, thread_destroy
<1>2. /\ queue' = IF queue = t THEN next_ready[t] ELSE queue
      /\ next_ready' = [u \in Thread |->
                          IF /\ queue # t /\ u \in Reached(Thread, queue, next_ready, NULL)
                             /\ next_ready[u] = t
                          THEN next_ready[t] ELSE next_ready[u]]
  BY DEF thread_destroy, Queued
<1>3. /\ Reached(Thread, queue', next_ready', NULL) \subseteq Queued \ {t}
      /\ IsPath(Thread, queue', next_ready', NULL)
  <2>1. /\ NULL \notin Thread /\ queue \in Thread \cup {NULL}
        /\ next_ready \in [Thread -> Thread \cup {NULL}]
        /\ IsPath(Thread, queue, next_ready, NULL)
    BY DEF ProcessTypeOK, QueueInv
  <2> QED
    BY <1>2, <2>1, PathUnlink DEF Queued
<1>4. /\ next_ready' \in [Thread -> Thread \cup {NULL}]
      /\ queue' \in Thread \cup {NULL} /\ (queue' # NULL => queue # NULL)
  BY <1>2 DEF ProcessTypeOK
<1> QED
  BY <1>1, <1>3, <1>4 DEF QueueInv, Queued

-----------------------------------------------------------------------------
LEMMA LifeInit == ProcessesInit => LifeInv
<1> SUFFICES ASSUME ProcessesInit PROVE LifeInv
  OBVIOUS
<1>1. ProcessTypeOK
  BY DEF ProcessesInit, scheduler_init, ProcessTypeOK, States, READY, RUNNING, TERMINATED, Steps
<1>2. QueueInv
  <2>1. ready = <<>> /\ queue = NULL /\ cpu = "run" /\ current_thread = kernel_thread
    BY DEF ProcessesInit, scheduler_init
  <2>2. NoRepeats(ready) /\ Members(ready) = {}
    BY <2>1 DEF NoRepeats, Members
  <2>3. Queued = {} /\ IsPath(Thread, queue, next_ready, NULL)
    BY <1>1, <2>1, ReachedFromNull DEF ProcessTypeOK, Queued
  <2>4. alloc = {kernel_thread}
    BY DEF ProcessesInit, scheduler_init
  <2> QED
    BY <2>1, <2>2, <2>3, <2>4 DEF QueueInv
<1>3. ListInv
  <2>1. /\ alloc = {kernel_thread} /\ palloc = {kernel_process}
        /\ parent = [t \in Thread |-> kernel_process]
        /\ next = [t \in Thread |-> NULL]
        /\ threads = [p \in Proc |-> IF p = kernel_process THEN kernel_thread ELSE NULL]
    BY DEF ProcessesInit, scheduler_init
  <2>2. ASSUME NEW p \in Proc, p # kernel_process
        PROVE  /\ Reached(Thread, threads[p], next, NULL) = {t \in alloc : parent[t] = p}
               /\ IsPath(Thread, threads[p], next, NULL)
    <3>1. threads[p] = NULL
      BY <2>1, <2>2
    <3>2. Reached(Thread, NULL, next, NULL) = {} /\ IsPath(Thread, NULL, next, NULL)
      BY <1>1, ReachedFromNull DEF ProcessTypeOK
    <3> QED
      BY <2>1, <2>2, <3>1, <3>2
  <2>3. /\ Reached(Thread, kernel_thread, next, NULL) = {kernel_thread}
        /\ IsPath(Thread, kernel_thread, next, NULL)
    <3>1. Closed({kernel_thread}, kernel_thread, next, NULL)
      BY <2>1 DEF Closed
    <3>2. Reached(Thread, kernel_thread, next, NULL) = {kernel_thread}
      <4>1. next \in [Thread -> Thread \cup {NULL}]
        BY <1>1 DEF ProcessTypeOK
      <4>2. /\ Closed(Reached(Thread, kernel_thread, next, NULL), kernel_thread, next, NULL)
            /\ Reached(Thread, kernel_thread, next, NULL) \subseteq {kernel_thread}
        BY <3>1, <4>1, ReachedIsLeast
      <4> QED
        BY <4>2 DEF Closed
    <3> QED
      BY <2>1, <3>2 DEF IsPath
  <2>4. threads[kernel_process] = kernel_thread
    BY <2>1
  <2> QED
    BY <2>1, <2>2, <2>3, <2>4 DEF ListInv
<1>4. CallInv
  BY DEF ProcessesInit, scheduler_init, CallInv, Step
<1> QED
  BY <1>1, <1>2, <1>3, <1>4 DEF LifeInv

(* Steps that leave lists and operations alone need only keep the queue. *)
LEMMA OthersKept ==
  ASSUME LifeInv, ProcessTypeOK', QueueInv',
         UNCHANGED <<alloc, parent, procVars, opVars>>
  PROVE  LifeInv'
<1>1. ListInv'
  BY DEF LifeInv, ListInv, procVars
<1>2. CallInv'
  BY DEF LifeInv, CallInv, Step, Subject, procVars, opVars
<1> QED
  BY <1>1, <1>2 DEF LifeInv

(* The ticks, and thread_exit. *)
LEMMA SchedulerKeeps ==
  ASSUME LifeInv, SchedulerStep
  PROVE  LifeInv'
<1> USE DEF READY, RUNNING, TERMINATED, States
<1>0. ProcessTypeOK /\ QueueInv /\ UNCHANGED <<procVars, opVars>>
  BY DEF LifeInv, SchedulerStep
<1>1. CASE tick_counted \/ tick_nested
  <2>1. ProcessTypeOK'
    BY <1>0, <1>1 DEF tick_counted, tick_nested, ProcessTypeOK, procVars, opVars
  <2>2. QueueInv'
    BY <1>0, <1>1 DEF tick_counted, tick_nested, QueueInv, Queued
  <2> QED
    BY <1>0, <1>1, <2>1, <2>2, OthersKept DEF tick_counted, tick_nested
<1>2. CASE tick_expired
  <2>1. current_thread \in Thread /\ current_thread \notin Members(ready) /\ Enqueue(current_thread)
    BY <1>0, <1>2 DEF ProcessTypeOK, QueueInv, tick_expired
  <2>2. /\ ready' \in Seq(Thread) /\ next_ready' \in [Thread -> Thread \cup {NULL}]
        /\ queue' \in Thread /\ queue_tail' \in Thread
        /\ NoRepeats(ready') /\ Members(ready') = Members(ready) \cup {current_thread}
        /\ Queued' \subseteq Members(ready')
        /\ IsPath(Thread, queue, next_ready, NULL)'
    BY <1>0, <2>1, EnqueueKeeps
  <2>3. /\ state' = [state EXCEPT ![current_thread] = READY] /\ cpu' = "tick"
        /\ UNCHANGED <<alloc, parent, current_thread>>
    BY <1>2 DEF tick_expired, Enqueue
  <2>4. ProcessTypeOK'
    BY <1>0, <2>2, <2>3 DEF ProcessTypeOK, procVars, opVars
  <2>5. QueueInv'
    BY <1>0, <2>2, <2>3 DEF ProcessTypeOK, QueueInv
  <2> QED
    BY <1>0, <2>3, <2>4, <2>5, OthersKept
<1>3. ASSUME NEW st \in [Thread -> States], queue # NULL, Dequeue, scheduler_switch(queue, st),
             st[current_thread] # RUNNING,
             \A t \in alloc : st[t] = RUNNING => t = current_thread,
             UNCHANGED <<alloc, parent, queue_tail>>
      PROVE  LifeInv'
  <2>1. /\ queue \in Members(ready) /\ queue \in Thread
        /\ ready' \in Seq(Thread) /\ next_ready' \in [Thread -> Thread \cup {NULL}]
        /\ queue' \in Thread \cup {NULL}
        /\ NoRepeats(ready') /\ Members(ready') = Members(ready) \ {queue}
        /\ Queued' \subseteq Members(ready')
        /\ IsPath(Thread, queue, next_ready, NULL)'
    BY <1>0, <1>3, DequeueKeeps
  <2>2. /\ current_thread' = queue
        /\ cpu' # "tick"
        /\ state' \in [Thread -> States]
        /\ \A t \in alloc : state'[t] = RUNNING => t = queue
    <3>1. CASE queue = current_thread
      BY <1>3, <2>1, <3>1 DEF scheduler_switch
    <3>2. CASE queue # current_thread
      <4>1. /\ current_thread' = queue /\ state' = [st EXCEPT ![queue] = RUNNING]
            /\ cpu' # "tick"
        BY <1>3, <3>2 DEF scheduler_switch
      <4>2. state' \in [Thread -> States]
        BY <1>3, <2>1, <4>1
      <4>3. ASSUME NEW t \in alloc, state'[t] = RUNNING, t # queue PROVE FALSE
        <5>1. st[t] = RUNNING
          BY <1>0, <1>3, <2>1, <4>1, <4>3 DEF ProcessTypeOK
        <5> QED
          BY <1>3, <5>1
      <4> QED
        BY <4>1, <4>2, <4>3
    <3> QED
      BY <3>1, <3>2
  <2>3. ProcessTypeOK'
    BY <1>0, <1>3, <2>1, <2>2 DEF ProcessTypeOK, procVars, opVars
  <2>4. QueueInv'
    BY <1>0, <1>3, <2>1, <2>2 DEF QueueInv
  <2> QED
    BY <1>0, <1>3, <2>3, <2>4, OthersKept
<1>4. CASE tick_switch
  <2>1. queue # NULL /\ state[current_thread] # RUNNING
    BY <1>0, <1>4 DEF QueueInv, tick_switch
  <2>2. Dequeue /\ scheduler_switch(queue, state) /\ UNCHANGED <<alloc, parent, queue_tail>>
    BY <1>4, <2>1 DEF tick_switch
  <2> QED
    BY <1>0, <1>3, <2>1, <2>2 DEF QueueInv, ProcessTypeOK
<1>5. CASE thread_exit
  <2> DEFINE st == [state EXCEPT ![current_thread] = TERMINATED]
  <2>1. /\ st \in [Thread -> States] /\ st[current_thread] # RUNNING
        /\ \A t \in alloc : st[t] = RUNNING => t = current_thread
    BY <1>0 DEF QueueInv, ProcessTypeOK
  <2>2. CASE queue = NULL
    <3>1. /\ state' = st /\ cpu' = "spin"
          /\ UNCHANGED <<queue, next_ready, ready, current_thread, alloc, parent, queue_tail>>
      BY <1>5, <2>2 DEF thread_exit
    <3>2. ProcessTypeOK'
      BY <1>0, <2>1, <3>1 DEF ProcessTypeOK, procVars, opVars
    <3>3. QueueInv'
      BY <1>0, <2>1, <3>1 DEF QueueInv, Queued
    <3> QED
      BY <1>0, <3>1, <3>2, <3>3, OthersKept
  <2>3. CASE queue # NULL
    <3>1. Dequeue /\ scheduler_switch(queue, st) /\ UNCHANGED <<alloc, parent, queue_tail>>
      BY <1>5, <2>3 DEF thread_exit
    <3> HIDE DEF st
    <3> QED
      BY <1>3, <2>1, <2>3, <3>1
  <2> QED
    BY <2>2, <2>3
<1> QED
  BY <1>1, <1>2, <1>4, <1>5 DEF SchedulerStep

-----------------------------------------------------------------------------
(* Who is inside an operation is the kernel thread, and it runs. *)
LEMMA CallerRuns ==
  ASSUME KernelCalls, NEW x, At(x)
  PROVE  me = kernel_thread /\ current_thread = kernel_thread /\ cpu = "run" /\ Step = x
  BY DEF KernelCalls, At, me, Step

(* Steps of an operation that touch neither threads nor lists. *)
LEMMA ListsKept ==
  ASSUME LifeInv, ProcessTypeOK', CallInv', palloc \subseteq palloc',
         UNCHANGED <<vars, threads, next>>
  PROVE  LifeInv'
<1>1. QueueInv'
  BY DEF LifeInv, QueueInv, Queued, vars
<1>2. ListInv'
  BY DEF LifeInv, ListInv, vars
<1> QED
  BY <1>1, <1>2 DEF LifeInv

(* process_create up to the search for a slot, the stores into the table,  *)
(* elf_load, and the beginnings of the other operations.                   *)
LEMMA QuietKeeps ==
  ASSUME LifeInv, KernelCalls,
         \/ \E p \in Proc : process_create(p) \/ more_threads(p) \/ process_destroy(p)
         \/ load_pid \/ store_pid \/ store_slot \/ elf_load \/ elf_load_fails
  PROVE  LifeInv'
<1> USE DEF READY, RUNNING, TERMINATED, States, Steps
<1>0. ProcessTypeOK /\ CallInv /\ ListInv
  BY DEF LifeInv
<1>1. ASSUME NEW p \in Proc, process_create(p) PROVE LifeInv'
  <2>1. me = kernel_thread /\ Step = "none"
    BY <1>1, CallerRuns DEF process_create
  <2>2. /\ p \notin palloc /\ palloc' = palloc \cup {p}
        /\ pstate' = [pstate EXCEPT ![p] = READY]
        /\ at' = [at EXCEPT ![kernel_thread] = "load_pid"]
        /\ arg' = [arg EXCEPT ![kernel_thread] = p]
        /\ UNCHANGED <<vars, threads, next, ptr>>
    BY <1>1, <2>1 DEF process_create, Goto
  <2>3. ProcessTypeOK'
    BY <1>0, <2>2 DEF ProcessTypeOK, vars
  <2>4. CallInv'
    BY <1>0, <2>2 DEF CallInv, Step, Subject, ProcessTypeOK, ListInv, vars
  <2> QED
    BY <2>2, <2>3, <2>4, ListsKept
<1>2. ASSUME NEW p \in Proc, more_threads(p) PROVE LifeInv'
  <2>1. me = kernel_thread /\ Step = "none"
    BY <1>2, CallerRuns DEF more_threads
  <2>2. /\ p \in palloc \ {kernel_process}
        /\ at' = [at EXCEPT ![kernel_thread] = "thread"]
        /\ arg' = [arg EXCEPT ![kernel_thread] = p]
        /\ UNCHANGED <<vars, procVars, ptr>>
    BY <1>2, <2>1 DEF more_threads, Goto
  <2>3. ProcessTypeOK'
    BY <1>0, <2>2 DEF ProcessTypeOK, vars, procVars
  <2>4. CallInv'
    BY <1>0, <2>2 DEF CallInv, Step, Subject, ProcessTypeOK, vars, procVars
  <2> QED
    BY <2>2, <2>3, <2>4, ListsKept DEF procVars
<1>3. ASSUME NEW p \in palloc \ {kernel_process}, me = kernel_thread, Destroy(p) PROVE LifeInv'
  <2>2. /\ pstate' = [pstate EXCEPT ![p] = TERMINATED]
        /\ at' = [at EXCEPT ![kernel_thread] = "destroy"]
        /\ arg' = [arg EXCEPT ![kernel_thread] = p]
        /\ ptr' = [ptr EXCEPT ![kernel_thread] = threads[p]]
        /\ UNCHANGED <<vars, palloc, threads, next>>
    BY <1>3 DEF Destroy, Goto
  <2>3. p \in Proc /\ threads[p] \in Thread \cup {NULL}
    BY <1>0 DEF ProcessTypeOK
  <2>4. ProcessTypeOK'
    BY <1>0, <2>2, <2>3 DEF ProcessTypeOK, vars
  <2>5. CallInv'
    BY <1>0, <2>2, <2>3 DEF CallInv, Step, Subject, ProcessTypeOK, vars
  <2> QED
    BY <2>2, <2>4, <2>5, ListsKept
<1>4. ASSUME NEW p \in Proc, process_destroy(p) PROVE LifeInv'
  BY <1>3, <1>4, CallerRuns DEF process_destroy
<1>5. CASE elf_load_fails
  <2>1. me = kernel_thread /\ Step = "load" /\ Destroy(arg[me])
    BY <1>5, CallerRuns DEF elf_load_fails
  <2>2. arg[me] \in palloc \ {kernel_process}
    BY <1>0, <2>1 DEF CallInv, Subject
  <2> QED
    BY <1>3, <2>1, <2>2
<1>6. CASE load_pid \/ store_pid \/ store_slot \/ elf_load
  <2>1. /\ me = kernel_thread
        /\ \/ Step = "load_pid" /\ at' = [at EXCEPT ![kernel_thread] = "store_pid"]
           \/ Step = "store_pid" /\ at' = [at EXCEPT ![kernel_thread] = "scan"]
           \/ Step = "store" /\ at' = [at EXCEPT ![kernel_thread] = "load"]
           \/ Step = "store" /\ at' = [at EXCEPT ![kernel_thread] = "none"]
           \/ Step = "load" /\ at' = [at EXCEPT ![kernel_thread] = "thread"]
        /\ UNCHANGED <<vars, palloc, pstate, threads, next, arg, ptr>>
    <3>1. CASE load_pid
      BY <3>1, CallerRuns DEF load_pid, Goto, procVars
    <3>2. CASE store_pid
      BY <3>2, CallerRuns DEF store_pid, Goto
    <3>3. CASE store_slot
      BY <3>3, CallerRuns DEF store_slot, Goto
    <3>4. CASE elf_load
      BY <3>4, CallerRuns DEF elf_load, Goto, procVars
    <3> QED
      BY <1>6, <3>1, <3>2, <3>3, <3>4
  <2>2. ProcessTypeOK'
    BY <1>0, <2>1 DEF ProcessTypeOK, vars
  <2>3. CallInv'
    BY <1>0, <2>1 DEF CallInv, Step, Subject, ProcessTypeOK, vars
  <2> QED
    BY <2>1, <2>2, <2>3, ListsKept
<1> QED
  BY <1>1, <1>2, <1>4, <1>5, <1>6

(* The process being created has no threads, and its list is emptied. *)
LEMMA ScanKeeps ==
  ASSUME LifeInv, KernelCalls, scan_table
  PROVE  LifeInv'
<1>0. ProcessTypeOK /\ CallInv /\ ListInv /\ QueueInv
  BY DEF LifeInv
<1>1. me = kernel_thread /\ Step = "scan"
  BY CallerRuns DEF scan_table
<1>2. /\ threads' = [threads EXCEPT ![Subject] = NULL]
      /\ at' = [at EXCEPT ![kernel_thread] = "store"]
      /\ UNCHANGED <<vars, palloc, pstate, next, arg, ptr>>
  BY <1>1 DEF scan_table, Goto, Subject
<1>3. Subject \in palloc \ {kernel_process} /\ Subject \in Proc /\ \A t \in alloc : parent[t] # Subject
  BY <1>0, <1>1 DEF CallInv, ProcessTypeOK
<1>4. ProcessTypeOK'
  BY <1>0, <1>2 DEF ProcessTypeOK, vars, Steps
<1>5. QueueInv'
  BY <1>0, <1>2 DEF QueueInv, Queued, vars
<1>6. ListInv'
  <2>1. ASSUME NEW p \in Proc
        PROVE  /\ Reached(Thread, threads'[p], next, NULL) = {t \in alloc : parent[t] = p}
               /\ IsPath(Thread, threads'[p], next, NULL)
    <3>1. CASE p = Subject
      <4>1. threads'[p] = NULL
        BY <1>0, <1>2, <1>3, <3>1 DEF ProcessTypeOK
      <4>2. Reached(Thread, NULL, next, NULL) = {} /\ IsPath(Thread, NULL, next, NULL)
        BY <1>0, ReachedFromNull DEF ProcessTypeOK
      <4> QED
        BY <1>3, <3>1, <4>1, <4>2
    <3>2. CASE p # Subject
      <4>1. threads'[p] = threads[p]
        BY <1>0, <1>2, <3>2 DEF ProcessTypeOK
      <4> QED
        BY <1>0, <4>1 DEF ListInv
    <3> QED
      BY <3>1, <3>2
  <2> QED
    BY <1>0, <1>2, <2>1 DEF ListInv, vars
<1>7. CallInv'
  BY <1>0, <1>1, <1>2 DEF CallInv, Step, Subject, ProcessTypeOK, vars
<1> QED
  BY <1>4, <1>5, <1>6, <1>7 DEF LifeInv

(* A process without threads has a null list. *)
LEMMA EmptyList ==
  ASSUME LifeInv, NEW p \in Proc, \A t \in alloc : parent[t] # p
  PROVE  threads[p] = NULL
<1>1. Reached(Thread, threads[p], next, NULL) = {}
  BY DEF LifeInv, ListInv
<1>2. threads[p] \in Thread \cup {NULL} /\ next \in [Thread -> Thread \cup {NULL}]
  BY DEF LifeInv, ProcessTypeOK
<1>3. Closed(Reached(Thread, threads[p], next, NULL), threads[p], next, NULL)
  BY <1>2, ReachedIsLeast
<1> QED
  BY <1>1, <1>3 DEF Closed

(* A new thread at the head of its process's list. *)
LEMMA NewThreadList ==
  ASSUME LifeInv, NEW t \in Thread \ alloc, NEW p \in Proc,
         alloc' = alloc \cup {t}, parent' = [parent EXCEPT ![t] = p],
         next' = [next EXCEPT ![t] = threads[p]],
         threads' = [threads EXCEPT ![p] = t],
         palloc \subseteq palloc', p \in palloc'
  PROVE  ListInv'
<1>0. /\ alloc \subseteq Thread /\ parent \in [Thread -> Proc]
      /\ next \in [Thread -> Thread \cup {NULL}] /\ threads \in [Proc -> Thread \cup {NULL}]
      /\ ListInv
  BY DEF LifeInv, ProcessTypeOK
<1>1. parent'[t] = p /\ \A u \in alloc : parent'[u] = parent[u]
  BY <1>0
<1>2. \A u \in alloc' : parent'[u] \in palloc'
  BY <1>0, <1>1 DEF ListInv
<1>3. ASSUME NEW q \in Proc
      PROVE  /\ Reached(Thread, threads'[q], next', NULL) = {u \in alloc' : parent'[u] = q}
             /\ IsPath(Thread, threads'[q], next', NULL)
  <2>1. /\ Reached(Thread, threads[q], next, NULL) = {u \in alloc : parent[u] = q}
        /\ IsPath(Thread, threads[q], next, NULL)
        /\ threads[q] \in Thread \cup {NULL}
    BY <1>0 DEF ListInv
  <2>2. t \notin Reached(Thread, threads[q], next, NULL)
    BY <2>1
  <2>3. CASE q = p
    <3>1. /\ Reached(Thread, t, [next EXCEPT ![t] = threads[q]], NULL)
               = Reached(Thread, threads[q], next, NULL) \cup {t}
          /\ IsPath(Thread, t, [next EXCEPT ![t] = threads[q]], NULL)
      BY <1>0, <2>1, <2>2, PathPush
    <3>2. threads'[q] = t
      BY <1>0, <2>3
    <3>3. {u \in alloc' : parent'[u] = q} = {u \in alloc : parent[u] = q} \cup {t}
      BY <1>1, <2>3
    <3> QED
      BY <2>1, <2>3, <3>1, <3>2, <3>3
  <2>4. CASE q # p
    <3>1. threads'[q] = threads[q]
      BY <1>0, <2>4
    <3>2. next' \in [Thread -> Thread \cup {NULL}] /\ \A u \in Thread \ {t} : next'[u] = next[u]
      BY <1>0
    <3>3. \A u \in Reached(Thread, threads[q], next, NULL) : next'[u] = next[u]
      BY <1>0, <2>1, <3>2
    <3>4. /\ Reached(Thread, threads[q], next', NULL) = Reached(Thread, threads[q], next, NULL)
          /\ IsPath(Thread, threads[q], next', NULL)
      <4> DEFINE ny == next'
                 h == threads[q]
      <4>1. /\ ny \in [Thread -> Thread \cup {NULL}] /\ h \in Thread \cup {NULL}
            /\ IsPath(Thread, h, next, NULL)
            /\ \A u \in Reached(Thread, h, next, NULL) : ny[u] = next[u]
        BY <2>1, <3>2, <3>3
      <4> HIDE DEF ny, h
      <4>2. /\ Reached(Thread, h, ny, NULL) = Reached(Thread, h, next, NULL)
            /\ IsPath(Thread, h, ny, NULL)
        BY <1>0, <4>1, PathFrame, SMTT(30)
      <4> QED
        BY <4>2 DEF ny, h
    <3>5. {u \in alloc' : parent'[u] = q} = {u \in alloc : parent[u] = q}
      BY <1>1, <2>4
    <3> QED
      BY <2>1, <3>1, <3>4, <3>5
  <2> QED
    BY <2>3, <2>4
<1> QED
  BY <1>2, <1>3 DEF ListInv

(* thread_create for the process at hand. *)
LEMMA CreateThreadKeeps ==
  ASSUME LifeInv, KernelCalls, NEW t \in Thread, create_thread(t)
  PROVE  LifeInv'
<1> USE DEF READY, RUNNING, TERMINATED, States, Steps
<1>0. ProcessTypeOK /\ CallInv /\ QueueInv
  BY DEF LifeInv
<1>1. me = kernel_thread /\ current_thread = kernel_thread /\ cpu = "run" /\ Step = "thread"
  BY CallerRuns DEF create_thread
<1>2. /\ t \notin alloc /\ alloc' = alloc \cup {t}
      /\ parent' = [parent EXCEPT ![t] = Subject]
      /\ state' = [state EXCEPT ![t] = READY]
      /\ next_ready' = [next_ready EXCEPT ![t] = NULL]
      /\ UNCHANGED <<queue, queue_tail, current_thread, cpu, ready>>
  BY <1>1 DEF create_thread, thread_create, Subject
<1>3. /\ next' = [next EXCEPT ![t] = threads[Subject]]
      /\ threads' = [threads EXCEPT ![Subject] = t]
      /\ at' = [at EXCEPT ![kernel_thread] = "post"]
      /\ ptr' = [ptr EXCEPT ![kernel_thread] = t]
      /\ UNCHANGED <<palloc, pstate, arg>>
  BY <1>1 DEF create_thread, Goto, Subject
<1>4. Subject \in palloc \ {kernel_process} /\ Subject \in Proc
  BY <1>0, <1>1 DEF CallInv, ProcessTypeOK
<1>5. ProcessTypeOK'
  BY <1>0, <1>2, <1>3, <1>4 DEF ProcessTypeOK
<1>6. QueueInv'
  <2>1. next_ready' \in [Thread -> Thread \cup {NULL}] /\ \A u \in Thread \ {t} : next_ready'[u] = next_ready[u]
    BY <1>0, <1>2 DEF ProcessTypeOK
  <2>2. \A u \in Queued : next_ready'[u] = next_ready[u]
    BY <1>0, <1>2, <2>1 DEF QueueInv, ProcessTypeOK
  <2>3. Queued' = Queued /\ IsPath(Thread, queue, next_ready, NULL)'
    <3> DEFINE ny == next_ready'
    <3>1. ny \in [Thread -> Thread \cup {NULL}] /\ \A u \in Queued : ny[u] = next_ready[u]
      BY <2>1, <2>2
    <3>2. /\ queue \in Thread \cup {NULL} /\ IsPath(Thread, queue, next_ready, NULL)
          /\ next_ready \in [Thread -> Thread \cup {NULL}]
      BY <1>0 DEF QueueInv, ProcessTypeOK
    <3> HIDE DEF ny
    <3>3. /\ Reached(Thread, queue, ny, NULL) = Reached(Thread, queue, next_ready, NULL)
          /\ IsPath(Thread, queue, ny, NULL)
      BY <3>1, <3>2, PathFrame DEF Queued
    <3> QED
      BY <1>2, <3>3 DEF Queued, ny
  <2>4. \A u \in alloc' : state'[u] = RUNNING => u = current_thread
    BY <1>0, <1>2 DEF QueueInv, ProcessTypeOK
  <2> QED
    BY <1>0, <1>1, <1>2, <2>3, <2>4 DEF QueueInv
<1>7. ListInv'
  BY <1>2, <1>3, <1>4, NewThreadList
<1>8. CallInv'
  <2>1. t # kernel_thread /\ parent'[kernel_thread] = kernel_process
    BY <1>0, <1>2 DEF CallInv, QueueInv, ProcessTypeOK
  <2> QED
    BY <1>0, <1>2, <1>3, <1>4, <2>1 DEF CallInv, Step, Subject, ProcessTypeOK
<1> QED
  BY <1>5, <1>6, <1>7, <1>8 DEF LifeInv

(* scheduler_post of the new thread. *)
LEMMA PostKeeps ==
  ASSUME LifeInv, KernelCalls, post_thread
  PROVE  LifeInv'
<1> USE DEF READY, RUNNING, TERMINATED, States, Steps
<1>0. ProcessTypeOK /\ CallInv /\ QueueInv /\ ListInv
  BY DEF LifeInv
<1>1. me = kernel_thread /\ current_thread = kernel_thread /\ cpu = "run" /\ Step = "post"
  BY CallerRuns DEF post_thread
<1> DEFINE t == ptr[kernel_thread]
<1>2. /\ t \in alloc /\ t # current_thread /\ t \notin Members(ready)
      /\ Enqueue(t) /\ UNCHANGED <<alloc, parent, current_thread, cpu>>
      /\ at' = [at EXCEPT ![kernel_thread] = "none"]
      /\ ptr' = [ptr EXCEPT ![kernel_thread] = NULL]
      /\ UNCHANGED <<procVars, arg>>
  BY <1>1 DEF post_thread, scheduler_post, Goto
<1>3. t \in Thread
  BY <1>0, <1>2 DEF ProcessTypeOK
<1> HIDE DEF t
<1>4. /\ ready' \in Seq(Thread) /\ next_ready' \in [Thread -> Thread \cup {NULL}]
      /\ queue' \in Thread /\ queue_tail' \in Thread
      /\ NoRepeats(ready') /\ Members(ready') = Members(ready) \cup {t}
      /\ Queued' \subseteq Members(ready')
      /\ IsPath(Thread, queue, next_ready, NULL)'
  BY <1>0, <1>2, <1>3, EnqueueKeeps
<1>5. state' = [state EXCEPT ![t] = READY]
  BY <1>2 DEF Enqueue
<1>6. ProcessTypeOK'
  BY <1>0, <1>2, <1>3, <1>4, <1>5 DEF ProcessTypeOK, procVars
<1>7. QueueInv'
  <2>1. \A u \in alloc' : state'[u] = RUNNING => u = current_thread
    BY <1>0, <1>2, <1>3, <1>5 DEF QueueInv, ProcessTypeOK
  <2> QED
    BY <1>0, <1>1, <1>2, <1>4, <2>1 DEF QueueInv
<1>8. ListInv'
  BY <1>0, <1>2 DEF ListInv, procVars
<1>9. CallInv'
  BY <1>0, <1>2 DEF CallInv, Step, Subject, ProcessTypeOK, procVars
<1> QED
  BY <1>6, <1>7, <1>8, <1>9 DEF LifeInv

-----------------------------------------------------------------------------
(* The loop of process_destroy has the head of the list in its hand, which *)
(* is an allocated thread of the process and not the running one.          *)
LEMMA LoopThread ==
  ASSUME LifeInv, Step = "destroy", current_thread = kernel_thread,
         ptr[kernel_thread] # NULL
  PROVE  /\ ptr[kernel_thread] = threads[Subject] /\ Subject \in Proc
         /\ ptr[kernel_thread] \in alloc \ {kernel_thread}
         /\ parent[ptr[kernel_thread]] = Subject
         /\ state[ptr[kernel_thread]] # RUNNING
<1>0. ProcessTypeOK /\ CallInv /\ QueueInv /\ ListInv
  BY DEF LifeInv
<1>1. /\ ptr[kernel_thread] = threads[Subject] /\ Subject \in palloc \ {kernel_process}
      /\ Subject \in Proc /\ parent[kernel_thread] = kernel_process
  BY <1>0 DEF CallInv, ProcessTypeOK
<1>2. threads[Subject] \in Thread /\ next \in [Thread -> Thread \cup {NULL}]
  BY <1>0, <1>1 DEF ProcessTypeOK
<1>3. threads[Subject] \in Reached(Thread, threads[Subject], next, NULL)
  <2>1. Closed(Reached(Thread, threads[Subject], next, NULL), threads[Subject], next, NULL)
    BY <1>2, ReachedIsLeast
  <2> QED
    BY <1>1, <2>1 DEF Closed
<1>4. threads[Subject] \in alloc /\ parent[threads[Subject]] = Subject
  BY <1>0, <1>1, <1>3 DEF ListInv
<1>5. state[threads[Subject]] # RUNNING
  BY <1>0, <1>1, <1>4 DEF QueueInv
<1> QED
  BY <1>1, <1>4, <1>5

LEMMA DestroyThreadKeeps ==
  ASSUME LifeInv, KernelCalls, destroy_thread
  PROVE  LifeInv'
<1>0. ProcessTypeOK /\ CallInv /\ QueueInv /\ ListInv
  BY DEF LifeInv
<1> DEFINE t == ptr[kernel_thread]
           p == Subject
<1>1. /\ me = kernel_thread /\ current_thread = kernel_thread /\ cpu = "run"
      /\ Step = "destroy" /\ t # NULL
  BY CallerRuns DEF destroy_thread
<1>2. /\ t = threads[p] /\ p \in Proc /\ t \in alloc \ {kernel_thread} /\ parent[t] = p
      /\ state[t] # RUNNING /\ t \in Thread
  BY <1>0, <1>1, LoopThread DEF ProcessTypeOK
<1>3. /\ thread_destroy(t)
      /\ ptr' = [ptr EXCEPT ![kernel_thread] = next[t]]
      /\ at' = [at EXCEPT ![t] = "none"]
      /\ threads' = [threads EXCEPT ![p] = next[t]]
      /\ UNCHANGED <<palloc, pstate, arg>>
  BY <1>1, <1>2 DEF destroy_thread
<1>4. next' = next
  <2>1. next' = [u \in Thread |-> next[u]]
    BY <1>1, <1>2 DEF destroy_thread
  <2> QED
    BY <1>0, <2>1 DEF ProcessTypeOK
<1>5. alloc' = alloc \ {t} /\ UNCHANGED <<parent, state, queue_tail, current_thread, cpu>>
  BY <1>3 DEF thread_destroy
<1> HIDE DEF t, p
<1>6. /\ ready' \in Seq(Thread) /\ next_ready' \in [Thread -> Thread \cup {NULL}]
      /\ queue' \in Thread \cup {NULL} /\ (queue' # NULL => queue # NULL)
      /\ NoRepeats(ready') /\ Members(ready') = Members(ready) \ {t}
      /\ Queued' \subseteq Members(ready')
      /\ IsPath(Thread, queue, next_ready, NULL)'
  BY <1>0, <1>2, <1>3, UnlinkKeeps
<1>7. next[t] \in Thread \cup {NULL}
  BY <1>0, <1>2 DEF ProcessTypeOK
<1>8. ProcessTypeOK'
  BY <1>0, <1>2, <1>3, <1>4, <1>5, <1>6, <1>7 DEF ProcessTypeOK, Steps
<1>9. QueueInv'
  BY <1>0, <1>1, <1>2, <1>5, <1>6 DEF QueueInv
<1>10. ListInv'
  <2>1. ASSUME NEW q \in Proc
        PROVE  /\ Reached(Thread, threads'[q], next, NULL) = {u \in alloc' : parent[u] = q}
               /\ IsPath(Thread, threads'[q], next, NULL)
    <3>1. /\ Reached(Thread, threads[q], next, NULL) = {u \in alloc : parent[u] = q}
          /\ IsPath(Thread, threads[q], next, NULL)
      BY <1>0 DEF ListInv
    <3>2. CASE q = p
      <4>1. IsPath(Thread, t, next, NULL) /\ next \in [Thread -> Thread \cup {NULL}]
        BY <1>0, <1>2, <3>1, <3>2 DEF ProcessTypeOK
      <4>2. /\ Reached(Thread, next[t], next, NULL) = Reached(Thread, t, next, NULL) \ {t}
            /\ IsPath(Thread, next[t], next, NULL)
        BY <1>2, <4>1, PathTail, SMTT(60)
      <4>3. threads'[q] = next[t]
        BY <1>0, <1>2, <1>3, <3>2 DEF ProcessTypeOK
      <4> QED
        BY <1>2, <1>5, <3>1, <3>2, <4>2, <4>3
    <3>3. CASE q # p
      <4>1. threads'[q] = threads[q]
        BY <1>0, <1>2, <1>3, <3>3 DEF ProcessTypeOK
      <4>2. {u \in alloc' : parent[u] = q} = {u \in alloc : parent[u] = q}
        BY <1>2, <1>5, <3>3
      <4> QED
        BY <3>1, <4>1, <4>2
    <3> QED
      BY <3>2, <3>3
  <2> QED
    BY <1>0, <1>3, <1>4, <1>5, <2>1 DEF ListInv
<1>11. CallInv'
  <2>1. /\ Step' = "destroy" /\ Subject' = p /\ ptr'[kernel_thread] = next[t]
        /\ threads'[p] = next[t]
    BY <1>0, <1>1, <1>2, <1>3 DEF ProcessTypeOK, Step, Subject, p
  <2>2. \A u \in Thread \ {kernel_thread} : at'[u] = "none"
    BY <1>0, <1>2, <1>3 DEF ProcessTypeOK, CallInv
  <2> QED
    BY <1>0, <1>1, <1>3, <1>5, <2>1, <2>2 DEF CallInv, p
<1> QED
  BY <1>8, <1>9, <1>10, <1>11 DEF LifeInv

(* The process is freed when its list is empty, and then it has no thread. *)
LEMMA FreeKeeps ==
  ASSUME LifeInv, KernelCalls, free_process
  PROVE  LifeInv'
<1>0. ProcessTypeOK /\ CallInv /\ QueueInv /\ ListInv
  BY DEF LifeInv
<1>1. me = kernel_thread /\ Step = "destroy" /\ ptr[kernel_thread] = NULL
  BY CallerRuns DEF free_process
<1>2. /\ palloc' = palloc \ {Subject} /\ at' = [at EXCEPT ![kernel_thread] = "none"]
      /\ UNCHANGED <<vars, pstate, threads, next, arg, ptr>>
  BY <1>1 DEF free_process, Goto, Subject
<1>3. /\ threads[Subject] = NULL /\ Subject \in Proc /\ Subject # kernel_process
  BY <1>0, <1>1 DEF CallInv, ProcessTypeOK
<1>4. \A t \in alloc : parent[t] # Subject
  <2>1. Reached(Thread, NULL, next, NULL) = {}
    BY <1>0, ReachedFromNull DEF ProcessTypeOK
  <2> QED
    BY <1>0, <1>3, <2>1 DEF ListInv
<1>5. ProcessTypeOK'
  BY <1>0, <1>2 DEF ProcessTypeOK, vars, Steps
<1>6. QueueInv'
  BY <1>0, <1>2 DEF QueueInv, Queued, vars
<1>7. ListInv'
  BY <1>0, <1>2, <1>4 DEF ListInv, vars
<1>8. CallInv'
  BY <1>0, <1>2, <1>3 DEF CallInv, Step, Subject, ProcessTypeOK, vars
<1> QED
  BY <1>5, <1>6, <1>7, <1>8 DEF LifeInv

(* process_fork: a new process with a new thread, whatever the kernel      *)
(* thread is in the middle of.                                             *)
LEMMA ForkKeeps ==
  ASSUME LifeInv, NEW p \in Proc, NEW t \in Thread, process_fork(p, t)
  PROVE  LifeInv'
<1> USE DEF READY, RUNNING, TERMINATED, States
<1>0. ProcessTypeOK /\ CallInv /\ QueueInv /\ ListInv
  BY DEF LifeInv
<1>1. /\ p \notin palloc /\ palloc' = palloc \cup {p}
      /\ pstate' = [pstate EXCEPT ![p] = READY]
      /\ t \notin alloc /\ alloc' = alloc \cup {t}
      /\ parent' = [parent EXCEPT ![t] = p]
      /\ Enqueue(t) /\ state' = [state EXCEPT ![t] = READY]
      /\ next' = [next EXCEPT ![t] = NULL] /\ threads' = [threads EXCEPT ![p] = t]
      /\ cpu = "run" /\ UNCHANGED <<current_thread, cpu, at, arg, ptr>>
  BY DEF process_fork, Enter, Enqueue, opVars
<1>2. t \notin Members(ready) /\ \A u \in alloc : parent[u] # p
  BY <1>0, <1>1 DEF QueueInv, ListInv
<1>3. threads[p] = NULL
  BY <1>2, EmptyList
<1>4. /\ ready' \in Seq(Thread) /\ next_ready' \in [Thread -> Thread \cup {NULL}]
      /\ queue' \in Thread /\ queue_tail' \in Thread
      /\ NoRepeats(ready') /\ Members(ready') = Members(ready) \cup {t}
      /\ Queued' \subseteq Members(ready')
      /\ IsPath(Thread, queue, next_ready, NULL)'
  BY <1>0, <1>1, <1>2, EnqueueKeeps
<1>5. ProcessTypeOK'
  BY <1>0, <1>1, <1>4 DEF ProcessTypeOK
<1>6. QueueInv'
  <2>1. \A u \in alloc' : state'[u] = RUNNING => u = current_thread
    BY <1>0, <1>1 DEF QueueInv, ProcessTypeOK
  <2> QED
    BY <1>0, <1>1, <1>4, <2>1 DEF QueueInv
<1>7. ListInv'
  BY <1>1, <1>3, NewThreadList
<1>8. CallInv'
  <2>1. t # kernel_thread /\ parent'[kernel_thread] = kernel_process
    BY <1>0, <1>1 DEF CallInv, QueueInv, ProcessTypeOK
  <2>2. Step' = Step /\ Subject' = Subject
    BY <1>1 DEF Step, Subject
  <2>3. ASSUME Step # "none"
        PROVE  Subject # p /\ Subject \in Proc /\ threads'[Subject] = threads[Subject]
    BY <1>0, <1>1, <2>3 DEF CallInv, ProcessTypeOK
  <2>4. ASSUME Step # "none", NEW u \in alloc', parent'[u] = Subject
        PROVE  u \in alloc /\ parent[u] = Subject
    BY <1>0, <1>1, <2>3, <2>4 DEF ProcessTypeOK
  <2> QED
    BY <1>0, <1>1, <2>1, <2>2, <2>3, <2>4 DEF CallInv
<1> QED
  BY <1>5, <1>6, <1>7, <1>8 DEF LifeInv

(* Its failures: the block is freed again, and had no threads before. *)
LEMMA ForkFailsKeeps ==
  ASSUME LifeInv, NEW p \in Proc, process_fork_fails(p)
  PROVE  LifeInv'
<1>0. ProcessTypeOK /\ CallInv /\ QueueInv /\ ListInv
  BY DEF LifeInv
<1>1. /\ p \notin palloc /\ pstate' = [pstate EXCEPT ![p] = READY]
      /\ threads' = [threads EXCEPT ![p] = NULL]
      /\ UNCHANGED <<vars, palloc, next, opVars>>
  BY DEF process_fork_fails, Enter
<1>2. threads[p] = NULL
  <2>1. \A u \in alloc : parent[u] # p
    BY <1>0, <1>1 DEF ListInv
  <2> QED
    BY <2>1, EmptyList
<1>3. threads' = threads
  BY <1>0, <1>1, <1>2 DEF ProcessTypeOK
<1>4. ProcessTypeOK'
  BY <1>0, <1>1 DEF ProcessTypeOK, vars, opVars, States, READY
<1>5. CallInv'
  BY <1>0, <1>1, <1>3 DEF CallInv, Step, Subject, vars, opVars
<1> QED
  BY <1>1, <1>3, <1>4, <1>5, ListsKept

(* Also when process_fork may fail. *)
NoMemoryNext == ProcessesNext \/ \E p \in Proc : Creating = {} /\ process_fork_fails(p)

LEMMA LifeStep ==
  ASSUME KernelCalls, LifeInv, [NoMemoryNext]_allVars
  PROVE  LifeInv'
<1>1. CASE UNCHANGED allVars
  <2>1. UNCHANGED <<vars, procVars, opVars>>
    BY <1>1 DEF allVars
  <2>2. ProcessTypeOK' /\ QueueInv'
    BY <2>1 DEF LifeInv, ProcessTypeOK, QueueInv, Queued, vars, procVars, opVars
  <2> QED
    BY <2>1, <2>2, OthersKept DEF vars
<1>2. CASE CallerStep
  BY <1>2, QuietKeeps, ScanKeeps, CreateThreadKeeps, PostKeeps, DestroyThreadKeeps, FreeKeeps
     DEF CallerStep
<1>3. CASE ForkStep
  BY <1>3, ForkKeeps DEF ForkStep
<1>4. CASE SchedulerStep
  BY <1>4, SchedulerKeeps
<1>5. CASE \E p \in Proc : process_fork_fails(p)
  BY <1>5, ForkFailsKeeps
<1> QED
  BY <1>1, <1>2, <1>3, <1>4, <1>5 DEF NoMemoryNext, ProcessesNext

(* The invariant of threads, queue and lists, for any number of threads    *)
(* and processes, also when forks fail.                                    *)
THEOREM LifeInvariant == KernelCalls /\ NoMemorySpec => []LifeInv
<1> SUFFICES ASSUME KernelCalls PROVE NoMemorySpec => []LifeInv
  OBVIOUS
<1>1. LifeInv /\ [NoMemoryNext]_allVars => LifeInv'
  BY LifeStep
<1> QED
  BY <1>1, LifeInit, PTL DEF NoMemorySpec, NoMemoryNext

(* No process is freed while a thread of it runs or stands in line, at     *)
(* whatever step of process_destroy the timer interrupts, and whatever     *)
(* threads fork, exit or get lost behind a stale queue_tail.               *)
THEOREM ParentsAlive == KernelCalls /\ NoMemorySpec => []ParentAlive
<1>1. LifeInv => ParentAlive
  BY DEF LifeInv, QueueInv, ListInv, ParentAlive
<1> QED
  BY <1>1, LifeInvariant, PTL

-----------------------------------------------------------------------------
(* The process table.  FreeSlot is the first free slot, if there is one. *)
LEMMA FreeSlotFacts ==
  ASSUME process_table \in [1..SLOTS -> Proc \cup {NULL}]
  PROVE  /\ \A i \in 1..SLOTS : i = FreeSlot => process_table[i] = NULL
         /\ (\E i \in 1..SLOTS : process_table[i] = NULL) => FreeSlot \in 1..SLOTS
         /\ FreeSlot \in Nat
<1>1. CASE \E i \in 1..SLOTS : process_table[i] = NULL
  <2> DEFINE F == {i \in 1..SLOTS : process_table[i] = NULL}
  <2>1. PICK x \in F : \A y \in F : x <= y
    <3>1. F \in SUBSET Nat /\ F # {}
      BY <1>1
    <3> HIDE DEF F
    <3> QED
      BY <3>1, LeastNumber
  <2>2. /\ x \in 1..SLOTS /\ process_table[x] = NULL
        /\ \A j \in 1..(x - 1) : process_table[j] # NULL
    <3>1. x \in 1..SLOTS /\ process_table[x] = NULL
      OBVIOUS
    <3>2. ASSUME NEW j \in 1..(x - 1), process_table[j] = NULL PROVE FALSE
      <4>1. j \in F
        BY <3>1, <3>2
      <4> QED
        BY <2>1, <3>1, <4>1
    <3> QED
      BY <3>1, <3>2
  <2>3. FreeSlot \in 1..SLOTS /\ process_table[FreeSlot] = NULL
    BY <1>1, <2>2 DEF FreeSlot
  <2> QED
    BY <2>3
<1>2. CASE ~ \E i \in 1..SLOTS : process_table[i] = NULL
  BY <1>2 DEF FreeSlot
<1> QED
  BY <1>1, <1>2

(* With fewer pids than slots there is a free one. *)
LEMMA TableHasRoom ==
  ASSUME NEW tb, NEW pd, NEW L, NEW m \in Nat, TableOf(tb, pd, L, m),
         m >= 2, m <= MaxPid, Room
  PROVE  \E i \in 1..SLOTS : tb[i] = NULL
<1> SUFFICES ASSUME \A i \in 1..SLOTS : tb[i] # NULL PROVE FALSE
  OBVIOUS
<1> DEFINE f == [i \in 1..SLOTS |-> pd[tb[i]]]
<1>1. f \in [1..SLOTS -> 2..(m - 1)]
  BY DEF TableOf
<1>2. \A i, j \in 1..SLOTS : i # j => f[i] # f[j]
  BY DEF TableOf
<1>3. SLOTS >= m - 1
  BY DEF Room
<1>4. /\ IsFiniteSet(1..SLOTS) /\ IsFiniteSet(2..(m - 1))
      /\ Cardinality(1..SLOTS) = IF 1 > SLOTS THEN 0 ELSE SLOTS - 1 + 1
      /\ Cardinality(2..(m - 1)) = IF 2 > m - 1 THEN 0 ELSE m - 1 - 2 + 1
  BY FS_Interval
<1>5. Cardinality(2..(m - 1)) < Cardinality(1..SLOTS)
  BY <1>3, <1>4
<1> HIDE DEF f
<1>6. \E x, y \in 1..SLOTS : x # y /\ f[x] = f[y]
  <2> DEFINE S == 1..SLOTS
             T == 2..(m - 1)
  <2>1. f \in [S -> T] /\ IsFiniteSet(S) /\ IsFiniteSet(T) /\ Cardinality(T) < Cardinality(S)
    BY <1>1, <1>4, <1>5
  <2> HIDE DEF S, T
  <2>2. \E x, y \in S : x # y /\ f[x] = f[y]
    BY <2>1, FS_PigeonHole
  <2> QED
    BY <2>2 DEF S
<1> QED
  BY <1>2, <1>6

(* More processes, more pids. *)
LEMMA TableGrows ==
  ASSUME NEW tb, NEW pd, NEW L, NEW m \in Nat, TableOf(tb, pd, L, m),
         NEW pe, NEW K, NEW n \in Nat, L \subseteq K, m <= n,
         \A p \in L : pe[p] = pd[p]
  PROVE  TableOf(tb, pe, K, n)
  BY DEF TableOf

(* The next process in a free slot, or in none. *)
LEMMA TableEnters ==
  ASSUME NEW tb, NEW pd, NEW L, NEW m \in Nat, TableOf(tb, pd, L, m), m >= 2,
         NEW p \in Proc, p \notin L, pd[p] = m, NEW x,
         \A i \in 1..SLOTS : i = x => tb[i] = NULL
  PROVE  /\ TableOf([i \in 1..SLOTS |-> IF i = x THEN p ELSE tb[i]], pd, L \cup {p}, m + 1)
<1> DEFINE tn == [i \in 1..SLOTS |-> IF i = x THEN p ELSE tb[i]]
<1>1. tn \in [1..SLOTS -> Proc \cup {NULL}]
  BY DEF TableOf
<1>2. \A i \in 1..SLOTS : tn[i] = IF i = x THEN p ELSE tb[i]
  OBVIOUS
<1> SUFFICES TableOf(tn, pd, L \cup {p}, m + 1)
  OBVIOUS
<1> HIDE DEF tn
<1>3. \A i \in 1..SLOTS : tn[i] # NULL => tn[i] \in L \cup {p} /\ pd[tn[i]] \in 2..((m + 1) - 1)
  BY <1>2 DEF TableOf
<1>4. \A i \in 1..SLOTS : tb[i] # NULL => tb[i] # p /\ pd[tb[i]] # pd[p]
  BY DEF TableOf
<1>5. \A i, j \in 1..SLOTS :
        tn[i] # NULL /\ tn[j] # NULL /\ i # j => tn[i] # tn[j] /\ pd[tn[i]] # pd[tn[j]]
  BY <1>2, <1>4 DEF TableOf
<1> QED
  BY <1>1, <1>3, <1>5 DEF TableOf

(* The loop of process_destroy over the table. *)
LEMMA TableLeaves ==
  ASSUME NEW tb, NEW pd, NEW L, NEW m \in Nat, TableOf(tb, pd, L, m), NEW p \in Proc
  PROVE  LET tn == [i \in 1..SLOTS |->
                      IF tb[i] = p /\ \A j \in 1..(i - 1) : tb[j] # p THEN NULL ELSE tb[i]]
         IN  /\ TableOf(tn, pd, L \ {p}, m)
             /\ \A i \in 1..SLOTS : tb[i] # p => tn[i] = tb[i]
<1> DEFINE tn == [i \in 1..SLOTS |->
                    IF tb[i] = p /\ \A j \in 1..(i - 1) : tb[j] # p THEN NULL ELSE tb[i]]
<1>1. \A i \in 1..SLOTS : tn[i] = IF tb[i] = p THEN NULL ELSE tb[i]
  <2> SUFFICES ASSUME NEW i \in 1..SLOTS, tb[i] = p PROVE \A j \in 1..(i - 1) : tb[j] # p
    OBVIOUS
  <2>1. \A j \in 1..(i - 1) : j \in 1..SLOTS /\ j # i
    OBVIOUS
  <2> QED
    BY <2>1 DEF TableOf
<1>2. tn \in [1..SLOTS -> Proc \cup {NULL}]
  BY DEF TableOf
<1> SUFFICES TableOf(tn, pd, L \ {p}, m) /\ \A i \in 1..SLOTS : tb[i] # p => tn[i] = tb[i]
  OBVIOUS
<1> HIDE DEF tn
<1> QED
  BY <1>1, <1>2 DEF TableOf

-----------------------------------------------------------------------------
LEMMA TableInit == ProcessesInit => TableInv
<1> SUFFICES ASSUME ProcessesInit PROVE TableInv
  OBVIOUS
<1>1. Step = "none" /\ ~ Enters /\ palloc = {kernel_process}
  BY DEF ProcessesInit, Step, Enters
<1>2. Listed = {}
  BY <1>1 DEF Listed
<1>3. TableOf(process_table, Pid, Listed, Limit)
  BY DEF ProcessesInit, TableOf
<1> QED
  BY <1>1, <1>2, <1>3 DEF ProcessesInit, TableInv

(* Steps that touch neither the table nor a process, within an operation   *)
(* or between steps at which the table is complete.                        *)
LEMMA TableFrame ==
  ASSUME TableInv, UNCHANGED <<process_table, palloc, pstate, Pid, current_pid>>,
         val' \in [Thread -> Nat],
         \/ Step' = Step /\ Subject' = Subject /\ val'[kernel_thread] = val[kernel_thread]
         \/ ~ Enters /\ ~ Enters' /\ Step' # "destroy"
  PROVE  TableInv'
<1>1. CASE Step' = Step /\ Subject' = Subject /\ val'[kernel_thread] = val[kernel_thread]
  <2>1. Enters' = Enters /\ Listed' = Listed /\ Limit' = Limit
    BY <1>1 DEF Enters, Listed, Limit
  <2> QED
    BY <1>1, <2>1 DEF TableInv
<1>2. CASE ~ Enters /\ ~ Enters' /\ Step' # "destroy"
  <2>1. Listed' = Listed /\ Limit' = Limit
    BY <1>2 DEF Listed, Limit, Enters
  <2>2. Step' \notin {"load_pid", "store_pid", "scan", "store", "destroy"}
    BY <1>2 DEF Enters
  <2> QED
    BY <1>2, <2>1, <2>2 DEF TableInv
<1> QED
  BY <1>1, <1>2

LEMMA LimitIsPid == TableInv => Limit \in Nat /\ Limit >= 1 /\ (~ Enters => Limit = current_pid)
  BY DEF TableInv, Limit, Enters

(* process_create, up to the store into the table. *)
LEMMA CreateKeepsTable ==
  ASSUME LifeInv, TableInv, KernelCalls,
         (\E p \in Proc : process_create(p)) \/ load_pid \/ store_pid \/ scan_table
  PROVE  TableInv'
<1>0. ProcessTypeOK /\ CallInv
  BY DEF LifeInv
<1>1. ASSUME NEW p \in Proc, process_create(p) PROVE TableInv'
  <2>1. me = kernel_thread /\ Step = "none" /\ ~ Enters
    BY <1>1, CallerRuns DEF process_create, Enters
  <2>2. /\ p \notin palloc /\ palloc' = palloc \cup {p} /\ current_pid <= MaxPid
        /\ pstate' = [pstate EXCEPT ![p] = READY]
        /\ Pid' = [Pid EXCEPT ![p] = current_pid]
        /\ at' = [at EXCEPT ![kernel_thread] = "load_pid"]
        /\ arg' = [arg EXCEPT ![kernel_thread] = p]
        /\ UNCHANGED <<process_table, current_pid, val>>
    BY <1>1, <2>1 DEF process_create, Goto
  <2>3. Step' = "load_pid" /\ Subject' = p /\ Enters' /\ Limit' = current_pid /\ Limit = current_pid
    BY <1>0, <2>1, <2>2 DEF ProcessTypeOK, Step, Subject, Enters, Limit
  <2>4. Listed' = Listed
    BY <1>0, <2>1, <2>2, <2>3 DEF Listed, ProcessTypeOK
  <2>5. \A q \in Listed : Pid'[q] = Pid[q]
    BY <1>0, <2>2 DEF Listed, TableInv, ProcessTypeOK
  <2>6. TableOf(process_table, Pid', Listed, current_pid)
    <3> DEFINE pe == Pid'
    <3>1. TableOf(process_table, Pid, Listed, current_pid) /\ \A q \in Listed : pe[q] = Pid[q]
      BY <2>3, <2>5 DEF TableInv
    <3>2. current_pid \in Nat
      BY DEF TableInv
    <3> HIDE DEF pe
    <3>3. TableOf(process_table, pe, Listed, current_pid)
      BY <3>1, <3>2, TableGrows
    <3> QED
      BY <3>3 DEF pe
  <2>7. pstate'[p] # TERMINATED /\ Pid'[p] = current_pid /\ Pid' \in [Proc -> Nat]
    BY <1>0, <2>2 DEF ProcessTypeOK, TableInv, READY, TERMINATED
  <2> QED
    BY <2>2, <2>3, <2>4, <2>6, <2>7 DEF TableInv
<1>2. CASE load_pid
  <2>1. me = kernel_thread /\ Step = "load_pid"
    BY <1>2, CallerRuns DEF load_pid
  <2>2. /\ at' = [at EXCEPT ![kernel_thread] = "store_pid"]
        /\ val' = [val EXCEPT ![kernel_thread] = current_pid]
        /\ UNCHANGED <<procVars, arg>>
    BY <1>2, <2>1 DEF load_pid, Goto
  <2>3. Step' = "store_pid" /\ Subject' = Subject /\ Enters /\ Enters' /\ Limit' = Limit
    BY <1>0, <2>1, <2>2 DEF ProcessTypeOK, Step, Subject, Enters, Limit, procVars
  <2>4. Listed' = Listed
    BY <2>2, <2>3 DEF Listed, procVars
  <2>5. val'[kernel_thread] = current_pid /\ val' \in [Thread -> Nat]
    BY <2>2 DEF TableInv
  <2> QED
    BY <2>2, <2>3, <2>4, <2>5 DEF TableInv, procVars
<1>3. CASE store_pid
  <2>1. me = kernel_thread /\ Step = "store_pid"
    BY <1>3, CallerRuns DEF store_pid
  <2>2. /\ at' = [at EXCEPT ![kernel_thread] = "scan"] /\ current_pid' = val[kernel_thread] + 1
        /\ UNCHANGED <<palloc, pstate, Pid, process_table, arg, val>>
    BY <1>3, <2>1 DEF store_pid, Goto
  <2>3. current_pid' = current_pid + 1 /\ current_pid \in Nat /\ current_pid >= 2
    BY <2>1, <2>2 DEF TableInv
  <2>4. Step' = "scan" /\ Subject' = Subject /\ Enters /\ Enters' /\ Limit' = Limit /\ Limit = current_pid
    BY <1>0, <2>1, <2>2, <2>3 DEF ProcessTypeOK, Step, Subject, Enters, Limit
  <2>5. Listed' = Listed
    BY <2>2, <2>4 DEF Listed
  <2> QED
    BY <2>2, <2>3, <2>4, <2>5 DEF TableInv
<1>4. CASE scan_table
  <2>1. me = kernel_thread /\ Step = "scan"
    BY <1>4, CallerRuns DEF scan_table
  <2>2. /\ at' = [at EXCEPT ![kernel_thread] = "store"]
        /\ val' = [val EXCEPT ![kernel_thread] = FreeSlot]
        /\ UNCHANGED <<palloc, pstate, Pid, process_table, current_pid, arg>>
    BY <1>4, <2>1 DEF scan_table, Goto
  <2>3. Step' = "store" /\ Subject' = Subject /\ Enters /\ Enters' /\ Limit' = Limit
    BY <1>0, <2>1, <2>2 DEF ProcessTypeOK, Step, Subject, Enters, Limit
  <2>4. Listed' = Listed
    BY <2>2, <2>3 DEF Listed
  <2>5. val'[kernel_thread] = FreeSlot /\ val' \in [Thread -> Nat]
    BY <2>2, FreeSlotFacts DEF TableInv, TableOf
  <2>6. Room => \E i \in 1..SLOTS : process_table[i] = NULL
    BY <2>1, <2>3, LimitIsPid, TableHasRoom DEF TableInv
  <2>7. /\ \A i \in 1..SLOTS : i = FreeSlot => process_table[i] = NULL
        /\ Room => FreeSlot \in 1..SLOTS
    BY <2>6, FreeSlotFacts DEF TableInv, TableOf
  <2> QED
    BY <2>1, <2>2, <2>3, <2>4, <2>5, <2>7 DEF TableInv
<1> QED
  BY <1>1, <1>2, <1>3, <1>4

(* The store into the table. *)
LEMMA StoreKeepsTable ==
  ASSUME LifeInv, TableInv, KernelCalls, store_slot
  PROVE  TableInv'
<1>0. ProcessTypeOK /\ CallInv
  BY DEF LifeInv
<1>1. me = kernel_thread /\ Step = "store" /\ Enters
  BY CallerRuns DEF store_slot, Enters
<1>2. /\ process_table' = [j \in 1..SLOTS |-> IF j = val[kernel_thread] THEN Subject ELSE process_table[j]]
      /\ \/ at' = [at EXCEPT ![kernel_thread] = "load"]
         \/ at' = [at EXCEPT ![kernel_thread] = "none"]
      /\ val' = [val EXCEPT ![kernel_thread] = 0]
      /\ UNCHANGED <<palloc, pstate, Pid, current_pid, arg>>
  BY <1>1 DEF store_slot, Goto, Subject
<1>3. /\ Step' \in {"load", "none"} /\ ~ Enters' /\ Subject' = Subject /\ val' \in [Thread -> Nat]
      /\ Limit' = current_pid /\ Limit = current_pid - 1
  BY <1>0, <1>1, <1>2 DEF ProcessTypeOK, TableInv, Step, Subject, Enters, Limit
<1>4. /\ Subject \in palloc \ {kernel_process} /\ Subject \in Proc /\ Subject \notin Listed
      /\ Limit \in Nat /\ Limit >= 2 /\ Pid[Subject] = Limit /\ Limit + 1 = current_pid
      /\ pstate[Subject] # TERMINATED
      /\ \A j \in 1..SLOTS : j = val[kernel_thread] => process_table[j] = NULL
  <2>1. Subject \in palloc \ {kernel_process} /\ Subject \in Proc
    BY <1>0, <1>1 DEF CallInv, ProcessTypeOK
  <2>2. Subject \notin Listed
    BY <1>1 DEF Listed
  <2>3. /\ Limit >= 2 /\ Pid[Subject] = Limit /\ pstate[Subject] # TERMINATED
        /\ current_pid \in Nat
        /\ \A j \in 1..SLOTS : j = val[kernel_thread] => process_table[j] = NULL
    BY <1>1 DEF TableInv
  <2>4. Limit \in Nat /\ Limit + 1 = current_pid
    BY <1>3, <2>3
  <2> QED
    BY <2>1, <2>2, <2>3, <2>4
<1>5. Listed' = Listed \cup {Subject}
  BY <1>1, <1>2, <1>3, <1>4 DEF Listed
<1>6. TableOf(process_table', Pid, Listed \cup {Subject}, Limit + 1)
  <2> DEFINE L == Listed
             x == val[kernel_thread]
             c == Subject
             m == Limit
  <2>1. /\ TableOf(process_table, Pid, L, m) /\ m \in Nat /\ m >= 2 /\ c \in Proc /\ c \notin L
        /\ Pid[c] = m /\ \A j \in 1..SLOTS : j = x => process_table[j] = NULL
    BY <1>4 DEF TableInv
  <2> HIDE DEF L, x, c, m
  <2>2. TableOf([j \in 1..SLOTS |-> IF j = x THEN c ELSE process_table[j]], Pid, L \cup {c}, m + 1)
    BY <2>1, TableEnters, ZenonT(60)
  <2> QED
    BY <1>2, <2>2 DEF L, x, c, m
<1>7. ASSUME Room PROVE \A p \in Listed' : \E j \in 1..SLOTS : process_table'[j] = p
  <2>1. val[kernel_thread] \in 1..SLOTS /\ process_table[val[kernel_thread]] = NULL
    BY <1>1, <1>7 DEF TableInv
  <2>2. process_table'[val[kernel_thread]] = Subject
    BY <1>2, <2>1
  <2>3. ASSUME NEW p \in Listed PROVE \E j \in 1..SLOTS : process_table'[j] = p
    <3>1. PICK j \in 1..SLOTS : process_table[j] = p
      BY <1>7 DEF TableInv
    <3>2. p # NULL
      BY <1>0 DEF Listed, ProcessTypeOK
    <3> QED
      BY <1>2, <2>1, <3>1, <3>2
  <2> QED
    BY <1>5, <2>1, <2>2, <2>3
<1> QED
  BY <1>2, <1>3, <1>4, <1>5, <1>6, <1>7 DEF TableInv

(* The loop of process_destroy over the table. *)
LEMMA DestroyKeepsTable ==
  ASSUME LifeInv, TableInv, me = kernel_thread, ~ Enters,
         NEW p \in palloc \ {kernel_process}, Destroy(p)
  PROVE  TableInv'
<1>0. ProcessTypeOK /\ CallInv
  BY DEF LifeInv
<1>1. /\ pstate' = [pstate EXCEPT ![p] = TERMINATED]
      /\ process_table' = [j \in 1..SLOTS |->
                             IF process_table[j] = p /\ \A i \in 1..(j - 1) : process_table[i] # p
                             THEN NULL ELSE process_table[j]]
      /\ at' = [at EXCEPT ![kernel_thread] = "destroy"]
      /\ arg' = [arg EXCEPT ![kernel_thread] = p]
      /\ UNCHANGED <<palloc, Pid, current_pid, val>>
  BY DEF Destroy, Goto
<1>2. p \in Proc /\ pstate'[p] = TERMINATED
  BY <1>0, <1>1 DEF ProcessTypeOK
<1>3. /\ Step' = "destroy" /\ ~ Enters' /\ Subject' = p /\ Limit' = current_pid
      /\ Limit = current_pid
  BY <1>0, <1>1 DEF ProcessTypeOK, Step, Subject, Enters, Limit
<1>4. Listed' = Listed \ {p}
  BY <1>0, <1>1, <1>2, <1>3 DEF Listed, ProcessTypeOK
<1>5. /\ TableOf(process_table', Pid, Listed \ {p}, current_pid)
      /\ \A j \in 1..SLOTS : process_table[j] # p => process_table'[j] = process_table[j]
  <2>1. TableOf(process_table, Pid, Listed, current_pid) /\ current_pid \in Nat
    BY <1>3 DEF TableInv
  <2> QED
    BY <1>1, <1>2, <2>1, TableLeaves
<1>6. ASSUME Room PROVE \A q \in Listed' : \E j \in 1..SLOTS : process_table'[j] = q
  BY <1>4, <1>5, <1>6 DEF TableInv
<1> QED
  BY <1>1, <1>2, <1>3, <1>4, <1>5, <1>6 DEF TableInv

(* process_fork enters its child. *)
LEMMA ForkKeepsTable ==
  ASSUME LifeInv, TableInv, Creating = {}, NEW p \in Proc, NEW t \in Thread, process_fork(p, t)
  PROVE  TableInv'
<1>0. ProcessTypeOK /\ CallInv
  BY DEF LifeInv
<1>1. ~ Enters
  <2> SUFFICES ASSUME Enters PROVE FALSE
    OBVIOUS
  <2>1. arg[kernel_thread] \in Creating
    BY DEF Creating, Enters, Step
  <2> QED
    BY <2>1
<1>2. /\ current_pid <= MaxPid /\ p \notin palloc /\ palloc' = palloc \cup {p}
      /\ pstate' = [pstate EXCEPT ![p] = READY]
      /\ Pid' = [Pid EXCEPT ![p] = current_pid]
      /\ current_pid' = current_pid + 1
      /\ process_table' = [j \in 1..SLOTS |-> IF j = FreeSlot THEN p ELSE process_table[j]]
      /\ UNCHANGED <<at, arg, val>>
  BY DEF process_fork, Enter, opVars
<1>3. /\ Step' = Step /\ Subject' = Subject /\ Enters' = Enters /\ Limit = current_pid
      /\ Limit' = current_pid + 1
  BY <1>1, <1>2 DEF Step, Subject, Enters, Limit
<1>4. p # kernel_process /\ p \notin Listed /\ (Step = "destroy" => Subject # p)
  BY <1>0, <1>2 DEF CallInv, Listed
<1>5. Listed' = Listed \cup {p}
  BY <1>0, <1>1, <1>2, <1>3, <1>4 DEF Listed, ProcessTypeOK, READY, TERMINATED
<1>6. /\ current_pid \in Nat /\ current_pid >= 2 /\ Pid \in [Proc -> Nat]
      /\ TableOf(process_table, Pid, Listed, current_pid)
  BY <1>3 DEF TableInv
<1>7. /\ \A j \in 1..SLOTS : j = FreeSlot => process_table[j] = NULL
      /\ Room => FreeSlot \in 1..SLOTS
  BY <1>2, <1>6, TableHasRoom, FreeSlotFacts DEF TableOf
<1>8. TableOf(process_table', Pid', Listed \cup {p}, current_pid + 1)
  <2> DEFINE pe == Pid'
             L == Listed
             x == FreeSlot
             m == current_pid
  <2>1. pe[p] = m /\ \A q \in L : pe[q] = Pid[q]
    BY <1>0, <1>2, <1>4, <1>6 DEF Listed, ProcessTypeOK
  <2>2. /\ TableOf(process_table, Pid, L, m) /\ m \in Nat /\ m >= 2 /\ p \notin L
        /\ \A j \in 1..SLOTS : j = x => process_table[j] = NULL
    BY <1>4, <1>6, <1>7
  <2> HIDE DEF pe, L, x, m
  <2>3. TableOf(process_table, pe, L, m)
    BY <2>1, <2>2, TableGrows
  <2>4. TableOf([j \in 1..SLOTS |-> IF j = x THEN p ELSE process_table[j]], pe, L \cup {p}, m + 1)
    <3>1. /\ m \in Nat /\ m >= 2 /\ p \notin L /\ pe[p] = m
          /\ \A j \in 1..SLOTS : j = x => process_table[j] = NULL
      BY <2>1, <2>2
    <3> QED
      BY <2>3, <3>1, TableEnters, ZenonT(60)
  <2> QED
    BY <1>2, <2>4 DEF pe, L, x, m
<1>9. ASSUME Room PROVE \A q \in Listed' : \E j \in 1..SLOTS : process_table'[j] = q
  <2>1. FreeSlot \in 1..SLOTS /\ process_table[FreeSlot] = NULL
    BY <1>7, <1>9
  <2>2. process_table'[FreeSlot] = p
    BY <1>2, <2>1
  <2>3. ASSUME NEW q \in Listed PROVE \E j \in 1..SLOTS : process_table'[j] = q
    <3>1. PICK j \in 1..SLOTS : process_table[j] = q
      BY <1>9 DEF TableInv
    <3>2. q # NULL
      BY <1>0 DEF Listed, ProcessTypeOK
    <3> QED
      BY <1>2, <2>1, <3>1, <3>2
  <2> QED
    BY <1>5, <2>1, <2>2, <2>3
<1>10. /\ Pid' \in [Proc -> Nat] /\ current_pid' \in Nat /\ current_pid' >= 2
       /\ val' \in [Thread -> Nat]
  BY <1>2, <1>6 DEF TableInv
<1>11. Step' = "destroy" => pstate'[Subject'] = TERMINATED
  <2>1. Step = "destroy" => Subject \in Proc /\ pstate[Subject] = TERMINATED
    BY <1>0 DEF CallInv, ProcessTypeOK, TableInv
  <2> QED
    BY <1>0, <1>2, <1>3, <1>4, <2>1 DEF ProcessTypeOK
<1>12. Step' \notin {"load_pid", "store_pid", "scan", "store"}
  BY <1>1, <1>3 DEF Enters
<1> QED
  BY <1>1, <1>2, <1>3, <1>5, <1>8, <1>9, <1>10, <1>11, <1>12 DEF TableInv

LEMMA TableStep ==
  ASSUME KernelCalls, LifeInv, TableInv, [ProcessesNext]_allVars
  PROVE  TableInv'
<1>0. ProcessTypeOK /\ CallInv /\ val \in [Thread -> Nat]
  BY DEF LifeInv, TableInv
<1>1. CASE UNCHANGED allVars
  BY <1>0, <1>1, TableFrame DEF allVars, procVars, opVars, Step, Subject
<1>2. CASE SchedulerStep
  BY <1>0, <1>2, TableFrame DEF SchedulerStep, procVars, opVars, Step, Subject
<1>3. CASE Creating = {} /\ ForkStep
  BY <1>3, ForkKeepsTable DEF ForkStep
<1>4. CASE CallerStep
  <2>1. ASSUME NEW p \in Proc, process_destroy(p) PROVE TableInv'
    <3>1. me = kernel_thread /\ ~ Enters
      BY <2>1, CallerRuns DEF process_destroy, Enters
    <3> QED
      BY <2>1, <3>1, DestroyKeepsTable DEF process_destroy
  <2>2. CASE elf_load_fails
    <3>1. me = kernel_thread /\ ~ Enters /\ Step = "load" /\ Destroy(arg[me])
      BY <2>2, CallerRuns DEF elf_load_fails, Enters
    <3>2. arg[me] \in palloc \ {kernel_process}
      BY <1>0, <3>1 DEF CallInv, Subject
    <3> QED
      BY <3>1, <3>2, DestroyKeepsTable
  <2>3. CASE (\E p \in Proc : more_threads(p)) \/ elf_load \/ (\E t \in Thread : create_thread(t)) \/ post_thread
    <3>0. me = kernel_thread /\ Step \in {"none", "load", "thread", "post"}
      BY <2>3, CallerRuns DEF more_threads, elf_load, create_thread, post_thread
    <3>1. /\ \/ at' = [at EXCEPT ![kernel_thread] = "thread"]
             \/ at' = [at EXCEPT ![kernel_thread] = "post"]
             \/ at' = [at EXCEPT ![kernel_thread] = "none"]
          /\ UNCHANGED <<process_table, palloc, pstate, Pid, current_pid, val>>
      <4>1. CASE \E p \in Proc : more_threads(p)
        BY <3>0, <4>1 DEF more_threads, Goto, procVars
      <4>2. CASE elf_load
        BY <3>0, <4>2 DEF elf_load, Goto, procVars
      <4>3. CASE \E t \in Thread : create_thread(t)
        BY <3>0, <4>3 DEF create_thread, Goto
      <4>4. CASE post_thread
        BY <3>0, <4>4 DEF post_thread, Goto, procVars
      <4> QED
        BY <2>3, <4>1, <4>2, <4>3, <4>4
    <3>2. Step' \in {"thread", "post", "none"}
      BY <1>0, <3>1 DEF ProcessTypeOK, Step
    <3> QED
      BY <1>0, <3>1, <3>2, <3>0, TableFrame DEF Enters
  <2>4. CASE destroy_thread
    <3>1. /\ me = kernel_thread /\ current_thread = kernel_thread /\ Step = "destroy"
          /\ ptr[kernel_thread] # NULL
      BY <2>4, CallerRuns DEF destroy_thread
    <3>2. ptr[kernel_thread] # kernel_thread
      BY <3>1, LoopThread
    <3>3. /\ Step' = Step /\ Subject' = Subject
          /\ UNCHANGED <<process_table, palloc, pstate, Pid, current_pid, val>>
      BY <1>0, <2>4, <3>1, <3>2 DEF destroy_thread, Step, Subject, ProcessTypeOK
    <3> QED
      BY <1>0, <3>3, TableFrame
  <2>5. CASE free_process
    <3>1. me = kernel_thread /\ Step = "destroy"
      BY <2>5, CallerRuns DEF free_process
    <3>2. /\ palloc' = palloc \ {Subject} /\ at' = [at EXCEPT ![kernel_thread] = "none"]
          /\ UNCHANGED <<pstate, Pid, process_table, current_pid, val>>
      BY <2>5, <3>1 DEF free_process, Goto, Subject
    <3>3. Step' = "none" /\ ~ Enters /\ ~ Enters' /\ pstate[Subject] = TERMINATED
      BY <1>0, <3>1, <3>2 DEF ProcessTypeOK, TableInv, Step, Enters
    <3>4. Listed' = Listed /\ Limit' = Limit
      BY <3>1, <3>2, <3>3 DEF Listed, Limit
    <3> QED
      BY <3>2, <3>3, <3>4 DEF TableInv
  <2> QED
    BY <1>4, <2>1, <2>2, <2>3, <2>4, <2>5, CreateKeepsTable, StoreKeepsTable DEF CallerStep
<1> QED
  BY <1>1, <1>2, <1>3, <1>4 DEF ProcessesNext

(* The invariants of lists and table together, while no fork fails. *)
THEOREM ProcessesInvariant == KernelCalls /\ ProcessesSpec => [](LifeInv /\ TableInv)
<1> SUFFICES ASSUME KernelCalls PROVE ProcessesSpec => [](LifeInv /\ TableInv)
  OBVIOUS
<1>1. LifeInv /\ TableInv /\ [ProcessesNext]_allVars => (LifeInv /\ TableInv)'
  <2> SUFFICES ASSUME LifeInv, TableInv, [ProcessesNext]_allVars PROVE LifeInv' /\ TableInv'
    OBVIOUS
  <2>1. [NoMemoryNext]_allVars
    BY DEF NoMemoryNext
  <2> QED
    BY <2>1, LifeStep, TableStep
<1> QED
  BY <1>1, LifeInit, TableInit, PTL DEF ProcessesSpec

(* process_find_by_pid is led to no freed and no terminated process. *)
THEOREM TableCorrect == KernelCalls /\ ProcessesSpec => []TableLive
<1>1. TableInv => TableLive
  BY DEF TableInv, TableOf, Listed, TableLive
<1> QED
  BY <1>1, ProcessesInvariant, PTL

(* The list of every process in the table is exactly its threads, so that  *)
(* process_destroy frees all of them and none twice.                       *)
THEOREM ThreadListCorrect == KernelCalls /\ ProcessesSpec => []ThreadListExact
<1>1. LifeInv /\ TableInv => ThreadListExact
  BY DEF LifeInv, ListInv, TableInv, TableOf, ThreadListExact
<1> QED
  BY <1>1, ProcessesInvariant, PTL

(* While there are slots for all pids ever given, every process that was   *)
(* created and not destroyed is found by its pid, in one slot, and it      *)
(* alone has that pid.                                                     *)
THEOREM ProcessesFound == KernelCalls /\ Room /\ ProcessesSpec => []Findable
<1> SUFFICES ASSUME KernelCalls, Room PROVE ProcessesSpec => []Findable
  OBVIOUS
<1>1. LifeInv /\ TableInv => Findable
  <2> SUFFICES ASSUME LifeInv, TableInv,
                      NEW p \in palloc \ (Creating \cup {kernel_process}),
                      pstate[p] # TERMINATED
               PROVE  /\ Cardinality({i \in 1..SLOTS : process_table[i] = p}) = 1
                      /\ \A i \in 1..SLOTS :
                           process_table[i] \notin {NULL, p} => Pid[process_table[i]] # Pid[p]
    BY DEF Findable
  <2>1. p \in Listed /\ p # NULL
    BY DEF Listed, Enters, Creating, Step, Subject, LifeInv, ProcessTypeOK
  <2>2. PICK x \in 1..SLOTS : process_table[x] = p
    BY <2>1 DEF TableInv
  <2>3. \A i \in 1..SLOTS : i # x /\ process_table[i] # NULL =>
          process_table[i] # p /\ Pid[process_table[i]] # Pid[p]
    BY <2>1, <2>2 DEF TableInv, TableOf
  <2>4. {i \in 1..SLOTS : process_table[i] = p} = {x}
    BY <2>1, <2>2, <2>3
  <2>5. Cardinality({x}) = 1
    BY FS_Singleton
  <2> QED
    BY <2>2, <2>3, <2>4, <2>5
<1> QED
  BY <1>1, ProcessesInvariant, PTL
=============================================================================
