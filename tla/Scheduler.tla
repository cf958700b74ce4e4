----------------------------- MODULE Scheduler ------------------------------
(***************************************************************************)
(* Threads and the round-robin scheduler of proc/process.c, at the level   *)
(* of its pointers: the ready queue is the list queue -> next_ready -> ... *)
(* with the cached end queue_tail, a thread_t is a block of memory that    *)
(* thread_destroy frees and thread_create may reuse, and a timer tick can  *)
(* arrive while scheduler_tick is still running.                           *)
(*                                                                         *)
(* Every thread has priority PROCESS_PRI_DEFAULT (thread_create,           *)
(* scheduler_init), so of queue[0..10] only one list is ever used and it   *)
(* is the one modelled.  scheduler_post, thread_exit and thread_destroy    *)
(* run with interrupts disabled and are one step each.  scheduler_tick is  *)
(* entered through an interrupt gate, but the scheduler_post it calls ends *)
(* in an unconditional sti: from there to its own cli it can be            *)
(* interrupted by the next tick (the PIC has been acknowledged before the  *)
(* handler runs), and it is therefore two steps.                           *)
(***************************************************************************)
EXTENDS Fifo

CONSTANTS Thread,          \* addresses a thread_t can have
          kernel_thread,   \* the one scheduler_init makes, which runs kmain
          Proc,            \* the processes, all alive here
          kernel_process,
          NULL,
          SLICE,           \* ticks of a turn (5 in process.h)
          MaxNested        \* ticks that can fall into one scheduler_tick

(* A turn outlasts the ticks that can hit the few instructions between the *)
(* sti and the cli of one scheduler_tick.                                  *)
ASSUME SchedulerAssumption ==
  /\ kernel_thread \in Thread
  /\ kernel_process \in Proc
  /\ NULL \notin Thread
  /\ SLICE \in Nat \ {0}
  /\ MaxNested \in Nat
  /\ MaxNested < SLICE

VARIABLES
  alloc,          \* the thread_t blocks that are allocated
  parent,         \* thread->parent
  state,          \* thread->state
  next_ready,     \* thread->next_ready
  time_slice,     \* thread->time_slice
  trap_frame,     \* what thread->trap_frame points to (see Frames)
  queue,          \* queue[PROCESS_PRI_DEFAULT]
  queue_tail,     \* queue_tail[PROCESS_PRI_DEFAULT]
  current_thread,
  cr3,            \* the process whose page directory is loaded
  tss_esp0,       \* the thread whose kernel stack the TSS names
  cpu,            \* what the processor does (see Cpu)
  nested,         \* ticks taken inside the scheduler_tick under way
  ready           \* history: posted and not yet run, in posting order

vars == <<alloc, parent, state, next_ready, time_slice, trap_frame, queue,
          queue_tail, current_thread, cr3, tss_esp0, cpu, nested, ready>>

READY == "ready"
RUNNING == "running"
TERMINATED == "terminated"
States == {READY, RUNNING, TERMINATED}

(* "none": a null pointer; "fresh": the frame thread_create builds;        *)
(* "saved": the frame of the tick that interrupted the thread; "lost": the *)
(* frame of a tick that interrupted scheduler_tick itself.  It lies below  *)
(* the stack pointer of the interrupted handler, whose next calls (cli,    *)
(* scheduler_switch) overwrite it.                                         *)
Frames == {"none", "fresh", "saved", "lost"}

(* "run": the current thread executes, interrupts enabled; "tick": in      *)
(* scheduler_tick between scheduler_post's sti and the cli; "spin": in the *)
(* endless loop of thread_exit, interrupts disabled; "fault": resumed from *)
(* a frame that is gone.                                                   *)
Cpu == {"run", "tick", "spin", "fault"}

(* The threads reached from queue through next_ready. *)
Queued == Reached(Thread, queue, next_ready, NULL)

-----------------------------------------------------------------------------
(* scheduler_init: the kernel thread runs, the queue is empty.  The        *)
(* kernel's next_ready is not initialised.                                 *)
scheduler_init ==
  /\ alloc = {kernel_thread}
  /\ parent = [t \in Thread |-> kernel_process]
  /\ state = [t \in Thread |-> RUNNING]
  /\ \E garbage \in Thread \cup {NULL} :
       next_ready = [t \in Thread |-> IF t = kernel_thread THEN garbage ELSE NULL]
  /\ time_slice = [t \in Thread |-> SLICE]
  /\ trap_frame = [t \in Thread |-> "none"]
  /\ queue = NULL /\ queue_tail = NULL
  /\ current_thread = kernel_thread
  /\ cr3 = kernel_process
  /\ tss_esp0 = NULL
  /\ cpu = "run" /\ nested = 0
  /\ ready = <<>>

(* Mutant of thread_create: no initial trap frame is built. *)
thread_create_NoFrame(t, p) ==
  /\ cpu = "run"
  /\ t \notin alloc
  /\ alloc' = alloc \cup {t}
  /\ parent' = [parent EXCEPT ![t] = p]
  /\ state' = [state EXCEPT ![t] = READY]
  /\ time_slice' = [time_slice EXCEPT ![t] = SLICE]
  /\ next_ready' = [next_ready EXCEPT ![t] = NULL]
  /\ UNCHANGED <<trap_frame, queue, queue_tail, current_thread, cr3, tss_esp0,
                 cpu, nested, ready>>

(* thread_create: the block joins its parent's list, not the queue.  (When *)
(* the kernel stack cannot be allocated nothing remains of the call.)      *)
thread_create(t, p) ==
  /\ cpu = "run"
  /\ t \notin alloc
  /\ alloc' = alloc \cup {t}
  /\ parent' = [parent EXCEPT ![t] = p]
  /\ state' = [state EXCEPT ![t] = READY]
  /\ time_slice' = [time_slice EXCEPT ![t] = SLICE]
  /\ next_ready' = [next_ready EXCEPT ![t] = NULL]
  /\ trap_frame' = [trap_frame EXCEPT ![t] = "fresh"]
  /\ UNCHANGED <<queue, queue_tail, current_thread, cr3, tss_esp0, cpu,
                 nested, ready>>

(* Mutants of Enqueue: the cached tail is set only when the queue was      *)
(* empty; the thread goes to the head of the queue.                        *)
Enqueue_StaleTail(t) ==
  /\ state' = [state EXCEPT ![t] = READY]
  /\ next_ready' = IF queue = NULL
                   THEN [next_ready EXCEPT ![t] = NULL]
                   ELSE [next_ready EXCEPT ![t] = NULL, ![queue_tail] = t]
  /\ queue' = IF queue = NULL THEN t ELSE queue
  /\ queue_tail' = IF queue = NULL THEN t ELSE queue_tail
  /\ ready' = Append(ready, t)

Enqueue_AtHead(t) ==
  /\ state' = [state EXCEPT ![t] = READY]
  /\ next_ready' = [next_ready EXCEPT ![t] = queue]
  /\ queue' = t
  /\ queue_tail' = IF queue = NULL THEN t ELSE queue_tail
  /\ ready' = Append(ready, t)

(* The list operations of scheduler_post. *)
Enqueue(t) ==
  /\ state' = [state EXCEPT ![t] = READY]
  /\ next_ready' = IF queue = NULL
                   THEN [next_ready EXCEPT ![t] = NULL]
                   ELSE [next_ready EXCEPT ![t] = NULL, ![queue_tail] = t]
  /\ queue' = IF queue = NULL THEN t ELSE queue
  /\ queue_tail' = t
  /\ ready' = Append(ready, t)

(* scheduler_post, called for a thread: it returns at once if the thread   *)
(* is terminated.  Its callers (process_spawn, process_fork) post a thread *)
(* once, after creating it; the code does not look whether it is queued.   *)
scheduler_post(t) ==
  /\ cpu = "run"
  /\ t \in alloc /\ t # current_thread /\ t \notin Members(ready)
  /\ state[t] # TERMINATED
  /\ Enqueue(t)
  /\ UNCHANGED <<alloc, parent, time_slice, trap_frame, current_thread, cr3,
                 tss_esp0, cpu, nested>>

(* Taking the first thread off the queue, in scheduler_tick and            *)
(* thread_exit.  Neither looks at the state of the thread it takes, and    *)
(* neither touches queue_tail.                                             *)
Dequeue ==
  /\ queue' = next_ready[queue]
  /\ next_ready' = [next_ready EXCEPT ![queue] = NULL]
  /\ ready' = Without(ready, queue)

(* Mutants of scheduler_switch: a switch to the kernel keeps the address   *)
(* space; esp0 is set before current_thread and gets the old stack.        *)
scheduler_switch_LazyKernel(next, st) ==
  IF next = current_thread
  THEN state' = st /\ cpu' = "run" /\ UNCHANGED <<current_thread, cr3, tss_esp0>>
  ELSE /\ current_thread' = next
       /\ cr3' = IF parent[next] # kernel_process THEN parent[next] ELSE cr3
       /\ state' = [st EXCEPT ![next] = RUNNING]
       /\ tss_esp0' = IF next # kernel_thread THEN next ELSE tss_esp0
       /\ cpu' = IF trap_frame[next] \in {"fresh", "saved"} THEN "run" ELSE "fault"

scheduler_switch_OldStack(next, st) ==
  IF next = current_thread
  THEN state' = st /\ cpu' = "run" /\ UNCHANGED <<current_thread, cr3, tss_esp0>>
  ELSE /\ current_thread' = next
       /\ cr3' = IF parent[next] # parent[current_thread] THEN parent[next] ELSE cr3
       /\ state' = [st EXCEPT ![next] = RUNNING]
       /\ tss_esp0' = IF next # kernel_thread THEN current_thread ELSE tss_esp0
       /\ cpu' = IF trap_frame[next] \in {"fresh", "saved"} THEN "run" ELSE "fault"

(* scheduler_switch, with st the thread states it finds.  When the next    *)
(* thread is the current one it returns before it sets the state to        *)
(* RUNNING.                                                                *)
scheduler_switch(next, st) ==
  IF next = current_thread
  THEN /\ state' = st
       /\ cpu' = "run"
       /\ UNCHANGED <<current_thread, cr3, tss_esp0>>
  ELSE /\ current_thread' = next
       /\ cr3' = IF parent[next] # parent[current_thread] THEN parent[next] ELSE cr3
       /\ state' = [st EXCEPT ![next] = RUNNING]
       /\ tss_esp0' = IF next # kernel_thread THEN next ELSE tss_esp0
       /\ cpu' = IF trap_frame[next] \in {"fresh", "saved"} THEN "run" ELSE "fault"

(* Mutant of tick_counted: the slice is compared before it is decremented. *)
tick_counted_OffByOne ==
  /\ cpu = "run"
  /\ time_slice[current_thread] > 0
  /\ trap_frame' = [trap_frame EXCEPT ![current_thread] = "saved"]
  /\ time_slice' = [time_slice EXCEPT ![current_thread] = @ - 1]
  /\ UNCHANGED <<alloc, parent, state, next_ready, queue, queue_tail,
                 current_thread, cr3, tss_esp0, cpu, nested, ready>>

(* A tick in the middle of a turn. *)
tick_counted ==
  /\ cpu = "run"
  /\ time_slice[current_thread] > 1
  /\ trap_frame' = [trap_frame EXCEPT ![current_thread] = "saved"]
  /\ time_slice' = [time_slice EXCEPT ![current_thread] = @ - 1]
  /\ UNCHANGED <<alloc, parent, state, next_ready, queue, queue_tail,
                 current_thread, cr3, tss_esp0, cpu, nested, ready>>

(* Mutants of tick_expired: the slice is not refilled; the interrupted     *)
(* thread is not posted.                                                   *)
tick_expired_NoRefill ==
  /\ cpu = "run"
  /\ time_slice[current_thread] <= 1
  /\ trap_frame' = [trap_frame EXCEPT ![current_thread] = "saved"]
  /\ Enqueue(current_thread)
  /\ cpu' = "tick"
  /\ UNCHANGED <<alloc, parent, time_slice, current_thread, cr3, tss_esp0, nested>>

tick_expired_NotPosted ==
  /\ cpu = "run"
  /\ time_slice[current_thread] <= 1
  /\ trap_frame' = [trap_frame EXCEPT ![current_thread] = "saved"]
  /\ time_slice' = [time_slice EXCEPT ![current_thread] = SLICE]
  /\ cpu' = "tick"
  /\ UNCHANGED <<alloc, parent, state, next_ready, queue, queue_tail, ready,
                 current_thread, cr3, tss_esp0, nested>>

(* The tick that ends the turn, up to the sti of scheduler_post.           *)
tick_expired ==
  /\ cpu = "run"
  /\ time_slice[current_thread] <= 1
  /\ trap_frame' = [trap_frame EXCEPT ![current_thread] = "saved"]
  /\ time_slice' = [time_slice EXCEPT ![current_thread] = SLICE]
  /\ Enqueue(current_thread)
  /\ cpu' = "tick"
  /\ UNCHANGED <<alloc, parent, current_thread, cr3, tss_esp0, nested>>

(* A tick that arrives before scheduler_tick has disabled interrupts       *)
(* again: the same handler, on top of itself, for the same current thread. *)
tick_nested ==
  /\ cpu = "tick"
  /\ nested < MaxNested
  /\ nested' = nested + 1
  /\ trap_frame' = [trap_frame EXCEPT ![current_thread] = "lost"]
  /\ time_slice' = [time_slice EXCEPT ![current_thread] = @ - 1]
  /\ UNCHANGED <<alloc, parent, state, next_ready, queue, queue_tail,
                 current_thread, cr3, tss_esp0, cpu, ready>>

(* The rest of scheduler_tick: the first thread in line runs. *)
tick_switch ==
  /\ cpu = "tick"
  /\ nested' = 0
  /\ IF queue = NULL
     THEN /\ cpu' = "run"
          /\ UNCHANGED <<queue, next_ready, ready, state, current_thread,
                         cr3, tss_esp0>>
     ELSE Dequeue /\ scheduler_switch(queue, state)
  /\ UNCHANGED <<alloc, parent, time_slice, trap_frame, queue_tail>>

(* Mutant of thread_exit: it leaves the switch to the next tick. *)
thread_exit_NoSwitch ==
  /\ cpu = "run"
  /\ current_thread # kernel_thread
  /\ state' = [state EXCEPT ![current_thread] = TERMINATED]
  /\ UNCHANGED <<alloc, parent, next_ready, time_slice, trap_frame, queue,
                 queue_tail, current_thread, cr3, tss_esp0, cpu, nested, ready>>

(* thread_exit: the current thread is over; the next one runs, or the      *)
(* processor loops for ever with interrupts disabled.  The kernel thread   *)
(* never calls it: kmain does not return.                                  *)
thread_exit ==
  LET st == [state EXCEPT ![current_thread] = TERMINATED]
  IN  /\ cpu = "run"
      /\ current_thread # kernel_thread
      /\ IF queue = NULL
         THEN /\ cpu' = "spin" /\ state' = st
              /\ UNCHANGED <<queue, next_ready, ready, current_thread, cr3,
                             tss_esp0>>
         ELSE Dequeue /\ scheduler_switch(queue, st)
      /\ UNCHANGED <<alloc, parent, time_slice, trap_frame, queue_tail, nested>>

(* Mutant of thread_destroy: the thread stays linked in the queue. *)
thread_destroy_LeftQueued(t) ==
  /\ cpu = "run"
  /\ t \in alloc \ {current_thread, kernel_thread}
  /\ state[t] # RUNNING
  /\ alloc' = alloc \ {t}
  /\ UNCHANGED <<parent, state, next_ready, time_slice, trap_frame, queue,
                 queue_tail, current_thread, cr3, tss_esp0, cpu, nested, ready>>

(* thread_destroy: refused for a RUNNING thread; otherwise the thread is   *)
(* unlinked from the queue and from its parent's list and freed.  The      *)
(* caller passes a thread other than its own and the kernel's.  queue_tail *)
(* is left alone.                                                          *)
thread_destroy(t) ==
  /\ cpu = "run"
  /\ t \in alloc \ {current_thread, kernel_thread}
  /\ state[t] # RUNNING
  /\ queue' = IF queue = t THEN next_ready[t] ELSE queue
  /\ next_ready' = [u \in Thread |->
                      IF queue # t /\ u \in Queued /\ next_ready[u] = t
                      THEN next_ready[t] ELSE next_ready[u]]
  /\ alloc' = alloc \ {t}
  /\ ready' = Without(ready, t)
  /\ UNCHANGED <<parent, state, time_slice, trap_frame, queue_tail,
                 current_thread, cr3, tss_esp0, cpu, nested>>

(* The callers thread_destroy is correct for: they do not take away the    *)
(* last thread of a longer queue.                                          *)
LeavesTail(t) == t = queue_tail => queue \in {t, NULL}

-----------------------------------------------------------------------------
Next ==
  \/ \E t \in Thread, p \in Proc : thread_create(t, p)
  \/ \E t \in Thread : scheduler_post(t)
  \/ \E t \in Thread : LeavesTail(t) /\ thread_destroy(t)
  \/ tick_counted
  \/ tick_expired
  \/ tick_nested
  \/ tick_switch
  \/ thread_exit

(* The timer keeps ticking and its handler runs to its end. *)
Fairness == WF_vars(tick_counted \/ tick_expired \/ tick_switch)

SafeSpec == scheduler_init /\ [][Next]_vars
Spec == SafeSpec /\ Fairness

-----------------------------------------------------------------------------
(* Every variable has values the code can give it; in particular a turn    *)
(* has between 1 and SLICE ticks left when a tick finds it (time_slice is  *)
(* unsigned: one decrement too many makes it 2^32 - 1).                    *)
TypeOK ==
  /\ alloc \subseteq Thread
  /\ parent \in [Thread -> Proc]
  /\ state \in [Thread -> States]
  /\ next_ready \in [Thread -> Thread \cup {NULL}]
  /\ time_slice \in [Thread -> 1..SLICE]
  /\ trap_frame \in [Thread -> Frames]
  /\ queue \in Thread \cup {NULL}
  /\ queue_tail \in Thread \cup {NULL}
  /\ current_thread \in Thread
  /\ cr3 \in Proc
  /\ tss_esp0 \in Thread \cup {NULL}
  /\ cpu \in Cpu
  /\ nested \in 0..MaxNested
  /\ ready \in Seq(Thread)

(* The linked list is the line of posted threads: queue is the first of    *)
(* them, next_ready leads from each to the one posted after it and from    *)
(* the last to NULL, and while there is one queue_tail is the last.        *)
ReadyQueueIntact == IsList(ready, queue, queue_tail, next_ready, NULL)

(* No pointer the scheduler follows leads to a freed thread: neither       *)
(* current_thread, nor any thread the queue leads to.                      *)
NoFreedThreadReached == {current_thread} \cup Queued \subseteq alloc

(* thread_exit always finds a thread to switch to, because the kernel      *)
(* thread, which never exits, is running or in line.                       *)
NeverSpins ==
  /\ cpu # "spin"
  /\ current_thread = kernel_thread \/ kernel_thread \in Members(ready)

(* The page directory in cr3 is that of the process whose thread runs,     *)
(* although scheduler_switch loads it only when the parents differ.        *)
AddressSpaceMatches == cr3 = parent[current_thread]

(* An interrupt of a thread with a kernel stack is taken on that stack,    *)
(* although neither a switch to the kernel thread nor the early return of  *)
(* scheduler_switch sets esp0.                                             *)
KernelStackMatches == current_thread # kernel_thread => tss_esp0 = current_thread

(* Whoever stands in line has a frame to be resumed from; the kernel       *)
(* thread, created without one, has got it from the tick that queued it.   *)
QueuedHaveFrames == \A t \in Members(ready) : trap_frame[t] # "none"

(* A tick inside scheduler_tick never ends the turn a second time: it      *)
(* would put the current thread, already queued, behind itself.            *)
NestedTickReturns ==
  cpu = "tick" => /\ current_thread \in Members(ready)
                  /\ nested < MaxNested => time_slice[current_thread] > 1

(* Why these hold, together: the inductive invariant of the proofs.  The   *)
(* current thread is at the end of the queue exactly while scheduler_tick  *)
(* is under way, and then its new turn has lost only the nested ticks.     *)
Inv ==
  /\ TypeOK
  /\ ReadyQueueIntact
  /\ Members(ready) \cup {current_thread, kernel_thread} \subseteq alloc
  /\ cpu = "tick" => /\ ready # <<>> /\ ready[Len(ready)] = current_thread
                     /\ time_slice[current_thread] = SLICE - nested
  /\ cpu # "tick" => current_thread \notin Members(ready) /\ nested = 0
  /\ \A t \in Members(ready) : state[t] = READY
  /\ state[current_thread] # TERMINATED
  /\ \A t \in alloc : trap_frame[t] = "none" => t = kernel_thread /\ t \notin Members(ready)
  /\ NeverSpins
  /\ AddressSpaceMatches
  /\ KernelStackMatches

(* A thread that has called thread_exit never gets the processor again.    *)
TerminatedNeverRuns ==
  [][\A t \in alloc : state[t] = TERMINATED => current_thread' # t]_vars

(* A thread is resumed where it was interrupted: the frame it is resumed   *)
(* from still exists.                                                      *)
ResumesIntact == cpu # "fault"

(* A posted thread executes, unless it is destroyed first. *)
PostedThreadRuns ==
  \A t \in Thread :
    t \in Members(ready) ~> (current_thread = t /\ cpu = "run") \/ t \notin alloc

(* The refinement mapping.  While scheduler_tick is under way the current  *)
(* thread, already at the end of the queue, still counts as running.       *)
Waiting == IF cpu = "tick" THEN Front(ready) ELSE ready

RR == INSTANCE RoundRobin WITH running <- current_thread, waiting <- Waiting

(* Every behaviour is one of the abstract scheduler. *)
ImplementsRoundRobin == RR!RRSpec
=============================================================================
