----------------------------- MODULE Processes ------------------------------
(***************************************************************************)
(* Processes over the scheduler: process_create, process_destroy,          *)
(* process_spawn and process_fork of proc/process.c.  They are called by   *)
(* threads that the timer can interrupt, so every operation is a sequence  *)
(* of steps of the thread that executes it, which go on only while that    *)
(* thread is the current one; scheduling is that of module Scheduler.      *)
(* Only process_fork disables interrupts and is one step.                  *)
(***************************************************************************)
EXTENDS Scheduler, FiniteSets

CONSTANTS SLOTS,         \* size of process_table, 128
          Caller,        \* the threads that call the operations
          MaxPid         \* bound on the number of processes ever created

ASSUME ProcessAssumption ==
  /\ SLOTS \in Nat /\ MaxPid \in Nat
  /\ NULL \notin Proc /\ Caller \subseteq Thread

VARIABLES
  palloc,           \* the process_t blocks that are allocated
  pstate,           \* process->state
  Pid,
  threads,          \* process->threads, the first thread of the process
  next,             \* thread->next, the list of the process's threads
  process_table,
  current_pid,
  at,               \* the step a thread is at in an operation (see Steps)
  arg,              \* the process it works on
  val,              \* the pid it has loaded, the slot it has found
  ptr               \* the thread it has created, or destroys next

procVars == <<palloc, pstate, Pid, threads, next, process_table, current_pid>>
opVars == <<at, arg, val, ptr>>
allVars == <<vars, procVars, opVars>>

Steps == {"none", "load_pid", "store_pid", "scan", "store", "load", "thread",
          "post", "destroy"}

ProcessesInit ==
  /\ scheduler_init
  /\ palloc = {kernel_process}
  /\ pstate = [p \in Proc |-> RUNNING]
  /\ Pid = [p \in Proc |-> 1]
  /\ threads = [p \in Proc |-> IF p = kernel_process THEN kernel_thread ELSE NULL]
  /\ next = [t \in Thread |-> NULL]
  /\ process_table = [i \in 1..SLOTS |-> NULL]
  /\ current_pid = 2
  /\ at = [t \in Thread |-> "none"]
  /\ arg = [t \in Thread |-> NULL]
  /\ val = [t \in Thread |-> 0]
  /\ ptr = [t \in Thread |-> NULL]

-----------------------------------------------------------------------------
me == current_thread
At(step) == cpu = "run" /\ me \in Caller /\ at[me] = step
Goto(step) == at' = [at EXCEPT ![me] = step]

(* Mutant of FreeSlot: the slot is not looked at. *)
FreeSlot_First == IF SLOTS = 0 THEN 0 ELSE 1

(* The first free slot of the table, or 0. *)
FreeSlot ==
  IF \E i \in 1..SLOTS : process_table[i] = NULL
  THEN CHOOSE i \in 1..SLOTS : /\ process_table[i] = NULL
                               /\ \A j \in 1..(i - 1) : process_table[j] # NULL
  ELSE 0

(* process_create, on a block just allocated: the pid is taken, then       *)
(* current_pid++ loads and stores it, then the thread list is emptied and  *)
(* a free slot looked for, then the slot is written.                       *)
process_create(p) ==
  /\ At("none") /\ current_pid <= MaxPid
  /\ p \notin palloc
  /\ palloc' = palloc \cup {p}
  /\ pstate' = [pstate EXCEPT ![p] = READY]
  /\ Pid' = [Pid EXCEPT ![p] = current_pid]
  /\ Goto("load_pid") /\ arg' = [arg EXCEPT ![me] = p]
  /\ UNCHANGED <<vars, threads, next, process_table, current_pid, val, ptr>>

load_pid ==
  /\ At("load_pid")
  /\ Goto("store_pid") /\ val' = [val EXCEPT ![me] = current_pid]
  /\ UNCHANGED <<vars, procVars, arg, ptr>>

store_pid ==
  /\ At("store_pid")
  /\ current_pid' = val[me] + 1
  /\ Goto("scan")
  /\ UNCHANGED <<vars, palloc, pstate, Pid, threads, next, process_table, arg, val, ptr>>

scan_table ==
  /\ At("scan")
  /\ threads' = [threads EXCEPT ![arg[me]] = NULL]
  /\ Goto("store") /\ val' = [val EXCEPT ![me] = FreeSlot]
  /\ UNCHANGED <<vars, palloc, pstate, Pid, next, process_table, current_pid, arg, ptr>>

(* Without a free slot the process is not entered.  process_spawn goes on  *)
(* with elf_load; other callers of process_create are done.                *)
store_slot ==
  /\ At("store")
  /\ process_table' = [i \in 1..SLOTS |-> IF i = val[me] THEN arg[me] ELSE process_table[i]]
  /\ Goto("load") \/ Goto("none")
  /\ val' = [val EXCEPT ![me] = 0]
  /\ UNCHANGED <<vars, palloc, pstate, Pid, threads, next, current_pid, arg, ptr>>

(* Mutant of Destroy: the process stays in the table. *)
Destroy_LeftInTable(p) ==
  /\ pstate' = [pstate EXCEPT ![p] = TERMINATED]
  /\ Goto("destroy")
  /\ arg' = [arg EXCEPT ![me] = p] /\ ptr' = [ptr EXCEPT ![me] = threads[p]]
  /\ UNCHANGED <<vars, palloc, Pid, threads, next, process_table, current_pid, val>>

(* The beginning of process_destroy. *)
Destroy(p) ==
  /\ pstate' = [pstate EXCEPT ![p] = TERMINATED]
  /\ process_table' = [i \in 1..SLOTS |->
                         IF /\ process_table[i] = p
                            /\ \A j \in 1..(i - 1) : process_table[j] # p
                         THEN NULL ELSE process_table[i]]
  /\ Goto("destroy")
  /\ arg' = [arg EXCEPT ![me] = p] /\ ptr' = [ptr EXCEPT ![me] = threads[p]]
  /\ UNCHANGED <<vars, palloc, Pid, threads, next, current_pid, val>>

(* process_spawn: the program is loaded and its thread created, or the     *)
(* process destroyed again.                                                *)
elf_load_fails == At("load") /\ Destroy(arg[me])

elf_load ==
  /\ At("load")
  /\ Goto("thread")
  /\ UNCHANGED <<vars, procVars, arg, val, ptr>>

(* Mutant of create_thread: the threads there are get lost. *)
create_thread_Unlinked(t) ==
  /\ At("thread")
  /\ thread_create(t, arg[me])
  /\ next' = [next EXCEPT ![t] = NULL]
  /\ threads' = [threads EXCEPT ![arg[me]] = t]
  /\ Goto("post") /\ ptr' = [ptr EXCEPT ![me] = t]
  /\ UNCHANGED <<palloc, pstate, Pid, process_table, current_pid, arg, val>>

(* thread_create puts the thread at the head of its process's list. *)
create_thread(t) ==
  /\ At("thread")
  /\ thread_create(t, arg[me])
  /\ next' = [next EXCEPT ![t] = threads[arg[me]]]
  /\ threads' = [threads EXCEPT ![arg[me]] = t]
  /\ Goto("post") /\ ptr' = [ptr EXCEPT ![me] = t]
  /\ UNCHANGED <<palloc, pstate, Pid, process_table, current_pid, arg, val>>

post_thread ==
  /\ At("post")
  /\ scheduler_post(ptr[me])
  /\ Goto("none")
  /\ ptr' = [ptr EXCEPT ![me] = NULL]
  /\ UNCHANGED <<procVars, arg, val>>

(* Another thread for a process there is. *)
more_threads(p) ==
  /\ At("none") /\ p \in palloc \ {kernel_process} /\ pstate[p] # TERMINATED
  /\ Goto("thread") /\ arg' = [arg EXCEPT ![me] = p]
  /\ UNCHANGED <<vars, procVars, val, ptr>>

(* process_destroy of another process than one's own. *)
process_destroy(p) ==
  /\ At("none")
  /\ p \in palloc \ {kernel_process, parent[me]} /\ pstate[p] # TERMINATED
  /\ Destroy(p)

(* The loop of process_destroy: the next thread is remembered before this  *)
(* one is destroyed; a RUNNING one is refused.                             *)
destroy_thread ==
  LET t == ptr[me]
      p == parent[t]
  IN  /\ At("destroy") /\ t # NULL
      /\ ptr' = [ptr EXCEPT ![me] = next[t]]
      /\ IF state[t] = RUNNING
         THEN UNCHANGED <<vars, threads, next, at>>
         ELSE /\ thread_destroy(t)
              /\ at' = [at EXCEPT ![t] = "none"]
              /\ threads' = IF threads[p] = t THEN [threads EXCEPT ![p] = next[t]]
                            ELSE threads
              /\ next' = [u \in Thread |->
                            IF /\ threads[p] # t /\ next[u] = t
                               /\ u \in Reached(Thread, threads[p], next, NULL)
                            THEN next[t] ELSE next[u]]
      /\ UNCHANGED <<palloc, pstate, Pid, process_table, current_pid, arg, val>>

(* Mutant of free_process: the process is freed while it has threads. *)
free_process_Early ==
  /\ At("destroy")
  /\ palloc' = palloc \ {arg[me]}
  /\ Goto("none")
  /\ UNCHANGED <<vars, pstate, Pid, threads, next, process_table, current_pid,
                 arg, val, ptr>>

(* The end of process_destroy: the process is freed. *)
free_process ==
  /\ At("destroy") /\ ptr[me] = NULL
  /\ palloc' = palloc \ {arg[me]}
  /\ Goto("none")
  /\ UNCHANGED <<vars, pstate, Pid, threads, next, process_table, current_pid,
                 arg, val, ptr>>

(* What process_create and the failing or successful rest of process_fork  *)
(* leave in the table.                                                     *)
Enter(p) ==
  /\ current_pid <= MaxPid /\ p \notin palloc
  /\ pstate' = [pstate EXCEPT ![p] = READY]
  /\ Pid' = [Pid EXCEPT ![p] = current_pid]
  /\ current_pid' = current_pid + 1
  /\ process_table' = [i \in 1..SLOTS |-> IF i = FreeSlot THEN p ELSE process_table[i]]

(* process_fork: any thread that has been interrupted before. *)
process_fork(p, t) ==
  /\ cpu = "run" /\ at[me] = "none" /\ trap_frame[me] # "none"
  /\ Enter(p)
  /\ palloc' = palloc \cup {p}
  /\ t \notin alloc
  /\ alloc' = alloc \cup {t}
  /\ parent' = [parent EXCEPT ![t] = p]
  /\ time_slice' = [time_slice EXCEPT ![t] = SLICE]
  /\ trap_frame' = [trap_frame EXCEPT ![t] = "fresh"]
  /\ Enqueue(t)
  /\ next' = [next EXCEPT ![t] = NULL]
  /\ threads' = [threads EXCEPT ![p] = t]
  /\ UNCHANGED <<current_thread, cr3, tss_esp0, cpu, nested, opVars>>

(* Its failures after process_create: the child is freed again. *)
process_fork_fails(p) ==
  /\ cpu = "run" /\ at[me] = "none" /\ trap_frame[me] # "none"
  /\ Enter(p)
  /\ threads' = [threads EXCEPT ![p] = NULL]
  /\ UNCHANGED <<vars, palloc, next, opVars>>

-----------------------------------------------------------------------------
(* The processes whose process_create is under way. *)
Creating ==
  {arg[t] : t \in {u \in Thread : at[u] \in {"load_pid", "store_pid", "scan", "store"}}}

CallerStep ==
  \/ \E p \in Proc : process_create(p) \/ more_threads(p) \/ process_destroy(p)
  \/ load_pid \/ store_pid \/ scan_table \/ store_slot
  \/ elf_load \/ elf_load_fails
  \/ \E t \in Thread : create_thread(t)
  \/ post_thread
  \/ destroy_thread \/ free_process

ForkStep == \E p \in Proc, t \in Thread : process_fork(p, t)

SchedulerStep ==
  /\ \/ tick_counted \/ tick_expired \/ tick_nested \/ tick_switch
     \/ at[me] = "none" /\ thread_exit
  /\ UNCHANGED <<procVars, opVars>>

(* process_create is not safe against another one: here nobody forks       *)
(* meanwhile.                                                              *)
ProcessesNext == CallerStep \/ (Creating = {} /\ ForkStep) \/ SchedulerStep
ProcessesSpec == ProcessesInit /\ [][ProcessesNext]_allVars

(* process_fork may run out of memory. *)
NoMemorySpec ==
  ProcessesInit
  /\ [][ProcessesNext \/ \E p \in Proc : Creating = {} /\ process_fork_fails(p)]_allVars

-----------------------------------------------------------------------------
(* The process table leads process_find_by_pid to no freed and no          *)
(* terminated process.                                                     *)
TableLive ==
  \A i \in 1..SLOTS :
    process_table[i] # NULL =>
      process_table[i] \in palloc /\ pstate[process_table[i]] # TERMINATED

(* scheduler_switch reads parent->dir of the current and of the next       *)
(* thread: no such process is ever freed, although process_destroy can be  *)
(* interrupted between any two of the threads it destroys.                 *)
ParentAlive == \A t \in {current_thread} \cup Queued : parent[t] \in palloc

(* A process in the table has exactly its threads in its list: none that   *)
(* was freed, none twice and none missing.                                 *)
ThreadListExact ==
  \A p \in {process_table[i] : i \in 1..SLOTS} \ {NULL} :
    Reached(Thread, threads[p], next, NULL) = {t \in alloc : parent[t] = p}

(* A process that has been created and not destroyed is found by its pid,  *)
(* and nobody else is: it is in one slot, and its pid is its own.          *)
Findable ==
  \A p \in palloc \ (Creating \cup {kernel_process}) :
    pstate[p] # TERMINATED =>
      /\ Cardinality({i \in 1..SLOTS : process_table[i] = p}) = 1
      /\ \A i \in 1..SLOTS :
           process_table[i] \notin {NULL, p} => Pid[process_table[i]] # Pid[p]
=============================================================================
