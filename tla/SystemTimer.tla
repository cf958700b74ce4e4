---------------------------- MODULE SystemTimer -----------------------------
(***************************************************************************)
(* The system timer of driver/timer.c: the tick counter and sleep, which   *)
(* waits until the counter has reached a precomputed value.  Counter and   *)
(* products are unsigned machine words.                                    *)
(***************************************************************************)
EXTENDS Integers

CONSTANTS Thread,      \* the threads that call sleep
          WORD,        \* number of values of a uint32_t
          SECOND,      \* milliseconds per second, 1000 in the code
          frequency,   \* what kmain passes to init_system_timer
          Duration     \* the arguments of sleep, in milliseconds

ASSUME TimerAssumption ==
  /\ WORD \in Nat \ {0} /\ SECOND \in Nat \ {0}
  /\ frequency \in 1..(WORD - 1)
  /\ Duration \subseteq 0..(WORD - 1)

VARIABLES ticks,
          freq,
          sleeping,      \* the threads inside sleep
          ms,            \* their argument
          final_ticks,   \* the counter value each waits for
          elapsed        \* history: ticks since the call, at most WORD

timerVars == <<ticks, freq, sleeping, ms, final_ticks, elapsed>>

(* The duration sleep computes, in words, and the one it is asked for. *)
Computed(m) == ((m * freq) % WORD) \div SECOND
Asked(m) == (m * freq) \div SECOND

TimerInit ==
  /\ ticks = 0 /\ freq = 0
  /\ sleeping = {}
  /\ ms = [t \in Thread |-> 0]
  /\ final_ticks = [t \in Thread |-> 0]
  /\ elapsed = [t \in Thread |-> 0]

init_system_timer ==
  /\ freq = 0
  /\ freq' = frequency
  /\ UNCHANGED <<ticks, sleeping, ms, final_ticks, elapsed>>

(* Registered by init_system_timer. *)
_timer_interrupt_handler ==
  /\ freq # 0
  /\ ticks' = (ticks + 1) % WORD
  /\ elapsed' = [t \in Thread |->
                   IF t \in sleeping /\ elapsed[t] < WORD
                   THEN elapsed[t] + 1 ELSE elapsed[t]]
  /\ UNCHANGED <<freq, sleeping, ms, final_ticks>>

(* Mutant of sleep_begin: the deadline is one tick early. *)
sleep_begin_Early(t, m) ==
  /\ freq # 0
  /\ t \notin sleeping
  /\ sleeping' = sleeping \cup {t}
  /\ ms' = [ms EXCEPT ![t] = m]
  /\ final_ticks' = [final_ticks EXCEPT ![t] =
                       IF Computed(m) = 0 THEN ticks ELSE (ticks + Computed(m) - 1) % WORD]
  /\ elapsed' = [elapsed EXCEPT ![t] = 0]
  /\ UNCHANGED <<ticks, freq>>

(* sleep, up to its loop. *)
sleep_begin(t, m) ==
  /\ freq # 0
  /\ t \notin sleeping
  /\ sleeping' = sleeping \cup {t}
  /\ ms' = [ms EXCEPT ![t] = m]
  /\ final_ticks' = [final_ticks EXCEPT ![t] = (ticks + Computed(m)) % WORD]
  /\ elapsed' = [elapsed EXCEPT ![t] = 0]
  /\ UNCHANGED <<ticks, freq>>

(* The last round of sleep's loop; its variables are gone. *)
sleep_end(t) ==
  /\ t \in sleeping
  /\ final_ticks[t] <= ticks
  /\ sleeping' = sleeping \ {t}
  /\ ms' = [ms EXCEPT ![t] = 0]
  /\ final_ticks' = [final_ticks EXCEPT ![t] = 0]
  /\ elapsed' = [elapsed EXCEPT ![t] = 0]
  /\ UNCHANGED <<ticks, freq>>

-----------------------------------------------------------------------------
(* The calls for which sleep is right: neither the product nor the         *)
(* deadline exceeds a word.                                                *)
Fits(m) == m * freq < WORD /\ ticks + Asked(m) < WORD

TimerNext ==
  \/ init_system_timer
  \/ _timer_interrupt_handler
  \/ \E t \in Thread, m \in Duration : Fits(m) /\ sleep_begin(t, m)
  \/ \E t \in Thread : sleep_end(t)

TimerSpec == TimerInit /\ [][TimerNext]_timerVars

(* Any call: for these only the types hold. *)
TimerNextAny ==
  TimerNext \/ \E t \in Thread, m \in Duration : sleep_begin(t, m)

TimerSpecAny == TimerInit /\ [][TimerNextAny]_timerVars

-----------------------------------------------------------------------------
(* Every variable has values the code can give it. *)
TimerTypeOK ==
  /\ ticks \in 0..(WORD - 1)
  /\ freq \in {0, frequency}
  /\ sleeping \subseteq Thread
  /\ ms \in [Thread -> Duration \cup {0}]
  /\ final_ticks \in [Thread -> 0..(WORD - 1)]
  /\ elapsed \in [Thread -> 0..WORD]

(* A sleep whose product and deadline fit a word when it is called (Fits)  *)
(* does not return before the time has passed it was asked for, however    *)
(* late its thread gets to look at the counter.  One called so shortly     *)
(* before the counter wraps that the deadline wraps does, at once: with    *)
(* TimerSpecAny the property fails.                                        *)
SleepLongEnough ==
  [][\A t \in sleeping : t \notin sleeping' => elapsed[t] >= Asked(ms[t])]_timerVars

(* Why: until the asked time has passed, the counter is that far below the *)
(* deadline and has not wrapped.                                           *)
SleepInv ==
  \A t \in sleeping :
    /\ freq # 0
    /\ Asked(ms[t]) \in 0..(WORD - 1)
    /\ elapsed[t] < Asked(ms[t]) =>
         ticks = final_ticks[t] - Asked(ms[t]) + elapsed[t]
=============================================================================
