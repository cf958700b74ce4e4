-------------------------- MODULE TimerPicProofs ----------------------------
(***************************************************************************)
(* sleep never returns early, for every word size, frequency and duration, *)
(* as long as product and deadline fit in a word.  Behind the interrupt    *)
(* controllers the timer still is the timer, so that this carries over;    *)
(* and no interrupt leaves anything in service, for any lines and any      *)
(* state of the firmware.                                                  *)
(***************************************************************************)
EXTENDS TimerPic, TLAPS

USE TimerAssumption

(* Words that do not overflow. *)
LEMMA WordFacts ==
  /\ \A x \in Nat : x < WORD => x % WORD = x
  /\ \A x \in Nat : x % WORD \in 0..(WORD - 1)
  /\ \A x \in Nat : x \div SECOND \in Nat
  OBVIOUS

(* What sleep computes is a natural number, and is what it was asked for   *)
(* when the product fits.                                                  *)
LEMMA DurationFacts ==
  ASSUME TimerTypeOK, NEW m \in Nat
  PROVE  /\ Computed(m) \in Nat /\ Asked(m) \in Nat
         /\ m * freq < WORD => Computed(m) = Asked(m)
<1>1. m * freq \in Nat
  BY DEF TimerTypeOK
<1>2. (m * freq) % WORD \in Nat
  BY <1>1, WordFacts
<1> QED
  BY <1>1, <1>2, WordFacts DEF Computed, Asked

(* The type invariant is inductive by itself, for all calls of sleep. *)
LEMMA TimerTypeStep == TimerTypeOK /\ [TimerNextAny]_timerVars => TimerTypeOK'
<1> SUFFICES ASSUME TimerTypeOK, [TimerNextAny]_timerVars PROVE TimerTypeOK'
  OBVIOUS
<1>1. CASE init_system_timer
  BY <1>1 DEF TimerTypeOK, init_system_timer
<1>2. CASE _timer_interrupt_handler
  <2>1. (ticks + 1) % WORD \in 0..(WORD - 1)
    BY WordFacts DEF TimerTypeOK
  <2>2. elapsed' \in [Thread -> 0..WORD]
    BY <1>2 DEF TimerTypeOK, _timer_interrupt_handler
  <2> QED
    BY <1>2, <2>1, <2>2 DEF TimerTypeOK, _timer_interrupt_handler
<1>3. CASE \E t \in Thread, m \in Duration : sleep_begin(t, m)
  <2>1. PICK t \in Thread, m \in Duration : sleep_begin(t, m)
    BY <1>3
  <2>2. ticks + Computed(m) \in Nat
    BY DurationFacts DEF TimerTypeOK
  <2>3. (ticks + Computed(m)) % WORD \in 0..(WORD - 1)
    BY <2>2, WordFacts
  <2> QED
    BY <2>1, <2>3 DEF TimerTypeOK, sleep_begin
<1>4. CASE \E t \in Thread : sleep_end(t)
  BY <1>4 DEF TimerTypeOK, sleep_end
<1>5. CASE UNCHANGED timerVars
  BY <1>5 DEF TimerTypeOK, timerVars
<1> QED
  BY <1>1, <1>2, <1>3, <1>4, <1>5 DEF TimerNextAny, TimerNext

(* A tick brings every sleeper one closer to its deadline; the counter     *)
(* cannot wrap before.                                                     *)
LEMMA TickKeepsInv ==
  ASSUME TimerTypeOK, SleepInv, _timer_interrupt_handler
  PROVE  SleepInv'
<1> SUFFICES ASSUME NEW t \in sleeping
             PROVE  /\ freq # 0
                    /\ Asked(ms[t]) \in 0..(WORD - 1)
                    /\ elapsed'[t] < Asked(ms[t]) =>
                         ticks' = final_ticks[t] - Asked(ms[t]) + elapsed'[t]
  BY DEF SleepInv, _timer_interrupt_handler, Asked
<1> DEFINE a == Asked(ms[t])
<1>1. /\ freq # 0 /\ a \in 0..(WORD - 1)
      /\ elapsed[t] < a => ticks = final_ticks[t] - a + elapsed[t]
  BY DEF SleepInv
<1>2. /\ t \in Thread /\ ticks \in 0..(WORD - 1)
      /\ elapsed[t] \in 0..WORD /\ final_ticks[t] \in 0..(WORD - 1)
  BY DEF TimerTypeOK
<1>3. /\ ticks' = (ticks + 1) % WORD
      /\ elapsed'[t] = IF elapsed[t] < WORD THEN elapsed[t] + 1 ELSE elapsed[t]
  BY <1>2 DEF _timer_interrupt_handler
<1> HIDE DEF a
<1>4. ASSUME elapsed'[t] < a PROVE ticks' = final_ticks[t] - a + elapsed'[t]
  <2>1. elapsed[t] + 1 < a /\ elapsed'[t] = elapsed[t] + 1
    BY <1>1, <1>2, <1>3, <1>4
  <2>2. ticks + 1 = final_ticks[t] - a + (elapsed[t] + 1) /\ ticks + 1 < WORD
    BY <1>1, <1>2, <2>1
  <2>3. (ticks + 1) % WORD = ticks + 1
    BY <1>2, <2>2, WordFacts
  <2> QED
    BY <1>3, <2>1, <2>2, <2>3
<1> QED
  BY <1>1, <1>4 DEF a

(* A call that fits starts Asked ticks below its deadline. *)
LEMMA BeginKeepsInv ==
  ASSUME TimerTypeOK, SleepInv, NEW t \in Thread, NEW m \in Duration,
         Fits(m), sleep_begin(t, m)
  PROVE  SleepInv'
<1>1. /\ m \in Nat /\ ticks \in 0..(WORD - 1) /\ freq # 0
  BY DEF TimerTypeOK, sleep_begin
<1>2. /\ Computed(m) = Asked(m) /\ Asked(m) \in Nat
      /\ ticks + Asked(m) < WORD
  BY <1>1, DurationFacts DEF Fits
<1>3. (ticks + Computed(m)) % WORD = ticks + Asked(m)
  BY <1>1, <1>2, WordFacts
<1>4. /\ ms'[t] = m /\ elapsed'[t] = 0 /\ final_ticks'[t] = ticks + Asked(m)
      /\ sleeping' = sleeping \cup {t}
      /\ \A u \in Thread \ {t} : /\ ms'[u] = ms[u] /\ elapsed'[u] = elapsed[u]
                                 /\ final_ticks'[u] = final_ticks[u]
      /\ ticks' = ticks /\ freq' = freq
  BY <1>3 DEF TimerTypeOK, sleep_begin
<1>5. \A x : Asked(x)' = Asked(x)
  BY <1>4 DEF Asked
<1> SUFFICES ASSUME NEW u \in sleeping'
             PROVE  /\ freq' # 0
                    /\ Asked(ms'[u]) \in 0..(WORD - 1)
                    /\ elapsed'[u] < Asked(ms'[u]) =>
                         ticks' = final_ticks'[u] - Asked(ms'[u]) + elapsed'[u]
  BY <1>4 DEF SleepInv, Asked
<1>6. CASE u = t
  BY <1>1, <1>2, <1>4, <1>6
<1>7. CASE u # t
  <2>1. u \in sleeping /\ u \in Thread \ {t}
    BY <1>4, <1>7 DEF TimerTypeOK
  <2> QED
    BY <1>4, <2>1 DEF SleepInv
<1> QED
  BY <1>6, <1>7

(* Returning leaves the other sleepers alone. *)
LEMMA EndKeepsInv ==
  ASSUME TimerTypeOK, SleepInv, NEW t \in Thread, sleep_end(t)
  PROVE  SleepInv'
<1>1. /\ sleeping' = sleeping \ {t} /\ ticks' = ticks /\ freq' = freq
      /\ \A u \in Thread \ {t} : /\ ms'[u] = ms[u] /\ elapsed'[u] = elapsed[u]
                                 /\ final_ticks'[u] = final_ticks[u]
  BY DEF TimerTypeOK, sleep_end
<1>2. \A u \in sleeping' : u \in sleeping /\ u \in Thread \ {t}
  BY <1>1 DEF TimerTypeOK
<1> QED
  BY <1>1, <1>2 DEF SleepInv, Asked

(* Both invariants hold along every behaviour whose calls fit. *)
LEMMA TimerInvariant == TimerSpec => [](TimerTypeOK /\ SleepInv)
<1>1. TimerInit => TimerTypeOK /\ SleepInv
  BY DEF TimerInit, TimerTypeOK, SleepInv
<1>2. TimerTypeOK /\ SleepInv /\ [TimerNext]_timerVars => (TimerTypeOK /\ SleepInv)'
  <2> SUFFICES ASSUME TimerTypeOK, SleepInv, [TimerNext]_timerVars
               PROVE  TimerTypeOK' /\ SleepInv'
    OBVIOUS
  <2>1. TimerTypeOK'
    BY TimerTypeStep DEF TimerNextAny
  <2>2. SleepInv'
    <3>1. CASE init_system_timer
      BY <3>1 DEF init_system_timer, SleepInv
    <3>2. CASE _timer_interrupt_handler
      BY <3>2, TickKeepsInv
    <3>3. CASE \E t \in Thread, m \in Duration : Fits(m) /\ sleep_begin(t, m)
      BY <3>3, BeginKeepsInv
    <3>4. CASE \E t \in Thread : sleep_end(t)
      BY <3>4, EndKeepsInv
    <3>5. CASE UNCHANGED timerVars
      BY <3>5 DEF timerVars, SleepInv, Asked
    <3> QED
      BY <3>1, <3>2, <3>3, <3>4, <3>5 DEF TimerNext
  <2> QED
    BY <2>1, <2>2
<1> QED
  BY <1>1, <1>2, PTL DEF TimerSpec

(* The counter and the deadlines are words, whatever the arguments of      *)
(* sleep are.                                                              *)
THEOREM TimerTypeCorrect == TimerSpecAny => []TimerTypeOK
<1>1. TimerInit => TimerTypeOK
  BY DEF TimerInit, TimerTypeOK
<1> QED
  BY <1>1, TimerTypeStep, PTL DEF TimerSpecAny

(* sleep of driver/timer.c never returns early when the product ms * freq  *)
(* and the deadline fit in a word: with 32 bits and 1000 Hz, for sleeps of *)
(* up to 71 minutes that end within 49 days of uptime.                     *)
THEOREM SleepNeverShort == TimerSpec => SleepLongEnough
<1>1. ASSUME TimerTypeOK, SleepInv, [TimerNext]_timerVars,
             NEW t \in sleeping, t \notin sleeping'
      PROVE  elapsed[t] >= Asked(ms[t])
  <2>1. sleep_end(t)
    BY <1>1 DEF TimerNext, timerVars, init_system_timer, _timer_interrupt_handler,
                sleep_begin, sleep_end
  <2>2. /\ t \in Thread /\ final_ticks[t] <= ticks
        /\ elapsed[t] \in 0..WORD /\ final_ticks[t] \in 0..(WORD - 1)
        /\ ticks \in 0..(WORD - 1)
    BY <1>1, <2>1 DEF TimerTypeOK, sleep_end
  <2>3. /\ Asked(ms[t]) \in 0..(WORD - 1)
        /\ elapsed[t] < Asked(ms[t]) =>
             ticks = final_ticks[t] - Asked(ms[t]) + elapsed[t]
    BY <1>1 DEF SleepInv
  <2> QED
    BY <2>2, <2>3
<1>2. TimerTypeOK /\ SleepInv /\ [TimerNext]_timerVars =>
        [\A t \in sleeping : t \notin sleeping' => elapsed[t] >= Asked(ms[t])]_timerVars
  BY <1>1
<1> QED
  BY <1>2, TimerInvariant, PTL DEF TimerSpec, SleepLongEnough

-----------------------------------------------------------------------------
USE PicAssumption

(* Every step of the composition is one of the timer or leaves it alone. *)
LEMMA StepIsTimerStep == [TimerPicNext]_timerPicVars => [TimerNext]_timerVars
<1> SUFFICES ASSUME [TimerPicNext]_timerPicVars PROVE [TimerNext]_timerVars
  OBVIOUS
<1>1. CASE handler
  BY <1>1 DEF handler, TimerNext
<1>2. CASE controllers
  BY <1>2 DEF controllers
<1>3. CASE threads
  BY <1>3 DEF threads, TimerNext
<1>4. CASE UNCHANGED timerPicVars
  BY <1>4 DEF timerPicVars
<1> QED
  BY <1>1, <1>2, <1>3, <1>4 DEF TimerPicNext

(* The timer of driver/timer.c behaves the same when its ticks have to     *)
(* pass pic.c and the dispatcher and may be delayed or lost there.         *)
THEOREM TimerPicIsTimer == TimerPicSpec => TimerSpec
  BY StepIsTimerStep, PTL DEF TimerPicSpec, TimerPicInit, TimerSpec

(* sleep is never too short, also if ticks come late or are lost. *)
THEOREM SleepNeverShortBehindPic == TimerPicSpec => SleepLongEnough
  BY TimerPicIsTimer, SleepNeverShort, PTL

-----------------------------------------------------------------------------
LEMMA WritesAre ==
  /\ Len(Writes) = 10
  /\ Writes[1] = <<"master", "command", 17>> /\ Writes[2] = <<"slave", "command", 17>>
  /\ Writes[3] = <<"master", "data", 32>> /\ Writes[4] = <<"slave", "data", 40>>
  /\ Writes[5] = <<"master", "data", 4>> /\ Writes[6] = <<"slave", "data", 2>>
  /\ Writes[7] = <<"master", "data", 1>> /\ Writes[8] = <<"slave", "data", 1>>
  /\ Writes[9] = <<"master", "data", 0>> /\ Writes[10] = <<"slave", "data", 0>>
  BY DEF Writes, pic_init, Both

LEMMA Bits ==
  /\ 4 \in BitsOf(17) /\ 4 \notin BitsOf(32) /\ 5 \in BitsOf(32)
  /\ BitsOf(0) = {}
  /\ \A v : BitsOf(v) \subseteq Lines
  BY DEF BitsOf, Lines, Weight

LEMMA FalseIsBoolean == \A x : x = FALSE => x \in BOOLEAN
  OBVIOUS

LEMMA HighestOfOne ==
  /\ Highest({}) = {}
  /\ \A l \in Lines, S \in SUBSET Lines : S \subseteq {l} => S \ Highest(S) = {}
<1>1. ASSUME NEW l \in Lines PROVE First({l}) = l
  <2>1. l <= l
    BY DEF Lines
  <2> QED
    BY <2>1, Zenon DEF First
<1>2. \A l : \A S : S \subseteq {l} => S = {} \/ S = {l}
  OBVIOUS
<1> QED
  BY <1>1, <1>2 DEF Highest

(* A chip is a chip after any write. *)
LEMMA OutbTyped ==
  ASSUME NEW c \in Chip, NEW v \in 0..255, NEW p
  PROVE  outb(c, p, v) \in Chip
<1>1. BitsOf(v) \subseteq Lines
  BY DEF BitsOf
<1>2. (v \div 8) * 8 \in 0..255
  OBVIOUS
<1>3. c.icw \in {0, 2, 3, 4}
  BY DEF Chip
<1>4. CASE p = "command"
  <2>1. c.isr \ Highest(c.isr) \in SUBSET Lines
    BY DEF Chip
  <2>2. Started(c) \in Chip
    BY DEF Chip, Started
  <2>3. [c EXCEPT !.isr = @ \ Highest(@)] \in Chip
    BY <2>1 DEF Chip
  <2> QED
    BY <1>4, <2>2, <2>3 DEF outb
<1>5. CASE p # "command" /\ c.icw = 2
  <2>1. Based(c, (v \div 8) * 8) \in Chip
    BY <1>2 DEF Chip, Based
  <2> QED
    BY <1>5, <2>1 DEF outb
<1>6. CASE p # "command" /\ c.icw = 3
  BY <1>6 DEF outb, Chip
<1>7. CASE p # "command" /\ c.icw = 4
  BY <1>7 DEF outb, Chip
<1>8. CASE p # "command" /\ c.icw = 0
  BY <1>1, <1>8 DEF outb, Chip
<1> QED
  BY <1>3, <1>4, <1>5, <1>6, <1>7, <1>8

(* The five words, one after the other. *)
LEMMA NextWord ==
  ASSUME NEW c \in Chip, NEW base \in {32, 40}, NEW words \in 0..4, NEW v \in 0..255,
         InitializedUpTo(c, words, base), words = 1 => v = base, words = 4 => v = 0
  PROVE  /\ words = 0 => InitializedUpTo(outb(c, "command", 17), 1, base)
         /\ words > 0 => InitializedUpTo(outb(c, "data", v), words + 1, base)
<1>1. CASE words = 0
  <2>1. outb(c, "command", 17) = Started(c)
    BY Bits DEF outb
  <2>2. /\ outb(c, "command", 17).icw = 2 /\ outb(c, "command", 17).imr = {}
        /\ outb(c, "command", 17).isr = {}
    BY <2>1 DEF Started
  <2> QED
    BY <1>1, <2>2 DEF InitializedUpTo
<1>2. CASE words = 1
  <2>1. c.icw = 2 /\ c.isr = {} /\ c.imr = {}
    BY <1>2 DEF InitializedUpTo
  <2>2. (v \div 8) * 8 = base
    BY <1>2
  <2>3. outb(c, "data", v) = Based(c, base)
    BY <2>1, <2>2 DEF outb
  <2>4. /\ outb(c, "data", v).icw = 3 /\ outb(c, "data", v).base = base
        /\ outb(c, "data", v).isr = {} /\ outb(c, "data", v).imr = {}
    BY <2>1, <2>3 DEF Based
  <2> QED
    BY <1>2, <2>4 DEF InitializedUpTo
<1>3. CASE words = 2
  <2>1. c.icw = 3 /\ c.isr = {} /\ c.imr = {} /\ c.base = base
    BY <1>3 DEF InitializedUpTo
  <2> DEFINE d == outb(c, "data", v)
  <2>2. d = [c EXCEPT !.icw = 4]
    BY <2>1 DEF outb
  <2> HIDE DEF d
  <2>3. d.icw = 4 /\ d.base = base /\ d.isr = {} /\ d.imr = {}
    BY <2>1, <2>2 DEF Chip
  <2>4. InitializedUpTo(d, 3, base)
    BY <2>3 DEF InitializedUpTo
  <2> QED
    BY <1>3, <2>4 DEF d
<1>4. CASE words = 3
  <2>1. c.icw = 4 /\ c.isr = {} /\ c.imr = {} /\ c.base = base
    BY <1>4 DEF InitializedUpTo
  <2> DEFINE d == outb(c, "data", v)
  <2>2. d = [c EXCEPT !.icw = 0]
    BY <2>1 DEF outb
  <2> HIDE DEF d
  <2>3. d.icw = 0 /\ d.base = base /\ d.isr = {} /\ d.imr = {}
    BY <2>1, <2>2 DEF Chip
  <2>4. InitializedUpTo(d, 4, base)
    BY <2>3 DEF InitializedUpTo
  <2> QED
    BY <1>4, <2>4 DEF d
<1>5. CASE words = 4
  <2>1. c.icw = 0 /\ c.isr = {} /\ c.base = base
    BY <1>5 DEF InitializedUpTo
  <2> DEFINE d == outb(c, "data", v)
  <2>2. BitsOf(v) = {}
    BY <1>5, Bits
  <2>3. d = [c EXCEPT !.imr = {}]
    BY <2>1, <2>2 DEF outb
  <2> HIDE DEF d
  <2>4. d.icw = 0 /\ d.base = base /\ d.isr = {} /\ d.imr = {}
    BY <2>1, <2>3 DEF Chip
  <2>5. InitializedUpTo(d, 5, base)
    BY <2>4 DEF InitializedUpTo
  <2> QED
    BY <1>5, <2>5 DEF d
<1> QED
  BY <1>1, <1>2, <1>3, <1>4, <1>5

(* The steps that change the controllers or the processor. *)
LEMMA PicSteps ==
  [TimerPicNext]_timerPicVars =>
    \/ pic_init_step \/ enable_interrupts \/ \E i \in Irq : request(i)
    \/ interrupt \/ spurious_master \/ spurious_slave \/ dispatch \/ handled
    \/ UNCHANGED picVars
  BY DEF TimerPicNext, handler, controllers, threads, timerPicVars

LEMMA PicInitInv == TimerPicInit => PicInv
<1> SUFFICES ASSUME TimerPicInit PROVE PicInv
  OBVIOUS
<1>1. PicTypeOK
  <2>1. pic \in [{"master", "slave"} -> Chip]
    BY DEF TimerPicInit, PicInit
  <2>2. setup \in 0..Len(Writes) /\ irq \in 0..15
    BY WritesAre DEF TimerPicInit, PicInit
  <2>3. IF_flag \in BOOLEAN /\ acked \in BOOLEAN /\ vector = NoVector
    <3>1. IF_flag = FALSE /\ acked = FALSE /\ vector = NoVector
      <4>1. PicInit
        BY DEF TimerPicInit
      <4> QED
        BY <4>1, ZenonT(60) DEF PicInit
    <3> QED
      BY <3>1, FalseIsBoolean
  <2> QED
    BY <2>1, <2>2, <2>3 DEF PicTypeOK
<1> QED
  BY <1>1, WritesAre DEF TimerPicInit, PicInit, PicInv, Ready, InitializedUpTo

(* A write of pic_init brings one chip a word further. *)
LEMMA InitStep == ASSUME PicInv, pic_init_step PROVE PicInv'
<1> DEFINE w == Writes[setup + 1]
<1>1. /\ setup \in 0..9 /\ setup' = setup + 1 /\ ~ Ready
      /\ pic \in [{"master", "slave"} -> Chip]
      /\ pic' = [pic EXCEPT ![w[1]] = outb(@, w[2], w[3])]
      /\ UNCHANGED <<IF_flag, vector, acked, irq>>
  BY WritesAre DEF PicInv, PicTypeOK, pic_init_step, Ready
<1>2. IF_flag = FALSE /\ vector = NoVector
  BY <1>1 DEF PicInv
<1>3. /\ InitializedUpTo(pic["master"], (setup + 1) \div 2, 32)
      /\ InitializedUpTo(pic["slave"], setup \div 2, 40)
  BY <1>1 DEF PicInv
<1>4. w[1] \in {"master", "slave"} /\ w[3] \in 0..255
  BY <1>1, WritesAre
<1>5. pic' \in [{"master", "slave"} -> Chip]
  <2>1. pic[w[1]] \in Chip
    BY <1>1, <1>4
  <2>2. outb(pic[w[1]], w[2], w[3]) \in Chip
    BY <1>4, <2>1, OutbTyped
  <2> HIDE DEF w
  <2> QED
    BY <1>1, <1>4, <2>2
<1>6. PicTypeOK'
  BY <1>1, <1>5, WritesAre DEF PicInv, PicTypeOK
<1>7. /\ InitializedUpTo(pic'["master"], (setup' + 1) \div 2, 32)
      /\ InitializedUpTo(pic'["slave"], setup' \div 2, 40)
  <2>1. CASE setup \in {0, 2, 4, 6, 8}
    <3>1. w[1] = "master" /\ pic'["slave"] = pic["slave"]
          /\ pic'["master"] = outb(pic["master"], w[2], w[3])
      BY <1>1, <2>1, WritesAre
    <3>2. setup' \div 2 = setup \div 2
      BY <1>1, <2>1
    <3>3. pic["master"] \in Chip
      BY <1>1
    <3>4. InitializedUpTo(pic'["master"], (setup' + 1) \div 2, 32)
      <4>1. (setup + 1) \div 2 = setup \div 2 /\ (setup' + 1) \div 2 = setup \div 2 + 1
        BY <1>1, <2>1
      <4>2. /\ setup = 0 => w[2] = "command" /\ w[3] = 17
            /\ setup # 0 => w[2] = "data"
            /\ setup = 2 => w[3] = 32
            /\ setup = 8 => w[3] = 0
        BY <1>1, <2>1, WritesAre
      <4>3. setup \div 2 \in 0..4 /\ (setup \div 2 = 0 <=> setup = 0)
            /\ (setup \div 2 = 1 <=> setup = 2) /\ (setup \div 2 = 4 <=> setup = 8)
        BY <2>1
      <4> HIDE DEF w
      <4> QED
        BY <1>3, <1>4, <3>1, <3>3, <4>1, <4>2, <4>3, NextWord, SMTT(60)
    <3> QED
      BY <1>3, <3>1, <3>2, <3>4
  <2>2. CASE setup \in {1, 3, 5, 7, 9}
    <3>1. w[1] = "slave" /\ pic'["master"] = pic["master"]
          /\ pic'["slave"] = outb(pic["slave"], w[2], w[3])
      BY <1>1, <2>2, WritesAre
    <3>2. (setup' + 1) \div 2 = (setup + 1) \div 2
      BY <1>1, <2>2
    <3>3. pic["slave"] \in Chip
      BY <1>1
    <3>4. InitializedUpTo(pic'["slave"], setup' \div 2, 40)
      <4>1. setup' \div 2 = setup \div 2 + 1
        BY <1>1, <2>2
      <4>2. /\ setup = 1 => w[2] = "command" /\ w[3] = 17
            /\ setup # 1 => w[2] = "data"
            /\ setup = 3 => w[3] = 40
            /\ setup = 9 => w[3] = 0
        BY <1>1, <2>2, WritesAre
      <4>3. setup \div 2 \in 0..4 /\ (setup \div 2 = 0 <=> setup = 1)
            /\ (setup \div 2 = 1 <=> setup = 3) /\ (setup \div 2 = 4 <=> setup = 9)
        BY <2>2
      <4> HIDE DEF w
      <4> QED
        BY <1>3, <1>4, <3>1, <3>3, <4>1, <4>2, <4>3, NextWord, SMTT(60)
    <3> QED
      BY <1>3, <3>1, <3>2, <3>4
  <2> QED
    BY <1>1, <2>1, <2>2
<1>8. CASE Ready'
  <2>1. setup' = 10
    BY <1>8, WritesAre DEF Ready
  <2>2. \A k \in {"master", "slave"} :
          pic'[k].icw = 0 /\ pic'[k].imr = {} /\ pic'[k].isr = {}
    BY <1>7, <2>1 DEF InitializedUpTo
  <2>3. pic'["master"].base = 32 /\ pic'["slave"].base = 40
    BY <1>7, <2>1 DEF InitializedUpTo
  <2> QED
    BY <1>1, <1>2, <1>6, <1>8, <2>2, <2>3 DEF PicInv, InService
<1>9. CASE ~ Ready'
  <2>1. IF_flag' = FALSE /\ vector' = NoVector
    BY <1>1, <1>2
  <2> QED
    BY <1>6, <1>7, <1>9, <2>1 DEF PicInv
<1> QED
  BY <1>8, <1>9

(* The other steps; setup is over. *)
LEMMA EnableStep == ASSUME PicInv, enable_interrupts PROVE PicInv'
<1>1. /\ Ready /\ vector = NoVector /\ UNCHANGED <<pic, setup, vector, acked, irq>>
      /\ IF_flag' = TRUE
  BY DEF enable_interrupts
<1>2. PicTypeOK'
  BY <1>1 DEF PicInv, PicTypeOK
<1>3. Ready' /\ (InService <=> InService')
  BY <1>1 DEF Ready, InService
<1> QED
  BY <1>1, <1>2, <1>3 DEF PicInv

LEMMA RequestFacts ==
  \A c \in Chip : \A l :
    LET d == Request(c, l)
    IN  /\ d.isr = c.isr /\ d.imr = c.imr
        /\ d.base = c.base /\ d.icw = c.icw
  BY DEF Request, Chip

LEMMA RequestStep == ASSUME PicInv, NEW i \in Irq, request(i) PROVE PicInv'
<1>1. pic \in [{"master", "slave"} -> Chip] /\ i \in 0..15
  BY DEF PicInv, PicTypeOK
<1>2. /\ pic' \in [{"master", "slave"} -> Chip]
      /\ \A k \in {"master", "slave"} :
           /\ pic'[k].isr = pic[k].isr /\ pic'[k].imr = pic[k].imr
           /\ pic'[k].base = pic[k].base /\ pic'[k].icw = pic[k].icw
  <2>1. CASE i < 8
    <3>1. i \in Lines
      BY <1>1, <2>1 DEF Lines
    <3>2. pic["master"] \in Chip
      BY <1>1
    <3>3. Request(pic["master"], i) \in Chip
      BY <3>1, <3>2 DEF Chip, Request
    <3>4. pic' = [pic EXCEPT !["master"] = Request(@, i)]
      BY <2>1 DEF request
    <3> QED
      BY <1>1, <3>2, <3>3, <3>4, RequestFacts
  <2>2. CASE ~ (i < 8)
    <3>1. i - 8 \in Lines
      BY <1>1, <2>2 DEF Lines
    <3>2. pic["slave"] \in Chip
      BY <1>1
    <3>3. Request(pic["slave"], i - 8) \in Chip
      BY <3>1, <3>2 DEF Chip, Request
    <3>4. pic' = [pic EXCEPT !["slave"] = Request(@, i - 8)]
      BY <2>2 DEF request
    <3> QED
      BY <1>1, <3>2, <3>3, <3>4, RequestFacts
  <2> QED
    BY <2>1, <2>2
<1>3. UNCHANGED <<setup, IF_flag, vector, acked, irq>>
  BY DEF request
<1>4. PicTypeOK'
  BY <1>2, <1>3 DEF PicInv, PicTypeOK
<1>5. Ready' <=> Ready
  BY <1>3 DEF Ready
<1>6. InService' <=> InService
  BY <1>2, <1>3 DEF InService
<1>7. /\ InitializedUpTo(pic["master"], (setup + 1) \div 2, 32) =>
           InitializedUpTo(pic'["master"], (setup + 1) \div 2, 32)
      /\ InitializedUpTo(pic["slave"], setup \div 2, 40) =>
           InitializedUpTo(pic'["slave"], setup \div 2, 40)
  BY <1>2 DEF InitializedUpTo
<1> QED
  BY <1>2, <1>3, <1>4, <1>5, <1>6, <1>7 DEF PicInv

LEMMA ServeFacts ==
  ASSUME NEW c \in Chip, NEW l \in Lines
  PROVE  /\ Serve(c, l) \in Chip
         /\ Serve(c, l).isr = c.isr \cup {l} /\ Serve(c, l).imr = c.imr
         /\ Serve(c, l).base = c.base /\ Serve(c, l).icw = c.icw
  BY DEF Serve, Chip

(* The line of highest priority is one of the lines. *)
LEMMA OfferedIsLine == \A c, R : R \subseteq Lines => Offered(c, R) \subseteq Lines
<1> SUFFICES ASSUME NEW c, NEW R, R \subseteq Lines, NEW o \in Offered(c, R)
             PROVE  o \in Lines
  OBVIOUS
<1> DEFINE S == R \ c.imr
<1>0. S \subseteq Lines /\ S # {} /\ o = First(S)
  BY DEF Offered, Highest
<1> HIDE DEF S
<1>1. S \subseteq 0..7 /\ S # {}
  BY <1>0 DEF Lines
<1>2. \E l \in S : \A k \in S : l <= k
  <2>1. CASE 0 \in S
    BY <1>1, <2>1
  <2>2. CASE 0 \notin S /\ 1 \in S
    BY <1>1, <2>2
  <2>3. CASE 0 \notin S /\ 1 \notin S /\ 2 \in S
    BY <1>1, <2>3
  <2>4. CASE 0 \notin S /\ 1 \notin S /\ 2 \notin S /\ 3 \in S
    BY <1>1, <2>4
  <2>5. CASE 0 \notin S /\ 1 \notin S /\ 2 \notin S /\ 3 \notin S /\ 4 \in S
    BY <1>1, <2>5
  <2>6. CASE /\ 0 \notin S /\ 1 \notin S /\ 2 \notin S /\ 3 \notin S /\ 4 \notin S
             /\ 5 \in S
    BY <1>1, <2>6
  <2>7. CASE /\ 0 \notin S /\ 1 \notin S /\ 2 \notin S /\ 3 \notin S /\ 4 \notin S
             /\ 5 \notin S /\ 6 \in S
    BY <1>1, <2>7
  <2>8. CASE /\ 0 \notin S /\ 1 \notin S /\ 2 \notin S /\ 3 \notin S /\ 4 \notin S
             /\ 5 \notin S /\ 6 \notin S
    <3>1. \A k \in S : k = 7
      BY <1>1, <2>8
    <3>2. PICK l \in S : TRUE
      BY <1>1
    <3> QED
      BY <3>1, <3>2
  <2> QED
    BY <2>1, <2>2, <2>3, <2>4, <2>5, <2>6, <2>7, <2>8
<1>3. First(S) \in S
  BY <1>2 DEF First
<1> QED
  BY <1>0, <1>3

(* An interrupt is taken only when nothing is in service. *)
LEMMA FreeFacts ==
  ASSUME PicInv, IF_flag, vector = NoVector
  PROVE  /\ pic["master"].isr = {} /\ pic["slave"].isr = {}
         /\ pic["master"].base = 32 /\ pic["slave"].base = 40
         /\ pic \in [{"master", "slave"} -> Chip]
<1>1. Ready
  BY DEF PicInv
<1>2. InService
  BY <1>1 DEF PicInv
<1> QED
  BY <1>1, <1>2 DEF PicInv, PicTypeOK, InService

(* What an accepted interrupt must have done for the invariant. *)
Taken(i) ==
  /\ pic' \in [{"master", "slave"} -> Chip]
  /\ \A k \in {"master", "slave"} :
       pic'[k].base = pic[k].base /\ pic'[k].icw = pic[k].icw /\ pic'[k].imr = pic[k].imr
  /\ IF i < 8
     THEN (\E l \in Lines : pic'["master"].isr \subseteq {l}) /\ pic'["slave"].isr = {}
     ELSE pic'["master"].isr = {2} /\ \E l \in Lines : pic'["slave"].isr \subseteq {l}

Dispatches(i) == i \in 0..15 /\ Accept(32 + i, i) /\ Taken(i)

LEMMA AcceptStep ==
  ASSUME PicInv, NEW i, Dispatches(i)
  PROVE  PicInv'
<1> USE DEF Dispatches
<1> DEFINE v == 32 + i
<1>1. v \in 0..255 /\ v # NoVector
  BY PicAssumption
<1>2. /\ Ready /\ Ready' /\ setup' \in 0..Len(Writes)
      /\ IF_flag' = FALSE /\ acked' = FALSE /\ vector' = v /\ irq' = i
  <2>1. /\ IF_flag /\ IF_flag' = FALSE /\ acked' = FALSE /\ vector' = v /\ irq' = i
        /\ setup' = setup
    BY DEF Accept
  <2>2. Ready /\ setup \in 0..Len(Writes)
    BY <2>1 DEF PicInv, PicTypeOK
  <2> QED
    BY <2>1, <2>2 DEF Ready
<1>3. /\ \A k \in {"master", "slave"} : pic'[k].icw = 0 /\ pic'[k].imr = {}
      /\ pic'["master"].base = 32 /\ pic'["slave"].base = 40
  <2>1. /\ \A k \in {"master", "slave"} : pic[k].icw = 0 /\ pic[k].imr = {}
        /\ pic["master"].base = 32 /\ pic["slave"].base = 40
    BY <1>2 DEF PicInv
  <2> QED
    BY <2>1 DEF Taken
<1>4. PicTypeOK'
  <2>1. IF_flag' \in BOOLEAN /\ acked' \in BOOLEAN
    BY <1>2, FalseIsBoolean
  <2> QED
    BY <1>1, <1>2, <2>1 DEF PicTypeOK, Taken
<1>5. InService'
  BY <1>1, <1>2 DEF InService, Taken
<1> QED
  BY <1>1, <1>2, <1>3, <1>4, <1>5 DEF PicInv

LEMMA InterruptStep == ASSUME PicInv, interrupt PROVE PicInv'
<1>1. PICK l \in MasterOffers :
        IF l # 2
        THEN /\ Accept(pic["master"].base + l, l)
             /\ pic' = [pic EXCEPT !["master"] = Serve(@, l)]
        ELSE \E k \in SlaveOffers :
               /\ Accept(pic["slave"].base + k, k + 8)
               /\ pic' = [pic EXCEPT !["master"] = Serve(@, 2), !["slave"] = Serve(@, k)]
  BY DEF interrupt
<1>2. pic["master"] \in Chip /\ pic["slave"] \in Chip /\ DOMAIN pic = {"master", "slave"}
  BY DEF PicInv, PicTypeOK
<1>3. SlaveOffers \subseteq Lines /\ l \in Lines
  <2>1. pic["slave"].irr \subseteq Lines /\ pic["master"].irr \subseteq Lines
    BY <1>2 DEF Chip
  <2>2. pic["master"].irr \cup (IF SlaveOffers = {} THEN {} ELSE {2}) \subseteq Lines
    BY <2>1 DEF Lines
  <2> QED
    BY <2>1, <2>2, OfferedIsLine DEF SlaveOffers, MasterOffers
<1>4. CASE l # 2
  <2>1. /\ Accept(pic["master"].base + l, l)
        /\ pic' = [pic EXCEPT !["master"] = Serve(@, l)]
    BY <1>1, <1>4
  <2>2. /\ pic["master"].base = 32 /\ pic["master"].isr = {} /\ pic["slave"].isr = {}
        /\ pic \in [{"master", "slave"} -> Chip]
    <3>1. IF_flag /\ vector = NoVector
      BY <2>1 DEF Accept
    <3> QED
      BY <3>1, FreeFacts
  <2>3. pic'["master"] = Serve(pic["master"], l) /\ pic'["slave"] = pic["slave"]
    BY <2>1, <2>2
  <2>4. pic' \in [{"master", "slave"} -> Chip]
    BY <1>2, <1>3, <2>1, <2>2, ServeFacts
  <2>5. l \in 0..15 /\ l < 8
    BY <1>3 DEF Lines
  <2>6. pic'["master"].isr \subseteq {l} /\ pic'["slave"].isr = {}
    BY <1>2, <1>3, <2>2, <2>3, ServeFacts
  <2>7. \A k \in {"master", "slave"} :
          pic'[k].base = pic[k].base /\ pic'[k].icw = pic[k].icw /\ pic'[k].imr = pic[k].imr
    BY <1>2, <1>3, <2>3, ServeFacts
  <2>8. Accept(32 + l, l)
    BY <2>1, <2>2
  <2>9. Taken(l)
    BY <1>3, <2>4, <2>5, <2>6, <2>7 DEF Taken
  <2>10. Dispatches(l)
    BY <2>5, <2>8, <2>9 DEF Dispatches
  <2> QED
    BY <2>10, AcceptStep
<1>5. CASE l = 2
  <2>1. PICK k \in SlaveOffers :
          /\ Accept(pic["slave"].base + k, k + 8)
          /\ pic' = [pic EXCEPT !["master"] = Serve(@, 2), !["slave"] = Serve(@, k)]
    BY <1>1, <1>5
  <2>2. /\ pic["slave"].base = 40 /\ pic["master"].isr = {} /\ pic["slave"].isr = {}
        /\ pic \in [{"master", "slave"} -> Chip]
    <3>1. IF_flag /\ vector = NoVector
      BY <2>1 DEF Accept
    <3> QED
      BY <3>1, FreeFacts
  <2>3. pic'["master"] = Serve(pic["master"], 2) /\ pic'["slave"] = Serve(pic["slave"], k)
    BY <2>1, <2>2
  <2>4. k \in Lines /\ 2 \in Lines
    BY <1>3 DEF Lines
  <2>5. pic' \in [{"master", "slave"} -> Chip]
    BY <1>2, <2>1, <2>2, <2>4, ServeFacts
  <2>6. k + 8 \in 0..15 /\ ~ (k + 8 < 8) /\ 40 + k = 32 + (k + 8)
    BY <2>4 DEF Lines
  <2>7. pic'["master"].isr = {2} /\ pic'["slave"].isr \subseteq {k}
    BY <1>2, <2>2, <2>3, <2>4, ServeFacts
  <2>8. \A c \in {"master", "slave"} :
          pic'[c].base = pic[c].base /\ pic'[c].icw = pic[c].icw /\ pic'[c].imr = pic[c].imr
    BY <1>2, <2>3, <2>4, ServeFacts
  <2>9. Accept(32 + (k + 8), k + 8)
    BY <2>1, <2>2, <2>6
  <2>10. Taken(k + 8)
    BY <2>4, <2>5, <2>6, <2>7, <2>8 DEF Taken
  <2>11. Dispatches(k + 8)
    BY <2>6, <2>9, <2>10 DEF Dispatches
  <2> QED
    BY <2>11, AcceptStep
<1> QED
  BY <1>4, <1>5

LEMMA SpuriousStep == ASSUME PicInv, spurious_master \/ spurious_slave PROVE PicInv'
<1>1. 0 \in Lines /\ 2 \in Lines /\ 7 \in 0..15 /\ 15 \in 0..15
  BY DEF Lines
<1>2. CASE spurious_master
  <2>1. Accept(pic["master"].base + 7, 7) /\ pic' = pic
    BY <1>2 DEF spurious_master
  <2>2. /\ pic["master"].base = 32 /\ pic["master"].isr = {} /\ pic["slave"].isr = {}
        /\ pic \in [{"master", "slave"} -> Chip]
    <3>1. IF_flag /\ vector = NoVector
      BY <2>1 DEF Accept
    <3> QED
      BY <3>1, FreeFacts
  <2>3. Accept(32 + 7, 7)
    BY <2>1, <2>2
  <2>4. Taken(7)
    BY <1>1, <2>1, <2>2 DEF Taken
  <2>5. Dispatches(7)
    BY <1>1, <2>3, <2>4 DEF Dispatches
  <2> QED
    BY <2>5, AcceptStep
<1>3. CASE spurious_slave
  <2>1. Accept(pic["slave"].base + 7, 15) /\ pic' = [pic EXCEPT !["master"] = Serve(@, 2)]
    BY <1>3 DEF spurious_slave
  <2>2. /\ pic["slave"].base = 40 /\ pic["master"].isr = {} /\ pic["slave"].isr = {}
        /\ pic \in [{"master", "slave"} -> Chip]
    <3>1. IF_flag /\ vector = NoVector
      BY <2>1 DEF Accept
    <3> QED
      BY <3>1, FreeFacts
  <2>3. pic'["master"] = Serve(pic["master"], 2) /\ pic'["slave"] = pic["slave"]
    BY <2>1, <2>2
  <2>4. pic["master"] \in Chip
    BY <2>2
  <2>5. pic' \in [{"master", "slave"} -> Chip]
    BY <1>1, <2>1, <2>2, <2>4, ServeFacts
  <2>6. pic'["master"].isr = {2} /\ pic'["slave"].isr \subseteq {0}
    BY <1>1, <2>2, <2>3, <2>4, ServeFacts
  <2>7. \A c \in {"master", "slave"} :
          pic'[c].base = pic[c].base /\ pic'[c].icw = pic[c].icw /\ pic'[c].imr = pic[c].imr
    BY <1>1, <2>3, <2>4, ServeFacts
  <2>8. Accept(32 + 15, 15)
    BY <2>1, <2>2
  <2>9. Taken(15)
    BY <1>1, <2>5, <2>6, <2>7 DEF Taken
  <2>10. Dispatches(15)
    BY <1>1, <2>8, <2>9 DEF Dispatches
  <2> QED
    BY <2>10, AcceptStep
<1> QED
  BY <1>2, <1>3

(* The end of interrupt takes the one line out of service that is in it,   *)
(* in both chips if it came from the slave.                                *)
LEMMA DispatchStep == ASSUME PicInv, dispatch PROVE PicInv'
<1>1. /\ vector # NoVector /\ ~ acked /\ acked' = TRUE
      /\ UNCHANGED <<setup, IF_flag, vector, irq>>
  BY DEF dispatch
<1>2. /\ Ready /\ vector = 32 + irq /\ irq \in 0..15 /\ InService
      /\ pic["master"] \in Chip /\ pic["slave"] \in Chip
  BY <1>1 DEF PicInv, PicTypeOK
<1>3. pic' = pic_send_eoi(pic, vector)
  <2>1. vector \in 32..47
    BY <1>2
  <2> QED
    BY <2>1 DEF dispatch
<1>4. ASSUME NEW c \in Chip, NEW d, d = outb(c, "command", 32)
      PROVE  /\ d \in Chip /\ d.isr = c.isr \ Highest(c.isr) /\ d.imr = c.imr
             /\ d.base = c.base /\ d.icw = c.icw
  <2>1. d = [c EXCEPT !.isr = @ \ Highest(@)]
    BY <1>4, Bits DEF outb
  <2>2. d \in Chip
    BY <1>4, OutbTyped
  <2> QED
    BY <2>1, <2>2 DEF Chip
<1>5. /\ pic' \in [{"master", "slave"} -> Chip]
      /\ \A k \in {"master", "slave"} :
           pic'[k].base = pic[k].base /\ pic'[k].icw = pic[k].icw /\ pic'[k].imr = pic[k].imr
      /\ pic'["master"].isr = pic["master"].isr \ Highest(pic["master"].isr)
      /\ pic'["slave"].isr = IF vector >= 40 THEN pic["slave"].isr \ Highest(pic["slave"].isr)
                             ELSE pic["slave"].isr
  <2>1. /\ pic'["master"] = outb(pic["master"], "command", 32)
        /\ pic'["slave"] = IF vector >= 40 THEN outb(pic["slave"], "command", 32)
                                          ELSE pic["slave"]
        /\ \E f : pic' = [k \in {"master", "slave"} |-> f[k]]
    <3> DEFINE f == [k \in {"master", "slave"} |->
                      IF k = "master" \/ vector >= 40 THEN outb(pic[k], "command", 32)
                                                      ELSE pic[k]]
    <3>1. pic' = f /\ f = [k \in {"master", "slave"} |-> f[k]]
      BY <1>3 DEF pic_send_eoi
    <3>2. /\ f["master"] = outb(pic["master"], "command", 32)
          /\ f["slave"] = IF vector >= 40 THEN outb(pic["slave"], "command", 32)
                                         ELSE pic["slave"]
      OBVIOUS
    <3> HIDE DEF f
    <3> QED
      BY <3>1, <3>2
  <2>2. pic'["master"] \in Chip /\ pic'["slave"] \in Chip
    BY <1>2, <1>4, <2>1
  <2>3. pic' \in [{"master", "slave"} -> Chip]
    BY <2>1, <2>2
  <2>4. \A k \in {"master", "slave"} :
          pic'[k].base = pic[k].base /\ pic'[k].icw = pic[k].icw /\ pic'[k].imr = pic[k].imr
    BY <1>2, <1>4, <2>1
  <2>5. pic'["master"].isr = pic["master"].isr \ Highest(pic["master"].isr)
    BY <1>2, <1>4, <2>1
  <2>6. pic'["slave"].isr = IF vector >= 40 THEN pic["slave"].isr \ Highest(pic["slave"].isr)
                                           ELSE pic["slave"].isr
    <3>1. CASE vector >= 40
      <4>1. pic'["slave"] = outb(pic["slave"], "command", 32)
        BY <2>1, <3>1
      <4> QED
        BY <1>2, <1>4, <3>1, <4>1
    <3>2. CASE ~ (vector >= 40)
      BY <2>1, <3>2
    <3> QED
      BY <3>1, <3>2
  <2> QED
    BY <2>3, <2>4, <2>5, <2>6
<1>6. pic'["master"].isr = {} /\ pic'["slave"].isr = {}
  <2>1. pic["master"].isr \in SUBSET Lines /\ pic["slave"].isr \in SUBSET Lines
    BY <1>2 DEF Chip
  <2>2. CASE irq < 8
    BY <1>1, <1>2, <1>5, <2>1, <2>2, HighestOfOne DEF InService
  <2>3. CASE ~ (irq < 8)
    <3>1. 2 \in Lines /\ vector >= 40
      BY <1>2, <2>3 DEF Lines
    <3> QED
      BY <1>1, <1>2, <1>5, <2>1, <2>3, <3>1, HighestOfOne DEF InService
  <2> QED
    BY <2>2, <2>3
<1>7. InService'
  BY <1>1, <1>6 DEF InService
<1>8. PicTypeOK'
  BY <1>1, <1>5 DEF PicInv, PicTypeOK
<1>9. Ready'
  BY <1>1, <1>2 DEF Ready
<1> QED
  BY <1>1, <1>2, <1>5, <1>7, <1>8, <1>9 DEF PicInv

LEMMA HandledStep == ASSUME PicInv, handled PROVE PicInv'
<1>1. /\ vector # NoVector /\ acked /\ UNCHANGED <<pic, setup>>
      /\ vector' = NoVector /\ acked' = FALSE /\ irq' = 0 /\ IF_flag' = TRUE
  BY DEF handled
<1>2. Ready /\ Ready' /\ InService
  BY <1>1 DEF PicInv, Ready
<1>3. InService'
  BY <1>1, <1>2 DEF InService
<1>4. PicTypeOK'
  <2>1. IF_flag' \in BOOLEAN /\ acked' \in BOOLEAN
    BY <1>1, Zenon
  <2> QED
    BY <1>1, <2>1 DEF PicInv, PicTypeOK
<1> QED
  BY <1>1, <1>2, <1>3, <1>4 DEF PicInv

LEMMA PicStepInv == PicInv /\ [TimerPicNext]_timerPicVars => PicInv'
<1> SUFFICES ASSUME PicInv, [TimerPicNext]_timerPicVars PROVE PicInv'
  OBVIOUS
<1>1. CASE UNCHANGED picVars
  <2>1. UNCHANGED <<pic, setup, IF_flag, vector, acked, irq>>
    BY <1>1 DEF picVars
  <2>2. PicTypeOK'
    BY <2>1 DEF PicInv, PicTypeOK
  <2>3. (Ready' <=> Ready) /\ (InService' <=> InService)
    BY <2>1 DEF Ready, InService
  <2> QED
    BY <2>1, <2>2, <2>3 DEF PicInv
<1> QED
  BY <1>1, PicSteps, InitStep, EnableStep, RequestStep, InterruptStep, SpuriousStep,
     DispatchStep, HandledStep

(* Whatever the firmware left in the chips and whichever lines are         *)
(* requested when, every interrupt of pic.c's lines arrives as its own     *)
(* vector and leaves nothing in service, spurious ones included.           *)
THEOREM InterruptsStayPossible == TimerPicSpec => []NothingLeftInService
<1>1. PicInv => NothingLeftInService
  BY DEF PicInv, InService, NothingLeftInService
<1> QED
  BY <1>1, PicInitInv, PicStepInv, PTL DEF TimerPicSpec
=============================================================================
