------------------------------ MODULE TimerPic ------------------------------
(***************************************************************************)
(* The system timer behind the interrupt controllers: its ticks come as    *)
(* interrupts of line 0, which other devices' compete with, and a pulse    *)
(* that comes while the last is still pending is lost.                     *)
(***************************************************************************)
EXTENDS SystemTimer, Pic

timerPicVars == <<timerVars, picVars>>

TimerPicInit == TimerInit /\ PicInit

(* The handler of line 0, once there is one; the others do nothing here. *)
handler ==
  /\ handled
  /\ IF vector = 32 /\ freq # 0 THEN _timer_interrupt_handler ELSE UNCHANGED timerVars

controllers ==
  /\ \/ pic_init_step \/ enable_interrupts
     \/ \E i \in Irq : request(i)
     \/ interrupt \/ spurious_master \/ spurious_slave
     \/ dispatch
  /\ UNCHANGED timerVars

(* Threads run while no interrupt is being dispatched. *)
threads ==
  /\ IF_flag
  /\ \/ init_system_timer
     \/ \E t \in Thread, m \in Duration : Fits(m) /\ sleep_begin(t, m)
     \/ \E t \in Thread : sleep_end(t)
  /\ UNCHANGED picVars

TimerPicNext == handler \/ controllers \/ threads

TimerPicSpec == TimerPicInit /\ [][TimerPicNext]_timerPicVars
=============================================================================
