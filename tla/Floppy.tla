------------------------------- MODULE Floppy -------------------------------
(***************************************************************************)
(* Reading a block from the floppy disk: blkread of driver/block.c and the *)
(* driver driver/fdc.c below it, with the controller, the drive and the    *)
(* DMA buffer they drive.  A call runs through its commands (seek, read)   *)
(* one step at a time, because it waits for the interrupt of each, and a   *)
(* tick can hand the processor to another reader between any two steps.    *)
(* Nothing in the driver keeps two calls apart.                            *)
(*                                                                         *)
(* The controller accepts the bytes of a command when it is idle; while it *)
(* is busy _fdc_send_command and _fdc_read_fifo poll in vain, give up, and *)
(* their callers do not look at the result.                                *)
(***************************************************************************)
EXTENDS Integers

CONSTANTS Reader,       \* the threads that call blkread
          Lba,          \* the block numbers they pass
          num_blocks,   \* of fd0: 2880
          TRIES,        \* attempts of _fdc_seek and _fdc_recalibrate: 10
          SeekErrors,   \* whether the drive may miss a cylinder
          ReadErrors,   \* whether the controller may fail to read a sector
          None

ASSUME FloppyAssumption ==
  /\ Lba \subseteq Nat /\ num_blocks \in Nat /\ num_blocks <= 2880
  /\ TRIES \in Nat \ {0}
  /\ SeekErrors \in BOOLEAN /\ ReadErrors \in BOOLEAN
  /\ None \notin Int

VARIABLES
  boot,            \* how far fdc_init is (see Boot)
  boot_tries,      \* attempts made by _fdc_recalibrate
  pc,              \* where each reader is in blkread (see Pc)
  req,             \* the arguments of its call: block, non-null buffer
  tries,           \* attempts made by its _fdc_seek
  reply,           \* how its last call ended
  data,            \* the block in its buffer, or None
  fdc_irq_fired,   \* _fdc_irq_fired
  irq_line,        \* the controller requests IRQ 6
  ctl,             \* the command the controller executes, or "idle"
  target,          \* the disk address in that command
  cylinder,        \* where the head of the drive is
  motor,           \* the motor bit of the DOR
  dma              \* the block in FLOPPY_DMA_BUFFER, or None

callVars == <<pc, req, tries, reply, data>>
bootVars == <<boot, boot_tries>>
deviceVars == <<irq_line, ctl, target, cylinder, dma>>
floppyVars == <<callVars, bootVars, deviceVars, fdc_irq_fired, motor>>

Boot == {"reset", "reset_wait", "recal", "recal_wait", "done"}
Pc == {"out", "motor_on", "seek", "seek_wait", "read", "read_wait", "copy"}

-----------------------------------------------------------------------------
(* fdc_lba_to_chs: the cylinder is cut to a byte. *)
fdc_lba_to_chs(l) ==
  [cyl |-> (l \div 36) % 256, head |-> (l % 36) \div 18, sector |-> ((l % 36) % 18) + 1]

(* The block at an address of the disk. *)
BlockAt(a) == (a.cyl * 2 + a.head) * 18 + a.sector - 1

Cylinders == {fdc_lba_to_chs(l).cyl : l \in Lba} \cup {0}

FloppyInit ==
  /\ boot = "reset" /\ boot_tries = 0
  /\ pc = [r \in Reader |-> "out"]
  /\ req = [r \in Reader |-> [lba |-> 0, buffer |-> FALSE]]
  /\ tries = [r \in Reader |-> 0]
  /\ reply = [r \in Reader |-> "none"]
  /\ data = [r \in Reader |-> None]
  /\ fdc_irq_fired = 0 /\ irq_line = 0
  /\ ctl = "idle" /\ target = fdc_lba_to_chs(0)
  /\ cylinder \in Cylinders
  /\ motor \in {"on", "off"} /\ dma = None

(* _fdc_send_command for the bytes of a command. *)
Send(op, a) ==
  /\ IF ctl = "idle" THEN ctl' = op /\ target' = a ELSE UNCHANGED <<ctl, target>>
  /\ UNCHANGED <<irq_line, cylinder, dma>>

(* The cylinder _fdc_sense_interrupt reports: 0 when its polls time out. *)
_fdc_sense_interrupt == IF ctl = "idle" THEN cylinder ELSE 0

(* Mutant of _fdc_wait_for_irq: the flag is not reset. *)
_fdc_wait_for_irq_NoReset == fdc_irq_fired = 1 /\ UNCHANGED fdc_irq_fired

(* _fdc_wait_for_irq leaves its loop. *)
_fdc_wait_for_irq == fdc_irq_fired = 1 /\ fdc_irq_fired' = 0

(* _fdc_control_motor: the DOR is written; the sleep that follows ends the *)
(* step.                                                                   *)
_fdc_control_motor(m) == motor' = m

-----------------------------------------------------------------------------
(* fdc_init and fdc_reset: disabling the controller stops the motor,       *)
(* enabling it starts its reset.                                           *)
fdc_reset ==
  /\ boot = "reset"
  /\ boot' = "reset_wait"
  /\ ctl' = "reset"
  /\ motor' = "off"
  /\ UNCHANGED <<boot_tries, irq_line, target, cylinder, dma, fdc_irq_fired, callVars>>

(* The interrupt of the reset; the parameters are set, the motor started. *)
reset_done ==
  /\ boot = "reset_wait"
  /\ _fdc_wait_for_irq
  /\ boot' = "recal"
  /\ _fdc_control_motor("on")
  /\ UNCHANGED <<boot_tries, deviceVars, callVars>>

recalibrate ==
  /\ boot = "recal"
  /\ boot' = "recal_wait"
  /\ Send("recal", fdc_lba_to_chs(0))
  /\ UNCHANGED <<boot_tries, fdc_irq_fired, motor, callVars>>

(* Cylinder 0 is reached, or another attempt is made; fdc_reset does not   *)
(* look at the outcome.                                                    *)
recalibrate_done ==
  /\ boot = "recal_wait"
  /\ _fdc_wait_for_irq
  /\ boot_tries' = boot_tries + 1
  /\ IF _fdc_sense_interrupt = 0 \/ boot_tries + 1 = TRIES
     THEN boot' = "done" /\ _fdc_control_motor("off")
     ELSE boot' = "recal" /\ UNCHANGED motor
  /\ UNCHANGED <<deviceVars, callVars>>

-----------------------------------------------------------------------------
(* The call returns. *)
Return(r, outcome) ==
  /\ pc' = [pc EXCEPT ![r] = "out"]
  /\ reply' = [reply EXCEPT ![r] = outcome]

(* blkread is called: a block out of range is refused without a look at    *)
(* the device, in the step after.                                          *)
blkread(r, l, b) ==
  /\ boot = "done" /\ pc[r] = "out"
  /\ pc' = [pc EXCEPT ![r] = "motor_on"]
  /\ req' = [req EXCEPT ![r] = [lba |-> l, buffer |-> b]]
  /\ tries' = [tries EXCEPT ![r] = 0]
  /\ reply' = [reply EXCEPT ![r] = "none"]
  /\ data' = [data EXCEPT ![r] = None]
  /\ UNCHANGED <<bootVars, deviceVars, fdc_irq_fired, motor>>

(* Mutants of motor_on: no range check; the motor is not started. *)
motor_on_Unchecked(r) ==
  /\ pc[r] = "motor_on"
  /\ pc' = [pc EXCEPT ![r] = "seek"]
  /\ _fdc_control_motor("on")
  /\ UNCHANGED <<req, tries, reply, data, bootVars, deviceVars, fdc_irq_fired>>

motor_on_Stopped(r) ==
  /\ pc[r] = "motor_on"
  /\ IF req[r].lba >= num_blocks
     THEN Return(r, "fail")
     ELSE pc' = [pc EXCEPT ![r] = "seek"] /\ UNCHANGED reply
  /\ UNCHANGED <<req, tries, data, bootVars, deviceVars, fdc_irq_fired, motor>>

(* The range check of blkread, and the first step of fdc_read_sector. *)
motor_on(r) ==
  /\ pc[r] = "motor_on"
  /\ IF req[r].lba >= num_blocks
     THEN Return(r, "fail") /\ UNCHANGED motor
     ELSE /\ pc' = [pc EXCEPT ![r] = "seek"]
          /\ _fdc_control_motor("on")
          /\ UNCHANGED reply
  /\ UNCHANGED <<req, tries, data, bootVars, deviceVars, fdc_irq_fired>>

_fdc_seek(r) ==
  /\ pc[r] = "seek"
  /\ pc' = [pc EXCEPT ![r] = "seek_wait"]
  /\ Send("seek", fdc_lba_to_chs(req[r].lba))
  /\ UNCHANGED <<req, tries, reply, data, bootVars, fdc_irq_fired, motor>>

(* On the right cylinder the sector is read; after TRIES attempts the call *)
(* fails, and the motor stays on.                                          *)
seek_done(r) ==
  /\ pc[r] = "seek_wait"
  /\ _fdc_wait_for_irq
  /\ tries' = [tries EXCEPT ![r] = @ + 1]
  /\ IF _fdc_sense_interrupt = fdc_lba_to_chs(req[r].lba).cyl
     THEN pc' = [pc EXCEPT ![r] = "read"] /\ UNCHANGED reply
     ELSE IF tries[r] + 1 = TRIES
          THEN Return(r, "fail")
          ELSE pc' = [pc EXCEPT ![r] = "seek"] /\ UNCHANGED reply
  /\ UNCHANGED <<req, data, bootVars, deviceVars, motor>>

_fdc_read_sector_chs(r) ==
  /\ pc[r] = "read"
  /\ pc' = [pc EXCEPT ![r] = "read_wait"]
  /\ Send("read", fdc_lba_to_chs(req[r].lba))
  /\ UNCHANGED <<req, tries, reply, data, bootVars, fdc_irq_fired, motor>>

(* The seven result bytes are read and ignored; the motor is stopped. *)
read_done(r) ==
  /\ pc[r] = "read_wait"
  /\ _fdc_wait_for_irq
  /\ pc' = [pc EXCEPT ![r] = "copy"]
  /\ _fdc_control_motor("off")
  /\ UNCHANGED <<req, tries, reply, data, bootVars, deviceVars>>

(* Mutant of copy: the caller's buffer is written before it is checked. *)
copy_Unchecked(r) ==
  /\ pc[r] = "copy"
  /\ data' = [data EXCEPT ![r] = dma]
  /\ Return(r, IF req[r].buffer THEN "ok" ELSE "fail")
  /\ UNCHANGED <<req, tries, bootVars, deviceVars, fdc_irq_fired, motor>>

(* The sector is copied out of the DMA buffer. *)
copy(r) ==
  /\ pc[r] = "copy"
  /\ IF req[r].buffer
     THEN data' = [data EXCEPT ![r] = dma] /\ Return(r, "ok")
     ELSE UNCHANGED data /\ Return(r, "fail")
  /\ UNCHANGED <<req, tries, bootVars, deviceVars, fdc_irq_fired, motor>>

-----------------------------------------------------------------------------
(* The controller finishes a command and requests its interrupt.           *)
Finished == ctl' = "idle" /\ irq_line' = 1 /\ UNCHANGED target

device_reset ==
  /\ ctl = "reset"
  /\ Finished
  /\ UNCHANGED <<cylinder, dma, callVars, bootVars, fdc_irq_fired, motor>>

device_seek ==
  /\ ctl \in {"seek", "recal"}
  /\ \E c \in Cylinders : (c = target.cyl \/ SeekErrors) /\ cylinder' = c
  /\ Finished
  /\ UNCHANGED <<dma, callVars, bootVars, fdc_irq_fired, motor>>

(* A sector is found only on the cylinder under the head; an unsuccessful  *)
(* read leaves the buffer as it was.                                       *)
device_read ==
  /\ ctl = "read"
  /\ \/ motor = "on" /\ cylinder = target.cyl /\ dma' = BlockAt(target)
     \/ ~ (motor = "on" /\ cylinder = target.cyl) /\ UNCHANGED dma
     \/ ReadErrors /\ UNCHANGED dma
  /\ Finished
  /\ UNCHANGED <<cylinder, callVars, bootVars, fdc_irq_fired, motor>>

_fdc_irq_handler ==
  /\ irq_line = 1
  /\ irq_line' = 0
  /\ fdc_irq_fired' = 1
  /\ UNCHANGED <<ctl, target, cylinder, dma, callVars, bootVars, motor>>

-----------------------------------------------------------------------------
BootStep == fdc_reset \/ reset_done \/ recalibrate \/ recalibrate_done
ReadStep(r) == \/ motor_on(r) \/ _fdc_seek(r) \/ seek_done(r)
               \/ _fdc_read_sector_chs(r) \/ read_done(r) \/ copy(r)
DeviceStep == device_reset \/ device_seek \/ device_read

(* The kernel as it is: one thread at a time uses the file system. *)
NobodyReads == \A r \in Reader : pc[r] = "out"

FloppyNext ==
  \/ BootStep
  \/ \E r \in Reader, l \in Lba, b \in BOOLEAN : NobodyReads /\ blkread(r, l, b)
  \/ \E r \in Reader : ReadStep(r)
  \/ DeviceStep
  \/ _fdc_irq_handler

(* Threads are scheduled, commands end and their interrupts are delivered, *)
(* as on QEMU.  The comment at fdc.c:1 says that on BOCHS the timing of    *)
(* IRQ6 makes the driver wait for ever; without the last conjunct it does. *)
FloppyFairness ==
  /\ WF_floppyVars(BootStep)
  /\ \A r \in Reader : WF_floppyVars(ReadStep(r))
  /\ WF_floppyVars(DeviceStep)
  /\ WF_floppyVars(_fdc_irq_handler)

FloppySafe == FloppyInit /\ [][FloppyNext]_floppyVars
FloppySpec == FloppySafe /\ FloppyFairness

-----------------------------------------------------------------------------
(* Every variable has values the code can give it. *)
FloppyTypeOK ==
  /\ boot \in Boot /\ boot_tries \in 0..TRIES
  /\ pc \in [Reader -> Pc]
  /\ req \in [Reader -> [lba : Lba \cup {0}, buffer : BOOLEAN]]
  /\ tries \in [Reader -> 0..TRIES]
  /\ reply \in [Reader -> {"none", "ok", "fail"}]
  /\ data \in [Reader -> Int \cup {None}]
  /\ fdc_irq_fired \in {0, 1} /\ irq_line \in {0, 1}
  /\ ctl \in {"idle", "reset", "recal", "seek", "read"}
  /\ target \in [cyl : 0..255, head : 0..1, sector : 1..18]
  /\ cylinder \in Cylinders
  /\ motor \in {"on", "off"}
  /\ dma \in Int \cup {None}

(* A call that reports success has put the block it was asked for into the *)
(* caller's buffer.                                                        *)
ReadsRequestedBlock ==
  \A r \in Reader : reply[r] = "ok" => data[r] = req[r].lba

(* When the driver starts a command the controller is idle, so that the    *)
(* command is not dropped, and no interrupt is left over from an earlier   *)
(* command, so that the wait ends with this one.                           *)
NoStaleInterrupt ==
  \/ boot \in {"reset", "recal"}
  \/ \E r \in Reader : pc[r] \in {"seek", "read"}
  => ctl = "idle" /\ irq_line = 0 /\ fdc_irq_fired = 0

(* The head is moved and the disk read only while the motor runs. *)
MotorRuns == ctl \in {"recal", "seek", "read"} => motor = "on"

(* Why these hold when calls do not overlap: the inductive invariant.  A   *)
(* command is under way, its interrupt requested or its interrupt noted,   *)
(* and one of these only, exactly while somebody waits for it.             *)
Quiet == ctl = "idle" /\ irq_line = 0 /\ fdc_irq_fired = 0

Awaited(op) ==
  \/ ctl = op /\ irq_line = 0 /\ fdc_irq_fired = 0
  \/ ctl = "idle" /\ irq_line = 1 /\ fdc_irq_fired = 0
  \/ ctl = "idle" /\ irq_line = 0 /\ fdc_irq_fired = 1

BootInv ==
  /\ boot # "done" => NobodyReads /\ boot_tries < TRIES
  /\ boot \in {"reset", "recal"} => Quiet
  /\ boot = "reset_wait" => Awaited("reset")
  /\ boot = "recal_wait" => Awaited("recal")
  /\ boot \in {"recal", "recal_wait"} => motor = "on"
  /\ boot = "done" /\ NobodyReads => Quiet

CallInv(r) ==
  /\ \A s \in Reader : pc[r] # "out" /\ pc[s] # "out" => r = s
  /\ pc[r] \in {"motor_on", "seek", "read", "copy"} => Quiet
  /\ pc[r] = "seek_wait" => Awaited("seek")
  /\ pc[r] = "read_wait" => Awaited("read")
  /\ pc[r] \in {"seek", "seek_wait", "read", "read_wait"} => motor = "on"
  /\ pc[r] \in {"motor_on", "seek", "seek_wait"} => tries[r] < TRIES
  /\ pc[r] \in {"seek", "seek_wait", "read", "read_wait", "copy"} =>
       req[r].lba < num_blocks
  /\ pc[r] \in {"read", "read_wait"} => cylinder = fdc_lba_to_chs(req[r].lba).cyl
  /\ pc[r] = "read_wait" => \/ ctl = "read" /\ target = fdc_lba_to_chs(req[r].lba)
                            \/ ctl = "idle" /\ dma = req[r].lba
  /\ pc[r] = "copy" => dma = req[r].lba
  /\ pc[r] # "out" => reply[r] = "none" /\ data[r] = None
  /\ reply[r] = "ok" => data[r] = req[r].lba

FloppyInv == FloppyTypeOK /\ BootInv /\ \A r \in Reader : CallInv(r)

BD == INSTANCE BlockDevice WITH
        asked <- [r \in Reader |-> IF pc[r] = "out" THEN None ELSE req[r].lba]

(* blkread over the floppy driver is the block device of block.h: a call   *)
(* returns with what it may return, and if the interrupt of each command   *)
(* arrives (FloppyFairness) every call does return, also after seeks that  *)
(* missed.  The wait has no limit: should an interrupt not arrive, the     *)
(* call never returns.                                                     *)
ImplementsBlockDevice == BD!BDSpec
=============================================================================
