--------------------------- MODULE FloppyDmaProofs --------------------------
(***************************************************************************)
(* Reads that do not overlap are correct for every set of blocks, every    *)
(* number of attempts and whatever cylinders the drive misses, provided    *)
(* the controller does not fail to read a sector it has found.             *)
(* Programming the DMA channel does not disturb the driver, so that this   *)
(* carries over; and the channel is ready for every transfer, whatever     *)
(* state the chip was found in.                                            *)
(***************************************************************************)
EXTENDS FloppyDma, TLAPS

USE DEF _fdc_control_motor

(* The bounds among the assumptions. *)
LEMMA Bounds ==
  /\ \A l \in Lba \cup {0} : l \in Nat
  /\ num_blocks \in Nat /\ num_blocks <= 2880
  /\ TRIES \in Nat /\ TRIES > 0
  BY FloppyAssumption

(* On the disk the address determines the block: only beyond 9215 blocks   *)
(* does the byte-sized cylinder of fdc_lba_to_chs wrap.                    *)
LEMMA AddressOfBlock ==
  ASSUME NEW l \in Nat
  PROVE  /\ fdc_lba_to_chs(l) \in [cyl : 0..255, head : 0..1, sector : 1..18]
         /\ l < 9216 => BlockAt(fdc_lba_to_chs(l)) = l
<1> DEFINE c == (l \div 36) % 256
           h == (l % 36) \div 18
           s == ((l % 36) % 18) + 1
<1>1. c \in 0..255 /\ h \in 0..1 /\ s \in 1..18
  OBVIOUS
<1>2. l < 9216 => (c * 2 + h) * 18 + s - 1 = l
  OBVIOUS
<1> HIDE DEF c, h, s
<1>3. fdc_lba_to_chs(l) = [cyl |-> c, head |-> h, sector |-> s]
  BY DEF fdc_lba_to_chs, c, h, s
<1> QED
  BY <1>1, <1>2, <1>3 DEF BlockAt

(* The types of what a call sends to the controller. *)
LEMMA AddressType ==
  ASSUME FloppyTypeOK, NEW r \in Reader
  PROVE  /\ req[r].lba \in Nat
         /\ fdc_lba_to_chs(req[r].lba) \in [cyl : 0..255, head : 0..1, sector : 1..18]
<1>1. req[r].lba \in Nat
  <2>1. req[r] \in [lba : Lba \cup {0}, buffer : BOOLEAN]
    BY DEF FloppyTypeOK
  <2>2. req[r].lba \in Lba \cup {0}
    BY <2>1
  <2> QED
    BY <2>2, Bounds
<1> QED
  BY ONLY <1>1, AddressOfBlock

(* While one reader is in a call, the boot is over and the others are out. *)
LEMMA Alone ==
  ASSUME FloppyInv, NEW r \in Reader, pc[r] # "out"
  PROVE  boot = "done" /\ \A s \in Reader \ {r} : pc[s] = "out"
  BY DEF FloppyInv, BootInv, CallInv, NobodyReads

(* A reader that is out and stays out is not affected. *)
LEMMA OutKeeps ==
  ASSUME FloppyInv, NEW s \in Reader, pc[s] = "out", pc'[s] = "out",
         reply'[s] = reply[s], data'[s] = data[s], req'[s] = req[s]
  PROVE  CallInv(s)'
  BY DEF FloppyInv, CallInv

(* A step of the call of r: what remains to be shown. *)
LEMMA CallFacts ==
  ASSUME FloppyInv, NEW r \in Reader, pc[r] # "out",
         FloppyTypeOK', CallInv(r)', UNCHANGED bootVars,
         \A s \in Reader \ {r} : /\ pc'[s] = pc[s] /\ reply'[s] = reply[s]
                                 /\ data'[s] = data[s] /\ req'[s] = req[s],
         pc'[r] = "out" => Quiet'
  PROVE  FloppyInv'
<1>1. boot = "done" /\ \A s \in Reader \ {r} : pc[s] = "out"
  BY Alone
<1>2. \A s \in Reader \ {r} : CallInv(s)'
  BY <1>1, OutKeeps
<1>3. BootInv'
  BY <1>1 DEF BootInv, bootVars, NobodyReads
<1> QED
  BY <1>2, <1>3 DEF FloppyInv

(* A step of the controller or of the interrupt handler leaves the calls   *)
(* and the boot where they are.                                            *)
LEMMA DeviceKeeps ==
  ASSUME FloppyInv, UNCHANGED <<callVars, bootVars, motor>>, FloppyTypeOK',
         \E op \in {"reset", "recal", "seek", "read"} :
           Awaited(op) /\ ~ Quiet /\ Awaited(op)' /\ ~ Quiet',
         ctl' \in {ctl, "idle"} /\ (ctl = "idle" => UNCHANGED <<cylinder, dma>>),
         ctl = "read" => /\ cylinder' = cylinder /\ target' = target
                         /\ \A r \in Reader : pc[r] = "read_wait" =>
                              ctl' = "idle" /\ dma' = req[r].lba
  PROVE  FloppyInv'
<1>1. PICK op \in {"reset", "recal", "seek", "read"} :
        Awaited(op) /\ ~ Quiet /\ Awaited(op)' /\ ~ Quiet'
  OBVIOUS
<1>2. BootInv'
  BY <1>1 DEF FloppyInv, BootInv, bootVars, callVars, NobodyReads, Quiet, Awaited
<1>3. ASSUME NEW r \in Reader PROVE CallInv(r)'
  BY <1>1 DEF FloppyInv, CallInv, callVars, Quiet, Awaited
<1> QED
  BY <1>2, <1>3 DEF FloppyInv

-----------------------------------------------------------------------------
LEMMA FloppyInitInv == FloppyInit => FloppyInv
<1> SUFFICES ASSUME FloppyInit PROVE FloppyInv
  OBVIOUS
<1>1. fdc_lba_to_chs(0) \in [cyl : 0..255, head : 0..1, sector : 1..18]
  BY AddressOfBlock
<1>2. FloppyTypeOK
  BY <1>1, Bounds DEF FloppyInit, FloppyTypeOK, Boot, Pc
<1>3. BootInv
  BY Bounds DEF FloppyInit, BootInv, NobodyReads, Quiet
<1>4. \A r \in Reader : pc[r] = "out" /\ reply[r] = "none"
  BY DEF FloppyInit
<1>5. \A r \in Reader : CallInv(r)
  BY <1>4 DEF CallInv
<1> QED
  BY <1>2, <1>3, <1>5 DEF FloppyInv

(* The steps of fdc_init: nobody reads yet. *)
LEMMA BootKeepsInv ==
  ASSUME FloppyInv, BootStep
  PROVE  FloppyInv'
<1>1. boot # "done" /\ NobodyReads /\ UNCHANGED callVars
  BY DEF FloppyInv, BootInv, BootStep, fdc_reset, reset_done, recalibrate, recalibrate_done
<1>2. \A r \in Reader : pc[r] = "out" /\ CallInv(r)'
  BY <1>1, OutKeeps DEF callVars, NobodyReads
<1>3. fdc_lba_to_chs(0) \in [cyl : 0..255, head : 0..1, sector : 1..18]
  BY AddressOfBlock
<1>4. boot_tries \in 0..TRIES /\ FloppyTypeOK /\ BootInv
  BY DEF FloppyInv, FloppyTypeOK
<1>5. CASE fdc_reset
  <2>1. FloppyTypeOK'
    BY <1>4, <1>5 DEF FloppyTypeOK, fdc_reset, callVars, Boot
  <2>2. BootInv'
    BY <1>1, <1>4, <1>5 DEF fdc_reset, BootInv, callVars, NobodyReads, Quiet, Awaited
  <2> QED
    BY <1>2, <2>1, <2>2 DEF FloppyInv
<1>6. CASE reset_done
  <2>1. FloppyTypeOK'
    BY <1>4, <1>6 DEF FloppyTypeOK, reset_done, callVars, deviceVars, Boot, _fdc_wait_for_irq
  <2>2. BootInv'
    BY <1>1, <1>4, <1>6 DEF reset_done, BootInv, callVars, deviceVars, NobodyReads, Quiet,
                            Awaited, _fdc_wait_for_irq
  <2> QED
    BY <1>2, <2>1, <2>2 DEF FloppyInv
<1>7. CASE recalibrate
  <2>1. FloppyTypeOK'
    BY <1>3, <1>4, <1>7 DEF FloppyTypeOK, recalibrate, callVars, Boot, Send
  <2>2. BootInv'
    BY <1>1, <1>4, <1>7 DEF recalibrate, BootInv, callVars, NobodyReads, Quiet, Awaited, Send
  <2> QED
    BY <1>2, <2>1, <2>2 DEF FloppyInv
<1>8. CASE recalibrate_done
  <2>1. boot_tries < TRIES /\ boot_tries + 1 \in 0..TRIES
    BY <1>4, <1>8, Bounds DEF recalibrate_done, BootInv
  <2>2. FloppyTypeOK'
    BY <1>4, <1>8, <2>1 DEF FloppyTypeOK, recalibrate_done, callVars, deviceVars, Boot,
                            _fdc_wait_for_irq
  <2>3. Quiet'
    BY <1>4, <1>8 DEF recalibrate_done, BootInv, deviceVars, Quiet, Awaited, _fdc_wait_for_irq
  <2>4. boot' = "recal" => motor' = "on" /\ boot_tries' < TRIES
    BY <1>4, <1>8, <2>1, Bounds DEF recalibrate_done, BootInv
  <2>5. BootInv'
    BY <1>1, <1>8, <2>3, <2>4 DEF recalibrate_done, BootInv, callVars, NobodyReads
  <2> QED
    BY <1>2, <2>2, <2>5 DEF FloppyInv
<1> QED
  BY <1>5, <1>6, <1>7, <1>8 DEF BootStep

(* A call begins when nobody reads. *)
LEMMA BeginKeeps ==
  ASSUME FloppyInv, NobodyReads, NEW r \in Reader, NEW l \in Lba, NEW b \in BOOLEAN,
         blkread(r, l, b)
  PROVE  FloppyInv'
<1>1. FloppyTypeOK'
  <2>1. [lba |-> l, buffer |-> b] \in [lba : Lba \cup {0}, buffer : BOOLEAN]
    OBVIOUS
  <2>2. 0 \in 0..TRIES
    BY Bounds
  <2>3. req' \in [Reader -> [lba : Lba \cup {0}, buffer : BOOLEAN]]
    BY <2>1 DEF FloppyInv, FloppyTypeOK, blkread
  <2> QED
    BY <2>2, <2>3 DEF FloppyInv, FloppyTypeOK, blkread, bootVars, deviceVars, Pc
<1>2. Quiet /\ Quiet' /\ boot = "done"
  BY DEF FloppyInv, BootInv, blkread, deviceVars, Quiet
<1>3. /\ pc'[r] = "motor_on" /\ reply'[r] = "none" /\ data'[r] = None /\ tries'[r] = 0
      /\ \A s \in Reader \ {r} : /\ pc'[s] = "out" /\ pc[s] = "out" /\ req'[s] = req[s]
                                 /\ reply'[s] = reply[s] /\ data'[s] = data[s]
  BY DEF FloppyInv, FloppyTypeOK, blkread, NobodyReads
<1>4. CallInv(r)'
  BY <1>2, <1>3, Bounds DEF CallInv
<1>5. \A s \in Reader \ {r} : CallInv(s)'
  BY <1>3, OutKeeps
<1>6. BootInv'
  BY <1>2, <1>3 DEF BootInv, blkread, bootVars, NobodyReads
<1> QED
  BY <1>1, <1>4, <1>5, <1>6 DEF FloppyInv

(* The steps of a call. *)
LEMMA ReadKeepsInv ==
  ASSUME FloppyInv, NEW r \in Reader, ReadStep(r)
  PROVE  FloppyInv'
<1>1. FloppyTypeOK /\ CallInv(r) /\ UNCHANGED bootVars /\ pc[r] # "out" /\ req' = req
  BY DEF FloppyInv, ReadStep, motor_on, _fdc_seek, seek_done, _fdc_read_sector_chs,
         read_done, copy
<1>2. /\ req[r].lba \in Nat
      /\ fdc_lba_to_chs(req[r].lba) \in [cyl : 0..255, head : 0..1, sector : 1..18]
  BY <1>1, AddressType
<1>3. \A s \in Reader \ {r} : /\ pc[s] = "out" /\ pc'[s] = pc[s] /\ reply'[s] = reply[s]
                              /\ data'[s] = data[s] /\ req'[s] = req[s]
  <2>1. \A s \in Reader \ {r} : pc[s] = "out"
    BY <1>1, Alone
  <2> QED
    BY <1>1, <2>1 DEF ReadStep, motor_on, _fdc_seek, seek_done, _fdc_read_sector_chs,
                      read_done, copy, Return, FloppyTypeOK
<1>4. CASE motor_on(r)
  <2>1. FloppyTypeOK'
    <3>1. /\ \E p \in {"out", "seek"} : pc' = [pc EXCEPT ![r] = p]
          /\ reply' = reply \/ reply' = [reply EXCEPT ![r] = "fail"]
          /\ motor' = motor \/ motor' = "on"
      BY <1>4 DEF motor_on, Return, _fdc_control_motor
    <3>2. /\ pc' \in [Reader -> Pc] /\ reply' \in [Reader -> {"none", "ok", "fail"}]
          /\ motor' \in {"on", "off"}
      BY <1>1, <3>1 DEF FloppyTypeOK, Pc
    <3>3. UNCHANGED <<req, tries, data, bootVars, deviceVars, fdc_irq_fired>>
      BY <1>4 DEF motor_on
    <3> QED
      BY <1>1, <3>2, <3>3 DEF FloppyTypeOK, bootVars, deviceVars
  <2>2. Quiet' /\ req[r].lba \in Nat /\ num_blocks \in Nat
    BY <1>1, <1>2, <1>4, Bounds DEF CallInv, motor_on, deviceVars, Quiet
  <2>3. /\ \/ pc'[r] = "out" /\ reply'[r] = "fail"
           \/ /\ pc'[r] = "seek" /\ motor' = "on" /\ reply'[r] = "none"
              /\ req[r].lba < num_blocks
        /\ data'[r] = None /\ tries'[r] = tries[r] /\ tries[r] < TRIES
    BY <1>1, <1>4, <2>2 DEF motor_on, Return, CallInv, FloppyTypeOK
  <2>4. CallInv(r)'
    BY <1>1, <1>3, <2>2, <2>3 DEF CallInv
  <2> QED
    BY <1>1, <1>3, <2>1, <2>2, <2>4, CallFacts
<1>5. CASE _fdc_seek(r)
  <2>1. FloppyTypeOK'
    BY <1>1, <1>2, <1>5 DEF FloppyTypeOK, _fdc_seek, bootVars, Send, Pc
  <2>2. Awaited("seek")' /\ pc'[r] = "seek_wait"
    BY <1>1, <1>5 DEF CallInv, FloppyTypeOK, _fdc_seek, Send, Quiet, Awaited
  <2>3. CallInv(r)'
    BY <1>1, <1>3, <1>5, <2>2 DEF CallInv, _fdc_seek
  <2> QED
    BY <1>1, <1>3, <2>1, <2>2, <2>3, CallFacts
<1>6. CASE seek_done(r)
  <2>1. tries[r] < TRIES /\ tries[r] + 1 \in 0..TRIES /\ tries'[r] = tries[r] + 1
    BY <1>1, <1>6, Bounds DEF CallInv, FloppyTypeOK, seek_done
  <2>2. FloppyTypeOK'
    BY <1>1, <1>6, <2>1 DEF FloppyTypeOK, seek_done, Return, bootVars, deviceVars, Pc,
                            _fdc_wait_for_irq
  <2>3. ctl = "idle" /\ Quiet'
    BY <1>1, <1>6 DEF CallInv, seek_done, deviceVars, Quiet, Awaited, _fdc_wait_for_irq
  <2>4. /\ \/ pc'[r] = "out" /\ reply'[r] = "fail"
           \/ /\ pc'[r] = "read" /\ reply'[r] = "none"
              /\ cylinder = fdc_lba_to_chs(req[r].lba).cyl
           \/ pc'[r] = "seek" /\ reply'[r] = "none" /\ tries'[r] # TRIES
        /\ data'[r] = None /\ cylinder' = cylinder /\ motor' = "on"
    BY <1>1, <1>6, <2>1, <2>3 DEF seek_done, Return, CallInv, FloppyTypeOK, deviceVars,
                                  _fdc_sense_interrupt
  <2>5. tries'[r] # TRIES => tries'[r] < TRIES
    BY <2>1, Bounds
  <2>6. req[r].lba < num_blocks
    BY <1>1, <1>6 DEF seek_done, CallInv
  <2>7. CallInv(r)'
    BY <1>1, <1>3, <2>3, <2>4, <2>5, <2>6 DEF CallInv
  <2> QED
    BY <1>1, <1>3, <2>2, <2>3, <2>7, CallFacts
<1>7. CASE _fdc_read_sector_chs(r)
  <2>1. FloppyTypeOK'
    BY <1>1, <1>2, <1>7 DEF FloppyTypeOK, _fdc_read_sector_chs, bootVars, Send, Pc
  <2>2. /\ Awaited("read")' /\ pc'[r] = "read_wait"
        /\ ctl' = "read" /\ target' = fdc_lba_to_chs(req[r].lba)
    BY <1>1, <1>7 DEF CallInv, FloppyTypeOK, _fdc_read_sector_chs, Send, Quiet, Awaited
  <2>3. cylinder' = cylinder
    BY <1>7 DEF _fdc_read_sector_chs, Send
  <2>4. CallInv(r)'
    BY <1>1, <1>3, <1>7, <2>2, <2>3 DEF CallInv, _fdc_read_sector_chs
  <2> QED
    BY <1>1, <1>3, <2>1, <2>2, <2>4, CallFacts
<1>8. CASE read_done(r)
  <2>1. FloppyTypeOK'
    BY <1>1, <1>8 DEF FloppyTypeOK, read_done, bootVars, deviceVars, Pc, _fdc_wait_for_irq
  <2>2. ctl = "idle" /\ Quiet' /\ pc'[r] = "copy" /\ dma' = req[r].lba
    BY <1>1, <1>8 DEF CallInv, FloppyTypeOK, read_done, deviceVars, Quiet, Awaited,
                      _fdc_wait_for_irq
  <2>3. CallInv(r)'
    BY <1>1, <1>3, <1>8, <2>2 DEF CallInv, read_done
  <2> QED
    BY <1>1, <1>3, <2>1, <2>2, <2>3, CallFacts
<1>9. CASE copy(r)
  <2>1. FloppyTypeOK'
    <3>1. data' \in [Reader -> Int \cup {None}]
      BY <1>1, <1>9 DEF FloppyTypeOK, copy
    <3>2. /\ pc' = [pc EXCEPT ![r] = "out"]
          /\ \E o \in {"ok", "fail"} : reply' = [reply EXCEPT ![r] = o]
      BY <1>9 DEF copy, Return
    <3>3. pc' \in [Reader -> Pc] /\ reply' \in [Reader -> {"none", "ok", "fail"}]
      BY <1>1, <3>2 DEF FloppyTypeOK, Pc
    <3>4. UNCHANGED <<req, tries, bootVars, deviceVars, fdc_irq_fired, motor>>
      BY <1>9 DEF copy
    <3> QED
      BY <1>1, <3>1, <3>3, <3>4 DEF FloppyTypeOK, bootVars, deviceVars
  <2>2. Quiet' /\ pc'[r] = "out"
    BY <1>1, <1>9 DEF CallInv, FloppyTypeOK, copy, Return, deviceVars, Quiet
  <2>3. reply'[r] = "ok" => data'[r] = req[r].lba
    BY <1>1, <1>9 DEF CallInv, FloppyTypeOK, copy, Return
  <2>4. CallInv(r)'
    BY <1>1, <2>2, <2>3 DEF CallInv
  <2> QED
    BY <1>1, <1>3, <2>1, <2>2, <2>4, CallFacts
<1> QED
  BY <1>4, <1>5, <1>6, <1>7, <1>8, <1>9 DEF ReadStep

(* The controller finishes a command: only the one that is awaited can be  *)
(* under way.                                                              *)
LEMMA BusyIsAwaited ==
  ASSUME FloppyInv, ctl # "idle" \/ irq_line = 1
  PROVE  \E op \in {"reset", "recal", "seek", "read"} : Awaited(op) /\ ~ Quiet
<1>1. ~ Quiet
  BY DEF Quiet
<1>2. CASE boot # "done"
  BY <1>1, <1>2 DEF FloppyInv, FloppyTypeOK, Boot, BootInv
<1>3. CASE boot = "done"
  <2>1. PICK r \in Reader : pc[r] # "out"
    BY <1>1, <1>3 DEF FloppyInv, BootInv, NobodyReads
  <2>2. pc[r] \in {"seek_wait", "read_wait"}
    BY <1>1, <2>1 DEF FloppyInv, FloppyTypeOK, CallInv, Pc
  <2> QED
    BY <1>1, <2>2 DEF FloppyInv, CallInv
<1> QED
  BY <1>2, <1>3

LEMMA DeviceKeepsInv ==
  ASSUME FloppyInv, DeviceStep, ~ ReadErrors
  PROVE  FloppyInv'
<1>1. /\ ctl \in {"reset", "recal", "seek", "read"} /\ Finished
      /\ UNCHANGED <<callVars, bootVars, motor, fdc_irq_fired>>
  BY DEF DeviceStep, device_reset, device_seek, device_read
<1>2. PICK op \in {"reset", "recal", "seek", "read"} : Awaited(op) /\ ~ Quiet
  BY <1>1, BusyIsAwaited
<1>3. Awaited(op)' /\ ~ Quiet'
  BY <1>1, <1>2 DEF Awaited, Quiet, Finished
<1>4. FloppyTypeOK'
  <2>1. dma' \in Int \cup {None}
    <3>1. ASSUME NEW a \in [cyl : 0..255, head : 0..1, sector : 1..18]
          PROVE  BlockAt(a) \in Int
      <4>1. a.cyl \in Int /\ a.head \in Int /\ a.sector \in Int
        BY <3>1
      <4> QED
        BY <4>1 DEF BlockAt
    <3> QED
      BY <3>1 DEF FloppyInv, FloppyTypeOK, DeviceStep, device_reset, device_seek, device_read
  <2>2. cylinder' \in Cylinders
    BY DEF FloppyInv, FloppyTypeOK, DeviceStep, device_reset, device_seek, device_read
  <2>3. Cylinders' = Cylinders
    BY DEF Cylinders
  <2> QED
    BY <1>1, <2>1, <2>2, <2>3 DEF FloppyInv, FloppyTypeOK, Finished, callVars, bootVars
<1>5. ASSUME ctl = "read" PROVE device_read
  BY <1>5 DEF DeviceStep, device_reset, device_seek
<1>6. ASSUME ctl = "read", NEW r \in Reader, pc[r] = "read_wait"
      PROVE  ctl' = "idle" /\ dma' = req[r].lba
  <2>1. /\ target = fdc_lba_to_chs(req[r].lba) /\ cylinder = target.cyl /\ motor = "on"
        /\ req[r].lba < num_blocks
    BY <1>6 DEF FloppyInv, CallInv
  <2>2. req[r].lba \in Nat /\ req[r].lba < 9216
    BY <2>1, AddressType, Bounds DEF FloppyInv
  <2>3. BlockAt(target) = req[r].lba
    BY <2>1, <2>2, AddressOfBlock
  <2> QED
    BY <1>1, <1>5, <1>6, <2>1, <2>3 DEF device_read, Finished
<1>7. ctl = "read" => cylinder' = cylinder /\ target' = target
  BY <1>1, <1>5 DEF device_read, Finished
<1> QED
  BY <1>1, <1>2, <1>3, <1>4, <1>6, <1>7, DeviceKeeps DEF Finished

(* The interrupt handler sets the flag. *)
LEMMA HandlerKeepsInv ==
  ASSUME FloppyInv, _fdc_irq_handler
  PROVE  FloppyInv'
<1>1. PICK op \in {"reset", "recal", "seek", "read"} : Awaited(op) /\ ~ Quiet
  BY BusyIsAwaited DEF _fdc_irq_handler
<1>2. ctl = "idle" /\ Awaited(op)' /\ ~ Quiet'
  BY <1>1 DEF _fdc_irq_handler, Awaited, Quiet
<1>3. Cylinders' = Cylinders
  BY DEF Cylinders
<1>4. FloppyTypeOK'
  BY <1>3 DEF FloppyInv, FloppyTypeOK, _fdc_irq_handler, callVars, bootVars
<1> QED
  BY <1>1, <1>2, <1>4, DeviceKeeps DEF _fdc_irq_handler

-----------------------------------------------------------------------------
LEMMA FloppyStepInv ==
  ASSUME ~ ReadErrors
  PROVE  FloppyInv /\ [FloppyNext]_floppyVars => FloppyInv'
<1> SUFFICES ASSUME FloppyInv, [FloppyNext]_floppyVars PROVE FloppyInv'
  OBVIOUS
<1>1. CASE BootStep
  BY <1>1, BootKeepsInv
<1>2. CASE \E r \in Reader, l \in Lba, b \in BOOLEAN : NobodyReads /\ blkread(r, l, b)
  BY <1>2, BeginKeeps
<1>3. CASE \E r \in Reader : ReadStep(r)
  BY <1>3, ReadKeepsInv
<1>4. CASE DeviceStep
  BY <1>4, DeviceKeepsInv
<1>5. CASE _fdc_irq_handler
  BY <1>5, HandlerKeepsInv
<1>6. CASE UNCHANGED floppyVars
  <2>1. Cylinders' = Cylinders
    BY DEF Cylinders
  <2>2. FloppyTypeOK'
    BY <1>6, <2>1 DEF floppyVars, callVars, bootVars, deviceVars, FloppyInv, FloppyTypeOK
  <2>3. BootInv'
    BY <1>6 DEF floppyVars, callVars, bootVars, deviceVars, FloppyInv, BootInv,
                NobodyReads, Quiet, Awaited
  <2>4. \A r \in Reader : CallInv(r)'
    BY <1>6 DEF floppyVars, callVars, bootVars, deviceVars, FloppyInv, CallInv, Quiet, Awaited
  <2> QED
    BY <2>2, <2>3, <2>4 DEF FloppyInv
<1> QED
  BY <1>1, <1>2, <1>3, <1>4, <1>5, <1>6 DEF FloppyNext

(* A blkread that succeeds delivers the block it was asked for, every      *)
(* command finds an idle controller and no old interrupt, and the motor    *)
(* runs: as long as calls do not overlap and the controller reads what it  *)
(* has found.                                                              *)
THEOREM ReadsCorrect ==
  ~ ReadErrors /\ FloppySafe =>
    [](FloppyTypeOK /\ ReadsRequestedBlock /\ NoStaleInterrupt /\ MotorRuns)
<1> SUFFICES ASSUME ~ ReadErrors
             PROVE  FloppySafe =>
               [](FloppyTypeOK /\ ReadsRequestedBlock /\ NoStaleInterrupt /\ MotorRuns)
  OBVIOUS
<1>1. FloppyInv => FloppyTypeOK /\ ReadsRequestedBlock /\ NoStaleInterrupt /\ MotorRuns
  <2> SUFFICES ASSUME FloppyInv
               PROVE  ReadsRequestedBlock /\ NoStaleInterrupt /\ MotorRuns
    BY DEF FloppyInv
  <2>1. ReadsRequestedBlock
    BY DEF FloppyInv, CallInv, ReadsRequestedBlock
  <2>2. NoStaleInterrupt
    BY DEF FloppyInv, BootInv, CallInv, NoStaleInterrupt, Quiet
  <2>3. MotorRuns
    <3> SUFFICES ASSUME ctl \in {"recal", "seek", "read"} PROVE motor = "on"
      BY DEF MotorRuns
    <3>1. CASE boot # "done"
      BY <3>1 DEF FloppyInv, FloppyTypeOK, Boot, BootInv, Quiet, Awaited
    <3>2. CASE boot = "done"
      <4>1. PICK r \in Reader : pc[r] # "out"
        BY <3>2 DEF FloppyInv, BootInv, NobodyReads, Quiet
      <4> QED
        BY <4>1 DEF FloppyInv, FloppyTypeOK, CallInv, Pc, Quiet
    <3> QED
      BY <3>1, <3>2
  <2> QED
    BY <2>1, <2>2, <2>3
<1> QED
  BY <1>1, FloppyInitInv, FloppyStepInv, PTL DEF FloppySafe

(* The invariant itself, for what is built on the driver. *)
THEOREM FloppyInvariant == ~ ReadErrors /\ FloppySafe => []FloppyInv
<1> SUFFICES ASSUME ~ ReadErrors PROVE FloppySafe => []FloppyInv
  OBVIOUS
<1> QED
  BY FloppyInitInv, FloppyStepInv, PTL DEF FloppySafe

(* Every wait ends with the interrupt of its own command. *)
THEOREM InterruptsMatch == ~ ReadErrors /\ FloppySafe => []NoStaleInterrupt
  BY ReadsCorrect, PTL

(* No command meets a stopped motor, whichever way earlier calls ended. *)
THEOREM MotorCorrect == ~ ReadErrors /\ FloppySafe => []MotorRuns
  BY ReadsCorrect, PTL

-----------------------------------------------------------------------------
(* A step that leaves the reader r where it is does not show outside. *)
LEMMA ReadImplements ==
  ASSUME FloppyInv, NEW r \in Reader, ReadStep(r)
  PROVE  BD!End(r) \/ UNCHANGED BD!bdVars
<1> DEFINE asked == [s \in Reader |-> IF pc[s] = "out" THEN None ELSE req[s].lba]
           after == [s \in Reader |-> IF pc'[s] = "out" THEN None ELSE req'[s].lba]
<1>1. FloppyTypeOK /\ CallInv(r) /\ pc[r] # "out" /\ req' = req
  BY DEF FloppyInv, ReadStep, motor_on, _fdc_seek, seek_done, _fdc_read_sector_chs,
         read_done, copy
<1>2. req[r].lba \in Nat /\ req[r].lba # None
  BY <1>1, AddressType, FloppyAssumption
<1>3. \A s \in Reader \ {r} : pc'[s] = pc[s]
  BY <1>1 DEF ReadStep, motor_on, _fdc_seek, seek_done, _fdc_read_sector_chs,
              read_done, copy, Return, FloppyTypeOK
<1>4. /\ \/ pc'[r] # "out" /\ reply' = reply /\ data' = data
         \/ pc'[r] = "out" /\ reply' = [reply EXCEPT ![r] = "fail"] /\ data' = data
         \/ /\ pc'[r] = "out" /\ reply' = [reply EXCEPT ![r] = "ok"]
            /\ data' = [data EXCEPT ![r] = req[r].lba]
            /\ req[r].lba < num_blocks
  BY <1>1 DEF ReadStep, motor_on, _fdc_seek, seek_done, _fdc_read_sector_chs,
              read_done, copy, Return, FloppyTypeOK, CallInv
<1>5. asked[r] = req[r].lba
  BY <1>1
<1>6. CASE pc'[r] # "out"
  <2>1. after = asked
    BY <1>1, <1>3, <1>6
  <2> QED
    BY <1>4, <1>6, <2>1 DEF BD!bdVars
<1>7. CASE pc'[r] = "out"
  <2>1. after = [asked EXCEPT ![r] = None]
    BY <1>1, <1>3, <1>7
  <2>2. \/ reply' = [reply EXCEPT ![r] = "fail"] /\ data' = data
        \/ /\ reply' = [reply EXCEPT ![r] = "ok"]
           /\ data' = [data EXCEPT ![r] = asked[r]]
           /\ asked[r] < num_blocks
    BY <1>4, <1>5, <1>7
  <2>3. asked[r] # None
    BY <1>2, <1>5
  <2> QED
    BY <2>1, <2>2, <2>3 DEF BD!End
<1> QED
  BY <1>6, <1>7

LEMMA FloppyStepImplements ==
  FloppyInv /\ [FloppyNext]_floppyVars => [BD!BDNext]_(BD!bdVars)
<1> SUFFICES ASSUME FloppyInv, [FloppyNext]_floppyVars
             PROVE  [BD!BDNext]_(BD!bdVars)
  OBVIOUS
<1>1. CASE UNCHANGED callVars
  BY <1>1 DEF callVars, BD!bdVars
<1>2. CASE \E r \in Reader, l \in Lba, b \in BOOLEAN : NobodyReads /\ blkread(r, l, b)
  <2>1. PICK r \in Reader, l \in Lba, b \in BOOLEAN : blkread(r, l, b)
    BY <1>2
  <2> DEFINE asked == [s \in Reader |-> IF pc[s] = "out" THEN None ELSE req[s].lba]
             after == [s \in Reader |-> IF pc'[s] = "out" THEN None ELSE req'[s].lba]
  <2>2. /\ pc[r] = "out" /\ pc'[r] = "motor_on" /\ req'[r].lba = l
        /\ \A s \in Reader \ {r} : pc'[s] = pc[s] /\ req'[s] = req[s]
    BY <2>1 DEF blkread, FloppyInv, FloppyTypeOK
  <2>3. asked[r] = None /\ after[r] = l /\ \A s \in Reader \ {r} : after[s] = asked[s]
    BY <2>2
  <2>4. after = [asked EXCEPT ![r] = l]
    BY <2>3
  <2>5. BD!Begin(r, l)
    BY <2>1, <2>3, <2>4 DEF blkread, BD!Begin
  <2> QED
    BY <2>5 DEF BD!BDNext
<1>3. CASE \E r \in Reader : ReadStep(r)
  BY <1>3, ReadImplements DEF BD!BDNext
<1> QED
  BY <1>1, <1>2, <1>3
     DEF FloppyNext, BootStep, fdc_reset, reset_done, recalibrate,
         recalibrate_done, DeviceStep, device_reset, device_seek, device_read,
         _fdc_irq_handler, floppyVars

(* blkread over the floppy driver implements the block device of block.h:  *)
(* a call ends with the block it asked for or with a failure that leaves   *)
(* the buffer alone, and a block out of range is refused.                  *)
THEOREM FloppyIsBlockDevice == ~ ReadErrors /\ FloppySafe => BD!BDSafety
<1> SUFFICES ASSUME ~ ReadErrors PROVE FloppySafe => BD!BDSafety
  OBVIOUS
<1>1. FloppyInit => BD!BDInit
  BY DEF FloppyInit, BD!BDInit
<1> QED
  BY <1>1, FloppyInitInv, FloppyStepInv, FloppyStepImplements, PTL
     DEF FloppySafe, BD!BDSafety

-----------------------------------------------------------------------------
(* Every step of the composition is one of the driver or leaves it alone. *)
LEMMA StepIsFloppyStep == [FloppyDmaNext]_floppyDmaVars => [FloppyNext]_floppyVars
<1> SUFFICES ASSUME [FloppyDmaNext]_floppyDmaVars PROVE [FloppyNext]_floppyVars
  OBVIOUS
<1>1. CASE BootStep
  BY <1>1 DEF FloppyNext
<1>2. CASE \E r \in Reader, l \in Lba, b \in BOOLEAN : NobodyReads /\ blkread(r, l, b)
  BY <1>2 DEF FloppyNext
<1>3. CASE \E r \in Reader : CallStep(r)
  BY <1>3 DEF FloppyNext, CallStep, init_dma, read_sector, call_step, ReadStep
<1>4. CASE drive_read \/ drive_other
  BY <1>4 DEF FloppyNext, drive_read, drive_other, DeviceStep
<1>5. CASE _fdc_irq_handler
  BY <1>5 DEF FloppyNext
<1>6. CASE UNCHANGED floppyDmaVars
  BY <1>6 DEF floppyDmaVars
<1> QED
  BY <1>1, <1>2, <1>3, <1>4, <1>5, <1>6 DEF FloppyDmaNext

(* Seen from blkread, the driver with the DMA chip is the driver. *)
THEOREM FloppyDmaIsFloppy == FloppyDmaSpec => FloppySafe
  BY StepIsFloppyStep, PTL DEF FloppyDmaSpec, FloppyDmaInit, FloppySafe

-----------------------------------------------------------------------------
LEMMA DmaWrites ==
  /\ Len(read_setup) = 12
  /\ read_setup[1] = <<10, 6>> /\ read_setup[2] = <<12, 255>>
  /\ read_setup[3] = <<4, 0>> /\ read_setup[4] = <<4, 16>>
  /\ read_setup[5] = <<12, 255>>
  /\ read_setup[6] = <<5, 255>> /\ read_setup[7] = <<5, 1>>
  /\ read_setup[8] = <<129, 0>>
  /\ read_setup[9] = <<10, 6>> /\ read_setup[10] = <<11, 70>> /\ read_setup[11] = <<14, 0>>
  /\ read_setup[12] = <<14, 0>>
  BY DEF read_setup, _fdc_init_dma, dma_mask_channel, dma_reset_flipflop, dma_set_address,
         dma_set_count, dma_set_external_pagereg, dma_setup_read, dma_set_mode,
         dma_unmask_all, DMA_CHAN_FLOPPY, FLOPPY_DMA_BUFFER, DMA_MODE_READ,
         DMA_MODE_SINGLE, PagePort, Bytes, Write

(* The port and the value of each write. *)
LEMMA WriteAt ==
  ASSUME NEW i \in 0..11
  PROVE  LET port == read_setup[i + 1][1]
             v == read_setup[i + 1][2]
         IN  /\ i \in {0, 8} => port = 10 /\ v = 6
             /\ i \in {1, 4} => port = 12 /\ v = 255
             /\ i = 2 => port = 4 /\ v = 0
             /\ i = 3 => port = 4 /\ v = 16
             /\ i = 5 => port = 5 /\ v = 255
             /\ i = 6 => port = 5 /\ v = 1
             /\ i = 7 => port = 129 /\ v = 0
             /\ i = 9 => port = 11 /\ v = 70
             /\ i \in {10, 11} => port = 14 /\ v = 0
<1>1. \A k \in 1..12 : i = k - 1 => i + 1 = k
  OBVIOUS
<1> QED
  BY <1>1, DmaWrites

(* What the writes _fdc_init_dma makes do to the chip. *)
LEMMA DmaOutb ==
  ASSUME NEW d \in Dmac, NEW v \in Byte
  PROVE  /\ outb(d, 4, v) = Flipped([d EXCEPT !.addr = PutByte(@, 2, d.flip, v)])
         /\ outb(d, 5, v) = Flipped([d EXCEPT !.count = PutByte(@, 2, d.flip, v)])
         /\ outb(d, 10, 6) = [d EXCEPT !.mask = @ \cup {2}]
         /\ outb(d, 11, 70) = [d EXCEPT !.mode = Put(@, 2, 70)]
         /\ outb(d, 12, v) = [d EXCEPT !.flip = 0]
         /\ outb(d, 14, v) = [d EXCEPT !.mask = {}]
         /\ outb(d, 129, v) = [d EXCEPT !.page = Put(@, 2, v)]
<1>1. 4 \div 2 = 2 /\ 5 \div 2 = 2 /\ (6 \div 4) % 2 = 1 /\ 6 % 4 = 2 /\ 70 % 4 = 2
  OBVIOUS
<1>2. outb(d, 4, v) = Flipped([d EXCEPT !.addr = PutByte(@, 2, d.flip, v)])
  BY <1>1 DEF outb
<1>3. outb(d, 5, v) = Flipped([d EXCEPT !.count = PutByte(@, 2, d.flip, v)])
  BY <1>1 DEF outb
<1>4. outb(d, 10, 6) = [d EXCEPT !.mask = @ \cup {2}]
  BY <1>1 DEF outb
<1>5. outb(d, 11, 70) = [d EXCEPT !.mode = Put(@, 2, 70)]
  BY <1>1 DEF outb
<1>6. outb(d, 12, v) = [d EXCEPT !.flip = 0] /\ outb(d, 14, v) = [d EXCEPT !.mask = {}]
  BY DEF outb
<1>7. outb(d, 129, v) = [d EXCEPT !.page = Put(@, 2, v)]
  BY DEF outb, PageChannel
<1> QED
  BY <1>2, <1>3, <1>4, <1>5, <1>6, <1>7

(* The bytes of a word. *)
LEMMA WordBytes ==
  ASSUME NEW f \in [0..3 -> Word], NEW v \in Byte, NEW flip \in {0, 1}
  PROVE  /\ PutByte(f, 2, flip, v) \in [0..3 -> Word]
         /\ flip = 0 => PutByte(f, 2, flip, v)[2] % 256 = v
         /\ flip = 1 => PutByte(f, 2, flip, v)[2] = v * 256 + (f[2] % 256)
<1>1. ASSUME NEW x \in Word
      PROVE  /\ SetByte(x, flip, v) \in Word
             /\ flip = 0 => SetByte(x, flip, v) % 256 = v
             /\ flip = 1 => SetByte(x, flip, v) = v * 256 + (x % 256)
  BY DEF SetByte, Byte, Word
<1>2. f[2] \in Word
  OBVIOUS
<1>3. PutByte(f, 2, flip, v) = [f EXCEPT ![2] = SetByte(f[2], flip, v)]
  BY DEF PutByte
<1> QED
  BY <1>1, <1>2, <1>3

(* A byte of an address or of a count leaves the rest of the chip alone. *)
LEMMA AddrWrite ==
  ASSUME NEW d \in Dmac, NEW v \in Byte
  PROVE  LET e == outb(d, 4, v)
         IN  /\ e \in Dmac /\ e.flip = 1 - d.flip
             /\ d.flip = 0 => e.addr[2] % 256 = v
             /\ d.flip = 1 => e.addr[2] = v * 256 + (d.addr[2] % 256)
             /\ e.count = d.count /\ e.page = d.page /\ e.mode = d.mode /\ e.mask = d.mask
<1> DEFINE f == d.addr
           flip == d.flip
           words == PutByte(f, 2, flip, v)
           other == 1 - d.flip
<1>1. /\ f \in [0..3 -> Word] /\ flip \in {0, 1}
      /\ other \in {0, 1} /\ other = 1 - d.flip
  BY DEF Dmac
<1>2. outb(d, 4, v) = Flipped([d EXCEPT !.addr = words])
  BY DmaOutb DEF Dmac
<1> HIDE DEF f, flip, other
<1>3. /\ words \in [0..3 -> Word]
      /\ flip = 0 => words[2] % 256 = v
      /\ flip = 1 => words[2] = v * 256 + (f[2] % 256)
  BY <1>1, WordBytes
<1> HIDE DEF words
<1>4. LET e == outb(d, 4, v)
      IN  /\ e \in Dmac /\ e.flip = other /\ e.addr = words
          /\ e.count = d.count /\ e.page = d.page /\ e.mode = d.mode /\ e.mask = d.mask
  <2> DEFINE g == [d EXCEPT !.addr = words]
  <2>1. /\ g \in Dmac /\ g.flip = d.flip /\ g.addr = words
        /\ g.count = d.count /\ g.page = d.page /\ g.mode = d.mode /\ g.mask = d.mask
    BY <1>3 DEF Dmac
  <2> HIDE DEF g
  <2>2. Flipped(g) = [g EXCEPT !.flip = other]
    BY <1>1, <2>1 DEF Flipped, Dmac
  <2>3. /\ Flipped(g) \in Dmac /\ Flipped(g).flip = other /\ Flipped(g).addr = g.addr
        /\ Flipped(g).count = g.count /\ Flipped(g).page = g.page
        /\ Flipped(g).mode = g.mode /\ Flipped(g).mask = g.mask
    BY <1>1, <2>1, <2>2 DEF Dmac
  <2>4. outb(d, 4, v) = Flipped(g)
    BY <1>2 DEF g
  <2> QED
    BY <2>1, <2>3, <2>4
<1>5. f = d.addr /\ flip = d.flip
  BY DEF f, flip
<1> QED
  BY <1>1, <1>3, <1>4, <1>5

LEMMA CountWrite ==
  ASSUME NEW d \in Dmac, NEW v \in Byte
  PROVE  LET e == outb(d, 5, v)
         IN  /\ e \in Dmac /\ e.flip = 1 - d.flip
             /\ d.flip = 0 => e.count[2] % 256 = v
             /\ d.flip = 1 => e.count[2] = v * 256 + (d.count[2] % 256)
             /\ e.addr = d.addr /\ e.page = d.page /\ e.mode = d.mode /\ e.mask = d.mask
<1> DEFINE f == d.count
           flip == d.flip
           words == PutByte(f, 2, flip, v)
           other == 1 - d.flip
<1>1. /\ f \in [0..3 -> Word] /\ flip \in {0, 1}
      /\ other \in {0, 1} /\ other = 1 - d.flip
  BY DEF Dmac
<1>2. outb(d, 5, v) = Flipped([d EXCEPT !.count = words])
  BY DmaOutb DEF Dmac
<1> HIDE DEF f, flip, other
<1>3. /\ words \in [0..3 -> Word]
      /\ flip = 0 => words[2] % 256 = v
      /\ flip = 1 => words[2] = v * 256 + (f[2] % 256)
  BY <1>1, WordBytes
<1> HIDE DEF words
<1>4. LET e == outb(d, 5, v)
      IN  /\ e \in Dmac /\ e.flip = other /\ e.count = words
          /\ e.addr = d.addr /\ e.page = d.page /\ e.mode = d.mode /\ e.mask = d.mask
  <2> DEFINE g == [d EXCEPT !.count = words]
  <2>1. /\ g \in Dmac /\ g.flip = d.flip /\ g.count = words
        /\ g.addr = d.addr /\ g.page = d.page /\ g.mode = d.mode /\ g.mask = d.mask
    BY <1>3 DEF Dmac
  <2> HIDE DEF g
  <2>2. Flipped(g) = [g EXCEPT !.flip = other]
    BY <1>1, <2>1 DEF Flipped, Dmac
  <2>3. /\ Flipped(g) \in Dmac /\ Flipped(g).flip = other /\ Flipped(g).count = g.count
        /\ Flipped(g).addr = g.addr /\ Flipped(g).page = g.page
        /\ Flipped(g).mode = g.mode /\ Flipped(g).mask = g.mask
    BY <1>1, <2>1, <2>2 DEF Dmac
  <2>4. outb(d, 5, v) = Flipped(g)
    BY <1>2 DEF g
  <2> QED
    BY <2>1, <2>3, <2>4
<1>5. f = d.count /\ flip = d.flip
  BY DEF f, flip
<1> QED
  BY <1>1, <1>3, <1>4, <1>5

(* Each write settles its part of the registers. *)
LEMMA ProgramKeeps ==
  ASSUME dmac \in Dmac, step \in 0..12, Settled, program_dma
  PROVE  dmac' \in Dmac /\ step' \in 0..12 /\ Settled'
<1> DEFINE port == read_setup[step + 1][1]
           value == read_setup[step + 1][2]
<1>1. step \in 0..11 /\ step' = step + 1 /\ dmac' = outb(dmac, port, value)
  <2>1. step # 12
    BY DmaWrites DEF program_dma, Programmed
  <2> QED
    BY <2>1 DEF program_dma
<1>0. /\ step \in {0, 8} => port = 10 /\ value = 6
      /\ step \in {1, 4} => port = 12 /\ value = 255
      /\ step = 2 => port = 4 /\ value = 0
      /\ step = 3 => port = 4 /\ value = 16
      /\ step = 5 => port = 5 /\ value = 255
      /\ step = 6 => port = 5 /\ value = 1
      /\ step = 7 => port = 129 /\ value = 0
      /\ step = 9 => port = 11 /\ value = 70
      /\ step \in {10, 11} => port = 14 /\ value = 0
  BY <1>1, WriteAt
<1> HIDE DEF port, value
<1>2. /\ dmac.flip \in {0, 1} /\ dmac.addr \in [0..3 -> Word]
      /\ dmac.count \in [0..3 -> Word] /\ dmac.page \in [0..3 -> Byte]
      /\ dmac.mode \in [0..3 -> Byte] /\ dmac.mask \subseteq 0..3
  BY DEF Dmac
<1>3. CASE step \in {0, 8}
  <2>1. port = 10 /\ value = 6
    BY <1>3, <1>0
  <2>2. dmac' = [dmac EXCEPT !.mask = @ \cup {2}]
    <3>1. 6 \in Byte
      BY DEF Byte
    <3>2. outb(dmac, 10, 6) = [dmac EXCEPT !.mask = @ \cup {2}]
      BY <3>1, DmaOutb
    <3> QED
      BY <1>1, <2>1, <3>2
  <2>3. dmac' \in Dmac
    BY <2>2 DEF Dmac
  <2> QED
    BY <1>1, <1>2, <1>3, <2>2, <2>3 DEF Settled, DMA_CHAN_FLOPPY, FLOPPY_DMA_BUFFER, Dmac
<1>4. CASE step \in {1, 4}
  <2>1. port = 12 /\ value = 255
    BY <1>4, <1>0
  <2>2. dmac' = [dmac EXCEPT !.flip = 0]
    <3>1. 255 \in Byte
      BY DEF Byte
    <3>2. outb(dmac, 12, 255) = [dmac EXCEPT !.flip = 0]
      BY <3>1, DmaOutb
    <3> QED
      BY <1>1, <2>1, <3>2
  <2>3. dmac' \in Dmac
    BY <2>2 DEF Dmac
  <2> QED
    BY <1>1, <1>2, <1>4, <2>2, <2>3 DEF Settled, DMA_CHAN_FLOPPY, FLOPPY_DMA_BUFFER, Dmac
<1>5. CASE step \in {2, 3}
  <2>1. port = 4 /\ value = (IF step = 2 THEN 0 ELSE 16) /\ value \in Byte
    BY <1>5, <1>0 DEF Byte
  <2>2. /\ dmac' \in Dmac /\ dmac'.flip = 1 - dmac.flip
        /\ dmac.flip = 0 => dmac'.addr[2] % 256 = value
        /\ dmac.flip = 1 => dmac'.addr[2] = value * 256 + (dmac.addr[2] % 256)
        /\ dmac'.count = dmac.count /\ dmac'.page = dmac.page /\ dmac'.mode = dmac.mode
        /\ dmac'.mask = dmac.mask
    BY <1>1, <2>1, AddrWrite
  <2> QED
    BY <1>1, <1>2, <1>5, <2>1, <2>2 DEF Settled, DMA_CHAN_FLOPPY, FLOPPY_DMA_BUFFER
<1>6. CASE step \in {5, 6}
  <2>1. port = 5 /\ value = (IF step = 5 THEN 255 ELSE 1) /\ value \in Byte
    BY <1>6, <1>0 DEF Byte
  <2>2. /\ dmac' \in Dmac /\ dmac'.flip = 1 - dmac.flip
        /\ dmac.flip = 0 => dmac'.count[2] % 256 = value
        /\ dmac.flip = 1 => dmac'.count[2] = value * 256 + (dmac.count[2] % 256)
        /\ dmac'.addr = dmac.addr /\ dmac'.page = dmac.page /\ dmac'.mode = dmac.mode
        /\ dmac'.mask = dmac.mask
    BY <1>1, <2>1, CountWrite
  <2> QED
    BY <1>1, <1>2, <1>6, <2>1, <2>2 DEF Settled, DMA_CHAN_FLOPPY, FLOPPY_DMA_BUFFER
<1>7. CASE step = 7
  <2>1. port = 129 /\ value = 0
    BY <1>7, <1>0
  <2>2. dmac' = [dmac EXCEPT !.page = Put(@, 2, 0)]
    <3>1. 0 \in Byte
      BY DEF Byte
    <3>2. outb(dmac, 129, 0) = [dmac EXCEPT !.page = Put(@, 2, 0)]
      BY <3>1, DmaOutb
    <3> QED
      BY <1>1, <2>1, <3>2
  <2>3. Put(dmac.page, 2, 0) \in [0..3 -> Byte] /\ Put(dmac.page, 2, 0)[2] = 0
    BY <1>2 DEF Put, Byte
  <2>4. dmac' \in Dmac
    BY <2>2, <2>3 DEF Dmac
  <2> QED
    BY <1>1, <1>2, <1>7, <2>2, <2>3, <2>4
    DEF Settled, DMA_CHAN_FLOPPY, FLOPPY_DMA_BUFFER, Dmac
<1>8. CASE step = 9
  <2>1. port = 11 /\ value = 70
    BY <1>8, <1>0
  <2>2. dmac' = [dmac EXCEPT !.mode = Put(@, 2, 70)]
    <3>1. 70 \in Byte
      BY DEF Byte
    <3>2. outb(dmac, 11, 70) = [dmac EXCEPT !.mode = Put(@, 2, 70)]
      BY <3>1, DmaOutb
    <3> QED
      BY <1>1, <2>1, <3>2
  <2>3. Put(dmac.mode, 2, 70) \in [0..3 -> Byte] /\ Put(dmac.mode, 2, 70)[2] = 70
    BY <1>2 DEF Put, Byte
  <2>4. dmac' \in Dmac
    BY <2>2, <2>3 DEF Dmac
  <2> QED
    BY <1>1, <1>2, <1>8, <2>2, <2>3, <2>4
    DEF Settled, DMA_CHAN_FLOPPY, FLOPPY_DMA_BUFFER, Dmac
<1>9. CASE step \in {10, 11}
  <2>1. port = 14 /\ value = 0
    BY <1>9, <1>0
  <2>2. dmac' = [dmac EXCEPT !.mask = {}]
    <3>1. 0 \in Byte
      BY DEF Byte
    <3>2. outb(dmac, 14, 0) = [dmac EXCEPT !.mask = {}]
      BY <3>1, DmaOutb
    <3> QED
      BY <1>1, <2>1, <3>2
  <2>3. dmac' \in Dmac
    BY <2>2 DEF Dmac
  <2> QED
    BY <1>1, <1>2, <1>9, <2>2, <2>3 DEF Settled, DMA_CHAN_FLOPPY, FLOPPY_DMA_BUFFER, Dmac
<1> QED
  BY <1>1, <1>3, <1>4, <1>5, <1>6, <1>7, <1>8, <1>9

(* The transfer leaves the registers words. *)
LEMMA TransferTyped == ASSUME dmac \in Dmac, transfer PROVE dmac' \in Dmac
<1> DEFINE addr == Put(dmac.addr, 2, (dmac.addr[2] + 512) % 65536)
           count == Put(dmac.count, 2, 65535)
           mask == dmac.mask \cup {2}
<1>1. /\ dmac.addr \in [0..3 -> Word] /\ dmac.count \in [0..3 -> Word]
      /\ dmac.mask \subseteq 0..3
  BY DEF Dmac
<1>2. addr \in [0..3 -> Word] /\ count \in [0..3 -> Word] /\ mask \subseteq 0..3
  BY <1>1 DEF Word, Put
<1>3. dmac' = [[[dmac EXCEPT !.addr = addr] EXCEPT !.count = count] EXCEPT !.mask = mask]
  BY DEF transfer, DMA_CHAN_FLOPPY
<1> HIDE DEF addr, count, mask
<1> QED
  BY <1>2, <1>3 DEF Dmac

LEMMA DmaInitInv == FloppyDmaInit => DmaInv
<1> SUFFICES ASSUME FloppyDmaInit PROVE DmaInv
  OBVIOUS
<1>1. dmac \in Dmac /\ step = 0 /\ ctl = "idle"
  BY DmaAssumption DEF FloppyDmaInit, DmaInit, FloppyInit
<1> QED
  BY <1>1 DEF DmaInv, Settled

(* The chip stays programmed as it is while somebody is about to read. *)
LEMMA ReaderStays ==
  ASSUME FloppyInv, DmaInv, UNCHANGED dmaVars, step > 0 => UNCHANGED pc,
         ctl' = "read" => ctl = "read"
  PROVE  DmaInv'
  BY DEF DmaInv, dmaVars, Settled, Armed

LEMMA CallKeepsDma ==
  ASSUME FloppyInv, DmaInv, NEW r \in Reader, CallStep(r)
  PROVE  DmaInv'
<1>1. FloppyTypeOK /\ CallInv(r) /\ dmac \in Dmac /\ step \in 0..12 /\ Settled
  BY DEF FloppyInv, DmaInv
<1>2. CASE init_dma(r)
  <2>1. /\ pc[r] = "read" /\ program_dma /\ ctl = "idle" /\ pc' = pc /\ ctl' = ctl
    BY <1>1, <1>2 DEF init_dma, CallInv, Quiet, floppyVars, callVars, deviceVars
  <2>2. dmac' \in Dmac /\ step' \in 0..12 /\ Settled'
    BY <1>1, <2>1, ProgramKeeps
  <2> QED
    BY <2>1, <2>2 DEF DmaInv
<1>3. CASE read_sector(r)
  <2>1. step = 12 /\ step' = 0 /\ dmac' = dmac
    BY <1>3, DmaWrites DEF read_sector, Programmed
  <2>2. Armed'
    BY <1>1, <2>1 DEF Settled, Armed, DMA_CHAN_FLOPPY
  <2> QED
    BY <1>1, <2>1, <2>2 DEF DmaInv, Settled
<1>4. CASE call_step(r)
  <2>1. pc[r] # "out" /\ pc[r] # "read"
    BY <1>4 DEF call_step, motor_on, _fdc_seek, seek_done, read_done, copy
  <2>2. step = 0
    <3>1. ASSUME step > 0 PROVE FALSE
      <4>1. PICK q \in Reader : pc[q] = "read"
        BY <3>1 DEF DmaInv
      <4> QED
        BY <1>1, <2>1, <4>1 DEF CallInv
    <3> QED
      BY <1>1, <3>1
  <2>3. UNCHANGED dmaVars /\ (ctl' = "read" => ctl = "read")
    BY <1>4 DEF call_step, motor_on, _fdc_seek, seek_done, read_done, copy, Send, deviceVars
  <2> QED
    BY <2>2, <2>3, ReaderStays
<1> QED
  BY <1>2, <1>3, <1>4 DEF CallStep

(* Outside _fdc_read_sector_chs nobody touches the chip but the transfer.  *)
LEMMA DmaStepInv ==
  FloppyInv /\ DmaInv /\ [FloppyDmaNext]_floppyDmaVars => DmaInv'
<1> SUFFICES ASSUME FloppyInv, DmaInv, [FloppyDmaNext]_floppyDmaVars PROVE DmaInv'
  OBVIOUS
<1>1. CASE BootStep /\ UNCHANGED dmaVars
  <2>1. UNCHANGED pc /\ (ctl' = "read" => ctl = "read")
    BY <1>1 DEF BootStep, fdc_reset, reset_done, recalibrate, recalibrate_done, Send,
                callVars, deviceVars
  <2> QED
    BY <1>1, <2>1, ReaderStays
<1>2. CASE \E r \in Reader, l \in Lba, b \in BOOLEAN :
             NobodyReads /\ blkread(r, l, b) /\ UNCHANGED dmaVars
  <2>1. NobodyReads /\ UNCHANGED dmaVars /\ ctl' = ctl
    BY <1>2 DEF blkread, deviceVars
  <2>2. ~ (step > 0)
    BY <2>1 DEF DmaInv, NobodyReads
  <2> QED
    BY <2>1, <2>2, ReaderStays
<1>3. CASE \E r \in Reader : CallStep(r)
  BY <1>3, CallKeepsDma
<1>4. CASE drive_read
  <2>1. /\ ctl = "read" /\ ctl' = "idle" /\ pc' = pc /\ step' = step
        /\ transfer \/ dmac' = dmac
    BY <1>4 DEF drive_read, device_read, Finished, callVars
  <2>2. ~ (step > 0)
    <3> SUFFICES ASSUME step > 0 PROVE FALSE
      OBVIOUS
    <3>1. PICK r \in Reader : pc[r] = "read"
      BY DEF DmaInv
    <3> QED
      BY <2>1, <3>1 DEF FloppyInv, CallInv, Quiet
  <2>3. dmac' \in Dmac
    <3>1. CASE transfer
      BY <3>1, TransferTyped DEF DmaInv
    <3> QED
      BY <2>1, <3>1 DEF DmaInv
  <2>4. step = 0
    BY <2>2 DEF DmaInv
  <2> QED
    BY <2>1, <2>3, <2>4 DEF DmaInv, Settled
<1>5. CASE drive_other
  <2>1. UNCHANGED dmaVars /\ UNCHANGED pc /\ ctl' = "idle"
    BY <1>5 DEF drive_other, device_reset, device_seek, Finished, callVars
  <2> QED
    BY <2>1, ReaderStays
<1>6. CASE _fdc_irq_handler /\ UNCHANGED dmaVars
  <2>1. UNCHANGED pc /\ ctl' = ctl
    BY <1>6 DEF _fdc_irq_handler, callVars
  <2> QED
    BY <1>6, <2>1, ReaderStays
<1>7. CASE UNCHANGED floppyDmaVars
  <2>1. UNCHANGED dmaVars /\ UNCHANGED pc /\ ctl' = ctl
    BY <1>7 DEF floppyDmaVars, floppyVars, callVars, deviceVars
  <2> QED
    BY <2>1, ReaderStays
<1> QED
  BY <1>1, <1>2, <1>3, <1>4, <1>5, <1>6, <1>7 DEF FloppyDmaNext

(* Every sector goes, whole and alone, into FLOPPY_DMA_BUFFER, whatever    *)
(* the firmware and earlier transfers have left in the chip.               *)
THEOREM TransfersCorrect == ~ ReadErrors /\ FloppyDmaSpec => []TransferInBuffer
<1> SUFFICES ASSUME ~ ReadErrors PROVE FloppyDmaSpec => []TransferInBuffer
  OBVIOUS
<1>1. DmaInv => TransferInBuffer
  <2> SUFFICES ASSUME DmaInv, step > 0, DMA_CHAN_FLOPPY \notin dmac.mask PROVE Armed
    BY DEF TransferInBuffer, DmaInv
  <2>1. step > 10
    BY DEF DmaInv, Settled
  <2> QED
    BY <2>1 DEF DmaInv, Settled, Armed, DMA_CHAN_FLOPPY
<1> QED
  BY <1>1, DmaInitInv, DmaStepInv, FloppyDmaIsFloppy, FloppyInvariant, PTL DEF FloppyDmaSpec

(* With the DMA chip in the model too, a blkread that succeeds delivers    *)
(* the block it was asked for.                                             *)
THEOREM ReadsCorrectOverDma == ~ ReadErrors /\ FloppyDmaSpec => []ReadsRequestedBlock
  BY FloppyDmaIsFloppy, ReadsCorrect, PTL
=============================================================================
