----------------------------- MODULE FloppyDma ------------------------------
(***************************************************************************)
(* The floppy driver with the DMA chip: before _fdc_read_sector_chs sends  *)
(* its command it programs channel 2, write by write, and the channel      *)
(* moves the sector when the drive delivers it.                            *)
(***************************************************************************)
EXTENDS Floppy, Dma

floppyDmaVars == <<floppyVars, dmaVars>>

FloppyDmaInit == FloppyInit /\ DmaInit

(* The first part of _fdc_read_sector_chs, and its command. *)
init_dma(r) == pc[r] = "read" /\ program_dma /\ UNCHANGED floppyVars

read_sector(r) ==
  /\ Programmed /\ step' = 0
  /\ _fdc_read_sector_chs(r)
  /\ UNCHANGED dmac

call_step(r) ==
  /\ motor_on(r) \/ _fdc_seek(r) \/ seek_done(r) \/ read_done(r) \/ copy(r)
  /\ UNCHANGED dmaVars

drive_read ==
  /\ device_read
  /\ IF motor = "on" /\ cylinder = target.cyl THEN transfer ELSE UNCHANGED dmac
  /\ UNCHANGED step

drive_other == (device_reset \/ device_seek) /\ UNCHANGED dmaVars

CallStep(r) == init_dma(r) \/ read_sector(r) \/ call_step(r)

FloppyDmaNext ==
  \/ BootStep /\ UNCHANGED dmaVars
  \/ \E r \in Reader, l \in Lba, b \in BOOLEAN :
       NobodyReads /\ blkread(r, l, b) /\ UNCHANGED dmaVars
  \/ \E r \in Reader : CallStep(r)
  \/ drive_read \/ drive_other
  \/ _fdc_irq_handler /\ UNCHANGED dmaVars

(* As for the driver alone: every interrupt arrives. *)
FloppyDmaSpec ==
  /\ FloppyDmaInit /\ [][FloppyDmaNext]_floppyDmaVars
  /\ WF_floppyDmaVars(BootStep /\ UNCHANGED dmaVars)
  /\ \A r \in Reader : WF_floppyDmaVars(CallStep(r))
  /\ WF_floppyDmaVars(drive_read \/ drive_other)
  /\ WF_floppyDmaVars(_fdc_irq_handler /\ UNCHANGED dmaVars)

-----------------------------------------------------------------------------
(* Whenever the drive is to deliver a sector, the channel is set to put    *)
(* exactly that sector exactly into the buffer, whatever the registers and *)
(* the flip-flop held before; while its registers are being written, it is *)
(* masked and can move nothing.                                            *)
TransferInBuffer ==
  /\ ctl = "read" => Armed
  /\ step > 0 /\ DMA_CHAN_FLOPPY \notin dmac.mask => Armed

(* Why it holds: what the writes made so far have settled, and that they   *)
(* are made only while the controller waits for the read command.          *)
Settled ==
  LET addr == dmac.addr[DMA_CHAN_FLOPPY]
      count == dmac.count[DMA_CHAN_FLOPPY]
  IN  /\ step \in 1..10 => DMA_CHAN_FLOPPY \in dmac.mask
      /\ step \in {2, 5} => dmac.flip = 0
      /\ step \in {3, 6} => dmac.flip = 1
      /\ step = 3 => addr % 256 = 0
      /\ step > 3 => addr = FLOPPY_DMA_BUFFER
      /\ step = 6 => count % 256 = 255
      /\ step > 6 => count = 511
      /\ step > 7 => dmac.page[DMA_CHAN_FLOPPY] = 0
      /\ step > 9 => dmac.mode[DMA_CHAN_FLOPPY] = 70
      /\ step > 10 => DMA_CHAN_FLOPPY \notin dmac.mask

DmaInv ==
  /\ dmac \in Dmac /\ step \in 0..12
  /\ step > 0 => \E r \in Reader : pc[r] = "read"
  /\ ctl = "read" => Armed
  /\ Settled
=============================================================================
