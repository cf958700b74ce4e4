-------------------------------- MODULE Dma ---------------------------------
(***************************************************************************)
(* driver/dma.c: every routine as the sequence of the writes to ports it   *)
(* makes, and the first of the two 8237 chips, for which they are meant.   *)
(* The chip has one flip-flop for all its 16-bit registers, which says     *)
(* which byte the next write is.                                           *)
(***************************************************************************)
EXTENDS Integers, Sequences

CONSTANT FoundDmac     \* the states of the chip the kernel may find

(* dmac: flip, per channel addr, count, mode and page, and the set of      *)
(* masked channels.  step: how many writes of a sequence are done.         *)
VARIABLES dmac, step

dmaVars == <<dmac, step>>

Byte == 0..255
Word == {x \in Nat : x < 65536}
Dmac == [flip : {0, 1}, addr : [0..3 -> Word], count : [0..3 -> Word],
         mode : [0..3 -> Byte], page : [0..3 -> Byte], mask : SUBSET (0..3)]

ASSUME DmaAssumption == FoundDmac \subseteq Dmac

DmaInit == dmac \in FoundDmac /\ step = 0

-----------------------------------------------------------------------------
(* What a write does to the chip and to the page registers beside it.      *)
SetByte(x, flip, v) == IF flip = 0 THEN (x \div 256) * 256 + v ELSE v * 256 + (x % 256)

PutByte(words, channel, flip, v) == [words EXCEPT ![channel] = SetByte(@, flip, v)]

Flipped(d) == [d EXCEPT !.flip = 1 - @]

Put(registers, channel, v) == [registers EXCEPT ![channel] = v]

PageChannel(port) ==
  CASE port = 135 -> 0 [] port = 131 -> 1 [] port = 129 -> 2 [] port = 130 -> 3

outb(d, port, v) ==
  CASE port \in {0, 2, 4, 6} ->
         Flipped([d EXCEPT !.addr = PutByte(@, port \div 2, d.flip, v)])
    [] port \in {1, 3, 5, 7} ->
         Flipped([d EXCEPT !.count = PutByte(@, port \div 2, d.flip, v)])
    [] port = 10 -> [d EXCEPT !.mask = IF (v \div 4) % 2 = 1 THEN @ \cup {v % 4}
                                                             ELSE @ \ {v % 4}]
    [] port = 11 -> [d EXCEPT !.mode = Put(@, v % 4, v)]
    [] port = 12 -> [d EXCEPT !.flip = 0]
    [] port = 13 -> [d EXCEPT !.flip = 0, !.mask = 0..3]
    [] port = 14 -> [d EXCEPT !.mask = {}]
    [] port \in {135, 131, 129, 130} -> [d EXCEPT !.page = Put(@, PageChannel(port), v)]
    [] OTHER -> d

Write(port, v) == << <<port, v>> >>
Bytes(port, x) == Write(port, x % 256) \o Write(port, x \div 256)

(* The routines of dma.c; the tables of ports of its switch statements. *)
dma_set_address(channel, address) ==
  IF channel \notin 0..7 THEN <<>>
  ELSE Bytes(IF channel < 4 THEN 2 * channel ELSE 192 + 4 * (channel - 4), address)

dma_set_count(channel, n) ==
  IF channel \notin 0..7 THEN <<>>
  ELSE Bytes(IF channel < 4 THEN 2 * channel + 1 ELSE 194 + 4 * (channel - 4), n)

PagePort(channel) ==
  CASE channel = 0 -> 135 [] channel \in {1, 3} -> 131 [] channel = 2 -> 129
    [] channel = 5 -> 139 [] channel = 6 -> 137 [] channel = 7 -> 138

dma_set_external_pagereg(channel, page) ==
  IF channel \notin (0..7) \ {4} THEN <<>> ELSE Write(PagePort(channel), page)

dma_mask_channel(channel) ==
  IF channel > 7 THEN <<>>
  ELSE Write(IF channel < 4 THEN 10 ELSE 212, 4 + (channel % 4))

dma_unmask_all == Write(14, 0)

dma_reset_flipflop(which) == Write(IF which = 0 THEN 12 ELSE 216, 255)

dma_set_mode(channel, mode) ==
  IF channel > 7 THEN <<>>
  ELSE dma_mask_channel(channel)
       \o Write(IF channel < 4 THEN 11 ELSE 214, mode + (channel % 4))
       \o dma_unmask_all

DMA_MODE_READ == 4
DMA_MODE_WRITE == 8
DMA_MODE_SINGLE == 64
dma_setup_read(channel) == dma_set_mode(channel, DMA_MODE_READ + DMA_MODE_SINGLE)
dma_setup_write(channel) == dma_set_mode(channel, DMA_MODE_WRITE + DMA_MODE_SINGLE)

-----------------------------------------------------------------------------
DMA_CHAN_FLOPPY == 2
FLOPPY_DMA_BUFFER == 4096

(* Mutant of _fdc_init_dma: the flip-flop is left as it is. *)
_fdc_init_dma_NoFlipFlop(n, is_write) ==
  dma_mask_channel(DMA_CHAN_FLOPPY)
  \o dma_set_address(DMA_CHAN_FLOPPY, FLOPPY_DMA_BUFFER)
  \o dma_set_count(DMA_CHAN_FLOPPY, n)
  \o dma_set_external_pagereg(DMA_CHAN_FLOPPY, 0)
  \o (IF is_write THEN dma_setup_write(DMA_CHAN_FLOPPY) ELSE dma_setup_read(DMA_CHAN_FLOPPY))
  \o dma_unmask_all

(* _fdc_init_dma of driver/fdc.c. *)
_fdc_init_dma(n, is_write) ==
  dma_mask_channel(DMA_CHAN_FLOPPY)
  \o dma_reset_flipflop(0)
  \o dma_set_address(DMA_CHAN_FLOPPY, FLOPPY_DMA_BUFFER)
  \o dma_reset_flipflop(0)
  \o dma_set_count(DMA_CHAN_FLOPPY, n)
  \o dma_set_external_pagereg(DMA_CHAN_FLOPPY, 0)
  \o (IF is_write THEN dma_setup_write(DMA_CHAN_FLOPPY) ELSE dma_setup_read(DMA_CHAN_FLOPPY))
  \o dma_unmask_all

(* The driver is about to read: each of its writes in turn. *)
read_setup == _fdc_init_dma(511, FALSE)

Programmed == step = Len(read_setup)

program_dma ==
  /\ ~ Programmed
  /\ dmac' = outb(dmac, read_setup[step + 1][1], read_setup[step + 1][2])
  /\ step' = step + 1

(* A sector has been transferred: the channel has counted to its end and,  *)
(* without automatic initialization, masks itself.                         *)
transfer ==
  LET moved == [dmac EXCEPT !.addr = Put(@, DMA_CHAN_FLOPPY, (@[DMA_CHAN_FLOPPY] + 512) % 65536)]
      ended == [moved EXCEPT !.count = Put(@, DMA_CHAN_FLOPPY, 65535)]
  IN  dmac' = [ended EXCEPT !.mask = @ \cup {DMA_CHAN_FLOPPY}]

(* The channel puts 512 bytes from the drive into the buffer, byte by byte *)
(* and upwards.                                                            *)
Armed ==
  /\ DMA_CHAN_FLOPPY \notin dmac.mask
  /\ dmac.addr[DMA_CHAN_FLOPPY] = FLOPPY_DMA_BUFFER
  /\ dmac.page[DMA_CHAN_FLOPPY] = 0
  /\ dmac.count[DMA_CHAN_FLOPPY] = 511
  /\ dmac.mode[DMA_CHAN_FLOPPY] = 64 + 4 + DMA_CHAN_FLOPPY
=============================================================================
