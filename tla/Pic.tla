-------------------------------- MODULE Pic ---------------------------------
(***************************************************************************)
(* driver/pic.c, the two 8259 chips it sets up and acknowledges, and the   *)
(* way of an interrupt through them and through interrupt_dispatch, which  *)
(* sends the end of interrupt before it calls the handler and returns to   *)
(* the interrupted code with iret.  The slave is on line 2 of the master.  *)
(***************************************************************************)
EXTENDS Integers, Sequences

CONSTANTS Irq,         \* the lines on which devices request: part of 0..15
          Firmware,    \* the states the firmware may leave the chips in
          NoVector

VARIABLES
  pic,         \* "master" and "slave": base, imr, irr, isr, and icw, the
               \* initialization word expected next, 0 for none
  setup,       \* how many writes of pic_init are done
  IF_flag,     \* the processor accepts interrupts
  vector,      \* the vector under dispatch, or NoVector
  acked,       \* its end of interrupt has been sent
  irq          \* history: the line of that vector

picVars == <<pic, setup, IF_flag, vector, acked, irq>>

Lines == 0..7
Chip == [base : 0..255, imr : SUBSET Lines, irr : SUBSET Lines, isr : SUBSET Lines,
         icw : {0, 2, 3, 4}]

ASSUME PicAssumption ==
  /\ Irq \subseteq (0..15) \ {2}
  /\ Firmware \subseteq [{"master", "slave"} -> Chip]
  /\ NoVector \notin 0..255

PicInit ==
  /\ pic \in Firmware
  /\ setup = 0 /\ IF_flag = FALSE
  /\ vector = NoVector /\ acked = FALSE /\ irq = 0

-----------------------------------------------------------------------------
First(S) == CHOOSE l \in S : \A k \in S : l <= k
Highest(S) == IF S = {} THEN {} ELSE {First(S)}
Weight == <<1, 2, 4, 8, 16, 32, 64, 128>>
BitsOf(v) == {l \in Lines : (v \div Weight[l + 1]) % 2 = 1}

(* A chip at the beginning of its initialization, and after its base. *)
Started(chip) == [base |-> chip.base, imr |-> {}, irr |-> {}, isr |-> {}, icw |-> 2]
Based(chip, b) ==
  [base |-> b, imr |-> chip.imr, irr |-> chip.irr, isr |-> chip.isr, icw |-> 3]

(* outb to the command or the data port of a chip.  A write to the command *)
(* port starts the initialization, if bit 4 is set, or ends the interrupt  *)
(* of highest priority in service.                                         *)
outb(chip, p, v) ==
  IF p = "command"
  THEN IF 4 \in BitsOf(v) THEN Started(chip)
       ELSE IF 5 \in BitsOf(v) THEN [chip EXCEPT !.isr = @ \ Highest(@)] ELSE chip
  ELSE CASE chip.icw = 2 -> Based(chip, (v \div 8) * 8)
         [] chip.icw = 3 -> [chip EXCEPT !.icw = 4]
         [] chip.icw = 4 -> [chip EXCEPT !.icw = 0]
         [] chip.icw = 0 -> [chip EXCEPT !.imr = BitsOf(v)]

Both(p, master, slave) == << <<"master", p, master>>, <<"slave", p, slave>> >>

(* pic_init: the four words to both chips, and no line masked. *)
pic_init(master_base, slave_base) ==
  Both("command", 17, 17) \o Both("data", master_base, slave_base)
  \o Both("data", 4, 2) \o Both("data", 1, 1) \o Both("data", 0, 0)

Writes == pic_init(32, 40)
Ready == setup = Len(Writes)

pic_init_step ==
  /\ ~ Ready
  /\ LET w == Writes[setup + 1] IN pic' = [pic EXCEPT ![w[1]] = outb(@, w[2], w[3])]
  /\ setup' = setup + 1
  /\ UNCHANGED <<IF_flag, vector, acked, irq>>

(* setup_x86_interrupts ends with sti. *)
enable_interrupts ==
  /\ Ready /\ IF_flag = FALSE /\ vector = NoVector
  /\ IF_flag' = TRUE
  /\ UNCHANGED <<pic, setup, vector, acked, irq>>

Request(chip, l) == [chip EXCEPT !.irr = @ \cup {l}]

(* A device requests an interrupt. *)
request(i) ==
  /\ pic' = IF i < 8 THEN [pic EXCEPT !["master"] = Request(@, i)]
                     ELSE [pic EXCEPT !["slave"] = Request(@, i - 8)]
  /\ UNCHANGED <<setup, IF_flag, vector, acked, irq>>

(* The line a chip would put through: of the highest priority of those     *)
(* requested, and higher than what is in service.                          *)
Offered(chip, requests) ==
  {l \in Highest(requests \ chip.imr) : \A k \in chip.isr : l < k}

SlaveOffers == Offered(pic["slave"], pic["slave"].irr)
MasterOffers ==
  Offered(pic["master"], pic["master"].irr \cup IF SlaveOffers = {} THEN {} ELSE {2})

Accept(v, i) ==
  /\ IF_flag /\ vector = NoVector
  /\ IF_flag' = FALSE /\ vector' = v /\ irq' = i /\ acked' = FALSE
  /\ UNCHANGED setup

Serve(chip, l) ==
  [base |-> chip.base, imr |-> chip.imr, irr |-> chip.irr \ {l},
   isr |-> chip.isr \cup {l}, icw |-> chip.icw]

(* The processor takes an interrupt of the master, or of the slave. *)
interrupt ==
  \E l \in MasterOffers :
    IF l # 2
    THEN /\ Accept(pic["master"].base + l, l)
         /\ pic' = [pic EXCEPT !["master"] = Serve(@, l)]
    ELSE \E k \in SlaveOffers :
           /\ Accept(pic["slave"].base + k, k + 8)
           /\ pic' = [pic EXCEPT !["master"] = Serve(@, 2), !["slave"] = Serve(@, k)]

(* A request that is gone when the processor asks for it: the chip gives   *)
(* its line 7, with nothing in service.                                    *)
spurious_master ==
  /\ Accept(pic["master"].base + 7, 7)
  /\ UNCHANGED pic

spurious_slave ==
  /\ Accept(pic["slave"].base + 7, 15)
  /\ pic' = [pic EXCEPT !["master"] = Serve(@, 2)]

(* Mutant of pic_send_eoi: the slave's first line is taken for a master's. *)
pic_send_eoi_OffByOne(p, int_no) ==
  [k \in {"master", "slave"} |->
     IF k = "master" \/ int_no > 40 THEN outb(p[k], "command", 32) ELSE p[k]]

pic_send_eoi(p, int_no) ==
  [k \in {"master", "slave"} |->
     IF k = "master" \/ int_no >= 40 THEN outb(p[k], "command", 32) ELSE p[k]]

(* interrupt_dispatch: the end of interrupt, then the handler; the iret    *)
(* behind it enables interrupts again.                                     *)
dispatch ==
  /\ vector # NoVector /\ ~ acked
  /\ acked' = TRUE
  /\ pic' = IF vector \in 32..47 THEN pic_send_eoi(pic, vector) ELSE pic
  /\ UNCHANGED <<setup, IF_flag, vector, irq>>

handled ==
  /\ vector # NoVector /\ acked
  /\ vector' = NoVector /\ acked' = FALSE /\ irq' = 0 /\ IF_flag' = TRUE
  /\ UNCHANGED <<pic, setup>>

-----------------------------------------------------------------------------
(* Every variable has values the chips and the processor can give it. *)
PicTypeOK ==
  /\ pic \in [{"master", "slave"} -> Chip]
  /\ setup \in 0..Len(Writes)
  /\ IF_flag \in BOOLEAN /\ acked \in BOOLEAN
  /\ vector \in 0..255 \cup {NoVector} /\ irq \in 0..15

(* A line is dispatched with the vector of its own, which is none of the   *)
(* processor's exceptions, and leaves nothing in service behind, whatever  *)
(* was requested meanwhile, spurious interrupts included: otherwise its    *)
(* line and all of lower priority would be silent from then on.            *)
NothingLeftInService ==
  /\ vector # NoVector => vector = 32 + irq
  /\ IF_flag => /\ pic["master"].isr = {} /\ pic["slave"].isr = {}
                /\ pic["master"].imr = {} /\ pic["slave"].imr = {}

(* Why: the inductive invariant.  Where a chip is in its initialization    *)
(* follows from how many words it has had; afterwards at most the line     *)
(* under dispatch is in service, until its end has been sent.              *)
InitializedUpTo(chip, words, base) ==
  /\ words >= 1 => chip.isr = {} /\ chip.imr = {}
  /\ words = 1 => chip.icw = 2
  /\ words = 2 => chip.icw = 3
  /\ words = 3 => chip.icw = 4
  /\ words >= 4 => chip.icw = 0
  /\ words >= 2 => chip.base = base

InService ==
  LET master == pic["master"] slave == pic["slave"]
  IN  IF vector = NoVector \/ acked THEN master.isr = {} /\ slave.isr = {}
      ELSE IF irq < 8 THEN (\E l \in Lines : master.isr \subseteq {l}) /\ slave.isr = {}
      ELSE master.isr = {2} /\ \E l \in Lines : slave.isr \subseteq {l}

PicInv ==
  /\ PicTypeOK
  /\ ~ Ready =>
       /\ IF_flag = FALSE /\ vector = NoVector
       /\ InitializedUpTo(pic["master"], (setup + 1) \div 2, 32)
       /\ InitializedUpTo(pic["slave"], setup \div 2, 40)
  /\ Ready =>
       /\ \A k \in {"master", "slave"} : pic[k].icw = 0 /\ pic[k].imr = {}
       /\ pic["master"].base = 32 /\ pic["slave"].base = 40
       /\ vector # NoVector => vector = 32 + irq /\ ~ IF_flag
       /\ InService
=============================================================================
