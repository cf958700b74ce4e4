------------------------------- MODULE Serial -------------------------------
(***************************************************************************)
(* The driver of the serial port, driver/serial.c, and the chip it drives, *)
(* a UART without FIFOs, which sends what is in its holding register when  *)
(* it gets to it, with the rate and the frame set at that time.  A         *)
(* character that is sent otherwise than 9600 baud, 8N1 is not understood. *)
(***************************************************************************)
EXTENDS Integers, Sequences

CONSTANTS NO,          \* the holding register is empty
          Firmware     \* the states of the chip the kernel may find

VARIABLES
  port,       \* the registers of the chip that can only be written
  thr,        \* its transmitter holding register
  setup,      \* how many of the writes of serial_init are done
  sending,    \* what serial_puts has still to send
  told,       \* history: what was written to thr, and what of it the other
  heard       \* side has understood, since the last message began

serialVars == <<port, thr, setup, sending, told, heard>>

SERIAL_BASE_FREQ == 115200
SERIAL_DEFAULT_BAUD == 9600
DLAB == 128
Port == [THR : 0..255, IER : 0..255, DLLSB : 0..255, DLMSB : 0..255,
         FIFOCTRL : 0..255, LINECTRL : 0..255, MODEMCTRL : 0..255]

(* The firmware leaves the divisor latch closed; load_msg, printed before  *)
(* serial_init, would be written to the divisor otherwise.                 *)
ASSUME SerialAssumption == Firmware \subseteq {p \in Port : p.LINECTRL < DLAB}

SerialInit ==
  /\ port \in Firmware
  /\ thr = NO /\ setup = 0 /\ sending = <<>> /\ told = <<>> /\ heard = <<>>

-----------------------------------------------------------------------------
(* outb: with DLAB set, the first two addresses are those of the divisor. *)
Register(p, r) ==
  IF p.LINECTRL < DLAB THEN r
  ELSE CASE r = "THR" -> "DLLSB" [] r = "IER" -> "DLMSB" [] OTHER -> r

outb(p, r, v) == [p EXCEPT ![Register(p, r)] = v]

_serial_set_rate(baud) ==
  LET divisor == (SERIAL_BASE_FREQ \div baud) % 65536
  IN  << <<"LINECTRL", DLAB>>, <<"THR", divisor % 256>>, <<"IER", divisor \div 256>>,
         <<"LINECTRL", 0>> >>

_serial_set_params(data_bits, parity_type, stop_bits) ==
  << <<"LINECTRL", data_bits + parity_type + stop_bits>> >>

(* serial_init as the writes it makes: interrupts off, FIFOs off, rate,    *)
(* frame, OUT2; in interrupt mode the interrupt of the empty register.     *)
serial_init(intr_mode) ==
  << <<"IER", 0>>, <<"FIFOCTRL", 64>> >>
  \o _serial_set_rate(SERIAL_DEFAULT_BAUD) \o _serial_set_params(3, 0, 0)
  \o << <<"MODEMCTRL", 8>> >>
  \o IF intr_mode THEN << <<"IER", 2>> >> ELSE <<>>

Ready == setup = Len(serial_init(FALSE))

Pending == IF thr = NO THEN <<>> ELSE <<thr>>

(* One of these writes.  What was printed before no longer counts. *)
serial_init_step ==
  /\ ~ Ready
  /\ setup' = setup + 1
  /\ LET w == serial_init(FALSE)[setup + 1] IN port' = outb(port, w[1], w[2])
  /\ told' = Pending /\ heard' = <<>>
  /\ UNCHANGED <<thr, sending>>

(* What serial_puts sends: a carriage return before every newline. *)
Sent(s) ==
  LET f[k \in 0..Len(s)] ==
        IF k = 0 THEN <<>>
        ELSE f[k - 1] \o IF s[k] = "\n" THEN <<"\r", "\n">> ELSE <<s[k]>>
  IN  f[Len(s)]

serial_puts(s) ==
  /\ sending' = Sent(s)
  /\ UNCHANGED <<port, thr, setup, told, heard>>

(* The history begins again, with what is still to be sent. *)
Forget ==
  /\ told' = Pending /\ heard' = <<>>
  /\ UNCHANGED <<port, thr, setup, sending>>

(* Mutant of serial_putc: it does not wait. *)
serial_putc_NoWait ==
  /\ sending # <<>>
  /\ thr' = Head(sending) /\ sending' = Tail(sending)
  /\ told' = Append(told, Head(sending))
  /\ UNCHANGED <<port, setup, heard>>

(* serial_putc: the line status shows an empty register, which is written. *)
serial_putc ==
  /\ sending # <<>> /\ thr = NO
  /\ thr' = Head(sending) /\ sending' = Tail(sending)
  /\ told' = Append(told, Head(sending))
  /\ UNCHANGED <<port, setup, heard>>

(* The chip sends a character. *)
Proper == port.DLLSB = 12 /\ port.DLMSB = 0 /\ port.LINECTRL = 3

transmit ==
  /\ thr # NO
  /\ thr' = NO
  /\ heard' = Append(heard, IF Proper THEN thr ELSE NO)
  /\ UNCHANGED <<port, setup, sending, told>>

-----------------------------------------------------------------------------
(* Once serial_init is done, whatever rate, frame and interrupts the       *)
(* firmware had set, the other side gets what is printed, in order,        *)
(* complete and with its carriage returns; only a character left over from *)
(* before may be garbled.  In polling mode the chip requests no interrupt. *)
SerialDelivers == Ready => heard \o Pending = told /\ port.IER = 0
=============================================================================
