--------------------------- MODULE KernelConsole ----------------------------
(***************************************************************************)
(* The kernel as its console shows it, in the order of kmain: load_msg,    *)
(* printed before the serial port is set up, serial_init, the messages of  *)
(* the other initializations, each formatted by vsnprintf and written to   *)
(* the port, and the shell, after which the processor halts.  The port     *)
(* sends while the kernel goes on.                                         *)
(***************************************************************************)
EXTENDS Vsnprintf, Serial, Shell

CONSTANTS LoadMsg     \* the text of load_msg

ASSUME ConsoleAssumption ==
  LoadMsg \in Seq(Char) /\ NO \notin Char \cup {NUL}

VARIABLE stage        \* "load_msg", "serial_init", "log", "shell", "hlt"

consoleVars == <<formatVars, serialVars, shellVars, stage>>

ConsoleInit ==
  /\ FormatInit /\ ShellInit
  /\ port \in Firmware /\ thr = NO /\ setup = 0
  /\ sending = Sent(LoadMsg) /\ told = <<>> /\ heard = <<>>
  /\ stage = "load_msg"

Silent == sending = <<>>

(* load_msg is printed; serial_init begins. *)
load_msg ==
  /\ stage = "load_msg" /\ Silent
  /\ stage' = "serial_init"
  /\ UNCHANGED <<formatVars, serialVars, shellVars>>

init_port ==
  /\ stage = "serial_init"
  /\ \/ serial_init_step /\ UNCHANGED stage
     \/ Ready /\ stage' = "log" /\ UNCHANGED serialVars
  /\ UNCHANGED <<formatVars, shellVars>>

(* A message of kmain, or of what it calls. *)
LOG_P(f, s) ==
  /\ stage = "log" /\ Silent
  /\ printk(f, s) /\ Forget
  /\ UNCHANGED <<shellVars, stage>>

format ==
  /\ FormatStep
  /\ UNCHANGED <<serialVars, shellVars, stage>>

(* The buffer is complete: terminal_writestring, serial_puts. *)
print ==
  /\ serial_puts(Text)
  /\ printk_end
  /\ UNCHANGED <<shellVars, stage>>

put ==
  /\ serial_putc
  /\ UNCHANGED <<formatVars, shellVars, stage>>

(* The end of kmain: the shell runs until it is left. *)
run_shell ==
  /\ stage = "log" /\ state = "idle" /\ Silent /\ thr = NO
  /\ shell_begin
  /\ stage' = "shell" /\ Forget
  /\ UNCHANGED formatVars

in_shell ==
  /\ stage = "shell"
  /\ shell
  /\ UNCHANGED <<formatVars, serialVars, stage>>

hlt ==
  /\ stage = "shell" /\ pc = "done"
  /\ stage' = "hlt"
  /\ UNCHANGED <<formatVars, serialVars, shellVars>>

kmain == load_msg \/ init_port \/ format \/ print \/ put \/ in_shell \/ hlt

(* The port, and somebody at the keyboard.  vsnprintf and the shell do not *)
(* look at the port, so that what it does meanwhile may be thought to      *)
(* happen before or after.                                                 *)
chip ==
  /\ state = "idle"
  /\ transmit
  /\ UNCHANGED <<formatVars, shellVars, stage>>

keyboard(l) ==
  /\ stage = "shell"
  /\ Type(l)
  /\ UNCHANGED <<formatVars, serialVars, stage>>

ConsoleNext ==
  \/ kmain \/ chip
  \/ \E call \in Call : LOG_P(call[1], call[2])
  \/ run_shell
  \/ \E l \in Line : keyboard(l)

(* The processor goes on and the port sends; which message comes next, or  *)
(* what is typed, nobody knows.                                            *)
ConsoleSpec ==
  /\ ConsoleInit /\ [][ConsoleNext]_consoleVars
  /\ WF_consoleVars(kmain) /\ WF_consoleVars(chip)

-----------------------------------------------------------------------------
(* Every printk returns: the machine of vsnprintf reaches the end of its   *)
(* format and every wait for the port ends.                                *)
PrintkReturns == state # "idle" ~> state = "idle" /\ Silent
=============================================================================
