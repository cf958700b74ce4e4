-------------------------- MODULE MCKernelConsole ---------------------------
(***************************************************************************)
(* KernelConsole with formats of one directive of every kind and of two,   *)
(* buffers large and small, and a shell with a short line; words have 64   *)
(* values.                                                                 *)
(***************************************************************************)
EXTENDS KernelConsole, TLC

(* Directives: flags, width, precision, length, conversion. *)
Piece == {<<"%", "d">>, <<"%", "-", "4", "d">>, <<"%", "0", "+", "5", "i">>,
          <<"%", "*", "d">>, <<"%", " ", "d">>, <<"%", "#", "0", "6", "x">>,
          <<"%", "X">>, <<"%", "o">>, <<"%", "#", "b">>, <<"%", "p">>,
          <<"%", "l", "u">>, <<"%", "l", "l", "d">>, <<"%", "h", "d">>,
          <<"%", ".", "2", "u">>, <<"%", "3", "s">>, <<"%", "-", "*", "s">>,
          <<"%", "c">>, <<"%", "%">>, <<"%", "q">>}
Formats ==
  {p \o <<"\n">> : p \in Piece}
  \cup {<<"a", "\n", "%", "5", "s", "%", "d", "\n">>, <<>>, <<"a", "%">>}
MCCall == (Formats \X {16})
          \cup ({<<"a", "\n", "a", "%", "d">>, <<"%", "5", "s", "\n">>, <<"a">>, <<"%", "p">>}
                \X {0, 1, 4})
MCNumber == {0, 7, -1, -32, 75}
MCWidth == {-3, 4}
MCString == {<<>>, <<"a", "\n">>}

(* Arguments of every form behind the commands, and lines at the limits. *)
Rest == UNION {[1..k -> {" ", "1"}] : k \in 0..3} \cup {<<" ", "-", "1">>, <<" ", "1", " ", "1">>}
MCLine ==
  {<<w>> \o r : w \in {"echo", "repeat", "mdmp", "ptwalk", "exit"}, r \in Rest}
  \cup {<<>>, <<" ", "echo">>, <<"help">>, <<"echo", " ", "a", " ", "1", " ", "1">>,
        <<"mdmp", " ", "7", " ", "0", "x", "3">>, <<"mdmp", " ", "6", "1", " ", "1">>,
        <<"ptwalk", " ", "0", " ", "5", "9">>, <<"ptwalk", " ", "1", " ", "5", "4">>,
        <<"help", "a", "a", "a", "a", "a", "a", "a">>}

Chip(lsb, ier, lcr) ==
  [THR |-> 0, IER |-> ier, DLLSB |-> lsb, DLMSB |-> 0, FIFOCTRL |-> 1,
   LINECTRL |-> lcr, MODEMCTRL |-> 0]
MCLoadMsg == <<"a", "\n">>
MCFirmware == {Chip(1, 0, 3), Chip(12, 1, 0)}
=============================================================================
