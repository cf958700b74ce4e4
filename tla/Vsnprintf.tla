----------------------------- MODULE Vsnprintf ------------------------------
(***************************************************************************)
(* vsnprintf of libc/vsprintf.c and printk above it: a machine that reads  *)
(* the format character by character, with the states of the code.  An     *)
(* iteration of its loop is a step; va_arg is a choice of an argument.     *)
(*                                                                         *)
(* The caller's buffer is a partial function: the positions written and    *)
(* what was written there.                                                 *)
(***************************************************************************)
EXTENDS CString

CONSTANTS Call,       \* the formats, without their NUL, and sizes of the
                      \* buffers that are passed: 1024 in printk
          Number,     \* the numbers passed, as long long
          Width,      \* the widths passed for a star
          String      \* the strings passed; a null pointer may be passed too

ASSUME VsnprintfAssumption ==
  /\ Call \subseteq Seq(Char) \X (0..(WORD - 1))
  /\ Number \subseteq Int /\ Width \subseteq Int
  /\ String \subseteq Seq(Char)

VARIABLES
  fmt,      \* what is left of the format, with its NUL
  state,    \* S_DEFAULT .. S_CONV; "break", "write" and "idle" outside the loop
  flags,    \* the F_ flags
  width,
  lflags,   \* the L_ value of the length seen, "" for none
  size,
  n,        \* characters put so far
  buf,
  result,   \* what vsnprintf has returned, NULL before
  out,      \* history: all characters put, the final NUL included
  item      \* history: the last number of this call and its text, or NULL

formatVars == <<fmt, state, flags, width, lflags, size, n, buf, result, out, item>>

FormatInit ==
  /\ fmt = <<>> /\ state = "idle"
  /\ flags = {} /\ width = 0 /\ lflags = ""
  /\ size = 0 /\ n = 0 /\ buf = <<>> /\ out = <<>>
  /\ item = NULL /\ result = NULL

(* printk calls vsnprintf. *)
printk(f, s) ==
  /\ state = "idle"
  /\ fmt' = Append(f, NUL) /\ state' = "S_DEFAULT" /\ size' = s
  /\ UNCHANGED <<flags, width, lflags, n, buf, result, out, item>>

(* printk has written the buffer to the terminal and returns; its locals   *)
(* are gone.                                                               *)
printk_end ==
  /\ state = "write"
  /\ state' = "idle"
  /\ flags' = {} /\ width' = 0 /\ lflags' = ""
  /\ size' = 0 /\ n' = 0 /\ buf' = <<>> /\ out' = <<>>
  /\ item' = NULL /\ result' = NULL
  /\ UNCHANGED fmt

(* The text in the buffer, up to its NUL. *)
Text ==
  LET e == CHOOSE k \in 0..size : /\ k \notin DOMAIN buf \/ buf[k] = NUL
                                  /\ \A j \in 0..(k - 1) : j \in DOMAIN buf /\ buf[j] # NUL
  IN  [k \in 1..e |-> buf[k - 1]]

-----------------------------------------------------------------------------
(* Mutant of bputc: one position too many. *)
bputc_OffByOne(b, pos, max, s) ==
  LET written == {p \in pos..(pos + Len(s) - 1) : p <= max}
  IN  [p \in DOMAIN b \cup written |-> IF p \in written THEN s[p - pos + 1] ELSE b[p]]

(* bputc for the characters of s, one after another. *)
bputc(b, pos, max, s) ==
  LET written == {p \in pos..(pos + Len(s) - 1) : p < max}
  IN  [p \in DOMAIN b \cup written |-> IF p \in written THEN s[p - pos + 1] ELSE b[p]]

Put(s) == buf' = bputc(buf, n, size, s) /\ n' = n + Len(s) /\ out' = out \o s
PutNothing == UNCHANGED <<buf, n, out>>

(* The character of this iteration, and the end of the iteration: the loop *)
(* is left if it, or the character printed by %c, was NUL.                 *)
c == Head(fmt)

Continue(last, s) == state' = IF last = NUL THEN "break" ELSE s

Repeat(ch, k) == [i \in 1..k |-> ch]
Wide(w, len) == IF w > len THEN w - len ELSE 0

(* The digits of a number, most significant first. *)
DigitsOf(num, base, small) ==
  LET ds[k \in Nat] ==
        LET d == (k % base) + 1
            ch == <<IF d <= 10 \/ small THEN Digit[d] ELSE Upper[d - 10]>>
        IN  IF k < base THEN ch ELSE ds[k \div base] \o ch
  IN  ds[num]

(* Mutant of fmt_int: the padding comes before the sign. *)
fmt_int_PadFirst(num, base, w, fl) ==
  LET negative == "SIGNED" \in fl /\ num < 0
      sign == IF negative THEN <<"-">> ELSE IF "PLUS" \in fl THEN <<"+">> ELSE <<>>
      digits == DigitsOf((IF negative THEN -num ELSE num) % WORD, base, "SMALL" \in fl)
  IN  Repeat("0", Wide(w, Len(sign \o digits))) \o sign \o digits

(* fmt_int: the number is cut to a word, sign and prefix come before a     *)
(* padding of zeros and behind one of blanks.                              *)
fmt_int(num, base, w, fl) ==
  LET negative == "SIGNED" \in fl /\ num < 0
      sign == IF negative THEN <<"-">>
              ELSE IF "PLUS" \in fl THEN <<"+">>
              ELSE IF "SPACE" \in fl THEN <<" ">> ELSE <<>>
      prefix == IF "ALTERNATE" \notin fl THEN <<>>
                ELSE IF base = 16 THEN <<"0", IF "SMALL" \in fl THEN "x" ELSE "X">>
                ELSE IF base = 8 THEN <<"0">> ELSE <<>>
      digits == DigitsOf((IF negative THEN -num ELSE num) % WORD, base, "SMALL" \in fl)
      pad == Wide(w, Len(sign \o prefix \o digits))
  IN  IF "LEFT" \in fl THEN sign \o prefix \o digits \o Repeat(" ", pad)
      ELSE IF "ZEROPAD" \in fl THEN sign \o prefix \o Repeat("0", pad) \o digits
      ELSE Repeat(" ", pad) \o sign \o prefix \o digits

(* fmt_str and fmt_chr. *)
fmt_str(s, w, fl) ==
  IF "LEFT" \in fl THEN s \o Repeat(" ", Wide(w, Len(s)))
                   ELSE Repeat(" ", Wide(w, Len(s))) \o s

-----------------------------------------------------------------------------
S_DEFAULT ==
  /\ state = "S_DEFAULT"
  /\ fmt' = Tail(fmt)
  /\ IF c = "%" THEN Continue(c, "S_FLAGS") /\ flags' = {} /\ PutNothing
                ELSE Continue(c, state) /\ Put(<<c>>) /\ UNCHANGED flags
  /\ UNCHANGED <<width, lflags, size, item, result>>

FlagOf(ch) ==
  CASE ch = "#" -> {"ALTERNATE"} [] ch = "0" -> {"ZEROPAD"} [] ch = "-" -> {"LEFT"}
    [] ch = " " -> {"SPACE"} [] ch = "+" -> {"PLUS"} [] OTHER -> {}

S_FLAGS ==
  /\ state = "S_FLAGS"
  /\ IF c \in {"#", "0", "-", " ", "+", "'", "I"}
     THEN /\ fmt' = Tail(fmt)
          /\ flags' = flags \cup FlagOf(c)
          /\ UNCHANGED <<state, width>>
     ELSE /\ Continue(c, "S_WIDTH")
          /\ width' = 0
          /\ UNCHANGED <<fmt, flags>>
  /\ PutNothing
  /\ UNCHANGED <<lflags, size, item, result>>

(* Mutant of S_WIDTH: the digits of a width are not passed over. *)
S_WIDTH_Stay ==
  /\ state = "S_WIDTH"
  /\ IF c \in Digits(10) THEN width' = ValueFrom(fmt, 1, 10) /\ UNCHANGED state
                       ELSE Continue(c, "S_PRECIS") /\ UNCHANGED width
  /\ PutNothing
  /\ UNCHANGED <<fmt, flags, lflags, size, item, result>>

(* The width is an argument, or read by get_atoi, or there is none left. *)
S_WIDTH ==
  /\ state = "S_WIDTH"
  /\ \/ /\ c = "*"
        /\ fmt' = Tail(fmt)
        /\ \E w \in Width : /\ width' = IF w < 0 THEN -w ELSE w
                            /\ flags' = IF w < 0 THEN flags \cup {"LEFT"} ELSE flags
        /\ UNCHANGED <<state, lflags>>
     \/ /\ c \in Digits(10) /\ c # "0"
        /\ width' = ValueFrom(fmt, 1, 10)
        /\ fmt' = SubSeq(fmt, Skip(fmt, 1, Digits(10)), Len(fmt))
        /\ UNCHANGED <<state, flags, lflags>>
     \/ /\ ~ (c = "*" \/ (c \in Digits(10) /\ c # "0"))
        /\ Continue(c, "S_PRECIS")
        /\ UNCHANGED <<fmt, flags, width, lflags>>
  /\ PutNothing
  /\ UNCHANGED <<size, item, result>>

(* A precision is read and not used; behind ".*" the star stays. *)
S_PRECIS ==
  /\ state = "S_PRECIS"
  /\ fmt' = IF c # "." THEN fmt
            ELSE SubSeq(fmt, Skip(fmt, 2, Digits(10)), Len(fmt))
  /\ lflags' = ""
  /\ Continue(c, "S_LENGTH")
  /\ PutNothing
  /\ UNCHANGED <<flags, width, size, item, result>>

S_LENGTH ==
  /\ state = "S_LENGTH"
  /\ IF c \in {"h", "l", "L"}
     THEN /\ fmt' = Tail(fmt)
          /\ lflags' = CASE c = "h" -> IF lflags = "L_CHAR" THEN "L_SHORT" ELSE "L_CHAR"
                       [] c = "l" -> IF lflags = "L_LONG" THEN "L_LLONG" ELSE "L_LONG"
                       [] c = "L" -> "L_DOUBLE"
          /\ UNCHANGED state
     ELSE /\ Continue(c, "S_CONV")
          /\ UNCHANGED <<fmt, lflags>>
  /\ PutNothing
  /\ UNCHANGED <<flags, width, size, item, result>>

(* A number of the type va_arg is asked for.  The test for long long is on *)
(* bits, and the value of L_CHAR, which stands for one h, has one of them. *)
ArgumentOf(num) ==
  IF lflags = "L_LONG" THEN ToLong(num)
  ELSE IF lflags \in {"L_CHAR", "L_LLONG", "L_DOUBLE"} THEN num
  ELSE IF c \in {"d", "i"} THEN ToLong(num) ELSE num % WORD

PutNumber(num, base, fl) ==
  LET text == fmt_int(num, base, width, fl)
  IN  Put(text) /\ item' = [num |-> num, base |-> base, width |-> width, text |-> text]

BaseOf(ch) == CASE ch \in {"x", "X"} -> 16 [] ch = "o" -> 8 [] ch = "b" -> 2 [] OTHER -> 10

ConvNumber ==
  /\ c \in {"d", "i", "o", "b", "u", "x", "X"}
  /\ \E num \in Number :
       PutNumber(ArgumentOf(num), BaseOf(c),
                 flags \cup (IF c \in {"d", "i"} THEN {"SIGNED"} ELSE {})
                       \cup (IF c = "x" THEN {"SMALL"} ELSE {}))
  /\ state' = "S_DEFAULT"

ConvPointer ==
  /\ c = "p"
  /\ \E num \in Number : PutNumber(ToLong(num), 16, flags \cup {"SMALL", "ALTERNATE"})
  /\ state' = "S_DEFAULT"

(* "(null)" is printed for a null pointer. *)
ConvString ==
  /\ c = "s"
  /\ \E s \in String \cup {<<"(", "n", "u", "l", "l", ")">>} : Put(fmt_str(s, width, flags))
  /\ state' = "S_DEFAULT" /\ UNCHANGED item

(* The character printed takes the place of the one read. *)
ConvChar ==
  /\ c = "c"
  /\ \E ch \in {NUL, "a"} : Put(fmt_str(<<ch>>, width, flags)) /\ Continue(ch, "S_DEFAULT")
  /\ UNCHANGED item

ConvOther ==
  /\ c \notin {"d", "i", "o", "b", "u", "x", "X", "p", "s", "c"}
  /\ Put(IF c = "%" THEN <<c>> ELSE <<"%", c>>)
  /\ Continue(c, "S_DEFAULT") /\ UNCHANGED item

S_CONV ==
  /\ state = "S_CONV"
  /\ ConvNumber \/ ConvPointer \/ ConvString \/ ConvChar \/ ConvOther
  /\ fmt' = Tail(fmt)
  /\ UNCHANGED <<flags, width, lflags, size, result>>

(* Mutant of Return: NUL is put behind the text, however small the buffer. *)
Return_Behind ==
  /\ state = "break"
  /\ buf' = [p \in DOMAIN buf \cup {n - 1} |-> IF p = n - 1 THEN NUL ELSE buf[p]]
  /\ result' = n - 1 /\ state' = "write" /\ fmt' = <<>>
  /\ UNCHANGED <<flags, width, lflags, size, n, out, item>>

(* Behind the loop: the NUL of the format is counted in n, if the loop met *)
(* it in S_DEFAULT; the length is a size_t.                                *)
Return ==
  LET len == (n - 1) % WORD
      end == IF len < size THEN {len} ELSE IF size > 0 THEN {size - 1} ELSE {}
  IN  /\ state = "break"
      /\ buf' = [p \in DOMAIN buf \cup end |-> IF p \in end THEN NUL ELSE buf[p]]
      /\ result' = ToLong(len)
      /\ state' = "write" /\ fmt' = <<>>
      /\ UNCHANGED <<flags, width, lflags, size, n, out, item>>

FormatStep ==
  S_DEFAULT \/ S_FLAGS \/ S_WIDTH \/ S_PRECIS \/ S_LENGTH \/ S_CONV \/ Return

-----------------------------------------------------------------------------
(* vsnprintf writes nothing behind the buffer it was given, at any point   *)
(* of the call, whatever the format, the arguments and the size.           *)
StaysInBuffer == DOMAIN buf \subseteq 0..(size - 1)

(* When a call returns, the buffer holds as much of the text as fits, with *)
(* its NUL, and the length of the whole text is returned.  A format that   *)
(* ends inside a directive is excepted: it loses its last character.  So   *)
(* is a text that fills the address space, whose length wraps.             *)
BufferHoldsText ==
  state = "write" /\ out # <<>> /\ out[Len(out)] = NUL /\ Len(out) <= WORD =>
    LET k == IF Len(out) <= size THEN Len(out) - 1 ELSE size - 1
    IN  /\ result = ToLong(Len(out) - 1)
        /\ size > 0 => /\ 0..k \subseteq DOMAIN buf
                       /\ \A i \in 0..(k - 1) : buf[i] = out[i + 1]
                       /\ buf[k] = NUL

(* The text printed for a number is read back as that number by strtol, in *)
(* the same base, whatever the flags and the width; it is as wide as asked *)
(* for.                                                                    *)
NumbersReadBack ==
  item # NULL =>
    /\ strtol(item.text, item.base) = ToLong(item.num)
    /\ Len(item.text) >= item.width
=============================================================================
