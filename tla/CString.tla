------------------------------ MODULE CString -------------------------------
(***************************************************************************)
(* The routines of libc/string.c the kernel parses with.  A buffer is a    *)
(* function on the addresses 0 .. limit - 1, a string a pointer into it;   *)
(* its end is the first NUL from there on.  A scan that finds none stops   *)
(* at limit: the code would run on behind the buffer.  Where no buffer is  *)
(* written a string is just the sequence of its characters.                *)
(***************************************************************************)
EXTENDS Integers, Sequences

CONSTANTS NUL,     \* the character '\0'
          NULL,    \* the null pointer
          WORD     \* number of values of a long: 2^32

ASSUME CStringAssumption == WORD \in Nat /\ WORD > 1 /\ NULL \notin Nat

(* The first address from p on whose character is in S: the loops of       *)
(* strlen, strchr, strcmp and of the two tokenizers.                       *)
Scan(mem, p, S, limit) ==
  CHOOSE a \in p..limit : /\ a = limit \/ mem[a] \in S
                          /\ \A b \in p..(a - 1) : mem[b] \notin S

strlen(mem, p, limit) == Scan(mem, p, {NUL}, limit) - p

(* The characters strcmp compares and strcat copies. *)
StringAt(mem, p, limit) ==
  [i \in 1..strlen(mem, p, limit) |-> mem[p + i - 1]]

(* Mutant of Token: the next call begins at the NUL. *)
Token_Keep(mem, p, delim, limit) ==
  LET e == Scan(mem, p, delim \cup {NUL}, limit)
  IN  IF e = limit \/ mem[e] = NUL
      THEN [mem |-> mem, token |-> p, next |-> NULL, stray |-> e = limit]
      ELSE [mem |-> [mem EXCEPT ![e] = NUL], token |-> p, next |-> e, stray |-> FALSE]

(* What both tokenizers do with a token that begins at p: its end becomes  *)
(* NUL, and the next call begins behind it.                                *)
Token(mem, p, delim, limit) ==
  LET e == Scan(mem, p, delim \cup {NUL}, limit)
  IN  IF e = limit \/ mem[e] = NUL
      THEN [mem |-> mem, token |-> p, next |-> NULL, stray |-> e = limit]
      ELSE [mem |-> [mem EXCEPT ![e] = NUL], token |-> p, next |-> e + 1, stray |-> FALSE]

NoToken(mem, p, out) == [mem |-> mem, token |-> NULL, next |-> p, stray |-> out]

(* strtok, p being its argument or else the static next_token: delimiters  *)
(* in front of a token are not skipped.                                    *)
strtok(mem, p, delim, limit) ==
  IF p = NULL THEN NoToken(mem, NULL, FALSE)
  ELSE IF p = limit THEN NoToken(mem, p, TRUE)
  ELSE IF mem[p] = NUL THEN NoToken(mem, p, FALSE)
  ELSE Token(mem, p, delim, limit)

(* strtok_r skips them. *)
strtok_r(mem, p, delim, limit) ==
  LET q == IF p = NULL THEN limit
           ELSE CHOOSE a \in p..limit :
                  /\ a = limit \/ mem[a] \notin delim
                  /\ \A b \in p..(a - 1) : mem[b] \in delim
  IN  IF q = limit THEN NoToken(mem, NULL, p # NULL)
      ELSE IF mem[q] = NUL THEN NoToken(mem, NULL, FALSE)
      ELSE Token(mem, q, delim, limit)

-----------------------------------------------------------------------------
(* The white space of strtol; '\v' has no name in TLA+. *)
Space == {" ", "\t", "\n", "\f", "\r"}

Digit == <<"0", "1", "2", "3", "4", "5", "6", "7", "8", "9",
           "a", "b", "c", "d", "e", "f", "g", "h", "i", "j", "k", "l", "m",
           "n", "o", "p", "q", "r", "s", "t", "u", "v", "w", "x", "y", "z">>
Upper == <<"A", "B", "C", "D", "E", "F", "G", "H", "I", "J", "K", "L", "M",
           "N", "O", "P", "Q", "R", "S", "T", "U", "V", "W", "X", "Y", "Z">>

(* What may be in a string: any character, in particular those of the      *)
(* literals of the code.                                                   *)
Char == STRING
        \cup {"\r", "\n", " ", "-", "+", "%", "#", "'", "*", ".", "(", ")", "?", "/", "0", "I", "L", "X",
              "a", "b", "c", "d", "h", "i", "l", "n", "o", "p", "s", "u", "x"}
        \cup {Digit[i] : i \in 1..36} \cup {Upper[i] : i \in 1..26}

ASSUME CharAssumption == NUL \notin Char

(* The digits below base, and their values. *)
Digits(base) == {Digit[i] : i \in 1..base} \cup {Upper[i] : i \in 1..(base - 10)}
DigitValue(c) ==
  IF \E i \in 1..36 : Digit[i] = c
  THEN (CHOOSE i \in 1..36 : Digit[i] = c) - 1
  ELSE (CHOOSE i \in 1..26 : Upper[i] = c) + 9

(* The first position from i on whose character is not in S. *)
Skip(s, i, S) ==
  CHOOSE j \in i..(Len(s) + 1) : /\ j = Len(s) + 1 \/ s[j] \notin S
                                 /\ \A k \in i..(j - 1) : s[k] \in S

(* A long keeps the low bits of what is computed for it. *)
ToLong(x) == LET low == x % WORD IN IF 2 * low >= WORD THEN low - WORD ELSE low

(* The value of the digits from position i on, up to the first other one,  *)
(* as accumulated by strtol and by get_atoi of vsprintf.c.                 *)
ValueFrom(s, i, base) ==
  LET last == Skip(s, i, Digits(base)) - 1
      v[j \in (i - 1)..last] ==
        IF j < i THEN 0 ELSE ToLong(v[j - 1] * base + DigitValue(s[j]))
  IN  v[last]

At(s, i, S) == i <= Len(s) /\ s[i] \in S

(* strtol: white space, a sign, the prefix that gives the base or repeats  *)
(* it, digits.                                                             *)
strtol(s, base) ==
  LET a == Skip(s, 1, Space)
      b == IF At(s, a, {"-", "+"}) THEN a + 1 ELSE a
      hex == At(s, b, {"0"}) /\ At(s, b + 1, {"x", "X"})
      actual == IF base # 0 THEN base
                ELSE IF hex THEN 16 ELSE IF At(s, b, {"0"}) THEN 8 ELSE 10
      c == IF hex /\ base \in {0, 16} THEN b + 2
           ELSE IF base = 0 /\ At(s, b, {"0"}) THEN b + 1 ELSE b
      value == ValueFrom(s, c, actual)
  IN  IF At(s, a, {"-"}) THEN ToLong(-value) ELSE value
=============================================================================
